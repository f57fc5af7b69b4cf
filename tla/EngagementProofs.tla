--------------------------- MODULE EngagementProofs ---------------------------
(***************************************************************************)
(* Proofs about Engagement, for any posts, users, options, categories and  *)
(* clients: counters are the numbers of rows, a reader is not shown less   *)
(* than their own, a user has one vote, and a bookmark's category exists.  *)
(***************************************************************************)
EXTENDS Engagement, FiniteSetTheorems, TLAPS

Key == Counted \X Item \X Fan

Stage == {"none", "insert", "delete", "category", "reference", "count", "commit", "notify",
          "vote", "ballot", "voted", "create", "drop", "nullify", "dropped",
          "read", "flags", "polls", "selected", "shown"}

Call == [at : Stage, kind : Counted \cup {"vote", "create", "drop", Nil}, post : Item \cup {Nil},
         user : Fan \cup {Nil}, category : Category \cup {Nil}, option : Option \cup {Nil},
         delta : {-1, 0, 1}, refile : BOOLEAN, likes : Int, liked : BOOLEAN, total : Int,
         voted : BOOLEAN, met : BOOLEAN]

(* Users and requests are finitely many, Nil is no category and no stage, a category has an owner, and the tables to begin with agree. *)
Assumptions ==
  /\ IsFiniteSet(Fan) /\ IsFiniteSet(Client)
  /\ Nil \notin Category /\ Nil \notin Stage
  /\ OwnerOf \in [Category -> Fan]
  /\ \A s \in AtStart :
       /\ s.rows \subseteq Key /\ s.categories \subseteq Category
       /\ s.filed \in [Item \X Fan -> Category \cup {Nil}]
       /\ \A m \in Item \X Fan :
            s.filed[m] # Nil => /\ s.filed[m] \in s.categories /\ OwnerOf[s.filed[m]] = m[2]
                                /\ <<"bookmark", m[1], m[2]>> \in s.rows

-----------------------------------------------------------------------------
TablesOK ==
  /\ rows \subseteq Key
  /\ filed \in [Item \X Fan -> Category \cup {Nil}]
  /\ votes \subseteq Item \X Fan \X Option
  /\ categories \subseteq Category
  /\ count \in [Counted -> [Item -> Int]]
  /\ notes \in [Noted \X Item \X Fan -> Nat] /\ made \in [Noted \X Item \X Fan -> Nat]

CallOK == call \in [Client -> Call]

(* what is known of a request at each of its stages *)
Stages(x) ==
  /\ x.delta # 0 => x.at \in {"reference", "count", "commit", "voted"}
  /\ x.refile => x.at \in {"reference", "count", "commit"} /\ x.kind = "bookmark" /\ x.delta # -1
  /\ x.at \in {"insert", "delete", "category", "reference", "count", "commit"} =>
       x.kind \in Counted /\ x.post \in Item /\ x.user \in Fan
  /\ x.at \in {"vote", "ballot", "voted"} =>
       x.kind = "vote" /\ x.post \in Item /\ x.user \in Fan /\ x.option \in Option
  /\ x.at = "voted" => x.delta = 1
  /\ x.at \in Reading \cup {"read"} => x.post \in Item /\ x.user \in Fan
  /\ x.at = "notify" => x.kind \in Noted /\ x.post \in Item /\ x.user \in Fan
  /\ x.at = "category" => x.kind = "bookmark" /\ x.category \in Category
  /\ x.at = "reference" => x.refile /\ x.category \in Category
  /\ x.at = "delete" => x.category = Nil
  /\ x.at \in {"insert", "reference", "count", "commit"} /\ x.category # Nil => OwnerOf[x.category] = x.user
  /\ x.at \in {"create", "drop", "nullify", "dropped"} => x.category \in Category

(* What a request has inserted was not there and what it has deleted was; what it has
   filed is there, or is what it inserts. *)
KeyInv(c) ==
  /\ call[c].delta = 1 /\ call[c].at # "voted" => Row(c) \notin rows
  /\ call[c].at = "voted" => \A o \in Option : <<call[c].post, call[c].user, o>> \notin votes
  /\ call[c].delta = -1 => Row(c) \in rows
  /\ call[c].refile /\ call[c].delta = 0 => Row(c) \in rows

(* Two requests do not hold a key. *)
Apart == \A c, d \in Client : c # d /\ Holds(c) /\ Holds(d) => Row(c) # Row(d)

IInv == TablesOK /\ CallOK /\ Apart /\ \A c \in Client : Stages(call[c]) /\ KeyInv(c)

CountInv == \A k \in Counted, p \in Item : count[k][p] = Cardinality({u \in Fan : <<k, p, u>> \in rows})

(* What a reader has read is still so, or a commit has come between. *)
ReadInv(c) ==
  /\ call[c].at = "flags" => call[c].met \/ call[c].likes = count["like"][call[c].post]
  /\ call[c].at \in {"polls", "selected", "shown"} /\ call[c].liked => call[c].met \/ call[c].likes > 0
  /\ call[c].at = "selected" => call[c].met \/ call[c].total = Cardinality(Ballots(call[c].post))
  /\ call[c].at = "shown" /\ call[c].voted => call[c].met \/ call[c].total > 0

(* A category that a request refers to is there, and nobody has begun to delete it. *)
RefInv(c) ==
  call[c].refile /\ call[c].at \in {"count", "commit"} /\ call[c].category # Nil =>
    /\ call[c].category \in categories
    /\ \A d \in Client : call[d].at \in {"nullify", "dropped"} => call[d].category # call[c].category

FiledInv ==
  \A m \in Item \X Fan :
    filed[m] # Nil => /\ filed[m] \in categories /\ OwnerOf[filed[m]] = m[2]
                      /\ <<"bookmark", m[1], m[2]>> \in rows

VotesInv == IsFiniteSet(votes) /\ \A v, w \in votes : v[1] = w[1] /\ v[2] = w[2] => v = w

(* notifications sent, and those on their way *)
Notifying(k) == {c \in Client : call[c].at = "notify" /\ Row(c) = k}
NotesInv == \A k \in Noted \X Item \X Fan : notes[k] + Cardinality(Notifying(k)) <= made[k]

ReaderInv == \A c \in Client : ReadInv(c)
KeepInv == FiledInv /\ VotesInv /\ NotesInv /\ \A c \in Client : RefInv(c)

-----------------------------------------------------------------------------
(* The tables are as they were. *)
Still ==
  /\ rows' = rows /\ filed' = filed /\ votes' = votes /\ categories' = categories /\ count' = count
  /\ notes' = notes /\ made' = made

(* The others go on as they were. *)
Alone(c) == call' \in [Client -> Call] /\ \A d \in Client \ {c} : call'[d] = call[d]

LEMMA SetEffect ==
  ASSUME CallOK, NEW c \in Client, NEW new \in Call, Set(c, new)
  PROVE  Alone(c) /\ call'[c] = new
BY DEF CallOK, Set, Alone

LEMMA NoCallTyped ==
  /\ NoCall \in Call /\ NoCall.at = "none" /\ NoCall.delta = 0 /\ ~NoCall.refile
  /\ Stages(NoCall)
BY DEF NoCall, Call, Stage, Stages, Reading

(* what is known of one request *)
LEMMA Own ==
  ASSUME IInv, NEW c \in Client
  PROVE  call[c] \in Call /\ Stages(call[c]) /\ KeyInv(c)
BY DEF IInv, CallOK

LEMMA StillTables ==
  ASSUME TablesOK, Still
  PROVE  TablesOK' /\ rows' = rows /\ votes' = votes /\ count' = count
BY DEF TablesOK, Still

(* A step that changes one request, and neither rows nor votes, keeps the keys if that
   request has no key that is held, and knows what its stage says. *)
LEMMA QuietKeys ==
  ASSUME IInv, NEW c \in Client, TablesOK', rows' = rows, votes' = votes, Alone(c), Stages(call'[c]), KeyInv(c)',
         Holds(c)' => \A d \in Client \ {c} : Holds(d) => Row(d) # Row(c)'
  PROVE  IInv'
<1>1. TablesOK' /\ CallOK'
  BY DEF CallOK, Alone
<1>2. \A d \in Client \ {c} : (Holds(d)' <=> Holds(d)) /\ Row(d)' = Row(d)
  BY DEF Alone, Holds, Row
<1>3. Apart'
  <2> SUFFICES ASSUME NEW a \in Client, NEW b \in Client, a # b, Holds(a)', Holds(b)'
               PROVE  Row(a)' # Row(b)'
    BY DEF Apart
  <2>1. CASE a = c
    BY <1>2, <2>1
  <2>2. CASE b = c
    BY <1>2, <2>2
  <2>3. CASE a # c /\ b # c
    BY <1>2, <2>3 DEF IInv, Apart
  <2>4. QED
    BY <2>1, <2>2, <2>3
<1>4. ASSUME NEW d \in Client, d # c PROVE Stages(call'[d]) /\ KeyInv(d)'
  <2>1. Stages(call[d]) /\ KeyInv(d) /\ call'[d] = call[d] /\ Row(d)' = Row(d)
    BY <1>2, <1>4, Own DEF Alone
  <2>2. KeyInv(d)'
    BY <2>1 DEF KeyInv
  <2>3. QED
    BY <2>1, <2>2
<1>5. QED
  BY <1>1, <1>3, <1>4 DEF IInv

LEMMA QuietCounts ==
  ASSUME CountInv, ReaderInv, NEW c \in Client, rows' = rows, votes' = votes, count' = count,
         Alone(c), ReadInv(c)'
  PROVE  CountInv' /\ ReaderInv'
<1>1. CountInv'
  BY DEF CountInv
<1>2. ASSUME NEW d \in Client, d # c PROVE ReadInv(d)'
  <2>1. ReadInv(d) /\ call'[d] = call[d]
    BY <1>2 DEF ReaderInv, Alone
  <2>2. QED
    BY <2>1 DEF ReadInv, Ballots
<1>3. QED
  BY <1>1, <1>2 DEF ReaderInv

LEMMA QuietKeeps ==
  ASSUME KeepInv, NEW c \in Client, Still, Alone(c), RefInv(c)',
         call'[c].at \in {"nullify", "dropped"} =>
           \/ call[c].at \in {"nullify", "dropped"} /\ call'[c].category = call[c].category
           \/ \A d \in Client \ {c} : ~Refers(d, call'[c].category),
         call[c].at # "notify", call'[c].at # "notify"
  PROVE  KeepInv'
<1>1. FiledInv' /\ VotesInv'
  BY DEF KeepInv, FiledInv, VotesInv, Still
<1>2. NotesInv'
  <2>1. ASSUME NEW k \in Noted \X Item \X Fan PROVE Notifying(k)' = Notifying(k)
    <3>1. \A d \in Client : (call'[d].at = "notify" /\ Row(d)' = k) <=> (call[d].at = "notify" /\ Row(d) = k)
      BY DEF Alone, Row
    <3>2. QED
      BY <3>1 DEF Notifying
  <2>2. QED
    BY <2>1 DEF KeepInv, NotesInv, Still
<1>3. ASSUME NEW d \in Client, d # c PROVE RefInv(d)'
  <2>1. RefInv(d) /\ call'[d] = call[d] /\ categories' = categories
    BY <1>3 DEF KeepInv, Alone, Still
  <2> SUFFICES ASSUME call[d].refile, call[d].at \in {"count", "commit"}, call[d].category # Nil
               PROVE  /\ call[d].category \in categories
                      /\ \A e \in Client : call'[e].at \in {"nullify", "dropped"} => call'[e].category # call[d].category
    BY <2>1 DEF RefInv
  <2>2. call[d].category \in categories
        /\ \A e \in Client : call[e].at \in {"nullify", "dropped"} => call[e].category # call[d].category
    BY <2>1 DEF RefInv
  <2>3. ASSUME NEW e \in Client, call'[e].at \in {"nullify", "dropped"} PROVE call'[e].category # call[d].category
    <3>1. CASE e = c
      BY <1>3, <2>2, <2>3, <3>1 DEF Refers
    <3>2. CASE e # c
      BY <2>2, <2>3, <3>2 DEF Alone
    <3>3. QED
      BY <3>1, <3>2
  <2>4. QED
    BY <2>2, <2>3
<1>4. QED
  BY <1>1, <1>2, <1>3 DEF KeepInv

All == IInv /\ CountInv /\ ReaderInv /\ KeepInv

(* A request that holds nothing and has read nothing yet has nothing to answer for. *)
LEMMA Idle ==
  ASSUME All, NEW c \in Client, Still, Alone(c), Stages(call'[c]), call'[c].delta = 0, ~call'[c].refile,
         call[c].at # "notify",
         call'[c].at \notin {"voted", "nullify", "dropped", "notify", "flags", "polls", "selected", "shown"}
  PROVE  All'
<1>1. KeyInv(c)' /\ ReadInv(c)' /\ RefInv(c)' /\ ~Holds(c)'
  BY DEF KeyInv, ReadInv, RefInv, Holds
<1>2. QED
  BY <1>1, StillTables, QuietKeys, QuietCounts, QuietKeeps DEF All, IInv

-----------------------------------------------------------------------------
(* the record of a request that begins *)
NewCall(l, kind, p, u, k, o) ==
  [NoCall EXCEPT !.at = l, !.kind = kind, !.post = p, !.user = u, !.category = k, !.option = o]

LEMMA NewTyped ==
  ASSUME NEW l \in Stage, NEW kind \in Counted \cup {"vote", "create", "drop"},
         NEW p \in Item \cup {Nil}, NEW u \in Fan, NEW k \in Category \cup {Nil}, NEW o \in Option \cup {Nil}
  PROVE  LET y == NewCall(l, kind, p, u, k, o) IN
         /\ y \in Call /\ y.at = l /\ y.kind = kind /\ y.post = p /\ y.user = u
         /\ y.category = k /\ y.option = o /\ y.delta = 0 /\ ~y.refile
<1> DEFINE base == [NoCall EXCEPT !.at = l, !.kind = kind, !.post = p]
           y == NewCall(l, kind, p, u, k, o)
<1>1. NoCall \in Call /\ NoCall.delta = 0 /\ ~NoCall.refile
  BY NoCallTyped
<1>2. base \in Call /\ base.at = l /\ base.kind = kind /\ base.post = p /\ base.delta = NoCall.delta
  BY <1>1, ZenonT(60) DEF Call
<1>3. ~NoCall.refile => ~base.refile
  BY <1>1 DEF Call
<1>4. y = [base EXCEPT !.user = u, !.category = k, !.option = o]
  BY DEF NewCall
<1> HIDE DEF base, y
<1>5. y \in Call
  BY <1>2, <1>4 DEF Call
<1>6. y.user = u /\ y.category = k /\ y.option = o
  BY <1>2, <1>4 DEF Call
<1>7. /\ y.at = base.at /\ y.kind = base.kind /\ y.post = base.post /\ y.delta = base.delta
      /\ ~base.refile => ~y.refile
  BY <1>2, <1>4 DEF Call
<1>8. /\ y \in Call /\ y.at = l /\ y.kind = kind /\ y.post = p /\ y.user = u
      /\ y.category = k /\ y.option = o /\ y.delta = 0 /\ ~y.refile
  BY <1>1, <1>2, <1>3, <1>5, <1>6, <1>7
<1>9. QED
  BY <1>8 DEF y

(* BEGIN *)
LEMMA BeginInv ==
  ASSUME All, NEW c \in Client, NEW kind \in Counted \cup {"vote", "create", "drop"}, NEW p \in Item \cup {Nil},
         NEW u \in Fan, NEW l \in {"insert", "delete", "category", "vote", "create", "drop"},
         NEW k \in Category \cup {Nil}, NEW o \in Option \cup {Nil},
         l \in {"insert", "delete", "category"} => kind \in Counted /\ p \in Item,
         l \in {"insert", "delete"} => k = Nil,
         l = "category" => kind = "bookmark" /\ k \in Category,
         l = "vote" => kind = "vote" /\ p \in Item /\ o \in Option,
         l \in {"create", "drop"} => k \in Category,
         Begin(c, kind, p, u, l, k, o)
  PROVE  All'
<1> DEFINE new == NewCall(l, kind, p, u, k, o)
<1>1. l \in Stage
  BY DEF Stage
<1>2. call[c] = NoCall /\ Still /\ Set(c, new)
  BY DEF Begin, tables, Still, Set, NewCall
<1>3. /\ new \in Call /\ new.at = l /\ new.kind = kind /\ new.post = p /\ new.user = u
      /\ new.category = k /\ new.option = o /\ new.delta = 0 /\ ~new.refile
  BY <1>1, NewTyped
<1> HIDE DEF new
<1>4. Alone(c) /\ call'[c] = new
  BY <1>2, <1>3, SetEffect DEF All, IInv
<1>5. Stages(new)
  BY <1>3 DEF Stages, Reading
<1>6. QED
  BY <1>2, <1>4, <1>5, <1>3, NoCallTyped, Idle

LEMMA HandlerInv ==
  ASSUME Assumptions, All, NEW c \in Client,
         \/ Like(c) \/ Unlike(c) \/ Repost(c) \/ Unrepost(c) \/ Bookmark(c) \/ Unbookmark(c)
         \/ VotePoll(c) \/ GetPostByID(c) \/ CreateBookmarkCategory(c) \/ DeleteBookmarkCategory(c)
  PROVE  All'
<1>1. {"like", "repost", "bookmark", "view"} \subseteq Counted
  BY DEF Counted, Noted
<1>2. CASE Like(c) \/ Repost(c) \/ GetPostByID(c)
  BY <1>1, <1>2, BeginInv DEF Like, Repost, GetPostByID, ServeLike, ServeRepost, AddView
<1>3. CASE Unlike(c) \/ Unrepost(c) \/ Unbookmark(c)
  BY <1>1, <1>3, BeginInv DEF Unlike, Unrepost, Unbookmark, ServeUnlike, ServeUnrepost, ServeUnbookmark
<1>4. CASE Bookmark(c)
  <2>1. PICK p \in Item, u \in Fan, k \in Category \cup {Nil} :
          Begin(c, "bookmark", p, u, IF k = Nil THEN "insert" ELSE "category", k, Nil)
    BY <1>4 DEF Bookmark, ServeBookmark
  <2>2. CASE k = Nil
    <3>1. Begin(c, "bookmark", p, u, "insert", Nil, Nil)
      BY <2>1, <2>2
    <3>2. QED
      BY <1>1, <3>1, BeginInv
  <2>3. CASE k # Nil
    <3>1. Begin(c, "bookmark", p, u, "category", k, Nil)
      BY <2>1, <2>3
    <3>2. QED
      BY <1>1, <2>3, <3>1, BeginInv
  <2>4. QED
    BY <2>2, <2>3
<1>5. CASE VotePoll(c)
  BY <1>5, BeginInv DEF VotePoll, ServeVote
<1>6. CASE CreateBookmarkCategory(c) \/ DeleteBookmarkCategory(c)
  <2>1. PICK k \in Category : Begin(c, "create", Nil, OwnerOf[k], "create", k, Nil)
                              \/ Begin(c, "drop", Nil, OwnerOf[k], "drop", k, Nil)
    BY <1>6 DEF CreateBookmarkCategory, DeleteBookmarkCategory, ServeCategory, ServeDeletion
  <2>2. OwnerOf[k] \in Fan
    BY DEF Assumptions
  <2>3. QED
    BY <2>1, <2>2, BeginInv
<1>7. QED
  BY <1>2, <1>3, <1>4, <1>5, <1>6

(* The end of a request that is not to notify anybody. *)
LEMMA RollbackInv == ASSUME All, NEW c \in Client, call[c].at # "notify", Rollback(c) PROVE All'
<1>1. Still /\ Set(c, NoCall)
  BY DEF Rollback, tables, Still
<1>2. Alone(c) /\ call'[c] = NoCall
  BY <1>1, NoCallTyped, SetEffect DEF All, IInv
<1>3. QED
  BY <1>1, <1>2, NoCallTyped, Idle

LEMMA StepEffect ==
  ASSUME All, NEW c \in Client, NEW new \in Call, Step(c, new)
  PROVE  Still /\ Alone(c) /\ call'[c] = new
BY SetEffect DEF Step, tables, Still, All, IInv

(* a record at another stage *)
LEMMA AtTyped ==
  ASSUME NEW x \in Call, NEW l \in Stage
  PROVE  LET y == [x EXCEPT !.at = l] IN
         /\ y \in Call /\ y.at = l /\ y.kind = x.kind /\ y.post = x.post /\ y.user = x.user
         /\ y.category = x.category /\ y.option = x.option /\ y.delta = x.delta /\ y.refile = x.refile
         /\ y.likes = x.likes /\ y.liked = x.liked /\ y.total = x.total /\ y.voted = x.voted /\ y.met = x.met
BY DEF Call

(* A statement that only goes on, holding what it held. *)
LEMMA GoesOn ==
  ASSUME All, NEW c \in Client, Still, NEW l \in Stage, Set(c, [call[c] EXCEPT !.at = l]),
         Stages([call[c] EXCEPT !.at = l]),
         \/ call[c].delta = 0 /\ ~call[c].refile
         \/ call[c].at \in {"reference", "count", "commit"} /\ l \in {"count", "commit"},
         call[c].refile => call[c].at \in {"count", "commit"} \/ RefInv(c)',
         call[c].at # "notify",
         l \notin {"voted", "nullify", "dropped", "notify", "flags", "polls", "selected", "shown"}
  PROVE  All'
<1>1. call[c] \in Call /\ KeyInv(c) /\ Stages(call[c]) /\ CallOK
  BY Own DEF All, IInv
<1>2. Alone(c) /\ call'[c] = [call[c] EXCEPT !.at = l]
  BY <1>1, AtTyped, SetEffect
<1>3. /\ call'[c].at = l /\ call'[c].kind = call[c].kind /\ call'[c].post = call[c].post
      /\ call'[c].user = call[c].user /\ call'[c].category = call[c].category
      /\ call'[c].delta = call[c].delta /\ call'[c].refile = call[c].refile
  BY <1>1, <1>2, AtTyped
<1>4. Row(c)' = Row(c) /\ (Holds(c)' <=> Holds(c))
  BY <1>3 DEF Row, Holds
<1>5. KeyInv(c)'
  BY <1>1, <1>3, <1>4 DEF KeyInv, Still, Stages
<1>6. IInv'
  BY <1>2, <1>4, <1>5, StillTables, QuietKeys DEF All, IInv, Apart
<1>7. CountInv' /\ ReaderInv'
  BY <1>2, <1>3, StillTables, QuietCounts DEF All, IInv, ReadInv
<1>8. RefInv(c)'
  <2>1. CASE ~call[c].refile
    BY <1>3, <2>1 DEF RefInv
  <2>2. CASE call[c].refile /\ call[c].at \in {"count", "commit"}
    <3>1. RefInv(c) /\ categories' = categories
      BY DEF All, KeepInv, Still
    <3>2. \A d \in Client : call'[d].at \in {"nullify", "dropped"} => d # c /\ call'[d] = call[d]
      BY <1>2, <1>3 DEF Alone
    <3>3. call'[c].category = call[c].category
      BY <1>3
    <3>4. QED
      BY <2>2, <3>1, <3>2, <3>3 DEF RefInv
  <2>3. QED
    BY <2>1, <2>2
<1>9. KeepInv'
  BY <1>2, <1>3, <1>8, QuietKeeps DEF All
<1>10. QED
  BY <1>6, <1>7, <1>9 DEF All

LEMMA MoveOn ==
  ASSUME All, NEW c \in Client, NEW l \in Stage, Step(c, [call[c] EXCEPT !.at = l]),
         Stages([call[c] EXCEPT !.at = l]),
         \/ call[c].delta = 0 /\ ~call[c].refile
         \/ call[c].at \in {"reference", "count", "commit"} /\ l \in {"count", "commit"},
         call[c].refile => call[c].at \in {"count", "commit"} \/ RefInv(c)',
         call[c].at # "notify",
         l \notin {"voted", "nullify", "dropped", "notify", "flags", "polls", "selected", "shown"}
  PROVE  All'
<1>1. Still /\ Set(c, [call[c] EXCEPT !.at = l])
  BY DEF Step, tables, Still
<1>2. QED
  BY <1>1, GoesOn

(* what a stage knows, once the record is at another *)
LEMMA AtKnows ==
  ASSUME NEW x \in Call, NEW l \in Stage, Stages(x),
         \/ x.at = "category" /\ l = "insert" /\ OwnerOf[x.category] = x.user
         \/ x.at = "reference" /\ l \in {"count", "commit"}
         \/ x.at = "delete" /\ l = "commit"
         \/ x.at = "count" /\ l = "commit"
         \/ x.at = "vote" /\ l = "ballot"
         \/ x.at = "drop" /\ l = "nullify"
         \/ x.at = "nullify" /\ l = "dropped"
  PROVE  Stages([x EXCEPT !.at = l])
<1> DEFINE y == [x EXCEPT !.at = l]
<1>1. /\ y \in Call /\ y.at = l /\ y.kind = x.kind /\ y.post = x.post /\ y.user = x.user
      /\ y.category = x.category /\ y.option = x.option /\ y.delta = x.delta /\ y.refile = x.refile
  BY AtTyped
<1> HIDE DEF y
<1>2. Stages(y)
  BY <1>1 DEF Stages, Reading
<1>3. QED
  BY <1>2 DEF y

LEMMA CheckCategoryInv == ASSUME All, NEW c \in Client, CheckCategory(c) PROVE All'
<1>1. call[c] \in Call /\ Stages(call[c]) /\ call[c].at = "category" /\ "insert" \in Stage
  BY Own DEF All, CheckCategory, Stage
<1>2. CASE OwnerOf[call[c].category] = call[c].user /\ Step(c, [call[c] EXCEPT !.at = "insert"])
  <2>1. Stages([call[c] EXCEPT !.at = "insert"])
    BY <1>1, <1>2, AtKnows
  <2>2. call[c].delta = 0 /\ ~call[c].refile
    BY <1>1 DEF Stages
  <2>3. QED
    BY <1>1, <1>2, <2>1, <2>2, MoveOn
<1>3. CASE Rollback(c)
  BY <1>1, <1>3, RollbackInv
<1>4. QED
  BY <1>2, <1>3 DEF CheckCategory

LEMMA CheckReferenceInv == ASSUME All, NEW c \in Client, CheckReference(c) PROVE All'
<1>1. call[c] \in Call /\ Stages(call[c]) /\ call[c].at = "reference"
  BY Own DEF All, CheckReference
<1>2. CASE call[c].category \in categories
  <2> DEFINE l == IF call[c].delta = 1 THEN "count" ELSE "commit"
  <2>1. l \in {"count", "commit"} /\ l \in Stage /\ Step(c, [call[c] EXCEPT !.at = l])
    BY <1>2 DEF CheckReference, Stage
  <2> HIDE DEF l
  <2>2. Stages([call[c] EXCEPT !.at = l])
    BY <1>1, <2>1, AtKnows
  <2>3. [call[c] EXCEPT !.at = l] \in Call /\ [call[c] EXCEPT !.at = l].at = l
        /\ [call[c] EXCEPT !.at = l].category = call[c].category
    BY <1>1, <2>1, AtTyped
  <2>4. Still /\ Alone(c) /\ call'[c].at = l /\ call'[c].category = call[c].category
    BY <2>1, <2>3, StepEffect
  <2>5. \A d \in Client : call'[d].at \in {"nullify", "dropped"} =>
                            d # c /\ call'[d] = call[d] /\ call[d].category # call[c].category
    BY <2>1, <2>4 DEF Alone, CheckReference
  <2>6. RefInv(c)'
    BY <1>2, <2>4, <2>5 DEF RefInv, Still
  <2>7. QED
    BY <1>1, <2>1, <2>2, <2>6, MoveOn
<1>3. CASE Rollback(c)
  BY <1>1, <1>3, RollbackInv
<1>4. QED
  BY <1>2, <1>3 DEF CheckReference

LEMMA UpdateCountInv == ASSUME All, NEW c \in Client, UpdateCount(c) PROVE All'
<1>1. call[c] \in Call /\ Stages(call[c]) /\ call[c].at = "count" /\ "commit" \in Stage
  BY Own DEF All, UpdateCount, Stage
<1>2. Still /\ Set(c, [call[c] EXCEPT !.at = "commit"])
  BY DEF UpdateCount, tables, Still
<1>3. Stages([call[c] EXCEPT !.at = "commit"])
  BY <1>1, AtKnows
<1>4. QED
  BY <1>1, <1>2, <1>3, GoesOn

LEMMA VoteInv == ASSUME All, NEW c \in Client, Vote(c) PROVE All'
<1>1. call[c] \in Call /\ Stages(call[c]) /\ call[c].at = "vote" /\ "ballot" \in Stage
  BY Own DEF All, Vote, Stage
<1>2. CASE Step(c, [call[c] EXCEPT !.at = "ballot"])
  <2>1. Stages([call[c] EXCEPT !.at = "ballot"])
    BY <1>1, AtKnows
  <2>2. call[c].delta = 0 /\ ~call[c].refile
    BY <1>1 DEF Stages
  <2>3. QED
    BY <1>1, <1>2, <2>1, <2>2, MoveOn
<1>3. CASE Rollback(c)
  BY <1>1, <1>3, RollbackInv
<1>4. QED
  BY <1>2, <1>3 DEF Vote

-----------------------------------------------------------------------------
(* a record that has inserted, or deleted, or filed *)
Entered(x, l, d, r) == [x EXCEPT !.at = l, !.delta = d, !.refile = r]

LEMMA EnteredTyped ==
  ASSUME NEW x \in Call, NEW l \in Stage, NEW d \in {-1, 0, 1}, NEW r \in BOOLEAN
  PROVE  LET y == Entered(x, l, d, r) IN
         /\ y \in Call /\ y.at = l /\ y.delta = d /\ (y.refile <=> r)
         /\ y.kind = x.kind /\ y.post = x.post /\ y.user = x.user
         /\ y.category = x.category /\ y.option = x.option
BY DEF Entered, Call

(* A statement that takes a key which nobody holds. *)
LEMMA TakesKey ==
  ASSUME All, NEW c \in Client, NEW l \in Stage, NEW d \in {-1, 0, 1}, NEW r \in BOOLEAN,
         Step(c, Entered(call[c], l, d, r)), Stages(Entered(call[c], l, d, r)),
         l \in {"reference", "count", "commit", "voted"},
         call[c].at # "notify",
         d # 0 \/ r => KeyFree(c, Row(c)),
         d = 1 /\ l # "voted" => Row(c) \notin rows,
         l = "voted" => \A o \in Option : <<call[c].post, call[c].user, o>> \notin votes,
         d = -1 => Row(c) \in rows,
         r /\ d = 0 => Row(c) \in rows,
         r => l = "reference" \/ call[c].category = Nil
  PROVE  All'
<1> DEFINE y == Entered(call[c], l, d, r)
<1>1. call[c] \in Call
  BY Own DEF All
<1>2. /\ y \in Call /\ y.at = l /\ y.delta = d /\ (y.refile <=> r)
      /\ y.kind = call[c].kind /\ y.post = call[c].post /\ y.user = call[c].user
      /\ y.category = call[c].category /\ y.option = call[c].option
  BY <1>1, EnteredTyped
<1>3. Step(c, y) /\ Stages(y)
  OBVIOUS
<1> HIDE DEF y
<1>4. Still /\ Alone(c) /\ call'[c] = y
  BY <1>2, <1>3, StepEffect
<1>5. Row(c)' = Row(c) /\ (Holds(c)' <=> d # 0 \/ r)
  BY <1>2, <1>4 DEF Row, Holds
<1>6. KeyInv(c)'
  BY <1>2, <1>4, <1>5 DEF KeyInv, Still
<1>7. IInv'
  BY <1>3, <1>4, <1>5, <1>6, StillTables, QuietKeys DEF All, IInv, KeyFree
<1>8. CountInv' /\ ReaderInv'
  BY <1>2, <1>4, StillTables, QuietCounts DEF All, IInv, ReadInv
<1>9. RefInv(c)'
  BY <1>2, <1>4 DEF RefInv
<1>10. KeepInv'
  BY <1>2, <1>4, <1>9, QuietKeeps DEF All
<1>11. QED
  BY <1>7, <1>8, <1>10 DEF All

LEMMA InsertInv ==
  ASSUME All, NEW c \in Client, NEW kind \in Counted,
         NEW l \in {Nil, "reference"}, l # Nil <=> kind = "bookmark" /\ call[c].category # Nil,
         Insert(c, kind, l)
  PROVE  All'
<1> DEFINE new == Row(c) \notin rows
           d == IF new THEN 1 ELSE 0
           r == kind = "bookmark"
           m == IF l # Nil THEN l ELSE IF new THEN "count" ELSE "commit"
<1>1. call[c] \in Call /\ Stages(call[c]) /\ call[c].at = "insert" /\ call[c].kind = kind
  BY Own DEF All, Insert
<1>2. KeyFree(c, Row(c)) /\ Step(c, [call[c] EXCEPT !.delta = d, !.refile = r, !.at = m])
  BY DEF Insert
<1>3. [call[c] EXCEPT !.delta = d, !.refile = r, !.at = m] = Entered(call[c], m, d, r)
  BY <1>1 DEF Entered, Call
<1>4. /\ m \in {"reference", "count", "commit"} /\ m \in Stage /\ d \in {-1, 0, 1} /\ d # -1 /\ r \in BOOLEAN
      /\ d = 1 => Row(c) \notin rows
      /\ d = 0 => Row(c) \in rows
      /\ r => kind = "bookmark"
      /\ m = "reference" => r /\ call[c].category # Nil
      /\ r => m = "reference" \/ call[c].category = Nil
  BY DEF Stage
<1> HIDE DEF d, r, m
<1>5. Stages(Entered(call[c], m, d, r))
  <2> DEFINE y == Entered(call[c], m, d, r)
  <2>1. /\ y \in Call /\ y.at = m /\ y.delta = d /\ (y.refile <=> r)
        /\ y.kind = call[c].kind /\ y.post = call[c].post /\ y.user = call[c].user
        /\ y.category = call[c].category /\ y.option = call[c].option
    BY <1>1, <1>4, EnteredTyped
  <2> HIDE DEF y
  <2>2. y.category \in Category \cup {Nil}
    BY <2>1 DEF Call
  <2>3. Stages(y)
    BY <1>1, <1>4, <2>1, <2>2 DEF Stages, Reading
  <2>4. QED
    BY <2>3 DEF y
<1>6. QED
  BY <1>1, <1>2, <1>3, <1>4, <1>5, TakesKey

LEMMA DeleteInv == ASSUME All, NEW c \in Client, NEW kind \in Counted, Delete(c, kind) PROVE All'
<1>1. call[c] \in Call /\ Stages(call[c]) /\ call[c].at = "delete"
      /\ "count" \in Stage /\ "commit" \in Stage
  BY Own DEF All, Delete, Stage
<1>2. call[c].delta = 0 /\ ~call[c].refile /\ call[c].category = Nil
  BY <1>1 DEF Stages
<1>3. CASE Row(c) \in rows
  <2>1. PICK l \in Stage, d \in {-1, 0, 1}, r \in BOOLEAN : l = "count" /\ d = -1 /\ (r <=> call[c].refile)
    BY <1>1, <1>2
  <2> DEFINE y == Entered(call[c], l, d, r)
  <2>2. Step(c, [call[c] EXCEPT !.at = "count", !.delta = -1]) /\ KeyFree(c, Row(c))
    BY <1>3 DEF Delete
  <2>3. [call[c] EXCEPT !.at = "count", !.delta = -1] = y
    BY <1>1, <1>2, <2>1 DEF Entered, Call
  <2>4. call[c] \in Call /\ l \in Stage /\ d \in {-1, 0, 1} /\ r \in BOOLEAN
    BY <1>1, <2>1
  <2>5. /\ y \in Call /\ y.at = l /\ y.delta = d /\ (y.refile <=> r)
        /\ y.kind = call[c].kind /\ y.post = call[c].post /\ y.user = call[c].user
        /\ y.category = call[c].category /\ y.option = call[c].option
    BY <2>4, EnteredTyped
  <2> HIDE DEF y
  <2>6. Stages(y)
    BY <1>1, <1>2, <2>1, <2>5 DEF Stages, Reading
  <2>7. Step(c, Entered(call[c], l, d, r)) /\ Stages(Entered(call[c], l, d, r))
    BY <2>2, <2>3, <2>6 DEF y
  <2>8. QED
    BY <1>1, <1>2, <1>3, <2>1, <2>2, <2>7, TakesKey
<1>4. CASE Row(c) \notin rows
  <2>1. Step(c, [call[c] EXCEPT !.at = "commit"])
    BY <1>4 DEF Delete
  <2>2. Stages([call[c] EXCEPT !.at = "commit"])
    BY <1>1, AtKnows
  <2>3. QED
    BY <1>1, <1>2, <2>1, <2>2, MoveOn
<1>5. QED
  BY <1>3, <1>4

LEMMA StatementInv ==
  ASSUME Assumptions, All, NEW c \in Client,
         \/ InsertLike(c) \/ InsertRepost(c) \/ InsertView(c) \/ UpsertBookmark(c)
         \/ DeleteLike(c) \/ DeleteRepost(c) \/ DeleteBookmark(c)
  PROVE  All'
<1>1. {"like", "repost", "bookmark", "view"} \subseteq Counted
  BY DEF Counted, Noted
<1>2. CASE InsertLike(c) \/ InsertRepost(c) \/ InsertView(c)
  BY <1>1, <1>2, InsertInv DEF InsertLike, InsertRepost, InsertView
<1>3. CASE UpsertBookmark(c)
  <2>1. Nil # "reference"
    BY DEF Assumptions, Stage
  <2>2. CASE call[c].category # Nil
    BY <1>1, <1>3, <2>1, <2>2, InsertInv DEF UpsertBookmark
  <2>3. CASE call[c].category = Nil
    BY <1>1, <1>3, <2>3, InsertInv DEF UpsertBookmark
  <2>4. QED
    BY <2>2, <2>3
<1>4. CASE DeleteLike(c) \/ DeleteRepost(c) \/ DeleteBookmark(c)
  BY <1>1, <1>4, DeleteInv DEF DeleteLike, DeleteRepost, DeleteBookmark
<1>5. QED
  BY <1>2, <1>3, <1>4

LEMMA InsertVoteInv == ASSUME All, NEW c \in Client, InsertVote(c) PROVE All'
<1>1. call[c] \in Call /\ Stages(call[c]) /\ call[c].at = "ballot"
  BY Own DEF All, InsertVote
<1>2. call[c].delta = 0 /\ ~call[c].refile
  BY <1>1 DEF Stages
<1>3. CASE ~\E o \in Option : <<call[c].post, call[c].user, o>> \in votes
  <2>1. PICK l \in Stage, d \in {-1, 0, 1}, r \in BOOLEAN : l = "voted" /\ d = 1 /\ (r <=> call[c].refile)
    BY <1>1, <1>2 DEF Stage
  <2> DEFINE y == Entered(call[c], l, d, r)
  <2>2. Step(c, [call[c] EXCEPT !.at = "voted", !.delta = 1]) /\ KeyFree(c, Row(c))
    BY <1>3 DEF InsertVote
  <2>3. [call[c] EXCEPT !.at = "voted", !.delta = 1] = y
    BY <1>1, <1>2, <2>1 DEF Entered, Call
  <2>4. call[c] \in Call /\ l \in Stage /\ d \in {-1, 0, 1} /\ r \in BOOLEAN
    BY <1>1, <2>1
  <2>5. /\ y \in Call /\ y.at = l /\ y.delta = d /\ (y.refile <=> r)
        /\ y.kind = call[c].kind /\ y.post = call[c].post /\ y.user = call[c].user
        /\ y.category = call[c].category /\ y.option = call[c].option
    BY <2>4, EnteredTyped
  <2> HIDE DEF y
  <2>6. Stages(y)
    BY <1>1, <1>2, <2>1, <2>5 DEF Stages, Reading
  <2>7. Step(c, Entered(call[c], l, d, r)) /\ Stages(Entered(call[c], l, d, r))
    BY <2>2, <2>3, <2>6 DEF y
  <2>8. QED
    BY <1>1, <1>2, <1>3, <2>1, <2>2, <2>7, TakesKey
<1>4. CASE Rollback(c)
  BY <1>1, <1>4, RollbackInv
<1>5. QED
  BY <1>3, <1>4 DEF InsertVote

(* A request that deletes a category: nobody who refers to it is left. *)
LEMMA DropStep ==
  ASSUME All, NEW c \in Client, NEW l \in {"nullify", "dropped"}, Step(c, [call[c] EXCEPT !.at = l]),
         \/ call[c].at = "drop" /\ l = "nullify"
            /\ \A d \in Client \ {c} : ~Refers(d, call[c].category)
         \/ call[c].at = "nullify" /\ l = "dropped"
  PROVE  All'
<1> DEFINE y == [call[c] EXCEPT !.at = l]
<1>1. call[c] \in Call /\ Stages(call[c]) /\ l \in Stage
  BY Own DEF All, Stage
<1>2. Stages(y)
  BY <1>1, AtKnows
<1>3. y \in Call /\ y.at = l /\ y.category = call[c].category /\ y.delta = call[c].delta /\ y.refile = call[c].refile
  BY <1>1, AtTyped
<1>4. Step(c, y)
  OBVIOUS
<1> HIDE DEF y
<1>5. Still /\ Alone(c) /\ call'[c] = y
  BY <1>3, <1>4, StepEffect
<1>6. y.delta = 0 /\ ~y.refile
  BY <1>1, <1>3 DEF Stages
<1>7. KeyInv(c)' /\ ReadInv(c)' /\ RefInv(c)' /\ ~Holds(c)'
  BY <1>3, <1>5, <1>6 DEF KeyInv, ReadInv, RefInv, Holds
<1>8. IInv' /\ CountInv' /\ ReaderInv'
  BY <1>2, <1>5, <1>7, StillTables, QuietKeys, QuietCounts DEF All, IInv
<1>9. KeepInv'
  BY <1>3, <1>5, <1>7, QuietKeeps DEF All
<1>10. QED
  BY <1>8, <1>9 DEF All

LEMMA DeleteCategoryInv == ASSUME All, NEW c \in Client, DeleteCategory(c) \/ Unfile(c) PROVE All'
<1>1. CASE Rollback(c) /\ call[c].at = "drop"
  BY <1>1, RollbackInv
<1>2. CASE DeleteCategory(c) /\ Step(c, [call[c] EXCEPT !.at = "nullify"])
  BY <1>2, DropStep DEF DeleteCategory
<1>3. CASE Unfile(c)
  BY <1>3, DropStep DEF Unfile
<1>4. QED
  BY <1>1, <1>2, <1>3 DEF DeleteCategory

-----------------------------------------------------------------------------
(* a record that has read something *)
WithLikes(x, l, n) == [x EXCEPT !.at = l, !.likes = n]
WithTotal(x, l, n) == [x EXCEPT !.at = l, !.total = n]
WithLiked(x, l, b) == [x EXCEPT !.at = l, !.liked = b]
WithVoted(x, l, b) == [x EXCEPT !.at = l, !.voted = b]

LEMMA ReadTyped ==
  ASSUME NEW x \in Call, NEW l \in Stage, NEW n \in Int
  PROVE  /\ LET y == WithLikes(x, l, n) IN
            /\ y \in Call /\ y.at = l /\ y.delta = x.delta /\ y.refile = x.refile /\ y.likes = n
            /\ y.post = x.post /\ y.user = x.user /\ y.met = x.met
         /\ LET y == WithTotal(x, l, n) IN
            /\ y \in Call /\ y.at = l /\ y.delta = x.delta /\ y.refile = x.refile /\ y.total = n
            /\ y.post = x.post /\ y.user = x.user /\ y.met = x.met /\ y.liked = x.liked /\ y.likes = x.likes
BY DEF Call, WithLikes, WithTotal, WithLiked, WithVoted

LEMMA FlagTyped ==
  ASSUME NEW x \in Call, NEW l \in Stage, NEW b \in BOOLEAN
  PROVE  /\ LET y == WithLiked(x, l, b) IN
            /\ y \in Call /\ y.at = l /\ y.delta = x.delta /\ y.refile = x.refile /\ y.likes = x.likes
            /\ y.post = x.post /\ y.user = x.user /\ y.met = x.met /\ (y.liked <=> b)
         /\ LET y == WithVoted(x, l, b) IN
            /\ y \in Call /\ y.at = l /\ y.delta = x.delta /\ y.refile = x.refile /\ y.total = x.total
            /\ y.post = x.post /\ y.user = x.user /\ y.met = x.met /\ (y.voted <=> b)
            /\ y.liked = x.liked /\ y.likes = x.likes
BY DEF Call, WithLikes, WithTotal, WithLiked, WithVoted

(* What a reader reads changes nothing else. *)
LEMMA ReadStep ==
  ASSUME All, NEW c \in Client, NEW y \in Call, Step(c, y), y.at \in Reading, call[c].at \in Reading \cup {"read"},
         y.delta = call[c].delta, y.refile = call[c].refile, y.post = call[c].post, y.user = call[c].user,
         call'[c] = y => ReadInv(c)'
  PROVE  All'
<1>1. call[c] \in Call /\ Stages(call[c]) /\ y.delta = 0 /\ ~y.refile
      /\ call[c].at # "notify" /\ y.at \notin {"notify", "nullify", "dropped", "voted"}
  BY Own DEF All, Stages, Reading
<1>2. Still /\ Alone(c) /\ call'[c] = y
  BY StepEffect
<1>3. Stages(y)
  BY <1>1 DEF Stages, Reading
<1>4. KeyInv(c)' /\ RefInv(c)' /\ ~Holds(c)' /\ ReadInv(c)'
  BY <1>1, <1>2 DEF KeyInv, RefInv, Holds
<1>5. IInv' /\ CountInv' /\ ReaderInv'
  BY <1>2, <1>3, <1>4, StillTables, QuietKeys, QuietCounts DEF All, IInv
<1>6. KeepInv'
  BY <1>1, <1>2, <1>4, QuietKeeps DEF All
<1>7. QED
  BY <1>5, <1>6 DEF All

LEMMA GetFullPostInv == ASSUME All, NEW c \in Client, GetFullPostByID(c) PROVE All'
<1>1. call[c] \in Call /\ Stages(call[c]) /\ call[c].at = "read" /\ "flags" \in Stage /\ "like" \in Counted
  BY Own DEF All, GetFullPostByID, Stage, Counted, Noted
<1>2. CASE Rollback(c)
  BY <1>1, <1>2, RollbackInv
<1>3. CASE Step(c, [call[c] EXCEPT !.at = "flags", !.likes = count["like"][call[c].post]])
  <2> DEFINE n == count["like"][call[c].post]
             y == WithLikes(call[c], "flags", n)
  <2>1. call[c].post \in Item /\ n \in Int
    BY <1>1 DEF Stages, All, IInv, TablesOK
  <2> HIDE DEF n
  <2>2. /\ y \in Call /\ y.at = "flags" /\ y.delta = call[c].delta /\ y.refile = call[c].refile /\ y.likes = n
        /\ y.post = call[c].post /\ y.user = call[c].user /\ y.met = call[c].met
    BY <1>1, <2>1, ReadTyped
  <2>3. Step(c, y)
    BY <1>3 DEF n, WithLikes
  <2> HIDE DEF y
  <2>4. Still
    BY <2>2, <2>3, StepEffect
  <2>5. call'[c] = y => ReadInv(c)'
    BY <2>2, <2>4 DEF ReadInv, Still, n
  <2>6. QED
    BY <1>1, <2>2, <2>3, <2>5, ReadStep DEF Reading
<1>4. QED
  BY <1>2, <1>3 DEF GetFullPostByID

LEMMA HydrateEngagementInv == ASSUME Assumptions, All, NEW c \in Client, HydrateEngagement(c) PROVE All'
<1>1. call[c] \in Call /\ Stages(call[c]) /\ call[c].at = "flags" /\ "polls" \in Stage /\ "like" \in Counted
      /\ ReadInv(c) /\ CountInv
  BY Own DEF All, ReaderInv, HydrateEngagement, Stage, Counted, Noted
<1> DEFINE b == call[c].user \in Likers(call[c].post)
           y == WithLiked(call[c], "polls", b)
<1>2. call[c].post \in Item /\ b \in BOOLEAN
  BY <1>1 DEF Stages, Reading
<1>3. b => call[c].met \/ call[c].likes > 0
  <2> SUFFICES ASSUME b, ~call[c].met PROVE call[c].likes > 0
    OBVIOUS
  <2>1. call[c].likes = Cardinality(Likers(call[c].post))
    BY <1>1, <1>2 DEF ReadInv, CountInv, Likers
  <2>2. IsFiniteSet(Likers(call[c].post))
    BY FS_Subset DEF Assumptions, Likers
  <2>3. QED
    BY <2>1, <2>2, FS_EmptySet, FS_CardinalityType
<1>4. Step(c, y)
  BY DEF HydrateEngagement, WithLiked
<1> HIDE DEF b
<1>5. /\ y \in Call /\ y.at = "polls" /\ y.delta = call[c].delta /\ y.refile = call[c].refile
      /\ y.likes = call[c].likes
      /\ y.post = call[c].post /\ y.user = call[c].user /\ y.met = call[c].met /\ (y.liked <=> b)
  BY <1>1, <1>2, FlagTyped
<1> HIDE DEF y
<1>6. call'[c] = y => ReadInv(c)'
  BY <1>3, <1>5 DEF ReadInv
<1>7. QED
  BY <1>1, <1>4, <1>5, <1>6, ReadStep DEF Reading

LEMMA HydratePollsInv == ASSUME All, NEW c \in Client, HydratePolls(c) PROVE All'
<1>1. call[c] \in Call /\ Stages(call[c]) /\ call[c].at = "polls" /\ "selected" \in Stage
      /\ ReadInv(c)
  BY Own DEF All, ReaderInv, HydratePolls, Stage
<1> DEFINE n == Cardinality(Ballots(call[c].post))
           y == WithTotal(call[c], "selected", n)
<1>2. n \in Int
  <2>1. IsFiniteSet(Ballots(call[c].post))
    BY FS_Subset DEF All, KeepInv, VotesInv, Ballots
  <2>2. QED
    BY <2>1, FS_CardinalityType
<1>3. Step(c, y)
  BY DEF HydratePolls, WithTotal
<1> HIDE DEF n
<1>4. /\ y \in Call /\ y.at = "selected" /\ y.delta = call[c].delta /\ y.refile = call[c].refile /\ y.total = n
      /\ y.post = call[c].post /\ y.user = call[c].user /\ y.met = call[c].met
      /\ y.liked = call[c].liked /\ y.likes = call[c].likes
  BY <1>1, <1>2, ReadTyped
<1> HIDE DEF y
<1>5. Still
  BY <1>3, <1>4, StepEffect
<1>6. call'[c] = y => ReadInv(c)'
  BY <1>1, <1>4, <1>5 DEF ReadInv, Still, Ballots, n
<1>7. QED
  BY <1>1, <1>3, <1>4, <1>6, ReadStep DEF Reading

LEMMA GetSelectedInv == ASSUME All, NEW c \in Client, GetSelected(c) PROVE All'
<1>1. call[c] \in Call /\ Stages(call[c]) /\ call[c].at = "selected" /\ "shown" \in Stage
      /\ ReadInv(c)
  BY Own DEF All, ReaderInv, GetSelected, Stage
<1> DEFINE b == \E v \in Ballots(call[c].post) : v[2] = call[c].user
           y == WithVoted(call[c], "shown", b)
<1>2. b \in BOOLEAN
  OBVIOUS
<1>3. b => call[c].met \/ call[c].total > 0
  <2>1. IsFiniteSet(Ballots(call[c].post))
    BY FS_Subset DEF All, KeepInv, VotesInv, Ballots
  <2>2. b => Cardinality(Ballots(call[c].post)) > 0
    BY <2>1, FS_EmptySet, FS_CardinalityType
  <2>3. QED
    BY <1>1, <2>2 DEF ReadInv
<1>4. Step(c, y)
  BY DEF GetSelected, WithVoted
<1> HIDE DEF b
<1>5. /\ y \in Call /\ y.at = "shown" /\ y.delta = call[c].delta /\ y.refile = call[c].refile
      /\ y.total = call[c].total
      /\ y.post = call[c].post /\ y.user = call[c].user /\ y.met = call[c].met /\ (y.voted <=> b)
      /\ y.liked = call[c].liked /\ y.likes = call[c].likes
  BY <1>1, <1>2, FlagTyped
<1> HIDE DEF y
<1>6. call'[c] = y => ReadInv(c)'
  BY <1>1, <1>3, <1>5 DEF ReadInv
<1>7. QED
  BY <1>1, <1>4, <1>5, <1>6, ReadStep DEF Reading

LEMMA RespondInv == ASSUME All, NEW c \in Client, Respond(c) PROVE All'
BY RollbackInv DEF Respond

LEMMA FailInv == ASSUME All, NEW c \in Client, Fail(c) PROVE All'
<1>1. call[c] \in Call /\ Stages(call[c]) /\ call[c].at # "notify"
  BY Own DEF All, Fail
<1>2. CASE Rollback(c)
  BY <1>1, <1>2, RollbackInv
<1>3. CASE /\ call[c].kind = "view" /\ call[c].at \in {"insert", "count", "commit"}
           /\ Set(c, [call[c] EXCEPT !.at = "read", !.delta = 0]) /\ UNCHANGED <<tables, notes, made, others>>
  <2> DEFINE y == [call[c] EXCEPT !.at = "read", !.delta = 0]
  <2>1. /\ y \in Call /\ y.at = "read" /\ y.delta = 0 /\ y.refile = call[c].refile
        /\ y.post = call[c].post /\ y.user = call[c].user
    BY <1>1 DEF Call, Stage
  <2>2. Still /\ Set(c, y)
    BY <1>3 DEF tables, Still
  <2> HIDE DEF y
  <2>3. ~y.refile
    BY <1>1, <1>3, <2>1 DEF Stages
  <2>4. Stages(y)
    BY <1>1, <1>3, <2>1, <2>3 DEF Stages, Reading
  <2>5. Alone(c) /\ call'[c] = y
    BY <2>1, <2>2, SetEffect DEF All, IInv
  <2>6. QED
    BY <1>1, <2>1, <2>2, <2>3, <2>4, <2>5, Idle
<1>4. QED
  BY <1>2, <1>3 DEF Fail

-----------------------------------------------------------------------------
(* A commit that comes between the reads of another. *)
Met(x) == [x EXCEPT !.met = @ \/ x.at \in Reading]

SameButMet(x, y) ==
  /\ y.at = x.at /\ y.kind = x.kind /\ y.post = x.post /\ y.user = x.user
  /\ y.category = x.category /\ y.option = x.option
  /\ y.delta = x.delta /\ (y.refile <=> x.refile)
  /\ x.at \in Reading => y.met

Meets(c) == call' \in [Client -> Call] /\ \A d \in Client \ {c} : SameButMet(call[d], call'[d])

LEMMA MetTyped == ASSUME NEW x \in Call PROVE Met(x) \in Call /\ SameButMet(x, Met(x))
<1>1. PICK b \in BOOLEAN : b <=> x.met \/ x.at \in Reading
  OBVIOUS
<1> DEFINE y == [x EXCEPT !.met = b]
<1>2. Met(x) = y
  BY <1>1, Zenon DEF Met
<1>3. y \in Call /\ (y.met <=> b)
  BY <1>1 DEF Call
<1>4. /\ y.at = x.at /\ y.kind = x.kind /\ y.post = x.post /\ y.user = x.user
      /\ y.category = x.category /\ y.option = x.option /\ y.delta = x.delta /\ (y.refile <=> x.refile)
  BY <1>1 DEF Call
<1> HIDE DEF y
<1>5. SameButMet(x, y)
  BY <1>1, <1>3, <1>4 DEF SameButMet
<1>6. QED
  BY <1>2, <1>3, <1>5

LEMMA MeetsEffect ==
  ASSUME CallOK, NEW c \in Client, NEW new \in Call,
         call' = [d \in Client |-> IF d = c THEN new ELSE Met(call[d])]
  PROVE  Meets(c) /\ call'[c] = new
<1>1. \A d \in Client : call[d] \in Call
  BY DEF CallOK
<1>2. \A d \in Client : Met(call[d]) \in Call /\ SameButMet(call[d], Met(call[d]))
  BY <1>1, MetTyped
<1>3. QED
  BY <1>2 DEF Meets

LEMMA KeysMeet ==
  ASSUME IInv, NEW c \in Client, TablesOK', Meets(c), Stages(call'[c]), call'[c].delta = 0, ~call'[c].refile,
         \A d \in Client \ {c} : KeyInv(d)'
  PROVE  IInv'
<1>1. \A d \in Client \ {c} : (Holds(d)' <=> Holds(d)) /\ Row(d)' = Row(d)
  BY DEF Meets, SameButMet, Holds, Row
<1>2. Apart' /\ CallOK'
  BY <1>1 DEF IInv, Apart, Holds, Meets, CallOK
<1>3. KeyInv(c)'
  BY DEF KeyInv, Stages
<1>4. ASSUME NEW d \in Client \ {c} PROVE Stages(call'[d])
  BY Own DEF Meets, SameButMet, Stages
<1>5. QED
  BY <1>2, <1>3, <1>4 DEF IInv

LEMMA ReadersMeet ==
  ASSUME ReaderInv, NEW c \in Client, Meets(c), call'[c].at \notin {"flags", "polls", "selected", "shown"}
  PROVE  ReaderInv'
BY DEF ReaderInv, ReadInv, Meets, SameButMet, Reading

LEMMA RefsMeet ==
  ASSUME KeepInv, NEW c \in Client, Meets(c), categories' = categories, ~call'[c].refile,
         call'[c].at \notin {"nullify", "dropped"}
  PROVE  \A d \in Client : RefInv(d)'
<1> SUFFICES ASSUME NEW d \in Client, call'[d].refile, call'[d].at \in {"count", "commit"},
                    call'[d].category # Nil
             PROVE  /\ call'[d].category \in categories
                    /\ \A e \in Client : call'[e].at \in {"nullify", "dropped"} =>
                                           call'[e].category # call'[d].category
  BY DEF RefInv
<1>1. d # c /\ SameButMet(call[d], call'[d])
  BY DEF Meets
<1>2. /\ call[d].category \in categories
      /\ \A e \in Client : call[e].at \in {"nullify", "dropped"} => call[e].category # call[d].category
  BY <1>1 DEF KeepInv, RefInv, SameButMet
<1>3. \A e \in Client : call'[e].at \in {"nullify", "dropped"} => SameButMet(call[e], call'[e])
  BY DEF Meets
<1>4. QED
  BY <1>1, <1>2, <1>3 DEF SameButMet

LEMMA CommitVoteInv == ASSUME All, NEW c \in Client, CommitVote(c) PROVE All'
<1>1. call[c] \in Call /\ Stages(call[c]) /\ KeyInv(c) /\ call[c].at = "voted"
  BY Own DEF All, CommitVote
<1> DEFINE v0 == <<call[c].post, call[c].user, call[c].option>>
<1>2. /\ votes' = votes \cup {v0} /\ rows' = rows /\ filed' = filed /\ categories' = categories
      /\ count' = count /\ notes' = notes /\ made' = made
  BY DEF CommitVote
<1>3. call' = [d \in Client |-> IF d = c THEN NoCall ELSE Met(call[d])]
  BY DEF CommitVote, Met
<1>4. Meets(c) /\ call'[c] = NoCall
  BY <1>3, MeetsEffect, NoCallTyped DEF All, IInv
<1>5. call[c].kind = "vote" /\ call[c].post \in Item /\ call[c].user \in Fan /\ call[c].option \in Option
      /\ call[c].delta = 1 /\ \A o \in Option : <<call[c].post, call[c].user, o>> \notin votes
  BY <1>1 DEF Stages, KeyInv
<1>6. TablesOK'
  <2>1. votes' \subseteq Item \X Fan \X Option
    BY <1>2, <1>5 DEF All, IInv, TablesOK
  <2>2. QED
    BY <1>2, <2>1 DEF All, IInv, TablesOK
<1>7. ASSUME NEW d \in Client \ {c} PROVE KeyInv(d)'
  <2>1. KeyInv(d) /\ Stages(call[d]) /\ SameButMet(call[d], call'[d])
    BY <1>4, Own DEF All, Meets
  <2>2. Row(d)' = Row(d)
    BY <2>1 DEF Row, SameButMet
  <2>3. ASSUME call[d].at = "voted", NEW o \in Option
        PROVE  <<call[d].post, call[d].user, o>> \notin votes'
    <3>1. call[d].kind = "vote" /\ call[d].delta = 1 /\ <<call[d].post, call[d].user, o>> \notin votes
      BY <2>1, <2>3 DEF Stages, KeyInv
    <3>2. Row(c) # Row(d)
      BY <1>5, <3>1 DEF All, IInv, Apart, Holds
    <3>3. QED
      BY <1>2, <1>5, <3>1, <3>2 DEF Row
  <2>4. QED
    BY <1>2, <2>1, <2>2, <2>3 DEF KeyInv, SameButMet
<1>8. IInv'
  BY <1>4, <1>6, <1>7, KeysMeet, NoCallTyped DEF All
<1>9. CountInv' /\ ReaderInv' /\ \A d \in Client : RefInv(d)'
  BY <1>2, <1>4, ReadersMeet, RefsMeet, NoCallTyped DEF All, CountInv
<1>10. FiledInv'
  BY <1>2 DEF All, KeepInv, FiledInv
<1>11. VotesInv'
  <2>1. IsFiniteSet(votes')
    BY <1>2, FS_AddElement DEF All, KeepInv, VotesInv
  <2>2. \A v \in votes : ~(v[1] = v0[1] /\ v[2] = v0[2])
    <3> SUFFICES ASSUME NEW v \in votes, v[1] = v0[1], v[2] = v0[2] PROVE FALSE
      OBVIOUS
    <3>1. v = <<v[1], v[2], v[3]>> /\ v[3] \in Option
      BY DEF All, IInv, TablesOK
    <3>2. QED
      BY <1>5, <3>1
  <2>3. \A v, w \in votes : v[1] = w[1] /\ v[2] = w[2] => v = w
    BY DEF All, KeepInv, VotesInv
  <2> HIDE DEF v0
  <2>4. QED
    BY <1>2, <2>1, <2>2, <2>3 DEF VotesInv
<1>12. NotesInv'
  <2>1. ASSUME NEW k \in Noted \X Item \X Fan PROVE Notifying(k)' = Notifying(k)
    <3>1. \A d \in Client : (call'[d].at = "notify" /\ Row(d)' = k) <=> (call[d].at = "notify" /\ Row(d) = k)
      BY <1>1, <1>4, NoCallTyped DEF Meets, SameButMet, Row
    <3>2. QED
      BY <3>1 DEF Notifying
  <2>2. QED
    BY <1>2, <2>1 DEF All, KeepInv, NotesInv
<1>13. QED
  BY <1>8, <1>9, <1>10, <1>11, <1>12 DEF All, KeepInv

-----------------------------------------------------------------------------
(* COMMIT: what becomes of the request *)
Ended(x, l) == [x EXCEPT !.at = l, !.delta = 0]

After(x) ==
  IF x.kind = "view" THEN Ended(x, "read")
  ELSE IF x.delta = 1 /\ x.kind \in Noted THEN Ended(x, "notify")
  ELSE NoCall

LEMMA EndedTyped ==
  ASSUME NEW x \in Call, NEW l \in Stage
  PROVE  LET y == Ended(x, l) IN
         /\ y \in Call /\ y.at = l /\ y.delta = 0 /\ (y.refile <=> x.refile)
         /\ y.kind = x.kind /\ y.post = x.post /\ y.user = x.user
BY DEF Ended, Call

LEMMA AfterTyped ==
  ASSUME NEW x \in Call, Stages(x), x.at = "commit"
  PROVE  LET y == After(x) IN
         /\ y \in Call /\ Stages(y) /\ y.delta = 0 /\ ~y.refile
         /\ y.at \in {"none", "read", "notify"}
         /\ y.at = "notify" => x.delta = 1 /\ x.kind \in Noted
         /\ y.at = "notify" => y.kind = x.kind /\ y.post = x.post /\ y.user = x.user
         /\ x.delta = 1 /\ x.kind \in Noted => y.at = "notify"
<1> DEFINE y == After(x)
<1>1. "read" \in Stage /\ "notify" \in Stage /\ x.post \in Item /\ x.user \in Fan
      /\ "view" \notin Noted /\ "bookmark" \notin Noted /\ (x.refile => x.kind = "bookmark")
  BY DEF Stage, Stages, Noted
<1>2. CASE x.kind = "view"
  <2>1. y = Ended(x, "read")
    BY <1>2 DEF After
  <2>2. y \in Call /\ y.at = "read" /\ y.delta = 0 /\ ~y.refile /\ y.post = x.post /\ y.user = x.user
    BY <1>1, <1>2, <2>1, EndedTyped
  <2> HIDE DEF y
  <2>3. Stages(y)
    BY <1>1, <2>2 DEF Stages, Reading
  <2>4. QED
    BY <1>1, <1>2, <2>2, <2>3 DEF y
<1>3. CASE x.kind # "view" /\ x.delta = 1 /\ x.kind \in Noted
  <2>1. y = Ended(x, "notify")
    BY <1>3 DEF After
  <2>2. y \in Call /\ y.at = "notify" /\ y.delta = 0 /\ ~y.refile /\ y.kind = x.kind /\ y.post = x.post /\ y.user = x.user
    BY <1>1, <1>3, <2>1, EndedTyped
  <2> HIDE DEF y
  <2>3. Stages(y)
    BY <1>1, <1>3, <2>2 DEF Stages, Reading
  <2>4. QED
    BY <1>1, <1>3, <2>2, <2>3 DEF y
<1>4. CASE x.kind # "view" /\ ~(x.delta = 1 /\ x.kind \in Noted)
  <2>1. y = NoCall
    BY <1>4 DEF After
  <2> HIDE DEF y
  <2>2. QED
    BY <1>1, <1>4, <2>1, NoCallTyped DEF y
<1>5. QED
  BY <1>2, <1>3, <1>4

(* What a commit does to its request, and to the tables. *)
LEMMA CommitEffect ==
  ASSUME All, NEW c \in Client, Commit(c)
  PROVE  /\ call[c] \in Call /\ Stages(call[c]) /\ KeyInv(c) /\ RefInv(c) /\ call[c].at = "commit"
         /\ call[c].kind \in Counted /\ call[c].post \in Item /\ call[c].user \in Fan
         /\ call[c].delta \in {-1, 0, 1} /\ call[c].category \in Category \cup {Nil}
         /\ Meets(c) /\ call'[c] = After(call[c])
         /\ votes' = votes /\ categories' = categories /\ notes' = notes
<1>1. call[c] \in Call /\ Stages(call[c]) /\ KeyInv(c) /\ call[c].at = "commit" /\ CallOK /\ RefInv(c)
  BY Own DEF All, Commit, IInv, KeepInv
<1>2. call[c].kind \in Counted /\ call[c].post \in Item /\ call[c].user \in Fan
  BY <1>1 DEF Stages
<1>3. After(call[c]) \in Call /\ call[c].delta \in {-1, 0, 1} /\ call[c].category \in Category \cup {Nil}
  BY <1>1, AfterTyped DEF Call
<1>4. call' = [d \in Client |-> IF d = c THEN After(call[c]) ELSE Met(call[d])]
  BY DEF Commit, After, Ended, Met
<1>5. Meets(c) /\ call'[c] = After(call[c])
  BY <1>1, <1>3, <1>4, MeetsEffect
<1>6. QED
  BY <1>1, <1>2, <1>3, <1>5 DEF Commit

LEMMA CommitRows ==
  ASSUME All, NEW c \in Client, Commit(c)
  PROVE  /\ call[c].delta = 0 => rows' = rows
         /\ call[c].delta = 1 => rows' = rows \cup {Row(c)} /\ Row(c) \notin rows
         /\ call[c].delta = -1 => rows' = rows \ {Row(c)} /\ Row(c) \in rows
<1>1. /\ call[c].delta = 0 => rows' = rows
      /\ call[c].delta = 1 => rows' = rows \cup {Row(c)}
      /\ call[c].delta = -1 => rows' = rows \ {Row(c)}
  BY DEF Commit
<1>2. QED
  BY <1>1, CommitEffect DEF KeyInv

LEMMA CommitCount ==
  ASSUME All, NEW c \in Client, Commit(c)
  PROVE  /\ count' \in [Counted -> [Item -> Int]]
         /\ call[c].delta = 0 => count' = count
         /\ count'[call[c].kind][call[c].post] = count[call[c].kind][call[c].post] + call[c].delta
         /\ \A k \in Counted, p \in Item :
              ~(k = call[c].kind /\ p = call[c].post) => count'[k][p] = count[k][p]
<1> DEFINE k0 == call[c].kind
           p0 == call[c].post
           n == call[c].delta
<1>1. k0 \in Counted /\ p0 \in Item /\ n \in {-1, 0, 1} /\ count \in [Counted -> [Item -> Int]]
  BY CommitEffect DEF All, IInv, TablesOK
<1>2. (n = 0 => count' = count) /\ (n # 0 => count' = [count EXCEPT ![k0][p0] = @ + n])
  BY DEF Commit
<1> HIDE DEF k0, p0, n
<1>3. /\ count' \in [Counted -> [Item -> Int]]
      /\ n = 0 => count' = count
      /\ count'[k0][p0] = count[k0][p0] + n
      /\ \A k \in Counted, p \in Item : ~(k = k0 /\ p = p0) => count'[k][p] = count[k][p]
  <2>1. CASE n = 0
    BY <1>1, <1>2, <2>1
  <2>2. CASE n # 0
    BY <1>1, <1>2, <2>2
  <2>3. QED
    BY <2>1, <2>2
<1>4. QED
  BY <1>3 DEF k0, p0, n

LEMMA CommitFile ==
  ASSUME All, NEW c \in Client, Commit(c)
  PROVE  /\ filed' \in [Item \X Fan -> Category \cup {Nil}]
         /\ call[c].refile => filed'[Mark(c)] = call[c].category
         /\ ~call[c].refile /\ call[c].delta # 0 /\ call[c].kind = "bookmark" => filed'[Mark(c)] = Nil
         /\ ~call[c].refile /\ ~(call[c].delta # 0 /\ call[c].kind = "bookmark") => filed' = filed
         /\ \A m \in Item \X Fan : m # Mark(c) => filed'[m] = filed[m]
<1> DEFINE refile == call[c].refile
           gives == call[c].delta # 0 /\ call[c].kind = "bookmark"
           m0 == Mark(c)
           k0 == call[c].category
<1>1. m0 \in Item \X Fan /\ k0 \in Category \cup {Nil} /\ filed \in [Item \X Fan -> Category \cup {Nil}]
  BY CommitEffect DEF All, IInv, TablesOK, Mark
<1>2. /\ refile => filed' = [filed EXCEPT ![m0] = k0]
      /\ ~refile /\ gives => filed' = [filed EXCEPT ![m0] = Nil]
      /\ ~refile /\ ~gives => filed' = filed
  BY DEF Commit
<1> HIDE DEF refile, gives, m0, k0
<1>3. /\ filed' \in [Item \X Fan -> Category \cup {Nil}]
      /\ refile => filed'[m0] = k0
      /\ ~refile /\ gives => filed'[m0] = Nil
      /\ ~refile /\ ~gives => filed' = filed
      /\ \A m \in Item \X Fan : m # m0 => filed'[m] = filed[m]
  <2>1. CASE refile
    BY <1>1, <1>2, <2>1
  <2>2. CASE ~refile /\ gives
    BY <1>1, <1>2, <2>2
  <2>3. CASE ~refile /\ ~gives
    BY <1>1, <1>2, <2>3
  <2>4. QED
    BY <2>1, <2>2, <2>3
<1>4. QED
  BY <1>3 DEF refile, gives, m0, k0

LEMMA CommitMade ==
  ASSUME All, NEW c \in Client, Commit(c)
  PROVE  /\ made' \in [Noted \X Item \X Fan -> Nat]
         /\ call[c].delta = 1 /\ call[c].kind \in Noted => made'[Row(c)] = made[Row(c)] + 1
         /\ ~(call[c].delta = 1 /\ call[c].kind \in Noted) => made' = made
         /\ \A k \in Noted \X Item \X Fan : k # Row(c) => made'[k] = made[k]
<1> DEFINE noted == call[c].delta = 1 /\ call[c].kind \in Noted
           r == Row(c)
<1>1. (noted => r \in Noted \X Item \X Fan) /\ made \in [Noted \X Item \X Fan -> Nat]
  BY CommitEffect DEF All, IInv, TablesOK, Row
<1>2. (noted => made' = [made EXCEPT ![r] = @ + 1]) /\ (~noted => made' = made)
  BY DEF Commit
<1> HIDE DEF noted, r
<1>3. /\ made' \in [Noted \X Item \X Fan -> Nat]
      /\ noted => made'[r] = made[r] + 1
      /\ ~noted => made' = made
      /\ \A k \in Noted \X Item \X Fan : k # r => made'[k] = made[k]
  BY <1>1, <1>2
<1>4. QED
  BY <1>3 DEF noted, r

LEMMA CommitTables == ASSUME All, NEW c \in Client, Commit(c) PROVE TablesOK'
<1>1. TablesOK /\ Row(c) \in Key
  BY CommitEffect DEF All, IInv, Row, Key
<1>2. rows' \subseteq Key
  BY <1>1, CommitRows, CommitEffect DEF TablesOK
<1>3. QED
  BY <1>1, <1>2, CommitEffect, CommitCount, CommitFile, CommitMade DEF TablesOK

LEMMA CommitKeys == ASSUME All, NEW c \in Client, Commit(c) PROVE IInv'
<1>1. /\ call[c] \in Call /\ Stages(call[c]) /\ call[c].at = "commit" /\ Meets(c) /\ call'[c] = After(call[c])
      /\ votes' = votes
  BY CommitEffect
<1>2. Stages(call'[c]) /\ call'[c].delta = 0 /\ ~call'[c].refile
  BY <1>1, AfterTyped
<1>3. \A r : r # Row(c) => (r \in rows' <=> r \in rows)
  BY CommitEffect, CommitRows
<1>4. call[c].delta = 0 => rows' = rows
  BY CommitRows
<1>5. ASSUME NEW d \in Client \ {c} PROVE KeyInv(d)'
  <2>1. KeyInv(d) /\ SameButMet(call[d], call'[d])
    BY <1>1, Own DEF All, Meets
  <2>2. Row(d)' = Row(d)
    BY <2>1 DEF Row, SameButMet
  <2>3. Holds(d) => (Row(d) \in rows' <=> Row(d) \in rows)
    BY <1>3, <1>4 DEF All, IInv, Apart, Holds
  <2>4. QED
    BY <1>1, <2>1, <2>2, <2>3 DEF KeyInv, SameButMet, Holds
<1>6. QED
  BY <1>1, <1>2, <1>5, CommitTables, KeysMeet DEF All

LEMMA CommitCounts == ASSUME Assumptions, All, NEW c \in Client, Commit(c) PROVE CountInv'
<1> DEFINE x == call[c]
           S(k, p) == {u \in Fan : <<k, p, u>> \in rows}
<1>1. /\ x \in Call /\ KeyInv(c) /\ x.at = "commit" /\ x.kind \in Counted /\ x.post \in Item /\ x.user \in Fan
      /\ Row(c) = <<x.kind, x.post, x.user>>
  BY CommitEffect DEF Row
<1>2. count \in [Counted -> [Item -> Int]] /\ CountInv
  BY DEF All, IInv, TablesOK
<1> SUFFICES ASSUME NEW k \in Counted, NEW p \in Item
             PROVE  count'[k][p] = Cardinality({u \in Fan : <<k, p, u>> \in rows'})
  BY DEF CountInv
<1>3. IsFiniteSet(S(k, p)) /\ count[k][p] = Cardinality(S(k, p)) /\ Cardinality(S(k, p)) \in Nat
  <2>1. IsFiniteSet(S(k, p))
    BY FS_Subset DEF Assumptions
  <2>2. Cardinality(S(k, p)) \in Nat
    BY <2>1, FS_CardinalityType
  <2>3. QED
    BY <1>2, <2>1, <2>2 DEF CountInv
<1>4. CASE x.delta = 0
  BY <1>3, <1>4, CommitRows, CommitCount
<1>5. CASE x.delta # 0 /\ ~(k = x.kind /\ p = x.post)
  <2>1. count'[k][p] = count[k][p]
    BY <1>5, CommitCount
  <2>2. {u \in Fan : <<k, p, u>> \in rows'} = S(k, p)
    <3>1. \A u \in Fan : <<k, p, u>> # Row(c)
      BY <1>1, <1>5
    <3>2. QED
      BY <1>1, <3>1, CommitRows, CommitEffect
  <2>3. QED
    BY <1>3, <2>1, <2>2
<1>6. CASE x.delta # 0 /\ k = x.kind /\ p = x.post
  <2>1. count'[k][p] = count[k][p] + x.delta
    BY <1>6, CommitCount
  <2>2. \A u \in Fan : <<k, p, u>> = Row(c) <=> u = x.user
    BY <1>1, <1>6
  <2>3. CASE x.delta = 1
    <3>1. rows' = rows \cup {Row(c)} /\ Row(c) \notin rows
      BY <2>3, CommitRows
    <3>2. {u \in Fan : <<k, p, u>> \in rows'} = S(k, p) \cup {x.user} /\ x.user \notin S(k, p)
      BY <1>1, <2>2, <3>1
    <3>3. Cardinality(S(k, p) \cup {x.user}) = Cardinality(S(k, p)) + 1
      BY <1>3, <3>2, FS_AddElement
    <3>4. QED
      BY <1>3, <2>1, <2>3, <3>2, <3>3
  <2>4. CASE x.delta = -1
    <3>1. rows' = rows \ {Row(c)} /\ Row(c) \in rows
      BY <2>4, CommitRows
    <3>2. {u \in Fan : <<k, p, u>> \in rows'} = S(k, p) \ {x.user} /\ x.user \in S(k, p)
      BY <1>1, <2>2, <3>1
    <3>3. Cardinality(S(k, p) \ {x.user}) = Cardinality(S(k, p)) - 1
      BY <1>3, <3>2, FS_RemoveElement
    <3>4. QED
      BY <1>3, <2>1, <2>4, <3>2, <3>3
  <2>5. QED
    BY <1>6, <2>3, <2>4, CommitEffect
<1>7. QED
  BY <1>4, <1>5, <1>6

LEMMA CommitFiled == ASSUME All, NEW c \in Client, Commit(c) PROVE FiledInv'
<1> DEFINE x == call[c]
<1>1. /\ x \in Call /\ Stages(x) /\ KeyInv(c) /\ RefInv(c) /\ x.at = "commit"
      /\ x.kind \in Counted /\ x.post \in Item /\ x.user \in Fan
      /\ Row(c) = <<x.kind, x.post, x.user>> /\ Mark(c) = <<x.post, x.user>> /\ categories' = categories
  BY CommitEffect DEF Row, Mark
<1>2. FiledInv /\ filed \in [Item \X Fan -> Category \cup {Nil}]
  BY DEF All, IInv, TablesOK, KeepInv
<1> SUFFICES ASSUME NEW p \in Item, NEW u \in Fan, filed'[<<p, u>>] # Nil
             PROVE  /\ filed'[<<p, u>>] \in categories /\ OwnerOf[filed'[<<p, u>>]] = u
                    /\ <<"bookmark", p, u>> \in rows'
  BY <1>1 DEF FiledInv
<1> DEFINE m == <<p, u>>
<1>3. m \in Item \X Fan
  OBVIOUS
<1>4. filed[m] # Nil => filed[m] \in categories /\ OwnerOf[filed[m]] = u /\ <<"bookmark", p, u>> \in rows
  BY <1>2, <1>3 DEF FiledInv
<1>5. CASE x.refile
  <2>1. x.kind = "bookmark" /\ x.delta # -1 /\ (x.category # Nil => OwnerOf[x.category] = x.user /\ x.category \in categories)
    BY <1>1, <1>5 DEF Stages, RefInv
  <2>2. x.delta = 0 => Row(c) \in rows
    BY <1>1, <1>5 DEF KeyInv
  <2>3. Row(c) \in rows' /\ rows \subseteq rows'
    BY <2>1, <2>2, CommitRows, CommitEffect
  <2>4. CASE m = Mark(c)
    BY <1>1, <1>5, <2>1, <2>3, <2>4, CommitFile
  <2>5. CASE m # Mark(c)
    BY <1>3, <1>4, <2>3, <2>5, CommitFile
  <2>6. QED
    BY <2>4, <2>5
<1>6. CASE ~x.refile /\ x.kind = "bookmark" /\ x.delta # 0
  <2>1. m # Mark(c) /\ filed'[m] = filed[m]
    BY <1>3, <1>6, CommitFile
  <2>2. <<"bookmark", p, u>> # Row(c)
    BY <1>1, <2>1
  <2>3. <<"bookmark", p, u>> \in rows => <<"bookmark", p, u>> \in rows'
    BY <2>2, CommitRows, CommitEffect
  <2>4. QED
    BY <1>4, <2>1, <2>3
<1>7. CASE ~x.refile /\ ~(x.kind = "bookmark" /\ x.delta # 0)
  <2>1. filed' = filed
    BY <1>7, CommitFile
  <2>2. <<"bookmark", p, u>> \in rows => <<"bookmark", p, u>> \in rows'
    BY <1>1, <1>7, CommitRows, CommitEffect
  <2>3. QED
    BY <1>4, <2>1, <2>2
<1>8. QED
  BY <1>5, <1>6, <1>7

LEMMA CommitNotes == ASSUME Assumptions, All, NEW c \in Client, Commit(c) PROVE NotesInv'
<1> DEFINE x == call[c]
           y == call'[c]
<1>1. x \in Call /\ Stages(x) /\ x.at = "commit" /\ Meets(c) /\ y = After(x) /\ notes' = notes
  BY CommitEffect
<1>2. /\ y.at \in {"none", "read", "notify"}
      /\ y.at = "notify" <=> x.delta = 1 /\ x.kind \in Noted
      /\ y.at = "notify" => y.kind = x.kind /\ y.post = x.post /\ y.user = x.user
  BY <1>1, AfterTyped
<1> HIDE DEF y
<1>3. notes \in [Noted \X Item \X Fan -> Nat] /\ made \in [Noted \X Item \X Fan -> Nat] /\ NotesInv
  BY DEF All, IInv, TablesOK, KeepInv
<1> SUFFICES ASSUME NEW k \in Noted \X Item \X Fan
             PROVE  notes[k] + Cardinality(Notifying(k)') <= made'[k]
  BY <1>1 DEF NotesInv
<1>4. IsFiniteSet(Notifying(k)) /\ Cardinality(Notifying(k)) \in Nat /\ c \notin Notifying(k)
      /\ notes[k] + Cardinality(Notifying(k)) <= made[k] /\ notes[k] \in Nat /\ made[k] \in Nat
  BY <1>1, <1>3, FS_Subset, FS_CardinalityType DEF Assumptions, Notifying, NotesInv
<1>5. \A d \in Client \ {c} : (call'[d].at = "notify" /\ Row(d)' = k) <=> (call[d].at = "notify" /\ Row(d) = k)
  BY <1>1 DEF Meets, SameButMet, Row
<1>6. y.at = "notify" => Row(c)' = Row(c)
  BY <1>2 DEF Row, y
<1>7. CASE y.at = "notify" /\ Row(c) = k
  <2>1. Notifying(k)' = Notifying(k) \cup {c}
    BY <1>5, <1>6, <1>7 DEF Notifying, y
  <2>2. made'[k] = made[k] + 1
    BY <1>2, <1>7, CommitMade
  <2>3. Cardinality(Notifying(k) \cup {c}) = Cardinality(Notifying(k)) + 1
    BY <1>4, FS_AddElement
  <2>4. QED
    BY <1>4, <2>1, <2>2, <2>3
<1>8. CASE ~(y.at = "notify" /\ Row(c) = k)
  <2>1. Notifying(k)' = Notifying(k)
    BY <1>1, <1>5, <1>6, <1>8 DEF Notifying, y
  <2>2. made'[k] = made[k]
    BY <1>2, <1>8, CommitMade
  <2>3. QED
    BY <1>4, <2>1, <2>2
<1>9. QED
  BY <1>7, <1>8

LEMMA CommitInv == ASSUME Assumptions, All, NEW c \in Client, Commit(c) PROVE All'
<1>1. call[c] \in Call /\ Stages(call[c]) /\ call[c].at = "commit" /\ Meets(c) /\ call'[c] = After(call[c])
      /\ votes' = votes /\ categories' = categories
  BY CommitEffect
<1>2. call'[c].at \in {"none", "read", "notify"} /\ ~call'[c].refile
  BY <1>1, AfterTyped
<1>3. ReaderInv' /\ \A d \in Client : RefInv(d)'
  BY <1>1, <1>2, ReadersMeet, RefsMeet DEF All
<1>4. VotesInv'
  BY <1>1 DEF All, KeepInv, VotesInv
<1>5. QED
  BY <1>3, <1>4, CommitKeys, CommitCounts, CommitFiled, CommitNotes DEF All, KeepInv

-----------------------------------------------------------------------------
LEMMA NotifyInv == ASSUME Assumptions, All, NEW c \in Client, Notify(c) PROVE All'
<1>1. call[c] \in Call /\ Stages(call[c]) /\ call[c].at = "notify" /\ CallOK /\ TablesOK
  BY Own DEF All, IInv, Notify
<1>2. call[c].kind \in Noted /\ call[c].post \in Item /\ call[c].user \in Fan
  BY <1>1 DEF Stages
<1>3. /\ rows' = rows /\ filed' = filed /\ votes' = votes /\ categories' = categories /\ count' = count
      /\ made' = made /\ Set(c, NoCall)
  BY DEF Notify, tables
<1>4. PICK sent \in 0 .. 1 : notes' = [notes EXCEPT ![Row(c)] = @ + sent]
  BY DEF Notify
<1>5. Alone(c) /\ call'[c] = NoCall
  BY <1>1, <1>3, NoCallTyped, SetEffect
<1>6. Row(c) \in Noted \X Item \X Fan
  BY <1>2 DEF Row
<1>7. notes' \in [Noted \X Item \X Fan -> Nat] /\ notes'[Row(c)] = notes[Row(c)] + sent
      /\ \A k \in Noted \X Item \X Fan : k # Row(c) => notes'[k] = notes[k]
  BY <1>1, <1>4, <1>6 DEF TablesOK
<1>8. TablesOK'
  BY <1>1, <1>3, <1>7 DEF TablesOK
<1>9. KeyInv(c)' /\ ReadInv(c)' /\ ~Holds(c)'
  BY <1>5, NoCallTyped DEF KeyInv, ReadInv, Holds
<1>10. IInv' /\ CountInv' /\ ReaderInv'
  BY <1>3, <1>5, <1>8, <1>9, NoCallTyped, QuietKeys, QuietCounts DEF All
<1>11. FiledInv' /\ VotesInv'
  BY <1>3 DEF All, KeepInv, FiledInv, VotesInv
<1>12. \A d \in Client : RefInv(d)'
  <2>1. \A d \in Client : (call'[d].refile => d # c) /\ (call'[d].at \in {"nullify", "dropped"} => d # c)
    BY <1>5, NoCallTyped
  <2>2. QED
    BY <1>3, <1>5, <2>1 DEF All, KeepInv, RefInv, Alone
<1>13. ASSUME NEW k \in Noted \X Item \X Fan
       PROVE  notes'[k] + Cardinality(Notifying(k)') <= made'[k]
  <2>1. IsFiniteSet(Notifying(k)) /\ Cardinality(Notifying(k)) \in Nat
    BY FS_Subset, FS_CardinalityType DEF Assumptions, Notifying
  <2>2. notes[k] + Cardinality(Notifying(k)) <= made[k] /\ notes[k] \in Nat /\ made[k] \in Nat /\ made'[k] = made[k]
    BY <1>1, <1>3 DEF All, KeepInv, NotesInv, TablesOK
  <2>3. \A d \in Client \ {c} : (call'[d].at = "notify" /\ Row(d)' = k) <=> (call[d].at = "notify" /\ Row(d) = k)
    BY <1>5 DEF Alone, Row
  <2>4. Notifying(k)' = Notifying(k) \ {c}
    BY <1>5, <2>3, NoCallTyped DEF Notifying
  <2>5. CASE k = Row(c)
    <3>1. c \in Notifying(k)
      BY <1>1, <2>5 DEF Notifying
    <3>2. Cardinality(Notifying(k) \ {c}) = Cardinality(Notifying(k)) - 1
      BY <2>1, <3>1, FS_RemoveElement
    <3>3. notes'[k] = notes[k] + sent /\ sent \in 0 .. 1
      BY <1>4, <1>7, <2>5
    <3>4. QED
      BY <2>1, <2>2, <2>4, <3>2, <3>3
  <2>6. CASE k # Row(c)
    <3>1. Notifying(k)' = Notifying(k)
      BY <2>4, <2>6 DEF Notifying
    <3>2. QED
      BY <1>7, <2>2, <2>6, <3>1
  <2>7. QED
    BY <2>5, <2>6
<1>14. NotesInv'
  BY <1>13 DEF NotesInv
<1>15. QED
  BY <1>10, <1>11, <1>12, <1>14 DEF All, KeepInv

(* A category that appears, or goes: the request is over, no key is held anew. *)
LEMMA CategoryStep ==
  ASSUME All, NEW c \in Client, call[c].at \in {"create", "dropped"}, Set(c, NoCall),
         rows' = rows, votes' = votes, count' = count, notes' = notes, made' = made,
         categories' \subseteq Category, filed' \in [Item \X Fan -> Category \cup {Nil}], FiledInv',
         \A d \in Client \ {c} : call[d].refile /\ call[d].at \in {"count", "commit"}
                                 /\ call[d].category \in categories => call[d].category \in categories'
                                                                       \/ call[d].category = Nil
  PROVE  All'
<1>1. CallOK /\ TablesOK
  BY DEF All, IInv
<1>2. Alone(c) /\ call'[c] = NoCall
  BY <1>1, NoCallTyped, SetEffect
<1>3. TablesOK'
  BY <1>1 DEF TablesOK
<1>4. KeyInv(c)' /\ ReadInv(c)' /\ ~Holds(c)'
  BY <1>2, NoCallTyped DEF KeyInv, ReadInv, Holds
<1>5. IInv' /\ CountInv' /\ ReaderInv'
  BY <1>2, <1>3, <1>4, NoCallTyped, QuietKeys, QuietCounts DEF All
<1>6. VotesInv'
  BY DEF All, KeepInv, VotesInv
<1>7. \A d \in Client : RefInv(d)'
  <2>1. \A d \in Client : (call'[d].refile => d # c) /\ (call'[d].at \in {"nullify", "dropped"} => d # c)
    BY <1>2, NoCallTyped
  <2>2. QED
    BY <1>2, <2>1 DEF All, KeepInv, RefInv, Alone
<1>8. NotesInv'
  <2>1. ASSUME NEW k \in Noted \X Item \X Fan PROVE Notifying(k)' = Notifying(k)
    <3>1. \A d \in Client : (call'[d].at = "notify" /\ Row(d)' = k) <=> (call[d].at = "notify" /\ Row(d) = k)
      BY <1>2, NoCallTyped DEF Alone, Row
    <3>2. QED
      BY <3>1 DEF Notifying
  <2>2. QED
    BY <2>1 DEF All, KeepInv, NotesInv
<1>9. QED
  BY <1>5, <1>6, <1>7, <1>8 DEF All, KeepInv

LEMMA InsertCategoryInv == ASSUME All, NEW c \in Client, InsertCategory(c) PROVE All'
<1>1. call[c].at = "create" /\ call[c].category \in Category /\ categories' = categories \cup {call[c].category}
      /\ TablesOK /\ FiledInv
  BY Own DEF All, IInv, KeepInv, InsertCategory, Stages
<1>2. Set(c, NoCall) /\ rows' = rows /\ votes' = votes /\ count' = count /\ notes' = notes /\ made' = made /\ filed' = filed
  BY DEF InsertCategory
<1>3. categories' \subseteq Category /\ FiledInv'
  BY <1>1, <1>2 DEF TablesOK, FiledInv
<1>4. QED
  BY <1>1, <1>2, <1>3, CategoryStep DEF TablesOK

LEMMA CommitDropInv == ASSUME Assumptions, All, NEW c \in Client, CommitDrop(c) PROVE All'
<1> DEFINE k == call[c].category
<1>1. call[c].at = "dropped" /\ k \in Category /\ categories' = categories \ {k} /\ TablesOK /\ FiledInv
      /\ filed' = [m \in Item \X Fan |-> IF filed[m] = k THEN Nil ELSE filed[m]]
  BY Own DEF All, IInv, KeepInv, CommitDrop, Stages
<1>2. Set(c, NoCall) /\ rows' = rows /\ votes' = votes /\ count' = count /\ notes' = notes /\ made' = made
  BY DEF CommitDrop
<1>3. \A d \in Client \ {c} : call[d].refile /\ call[d].at \in {"count", "commit"} => call[d].category # k \/ call[d].category = Nil
  BY <1>1 DEF All, KeepInv, RefInv
<1> HIDE DEF k
<1>4. categories' \subseteq Category /\ filed' \in [Item \X Fan -> Category \cup {Nil}]
  BY <1>1 DEF TablesOK
<1>5. FiledInv'
  BY <1>1, <1>2 DEF FiledInv
<1>6. QED
  BY <1>1, <1>2, <1>3, <1>4, <1>5, CategoryStep

LEMMA UnchangedInv == ASSUME All, Still, call' = call PROVE All'
<1>1. TablesOK' /\ CallOK'
  BY StillTables DEF All, IInv, CallOK
<1>2. Apart' /\ \A c \in Client : Stages(call'[c]) /\ KeyInv(c)' /\ ReadInv(c)' /\ RefInv(c)'
  BY DEF All, IInv, ReaderInv, KeepInv, Apart, Holds, Row, KeyInv, ReadInv, RefInv, Ballots, Still
<1>3. CountInv' /\ FiledInv' /\ VotesInv'
  BY DEF All, KeepInv, CountInv, FiledInv, VotesInv, Still
<1>4. NotesInv'
  <2>1. \A k \in Noted \X Item \X Fan : Notifying(k)' = Notifying(k)
    BY DEF Notifying, Row
  <2>2. QED
    BY <2>1 DEF All, KeepInv, NotesInv, Still
<1>5. QED
  BY <1>1, <1>2, <1>3, <1>4 DEF All, IInv, ReaderInv, KeepInv

LEMMA InitInv == ASSUME Assumptions, Init PROVE All
<1>1. PICK s \in AtStart :
        /\ rows = s.rows /\ categories = s.categories /\ filed = s.filed
        /\ count = [k \in Counted |-> [p \in Item |-> Cardinality({u \in Fan : <<k, p, u>> \in s.rows})]]
  BY DEF Init
<1>2. /\ rows \subseteq Key /\ categories \subseteq Category /\ filed \in [Item \X Fan -> Category \cup {Nil}]
      /\ FiledInv
  BY <1>1 DEF Assumptions, FiledInv
<1>3. CountInv /\ count \in [Counted -> [Item -> Int]]
  <2>1. ASSUME NEW k \in Counted, NEW p \in Item
        PROVE  Cardinality({u \in Fan : <<k, p, u>> \in rows}) \in Int
    <3>1. IsFiniteSet({u \in Fan : <<k, p, u>> \in rows})
      BY FS_Subset DEF Assumptions
    <3>2. QED
      BY <3>1, FS_CardinalityType
  <2>2. count = [k \in Counted |-> [p \in Item |-> Cardinality({u \in Fan : <<k, p, u>> \in rows})]]
    BY <1>1
  <2>3. QED
    BY <2>1, <2>2 DEF CountInv
<1>4. votes = {} /\ VotesInv
  BY FS_EmptySet DEF Init, VotesInv
<1>5. notes = [k \in Noted \X Item \X Fan |-> 0] /\ made = [k \in Noted \X Item \X Fan |-> 0]
      /\ call = [c \in Client |-> NoCall]
  BY DEF Init
<1>6. TablesOK
  BY <1>2, <1>3, <1>4, <1>5 DEF TablesOK
<1>7. CallOK /\ \A c \in Client : call[c] = NoCall
  BY <1>5, NoCallTyped DEF CallOK
<1>8. Apart /\ \A c \in Client : Stages(call[c]) /\ KeyInv(c) /\ ReadInv(c) /\ RefInv(c)
  BY <1>7, NoCallTyped DEF Apart, Holds, KeyInv, ReadInv, RefInv
<1>9. NotesInv
  <2>1. \A k \in Noted \X Item \X Fan : Notifying(k) = {}
    BY <1>7, NoCallTyped DEF Notifying
  <2>2. \A k \in Noted \X Item \X Fan : notes[k] = 0 /\ made[k] = 0
    BY <1>5
  <2>3. Cardinality({}) = 0
    BY FS_EmptySet
  <2>4. \A k \in Noted \X Item \X Fan : Cardinality(Notifying(k)) = 0
    BY <2>1, <2>3
  <2>5. QED
    BY <2>2, <2>4 DEF NotesInv
<1>10. QED
  BY <1>2, <1>3, <1>4, <1>6, <1>7, <1>8, <1>9 DEF All, IInv, ReaderInv, KeepInv

-----------------------------------------------------------------------------
LEMMA NextInv == ASSUME Assumptions, All, Next PROVE All'
<1>1. ASSUME NEW c \in Client,
             \/ Like(c) \/ Unlike(c) \/ Repost(c) \/ Unrepost(c) \/ Bookmark(c) \/ Unbookmark(c)
             \/ VotePoll(c) \/ GetPostByID(c) \/ CreateBookmarkCategory(c) \/ DeleteBookmarkCategory(c)
      PROVE  All'
  BY <1>1, HandlerInv
<1>2. ASSUME NEW c \in Client,
             \/ InsertLike(c) \/ InsertRepost(c) \/ InsertView(c) \/ UpsertBookmark(c)
             \/ DeleteLike(c) \/ DeleteRepost(c) \/ DeleteBookmark(c)
      PROVE  All'
  BY <1>2, StatementInv
<1>3. ASSUME NEW c \in Client,
             \/ CheckCategory(c) \/ CheckReference(c) \/ UpdateCount(c)
             \/ Commit(c) \/ Notify(c) \/ Fail(c)
      PROVE  All'
  BY <1>3, CheckCategoryInv, CheckReferenceInv, UpdateCountInv, CommitInv, NotifyInv, FailInv
<1>4. ASSUME NEW c \in Client,
             \/ Vote(c) \/ InsertVote(c) \/ CommitVote(c)
             \/ InsertCategory(c) \/ DeleteCategory(c) \/ Unfile(c) \/ CommitDrop(c)
      PROVE  All'
  BY <1>4, VoteInv, InsertVoteInv, CommitVoteInv, InsertCategoryInv, DeleteCategoryInv, CommitDropInv
<1>5. ASSUME NEW c \in Client,
             GetFullPostByID(c) \/ HydrateEngagement(c) \/ HydratePolls(c) \/ GetSelected(c) \/ Respond(c)
      PROVE  All'
  BY <1>5, GetFullPostInv, HydrateEngagementInv, HydratePollsInv, GetSelectedInv, RespondInv
<1>6. CASE DeletePost \/ PollEnds
  BY <1>6, UnchangedInv DEF DeletePost, PollEnds, tables, Still
<1>7. QED
  BY <1>1, <1>2, <1>3, <1>4, <1>5, <1>6 DEF Next

LEMMA Matching == ASSUME All PROVE CountersMatch
BY DEF All, CountersMatch, CountInv, ReaderInv, ReadInv

LEMMA Kept == ASSUME Assumptions, All PROVE KeysAreKept
<1>1. ASSUME NEW k \in Noted \X Item \X Fan PROVE notes[k] <= made[k]
  <2>1. Cardinality(Notifying(k)) \in Nat
    BY FS_Subset, FS_CardinalityType DEF Assumptions, Notifying
  <2>2. notes[k] + Cardinality(Notifying(k)) <= made[k] /\ notes[k] \in Nat /\ made[k] \in Nat
    BY DEF All, IInv, TablesOK, KeepInv, NotesInv
  <2>3. QED
    BY <2>1, <2>2
<1>2. QED
  BY <1>1 DEF All, KeepInv, VotesInv, FiledInv, KeysAreKept

(* The invariant: tables and requests are of their types, two requests do not hold a key
   of a row, and what a request has done agrees with the rows as the others see them. *)
THEOREM Invariance == ASSUME Assumptions PROVE Spec => []All
<1>1. Init => All
  BY InitInv
<1>2. All /\ [Next]_vars => All'
  <2> SUFFICES ASSUME All, [Next]_vars PROVE All'
    OBVIOUS
  <2>1. CASE Next
    BY <2>1, NextInv
  <2>2. CASE UNCHANGED vars
    BY <2>2, UnchangedInv DEF vars, tables, Still
  <2>3. QED
    BY <2>1, <2>2
<1>3. QED
  BY <1>1, <1>2, PTL DEF Spec

(* Each counter on the row of a post is the number of its rows, whatever is sent twice,
   races, or fails; a reader is shown at least their own like and vote. *)
THEOREM CountersMatchHolds == ASSUME Assumptions PROVE Spec => []CountersMatch
<1>1. All => CountersMatch
  BY Matching
<1>2. Spec => []All
  BY Invariance
<1>3. QED
  BY <1>1, <1>2, PTL

(* A like or repost is notified at most once for each time it was given, a user has one
   vote in a poll, and a bookmark is in a category that there is and is the user's own. *)
THEOREM KeysAreKeptHolds == ASSUME Assumptions PROVE Spec => []KeysAreKept
<1>1. All => KeysAreKept
  BY Kept
<1>2. Spec => []All
  BY Invariance
<1>3. QED
  BY <1>1, <1>2, PTL
-----------------------------------------------------------------------------
(* what the invariant does not speak of: the locks, and what has been deleted or has ended *)
LocksOK == postLock \in [Item -> Client \cup {Nil}] /\ gone \subseteq Item /\ ended \subseteq Item

LEMMA LocksRest == ASSUME LocksOK, UNCHANGED <<postLock, gone, ended>> PROVE LocksOK'
BY DEF LocksOK

LEMMA LocksRelease == ASSUME LocksOK, NEW c \in Client, Release(c), UNCHANGED <<gone, ended>> PROVE LocksOK'
BY DEF LocksOK, Release

LEMMA LocksKept == ASSUME LocksOK, [Next]_vars PROVE LocksOK'
<1>1. ASSUME NEW c \in Client,
             \/ Like(c) \/ Unlike(c) \/ Repost(c) \/ Unrepost(c) \/ Bookmark(c) \/ Unbookmark(c)
             \/ VotePoll(c) \/ GetPostByID(c) \/ CreateBookmarkCategory(c) \/ DeleteBookmarkCategory(c)
      PROVE  LocksOK'
  BY <1>1, LocksRest, ZenonT(60)
     DEF Like, Unlike, Repost, Unrepost, Bookmark, Unbookmark, VotePoll, GetPostByID,
         CreateBookmarkCategory, DeleteBookmarkCategory, ServeLike, ServeUnlike, ServeRepost,
         ServeUnrepost, ServeBookmark, ServeUnbookmark, ServeVote, AddView, ServeCategory,
         ServeDeletion, Begin
<1>2. ASSUME NEW c \in Client,
             \/ InsertLike(c) \/ InsertRepost(c) \/ InsertView(c) \/ UpsertBookmark(c)
             \/ DeleteLike(c) \/ DeleteRepost(c) \/ DeleteBookmark(c)
             \/ HydrateEngagement(c) \/ HydratePolls(c) \/ GetSelected(c)
             \/ InsertCategory(c) \/ Unfile(c) \/ CommitDrop(c) \/ CommitVote(c) \/ Notify(c)
      PROVE  LocksOK'
  BY <1>2, LocksRest
     DEF InsertLike, InsertRepost, InsertView, UpsertBookmark, Insert, DeleteLike, DeleteRepost,
         DeleteBookmark, Delete, HydrateEngagement, HydratePolls, GetSelected, InsertCategory, Unfile,
         CommitDrop, CommitVote, Notify, Step, others
<1>3. ASSUME NEW c \in Client,
             \/ CheckCategory(c) \/ CheckReference(c) \/ Vote(c) \/ InsertVote(c) \/ DeleteCategory(c)
             \/ GetFullPostByID(c) \/ Respond(c)
      PROVE  LocksOK'
  BY <1>3, LocksRest, LocksRelease
     DEF CheckCategory, CheckReference, Vote, InsertVote, DeleteCategory, GetFullPostByID, Respond,
         Rollback, Step, others
<1>4. ASSUME NEW c \in Client, Commit(c) \/ Fail(c) PROVE LocksOK'
  BY <1>4, LocksRelease DEF Commit, Fail, Rollback, others
<1>5. ASSUME NEW c \in Client, UpdateCount(c) PROVE LocksOK'
  BY <1>5 DEF LocksOK, UpdateCount, others
<1>6. CASE DeletePost \/ PollEnds
  BY <1>6 DEF LocksOK, DeletePost, PollEnds
<1>7. CASE UNCHANGED vars
  BY <1>7, LocksRest DEF vars, others
<1>8. QED
  BY <1>1, <1>2, <1>3, <1>4, <1>5, <1>6, <1>7, SMTT(30) DEF Next

(* The tables, the counters and the locks are of their types; a counter that is lowered by
   deletes that race does not fall below zero. *)
THEOREM TypeCorrect == ASSUME Assumptions PROVE Spec => []EngagementTypeOK
<1>1. Init => LocksOK
  BY DEF Init, LocksOK
<1>2. LocksOK /\ [Next]_vars => LocksOK'
  BY LocksKept
<1>3. All /\ LocksOK => EngagementTypeOK
  <2> SUFFICES ASSUME All, LocksOK PROVE EngagementTypeOK
    OBVIOUS
  <2>1. ASSUME NEW k \in Counted, NEW p \in Item PROVE count[k][p] \in Nat
    <3>1. IsFiniteSet({u \in Fan : <<k, p, u>> \in rows})
      BY FS_Subset DEF Assumptions
    <3>2. QED
      BY <3>1, FS_CardinalityType DEF All, CountInv
  <2>2. count \in [Counted -> [Item -> Nat]]
    BY <2>1 DEF All, IInv, TablesOK
  <2>3. QED
    BY <2>2 DEF All, IInv, TablesOK, LocksOK, EngagementTypeOK, Key
<1>4. QED
  BY <1>1, <1>2, <1>3, Invariance, PTL DEF Spec
=============================================================================
