----------------------------- MODULE Engagement -----------------------------
(***************************************************************************)
(* Likes, reposts, bookmarks and their categories, views, and votes: rows  *)
(* of a post and a user, counted on the post's row by triggers. Statements *)
(* and trigger updates of a transaction are actions. A row that an open    *)
(* transaction inserts, deletes or changes is locked by its key; the row   *)
(* of the post from the trigger's UPDATE to the COMMIT.                    *)
(*                                                                         *)
(* Replies and quotes are counted in the same way, and only ever go up:    *)
(* a post is deleted by a flag, which fires no trigger.                    *)
(***************************************************************************)
EXTENDS Integers, FiniteSets

CONSTANTS
  Item,        \* posts
  Fan,         \* users
  Option,      \* of a poll
  Category,    \* bookmark categories, by owner and name
  OwnerOf,     \* OwnerOf[k]: the owner
  Client,      \* requests
  Nil,
  AtStart,     \* tables to begin with: the rows, the categories, and where bookmarks are filed
  MaxCalls     \* bound: requests started

Reading == {"flags", "polls", "selected", "shown"}
Noted == {"like", "repost"}
Counted == Noted \cup {"bookmark", "view"}

VARIABLES
  rows,       \* <<kind, post, user>>: the four tables
  filed,      \* filed[<<post, user>>]: the category of a bookmark
  votes,      \* <<post, user, option>>
  categories, \* those that exist
  count,      \* count[kind][post]: the counter on the row of the post
  postLock,   \* postLock[post]: who has updated a counter of it
  call,       \* call[c]: the request of client c, see NoCall
  gone,       \* posts that have been deleted
  ended,      \* polls that have ended
  notes,      \* notes[row]: notifications sent
  made,       \* made[row]: times that the row was inserted and committed
  calls       \* requests started

tables == <<rows, filed, votes, categories, count>>
others == <<gone, ended, calls>>
vars == <<tables, postLock, call, notes, made, others>>

NoCall ==
  [at |-> "none",      \* the next statement
   kind |-> Nil, post |-> Nil, user |-> Nil, category |-> Nil, option |-> Nil,
   delta |-> 0,        \* 1 when it has inserted the row, -1 when it has deleted it
   refile |-> FALSE,   \* it has set the category of a bookmark
   likes |-> 0, liked |-> FALSE, total |-> 0, voted |-> FALSE,  \* what it has read
   met |-> FALSE]      \* a commit came between its reads

Row(c) == <<call[c].kind, call[c].post, call[c].user>>
Mark(c) == <<call[c].post, call[c].user>>
Holds(c) == call[c].delta # 0 \/ call[c].refile
KeyFree(c, key) == \A d \in Client \ {c} : Holds(d) => Row(d) # key
Likers(p) == {u \in Fan : <<"like", p, u>> \in rows}
Ballots(p) == {v \in votes : v[1] = p}

Init ==
  /\ \E s \in AtStart :
       /\ rows = s.rows /\ categories = s.categories /\ filed = s.filed
       /\ count = [k \in Counted |-> [p \in Item |-> Cardinality({u \in Fan : <<k, p, u>> \in s.rows})]]
  /\ votes = {}
  /\ postLock = [p \in Item |-> Nil]
  /\ call = [c \in Client |-> NoCall]
  /\ notes = [k \in Noted \X Item \X Fan |-> 0]
  /\ made = [k \in Noted \X Item \X Fan |-> 0]
  /\ gone = {} /\ ended = {} /\ calls = 0

-----------------------------------------------------------------------------
(* Handlers: what they check, before the transaction *)
Begin(c, kind, p, u, l, k, o) ==
  /\ call[c] = NoCall /\ calls < MaxCalls
  /\ calls' = calls + 1
  /\ call' = [call EXCEPT ![c] = [NoCall EXCEPT !.at = l, !.kind = kind, !.post = p, !.user = u,
                                                !.category = k, !.option = o]]
  /\ UNCHANGED <<tables, postLock, notes, made, gone, ended>>

(* Before every handler of a post; the handlers that add a row also ask requirePostVisible,
   which may refuse a post that exists: then nothing begins. *)
SetPostContext(p) == p \notin gone
RequirePostVisible(p) == SetPostContext(p)

(* services: BEGIN *)
ServeLike(c, p, u) == Begin(c, "like", p, u, "insert", Nil, Nil)
ServeUnlike(c, p, u) == Begin(c, "like", p, u, "delete", Nil, Nil)
ServeRepost(c, p, u) == Begin(c, "repost", p, u, "insert", Nil, Nil)
ServeUnrepost(c, p, u) == Begin(c, "repost", p, u, "delete", Nil, Nil)
ServeBookmark(c, p, u, k) == Begin(c, "bookmark", p, u, IF k = Nil THEN "insert" ELSE "category", k, Nil)
ServeUnbookmark(c, p, u) == Begin(c, "bookmark", p, u, "delete", Nil, Nil)
ServeVote(c, p, u, o) == Begin(c, "vote", p, u, "vote", Nil, o)
AddView(c, p, u) == Begin(c, "view", p, u, "insert", Nil, Nil)
ServeCategory(c, k) == Begin(c, "create", Nil, OwnerOf[k], "create", k, Nil)
ServeDeletion(c, k) == Begin(c, "drop", Nil, OwnerOf[k], "drop", k, Nil)

Like(c) == \E p \in Item, u \in Fan : RequirePostVisible(p) /\ ServeLike(c, p, u)
Unlike(c) == \E p \in Item, u \in Fan : SetPostContext(p) /\ ServeUnlike(c, p, u)
Repost(c) == \E p \in Item, u \in Fan : RequirePostVisible(p) /\ ServeRepost(c, p, u)
Unrepost(c) == \E p \in Item, u \in Fan : SetPostContext(p) /\ ServeUnrepost(c, p, u)
Bookmark(c) ==
  \E p \in Item, u \in Fan, k \in Category \cup {Nil} : RequirePostVisible(p) /\ ServeBookmark(c, p, u, k)
Unbookmark(c) == \E p \in Item, u \in Fan : SetPostContext(p) /\ ServeUnbookmark(c, p, u)
VotePoll(c) == \E p \in Item, u \in Fan, o \in Option : RequirePostVisible(p) /\ ServeVote(c, p, u, o)

(* The post is shown with its counters, after the view is counted. *)
GetPostByID(c) == \E p \in Item, u \in Fan : SetPostContext(p) /\ AddView(c, p, u)

CreateBookmarkCategory(c) == \E k \in Category : ServeCategory(c, k)
DeleteBookmarkCategory(c) == \E k \in Category : ServeDeletion(c, k)

-----------------------------------------------------------------------------
(* Statements *)
Set(c, new) == call' = [call EXCEPT ![c] = new]
Step(c, new) == Set(c, new) /\ UNCHANGED <<tables, postLock, notes, made, others>>

Release(c) == postLock' = [p \in Item |-> IF postLock[p] = c THEN Nil ELSE postLock[p]]
Rollback(c) == Release(c) /\ Set(c, NoCall) /\ UNCHANGED <<tables, notes, made, others>>

(* mutant: a category of whomever *)
CheckAnyCategory(c) ==
  /\ call[c].at = "category"
  /\ IF call[c].category \in categories THEN Step(c, [call[c] EXCEPT !.at = "insert"]) ELSE Rollback(c)

(* SELECT COUNT(1) FROM bookmark_categories: it exists, and is the user's own *)
CheckCategory(c) ==
  /\ call[c].at = "category"
  /\ IF call[c].category \in categories /\ OwnerOf[call[c].category] = call[c].user
     THEN Step(c, [call[c] EXCEPT !.at = "insert"])
     ELSE Rollback(c)

(* INSERT ... ON CONFLICT: a row that there is stays; only a bookmark is filed anew. *)
Insert(c, kind, l) ==
  /\ call[c].at = "insert" /\ call[c].kind = kind
  /\ KeyFree(c, Row(c))
  /\ LET new == Row(c) \notin rows IN
     Step(c, [call[c] EXCEPT !.delta = IF new THEN 1 ELSE 0, !.refile = (kind = "bookmark"),
                             !.at = IF l # Nil THEN l ELSE IF new THEN "count" ELSE "commit"])

InsertLike(c) == Insert(c, "like", Nil)
InsertRepost(c) == Insert(c, "repost", Nil)
InsertView(c) == Insert(c, "view", Nil)
UpsertBookmark(c) == Insert(c, "bookmark", IF call[c].category # Nil THEN "reference" ELSE Nil)

(* The foreign key: the category must still be there, and stays until the COMMIT. *)
CheckReference(c) ==
  /\ call[c].at = "reference"
  /\ \A d \in Client \ {c} : call[d].at \in {"nullify", "dropped"} => call[d].category # call[c].category
  /\ IF call[c].category \in categories
     THEN Step(c, [call[c] EXCEPT !.at = IF call[c].delta = 1 THEN "count" ELSE "commit"])
     ELSE Rollback(c)

(* mutant: the trigger's update for a row that was not there *)
DeleteAny(c, kind) ==
  /\ call[c].at = "delete" /\ call[c].kind = kind
  /\ Row(c) \in rows => KeyFree(c, Row(c))
  /\ Step(c, [call[c] EXCEPT !.at = "count", !.delta = -1])

(* DELETE: what is not there when it begins is not waited for. *)
Delete(c, kind) ==
  /\ call[c].at = "delete" /\ call[c].kind = kind
  /\ Row(c) \in rows => KeyFree(c, Row(c))
  /\ Step(c, IF Row(c) \in rows THEN [call[c] EXCEPT !.at = "count", !.delta = -1]
             ELSE [call[c] EXCEPT !.at = "commit"])

DeleteLike(c) == Delete(c, "like")
DeleteRepost(c) == Delete(c, "repost")
DeleteBookmark(c) == Delete(c, "bookmark")

(* The trigger's UPDATE of the counter: a deleted view would not be counted, and
   nothing deletes views. *)
UpdateCount(c) ==
  /\ call[c].at = "count"
  /\ postLock[call[c].post] = Nil
  /\ postLock' = [postLock EXCEPT ![call[c].post] = c]
  /\ Set(c, [call[c] EXCEPT !.at = "commit"])
  /\ UNCHANGED <<tables, notes, made, others>>

Commit(c) ==
  /\ call[c].at = "commit"
  /\ LET inserted == call[c].delta = 1
         touched == call[c].delta # 0 IN
     /\ rows' = IF inserted THEN rows \cup {Row(c)}
                ELSE IF touched THEN rows \ {Row(c)} ELSE rows
     /\ filed' = IF call[c].refile THEN [filed EXCEPT ![Mark(c)] = call[c].category]
                 ELSE IF touched /\ call[c].kind = "bookmark" THEN [filed EXCEPT ![Mark(c)] = Nil]
                 ELSE filed
     /\ count' = IF touched THEN [count EXCEPT ![call[c].kind][call[c].post] = @ + call[c].delta]
                 ELSE count
     /\ made' = IF inserted /\ call[c].kind \in Noted THEN [made EXCEPT ![Row(c)] = @ + 1] ELSE made
     /\ call' = [d \in Client |->
                   IF d # c THEN [call[d] EXCEPT !.met = @ \/ call[d].at \in Reading]
                   ELSE IF call[c].kind = "view" THEN [call[c] EXCEPT !.at = "read", !.delta = 0]
                   ELSE IF inserted /\ call[c].kind \in Noted THEN [call[c] EXCEPT !.at = "notify", !.delta = 0]
                   ELSE NoCall]
  /\ Release(c)
  /\ UNCHANGED <<votes, categories, notes, others>>

(* the notification to the author, which may fail *)
Notify(c) ==
  /\ call[c].at = "notify"
  /\ \E sent \in 0 .. 1 : notes' = [notes EXCEPT ![Row(c)] = @ + sent]
  /\ Set(c, NoCall)
  /\ UNCHANGED <<tables, postLock, made, others>>

(* any statement that fails; the view of a reader is given up, and the post still shown *)
Fail(c) ==
  /\ call[c].at \notin {"none", "notify"}
  /\ IF call[c].kind = "view" /\ call[c].at \in {"insert", "count", "commit"}
     THEN Release(c) /\ Set(c, [call[c] EXCEPT !.at = "read", !.delta = 0])
          /\ UNCHANGED <<tables, notes, made, others>>
     ELSE Rollback(c)

-----------------------------------------------------------------------------
(* Votes: the end of the poll and the option are checked, then one row for each user. *)
Vote(c) ==
  /\ call[c].at = "vote"
  /\ IF call[c].post \in ended THEN Rollback(c)
     ELSE Step(c, [call[c] EXCEPT !.at = "ballot"])

InsertVote(c) ==
  /\ call[c].at = "ballot"
  /\ KeyFree(c, Row(c))
  /\ IF \E o \in Option : <<call[c].post, call[c].user, o>> \in votes THEN Rollback(c)
     ELSE Step(c, [call[c] EXCEPT !.at = "voted", !.delta = 1])

CommitVote(c) ==
  /\ call[c].at = "voted"
  /\ votes' = votes \cup {<<call[c].post, call[c].user, call[c].option>>}
  /\ call' = [d \in Client |->
                IF d = c THEN NoCall
                ELSE [call[d] EXCEPT !.met = @ \/ call[d].at \in Reading]]
  /\ UNCHANGED <<rows, filed, categories, count, postLock, notes, made, others>>

(* Categories: one of a name; the bookmarks of one that is deleted lose it. *)
InsertCategory(c) ==
  /\ call[c].at = "create"
  /\ \A d \in Client \ {c} : call[d].at \in {"nullify", "dropped"} => call[d].category # call[c].category
  /\ categories' = categories \cup {call[c].category}
  /\ Set(c, NoCall)
  /\ UNCHANGED <<rows, filed, votes, count, postLock, notes, made, others>>

Refers(d, k) == call[d].refile /\ call[d].category = k /\ call[d].at \in {"count", "commit"}

DeleteCategory(c) ==
  /\ call[c].at = "drop"
  /\ \A d \in Client \ {c} : /\ ~Refers(d, call[c].category)
                             /\ call[d].at \in {"nullify", "dropped"} => call[d].category # call[c].category
  /\ IF call[c].category \in categories THEN Step(c, [call[c] EXCEPT !.at = "nullify"])
     ELSE Rollback(c)

(* ON DELETE SET NULL *)
Unfile(c) ==
  /\ call[c].at = "nullify"
  /\ LET k == call[c].category IN
     \A m \in Item \X Fan : filed[m] = k => KeyFree(c, <<"bookmark", m[1], m[2]>>)
  /\ Step(c, [call[c] EXCEPT !.at = "dropped"])

CommitDrop(c) ==
  /\ call[c].at = "dropped"
  /\ LET k == call[c].category IN
     /\ categories' = categories \ {k}
     /\ filed' = [m \in Item \X Fan |-> IF filed[m] = k THEN Nil ELSE filed[m]]
  /\ Set(c, NoCall)
  /\ UNCHANGED <<rows, votes, count, postLock, notes, made, others>>

-----------------------------------------------------------------------------
(* A reader: the counters come with the row of the post, the viewer's own marks and
   the poll from other statements. *)
GetFullPostByID(c) ==
  /\ call[c].at = "read"
  /\ IF call[c].post \in gone THEN Rollback(c)
     ELSE Step(c, [call[c] EXCEPT !.at = "flags", !.likes = count["like"][call[c].post]])

HydrateEngagement(c) ==
  /\ call[c].at = "flags"
  /\ Step(c, [call[c] EXCEPT !.at = "polls", !.liked = call[c].user \in Likers(call[c].post)])

(* the votes of each option first, then the viewer's own *)
HydratePolls(c) ==
  /\ call[c].at = "polls"
  /\ Step(c, [call[c] EXCEPT !.at = "selected", !.total = Cardinality(Ballots(call[c].post))])

GetSelected(c) ==
  /\ call[c].at = "selected"
  /\ Step(c, [call[c] EXCEPT !.at = "shown",
                             !.voted = \E v \in Ballots(call[c].post) : v[2] = call[c].user])

Respond(c) == call[c].at = "shown" /\ Rollback(c)

DeletePost ==
  /\ \E p \in Item \ gone : gone' = gone \cup {p}
  /\ UNCHANGED <<tables, postLock, call, notes, made, ended, calls>>

PollEnds ==
  /\ \E p \in Item \ ended : ended' = ended \cup {p}
  /\ UNCHANGED <<tables, postLock, call, notes, made, gone, calls>>

Next ==
  \/ \E c \in Client :
       \/ Like(c) \/ Unlike(c) \/ Repost(c) \/ Unrepost(c) \/ Bookmark(c) \/ Unbookmark(c)
       \/ VotePoll(c) \/ GetPostByID(c) \/ CreateBookmarkCategory(c) \/ DeleteBookmarkCategory(c)
       \/ InsertLike(c) \/ InsertRepost(c) \/ InsertView(c) \/ UpsertBookmark(c)
       \/ DeleteLike(c) \/ DeleteRepost(c) \/ DeleteBookmark(c)
       \/ CheckCategory(c) \/ CheckReference(c) \/ UpdateCount(c)
       \/ Commit(c) \/ Notify(c) \/ Fail(c)
       \/ Vote(c) \/ InsertVote(c) \/ CommitVote(c)
       \/ InsertCategory(c) \/ DeleteCategory(c) \/ Unfile(c) \/ CommitDrop(c)
       \/ GetFullPostByID(c) \/ HydrateEngagement(c) \/ HydratePolls(c) \/ GetSelected(c) \/ Respond(c)
  \/ DeletePost \/ PollEnds

Spec == Init /\ [][Next]_vars
-----------------------------------------------------------------------------
EngagementTypeOK ==
  /\ rows \subseteq Counted \X Item \X Fan
  /\ filed \in [Item \X Fan -> Category \cup {Nil}]
  /\ votes \subseteq Item \X Fan \X Option
  /\ categories \subseteq Category
  /\ count \in [Counted -> [Item -> Nat]]
  /\ postLock \in [Item -> Client \cup {Nil}]
  /\ notes \in [Noted \X Item \X Fan -> Nat] /\ made \in [Noted \X Item \X Fan -> Nat]
  /\ gone \subseteq Item /\ ended \subseteq Item

(* Each counter is the number of rows, though likes, unlikes and views of a post race
   and a double one is dropped; a reader who is told that they like a post, or have
   voted, is shown a count that is not below theirs, unless something was committed
   while the post was read. *)
CountersMatch ==
  /\ \A k \in Counted, p \in Item : count[k][p] = Cardinality({u \in Fan : <<k, p, u>> \in rows})
  /\ \A c \in Client :
       call[c].at = "shown" /\ ~call[c].met =>
         /\ call[c].liked => call[c].likes > 0
         /\ call[c].voted => call[c].total > 0

(* A like is notified once for each time it is given, however often it is sent; a user
   has one vote; a bookmark is in a category that there is, of the same user. *)
KeysAreKept ==
  /\ \A k \in Noted \X Item \X Fan : notes[k] <= made[k]
  /\ \A v, w \in votes : v[1] = w[1] /\ v[2] = w[2] => v = w
  /\ \A m \in Item \X Fan :
       filed[m] # Nil => /\ filed[m] \in categories /\ OwnerOf[filed[m]] = m[2]
                         /\ <<"bookmark", m[1], m[2]>> \in rows
=============================================================================
