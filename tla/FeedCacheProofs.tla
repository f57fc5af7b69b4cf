--------------------------- MODULE FeedCacheProofs ---------------------------
(***************************************************************************)
(* Proofs about FeedCache, for any users, posts, authors and number of     *)
(* requests, with or without faults and changes of follows.                *)
(***************************************************************************)
EXTENDS FeedCache, TLAPS

(* what is stale is marked, or will be dropped by a write under way *)
PendingInv ==
  \A u \in keys \ outdated : page[u] = Feed(u) \/ \E r \in Req : Pending(r, u)

(* only a request in a stage that has a viewer or an author uses it *)
WhoInv == \A r \in Req : stage[r] # "idle" => who[r] \in User

IInv == TypeOK /\ WhoInv /\ PendingInv

-----------------------------------------------------------------------------
(* A feed is a set of entries. *)
LEMMA FeedTyped == ASSUME TypeOK, NEW u \in User PROVE Feed(u) \in SUBSET Entry
<1> SUFFICES ASSUME NEW e \in Feed(u) PROVE e \in Entry
  OBVIOUS
<1>1. PICK p \in Visible : e = <<p, version[p]>>
  BY DEF Feed
<1>2. p \in Post /\ version[p] \in 1 .. MaxVersion
  BY BoundAssumption DEF TypeOK, Visible
<1>3. QED
  BY <1>1, <1>2 DEF Entry

(* A feed depends on nothing but the tables. *)
LEMMA SameFeed ==
  ASSUME UNCHANGED db, NEW u PROVE Feed(u)' = Feed(u) /\ Followers(u)' = Followers(u)
BY DEF db, Feed, Visible, Followers

(* Dropping a feed disturbs no other, and leaves the requests as they are. *)
LEMMA DropKeeps ==
  ASSUME IInv, UNCHANGED db, NEW u \in User, Drop(u), NEW v \in keys' \ outdated'
  PROVE  v # u /\ (page'[v] = Feed(v)' \/ \E r \in Req : Pending(r, v))
<1>1. v \in keys \ outdated /\ v # u /\ v \in User
  BY DEF Drop, IInv, TypeOK
<1>2. page'[v] = page[v]
  BY <1>1 DEF Drop, IInv, TypeOK
<1>3. QED
  BY <1>1, <1>2, SameFeed DEF IInv, PendingInv

(* A drop keeps the types of the cache. *)
LEMMA DropTyped ==
  ASSUME TypeOK, NEW u \in User, Drop(u)
  PROVE  keys' \in SUBSET User /\ page' \in [User -> SUBSET Entry] /\ outdated' \in SUBSET keys'
BY DEF TypeOK, Drop

(* The end of a request keeps the types of its locals. *)
LEMMA DoneTyped ==
  ASSUME TypeOK, NEW r \in Req, Done(r)
  PROVE  /\ stage' \in [Req -> Stage] /\ who' \in [Req -> User \cup {NoUser}]
         /\ got' \in [Req -> SUBSET Entry] /\ left' \in [Req -> SUBSET User]
         /\ stage'[r] = "idle"
         /\ \A q \in Req : q # r => stage'[q] = stage[q] /\ who'[q] = who[q] /\ left'[q] = left[q]
BY DEF TypeOK, Done, Stage

-----------------------------------------------------------------------------
(* Reading: a feed that is set is the database's or is marked. *)
LEMMA ReaderInv ==
  ASSUME IInv, NEW r \in Req, (\E u \in User : Miss(r, u)) \/ Query(r) \/ SetHomeFeed(r)
  PROVE  IInv'
<1>1. ASSUME NEW u \in User, Miss(r, u) PROVE IInv'
  <2>1. TypeOK' /\ WhoInv'
    BY <1>1 DEF Miss, IInv, TypeOK, WhoInv, db, redis, Stage
  <2>2. \A q \in Req, v \in User : Pending(q, v) => Pending(q, v)'
    BY <1>1, SameFeed DEF Miss, IInv, TypeOK, Pending
  <2>3. PendingInv'
    BY <1>1, <2>2, SameFeed DEF Miss, IInv, TypeOK, PendingInv, redis
  <2>4. QED
    BY <2>1, <2>3 DEF IInv
<1>2. CASE Query(r)
  <2>1. who[r] \in User
    BY <1>2 DEF Query, IInv, WhoInv
  <2>2. TypeOK' /\ WhoInv'
    BY <1>2, <2>1, FeedTyped DEF Query, Goto, IInv, TypeOK, WhoInv, db, redis, Stage
  <2>3. \A q \in Req, v \in User : Pending(q, v) => Pending(q, v)'
    BY <1>2, SameFeed DEF Query, Goto, IInv, TypeOK, Pending
  <2>4. PendingInv'
    BY <1>2, <2>3, SameFeed DEF Query, Goto, IInv, TypeOK, PendingInv, redis
  <2>5. QED
    BY <2>2, <2>4 DEF IInv
<1>3. CASE SetHomeFeed(r)
  <2>1. who[r] \in User /\ got[r] \in SUBSET Entry
    BY <1>3 DEF SetHomeFeed, IInv, WhoInv, TypeOK
  <2>2. keys' \in SUBSET User /\ page' \in [User -> SUBSET Entry] /\ outdated' \in SUBSET keys'
    BY <1>3, <2>1 DEF SetHomeFeed, IInv, TypeOK
  <2>3. TypeOK' /\ WhoInv'
    BY <1>3, <2>2, DoneTyped DEF SetHomeFeed, IInv, TypeOK, WhoInv, db
  <2>4. \A q \in Req, v \in User : Pending(q, v) => Pending(q, v)'
    BY <1>3, SameFeed, DoneTyped DEF SetHomeFeed, IInv, Pending
  <2>5. ASSUME NEW v \in keys' \ outdated'
        PROVE  page'[v] = Feed(v)' \/ \E q \in Req : Pending(q, v)'
    <3>1. v \in User
      BY <2>2
    <3>2. CASE v = who[r]
      <4>1. got[r] = Feed(v)
        BY <1>3, <3>2, <2>5 DEF SetHomeFeed
      <4>2. page'[v] = got[r]
        BY <1>3, <2>1, <3>2 DEF SetHomeFeed, IInv, TypeOK
      <4>3. QED
        BY <1>3, <4>1, <4>2, SameFeed DEF SetHomeFeed
    <3>3. CASE v # who[r]
      <4>1. v \in keys \ outdated /\ page'[v] = page[v]
        BY <1>3, <2>5, <3>1, <3>3 DEF SetHomeFeed, IInv, TypeOK
      <4>2. QED
        BY <1>3, <2>4, <3>1, <4>1, SameFeed DEF SetHomeFeed, IInv, PendingInv
    <3>4. QED
      BY <3>2, <3>3
  <2>6. QED
    BY <2>3, <2>5 DEF IInv, PendingInv
<1>4. QED
  BY <1>1, <1>2, <1>3

(* A write to a post changes only feeds that its writer has yet to drop. *)
LEMMA WriteInv ==
  ASSUME IInv, NEW r \in Req, NEW p \in Post, WritePost(r, p) \/ DeletePost(r, p)
  PROVE  IInv'
<1>1. /\ AuthorOf[p] \in User /\ stage[r] = "idle"
      /\ stage' = [stage EXCEPT ![r] = "own"]
      /\ who' = [who EXCEPT ![r] = AuthorOf[p]]
      /\ UNCHANGED <<follows, keys, page, got, left, outdated>>
  BY AuthorAssumption DEF WritePost, DeletePost, Written, redis
<1>2. /\ version' \in [Post -> 0 .. MaxVersion] /\ deleted' \in SUBSET Post
      /\ \A q \in Post \ {p} : version'[q] = version[q] /\ (q \in deleted' <=> q \in deleted)
  <2>1. CASE WritePost(r, p)
    <3>1. version[p] + 1 \in 0 .. MaxVersion
      BY <2>1, BoundAssumption DEF WritePost, IInv, TypeOK
    <3>2. QED
      BY <2>1, <3>1 DEF WritePost, IInv, TypeOK
  <2>2. CASE DeletePost(r, p)
    BY <2>2 DEF DeletePost, IInv, TypeOK
  <2>3. QED
    BY <2>1, <2>2
<1>3. TypeOK' /\ WhoInv'
  BY <1>1, <1>2 DEF IInv, TypeOK, WhoInv, Stage
<1>4. \A q \in Req, v \in User : Pending(q, v) => Pending(q, v)'
  BY <1>1 DEF IInv, TypeOK, Pending, Followers
<1>5. ASSUME NEW v \in User, v # AuthorOf[p], <<v, AuthorOf[p]>> \notin follows
      PROVE  Feed(v)' = Feed(v)
  <2> DEFINE Shown == {q \in Visible : AuthorOf[q] = v \/ <<v, AuthorOf[q]>> \in follows}
  <2>1. Shown' = Shown
    BY <1>1, <1>2, <1>5 DEF Visible
  <2>2. \A q \in Shown : version'[q] = version[q]
    BY <1>2, <1>5 DEF Visible
  <2>3. Feed(v) = {<<q, version[q]>> : q \in Shown} /\ Feed(v)' = {<<q, version'[q]>> : q \in Shown'}
    BY DEF Feed
  <2>4. QED
    BY <2>1, <2>2, <2>3
<1>6. ASSUME NEW v \in User, v = AuthorOf[p] \/ <<v, AuthorOf[p]>> \in follows
      PROVE  Pending(r, v)'
  BY <1>1, <1>6 DEF IInv, TypeOK, Pending, Followers
<1>7. PendingInv'
  BY <1>1, <1>4, <1>5, <1>6 DEF IInv, TypeOK, PendingInv
<1>8. QED
  BY <1>3, <1>7 DEF IInv

(* A quote changes the feeds of its author, who has yet to drop theirs, and of
   followers, who are marked. *)
LEMMA QuoteInv == ASSUME IInv, NEW r \in Req, NEW p \in Post, Quote(r, p) PROVE IInv'
<1>1. /\ AuthorOf[p] \in User /\ stage[r] = "idle"
      /\ stage' = [stage EXCEPT ![r] = "actor"]
      /\ who' = [who EXCEPT ![r] = AuthorOf[p]]
      /\ UNCHANGED <<deleted, follows, keys, page, got, left>>
      /\ outdated' = outdated \cup (keys \cap Followers(AuthorOf[p]))
  BY AuthorAssumption DEF Quote, redis
<1>2. /\ version' \in [Post -> 0 .. MaxVersion]
      /\ \A q \in Post \ {p} : version'[q] = version[q]
  BY BoundAssumption DEF Quote, IInv, TypeOK
<1>3. TypeOK' /\ WhoInv'
  BY <1>1, <1>2 DEF IInv, TypeOK, WhoInv, Stage
<1>4. \A q \in Req, v \in User : Pending(q, v) => Pending(q, v)'
  BY <1>1 DEF IInv, TypeOK, Pending, Followers
<1>5. ASSUME NEW v \in User, v # AuthorOf[p], <<v, AuthorOf[p]>> \notin follows
      PROVE  Feed(v)' = Feed(v)
  <2> DEFINE Shown == {q \in Visible : AuthorOf[q] = v \/ <<v, AuthorOf[q]>> \in follows}
  <2>1. Shown' = Shown
    BY <1>1, <1>2, <1>5 DEF Visible
  <2>2. \A q \in Shown : version'[q] = version[q]
    BY <1>2, <1>5 DEF Visible
  <2>3. Feed(v) = {<<q, version[q]>> : q \in Shown} /\ Feed(v)' = {<<q, version'[q]>> : q \in Shown'}
    BY DEF Feed
  <2>4. QED
    BY <2>1, <2>2, <2>3
<1>6. Pending(r, AuthorOf[p])'
  BY <1>1 DEF IInv, TypeOK, Pending
<1>7. PendingInv'
  BY <1>1, <1>4, <1>5, <1>6 DEF IInv, TypeOK, PendingInv, Followers
<1>8. QED
  BY <1>3, <1>7 DEF IInv

(* The invalidation: whoever is no longer pending has been dropped. *)
LEMMA InvalidateInv ==
  ASSUME IInv, NEW r \in Req,
         \/ InvalidateOwn(r) \/ GetFollowerIDs(r) \/ InvalidateNext(r) \/ AllInvalidated(r)
         \/ InvalidateActor(r) \/ Skip(r)
  PROVE  IInv'
<1>1. CASE InvalidateOwn(r)
  <2>1. who[r] \in User /\ stage[r] = "own"
    BY <1>1 DEF InvalidateOwn, IInv, WhoInv
  <2>2. TypeOK' /\ WhoInv'
    BY <1>1, <2>1, DropTyped DEF InvalidateOwn, Goto, IInv, TypeOK, WhoInv, db, Stage
  <2>3. \A q \in Req, v \in User : v # who[r] /\ Pending(q, v) => Pending(q, v)'
    BY <1>1, SameFeed DEF InvalidateOwn, Goto, IInv, TypeOK, Pending
  <2>4. PendingInv'
    BY <1>1, <2>1, <2>2, <2>3, DropKeeps DEF InvalidateOwn, IInv, TypeOK, PendingInv
  <2>5. QED
    BY <2>2, <2>4 DEF IInv
<1>2. CASE GetFollowerIDs(r)
  <2>1. TypeOK' /\ WhoInv'
    BY <1>2 DEF GetFollowerIDs, Goto, IInv, TypeOK, WhoInv, db, redis, Stage, Followers
  <2>2. \A q \in Req, v \in User : Pending(q, v) => Pending(q, v)'
    BY <1>2, SameFeed DEF GetFollowerIDs, Goto, IInv, TypeOK, Pending
  <2>3. QED
    BY <1>2, <2>1, <2>2, SameFeed DEF GetFollowerIDs, IInv, TypeOK, PendingInv, redis
<1>3. CASE InvalidateNext(r)
  <2>1. PICK u \in left[r] : Drop(u) /\ left' = [left EXCEPT ![r] = @ \ {u}]
    BY <1>3 DEF InvalidateNext
  <2>2. u \in User
    BY DEF IInv, TypeOK
  <2>3. left[r] \ {u} \in SUBSET User
    BY DEF IInv, TypeOK
  <2>4. TypeOK' /\ WhoInv'
    BY <1>3, <2>1, <2>2, <2>3, DropTyped DEF InvalidateNext, IInv, TypeOK, WhoInv, db
  <2>5. \A q \in Req, v \in User : v # u /\ Pending(q, v) => Pending(q, v)'
    BY <1>3, <2>1, SameFeed DEF InvalidateNext, IInv, TypeOK, Pending
  <2>6. PendingInv'
    BY <1>3, <2>1, <2>2, <2>4, <2>5, DropKeeps DEF InvalidateNext, IInv, TypeOK, PendingInv
  <2>7. QED
    BY <2>4, <2>6 DEF IInv
<1>4. CASE AllInvalidated(r)
  <2>1. TypeOK' /\ WhoInv'
    BY <1>4, DoneTyped DEF AllInvalidated, IInv, TypeOK, WhoInv, db, redis
  <2>2. \A q \in Req, v \in User : Pending(q, v) => Pending(q, v)'
    BY <1>4, SameFeed, DoneTyped DEF AllInvalidated, IInv, Pending
  <2>3. QED
    BY <1>4, <2>1, <2>2, SameFeed DEF AllInvalidated, IInv, TypeOK, PendingInv, redis
<1>5. CASE InvalidateActor(r)
  <2>1. who[r] \in User /\ stage[r] = "actor"
    BY <1>5 DEF InvalidateActor, IInv, WhoInv
  <2>2. TypeOK' /\ WhoInv'
    BY <1>5, <2>1, DropTyped, DoneTyped DEF InvalidateActor, IInv, TypeOK, WhoInv, db
  <2>3. \A q \in Req, v \in User : v # who[r] /\ Pending(q, v) => Pending(q, v)'
    BY <1>5, <2>1, SameFeed, DoneTyped DEF InvalidateActor, IInv, Pending
  <2>4. PendingInv'
    BY <1>5, <2>1, <2>2, <2>3, DropKeeps DEF InvalidateActor, IInv, TypeOK, PendingInv
  <2>5. QED
    BY <2>2, <2>4 DEF IInv
<1>6. CASE Skip(r)
  <2>1. CASE stage[r] = "own"
    <3>1. /\ stage' = [stage EXCEPT ![r] = "followers"] /\ UNCHANGED <<db, keys, page, who, got, left>>
          /\ outdated' = outdated \cup (keys \cap {who[r]})
      BY <1>6, <2>1 DEF Skip, Goto, redis
    <3>2. TypeOK' /\ WhoInv'
      BY <2>1, <3>1 DEF IInv, TypeOK, WhoInv, db, Stage
    <3>3. \A q \in Req, v \in User : v # who[r] /\ Pending(q, v) => Pending(q, v)'
      BY <2>1, <3>1, SameFeed DEF IInv, TypeOK, Pending
    <3>4. PendingInv'
      BY <3>1, <3>2, <3>3, SameFeed DEF IInv, TypeOK, PendingInv
    <3>5. QED
      BY <3>2, <3>4 DEF IInv
  <2>2. CASE stage[r] = "each"
    <3>1. PICK u \in left[r] :
            /\ outdated' = outdated \cup (keys \cap {u})
            /\ left' = [left EXCEPT ![r] = @ \ {u}]
      BY <1>6, <2>2 DEF Skip
    <3>2. UNCHANGED <<db, keys, page, stage, who, got>>
      BY <1>6, <2>2 DEF Skip, redis
    <3>3. left[r] \ {u} \in SUBSET User
      BY DEF IInv, TypeOK
    <3>4. TypeOK' /\ WhoInv'
      BY <3>1, <3>2, <3>3 DEF IInv, TypeOK, WhoInv, db
    <3>5. \A q \in Req, v \in User : v # u /\ Pending(q, v) => Pending(q, v)'
      BY <3>1, <3>2, SameFeed DEF IInv, TypeOK, Pending
    <3>6. PendingInv'
      BY <3>1, <3>2, <3>4, <3>5, SameFeed DEF IInv, TypeOK, PendingInv
    <3>7. QED
      BY <3>4, <3>6 DEF IInv
  <2>3. QED
    BY <1>6, <2>1, <2>2 DEF Skip
<1>7. QED
  BY <1>1, <1>2, <1>3, <1>4, <1>5, <1>6

(* Expiry, failures, and changes of follows. *)
LEMMA OtherInv ==
  ASSUME IInv,
         (\E u \in User : Expire(u)) \/ (\E r \in Req : Fail(r)) \/ (\E u, v \in User : ChangeFollow(u, v))
  PROVE  IInv'
<1>1. ASSUME NEW u \in User, Expire(u) PROVE IInv'
  <2>1. TypeOK' /\ WhoInv'
    BY <1>1, DropTyped DEF Expire, IInv, TypeOK, WhoInv, db
  <2>2. \A q \in Req, v \in User : Pending(q, v) => Pending(q, v)'
    BY <1>1, SameFeed DEF Expire, Pending
  <2>3. PendingInv'
    BY <1>1, <2>1, <2>2, DropKeeps DEF Expire, IInv, TypeOK, PendingInv
  <2>4. QED
    BY <2>1, <2>3 DEF IInv
<1>2. ASSUME NEW r \in Req, Fail(r) PROVE IInv'
  <2>1. TypeOK' /\ WhoInv'
    BY <1>2, DoneTyped DEF Fail, IInv, TypeOK, WhoInv, db, redis
  <2>2. ASSUME NEW v \in keys' \ outdated'
        PROVE  page'[v] = Feed(v)' \/ \E q \in Req : Pending(q, v)'
    <3>1. v \in keys \ outdated /\ ~Pending(r, v) /\ page'[v] = page[v]
      BY <1>2, <2>2 DEF Fail, redis
    <3>2. CASE page[v] = Feed(v)
      BY <1>2, <3>1, <3>2, SameFeed DEF Fail
    <3>3. CASE page[v] # Feed(v)
      <4>1. PICK q \in Req : Pending(q, v)
        BY <3>1, <3>3 DEF IInv, PendingInv
      <4>2. q # r
        BY <3>1, <4>1
      <4>3. stage'[q] = stage[q] /\ who'[q] = who[q] /\ left'[q] = left[q]
        BY <1>2, <4>2 DEF Fail, Done, IInv, TypeOK
      <4>4. Pending(q, v)'
        BY <1>2, <4>1, <4>3, SameFeed DEF Fail, Pending
      <4>5. QED
        BY <4>4
    <3>4. QED
      BY <3>2, <3>3
  <2>3. QED
    BY <2>1, <2>2 DEF IInv, PendingInv
<1>3. ASSUME NEW u \in User, NEW v \in User, ChangeFollow(u, v) PROVE IInv'
  <2>1. /\ follows' \in SUBSET (User \X User)
        /\ \A w \in User \ {u}, x \in User : <<w, x>> \in follows' <=> <<w, x>> \in follows
    BY <1>3 DEF ChangeFollow, IInv, TypeOK
  <2>2. UNCHANGED <<version, deleted, keys, page, stage, who, got, left>>
        /\ outdated' = outdated \cup (keys \cap {u})
    BY <1>3 DEF ChangeFollow, redis
  <2>3. TypeOK' /\ WhoInv'
    BY <2>1, <2>2 DEF IInv, TypeOK, WhoInv
  <2>4. ASSUME NEW w \in User \ {u} PROVE Feed(w)' = Feed(w)
    BY <2>1, <2>2, <2>4, AuthorAssumption DEF Feed, Visible
  <2>5. ASSUME NEW w \in User \ {u}, NEW q \in Req, Pending(q, w) PROVE Pending(q, w)'
    BY <2>1, <2>2, <2>5 DEF IInv, WhoInv, Pending, Followers
  <2>6. PendingInv'
    BY <2>2, <2>4, <2>5 DEF IInv, TypeOK, PendingInv
  <2>7. QED
    BY <2>3, <2>6 DEF IInv
<1>4. QED
  BY <1>1, <1>2, <1>3

-----------------------------------------------------------------------------
(* The inductive invariant holds in every reachable state. *)
THEOREM Invariance == Spec => []IInv
<1>1. Init => IInv
  BY BoundAssumption DEF Init, IInv, TypeOK, WhoInv, PendingInv, Stage
<1>2. IInv /\ [Next]_vars => IInv'
  <2> SUFFICES ASSUME IInv, [Next]_vars PROVE IInv'
    OBVIOUS
  <2>1. CASE Next
    BY <2>1, ReaderInv, WriteInv, QuoteInv, InvalidateInv, OtherInv DEF Next, Work
  <2>2. CASE UNCHANGED vars
    <3>1. TypeOK' /\ WhoInv'
      BY <2>2 DEF vars, db, redis, IInv, TypeOK, WhoInv
    <3>2. \A q \in Req, v \in User : Pending(q, v) => Pending(q, v)'
      BY <2>2, SameFeed DEF vars, Pending
    <3>3. QED
      BY <2>2, <3>1, <3>2, SameFeed DEF vars, redis, IInv, TypeOK, PendingInv
  <2>3. QED
    BY <2>1, <2>2
<1>3. QED
  BY <1>1, <1>2, PTL DEF Spec

(* Every variable keeps its type; only users with a cached feed are marked. *)
THEOREM TypeCorrect == Spec => []TypeOK
<1>1. IInv => TypeOK
  BY DEF IInv
<1>2. QED
  BY <1>1, Invariance, PTL

(* With no write under way, a cached feed is what the database would give, but
   for those marked: the four ways to be stale are the only ones. *)
THEOREM QuietCacheIsFreshHolds == Spec => []QuietCacheIsFresh
<1>1. IInv => QuietCacheIsFresh
  BY DEF IInv, TypeOK, PendingInv, Pending, QuietCacheIsFresh, Writing, Invalidating
<1>2. QED
  BY <1>1, Invariance, PTL
=============================================================================
