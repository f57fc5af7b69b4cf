----------------------------- MODULE PostsProofs -----------------------------
(***************************************************************************)
(* Proofs about Posts, for any number of posts, authors, requests and      *)
(* texts: an author has one pin, the edit history and the index of         *)
(* hashtags follow the text, and a thread falls whole, however the         *)
(* transactions interleave.                                                *)
(***************************************************************************)
EXTENDS Posts, FiniteSetTheorems, NaturalsInduction, SequenceTheorems, TLAPS, WellFoundedInduction

PostRow == [parent : Post \cup {None}, quoted : Post \cup {None}, text : Text,
            deleted : BOOLEAN, pinned : BOOLEAN]

Stage == {"closed", "count", "sync", "tags", "commit", "respond", "update", "cascade",
          "delete", "clear", "pin", "unpin"}
Op == {"post", "quote", "edit", "delete", "pin", "unpin", None}
Writing == {"post", "quote", "edit"}

Writes == UNION {[D -> PostRow] : D \in SUBSET Post}

Tx == [at : Stage, op : Op, post : Post \cup {None}, text : Text \cup {None}, before : Text \cup {None},
       scan : SUBSET Post, writes : Writes, tags : Seq(Tag), dropped : SUBSET Text, met : BOOLEAN]

(* what a behaviour begins with, and a name that is taken for nothing else *)
Assumptions ==
  /\ None \notin Req /\ None \notin PostRow /\ None \notin Post /\ None \notin Text
  /\ None \notin {"post", "quote", "edit", "delete", "pin", "unpin"}
  /\ TagsOf \in [Text -> Seq(Tag)]
  /\ DOMAIN Parents \subseteq Post
  /\ \A p \in DOMAIN Parents : Parents[p] \in Post \cup {None}
  /\ FirstText \in Text

-----------------------------------------------------------------------------
(* The tables and the open transactions have their types. *)
TablesOK ==
  /\ row \in [Post -> PostRow \cup {None}]
  /\ history \in [Post -> Seq(Text)]
  /\ past \in [Post -> Seq(Text)]
  /\ indexed \in [Post -> SUBSET Text]
  /\ announced \subseteq Post /\ late \subseteq Post

LocksOK ==
  /\ rowLock \in [Post -> Req \cup {None}]
  /\ tagLock \in [Tag -> Req \cup {None}]

TxOK == tx \in [Req -> Tx]

(* What a transaction has written, and what it is about: a new row is known to it
   alone, any other is locked by it. *)
HeldBy(r) ==
  \A p \in Wrote(r) :
    IF Exists(p) THEN rowLock[p] = r ELSE tx[r].post = p /\ tx[r].op \in {"post", "quote"}

(* a post that is not there yet is being inserted by one request at most *)
OneInserts ==
  \A r, s \in Req : tx[r].post = tx[s].post /\ tx[r].post # None /\ r # s => Exists(tx[r].post)

(* what a stage of a transaction knows *)
Knows(r) ==
  /\ tx[r].at = "closed" => tx[r] = Closed
  /\ tx[r].at # "closed" => tx[r].post \in Post
  /\ tx[r].at = "respond" => tx[r].writes = <<>> /\ tx[r].op \in {"post", "quote"}
  /\ tx[r].at \in {"update", "cascade", "unpin"} => tx[r].writes = <<>>
  /\ tx[r].at \in {"update", "cascade", "delete", "clear", "pin", "unpin"} => Exists(tx[r].post)
  /\ tx[r].at = "clear" => \A p \in tx[r].scan : Exists(p)
  /\ tx[r].at \in {"clear", "pin"} => \A p \in Wrote(r) : ~tx[r].writes[p].pinned
  /\ tx[r].at \in {"count", "sync", "tags"} => tx[r].op \in Writing
  /\ tx[r].at = "update" => tx[r].op = "edit"
  /\ tx[r].at \in {"cascade", "delete"} => tx[r].op = "delete"
  /\ tx[r].at \in {"clear", "pin"} => tx[r].op = "pin"
  /\ tx[r].at = "unpin" => tx[r].op = "unpin"
  /\ tx[r].op \in Writing /\ tx[r].at # "respond" => tx[r].text \in Text
  /\ tx[r].op = "edit" => tx[r].before \in Text /\ Exists(tx[r].post)

Typed == TablesOK /\ LocksOK /\ TxOK
IInv == Typed /\ OneInserts /\ \A r \in Req : HeldBy(r) /\ Knows(r)

-----------------------------------------------------------------------------
(* The transaction of another request is left alone, but for having met one. *)
Alike(q) ==
  /\ tx'[q].at = tx[q].at /\ tx'[q].op = tx[q].op /\ tx'[q].post = tx[q].post
  /\ tx'[q].text = tx[q].text /\ tx'[q].before = tx[q].before
  /\ tx'[q].scan = tx[q].scan /\ tx'[q].writes = tx[q].writes
  /\ tx'[q].dropped = tx[q].dropped
  /\ tx[q] = Closed => tx'[q] = Closed

(* The others go on as they were, and the request with what it does; no table is touched. *)
Others(r) == \A q \in Req \ {r} : Alike(q) /\ tx'[q].met = tx[q].met

(* One that begins meets those that are open. *)
Meets(r) ==
  /\ \A q \in Req \ {r} : Alike(q)
  /\ \A q \in Req \ {r} : tx[q].met \/ Open(q) => tx'[q].met
  /\ \A q \in Req \ {r} : Open(q) => tx'[r].met

SameTask(r) ==
  /\ tx'[r].post = tx[r].post /\ tx'[r].op = tx[r].op /\ tx'[r].text = tx[r].text
  /\ tx'[r].before = tx[r].before /\ tx'[r].met = tx[r].met

Unmoved == row' = row /\ indexed' = indexed /\ history' = history /\ past' = past /\ late' = late

(* It has written a row more, which is there. *)
Adds(r, p, new) ==
  /\ p \in Post /\ Exists(p)
  /\ Wrote(r)' = Wrote(r) \cup {p} /\ tx'[r].writes[p] = new
  /\ \A q \in Wrote(r) : q # p => tx'[r].writes[q] = tx[r].writes[q]

(* a new row hangs where the one before it hangs *)
Kin(new, old) == new.parent = old.parent /\ new.quoted = old.quoted

(* A lock is taken when it is free, and given back by who has it. *)
LocksOf(r) ==
  \A p \in Post : \/ rowLock'[p] = rowLock[p]
                  \/ rowLock[p] \in {None, r} /\ rowLock'[p] \in {None, r}

(* The empty record of writes. *)
LEMMA NoWrites == <<>> \in Writes /\ DOMAIN <<>> = {}
<1>1. <<>> \in [{} -> PostRow]
  OBVIOUS
<1>2. QED
  BY <1>1 DEF Writes

LEMMA ClosedTyped == Closed \in Tx /\ DOMAIN Closed.writes = {}
<1>1. <<>> \in Seq(Tag)
  BY EmptySeq
<1>2. QED
  BY <1>1, NoWrites DEF Closed, Tx, Stage, Op

(* A write more. *)
LEMMA WithTyped ==
  ASSUME NEW r \in Req, tx[r].writes \in Writes, NEW p \in Post, NEW new \in PostRow
  PROVE  /\ With(r, p, new) \in Writes
         /\ DOMAIN With(r, p, new) = Wrote(r) \cup {p}
         /\ With(r, p, new)[p] = new
         /\ \A q \in Wrote(r) : q # p => With(r, p, new)[q] = tx[r].writes[q]
<1>1. PICK D \in SUBSET Post : tx[r].writes \in [D -> PostRow]
  BY DEF Writes
<1>2. With(r, p, new) \in [D \cup {p} -> PostRow]
  BY <1>1 DEF With, Wrote
<1>3. With(r, p, new) \in Writes
  BY <1>1, <1>2 DEF Writes
<1>4. QED
  BY <1>1, <1>3 DEF With, Wrote

(* A transaction that changes no table keeps the invariant if it keeps its own part. *)
LEMMA QuietInv ==
  ASSUME Assumptions, IInv, NEW r \in Req, Typed', row' = row,
         \A q \in Req \ {r} : Alike(q), LocksOf(r), HeldBy(r)', Knows(r)',
         tx'[r].post = tx[r].post \/ tx'[r].post = None \/ Exists(tx'[r].post)
           \/ \A q \in Req : tx[q].post # tx'[r].post
  PROVE  IInv'
<1>1. ASSUME NEW q \in Req, q # r PROVE HeldBy(q)'
  <2>1. Wrote(q)' = Wrote(q) /\ tx'[q].post = tx[q].post /\ tx'[q].op = tx[q].op
    BY <1>1 DEF Alike, Wrote
  <2>2. Wrote(q) \subseteq Post
    BY DEF IInv, Typed, TxOK, Tx, Writes, Wrote
  <2>3. ASSUME NEW p \in Wrote(q), Exists(p) PROVE rowLock'[p] = q
    <3>1. rowLock[p] = q /\ p \in Post
      BY <2>2, <2>3 DEF IInv, HeldBy
    <3>2. QED
      BY <1>1, <3>1 DEF LocksOf, Assumptions
  <2>4. QED
    BY <2>1, <2>3 DEF IInv, HeldBy, Exists
<1>2. ASSUME NEW q \in Req, q # r PROVE Knows(q)'
  BY <1>2 DEF IInv, Knows, Alike, Wrote, Exists
<1>3. OneInserts'
  BY DEF IInv, OneInserts, Alike, Exists
<1>4. QED
  BY <1>1, <1>2, <1>3 DEF IInv

-----------------------------------------------------------------------------
(* A statement that is followed by statement l, with writes w and rows s to lock. *)
LEMMA StepEffect ==
  ASSUME Assumptions, IInv, NEW r \in Req, Open(r), NEW l \in Stage, NEW w \in Writes, NEW s \in SUBSET Post,
         Step(r, l, w, s)
  PROVE  /\ TablesOK' /\ TxOK' /\ Unmoved /\ tagLock' = tagLock /\ Others(r) /\ SameTask(r)
         /\ tx'[r].at = l /\ tx'[r].writes = w /\ tx'[r].scan = s /\ tx'[r].dropped = tx[r].dropped
<1>1. tx \in [Req -> Tx] /\ tx[r] \in Tx
  BY DEF IInv, Typed, TxOK
<1>2. tx' = [tx EXCEPT ![r] = [tx[r] EXCEPT !.at = l, !.writes = w, !.scan = s]]
  BY <1>1 DEF Step, Tx
<1>3. [tx[r] EXCEPT !.at = l, !.writes = w, !.scan = s] \in Tx
  BY <1>1 DEF Tx
<1>4. TablesOK' /\ Unmoved /\ tagLock' = tagLock
  BY DEF Step, tables, ghosts, IInv, Typed, TablesOK, Unmoved
<1>5. TxOK' /\ tx'[r] = [tx[r] EXCEPT !.at = l, !.writes = w, !.scan = s]
  BY <1>1, <1>2, <1>3 DEF TxOK
<1>6. Others(r)
  BY <1>1, <1>2 DEF Alike, Others
<1>7. QED
  BY <1>1, <1>4, <1>5, <1>6 DEF Tx, SameTask

(* A row that is locked, and one that is not. *)
LEMMA LockEffect ==
  ASSUME IInv, NEW r \in Req, NEW p \in Post, Lock(r, p)
  PROVE  LocksOf(r) /\ rowLock' \in [Post -> Req \cup {None}]
         /\ rowLock'[p] = r /\ \A q \in Post : q # p => rowLock'[q] = rowLock[q]
BY DEF IInv, Typed, LocksOK, Lock, Free, LocksOf

LEMMA NoLock == ASSUME IInv, UNCHANGED rowLock PROVE \A r \in Req : LocksOf(r)
BY DEF LocksOf

(* A transaction that ends gives its locks back. *)
LEMMA ReleaseEffect ==
  ASSUME IInv, NEW r \in Req, Release(r)
  PROVE  LocksOf(r) /\ LocksOK' /\ \A p \in Post : rowLock[p] # r => rowLock'[p] = rowLock[p]
BY DEF IInv, Typed, LocksOK, Release, LocksOf

LEMMA RollbackInv ==
  ASSUME Assumptions, IInv, NEW r \in Req, Rollback(r)
  PROVE  IInv' /\ Unmoved /\ Others(r) /\ tx'[r] = Closed
<1>1. tx' = [tx EXCEPT ![r] = Closed] /\ Release(r)
  BY DEF Rollback
<1>2. tx'[r] = Closed /\ Others(r)
  BY <1>1 DEF IInv, Typed, TxOK, Alike, Others
<1>3. Typed' /\ Unmoved
  BY <1>1, ClosedTyped, ReleaseEffect DEF Rollback, tables, ghosts, IInv, Typed, TablesOK, TxOK, Unmoved
<1>4. HeldBy(r)' /\ Knows(r)'
  BY <1>2, ClosedTyped DEF HeldBy, Knows, Wrote, Closed, Assumptions, Writing
<1>5. tx'[r].post = None
  BY <1>2 DEF Closed
<1>6. QED
  BY <1>1, <1>2, <1>3, <1>4, <1>5, ReleaseEffect, QuietInv DEF Unmoved, Others

-----------------------------------------------------------------------------
(* A statement keeps the invariant if what it has written is its own and it knows what
   its next statement relies on. *)
LEMMA StepInv ==
  ASSUME Assumptions, IInv, NEW r \in Req, Open(r), NEW l \in Stage, NEW w \in Writes, NEW s \in SUBSET Post,
         Step(r, l, w, s), LocksOf(r), rowLock' \in [Post -> Req \cup {None}],
         \A p \in DOMAIN w :
           IF Exists(p) THEN rowLock'[p] = r ELSE tx[r].post = p /\ tx[r].op \in {"post", "quote"},
         Knows(r)'
  PROVE  IInv'
<1>1. /\ TablesOK' /\ TxOK' /\ row' = row /\ tagLock' = tagLock /\ \A q \in Req \ {r} : Alike(q)
      /\ tx'[r].writes = w /\ tx'[r].post = tx[r].post /\ tx'[r].op = tx[r].op
  BY StepEffect DEF Unmoved, Others, SameTask
<1>2. Typed'
  BY <1>1 DEF Typed, LocksOK, IInv
<1>3. HeldBy(r)'
  BY <1>1 DEF HeldBy, Wrote, Exists
<1>4. QED
  BY <1>1, <1>2, <1>3, QuietInv

(* what a request knows of itself *)
LEMMA Own ==
  ASSUME IInv, NEW r \in Req
  PROVE  /\ tx[r] \in Tx /\ tx[r].writes \in Writes /\ Wrote(r) \subseteq Post /\ tx[r].scan \subseteq Post
         /\ HeldBy(r) /\ Knows(r)
BY DEF IInv, Typed, TxOK, Tx, Writes, Wrote

-----------------------------------------------------------------------------
(* A statement that writes nothing, with the lock of a row or without. *)
LEMMA PassEffect ==
  ASSUME Assumptions, IInv, NEW r \in Req, Open(r), NEW l \in Stage, NEW s \in SUBSET Post,
         NEW w, w = tx[r].writes, Step(r, l, w, s), UNCHANGED rowLock \/ \E q \in Post : Lock(r, q)
  PROVE  /\ Unmoved /\ Others(r) /\ SameTask(r)
         /\ tx'[r].at = l /\ tx'[r].scan = s /\ tx'[r].writes = tx[r].writes /\ tx'[r].dropped = tx[r].dropped
         /\ Knows(r)' => IInv'
<1>1. tx[r].writes \in Writes /\ HeldBy(r) /\ Wrote(r) \subseteq Post
  BY Own
<1>2. LocksOf(r) /\ rowLock' \in [Post -> Req \cup {None}]
      /\ \A p \in Post : rowLock[p] = r => rowLock'[p] = r
  <2>1. CASE UNCHANGED rowLock
    BY <2>1, NoLock DEF IInv, Typed, LocksOK
  <2>2. ASSUME NEW q \in Post, Lock(r, q) PROVE <1>2!1 /\ <1>2!2
    BY <2>2, LockEffect
  <2>3. QED
    BY <2>1, <2>2
<1>3. Knows(r)' => IInv'
  BY <1>1, <1>2, StepInv DEF HeldBy, Wrote
<1>4. QED
  BY <1>1, <1>3, StepEffect

(* A statement that locks a row and writes it. *)
LEMMA WriteEffect ==
  ASSUME Assumptions, IInv, NEW r \in Req, Open(r), NEW p \in Post, Exists(p), NEW new \in PostRow,
         NEW l \in Stage, NEW s \in SUBSET Post, Lock(r, p), Step(r, l, With(r, p, new), s)
  PROVE  /\ Unmoved /\ Others(r) /\ SameTask(r) /\ Adds(r, p, new)
         /\ tx'[r].at = l /\ tx'[r].scan = s /\ tx'[r].dropped = tx[r].dropped
         /\ Knows(r)' => IInv'
<1>1. tx[r].writes \in Writes /\ HeldBy(r) /\ Wrote(r) \subseteq Post
  BY Own
<1>2. /\ With(r, p, new) \in Writes
      /\ DOMAIN With(r, p, new) = Wrote(r) \cup {p}
      /\ With(r, p, new)[p] = new
      /\ \A q \in Wrote(r) : q # p => With(r, p, new)[q] = tx[r].writes[q]
  BY <1>1, WithTyped
<1>3. /\ LocksOf(r) /\ rowLock' \in [Post -> Req \cup {None}]
      /\ rowLock'[p] = r /\ \A q \in Post : q # p => rowLock'[q] = rowLock[q]
  BY LockEffect
<1>4. /\ Unmoved /\ Others(r) /\ SameTask(r)
      /\ tx'[r].at = l /\ tx'[r].scan = s /\ tx'[r].dropped = tx[r].dropped
      /\ tx'[r].writes = With(r, p, new)
  BY <1>2, StepEffect
<1>5. ASSUME Knows(r)' PROVE IInv'
  <2>1. \A q \in DOMAIN With(r, p, new) :
          IF Exists(q) THEN rowLock'[q] = r ELSE tx[r].post = q /\ tx[r].op \in {"post", "quote"}
    BY <1>1, <1>2, <1>3 DEF HeldBy
  <2>2. QED
    BY <1>2, <1>3, <1>5, <2>1, StepInv
<1>6. QED
  BY <1>2, <1>4, <1>5 DEF Wrote, Adds

(* a row that is there has the type of the table, as its writer sees it too *)
LEMMA RowTyped == ASSUME IInv, NEW p \in Post, Exists(p) PROVE row[p] \in PostRow
BY DEF IInv, Typed, TablesOK, Exists

LEMMA SeenTyped ==
  ASSUME IInv, NEW r \in Req, NEW p \in Post
  PROVE  /\ Seen(r, p) \in PostRow \cup {None}
         /\ Exists(p) \/ p \in Wrote(r) => Seen(r, p) \in PostRow
<1>1. PICK D \in SUBSET Post : tx[r].writes \in [D -> PostRow]
  BY Own DEF Writes
<1>2. row[p] \in PostRow \cup {None}
  BY DEF IInv, Typed, TablesOK
<1>3. QED
  BY <1>1, <1>2, RowTyped DEF Seen, Wrote

-----------------------------------------------------------------------------
(* The counters of what a new post quotes and answers. *)
LEMMA CountEffect ==
  ASSUME Assumptions, IInv, NEW r \in Req, UpdateCounts(r)
  PROVE  /\ IInv' /\ Unmoved /\ Others(r) /\ SameTask(r)
         /\ tx[r].at = "count" /\ tx'[r].at \in {"count", "sync"} /\ tx'[r].writes = tx[r].writes
<1>1. tx[r].at = "count" /\ Open(r) /\ tx[r].scan \subseteq Post /\ Knows(r)
  BY Own DEF UpdateCounts, Open
<1>2. PICK l \in {"count", "sync"}, s \in SUBSET Post :
        Step(r, l, tx[r].writes, s) /\ (UNCHANGED rowLock \/ \E q \in Post : Lock(r, q))
  BY <1>1 DEF UpdateCounts
<1>3. /\ Unmoved /\ Others(r) /\ SameTask(r)
      /\ tx'[r].at = l /\ tx'[r].scan = s /\ tx'[r].writes = tx[r].writes
      /\ Knows(r)' => IInv'
  <2>1. l \in Stage
    BY DEF Stage
  <2>2. QED
    BY <1>1, <1>2, <2>1, PassEffect
<1>4. Knows(r)'
  BY <1>1, <1>3 DEF Knows, Exists, SameTask, Unmoved
<1>5. QED
  BY <1>1, <1>3, <1>4

(* The hashtags that go, and those that come: nothing else is touched. *)
LEMMA SyncEffect ==
  ASSUME Assumptions, IInv, NEW r \in Req, SyncPost(r) \/ UpsertHashtag(r)
  PROVE  /\ Typed' /\ Unmoved /\ rowLock' = rowLock /\ Others(r) /\ SameTask(r)
         /\ tx[r].at \in {"sync", "tags"} /\ tx'[r].at \in {"tags", "commit"}
         /\ tx'[r].writes = tx[r].writes
         /\ tx'[r].dropped = IF tx[r].at = "sync" THEN indexed[tx[r].post] ELSE tx[r].dropped
<1>1. tx \in [Req -> Tx] /\ tx[r] \in Tx
  BY DEF IInv, Typed, TxOK
<1>2. CASE SyncPost(r)
  <2>1. tx[r].post \in Post /\ tx[r].text \in Text
    BY <1>1, <1>2, Own DEF SyncPost, Knows
  <2>2. indexed[tx[r].post] \in SUBSET Text /\ TagsOf[tx[r].text] \in Seq(Tag)
    BY <2>1 DEF IInv, Typed, TablesOK, Assumptions
  <2>3. tx' = [tx EXCEPT ![r] = [tx[r] EXCEPT !.at = "tags", !.dropped = indexed[tx[r].post],
                                              !.tags = TagsOf[tx[r].text]]]
    BY <1>1, <1>2 DEF SyncPost, Tx
  <2>4. [tx[r] EXCEPT !.at = "tags", !.dropped = indexed[tx[r].post], !.tags = TagsOf[tx[r].text]] \in Tx
    BY <1>1, <2>2 DEF Tx, Stage
  <2>5. Typed' /\ Unmoved /\ rowLock' = rowLock
    BY <1>1, <1>2, <2>3, <2>4 DEF SyncPost, tables, locks, ghosts, IInv, Typed, TablesOK, LocksOK, TxOK, Unmoved
  <2>6. Others(r)
    BY <1>1, <2>3 DEF Alike, Others
  <2>7. QED
    BY <1>1, <1>2, <2>3, <2>5, <2>6 DEF SyncPost, Tx, SameTask
<1>3. CASE UpsertHashtag(r) /\ tx[r].tags = <<>>
  <2>1. tx' = [tx EXCEPT ![r] = [tx[r] EXCEPT !.at = "commit"]] /\ UNCHANGED tagLock
    BY <1>1, <1>3 DEF UpsertHashtag, Tx
  <2>2. [tx[r] EXCEPT !.at = "commit"] \in Tx
    BY <1>1 DEF Tx, Stage
  <2>3. Typed' /\ Unmoved /\ rowLock' = rowLock
    BY <1>1, <1>3, <2>1, <2>2 DEF UpsertHashtag, tables, locks, ghosts, IInv, Typed, TablesOK, LocksOK, TxOK, Unmoved
  <2>4. Others(r)
    BY <1>1, <2>1 DEF Alike, Others
  <2>5. QED
    BY <1>1, <1>3, <2>1, <2>3, <2>4 DEF UpsertHashtag, Tx, SameTask
<1>4. CASE UpsertHashtag(r) /\ tx[r].tags # <<>>
  <2>1. tx[r].tags \in Seq(Tag)
    BY <1>1 DEF Tx
  <2>2. Head(tx[r].tags) \in Tag /\ Tail(tx[r].tags) \in Seq(Tag)
    BY <1>4, <2>1
  <2>3. tx' = [tx EXCEPT ![r] = [tx[r] EXCEPT !.tags = Tail(tx[r].tags)]]
        /\ tagLock' = [tagLock EXCEPT ![Head(tx[r].tags)] = r]
    BY <1>1, <1>4 DEF UpsertHashtag, Tx
  <2>4. [tx[r] EXCEPT !.tags = Tail(tx[r].tags)] \in Tx
    BY <1>1, <2>2 DEF Tx
  <2>5. Typed' /\ Unmoved /\ rowLock' = rowLock
    BY <1>1, <1>4, <2>2, <2>3, <2>4 DEF UpsertHashtag, tables, locks, ghosts, IInv, Typed, TablesOK, LocksOK, TxOK, Unmoved
  <2>6. Others(r)
    BY <1>1, <2>3 DEF Alike, Others
  <2>7. QED
    BY <1>1, <1>4, <2>3, <2>5, <2>6 DEF UpsertHashtag, Tx, SameTask
<1>5. QED
  BY <1>2, <1>3, <1>4

LEMMA SyncInv ==
  ASSUME Assumptions, IInv, NEW r \in Req, SyncPost(r) \/ UpsertHashtag(r)
  PROVE  IInv'
<1>1. HeldBy(r) /\ Knows(r)
  BY Own
<1>2. HeldBy(r)'
  BY <1>1, SyncEffect DEF HeldBy, Wrote, Exists, SameTask, Unmoved
<1>3. Knows(r)'
  BY <1>1, SyncEffect DEF Knows, Exists, SameTask, Unmoved
<1>4. LocksOf(r)
  BY SyncEffect DEF LocksOf
<1>5. QED
  BY <1>2, <1>3, <1>4, SyncEffect, QuietInv DEF SameTask, Unmoved, Others

(* A request that is answered is over. *)
LEMMA RespondEffect ==
  ASSUME Assumptions, IInv, NEW r \in Req, Respond(r)
  PROVE  IInv' /\ Unmoved /\ Others(r) /\ tx'[r] = Closed
<1>1. tx' = [tx EXCEPT ![r] = Closed] /\ Unmoved /\ rowLock' = rowLock
  BY DEF Respond, tables, locks, ghosts, Unmoved
<1>2. tx'[r] = Closed /\ Others(r)
  BY <1>1 DEF IInv, Typed, TxOK, Alike, Others
<1>3. tx[r].post \in Post
  BY Own DEF Respond, Knows
<1>4. Typed'
  BY <1>1, <1>3, ClosedTyped DEF Respond, tables, locks, ghosts, IInv, Typed, TablesOK, LocksOK, TxOK, Unmoved
<1>5. HeldBy(r)' /\ Knows(r)'
  BY <1>2, ClosedTyped DEF HeldBy, Knows, Wrote, Closed, Assumptions, Writing
<1>6. tx'[r].post = None /\ LocksOf(r)
  BY <1>1, <1>2 DEF Closed, LocksOf
<1>7. QED
  BY <1>1, <1>2, <1>4, <1>5, <1>6, QuietInv DEF Unmoved, Others

-----------------------------------------------------------------------------
(* The edit. *)
LEMMA UpdateEffect ==
  ASSUME Assumptions, IInv, NEW r \in Req, UpdateRow(r)
  PROVE  /\ IInv' /\ Unmoved /\ Others(r) /\ tx[r].at = "update"
         /\ \/ tx'[r] = Closed
            \/ /\ SameTask(r) /\ tx'[r].at = "sync"
               /\ \E new \in PostRow : /\ Adds(r, tx[r].post, new)
                                       /\ new.text = tx[r].text /\ new.pinned = row[tx[r].post].pinned
                                       /\ new.deleted = row[tx[r].post].deleted
                                       /\ Kin(new, row[tx[r].post])
<1>1. tx[r].at = "update" /\ Open(r) /\ Knows(r) /\ tx[r].post \in Post /\ Exists(tx[r].post)
  BY Own DEF UpdateRow, Open, Knows
<1>2. CASE Alive(tx[r].post)
  <2> DEFINE p == tx[r].post
             new == [row[p] EXCEPT !.text = tx[r].text]
  <2>1. /\ new \in PostRow /\ new.text = tx[r].text /\ new.pinned = row[p].pinned
        /\ new.deleted = row[p].deleted /\ Kin(new, row[p])
    BY <1>1, RowTyped DEF Knows, PostRow, Writing, Kin
  <2>2. Lock(r, p) /\ Step(r, "sync", With(r, p, new), {})
    BY <1>2 DEF UpdateRow
  <2> HIDE DEF new
  <2>3. /\ Unmoved /\ Others(r) /\ SameTask(r) /\ Adds(r, p, new) /\ tx'[r].at = "sync"
        /\ Knows(r)' => IInv'
    BY <1>1, <2>1, <2>2, WriteEffect DEF Stage
  <2>4. Knows(r)'
    BY <1>1, <2>3 DEF Knows, Exists, Writing, SameTask, Unmoved
  <2>5. QED
    BY <1>1, <2>1, <2>3, <2>4
<1>3. CASE ~Alive(tx[r].post)
  BY <1>1, <1>3, RollbackInv DEF UpdateRow
<1>4. QED
  BY <1>2, <1>3

(* The delete. *)
LEMMA CascadeEffect ==
  ASSUME Assumptions, IInv, NEW r \in Req, DeleteCascade(r)
  PROVE  /\ IInv' /\ Unmoved /\ Others(r) /\ SameTask(r)
         /\ tx[r].at = "cascade" /\ tx'[r].at = "delete" /\ tx'[r].writes = tx[r].writes
         /\ tx'[r].scan = {q \in Post : q \in Descendants(tx[r].post) /\ ~row[q].deleted}
<1>1. tx[r].at = "cascade" /\ Open(r) /\ Knows(r) /\ tx[r].writes = <<>>
  BY Own DEF DeleteCascade, Open, Knows
<1>2. PICK s \in SUBSET Post :
        /\ s = {q \in Post : q \in Descendants(tx[r].post) /\ ~row[q].deleted}
        /\ Step(r, "delete", <<>>, s) /\ UNCHANGED rowLock
  BY DEF DeleteCascade
<1>3. /\ Unmoved /\ Others(r) /\ SameTask(r) /\ tx'[r].at = "delete" /\ tx'[r].writes = tx[r].writes
      /\ tx'[r].scan = s
      /\ Knows(r)' => IInv'
  BY <1>1, <1>2, PassEffect DEF Stage
<1>4. Knows(r)'
  BY <1>1, <1>3 DEF Knows, Exists, Writing, SameTask, Unmoved
<1>5. QED
  BY <1>1, <1>2, <1>3, <1>4

LEMMA DeleteRowEffect ==
  ASSUME Assumptions, IInv, NEW r \in Req, DeleteRow(r)
  PROVE  /\ IInv' /\ Unmoved /\ Others(r) /\ tx[r].at = "delete"
         /\ \/ tx'[r] = Closed
            \/ /\ SameTask(r) /\ tx'[r].at \in {"delete", "commit"}
               /\ tx'[r].at = "commit" => tx'[r].scan = {}
               /\ \/ /\ tx'[r].writes = tx[r].writes
                     /\ \A q \in tx[r].scan : q \in tx'[r].scan \/ ~Alive(q)
                     /\ tx'[r].scan \subseteq tx[r].scan
                  \/ \E q \in tx[r].scan, new \in PostRow :
                       /\ Adds(r, q, new) /\ new.deleted /\ new.text = row[q].text /\ Kin(new, row[q])
                       /\ tx'[r].scan = tx[r].scan \ {q}
<1>1. tx[r].at = "delete" /\ Open(r) /\ Knows(r) /\ tx[r].scan \subseteq Post
  BY Own DEF DeleteRow, Open
<1>2. ASSUME NEW q \in tx[r].scan, Lock(r, q), Alive(q),
             Step(r, "delete", With(r, q, [row[q] EXCEPT !.deleted = TRUE]), tx[r].scan \ {q})
      PROVE  /\ IInv' /\ Unmoved /\ Others(r) /\ SameTask(r) /\ tx'[r].at = "delete"
             /\ tx'[r].scan = tx[r].scan \ {q}
             /\ \E new \in PostRow :
                  Adds(r, q, new) /\ new.deleted /\ new.text = row[q].text /\ Kin(new, row[q])
  <2> DEFINE new == [row[q] EXCEPT !.deleted = TRUE]
  <2>1. new \in PostRow /\ new.deleted /\ new.text = row[q].text /\ Exists(q) /\ Kin(new, row[q])
    BY <1>1, <1>2, RowTyped DEF Alive, PostRow, Kin
  <2>2. Step(r, "delete", With(r, q, new), tx[r].scan \ {q})
    BY <1>2
  <2> HIDE DEF new
  <2>3. /\ Unmoved /\ Others(r) /\ SameTask(r) /\ Adds(r, q, new) /\ tx'[r].at = "delete"
        /\ tx'[r].scan = tx[r].scan \ {q}
        /\ Knows(r)' => IInv'
    BY <1>1, <1>2, <2>1, <2>2, WriteEffect DEF Stage
  <2>4. Knows(r)'
    BY <1>1, <2>3 DEF Knows, Exists, Writing, SameTask, Unmoved
  <2>5. QED
    BY <2>1, <2>3, <2>4
<1>3. ASSUME NEW l \in {"delete", "commit"}, NEW s \in SUBSET Post, Step(r, l, tx[r].writes, s),
             UNCHANGED rowLock \/ \E q \in Post : Lock(r, q)
      PROVE  /\ IInv' /\ Unmoved /\ Others(r) /\ SameTask(r) /\ tx'[r].at = l
             /\ tx'[r].writes = tx[r].writes /\ tx'[r].scan = s
  <2>1. /\ Unmoved /\ Others(r) /\ SameTask(r) /\ tx'[r].at = l /\ tx'[r].writes = tx[r].writes
        /\ tx'[r].scan = s
        /\ Knows(r)' => IInv'
    <3>1. PICK w : w = tx[r].writes
      OBVIOUS
    <3>2. Step(r, l, w, s) /\ l \in Stage
      BY <1>3, <3>1 DEF Stage
    <3>3. QED
      BY <1>1, <1>3, <3>1, <3>2, PassEffect
  <2>2. Knows(r)'
    BY <1>1, <2>1 DEF Knows, Exists, Writing, SameTask, Unmoved
  <2>3. QED
    BY <2>1, <2>2
<1>4. CASE Rollback(r)
  BY <1>1, <1>4, RollbackInv
<1>5. CASE ~Rollback(r)
  <2>1. \/ \E q \in tx[r].scan :
             Lock(r, q) /\ Alive(q)
               /\ Step(r, "delete", With(r, q, [row[q] EXCEPT !.deleted = TRUE]), tx[r].scan \ {q})
        \/ \E l \in {"delete", "commit"}, s \in SUBSET Post :
             /\ Step(r, l, tx[r].writes, s) /\ (UNCHANGED rowLock \/ \E q \in Post : Lock(r, q))
             /\ (l = "commit" => s = {}) /\ s \subseteq tx[r].scan
             /\ \A q \in tx[r].scan : q \in s \/ ~Alive(q)
    BY <1>1, <1>5 DEF DeleteRow
  <2>2. QED
    BY <1>1, <1>2, <1>3, <2>1
<1>6. QED
  BY <1>4, <1>5

-----------------------------------------------------------------------------
(* The pins that are cleared, and the one that is set. *)
LEMMA ClearPinEffect ==
  ASSUME Assumptions, IInv, NEW r \in Req, ClearPin(r)
  PROVE  /\ IInv' /\ Unmoved /\ Others(r) /\ SameTask(r) /\ tx[r].at = "clear" /\ tx'[r].at \in {"clear", "pin"}
         /\ \/ tx'[r].writes = tx[r].writes
            \/ \E q \in Post, new \in PostRow :
                 /\ Adds(r, q, new) /\ ~new.pinned /\ new.text = row[q].text
                 /\ Kin(new, row[q]) /\ new.deleted = row[q].deleted
<1>1. tx[r].at = "clear" /\ Open(r) /\ Knows(r) /\ tx[r].scan \subseteq Post
      /\ \A q \in tx[r].scan : Exists(q)
  BY Own DEF ClearPin, Open, Knows
<1>2. ASSUME NEW q \in tx[r].scan, Lock(r, q),
             Step(r, "clear", With(r, q, [row[q] EXCEPT !.pinned = FALSE]), tx[r].scan \ {q})
      PROVE  /\ IInv' /\ Unmoved /\ Others(r) /\ SameTask(r) /\ tx'[r].at = "clear"
             /\ \E new \in PostRow :
                  /\ Adds(r, q, new) /\ ~new.pinned /\ new.text = row[q].text
                  /\ Kin(new, row[q]) /\ new.deleted = row[q].deleted
  <2> DEFINE new == [row[q] EXCEPT !.pinned = FALSE]
  <2>1. /\ new \in PostRow /\ ~new.pinned /\ new.text = row[q].text /\ Exists(q)
        /\ Kin(new, row[q]) /\ new.deleted = row[q].deleted
    BY <1>1, <1>2, RowTyped DEF PostRow, Kin
  <2>2. Step(r, "clear", With(r, q, new), tx[r].scan \ {q})
    BY <1>2
  <2> HIDE DEF new
  <2>3. /\ Unmoved /\ Others(r) /\ SameTask(r) /\ Adds(r, q, new)
        /\ tx'[r].at = "clear" /\ tx'[r].scan = tx[r].scan \ {q}
        /\ Knows(r)' => IInv'
    BY <1>1, <1>2, <2>1, <2>2, WriteEffect DEF Stage
  <2>4. Knows(r)'
    BY <1>1, <2>1, <2>3 DEF Knows, Exists, Writing, SameTask, Unmoved, Adds
  <2>5. QED
    BY <2>1, <2>3, <2>4
<1>3. ASSUME NEW l \in {"clear", "pin"}, NEW s \in SUBSET tx[r].scan, Step(r, l, tx[r].writes, s),
             UNCHANGED rowLock \/ \E q \in Post : Lock(r, q)
      PROVE  /\ IInv' /\ Unmoved /\ Others(r) /\ SameTask(r) /\ tx'[r].at = l
             /\ tx'[r].writes = tx[r].writes
  <2>1. /\ Unmoved /\ Others(r) /\ SameTask(r) /\ tx'[r].at = l /\ tx'[r].scan = s
        /\ tx'[r].writes = tx[r].writes /\ (Knows(r)' => IInv')
    <3>1. l \in Stage /\ s \in SUBSET Post
      BY <1>1 DEF Stage
    <3>2. QED
      BY <1>1, <1>3, <3>1, PassEffect
  <2>2. Knows(r)'
    BY <1>1, <2>1 DEF Knows, Exists, Writing, SameTask, Unmoved, Wrote
  <2>3. QED
    BY <2>1, <2>2
<1>4. \/ \E q \in tx[r].scan :
           Lock(r, q) /\ Step(r, "clear", With(r, q, [row[q] EXCEPT !.pinned = FALSE]), tx[r].scan \ {q})
      \/ \E l \in {"clear", "pin"}, s \in SUBSET tx[r].scan :
           Step(r, l, tx[r].writes, s) /\ (UNCHANGED rowLock \/ \E q \in Post : Lock(r, q))
  BY <1>1 DEF ClearPin
<1>5. QED
  BY <1>1, <1>2, <1>3, <1>4

LEMMA SetPinEffect ==
  ASSUME Assumptions, IInv, NEW r \in Req, SetPin(r)
  PROVE  /\ IInv' /\ Unmoved /\ Others(r) /\ tx[r].at = "pin" /\ tx[r].post \in Post
         /\ \/ tx'[r] = Closed
            \/ /\ SameTask(r) /\ tx'[r].at = "commit"
               /\ Alive(tx[r].post) /\ IndexAllows(r, tx[r].post) /\ BeingPinned(r, tx[r].post) = {}
               /\ \E new \in PostRow : /\ Adds(r, tx[r].post, new)
                                       /\ new.text = Seen(r, tx[r].post).text
                                       /\ Kin(new, Seen(r, tx[r].post))
                                       /\ new.deleted = Seen(r, tx[r].post).deleted
<1>1. tx[r].at = "pin" /\ Open(r) /\ Knows(r) /\ tx[r].post \in Post /\ Exists(tx[r].post)
  BY Own DEF SetPin, Open, Knows
<1>2. CASE Alive(tx[r].post) /\ IndexAllows(r, tx[r].post)
  <2> DEFINE p == tx[r].post
             new == [Seen(r, p) EXCEPT !.pinned = TRUE]
  <2>1. /\ new \in PostRow /\ new.text = Seen(r, p).text
        /\ Kin(new, Seen(r, p)) /\ new.deleted = Seen(r, p).deleted
    <3>1. Seen(r, p) \in PostRow
      BY <1>1, SeenTyped
    <3>2. QED
      BY <3>1 DEF PostRow, Kin
  <2>2. Lock(r, p) /\ Step(r, "commit", With(r, p, new), {}) /\ BeingPinned(r, p) = {}
    BY <1>2 DEF SetPin
  <2> HIDE DEF new
  <2>3. /\ Unmoved /\ Others(r) /\ SameTask(r) /\ Adds(r, p, new) /\ tx'[r].at = "commit"
        /\ Knows(r)' => IInv'
    BY <1>1, <2>1, <2>2, WriteEffect DEF Stage
  <2>4. Knows(r)'
    BY <1>1, <2>3 DEF Knows, Exists, Writing, SameTask, Unmoved
  <2>5. QED
    BY <1>1, <1>2, <2>1, <2>2, <2>3, <2>4
<1>3. CASE ~(Alive(tx[r].post) /\ IndexAllows(r, tx[r].post))
  BY <1>1, <1>3, RollbackInv DEF SetPin
<1>4. QED
  BY <1>2, <1>3

LEMMA ClearOwnPinEffect ==
  ASSUME Assumptions, IInv, NEW r \in Req, ClearOwnPin(r)
  PROVE  /\ IInv' /\ Unmoved /\ Others(r) /\ tx[r].at = "unpin"
         /\ \/ tx'[r] = Closed
            \/ /\ SameTask(r) /\ tx'[r].at = "commit"
               /\ \E new \in PostRow : /\ Adds(r, tx[r].post, new) /\ ~new.pinned
                                       /\ new.text = row[tx[r].post].text
                                       /\ Kin(new, row[tx[r].post])
                                       /\ new.deleted = row[tx[r].post].deleted
<1>1. tx[r].at = "unpin" /\ Open(r) /\ Knows(r) /\ tx[r].post \in Post /\ Exists(tx[r].post)
  BY Own DEF ClearOwnPin, Open, Knows
<1>2. CASE row[tx[r].post].pinned
  <2> DEFINE p == tx[r].post
             new == [row[p] EXCEPT !.pinned = FALSE]
  <2>1. /\ new \in PostRow /\ ~new.pinned /\ new.text = row[p].text
        /\ Kin(new, row[p]) /\ new.deleted = row[p].deleted
    BY <1>1, RowTyped DEF PostRow, Kin
  <2>2. Lock(r, p) /\ Step(r, "commit", With(r, p, new), {})
    BY <1>2 DEF ClearOwnPin
  <2> HIDE DEF new
  <2>3. /\ Unmoved /\ Others(r) /\ SameTask(r) /\ Adds(r, p, new) /\ tx'[r].at = "commit"
        /\ Knows(r)' => IInv'
    BY <1>1, <2>1, <2>2, WriteEffect DEF Stage
  <2>4. Knows(r)'
    BY <1>1, <2>3 DEF Knows, Exists, Writing, SameTask, Unmoved
  <2>5. QED
    BY <1>1, <2>1, <2>3, <2>4
<1>3. CASE ~row[tx[r].post].pinned
  BY <1>1, <1>3, RollbackInv DEF ClearOwnPin
<1>4. QED
  BY <1>2, <1>3

-----------------------------------------------------------------------------
(* A request that begins. *)
LEMMA BeginEffect ==
  ASSUME Assumptions, IInv, NEW r \in Req, NEW o \in Op, NEW p \in Post, NEW l \in Stage,
         NEW t \in Text \cup {None}, NEW w \in Writes, NEW s \in SUBSET Post, l # "closed",
         Begin(r, o, p, l, t, w, s)
  PROVE  /\ Typed' /\ Unmoved /\ rowLock' = rowLock
         /\ tx[r].at = "closed"
         /\ Meets(r)
         /\ tx'[r].at = l /\ tx'[r].op = o /\ tx'[r].post = p /\ tx'[r].text = t
         /\ tx'[r].writes = w /\ tx'[r].scan = s /\ tx'[r].dropped = {}
         /\ tx'[r].before = IF Exists(p) THEN row[p].text ELSE None
<1> DEFINE others == {q \in Req : Open(q)}
           before == IF Exists(p) THEN row[p].text ELSE None
           new == [Closed EXCEPT !.at = l, !.op = o, !.post = p, !.text = t, !.writes = w,
                                 !.scan = s, !.met = others # {}, !.before = before]
           met(q) == [tx[q] EXCEPT !.met = @ \/ q \in others]
<1>1. tx' = [q \in Req |-> IF q = r THEN new ELSE met(q)]
  BY DEF Begin
<1>2. before \in Text \cup {None}
  BY RowTyped DEF PostRow
<1>3. /\ new \in Tx
      /\ new.at = l /\ new.op = o /\ new.post = p /\ new.text = t /\ new.writes = w /\ new.scan = s
      /\ new.dropped = {} /\ new.before = before /\ new.met = (others # {})
  <2> HIDE DEF before, others
  <2> QED
    BY <1>2, EmptySeq DEF Closed, Tx
<1>4. ASSUME NEW q \in Req
      PROVE  /\ met(q) \in Tx
             /\ met(q).at = tx[q].at /\ met(q).op = tx[q].op /\ met(q).post = tx[q].post
             /\ met(q).text = tx[q].text /\ met(q).before = tx[q].before /\ met(q).scan = tx[q].scan
             /\ met(q).writes = tx[q].writes /\ met(q).dropped = tx[q].dropped
             /\ (tx[q].met \/ Open(q)) => met(q).met
             /\ tx[q] = Closed => met(q) = Closed
  <2>1. tx[q] \in Tx
    BY DEF IInv, Typed, TxOK
  <2>2. tx[q] = Closed => q \notin others /\ tx[q].met = FALSE
    BY DEF Open, Closed
  <2>3. (tx[q].met \/ q \in others) \in BOOLEAN /\ (q \in others <=> Open(q))
    BY <2>1 DEF Tx
  <2>4. met(q) = [tx[q] EXCEPT !.met = tx[q].met \/ q \in others]
    BY <2>1 DEF Tx
  <2> HIDE DEF others
  <2>5. QED
    BY <2>1, <2>2, <2>3, <2>4 DEF Tx
<1>5. tx[r].at = "closed" /\ Unmoved /\ rowLock' = rowLock /\ TablesOK' /\ LocksOK'
  BY DEF Begin, Open, tables, locks, Unmoved, IInv, Typed, TablesOK, LocksOK
<1>6. tx'[r] = new /\ \A q \in Req \ {r} : tx'[q] = met(q)
  BY <1>1
<1>7. TxOK'
  <2> HIDE DEF new, met
  <2> QED
    BY <1>1, <1>3, <1>4 DEF TxOK
<1>8. ASSUME NEW q \in Req \ {r} PROVE Alike(q) /\ ((tx[q].met \/ Open(q)) => tx'[q].met)
  <2>1. tx'[q] = met(q)
    BY <1>6
  <2> HIDE DEF met, new
  <2>2. Alike(q)
    BY <1>4, <2>1 DEF Alike
  <2>3. (tx[q].met \/ Open(q)) => tx'[q].met
    BY <1>4, <2>1
  <2>4. QED
    BY <2>2, <2>3
<1>9. ASSUME NEW q \in Req, Open(q) PROVE tx'[r].met
  BY <1>3, <1>6, <1>9
<1>10. QED
  <2> HIDE DEF new, met, before, others
  <2> QED
    BY <1>3, <1>5, <1>6, <1>7, <1>8, <1>9 DEF Typed, before, Meets

(* One that reads a post that is there and writes nothing yet. *)
LEMMA ReadEffect ==
  ASSUME Assumptions, IInv, NEW r \in Req, UpdatePost(r) \/ DeletePostByID(r) \/ PinPost(r) \/ UnpinPost(r)
  PROVE  /\ IInv' /\ Unmoved /\ Meets(r) /\ tx[r].at = "closed"
         /\ tx'[r].writes = <<>> /\ tx'[r].at \in {"update", "cascade", "clear", "unpin"}
         /\ tx'[r].op = "edit" => tx'[r].before = row[tx'[r].post].text
<1>1. PICK o \in Op \ {"post", "quote", None}, p \in Post, l \in {"update", "cascade", "clear", "unpin"},
           t \in Text \cup {None}, s \in SUBSET Post :
        /\ Exists(p) /\ (o = "edit" <=> l = "update") /\ (o = "edit" => t \in Text)
        /\ (l = "cascade" => o = "delete") /\ (l = "clear" => o = "pin") /\ (l = "unpin" => o = "unpin")
        /\ l = "clear" => \A q \in s : Exists(q)
        /\ Begin(r, o, p, l, t, <<>>, s)
  <2>1. {"edit", "delete", "pin", "unpin"} \subseteq Op \ {"post", "quote", None}
    BY DEF Op, Assumptions
  <2>2. CASE UpdatePost(r)
    BY <2>1, <2>2 DEF UpdatePost, SetPostContext, Alive, Update
  <2>3. CASE DeletePostByID(r)
    BY <2>1, <2>3 DEF DeletePostByID, SetPostContext, Alive, DeleteByID
  <2>4. CASE PinPost(r)
    <3>1. PICK p \in Post : Exists(p) /\ Pin(r, p)
      BY <2>4 DEF PinPost, SetPostContext, Alive
    <3>2. Begin(r, "pin", p, "clear", None, <<>>, {q \in Post : Exists(q) /\ Author[q] = Author[p] /\ row[q].pinned})
      BY <3>1 DEF Pin
    <3>3. QED
      BY <2>1, <3>1, <3>2
  <2>5. CASE UnpinPost(r)
    BY <2>1, <2>5 DEF UnpinPost, SetPostContext, Alive, Unpin
  <2>6. QED
    BY <2>2, <2>3, <2>4, <2>5
<1>2. <<>> \in Writes /\ DOMAIN <<>> = {} /\ o \in Op /\ l \in Stage /\ l # "closed"
  BY NoWrites DEF Stage
<1>3. /\ Typed' /\ Unmoved /\ rowLock' = rowLock /\ Meets(r) /\ tx[r].at = "closed"
      /\ tx'[r].at = l /\ tx'[r].op = o /\ tx'[r].post = p /\ tx'[r].text = t
      /\ tx'[r].writes = <<>> /\ tx'[r].scan = s
  BY <1>1, <1>2, BeginEffect
<1>4. tx'[r].before = row[p].text
  BY <1>1, <1>2, BeginEffect
<1>5. row[p].text \in Text
  BY <1>1, RowTyped DEF PostRow
<1>6. HeldBy(r)'
  BY <1>2, <1>3 DEF HeldBy, Wrote
<1>7. Knows(r)'
  BY <1>1, <1>2, <1>3, <1>4, <1>5 DEF Knows, Exists, Wrote, Writing, Op, Unmoved
<1>8. IInv'
  <2>1. row' = row /\ LocksOf(r) /\ \A q \in Req \ {r} : Alike(q)
    BY <1>3 DEF LocksOf, Unmoved, Meets
  <2>2. Exists(tx'[r].post)
    BY <1>1, <1>3
  <2>3. QED
    BY <1>3, <1>6, <1>7, <2>1, <2>2, QuietInv
<1>9. QED
  BY <1>3, <1>4, <1>8

(* One that inserts a post. *)
LEMMA InsertEffect ==
  ASSUME Assumptions, IInv, NEW r \in Req, NEW o \in {"post", "quote"}, NEW p \in Post,
         NEW parent \in Post \cup {None}, NEW quoted \in Post \cup {None}, Insert(r, o, p, parent, quoted)
  PROVE  /\ IInv' /\ Unmoved /\ rowLock' = rowLock
         /\ Meets(r)
         /\ tx[r].at = "closed" /\ ~Exists(p)
         /\ tx'[r].at = "count" /\ tx'[r].op = o /\ tx'[r].post = p /\ tx'[r].text \in Text
         /\ Wrote(r)' = {p}
         /\ tx'[r].writes[p].text = tx'[r].text /\ ~tx'[r].writes[p].pinned
         /\ tx'[r].writes[p].parent = parent /\ tx'[r].writes[p].quoted = quoted
<1>1. PICK t \in Text : Begin(r, o, p, "count", t, [q \in {p} |-> NewRow(parent, quoted, t)],
                             {parent, quoted} \ {None})
  BY DEF Insert
<1>2. ~Exists(p) /\ \A q \in Req : tx[q].post # p
  BY DEF Insert
<1> DEFINE w == [q \in {p} |-> NewRow(parent, quoted, t)]
<1>3. NewRow(parent, quoted, t) \in PostRow
  BY DEF NewRow, PostRow
<1>4. /\ w \in Writes /\ DOMAIN w = {p} /\ w[p].text = t /\ ~w[p].pinned
      /\ w[p].parent = parent /\ w[p].quoted = quoted
  <2>1. w \in [{p} -> PostRow]
    BY <1>3
  <2>2. QED
    BY <2>1 DEF Writes, NewRow
<1>5. {parent, quoted} \ {None} \in SUBSET Post /\ o \in Op /\ "count" \in Stage /\ t \in Text \cup {None}
  BY DEF Op, Stage
<1> HIDE DEF w
<1>6. /\ Typed' /\ Unmoved /\ rowLock' = rowLock
      /\ Meets(r)
      /\ tx[r].at = "closed"
      /\ tx'[r].at = "count" /\ tx'[r].op = o /\ tx'[r].post = p /\ tx'[r].text = t
      /\ tx'[r].writes = w
  BY <1>1, <1>4, <1>5, BeginEffect DEF w
<1>7. HeldBy(r)'
  BY <1>2, <1>4, <1>6 DEF HeldBy, Wrote, Exists, Unmoved
<1>8. Knows(r)'
  BY <1>4, <1>6 DEF Knows, Exists, Wrote, Writing, Unmoved
<1>9. IInv'
  <2>1. row' = row /\ LocksOf(r) /\ \A q \in Req \ {r} : Alike(q)
    BY <1>6 DEF LocksOf, Unmoved, Meets
  <2>2. QED
    BY <1>2, <1>6, <1>7, <1>8, <2>1, QuietInv
<1>10. QED
  BY <1>2, <1>4, <1>6, <1>9 DEF Wrote

-----------------------------------------------------------------------------
(* The COMMIT: what was written is there, and the locks are given back. *)
LEMMA CommitTables ==
  ASSUME Assumptions, IInv, NEW r \in Req, Commit(r)
  PROVE  TablesOK'
<1>1. /\ tx[r].at = "commit" /\ tx[r].post \in Post /\ tx[r] \in Tx
      /\ tx[r].op = "edit" => tx[r].before \in Text /\ row[tx[r].post].text \in Text
      /\ tx[r].op \in Writing => tx[r].text \in Text
  BY Own, RowTyped DEF Commit, Knows, PostRow
<1>2. row' \in [Post -> PostRow \cup {None}]
  BY SeenTyped DEF Commit
<1>3. history' \in [Post -> Seq(Text)] /\ past' \in [Post -> Seq(Text)]
  <2>1. history \in [Post -> Seq(Text)] /\ past \in [Post -> Seq(Text)]
    BY DEF IInv, Typed, TablesOK
  <2>2. CASE tx[r].op = "edit"
    <3>1. history' = [history EXCEPT ![tx[r].post] = Append(history[tx[r].post], tx[r].before)]
          /\ past' = [past EXCEPT ![tx[r].post] = Append(past[tx[r].post], row[tx[r].post].text)]
      BY <1>1, <2>1, <2>2 DEF Commit, CreateEdit
    <3>2. Append(history[tx[r].post], tx[r].before) \in Seq(Text)
          /\ Append(past[tx[r].post], row[tx[r].post].text) \in Seq(Text)
      BY <1>1, <2>1, <2>2, AppendProperties
    <3>3. QED
      BY <2>1, <3>1, <3>2
  <2>3. CASE tx[r].op # "edit"
    BY <2>1, <2>3 DEF Commit
  <2>4. QED
    BY <2>2, <2>3
<1>4. indexed' \in [Post -> SUBSET Text]
  <2>1. indexed \in [Post -> SUBSET Text]
    BY DEF IInv, Typed, TablesOK
  <2>2. CASE tx[r].op \in Writing
    <3>1. indexed' = [indexed EXCEPT ![tx[r].post] = (indexed[tx[r].post] \ tx[r].dropped) \cup {tx[r].text}]
      BY <1>1, <2>1, <2>2 DEF Commit, Writing
    <3>2. (indexed[tx[r].post] \ tx[r].dropped) \cup {tx[r].text} \in SUBSET Text
      BY <1>1, <2>1, <2>2
    <3>3. QED
      BY <2>1, <3>1, <3>2
  <2>3. CASE tx[r].op \notin Writing
    BY <2>1, <2>3 DEF Commit, Writing
  <2>4. QED
    BY <2>2, <2>3
<1>5. announced' \subseteq Post /\ late' \subseteq Post
  BY <1>1 DEF Commit, IInv, Typed, TablesOK
<1>6. QED
  BY <1>2, <1>3, <1>4, <1>5 DEF TablesOK

LEMMA CommitEffect ==
  ASSUME Assumptions, IInv, NEW r \in Req, Commit(r)
  PROVE  /\ Typed' /\ LocksOf(r) /\ \A p \in Post : rowLock[p] # r => rowLock'[p] = rowLock[p]
         /\ Others(r)
         /\ tx[r].at = "commit" /\ tx'[r].writes = <<>>
         /\ tx'[r] = Closed \/ /\ tx'[r].at = "respond" /\ tx'[r].op \in {"post", "quote"}
                               /\ tx'[r].op = tx[r].op /\ tx'[r].post = tx[r].post
         /\ \A p \in Post : row'[p] = Seen(r, p) /\ (Exists(p) => Exists(p)')
<1>1. tx \in [Req -> Tx] /\ tx[r].post \in Post /\ tx[r].at = "commit"
  BY Own DEF Commit, Knows, IInv, Typed, TxOK
<1> DEFINE asked == [Closed EXCEPT !.at = "respond", !.op = tx[r].op, !.post = tx[r].post]
           new == IF tx[r].op \in {"post", "quote"} THEN asked ELSE Closed
<1>2. new \in Tx /\ new.writes = <<>>
      /\ (new = Closed \/ /\ new.at = "respond" /\ new.op \in {"post", "quote"}
                          /\ new.op = tx[r].op /\ new.post = tx[r].post)
  <2>1. CASE tx[r].op \in {"post", "quote"}
    <3>1. new = asked
      BY <2>1
    <3>2. asked \in Tx /\ asked.writes = <<>> /\ asked.at = "respond" /\ asked.op = tx[r].op /\ asked.post = tx[r].post
      BY <1>1, <2>1, EmptySeq, NoWrites DEF Closed, Tx, Stage, Op
    <3> HIDE DEF asked, new
    <3>3. QED
      BY <2>1, <3>1, <3>2
  <2>2. CASE tx[r].op \notin {"post", "quote"}
    BY <2>2, ClosedTyped DEF Closed
  <2>3. QED
    BY <2>1, <2>2
<1>3. tx' = [tx EXCEPT ![r] = new]
  BY DEF Commit
<1> HIDE DEF new
<1>4. TxOK' /\ tx'[r] = new /\ Others(r)
  BY <1>1, <1>2, <1>3 DEF TxOK, Alike, Others
<1>5. LocksOf(r) /\ LocksOK' /\ \A p \in Post : rowLock[p] # r => rowLock'[p] = rowLock[p]
  BY ReleaseEffect DEF Commit
<1>6. \A p \in Post : row'[p] = Seen(r, p)
  BY DEF Commit
<1>7. ASSUME NEW p \in Post, Exists(p) PROVE Exists(p)'
  <2>1. Seen(r, p) \in PostRow
    BY <1>7, SeenTyped
  <2>2. QED
    BY <1>6, <2>1 DEF Exists, Assumptions
<1>8. Typed'
  BY <1>4, <1>5, CommitTables DEF Typed
<1>9. /\ tx'[r].writes = <<>>
      /\ (tx'[r] = Closed \/ /\ tx'[r].at = "respond" /\ tx'[r].op \in {"post", "quote"}
                             /\ tx'[r].op = tx[r].op /\ tx'[r].post = tx[r].post)
  BY <1>2, <1>4
<1>10. QED
  BY <1>1, <1>4, <1>5, <1>6, <1>7, <1>8, <1>9

LEMMA CommitInv == ASSUME Assumptions, IInv, NEW r \in Req, Commit(r) PROVE IInv'
<1>1. ASSUME NEW q \in Req, q # r PROVE HeldBy(q)'
  <2>1. Wrote(q)' = Wrote(q) /\ tx'[q].post = tx[q].post /\ tx'[q].op = tx[q].op
    BY <1>1, CommitEffect DEF Alike, Wrote, Others
  <2>2. Wrote(q) \subseteq Post /\ HeldBy(q)
    BY Own
  <2>3. ASSUME NEW p \in Wrote(q)
        PROVE  IF Exists(p)' THEN rowLock'[p] = q ELSE tx[q].post = p /\ tx[q].op \in {"post", "quote"}
    <3>1. CASE Exists(p)
      <4>1. rowLock[p] = q
        BY <2>2, <2>3, <3>1 DEF HeldBy
      <4>2. Exists(p)' /\ rowLock'[p] = q
        BY <1>1, <2>2, <2>3, <3>1, <4>1, CommitEffect
      <4>3. QED
        BY <4>2
    <3>2. CASE ~Exists(p)
      <4>1. tx[q].post = p /\ tx[q].op \in {"post", "quote"}
        BY <2>2, <2>3, <3>2 DEF HeldBy
      <4>2. p \notin Wrote(r)
        <5>1. tx[r].post # p
          BY <1>1, <2>2, <2>3, <3>2, <4>1 DEF IInv, OneInserts, Assumptions
        <5>2. QED
          BY <3>2, <5>1, Own DEF HeldBy
      <4>3. ~Exists(p)'
        BY <2>2, <2>3, <3>2, <4>2, CommitEffect DEF Exists, Seen
      <4>4. QED
        BY <4>1, <4>3
    <3>3. QED
      BY <3>1, <3>2
  <2>4. QED
    BY <2>1, <2>3 DEF HeldBy
<1>2. ASSUME NEW q \in Req, q # r PROVE Knows(q)'
  <2>1. Knows(q) /\ tx[q].scan \subseteq Post /\ \A p \in Post : Exists(p) => Exists(p)'
    BY CommitEffect, Own
  <2>2. /\ tx'[q].at = tx[q].at /\ tx'[q].op = tx[q].op /\ tx'[q].post = tx[q].post
        /\ tx'[q].text = tx[q].text /\ tx'[q].before = tx[q].before /\ tx'[q].scan = tx[q].scan
        /\ tx'[q].writes = tx[q].writes /\ (tx[q] = Closed => tx'[q] = Closed)
    BY <1>2, CommitEffect DEF Alike, Others
  <2>3. tx[q].op = "edit" \/ tx[q].at # "closed" => tx[q].post \in Post
    BY <2>1 DEF Knows, Closed, Assumptions
  <2>4. QED
    BY <2>1, <2>2, <2>3 DEF Knows, Wrote
<1>3. HeldBy(r)' /\ Knows(r)'
  <2>1. Wrote(r)' = {} /\ tx'[r].writes = <<>>
    BY CommitEffect, NoWrites DEF Wrote
  <2>2. HeldBy(r)'
    BY <2>1 DEF HeldBy
  <2>3. CASE tx'[r] = Closed
    BY <2>1, <2>2, <2>3 DEF Knows, Closed, Assumptions, Writing
  <2>4. CASE tx'[r].at = "respond" /\ tx'[r].op \in {"post", "quote"} /\ tx'[r].post = tx[r].post
    <3>1. tx[r].post \in Post
      BY Own DEF Commit, Knows
    <3>2. QED
      BY <2>1, <2>2, <2>4, <3>1 DEF Knows
  <2>5. QED
    BY <2>2, <2>3, <2>4, CommitEffect
<1>4. OneInserts'
  <2> SUFFICES ASSUME NEW q \in Req, NEW s \in Req, tx'[q].post = tx'[s].post, tx'[q].post # None, q # s
               PROVE  Exists(tx[q].post)'
    BY DEF OneInserts
  <2>1. \A o \in Req : tx'[o].post = tx[o].post \/ tx'[o].post = None
    BY CommitEffect DEF Alike, Closed, Others
  <2>2. tx[q].post = tx[s].post /\ tx[q].post = tx'[q].post /\ tx[q].post # None
    BY <2>1
  <2>3. Exists(tx[q].post)
    BY <2>2 DEF IInv, OneInserts
  <2>4. tx[q].post \in Post
    BY <2>2, Own DEF Tx
  <2>5. QED
    BY <2>2, <2>3, <2>4, CommitEffect
<1>5. QED
  BY <1>1, <1>2, <1>3, <1>4, CommitEffect DEF IInv

-----------------------------------------------------------------------------
LEMMA InitInv == ASSUME Assumptions, Init PROVE IInv
<1>1. ASSUME NEW p \in DOMAIN Parents PROVE NewRow(Parents[p], None, FirstText) \in PostRow
  BY <1>1 DEF NewRow, PostRow, Assumptions
<1>2. Typed
  <2>1. row \in [Post -> PostRow \cup {None}]
    BY <1>1 DEF Init
  <2>2. history \in [Post -> Seq(Text)] /\ past \in [Post -> Seq(Text)]
    BY EmptySeq DEF Init
  <2>3. indexed \in [Post -> SUBSET Text]
    BY DEF Init, Assumptions
  <2>4. QED
    BY <2>1, <2>2, <2>3, ClosedTyped DEF Init, Typed, TablesOK, LocksOK, TxOK, Assumptions
<1>3. \A r \in Req : HeldBy(r) /\ Knows(r)
  BY ClosedTyped DEF Init, HeldBy, Knows, Wrote, Closed, Writing, Assumptions
<1>4. OneInserts
  BY DEF Init, OneInserts, Closed
<1>5. QED
  BY <1>2, <1>3, <1>4 DEF IInv

(* an insert is a post's or a quote's *)
LEMMA Inserts ==
  ASSUME Assumptions, NEW r \in Req, CreatePost(r) \/ Quote(r)
  PROVE  \E o \in {"post", "quote"}, p \in Post, parent \in Post \cup {None}, quoted \in Post \cup {None} :
           Insert(r, o, p, parent, quoted)
BY DEF CreatePost, Create, Quote, QuotePost

LEMMA StepKeeps == ASSUME Assumptions, IInv, [Next]_vars PROVE IInv'
<1>1. ASSUME NEW r \in Req, CreatePost(r) \/ Quote(r) PROVE IInv'
  BY <1>1, Inserts, InsertEffect
<1>2. ASSUME NEW r \in Req, UpdatePost(r) \/ DeletePostByID(r) \/ PinPost(r) \/ UnpinPost(r) PROVE IInv'
  BY <1>2, ReadEffect
<1>3. ASSUME NEW r \in Req,
             UpdateCounts(r) \/ SyncPost(r) \/ UpsertHashtag(r) \/ UpdateRow(r) \/ DeleteCascade(r)
      PROVE IInv'
  BY <1>3, CountEffect, SyncInv, UpdateEffect, CascadeEffect
<1>4. ASSUME NEW r \in Req, DeleteRow(r) \/ ClearPin(r) \/ SetPin(r) \/ ClearOwnPin(r) PROVE IInv'
  BY <1>4, DeleteRowEffect, ClearPinEffect, SetPinEffect, ClearOwnPinEffect
<1>5. ASSUME NEW r \in Req, Respond(r) \/ Commit(r) \/ Fail(r) PROVE IInv'
  BY <1>5, RespondEffect, CommitInv, RollbackInv DEF Fail
<1>6. CASE UNCHANGED vars
  BY <1>6 DEF vars, tables, locks, ghosts, IInv, Typed, TablesOK, LocksOK, TxOK, OneInserts,
              HeldBy, Knows, Wrote, Exists
<1>7. QED
  BY <1>1, <1>2, <1>3, <1>4, <1>5, <1>6 DEF Next

(* The invariant of the tables, the locks and the transactions. *)
THEOREM Invariance == ASSUME Assumptions PROVE Spec => []IInv
<1>1. Init => IInv
  BY InitInv
<1>2. IInv /\ [Next]_vars => IInv'
  BY StepKeeps
<1>3. QED
  BY <1>1, <1>2, PTL DEF Spec

(* Rows, locks and transactions have their types, and what a transaction has written
   of a row that is there it has locked. *)
THEOREM TypeCorrect == ASSUME Assumptions PROVE Spec => []PostsTypeOK
<1>1. IInv => PostsTypeOK
  <2> SUFFICES ASSUME IInv PROVE PostsTypeOK
    OBVIOUS
  <2>1. ASSUME NEW r \in Req
        PROVE  /\ tx[r].at \in Stage
               /\ tx[r].post \in Post \cup {None} /\ tx[r].scan \subseteq Post
               /\ \A p \in Wrote(r) : Exists(p) => rowLock[p] = r
    BY Own DEF HeldBy, Tx
  <2>2. QED
    BY <2>1 DEF PostsTypeOK, Stage, IInv, Typed, TablesOK, LocksOK, PostRow
<1>2. QED
  BY <1>1, Invariance, PTL

-----------------------------------------------------------------------------
(* No two rows of an author are pinned: of those that a transaction has written and
   those that it sees, and of those that two have written. *)
PinsOf(r) ==
  \A p, q \in Post : p # q /\ Author[p] = Author[q] /\ p \in Wrote(r) =>
    ~(IsPin(p, tx[r].writes[p]) /\ IsPin(q, Seen(r, q)))

PinsOfTwo(r, s) ==
  \A p, q \in Post : p # q /\ Author[p] = Author[q] /\ p \in Wrote(r) /\ q \in Wrote(s) =>
    ~(IsPin(p, tx[r].writes[p]) /\ IsPin(q, tx[s].writes[q]))

PinInv ==
  /\ OnePin
  /\ \A r \in Req : PinsOf(r)
  /\ \A r, s \in Req : r # s => PinsOfTwo(r, s)

(* A step that commits nothing has only its own request to answer for. *)
LEMMA PinQuiet ==
  ASSUME PinInv, NEW r \in Req, row' = row, \A q \in Req \ {r} : Alike(q),
         PinsOf(r)', \A s \in Req \ {r} : PinsOfTwo(r, s)'
  PROVE  PinInv'
<1>1. OnePin'
  BY DEF PinInv, OnePin, IsPin
<1>2. ASSUME NEW q \in Req, q # r PROVE PinsOf(q)'
  <2>1. tx'[q].writes = tx[q].writes
    BY <1>2 DEF Alike
  <2>2. PinsOf(q)
    BY DEF PinInv
  <2>3. QED
    BY <2>1, <2>2 DEF PinsOf, Wrote, Seen, IsPin
<1>3. ASSUME NEW q \in Req, NEW s \in Req, q # s PROVE PinsOfTwo(q, s)'
  <2>1. CASE q = r
    BY <1>3, <2>1
  <2>2. CASE s = r
    <3>1. PinsOfTwo(r, q)'
      BY <1>3, <2>2
    <3>2. QED
      BY <2>2, <3>1 DEF PinsOfTwo
  <2>3. CASE q # r /\ s # r
    <3>1. tx'[q].writes = tx[q].writes /\ tx'[s].writes = tx[s].writes
      BY <2>3 DEF Alike
    <3>2. PinsOfTwo(q, s)
      BY <1>3 DEF PinInv
    <3>3. QED
      BY <3>1, <3>2 DEF PinsOfTwo, Wrote, IsPin
  <2>4. QED
    BY <2>1, <2>2, <2>3
<1>4. QED
  BY <1>1, <1>2, <1>3 DEF PinInv

(* a request that has written nothing *)
LEMMA PinNothing ==
  ASSUME PinInv, NEW r \in Req, row' = row, \A q \in Req \ {r} : Alike(q), tx'[r].writes = <<>>
  PROVE  PinInv'
<1>1. Wrote(r)' = {}
  BY NoWrites DEF Wrote
<1>2. QED
  BY <1>1, PinQuiet DEF PinsOf, PinsOfTwo

(* A request that pins nothing that it did not see pinned. *)
LEMMA PinShrinks ==
  ASSUME Assumptions, IInv, IInv', PinInv, NEW r \in Req, row' = row, \A q \in Req \ {r} : Alike(q),
         Wrote(r) \subseteq Wrote(r)',
         \A p \in Wrote(r)' : IsPin(p, tx'[r].writes[p]) => IsPin(p, Seen(r, p))
  PROVE  PinInv'
<1>1. Wrote(r)' \subseteq Post
  BY Own DEF IInv, Typed, TxOK, Tx, Writes, Wrote
<1>2. ASSUME NEW p \in Post, IsPin(p, Seen(r, p)') PROVE IsPin(p, Seen(r, p))
  BY <1>2 DEF Seen, IsPin
<1>3. PinsOf(r) /\ OnePin
  BY DEF PinInv
<1>4. ASSUME NEW p \in Post, NEW q \in Post, p # q, Author[p] = Author[q]
      PROVE  ~(IsPin(p, Seen(r, p)) /\ IsPin(q, Seen(r, q)))
  BY <1>3, <1>4 DEF PinsOf, OnePin, Seen
<1>5. PinsOf(r)'
  <2> SUFFICES ASSUME NEW p \in Post, NEW q \in Post, p # q, Author[p] = Author[q], p \in Wrote(r)',
                      IsPin(p, tx'[r].writes[p]), IsPin(q, Seen(r, q)')
               PROVE  FALSE
    BY DEF PinsOf, IsPin
  <2>1. IsPin(p, Seen(r, p)) /\ IsPin(q, Seen(r, q))
    BY <1>2
  <2>2. QED
    BY <1>4, <2>1
<1>6. ASSUME NEW s \in Req \ {r} PROVE PinsOfTwo(r, s)'
  <2> SUFFICES ASSUME NEW p \in Post, NEW q \in Post, p # q, Author[p] = Author[q], p \in Wrote(r)', q \in Wrote(s)',
                      IsPin(p, tx'[r].writes[p]), IsPin(q, tx'[s].writes[q])
               PROVE  FALSE
    BY DEF PinsOfTwo, IsPin
  <2>1. q \in Wrote(s) /\ tx'[s].writes = tx[s].writes /\ IsPin(q, tx[s].writes[q])
    BY DEF Alike, Wrote
  <2>2. IsPin(p, Seen(r, p))
    OBVIOUS
  <2>3. CASE p \in Wrote(r)
    <3>1. PinsOfTwo(r, s)
      BY DEF PinInv
    <3>2. QED
      BY <2>1, <2>2, <2>3, <3>1 DEF PinsOfTwo, Seen
  <2>4. CASE p \notin Wrote(r)
    <3>1. IsPin(p, row[p])
      BY <2>2, <2>4 DEF Seen
    <3>2. p \notin Wrote(s)
      <4>1. Exists(p) /\ Exists(p)'
        BY <3>1 DEF IsPin, Exists
      <4>2. HeldBy(r)' /\ HeldBy(s)'
        BY DEF IInv
      <4>3. rowLock'[p] = r
        BY <4>1, <4>2 DEF HeldBy
      <4>4. p \in Wrote(s) => rowLock'[p] = s
        BY <2>1, <4>1, <4>2 DEF HeldBy, Wrote
      <4>5. QED
        BY <4>3, <4>4
    <3>3. PinsOf(s)
      BY DEF PinInv
    <3>4. QED
      BY <2>1, <3>1, <3>2, <3>3 DEF PinsOf, Seen
  <2>5. QED
    BY <2>3, <2>4
<1>7. QED
  BY <1>5, <1>6, PinQuiet

(* The pin that is set: no other of the author's is committed, in sight or on its way. *)
LEMMA SetPinKeeps == ASSUME Assumptions, IInv, PinInv, NEW r \in Req, SetPin(r) PROVE PinInv'
<1>1. /\ Unmoved /\ Others(r) /\ tx[r].at = "pin" /\ tx[r].post \in Post
      /\ \/ tx'[r] = Closed
         \/ /\ Alive(tx[r].post) /\ IndexAllows(r, tx[r].post) /\ BeingPinned(r, tx[r].post) = {}
            /\ \E new \in PostRow : Adds(r, tx[r].post, new)
  BY SetPinEffect
<1>2. row' = row /\ \A q \in Req \ {r} : Alike(q)
  BY <1>1 DEF Unmoved, Others
<1>3. CASE tx'[r] = Closed
  BY <1>2, <1>3, PinNothing DEF Closed
<1>4. CASE /\ Alive(tx[r].post) /\ IndexAllows(r, tx[r].post) /\ BeingPinned(r, tx[r].post) = {}
           /\ \E new \in PostRow : Adds(r, tx[r].post, new)
  <2> DEFINE p == tx[r].post
  <2>1. PICK new \in PostRow : Adds(r, p, new)
    BY <1>4
  <2>2. \A q \in Wrote(r)' : q # p => q \in Wrote(r) /\ ~IsPin(q, tx'[r].writes[q])
    <3>1. Knows(r)
      BY Own
    <3>2. QED
      BY <1>1, <2>1, <3>1 DEF Adds, Knows, IsPin
  <2>3. PinsOf(r)'
    <3> SUFFICES ASSUME NEW a \in Post, NEW b \in Post, a # b, Author[a] = Author[b], a \in Wrote(r)',
                        IsPin(a, tx'[r].writes[a]), IsPin(b, Seen(r, b)')
                 PROVE  FALSE
      BY DEF PinsOf, IsPin
    <3>1. a = p
      BY <2>2
    <3>2. b \notin Wrote(r)' /\ IsPin(b, row[b])
      BY <1>2, <2>2, <3>1 DEF Seen
    <3>3. b \in Pinned(p)
      BY <3>1, <3>2 DEF Pinned
    <3>4. b \notin Wrote(r)
      BY <2>1, <3>2 DEF Adds
    <3>5. QED
      BY <1>4, <3>2, <3>3, <3>4 DEF IndexAllows, Seen
  <2>4. ASSUME NEW s \in Req \ {r} PROVE PinsOfTwo(r, s)'
    <3> SUFFICES ASSUME NEW a \in Post, NEW b \in Post, a # b, Author[a] = Author[b], a \in Wrote(r)', b \in Wrote(s)',
                        IsPin(a, tx'[r].writes[a]), IsPin(b, tx'[s].writes[b])
                 PROVE  FALSE
      BY DEF PinsOfTwo, IsPin
    <3>1. a = p
      BY <2>2
    <3>2. b \in Wrote(s) /\ IsPin(b, tx[s].writes[b])
      BY <1>2 DEF Alike, Wrote
    <3>3. b \in BeingPinned(r, p)
      BY <3>1, <3>2 DEF BeingPinned
    <3>4. QED
      BY <1>4, <3>3
  <2>5. QED
    BY <1>2, <2>3, <2>4, PinQuiet
<1>5. QED
  BY <1>1, <1>3, <1>4

(* The COMMIT: what is committed is what the request saw. *)
LEMMA CommitPins == ASSUME Assumptions, IInv, PinInv, NEW r \in Req, Commit(r) PROVE PinInv'
<1>1. /\ \A p \in Post : row'[p] = Seen(r, p)
      /\ \A q \in Req \ {r} : Alike(q)
      /\ tx'[r].writes = <<>>
  BY CommitEffect DEF Others
<1>2. Wrote(r)' = {}
  BY <1>1, NoWrites DEF Wrote
<1>3. PinsOf(r) /\ OnePin
  BY DEF PinInv
<1>4. OnePin'
  BY <1>1, <1>3 DEF OnePin, PinsOf, Seen, IsPin
<1>5. ASSUME NEW s \in Req, s # r PROVE PinsOf(s)'
  <2> SUFFICES ASSUME NEW p \in Post, NEW q \in Post, p # q, Author[p] = Author[q], p \in Wrote(s)',
                      IsPin(p, tx'[s].writes[p]), IsPin(q, Seen(s, q)')
               PROVE  FALSE
    BY DEF PinsOf, IsPin
  <2>1. tx'[s].writes = tx[s].writes /\ p \in Wrote(s) /\ IsPin(p, tx[s].writes[p]) /\ Wrote(s)' = Wrote(s)
    BY <1>1, <1>5 DEF Alike, Wrote
  <2>2. PinsOf(s) /\ PinsOfTwo(s, r)
    BY <1>5 DEF PinInv
  <2>3. CASE q \in Wrote(s)
    BY <2>1, <2>2, <2>3 DEF PinsOf, Seen
  <2>4. CASE q \notin Wrote(s)
    <3>1. IsPin(q, Seen(r, q))
      BY <1>1, <2>1, <2>4 DEF Seen
    <3>2. CASE q \in Wrote(r)
      BY <2>1, <2>2, <3>1, <3>2 DEF PinsOfTwo, Seen
    <3>3. CASE q \notin Wrote(r)
      BY <2>1, <2>2, <2>4, <3>1, <3>3 DEF PinsOf, Seen
    <3>4. QED
      BY <3>2, <3>3
  <2>5. QED
    BY <2>3, <2>4
<1>6. ASSUME NEW q \in Req, NEW s \in Req, q # s PROVE PinsOfTwo(q, s)'
  <2>1. CASE q = r \/ s = r
    BY <1>2, <2>1 DEF PinsOfTwo
  <2>2. CASE q # r /\ s # r
    <3>1. tx'[q].writes = tx[q].writes /\ tx'[s].writes = tx[s].writes
      BY <1>1, <2>2 DEF Alike
    <3>2. PinsOfTwo(q, s)
      BY <1>6 DEF PinInv
    <3>3. QED
      BY <3>1, <3>2 DEF PinsOfTwo, Wrote, IsPin
  <2>3. QED
    BY <2>1, <2>2
<1>7. PinsOf(r)'
  BY <1>2 DEF PinsOf
<1>8. QED
  BY <1>4, <1>5, <1>6, <1>7 DEF PinInv

(* No other statement sets a pin. *)
LEMMA PinStep == ASSUME Assumptions, IInv, IInv', PinInv, [Next]_vars PROVE PinInv'
<1>1. ASSUME NEW r \in Req, CreatePost(r) \/ Quote(r) PROVE PinInv'
  <2>1. PICK p \in Post : /\ Unmoved /\ Meets(r) /\ tx[r].at = "closed"
                          /\ Wrote(r)' = {p} /\ ~tx'[r].writes[p].pinned
    BY <1>1, Inserts, InsertEffect, SMTT(30)
  <2>2. row' = row /\ \A q \in Req \ {r} : Alike(q)
    BY <2>1 DEF Unmoved, Meets
  <2>3. Wrote(r) = {}
    BY <2>1, Own, ClosedTyped DEF Knows, Wrote
  <2>4. QED
    BY <2>1, <2>2, <2>3, PinShrinks DEF IsPin
<1>2. ASSUME NEW r \in Req, UpdatePost(r) \/ DeletePostByID(r) \/ PinPost(r) \/ UnpinPost(r) PROVE PinInv'
  <2>1. row' = row /\ (\A q \in Req \ {r} : Alike(q)) /\ tx'[r].writes = <<>>
    BY <1>2, ReadEffect DEF Unmoved, Meets
  <2>2. QED
    BY <2>1, PinNothing
<1>3. ASSUME NEW r \in Req, Unmoved, Others(r), tx'[r].writes = tx[r].writes PROVE PinInv'
  <2>1. row' = row /\ (\A q \in Req \ {r} : Alike(q)) /\ Wrote(r)' = Wrote(r)
    BY <1>3 DEF Unmoved, Others, Wrote
  <2>2. QED
    BY <1>3, <2>1, PinShrinks DEF Seen, IsPin
<1>4. ASSUME NEW r \in Req, Unmoved, Others(r), tx'[r] = Closed PROVE PinInv'
  BY <1>4, PinNothing DEF Unmoved, Others, Closed
<1>5. ASSUME NEW r \in Req, NEW p \in Post, NEW new \in PostRow, Unmoved, Others(r), Adds(r, p, new),
             IsPin(p, new) => IsPin(p, Seen(r, p))
      PROVE  PinInv'
  <2>1. row' = row /\ (\A q \in Req \ {r} : Alike(q)) /\ Wrote(r) \subseteq Wrote(r)'
    BY <1>5 DEF Unmoved, Others, Adds
  <2>2. \A q \in Wrote(r)' : IsPin(q, tx'[r].writes[q]) => IsPin(q, Seen(r, q))
    BY <1>5 DEF Adds, Seen, IsPin
  <2>3. QED
    BY <2>1, <2>2, PinShrinks
<1>6. ASSUME NEW r \in Req, UpdateCounts(r) \/ SyncPost(r) \/ UpsertHashtag(r) \/ DeleteCascade(r) PROVE PinInv'
  BY <1>3, <1>6, CountEffect, SyncEffect, CascadeEffect
<1>7. ASSUME NEW r \in Req, UpdateRow(r) PROVE PinInv'
  <2>1. Wrote(r) = {} /\ tx[r].post \in Post
    BY <1>7, Own, NoWrites DEF UpdateRow, Knows, Wrote
  <2>2. CASE tx'[r] = Closed
    BY <1>4, <1>7, <2>2, UpdateEffect
  <2>3. ASSUME NEW new \in PostRow, Adds(r, tx[r].post, new), new.pinned = row[tx[r].post].pinned,
               new.deleted = row[tx[r].post].deleted
        PROVE  PinInv'
    <3>1. IsPin(tx[r].post, new) => IsPin(tx[r].post, Seen(r, tx[r].post))
      BY <2>1, <2>3 DEF IsPin, Seen, Adds, Exists
    <3>2. QED
      BY <1>5, <1>7, <2>1, <2>3, <3>1, UpdateEffect
  <2>4. QED
    BY <1>7, <2>2, <2>3, UpdateEffect
<1>8. ASSUME NEW r \in Req, DeleteRow(r) PROVE PinInv'
  <2>1. CASE tx'[r] = Closed
    BY <1>4, <1>8, <2>1, DeleteRowEffect
  <2>2. CASE tx'[r].writes = tx[r].writes
    BY <1>3, <1>8, <2>2, DeleteRowEffect
  <2>3. ASSUME NEW q \in Post, NEW new \in PostRow, Adds(r, q, new), new.deleted PROVE PinInv'
    <3>1. Unmoved /\ Others(r)
      BY <1>8, DeleteRowEffect
    <3>2. ~IsPin(q, new)
      BY <2>3 DEF IsPin
    <3>3. QED
      BY <1>5, <2>3, <3>1, <3>2
  <2>4. tx[r].scan \subseteq Post
    BY Own
  <2>5. QED
    BY <1>8, <2>1, <2>2, <2>3, <2>4, DeleteRowEffect
<1>9. ASSUME NEW r \in Req, ClearPin(r) PROVE PinInv'
  BY <1>3, <1>5, <1>9, ClearPinEffect DEF IsPin
<1>10. ASSUME NEW r \in Req, ClearOwnPin(r) PROVE PinInv'
  BY <1>4, <1>5, <1>10, ClearOwnPinEffect DEF IsPin, Adds
<1>11. ASSUME NEW r \in Req, Respond(r) \/ Fail(r) PROVE PinInv'
  BY <1>4, <1>11, RespondEffect, RollbackInv DEF Fail
<1>12. CASE UNCHANGED vars
  BY <1>12 DEF vars, tables, PinInv, OnePin, PinsOf, PinsOfTwo, IsPin, Wrote, Seen
<1>13. QED
  BY <1>1, <1>2, <1>6, <1>7, <1>8, <1>9, <1>10, <1>11, <1>12, SetPinKeeps, CommitPins DEF Next

(* An author has one pinned post, however the requests to pin interleave. *)
THEOREM OnePinHolds == ASSUME Assumptions PROVE Spec => []OnePin
<1>1. Init => PinInv
  <2> SUFFICES ASSUME Init PROVE PinInv
    OBVIOUS
  <2>1. OnePin
    BY DEF Init, OnePin, IsPin, NewRow
  <2>2. \A r \in Req : Wrote(r) = {}
    BY ClosedTyped DEF Init, Wrote
  <2>3. QED
    BY <2>1, <2>2 DEF PinInv, PinsOf, PinsOfTwo
<1>2. IInv /\ PinInv /\ [Next]_vars => PinInv'
  BY StepKeeps, PinStep
<1>3. PinInv => OnePin
  BY DEF PinInv
<1>4. QED
  BY <1>1, <1>2, <1>3, Invariance, PTL DEF Spec

-----------------------------------------------------------------------------
(* What a transaction writes: the text it was asked for, to the post it is about; other
   texts stay as they are. The hashtags and mentions it deletes are those there are. *)
TextFound(r) ==
  /\ \A p \in Wrote(r) :
       IF tx[r].op \in Writing THEN p = tx[r].post /\ tx[r].writes[p].text = tx[r].text
       ELSE Exists(p) /\ tx[r].writes[p].text = row[p].text
  /\ tx[r].at \in {"count", "sync", "tags", "commit"} /\ tx[r].op \in Writing => tx[r].post \in Wrote(r)
  /\ tx[r].at \in {"tags", "commit"} /\ tx[r].op \in Writing => tx[r].dropped = indexed[tx[r].post]

(* the hashtags and mentions of a post are those of its text *)
IndexInv == \A p \in Post : indexed[p] = IF Exists(p) THEN {row[p].text} ELSE {}

(* Transactions that are open together have met; one that has met none still knows the
   text before it. *)
MetOf(r) ==
  /\ tx[r].at \notin {"closed", "respond"} => \A s \in Req \ {r} : Open(s) => tx[r].met
  /\ tx[r].op = "edit" => tx[r].met \/ tx[r].before = row[tx[r].post].text

(* the history misses nothing, and has what there was unless two requests met *)
HistoryInv ==
  \A p \in Post :
    /\ Len(history[p]) = Len(past[p])
    /\ p \notin late => history[p] = past[p]

EditInv == IndexInv /\ HistoryInv /\ \A r \in Req : TextFound(r) /\ MetOf(r)

(* A step that commits nothing has only its own request to answer for. *)
LEMMA EditQuiet ==
  ASSUME EditInv, NEW r \in Req, Unmoved, \A q \in Req \ {r} : Alike(q),
         \A q \in Req \ {r} : tx[q].met => tx'[q].met,
         \A q \in Req \ {r} : Open(r)' => Open(r) \/ ~Open(q) \/ tx'[q].met,
         TextFound(r)', MetOf(r)'
  PROVE  EditInv'
<1>1. IndexInv' /\ HistoryInv'
  BY DEF EditInv, IndexInv, HistoryInv, Unmoved, Exists
<1>2. ASSUME NEW q \in Req, q # r PROVE TextFound(q)'
  <2>1. Alike(q) /\ TextFound(q)
    BY <1>2 DEF EditInv
  <2>2. QED
    BY <2>1 DEF Alike, TextFound, Wrote, Exists, Unmoved
<1>3. ASSUME NEW q \in Req, q # r PROVE MetOf(q)'
  <2>1. MetOf(q) /\ tx'[q].at = tx[q].at /\ tx'[q].op = tx[q].op /\ tx'[q].post = tx[q].post
        /\ tx'[q].before = tx[q].before /\ row' = row
    BY <1>3 DEF EditInv, Alike, Unmoved
  <2>2. ASSUME tx'[q].at \notin {"closed", "respond"}, NEW s \in Req \ {q}, Open(s)' PROVE tx'[q].met
    <3>1. Open(q)
      BY <2>1, <2>2 DEF Open
    <3>2. CASE s = r
      <4>1. Open(r) \/ tx'[q].met
        BY <1>3, <2>2, <3>1, <3>2
      <4>2. Open(r) => tx[q].met
        BY <1>3, <2>1, <2>2 DEF MetOf
      <4>3. tx[q].met => tx'[q].met
        BY <1>3
      <4>4. QED
        BY <4>1, <4>2, <4>3
    <3>3. CASE s # r
      <4>1. Open(s)
        BY <2>2, <3>3 DEF Alike, Open
      <4>2. tx[q].met
        BY <2>1, <2>2, <4>1 DEF MetOf
      <4>3. QED
        BY <1>3, <4>2
    <3>4. QED
      BY <3>2, <3>3
  <2>3. tx'[q].op = "edit" => tx'[q].met \/ tx'[q].before = row'[tx'[q].post].text
    <3>1. tx[q].met => tx'[q].met
      BY <1>3
    <3>2. tx[q].op = "edit" => tx[q].met \/ tx[q].before = row[tx[q].post].text
      BY <2>1 DEF MetOf
    <3>3. QED
      BY <2>1, <3>1, <3>2
  <2>4. QED
    BY <2>2, <2>3 DEF MetOf
<1>4. QED
  BY <1>1, <1>2, <1>3 DEF EditInv

(* one that ends *)
LEMMA EditEnds ==
  ASSUME Assumptions, EditInv, NEW r \in Req, Unmoved, Others(r), tx'[r] = Closed
  PROVE  EditInv'
<1>1. TextFound(r)' /\ MetOf(r)' /\ ~Open(r)'
  BY ClosedTyped DEF TextFound, MetOf, Closed, Wrote, Writing, Assumptions, Open
<1>2. (\A q \in Req \ {r} : Alike(q)) /\ \A q \in Req \ {r} : tx[q].met => tx'[q].met
  BY DEF Others
<1>3. QED
  BY <1>1, <1>2, EditQuiet

(* one that goes on *)
LEMMA EditGoesOn ==
  ASSUME EditInv, NEW r \in Req, Unmoved, Others(r), SameTask(r),
         tx[r].at \notin {"closed", "respond"}, TextFound(r)'
  PROVE  EditInv'
<1>1. Open(r)
  BY DEF Open
<1>2. (\A q \in Req \ {r} : Alike(q)) /\ \A q \in Req \ {r} : tx[q].met => tx'[q].met
  BY DEF Others
<1>3. MetOf(r)'
  <2>1. MetOf(r) /\ tx'[r].met = tx[r].met /\ tx'[r].op = tx[r].op /\ tx'[r].before = tx[r].before
        /\ tx'[r].post = tx[r].post /\ row' = row
    BY DEF EditInv, SameTask, Unmoved
  <2>2. \A s \in Req \ {r} : Open(s)' => Open(s)
    BY <1>2 DEF Alike, Open
  <2>3. QED
    BY <2>1, <2>2 DEF MetOf
<1>4. QED
  BY <1>1, <1>2, <1>3, EditQuiet

(* The texts of the request after a statement that writes nothing, or one row. *)
LEMMA TextSame ==
  ASSUME EditInv, NEW r \in Req, Unmoved, SameTask(r), tx'[r].writes = tx[r].writes,
         tx'[r].dropped = tx[r].dropped,
         tx'[r].at \in {"count", "sync", "tags", "commit"} /\ tx[r].op \in Writing =>
           tx[r].at \in {"count", "sync", "tags", "commit"},
         tx'[r].at \in {"tags", "commit"} /\ tx[r].op \in Writing => tx[r].at \in {"tags", "commit"}
  PROVE  TextFound(r)'
<1>1. TextFound(r) /\ Wrote(r)' = Wrote(r)
  BY DEF EditInv, Wrote
<1>2. QED
  BY <1>1 DEF TextFound, SameTask, Unmoved, Exists

LEMMA TextAdds ==
  ASSUME EditInv, NEW r \in Req, Unmoved, SameTask(r), tx[r].op \notin Writing,
         NEW p \in Post, NEW new, Adds(r, p, new), new.text = row[p].text
  PROVE  TextFound(r)'
<1>1. TextFound(r)
  BY DEF EditInv
<1>2. QED
  BY <1>1 DEF TextFound, SameTask, Unmoved, Exists, Adds

(* BEGIN *)
LEMMA EditBegins ==
  ASSUME EditInv, NEW r \in Req, Unmoved, Meets(r), tx[r].at = "closed", TextFound(r)',
         tx'[r].op = "edit" => tx'[r].before = row[tx'[r].post].text
  PROVE  EditInv'
<1>1. /\ \A q \in Req \ {r} : Alike(q) /\ (tx[q].met => tx'[q].met)
      /\ \A q \in Req \ {r} : Open(q) => tx'[q].met /\ tx'[r].met
  BY DEF Meets
<1>2. MetOf(r)'
  <2>1. \A s \in Req \ {r} : Open(s)' => Open(s)
    BY <1>1 DEF Alike, Open
  <2>2. QED
    BY <1>1, <2>1 DEF MetOf, Unmoved
<1>3. QED
  BY <1>1, <1>2, EditQuiet

(* Two requests do not commit the same row. *)
LEMMA WritesApart ==
  ASSUME Assumptions, IInv, NEW r \in Req, NEW q \in Req, q # r, NEW p \in Wrote(r), p \in Wrote(q)
  PROVE  FALSE
<1>1. HeldBy(r) /\ HeldBy(q) /\ p \in Post
  BY Own
<1>2. CASE Exists(p)
  BY <1>1, <1>2 DEF HeldBy
<1>3. CASE ~Exists(p)
  <2>1. tx[r].post = p /\ tx[q].post = p
    BY <1>1, <1>3 DEF HeldBy
  <2>2. tx[r].post # None
    BY <1>1, <2>1 DEF Assumptions
  <2>3. QED
    BY <1>3, <2>1, <2>2 DEF IInv, OneInserts
<1>4. QED
  BY <1>2, <1>3

(* The COMMIT: text, history and index change together, and nobody else's knowledge is lost. *)
LEMMA EditCommits == ASSUME Assumptions, IInv, EditInv, NEW r \in Req, Commit(r) PROVE EditInv'
<1> DEFINE p == tx[r].post
           writer == tx[r].op \in Writing
<1>1. /\ \A q \in Req \ {r} : Alike(q) /\ tx'[q].met = tx[q].met
      /\ tx[r].at = "commit" /\ Open(r) /\ Wrote(r)' = {} /\ tx'[r].op # "edit"
      /\ tx'[r].at \in {"closed", "respond"}
      /\ \A q \in Post : row'[q] = Seen(r, q) /\ (Exists(q) => Exists(q)')
  BY CommitEffect, NoWrites DEF Others, Open, Wrote, Closed, Assumptions
<1>2. Knows(r) /\ HeldBy(r) /\ TextFound(r) /\ MetOf(r) /\ p \in Post /\ Wrote(r) \subseteq Post
  BY <1>1, Own DEF EditInv, Knows
<1>3. writer => /\ Wrote(r) = {p} /\ tx[r].writes[p].text = tx[r].text /\ tx[r].dropped = indexed[p]
  BY <1>1, <1>2 DEF TextFound
<1>4. TablesOK
  BY DEF IInv, Typed
<1>5. /\ writer => indexed'[p] = {tx[r].text} /\ \A q \in Post \ {p} : indexed'[q] = indexed[q]
      /\ ~writer => indexed' = indexed
  BY <1>2, <1>3, <1>4 DEF Commit, Writing, TablesOK
<1>6. \A q \in Post : /\ q \notin Wrote(r) => row'[q] = row[q]
                      /\ q \in Wrote(r) => row'[q] = tx[r].writes[q] /\ Exists(q)'
  <2>1. ASSUME NEW q \in Post, q \in Wrote(r) PROVE Exists(q)'
    <3>1. Seen(r, q) \in PostRow
      BY <2>1, SeenTyped
    <3>2. QED
      BY <1>1, <3>1 DEF Exists, Assumptions
  <2>2. QED
    BY <1>1, <2>1 DEF Seen
<1>7. IndexInv'
  <2> SUFFICES ASSUME NEW q \in Post PROVE indexed'[q] = IF Exists(q)' THEN {row'[q].text} ELSE {}
    BY DEF IndexInv
  <2>1. indexed[q] = IF Exists(q) THEN {row[q].text} ELSE {}
    BY DEF EditInv, IndexInv
  <2>2. CASE q \notin Wrote(r)
    BY <1>3, <1>5, <1>6, <2>1, <2>2 DEF Exists
  <2>3. CASE q \in Wrote(r) /\ writer
    BY <1>3, <1>5, <1>6, <2>3
  <2>4. CASE q \in Wrote(r) /\ ~writer
    BY <1>2, <1>5, <1>6, <2>1, <2>4 DEF TextFound
  <2>5. QED
    BY <2>2, <2>3, <2>4
<1>8. HistoryInv'
  <2> SUFFICES ASSUME NEW q \in Post
               PROVE  /\ Len(history'[q]) = Len(past'[q])
                      /\ q \notin late' => history'[q] = past'[q]
    BY DEF HistoryInv
  <2>1. Len(history[q]) = Len(past[q]) /\ (q \notin late => history[q] = past[q])
    BY DEF EditInv, HistoryInv
  <2>2. late \subseteq late' /\ (tx[r].met => p \in late')
    BY DEF Commit
  <2>3. history \in [Post -> Seq(Text)] /\ past \in [Post -> Seq(Text)]
    BY <1>4 DEF TablesOK
  <2>4. CASE tx[r].op # "edit"
    <3>1. history' = history /\ past' = past
      BY <2>4 DEF Commit
    <3>2. QED
      BY <2>1, <2>2, <3>1
  <2>5. CASE tx[r].op = "edit"
    <3>1. /\ history' = [history EXCEPT ![p] = Append(history[p], tx[r].before)]
          /\ past' = [past EXCEPT ![p] = Append(past[p], row[p].text)]
      BY <2>5 DEF Commit, CreateEdit
    <3>2. CASE q # p
      <4>1. history'[q] = history[q] /\ past'[q] = past[q]
        BY <1>2, <2>3, <3>1, <3>2
      <4>2. QED
        BY <2>1, <2>2, <4>1
    <3>3. CASE q = p
      <4>1. history'[q] = Append(history[q], tx[r].before) /\ past'[q] = Append(past[q], row[q].text)
        BY <2>3, <3>1, <3>3
      <4>2. history[q] \in Seq(Text) /\ past[q] \in Seq(Text) /\ tx[r].before \in Text /\ row[q].text \in Text
        <5>1. Exists(p) /\ tx[r].before \in Text
          BY <1>2, <2>5 DEF Knows
        <5>2. row[p] \in PostRow
          BY <1>2, <5>1, RowTyped
        <5>3. QED
          BY <2>3, <3>3, <5>1, <5>2 DEF PostRow
      <4>3. Len(history'[q]) = Len(past'[q])
        BY <2>1, <4>1, <4>2
      <4>4. q \notin late' => tx[r].before = row[q].text
        BY <1>2, <2>2, <2>5, <3>3 DEF MetOf
      <4>5. QED
        BY <2>1, <2>2, <4>1, <4>3, <4>4
    <3>4. QED
      BY <3>2, <3>3
  <2>6. QED
    BY <2>4, <2>5
<1>9. ASSUME NEW q \in Req, q # r PROVE TextFound(q)'
  <2>1. /\ Wrote(q)' = Wrote(q) /\ tx'[q].at = tx[q].at /\ tx'[q].op = tx[q].op /\ tx'[q].post = tx[q].post
        /\ tx'[q].text = tx[q].text /\ tx'[q].writes = tx[q].writes /\ tx'[q].dropped = tx[q].dropped
    BY <1>1, <1>9 DEF Alike, Wrote
  <2>2. TextFound(q) /\ Wrote(q) \subseteq Post
    BY Own DEF EditInv
  <2>3. \A s \in Wrote(q) : s \notin Wrote(r)
    BY <1>9, WritesApart
  <2>4. \A s \in Wrote(q) : row'[s] = row[s] /\ indexed'[s] = indexed[s]
    BY <1>3, <1>5, <1>6, <2>2, <2>3
  <2>5. \A s \in Wrote(q) : Exists(s) => Exists(s)'
    BY <1>1, <2>2
  <2>6. QED
    BY <2>1, <2>2, <2>4, <2>5 DEF TextFound
<1>10. ASSUME NEW q \in Req, q # r PROVE MetOf(q)'
  <2>1. /\ tx'[q].at = tx[q].at /\ tx'[q].op = tx[q].op /\ tx'[q].post = tx[q].post
        /\ tx'[q].before = tx[q].before /\ tx'[q].met = tx[q].met /\ MetOf(q) /\ Knows(q)
    BY <1>1, <1>10, Own DEF Alike, EditInv
  <2>2. \A s \in Req : Open(s)' => Open(s)
    BY <1>1 DEF Alike, Open
  <2>3. tx[q].op = "edit" => tx[q].at \notin {"closed", "respond"}
    BY <2>1 DEF Knows, Closed, Assumptions
  <2>4. tx[q].op = "edit" => tx[q].met
    BY <1>1, <1>10, <2>1, <2>3 DEF MetOf
  <2>5. QED
    BY <2>1, <2>2, <2>4 DEF MetOf
<1>11. TextFound(r)' /\ MetOf(r)'
  BY <1>1 DEF TextFound, MetOf
<1>12. QED
  BY <1>7, <1>8, <1>9, <1>10, <1>11 DEF EditInv

LEMMA EditStep == ASSUME Assumptions, IInv, EditInv, [Next]_vars PROVE EditInv'
<1>1. ASSUME NEW r \in Req, CreatePost(r) \/ Quote(r) PROVE EditInv'
  <2>1. PICK o \in {"post", "quote"}, p \in Post :
          /\ Unmoved /\ Meets(r) /\ tx[r].at = "closed" /\ tx'[r].at = "count" /\ tx'[r].op = o
          /\ tx'[r].post = p /\ Wrote(r)' = {p} /\ tx'[r].writes[p].text = tx'[r].text
    BY <1>1, Inserts, InsertEffect
  <2>2. TextFound(r)' /\ tx'[r].op # "edit"
    BY <2>1 DEF TextFound, Writing
  <2>3. QED
    BY <2>1, <2>2, EditBegins
<1>2. ASSUME NEW r \in Req, UpdatePost(r) \/ DeletePostByID(r) \/ PinPost(r) \/ UnpinPost(r) PROVE EditInv'
  <2>1. /\ Unmoved /\ Meets(r) /\ tx[r].at = "closed" /\ tx'[r].writes = <<>>
        /\ tx'[r].at \in {"update", "cascade", "clear", "unpin"}
        /\ tx'[r].op = "edit" => tx'[r].before = row[tx'[r].post].text
    BY <1>2, ReadEffect
  <2>2. TextFound(r)'
    BY <2>1, NoWrites DEF TextFound, Wrote
  <2>3. QED
    BY <2>1, <2>2, EditBegins
<1>3. ASSUME NEW r \in Req, UpdateCounts(r) PROVE EditInv'
  <2>1. /\ Unmoved /\ Others(r) /\ SameTask(r) /\ tx[r].at = "count" /\ tx'[r].at \in {"count", "sync"}
        /\ tx'[r].writes = tx[r].writes
    BY <1>3, CountEffect
  <2>2. TextFound(r)'
    <3>1. TextFound(r) /\ Wrote(r)' = Wrote(r)
      BY <2>1 DEF EditInv, Wrote
    <3>2. QED
      BY <2>1, <3>1 DEF TextFound, SameTask, Unmoved, Exists
  <2>3. QED
    BY <2>1, <2>2, EditGoesOn
<1>4. ASSUME NEW r \in Req, SyncPost(r) \/ UpsertHashtag(r) PROVE EditInv'
  <2>1. /\ Unmoved /\ Others(r) /\ SameTask(r) /\ tx[r].at \in {"sync", "tags"} /\ tx'[r].at \in {"tags", "commit"}
        /\ tx'[r].writes = tx[r].writes
        /\ tx'[r].dropped = IF tx[r].at = "sync" THEN indexed[tx[r].post] ELSE tx[r].dropped
    BY <1>4, SyncEffect
  <2>2. TextFound(r)'
    <3>1. TextFound(r) /\ Wrote(r)' = Wrote(r)
      BY <2>1 DEF EditInv, Wrote
    <3>2. QED
      BY <2>1, <3>1 DEF TextFound, SameTask, Unmoved, Exists
  <2>3. QED
    BY <2>1, <2>2, EditGoesOn
<1>5. ASSUME NEW r \in Req, UpdateRow(r) PROVE EditInv'
  <2>1. /\ Unmoved /\ Others(r) /\ tx[r].at = "update"
        /\ \/ tx'[r] = Closed
           \/ /\ SameTask(r) /\ tx'[r].at = "sync"
              /\ \E new \in PostRow : Adds(r, tx[r].post, new) /\ new.text = tx[r].text
    BY <1>5, UpdateEffect
  <2>2. CASE tx'[r] = Closed
    BY <2>1, <2>2, EditEnds
  <2>3. CASE /\ SameTask(r) /\ tx'[r].at = "sync"
             /\ \E new \in PostRow : Adds(r, tx[r].post, new) /\ new.text = tx[r].text
    <3>1. tx[r].op = "edit" /\ Wrote(r) = {}
      BY <2>1, Own, NoWrites DEF Knows, Wrote
    <3>2. Wrote(r)' = {tx[r].post} /\ tx'[r].writes[tx[r].post].text = tx[r].text
      BY <2>3, <3>1 DEF Adds
    <3>3. TextFound(r)'
      BY <2>3, <3>1, <3>2 DEF TextFound, SameTask, Writing
    <3>4. QED
      BY <2>1, <2>3, <3>3, EditGoesOn
  <2>4. QED
    BY <2>1, <2>2, <2>3
<1>6. ASSUME NEW r \in Req, Unmoved, Others(r), SameTask(r), tx[r].at \in {"cascade", "delete", "clear", "pin", "unpin"},
             \/ tx'[r].writes = tx[r].writes
             \/ \E q \in Post, new \in PostRow : Adds(r, q, new) /\ new.text = row[q].text
      PROVE  EditInv'
  <2>1. tx[r].op \notin Writing
    BY <1>6, Own, Assumptions DEF Knows, Writing
  <2>2. CASE tx'[r].writes = tx[r].writes
    <3>1. TextFound(r) /\ Wrote(r)' = Wrote(r)
      BY <2>2 DEF EditInv, Wrote
    <3>2. TextFound(r)'
      BY <1>6, <2>1, <2>2, <3>1 DEF TextFound, SameTask, Unmoved, Exists
    <3>3. QED
      BY <1>6, <3>2, EditGoesOn
  <2>3. ASSUME NEW q \in Post, NEW new \in PostRow, Adds(r, q, new), new.text = row[q].text PROVE EditInv'
    <3>1. TextFound(r)'
      BY <1>6, <2>1, <2>3, TextAdds
    <3>2. QED
      BY <1>6, <3>1, EditGoesOn
  <2>4. QED
    BY <1>6, <2>2, <2>3
<1>7. ASSUME NEW r \in Req, DeleteCascade(r) PROVE EditInv'
  BY <1>6, <1>7, CascadeEffect
<1>8. ASSUME NEW r \in Req, DeleteRow(r) PROVE EditInv'
  <2>1. Unmoved /\ Others(r) /\ tx[r].at = "delete" /\ tx[r].scan \subseteq Post
    BY <1>8, DeleteRowEffect, Own DEF EditInv
  <2>2. CASE tx'[r] = Closed
    BY <2>1, <2>2, EditEnds
  <2>3. CASE SameTask(r) /\ tx'[r].writes = tx[r].writes
    BY <1>6, <2>1, <2>3
  <2>4. CASE SameTask(r) /\ \E q \in tx[r].scan, new \in PostRow : Adds(r, q, new) /\ new.text = row[q].text
    BY <1>6, <2>1, <2>4
  <2>5. QED
    BY <1>8, <2>2, <2>3, <2>4, DeleteRowEffect
<1>9. ASSUME NEW r \in Req, ClearPin(r) PROVE EditInv'
  BY <1>6, <1>9, ClearPinEffect
<1>10. ASSUME NEW r \in Req, SetPin(r) PROVE EditInv'
  <2>1. TextFound(r) /\ Knows(r)
    BY Own DEF EditInv
  <2>2. tx[r].at = "pin" => Seen(r, tx[r].post).text = row[tx[r].post].text
    BY <2>1 DEF Knows, TextFound, Seen, Writing
  <2>3. QED
    BY <1>6, <1>10, <2>2, EditEnds, SetPinEffect
<1>11. ASSUME NEW r \in Req, ClearOwnPin(r) PROVE EditInv'
  <2>1. /\ Unmoved /\ Others(r) /\ tx[r].at = "unpin"
        /\ \/ tx'[r] = Closed
           \/ SameTask(r) /\ \E new \in PostRow : Adds(r, tx[r].post, new) /\ new.text = row[tx[r].post].text
    BY <1>11, ClearOwnPinEffect
  <2>2. tx[r].post \in Post
    BY <2>1, Own DEF Knows
  <2>3. QED
    BY <1>6, <2>1, <2>2, EditEnds
<1>12. ASSUME NEW r \in Req, Respond(r) \/ Fail(r) PROVE EditInv'
  BY <1>12, EditEnds, RespondEffect, RollbackInv DEF Fail
<1>13. CASE UNCHANGED vars
  <2>1. Unmoved /\ tx' = tx
    BY <1>13 DEF vars, tables, ghosts, Unmoved
  <2>2. IndexInv' /\ HistoryInv'
    BY <2>1 DEF EditInv, IndexInv, HistoryInv, Unmoved, Exists
  <2>3. ASSUME NEW r \in Req PROVE TextFound(r)' /\ MetOf(r)'
    <3>1. TextFound(r) /\ MetOf(r)
      BY DEF EditInv
    <3>2. TextFound(r)'
      BY <2>1, <3>1 DEF TextFound, Wrote, Exists, Unmoved
    <3>3. MetOf(r)'
      BY <2>1, <3>1 DEF MetOf, Open, Unmoved
    <3>4. QED
      BY <3>2, <3>3
  <2>4. QED
    BY <2>2, <2>3 DEF EditInv
<1>14. QED
  BY <1>1, <1>2, <1>3, <1>4, <1>5, <1>7, <1>8, <1>9, <1>10, <1>11, <1>12, <1>13, EditCommits DEF Next

(* Each request keeps what it relies on. *)
THEOREM EditInvariance == ASSUME Assumptions PROVE Spec => []EditInv
<1>1. Init => EditInv
  <2> SUFFICES ASSUME Init PROVE EditInv
    OBVIOUS
  <2>1. IndexInv
    <3> SUFFICES ASSUME NEW p \in Post PROVE indexed[p] = IF Exists(p) THEN {row[p].text} ELSE {}
      BY DEF IndexInv
    <3>1. CASE p \in DOMAIN Parents
      <4>1. NewRow(Parents[p], None, FirstText) \in PostRow
        BY <3>1 DEF Assumptions, NewRow, PostRow
      <4>2. row[p] = NewRow(Parents[p], None, FirstText) /\ indexed[p] = {FirstText}
        BY <3>1 DEF Init
      <4>3. Exists(p)
        BY <4>1, <4>2 DEF Exists, Assumptions
      <4>4. row[p].text = FirstText
        BY <4>2 DEF NewRow
      <4>5. QED
        BY <4>2, <4>3, <4>4
    <3>2. CASE p \notin DOMAIN Parents
      BY <3>2 DEF Init, Exists
    <3>3. QED
      BY <3>1, <3>2
  <2>2. HistoryInv
    BY DEF Init, HistoryInv
  <2>3. \A r \in Req : tx[r] = Closed /\ Wrote(r) = {}
    BY ClosedTyped DEF Init, Wrote
  <2>4. \A r \in Req : TextFound(r) /\ MetOf(r)
    BY <2>3 DEF TextFound, MetOf, Closed, Assumptions
  <2>5. QED
    BY <2>1, <2>2, <2>4 DEF EditInv
<1>2. IInv /\ EditInv /\ [Next]_vars => EditInv'
  BY EditStep
<1>3. QED
  BY <1>1, <1>2, Invariance, PTL DEF Spec

(* The history misses no edit and the hashtags and mentions are those of the text, however
   the requests interleave; the history has the texts there were unless two requests met. *)
THEOREM EditsAreKeptHolds == ASSUME Assumptions PROVE Spec => []EditsAreKept
<1>1. IInv /\ EditInv => EditsAreKept
  <2> SUFFICES ASSUME IInv, EditInv, NEW p \in Post
               PROVE  /\ Len(history[p]) = Len(past[p])
                      /\ Exists(p) => indexed[p] = {row[p].text}
                      /\ p \notin late => \A i \in DOMAIN past[p] : ListEdits(p)[Len(past[p]) + 1 - i] = past[p][i]
    BY DEF EditsAreKept
  <2>1. Len(history[p]) = Len(past[p]) /\ (p \notin late => history[p] = past[p])
    BY DEF EditInv, HistoryInv
  <2>2. Exists(p) => indexed[p] = {row[p].text}
    BY DEF EditInv, IndexInv
  <2>3. history[p] \in Seq(Text) /\ past[p] \in Seq(Text)
    BY DEF IInv, Typed, TablesOK
  <2>4. ASSUME p \notin late, NEW i \in DOMAIN past[p] PROVE ListEdits(p)[Len(past[p]) + 1 - i] = past[p][i]
    <3>1. history[p] = past[p]
      BY <2>1, <2>4
    <3>2. i \in 1 .. Len(past[p]) /\ Len(past[p]) \in Nat
      BY <2>3
    <3>3. Len(past[p]) + 1 - i \in DOMAIN history[p]
      BY <2>3, <3>1, <3>2
    <3>4. ListEdits(p)[Len(past[p]) + 1 - i] = history[p][Len(history[p]) + 1 - (Len(past[p]) + 1 - i)]
      BY <3>3 DEF ListEdits
    <3>5. Len(history[p]) + 1 - (Len(past[p]) + 1 - i) = i
      BY <3>1, <3>2
    <3>6. QED
      BY <3>1, <3>4, <3>5
  <2>5. QED
    BY <2>1, <2>2, <2>4
<1>2. QED
  BY <1>1, Invariance, EditInvariance, PTL
-----------------------------------------------------------------------------
(* What a delete collects. Below is defined by recursion on the depth, and what is under a
   post at the greatest depth is all that hangs from it: a level that adds nothing to the
   one above it is the last, and there are no more levels than posts. *)

(* posts are finitely many, and a parent is there before its replies *)
Threaded ==
  /\ IsFiniteSet(Post)
  /\ \A p \in DOMAIN Parents : Parents[p] \in DOMAIN Parents \cup {None}

(* the posts that hang from one of S *)
Hang(S) == {q \in Post : Exists(q) /\ row[q].parent # None /\ row[q].parent \in S}

(* f takes each number up to n to the posts at that depth below p, or above it *)
LevelsOf(f, p, n) == f = [m \in 0 .. n |-> {p} \cup IF m = 0 THEN {} ELSE Hang(f[m - 1])]

(* A set of numbers has a least one. *)
LEMMA LeastNumber ==
  ASSUME NEW S \in SUBSET Nat, \A n \in S : \E m \in S : m < n
  PROVE  S = {}
<1> SUFFICES ASSUME S # {} PROVE FALSE
  OBVIOUS
<1>1. IsWellFoundedOn(OpToRel(<, Nat), Nat)
  BY NatLessThanWellFounded
<1>2. PICK n \in S : \A m \in S : <<m, n>> \notin OpToRel(<, Nat)
  BY <1>1, WFMin
<1>3. PICK m \in S : m < n
  OBVIOUS
<1>4. QED
  BY <1>2, <1>3 DEF OpToRel

LEMMA LevelsExist ==
  ASSUME NEW p \in Post, NEW n \in Nat
  PROVE  \E f : LevelsOf(f, p, n)
<1> DEFINE Has(m) == \E f : LevelsOf(f, p, m)
           lacking == {m \in Nat : ~Has(m)}
<1>1. Has(0)
  <2> DEFINE f == [m \in 0 .. 0 |-> {p}]
  <2>1. f = [m \in 0 .. 0 |-> {p} \cup IF m = 0 THEN {} ELSE Hang(f[m - 1])]
    <3>1. \A m \in 0 .. 0 : m = 0
      OBVIOUS
    <3>2. QED
      BY <3>1
  <2>2. QED
    BY <2>1 DEF LevelsOf
<1>2. ASSUME NEW m \in Nat, Has(m) PROVE Has(m + 1)
  <2>1. PICK f : LevelsOf(f, p, m)
    BY <1>2
  <2> DEFINE g == [k \in 0 .. (m + 1) |-> {p} \cup IF k = 0 THEN {} ELSE Hang(f[k - 1])]
  <2>2. ASSUME NEW k \in 0 .. m PROVE g[k] = f[k]
    <3>1. f[k] = {p} \cup IF k = 0 THEN {} ELSE Hang(f[k - 1])
      BY <2>1 DEF LevelsOf
    <3>2. g[k] = {p} \cup IF k = 0 THEN {} ELSE Hang(f[k - 1])
      <4>1. k \in 0 .. (m + 1)
        OBVIOUS
      <4>2. QED
        BY <4>1
    <3> HIDE DEF g
    <3>3. QED
      BY <3>1, <3>2
  <2>3. ASSUME NEW k \in 0 .. (m + 1), k # 0 PROVE g[k - 1] = f[k - 1]
    <3>1. k - 1 \in 0 .. m
      BY <2>3
    <3> HIDE DEF g
    <3>2. QED
      BY <2>2, <3>1
  <2>4. g = [k \in 0 .. (m + 1) |-> {p} \cup IF k = 0 THEN {} ELSE Hang(g[k - 1])]
    <3> DEFINE h == [k \in 0 .. (m + 1) |-> {p} \cup IF k = 0 THEN {} ELSE Hang(g[k - 1])]
    <3>1. ASSUME NEW k \in 0 .. (m + 1) PROVE g[k] = h[k]
      <4>1. g[k] = {p} \cup IF k = 0 THEN {} ELSE Hang(f[k - 1])
        OBVIOUS
      <4>2. h[k] = {p} \cup IF k = 0 THEN {} ELSE Hang(g[k - 1])
        OBVIOUS
      <4> HIDE DEF g, h
      <4>3. CASE k = 0
        BY <4>1, <4>2, <4>3
      <4>4. CASE k # 0
        BY <2>3, <4>1, <4>2, <4>4
      <4>5. QED
        BY <4>3, <4>4
    <3>2. g = [k \in 0 .. (m + 1) |-> g[k]] /\ h = [k \in 0 .. (m + 1) |-> h[k]]
      OBVIOUS
    <3>3. g = h
      <4> HIDE DEF g, h
      <4>1. QED
        BY <3>1, <3>2
    <3>4. QED
      BY <3>3
  <2> HIDE DEF g
  <2>5. QED
    BY <2>4 DEF LevelsOf
<1> HIDE DEF Has
<1>3. ASSUME NEW m \in lacking PROVE \E k \in lacking : k < m
  <2>1. m # 0 /\ m - 1 \in Nat /\ m - 1 < m
    BY <1>1, <1>3
  <2>2. ~Has(m - 1)
    <3>1. Has(m - 1) => Has((m - 1) + 1)
      BY <1>2, <2>1
    <3>2. QED
      BY <1>3, <2>1, <3>1
  <2>3. QED
    BY <2>1, <2>2
<1>4. lacking = {}
  <2>1. lacking \in SUBSET Nat
    OBVIOUS
  <2> HIDE DEF lacking
  <2>2. QED
    BY <1>3, <2>1, LeastNumber
<1>5. QED
  BY <1>4 DEF Has

(* the recursive function of Descendants, its levels, and what the last one is *)
Below(p) == CHOOSE f : LevelsOf(f, p, Cardinality(Post))

Level(p, n) == Below(p)[n]

LEMMA LevelBelow ==
  ASSUME NEW p \in Post, Cardinality(Post) \in Nat
  PROVE  /\ Level(p, 0) = {p}
         /\ \A n \in Nat : n + 1 <= Cardinality(Post) => Level(p, n + 1) = {p} \cup Hang(Level(p, n))
<1> DEFINE N == Cardinality(Post)
<1>1. PICK f : f = Below(p)
  OBVIOUS
<1>2. LevelsOf(f, p, N)
  BY <1>1, LevelsExist DEF Below
<1>3. f = [m \in 0 .. N |-> {p} \cup IF m = 0 THEN {} ELSE Hang(f[m - 1])]
  BY <1>2 DEF LevelsOf
<1>4. f[0] = {p}
  BY <1>3
<1>5. ASSUME NEW n \in Nat, n + 1 <= N PROVE f[n + 1] = {p} \cup Hang(f[n])
  <2>1. n + 1 \in 0 .. N /\ n + 1 # 0 /\ (n + 1) - 1 = n
    BY <1>5
  <2>2. f[n + 1] = {p} \cup IF n + 1 = 0 THEN {} ELSE Hang(f[(n + 1) - 1])
    BY <1>3, <2>1
  <2>3. QED
    BY <2>1, <2>2
<1>6. QED
  BY <1>1, <1>4, <1>5 DEF Level

LEMMA LevelTyped ==
  ASSUME NEW p \in Post, NEW n \in Nat, Cardinality(Post) \in Nat, n <= Cardinality(Post)
  PROVE  Level(p, n) \subseteq Post
<1>1. CASE n = 0
  BY <1>1, LevelBelow
<1>2. CASE n # 0
  <2>1. n - 1 \in Nat /\ (n - 1) + 1 = n
    BY <1>2
  <2>2. Level(p, n) = {p} \cup Hang(Level(p, n - 1))
    <3>1. \A m \in Nat : m + 1 <= Cardinality(Post) => Level(p, m + 1) = {p} \cup Hang(Level(p, m))
      BY LevelBelow
    <3>2. QED
      BY <2>1, <3>1
  <2>3. QED
    BY <2>2 DEF Hang
<1>3. QED
  BY <1>1, <1>2

(* A level has more posts than there are above it, or is all there is. *)
LEMMA LevelGrows ==
  ASSUME IsFiniteSet(Post), NEW p \in Post, NEW n \in Nat, n <= Cardinality(Post)
  PROVE  Cardinality(Level(p, n)) > n \/ Hang(Level(p, n)) \subseteq Level(p, n)
<1> DEFINE N == Cardinality(Post)
           Good(m) == /\ p \in Level(p, m) /\ Level(p, m) \subseteq {p} \cup Hang(Level(p, m))
                      /\ Cardinality(Level(p, m)) > m \/ Hang(Level(p, m)) \subseteq Level(p, m)
           bad == {m \in Nat : m <= N /\ ~Good(m)}
<1>1. N \in Nat
  BY FS_CardinalityType
<1>2. ASSUME NEW m \in Nat, m <= N PROVE IsFiniteSet(Level(p, m)) /\ Cardinality(Level(p, m)) \in Nat
  <2>1. Level(p, m) \subseteq Post
    BY <1>1, <1>2, LevelTyped
  <2>2. IsFiniteSet(Level(p, m))
    BY <2>1, FS_Subset
  <2>3. QED
    BY <2>2, FS_CardinalityType
<1>3. Good(0)
  <2>1. Level(p, 0) = {p}
    BY <1>1, LevelBelow
  <2>2. Cardinality({p}) = 1
    BY FS_Singleton
  <2>3. QED
    BY <2>1, <2>2
<1>4. ASSUME NEW m \in Nat, m + 1 <= N, Good(m) PROVE Good(m + 1)
  <2>1. PICK S : S = Level(p, m)
    OBVIOUS
  <2>2. PICK T : T = Level(p, m + 1)
    OBVIOUS
  <2>3. T = {p} \cup Hang(S) /\ p \in S /\ S \subseteq T
    BY <1>1, <1>4, <2>1, <2>2, LevelBelow
  <2>4. T \subseteq {p} \cup Hang(T)
    BY <2>3 DEF Hang
  <2>5. CASE Hang(S) \subseteq S
    <3>1. T \subseteq S
      BY <2>3, <2>5
    <3>2. Hang(T) \subseteq T
      BY <2>3, <3>1 DEF Hang
    <3>3. QED
      BY <2>2, <2>3, <2>4, <3>2
  <2>6. CASE ~(Hang(S) \subseteq S) /\ Cardinality(S) > m
    <3>1. S # T
      BY <2>3, <2>6
    <3>2. IsFiniteSet(T) /\ Cardinality(T) \in Nat /\ Cardinality(S) \in Nat
      <4>1. m <= N
        BY <1>1, <1>4
      <4>2. QED
        BY <1>2, <1>4, <2>1, <2>2, <4>1
    <3>3. Cardinality(S) <= Cardinality(T) /\ Cardinality(S) # Cardinality(T)
      BY <2>3, <3>1, <3>2, FS_Subset
    <3>4. Cardinality(T) > m + 1
      BY <2>6, <3>2, <3>3
    <3>5. QED
      BY <2>2, <2>3, <2>4, <3>4
  <2>7. QED
    BY <1>4, <2>1, <2>5, <2>6
<1> HIDE DEF Good, N
<1>5. ASSUME NEW m \in bad PROVE \E k \in bad : k < m
  <2>1. m \in Nat /\ m <= N /\ ~Good(m) /\ m # 0
    BY <1>3, <1>5
  <2>2. m - 1 \in Nat /\ m - 1 < m /\ m - 1 <= N /\ (m - 1) + 1 = m
    BY <1>1, <2>1
  <2>3. ~Good(m - 1)
    BY <1>4, <2>1, <2>2
  <2>4. QED
    BY <2>2, <2>3
<1>6. bad = {}
  <2>1. bad \in SUBSET Nat
    OBVIOUS
  <2> HIDE DEF bad
  <2>2. QED
    BY <1>5, <2>1, LeastNumber
<1>7. QED
  BY <1>6 DEF Good, N

(* A delete collects what hangs from what it collects. *)
LEMMA DescendantsClosed ==
  ASSUME IsFiniteSet(Post), NEW p \in Post, NEW q \in Post,
         Exists(q), row[q].parent # None, row[q].parent \in Descendants(p)
  PROVE  q \in Descendants(p)
<1> DEFINE N == Cardinality(Post)
<1>1. N \in Nat
  BY FS_CardinalityType
<1>2. Descendants(p) = {o \in Level(p, N) : Exists(o)}
  BY DEF Descendants, Level, Below, LevelsOf, Hang
<1>3. Hang(Level(p, N)) \subseteq Level(p, N)
  <2>1. Level(p, N) \subseteq Post
    BY <1>1, LevelTyped
  <2>2. ~(Cardinality(Level(p, N)) > N)
    <3>1. Cardinality(Level(p, N)) \in Nat /\ Cardinality(Level(p, N)) <= N
      BY <2>1, FS_Subset, FS_CardinalityType
    <3>2. QED
      BY <1>1, <3>1
  <2>3. QED
    BY <1>1, <2>2, LevelGrows
<1>4. q \in Hang(Level(p, N))
  BY <1>2 DEF Hang
<1>5. QED
  BY <1>2, <1>3, <1>4

-----------------------------------------------------------------------------
(* Threads. A parent is there. A row that an open transaction has written hangs where it
   hung, and falls in a delete only; a new row hangs from what stands, unless it quotes or
   the transaction has met another. What a delete has locked or will lock has below it
   only what it will lock too, and what has met another. *)
ParentsThere == \A p \in Post : Exists(p) /\ row[p].parent # None => Exists(row[p].parent)

KinOf(r) ==
  \A p \in Wrote(r) : Exists(p) =>
    /\ Kin(tx[r].writes[p], row[p])
    /\ row[p].deleted => tx[r].writes[p].deleted
    /\ tx[r].writes[p].deleted /\ ~row[p].deleted => tx[r].op = "delete"
    /\ tx[r].op = "delete" => tx[r].writes[p].deleted

HangsOf(r) ==
  \A p \in Wrote(r) : ~Exists(p) =>
    /\ tx[r].writes[p].parent # None => Exists(tx[r].writes[p].parent)
    /\ \/ tx[r].writes[p].quoted # None
       \/ tx[r].writes[p].parent = None
       \/ Alive(tx[r].writes[p].parent)
       \/ tx[r].met

FallsOf(r) ==
  tx[r].op = "delete" /\ tx[r].at \in {"delete", "commit"} =>
    /\ tx[r].at = "commit" => tx[r].scan = {}
    /\ \A p \in Post : Alive(p) /\ row[p].parent # None /\ row[p].parent \in tx[r].scan \cup Wrote(r)
                       => p \in late \cup tx[r].scan \cup Wrote(r)

ThreadInv == ParentsThere /\ ThreadsFallWhole /\ \A r \in Req : KinOf(r) /\ HangsOf(r) /\ FallsOf(r)

(* A step that commits nothing has only its own request to answer for. *)
LEMMA ThreadQuiet ==
  ASSUME ThreadInv, NEW r \in Req, Unmoved, \A q \in Req \ {r} : Alike(q),
         \A q \in Req \ {r} : tx[q].met => tx'[q].met,
         KinOf(r)', HangsOf(r)', FallsOf(r)'
  PROVE  ThreadInv'
<1>1. ParentsThere' /\ ThreadsFallWhole'
  BY DEF ThreadInv, ParentsThere, ThreadsFallWhole, Unmoved, Exists, Alive
<1>2. ASSUME NEW q \in Req, q # r PROVE KinOf(q)' /\ HangsOf(q)' /\ FallsOf(q)'
  <2>1. Alike(q) /\ KinOf(q) /\ HangsOf(q) /\ FallsOf(q) /\ (tx[q].met => tx'[q].met)
    BY <1>2 DEF ThreadInv
  <2>2. KinOf(q)'
    BY <2>1 DEF Alike, KinOf, Wrote, Exists, Unmoved, Kin
  <2>3. HangsOf(q)'
    BY <2>1 DEF Alike, HangsOf, Wrote, Exists, Alive, Unmoved
  <2>4. FallsOf(q)'
    BY <2>1 DEF Alike, FallsOf, Wrote, Exists, Alive, Unmoved
  <2>5. QED
    BY <2>2, <2>3, <2>4
<1>3. QED
  BY <1>1, <1>2 DEF ThreadInv

(* one that has written nothing, or nothing any more *)
LEMMA ThreadEmpty ==
  ASSUME Assumptions, ThreadInv, NEW r \in Req, Unmoved, \A q \in Req \ {r} : Alike(q),
         \A q \in Req \ {r} : tx[q].met => tx'[q].met,
         tx'[r].writes = <<>>, tx'[r].at \notin {"delete", "commit"}
  PROVE  ThreadInv'
<1>1. Wrote(r)' = {}
  BY NoWrites DEF Wrote
<1>2. KinOf(r)' /\ HangsOf(r)' /\ FallsOf(r)'
  BY <1>1 DEF KinOf, HangsOf, FallsOf
<1>3. QED
  BY <1>2, ThreadQuiet

(* one that goes on with what it has written *)
LEMMA ThreadSame ==
  ASSUME ThreadInv, NEW r \in Req, Unmoved, Others(r), SameTask(r), tx'[r].writes = tx[r].writes,
         FallsOf(r)'
  PROVE  ThreadInv'
<1>1. KinOf(r) /\ HangsOf(r) /\ Wrote(r)' = Wrote(r) /\ row' = row
      /\ tx'[r].op = tx[r].op /\ tx'[r].met = tx[r].met
  BY DEF ThreadInv, Wrote, Unmoved, SameTask
<1>2. KinOf(r)'
  BY <1>1 DEF KinOf, Exists, Kin
<1>3. HangsOf(r)'
  BY <1>1 DEF HangsOf, Exists, Alive
<1>4. QED
  BY <1>2, <1>3, ThreadQuiet DEF Others

(* one that has written a row more *)
LEMMA ThreadAdds ==
  ASSUME ThreadInv, NEW r \in Req, Unmoved, Others(r), SameTask(r),
         NEW p, NEW new, Adds(r, p, new), Kin(new, row[p]),
         row[p].deleted => new.deleted,
         new.deleted /\ ~row[p].deleted => tx[r].op = "delete",
         tx[r].op = "delete" => new.deleted,
         FallsOf(r)'
  PROVE  ThreadInv'
<1>1. /\ KinOf(r) /\ HangsOf(r) /\ Wrote(r)' = Wrote(r) \cup {p} /\ row' = row /\ Exists(p)
      /\ tx'[r].op = tx[r].op /\ tx'[r].met = tx[r].met
      /\ tx'[r].writes[p] = new
      /\ \A q \in Wrote(r) : q # p => tx'[r].writes[q] = tx[r].writes[q]
  BY DEF ThreadInv, Unmoved, SameTask, Adds
<1>2. KinOf(r)'
  BY <1>1 DEF KinOf, Exists, Kin
<1>3. HangsOf(r)'
  <2>1. ASSUME NEW q \in Wrote(r)', ~Exists(q)' PROVE q \in Wrote(r) /\ q # p /\ ~Exists(q)
    BY <1>1, <2>1 DEF Exists
  <2>2. QED
    BY <1>1, <2>1 DEF HangsOf, Exists, Alive
<1>4. QED
  BY <1>2, <1>3, ThreadQuiet DEF Others

(* The COMMIT of a delete leaves nothing standing below what falls but what has met it; that
   of a new post hangs it from what stands, or it has met a delete. *)
LEMMA ThreadCommits ==
  ASSUME Assumptions, IInv, EditInv, ThreadInv, NEW r \in Req, Commit(r)
  PROVE  ThreadInv'
<1>1. /\ tx[r].at = "commit" /\ Open(r) /\ Wrote(r)' = {} /\ tx'[r].at # "commit" /\ tx'[r].at # "delete"
      /\ Others(r)
      /\ \A p \in Post : row'[p] = Seen(r, p) /\ (Exists(p) => Exists(p)')
  BY CommitEffect, NoWrites DEF Open, Wrote, Closed
<1>2. late \subseteq late' /\ (tx[r].met => tx[r].post \in late')
  BY DEF Commit
<1>3. HeldBy(r) /\ KinOf(r) /\ HangsOf(r) /\ FallsOf(r) /\ Wrote(r) \subseteq Post
  BY Own DEF ThreadInv
<1>4. \A p \in Post : p \notin Wrote(r) => row'[p] = row[p]
  BY <1>1 DEF Seen
<1>5. \A p \in Wrote(r) : row'[p] = tx[r].writes[p]
  BY <1>1, <1>3 DEF Seen
<1>6. ASSUME NEW p \in Post, Exists(p)
      PROVE  /\ row'[p].parent = row[p].parent /\ row'[p].quoted = row[p].quoted
             /\ Exists(p)' /\ (Alive(p)' => Alive(p))
  <2>1. Exists(p)'
    BY <1>1, <1>6
  <2>2. CASE p \in Wrote(r)
    BY <1>3, <1>5, <1>6, <2>1, <2>2 DEF KinOf, Kin, Alive
  <2>3. CASE p \notin Wrote(r)
    BY <1>4, <1>6, <2>1, <2>3 DEF Alive, Exists
  <2>4. QED
    BY <2>2, <2>3
<1>7. ASSUME NEW p \in Post, ~Exists(p), Exists(p)'
      PROVE  /\ p \in Wrote(r) /\ p = tx[r].post /\ tx[r].op \in {"post", "quote"}
             /\ row'[p] = tx[r].writes[p]
  <2>1. p \in Wrote(r)
    BY <1>4, <1>7 DEF Exists
  <2>2. QED
    BY <1>3, <1>5, <1>7, <2>1 DEF HeldBy
<1>8. ParentsThere'
  <2> SUFFICES ASSUME NEW p \in Post, Exists(p)', row'[p].parent # None PROVE Exists(row[p].parent)'
    BY DEF ParentsThere
  <2>1. row'[p].parent \in Post
    <3>1. TablesOK'
      BY CommitTables
    <3>2. row'[p] \in PostRow
      BY <3>1 DEF TablesOK, Exists
    <3>3. QED
      BY <3>2 DEF PostRow
  <2>2. Exists(row'[p].parent)
    <3>1. CASE Exists(p)
      BY <1>6, <3>1 DEF ThreadInv, ParentsThere
    <3>2. CASE ~Exists(p)
      BY <1>3, <1>7, <3>2 DEF HangsOf
    <3>3. QED
      BY <3>1, <3>2
  <2>3. row'[row'[p].parent] # None
    BY <1>1, <2>1, <2>2 DEF Exists
  <2>4. QED
    BY <2>3 DEF Exists
<1>9. ThreadsFallWhole'
  <2> SUFFICES ASSUME NEW p \in Post, Alive(p)', row'[p].parent # None, ~Alive(row[p].parent)'
               PROVE  p \in late' \/ row'[p].quoted # None
    BY DEF ThreadsFallWhole
  <2>1. PICK q \in Post : q = row'[p].parent
    <3>1. TablesOK'
      BY CommitTables
    <3>2. row'[p] \in PostRow
      BY <3>1 DEF TablesOK, Exists, Alive
    <3>3. QED
      BY <3>2 DEF PostRow
  <2>2. ~Alive(q)'
    BY <2>1 DEF Alive, Exists
  <2>3. ASSUME Alive(q) PROVE q \in Wrote(r) /\ tx[r].op = "delete"
    <3>1. q \in Wrote(r)
      BY <1>4, <2>1, <2>3 DEF Alive, Exists
    <3>2. Exists(q) /\ ~row[q].deleted
      BY <2>3 DEF Alive
    <3>3. Exists(q)' /\ row'[q] = tx[r].writes[q]
      BY <1>1, <1>5, <3>1, <3>2
    <3>4. tx[r].writes[q].deleted
      BY <2>2, <3>3 DEF Alive
    <3>5. QED
      BY <1>3, <3>1, <3>2, <3>4 DEF KinOf
  <2>4. CASE Exists(p)
    <3>1. Alive(p) /\ row[p].parent = q /\ row[p].parent # None /\ row[p].quoted = row'[p].quoted
      BY <1>6, <2>1, <2>4
    <3>2. CASE ~Alive(q)
      BY <1>2, <3>1, <3>2 DEF ThreadInv, ThreadsFallWhole
    <3>3. CASE Alive(q)
      <4>1. p \in late \cup Wrote(r)
        BY <1>1, <1>3, <2>3, <3>1, <3>3 DEF FallsOf
      <4>2. p \notin Wrote(r)
        <5>1. p \in Wrote(r) => row'[p].deleted
          BY <1>3, <1>5, <2>3, <2>4, <3>3 DEF KinOf
        <5>2. QED
          BY <5>1 DEF Alive
      <4>3. QED
        BY <1>2, <4>1, <4>2
    <3>4. QED
      BY <3>2, <3>3
  <2>5. CASE ~Exists(p)
    <3>1. /\ p \in Wrote(r) /\ p = tx[r].post /\ tx[r].op \in {"post", "quote"}
          /\ row'[p] = tx[r].writes[p]
      BY <1>7, <2>5 DEF Alive
    <3>2. ~Alive(q)
      <4>1. "delete" \notin {"post", "quote"}
        OBVIOUS
      <4>2. QED
        BY <2>3, <3>1, <4>1
    <3>3. row'[p].quoted # None \/ tx[r].met
      BY <1>3, <2>1, <2>5, <3>1, <3>2 DEF HangsOf
    <3>4. QED
      BY <1>2, <3>1, <3>3
  <2>6. QED
    BY <2>4, <2>5
<1>10. ASSUME NEW s \in Req, s # r PROVE KinOf(s)' /\ HangsOf(s)' /\ FallsOf(s)'
  <2>1. /\ Wrote(s)' = Wrote(s) /\ tx'[s].writes = tx[s].writes /\ tx'[s].op = tx[s].op
        /\ tx'[s].at = tx[s].at /\ tx'[s].scan = tx[s].scan /\ tx'[s].met = tx[s].met
    BY <1>1, <1>10 DEF Others, Alike, Wrote
  <2>2. /\ HeldBy(s) /\ Knows(s) /\ Wrote(s) \subseteq Post /\ KinOf(s) /\ HangsOf(s) /\ FallsOf(s)
    BY Own DEF ThreadInv
  <2>3. \A p \in Wrote(s) : row'[p] = row[p]
    <3>1. \A p \in Wrote(s) : p \notin Wrote(r)
      BY <1>10, WritesApart
    <3>2. QED
      BY <1>4, <2>2, <3>1
  <2>4. KinOf(s)'
    BY <2>1, <2>2, <2>3 DEF KinOf, Exists
  <2>5. HangsOf(s)'
    <3> SUFFICES ASSUME NEW p \in Wrote(s), ~Exists(p)
                 PROVE  /\ \A q \in Post \cup {None} : q = tx[s].writes[p].parent /\ q # None => Exists(q)'
                        /\ tx[s].writes[p].parent \in Post \cup {None}
                        /\ tx[s].met
      BY <2>1, <2>3 DEF HangsOf, Exists
    <3>1. tx[s].writes[p].parent \in Post \cup {None}
      <4>1. PICK D \in SUBSET Post : tx[s].writes \in [D -> PostRow]
        BY Own DEF Writes
      <4>2. tx[s].writes[p] \in PostRow
        BY <4>1 DEF Wrote
      <4>3. QED
        BY <4>2 DEF PostRow
    <3>2. tx[s].at \notin {"closed", "respond"}
      <4>1. Wrote(s) # {}
        OBVIOUS
      <4>2. QED
        BY <2>2, <4>1, NoWrites, ClosedTyped DEF Knows, Wrote
    <3>3. tx[s].met
      BY <1>1, <1>10, <3>2 DEF EditInv, MetOf
    <3>4. tx[s].writes[p].parent # None => Exists(tx[s].writes[p].parent)
      BY <2>2 DEF HangsOf
    <3>5. QED
      BY <1>1, <3>1, <3>3, <3>4
  <2>6. FallsOf(s)'
    <3> SUFFICES ASSUME tx[s].op = "delete", tx[s].at \in {"delete", "commit"}, NEW p \in Post, Alive(p)',
                        row'[p].parent # None, row'[p].parent \in tx[s].scan \cup Wrote(s)
                 PROVE  p \in late' \cup tx[s].scan \cup Wrote(s)
      BY <2>1, <2>2 DEF FallsOf
    <3>1. CASE Exists(p)
      <4>1. Alive(p) /\ row'[p].parent = row[p].parent
        BY <1>6, <3>1
      <4>2. p \in late \cup tx[s].scan \cup Wrote(s)
        BY <2>2, <4>1 DEF FallsOf
      <4>3. QED
        BY <1>2, <4>2
    <3>2. CASE ~Exists(p)
      <4>1. p = tx[r].post
        BY <1>7, <3>2 DEF Alive
      <4>2. Open(s)
        BY DEF Open
      <4>3. tx[r].met
        BY <1>1, <1>10, <4>2 DEF EditInv, MetOf
      <4>4. QED
        BY <1>2, <4>1, <4>3
    <3>3. QED
      BY <3>1, <3>2
  <2>7. QED
    BY <2>4, <2>5, <2>6
<1>11. KinOf(r)' /\ HangsOf(r)' /\ FallsOf(r)'
  BY <1>1 DEF KinOf, HangsOf, FallsOf
<1>12. QED
  BY <1>8, <1>9, <1>10, <1>11 DEF ThreadInv

(* Every other step. *)
LEMMA ThreadBegins ==
  ASSUME Assumptions, IInv, ThreadInv, NEW r \in Req,
         \/ CreatePost(r) \/ Quote(r) \/ UpdatePost(r) \/ DeletePostByID(r) \/ PinPost(r) \/ UnpinPost(r)
  PROVE  ThreadInv'
<1>1. Meets(r) => (\A q \in Req \ {r} : Alike(q)) /\ \A q \in Req \ {r} : tx[q].met => tx'[q].met
  BY DEF Meets
<1>2. CASE UpdatePost(r) \/ DeletePostByID(r) \/ PinPost(r) \/ UnpinPost(r)
  <2>1. /\ Unmoved /\ Meets(r) /\ tx'[r].writes = <<>>
        /\ tx'[r].at \in {"update", "cascade", "clear", "unpin"}
    BY <1>2, ReadEffect
  <2>2. QED
    BY <1>1, <2>1, ThreadEmpty
<1>3. ASSUME NEW o \in {"post", "quote"}, NEW p \in Post, NEW parent \in Post \cup {None},
             NEW quoted \in Post \cup {None}, Insert(r, o, p, parent, quoted),
             parent # None => Exists(parent), quoted # None \/ parent = None \/ Alive(parent)
      PROVE  ThreadInv'
  <2>1. /\ Unmoved /\ Meets(r) /\ ~Exists(p) /\ tx'[r].at = "count" /\ Wrote(r)' = {p}
        /\ tx'[r].writes[p].parent = parent /\ tx'[r].writes[p].quoted = quoted
    BY <1>3, InsertEffect
  <2>2. KinOf(r)' /\ FallsOf(r)'
    BY <2>1 DEF KinOf, FallsOf, Exists, Unmoved
  <2>3. HangsOf(r)'
    BY <1>3, <2>1 DEF HangsOf, Exists, Alive, Unmoved
  <2>4. QED
    BY <1>1, <2>1, <2>2, <2>3, ThreadQuiet
<1>4. CASE CreatePost(r)
  <2>1. PICK p \in Post, parent \in Post \cup {None} :
          (parent # None => Alive(parent)) /\ Insert(r, "post", p, parent, None)
    BY <1>4 DEF CreatePost, Create
  <2>2. QED
    BY <1>3, <2>1 DEF Alive
<1>5. CASE Quote(r)
  <2>1. PICK p \in Post, quoted \in Post, parent \in Post \cup {None} :
          (parent # None => Exists(parent)) /\ Insert(r, "quote", p, parent, quoted)
    BY <1>5 DEF Quote, QuotePost
  <2>2. quoted # None
    BY DEF Assumptions
  <2>3. QED
    BY <1>3, <2>1, <2>2
<1>6. QED
  BY <1>2, <1>4, <1>5

LEMMA ThreadFalls ==
  ASSUME Assumptions, Threaded, IInv, ThreadInv, NEW r \in Req, DeleteCascade(r) \/ DeleteRow(r)
  PROVE  ThreadInv'
<1>1. Knows(r) /\ FallsOf(r) /\ HeldBy(r)
  BY Own DEF ThreadInv
<1>2. CASE DeleteCascade(r)
  <2>1. /\ Unmoved /\ Others(r) /\ SameTask(r) /\ tx[r].at = "cascade" /\ tx'[r].at = "delete"
        /\ tx'[r].writes = tx[r].writes
        /\ tx'[r].scan = {q \in Post : q \in Descendants(tx[r].post) /\ ~row[q].deleted}
    BY <1>2, CascadeEffect
  <2>2. tx[r].post \in Post /\ Wrote(r)' = {}
    BY <1>1, <2>1, NoWrites DEF Knows, Wrote
  <2>3. ASSUME NEW p \in Post, Alive(p), row[p].parent # None, row[p].parent \in tx'[r].scan
        PROVE  p \in tx'[r].scan
    <3>1. row[p].parent \in Descendants(tx[r].post)
      BY <2>1, <2>3
    <3>2. p \in Descendants(tx[r].post)
      BY <2>2, <2>3, <3>1, DescendantsClosed DEF Alive, Threaded, IInv, Typed
    <3>3. QED
      BY <2>1, <2>3, <3>2 DEF Alive
  <2>4. FallsOf(r)'
    BY <2>1, <2>2, <2>3 DEF FallsOf, Alive, Exists, Unmoved
  <2>5. QED
    BY <2>1, <2>4, ThreadSame
<1>3. CASE DeleteRow(r)
  <2>1. Unmoved /\ Others(r) /\ tx[r].at = "delete" /\ tx[r].op = "delete"
    BY <1>1, <1>3, DeleteRowEffect DEF Knows
  <2>2. CASE tx'[r] = Closed
    <3>1. tx'[r].writes = <<>> /\ tx'[r].at = "closed"
      BY <2>2 DEF Closed
    <3>2. QED
      BY <2>1, <3>1, ThreadEmpty DEF Others
  <2>3. CASE /\ SameTask(r) /\ (tx'[r].at = "commit" => tx'[r].scan = {})
             /\ tx'[r].writes = tx[r].writes /\ tx'[r].scan \subseteq tx[r].scan
             /\ \A q \in tx[r].scan : q \in tx'[r].scan \/ ~Alive(q)
    <3>1. Wrote(r)' = Wrote(r)
      BY <2>3 DEF Wrote
    <3>2. FallsOf(r)'
      <4> SUFFICES ASSUME NEW p \in Post, Alive(p), row[p].parent # None,
                          row[p].parent \in tx'[r].scan \cup Wrote(r)
                   PROVE  p \in late \cup tx'[r].scan \cup Wrote(r)
        BY <2>1, <2>3, <3>1 DEF FallsOf, Alive, Exists, Unmoved
      <4>1. p \in late \cup tx[r].scan \cup Wrote(r)
        BY <1>1, <2>1, <2>3 DEF FallsOf
      <4>2. QED
        BY <2>3, <4>1
    <3>3. QED
      BY <2>1, <2>3, <3>2, ThreadSame
  <2>4. ASSUME SameTask(r), tx'[r].at = "commit" => tx'[r].scan = {}, NEW q \in tx[r].scan, NEW new \in PostRow,
               Adds(r, q, new), new.deleted, Kin(new, row[q]), tx'[r].scan = tx[r].scan \ {q}
        PROVE  ThreadInv'
    <3>1. Wrote(r)' = Wrote(r) \cup {q} /\ tx'[r].scan \cup Wrote(r)' = tx[r].scan \cup Wrote(r)
      BY <2>4 DEF Adds
    <3>2. FallsOf(r)'
      <4> SUFFICES ASSUME NEW p \in Post, Alive(p), row[p].parent # None,
                          row[p].parent \in tx'[r].scan \cup Wrote(r)'
                   PROVE  p \in late \cup (tx'[r].scan \cup Wrote(r)')
        BY <2>1, <2>4 DEF FallsOf, Alive, Exists, Unmoved
      <4>1. QED
        BY <1>1, <2>1, <3>1 DEF FallsOf
    <3>3. QED
      BY <2>1, <2>4, <3>2, ThreadAdds
  <2>5. QED
    BY <1>3, <2>2, <2>3, <2>4, DeleteRowEffect
<1>4. QED
  BY <1>2, <1>3

LEMMA ThreadStep ==
  ASSUME Assumptions, Threaded, IInv, EditInv, ThreadInv, [Next]_vars
  PROVE  ThreadInv'
<1>1. ASSUME NEW r \in Req, Unmoved, Others(r), tx'[r] = Closed PROVE ThreadInv'
  <2>1. tx'[r].writes = <<>> /\ tx'[r].at = "closed"
    BY <1>1 DEF Closed
  <2>2. QED
    BY <1>1, <2>1, ThreadEmpty DEF Others
<1>2. ASSUME NEW r \in Req, Unmoved, Others(r), SameTask(r), tx'[r].writes = tx[r].writes, tx[r].op # "delete"
      PROVE  ThreadInv'
  BY <1>2, ThreadSame DEF FallsOf, SameTask
<1>3. ASSUME NEW r \in Req, Unmoved, Others(r), SameTask(r), tx[r].op # "delete",
             NEW p \in Post, NEW new \in PostRow, Adds(r, p, new), Kin(new, row[p]), new.deleted = row[p].deleted
      PROVE  ThreadInv'
  BY <1>3, ThreadAdds DEF FallsOf, SameTask
<1>4. \A r \in Req : Knows(r) /\ KinOf(r)
  BY Own DEF ThreadInv
<1>5. ASSUME NEW r \in Req, UpdateCounts(r) \/ SyncPost(r) \/ UpsertHashtag(r) PROVE ThreadInv'
  <2>1. /\ Unmoved /\ Others(r) /\ SameTask(r) /\ tx'[r].writes = tx[r].writes
        /\ tx[r].at \in {"count", "sync", "tags"}
    BY <1>5, CountEffect, SyncEffect
  <2>2. tx[r].op # "delete"
    BY <1>4, <2>1 DEF Knows, Writing
  <2>3. QED
    BY <1>2, <2>1, <2>2
<1>6. ASSUME NEW r \in Req, UpdateRow(r) PROVE ThreadInv'
  <2>1. tx[r].at = "update" /\ Unmoved /\ Others(r) /\ tx[r].op # "delete" /\ tx[r].post \in Post
    BY <1>4, <1>6, UpdateEffect DEF Knows
  <2>2. QED
    BY <1>1, <1>3, <1>6, <2>1, UpdateEffect
<1>7. ASSUME NEW r \in Req, ClearPin(r) PROVE ThreadInv'
  <2>1. tx[r].at = "clear" /\ Unmoved /\ Others(r) /\ SameTask(r) /\ tx[r].op # "delete"
    BY <1>4, <1>7, ClearPinEffect DEF Knows
  <2>2. QED
    BY <1>2, <1>3, <1>7, <2>1, ClearPinEffect
<1>8. ASSUME NEW r \in Req, ClearOwnPin(r) PROVE ThreadInv'
  <2>1. tx[r].at = "unpin" /\ Unmoved /\ Others(r) /\ tx[r].op # "delete" /\ tx[r].post \in Post
    BY <1>4, <1>8, ClearOwnPinEffect DEF Knows
  <2>2. QED
    BY <1>1, <1>3, <1>8, <2>1, ClearOwnPinEffect
<1>9. ASSUME NEW r \in Req, SetPin(r) PROVE ThreadInv'
  <2>1. tx[r].at = "pin" /\ Unmoved /\ Others(r) /\ tx[r].op # "delete" /\ tx[r].post \in Post
    BY <1>4, <1>9, SetPinEffect DEF Knows
  <2>2. CASE tx'[r] = Closed
    BY <1>1, <2>1, <2>2
  <2>3. CASE tx'[r] # Closed
    <3>1. PICK new \in PostRow :
            /\ SameTask(r) /\ Alive(tx[r].post) /\ Adds(r, tx[r].post, new)
            /\ Kin(new, Seen(r, tx[r].post)) /\ new.deleted = Seen(r, tx[r].post).deleted
      BY <1>9, <2>3, SetPinEffect
    <3>2. CASE tx[r].post \in Wrote(r)
      <4>1. /\ Kin(tx[r].writes[tx[r].post], row[tx[r].post])
            /\ ~tx[r].writes[tx[r].post].deleted /\ ~row[tx[r].post].deleted
        BY <1>4, <2>1, <3>1, <3>2 DEF KinOf, Alive
      <4>2. Seen(r, tx[r].post) = tx[r].writes[tx[r].post]
        BY <3>2 DEF Seen
      <4>3. Kin(new, row[tx[r].post]) /\ ~new.deleted
        BY <3>1, <4>1, <4>2 DEF Kin
      <4>4. FallsOf(r)'
        BY <2>1, <3>1 DEF FallsOf, SameTask
      <4>5. QED
        BY <2>1, <3>1, <4>1, <4>3, <4>4, ThreadAdds
    <3>3. CASE tx[r].post \notin Wrote(r)
      <4>1. Seen(r, tx[r].post) = row[tx[r].post]
        BY <3>3 DEF Seen
      <4>2. QED
        BY <1>3, <2>1, <3>1, <4>1
    <3>4. QED
      BY <3>2, <3>3
  <2>4. QED
    BY <2>2, <2>3
<1>10. ASSUME NEW r \in Req, Respond(r) \/ Fail(r) PROVE ThreadInv'
  <2>1. Unmoved /\ Others(r) /\ tx'[r] = Closed
    BY <1>10, RespondEffect, RollbackInv DEF Fail
  <2>2. QED
    BY <1>1, <2>1
<1>11. CASE UNCHANGED vars
  BY <1>11 DEF vars, tables, locks, ghosts, ThreadInv, ParentsThere, ThreadsFallWhole, KinOf, HangsOf, FallsOf,
               Wrote, Exists, Alive
<1>12. QED
  BY <1>5, <1>6, <1>7, <1>8, <1>9, <1>10, <1>11, ThreadBegins, ThreadFalls, ThreadCommits DEF Next

(* Nothing is left standing below a deleted post, but for what has met the delete and a
   quote, for any thread and however deep. *)
THEOREM ThreadsFallWholeHolds == ASSUME Assumptions, Threaded PROVE Spec => []ThreadsFallWhole
<1>1. Init => ThreadInv
  <2> SUFFICES ASSUME Init PROVE ThreadInv
    OBVIOUS
  <2>1. \A r \in Req : tx[r] = Closed /\ Wrote(r) = {}
    BY ClosedTyped DEF Init, Wrote
  <2>2. \A r \in Req : KinOf(r) /\ HangsOf(r) /\ FallsOf(r)
    BY <2>1 DEF KinOf, HangsOf, FallsOf, Closed
  <2>3. ASSUME NEW p \in Post, Exists(p)
        PROVE  /\ p \in DOMAIN Parents /\ row[p].parent = Parents[p]
    <3>1. p \in DOMAIN Parents
      BY <2>3 DEF Init, Exists
    <3>2. row[p] = NewRow(Parents[p], None, FirstText)
      BY <3>1 DEF Init
    <3>3. QED
      BY <3>1, <3>2 DEF NewRow
  <2>4. ASSUME NEW p \in DOMAIN Parents PROVE Alive(p)
    <3>1. NewRow(Parents[p], None, FirstText) \in PostRow
      BY <2>4 DEF Assumptions, NewRow, PostRow
    <3>2. p \in Post /\ row[p] = NewRow(Parents[p], None, FirstText)
      BY <2>4 DEF Init, Assumptions
    <3>3. row[p] # None
      BY <3>1, <3>2 DEF Assumptions
    <3>4. QED
      BY <3>2, <3>3 DEF Alive, Exists, NewRow
  <2>5. ASSUME NEW p \in Post, Exists(p), row[p].parent # None PROVE Alive(row[p].parent)
    BY <2>3, <2>4, <2>5 DEF Threaded
  <2>6. ParentsThere /\ ThreadsFallWhole
    BY <2>5 DEF ParentsThere, ThreadsFallWhole, Alive
  <2>7. QED
    BY <2>2, <2>6 DEF ThreadInv
<1>2. IInv /\ EditInv /\ ThreadInv /\ [Next]_vars => ThreadInv'
  BY ThreadStep
<1>3. ThreadInv => ThreadsFallWhole
  BY DEF ThreadInv
<1>4. QED
  BY <1>1, <1>2, <1>3, Invariance, EditInvariance, PTL DEF Spec
=============================================================================
