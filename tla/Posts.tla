------------------------------- MODULE Posts -------------------------------
(***************************************************************************)
(* Posts and what is kept with them: edits, hashtags and mentions, pins,   *)
(* and the cascade of a delete. A request reads the post outside of its    *)
(* transaction, and each statement of the transaction is an action. What   *)
(* an open transaction has written is in its record until the COMMIT, and  *)
(* the rows it has written are locked for others.                          *)
(*                                                                         *)
(* An early return that changes nothing is a step that is not taken.       *)
(* Visibility is in Feeds; a post is inserted with its media, its poll and *)
(* its news or not at all, and they are left out.                          *)
(***************************************************************************)
EXTENDS Integers, Sequences, FiniteSets

CONSTANTS
  Post,        \* IDs, taken in any order
  Author,      \* Author[p]: who writes post p
  Text,
  Tag,
  TagsOf,      \* TagsOf[t]: the hashtags of a text, in their order
  Req,         \* requests
  None,
  Parents,     \* the posts there are in the beginning, with their parents
  FirstText,
  MaxRequests  \* bound: requests started

VARIABLES
  row,       \* row[p]: the committed row of p, or None
  history,   \* history[p]: the texts that post_edits has of p, oldest first
  indexed,   \* indexed[p]: the texts whose hashtags and mentions p has
  rowLock,   \* rowLock[p]: the request that has locked the row of p, or None
  tagLock,   \* tagLock[h]: the request that has upserted hashtag h, or None
  tx,        \* tx[r]: the transaction of request r, see Closed
  announced, \* posts whose readers have been notified
  started,   \* requests started
  late,      \* posts written by a request that has met another
  past       \* past[p]: the texts that p has had before its present one

tables == <<row, history, indexed>>
locks == <<rowLock, tagLock>>
ghosts == <<started, late, past>>
vars == <<tables, locks, tx, announced, ghosts>>

Exists(p) == row[p] # None
Alive(p) == Exists(p) /\ ~row[p].deleted

NewRow(parent, quoted, t) ==
  [parent |-> parent, quoted |-> quoted, text |-> t, deleted |-> FALSE, pinned |-> FALSE]

Closed ==
  [at |-> "closed",    \* the next statement
   op |-> None, post |-> None, text |-> None,
   before |-> None,    \* the text that was read before it began
   scan |-> {},        \* rows that a statement has still to lock
   writes |-> <<>>,    \* the new rows, by their posts
   tags |-> <<>>,      \* hashtags to upsert
   dropped |-> {},     \* what the DELETEs of hashtags and mentions have found
   met |-> FALSE]      \* another transaction was open at the same time

Open(r) == tx[r].at # "closed"
Free(r, p) == rowLock[p] \in {None, r}
Wrote(r) == DOMAIN tx[r].writes

(* the row of a post as request r sees it *)
Seen(r, p) == IF p \in Wrote(r) THEN tx[r].writes[p] ELSE row[p]

(* a post and everything below it, a level more with each number *)
Descendants(p) ==
  LET Below[n \in 0 .. Cardinality(Post)] ==
        {p} \cup IF n = 0 THEN {} ELSE {q \in Post : /\ Exists(q) /\ row[q].parent # None
                                                    /\ row[q].parent \in Below[n - 1]}
  IN  {q \in Below[Cardinality(Post)] : Exists(q)}

GetPinned(u) == {p \in Post : Author[p] = u /\ Alive(p) /\ row[p].pinned}

(* the newest first *)
ListEdits(p) == [i \in DOMAIN history[p] |-> history[p][Len(history[p]) + 1 - i]]

Init ==
  /\ row = [p \in Post |-> IF p \in DOMAIN Parents THEN NewRow(Parents[p], None, FirstText) ELSE None]
  /\ history = [p \in Post |-> <<>>]
  /\ indexed = [p \in Post |-> IF p \in DOMAIN Parents THEN {FirstText} ELSE {}]
  /\ rowLock = [p \in Post |-> None]
  /\ tagLock = [h \in Tag |-> None]
  /\ tx = [r \in Req |-> Closed]
  /\ announced = DOMAIN Parents
  /\ started = 0
  /\ late = {}
  /\ past = [p \in Post |-> <<>>]

-----------------------------------------------------------------------------
(* Transactions *)

(* BEGIN, after the reads that precede it: operation o on post p with text t, whose first
   statement is l, with the writes w there are and the rows s to lock. *)
Begin(r, o, p, l, t, w, s) ==
  /\ ~Open(r) /\ started < MaxRequests
  /\ started' = started + 1
  /\ LET others == {q \in Req : Open(q)} IN
     tx' = [q \in Req |->
              IF q = r THEN [Closed EXCEPT !.at = l, !.op = o, !.post = p, !.text = t, !.writes = w,
                                           !.scan = s, !.met = others # {},
                                           !.before = IF Exists(p) THEN row[p].text ELSE None]
              ELSE [tx[q] EXCEPT !.met = @ \/ q \in others]]
  /\ UNCHANGED <<tables, locks, announced, late, past>>

(* The next statement is l. *)
Step(r, l, w, s) ==
  /\ tx' = [tx EXCEPT ![r].at = l, ![r].writes = w, ![r].scan = s]
  /\ UNCHANGED <<tables, tagLock, announced, ghosts>>

(* the writes of r with the new row of p *)
With(r, p, new) == [q \in Wrote(r) \cup {p} |-> IF q = p THEN new ELSE tx[r].writes[q]]
Lock(r, p) == Free(r, p) /\ rowLock' = [rowLock EXCEPT ![p] = r]

Release(r) ==
  /\ rowLock' = [p \in Post |-> IF rowLock[p] = r THEN None ELSE rowLock[p]]
  /\ tagLock' = [h \in Tag |-> IF tagLock[h] = r THEN None ELSE tagLock[h]]

Rollback(r) ==
  /\ Release(r)
  /\ tx' = [tx EXCEPT ![r] = Closed]
  /\ UNCHANGED <<tables, announced, ghosts>>

(* a statement that fails, a client that goes away, a deadlock that the database ends *)
Fail(r) == tx[r].at \notin {"closed", "respond"} /\ Rollback(r)

(* mutant: the text that is written, and not the one before it *)
CreateEditAfter(r, p) == Append(history[p], tx[r].text)

(* COMMIT. An edit is in the history with the text that was read before it. *)
CreateEdit(r, p) == Append(history[p], tx[r].before)

Commit(r) ==
  /\ tx[r].at = "commit"
  /\ LET p == tx[r].post IN
     /\ row' = [q \in Post |-> Seen(r, q)]
     /\ IF tx[r].op = "edit"
        THEN /\ history' = [history EXCEPT ![p] = CreateEdit(r, p)]
             /\ past' = [past EXCEPT ![p] = Append(@, row[p].text)]
        ELSE UNCHANGED <<history, past>>
     /\ indexed' = IF tx[r].op \in {"edit", "post", "quote"}
                   THEN [indexed EXCEPT ![p] = (@ \ tx[r].dropped) \cup {tx[r].text}]
                   ELSE indexed
     /\ late' = IF tx[r].met THEN late \cup {p} ELSE late
     /\ tx' = [tx EXCEPT ![r] = IF tx[r].op \in {"post", "quote"}
                                THEN [Closed EXCEPT !.at = "respond", !.op = tx[r].op, !.post = p]
                                ELSE Closed]
  /\ Release(r)
  /\ UNCHANGED <<announced, started>>

-----------------------------------------------------------------------------
(* Posting and quoting. The new row is seen by nobody yet; its triggers count it at
   the posts it quotes and answers, and lock their rows. *)
Insert(r, o, p, parent, quoted) ==
  /\ ~Exists(p) /\ \A q \in Req : tx[q].post # p
  /\ \E t \in Text : Begin(r, o, p, "count", t, [q \in {p} |-> NewRow(parent, quoted, t)],
                           {parent, quoted} \ {None})

(* mutant: it need only exist *)
CreateBelowAny(r, p, parent) == (parent # None => Exists(parent)) /\ Insert(r, "post", p, parent, None)

(* what a reply answers must be there *)
Create(r, p, parent) == (parent # None => Alive(parent)) /\ Insert(r, "post", p, parent, None)
CreatePost(r) == \E p \in Post, parent \in Post \cup {None} : parent # p /\ Create(r, p, parent)

(* what a quote quotes must be there; what it answers need only exist *)
QuotePost(r, p, parent, quoted) ==
  Alive(quoted) /\ (parent # None => Exists(parent)) /\ Insert(r, "quote", p, parent, quoted)
Quote(r) == \E p, quoted \in Post, parent \in Post \cup {None} : QuotePost(r, p, parent, quoted)

UpdateCounts(r) ==
  /\ tx[r].at = "count"
  /\ IF tx[r].scan = {} THEN Step(r, "sync", tx[r].writes, {}) /\ UNCHANGED rowLock
     ELSE \E q \in tx[r].scan : Lock(r, q) /\ Step(r, "count", tx[r].writes, tx[r].scan \ {q})

(* Hashtags and mentions: those of the text before are deleted, those of the text inserted.
   A hashtag's row stays locked until the COMMIT. *)
SyncPost(r) ==
  /\ tx[r].at = "sync"
  /\ tx' = [tx EXCEPT ![r].at = "tags", ![r].dropped = indexed[tx[r].post],
                      ![r].tags = TagsOf[tx[r].text]]
  /\ UNCHANGED <<tables, locks, announced, ghosts>>

UpsertHashtag(r) ==
  /\ tx[r].at = "tags"
  /\ IF tx[r].tags = <<>> THEN tx' = [tx EXCEPT ![r].at = "commit"] /\ UNCHANGED tagLock
     ELSE /\ tagLock[Head(tx[r].tags)] \in {None, r}
          /\ tagLock' = [tagLock EXCEPT ![Head(tx[r].tags)] = r]
          /\ tx' = [tx EXCEPT ![r].tags = Tail(@)]
  /\ UNCHANGED <<tables, rowLock, announced, ghosts>>

(* The post is read back for the response and then announced: to the author above, to
   those it mentions, to followers. If it is gone by then, or the read fails, nobody
   is told. A quote is not read back. *)
Respond(r) ==
  /\ tx[r].at = "respond"
  /\ \/ /\ Alive(tx[r].post) \/ tx[r].op = "quote"
        /\ announced' = announced \cup {tx[r].post}
     \/ tx[r].op = "post" /\ UNCHANGED announced
  /\ tx' = [tx EXCEPT ![r] = Closed]
  /\ UNCHANGED <<tables, locks, ghosts>>

-----------------------------------------------------------------------------
(* The others begin with the row as the middleware has read it. *)
SetPostContext(p) == Alive(p)

(* Editing *)
Update(r, p, t) == t # row[p].text /\ Begin(r, "edit", p, "update", t, <<>>, {})
UpdatePost(r) == \E p \in Post, t \in Text : SetPostContext(p) /\ Update(r, p, t)

UpdateRow(r) ==
  /\ tx[r].at = "update"
  /\ LET p == tx[r].post IN
     /\ Free(r, p)
     /\ IF Alive(p) THEN Lock(r, p) /\ Step(r, "sync", With(r, p, [row[p] EXCEPT !.text = tx[r].text]), {})
        ELSE Rollback(r)

(* Deleting: the statement collects the thread first, and then locks row by row. *)
DeleteByID(r, p) == Begin(r, "delete", p, "cascade", None, <<>>, {})
DeletePostByID(r) == \E p \in Post : SetPostContext(p) /\ DeleteByID(r, p)

DeleteCascade(r) ==
  /\ tx[r].at = "cascade"
  /\ Step(r, "delete", <<>>, {q \in Post : q \in Descendants(tx[r].post) /\ ~row[q].deleted})
  /\ UNCHANGED rowLock

DeleteRow(r) ==
  /\ tx[r].at = "delete"
  /\ \/ \E q \in tx[r].scan :
          /\ Lock(r, q)
          /\ Step(r, "delete", IF Alive(q) THEN With(r, q, [row[q] EXCEPT !.deleted = TRUE])
                               ELSE tx[r].writes, tx[r].scan \ {q})
     \/ /\ tx[r].scan = {}
        /\ IF Wrote(r) = {} THEN Rollback(r)
           ELSE Step(r, "commit", tx[r].writes, {}) /\ UNCHANGED rowLock

(* Pinning: the pins there are, of deleted posts too, are cleared row by row; then the
   post is pinned. *)
Pin(r, p) == Begin(r, "pin", p, "clear", None, <<>>,
                   {q \in Post : Exists(q) /\ Author[q] = Author[p] /\ row[q].pinned})
PinPost(r) == \E p \in Post : SetPostContext(p) /\ Pin(r, p)

ClearPin(r) ==
  /\ tx[r].at = "clear"
  /\ \/ \E q \in tx[r].scan :
          /\ Lock(r, q)
          /\ Step(r, "clear", IF row[q].pinned THEN With(r, q, [row[q] EXCEPT !.pinned = FALSE])
                              ELSE tx[r].writes, tx[r].scan \ {q})
     \/ /\ tx[r].scan = {}
        /\ Step(r, "pin", tx[r].writes, {}) /\ UNCHANGED rowLock

(* The unique index has one pinned post of an author that is not deleted. What another
   transaction is doing to such a row has to end first. *)
IsPin(q, new) == new # None /\ new.pinned /\ ~new.deleted
Pinned(p) == {q \in Post \ {p} : Author[q] = Author[p] /\ IsPin(q, row[q])}
BeingPinned(r, p) ==
  {q \in Post \ {p} : /\ Author[q] = Author[p]
                      /\ \E s \in Req \ {r} : q \in Wrote(s) /\ (IsPin(q, row[q]) \/ IsPin(q, tx[s].writes[q]))}
IndexLets(r, p) == TRUE   \* mutant: the index does not ask for one pin
IndexAllows(r, p) == \A q \in Pinned(p) : ~IsPin(q, Seen(r, q))

SetPin(r) ==
  /\ tx[r].at = "pin"
  /\ LET p == tx[r].post IN
     /\ Free(r, p)
     /\ Alive(p) => BeingPinned(r, p) = {}
     /\ IF Alive(p) /\ IndexAllows(r, p)
        THEN Lock(r, p) /\ Step(r, "commit", With(r, p, [Seen(r, p) EXCEPT !.pinned = TRUE]), {})
        ELSE Rollback(r)

Unpin(r, p) == Begin(r, "unpin", p, "unpin", None, <<>>, {})
UnpinPost(r) == \E p \in Post : SetPostContext(p) /\ row[p].pinned /\ Unpin(r, p)

ClearOwnPin(r) ==
  /\ tx[r].at = "unpin"
  /\ LET p == tx[r].post IN
     /\ Free(r, p)
     /\ IF row[p].pinned
        THEN Lock(r, p) /\ Step(r, "commit", With(r, p, [row[p] EXCEPT !.pinned = FALSE]), {})
        ELSE Rollback(r)

Next ==
  \E r \in Req :
    \/ CreatePost(r) \/ Quote(r) \/ UpdateCounts(r) \/ SyncPost(r) \/ UpsertHashtag(r)
    \/ Respond(r)
    \/ UpdatePost(r) \/ UpdateRow(r)
    \/ DeletePostByID(r) \/ DeleteCascade(r) \/ DeleteRow(r)
    \/ PinPost(r) \/ ClearPin(r) \/ SetPin(r) \/ UnpinPost(r) \/ ClearOwnPin(r)
    \/ Commit(r) \/ Fail(r)

Spec == Init /\ [][Next]_vars
-----------------------------------------------------------------------------
PostsTypeOK ==
  /\ row \in [Post -> {None} \cup [parent : Post \cup {None}, quoted : Post \cup {None}, text : Text,
                                   deleted : BOOLEAN, pinned : BOOLEAN]]
  /\ history \in [Post -> Seq(Text)]
  /\ indexed \in [Post -> SUBSET Text]
  /\ rowLock \in [Post -> Req \cup {None}]
  /\ tagLock \in [Tag -> Req \cup {None}]
  /\ \A r \in Req :
       /\ tx[r].at \in {"closed", "count", "sync", "tags", "commit", "respond", "update", "cascade",
                        "delete", "clear", "pin", "unpin"}
       /\ tx[r].post \in Post \cup {None} /\ tx[r].scan \subseteq Post
       /\ \A p \in Wrote(r) : Exists(p) => rowLock[p] = r
  /\ announced \subseteq Post /\ late \subseteq Post

(* An author has one pinned post, though two pins each clear what they have seen and
   then set their own. *)
OnePin == \A p, q \in Post : p # q /\ Author[p] = Author[q] => ~(IsPin(p, row[p]) /\ IsPin(q, row[q]))

(* The history has one text for each edit, and the hashtags and mentions are those of
   the present text, though edits overlap; it has the texts the post really had,
   unless they did. *)
EditsAreKept ==
  \A p \in Post :
    /\ Len(history[p]) = Len(past[p])
    /\ Exists(p) => indexed[p] = {row[p].text}
    /\ p \notin late => \A i \in DOMAIN past[p] : ListEdits(p)[Len(past[p]) + 1 - i] = past[p][i]

(* Nothing is left standing below a deleted post, but for a reply that met the delete
   and a quote, whose parent is not looked at. *)
ThreadsFallWhole ==
  \A p \in Post :
    Alive(p) /\ row[p].parent # None /\ ~Alive(row[p].parent) => p \in late \/ row[p].quoted # None
=============================================================================
