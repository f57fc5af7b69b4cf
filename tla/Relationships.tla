--------------------------- MODULE Relationships ---------------------------
(***************************************************************************)
(* Follows, blocks and mutes: user_relationship_service.go over            *)
(* user_relationship_store.go, with the unique constraint and the trigger  *)
(* that keeps follower counts (migration 000006), and FollowUser's         *)
(* notification (user_relationship_handler.go).                            *)
(*                                                                         *)
(* Statements of concurrent requests interleave; transactions are READ     *)
(* COMMITTED. A deleted row stays locked, and an inserted key reserved,    *)
(* until the transaction ends; so does every profile row whose counter     *)
(* the trigger has changed. A transaction holds a connection of the pool   *)
(* until it ends. Exists runs on another one: it reads what is committed,  *)
(* and waits when the pool has no more.                                    *)
(***************************************************************************)
EXTENDS Integers, Sequences, FiniteSets

CONSTANTS
  User,    \* user ids
  Req,     \* requests in flight at a time
  Nobody,  \* holder of a profile row that nobody has locked
  NoRow,   \* row of a request that is not there
  NoScan,  \* todo of a request that runs no DELETE
  PoolSizes, \* what DB_MAX_OPEN_CONNS may be
  Asked,   \* bound: the relationship types that requests are about
  MaxNotes \* bound: notifications of a pair are counted up to here

Kind == {"follow", "block", "mute"}
Row == User \X User \X Kind

ASSUME BoundAssumption == Asked \subseteq Kind /\ MaxNotes \in Nat
ASSUME PoolAssumption == PoolSizes \subseteq Nat \ {0}  \* database/sql takes 0 for no limit
ASSUME NoneAssumption == Nobody \notin Req /\ NoRow \notin Row /\ NoScan # {}

Field == {"followers", "following"}
Stage == {"idle", "status", "blocked", "exists", "delete", "deletePair", "deleteBack",
          "insert", "commit", "notify"}

VARIABLES
  rel,    \* committed rows <<follower, following, type>>
  count,  \* count[u]: committed counters of the profile of u
  stage,  \* stage[r]: next statement of the request
  row,    \* row[r]: the relationship it creates or deletes
  was,    \* was[r]: FollowUser found the follow already there
  todo,   \* todo[r]: rows its DELETE has yet to visit, while it runs one
  del, ins,  \* rows its transaction has deleted and inserted
  work,   \* work[r]: counter updates its trigger has yet to run
  delta,  \* delta[r]: counter updates it has run
  holder, \* holder[u]: request with the lock of the profile row of u
  pool,   \* connections that may be open at a time, as configured
  conn,   \* requests whose transaction has a connection
  notes,  \* notes[<<a, b>>]: "a follows you" sent to b since a last began to (for the
          \* properties, like met, and counted as long as the pair is not in it)
  met     \* pairs of users on which two requests were in flight at once (not
          \* state of the code: it is there for the properties)

tables == <<rel, count, notes>>
request == <<stage, row, was>>
txn == <<todo, del, ins, work, delta, holder>>
vars == <<tables, request, txn, pool, conn, met>>

Actor(r) == row[r][1]
Target(r) == row[r][2]
NoDelta == [u \in User |-> [f \in Field |-> 0]]

Init ==
  /\ rel = {}
  /\ count = NoDelta
  /\ notes = [p \in User \X User |-> 0]
  /\ stage = [r \in Req |-> "idle"]
  /\ row = [r \in Req |-> NoRow]
  /\ was = [r \in Req |-> FALSE]
  /\ todo = [r \in Req |-> NoScan]
  /\ del = [r \in Req |-> {}]
  /\ ins = [r \in Req |-> {}]
  /\ work = [r \in Req |-> <<>>]
  /\ delta = [r \in Req |-> NoDelta]
  /\ holder = [u \in User |-> Nobody]
  /\ pool \in PoolSizes /\ conn = {}
  /\ met = {}

Goto(r, s) == stage' = [stage EXCEPT ![r] = s] /\ UNCHANGED <<row, was, met>>

Answer(r) ==
  /\ stage' = [stage EXCEPT ![r] = "idle"]
  /\ row' = [row EXCEPT ![r] = NoRow]
  /\ was' = [was EXCEPT ![r] = FALSE]
  /\ UNCHANGED met

(* the transaction is over: its locks, reservations and work are gone, its connection is
   back in the pool *)
EndTx(r) ==
  /\ todo' = [todo EXCEPT ![r] = NoScan]
  /\ del' = [del EXCEPT ![r] = {}]
  /\ ins' = [ins EXCEPT ![r] = {}]
  /\ work' = [work EXCEPT ![r] = <<>>]
  /\ delta' = [delta EXCEPT ![r] = NoDelta]
  /\ holder' = [u \in User |-> IF holder[u] = r THEN Nobody ELSE holder[u]]
  /\ conn' = conn \ {r} /\ UNCHANGED pool

Rollback(r) == EndTx(r) /\ Answer(r) /\ UNCHANGED tables

-----------------------------------------------------------------------------
(* The requests; nobody has a relationship with oneself. *)
SamePair(x, y) == x # NoRow /\ {x[1], x[2]} = {y[1], y[2]}

FirstStage(op, k) ==
  CASE op = "delete" -> "delete"
    [] op = "create" /\ k = "follow" -> "status"
    [] op = "create" /\ k = "block" -> "deletePair"
    [] op = "create" /\ k = "mute" -> "exists"

(* mutant: nothing keeps a user from following themselves *)
RequestAny(r, op, x) ==
  /\ stage[r] = "idle"
  /\ x[3] \in Asked
  /\ row' = [row EXCEPT ![r] = x]
  /\ stage' = [stage EXCEPT ![r] = FirstStage(op, x[3])]
  /\ UNCHANGED <<tables, was, txn, pool, conn, met>>

Request(r, op, x) ==
  /\ stage[r] = "idle"
  /\ x[1] # x[2] /\ x[3] \in Asked
  /\ row' = [row EXCEPT ![r] = x]
  /\ stage' = [stage EXCEPT ![r] = FirstStage(op, x[3])]
  /\ met' = met \cup {{x[1], x[2]} : q \in {q \in Req \ {r} : SamePair(row[q], x)}}
  /\ UNCHANGED <<tables, was, txn, pool, conn>>

(* the six handlers, and who they are about: actor, target *)
RequestOf(r, op, k) == \E a, b \in User : Request(r, op, <<a, b, k>>)

FollowUser(r) == RequestOf(r, "create", "follow")
UnfollowUser(r) == RequestOf(r, "delete", "follow")
BlockUser(r) == RequestOf(r, "create", "block")
UnblockUser(r) == RequestOf(r, "delete", "block")
MuteUser(r) == RequestOf(r, "create", "mute")
UnmuteUser(r) == RequestOf(r, "delete", "mute")

(* mutant: every follow counts as new *)
ReadNothing(r) == stage[r] = "status" /\ Goto(r, "blocked") /\ UNCHANGED <<tables, txn, pool, conn>>

(* a statement outside of a transaction takes a connection of the pool for its time *)
Spare == Cardinality(conn) < pool

(* FollowUser: GetRelationshipStatus, before anything else *)
ReadStatus(r) ==
  /\ stage[r] = "status" /\ Spare
  /\ was' = [was EXCEPT ![r] = row[r] \in rel]
  /\ stage' = [stage EXCEPT ![r] = "blocked"]
  /\ UNCHANGED <<tables, row, txn, pool, conn, met>>

(* a transaction begins when it has a connection, and keeps it *)
BeginTx(r) ==
  /\ stage[r] \in {"blocked", "exists", "delete", "deletePair"} /\ r \notin conn
  /\ Spare
  /\ conn' = conn \cup {r}
  /\ UNCHANGED <<tables, request, txn, pool, met>>

(* Exists(followingID, followerID, "block"), on a second connection *)
CheckBlocked(r) ==
  /\ stage[r] = "blocked" /\ r \in conn /\ Spare
  /\ \/ <<Target(r), Actor(r), "block">> \in rel /\ Rollback(r)
     \/ /\ <<Target(r), Actor(r), "block">> \notin rel
        /\ Goto(r, "exists")
        /\ UNCHANGED <<tables, txn, pool, conn>>

(* Exists(followerID, followingID, type), likewise: there already is success *)
CheckExists(r) ==
  /\ stage[r] = "exists" /\ r \in conn /\ Spare
  /\ Goto(r, IF row[r] \in rel THEN "commit" ELSE "insert")
  /\ UNCHANGED <<tables, txn, pool, conn>>

(* mutant: the trigger counts every type *)
CountAll(x, by) == << <<x[1], "following", by>>, <<x[2], "followers", by>> >>

(* the AFTER ROW trigger update_relationship_counts: follower first *)
CounterUpdates(x, by) ==
  IF x[3] = "follow"
  THEN << <<x[1], "following", by>>, <<x[2], "followers", by>> >>
  ELSE <<>>

(* it updates one profile row after the other, waiting for each lock *)
TouchProfile(r) ==
  /\ work[r] # <<>>
  /\ LET u == Head(work[r])[1]
         f == Head(work[r])[2]
         by == Head(work[r])[3]
     IN /\ holder[u] \in {Nobody, r}
        /\ holder' = [holder EXCEPT ![u] = r]
        /\ delta' = [delta EXCEPT ![r][u][f] = @ + by]
  /\ work' = [work EXCEPT ![r] = Tail(@)]
  /\ UNCHANGED <<tables, request, pool, conn, met, todo, del, ins>>

(* INSERT: a key another transaction is inserting or deleting is waited for; a
   key that is there is a unique violation, and the request fails *)
Reserved(r, x) == \E q \in Req \ {r} : x \in ins[q] \cup del[q]

Insert(r) ==
  /\ stage[r] = "insert" /\ work[r] = <<>>
  /\ ~Reserved(r, row[r])
  /\ \/ row[r] \in rel \ del[r] /\ Rollback(r)
     \/ /\ row[r] \notin rel \ del[r]
        /\ ins' = [ins EXCEPT ![r] = {row[r]}]
        /\ work' = [work EXCEPT ![r] = CounterUpdates(row[r], 1)]
        /\ Goto(r, "commit")
        /\ UNCHANGED <<tables, todo, del, delta, holder, pool, conn>>

(* DELETE (Delete, DeleteByType): the rows of its snapshot, one after the other *)
Deleting == {"delete", "deletePair", "deleteBack"}

Pair(r) == IF stage[r] = "deleteBack" THEN <<Target(r), Actor(r)>> ELSE <<Actor(r), Target(r)>>

Doomed(r) ==
  IF stage[r] = "delete" THEN rel \cap {row[r]}
  ELSE {x \in rel : <<x[1], x[2]>> = Pair(r)}

(* mutant: a block too asks whether it is there, in the middle of its transaction *)
AskAfterwards(s) ==
  CASE s = "delete" -> "commit" [] s = "deletePair" -> "deleteBack" [] s = "deleteBack" -> "exists"

(* mutant: a block removes one direction *)
SkipBack(s) == IF s = "delete" THEN "commit" ELSE "insert"

AfterDelete(s) ==
  CASE s = "delete" -> "commit"
    [] s = "deletePair" -> "deleteBack"
    [] s = "deleteBack" -> "insert"

DeleteBegin(r) ==
  /\ stage[r] \in Deleting /\ r \in conn /\ work[r] = <<>> /\ todo[r] = NoScan
  /\ todo' = [todo EXCEPT ![r] = Doomed(r)]
  /\ UNCHANGED <<tables, request, pool, conn, met, del, ins, work, delta, holder>>

(* a row that another transaction has deleted is waited for, and may be gone then *)
DeleteRow(r) ==
  /\ todo[r] # NoScan
  /\ \E x \in todo[r] :
       /\ \A q \in Req \ {r} : x \notin del[q]
       /\ del' = [del EXCEPT ![r] = @ \cup (rel \cap {x})]
       /\ todo' = [todo EXCEPT ![r] = @ \ {x}]
  /\ UNCHANGED <<tables, request, pool, conn, met, ins, work, delta, holder>>

(* the triggers run when the statement has visited every row; DeleteByType fails
   with NotFound when there was none, the deletes of a block go on *)
DeleteEnd(r) ==
  /\ todo[r] = {}
  /\ \/ stage[r] = "delete" /\ del[r] = {} /\ Rollback(r)
     \/ /\ stage[r] # "delete" \/ del[r] # {}
        /\ LET gone == del[r] \cap {<<Pair(r)[1], Pair(r)[2], "follow">>}
           IN work' = [work EXCEPT ![r] =
                IF gone = {} THEN <<>> ELSE CounterUpdates(CHOOSE x \in gone : TRUE, -1)]
        /\ todo' = [todo EXCEPT ![r] = NoScan]
        /\ Goto(r, AfterDelete(stage[r]))
        /\ UNCHANGED <<tables, del, ins, delta, holder, pool, conn>>

Commit(r) ==
  /\ stage[r] = "commit" /\ work[r] = <<>>
  /\ rel' = (rel \ del[r]) \cup ins[r]
  /\ count' = [u \in User |-> [f \in Field |-> count[u][f] + delta[r][u][f]]]
  /\ notes' = [p \in User \X User |->
                 IF <<p[1], p[2], "follow">> \in ins[r] THEN 0 ELSE notes[p]]
  /\ EndTx(r)
  /\ IF row[r][3] = "follow" /\ del[r] = {} /\ ~was[r]
     THEN Goto(r, "notify")
     ELSE Answer(r)

(* FollowUser tells the target, when the follow was not there at the start; the
   notification may be unwanted *)
Notify(r) ==
  /\ stage[r] = "notify" /\ Spare
  /\ \/ notes' = [notes EXCEPT ![<<Actor(r), Target(r)>>] =
                    IF @ < MaxNotes /\ {Actor(r), Target(r)} \notin met THEN @ + 1 ELSE @]
     \/ UNCHANGED notes
  /\ Answer(r)
  /\ UNCHANGED <<rel, count, txn, pool, conn>>

-----------------------------------------------------------------------------
(* A request that waits for a lock, and for whom. *)
WaitsFor(r, q) ==
  /\ q # r
  /\ \/ work[r] # <<>> /\ holder[Head(work[r])[1]] = q
     \/ work[r] = <<>> /\ stage[r] = "insert" /\ row[r] \in ins[q] \cup del[q]
     \/ todo[r] # NoScan /\ todo[r] \cap del[q] # {}

InDeadlock(r) ==
  \E S \in SUBSET Req :
    /\ r \in S
    /\ \A q \in S : \E p \in S : WaitsFor(q, p)
    /\ \A q \in S : \E p \in S : WaitsFor(p, q)

(* the database ends a deadlock by failing one of its transactions *)
DeadlockAbort(r) == InDeadlock(r) /\ Rollback(r)

(* any other error, or a client that goes away: before the COMMIT nothing stays of the
   request, after it there is no notification, which the handler only logs *)
Fail(r) == stage[r] # "idle" /\ Rollback(r)

Work(r) ==
  \/ ReadStatus(r) \/ BeginTx(r) \/ CheckBlocked(r) \/ CheckExists(r)
  \/ TouchProfile(r) \/ Insert(r)
  \/ DeleteBegin(r) \/ DeleteRow(r) \/ DeleteEnd(r)
  \/ Commit(r) \/ Notify(r) \/ DeadlockAbort(r)

Next ==
  \E r \in Req :
    \/ FollowUser(r) \/ UnfollowUser(r)
    \/ BlockUser(r) \/ UnblockUser(r)
    \/ MuteUser(r) \/ UnmuteUser(r)
    \/ Work(r)
    \/ Fail(r)

Spec == Init /\ [][Next]_vars
-----------------------------------------------------------------------------
TypeOK ==
  /\ rel \in SUBSET {x \in Row : x[1] # x[2]}
  /\ count \in [User -> [Field -> Int]]
  /\ notes \in [User \X User -> 0 .. MaxNotes]
  /\ stage \in [Req -> Stage]
  /\ row \in [Req -> Row \cup {NoRow}]
  /\ was \in [Req -> BOOLEAN]
  /\ \A r \in Req : todo[r] = NoScan \/ todo[r] \subseteq Row
  /\ del \in [Req -> SUBSET Row]
  /\ ins \in [Req -> SUBSET Row]
  /\ work \in [Req -> Seq(User \X Field \X {-1, 1})]
  /\ delta \in [Req -> [User -> [Field -> Int]]]
  /\ holder \in [User -> Req \cup {Nobody}]
  /\ pool \in PoolSizes /\ conn \subseteq Req
  /\ met \in SUBSET SUBSET User

(* The counters on the profiles are the numbers of committed follows, however
   follows, unfollows and blocks of the same pair race, fail or are aborted. *)
CountsMatchRows ==
  \A u \in User :
    /\ count[u]["followers"] = Cardinality({x \in rel : x[2] = u /\ x[3] = "follow"})
    /\ count[u]["following"] = Cardinality({x \in rel : x[1] = u /\ x[3] = "follow"})

(* Who is blocked does not follow the blocker, as long as the requests about the
   two come one after the other. *)
BlockExcludesFollowInTurn ==
  \A a, b \in User :
    {a, b} \notin met /\ <<a, b, "block">> \in rel => <<b, a, "follow">> \notin rel

Graph == INSTANCE FollowGraph WITH raced <- met

(* The tables implement FollowGraph: however statements interleave, each COMMIT adds one
   row, removes one, or puts a block in the place of all rows of the pair (of some, when
   requests about the pair met), and the counters move with the rows. *)
ImplementsGraph == Graph!Spec

(* The same of every pair: user_relationship_service.go 62-63 says that a block
   "ensures the blocked user can't follow you anymore". *)
BlockExcludesFollow ==
  \A a, b \in User : <<a, b, "block">> \in rel => <<b, a, "follow">> \notin rel

(* Repeating a follow does not notify again (user_relationship_handler.go 72-73),
   as long as the requests about the two come one after the other. *)
NotifiedOnceInTurn ==
  \A a, b \in User : {a, b} \notin met => notes[<<a, b>>] <= 1

(* Requests in flight come to a halt in one way only: every connection belongs to a follow
   or mute that asks for a second one (Exists). What else they wait for, among them locks
   of transactions that wait for connections, is given back: the database ends cycles of
   locks, but it does not see the pool, and no transaction may ask the pool for anything
   once it has a lock. *)
AskForMore == {r \in conn : stage[r] \in {"blocked", "exists"}}

OnlyThePoolHangs ==
  (\E r \in Req : stage[r] # "idle") =>
    (\E r \in Req : ENABLED Work(r)) \/ Cardinality(AskForMore) = pool
=============================================================================
