------------------------ MODULE RelationshipsProofs ------------------------
(***************************************************************************)
(* Proofs about Relationships, for any users and any number of requests.   *)
(* What each step does to its request is stated once (the After lemmas);   *)
(* the parts of the invariant are then proved one by one over those:       *)
(* types, locks, the phases of a transaction, the balance of its counter   *)
(* updates, and what a request that is alone with its pair knows. Then     *)
(* that the tables implement FollowGraph, and that requests come to a halt *)
(* at the limit of the connection pool only.                               *)
(***************************************************************************)
EXTENDS Relationships, FiniteSetTheorems, SequenceTheorems, TLAPS

(* What is typed, and what TypeOK needs to be inductive: a request has its row while it is
   in flight, scans only in a DELETE, and inserts its row if any. *)
Sound(r) ==
  /\ todo[r] # NoScan => stage[r] \in Deleting
  /\ row[r] = NoRow <=> stage[r] = "idle"
  /\ row[r] # NoRow => Actor(r) # Target(r)
  /\ ins[r] \in {{}, {row[r]}}
  /\ stage[r] # "commit" => ins[r] = {}

Types == TypeOK /\ todo \in [Req -> (SUBSET Row) \cup {NoScan}] /\ \A r \in Req : Sound(r)

LEMMA NoDeltaTyped == NoDelta \in [User -> [Field -> Int]]
  BY DEF NoDelta

LEMMA TypesInit == Init => Types
<1> SUFFICES ASSUME Init PROVE Types OBVIOUS
<1>1. TypeOK
  <2>1. \A r \in Req : work[r] = <<>> BY DEF Init
  <2> QED BY <2>1, BoundAssumption, NoneAssumption, NoDeltaTyped DEF Init, TypeOK, Stage
<1>2. todo \in [Req -> (SUBSET Row) \cup {NoScan}] BY DEF Init
<1>3. \A r \in Req : Sound(r) BY DEF Init, Sound
<1> QED BY <1>1, <1>2, <1>3 DEF Types

LEMMA RollbackTypes == ASSUME NEW r \in Req, Types, Rollback(r) PROVE Types'
<1>1. TypeOK'
  BY NoneAssumption, NoDeltaTyped DEF Rollback, EndTx, Answer, tables, Types, TypeOK, Stage
<1>2. todo' \in [Req -> (SUBSET Row) \cup {NoScan}] BY DEF Rollback, EndTx, Types
<1>3. \A q \in Req : Sound(q)'
  BY DEF Rollback, EndTx, Answer, tables, Types, TypeOK, Sound, Actor, Target
<1> QED BY <1>1, <1>2, <1>3 DEF Types

LEMMA RequestTypes ==
  ASSUME NEW r \in Req, NEW op \in {"create", "delete"}, NEW k \in Kind, Types, RequestOf(r, op, k)
  PROVE  Types'
<1>1. PICK a, b \in User : Request(r, op, <<a, b, k>>) BY DEF RequestOf
<1>2. FirstStage(op, k) \in Stage \ {"idle", "commit"} BY DEF FirstStage, Kind, Stage
<1>3. <<a, b, k>> \in Row /\ <<a, b, k>> # NoRow BY NoneAssumption DEF Row
<1>4. met' \in SUBSET SUBSET User
  <2>1. met' = met \cup {{a, b} : q \in {q \in Req \ {r} : SamePair(row[q], <<a, b, k>>)}} BY <1>1 DEF Request
  <2>2. \A m \in met' : m \in met \/ m = {a, b} BY <2>1
  <2>3. {a, b} \in SUBSET User OBVIOUS
  <2>4. met \subseteq SUBSET User BY DEF Types, TypeOK
  <2>5. met' \subseteq SUBSET User BY <2>2, <2>3, <2>4
  <2> QED BY <2>5
<1>5. todo[r] = NoScan /\ ins[r] = {} BY <1>1 DEF Types, Sound, Request, Deleting
<1>6. /\ row' = [row EXCEPT ![r] = <<a, b, k>>] /\ stage' = [stage EXCEPT ![r] = FirstStage(op, k)] /\ a # b
      /\ UNCHANGED <<tables, was, txn, pool, conn>>
  BY <1>1 DEF Request
<1>7. TypeOK' BY <1>2, <1>3, <1>4, <1>6 DEF tables, txn, Types, TypeOK
<1>8. \A q \in Req : Sound(q)'
  BY <1>2, <1>3, <1>5, <1>6 DEF txn, Types, TypeOK, Sound, Actor, Target
<1> QED BY <1>6, <1>7, <1>8 DEF Types, txn

LEMMA ReadStatusTypes == ASSUME NEW r \in Req, Types, ReadStatus(r) PROVE Types'
<1>1. TypeOK' BY DEF ReadStatus, tables, txn, Types, TypeOK, Stage
<1>2. \A q \in Req : Sound(q)'
  BY DEF ReadStatus, tables, txn, Types, TypeOK, Sound, Deleting, Actor, Target
<1> QED BY <1>1, <1>2 DEF Types, ReadStatus, txn

LEMMA BeginTypes == ASSUME NEW r \in Req, Types, BeginTx(r) PROVE Types'
<1>1. TypeOK' BY DEF BeginTx, tables, request, txn, Types, TypeOK
<1>2. \A q \in Req : Sound(q)' BY DEF BeginTx, request, txn, Types, Sound, Actor, Target
<1> QED BY <1>1, <1>2 DEF Types, BeginTx, txn

LEMMA CheckTypes == ASSUME NEW r \in Req, Types, CheckBlocked(r) \/ CheckExists(r) PROVE Types'
<1>1. CASE Rollback(r) BY <1>1, RollbackTypes
<1>2. CASE ~Rollback(r)
  <2>1. UNCHANGED <<tables, txn, pool, conn, row, was, met>>
    BY <1>2 DEF CheckBlocked, CheckExists, Goto
  <2>2. PICK s \in {"exists", "insert", "commit"} : stage' = [stage EXCEPT ![r] = s]
    BY <1>2 DEF CheckBlocked, CheckExists, Goto
  <2>3. stage[r] \in {"blocked", "exists"} BY DEF CheckBlocked, CheckExists
  <2>4. TypeOK' BY <2>1, <2>2 DEF tables, txn, Types, TypeOK, Stage
  <2>5. \A q \in Req : Sound(q)'
    BY <2>1, <2>2, <2>3 DEF txn, Types, TypeOK, Sound, Deleting, Actor, Target
  <2> QED BY <2>1, <2>4, <2>5 DEF Types, txn
<1> QED BY <1>1, <1>2

LEMMA TouchTypes == ASSUME NEW r \in Req, Types, TouchProfile(r) PROVE Types'
<1> DEFINE u == Head(work[r])[1]
           f == Head(work[r])[2]
           by == Head(work[r])[3]
<1>1. work[r] \in Seq(User \X Field \X {-1, 1}) /\ work[r] # <<>> BY DEF TouchProfile, Types, TypeOK
<1>2. u \in User /\ f \in Field /\ by \in Int
  <2>1. Head(work[r]) \in User \X Field \X {-1, 1} BY <1>1
  <2> QED BY <2>1
<1>3. Tail(work[r]) \in Seq(User \X Field \X {-1, 1}) BY <1>1
<1>4. work' \in [Req -> Seq(User \X Field \X {-1, 1})] BY <1>3 DEF TouchProfile, Types, TypeOK
<1>5. holder' \in [User -> Req \cup {Nobody}] BY <1>2 DEF TouchProfile, Types, TypeOK
<1>6. delta' \in [Req -> [User -> [Field -> Int]]]
  <2>1. delta \in [Req -> [User -> [Field -> Int]]] BY DEF Types, TypeOK
  <2>2. delta' = [delta EXCEPT ![r][u][f] = @ + by] BY SMTT(30) DEF TouchProfile
  <2> QED BY <2>1, <2>2, <1>2
<1>7. TypeOK' BY <1>4, <1>5, <1>6 DEF TouchProfile, tables, request, Types, TypeOK
<1>8. \A q \in Req : Sound(q)' BY DEF TouchProfile, request, Types, Sound, Actor, Target
<1> QED BY <1>7, <1>8 DEF Types, TouchProfile

LEMMA UpdatesTyped ==
  ASSUME NEW x \in Row, NEW by \in {-1, 1}
  PROVE  CounterUpdates(x, by) \in Seq(User \X Field \X {-1, 1})
<1>1. x[1] \in User /\ x[2] \in User BY DEF Row
<1>2. <<x[1], "following", by>> \in User \X Field \X {-1, 1} /\ <<x[2], "followers", by>> \in User \X Field \X {-1, 1}
  BY <1>1 DEF Field
<1> DEFINE S == User \X Field \X {-1, 1}
<1>3. \A e, g \in S : <<e, g>> \in Seq(S) /\ <<>> \in Seq(S) OBVIOUS
<1>4. <<>> \in Seq(S) OBVIOUS
<1> QED BY <1>2, <1>3, <1>4 DEF CounterUpdates

LEMMA InsertTypes == ASSUME NEW r \in Req, Types, Insert(r) PROVE Types'
<1>1. CASE Rollback(r) BY <1>1, RollbackTypes
<1>2. CASE ~Rollback(r)
  <2>1. row[r] \in Row BY DEF Insert, Types, TypeOK, Sound
  <2>2. CounterUpdates(row[r], 1) \in Seq(User \X Field \X {-1, 1}) BY <2>1, UpdatesTyped
  <2>3. /\ UNCHANGED <<tables, todo, del, delta, holder, pool, conn, row, was, met>> /\ stage[r] = "insert"
        /\ ins' = [ins EXCEPT ![r] = {row[r]}] /\ stage' = [stage EXCEPT ![r] = "commit"]
        /\ work' = [work EXCEPT ![r] = CounterUpdates(row[r], 1)]
    BY <1>2 DEF Insert, Goto
  <2>4. TypeOK' BY <2>1, <2>2, <2>3 DEF tables, Types, TypeOK, Stage
  <2>5. \A q \in Req : Sound(q)' BY <2>3 DEF Types, TypeOK, Sound, Deleting, Actor, Target
  <2> QED BY <2>3, <2>4, <2>5 DEF Types
<1> QED BY <1>1, <1>2

LEMMA DoomedTyped == ASSUME NEW r \in Req, Types PROVE Doomed(r) \in SUBSET Row
  BY DEF Doomed, Types, TypeOK

LEMMA ScanTypes == ASSUME NEW r \in Req, Types, DeleteBegin(r) \/ DeleteRow(r) PROVE Types'
<1>1. UNCHANGED <<tables, request, pool, conn, met, ins, work, delta, holder>> BY DEF DeleteBegin, DeleteRow
<1>2. del' \in [Req -> SUBSET Row]
  <2>1. del \in [Req -> SUBSET Row] /\ rel \subseteq Row BY DEF Types, TypeOK
  <2>2. CASE DeleteBegin(r) BY <2>1, <2>2 DEF DeleteBegin
  <2>3. CASE DeleteRow(r)
    <3>1. PICK x : del' = [del EXCEPT ![r] = @ \cup (rel \cap {x})] BY <2>3 DEF DeleteRow
    <3>2. del[r] \cup (rel \cap {x}) \in SUBSET Row BY <2>1
    <3> QED BY <3>1, <3>2, <2>1
  <2> QED BY <2>2, <2>3
<1>3. todo' \in [Req -> (SUBSET Row) \cup {NoScan}] BY DoomedTyped DEF DeleteBegin, DeleteRow, Types
<1>4. stage[r] \in Deleting /\ \A q \in Req \ {r} : todo'[q] = todo[q]
  BY DEF DeleteBegin, DeleteRow, Types, Sound
<1>5. TypeOK' BY <1>1, <1>2, <1>3 DEF Types, TypeOK, tables, request
<1>6. \A q \in Req : Sound(q)' BY <1>1, <1>4 DEF Types, Sound, request, Actor, Target
<1> QED BY <1>3, <1>5, <1>6 DEF Types

LEMMA DeleteEndTypes == ASSUME NEW r \in Req, Types, DeleteEnd(r) PROVE Types'
<1>1. CASE Rollback(r) BY <1>1, RollbackTypes
<1>2. CASE ~Rollback(r)
  <2> DEFINE gone == del[r] \cap {<<Pair(r)[1], Pair(r)[2], "follow">>}
             w == IF gone = {} THEN <<>> ELSE CounterUpdates(CHOOSE x \in gone : TRUE, -1)
  <2>1. w \in Seq(User \X Field \X {-1, 1})
    <3>1. gone # {} => (CHOOSE x \in gone : TRUE) \in Row BY DEF Types, TypeOK
    <3> QED BY <3>1, UpdatesTyped
  <2>2. stage[r] \in Deleting BY NoneAssumption DEF DeleteEnd, Types, Sound
  <2>3. AfterDelete(stage[r]) \in Stage \ {"idle"} BY <2>2 DEF AfterDelete, Deleting, Stage
  <2>4. work' = [work EXCEPT ![r] = w] /\ todo' = [todo EXCEPT ![r] = NoScan]
    BY <1>2 DEF DeleteEnd
  <2>5. stage' = [stage EXCEPT ![r] = AfterDelete(stage[r])] /\ UNCHANGED <<row, was, met, tables, del, ins, delta, holder, pool, conn>>
    BY <1>2 DEF DeleteEnd, Goto
  <2>6. work' \in [Req -> Seq(User \X Field \X {-1, 1})] BY <2>1, <2>4 DEF Types, TypeOK
  <2>7. stage' \in [Req -> Stage] BY <2>3, <2>5 DEF Types, TypeOK
  <2>11. todo' \in [Req -> (SUBSET Row) \cup {NoScan}] BY <2>4 DEF Types
  <2>8. TypeOK' BY <2>11, <2>4, <2>5, <2>6, <2>7 DEF Types, TypeOK, tables
  <2>9. stage[r] # "commit" BY <2>2 DEF Deleting
  <2>10. \A q \in Req : Sound(q)'
    BY <2>2, <2>3, <2>4, <2>5, <2>9 DEF Types, TypeOK, Sound, Actor, Target, tables, Deleting
  <2> QED BY <2>11, <2>8, <2>10 DEF Types
<1> QED BY <1>1, <1>2

LEMMA CommitTypes == ASSUME NEW r \in Req, Types, Commit(r) PROVE Types'
<1>1. rel' \in SUBSET {x \in Row : x[1] # x[2]}
  <2>1. rel' = (rel \ del[r]) \cup ins[r] BY DEF Commit
  <2>2. row[r] \in Row /\ row[r][1] # row[r][2] BY DEF Commit, Types, TypeOK, Sound, Actor, Target
  <2>3. ins[r] \subseteq {row[r]} BY DEF Types, Sound
  <2>4. \A x \in rel : x \in Row /\ x[1] # x[2] BY DEF Types, TypeOK
  <2>5. \A x \in rel' : x \in Row /\ x[1] # x[2] BY <2>1, <2>2, <2>3, <2>4
  <2> QED BY <2>5
<1>2. count' \in [User -> [Field -> Int]] BY DEF Commit, Types, TypeOK
<1>3. notes' \in [User \X User -> 0 .. MaxNotes] BY BoundAssumption DEF Commit, Types, TypeOK
<1>4. todo' = [todo EXCEPT ![r] = NoScan] /\ ins' = [ins EXCEPT ![r] = {}] /\ met' = met
      /\ del' = [del EXCEPT ![r] = {}] /\ work' = [work EXCEPT ![r] = <<>>] /\ delta' = [delta EXCEPT ![r] = NoDelta]
      /\ holder' \in [User -> Req \cup {Nobody}] /\ pool' = pool /\ conn' = conn \ {r}
  BY DEF Commit, EndTx, Goto, Answer, Types, TypeOK
<1>5. \/ stage' = [stage EXCEPT ![r] = "notify"] /\ row' = row /\ was' = was
      \/ stage' = [stage EXCEPT ![r] = "idle"] /\ row' = [row EXCEPT ![r] = NoRow] /\ was' = [was EXCEPT ![r] = FALSE]
  BY DEF Commit, Goto, Answer
<1>6. NoDelta \in [User -> [Field -> Int]] BY DEF NoDelta
<1>7. stage[r] = "commit" BY DEF Commit
<1>10. todo' \in [Req -> (SUBSET Row) \cup {NoScan}] BY <1>4 DEF Types
<1>8. TypeOK'
  <2>1. rel' \in SUBSET {x \in Row : x[1] # x[2]} /\ count' \in [User -> [Field -> Int]]
        /\ notes' \in [User \X User -> 0 .. MaxNotes] /\ holder' \in [User -> Req \cup {Nobody}]
    BY <1>1, <1>2, <1>3, <1>4
  <2>2. stage' \in [Req -> Stage] /\ row' \in [Req -> Row \cup {NoRow}] /\ was' \in [Req -> BOOLEAN]
    BY <1>5 DEF Types, TypeOK, Stage
  <2>3. del' \in [Req -> SUBSET Row] /\ ins' \in [Req -> SUBSET Row] /\ met' \in SUBSET SUBSET User
        /\ delta' \in [Req -> [User -> [Field -> Int]]]
    BY <1>4, <1>6 DEF Types, TypeOK
  <2>6. pool' \in PoolSizes /\ conn' \subseteq Req BY <1>4 DEF Types, TypeOK
  <2>4. work' \in [Req -> Seq(User \X Field \X {-1, 1})] BY <1>4 DEF Types, TypeOK
  <2>5. \A q \in Req : todo'[q] = NoScan \/ todo'[q] \subseteq Row BY <1>10
  <2> QED BY <2>1, <2>2, <2>3, <2>4, <2>5, <2>6 DEF TypeOK
<1>9. ASSUME NEW q \in Req PROVE Sound(q)'
  <2>1. CASE q = r
    <3>1. todo'[q] = NoScan /\ ins'[q] = {} BY <1>4, <2>1 DEF Types, TypeOK
    <3>2. \/ stage'[q] = "notify" /\ row'[q] = row[q]
          \/ stage'[q] = "idle" /\ row'[q] = NoRow
      BY <1>5, <2>1 DEF Types, TypeOK
    <3>3. Sound(r) BY DEF Types
    <3> QED BY <1>7, <2>1, <3>1, <3>2, <3>3 DEF Sound, Actor, Target
  <2>2. CASE q # r
    <3>1. todo'[q] = todo[q] /\ ins'[q] = ins[q] /\ stage'[q] = stage[q] /\ row'[q] = row[q]
      BY <1>4, <1>5, <2>2 DEF Types, TypeOK
    <3>2. Sound(q) BY DEF Types
    <3> QED BY <3>1, <3>2 DEF Sound, Actor, Target
  <2> QED BY <2>1, <2>2
<1> QED BY <1>10, <1>8, <1>9 DEF Types

LEMMA NotifyTypes == ASSUME NEW r \in Req, Types, Notify(r) PROVE Types'
<1>1. <<Actor(r), Target(r)>> \in User \X User BY DEF Notify, Types, TypeOK, Sound, Actor, Target, Row
<1>2. notes' \in [User \X User -> 0 .. MaxNotes]
  <2> DEFINE p == <<Actor(r), Target(r)>>
  <2>1. notes \in [User \X User -> 0 .. MaxNotes] BY DEF Types, TypeOK
  <2>2. notes[p] \in 0 .. MaxNotes BY <1>1, <2>1
  <2>3. notes[p] \in 0 .. MaxNotes /\ (notes[p] < MaxNotes => notes[p] + 1 \in 0 .. MaxNotes)
    BY <2>2, BoundAssumption
  <2>4. \/ notes' = notes
        \/ notes' = [notes EXCEPT ![p] =
             IF notes[p] < MaxNotes /\ {Actor(r), Target(r)} \notin met THEN notes[p] + 1 ELSE notes[p]]
    BY DEF Notify
  <2> HIDE DEF p
  <2> QED BY <2>1, <2>3, <2>4
<1>3. TypeOK' BY <1>2 DEF Notify, Answer, txn, Types, TypeOK, Stage
<1>4. \A q \in Req : Sound(q)' BY DEF Notify, Answer, txn, Types, TypeOK, Sound, Deleting, Actor, Target
<1> QED BY <1>3, <1>4 DEF Types, Notify, txn

LEMMA TypesNext == ASSUME Types, [Next]_vars PROVE Types'
<1>1. CASE UNCHANGED vars
  <2>1. TypeOK' BY <1>1 DEF vars, tables, request, txn, Types, TypeOK
  <2>2. \A q \in Req : Sound(q)' BY <1>1 DEF vars, request, txn, Types, Sound, Actor, Target
  <2> QED BY <1>1, <2>1, <2>2 DEF vars, txn, Types
<1>2. ASSUME NEW r \in Req,
             FollowUser(r) \/ UnfollowUser(r) \/ BlockUser(r) \/ UnblockUser(r) \/ MuteUser(r) \/ UnmuteUser(r)
      PROVE  Types'
  BY <1>2, RequestTypes DEF FollowUser, UnfollowUser, BlockUser, UnblockUser, MuteUser, UnmuteUser, Kind
<1>3. ASSUME NEW r \in Req, Work(r) PROVE Types'
  BY <1>3, ReadStatusTypes, BeginTypes, CheckTypes, TouchTypes, InsertTypes, ScanTypes, DeleteEndTypes, CommitTypes,
     NotifyTypes, RollbackTypes
  DEF Work, DeadlockAbort
<1>4. ASSUME NEW r \in Req, Fail(r) PROVE Types' BY <1>4, RollbackTypes DEF Fail
<1> QED BY <1>1, <1>2, <1>3, <1>4 DEF Next

(* Tables, transactions and locks keep their types. *)
THEOREM TypeOKHolds == Spec => []TypeOK
<1>1. Types => TypeOK BY DEF Types
<1> QED BY <1>1, TypesInit, TypesNext, PTL DEF Spec

-----------------------------------------------------------------------------
(* The transaction of a request, at each of its statements. *)
Before == {"idle", "status", "blocked", "exists", "notify"}
Between(x, r) == {x[1], x[2]} = {Actor(r), Target(r)}

Phase(r) ==
  /\ stage[r] \in {"status", "blocked", "notify"} => row[r][3] = "follow"
  /\ stage[r] \in {"deletePair", "deleteBack"} => row[r][3] = "block"
  /\ stage[r] = "exists" => row[r][3] # "block"
  /\ stage[r] \in Before => todo[r] = NoScan /\ del[r] = {} /\ work[r] = <<>> /\ delta[r] = NoDelta
  /\ stage[r] \in {"delete", "deletePair"} =>
       work[r] = <<>> /\ delta[r] = NoDelta /\ \A x \in del[r] : x[1] = Actor(r)
  /\ todo[r] # NoScan => work[r] = <<>> /\ \A x \in todo[r] : <<x[1], x[2]>> = Pair(r)
  /\ Len(work[r]) <= 2
  /\ \A x \in del[r] : Between(x, r)

(* Rows and keys belong to one transaction at a time. *)
Locks ==
  /\ \A r \in Req : del[r] \subseteq rel /\ ins[r] \cap rel \subseteq del[r]
  /\ \A r, q \in Req : r # q => del[r] \cap del[q] = {} /\ ins[r] \cap ins[q] = {}

LEMMA LocksInit == Init => Locks /\ \A r \in Req : Phase(r)
  BY DEF Init, Locks, Phase, Before, Deleting

LEMMA EndLocks ==
  ASSUME NEW r \in Req, Types, Locks, EndTx(r), rel' = rel \/ rel' = (rel \ del[r]) \cup ins[r]
  PROVE  Locks'
<1>1. del' = [del EXCEPT ![r] = {}] /\ ins' = [ins EXCEPT ![r] = {}] BY DEF EndTx
<1>2. del'[r] = {} /\ ins'[r] = {} /\ \A q \in Req \ {r} : del'[q] = del[q] /\ ins'[q] = ins[q]
  BY <1>1 DEF Types, TypeOK
<1>3. ASSUME NEW q \in Req PROVE del'[q] \subseteq rel' /\ ins'[q] \cap rel' \subseteq del'[q]
  <2>1. CASE q = r BY <1>2, <2>1
  <2>2. CASE q # r
    <3>1. del[q] \subseteq rel /\ ins[q] \cap rel \subseteq del[q] /\ del[r] \cap del[q] = {} /\ ins[r] \cap ins[q] = {}
      BY <2>2 DEF Locks
    <3> QED BY <1>2, <2>2, <3>1
  <2> QED BY <2>1, <2>2
<1>4. ASSUME NEW p \in Req, NEW q \in Req, p # q PROVE del'[p] \cap del'[q] = {} /\ ins'[p] \cap ins'[q] = {}
  <2>1. del[p] \cap del[q] = {} /\ ins[p] \cap ins[q] = {} BY <1>4 DEF Locks
  <2> QED BY <1>2, <2>1
<1> QED BY <1>3, <1>4 DEF Locks

LEMMA InsertLocks ==
  ASSUME NEW r \in Req, Types, Locks, Insert(r)
  PROVE  Locks'
<1>1. CASE Rollback(r) BY <1>1, EndLocks DEF Rollback, tables
<1>2. CASE ~Rollback(r)
  <2>1. UNCHANGED <<rel, del>> /\ ins' = [ins EXCEPT ![r] = {row[r]}] /\ row[r] \notin rel \ del[r]
    BY <1>2 DEF Insert, tables
  <2>2. ins'[r] = {row[r]} /\ \A q \in Req \ {r} : ins'[q] = ins[q] BY <2>1 DEF Types, TypeOK
  <2>3. \A q \in Req \ {r} : row[r] \notin ins[q] BY DEF Insert, Reserved
  <2> QED BY <2>1, <2>2, <2>3 DEF Locks
<1> QED BY <1>1, <1>2

LEMMA DeleteRowLocks ==
  ASSUME NEW r \in Req, Types, Locks, DeleteRow(r)
  PROVE  Locks'
<1>1. PICK x \in todo[r] :
        /\ \A q \in Req \ {r} : x \notin del[q]
        /\ del' = [del EXCEPT ![r] = @ \cup (rel \cap {x})]
  BY DEF DeleteRow
<1>2. del'[r] = del[r] \cup (rel \cap {x}) /\ \A q \in Req \ {r} : del'[q] = del[q]
  BY <1>1 DEF Types, TypeOK
<1>3. UNCHANGED <<rel, ins>> BY DEF DeleteRow, tables
<1> QED BY <1>1, <1>2, <1>3 DEF Locks

LEMMA LocksNext == ASSUME Types, Locks, [Next]_vars PROVE Locks'
<1>1. CASE UNCHANGED <<rel, del, ins>> BY <1>1 DEF Locks
<1>2. ASSUME NEW r \in Req, Rollback(r) \/ Insert(r) \/ DeleteRow(r) \/ Commit(r) PROVE Locks'
  BY <1>2, EndLocks, InsertLocks, DeleteRowLocks DEF Rollback, Commit, tables
<1>3. ASSUME NEW r \in Req, \E op \in {"create", "delete"}, k \in Kind : RequestOf(r, op, k)
      PROVE  UNCHANGED <<rel, del, ins>>
  BY <1>3 DEF RequestOf, Request, tables, txn
<1>4. ASSUME NEW r \in Req,
             FollowUser(r) \/ UnfollowUser(r) \/ BlockUser(r) \/ UnblockUser(r) \/ MuteUser(r) \/ UnmuteUser(r)
      PROVE  UNCHANGED <<rel, del, ins>>
  BY <1>3, <1>4 DEF FollowUser, UnfollowUser, BlockUser, UnblockUser, MuteUser, UnmuteUser, Kind
<1>5. ASSUME NEW r \in Req,
             \/ ReadStatus(r) \/ BeginTx(r) \/ CheckExists(r)
             \/ TouchProfile(r) \/ DeleteBegin(r) \/ Notify(r)
      PROVE  UNCHANGED <<rel, del, ins>>
  BY <1>5 DEF ReadStatus, BeginTx, CheckExists, TouchProfile, DeleteBegin, Notify, tables, txn
<1>6. ASSUME NEW r \in Req, CheckBlocked(r) \/ DeleteEnd(r) PROVE Rollback(r) \/ UNCHANGED <<rel, del, ins>>
  BY <1>6 DEF CheckBlocked, DeleteEnd, tables, txn
<1>7. CASE UNCHANGED vars BY <1>1, <1>7 DEF vars, tables, txn
<1>8. CASE Next BY <1>1, <1>2, <1>4, <1>5, <1>6, <1>8 DEF Next, Work, DeadlockAbort, Fail
<1> QED BY <1>7, <1>8

-----------------------------------------------------------------------------
(* What each statement does to the request, and that it leaves the others alone. *)
Same(q) ==
  /\ stage'[q] = stage[q] /\ row'[q] = row[q] /\ (was'[q] <=> was[q])
  /\ todo'[q] = todo[q] /\ del'[q] = del[q] /\ ins'[q] = ins[q]
  /\ work'[q] = work[q] /\ delta'[q] = delta[q]

NoTx(r) == todo[r] = NoScan /\ del[r] = {} /\ ins[r] = {} /\ work[r] = <<>> /\ delta[r] = NoDelta
SameTx(r) ==
  todo'[r] = todo[r] /\ del'[r] = del[r] /\ ins'[r] = ins[r] /\ work'[r] = work[r] /\ delta'[r] = delta[r]
SameRequest(r) == stage'[r] = stage[r] /\ row'[r] = row[r] /\ (was'[r] <=> was[r])
Others(r) == \A q \in Req \ {r} : Same(q)

LEMMA AfterRollback ==
  ASSUME NEW r \in Req, Types, Rollback(r)
  PROVE  stage'[r] = "idle" /\ row'[r] = NoRow /\ NoTx(r)' /\ UNCHANGED <<rel, count, notes, met>> /\ Others(r)
  BY DEF Rollback, EndTx, Answer, tables, Types, TypeOK, NoTx, Others, Same

LEMMA AfterRequest ==
  ASSUME NEW r \in Req, NEW op \in {"create", "delete"}, NEW k \in Kind, NEW a \in User, NEW b \in User,
         Types, Request(r, op, <<a, b, k>>)
  PROVE  /\ stage[r] = "idle" /\ stage'[r] = FirstStage(op, k) /\ row'[r] = <<a, b, k>> /\ a # b
         /\ SameTx(r) /\ UNCHANGED <<rel, count, notes>> /\ Others(r)
         /\ met \subseteq met' /\ \A q \in Req \ {r} : SamePair(row[q], <<a, b, k>>) => {a, b} \in met'
  BY DEF Request, tables, txn, Types, TypeOK, SameTx, Others, Same

LEMMA AfterReadStatus ==
  ASSUME NEW r \in Req, Types, ReadStatus(r)
  PROVE  /\ stage[r] = "status" /\ stage'[r] = "blocked" /\ row'[r] = row[r] /\ (was'[r] <=> row[r] \in rel)
         /\ SameTx(r) /\ UNCHANGED <<rel, count, notes, met>> /\ Others(r)
  BY DEF ReadStatus, tables, txn, Types, TypeOK, SameTx, Others, Same

(* the blocked check lets the request go on *)
Passes(r) == CheckBlocked(r) /\ ~Rollback(r)

LEMMA AfterCheckBlocked ==
  ASSUME NEW r \in Req, Types, Passes(r)
  PROVE  /\ stage[r] = "blocked" /\ stage'[r] = "exists" /\ row'[r] = row[r] /\ (was'[r] <=> was[r])
         /\ SameTx(r) /\ UNCHANGED <<rel, count, notes, met>> /\ Others(r)
         /\ <<Target(r), Actor(r), "block">> \notin rel
  BY DEF Passes, CheckBlocked, Goto, tables, txn, Types, TypeOK, SameTx, Others, Same

LEMMA AfterCheckExists ==
  ASSUME NEW r \in Req, Types, CheckExists(r)
  PROVE  /\ stage[r] = "exists" /\ SameTx(r) /\ UNCHANGED <<rel, count, notes, met>> /\ Others(r)
         /\ row'[r] = row[r] /\ (was'[r] <=> was[r])
         /\ \/ stage'[r] = "commit" /\ row[r] \in rel
            \/ stage'[r] = "insert" /\ row[r] \notin rel
  BY DEF CheckExists, Goto, tables, txn, Types, TypeOK, SameTx, Others, Same

LEMMA AfterTouchProfile ==
  ASSUME NEW r \in Req, Types, TouchProfile(r)
  PROVE  /\ work[r] # <<>> /\ work'[r] = Tail(work[r]) /\ SameRequest(r)
         /\ todo'[r] = todo[r] /\ del'[r] = del[r] /\ ins'[r] = ins[r]
         /\ UNCHANGED <<rel, count, notes, met>> /\ Others(r)
         /\ \A u \in User, f \in Field :
              delta'[r][u][f] = delta[r][u][f] +
                IF Head(work[r])[1] = u /\ Head(work[r])[2] = f THEN Head(work[r])[3] ELSE 0
<1> DEFINE h == Head(work[r])
<1>1. delta \in [Req -> [User -> [Field -> Int]]] /\ work[r] \in Seq(User \X Field \X {-1, 1}) /\ work[r] # <<>>
  BY DEF Types, TypeOK, TouchProfile
<1>2. h[1] \in User /\ h[2] \in Field /\ h[3] \in Int
  <2>1. h \in User \X Field \X {-1, 1} BY <1>1
  <2> QED BY <2>1
<1>3. delta' = [delta EXCEPT ![r][h[1]][h[2]] = @ + h[3]] BY DEF TouchProfile
<1> HIDE DEF h
<1>4. /\ \A q \in Req \ {r} : delta'[q] = delta[q]
      /\ \A u \in User, f \in Field :
           delta'[r][u][f] = delta[r][u][f] + IF h[1] = u /\ h[2] = f THEN h[3] ELSE 0
  <2> DEFINE row1 == [delta[r][h[1]] EXCEPT ![h[2]] = @ + h[3]]
             all == [delta[r] EXCEPT ![h[1]] = row1]
  <2>1. delta' = [delta EXCEPT ![r] = all] BY <1>3
  <2>2. \A f \in Field : row1[f] = delta[r][h[1]][f] + IF h[2] = f THEN h[3] ELSE 0
    BY <1>1, <1>2, SMTT(30)
  <2> HIDE DEF row1
  <2>3. \A u \in User : all[u] = IF h[1] = u THEN row1 ELSE delta[r][u] BY <1>1, <1>2
  <2> HIDE DEF all
  <2>4. delta'[r] = all /\ \A q \in Req \ {r} : delta'[q] = delta[q] BY <1>1, <2>1
  <2>5. \A u \in User, f \in Field : delta[r][u][f] \in Int BY <1>1
  <2> QED BY <2>2, <2>3, <2>4, <2>5
<1>5. /\ work[r] # <<>> /\ work'[r] = Tail(work[r]) /\ SameRequest(r)
      /\ todo'[r] = todo[r] /\ del'[r] = del[r] /\ ins'[r] = ins[r]
      /\ UNCHANGED <<rel, count, notes, met>>
      /\ \A q \in Req \ {r} : work'[q] = work[q]
  BY DEF TouchProfile, tables, request, SameRequest, Types, TypeOK
<1>6. Others(r) BY <1>4, <1>5 DEF TouchProfile, request, Others, Same
<1> QED BY <1>4, <1>5, <1>6 DEF h

LEMMA AfterInsert ==
  ASSUME NEW r \in Req, Types, Insert(r), ~Rollback(r)
  PROVE  /\ stage[r] = "insert" /\ stage'[r] = "commit" /\ row'[r] = row[r] /\ (was'[r] <=> was[r])
         /\ work[r] = <<>> /\ work'[r] = CounterUpdates(row[r], 1)
         /\ ins'[r] = {row[r]} /\ todo'[r] = todo[r] /\ del'[r] = del[r] /\ delta'[r] = delta[r]
         /\ UNCHANGED <<rel, count, notes, met>> /\ Others(r)
  BY DEF Insert, Goto, tables, Types, TypeOK, Others, Same

LEMMA AfterDeleteBegin ==
  ASSUME NEW r \in Req, Types, DeleteBegin(r)
  PROVE  /\ stage[r] \in Deleting /\ work[r] = <<>> /\ todo[r] = NoScan /\ todo'[r] = Doomed(r)
         /\ SameRequest(r) /\ del'[r] = del[r] /\ ins'[r] = ins[r] /\ work'[r] = work[r] /\ delta'[r] = delta[r]
         /\ UNCHANGED <<rel, count, notes, met>> /\ Others(r)
  BY DEF DeleteBegin, tables, request, SameRequest, Types, TypeOK, Others, Same

LEMMA AfterDeleteRow ==
  ASSUME NEW r \in Req, Types, DeleteRow(r)
  PROVE  /\ todo[r] # NoScan /\ SameRequest(r)
         /\ \E x \in todo[r] : del'[r] = del[r] \cup (rel \cap {x}) /\ todo'[r] = todo[r] \ {x}
         /\ ins'[r] = ins[r] /\ work'[r] = work[r] /\ delta'[r] = delta[r]
         /\ UNCHANGED <<rel, count, notes, met>> /\ Others(r)
  BY DEF DeleteRow, tables, request, SameRequest, Types, TypeOK, Others, Same

(* the trigger's work for the follow that a DELETE of the pair has removed, if it has *)
FollowOf(r) == <<Pair(r)[1], Pair(r)[2], "follow">>
Uncount(r) == IF FollowOf(r) \in del[r] THEN CounterUpdates(FollowOf(r), -1) ELSE <<>>

LEMMA AfterDeleteEnd ==
  ASSUME NEW r \in Req, Types, DeleteEnd(r), ~Rollback(r)
  PROVE  /\ stage[r] \in Deleting /\ todo[r] = {} /\ stage'[r] = AfterDelete(stage[r])
         /\ row'[r] = row[r] /\ (was'[r] <=> was[r])
         /\ stage[r] = "delete" => del[r] # {}
         /\ work'[r] = Uncount(r) /\ todo'[r] = NoScan
         /\ del'[r] = del[r] /\ ins'[r] = ins[r] /\ delta'[r] = delta[r]
         /\ UNCHANGED <<rel, count, notes, met>> /\ Others(r)
<1> DEFINE gone == del[r] \cap {FollowOf(r)}
           w == IF gone = {} THEN <<>> ELSE CounterUpdates(CHOOSE x \in gone : TRUE, -1)
<1>1. w = Uncount(r)
  <2>1. CASE FollowOf(r) \in del[r]
    <3>1. gone = {FollowOf(r)} BY <2>1
    <3>2. (CHOOSE x \in gone : TRUE) = FollowOf(r) BY <3>1
    <3> QED BY <2>1, <3>1, <3>2 DEF Uncount
  <2>2. CASE FollowOf(r) \notin del[r]
    <3>1. gone = {} BY <2>2
    <3> QED BY <2>2, <3>1 DEF Uncount
  <2> QED BY <2>1, <2>2
<1>2. work' = [work EXCEPT ![r] = w] BY DEF DeleteEnd, FollowOf
<1> HIDE DEF w
<1>3. work'[r] = Uncount(r) /\ \A q \in Req \ {r} : work'[q] = work[q] BY <1>1, <1>2 DEF Types, TypeOK
<1>4. stage' = [stage EXCEPT ![r] = AfterDelete(stage[r])] /\ todo' = [todo EXCEPT ![r] = NoScan]
      /\ UNCHANGED <<row, was, met, rel, count, notes, del, ins, delta, holder>>
      /\ todo[r] = {} /\ (stage[r] = "delete" => del[r] # {})
  BY DEF DeleteEnd, Goto, tables
<1>5. stage[r] \in Deleting BY <1>4, NoneAssumption DEF Types, Sound
<1>6. Others(r) BY <1>3, <1>4 DEF Others, Same, Types, TypeOK
<1>7. stage'[r] = AfterDelete(stage[r]) /\ todo'[r] = NoScan BY <1>4 DEF Types, TypeOK
<1> QED BY <1>3, <1>4, <1>5, <1>6, <1>7

LEMMA AfterCommit ==
  ASSUME NEW r \in Req, Types, Commit(r)
  PROVE  /\ stage[r] = "commit" /\ work[r] = <<>> /\ NoTx(r)' /\ met' = met /\ Others(r)
         /\ rel' = (rel \ del[r]) \cup ins[r]
         /\ \A u \in User, f \in Field : count'[u][f] = count[u][f] + delta[r][u][f]
         /\ \A p \in User \X User : notes'[p] = IF <<p[1], p[2], "follow">> \in ins[r] THEN 0 ELSE notes[p]
         /\ \/ stage'[r] = "idle" /\ row'[r] = NoRow
            \/ /\ stage'[r] = "notify" /\ row'[r] = row[r]
               /\ row[r][3] = "follow" /\ del[r] = {} /\ ~was[r]
<1>1. /\ todo' = [todo EXCEPT ![r] = NoScan] /\ ins' = [ins EXCEPT ![r] = {}] /\ met' = met
      /\ del' = [del EXCEPT ![r] = {}] /\ work' = [work EXCEPT ![r] = <<>>] /\ delta' = [delta EXCEPT ![r] = NoDelta]
  BY DEF Commit, EndTx, Goto, Answer
<1>2. \/ stage' = [stage EXCEPT ![r] = "notify"] /\ row' = row /\ was' = was
         /\ row[r][3] = "follow" /\ del[r] = {} /\ ~was[r]
      \/ stage' = [stage EXCEPT ![r] = "idle"] /\ row' = [row EXCEPT ![r] = NoRow] /\ was' = [was EXCEPT ![r] = FALSE]
  BY DEF Commit, Goto, Answer
<1>3. NoTx(r)' /\ \A q \in Req \ {r} : todo'[q] = todo[q] /\ ins'[q] = ins[q] /\ del'[q] = del[q]
                                      /\ work'[q] = work[q] /\ delta'[q] = delta[q]
  BY <1>1 DEF NoTx, Types, TypeOK
<1>4. Others(r) BY <1>2, <1>3 DEF Others, Same, Types, TypeOK
<1>5. \/ stage'[r] = "idle" /\ row'[r] = NoRow
      \/ stage'[r] = "notify" /\ row'[r] = row[r] /\ row[r][3] = "follow" /\ del[r] = {} /\ ~was[r]
  BY <1>2 DEF Types, TypeOK
<1>6. \A u \in User, f \in Field : count'[u][f] = count[u][f] + delta[r][u][f] BY DEF Commit
<1>7. \A p \in User \X User : notes'[p] = IF <<p[1], p[2], "follow">> \in ins[r] THEN 0 ELSE notes[p] BY DEF Commit
<1> QED BY <1>1, <1>3, <1>4, <1>5, <1>6, <1>7 DEF Commit

LEMMA AfterNotify ==
  ASSUME NEW r \in Req, Types, Notify(r)
  PROVE  /\ stage[r] = "notify" /\ stage'[r] = "idle" /\ row'[r] = NoRow /\ SameTx(r) /\ Others(r)
         /\ UNCHANGED <<rel, count, met>>
         /\ \A p \in User \X User : notes'[p] = notes[p] \/ (p = <<Actor(r), Target(r)>> /\ notes'[p] <= notes[p] + 1)
<1>1. /\ stage[r] = "notify" /\ stage'[r] = "idle" /\ row'[r] = NoRow /\ SameTx(r) /\ Others(r)
      /\ UNCHANGED <<rel, count, met>>
  BY DEF Notify, Answer, txn, Types, TypeOK, SameTx, Others, Same
<1> DEFINE p == <<Actor(r), Target(r)>>
<1>2. \/ notes' = notes
      \/ notes' = [notes EXCEPT ![p] =
           IF notes[p] < MaxNotes /\ {Actor(r), Target(r)} \notin met THEN notes[p] + 1 ELSE notes[p]]
  BY DEF Notify
<1>3. \A m \in User \X User : notes[m] \in Int BY DEF Types, TypeOK
<1> HIDE DEF p
<1>4. \A m \in User \X User : notes'[m] = notes[m] \/ (m = p /\ notes'[m] <= notes[m] + 1)
  BY <1>2, <1>3 DEF Types, TypeOK
<1> QED BY <1>1, <1>4 DEF p

(* The steps of a request, told apart by what they do. *)
Asks(r) == \E op \in {"create", "delete"}, k \in Kind, a, b \in User : Request(r, op, <<a, b, k>>)

Step(r) ==
  \/ Rollback(r) \/ Asks(r)
  \/ ReadStatus(r) \/ CheckExists(r) \/ TouchProfile(r)
  \/ Passes(r)
  \/ Insert(r) /\ ~Rollback(r)
  \/ DeleteBegin(r) \/ DeleteRow(r)
  \/ DeleteEnd(r) /\ ~Rollback(r)
  \/ Commit(r) \/ Notify(r)

(* all but the pool, which BeginTx takes from and every end of a transaction gives back to *)
rest == <<tables, request, txn, met>>

LEMMA StepOrBegin == [Next]_vars => (\E r \in Req : Step(r) \/ BeginTx(r)) \/ UNCHANGED vars
<1> SUFFICES ASSUME Next PROVE \E r \in Req : Step(r) \/ BeginTx(r) OBVIOUS
<1>1. PICK r \in Req :
        \/ FollowUser(r) \/ UnfollowUser(r) \/ BlockUser(r) \/ UnblockUser(r) \/ MuteUser(r) \/ UnmuteUser(r)
        \/ Work(r) \/ Fail(r)
  BY DEF Next
<1>2. CASE FollowUser(r) \/ UnfollowUser(r) \/ BlockUser(r) \/ UnblockUser(r) \/ MuteUser(r) \/ UnmuteUser(r)
  <2>1. "follow" \in Kind /\ "block" \in Kind /\ "mute" \in Kind BY DEF Kind
  <2>2. CASE FollowUser(r) \/ BlockUser(r) \/ MuteUser(r)
    <3>1. \E k \in Kind : RequestOf(r, "create", k) BY <2>1, <2>2 DEF FollowUser, BlockUser, MuteUser
    <3> QED BY <3>1 DEF RequestOf, Asks, Step
  <2>3. CASE UnfollowUser(r) \/ UnblockUser(r) \/ UnmuteUser(r)
    <3>1. \E k \in Kind : RequestOf(r, "delete", k) BY <2>1, <2>3 DEF UnfollowUser, UnblockUser, UnmuteUser
    <3> QED BY <3>1 DEF RequestOf, Asks, Step
  <2> QED BY <1>2, <2>2, <2>3
<1>3. CASE Work(r) \/ Fail(r) BY <1>3 DEF Work, Fail, DeadlockAbort, Passes, Step
<1> QED BY <1>1, <1>2, <1>3

LEMMA Steps == [Next]_vars => (\E r \in Req : Step(r)) \/ UNCHANGED rest
  BY StepOrBegin DEF BeginTx, vars, rest

LEMMA StepOthers == ASSUME NEW r \in Req, Types, Step(r) PROVE Others(r)
<1>1. CASE Rollback(r) BY <1>1, AfterRollback
<1>2. CASE Asks(r) BY <1>2, AfterRequest DEF Asks
<1>3. CASE ReadStatus(r) \/ Passes(r) \/ CheckExists(r) \/ TouchProfile(r)
  BY <1>3, AfterReadStatus, AfterCheckBlocked, AfterCheckExists, AfterTouchProfile
<1>4. CASE (Insert(r) \/ DeleteEnd(r)) /\ ~Rollback(r) BY <1>4, AfterInsert, AfterDeleteEnd
<1>5. CASE DeleteBegin(r) \/ DeleteRow(r) \/ Commit(r) \/ Notify(r)
  BY <1>5, AfterDeleteBegin, AfterDeleteRow, AfterCommit, AfterNotify
<1> QED BY <1>1, <1>2, <1>3, <1>4, <1>5 DEF Step

(* Only a COMMIT changes the rows. *)
LEMMA QuietTables ==
  ASSUME NEW r \in Req, Types, Step(r), ~Commit(r)
  PROVE  rel' = rel /\ count' = count /\ met \subseteq met' /\ (Asks(r) \/ met' = met)
<1>1. CASE Asks(r) BY <1>1, AfterRequest DEF Asks
<1>2. CASE ReadStatus(r) \/ Passes(r) \/ CheckExists(r) \/ TouchProfile(r)
  BY <1>2, AfterReadStatus, AfterCheckBlocked, AfterCheckExists, AfterTouchProfile
<1>3. CASE (Insert(r) \/ DeleteEnd(r)) /\ ~Rollback(r) BY <1>3, AfterInsert, AfterDeleteEnd
<1>4. CASE Rollback(r) \/ DeleteBegin(r) \/ DeleteRow(r) \/ Notify(r)
  BY <1>4, AfterRollback, AfterDeleteBegin, AfterDeleteRow, AfterNotify
<1> QED BY <1>1, <1>2, <1>3, <1>4 DEF Step

-----------------------------------------------------------------------------
LEMMA SamePhase == ASSUME NEW q \in Req, Same(q), Phase(q) PROVE Phase(q)'
  BY SMTT(30) DEF Same, Phase, Between, Pair, Actor, Target

LEMMA IdlePhase == ASSUME NEW r \in Req, stage'[r] = "idle", NoTx(r)' PROVE Phase(r)'
  BY DEF NoTx, Phase, Before

LEMMA RequestPhase ==
  ASSUME NEW r \in Req, NEW op \in {"create", "delete"}, NEW k \in Kind, NEW a \in User, NEW b \in User,
         Types, Phase(r), Request(r, op, <<a, b, k>>)
  PROVE  Phase(r)'
<1>1. stage[r] = "idle" /\ stage'[r] = FirstStage(op, k) /\ row'[r] = <<a, b, k>> /\ SameTx(r)
  BY AfterRequest, ZenonT(60)
<1>2. todo'[r] = NoScan /\ del'[r] = {} /\ work'[r] = <<>> /\ delta'[r] = NoDelta
  BY <1>1 DEF Phase, Before, SameTx
<1>3. /\ stage'[r] \in {"status", "delete", "deletePair", "exists"}
      /\ stage'[r] = "status" => k = "follow"
      /\ stage'[r] = "deletePair" => k = "block"
      /\ stage'[r] = "exists" => k # "block"
  BY <1>1 DEF FirstStage, Kind
<1> QED BY <1>1, <1>2, <1>3 DEF Phase, Deleting, NoDelta

LEMMA CheckPhase ==
  ASSUME NEW r \in Req, Types, Phase(r), ReadStatus(r) \/ Passes(r) \/ CheckExists(r)
  PROVE  Phase(r)'
<1>1. stage[r] \in Before /\ SameTx(r) BY AfterReadStatus, AfterCheckBlocked, AfterCheckExists DEF Before
<1>2. todo'[r] = NoScan /\ del'[r] = {} /\ work'[r] = <<>> /\ delta'[r] = NoDelta
  BY <1>1 DEF Phase, SameTx
<1>3. /\ stage'[r] \in {"idle", "blocked", "exists", "insert", "commit"}
      /\ stage'[r] = "blocked" => row'[r][3] = "follow"
      /\ stage'[r] = "exists" => row'[r][3] # "block"
  BY AfterReadStatus, AfterCheckBlocked, AfterCheckExists DEF Phase
<1> QED BY <1>2, <1>3 DEF Phase

LEMMA TouchPhase ==
  ASSUME NEW r \in Req, Types, Phase(r), TouchProfile(r)
  PROVE  Phase(r)'
<1>1. work[r] # <<>> /\ work'[r] = Tail(work[r]) /\ SameRequest(r) /\ todo'[r] = todo[r] /\ del'[r] = del[r]
  BY AfterTouchProfile
<1>2. stage[r] \notin Before \cup {"delete", "deletePair"} /\ todo[r] = NoScan BY <1>1 DEF Phase
<1>3. Len(work'[r]) <= 2 BY <1>1 DEF Phase, Types, TypeOK
<1>4. row'[r] = row[r] /\ stage'[r] = stage[r] BY <1>1 DEF SameRequest
<1> QED BY <1>1, <1>2, <1>3, <1>4 DEF Phase, Before, Between, Actor, Target

LEMMA LenUpdates == ASSUME NEW x \in Row, NEW by \in {-1, 1} PROVE Len(CounterUpdates(x, by)) <= 2
  BY DEF CounterUpdates

LEMMA InsertPhase ==
  ASSUME NEW r \in Req, Types, Phase(r), Insert(r), ~Rollback(r)
  PROVE  Phase(r)'
<1>1. /\ stage[r] = "insert" /\ stage'[r] = "commit" /\ row'[r] = row[r]
      /\ work'[r] = CounterUpdates(row[r], 1) /\ todo'[r] = todo[r] /\ del'[r] = del[r]
  BY AfterInsert
<1>2. todo[r] = NoScan BY <1>1 DEF Types, Sound, Deleting
<1>3. row[r] \in Row BY <1>1 DEF Types, TypeOK, Sound
<1>4. Len(work'[r]) <= 2 BY <1>1, <1>3, LenUpdates
<1> QED BY <1>1, <1>2, <1>4 DEF Phase, Before, Between, Actor, Target

LEMMA DoomedOfPair ==
  ASSUME NEW r \in Req, Types, stage[r] # "idle"
  PROVE  \A x \in Doomed(r) : <<x[1], x[2]>> = Pair(r)
<1>1. stage[r] = "delete" => Pair(r) = <<row[r][1], row[r][2]>> BY DEF Pair, Actor, Target
<1> QED BY <1>1 DEF Doomed

LEMMA ScanPhase ==
  ASSUME NEW r \in Req, Types, Phase(r), DeleteBegin(r) \/ DeleteRow(r)
  PROVE  Phase(r)'
<1>1. SameRequest(r) /\ work'[r] = work[r] /\ delta'[r] = delta[r] BY AfterDeleteBegin, AfterDeleteRow
<1>2. stage[r] \in Deleting BY AfterDeleteBegin, AfterDeleteRow DEF Types, Sound
<1>3. work[r] = <<>> BY AfterDeleteBegin, AfterDeleteRow DEF Phase
<1>4. \A x \in todo'[r] : <<x[1], x[2]>> = Pair(r)
  BY <1>2, AfterDeleteBegin, AfterDeleteRow, DoomedOfPair DEF Phase, Deleting
<1>5. \A x \in del'[r] : x \in del[r] \/ <<x[1], x[2]>> = Pair(r)
  BY AfterDeleteBegin, AfterDeleteRow DEF Phase
<1>6. stage'[r] = stage[r] /\ row'[r] = row[r] /\ Pair(r)' = Pair(r) /\ Actor(r)' = Actor(r) /\ Target(r)' = Target(r)
  BY <1>1 DEF SameRequest, Pair, Actor, Target
<1>7. \A x : <<x[1], x[2]>> = Pair(r) => Between(x, r) /\ (stage[r] # "deleteBack" => x[1] = Actor(r))
  BY DEF Pair, Between
<1>8. \A x \in del'[r] : Between(x, r)' BY <1>5, <1>6, <1>7 DEF Phase, Between
<1>9. stage'[r] \in {"delete", "deletePair"} => \A x \in del'[r] : x[1] = Actor(r)' BY <1>5, <1>6, <1>7 DEF Phase
<1>10. stage'[r] \notin {"status", "blocked", "notify"} /\ stage'[r] \notin Before
  BY <1>2, <1>6 DEF Deleting, Before
<1>11. work'[r] = <<>> /\ Len(work'[r]) <= 2 /\ delta'[r] = delta[r] BY <1>1, <1>3
<1> QED BY <1>4, <1>6, <1>8, <1>9, <1>10, <1>11 DEF Phase, NoDelta

LEMMA DeleteEndPhase ==
  ASSUME NEW r \in Req, Types, Phase(r), DeleteEnd(r), ~Rollback(r)
  PROVE  Phase(r)'
<1>1. /\ stage[r] \in Deleting /\ stage'[r] = AfterDelete(stage[r]) /\ row'[r] = row[r]
      /\ work'[r] = Uncount(r) /\ todo'[r] = NoScan /\ del'[r] = del[r]
  BY AfterDeleteEnd
<1>2. /\ stage'[r] \in {"commit", "deleteBack", "insert"}
      /\ stage'[r] = "deleteBack" => stage[r] = "deletePair"
  BY <1>1 DEF Deleting, AfterDelete
<1>3. Len(work'[r]) <= 2
  <2>1. del[r] \subseteq Row BY DEF Types, TypeOK
  <2> QED BY <1>1, <2>1, LenUpdates DEF Uncount
<1> QED BY <1>1, <1>2, <1>3 DEF Phase, Before, Between, Actor, Target

LEMMA CommitPhase ==
  ASSUME NEW r \in Req, Types, Phase(r), Commit(r)
  PROVE  Phase(r)'
  BY AfterCommit DEF Phase, NoTx, Before

LEMMA NotifyPhase ==
  ASSUME NEW r \in Req, Types, Phase(r), Notify(r)
  PROVE  Phase(r)'
  BY AfterNotify DEF Phase, SameTx, Before

LEMMA PhaseNext ==
  ASSUME Types, \A q \in Req : Phase(q), [Next]_vars
  PROVE  \A q \in Req : Phase(q)'
<1>1. CASE UNCHANGED rest
  BY <1>1, ZenonT(60) DEF rest, tables, request, txn, Phase, Between, Pair, Actor, Target
<1>2. CASE \E r \in Req : Step(r)
  <2>1. PICK r \in Req : Step(r) BY <1>2
  <2>2. Others(r) BY <2>1, StepOthers
  <2>3. Phase(r)'
    BY <2>1, AfterRollback, IdlePhase, RequestPhase, CheckPhase, TouchPhase, InsertPhase, ScanPhase,
       DeleteEndPhase, CommitPhase, NotifyPhase
    DEF Step, Asks
  <2> QED BY <2>2, <2>3, SamePhase DEF Others
<1> QED BY <1>1, <1>2, Steps

-----------------------------------------------------------------------------
(* The counters: what the trigger of a request has counted and is about to count is what
   its transaction has inserted, less what its finished DELETEs have deleted. *)
Hits(x, u, f) == x[3] = "follow" /\ u = IF f = "followers" THEN x[2] ELSE x[1]

Entry(w, i, u, f) == IF i \in DOMAIN w /\ w[i][1] = u /\ w[i][2] = f THEN w[i][3] ELSE 0
Due(w, u, f) == Entry(w, 1, u, f) + Entry(w, 2, u, f)

Counted(r) ==
  IF stage[r] \in {"delete", "deletePair"} THEN {}
  ELSE IF stage[r] = "deleteBack" THEN {x \in del[r] : x[1] = Actor(r)}
  ELSE del[r]

One(S, u, f) == IF \E x \in S : Hits(x, u, f) THEN 1 ELSE 0

Balanced(r) ==
  \A u \in User, f \in Field :
    delta[r][u][f] + Due(work[r], u, f) = One(ins[r], u, f) - One(Counted(r), u, f)

Following(u, f) == {x \in rel : Hits(x, u, f)}

Counts == IsFiniteSet(rel) /\ \A u \in User, f \in Field : count[u][f] = Cardinality(Following(u, f))

Updates == Seq(User \X Field \X {-1, 1})

LEMMA DueTyped == ASSUME NEW w \in Updates, NEW u, NEW f PROVE Due(w, u, f) \in Int
<1>1. \A i \in DOMAIN w : w[i][3] \in Int
  <2>1. \A i \in DOMAIN w : w[i] \in User \X Field \X {-1, 1} BY DEF Updates
  <2> QED BY <2>1
<1>2. Entry(w, 1, u, f) \in Int /\ Entry(w, 2, u, f) \in Int BY <1>1 DEF Entry
<1> QED BY <1>2 DEF Due

LEMMA DueNone == ASSUME NEW u, NEW f PROVE Due(<<>>, u, f) = 0
  BY DEF Due, Entry

LEMMA DueTail ==
  ASSUME NEW w \in Updates, w # <<>>, Len(w) <= 2, NEW u, NEW f
  PROVE  Due(w, u, f) =
           (IF Head(w)[1] = u /\ Head(w)[2] = f THEN Head(w)[3] ELSE 0) + Due(Tail(w), u, f)
<1>1. Len(w) \in {1, 2}
  <2> DEFINE S == User \X Field \X {-1, 1}
  <2>1. \A seq \in Seq(S) : seq # <<>> => Len(seq) \in Nat \ {0} BY EmptySeq
  <2>2. w \in Seq(S) BY DEF Updates
  <2> HIDE DEF S
  <2>3. Len(w) \in Nat \ {0} BY <2>1, <2>2
  <2>4. \A n \in Nat \ {0} : n <= 2 => n \in {1, 2} OBVIOUS
  <2> QED BY <2>3, <2>4
<1>2. Entry(w, 1, u, f) = IF Head(w)[1] = u /\ Head(w)[2] = f THEN Head(w)[3] ELSE 0
  BY <1>1 DEF Entry, Updates
<1>3. Entry(Tail(w), 2, u, f) = 0 BY <1>1 DEF Entry, Updates
<1>4. Entry(Tail(w), 1, u, f) = Entry(w, 2, u, f) BY <1>1 DEF Entry, Updates
<1>5. Entry(w, 2, u, f) \in Int /\ Entry(w, 1, u, f) \in Int
  <2>1. \A i \in DOMAIN w : w[i] \in User \X Field \X {-1, 1} BY DEF Updates
  <2>2. \A i \in DOMAIN w : w[i][3] \in Int BY <2>1
  <2> QED BY <2>2 DEF Entry
<1> QED BY <1>2, <1>3, <1>4, <1>5 DEF Due

LEMMA DueUpdates ==
  ASSUME NEW x \in Row, NEW by \in {-1, 1}, NEW u \in User, NEW f \in Field
  PROVE  Due(CounterUpdates(x, by), u, f) = IF Hits(x, u, f) THEN by ELSE 0
<1>1. CASE x[3] # "follow" BY <1>1, DueNone DEF CounterUpdates, Hits
<1>2. CASE x[3] = "follow"
  <2> DEFINE w == << <<x[1], "following", by>>, <<x[2], "followers", by>> >>
  <2>1. DOMAIN w = {1, 2} /\ w[1] = <<x[1], "following", by>> /\ w[2] = <<x[2], "followers", by>> OBVIOUS
  <2>2. CounterUpdates(x, by) = w BY <1>2 DEF CounterUpdates
  <2> HIDE DEF w
  <2>3. Entry(w, 1, u, f) = IF x[1] = u /\ f = "following" THEN by ELSE 0 BY <2>1 DEF Entry
  <2>4. Entry(w, 2, u, f) = IF x[2] = u /\ f = "followers" THEN by ELSE 0 BY <2>1 DEF Entry
  <2>5. f = "following" \/ f = "followers" BY DEF Field
  <2> QED BY <1>2, <2>2, <2>3, <2>4, <2>5 DEF Due, Hits
<1> QED BY <1>1, <1>2

LEMMA OneNone == ASSUME NEW u, NEW f PROVE One({}, u, f) = 0
  BY DEF One

LEMMA BalancedInit == Init => Counts /\ \A r \in Req : Balanced(r)
<1> SUFFICES ASSUME Init PROVE Counts /\ \A r \in Req : Balanced(r) OBVIOUS
<1>1. \A u \in User, f \in Field : Following(u, f) = {} BY DEF Init, Following
<1>2. Counts BY <1>1, FS_EmptySet DEF Init, Counts, NoDelta
<1>3. ASSUME NEW r \in Req, NEW u \in User, NEW f \in Field
      PROVE  delta[r][u][f] + Due(work[r], u, f) = One(ins[r], u, f) - One(Counted(r), u, f)
  <2>1. delta[r][u][f] = 0 /\ work[r] = <<>> /\ ins[r] = {} /\ del[r] = {} BY DEF Init, NoDelta
  <2>2. Counted(r) = {} BY <2>1 DEF Counted
  <2> QED BY <2>1, <2>2, OneNone, DueNone
<1> QED BY <1>2, <1>3 DEF Balanced

LEMMA SameBalanced == ASSUME NEW q \in Req, Same(q), Balanced(q) PROVE Balanced(q)'
<1>1. Counted(q)' = Counted(q) BY DEF Same, Counted, Actor
<1>2. /\ work'[q] = work[q] /\ delta'[q] = delta[q] /\ ins'[q] = ins[q] BY DEF Same
<1> QED BY <1>1, <1>2 DEF Balanced

LEMMA NoTxBalanced == ASSUME NEW r \in Req, NoTx(r)' PROVE Balanced(r)'
<1>1. work'[r] = <<>> /\ ins'[r] = {} /\ del'[r] = {} /\ \A u \in User, f \in Field : delta'[r][u][f] = 0
  BY DEF NoTx, NoDelta
<1>2. Counted(r)' = {} BY <1>1 DEF Counted
<1>3. ASSUME NEW u \in User, NEW f \in Field
      PROVE  delta'[r][u][f] + Due(work'[r], u, f) = One(ins'[r], u, f) - One(Counted(r)', u, f)
  BY <1>1, <1>2, OneNone, DueNone
<1> QED BY <1>3 DEF Balanced

LEMMA QuietBalanced ==
  ASSUME NEW r \in Req, Types, Phase(r), Balanced(r), stage[r] \in Before, SameTx(r)
  PROVE  Balanced(r)'
<1>1. del'[r] = {} /\ work'[r] = <<>> /\ ins'[r] = {} /\ delta'[r] = NoDelta
  BY DEF Phase, SameTx, Types, Sound, Before
<1>2. Counted(r)' = {} BY <1>1 DEF Counted
<1>3. ASSUME NEW u \in User, NEW f \in Field
      PROVE  delta'[r][u][f] + Due(work'[r], u, f) = One(ins'[r], u, f) - One(Counted(r)', u, f)
  <2>1. delta'[r][u][f] = 0 BY <1>1 DEF NoDelta
  <2> QED BY <1>1, <1>2, <2>1, OneNone, DueNone
<1> QED BY <1>3 DEF Balanced

LEMMA TouchBalanced ==
  ASSUME NEW r \in Req, Types, Phase(r), Balanced(r), TouchProfile(r)
  PROVE  Balanced(r)'
<1>1. work[r] # <<>> /\ work'[r] = Tail(work[r]) /\ SameRequest(r) /\ del'[r] = del[r] /\ ins'[r] = ins[r]
  BY AfterTouchProfile
<1>2. Counted(r)' = Counted(r) BY <1>1 DEF Counted, SameRequest, Actor
<1>3. work[r] \in Updates /\ Len(work[r]) <= 2 BY DEF Types, TypeOK, Phase, Updates
<1>4. ASSUME NEW u \in User, NEW f \in Field
      PROVE  delta'[r][u][f] + Due(work'[r], u, f) = One(ins'[r], u, f) - One(Counted(r)', u, f)
  <2> DEFINE n == IF Head(work[r])[1] = u /\ Head(work[r])[2] = f THEN Head(work[r])[3] ELSE 0
  <2>1. delta'[r][u][f] = delta[r][u][f] + n BY AfterTouchProfile
  <2>2. Due(work[r], u, f) = n + Due(Tail(work[r]), u, f) BY <1>1, <1>3, DueTail
  <2>3. delta[r][u][f] + Due(work[r], u, f) = One(ins[r], u, f) - One(Counted(r), u, f) BY DEF Balanced
  <2>4. n \in Int /\ delta[r][u][f] \in Int /\ Due(Tail(work[r]), u, f) \in Int
    <3>1. Head(work[r]) \in User \X Field \X {-1, 1} BY <1>1, <1>3 DEF Updates
    <3>2. Head(work[r])[3] \in Int BY <3>1
    <3>3. Tail(work[r]) \in Updates BY <1>1, <1>3 DEF Updates
    <3> QED BY <3>2, <3>3, DueTyped DEF Types, TypeOK
  <2> HIDE DEF n
  <2> QED BY <1>1, <1>2, <2>1, <2>2, <2>3, <2>4
<1> QED BY <1>4 DEF Balanced

LEMMA InsertBalanced ==
  ASSUME NEW r \in Req, Types, Phase(r), Balanced(r), Insert(r), ~Rollback(r)
  PROVE  Balanced(r)'
<1>1. /\ stage[r] = "insert" /\ stage'[r] = "commit" /\ work[r] = <<>>
      /\ work'[r] = CounterUpdates(row[r], 1) /\ ins'[r] = {row[r]} /\ del'[r] = del[r] /\ delta'[r] = delta[r]
  BY AfterInsert
<1>2. row[r] \in Row /\ ins[r] = {} BY <1>1 DEF Types, TypeOK, Sound
<1>3. Counted(r) = del[r] /\ Counted(r)' = del[r] BY <1>1 DEF Counted
<1>4. ASSUME NEW u \in User, NEW f \in Field
      PROVE  delta'[r][u][f] + Due(work'[r], u, f) = One(ins'[r], u, f) - One(Counted(r)', u, f)
  <2>1. Due(work'[r], u, f) = IF Hits(row[r], u, f) THEN 1 ELSE 0 BY <1>1, <1>2, DueUpdates
  <2>2. One(ins'[r], u, f) = IF Hits(row[r], u, f) THEN 1 ELSE 0 BY <1>1 DEF One
  <2>3. delta[r][u][f] + 0 = 0 - One(del[r], u, f)
    BY <1>1, <1>2, <1>3, DueNone, OneNone DEF Balanced
  <2>4. delta[r][u][f] \in Int /\ One(del[r], u, f) \in Int BY DEF Types, TypeOK, One
  <2> QED BY <1>1, <1>3, <2>1, <2>2, <2>3, <2>4
<1> QED BY <1>4 DEF Balanced

LEMMA ScanBalanced ==
  ASSUME NEW r \in Req, Types, Phase(r), Balanced(r), DeleteBegin(r) \/ DeleteRow(r)
  PROVE  Balanced(r)'
<1>1. SameRequest(r) /\ work'[r] = work[r] /\ delta'[r] = delta[r] /\ ins'[r] = ins[r]
  BY AfterDeleteBegin, AfterDeleteRow
<1>2. stage[r] \in Deleting BY AfterDeleteBegin, AfterDeleteRow DEF Types, Sound
<1>3. stage'[r] = stage[r] /\ Actor(r)' = Actor(r) BY <1>1 DEF SameRequest, Actor
<1>4. Counted(r)' = Counted(r)
  <2>1. CASE stage[r] # "deleteBack" BY <1>2, <1>3, <2>1 DEF Counted, Deleting
  <2>2. CASE stage[r] = "deleteBack"
    <3>1. Actor(r) # Target(r) BY <2>2 DEF Types, Sound
    <3>2. DeleteRow(r) => \A x \in todo[r] : x[1] = Target(r)
      BY <2>2, AfterDeleteRow DEF Phase, Pair
    <3>3. {x \in del'[r] : x[1] = Actor(r)} = {x \in del[r] : x[1] = Actor(r)}
      BY <3>1, <3>2, AfterDeleteBegin, AfterDeleteRow
    <3> QED BY <1>3, <2>2, <3>3 DEF Counted
  <2> QED BY <2>1, <2>2
<1> QED BY <1>1, <1>4 DEF Balanced

(* of the rows between two users at most one is counted by a counter *)
LEMMA HitsOnce ==
  ASSUME NEW r \in Req, Actor(r) # Target(r), NEW x \in Row, NEW y \in Row, Between(x, r), Between(y, r),
         NEW u \in User, NEW f \in Field, Hits(x, u, f), Hits(y, u, f)
  PROVE  x = y
<1>1. x[2] = y[2] /\ x[1] = y[1] BY DEF Hits, Between, Actor, Target
<1>2. x[3] = "follow" /\ y[3] = "follow" BY DEF Hits
<1> QED BY <1>1, <1>2 DEF Row

LEMMA DeleteEndBalanced ==
  ASSUME NEW r \in Req, Types, Phase(r), Balanced(r), DeleteEnd(r), ~Rollback(r)
  PROVE  Balanced(r)'
<1>1. /\ stage[r] \in Deleting /\ todo[r] = {} /\ stage'[r] = AfterDelete(stage[r]) /\ row'[r] = row[r]
      /\ work'[r] = Uncount(r) /\ del'[r] = del[r] /\ ins'[r] = ins[r] /\ delta'[r] = delta[r]
  BY AfterDeleteEnd
<1>2. work[r] = <<>> BY <1>1, NoneAssumption DEF Phase
<1>3. Actor(r) # Target(r) /\ ins[r] = {} BY <1>1 DEF Types, Sound, Deleting
<1>4. del[r] \subseteq Row /\ \A x \in del[r] : Between(x, r) BY DEF Types, TypeOK, Phase
<1>5. FollowOf(r) \in Row /\ Between(FollowOf(r), r)
  <2>1. row[r] \in Row BY <1>1 DEF Types, TypeOK, Sound, Deleting
  <2>2. Actor(r) \in User /\ Target(r) \in User BY <2>1 DEF Row, Actor, Target
  <2> QED BY <2>2 DEF FollowOf, Pair, Row, Kind, Between
<1>6. Counted(r)' = {x \in del[r] : x[1] = Actor(r) \/ stage[r] = "deleteBack"}
  <2>1. CASE stage[r] = "delete"
    <3>1. stage'[r] = "commit" /\ \A x \in del[r] : x[1] = Actor(r) BY <1>1, <2>1 DEF AfterDelete, Phase
    <3> QED BY <1>1, <3>1 DEF Counted
  <2>2. CASE stage[r] = "deletePair"
    <3>1. stage'[r] = "deleteBack" /\ Actor(r)' = Actor(r) BY <1>1, <2>2 DEF AfterDelete, Actor
    <3> QED BY <1>1, <2>2, <3>1 DEF Counted
  <2>3. CASE stage[r] = "deleteBack"
    <3>1. stage'[r] = "insert" BY <1>1, <2>3 DEF AfterDelete
    <3> QED BY <1>1, <2>3, <3>1 DEF Counted
  <2> QED BY <1>1, <2>1, <2>2, <2>3 DEF Deleting
<1>7. ASSUME NEW u \in User, NEW f \in Field
      PROVE  delta'[r][u][f] + Due(work'[r], u, f) = One(ins'[r], u, f) - One(Counted(r)', u, f)
  <2> DEFINE n == IF FollowOf(r) \in del[r] /\ Hits(FollowOf(r), u, f) THEN 1 ELSE 0
  <2>1. Due(work'[r], u, f) = 0 - n
    <3>1. CASE FollowOf(r) \in del[r]
      <4>1. Due(work'[r], u, f) = IF Hits(FollowOf(r), u, f) THEN -1 ELSE 0
        BY <1>1, <1>5, <3>1, DueUpdates DEF Uncount
      <4> QED BY <3>1, <4>1
    <3>2. CASE FollowOf(r) \notin del[r]
      <4>1. work'[r] = <<>> BY <1>1, <3>2 DEF Uncount
      <4> QED BY <3>2, <4>1, DueNone
    <3> QED BY <3>1, <3>2
  <2>2. delta[r][u][f] = 0 - One(Counted(r), u, f)
    <3>1. delta[r][u][f] + 0 = 0 - One(Counted(r), u, f) BY <1>2, <1>3, DueNone, OneNone DEF Balanced
    <3>2. delta[r][u][f] \in Int BY DEF Types, TypeOK
    <3> QED BY <3>1, <3>2
  <2>3. One(Counted(r)', u, f) = One(Counted(r), u, f) + n
    <3>1. CASE stage[r] # "deleteBack"
      <4>1. Counted(r) = {} /\ FollowOf(r) = <<Actor(r), Target(r), "follow">>
        BY <1>1, <3>1 DEF Counted, Deleting, FollowOf, Pair
      <4>2. FollowOf(r)[1] = Actor(r) BY <4>1
      <4>3. (\E x \in Counted(r)' : Hits(x, u, f)) <=> FollowOf(r) \in del[r] /\ Hits(FollowOf(r), u, f)
        <5>1. ASSUME NEW x \in Counted(r)', Hits(x, u, f) PROVE x = FollowOf(r)
          <6>1. x \in del[r] /\ x[1] = Actor(r) /\ Between(x, r) /\ x \in Row BY <1>4, <1>6, <3>1
          <6>2. x[2] = Target(r) /\ x[3] = "follow" BY <1>3, <5>1, <6>1 DEF Between, Hits
          <6> QED BY <4>1, <6>1, <6>2 DEF Row
        <5> QED BY <1>6, <4>2, <5>1
      <4>4. One(Counted(r), u, f) = 0 BY <4>1, OneNone
      <4> QED BY <4>3, <4>4 DEF One
    <3>2. CASE stage[r] = "deleteBack"
      <4>1. Counted(r) = {x \in del[r] : x[1] = Actor(r)} /\ Counted(r)' = del[r]
            /\ FollowOf(r) = <<Target(r), Actor(r), "follow">>
        BY <1>6, <3>2 DEF Counted, FollowOf, Pair
      <4>2. ASSUME NEW x \in del[r], Hits(x, u, f) PROVE x[1] = Actor(r) \/ x = FollowOf(r)
        <5>1. Between(x, r) /\ x \in Row /\ x[3] = "follow" BY <1>4, <4>2 DEF Hits
        <5>2. x[1] = Actor(r) \/ (x[1] = Target(r) /\ x[2] = Actor(r)) BY <1>3, <5>1 DEF Between
        <5>3. x = <<x[1], x[2], x[3]>> BY <5>1 DEF Row
        <5> QED BY <4>1, <5>1, <5>2, <5>3
      <4>3. ASSUME NEW x \in Counted(r), Hits(x, u, f), Hits(FollowOf(r), u, f), FollowOf(r) \in del[r] PROVE FALSE
        <5>1. x \in Row /\ Between(x, r) /\ x[1] = Actor(r) BY <1>4, <4>1
        <5>2. x = FollowOf(r) BY <1>3, <1>5, <4>3, <5>1, HitsOnce
        <5> QED BY <1>3, <4>1, <5>1, <5>2
      <4>4. CASE \E x \in Counted(r) : Hits(x, u, f)
        <5>1. n = 0 BY <4>3, <4>4
        <5>2. \E x \in Counted(r)' : Hits(x, u, f) BY <4>1, <4>4
        <5> HIDE DEF n
        <5> QED BY <4>4, <5>1, <5>2 DEF One
      <4>5. CASE ~ \E x \in Counted(r) : Hits(x, u, f)
        <5>1. (\E x \in Counted(r)' : Hits(x, u, f)) <=> FollowOf(r) \in del[r] /\ Hits(FollowOf(r), u, f)
          BY <4>1, <4>2, <4>5
        <5> QED BY <4>5, <5>1 DEF One
      <4> QED BY <4>4, <4>5
    <3> QED BY <3>1, <3>2
  <2>4. One(ins'[r], u, f) = 0 /\ delta'[r][u][f] = delta[r][u][f] BY <1>1, <1>3, OneNone
  <2>5. n \in Int /\ One(Counted(r), u, f) \in Int BY DEF One
  <2> HIDE DEF n
  <2> QED BY <2>1, <2>2, <2>3, <2>4, <2>5
<1> QED BY <1>7 DEF Balanced

LEMMA BalancedNext ==
  ASSUME Types, \A q \in Req : Phase(q) /\ Balanced(q), [Next]_vars
  PROVE  \A q \in Req : Balanced(q)'
<1>1. CASE UNCHANGED rest
  <2>1. UNCHANGED <<delta, work, ins, del, stage, row>> BY <1>1 DEF rest, request, txn
  <2> QED BY <2>1 DEF Balanced, Counted, Actor
<1>2. CASE \E r \in Req : Step(r)
  <2>1. PICK r \in Req : Step(r) BY <1>2
  <2>2. Others(r) BY <2>1, StepOthers
  <2>3. Balanced(r)'
    <3>1. CASE Asks(r) \/ ReadStatus(r) \/ Passes(r) \/ CheckExists(r) \/ Notify(r)
      <4>1. stage[r] \in Before /\ SameTx(r)
        BY <3>1, AfterRequest, AfterReadStatus, AfterCheckBlocked, AfterCheckExists, AfterNotify DEF Before, Asks
      <4> QED BY <4>1, QuietBalanced
    <3> QED
      BY <2>1, <3>1, AfterRollback, AfterCommit, NoTxBalanced, TouchBalanced, InsertBalanced, ScanBalanced,
         DeleteEndBalanced
      DEF Step
  <2> QED BY <2>2, <2>3, SameBalanced DEF Others
<1> QED BY <1>1, <1>2, Steps

LEMMA CommitCounts ==
  ASSUME NEW r \in Req, Types, Locks, Phase(r), Balanced(r), Counts, Commit(r)
  PROVE  Counts'
<1>1. /\ stage[r] = "commit" /\ work[r] = <<>> /\ rel' = (rel \ del[r]) \cup ins[r]
      /\ \A u \in User, f \in Field : count'[u][f] = count[u][f] + delta[r][u][f]
  BY AfterCommit
<1>2. row[r] \in Row /\ Actor(r) # Target(r) /\ ins[r] \in {{}, {row[r]}}
  BY <1>1, ZenonT(60) DEF Types, TypeOK, Sound
<1>3. IsFiniteSet(rel')
  <2>1. IsFiniteSet(rel) BY DEF Counts
  <2>2. IsFiniteSet(rel \ del[r]) BY <2>1, FS_Subset
  <2>3. IsFiniteSet((rel \ del[r]) \cup {row[r]}) BY <2>2, FS_AddElement
  <2> QED BY <1>1, <1>2, <2>2, <2>3
<1>4. ASSUME NEW u \in User, NEW f \in Field PROVE count'[u][f] = Cardinality(Following(u, f)')
  <2> DEFINE S == Following(u, f)
             T == Following(u, f)'
  <2>1. T = {x \in (rel \ del[r]) \cup ins[r] : Hits(x, u, f)} BY <1>1 DEF Following
  <2>2. S = {x \in rel : Hits(x, u, f)} BY DEF Following
  <2>3. IsFiniteSet(S) /\ count[u][f] = Cardinality(S)
    <3>1. S \subseteq rel BY <2>2
    <3> QED BY <3>1, FS_Subset DEF Counts
  <2>4. delta[r][u][f] = One(ins[r], u, f) - One(del[r], u, f)
    <3>1. Counted(r) = del[r] BY <1>1 DEF Counted
    <3>2. delta[r][u][f] + 0 = One(ins[r], u, f) - One(del[r], u, f) BY <1>1, <3>1, DueNone DEF Balanced
    <3>3. delta[r][u][f] \in Int BY DEF Types, TypeOK
    <3> QED BY <3>2, <3>3
  <2>5. Cardinality(S) \in Nat BY <2>3, FS_CardinalityType
  <2>6. del[r] \subseteq rel /\ ins[r] \cap rel \subseteq del[r] /\ del[r] \subseteq Row
        /\ \A x \in del[r] : Between(x, r)
    BY DEF Locks, Phase, Types, TypeOK
  <2>7. Between(row[r], r) BY DEF Between, Actor, Target
  <2>8. \A x, y \in del[r] \cup ins[r] : Hits(x, u, f) /\ Hits(y, u, f) => x = y
    BY <1>2, <2>6, <2>7, HitsOnce
  <2> HIDE DEF S, T
  <2>9. CASE One(del[r], u, f) = 0 /\ One(ins[r], u, f) = 0
    <3>1. T = S BY <2>1, <2>2, <2>9 DEF One
    <3> QED BY <1>1, <2>3, <2>4, <2>5, <2>9, <3>1 DEF T
  <2>10. CASE One(del[r], u, f) = 0 /\ One(ins[r], u, f) = 1
    <3>1. PICK x \in ins[r] : Hits(x, u, f) BY <2>10 DEF One
    <3>2. x \notin del[r] /\ x \notin S BY <2>2, <2>6, <2>10, <3>1 DEF One
    <3>3. T = S \cup {x} BY <2>1, <2>2, <2>8, <2>10, <3>1 DEF One
    <3>4. Cardinality(T) = Cardinality(S) + 1 BY <2>3, <3>2, <3>3, FS_AddElement
    <3> QED BY <1>1, <2>3, <2>4, <2>5, <2>10, <3>4 DEF T
  <2>11. CASE One(del[r], u, f) = 1 /\ One(ins[r], u, f) = 0
    <3>1. PICK x \in del[r] : Hits(x, u, f) BY <2>11 DEF One
    <3>2. x \in S BY <2>2, <2>6, <3>1
    <3>3. T = S \ {x} BY <2>1, <2>2, <2>8, <2>11, <3>1 DEF One
    <3>4. Cardinality(T) = Cardinality(S) - 1 BY <2>3, <3>2, <3>3, FS_RemoveElement
    <3> QED BY <1>1, <2>3, <2>4, <2>5, <2>11, <3>4 DEF T
  <2>12. CASE One(del[r], u, f) = 1 /\ One(ins[r], u, f) = 1
    <3>1. PICK x \in del[r] : Hits(x, u, f) BY <2>12 DEF One
    <3>2. x \in ins[r] /\ x \in S BY <2>2, <2>6, <2>8, <2>12, <3>1 DEF One
    <3>3. T = S BY <2>1, <2>2, <2>6, <2>8, <3>1, <3>2
    <3> QED BY <1>1, <2>3, <2>4, <2>5, <2>12, <3>3 DEF T
  <2> QED BY <2>9, <2>10, <2>11, <2>12 DEF One
<1> QED BY <1>3, <1>4 DEF Counts

LEMMA CountsNext ==
  ASSUME Types, Locks, \A q \in Req : Phase(q) /\ Balanced(q), Counts, [Next]_vars
  PROVE  Counts'
<1>1. CASE UNCHANGED <<rel, count>> BY <1>1 DEF Counts, Following
<1>2. ASSUME NEW r \in Req, Commit(r) PROVE Counts' BY <1>2, CommitCounts
<1>3. CASE UNCHANGED rest BY <1>1, <1>3 DEF rest, tables
<1>4. CASE \E r \in Req : Step(r)
  <2>1. (\E r \in Req : Commit(r)) \/ UNCHANGED <<rel, count>>
    BY <1>4, AfterRollback, AfterRequest, AfterReadStatus, AfterCheckBlocked, AfterCheckExists,
       AfterTouchProfile, AfterInsert, AfterDeleteBegin, AfterDeleteRow, AfterDeleteEnd, AfterNotify
    DEF Step, Asks
  <2> QED BY <1>1, <1>2, <2>1
<1> QED BY <1>3, <1>4, Steps

-----------------------------------------------------------------------------
(* What a request knows of its pair, while it is the only one in flight about the two. *)
Two(r) == {Actor(r), Target(r)}
Back(r, k) == <<Target(r), Actor(r), k>>

Alone ==
  \A q, r \in Req : q # r /\ row[q] # NoRow /\ row[r] # NoRow /\ Two(q) = Two(r) => Two(r) \in met

InTurn(r) ==
  row[r] # NoRow /\ Two(r) \notin met =>
    /\ row[r][3] = "follow" /\ (stage[r] \in {"exists", "insert"} \/ ins[r] # {}) => Back(r, "block") \notin rel
    /\ row[r][3] = "follow" /\ stage[r] \in {"blocked", "exists"} => (was[r] <=> row[r] \in rel)
    /\ row[r][3] = "follow" /\ stage[r] = "commit" /\ ins[r] = {} /\ del[r] = {} => was[r]
    /\ stage[r] = "deleteBack" /\ todo[r] # NoScan /\ Back(r, "follow") \in rel
         => Back(r, "follow") \in del[r] \cup todo[r]
    /\ row[r][3] = "block" /\ (stage[r] = "insert" \/ ins[r] # {}) /\ Back(r, "follow") \in rel
         => Back(r, "follow") \in del[r]
    /\ stage[r] = "notify" => notes[<<Actor(r), Target(r)>>] = 0

LEMMA AloneNext == ASSUME Types, Alone, [Next]_vars PROVE Alone'
<1>1. CASE UNCHANGED rest BY <1>1 DEF rest, request, Alone, Two, Actor, Target
<1>2. CASE \E r \in Req : Step(r)
  <2>1. PICK r \in Req : Step(r) BY <1>2
  <2>2. Others(r) BY <2>1, StepOthers
  <2>3. \A q \in Req \ {r} : row'[q] = row[q] BY <2>2 DEF Others, Same
  <2>4. CASE Asks(r)
    <3>1. PICK op \in {"create", "delete"}, k \in Kind, a, b \in User : Request(r, op, <<a, b, k>>) BY <2>4 DEF Asks
    <3>2. row'[r] = <<a, b, k>> /\ met \subseteq met'
          /\ \A q \in Req \ {r} : SamePair(row[q], <<a, b, k>>) => {a, b} \in met'
      BY <3>1, AfterRequest
    <3>3. Two(r)' = {a, b} BY <3>2 DEF Two, Actor, Target
    <3>4. \A q \in Req \ {r} : row[q] # NoRow /\ Two(q) = {a, b} => {a, b} \in met'
      BY <3>2 DEF SamePair, Two, Actor, Target
    <3>5. \A q \in Req \ {r} : Two(q)' = Two(q) BY <2>3 DEF Two, Actor, Target
    <3> QED BY <2>3, <3>2, <3>3, <3>4, <3>5 DEF Alone
  <2>5. CASE ~Asks(r)
    <3>1. met' = met /\ (row'[r] = NoRow \/ row'[r] = row[r])
      <4>1. CASE Rollback(r) BY <4>1, AfterRollback
      <4>2. CASE ReadStatus(r) \/ Passes(r) \/ CheckExists(r) \/ TouchProfile(r)
        BY <4>2, AfterReadStatus, AfterCheckBlocked, AfterCheckExists, AfterTouchProfile DEF SameRequest
      <4>3. CASE (Insert(r) \/ DeleteEnd(r)) /\ ~Rollback(r) BY <4>3, AfterInsert, AfterDeleteEnd
      <4>4. CASE DeleteBegin(r) \/ DeleteRow(r) \/ Commit(r) \/ Notify(r)
        BY <4>4, AfterDeleteBegin, AfterDeleteRow, AfterCommit, AfterNotify DEF SameRequest
      <4> QED BY <2>1, <2>5, <4>1, <4>2, <4>3, <4>4 DEF Step
    <3>2. \A q \in Req : row'[q] # NoRow => row'[q] = row[q] /\ Two(q)' = Two(q)
      BY <2>3, <3>1 DEF Two, Actor, Target
    <3> QED BY <3>1, <3>2 DEF Alone
  <2> QED BY <2>4, <2>5
<1> QED BY <1>1, <1>2, Steps

LEMMA SameInTurn ==
  ASSUME NEW q \in Req, Same(q), UNCHANGED <<rel, notes>>, met \subseteq met', InTurn(q)
  PROVE  InTurn(q)'
<1>1. Two(q)' = Two(q) /\ Actor(q)' = Actor(q) /\ Target(q)' = Target(q) /\ \A k : Back(q, k)' = Back(q, k)
  BY DEF Same, Two, Back, Actor, Target
<1> QED BY <1>1 DEF Same, InTurn

(* another pair's rows are not touched *)
LEMMA CommitOthers ==
  ASSUME NEW r \in Req, NEW q \in Req \ {r}, Types, Phase(r), Alone, Commit(r), InTurn(q)
  PROVE  InTurn(q)'
<1>1. Same(q) /\ met' = met /\ rel' = (rel \ del[r]) \cup ins[r] /\ stage[r] = "commit"
      /\ \A p \in User \X User : notes'[p] = IF <<p[1], p[2], "follow">> \in ins[r] THEN 0 ELSE notes[p]
  BY AfterCommit DEF Others
<1>2. Two(q)' = Two(q) /\ Actor(q)' = Actor(q) /\ Target(q)' = Target(q) /\ \A k : Back(q, k)' = Back(q, k)
  BY <1>1 DEF Same, Two, Back, Actor, Target
<1>3. SUFFICES ASSUME row[q] # NoRow, Two(q) \notin met PROVE InTurn(q)'
  BY <1>1, <1>2 DEF Same, InTurn
<1>4. Two(q) # Two(r) BY <1>1, <1>3 DEF Alone, Types, Sound
<1>5. \A x \in del[r] \cup ins[r] : {x[1], x[2]} = Two(r)
  <2>1. ins[r] \subseteq {row[r]} BY DEF Types, Sound
  <2>2. \A x \in del[r] : {x[1], x[2]} = Two(r) BY DEF Phase, Between, Two
  <2>3. {row[r][1], row[r][2]} = Two(r) BY DEF Two, Actor, Target
  <2> QED BY <2>1, <2>2, <2>3
<1>6. \A x : {x[1], x[2]} = Two(q) => (x \in rel' <=> x \in rel) BY <1>1, <1>4, <1>5
<1>7. \A k : {Back(q, k)[1], Back(q, k)[2]} = Two(q) BY DEF Back, Two
<1>8. {row[q][1], row[q][2]} = Two(q) BY DEF Two, Actor, Target
<1>9. row[q] \in rel' <=> row[q] \in rel BY <1>6, <1>8
<1>10. /\ Back(q, "block") \in rel' <=> Back(q, "block") \in rel
       /\ Back(q, "follow") \in rel' <=> Back(q, "follow") \in rel
  BY <1>6, <1>7
<1>11. stage[q] = "notify" => notes'[<<Actor(q), Target(q)>>] = notes[<<Actor(q), Target(q)>>]
  <2>1. <<Actor(q), Target(q)>> \in User \X User BY <1>3 DEF Types, TypeOK, Row, Actor, Target
  <2>2. <<Actor(q), Target(q), "follow">> \notin ins[r] BY <1>4, <1>5 DEF Two
  <2> QED BY <1>1, <2>1, <2>2
<1> QED BY <1>1, <1>2, <1>9, <1>10, <1>11 DEF Same, InTurn

LEMMA NotifyOthers ==
  ASSUME NEW r \in Req, NEW q \in Req \ {r}, Types, Alone, Notify(r), InTurn(q)
  PROVE  InTurn(q)'
<1>1. Same(q) /\ met' = met /\ rel' = rel /\ stage[r] = "notify"
      /\ \A p \in User \X User : notes'[p] = notes[p] \/ p = <<Actor(r), Target(r)>>
  BY AfterNotify DEF Others
<1>2. Two(q)' = Two(q) /\ Actor(q)' = Actor(q) /\ Target(q)' = Target(q) /\ \A k : Back(q, k)' = Back(q, k)
  BY <1>1 DEF Same, Two, Back, Actor, Target
<1>3. SUFFICES ASSUME row[q] # NoRow, Two(q) \notin met PROVE InTurn(q)'
  BY <1>1, <1>2 DEF Same, InTurn
<1>4. Two(q) # Two(r) BY <1>1, <1>3 DEF Alone, Types, Sound
<1>5. notes'[<<Actor(q), Target(q)>>] = notes[<<Actor(q), Target(q)>>]
  <2>1. <<Actor(q), Target(q)>> \in User \X User BY <1>3 DEF Types, TypeOK, Row, Actor, Target
  <2>2. <<Actor(q), Target(q)>> # <<Actor(r), Target(r)>> BY <1>4 DEF Two
  <2> QED BY <1>1, <2>1, <2>2
<1> QED BY <1>1, <1>2, <1>5 DEF Same, InTurn

LEMMA RequestInTurn ==
  ASSUME NEW r \in Req, NEW op \in {"create", "delete"}, NEW k \in Kind, NEW a \in User, NEW b \in User,
         Types, Phase(r), Request(r, op, <<a, b, k>>)
  PROVE  InTurn(r)'
<1>1. stage[r] = "idle" /\ stage'[r] = FirstStage(op, k) /\ row'[r] = <<a, b, k>> /\ SameTx(r)
  BY AfterRequest, ZenonT(60)
<1>2. ins'[r] = {} BY <1>1 DEF SameTx, Types, Sound
<1>3. /\ stage'[r] \in {"status", "delete", "deletePair", "exists"}
      /\ stage'[r] = "exists" => k = "mute"
  BY <1>1 DEF FirstStage, Kind
<1> QED BY <1>1, <1>2, <1>3 DEF InTurn

LEMMA CheckInTurn ==
  ASSUME NEW r \in Req, Types, Phase(r), InTurn(r), ReadStatus(r) \/ Passes(r) \/ CheckExists(r)
  PROVE  InTurn(r)'
<1>1. UNCHANGED <<rel, notes, met>> /\ SameTx(r) /\ stage[r] \in {"status", "blocked", "exists"}
  BY AfterReadStatus, AfterCheckBlocked, AfterCheckExists
<1>2. ins'[r] = {} BY <1>1 DEF SameTx, Types, Sound
<1>3. CASE row'[r] = NoRow BY <1>3 DEF InTurn
<1>4. CASE row'[r] # NoRow
  <2>1. row'[r] = row[r] BY <1>4, AfterReadStatus, AfterCheckBlocked, AfterCheckExists
  <2>2. Two(r)' = Two(r) /\ Actor(r)' = Actor(r) /\ Target(r)' = Target(r) /\ \A k : Back(r, k)' = Back(r, k)
    BY <2>1 DEF Two, Back, Actor, Target
  <2>3. row[r] # NoRow BY <1>4, <2>1
  <2>4. CASE ReadStatus(r)
    BY <1>1, <1>2, <2>1, <2>2, <2>3, <2>4, AfterReadStatus DEF InTurn
  <2>5. CASE Passes(r)
    <3>1. stage[r] = "blocked" /\ stage'[r] = "exists" /\ (was'[r] <=> was[r]) /\ Back(r, "block") \notin rel
      BY <1>4, <2>5, AfterCheckBlocked DEF Back
    <3> QED BY <1>1, <1>2, <2>1, <2>2, <2>3, <3>1 DEF InTurn
  <2>6. CASE CheckExists(r)
    <3>1. /\ stage[r] = "exists" /\ (was'[r] <=> was[r]) /\ row[r][3] # "block"
          /\ (stage'[r] = "commit" /\ row[r] \in rel) \/ stage'[r] = "insert"
      BY <2>6, AfterCheckExists DEF Phase
    <3> QED BY <1>1, <1>2, <2>1, <2>2, <2>3, <3>1 DEF InTurn
  <2> QED BY <2>4, <2>5, <2>6
<1> QED BY <1>3, <1>4

LEMMA TouchInTurn ==
  ASSUME NEW r \in Req, Types, InTurn(r), TouchProfile(r)
  PROVE  InTurn(r)'
<1>1. /\ SameRequest(r) /\ todo'[r] = todo[r] /\ del'[r] = del[r] /\ ins'[r] = ins[r]
      /\ UNCHANGED <<rel, notes, met>>
  BY AfterTouchProfile
<1>2. Two(r)' = Two(r) /\ Actor(r)' = Actor(r) /\ Target(r)' = Target(r) /\ \A k : Back(r, k)' = Back(r, k)
  BY <1>1 DEF SameRequest, Two, Back, Actor, Target
<1> QED BY <1>1, <1>2 DEF SameRequest, InTurn

LEMMA InsertInTurn ==
  ASSUME NEW r \in Req, Types, InTurn(r), Insert(r), ~Rollback(r)
  PROVE  InTurn(r)'
<1>1. /\ stage[r] = "insert" /\ stage'[r] = "commit" /\ row'[r] = row[r]
      /\ ins'[r] = {row[r]} /\ del'[r] = del[r] /\ UNCHANGED <<rel, notes, met>>
  BY AfterInsert
<1>2. Two(r)' = Two(r) /\ \A k : Back(r, k)' = Back(r, k) BY <1>1 DEF Two, Back, Actor, Target
<1> QED BY <1>1, <1>2 DEF InTurn

LEMMA ScanInTurn ==
  ASSUME NEW r \in Req, Types, InTurn(r), DeleteBegin(r) \/ DeleteRow(r)
  PROVE  InTurn(r)'
<1>1. SameRequest(r) /\ ins'[r] = ins[r] /\ UNCHANGED <<rel, notes, met>> /\ stage[r] \in Deleting
  BY AfterDeleteBegin, AfterDeleteRow DEF Types, Sound
<1>2. Two(r)' = Two(r) /\ \A k : Back(r, k)' = Back(r, k)
  BY <1>1 DEF SameRequest, Two, Back, Actor, Target
<1>3. ins'[r] = {} /\ stage'[r] = stage[r] /\ row'[r] = row[r]
  BY <1>1 DEF SameRequest, Types, Sound, Deleting
<1>4. row[r] # NoRow /\ Two(r) \notin met /\ stage[r] = "deleteBack" /\ Back(r, "follow") \in rel
        => Back(r, "follow") \in del'[r] \cup todo'[r]
  <2>1. SUFFICES ASSUME row[r] # NoRow, Two(r) \notin met, stage[r] = "deleteBack", Back(r, "follow") \in rel
                 PROVE  Back(r, "follow") \in del'[r] \cup todo'[r]
    OBVIOUS
  <2>2. CASE DeleteBegin(r) BY <2>1, <2>2, AfterDeleteBegin DEF Doomed, Pair, Back
  <2>3. CASE DeleteRow(r)
    <3>1. PICK x \in todo[r] : del'[r] = del[r] \cup (rel \cap {x}) /\ todo'[r] = todo[r] \ {x}
      BY <2>3, AfterDeleteRow
    <3>2. Back(r, "follow") \in del[r] \cup todo[r] BY <2>1, <2>3, AfterDeleteRow DEF InTurn
    <3> QED BY <2>1, <3>1, <3>2
  <2> QED BY <2>2, <2>3
<1> QED BY <1>1, <1>2, <1>3, <1>4 DEF InTurn, Deleting

LEMMA DeleteEndInTurn ==
  ASSUME NEW r \in Req, Types, Phase(r), InTurn(r), DeleteEnd(r), ~Rollback(r)
  PROVE  InTurn(r)'
<1>1. stage[r] \in Deleting /\ todo[r] = {} /\ stage'[r] = AfterDelete(stage[r])
  BY AfterDeleteEnd
<1>2. todo'[r] = NoScan /\ del'[r] = del[r] /\ ins'[r] = ins[r] /\ UNCHANGED <<rel, notes, met>> BY AfterDeleteEnd
<1>3. row'[r] = row[r] /\ (stage[r] = "delete" => del[r] # {}) BY AfterDeleteEnd
<1>4. Two(r)' = Two(r) /\ \A k : Back(r, k)' = Back(r, k) BY <1>3 DEF Two, Back, Actor, Target
<1>5. ins'[r] = {} /\ todo[r] # NoScan BY <1>1, <1>2, NoneAssumption, AfterDeleteEnd DEF Types, Sound, Deleting
<1>6. /\ stage'[r] \in {"commit", "deleteBack", "insert"}
      /\ stage'[r] = "commit" => del[r] # {}
      /\ stage'[r] = "insert" => stage[r] = "deleteBack" /\ row[r][3] = "block"
  BY <1>1, <1>3, AfterDeleteEnd DEF AfterDelete, Deleting, Phase
<1> QED BY <1>1, <1>2, <1>3, <1>4, <1>5, <1>6 DEF InTurn

LEMMA CommitInTurn ==
  ASSUME NEW r \in Req, Types, Phase(r), InTurn(r), Commit(r)
  PROVE  InTurn(r)'
<1>1. CASE row'[r] = NoRow BY <1>1 DEF InTurn
<1>2. CASE row'[r] # NoRow
  <2>1. stage[r] = "commit" /\ NoTx(r)' /\ met' = met /\ stage'[r] = "notify" /\ row'[r] = row[r]
        /\ row[r][3] = "follow" /\ del[r] = {} /\ ~was[r]
    BY <1>2, AfterCommit
  <2>2. Two(r)' = Two(r) /\ Actor(r)' = Actor(r) /\ Target(r)' = Target(r) BY <2>1 DEF Two, Actor, Target
  <2>3. Two(r) \notin met => ins[r] = {row[r]} BY <1>2, <2>1 DEF InTurn, Types, Sound
  <2>4. row[r] \in Row BY <2>1 DEF Types, TypeOK, Sound
  <2>5. row[r] = <<Actor(r), Target(r), "follow">> /\ <<Actor(r), Target(r)>> \in User \X User
    BY <2>1, <2>4 DEF Row, Actor, Target
  <2>6. Two(r) \notin met => notes'[<<Actor(r), Target(r)>>] = 0
    <3> DEFINE p == <<Actor(r), Target(r)>>
    <3>1. notes'[p] = IF <<p[1], p[2], "follow">> \in ins[r] THEN 0 ELSE notes[p] BY <2>5, AfterCommit
    <3>2. <<p[1], p[2], "follow">> = row[r] BY <2>5
    <3> QED BY <2>3, <3>1, <3>2
  <2>7. ins'[r] = {} BY <2>1 DEF NoTx
  <2> QED BY <2>1, <2>2, <2>6, <2>7 DEF InTurn
<1> QED BY <1>1, <1>2

LEMMA InTurnNext ==
  ASSUME Types, Alone, \A q \in Req : Phase(q) /\ InTurn(q), [Next]_vars
  PROVE  \A q \in Req : InTurn(q)'
<1>1. CASE UNCHANGED rest
  <2>1. UNCHANGED <<rel, notes, stage, row, was, todo, del, ins, met>>
    BY <1>1 DEF rest, tables, request, txn
  <2> QED BY <2>1 DEF InTurn, Two, Back, Actor, Target
<1>2. CASE \E r \in Req : Step(r)
  <2>1. PICK r \in Req : Step(r) BY <1>2
  <2>2. InTurn(r)'
    <3>1. CASE Rollback(r) \/ Notify(r)
      <4>1. row'[r] = NoRow BY <3>1, AfterRollback, AfterNotify
      <4> QED BY <4>1 DEF InTurn
    <3> QED
      BY <2>1, <3>1, RequestInTurn, CheckInTurn, TouchInTurn, InsertInTurn, ScanInTurn, DeleteEndInTurn, CommitInTurn
      DEF Step, Asks
  <2>4. Others(r) BY <2>1, StepOthers
  <2>3. \A q \in Req \ {r} : InTurn(q)'
    <3>1. CASE Commit(r) BY <3>1, CommitOthers
    <3>2. CASE Notify(r) BY <3>2, NotifyOthers
    <3>3. CASE ~Commit(r) /\ ~Notify(r)
      <4>1. rel' = rel /\ notes' = notes /\ met \subseteq met'
        <5>1. CASE Asks(r) BY <5>1, AfterRequest DEF Asks
        <5>2. CASE ReadStatus(r) \/ Passes(r) \/ CheckExists(r) \/ TouchProfile(r)
          BY <5>2, AfterReadStatus, AfterCheckBlocked, AfterCheckExists, AfterTouchProfile
        <5>3. CASE Rollback(r) \/ (Insert(r) /\ ~Rollback(r)) \/ DeleteBegin(r) \/ DeleteRow(r)
                   \/ (DeleteEnd(r) /\ ~Rollback(r))
          BY <5>3, AfterRollback, AfterInsert, AfterDeleteBegin, AfterDeleteRow, AfterDeleteEnd
        <5> QED BY <2>1, <3>3, <5>1, <5>2, <5>3 DEF Step
      <4> QED BY <4>1, <2>4, SameInTurn DEF Others
    <3> QED BY <3>1, <3>2, <3>3
  <2> QED BY <2>2, <2>3
<1> QED BY <1>1, <1>2, Steps

-----------------------------------------------------------------------------
(* What the transaction of a request has come upon. An unfollow deletes its row, a follow or
   a mute none; a block that is alone with its pair misses no row of it. *)
Forth(r) == {x \in rel : <<x[1], x[2]>> = <<Actor(r), Target(r)>>}
Backs(r) == {x \in rel : <<x[1], x[2]>> = <<Target(r), Actor(r)>>}

Swept(r) ==
  /\ stage[r] = "delete" => del[r] \subseteq {row[r]} /\ (todo[r] # NoScan => todo[r] \subseteq {row[r]})
  /\ stage[r] = "commit" /\ ins[r] = {} => del[r] \subseteq {row[r]}
  /\ row[r] # NoRow /\ row[r][3] # "block" /\ (stage[r] = "insert" \/ ins[r] # {}) => del[r] = {}
  /\ row[r] # NoRow /\ Two(r) \notin met =>
       /\ stage[r] = "deletePair" /\ todo[r] # NoScan => Forth(r) \subseteq del[r] \cup todo[r]
       /\ stage[r] = "deleteBack" => Forth(r) \subseteq del[r]
       /\ stage[r] = "deleteBack" /\ todo[r] # NoScan => Backs(r) \subseteq del[r] \cup todo[r]
       /\ row[r][3] = "block" /\ (stage[r] = "insert" \/ ins[r] # {})
            => Forth(r) \cup Backs(r) \subseteq del[r]

LEMMA SameSwept ==
  ASSUME NEW q \in Req, Same(q), met \subseteq met', Swept(q),
         row[q] # NoRow /\ Two(q) \notin met => \A x : {x[1], x[2]} = Two(q) => (x \in rel' <=> x \in rel)
  PROVE  Swept(q)'
<1>1. Two(q)' = Two(q) /\ Actor(q)' = Actor(q) /\ Target(q)' = Target(q) BY DEF Same, Two, Actor, Target
<1>2. row[q] # NoRow /\ Two(q) \notin met => Forth(q)' = Forth(q) /\ Backs(q)' = Backs(q)
  BY <1>1 DEF Forth, Backs, Two
<1> QED BY <1>1, <1>2 DEF Same, Swept

(* another pair's rows are not touched *)
LEMMA OthersSwept ==
  ASSUME NEW r \in Req, NEW q \in Req \ {r}, Types, Phase(r), Alone, Step(r), Swept(q)
  PROVE  Swept(q)'
<1>1. Same(q) BY StepOthers DEF Others
<1>2. CASE Commit(r)
  <2>1. met' = met /\ rel' = (rel \ del[r]) \cup ins[r] /\ stage[r] = "commit" BY <1>2, AfterCommit
  <2>2. SUFFICES ASSUME row[q] # NoRow, Two(q) \notin met, NEW x, {x[1], x[2]} = Two(q)
                 PROVE  x \in rel' <=> x \in rel
    BY <1>1, <2>1, SameSwept
  <2>3. Two(q) # Two(r) BY <2>1, <2>2 DEF Alone, Types, Sound
  <2>4. \A y \in del[r] \cup ins[r] : {y[1], y[2]} = Two(r)
    <3>1. ins[r] \subseteq {row[r]} BY DEF Types, Sound
    <3>2. \A y \in del[r] : {y[1], y[2]} = Two(r) BY DEF Phase, Between, Two
    <3>3. {row[r][1], row[r][2]} = Two(r) BY DEF Two, Actor, Target
    <3> QED BY <3>1, <3>2, <3>3
  <2> QED BY <2>1, <2>2, <2>3, <2>4
<1>3. CASE ~Commit(r)
  <2>1. rel' = rel /\ met \subseteq met' BY <1>3, QuietTables
  <2> QED BY <1>1, <2>1, SameSwept
<1> QED BY <1>2, <1>3

LEMMA RequestSwept ==
  ASSUME NEW r \in Req, NEW op \in {"create", "delete"}, NEW k \in Kind, NEW a \in User, NEW b \in User,
         Types, Phase(r), Request(r, op, <<a, b, k>>)
  PROVE  Swept(r)'
<1>1. stage[r] = "idle" /\ stage'[r] = FirstStage(op, k) /\ row'[r] = <<a, b, k>> /\ SameTx(r)
  BY AfterRequest, ZenonT(60)
<1>2. todo'[r] = NoScan /\ del'[r] = {} /\ ins'[r] = {} BY <1>1 DEF Phase, Before, SameTx, Types, Sound
<1>3. stage'[r] \in {"status", "delete", "deletePair", "exists"} BY <1>1 DEF FirstStage, Kind
<1> QED BY <1>1, <1>2, <1>3 DEF Swept

LEMMA CheckSwept ==
  ASSUME NEW r \in Req, Types, Phase(r), ReadStatus(r) \/ Passes(r) \/ CheckExists(r)
  PROVE  Swept(r)'
<1>1. SameTx(r) /\ stage[r] \in {"status", "blocked", "exists"}
  BY AfterReadStatus, AfterCheckBlocked, AfterCheckExists
<1>2. ins'[r] = {} /\ del'[r] = {} BY <1>1 DEF SameTx, Types, Sound, Phase, Before
<1>3. /\ stage'[r] \in {"idle", "blocked", "exists", "insert", "commit"}
      /\ stage'[r] = "insert" => row'[r] = row[r] /\ row[r][3] # "block"
  BY AfterReadStatus, AfterCheckBlocked, AfterCheckExists DEF Phase
<1> QED BY <1>2, <1>3 DEF Swept

LEMMA TouchSwept ==
  ASSUME NEW r \in Req, Types, Swept(r), TouchProfile(r)
  PROVE  Swept(r)'
<1>1. /\ SameRequest(r) /\ todo'[r] = todo[r] /\ del'[r] = del[r] /\ ins'[r] = ins[r]
      /\ UNCHANGED <<rel, met>>
  BY AfterTouchProfile
<1>2. Two(r)' = Two(r) /\ Forth(r)' = Forth(r) /\ Backs(r)' = Backs(r)
  BY <1>1 DEF SameRequest, Two, Forth, Backs, Actor, Target
<1> QED BY <1>1, <1>2 DEF SameRequest, Swept

LEMMA InsertSwept ==
  ASSUME NEW r \in Req, Types, Swept(r), Insert(r), ~Rollback(r)
  PROVE  Swept(r)'
<1>1. /\ stage[r] = "insert" /\ stage'[r] = "commit" /\ row'[r] = row[r]
      /\ ins'[r] = {row[r]} /\ del'[r] = del[r] /\ UNCHANGED <<rel, met>>
  BY AfterInsert
<1>2. Two(r)' = Two(r) /\ Forth(r)' = Forth(r) /\ Backs(r)' = Backs(r)
  BY <1>1 DEF Two, Forth, Backs, Actor, Target
<1> QED BY <1>1, <1>2 DEF Swept

LEMMA ScanSwept ==
  ASSUME NEW r \in Req, Types, Swept(r), DeleteBegin(r) \/ DeleteRow(r)
  PROVE  Swept(r)'
<1>1. SameRequest(r) /\ ins'[r] = ins[r] /\ UNCHANGED <<rel, met>> /\ stage[r] \in Deleting
  BY AfterDeleteBegin, AfterDeleteRow DEF Types, Sound
<1>2. Two(r)' = Two(r) /\ Forth(r)' = Forth(r) /\ Backs(r)' = Backs(r)
  BY <1>1 DEF SameRequest, Two, Forth, Backs, Actor, Target
<1>3. ins'[r] = {} /\ stage'[r] = stage[r] /\ row'[r] = row[r]
  BY <1>1 DEF SameRequest, Types, Sound, Deleting
<1>4. CASE DeleteBegin(r)
  <2>1. del'[r] = del[r] /\ todo'[r] = Doomed(r) BY <1>4, AfterDeleteBegin
  <2>2. stage[r] = "delete" => Doomed(r) \subseteq {row[r]} BY DEF Doomed
  <2>3. stage[r] = "deletePair" => Doomed(r) = Forth(r) BY DEF Doomed, Pair, Forth
  <2>4. stage[r] = "deleteBack" => Doomed(r) = Backs(r) BY DEF Doomed, Pair, Backs
  <2> QED BY <1>1, <1>2, <1>3, <2>1, <2>2, <2>3, <2>4 DEF Swept, Deleting
<1>5. CASE DeleteRow(r)
  <2>1. PICK x \in todo[r] : del'[r] = del[r] \cup (rel \cap {x}) /\ todo'[r] = todo[r] \ {x}
    BY <1>5, AfterDeleteRow
  <2>2. todo[r] # NoScan BY <1>5, AfterDeleteRow
  <2>3. Forth(r) \subseteq rel /\ Backs(r) \subseteq rel BY DEF Forth, Backs
  <2>4. stage[r] = "delete" => del'[r] \subseteq {row[r]} /\ todo'[r] \subseteq {row[r]}
    BY <2>1, <2>2 DEF Swept
  <2>5. row[r] # NoRow /\ Two(r) \notin met =>
          /\ stage[r] = "deletePair" => Forth(r) \subseteq del'[r] \cup todo'[r]
          /\ stage[r] = "deleteBack" => Forth(r) \subseteq del'[r] /\ Backs(r) \subseteq del'[r] \cup todo'[r]
    BY <2>1, <2>2, <2>3 DEF Swept
  <2> QED BY <1>1, <1>2, <1>3, <2>4, <2>5 DEF Swept, Deleting
<1> QED BY <1>4, <1>5

LEMMA DeleteEndSwept ==
  ASSUME NEW r \in Req, Types, Phase(r), Swept(r), DeleteEnd(r), ~Rollback(r)
  PROVE  Swept(r)'
<1>1. stage[r] \in Deleting /\ todo[r] = {} /\ stage'[r] = AfterDelete(stage[r])
  BY AfterDeleteEnd
<1>2. todo'[r] = NoScan /\ del'[r] = del[r] /\ ins'[r] = ins[r] /\ row'[r] = row[r] /\ UNCHANGED <<rel, met>>
  BY AfterDeleteEnd
<1>3. Two(r)' = Two(r) /\ Forth(r)' = Forth(r) /\ Backs(r)' = Backs(r)
  BY <1>2 DEF Two, Forth, Backs, Actor, Target
<1>4. ins'[r] = {} /\ todo[r] # NoScan BY <1>1, <1>2, NoneAssumption DEF Types, Sound, Deleting
<1>5. \/ stage[r] = "delete" /\ stage'[r] = "commit"
      \/ stage[r] = "deletePair" /\ stage'[r] = "deleteBack"
      \/ stage[r] = "deleteBack" /\ stage'[r] = "insert" /\ row[r][3] = "block"
  BY <1>1 DEF AfterDelete, Deleting, Phase
<1> QED BY <1>1, <1>2, <1>3, <1>4, <1>5 DEF Swept

LEMMA CommitSwept ==
  ASSUME NEW r \in Req, Types, Commit(r)
  PROVE  Swept(r)'
<1>1. NoTx(r)' /\ stage'[r] \in {"idle", "notify"} BY AfterCommit
<1>2. ins'[r] = {} BY <1>1 DEF NoTx
<1> QED BY <1>1, <1>2 DEF Swept

LEMMA SweptNext ==
  ASSUME Types, Alone, \A q \in Req : Phase(q) /\ Swept(q), [Next]_vars
  PROVE  \A q \in Req : Swept(q)'
<1>1. CASE UNCHANGED rest
  <2>1. UNCHANGED <<rel, stage, row, todo, del, ins, met>> BY <1>1 DEF rest, tables, request, txn
  <2> QED BY <2>1 DEF Swept, Two, Forth, Backs, Actor, Target
<1>2. CASE \E r \in Req : Step(r)
  <2>1. PICK r \in Req : Step(r) BY <1>2
  <2>2. Swept(r)'
    <3>1. CASE Rollback(r) \/ Notify(r)
      <4>1. row'[r] = NoRow /\ stage'[r] = "idle" BY <3>1, AfterRollback, AfterNotify
      <4> QED BY <4>1 DEF Swept
    <3> QED
      BY <2>1, <3>1, RequestSwept, CheckSwept, TouchSwept, InsertSwept, ScanSwept, DeleteEndSwept, CommitSwept
      DEF Step, Asks
  <2>3. \A q \in Req \ {r} : Swept(q)' BY <2>1, OthersSwept
  <2> QED BY <2>2, <2>3
<1> QED BY <1>1, <1>2, Steps

-----------------------------------------------------------------------------
(* The inductive invariant of all of it. *)
IInv ==
  /\ Types /\ Locks /\ Counts /\ Alone
  /\ \A r \in Req : Phase(r) /\ Balanced(r) /\ InTurn(r) /\ Swept(r)
  /\ BlockExcludesFollowInTurn /\ NotifiedOnceInTurn

LEMMA IInvInit == Init => IInv
<1> SUFFICES ASSUME Init PROVE IInv OBVIOUS
<1>1. Types /\ Locks /\ Counts /\ \A r \in Req : Phase(r) /\ Balanced(r)
  BY TypesInit, LocksInit, BalancedInit
<1>2. Alone /\ \A r \in Req : InTurn(r) /\ Swept(r) BY DEF Init, Alone, InTurn, Swept
<1>3. BlockExcludesFollowInTurn BY DEF Init, BlockExcludesFollowInTurn
<1>4. NotifiedOnceInTurn
  <2>1. \A a, b \in User : notes[<<a, b>>] = 0 BY DEF Init
  <2> QED BY <2>1 DEF NotifiedOnceInTurn
<1> QED BY <1>1, <1>2, <1>3, <1>4 DEF IInv

LEMMA BlocksNext ==
  ASSUME Types, \A r \in Req : Phase(r) /\ InTurn(r), BlockExcludesFollowInTurn, [Next]_vars
  PROVE  BlockExcludesFollowInTurn'
<1>1. CASE rel' = rel /\ met \subseteq met' BY <1>1 DEF BlockExcludesFollowInTurn
<1>2. ASSUME NEW r \in Req, Commit(r) PROVE BlockExcludesFollowInTurn'
  <2>1. stage[r] = "commit" /\ met' = met /\ rel' = (rel \ del[r]) \cup ins[r] BY <1>2, AfterCommit
  <2>2. row[r] # NoRow /\ row[r] \in Row /\ ins[r] \subseteq {row[r]} BY <2>1 DEF Types, TypeOK, Sound
  <2>3. SUFFICES ASSUME NEW a \in User, NEW b \in User, {a, b} \notin met,
                        <<a, b, "block">> \in rel', <<b, a, "follow">> \in rel'
                 PROVE  FALSE
    BY <2>1 DEF BlockExcludesFollowInTurn
  <2>4. CASE <<a, b, "block">> \in ins[r]
    <3>1. row[r] = <<a, b, "block">> BY <2>2, <2>4
    <3>2. Two(r) = {a, b} /\ Back(r, "follow") = <<b, a, "follow">> /\ row[r][3] = "block"
      BY <3>1 DEF Two, Back, Actor, Target
    <3>3. <<b, a, "follow">> \notin ins[r] BY <2>2, <3>1
    <3>4. <<b, a, "follow">> \in rel \ del[r] BY <2>1, <2>3, <3>3
    <3> QED BY <2>2, <2>3, <2>4, <3>2, <3>4 DEF InTurn
  <2>5. CASE <<b, a, "follow">> \in ins[r]
    <3>1. row[r] = <<b, a, "follow">> BY <2>2, <2>5
    <3>2. Two(r) = {a, b} /\ Back(r, "block") = <<a, b, "block">> /\ row[r][3] = "follow"
      BY <3>1 DEF Two, Back, Actor, Target
    <3>3. <<a, b, "block">> \notin ins[r] BY <2>2, <3>1
    <3>4. <<a, b, "block">> \in rel BY <2>1, <2>3, <3>3
    <3> QED BY <2>2, <2>3, <2>5, <3>2, <3>4 DEF InTurn
  <2>6. CASE <<a, b, "block">> \notin ins[r] /\ <<b, a, "follow">> \notin ins[r]
    BY <2>1, <2>3, <2>6 DEF BlockExcludesFollowInTurn
  <2> QED BY <2>4, <2>5, <2>6
<1>3. CASE UNCHANGED rest BY <1>1, <1>3 DEF rest, tables
<1>4. CASE \E r \in Req : Step(r)
  <2>1. (\E r \in Req : Commit(r)) \/ (rel' = rel /\ met \subseteq met')
    BY <1>4, AfterRollback, AfterRequest, AfterReadStatus, AfterCheckBlocked, AfterCheckExists,
       AfterTouchProfile, AfterInsert, AfterDeleteBegin, AfterDeleteRow, AfterDeleteEnd, AfterNotify
    DEF Step, Asks
  <2> QED BY <1>1, <1>2, <2>1
<1> QED BY <1>3, <1>4, Steps

LEMMA NotifiedNext ==
  ASSUME Types, \A r \in Req : InTurn(r), NotifiedOnceInTurn, [Next]_vars
  PROVE  NotifiedOnceInTurn'
<1>1. CASE notes' = notes /\ met \subseteq met' BY <1>1 DEF NotifiedOnceInTurn
<1>2. ASSUME NEW r \in Req, Commit(r) PROVE NotifiedOnceInTurn'
  <2>1. met' = met /\ \A p \in User \X User : notes'[p] = 0 \/ notes'[p] = notes[p] BY <1>2, AfterCommit
  <2>2. \A a, b \in User : notes'[<<a, b>>] = 0 \/ notes'[<<a, b>>] = notes[<<a, b>>] BY <2>1
  <2> QED BY <2>1, <2>2 DEF NotifiedOnceInTurn
<1>3. ASSUME NEW r \in Req, Notify(r) PROVE NotifiedOnceInTurn'
  <2>1. /\ stage[r] = "notify" /\ met' = met
        /\ \A p \in User \X User :
             notes'[p] = notes[p] \/ (p = <<Actor(r), Target(r)>> /\ notes'[p] <= notes[p] + 1)
    BY <1>3, AfterNotify
  <2>2. row[r] # NoRow BY <2>1 DEF Types, Sound
  <2>3. ASSUME NEW a \in User, NEW b \in User, {a, b} \notin met PROVE notes'[<<a, b>>] <= 1
    <3>1. <<a, b>> \in User \X User OBVIOUS
    <3>2. CASE notes'[<<a, b>>] = notes[<<a, b>>] BY <2>3, <3>2 DEF NotifiedOnceInTurn
    <3>3. CASE notes'[<<a, b>>] # notes[<<a, b>>]
      <4>1. <<a, b>> = <<Actor(r), Target(r)>> /\ notes'[<<a, b>>] <= notes[<<a, b>>] + 1 BY <2>1, <3>1, <3>3
      <4>2. Two(r) = {a, b} BY <4>1 DEF Two
      <4>3. notes[<<Actor(r), Target(r)>>] = 0 BY <2>1, <2>2, <2>3, <4>2 DEF InTurn
      <4> QED BY <4>1, <4>3
    <3> QED BY <3>2, <3>3
  <2> QED BY <2>1, <2>3 DEF NotifiedOnceInTurn
<1>4. CASE UNCHANGED rest BY <1>1, <1>4 DEF rest, tables
<1>5. CASE \E r \in Req : Step(r)
  <2>1. (\E r \in Req : Commit(r) \/ Notify(r)) \/ (notes' = notes /\ met \subseteq met')
    BY <1>5, AfterRollback, AfterRequest, AfterReadStatus, AfterCheckBlocked, AfterCheckExists,
       AfterTouchProfile, AfterInsert, AfterDeleteBegin, AfterDeleteRow, AfterDeleteEnd
    DEF Step, Asks
  <2> QED BY <1>1, <1>2, <1>3, <2>1
<1> QED BY <1>4, <1>5, Steps

LEMMA IInvNext == IInv /\ [Next]_vars => IInv'
<1> SUFFICES ASSUME IInv, [Next]_vars PROVE IInv' OBVIOUS
<1>1. Types' /\ Locks' /\ Alone' BY TypesNext, LocksNext, AloneNext DEF IInv
<1>2. \A r \in Req : Phase(r)' BY PhaseNext DEF IInv
<1>3. \A r \in Req : Balanced(r)' BY BalancedNext DEF IInv
<1>4. Counts' BY CountsNext DEF IInv
<1>5. \A r \in Req : InTurn(r)' /\ Swept(r)' BY InTurnNext, SweptNext DEF IInv
<1>6. BlockExcludesFollowInTurn' /\ NotifiedOnceInTurn' BY BlocksNext, NotifiedNext DEF IInv
<1> QED BY <1>1, <1>2, <1>3, <1>4, <1>5, <1>6 DEF IInv

LEMMA CountsAreMatches == Counts => CountsMatchRows
<1> SUFFICES ASSUME Counts, NEW u \in User
             PROVE  /\ count[u]["followers"] = Cardinality({x \in rel : x[2] = u /\ x[3] = "follow"})
                    /\ count[u]["following"] = Cardinality({x \in rel : x[1] = u /\ x[3] = "follow"})
  BY DEF CountsMatchRows
<1>1. Following(u, "followers") = {x \in rel : x[2] = u /\ x[3] = "follow"} BY DEF Following, Hits
<1>2. Following(u, "following") = {x \in rel : x[1] = u /\ x[3] = "follow"} BY DEF Following, Hits
<1>3. "followers" \in Field /\ "following" \in Field BY DEF Field
<1> QED BY <1>1, <1>2, <1>3 DEF Counts

(* The invariant holds in every reachable state. *)
THEOREM Invariance == Spec => []IInv
  BY IInvInit, IInvNext, PTL DEF Spec

(* The counters of update_relationship_counts are the numbers of committed follows, however
   many follows, unfollows and blocks race, fail or are aborted. *)
THEOREM CountsMatchRowsHolds == Spec => []CountsMatchRows
<1>1. IInv => CountsMatchRows BY CountsAreMatches DEF IInv
<1> QED BY <1>1, Invariance, PTL

(* Who is blocked does not follow the blocker, when the requests about the two came one after
   the other, whatever others do at the time. *)
THEOREM BlockExcludesFollowInTurnHolds == Spec => []BlockExcludesFollowInTurn
<1>1. IInv => BlockExcludesFollowInTurn BY DEF IInv
<1> QED BY <1>1, Invariance, PTL

(* A follow notifies once, when the requests about the two came one after the other. *)
THEOREM NotifiedOnceInTurnHolds == Spec => []NotifiedOnceInTurn
<1>1. IInv => NotifiedOnceInTurn BY DEF IInv
<1> QED BY <1>1, Invariance, PTL
-----------------------------------------------------------------------------
(* The refinement: a COMMIT is a step of FollowGraph or none, and a request that meets another
   about its pair is a race. *)
LEMMA GraphSize == ASSUME NEW S PROVE Graph!Cardinality(S) = Cardinality(S)
  BY DEF Graph!Cardinality, Cardinality

LEMMA TallyOf ==
  ASSUME NEW S, NEW c \in [User -> [Field -> Int]],
         \A u \in User, f \in Field : c[u][f] = Cardinality({x \in S : Hits(x, u, f)})
  PROVE  c = Graph!Tally(S)
<1>1. ASSUME NEW u, NEW f
      PROVE  {x \in S : x[3] = "follow" /\ u = IF f = "followers" THEN x[2] ELSE x[1]} = {x \in S : Hits(x, u, f)}
  BY DEF Hits
<1>2. Graph!Tally(S) = [u \in User |-> [f \in Field |-> Cardinality({x \in S : Hits(x, u, f)})]]
  BY <1>1, GraphSize DEF Graph!Tally, Field
<1> QED BY <1>2

LEMMA CountIsTally == Types /\ Counts => count = Graph!Tally(rel)
  BY TallyOf DEF Types, TypeOK, Counts, Following

LEMMA CountStaysTally == Types' /\ Counts' => count' = Graph!Tally(rel')
  BY TallyOf DEF Types, TypeOK, Counts, Following

LEMMA GraphBegins == ASSUME Init PROVE Graph!Init
<1>1. Types /\ Counts BY TypesInit, BalancedInit
<1>2. count = Graph!Tally(rel) BY <1>1, CountIsTally
<1> QED BY <1>2 DEF Init, Graph!Init

LEMMA GraphRaces ==
  ASSUME NEW r \in Req, Types, Asks(r)
  PROVE  Graph!Next \/ (rel' = rel /\ met' = met)
<1>1. PICK op \in {"create", "delete"}, k \in Kind, a, b \in User : Request(r, op, <<a, b, k>>) BY DEF Asks
<1>2. UNCHANGED <<rel, count>> BY <1>1 DEF Request, tables
<1>3. met' = met \/ met' = met \cup {{a, b}} BY <1>1 DEF Request
<1>4. met' = met \cup {{a, b}} => Graph!Race(a, b) BY <1>2 DEF Graph!Race
<1> QED BY <1>2, <1>3, <1>4 DEF Graph!Next

LEMMA GraphCommits ==
  ASSUME NEW r \in Req, Types, Types', Counts', Locks, Phase(r), InTurn(r), Swept(r), Commit(r)
  PROVE  Graph!Next \/ (rel' = rel /\ met' = met)
<1>1. stage[r] = "commit" /\ met' = met /\ rel' = (rel \ del[r]) \cup ins[r] BY AfterCommit
<1> SUFFICES ASSUME rel' # rel PROVE Graph!Next BY <1>1
<1>2. row[r] \in Row /\ Actor(r) # Target(r) /\ ins[r] \in {{}, {row[r]}} /\ row[r] # NoRow
  BY <1>1, ZenonT(60) DEF Types, TypeOK, Sound
<1>3. del[r] \subseteq rel /\ ins[r] \cap rel \subseteq del[r] BY DEF Locks
<1>4. count' = Graph!Tally(rel') BY CountStaysTally
<1>5. Graph!Become(rel') BY <1>1, <1>4 DEF Graph!Become
<1>6. PICK a \in User, b \in User, k \in Kind : row[r] = <<a, b, k>> /\ a = Actor(r) /\ b = Target(r) /\ a # b
  BY <1>2 DEF Row, Actor, Target
<1>7. Two(r) = {a, b} BY <1>6 DEF Two
<1>8. CASE ins[r] = {}
  <2>1. del[r] \subseteq {row[r]} BY <1>1, <1>8 DEF Swept
  <2>2. CASE del[r] = {} BY <1>1, <1>8, <2>2
  <2>3. CASE del[r] = {row[r]}
    <3>1. rel' = rel \ {row[r]} /\ row[r] \in rel BY <1>1, <1>3, <1>8, <2>3
    <3>2. Graph!Remove(row[r]) BY <1>5, <3>1 DEF Graph!Remove
    <3> QED BY <3>1, <3>2 DEF Graph!Next
  <2> QED BY <2>1, <2>2, <2>3
<1>9. CASE ins[r] = {row[r]} /\ k # "block"
  <2>1. del[r] = {} BY <1>2, <1>6, <1>9 DEF Swept
  <2>2. <<a, b, k>> \notin rel /\ rel' = rel \cup {<<a, b, k>>} BY <1>1, <1>3, <1>6, <1>9, <2>1
  <2>3. k = "follow" /\ {a, b} \notin met => <<b, a, "block">> \notin rel
    BY <1>2, <1>6, <1>7, <1>9 DEF InTurn, Back
  <2>4. Graph!Create(a, b, k) BY <1>5, <1>6, <2>2, <2>3 DEF Graph!Create
  <2>5. k = "follow" \/ k = "mute" BY <1>9 DEF Kind
  <2> QED BY <2>4, <2>5 DEF Graph!Next
<1>10. CASE ins[r] = {row[r]} /\ k = "block"
  <2> DEFINE between == {x \in rel : {x[1], x[2]} = {a, b}}
  <2>1. del[r] \subseteq between BY <1>3, <1>7 DEF Phase, Between, Two
  <2>2. {a, b} \notin met => del[r] = between
    <3>1. SUFFICES ASSUME {a, b} \notin met PROVE between \subseteq del[r] BY <2>1
    <3>2. Forth(r) \cup Backs(r) \subseteq del[r] BY <1>2, <1>6, <1>7, <1>10, <3>1 DEF Swept
    <3>3. \A x \in between : <<x[1], x[2]>> = <<a, b>> \/ <<x[1], x[2]>> = <<b, a>> BY <1>6
    <3> QED BY <1>6, <3>2, <3>3 DEF Forth, Backs
  <2>3. <<a, b, "block">> \notin rel \ del[r] BY <1>3, <1>6, <1>10
  <2>4. rel' = (rel \ del[r]) \cup {<<a, b, "block">>} BY <1>1, <1>6, <1>10
  <2>5. del[r] \in IF {a, b} \in met THEN SUBSET between ELSE {between} BY <2>1, <2>2
  <2>6. Graph!Become((rel \ del[r]) \cup {<<a, b, "block">>}) BY <1>5, <2>4
  <2>7. Graph!Block(a, b)
    <3> HIDE DEF between
    <3>1. \E lost \in IF {a, b} \in met THEN SUBSET between ELSE {between} :
            /\ <<a, b, "block">> \notin rel \ lost
            /\ Graph!Become((rel \ lost) \cup {<<a, b, "block">>})
      BY <2>3, <2>5, <2>6
    <3> QED BY <1>6, <3>1 DEF Graph!Block, between
  <2> QED BY <2>7 DEF Graph!Next
<1> QED BY <1>2, <1>8, <1>9, <1>10

LEMMA GraphStep == IInv /\ IInv' /\ [Next]_vars => [Graph!Next]_<<rel, count, met>>
<1> SUFFICES ASSUME IInv, IInv', [Next]_vars, ~(rel' = rel /\ met' = met) PROVE Graph!Next
  BY CountIsTally, CountStaysTally DEF IInv
<1>1. CASE UNCHANGED rest BY <1>1 DEF rest, tables
<1>2. CASE \E r \in Req : Step(r)
  <2>1. PICK r \in Req : Step(r) BY <1>2 DEF IInv
  <2>2. CASE Commit(r) BY <2>2, GraphCommits DEF IInv
  <2>3. CASE Asks(r) BY <2>3, GraphRaces DEF IInv
  <2>4. CASE ~Commit(r) /\ ~Asks(r) BY <2>1, <2>4, QuietTables DEF IInv
  <2> QED BY <2>2, <2>3, <2>4
<1> QED BY <1>1, <1>2, Steps

(* However the statements of requests interleave, the tables of follows, blocks and mutes go
   through the steps of FollowGraph: one row comes or goes with its counters, or a block takes
   the rows of its pair with it. *)
THEOREM ImplementsGraphHolds == Spec => ImplementsGraph
<1>1. Init => Graph!Init BY GraphBegins
<1> QED BY <1>1, GraphStep, Invariance, PTL DEF Spec, ImplementsGraph, Graph!Spec
-----------------------------------------------------------------------------
(* Who can go on: the guards of Work, without the ENABLED that no prover here knows. A
   request has a statement to run and nobody in its way, or the database fails it. *)
Ready(r) ==
  \/ stage[r] \in {"status", "notify"} /\ Spare
  \/ stage[r] \in {"blocked", "exists"} /\ Spare
  \/ stage[r] \in {"delete", "deletePair"} /\ r \notin conn /\ Spare
  \/ work[r] # <<>> /\ holder[Head(work[r])[1]] \in {Nobody, r}
  \/ stage[r] = "insert" /\ work[r] = <<>> /\ ~Reserved(r, row[r])
  \/ stage[r] \in Deleting /\ r \in conn /\ work[r] = <<>> /\ todo[r] = NoScan
  \/ todo[r] # NoScan /\ \E x \in todo[r] : \A q \in Req \ {r} : x \notin del[q]
  \/ todo[r] = {}
  \/ stage[r] = "commit" /\ work[r] = <<>>
  \/ InDeadlock(r)

SomebodyReady == (\E r \in Req : stage[r] # "idle") => \E r \in Req : Ready(r)

PoolTaken == Cardinality(AskForMore) = pool

(* The locks of profile rows belong to transactions. *)
Held == \A u \in User : holder[u] \in Req => stage[holder[u]] \notin Before

LEMMA HeldInit == Init => Held
  BY NoneAssumption DEF Init, Held

LEMMA EndHeld ==
  ASSUME NEW r \in Req, Types, Held, EndTx(r), Others(r)
  PROVE  Held'
<1> SUFFICES ASSUME NEW u \in User, holder'[u] \in Req PROVE stage'[holder'[u]] \notin Before
  BY DEF Held
<1>1. holder'[u] = holder[u] /\ holder[u] # r BY NoneAssumption DEF EndTx
<1> QED BY <1>1 DEF Held, Others, Same

LEMMA KeepHeld ==
  ASSUME NEW r \in Req, Types, Held, holder' = holder, Others(r),
         stage[r] \in Before \/ stage'[r] \notin Before
  PROVE  Held'
  BY DEF Held, Others, Same

LEMMA TouchHeld ==
  ASSUME NEW r \in Req, Types, Phase(r), Held, TouchProfile(r)
  PROVE  Held'
<1>1. stage' = stage /\ stage[r] \notin Before BY DEF TouchProfile, request, Phase
<1>2. \A u \in User : holder'[u] \in {holder[u], r} BY DEF TouchProfile, Types, TypeOK
<1> QED BY <1>1, <1>2 DEF Held

LEMMA HeldNext ==
  ASSUME Types, \A r \in Req : Phase(r), Held, [Next]_vars
  PROVE  Held'
<1>1. CASE UNCHANGED rest BY <1>1 DEF rest, request, txn, Held
<1>2. CASE \E r \in Req : Step(r)
  <2>1. PICK r \in Req : Step(r) BY <1>2
  <2>2. Others(r) BY <2>1, StepOthers
  <2>3. CASE Rollback(r) \/ Commit(r) BY <2>2, <2>3, EndHeld DEF Rollback, Commit
  <2>4. CASE Asks(r) \/ ReadStatus(r) \/ Passes(r) \/ CheckExists(r) \/ Notify(r)
    <3>1. stage[r] \in Before
      BY <2>4, AfterRequest, AfterReadStatus, AfterCheckBlocked, AfterCheckExists, AfterNotify DEF Asks, Before
    <3>2. holder' = holder
      BY <2>4 DEF Asks, Request, ReadStatus, Passes, CheckBlocked, CheckExists, Notify, txn
    <3> QED BY <2>2, <3>1, <3>2, KeepHeld
  <2>5. CASE TouchProfile(r) BY <2>5, TouchHeld
  <2>6. CASE (Insert(r) \/ DeleteEnd(r)) /\ ~Rollback(r)
    <3>1. stage'[r] \notin Before
      BY <2>6, AfterInsert, AfterDeleteEnd DEF AfterDelete, Deleting, Before
    <3>2. holder' = holder BY <2>6 DEF Insert, DeleteEnd
    <3> QED BY <2>2, <3>1, <3>2, KeepHeld
  <2>7. CASE DeleteBegin(r) \/ DeleteRow(r)
    <3>1. stage'[r] \notin Before \/ stage[r] \in Before
      BY <2>7, AfterDeleteBegin, AfterDeleteRow DEF SameRequest
    <3>2. holder' = holder BY <2>7 DEF DeleteBegin, DeleteRow
    <3> QED BY <2>2, <3>1, <3>2, KeepHeld
  <2> QED BY <2>1, <2>3, <2>4, <2>5, <2>6, <2>7 DEF Step
<1> QED BY <1>1, <1>2, Steps

(* The connections: as many as the pool has at most, and whoever has a lock, a reservation
   or a statement in a transaction has one. *)
InTx == {"blocked", "exists", "insert", "commit"} \cup Deleting
Late == {"deleteBack", "insert", "commit"}

Connected(r) ==
  /\ r \in conn => stage[r] \in InTx
  /\ stage[r] \in Late \/ todo[r] # NoScan \/ del[r] # {} => r \in conn

Conn ==
  /\ Cardinality(conn) <= pool
  /\ \A r \in Req : Connected(r)
  /\ \A u \in User : holder[u] \in Req => holder[u] \in conn

LEMMA ConnInit == Init => Conn
<1> SUFFICES ASSUME Init PROVE Conn OBVIOUS
<1>1. Cardinality(conn) = 0 /\ pool \in Nat BY FS_EmptySet, PoolAssumption DEF Init
<1>2. \A u \in User : holder[u] \notin Req BY NoneAssumption DEF Init
<1> QED BY <1>1, <1>2 DEF Init, Conn, Connected, Late

LEMMA SameConnected ==
  ASSUME NEW r \in Req, NEW q \in Req \ {r}, Connected(q), Others(r), q \in conn' <=> q \in conn
  PROVE  Connected(q)'
  BY DEF Connected, Others, Same

(* the transaction of a request has ended *)
LEMMA EndConn ==
  ASSUME NEW r \in Req, IsFiniteSet(Req), Types, Conn, EndTx(r), Others(r), NoTx(r)',
         stage'[r] \in {"idle", "notify"}
  PROVE  Conn'
<1>1. conn' = conn \ {r} /\ pool' = pool BY DEF EndTx
<1>2. Cardinality(conn') <= pool'
  <2>1. conn \subseteq Req /\ pool \in Nat BY PoolAssumption DEF Types, TypeOK
  <2>2. IsFiniteSet(conn) BY <2>1, FS_Subset
  <2>3. Cardinality(conn') <= Cardinality(conn) BY <1>1, <2>2, FS_Subset
  <2>4. IsFiniteSet(conn') BY <1>1, <2>2, FS_Subset
  <2>5. Cardinality(conn) \in Nat /\ Cardinality(conn') \in Nat BY <2>2, <2>4, FS_CardinalityType
  <2> QED BY <1>1, <2>1, <2>3, <2>5 DEF Conn
<1>3. Connected(r)' BY <1>1 DEF Connected, NoTx, Late
<1>4. \A q \in Req \ {r} : Connected(q)' BY <1>1, SameConnected DEF Conn
<1>5. \A u \in User : holder'[u] \in Req => holder'[u] \in conn'
  BY <1>1, NoneAssumption DEF EndTx, Conn
<1> QED BY <1>2, <1>3, <1>4, <1>5 DEF Conn

(* a request goes on, in a transaction or outside of one *)
LEMMA KeepConn ==
  ASSUME NEW r \in Req, Conn, Others(r), pool' = pool, conn' = conn, Connected(r)',
         \A u \in User : holder'[u] = holder[u] \/ (holder'[u] = r /\ r \in conn)
  PROVE  Conn'
<1>1. \A q \in Req \ {r} : Connected(q)' BY SameConnected DEF Conn
<1> QED BY <1>1 DEF Conn

LEMMA BeginConn ==
  ASSUME NEW r \in Req, IsFiniteSet(Req), Types, Conn, BeginTx(r)
  PROVE  Conn'
<1>1. conn' = conn \cup {r} /\ pool' = pool /\ r \notin conn /\ Cardinality(conn) < pool
  BY DEF BeginTx, Spare
<1>2. UNCHANGED <<stage, todo, del, holder>> BY DEF BeginTx, request, txn
<1>3. Cardinality(conn') <= pool'
  <2>1. conn \subseteq Req /\ pool \in Nat BY PoolAssumption DEF Types, TypeOK
  <2>2. IsFiniteSet(conn) BY <2>1, FS_Subset
  <2>3. Cardinality(conn') = Cardinality(conn) + 1 /\ Cardinality(conn) \in Nat
    BY <1>1, <2>2, FS_AddElement, FS_CardinalityType
  <2> QED BY <1>1, <2>1, <2>3
<1>4. stage[r] \in InTx BY DEF BeginTx, InTx, Deleting
<1> QED BY <1>1, <1>2, <1>3, <1>4 DEF Conn, Connected

LEMMA ConnNext ==
  ASSUME IsFiniteSet(Req), Types, \A r \in Req : Phase(r), Conn, [Next]_vars
  PROVE  Conn'
<1>1. CASE UNCHANGED vars BY <1>1 DEF vars, request, txn, Conn, Connected
<1>2. ASSUME NEW r \in Req, BeginTx(r) PROVE Conn' BY <1>2, BeginConn
<1>3. ASSUME NEW r \in Req, Step(r) PROVE Conn'
  <2>1. Others(r) /\ Connected(r) BY <1>3, StepOthers DEF Conn
  <2>2. CASE Rollback(r) \/ Commit(r)
    BY <2>1, <2>2, AfterRollback, AfterCommit, EndConn DEF Rollback, Commit
  <2>3. CASE Asks(r) \/ ReadStatus(r) \/ Notify(r)
    <3>1. UNCHANGED <<pool, conn, holder>> BY <2>3 DEF Asks, Request, ReadStatus, Notify, txn
    <3>2. /\ stage[r] \in {"idle", "status", "notify"} /\ SameTx(r)
          /\ stage'[r] \in {"idle", "status", "blocked", "exists", "delete", "deletePair"}
      BY <2>3, AfterRequest, AfterReadStatus, AfterNotify DEF Asks, FirstStage, Kind
    <3>3. r \notin conn BY <2>1, <3>2 DEF Connected, InTx, Deleting
    <3>4. Connected(r)' BY <2>1, <3>1, <3>2, <3>3 DEF Connected, SameTx, Late
    <3> QED BY <2>1, <3>1, <3>4, KeepConn
  <2>4. CASE Passes(r) \/ CheckExists(r)
    <3>1. UNCHANGED <<pool, conn, holder>> /\ r \in conn
      BY <2>4 DEF Passes, CheckBlocked, CheckExists, txn
    <3>2. stage'[r] \in {"exists", "insert", "commit"} BY <2>4, AfterCheckBlocked, AfterCheckExists
    <3>3. Connected(r)' BY <3>1, <3>2 DEF Connected, InTx
    <3> QED BY <2>1, <3>1, <3>3, KeepConn
  <2>5. CASE TouchProfile(r)
    <3>1. UNCHANGED <<pool, conn>> /\ work[r] # <<>> /\ SameRequest(r) /\ todo'[r] = todo[r] /\ del'[r] = del[r]
      BY <2>5, AfterTouchProfile DEF TouchProfile
    <3>2. \A u \in User : holder'[u] \in {holder[u], r} BY <2>5 DEF TouchProfile, Types, TypeOK
    <3>3. stage[r] \in Late
      BY <3>1 DEF Phase, Before, Types, TypeOK, Stage, Late
    <3>4. r \in conn /\ Connected(r)' BY <2>1, <3>1, <3>3 DEF Connected, SameRequest
    <3> QED BY <2>1, <3>1, <3>2, <3>4, KeepConn
  <2>6. CASE (Insert(r) \/ DeleteEnd(r)) /\ ~Rollback(r)
    <3>1. UNCHANGED <<pool, conn, holder>> BY <2>6 DEF Insert, DeleteEnd
    <3>2. r \in conn
      BY <2>1, <2>6, NoneAssumption, AfterInsert, AfterDeleteEnd DEF Connected, Late
    <3>3. stage'[r] \in Late
      BY <2>6, AfterInsert, AfterDeleteEnd DEF AfterDelete, Deleting, Late
    <3>4. Connected(r)' BY <3>1, <3>2, <3>3 DEF Connected, InTx, Late, Deleting
    <3> QED BY <2>1, <3>1, <3>4, KeepConn
  <2>7. CASE DeleteBegin(r) \/ DeleteRow(r)
    <3>1. UNCHANGED <<pool, conn, holder>> BY <2>7 DEF DeleteBegin, DeleteRow
    <3>2. r \in conn
      <4>1. CASE DeleteBegin(r) BY <4>1 DEF DeleteBegin
      <4>2. CASE DeleteRow(r) BY <2>1, <4>2, AfterDeleteRow DEF Connected
      <4> QED BY <2>7, <4>1, <4>2
    <3>3. stage'[r] = stage[r] BY <2>7, AfterDeleteBegin, AfterDeleteRow DEF SameRequest
    <3>4. Connected(r)' BY <2>1, <3>1, <3>2, <3>3 DEF Connected
    <3> QED BY <2>1, <3>1, <3>4, KeepConn
  <2> QED BY <1>3, <2>2, <2>3, <2>4, <2>5, <2>6, <2>7 DEF Step
<1> QED BY <1>1, <1>2, <1>3, StepOrBegin

(* A transaction that is not ready and asks for no second connection waits for one that
   does not ask for one either: whoever asks has no lock yet. *)
Holding == conn \ AskForMore

LEMMA UnreadyWaits ==
  ASSUME NEW r \in Holding, Types, Held, Conn, \A q \in Req : Phase(q), ~Ready(r)
  PROVE  \E q \in Holding : WaitsFor(r, q)
<1>1. r \in Req /\ stage[r] \in {"insert", "commit"} \cup Deleting
  BY DEF Holding, AskForMore, Conn, Connected, InTx, Types, TypeOK
<1>2. ASSUME NEW q \in Req, stage[q] \notin Before, q \in conn PROVE q \in Holding
  BY <1>2 DEF Holding, AskForMore, Before
<1>3. ASSUME NEW q \in Req, ins[q] \cup del[q] # {} PROVE q \in Holding
  <2>1. stage[q] \notin Before BY <1>3 DEF Types, Sound, Phase, Before
  <2>2. q \in conn
    <3>1. ins[q] # {} => stage[q] \in Late BY DEF Types, Sound, Late
    <3> QED BY <1>3, <3>1 DEF Conn, Connected
  <2> QED BY <1>2, <2>1, <2>2
<1>4. CASE work[r] # <<>>
  <2>1. work[r] \in Seq(User \X Field \X {-1, 1}) BY <1>1 DEF Types, TypeOK
  <2> DEFINE u == Head(work[r])[1]
  <2>2. u \in User BY <1>4, <2>1
  <2>3. holder[u] \in Req /\ holder[u] # r BY <1>4, <2>2 DEF Ready, Types, TypeOK
  <2>4. holder[u] \in Holding BY <1>2, <2>2, <2>3 DEF Held, Conn
  <2> QED BY <1>4, <2>3, <2>4 DEF WaitsFor
<1>5. CASE work[r] = <<>> /\ stage[r] = "insert"
  <2>1. PICK q \in Req \ {r} : row[r] \in ins[q] \cup del[q] BY <1>5 DEF Ready, Reserved
  <2>2. q \in Holding BY <1>3, <2>1
  <2> QED BY <1>5, <2>1, <2>2 DEF WaitsFor
<1>6. CASE work[r] = <<>> /\ stage[r] \in Deleting
  <2>1. r \in conn BY DEF Holding
  <2>2. todo[r] # NoScan /\ todo[r] # {} BY <1>6, <2>1 DEF Ready
  <2>3. PICK x \in todo[r] : TRUE BY <2>2
  <2>4. PICK q \in Req \ {r} : x \in del[q] BY <2>2, <2>3 DEF Ready
  <2>5. q \in Holding BY <1>3, <2>4
  <2> QED BY <2>2, <2>4, <2>5 DEF WaitsFor
<1> QED BY <1>1, <1>4, <1>5, <1>6 DEF Ready

(* Among finitely many requests, a smallest set of requests that wait for one another
   is a deadlock. *)
Closed(S) == \A q \in S : \E p \in S : WaitsFor(q, p)

LEMMA WaitersDeadlock ==
  ASSUME NEW W \in SUBSET Req, IsFiniteSet(W), W # {}, Closed(W)
  PROVE  \E r \in Req : InDeadlock(r)
<1> DEFINE T == {S \in SUBSET W : S # {} /\ Closed(S)}
<1>1. T # {} /\ T \subseteq FiniteSubsetsOf(W)
  BY FS_Subset DEF FiniteSubsetsOf
<1>2. PICK S \in T : \A U \in T : <<U, S>> \notin StrictSubsetOrdering(W)
  <2> HIDE DEF T
  <2> QED BY <1>1, FS_StrictSubsetOrderingWellFounded, WFMin
<1>3. ASSUME NEW p \in S, \A q \in S : ~WaitsFor(q, p) PROVE FALSE
  <2>1. Closed(S \ {p}) BY <1>3 DEF Closed
  <2>2. PICK q \in S : WaitsFor(p, q) BY DEF Closed
  <2>3. q # p BY <2>2 DEF WaitsFor
  <2>4. S \ {p} \in T BY <2>1, <2>2, <2>3
  <2> QED BY <1>2, <2>4 DEF StrictSubsetOrdering
<1>4. PICK r \in S : TRUE OBVIOUS
<1>5. InDeadlock(r) BY <1>3, <1>4 DEF InDeadlock, Closed
<1> QED BY <1>4, <1>5

(* What the invariant says of a halt: when nobody is ready, every connection belongs to a
   follow or mute that asks for a second one. *)
LEMMA HaltIsThePool ==
  ASSUME IsFiniteSet(Req), IInv, Held, Conn, \E r \in Req : stage[r] # "idle", \A r \in Req : ~Ready(r)
  PROVE  PoolTaken
<1>1. Types /\ \A r \in Req : Phase(r) BY DEF IInv
<1>2. conn \subseteq Req /\ pool \in Nat /\ IsFiniteSet(conn) BY <1>1, PoolAssumption, FS_Subset DEF Types, TypeOK
<1>3. Holding = {}
  <2> SUFFICES ASSUME Holding # {} PROVE FALSE OBVIOUS
  <2>1. Holding \in SUBSET Req /\ IsFiniteSet(Holding) BY <1>2, FS_Subset DEF Holding
  <2>2. Closed(Holding) BY <1>1, <2>1, UnreadyWaits DEF Closed
  <2>3. \E r \in Req : InDeadlock(r) BY <2>1, <2>2, WaitersDeadlock
  <2> QED BY <2>3 DEF Ready
<1>4. AskForMore = conn BY <1>3 DEF Holding, AskForMore
<1>5. ~Spare
  <2> SUFFICES ASSUME Spare PROVE FALSE OBVIOUS
  <2>1. PICK r \in Req : stage[r] # "idle" OBVIOUS
  <2>2. CASE r \in conn BY <1>4, <2>2 DEF AskForMore, Ready
  <2>3. CASE r \notin conn
    <3>1. stage[r] \in {"status", "blocked", "exists", "delete", "deletePair", "notify"}
      BY <1>1, <2>1, <2>3 DEF Conn, Connected, Late, Types, TypeOK, Stage
    <3> QED BY <2>3, <3>1 DEF Ready
  <2> QED BY <2>2, <2>3
<1>6. Cardinality(conn) \in Nat BY <1>2, FS_CardinalityType
<1> QED BY <1>2, <1>4, <1>5, <1>6 DEF Conn, Spare, PoolTaken

(* Follows, blocks and mutes come to a halt in one way only, for any number of them and any
   DB_MAX_OPEN_CONNS: every connection belongs to a follow or mute that asks for a second one
   in Exists. Otherwise some request has a statement that nothing is in the way of, or is in
   a cycle of locks, which the database ends; no request that waits for a connection has a
   lock that others wait for. *)
THEOREM OnlyThePoolStops == ASSUME IsFiniteSet(Req) PROVE Spec => [](SomebodyReady \/ PoolTaken)
<1>1. Init => Held /\ Conn BY HeldInit, ConnInit
<1>2. IInv /\ Held /\ Conn /\ [Next]_vars => Held' /\ Conn' BY HeldNext, ConnNext DEF IInv
<1>3. IInv /\ Held /\ Conn => SomebodyReady \/ PoolTaken BY HaltIsThePool DEF SomebodyReady
<1> QED BY <1>1, <1>2, <1>3, Invariance, PTL DEF Spec
=============================================================================
