------------------------- MODULE AuthSessionsProofs -------------------------
(***************************************************************************)
(* Proofs about AuthSessions, for any sets of tokens, families, devices    *)
(* and requests.                                                           *)
(***************************************************************************)
EXTENDS AuthSessions, TLAPS

InTx == {"insert", "rotate", "commit"}
Reading == {"select", "lock"}
Revoking == {"revoke", "revoking"}

(* what a request works on, at each of its statements *)
RequestInv(r) ==
  /\ pc[r] # "idle" => tok[r] \in Token /\ state[tok[r]] # "none"
  /\ pc[r] \in InTx \cup Reading => op[r] \in {"refresh", "replay"}
  /\ pc[r] \in Reading => op[r] = "replay"
  /\ pc[r] \in Revoking => op[r] \in {"logout", "theft"}
  /\ pc[r] \in InTx =>
       cur[r] \in Token /\ state[cur[r]] # "none" /\ family[cur[r]] = family[tok[r]]

(* the successor of a rotation is nobody else's and not in the table yet *)
SuccessorInv(r) ==
  /\ pc[r] \in {"rotate", "commit"} => new[r] \in Token
  /\ new[r] \in Token => state[new[r]] = "none"
  /\ \A q \in Req : new[r] \in Token /\ new[q] = new[r] => q = r

(* a row lock belongs to a transaction that retires the row *)
LockInv(r) ==
  /\ \A t \in Token : lock[t] = r => pc[r] \in InTx /\ cur[r] = t
  /\ (pc[r] = "commit" \/ (op[r] = "replay" /\ pc[r] \in InTx)) =>
       state[cur[r]] = "active" /\ lock[cur[r]] = r

(* a statement's snapshot holds rows of the family it works on *)
SnapInv(r) ==
  /\ snap[r] # {} => pc[r] \in {"lock", "revoking"}
  /\ \A t \in snap[r] : state[t] # "none" /\ family[t] = family[tok[r]]

IInv ==
  /\ TypeOK
  /\ \A r \in Req : RequestInv(r) /\ SuccessorInv(r) /\ LockInv(r) /\ SnapInv(r)
  /\ AtMostOneActive
  /\ RotationKeepsSession
-----------------------------------------------------------------------------
LocalsOK ==
  /\ pc \in [Req -> Step]
  /\ op \in [Req -> Operation]
  /\ tok \in [Req -> Token \cup {NoToken}]
  /\ ua \in [Req -> Agent]
  /\ snap \in [Req -> SUBSET Token]
  /\ cur \in [Req -> Token \cup {NoToken}]
  /\ new \in [Req -> Token \cup {NoToken}]
  /\ tries \in [Req -> 0 .. MaxTries - 1]
  /\ reply \in Response \cup {NoReply}

(* Answering a request leaves its variables well typed. *)
LEMMA RespondTyped ==
  ASSUME LocalsOK, NEW r \in Req, NEW o \in Operation, NEW t \in Token,
         NEW c \in Code, Respond(r, o, t, c)
  PROVE  LocalsOK'
BY NoAgentAssumption DEF LocalsOK, Respond, Step, Operation, Response, MaxTries

(* Going on with another statement leaves them well typed. *)
LEMMA EnterTyped ==
  ASSUME LocalsOK, NEW r \in Req, NEW o \in Operation, NEW t \in Token,
         NEW a \in Agent, NEW p \in Step, Enter(r, o, t, a, p),
         snap' \in [Req -> SUBSET Token], cur' \in [Req -> Token \cup {NoToken}],
         new' \in [Req -> Token \cup {NoToken}], tries' \in [Req -> 0 .. MaxTries - 1]
  PROVE  LocalsOK'
BY DEF LocalsOK, Enter

(* The same for the operation the request is in. *)
LEMMA AnswerTyped ==
  ASSUME LocalsOK, NEW r \in Req, tok[r] \in Token, NEW c \in Code, Answer(r, c)
  PROVE  LocalsOK'
BY NoAgentAssumption DEF LocalsOK, Answer, Respond, Step, Operation, Response, MaxTries

(* Goto is Enter with the operation, token and header it has. *)
LEMMA GotoTyped ==
  ASSUME LocalsOK, NEW r \in Req, NEW p \in Step, Goto(r, p),
         snap' \in [Req -> SUBSET Token], cur' \in [Req -> Token \cup {NoToken}],
         new' \in [Req -> Token \cup {NoToken}], tries' \in [Req -> 0 .. MaxTries - 1]
  PROVE  LocalsOK'
BY DEF LocalsOK, Goto, Enter

(* A step that leaves the committed rows alone keeps what is said of them. *)
LEMMA SameRows ==
  ASSUME AtMostOneActive, RotationKeepsSession, UNCHANGED <<state, family>>
  PROVE  AtMostOneActive' /\ RotationKeepsSession'
<1>1. \A s : Active(s)' = Active(s) /\ Issued(s)' = Issued(s)
  BY DEF Active, Issued
<1>2. QED
  BY <1>1 DEF AtMostOneActive, RotationKeepsSession

-----------------------------------------------------------------------------
(* Login preserves the invariant. *)
LEMMA LoginInv ==
  ASSUME IInv, NEW r \in Req, NEW s \in Session, NEW a \in Agent, Login(r, s, a)
  PROVE  IInv'
<1> USE NoTokenAssumption, NobodyAssumption
<1>1. TypeOK'
  <2>1. PICK n \in Unused :
           /\ state' = [state EXCEPT ![n] = "active"]
           /\ family' = [family EXCEPT ![n] = s]
           /\ agent' = [agent EXCEPT ![n] = a]
           /\ Respond(r, "login", n, "ok")
    BY DEF Login
  <2>2. LocalsOK'
    BY <2>1, RespondTyped DEF IInv, TypeOK, LocalsOK, Unused, Operation, Code
  <2>3. QED
    BY <2>1, <2>2 DEF IInv, TypeOK, LocalsOK, Login, Unused, Status
<1>2. ASSUME NEW q \in Req PROVE RequestInv(q)'
  BY DEF IInv, TypeOK, RequestInv, InTx, Reading, Revoking, Login, Respond, Unused
<1>3. ASSUME NEW q \in Req PROVE SuccessorInv(q)'
  BY DEF IInv, TypeOK, RequestInv, InTx, Reading, Revoking, SuccessorInv, Login, Respond, Unused
<1>4. ASSUME NEW q \in Req PROVE LockInv(q)'
  BY DEF IInv, TypeOK, RequestInv, InTx, Reading, Revoking, LockInv, Login, Respond, Unused
<1>5. ASSUME NEW q \in Req PROVE SnapInv(q)'
  BY DEF IInv, TypeOK, RequestInv, InTx, Reading, Revoking, SnapInv, Login, Respond, Unused
<1>6. AtMostOneActive'
  BY DEF IInv, TypeOK, RequestInv, InTx, Reading, Revoking, SuccessorInv, LockInv, AtMostOneActive, Login, Respond, Unused
<1>7. RotationKeepsSession'
  <2> SUFFICES ASSUME NEW f \in Session, Issued(f)' # {},
                      \A t \in Issued(f)' : state'[t] \in {"active", "rotated"}
               PROVE  Active(f)' # {}
    BY DEF RotationKeepsSession
  <2>1. PICK n \in Unused :
           /\ state' = [state EXCEPT ![n] = "active"]
           /\ family' = [family EXCEPT ![n] = s]
    BY DEF Login
  <2>2. CASE f = s
    <3>1. n \in Active(f)'
      BY <2>1, <2>2 DEF IInv, TypeOK, Unused, Active
    <3>2. QED
      BY <3>1
  <2>3. CASE f # s
    <3>1. Issued(f)' = Issued(f) /\ Active(f)' = Active(f)
      BY <2>1, <2>3 DEF IInv, TypeOK, Unused, Issued, Active
    <3>2. \A t \in Issued(f) : state'[t] = state[t]
      BY <2>1, <2>3 DEF IInv, TypeOK, Unused, Issued
    <3>3. QED
      BY <3>1, <3>2 DEF IInv, RotationKeepsSession
  <2>4. QED
    BY <2>2, <2>3
<1>8. QED
  BY <1>1, <1>2, <1>3, <1>4, <1>5, <1>6, <1>7 DEF IInv

(* Refresh preserves the invariant. *)
LEMMA RefreshInv ==
  ASSUME IInv, NEW r \in Req, NEW t \in Token, NEW a \in Agent, Refresh(r, t, a)
  PROVE  IInv'
<1> USE NoTokenAssumption, NobodyAssumption
<1>1. TypeOK'
  <2>1. LocalsOK
    BY DEF IInv, TypeOK, LocalsOK
  <2>2. CASE Respond(r, "refresh", t, "session_expired")
    BY <2>1, <2>2, RespondTyped DEF IInv, TypeOK, LocalsOK, Refresh, Operation, Code, rows
  <2>3. CASE \E o \in Operation, p \in Step : Enter(r, o, t, a, p)
    <3>1. /\ snap' \in [Req -> SUBSET Token] /\ cur' \in [Req -> Token \cup {NoToken}]
          /\ new' \in [Req -> Token \cup {NoToken}] /\ tries' \in [Req -> 0 .. MaxTries - 1]
      BY NoAgentAssumption, SMTT(30) DEF IInv, TypeOK, Refresh, Respond, MaxTries
    <3>2. LocalsOK'
      BY <2>1, <2>3, <3>1, EnterTyped
    <3>3. QED
      BY <3>2 DEF IInv, TypeOK, LocalsOK, Refresh, rows
  <2>4. QED
    BY <2>2, <2>3 DEF Refresh, Operation, Step
<1>2. ASSUME NEW q \in Req PROVE RequestInv(q)'
  BY DEF IInv, TypeOK, RequestInv, InTx, Reading, Revoking, Refresh, Enter, Respond, rows
<1>3. ASSUME NEW q \in Req PROVE SuccessorInv(q)'
  BY DEF IInv, TypeOK, RequestInv, InTx, Reading, Revoking, SuccessorInv, Refresh, Enter, Respond, rows
<1>4. ASSUME NEW q \in Req PROVE LockInv(q)'
  BY DEF IInv, TypeOK, RequestInv, InTx, Reading, Revoking, LockInv, Refresh, Enter, Respond, rows
<1>5. ASSUME NEW q \in Req PROVE SnapInv(q)'
  BY DEF IInv, TypeOK, RequestInv, InTx, Reading, Revoking, SnapInv, Refresh, Enter, Respond, rows
<1>6. UNCHANGED <<state, family>>
  BY DEF Refresh, rows
<1>7. AtMostOneActive' /\ RotationKeepsSession'
  BY <1>6, SameRows DEF IInv
<1>8. QED
  BY <1>1, <1>2, <1>3, <1>4, <1>5, <1>6, <1>7 DEF IInv

(* Logout preserves the invariant. *)
LEMMA LogoutInv ==
  ASSUME IInv, NEW r \in Req, NEW t \in Token, Logout(r, t)
  PROVE  IInv'
<1> USE NoTokenAssumption, NobodyAssumption
<1>1. TypeOK'
  <2>1. LocalsOK'
    BY NoAgentAssumption, EnterTyped DEF IInv, TypeOK, LocalsOK, Logout, Operation, Step
  <2>2. QED
    BY <2>1 DEF IInv, TypeOK, LocalsOK, Logout, rows
<1>2. ASSUME NEW q \in Req PROVE RequestInv(q)'
  BY DEF IInv, TypeOK, RequestInv, InTx, Reading, Revoking, Logout, Enter, rows
<1>3. ASSUME NEW q \in Req PROVE SuccessorInv(q)'
  BY DEF IInv, TypeOK, RequestInv, InTx, Reading, Revoking, SuccessorInv, Logout, Enter, rows
<1>4. ASSUME NEW q \in Req PROVE LockInv(q)'
  BY DEF IInv, TypeOK, RequestInv, InTx, Reading, Revoking, LockInv, Logout, Enter, rows
<1>5. ASSUME NEW q \in Req PROVE SnapInv(q)'
  BY DEF IInv, TypeOK, RequestInv, InTx, Reading, Revoking, SnapInv, Logout, Enter, rows
<1>6. UNCHANGED <<state, family>>
  BY DEF Logout, rows
<1>7. AtMostOneActive' /\ RotationKeepsSession'
  BY <1>6, SameRows DEF IInv
<1>8. QED
  BY <1>1, <1>2, <1>3, <1>4, <1>5, <1>6, <1>7 DEF IInv

(* SelectActive preserves the invariant. *)
LEMMA SelectActiveInv ==
  ASSUME IInv, NEW r \in Req, SelectActive(r)
  PROVE  IInv'
<1> USE NoTokenAssumption, NobodyAssumption
<1>1. TypeOK'
  <2>1. LocalsOK /\ tok[r] \in Token
    BY DEF IInv, TypeOK, LocalsOK, RequestInv, InTx, Reading, Revoking, SelectActive
  <2>2. ASSUME NEW c \in Code, Answer(r, c) PROVE LocalsOK'
    BY <2>1, <2>2, AnswerTyped
  <2>3. ASSUME NEW p \in Step, Goto(r, p) PROVE LocalsOK'
    <3>1. /\ snap' \in [Req -> SUBSET Token] /\ cur' \in [Req -> Token \cup {NoToken}]
          /\ new' \in [Req -> Token \cup {NoToken}] /\ tries' \in [Req -> 0 .. MaxTries - 1]
      BY <2>1 DEF LocalsOK, SelectActive, Answer, Respond, MaxTries, Active
    <3>2. QED
      BY <2>1, <2>3, <3>1, GotoTyped
  <2>4. LocalsOK'
    BY <2>2, <2>3 DEF SelectActive, Answer, Respond, Goto, Enter, Step, Code
  <2>5. QED
    BY <2>1, <2>4 DEF IInv, TypeOK, LocalsOK, SelectActive, rows
<1>2. ASSUME NEW q \in Req PROVE RequestInv(q)'
  BY DEF IInv, TypeOK, RequestInv, InTx, Reading, Revoking, SelectActive, Active, Answer, Respond, Goto, Enter, rows
<1>3. ASSUME NEW q \in Req PROVE SuccessorInv(q)'
  BY SMTT(30) DEF IInv, TypeOK, RequestInv, InTx, Reading, Revoking, SuccessorInv, SelectActive, Active, Answer, Respond, Goto, Enter, rows
<1>4. ASSUME NEW q \in Req PROVE LockInv(q)'
  BY DEF IInv, TypeOK, RequestInv, InTx, Reading, Revoking, LockInv, SelectActive, Active, Answer, Respond, Goto, Enter, rows
<1>5. ASSUME NEW q \in Req PROVE SnapInv(q)'
  BY DEF IInv, TypeOK, RequestInv, InTx, Reading, Revoking, SnapInv, SelectActive, Active, Answer, Respond, Goto, Enter, rows
<1>6. UNCHANGED <<state, family>>
  BY DEF SelectActive, rows
<1>7. AtMostOneActive' /\ RotationKeepsSession'
  BY <1>6, SameRows DEF IInv
<1>8. QED
  BY <1>1, <1>2, <1>3, <1>4, <1>5, <1>6, <1>7 DEF IInv

(* LockActive preserves the invariant. *)
LEMMA LockActiveInv ==
  ASSUME IInv, NEW r \in Req, LockActive(r)
  PROVE  IInv'
<1> USE NoTokenAssumption, NobodyAssumption
<1>1. TypeOK'
  <2>1. LocalsOK /\ tok[r] \in Token
    BY DEF IInv, TypeOK, LocalsOK, RequestInv, InTx, Reading, Revoking, LockActive
  <2>2. ASSUME NEW c \in Code, Answer(r, c) PROVE LocalsOK'
    BY <2>1, <2>2, AnswerTyped
  <2>3. ASSUME NEW p \in Step, Goto(r, p) PROVE LocalsOK'
    <3>1. /\ snap' \in [Req -> SUBSET Token] /\ cur' \in [Req -> Token \cup {NoToken}]
          /\ new' \in [Req -> Token \cup {NoToken}] /\ tries' \in [Req -> 0 .. MaxTries - 1]
      BY <2>1 DEF LocalsOK, LockActive, Answer, Respond, MaxTries
    <3>2. QED
      BY <2>1, <2>3, <3>1, GotoTyped
  <2>4. LocalsOK'
    BY <2>2, <2>3 DEF LockActive, Answer, Respond, Goto, Enter, Step, Code
  <2>5. QED
    BY <2>1, <2>4 DEF IInv, TypeOK, LocalsOK, LockActive
<1>2. ASSUME NEW q \in Req PROVE RequestInv(q)'
  BY DEF IInv, TypeOK, RequestInv, InTx, Reading, Revoking, SuccessorInv, LockInv, SnapInv, Revoked, LockActive, Answer, Respond, Goto, Enter
<1>3. ASSUME NEW q \in Req PROVE SuccessorInv(q)'
  BY DEF IInv, TypeOK, RequestInv, InTx, Reading, Revoking, SuccessorInv, LockActive, Answer, Respond, Goto, Enter
<1>4. ASSUME NEW q \in Req PROVE LockInv(q)'
  BY SMTT(30) DEF IInv, TypeOK, RequestInv, InTx, Reading, Revoking, LockInv, SuccessorInv, SnapInv, LockActive, Answer, Respond, Goto, Enter
<1>5. ASSUME NEW q \in Req PROVE SnapInv(q)'
  BY DEF IInv, TypeOK, RequestInv, InTx, Reading, Revoking, SnapInv, LockActive, Answer, Respond, Goto, Enter
<1>6. UNCHANGED <<state, family>>
  BY DEF LockActive
<1>7. AtMostOneActive' /\ RotationKeepsSession'
  BY <1>6, SameRows DEF IInv
<1>8. QED
  BY <1>1, <1>2, <1>3, <1>4, <1>5, <1>6, <1>7 DEF IInv

(* InsertSuccessor preserves the invariant. *)
LEMMA InsertSuccessorInv ==
  ASSUME IInv, NEW r \in Req, InsertSuccessor(r)
  PROVE  IInv'
<1> USE NoTokenAssumption, NobodyAssumption
<1>1. TypeOK'
  <2>1. LocalsOK /\ tok[r] \in Token
    BY DEF IInv, TypeOK, LocalsOK, RequestInv, InTx, Reading, Revoking, InsertSuccessor
  <2>2. ASSUME NEW p \in Step, Goto(r, p) PROVE LocalsOK'
    <3>1. /\ snap' \in [Req -> SUBSET Token] /\ cur' \in [Req -> Token \cup {NoToken}]
          /\ new' \in [Req -> Token \cup {NoToken}] /\ tries' \in [Req -> 0 .. MaxTries - 1]
      BY <2>1 DEF LocalsOK, InsertSuccessor, Answer, Respond, MaxTries, Unused
    <3>2. QED
      BY <2>1, <2>2, <3>1, GotoTyped
  <2>3. LocalsOK'
    BY <2>2 DEF InsertSuccessor, Goto, Enter, Step, Code
  <2>4. QED
    BY <2>1, <2>3 DEF IInv, TypeOK, LocalsOK, InsertSuccessor, rows
<1>2. ASSUME NEW q \in Req PROVE RequestInv(q)'
  BY DEF IInv, TypeOK, RequestInv, InTx, Reading, Revoking, InsertSuccessor, Unused, Goto, Enter, rows
<1>3. ASSUME NEW q \in Req PROVE SuccessorInv(q)'
  BY DEF IInv, TypeOK, RequestInv, InTx, Reading, Revoking, SuccessorInv, InsertSuccessor, Unused, Goto, Enter, rows
<1>4. ASSUME NEW q \in Req PROVE LockInv(q)'
  BY DEF IInv, TypeOK, RequestInv, InTx, Reading, Revoking, LockInv, InsertSuccessor, Unused, Goto, Enter, rows
<1>5. ASSUME NEW q \in Req PROVE SnapInv(q)'
  BY DEF IInv, TypeOK, RequestInv, InTx, Reading, Revoking, SnapInv, InsertSuccessor, Unused, Goto, Enter, rows
<1>6. UNCHANGED <<state, family>>
  BY DEF InsertSuccessor, rows
<1>7. AtMostOneActive' /\ RotationKeepsSession'
  BY <1>6, SameRows DEF IInv
<1>8. QED
  BY <1>1, <1>2, <1>3, <1>4, <1>5, <1>6, <1>7 DEF IInv

(* RotateRefreshToken preserves the invariant. *)
LEMMA RotateRefreshTokenInv ==
  ASSUME IInv, NEW r \in Req, RotateRefreshToken(r)
  PROVE  IInv'
<1> USE NoTokenAssumption, NobodyAssumption
<1>1. TypeOK'
  <2>1. LocalsOK /\ tok[r] \in Token
    BY DEF IInv, TypeOK, LocalsOK, RequestInv, InTx, Reading, Revoking, RotateRefreshToken
  <2>2. ASSUME NEW c \in Code, Answer(r, c) PROVE LocalsOK'
    BY <2>1, <2>2, AnswerTyped
  <2>3. ASSUME NEW p \in Step, Goto(r, p) PROVE LocalsOK'
    <3>1. /\ snap' \in [Req -> SUBSET Token] /\ cur' \in [Req -> Token \cup {NoToken}]
          /\ new' \in [Req -> Token \cup {NoToken}] /\ tries' \in [Req -> 0 .. MaxTries - 1]
      BY <2>1 DEF LocalsOK, RotateRefreshToken, Answer, Respond, MaxTries
    <3>2. QED
      BY <2>1, <2>3, <3>1, GotoTyped
  <2>4. LocalsOK'
    BY <2>2, <2>3 DEF RotateRefreshToken, Answer, Respond, Goto, Enter, Step, Code
  <2>5. QED
    BY <2>1, <2>4 DEF IInv, TypeOK, LocalsOK, RotateRefreshToken, Unlock
<1>2. ASSUME NEW q \in Req PROVE RequestInv(q)'
  BY DEF IInv, TypeOK, RequestInv, InTx, Reading, Revoking, RotateRefreshToken, Unlock, Answer, Respond, Goto, Enter
<1>3. ASSUME NEW q \in Req PROVE SuccessorInv(q)'
  BY DEF IInv, TypeOK, RequestInv, InTx, Reading, Revoking, SuccessorInv, RotateRefreshToken, Unlock, Answer, Respond, Goto, Enter
<1>4. ASSUME NEW q \in Req PROVE LockInv(q)'
  BY DEF IInv, TypeOK, RequestInv, InTx, Reading, Revoking, LockInv, RotateRefreshToken, Unlock, Answer, Respond, Goto, Enter
<1>5. ASSUME NEW q \in Req PROVE SnapInv(q)'
  BY SMTT(30) DEF IInv, TypeOK, RequestInv, InTx, Reading, Revoking, SnapInv, RotateRefreshToken, Unlock, Answer, Respond, Goto, Enter
<1>6. UNCHANGED <<state, family>>
  BY DEF RotateRefreshToken
<1>7. AtMostOneActive' /\ RotationKeepsSession'
  BY <1>6, SameRows DEF IInv
<1>8. QED
  BY <1>1, <1>2, <1>3, <1>4, <1>5, <1>6, <1>7 DEF IInv

(* CommitRotation preserves the invariant. *)
LEMMA CommitRotationInv ==
  ASSUME IInv, NEW r \in Req, CommitRotation(r)
  PROVE  IInv'
<1> USE NoTokenAssumption, NobodyAssumption
<1>1. TypeOK'
  <2>1. LocalsOK /\ tok[r] \in Token
    BY DEF IInv, TypeOK, LocalsOK, RequestInv, InTx, Reading, Revoking, CommitRotation
  <2>2. ASSUME NEW c \in Code, Answer(r, c) PROVE LocalsOK'
    BY <2>1, <2>2, AnswerTyped
  <2>3. LocalsOK'
    BY <2>2 DEF CommitRotation, Answer, Respond, Step, Code
  <2>4. QED
    BY <2>1, <2>3 DEF IInv, TypeOK, LocalsOK, CommitRotation, Unlock, RequestInv, InTx, Status, Revoked
<1>2. ASSUME NEW q \in Req PROVE RequestInv(q)'
  BY DEF IInv, TypeOK, RequestInv, InTx, Reading, Revoking, SuccessorInv, LockInv, SnapInv, Revoked, CommitRotation, Unlock, Answer, Respond
<1>3. ASSUME NEW q \in Req PROVE SuccessorInv(q)'
  BY DEF IInv, TypeOK, RequestInv, InTx, Reading, Revoking, SuccessorInv, LockInv, SnapInv, CommitRotation, Unlock, Answer, Respond
<1>4. ASSUME NEW q \in Req PROVE LockInv(q)'
  BY DEF IInv, TypeOK, RequestInv, InTx, Reading, Revoking, LockInv, SuccessorInv, SnapInv, CommitRotation, Unlock, Answer, Respond
<1>5. ASSUME NEW q \in Req PROVE SnapInv(q)'
  BY DEF IInv, TypeOK, RequestInv, InTx, Reading, Revoking, SnapInv, SuccessorInv, Revoked, CommitRotation, Unlock, Answer, Respond
<1>6. AtMostOneActive'
  BY DEF IInv, TypeOK, RequestInv, InTx, Reading, Revoking, SuccessorInv, LockInv, AtMostOneActive, CommitRotation, Unlock, Answer, Respond
<1>7. RotationKeepsSession'
  <2> SUFFICES ASSUME NEW f \in Session, Issued(f)' # {},
                      \A t \in Issued(f)' : state'[t] \in {"active", "rotated"}
               PROVE  Active(f)' # {}
    BY DEF RotationKeepsSession
  <2>1. /\ cur[r] \in Token /\ new[r] \in Token /\ cur[r] # new[r]
        /\ state[new[r]] = "none" /\ family[cur[r]] = family[tok[r]]
        /\ state[tok[r]] # "none"
    BY DEF IInv, RequestInv, SuccessorInv, InTx, CommitRotation
  <2>2. CASE f = family[tok[r]]
    <3>1. new[r] \in Active(f)'
      BY <2>1, <2>2 DEF IInv, TypeOK, CommitRotation, Active
    <3>2. QED
      BY <3>1
  <2>3. CASE f # family[tok[r]]
    <3>1. \A t \in Token : t \in Issued(f)' <=> t \in Issued(f)
      BY <2>1, <2>3 DEF IInv, TypeOK, CommitRotation, Issued
    <3>2. \A t \in Issued(f) : state'[t] = state[t] /\ family'[t] = family[t]
      BY <2>1, <2>3 DEF IInv, TypeOK, CommitRotation, Issued
    <3>3. Issued(f) # {} /\ \A t \in Issued(f) : state[t] \in {"active", "rotated"}
      BY <3>1, <3>2 DEF Issued
    <3>4. PICK t \in Token : t \in Active(f)
      BY <3>3 DEF IInv, RotationKeepsSession, Active
    <3>5. t \in Active(f)'
      BY <3>2, <3>4 DEF Active, Issued
    <3>6. QED
      BY <3>5
  <2>4. QED
    BY <2>2, <2>3
<1>8. QED
  BY <1>1, <1>2, <1>3, <1>4, <1>5, <1>6, <1>7 DEF IInv

(* RevokeBegin preserves the invariant. *)
LEMMA RevokeBeginInv ==
  ASSUME IInv, NEW r \in Req, RevokeBegin(r)
  PROVE  IInv'
<1> USE NoTokenAssumption, NobodyAssumption
<1>1. TypeOK'
  <2>1. LocalsOK /\ tok[r] \in Token
    BY DEF IInv, TypeOK, LocalsOK, RequestInv, InTx, Reading, Revoking, RevokeBegin
  <2>2. ASSUME NEW p \in Step, Goto(r, p) PROVE LocalsOK'
    <3>1. /\ snap' \in [Req -> SUBSET Token] /\ cur' \in [Req -> Token \cup {NoToken}]
          /\ new' \in [Req -> Token \cup {NoToken}] /\ tries' \in [Req -> 0 .. MaxTries - 1]
      BY <2>1 DEF LocalsOK, RevokeBegin, Answer, Respond, MaxTries, Active
    <3>2. QED
      BY <2>1, <2>2, <3>1, GotoTyped
  <2>3. LocalsOK'
    BY <2>2 DEF RevokeBegin, Goto, Enter, Step, Code
  <2>4. QED
    BY <2>1, <2>3 DEF IInv, TypeOK, LocalsOK, RevokeBegin, rows
<1>2. ASSUME NEW q \in Req PROVE RequestInv(q)'
  BY DEF IInv, TypeOK, RequestInv, InTx, Reading, Revoking, RevokeBegin, Active, Goto, Enter, rows
<1>3. ASSUME NEW q \in Req PROVE SuccessorInv(q)'
  BY DEF IInv, TypeOK, RequestInv, InTx, Reading, Revoking, SuccessorInv, RevokeBegin, Active, Goto, Enter, rows
<1>4. ASSUME NEW q \in Req PROVE LockInv(q)'
  BY DEF IInv, TypeOK, RequestInv, InTx, Reading, Revoking, LockInv, RevokeBegin, Active, Goto, Enter, rows
<1>5. ASSUME NEW q \in Req PROVE SnapInv(q)'
  BY DEF IInv, TypeOK, RequestInv, InTx, Reading, Revoking, SnapInv, RevokeBegin, Active, Goto, Enter, rows
<1>6. UNCHANGED <<state, family>>
  BY DEF RevokeBegin, rows
<1>7. AtMostOneActive' /\ RotationKeepsSession'
  BY <1>6, SameRows DEF IInv
<1>8. QED
  BY <1>1, <1>2, <1>3, <1>4, <1>5, <1>6, <1>7 DEF IInv

(* RevokeEnd preserves the invariant. *)
LEMMA RevokeEndInv ==
  ASSUME IInv, NEW r \in Req, RevokeEnd(r)
  PROVE  IInv'
<1> USE NoTokenAssumption, NobodyAssumption
<1>1. TypeOK'
  <2>1. LocalsOK /\ tok[r] \in Token
    BY DEF IInv, TypeOK, LocalsOK, RequestInv, InTx, Reading, Revoking, RevokeEnd
  <2>2. ASSUME NEW c \in Code, Answer(r, c) PROVE LocalsOK'
    BY <2>1, <2>2, AnswerTyped
  <2>3. LocalsOK'
    BY <2>2 DEF RevokeEnd, Answer, Respond, Step, Code
  <2>4. QED
    BY <2>1, <2>3 DEF IInv, TypeOK, LocalsOK, RevokeEnd, RequestInv, Revoking, Status, Revoked
<1>2. ASSUME NEW q \in Req PROVE RequestInv(q)'
  BY DEF IInv, TypeOK, RequestInv, InTx, Reading, Revoking, SuccessorInv, LockInv, SnapInv, Revoked, RevokeEnd, Answer, Respond
<1>3. ASSUME NEW q \in Req PROVE SuccessorInv(q)'
  BY DEF IInv, TypeOK, RequestInv, InTx, Reading, Revoking, SuccessorInv, LockInv, SnapInv, RevokeEnd, Answer, Respond
<1>4. ASSUME NEW q \in Req PROVE LockInv(q)'
  BY DEF IInv, TypeOK, RequestInv, InTx, Reading, Revoking, LockInv, SuccessorInv, SnapInv, RevokeEnd, Answer, Respond
<1>5. ASSUME NEW q \in Req PROVE SnapInv(q)'
  BY DEF IInv, TypeOK, RequestInv, InTx, Reading, Revoking, SnapInv, SuccessorInv, Revoked, RevokeEnd, Answer, Respond
<1>6. AtMostOneActive'
  BY DEF IInv, TypeOK, RequestInv, InTx, Reading, Revoking, SuccessorInv, LockInv, AtMostOneActive, RevokeEnd, Answer, Respond
<1>7. RotationKeepsSession'
  <2> SUFFICES ASSUME NEW f \in Session, Issued(f)' # {},
                      \A t \in Issued(f)' : state'[t] \in {"active", "rotated"}
               PROVE  Active(f)' # {}
    BY DEF RotationKeepsSession
  <2>1. op[r] \in {"logout", "theft"}
    BY DEF IInv, RequestInv, Revoking, RevokeEnd
  <2>2. \A t \in Token : t \in Issued(f)' <=> t \in Issued(f)
    BY <2>1 DEF RevokeEnd, Issued
  <2>3. \A t \in Issued(f) : state'[t] = state[t]
    BY <2>1, <2>2 DEF RevokeEnd, Issued
  <2>4. PICK t \in Token : t \in Active(f)
    BY <2>2, <2>3 DEF IInv, RotationKeepsSession, Active, Issued
  <2>5. t \in Active(f)'
    BY <2>3, <2>4 DEF Active, Issued, RevokeEnd
  <2>6. QED
    BY <2>5
<1>8. QED
  BY <1>1, <1>2, <1>3, <1>4, <1>5, <1>6, <1>7 DEF IInv

(* Fail preserves the invariant. *)
LEMMA FailInv ==
  ASSUME IInv, NEW r \in Req, Fail(r)
  PROVE  IInv'
<1> USE NoTokenAssumption, NobodyAssumption
<1>1. TypeOK'
  <2>1. LocalsOK /\ tok[r] \in Token
    BY DEF IInv, TypeOK, LocalsOK, RequestInv, InTx, Reading, Revoking, Fail
  <2>2. ASSUME NEW c \in Code, Answer(r, c) PROVE LocalsOK'
    BY <2>1, <2>2, AnswerTyped
  <2>3. LocalsOK'
    BY <2>2 DEF Fail, Answer, Respond, Step, Code
  <2>4. QED
    BY <2>1, <2>3 DEF IInv, TypeOK, LocalsOK, Fail, Unlock
<1>2. ASSUME NEW q \in Req PROVE RequestInv(q)'
  BY DEF IInv, TypeOK, RequestInv, InTx, Reading, Revoking, Fail, Unlock, Answer, Respond
<1>3. ASSUME NEW q \in Req PROVE SuccessorInv(q)'
  BY DEF IInv, TypeOK, RequestInv, InTx, Reading, Revoking, SuccessorInv, Fail, Unlock, Answer, Respond
<1>4. ASSUME NEW q \in Req PROVE LockInv(q)'
  BY DEF IInv, TypeOK, RequestInv, InTx, Reading, Revoking, LockInv, Fail, Unlock, Answer, Respond
<1>5. ASSUME NEW q \in Req PROVE SnapInv(q)'
  BY DEF IInv, TypeOK, RequestInv, InTx, Reading, Revoking, SnapInv, Fail, Unlock, Answer, Respond
<1>6. UNCHANGED <<state, family>>
  BY DEF Fail
<1>7. AtMostOneActive' /\ RotationKeepsSession'
  BY <1>6, SameRows DEF IInv
<1>8. QED
  BY <1>1, <1>2, <1>3, <1>4, <1>5, <1>6, <1>7 DEF IInv

(* The invariant holds at the start. *)
LEMMA InitInv == Init => IInv
<1> SUFFICES ASSUME Init PROVE IInv
  OBVIOUS
<1>1. TypeOK
  BY NoAgentAssumption DEF Init, TypeOK, Status, Step, Operation, MaxTries
<1>2. ASSUME NEW r \in Req
      PROVE  RequestInv(r) /\ SuccessorInv(r) /\ LockInv(r) /\ SnapInv(r)
  BY NoTokenAssumption, NobodyAssumption
  DEF Init, RequestInv, SuccessorInv, LockInv, SnapInv, InTx, Reading, Revoking
<1>3. AtMostOneActive /\ RotationKeepsSession
  BY DEF Init, AtMostOneActive, RotationKeepsSession, Issued
<1>4. QED
  BY <1>1, <1>2, <1>3 DEF IInv

(* No step breaks it. *)
LEMMA NextInv == IInv /\ [Next]_vars => IInv'
<1> SUFFICES ASSUME IInv, [Next]_vars PROVE IInv'
  OBVIOUS
<1>1. CASE Next
  <2>1. PICK r \in Req :
          \/ \E s \in Session, a \in Sent : Login(r, s, a)
          \/ \E t \in Token, a \in Sent : Refresh(r, t, a)
          \/ \E t \in Token : Logout(r, t)
          \/ Work(r)
          \/ Fail(r)
    BY <1>1 DEF Next
  <2>2. CASE Work(r)
    BY <2>2, SelectActiveInv, LockActiveInv, InsertSuccessorInv, RotateRefreshTokenInv,
       CommitRotationInv, RevokeBeginInv, RevokeEndInv DEF Work
  <2>3. QED
    BY <2>1, <2>2, SentAssumption, LoginInv, RefreshInv, LogoutInv, FailInv
<1>2. CASE UNCHANGED vars
  <2>1. TypeOK'
    BY <1>2 DEF vars, rows, locals, IInv, TypeOK
  <2>2. ASSUME NEW r \in Req
        PROVE  RequestInv(r)' /\ SuccessorInv(r)' /\ LockInv(r)' /\ SnapInv(r)'
    BY <1>2 DEF vars, rows, locals, IInv, RequestInv, SuccessorInv, LockInv, SnapInv
  <2>3. AtMostOneActive' /\ RotationKeepsSession'
    BY <1>2, SameRows DEF vars, rows, IInv
  <2>4. QED
    BY <2>1, <2>2, <2>3 DEF IInv
<1>3. QED
  BY <1>1, <1>2

(* The inductive invariant holds in every reachable state. *)
THEOREM Invariance == Spec => []IInv
BY InitInv, NextInv, PTL DEF Spec

(* Every variable keeps its type. *)
THEOREM TypeCorrect == Spec => []TypeOK
<1>1. IInv => TypeOK
  BY DEF IInv
<1>2. QED
  BY <1>1, Invariance, PTL

(* No interleaving leaves a family with two usable refresh tokens. *)
THEOREM AtMostOneActiveHolds == Spec => []AtMostOneActive
<1>1. IInv => AtMostOneActive
  BY DEF IInv
<1>2. QED
  BY <1>1, Invariance, PTL

(* Rotation alone never ends a session. *)
THEOREM RotationKeepsSessionHolds == Spec => []RotationKeepsSession
<1>1. IInv => RotationKeepsSession
  BY DEF IInv
<1>2. QED
  BY <1>1, Invariance, PTL

(* The row a transaction is about to retire is usable and locked by it. *)
THEOREM RetiredRowIsHeldHolds == Spec => []RetiredRowIsHeld
<1>1. IInv => RetiredRowIsHeld
  BY DEF IInv, RequestInv, LockInv, InTx, RetiredRowIsHeld
<1>2. QED
  BY <1>1, Invariance, PTL

(* The retry loop of rotateCurrentActiveToken never goes round. *)
THEOREM LockedRowStaysActiveHolds == Spec => []LockedRowStaysActive
<1>1. IInv => LockedRowStaysActive
  BY DEF IInv, LockInv, InTx, LockedRowStaysActive
<1>2. QED
  BY <1>1, Invariance, PTL

(* A request that has a row lock is not waiting for another one. *)
THEOREM NobodyHoldsAndWaitsHolds == Spec => []NobodyHoldsAndWaits
<1>1. IInv => NobodyHoldsAndWaits
  BY DEF IInv, LockInv, InTx, NobodyHoldsAndWaits
<1>2. QED
  BY <1>1, Invariance, PTL

-----------------------------------------------------------------------------
(* The three steps that change committed rows, and the others. *)
LEMMA RowSteps ==
  ASSUME [Next]_vars
  PROVE  \/ \E r \in Req, s \in Session, a \in Agent : Login(r, s, a)
         \/ \E r \in Req : CommitRotation(r)
         \/ \E r \in Req : RevokeEnd(r)
         \/ UNCHANGED <<state, family>>
<1>1. CASE UNCHANGED vars
  BY <1>1 DEF vars, rows
<1>2. CASE Next
  <2>1. PICK r \in Req :
          \/ \E s \in Session, a \in Sent : Login(r, s, a)
          \/ \E t \in Token, a \in Sent : Refresh(r, t, a)
          \/ \E t \in Token : Logout(r, t)
          \/ Work(r)
          \/ Fail(r)
    BY <1>2 DEF Next
  <2>2. CASE \E s \in Session, a \in Sent : Login(r, s, a)
    BY <2>2, SentAssumption
  <2>3. CASE \/ \E t \in Token, a \in Sent : Refresh(r, t, a)
             \/ \E t \in Token : Logout(r, t)
             \/ Fail(r)
    BY <2>3 DEF Refresh, Logout, Fail, rows
  <2>4. CASE Work(r)
    BY <2>4 DEF Work, SelectActive, LockActive, InsertSuccessor, RotateRefreshToken, RevokeBegin, rows
  <2>5. QED
    BY <2>1, <2>2, <2>3, <2>4
<1>3. QED
  BY <1>1, <1>2

(* A login makes a row of a family that has none. *)
LEMMA LoginRows ==
  ASSUME IInv, NEW r \in Req, NEW s \in Session, NEW a \in Agent, Login(r, s, a)
  PROVE  /\ Issued(s) = {}
         /\ \E n \in Token : /\ state[n] = "none" /\ state' = [state EXCEPT ![n] = "active"]
                             /\ family' = [family EXCEPT ![n] = s]
BY DEF IInv, TypeOK, Login, Unused, Issued

(* A rotation retires the usable row of its family for one that was not there. *)
LEMMA CommitRows ==
  ASSUME IInv, NEW r \in Req, CommitRotation(r)
  PROVE  \E c, n \in Token :
           /\ c # n /\ state[c] = "active" /\ state[n] = "none"
           /\ state' = [state EXCEPT ![c] = "rotated", ![n] = "active"]
           /\ family' = [family EXCEPT ![n] = family[c]]
<1>1. /\ cur[r] \in Token /\ new[r] \in Token /\ state[cur[r]] = "active" /\ state[new[r]] = "none"
      /\ family[cur[r]] = family[tok[r]]
  BY DEF IInv, RequestInv, SuccessorInv, LockInv, InTx, CommitRotation
<1>2. cur[r] # new[r]
  BY <1>1
<1>3. QED
  BY <1>1, <1>2 DEF CommitRotation

(* A revocation gives its reason to usable rows of one family. *)
LEMMA RevokeRows ==
  ASSUME IInv, NEW r \in Req, RevokeEnd(r)
  PROVE  /\ op[r] \in {"logout", "theft"} /\ family' = family
         /\ \A t \in snap[r] : state[t] # "none" /\ family[t] = family[tok[r]]
         /\ state' = [t \in Token |-> IF t \in snap[r] /\ state[t] = "active" THEN op[r] ELSE state[t]]
BY DEF IInv, RequestInv, SnapInv, Revoking, RevokeEnd

(* No step takes a revocation back, or gives it another reason. *)
THEOREM RevocationIsFinalHolds == Spec => RevocationIsFinal
<1>1. ASSUME IInv, [Next]_vars, NEW t \in Token, state[t] \in Revoked PROVE state'[t] = state[t]
  <2>1. state \in [Token -> Status] /\ state[t] # "none" /\ state[t] # "active"
    BY <1>1 DEF IInv, TypeOK, Revoked
  <2>2. CASE \E r \in Req, s \in Session, a \in Agent : Login(r, s, a)
    BY <1>1, <2>1, <2>2, LoginRows
  <2>3. CASE \E r \in Req : CommitRotation(r)
    BY <1>1, <2>1, <2>3, CommitRows
  <2>4. CASE \E r \in Req : RevokeEnd(r)
    BY <1>1, <2>1, <2>4, RevokeRows
  <2>5. QED
    BY <1>1, <2>2, <2>3, <2>4, RowSteps
<1>2. IInv /\ [Next]_vars => [\A t \in Token : state[t] \in Revoked => state'[t] = state[t]]_vars
  BY <1>1
<1>3. QED
  BY <1>2, Invariance, PTL DEF Spec, RevocationIsFinal

(* No request, however old, opens a family again that has no usable token. *)
THEOREM ClosedStaysClosedHolds == Spec => ClosedStaysClosed
<1>1. ASSUME IInv, [Next]_vars, NEW s \in Session, Issued(s) # {}, Active(s) = {}
      PROVE  Active(s)' = {}
  <2> SUFFICES ASSUME NEW t \in Token, state'[t] = "active", family'[t] = s PROVE FALSE
    BY DEF Active
  <2>1. state \in [Token -> Status] /\ family \in [Token -> Session \cup {NoSession}]
    BY <1>1 DEF IInv, TypeOK
  <2>2. ~(state[t] = "active" /\ family[t] = s)
    BY <1>1 DEF Active
  <2>3. CASE \E r \in Req, f \in Session, a \in Agent : Login(r, f, a)
    <3>1. PICK f \in Session, n \in Token :
            /\ Issued(f) = {} /\ state' = [state EXCEPT ![n] = "active"] /\ family' = [family EXCEPT ![n] = f]
      BY <1>1, <2>3, LoginRows
    <3>2. f # s
      BY <1>1, <3>1
    <3>3. QED
      BY <2>1, <2>2, <3>1, <3>2
  <2>4. CASE \E r \in Req : CommitRotation(r)
    <3>1. PICK c \in Token, n \in Token :
            /\ c # n /\ state[c] = "active" /\ state[n] = "none"
            /\ state' = [state EXCEPT ![c] = "rotated", ![n] = "active"]
            /\ family' = [family EXCEPT ![n] = family[c]]
      BY <1>1, <2>4, CommitRows
    <3>2. family[c] # s
      BY <1>1, <3>1 DEF Active
    <3>3. QED
      BY <2>1, <2>2, <3>1, <3>2
  <2>5. CASE \E r \in Req : RevokeEnd(r)
    BY <1>1, <2>1, <2>2, <2>5, RevokeRows
  <2>6. CASE UNCHANGED <<state, family>>
    BY <2>2, <2>6
  <2>7. QED
    BY <1>1, <2>3, <2>4, <2>5, <2>6, RowSteps
<1>2. IInv /\ [Next]_vars => [\A s \in Session : Issued(s) # {} /\ Active(s) = {} => Active(s)' = {}]_vars
  BY <1>1
<1>3. QED
  BY <1>2, Invariance, PTL DEF Spec, ClosedStaysClosed

(* A revocation that was answered has ended every row of its snapshot. *)
THEOREM RevokeEndsWhatItSawHolds == Spec => RevokeEndsWhatItSaw
<1>1. ASSUME IInv, [Next]_vars, NEW r \in Req, pc[r] = "revoking", reply' # reply, reply'.to = r,
             reply'.code # "error", NEW t \in snap[r]
      PROVE  state'[t] \in Revoked
  <2>1. /\ state \in [Token -> Status] /\ t \in Token
    BY <1>1 DEF IInv, TypeOK
  <2>2. RevokeEnd(r)
    <3>1. PICK q \in Req :
            \/ \E s \in Session, a \in Sent : Login(q, s, a)
            \/ \E u \in Token, a \in Sent : Refresh(q, u, a)
            \/ \E u \in Token : Logout(q, u)
            \/ Work(q)
            \/ Fail(q)
      BY <1>1 DEF Next, vars, locals
    <3>2. reply'.to = q \/ reply' = NoReply
      BY <3>1 DEF Login, Refresh, Logout, Work, Fail, SelectActive, LockActive, InsertSuccessor, RotateRefreshToken,
                  CommitRotation, RevokeBegin, RevokeEnd, Answer, Respond, Goto, Enter
    <3>3. q = r
      BY <1>1, <3>2, NobodyAssumption DEF NoReply
    <3>4. ~Fail(r)
      BY <1>1 DEF Fail, Answer, Respond
    <3>5. QED
      BY <1>1, <3>1, <3>3, <3>4
      DEF Login, Refresh, Logout, Work, SelectActive, LockActive, InsertSuccessor, RotateRefreshToken,
          CommitRotation, RevokeBegin
  <2>3. state[t] # "none"
    BY <1>1, <2>2, RevokeRows
  <2>4. QED
    BY <1>1, <2>1, <2>2, <2>3, RevokeRows DEF Status, Revoked
<1>2. IInv /\ [Next]_vars =>
        [\A r \in Req : pc[r] = "revoking" /\ reply' # reply /\ reply'.to = r /\ reply'.code # "error"
           => \A t \in snap[r] : state'[t] \in Revoked]_vars
  BY <1>1
<1>3. QED
  BY <1>2, Invariance, PTL DEF Spec, RevokeEndsWhatItSaw

-----------------------------------------------------------------------------
(* Every row in the table has a family. *)
Housed == \A t \in Token : state[t] # "none" => family[t] \in Session

LEMMA HousedStep == ASSUME IInv, Housed, [Next]_vars PROVE Housed'
<1>1. state \in [Token -> Status] /\ family \in [Token -> Session \cup {NoSession}]
  BY DEF IInv, TypeOK
<1>2. CASE \E r \in Req, s \in Session, a \in Agent : Login(r, s, a)
  <2>1. PICK s \in Session, n \in Token :
          state' = [state EXCEPT ![n] = "active"] /\ family' = [family EXCEPT ![n] = s]
    BY <1>2, LoginRows
  <2>2. QED
    BY <1>1, <2>1 DEF Housed
<1>3. CASE \E r \in Req : CommitRotation(r)
  <2>1. PICK c \in Token, n \in Token :
          /\ c # n /\ state[c] = "active" /\ state[n] = "none"
          /\ state' = [state EXCEPT ![c] = "rotated", ![n] = "active"]
          /\ family' = [family EXCEPT ![n] = family[c]]
    BY <1>3, CommitRows
  <2>2. QED
    BY <1>1, <2>1 DEF Housed
<1>4. CASE \E r \in Req : RevokeEnd(r)
  BY <1>1, <1>4, RevokeRows DEF Housed
<1>5. CASE UNCHANGED <<state, family>>
  BY <1>5 DEF Housed
<1>6. QED
  BY <1>2, <1>3, <1>4, <1>5, RowSteps

LEMMA HousedInv == Spec => []Housed
<1>1. Init => Housed
  BY DEF Init, Housed
<1>2. IInv /\ Housed /\ [Next]_vars => Housed'
  BY HousedStep
<1>3. QED
  BY <1>1, <1>2, Invariance, PTL DEF Spec

(* the abstract token of a family *)
LEMMA CurrentOf ==
  ASSUME NEW s \in Session
  PROVE  /\ Issued(s) = {} => Current[s] = Unopened
         /\ Active(s) # {} => Current[s] \in Token
BY DEF Current, Issued, Active

LEMMA CurrentSame ==
  ASSUME NEW s \in Session, Issued(s)' = {} <=> Issued(s) = {}, Active(s)' = Active(s)
  PROVE  Current'[s] = Current[s]
BY DEF Current

LEMMA CurrentIs ==
  ASSUME NEW s \in Session, NEW n \in Token, Active(s)' = {n}
  PROVE  Current'[s] = n
<1>1. Issued(s)' # {} /\ Active(s)' # {}
  BY DEF Active, Issued
<1>2. Current'[s] = CHOOSE t \in Token : t \in Active(s)'
  BY <1>1 DEF Current
<1>3. QED
  BY <1>2

LEMMA CurrentEnds ==
  ASSUME NEW s \in Session, Issued(s)' # {}, Active(s)' = {}
  PROVE  Current'[s] = Closed
BY DEF Current

LEMMA CurrentTyped ==
  /\ Current \in [Session -> Token \cup {Unopened, Closed}]
  /\ Current' \in [Session -> Token \cup {Unopened, Closed}]
<1>1. ASSUME NEW s \in Session
      PROVE  /\ Active(s) # {} => (CHOOSE t \in Token : t \in Active(s)) \in Token
             /\ Active(s)' # {} => (CHOOSE t \in Token : t \in Active(s)') \in Token
  BY DEF Active
<1>2. Current \in [Session -> Token \cup {Unopened, Closed}]
  BY <1>1 DEF Current
<1>3. Current' \in [Session -> Token \cup {Unopened, Closed}]
  BY <1>1 DEF Current
<1>4. QED
  BY <1>2, <1>3

(* A token that becomes the only usable one of a family and was never used is issued. *)
LEMMA Issues ==
  ASSUME NEW s \in Session, NEW n \in Token, state[n] = "none", Current[s] = Unopened \/ Current[s] \in Token,
         Active(s)' = {n}, Used' = Used \cup {n},
         \A f \in Session \ {s} : Current'[f] = Current[f]
  PROVE  Family!Next
<1>1. n \notin Used
  BY DEF Used
<1>2. Current'[s] = n
  BY CurrentIs
<1>3. Current' = [Current EXCEPT ![s] = n]
  BY <1>2, CurrentTyped
<1>4. Family!Issue(s, n)
  BY <1>1, <1>3 DEF Family!Issue
<1>5. QED
  BY <1>4 DEF Family!Next, Family!Open, Family!Advance

(* Each step opens a family, moves its token forward, closes it, or changes nothing of it. *)
LEMMA FamilyStep ==
  ASSUME IInv, IInv', Housed, [Next]_vars
  PROVE  Family!Next \/ UNCHANGED <<Current, Used>>
<1>1. state \in [Token -> Status] /\ family \in [Token -> Session \cup {NoSession}] /\ AtMostOneActive /\ AtMostOneActive'
  BY DEF IInv, TypeOK
<1>2. CASE \E r \in Req, s \in Session, a \in Agent : Login(r, s, a)
  <2>1. PICK s \in Session, n \in Token :
          /\ Issued(s) = {} /\ state[n] = "none"
          /\ state' = [state EXCEPT ![n] = "active"] /\ family' = [family EXCEPT ![n] = s]
    BY <1>2, LoginRows
  <2>2. Active(s)' = {n}
    BY <1>1, <2>1 DEF Active, Issued
  <2>3. Used' = Used \cup {n}
    BY <1>1, <2>1 DEF Used
  <2>4. ASSUME NEW f \in Session \ {s} PROVE Current'[f] = Current[f]
    <3>1. Issued(f)' = Issued(f) /\ Active(f)' = Active(f)
      BY <1>1, <2>1 DEF Issued, Active
    <3>2. QED
      BY <3>1, CurrentSame
  <2>5. Current[s] = Unopened
    BY <2>1, CurrentOf
  <2>6. QED
    BY <2>1, <2>2, <2>3, <2>4, <2>5, Issues
<1>3. CASE \E r \in Req : CommitRotation(r)
  <2>1. PICK c \in Token, n \in Token :
          /\ c # n /\ state[c] = "active" /\ state[n] = "none"
          /\ state' = [state EXCEPT ![c] = "rotated", ![n] = "active"]
          /\ family' = [family EXCEPT ![n] = family[c]]
    BY <1>3, CommitRows
  <2>2. PICK s \in Session : s = family[c] /\ c \in Active(s)
    BY <2>1 DEF Housed, Active
  <2>3. Active(s)' = {n}
    <3>1. state'[n] = "active" /\ family'[n] = s
      BY <1>1, <2>1, <2>2
    <3>2. ASSUME NEW t \in Token, state'[t] = "active", family'[t] = s PROVE t = n
      BY <1>1, <3>1, <3>2 DEF AtMostOneActive
    <3>3. QED
      BY <3>1, <3>2 DEF Active
  <2>4. Used' = Used \cup {n}
    BY <1>1, <2>1 DEF Used
  <2>5. ASSUME NEW f \in Session \ {s} PROVE Current'[f] = Current[f]
    <3>1. Issued(f)' = Issued(f) /\ Active(f)' = Active(f)
      BY <1>1, <2>1, <2>2 DEF Issued, Active
    <3>2. QED
      BY <3>1, CurrentSame
  <2>6. Current[s] \in Token
    BY <2>2, CurrentOf
  <2>7. QED
    BY <2>1, <2>2, <2>3, <2>4, <2>5, <2>6, Issues
<1>4. CASE \E r \in Req : RevokeEnd(r)
  <2>1. PICK r \in Req :
          /\ op[r] \in {"logout", "theft"} /\ family' = family
          /\ \A t \in snap[r] : state[t] # "none" /\ family[t] = family[tok[r]]
          /\ state' = [t \in Token |-> IF t \in snap[r] /\ state[t] = "active" THEN op[r] ELSE state[t]]
    BY <1>4, RevokeRows
  <2>2. Used' = Used /\ \A f \in Session : Issued(f)' = Issued(f)
    BY <2>1 DEF Used, Issued
  <2>3. CASE \A t \in Token : ~(t \in snap[r] /\ state[t] = "active")
    <3>1. \A f \in Session : Active(f)' = Active(f)
      BY <2>1, <2>3 DEF Active
    <3>2. \A f \in Session : Current'[f] = Current[f]
      BY <2>2, <3>1, CurrentSame
    <3>3. QED
      BY <2>2, <3>2, CurrentTyped
  <2>4. CASE \E t \in Token : t \in snap[r] /\ state[t] = "active"
    <3>1. PICK c \in Token : c \in snap[r] /\ state[c] = "active"
      BY <2>4
    <3>2. PICK s \in Session : c \in Active(s) /\ s = family[c] /\ s = family[tok[r]]
      BY <2>1, <3>1 DEF Housed, Active
    <3>3. Active(s)' = {}
      <4>1. \A t \in Token : state[t] = "active" /\ family[t] = s => t = c
        BY <1>1, <3>1, <3>2 DEF AtMostOneActive
      <4>2. QED
        BY <2>1, <3>1, <4>1 DEF Active
    <3>4. Current'[s] = Closed
      <4>1. Issued(s)' # {}
        BY <2>2, <3>2 DEF Issued, Active
      <4>2. QED
        BY <3>3, <4>1, CurrentEnds
    <3>5. ASSUME NEW f \in Session \ {s} PROVE Current'[f] = Current[f]
      <4>1. Active(f)' = Active(f)
        BY <2>1, <3>2 DEF Active
      <4>2. QED
        BY <2>2, <4>1, CurrentSame
    <3>6. Current' = [Current EXCEPT ![s] = Closed]
      BY <3>2, <3>4, <3>5, CurrentTyped
    <3>7. Current[s] \in Token
      BY <3>2, CurrentOf
    <3>8. QED
      BY <2>2, <3>2, <3>6, <3>7 DEF Family!Next, Family!Close
  <2>5. QED
    BY <2>3, <2>4
<1>5. CASE UNCHANGED <<state, family>>
  <2>1. Used' = Used /\ \A f \in Session : Issued(f)' = Issued(f) /\ Active(f)' = Active(f)
    BY <1>5 DEF Used, Issued, Active
  <2>2. \A f \in Session : Current'[f] = Current[f]
    BY <2>1, CurrentSame
  <2>3. QED
    BY <2>1, <2>2, CurrentTyped
<1>6. QED
  BY <1>2, <1>3, <1>4, <1>5, RowSteps

(* The table, with all its statements, locks and waiting successors, implements the family
   that is opened once, moves forward and is closed for good. *)
THEOREM ImplementsFamilyHolds == Spec => ImplementsFamily
<1>1. Init => Family!Init
  <2> SUFFICES ASSUME Init PROVE Family!Init
    OBVIOUS
  <2>1. Used = {} /\ \A s \in Session : Issued(s) = {}
    BY DEF Init, Used, Issued
  <2>2. QED
    BY <2>1 DEF Family!Init, Current
<1>2. IInv /\ IInv' /\ Housed /\ [Next]_vars => [Family!Next]_<<Current, Used>>
  BY FamilyStep
<1>3. QED
  BY <1>1, <1>2, Invariance, HousedInv, PTL DEF Spec, ImplementsFamily, Family!Spec
=============================================================================
