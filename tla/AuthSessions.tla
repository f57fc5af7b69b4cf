---------------------------- MODULE AuthSessions ----------------------------
(***************************************************************************)
(* Refresh-token families of the Gaggle server: auth_service.go over       *)
(* auth_store.go over the table refresh_tokens.                            *)
(*                                                                         *)
(* Every request runs in its own goroutine, each SQL statement is one      *)
(* step, and a transaction is READ COMMITTED (BeginTx(ctx, nil)):          *)
(*   - a row written by an open transaction is not visible to the others;  *)
(*   - a statement works on the rows of the snapshot taken when it starts; *)
(*     a row that another transaction has locked is waited for, then read  *)
(*     again, and skipped when the WHERE clause no longer holds. Rows that *)
(*     were committed in the meantime are not added to the snapshot.       *)
(***************************************************************************)
EXTENDS Naturals, FiniteSets

CONSTANTS Token,    \* refresh tokens (rows of refresh_tokens, by token_hash)
          Session,  \* session families (session_id)
          Agent,    \* User-Agent header values
          Req,      \* request goroutines
          Stored,   \* Stored[a]: the header a cut to the 255 bytes of its column
          NoAgent,  \* the empty header
          Sent,     \* bound: the headers that clients send
          NoToken, NoSession, Nobody

ASSUME StoredAssumption == Stored \in [Agent -> Agent]
ASSUME NoTokenAssumption == NoToken \notin Token
ASSUME NoSessionAssumption == NoSession \notin Session
ASSUME NoAgentAssumption == NoAgent \in Agent
ASSUME SentAssumption == Sent \subseteq Agent
ASSUME NobodyAssumption == Nobody \notin Req

VARIABLES
  state,   \* state[t]: committed status of the row of t, "none" before that
  family,  \* family[t]: session_id of t
  agent,   \* agent[t]: the header t was issued to (the column has Stored of it)
  lock,    \* lock[t]: the request whose transaction has the row lock of t
  pc, op,  \* per request: the next statement, and the operation it belongs to
  tok, ua, \* per request: the presented token and the User-Agent
  snap,    \* per request: rows its running statement still has to visit
  cur,     \* per request: the token the transaction is retiring
  new,     \* per request: the successor it has inserted and not committed
  tries,   \* per request: attempt of rotateCurrentActiveToken
  reply    \* the response written by the last step, if it wrote one

rows == <<state, family, agent, lock>>
locals == <<pc, op, tok, ua, snap, cur, new, tries, reply>>
vars == <<rows, locals>>

Revoked == {"rotated", "logout", "theft"}
Status == {"none", "active"} \cup Revoked
Step == {"idle", "select", "lock", "insert", "rotate", "commit", "revoke", "revoking"}
Operation == {"none", "login", "refresh", "replay", "logout", "theft"}
Code == {"ok", "session_expired", "not_found", "error"}
NoReply == [to |-> Nobody, op |-> "none", tok |-> NoToken, code |-> "none"]
Response == [to : Req, op : Operation, tok : Token, code : Code]
MaxTries == 3

Active(s) == {t \in Token : state[t] = "active" /\ family[t] = s}
Issued(s) == {t \in Token : state[t] # "none" /\ family[t] = s}
Unused == {t \in Token : state[t] = "none" /\ \A q \in Req : new[q] # t}
InFlight == {q \in Req : op[q] \in {"refresh", "replay"} /\ pc[q] # "idle" /\ new[q] = NoToken}

(* tokens are kept back for the requests that have yet to insert theirs *)
Budget == Cardinality(Unused) > Cardinality(InFlight)

Init ==
  /\ state = [t \in Token |-> "none"]
  /\ family = [t \in Token |-> NoSession]
  /\ agent = [t \in Token |-> NoAgent]
  /\ lock = [t \in Token |-> Nobody]
  /\ pc = [r \in Req |-> "idle"]
  /\ op = [r \in Req |-> "none"]
  /\ tok = [r \in Req |-> NoToken]
  /\ ua = [r \in Req |-> NoAgent]
  /\ snap = [r \in Req |-> {}]
  /\ cur = [r \in Req |-> NoToken]
  /\ new = [r \in Req |-> NoToken]
  /\ tries = [r \in Req |-> 0]
  /\ reply = NoReply

(* the handler of operation o on token t answers; nothing else is left of it *)
Respond(r, o, t, code) ==
  /\ reply' = [to |-> r, op |-> o, tok |-> t, code |-> code]
  /\ pc' = [pc EXCEPT ![r] = "idle"]
  /\ op' = [op EXCEPT ![r] = "none"]
  /\ tok' = [tok EXCEPT ![r] = NoToken]
  /\ ua' = [ua EXCEPT ![r] = NoAgent]
  /\ snap' = [snap EXCEPT ![r] = {}]
  /\ cur' = [cur EXCEPT ![r] = NoToken]
  /\ new' = [new EXCEPT ![r] = NoToken]
  /\ tries' = [tries EXCEPT ![r] = 0]

Answer(r, code) == Respond(r, op[r], tok[r], code)

(* mutant: no ROLLBACK, the locks leak *)
KeepLocks(r) == UNCHANGED lock

(* COMMIT and ROLLBACK both give up the row locks of the transaction *)
Unlock(r) == lock' = [t \in Token |-> IF lock[t] = r THEN Nobody ELSE lock[t]]

(* the operation o on token t goes on with the given statement *)
Enter(r, o, t, a, step) ==
  /\ pc' = [pc EXCEPT ![r] = step]
  /\ op' = [op EXCEPT ![r] = o]
  /\ tok' = [tok EXCEPT ![r] = t]
  /\ ua' = [ua EXCEPT ![r] = a]
  /\ reply' = NoReply

Goto(r, step) == Enter(r, op[r], tok[r], ua[r], step)

-----------------------------------------------------------------------------
(* Login, Register and GoogleAuth: one INSERT, a family of its own *)
Login(r, s, a) ==
  /\ pc[r] = "idle"
  /\ Budget
  /\ \A t \in Token : state[t] # "none" => family[t] # s
  /\ \E n \in Unused :
       /\ state' = [state EXCEPT ![n] = "active"]
       /\ family' = [family EXCEPT ![n] = s]
       /\ agent' = [agent EXCEPT ![n] = a]
       /\ Respond(r, "login", n, "ok")
  /\ UNCHANGED lock

(* mutant: every replay is theft *)
NeverSame(t, a) == FALSE

(* a replay comes from the device the token was issued to: the column against
   the header *)
SameDevice(t, a) == Stored[agent[t]] # NoAgent /\ Stored[agent[t]] = a

(* GetRefreshToken, outside of any transaction: what it saw decides the path *)
Refresh(r, t, a) ==
  /\ pc[r] = "idle"
  /\ \/ /\ state[t] = "active"
        /\ Budget
        /\ cur' = [cur EXCEPT ![r] = t]
        /\ Enter(r, "refresh", t, a, "insert")
        /\ UNCHANGED <<snap, new, tries>>
     \/ /\ state[t] = "rotated" /\ SameDevice(t, a)
        /\ Budget
        /\ Enter(r, "replay", t, a, "select")
        /\ UNCHANGED <<snap, cur, new, tries>>
     \/ /\ state[t] = "rotated" /\ ~SameDevice(t, a)
        /\ Enter(r, "theft", t, a, "revoke")
        /\ UNCHANGED <<snap, cur, new, tries>>
     \/ /\ state[t] \in {"logout", "theft"}
        /\ Respond(r, "refresh", t, "session_expired")
  /\ UNCHANGED rows

(* SELECT ... revoked = false ... FOR UPDATE begins: its snapshot *)
SelectActive(r) ==
  /\ pc[r] = "select"
  /\ LET live == Active(family[tok[r]]) IN
       \/ /\ live = {}
          /\ Answer(r, "session_expired")
       \/ /\ live # {}
          /\ snap' = [snap EXCEPT ![r] = live]
          /\ Goto(r, "lock")
          /\ UNCHANGED <<cur, new, tries>>
  /\ UNCHANGED rows

(* mutant: SELECT without FOR UPDATE *)
ReadActive(r) ==
  /\ pc[r] = "lock"
  /\ \E t \in snap[r] : cur' = [cur EXCEPT ![r] = t]
  /\ snap' = [snap EXCEPT ![r] = {}]
  /\ Goto(r, "insert")
  /\ UNCHANGED <<rows, new, tries>>

(* ... it reaches a row, waits for its lock, and reads the row again: gone, it
   is NotFound. At most one row is active, so ORDER BY has nothing to order and
   there is no next row to try. *)
LockActive(r) ==
  /\ pc[r] = "lock"
  /\ \E t \in snap[r] :
       /\ lock[t] = Nobody
       /\ \/ /\ state[t] = "active"
             /\ lock' = [lock EXCEPT ![t] = r]
             /\ cur' = [cur EXCEPT ![r] = t]
             /\ snap' = [snap EXCEPT ![r] = {}]
             /\ Goto(r, "insert")
             /\ UNCHANGED <<new, tries>>
          \/ /\ state[t] # "active"
             /\ Answer(r, "session_expired")
             /\ UNCHANGED lock
  /\ UNCHANGED <<state, family, agent>>

(* issueRefreshToken inside the transaction: the row waits for the COMMIT *)
InsertSuccessor(r) ==
  /\ pc[r] = "insert"
  /\ \E n \in Unused : new' = [new EXCEPT ![r] = n]
  /\ Goto(r, "rotate")
  /\ UNCHANGED <<rows, snap, cur, tries>>

(* mutant: the UPDATE does not ask for revoked = false *)
RotateUnchecked(r) ==
  /\ pc[r] = "rotate"
  /\ lock[cur[r]] \in {Nobody, r}
  /\ lock' = [lock EXCEPT ![cur[r]] = r]
  /\ Goto(r, "commit")
  /\ UNCHANGED <<state, family, agent, snap, cur, new, tries>>

(* UPDATE ... WHERE token_hash = cur AND revoked = false: no row is NotFound,
   which rotateCurrentActiveToken tries again *)
RotateRefreshToken(r) ==
  /\ pc[r] = "rotate"
  /\ lock[cur[r]] \in {Nobody, r}
  /\ IF state[cur[r]] = "active"
     THEN /\ lock' = [lock EXCEPT ![cur[r]] = r]
          /\ Goto(r, "commit")
          /\ UNCHANGED <<snap, cur, new, tries>>
     ELSE /\ Unlock(r)
          /\ IF op[r] = "replay" /\ tries[r] < MaxTries - 1
             THEN /\ tries' = [tries EXCEPT ![r] = @ + 1]
                  /\ cur' = [cur EXCEPT ![r] = NoToken]
                  /\ new' = [new EXCEPT ![r] = NoToken]
                  /\ Goto(r, "select")
                  /\ UNCHANGED snap
             ELSE Answer(r, IF op[r] = "replay" THEN "session_expired" ELSE "not_found")
  /\ UNCHANGED <<state, family, agent>>

(* mutant: the token that was presented is not retired *)
CommitKeepsOld(r) ==
  /\ pc[r] = "commit"
  /\ state' = [state EXCEPT ![new[r]] = "active"]
  /\ family' = [family EXCEPT ![new[r]] = family[tok[r]]]
  /\ agent' = [agent EXCEPT ![new[r]] = ua[r]]
  /\ Unlock(r)
  /\ Answer(r, "ok")

(* mutant: the successor gets a family of its own *)
CommitElsewhere(r) ==
  /\ pc[r] = "commit"
  /\ state' = [state EXCEPT ![cur[r]] = "rotated", ![new[r]] = "active"]
  /\ agent' = [agent EXCEPT ![new[r]] = ua[r]]
  /\ Unlock(r)
  /\ Answer(r, "ok")
  /\ UNCHANGED family

CommitRotation(r) ==
  /\ pc[r] = "commit"
  /\ state' = [state EXCEPT ![cur[r]] = "rotated", ![new[r]] = "active"]
  /\ family' = [family EXCEPT ![new[r]] = family[tok[r]]]
  /\ agent' = [agent EXCEPT ![new[r]] = ua[r]]
  /\ Unlock(r)
  /\ Answer(r, "ok")

-----------------------------------------------------------------------------
(* Logout: any token of the family will do, revoked or not *)
Logout(r, t) ==
  /\ pc[r] = "idle"
  /\ state[t] # "none"
  /\ Enter(r, "logout", t, NoAgent, "revoke")
  /\ UNCHANGED <<rows, snap, cur, new, tries>>

(* UPDATE ... WHERE session_id = $1 AND revoked = false begins: its snapshot *)
RevokeBegin(r) ==
  /\ pc[r] = "revoke"
  /\ snap' = [snap EXCEPT ![r] = Active(family[tok[r]])]
  /\ Goto(r, "revoking")
  /\ UNCHANGED <<rows, cur, new, tries>>

(* mutants: it does not wait for locks; it skips locked rows; it writes the rows
   of the family that were revoked before; it gives no reason *)
RevokeWith(r, ended, reason) ==
  /\ pc[r] = "revoking"
  /\ state' = [t \in Token |-> IF t \in ended THEN reason ELSE state[t]]
  /\ Answer(r, IF op[r] = "logout" THEN "ok" ELSE "session_expired")
  /\ UNCHANGED <<family, agent, lock>>

RevokeNoWait(r) == RevokeWith(r, {t \in snap[r] : state[t] = "active"}, op[r])
RevokeSkipLocked(r) ==
  RevokeWith(r, {t \in snap[r] : state[t] = "active" /\ lock[t] = Nobody}, op[r])
RevokeAgain(r) == RevokeWith(r, Issued(family[tok[r]]), op[r])
RevokeUnnamed(r) == RevokeWith(r, snap[r], "revoked")

(* ... and ends, after the locks it had to wait for *)
RevokeEnd(r) ==
  /\ pc[r] = "revoking"
  /\ \A t \in snap[r] : lock[t] = Nobody
  /\ state' = [t \in Token |->
                 IF t \in snap[r] /\ state[t] = "active" THEN op[r] ELSE state[t]]
  /\ Answer(r, IF op[r] = "logout" THEN "ok" ELSE "session_expired")
  /\ UNCHANGED <<family, agent, lock>>

(* a statement fails, the user is gone, or the client goes away and its context
   is cancelled: the deferred ROLLBACK *)
Fail(r) ==
  /\ pc[r] # "idle"
  /\ Unlock(r)
  /\ Answer(r, "error")
  /\ UNCHANGED <<state, family, agent>>

(* the scheduler and the lock queues of the database run these *)
Work(r) ==
  \/ SelectActive(r) \/ LockActive(r) \/ InsertSuccessor(r)
  \/ RotateRefreshToken(r) \/ CommitRotation(r)
  \/ RevokeBegin(r) \/ RevokeEnd(r)

Next ==
  \E r \in Req :
    \/ \E s \in Session, a \in Sent : Login(r, s, a)
    \/ \E t \in Token, a \in Sent : Refresh(r, t, a)
    \/ \E t \in Token : Logout(r, t)
    \/ Work(r)
    \/ Fail(r)

Spec == Init /\ [][Next]_vars
FairSpec == Spec /\ \A r \in Req : SF_vars(Work(r))
-----------------------------------------------------------------------------
(* The abstract family seen in the table: its usable token if it has one. *)
Unopened == "unopened"
Closed == "closed"
Current == [s \in Session |->
              IF Issued(s) = {} THEN Unopened
              ELSE IF Active(s) = {} THEN Closed
              ELSE CHOOSE t \in Token : t \in Active(s)]
Used == {t \in Token : state[t] # "none"}

Family == INSTANCE SessionFamily WITH current <- Current, used <- Used

(* The table implements SessionFamily: every interleaving of statements maps to
   opening a family, moving its current token forward, closing it, or nothing. *)
ImplementsFamily == Family!Spec

TypeOK ==
  /\ state \in [Token -> Status]
  /\ family \in [Token -> Session \cup {NoSession}]
  /\ agent \in [Token -> Agent]
  /\ lock \in [Token -> Req \cup {Nobody}]
  /\ pc \in [Req -> Step]
  /\ op \in [Req -> Operation]
  /\ tok \in [Req -> Token \cup {NoToken}]
  /\ ua \in [Req -> Agent]
  /\ snap \in [Req -> SUBSET Token]
  /\ cur \in [Req -> Token \cup {NoToken}]
  /\ new \in [Req -> Token \cup {NoToken}]
  /\ tries \in [Req -> 0 .. MaxTries - 1]
  /\ reply \in Response \cup {NoReply}

(* However refreshes, replays, logouts and failures interleave, a family never
   has two usable tokens: RotateRefreshToken retires exactly what the committed
   successor replaces. *)
AtMostOneActive ==
  \A t1, t2 \in Token :
    state[t1] = "active" /\ state[t2] = "active" /\ family[t1] = family[t2] => t1 = t2

(* Rotation alone never logs anybody out: a family that nobody has logged out
   and no theft has closed still has a usable token. *)
RotationKeepsSession ==
  \A s \in Session :
    Issued(s) # {} /\ (\A t \in Issued(s) : state[t] \in {"active", "rotated"})
      => Active(s) # {}

(* A transaction about to commit owns the row it retires, and the row is still
   usable: no revocation or other rotation can have slipped in between. *)
RetiredRowIsHeld ==
  \A r \in Req : pc[r] = "commit" =>
    /\ state[cur[r]] = "active"
    /\ lock[cur[r]] = r
    /\ family[cur[r]] = family[tok[r]]

(* The retry of rotateCurrentActiveToken is never needed: FOR UPDATE holds the
   row, so the UPDATE that follows always finds it. *)
LockedRowStaysActive ==
  \A r \in Req : op[r] = "replay" /\ pc[r] \in {"insert", "rotate"} =>
    state[cur[r]] = "active" /\ lock[cur[r]] = r

(* Two requests never wait for one another: whoever has a row lock has all the
   locks it needs (the order in which a transaction takes rows cannot cycle). *)
NobodyHoldsAndWaits ==
  \A r \in Req : (\E t \in Token : lock[t] = r) =>
    /\ pc[r] \in {"insert", "rotate", "commit"}
    /\ lock[cur[r]] = r

(* A revoked token is never usable again, and its revoked_reason never changes:
   a replay after logout or theft cannot be mistaken for a benign one. *)
RevocationIsFinal ==
  [][\A t \in Token : state[t] \in Revoked => state'[t] = state[t]]_vars

(* A family without a usable token stays closed: no refresh, however old its
   transaction, brings a session back after it has ended. *)
ClosedStaysClosed ==
  [][\A s \in Session : Issued(s) # {} /\ Active(s) = {} => Active(s)' = {}]_vars

(* Revoking a family ends every token its UPDATE saw, waiting for a rotation
   that had locked it. *)
RevokeEndsWhatItSaw ==
  [][\A r \in Req : pc[r] = "revoking" /\ reply' # reply /\ reply'.to = r /\ reply'.code # "error"
       => \A t \in snap[r] : state'[t] \in Revoked]_vars

(* A family is closed as stolen only by a token that comes from another device
   than the one it was issued to (auth_service.go 127-129: a replay from the
   SAME device is benign). Holds while headers fit the column. *)
SameDeviceIsBenign ==
  \A r \in Req : op[r] = "theft" /\ ua[r] # NoAgent => agent[tok[r]] # ua[r]

(* auth_store.go 153: RevokeSession revokes every token in a session family. *)
LogoutClosesFamily ==
  reply.op = "logout" /\ reply.code = "ok" => Active(family[reply.tok]) = {}

(* auth_service.go 140: when a replay from the same device is told that the
   session expired, "no live token [is] left in the family: the session really
   is over". *)
ReplayExpiresDeadSessions ==
  reply.op = "replay" /\ reply.code = "session_expired" => Active(family[reply.tok]) = {}

(* Every request is answered: no wait for a row lock is for ever. *)
EveryRequestAnswered == \A r \in Req : pc[r] # "idle" ~> pc[r] = "idle"
=============================================================================
