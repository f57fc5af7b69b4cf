--------------------------- MODULE SessionFamily ---------------------------
(***************************************************************************)
(* What the refresh-token table promises about one login, without tokens   *)
(* that wait, locks or statements: a family is opened once, its current    *)
(* token moves forward, and when it is closed it stays closed.             *)
(* AuthSessions implements it (AuthSessions!Family).                       *)
(***************************************************************************)
CONSTANTS Token, Session, Unopened, Closed

VARIABLES current,  \* current[s]: the usable token of s, or one of the markers
          used      \* tokens that have ever been current

Init ==
  /\ current = [s \in Session |-> Unopened]
  /\ used = {}

(* a token becomes current once in its life *)
Issue(s, t) ==
  /\ t \in Token \ used
  /\ current' = [current EXCEPT ![s] = t]
  /\ used' = used \cup {t}

Open(s) == current[s] = Unopened /\ \E t \in Token : Issue(s, t)

Advance(s) == current[s] \in Token /\ \E t \in Token : Issue(s, t)

Close(s) ==
  /\ current[s] \in Token
  /\ current' = [current EXCEPT ![s] = Closed]
  /\ UNCHANGED used

Next == \E s \in Session : Open(s) \/ Advance(s) \/ Close(s)

Spec == Init /\ [][Next]_<<current, used>>
=============================================================================
