-------------------------- MODULE MCAuthSessions --------------------------
(* Instances of AuthSessions for TLC. *)
EXTENDS AuthSessions, TLC

CONSTANTS t1, t2, t3, t4, s1, s2, phone, laptop, none, r1, r2, r3

\* every header fits in the column
FitsColumn == [a \in Agent |-> a]

Symmetry == Permutations(Token) \cup Permutations(Req) \cup Permutations(Session)
=============================================================================
