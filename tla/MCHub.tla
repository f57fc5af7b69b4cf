------------------------------- MODULE MCHub -------------------------------
(* Instances of Hub for TLC: the connections are all of one user. *)
EXTENDS Hub, TLC

CONSTANTS ann, bob, p1, p2, c1, c2, post, resync

OneUser == [c \in Stream |-> ann]
=============================================================================
