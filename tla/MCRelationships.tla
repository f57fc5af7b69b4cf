--------------------------- MODULE MCRelationships ---------------------------
(* Instances of Relationships for TLC. *)
EXTENDS Relationships, TLC

CONSTANTS ann, bob, cat, r1, r2, r3

Symmetry == Permutations(User) \cup Permutations(Req)
==============================================================================
