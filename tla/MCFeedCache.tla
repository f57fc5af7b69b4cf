------------------------------ MODULE MCFeedCache ------------------------------
(* Instances of FeedCache for TLC: every post is by ann. *)
EXTENDS FeedCache, TLC

CONSTANTS ann, bob, cat, p1, p2, r1, r2

ByAnn == [p \in Post |-> ann]
================================================================================
