---------------------------- MODULE FollowGraph ----------------------------
(***************************************************************************)
(* What follows, blocks and mutes promise, without requests, statements or *)
(* locks: rows come and go one at a time, a block takes the rows between   *)
(* the two with it, and the counters are the numbers of follows at every   *)
(* moment. Of a pair on which two requests have been at once less is       *)
(* promised. Relationships implements it (Relationships!Graph).            *)
(***************************************************************************)
EXTENDS Integers, FiniteSets

CONSTANT User

VARIABLES rel,    \* rows <<a, b, kind>>: a follows, blocks or mutes b
          count,  \* count[u]: the counters of u
          raced   \* pairs that two requests have been about at once

Tally(rows) ==
  [u \in User |-> [f \in {"followers", "following"} |->
     Cardinality({x \in rows : x[3] = "follow" /\ u = IF f = "followers" THEN x[2] ELSE x[1]})]]

Init ==
  /\ rel = {}
  /\ count = Tally({})
  /\ raced = {}

Become(new) ==
  /\ rel' = new
  /\ count' = Tally(new)
  /\ UNCHANGED raced

(* who is blocked does not follow the blocker *)
Create(a, b, k) ==
  /\ a # b /\ <<a, b, k>> \notin rel
  /\ k = "follow" /\ {a, b} \notin raced => <<b, a, "block">> \notin rel
  /\ Become(rel \cup {<<a, b, k>>})

Remove(x) == Become(rel \ {x})

(* a block replaces all there is between the two, in both directions *)
Block(a, b) ==
  LET between == {x \in rel : {x[1], x[2]} = {a, b}}
  IN  /\ a # b
      /\ \E lost \in IF {a, b} \in raced THEN SUBSET between ELSE {between} :
           /\ <<a, b, "block">> \notin rel \ lost
           /\ Become((rel \ lost) \cup {<<a, b, "block">>})

Race(a, b) ==
  /\ raced' = raced \cup {{a, b}}
  /\ UNCHANGED <<rel, count>>

(* what leaves rows and pairs as they are is no step *)
Next ==
  /\ rel' # rel \/ raced' # raced
  /\ \/ \E a, b \in User : Create(a, b, "follow") \/ Create(a, b, "mute") \/ Block(a, b) \/ Race(a, b)
     \/ \E x \in rel : Remove(x)

Spec == Init /\ [][Next]_<<rel, count, raced>>
=============================================================================
