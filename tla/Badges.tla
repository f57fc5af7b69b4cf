------------------------------- MODULE Badges -------------------------------
(***************************************************************************)
(* The badges that admins define and grant. Deleting a definition and      *)
(* granting one are transactions that look before they write; a grant goes *)
(* with its definition (ON DELETE CASCADE). Earned badges are computed     *)
(* when a profile is read, and cannot be granted or deleted.               *)
(***************************************************************************)
EXTENDS Integers, FiniteSets

CONSTANTS
  Badge, Label,     \* IDs, and keys of badges
  EarnedOnes,       \* badges that the migration has seeded
  Holder,           \* users; one may be deleted, see MayLeave
  MayLeave,
  Admin,            \* requests of admins, at a time
  Unset,
  MaxOrders         \* bound: requests

VARIABLES
  badges,    \* badges[b]: the key of badge b; Unset before there is one, or "deleted"
  grants,    \* <<holder, badge>>
  left,      \* users who are soft-deleted
  order,     \* order[a]: the request of a, see NoOrder
  owed,      \* grants that were acknowledged and not revoked
  crossed,   \* badges whose delete met a grant of them
  orders

vars == <<badges, grants, left, order, owed, crossed, orders>>
tables == <<badges, grants, left>>
ghosts == <<owed, crossed, orders>>

NoOrder == [at |-> "none", badge |-> Unset, holder |-> Unset, answer |-> Unset]

Defined(b) == badges[b] \in Label
Kind(b) == IF b \in EarnedOnes THEN "earned" ELSE "assigned"

(* what is shown with a profile; whether an earned badge is deserved is left out *)
GetAssignedByUsers(u) == {b \in Badge : <<u, b>> \in grants}
ListCatalog == {b \in Badge : Defined(b)}
GetBadgesForUsers(u) == GetAssignedByUsers(u) \cup {b \in ListCatalog : Kind(b) = "earned"}
HydrateUserWithProfile(u) == GetBadgesForUsers(u)

Init ==
  /\ badges \in {f \in [Badge -> Label \cup {Unset}] :
                   /\ \A b \in EarnedOnes : f[b] # Unset
                   /\ \A b \in Badge \ EarnedOnes : f[b] = Unset
                   /\ \A b, d \in EarnedOnes : f[b] = f[d] => b = d}
  /\ grants = {} /\ left = {}
  /\ order = [a \in Admin |-> NoOrder]
  /\ owed = {} /\ crossed = {} /\ orders = 0

Goes(a, new) == order' = [order EXCEPT ![a] = new]
Answer(a, answer) == Goes(a, [NoOrder EXCEPT !.answer = answer])
Step(a, l) == Goes(a, [order[a] EXCEPT !.at = l])
Open(a, new) ==
  /\ order[a].at = "none" /\ orders < MaxOrders
  /\ orders' = orders + 1
  /\ Goes(a, new)
  /\ UNCHANGED <<owed, crossed>>

Deleting(b) == \E a \in Admin : order[a].at = "dropped" /\ order[a].badge = b
Granting(b) == \E a \in Admin : order[a].at = "granted" /\ order[a].badge = b
SameGrant(a) == \E c \in Admin \ {a} : order[c].at = "granted" /\ order[c].badge = order[a].badge
                                         /\ order[c].holder = order[a].holder

KeyTaken(key, b) == \E d \in Badge \ {b} : badges[d] = key

-----------------------------------------------------------------------------
(* handlers and services *)
GetByUsername(u) == u \notin left
GrantToUser(a, u, b) == GetByUsername(u) /\ Open(a, [NoOrder EXCEPT !.at = "kind", !.badge = b, !.holder = u])
RevokeFromUser(a, u, b) == GetByUsername(u) /\ Open(a, [NoOrder EXCEPT !.at = "revoke", !.badge = b, !.holder = u])
DeleteDefinition(a, b) == Open(a, [NoOrder EXCEPT !.at = "look", !.badge = b])
CreateDefinition(a) == Open(a, [NoOrder EXCEPT !.at = "create"])
UpdateDefinition(a, b) == Open(a, [NoOrder EXCEPT !.at = "update", !.badge = b])

HandleGrant(a) == (\E u \in Holder, b \in Badge : GrantToUser(a, u, b)) /\ UNCHANGED tables
HandleRevoke(a) == (\E u \in Holder, b \in Badge : RevokeFromUser(a, u, b)) /\ UNCHANGED tables
HandleDelete(a) == (\E b \in Badge : DeleteDefinition(a, b)) /\ UNCHANGED tables
HandleCreate(a) == CreateDefinition(a) /\ UNCHANGED tables
HandleUpdate(a) == (\E b \in Badge : UpdateDefinition(a, b)) /\ UNCHANGED tables

-----------------------------------------------------------------------------
(* one statement each *)
CreateBadge(a) ==
  /\ order[a].at = "create"
  /\ \E b \in Badge, key \in Label :
       /\ badges[b] = Unset
       /\ IF KeyTaken(key, b) THEN Answer(a, "ALREADY_EXISTS") /\ UNCHANGED badges
          ELSE Answer(a, "OK") /\ badges' = [badges EXCEPT ![b] = key]
  /\ UNCHANGED <<grants, left, ghosts>>

UpdateBadge(a) ==
  /\ order[a].at = "update"
  /\ ~Deleting(order[a].badge)
  /\ \E key \in Label :
       IF ~Defined(order[a].badge) \/ Kind(order[a].badge) # "assigned"
       THEN Answer(a, "NOT_FOUND") /\ UNCHANGED badges
       ELSE IF KeyTaken(key, order[a].badge) THEN Answer(a, "ALREADY_EXISTS") /\ UNCHANGED badges
       ELSE Answer(a, "OK") /\ badges' = [badges EXCEPT ![order[a].badge] = key]
  /\ UNCHANGED <<grants, left, ghosts>>

RevokeBadge(a) ==
  /\ order[a].at = "revoke"
  /\ LET g == <<order[a].holder, order[a].badge>> IN
     /\ g \in grants => ~Deleting(order[a].badge)
     /\ grants' = grants \ {g}
     /\ owed' = owed \ {g}
     /\ Answer(a, IF g \in grants THEN "OK" ELSE "NOT_FOUND")
  /\ UNCHANGED <<badges, left, crossed, orders>>

(* DeleteBadge: SELECT kind, COUNT, DELETE, COMMIT *)
CheckDeletable(a) ==
  /\ order[a].at = "look"
  /\ LET b == order[a].badge IN
     IF ~Defined(b) THEN Answer(a, "NOT_FOUND")
     ELSE IF Kind(b) = "earned" THEN Answer(a, "BAD_REQUEST") ELSE Step(a, "count")
  /\ UNCHANGED <<tables, ghosts>>

(* mutant: nobody asks who holds it *)
CountNothing(a) == order[a].at = "count" /\ Step(a, "drop") /\ UNCHANGED <<tables, ghosts>>

CountGrants(a) ==
  /\ order[a].at = "count"
  /\ IF \E u \in Holder : <<u, order[a].badge>> \in grants THEN Answer(a, "ALREADY_EXISTS")
     ELSE Step(a, "drop")
  /\ UNCHANGED <<tables, ghosts>>

(* waits for grants and deletes of the same badge *)
DeleteBadge(a) ==
  /\ order[a].at = "drop"
  /\ ~Deleting(order[a].badge) /\ ~Granting(order[a].badge)
  /\ Step(a, "dropped")
  /\ UNCHANGED <<tables, ghosts>>

CommitDelete(a) ==
  /\ order[a].at = "dropped"
  /\ badges' = [badges EXCEPT ![order[a].badge] = "deleted"]
  /\ grants' = {g \in grants : g[2] # order[a].badge}
  /\ Answer(a, "OK")
  /\ UNCHANGED <<left, ghosts>>

(* GrantBadge: SELECT kind, the user, INSERT, COMMIT *)
CheckGrantable(a) ==
  /\ order[a].at = "kind"
  /\ LET b == order[a].badge IN
     IF ~Defined(b) THEN Answer(a, "NOT_FOUND")
     ELSE IF Kind(b) # "assigned" THEN Answer(a, "BAD_REQUEST") ELSE Step(a, "insert")
  /\ UNCHANGED <<tables, ghosts>>

(* waits for a delete of the badge, and for the same grant *)
GrantBadge(a) ==
  /\ order[a].at = "insert"
  /\ ~Deleting(order[a].badge) /\ ~SameGrant(a)
  /\ IF ~Defined(order[a].badge) THEN Answer(a, "INTERNAL")
     ELSE IF <<order[a].holder, order[a].badge>> \in grants THEN Answer(a, "ALREADY_EXISTS")
     ELSE Step(a, "granted")
  /\ UNCHANGED <<tables, ghosts>>

CommitGrant(a) ==
  /\ order[a].at = "granted"
  /\ grants' = grants \cup {<<order[a].holder, order[a].badge>>}
  /\ owed' = owed \cup {<<order[a].holder, order[a].badge>>}
  /\ crossed' = crossed \cup
       {b \in {order[a].badge} : \E c \in Admin : order[c].at \in {"count", "drop"} /\ order[c].badge = b}
  /\ Answer(a, "OK")
  /\ UNCHANGED <<badges, left, orders>>

Fail(a) == order[a].at # "none" /\ Answer(a, "INTERNAL") /\ UNCHANGED <<tables, ghosts>>

(* a user is soft-deleted; what they hold stays *)
Leave ==
  /\ \E u \in MayLeave \ left : left' = left \cup {u}
  /\ UNCHANGED <<badges, grants, order, ghosts>>

Next ==
  \/ \E a \in Admin :
       \/ HandleGrant(a) \/ HandleRevoke(a) \/ HandleDelete(a) \/ HandleCreate(a) \/ HandleUpdate(a)
       \/ CreateBadge(a) \/ UpdateBadge(a) \/ RevokeBadge(a)
       \/ CheckDeletable(a) \/ CountGrants(a) \/ DeleteBadge(a) \/ CommitDelete(a)
       \/ CheckGrantable(a) \/ GrantBadge(a) \/ CommitGrant(a) \/ Fail(a)
  \/ Leave

Spec == Init /\ [][Next]_vars
-----------------------------------------------------------------------------
BadgesTypeOK ==
  /\ badges \in [Badge -> Label \cup {Unset, "deleted"}]
  /\ grants \subseteq Holder \X Badge /\ owed \subseteq Holder \X Badge
  /\ left \subseteq Holder /\ crossed \subseteq Badge
  /\ \A a \in Admin : order[a].at \in {"none", "kind", "insert", "granted", "revoke", "look", "count",
                                       "drop", "dropped", "create", "update"}

(* A grant that was acknowledged is shown with the profile until it is revoked: a badge
   that somebody holds is not deleted, unless they got it after its delete had begun to
   look. Keys are not used twice, and nobody holds a badge that is not defined, or earned. *)
GrantsLast ==
  /\ \A g \in owed : g[2] \in HydrateUserWithProfile(g[1]) \/ g[2] \in crossed
  /\ \A g \in grants : Defined(g[2]) /\ Kind(g[2]) = "assigned"
  /\ \A b, d \in ListCatalog : badges[b] = badges[d] => b = d
=============================================================================
