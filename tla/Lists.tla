------------------------------- MODULE Lists -------------------------------
(***************************************************************************)
(* Lists of users. Whoever may read a list may read all of them; only its  *)
(* owner changes it. Who owns it is read in one statement and what is      *)
(* changed is written in another, with no transaction around them.         *)
(***************************************************************************)
EXTENDS Integers, FiniteSets

CONSTANTS
  List,        \* IDs, each given once
  Title,       \* names of lists; NoTitle is one that is refused
  NoTitle,
  Person,
  Req,         \* requests at a time
  None, Deleted,
  MaxRequests  \* bound: requests

VARIABLES
  lists,    \* lists[l]: owner and name, None before there is one, or Deleted
  members,  \* <<list, user>>
  call,     \* call[r]: the request r, see NoCall
  calls

vars == <<lists, members, call, calls>>

NoCall == [at |-> "none", actor |-> None, list |-> None, user |-> None, title |-> NoTitle, answer |-> None]

Exists(l) == lists[l] \notin {None, Deleted}
GetByID(l) == IF Exists(l) THEN {lists[l]} ELSE {}
ListByOwner(u) == {l \in List : Exists(l) /\ lists[l].owner = u}
MemberCount(l) == Cardinality({m \in members : m[1] = l})

Init ==
  /\ lists = [l \in List |-> None] /\ members = {}
  /\ call = [r \in Req |-> NoCall]
  /\ calls = 0

Goes(r, new) == call' = [call EXCEPT ![r] = new]
Answer(r, answer) == Goes(r, [NoCall EXCEPT !.actor = call[r].actor, !.answer = answer])
Step(r, l) == Goes(r, [call[r] EXCEPT !.at = l]) /\ UNCHANGED <<lists, members, calls>>

-----------------------------------------------------------------------------
(* handlers: the user, the list and the body of the request *)
Ask(r, l, list, user, title) ==
  /\ call[r].at = "none" /\ calls < MaxRequests
  /\ calls' = calls + 1
  /\ \E actor \in Person :
       Goes(r, [NoCall EXCEPT !.at = l, !.actor = actor, !.list = list, !.user = user, !.title = title])
  /\ UNCHANGED <<lists, members>>

HandleCreate(r) == \E title \in Title : Ask(r, "create", None, None, title)
HandleUpdate(r) == \E l \in List, title \in Title : Ask(r, "mayUpdate", l, None, title)
HandleDelete(r) == \E l \in List : Ask(r, "mayDelete", l, None, NoTitle)
HandleAddMember(r) == \E l \in List, u \in Person : Ask(r, "mayAdd", l, u, NoTitle)
HandleRemoveMember(r) == \E l \in List, u \in Person : Ask(r, "mayRemove", l, u, NoTitle)

RequireList(r) == GetByID(call[r].list) # {}   \* mutant: it need not be the user's own

(* services: the list is there, and is the user's own *)
RequireOwner(r) == \E list \in GetByID(call[r].list) : list.owner = call[r].actor

Refusal(r) == IF Exists(call[r].list) THEN "FORBIDDEN" ELSE "NOT_FOUND"
Check(r, here, next, allowed, refusal) ==
  /\ call[r].at = here
  /\ IF allowed THEN Step(r, next) ELSE Answer(r, refusal) /\ UNCHANGED <<lists, members, calls>>

ValidateListPayload(title) == title # NoTitle

ServeUpdate(r) ==
  Check(r, "mayUpdate", "update", RequireOwner(r) /\ ValidateListPayload(call[r].title),
        IF RequireOwner(r) THEN "BAD_REQUEST" ELSE Refusal(r))
ServeDelete(r) == Check(r, "mayDelete", "delete", RequireOwner(r), Refusal(r))
ServeAddMember(r) == Check(r, "mayAdd", "owner", RequireOwner(r), Refusal(r))
ServeRemoveMember(r) == Check(r, "mayRemove", "remove", RequireOwner(r), Refusal(r))

-----------------------------------------------------------------------------
(* statements *)
NameTaken(owner, title, l) ==
  \E k \in ListByOwner(owner) \ {l} : lists[k].name = title

Create(r) ==
  /\ call[r].at = "create"
  /\ IF ~ValidateListPayload(call[r].title) THEN Answer(r, "BAD_REQUEST") /\ UNCHANGED lists
     ELSE IF NameTaken(call[r].actor, call[r].title, None) THEN Answer(r, "ALREADY_EXISTS") /\ UNCHANGED lists
     ELSE \E l \in List :
            /\ lists[l] = None
            /\ lists' = [lists EXCEPT ![l] = [owner |-> call[r].actor, name |-> call[r].title]]
            /\ Answer(r, "OK")
  /\ UNCHANGED <<members, calls>>

(* A list that is gone meanwhile is not updated, and not found afterwards. *)
Update(r) ==
  /\ call[r].at = "update"
  /\ LET l == call[r].list IN
     IF ~Exists(l) THEN Answer(r, "NOT_FOUND") /\ UNCHANGED lists
     ELSE IF NameTaken(lists[l].owner, call[r].title, l) THEN Answer(r, "ALREADY_EXISTS") /\ UNCHANGED lists
     ELSE Answer(r, "OK") /\ lists' = [lists EXCEPT ![l].name = call[r].title]
  /\ UNCHANGED <<members, calls>>

(* the members go with the list *)
Delete(r) ==
  /\ call[r].at = "delete"
  /\ LET l == call[r].list IN
     IF l \in ListByOwner(call[r].actor)
     THEN /\ lists' = [lists EXCEPT ![l] = Deleted]
          /\ members' = {m \in members : m[1] # l}
          /\ Answer(r, "OK")
     ELSE Answer(r, "NOT_FOUND") /\ UNCHANGED <<lists, members>>
  /\ UNCHANGED calls

(* AddMember: SELECT owner_id, and then INSERT *)
CheckMember(r) ==
  Check(r, "owner", "add", Exists(call[r].list) /\ lists[call[r].list].owner # call[r].user,
        IF Exists(call[r].list) THEN "BAD_REQUEST" ELSE "NOT_FOUND")

AddMember(r) ==
  /\ call[r].at = "add"
  /\ LET m == <<call[r].list, call[r].user>> IN
     IF ~Exists(m[1]) THEN Answer(r, "INTERNAL") /\ UNCHANGED members
     ELSE IF m \in members THEN Answer(r, "ALREADY_EXISTS") /\ UNCHANGED members
     ELSE Answer(r, "OK") /\ members' = members \cup {m}
  /\ UNCHANGED <<lists, calls>>

RemoveMember(r) ==
  /\ call[r].at = "remove"
  /\ LET m == <<call[r].list, call[r].user>> IN
     /\ members' = members \ {m}
     /\ Answer(r, IF m \in members THEN "OK" ELSE "NOT_FOUND")
  /\ UNCHANGED <<lists, calls>>

Fail(r) == call[r].at # "none" /\ Answer(r, "INTERNAL") /\ UNCHANGED <<lists, members, calls>>

Next ==
  \E r \in Req :
    \/ HandleCreate(r) \/ HandleUpdate(r) \/ HandleDelete(r) \/ HandleAddMember(r) \/ HandleRemoveMember(r)
    \/ ServeUpdate(r) \/ ServeDelete(r) \/ ServeAddMember(r) \/ ServeRemoveMember(r)
    \/ Create(r) \/ Update(r) \/ Delete(r) \/ CheckMember(r) \/ AddMember(r) \/ RemoveMember(r) \/ Fail(r)

Spec == Init /\ [][Next]_vars
-----------------------------------------------------------------------------
ListsTypeOK ==
  /\ \A l \in List : Exists(l) => lists[l] \in [owner : Person, name : Title]
  /\ members \subseteq List \X Person
  /\ \A r \in Req : call[r].at \in {"none", "create", "mayUpdate", "update", "mayDelete", "delete", "mayAdd",
                                    "owner", "add", "mayRemove", "remove"}

ByItsOwner ==
  /\ \A l \in List :
       (lists'[l] # lists[l] \/ MemberCount(l)' # MemberCount(l)) /\ lists[l] # None =>
         /\ Exists(l)
         /\ \E r \in Req : call'[r] # call[r] /\ call[r].actor = lists[l].owner
  /\ \A m \in members' : Exists(m[1])' /\ m[2] # lists'[m[1]].owner
  /\ \A u \in Person : \A k, l \in ListByOwner(u)' : lists'[k].name = lists'[l].name => k = l

(* Only a request of its owner changes a list or its members, though who owns it was
   read before; whatever comes in between, a deleted list stays so and has no members,
   nobody is a member of a list of their own, and no owner has two lists of a name. *)
ListsAreTheirOwners == [][ByItsOwner]_<<lists, members>>
=============================================================================
