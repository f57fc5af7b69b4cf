------------------------------- MODULE Inbox -------------------------------
(***************************************************************************)
(* Notifications and direct messages, and the two unread counts that the   *)
(* web client shows as badges. A request checks blocks and mutes, writes a *)
(* row, reads the count and publishes it: statements with no transaction   *)
(* around them, and another request may come between any two.              *)
(*                                                                         *)
(* The client takes an event as a reason to ask for the count again, and   *)
(* not its payload, which is left out. An early return that changes        *)
(* nothing is a step that is not taken. The stream is Hub: an event        *)
(* arrives, or is dropped and the client told so.                          *)
(***************************************************************************)
EXTENDS Integers, Sequences, FiniteSets

CONSTANTS
  User,
  Task,         \* requests at a time
  None,
  RelAtStart,   \* sets of relationship rows to begin with
  Changeable,   \* rows that may change meanwhile: <<a, b, type>>, or <<a, a, "mentions">>
  Watching,     \* users whose client is open; the badges are theirs
  Flaky,        \* users whose streams may break or overflow
  MaxTasks,     \* bound: requests started
  MaxChanges    \* bound: changes of relationships, settings and streams

Kind == {"notes", "dms"}
Rel == User \X User \X {"block", "mute"}
Idle == -2      \* no fetch; a fetch that is not an answer yet
Asked == -1

VARIABLES
  rel,            \* relationship rows: <<a, b, type>>
  mentionsOff,    \* users who do not want to hear of mentions
  notifications,  \* rows: to, from, type, read; and the ghosts against and mixed
  conversations,  \* pairs of users
  messages,       \* rows: to, from, read; and the same ghosts
  badge,          \* badge[u][k]: what the client of u shows
  fetch,          \* fetch[u][k]: Idle, Asked, or the count that is on its way
  stream,         \* stream[u]: up, greeting (subscribed, and no more) or down
  resync,         \* users who are told that they missed an event
  task,           \* task[q]: the request q, see NoTask
  astray,         \* <<u, k>> of whose last change the client was not told
  broken,         \* conversations whose first message failed
  started, changes

tables == <<rel, mentionsOff, notifications, conversations, messages>>
client == <<badge, fetch, stream, resync>>
ghosts == <<astray, broken, started, changes>>
vars == <<tables, client, task, ghosts>>

NoTask ==
  [at |-> "none",    \* the next statement
   kind |-> None, type |-> None, from |-> None, to |-> None,
   rest |-> <<>>,    \* users still to be told of a mention
   todo |-> <<>>,    \* users whose counts are still to be published
   held |-> {},      \* what has stood against it from its beginning: rows, and settings
   mixed |-> FALSE]  \* a mute has stood beside a block meanwhile

Of(R, a, b) == {r \in R : r[1] = a /\ r[2] = b}
Toward(a, b) == Of(rel, a, b)
Mixed(R, from, to) == Cardinality(Of(R, to, from)) = 2 \/ Cardinality(Of(R, from, to)) = 2

(* what stands against a request of this type, of the rows R and the settings M *)
Against(R, M, type, from, to) ==
  Of(R, to, from) \cup (IF type = "dm" THEN {r \in Of(R, from, to) : r[3] = "block"} ELSE {})
    \cup {<<u, u, "mentions">> : u \in IF type = "mention" THEN M \cap {to} ELSE {}}

Count(rows, P(_)) == Cardinality({i \in DOMAIN rows : P(rows[i])})
With(c, m) == {m.from, m.to} = c

(* stores: the unread counts *)
UnreadNotifications(u) == Count(notifications, LAMBDA n : n.to = u /\ ~n.read)
UnreadMessages(u) == Count(messages, LAMBDA m : m.to = u /\ ~m.read)
UnreadCount(u, k) == IF k = "notes" THEN UnreadNotifications(u) ELSE UnreadMessages(u)

(* a conversation in the inbox, with its unread messages *)
ListConversations(u) ==
  {[with |-> CHOOSE v \in c : v # u, unread |-> Count(messages, LAMBDA m : With(c, m) /\ m.to = u /\ ~m.read)] :
     c \in {d \in conversations : u \in d}}

(* its last message is read into variables that take no NULL *)
Listable(u) == \A c \in conversations : u \in c => \E i \in DOMAIN messages : With(c, messages[i])

Init ==
  /\ rel \in RelAtStart
  /\ mentionsOff = {}
  /\ notifications = <<>> /\ conversations = {} /\ messages = <<>>
  /\ badge = [u \in User |-> [k \in Kind |-> 0]]
  /\ fetch = [u \in User |-> [k \in Kind |-> Idle]]
  /\ stream = [u \in User |-> IF u \in Watching THEN "up" ELSE "down"]
  /\ resync = {}
  /\ task = [q \in Task |-> NoTask]
  /\ astray = {} /\ broken = {}
  /\ started = 0 /\ changes = 0

-----------------------------------------------------------------------------
(* Requests *)
Start(q, l, k, t, a, b, r, d) ==
  /\ task[q] = NoTask /\ started < MaxTasks
  /\ started' = started + 1
  /\ task' = [task EXCEPT ![q] = [NoTask EXCEPT !.at = l, !.kind = k, !.type = t, !.from = a, !.to = b,
                                                !.rest = r, !.todo = d,
                                                !.held = Against(rel, mentionsOff, t, a, b),
                                                !.mixed = Mixed(rel, a, b)]]
  /\ UNCHANGED <<tables, fetch, stream, resync, astray, broken, changes>>

Goto(q, l) == task' = [task EXCEPT ![q].at = l]
Reads == UNCHANGED <<tables, client, ghosts>>
Writes == UNCHANGED <<rel, mentionsOff, client, astray, started, changes>>

(* A mention goes on to the next user. *)
After(q) ==
  IF task[q].rest = <<>> THEN NoTask
  ELSE LET u == Head(task[q].rest) IN
       [task[q] EXCEPT !.at = "relationship", !.to = u, !.rest = Tail(@),
                       !.held = Against(rel, mentionsOff, "mention", task[q].from, u),
                       !.mixed = Mixed(rel, task[q].from, u)]
Skip(q) == task' = [task EXCEPT ![q] = After(q)] /\ Reads
End(q) == task' = [task EXCEPT ![q] = NoTask] /\ Reads

Ask(us, k) == fetch' = [u \in User |-> IF u \in us \cap Watching THEN [fetch[u] EXCEPT ![k] = Asked] ELSE fetch[u]]

-----------------------------------------------------------------------------
(* Notifications. Nobody is notified of what they do themselves. *)
Create(q, actor, recipient, type, rest) ==
  /\ actor # recipient
  /\ Start(q, "relationship", "notes", type, actor, recipient, rest, <<>>)
  /\ UNCHANGED badge

CreateForPost(q) == \E actor, author \in User : Create(q, actor, author, "like", <<>>)

(* one user after the other, each once *)
CreateMentionNotifications(q) ==
  \E actor, u, v \in User :
    v # actor /\ Create(q, actor, u, "mention", IF u = v THEN <<>> ELSE <<v>>)

(* GetByIDs gives one row of the pair, whichever it meets first. *)
GetRelationship(q) ==
  /\ task[q].at = "relationship"
  /\ LET rows == Toward(task[q].to, task[q].from) IN
     \/ rows = {} /\ Goto(q, "muted") /\ Reads
     \/ \E r \in rows : IF r[3] = "block" THEN Skip(q) ELSE Goto(q, "muted") /\ Reads

CheckMuted(q) ==
  /\ task[q].at = "muted"
  /\ IF <<task[q].to, task[q].from, "mute">> \in rel THEN Skip(q)
     ELSE Goto(q, IF task[q].type = "mention" THEN "settings" ELSE "notify") /\ Reads

CheckSettings(q) ==
  /\ task[q].at = "settings"
  /\ IF task[q].to \in mentionsOff THEN Skip(q) ELSE Goto(q, "notify") /\ Reads

CreateNotification(q) ==
  /\ task[q].at = "notify"
  /\ notifications' = Append(notifications, [to |-> task[q].to, from |-> task[q].from, type |-> task[q].type,
                                             read |-> FALSE, against |-> task[q].held, mixed |-> task[q].mixed])
  /\ task' = [task EXCEPT ![q].at = "count", ![q].todo = <<task[q].to>>]
  /\ Writes /\ UNCHANGED <<conversations, messages, broken>>

MarkRead(q) ==
  \E u \in User : Start(q, "read", "notes", "one", None, u, <<>>, <<u>>) /\ UNCHANGED badge

(* The client shows no unread notification from the moment it asks. *)
MarkAllRead(q) ==
  \E u \in User :
    /\ Start(q, "read", "notes", "all", None, u, <<>>, <<u>>)
    /\ badge' = [badge EXCEPT ![u]["notes"] = 0]

(* the one that is named, which may have been read before, or all of them *)
MarkNotificationsRead(q) ==
  /\ task[q].at = "read" /\ task[q].kind = "notes"
  /\ LET mine == {i \in DOMAIN notifications : notifications[i].to = task[q].to} IN
     \E some \in IF task[q].type = "one" THEN {{i} : i \in mine} ELSE {mine} :
       notifications' = [i \in DOMAIN notifications |-> [notifications[i] EXCEPT !.read = @ \/ i \in some]]
  /\ Goto(q, "count")
  /\ Writes /\ UNCHANGED <<conversations, messages, broken>>

-----------------------------------------------------------------------------
(* Direct messages *)
Send(q, from, to) ==
  from # to /\ Start(q, "theirs", "dms", "dm", from, to, <<>>, <<>>) /\ UNCHANGED badge
SendDm(q) == \E from, to \in User : Send(q, from, to)

(* The client asks for its count when the message is refused, too. *)
Refused(q) ==
  /\ Ask({task[q].from}, "dms")
  /\ task' = [task EXCEPT ![q] = NoTask]
  /\ UNCHANGED <<tables, badge, stream, resync, ghosts>>

(* first the row the recipient has of the sender, then the other way round *)
CheckBlock(q, here, next, a, b) ==
  /\ task[q].at = here
  /\ \/ Toward(a, b) = {} /\ Goto(q, next) /\ Reads
     \/ \E r \in Toward(a, b) : IF r[3] = "block" THEN Refused(q) ELSE Goto(q, next) /\ Reads

(* mutant: whom the sender has blocked is not asked *)
CheckTheirs(q) == CheckBlock(q, "theirs", "conversation", task[q].to, task[q].from)

CheckBlocks(q) ==
  \/ CheckBlock(q, "theirs", "ours", task[q].to, task[q].from)
  \/ CheckBlock(q, "ours", "conversation", task[q].from, task[q].to)

(* mutant: a conversation that is not there is not created *)
GetConversation(q) == task[q].at = "conversation" /\ Goto(q, "message") /\ Reads

GetOrCreateConversation(q) ==
  /\ task[q].at = "conversation"
  /\ conversations' = conversations \cup {{task[q].from, task[q].to}}
  /\ Goto(q, "message")
  /\ Writes /\ UNCHANGED <<notifications, messages, broken>>

AddMessage(q) ==
  /\ task[q].at = "message"
  /\ messages' = Append(messages, [to |-> task[q].to, from |-> task[q].from, read |-> FALSE,
                                   against |-> task[q].held, mixed |-> task[q].mixed])
  /\ task' = [task EXCEPT ![q].at = "touch", ![q].todo = <<task[q].to, task[q].from>>]
  /\ broken' = broken \ {{task[q].from, task[q].to}}
  /\ Writes /\ UNCHANGED <<notifications, conversations>>

(* only a participant marks a conversation read *)
IsParticipant(u, c) == c \in conversations /\ u \in c
MarkConversationRead(q) ==
  \E c \in conversations, u \in User :
    /\ IsParticipant(u, c)
    /\ Start(q, "read", "dms", "all", CHOOSE v \in c : v # u, u, <<>>, <<u>>)
    /\ UNCHANGED badge

MarkMessagesRead(q) ==
  /\ task[q].at = "read" /\ task[q].kind = "dms"
  /\ messages' = [i \in DOMAIN messages |->
                    [messages[i] EXCEPT !.read = @ \/ /\ messages[i].to = task[q].to
                                                      /\ messages[i].from = task[q].from]]
  /\ Goto(q, "count")
  /\ Writes /\ UNCHANGED <<notifications, conversations, broken>>

-----------------------------------------------------------------------------
(* Events. One that arrives makes the client ask for the count again; one that is
   dropped makes it ask for both, a little later; without a stream it is lost. *)
Missed(u, k) == astray \cup ({u} \cap Watching) \X {k}

Publish(u, k) ==
  \/ stream[u] # "down" /\ Ask({u}, k) /\ UNCHANGED <<resync, astray, changes>>
  \/ /\ stream[u] # "down" /\ u \in Flaky /\ changes < MaxChanges
     /\ changes' = changes + 1
     /\ resync' = resync \cup {u} /\ UNCHANGED <<fetch, astray>>
  \/ /\ stream[u] = "down"
     /\ astray' = IF k = "dms" THEN Missed(u, k) ELSE astray
     /\ UNCHANGED <<fetch, resync, changes>>

(* last_message_at and the sender, in statements of their own; then dm.new *)
Touch(q) ==
  /\ task[q].at = "touch"
  /\ Publish(task[q].to, "dms")
  /\ Goto(q, "count")
  /\ UNCHANGED <<tables, badge, stream, broken, started>>

Publishes(q) ==
  task' = [task EXCEPT ![q] = IF Len(task[q].todo) > 1 THEN [task[q] EXCEPT !.todo = Tail(@)]
                              ELSE IF task[q].type \in {"one", "all", "dm"} THEN [task[q] EXCEPT !.at = "answer"]
                              ELSE After(q)]

PublishUnreadCount(q) ==
  /\ task[q].at = "count"
  /\ Publish(Head(task[q].todo), task[q].kind)
  /\ Publishes(q)
  /\ UNCHANGED <<tables, badge, stream, broken, started>>

(* A count that cannot be read is not published, and the request goes on. *)
CountFails(q) ==
  /\ task[q].at = "count"
  /\ astray' = Missed(Head(task[q].todo), task[q].kind)
  /\ Publishes(q)
  /\ UNCHANGED <<tables, client, broken, started, changes>>

(* The client has its answer, and asks for its count. *)
Answer(q) ==
  /\ task[q].at = "answer"
  /\ Ask({IF task[q].type = "dm" THEN task[q].from ELSE task[q].to}, task[q].kind)
  /\ task' = [task EXCEPT ![q] = NoTask]
  /\ UNCHANGED <<tables, badge, stream, resync, ghosts>>

(* Any other statement that fails ends the request, and the answer may not arrive.
   A badge that was cleared at once stays so. *)
Fail(q) ==
  /\ task[q].at \notin {"none", "count"}
  /\ LET t == task[q] IN
     /\ astray' = IF t.at \in {"touch", "answer"} \/ t.type = "all" THEN Missed(t.to, t.kind) ELSE astray
     /\ IF t.type = "dm" THEN Ask({t.from}, "dms") ELSE UNCHANGED fetch
     /\ broken' = broken \cup
          {c \in conversations : /\ t.at = "message" /\ c = {t.from, t.to}
                                 /\ \A i \in DOMAIN messages : ~With(c, messages[i])}
  /\ task' = [task EXCEPT ![q] = NoTask]
  /\ UNCHANGED <<tables, badge, stream, resync, started, changes>>

-----------------------------------------------------------------------------
(* The client. A question asked again is not waited for any longer. *)
HandleUnreadCount(u, k) ==
  /\ fetch[u][k] = Asked
  /\ fetch' = [fetch EXCEPT ![u][k] = UnreadCount(u, k)]
  /\ UNCHANGED <<tables, badge, stream, resync, task, ghosts>>

ShowCount(u, k) ==
  /\ fetch[u][k] >= 0
  /\ badge' = [badge EXCEPT ![u][k] = fetch[u][k]]
  /\ fetch' = [fetch EXCEPT ![u][k] = Idle]
  /\ astray' = IF fetch[u][k] = UnreadCount(u, k) THEN astray \ {<<u, k>>} ELSE astray
  /\ UNCHANGED <<tables, stream, resync, task, broken, started, changes>>

Resync(u) ==
  /\ u \in resync /\ stream[u] # "down"
  /\ resync' = resync \ {u}
  /\ fetch' = [fetch EXCEPT ![u] = [k \in Kind |-> Asked]]
  /\ UNCHANGED <<tables, badge, stream, task, ghosts>>

(* A stream that breaks loses what is in it. A new one subscribes, and then tells of
   notifications, if they can be counted; it says nothing of messages. *)
Disconnect(u) ==
  /\ u \in Flaky /\ stream[u] # "down" /\ changes < MaxChanges
  /\ changes' = changes + 1
  /\ stream' = [stream EXCEPT ![u] = "down"]
  /\ resync' = resync \ {u}
  /\ astray' = astray \cup {<<u, "dms">> : x \in resync \cap {u}}
  /\ UNCHANGED <<tables, badge, fetch, task, broken, started>>

Subscribe(u) ==
  /\ u \in Watching /\ stream[u] = "down"
  /\ stream' = [stream EXCEPT ![u] = "greeting"]
  /\ UNCHANGED <<tables, badge, fetch, resync, task, ghosts>>

(* mutant: a new stream says nothing *)
GreetSilently(u) ==
  /\ stream[u] = "greeting"
  /\ stream' = [stream EXCEPT ![u] = "up"]
  /\ UNCHANGED <<tables, badge, fetch, resync, task, ghosts>>

Greet(u) ==
  /\ stream[u] = "greeting"
  /\ stream' = [stream EXCEPT ![u] = "up"]
  /\ \/ Ask({u}, "notes") /\ UNCHANGED astray
     \/ astray' = Missed(u, "notes") /\ UNCHANGED fetch
  /\ UNCHANGED <<tables, badge, resync, task, broken, started, changes>>

(* Relationships and settings change. *)
Change ==
  /\ changes < MaxChanges /\ changes' = changes + 1
  /\ \/ \E r \in Changeable \cap Rel :
          rel' = (rel \ {r}) \cup ({r} \ rel) /\ UNCHANGED mentionsOff
     \/ \E u \in {v \in User : <<v, v, "mentions">> \in Changeable} :
          mentionsOff' = (mentionsOff \ {u}) \cup ({u} \ mentionsOff) /\ UNCHANGED rel
  /\ task' = [q \in Task |->
                IF task[q].to = None \/ task[q].from = None THEN task[q]
                ELSE [task[q] EXCEPT
                        !.held = @ \cap Against(rel', mentionsOff', task[q].type, task[q].from, task[q].to),
                        !.mixed = @ \/ Mixed(rel', task[q].from, task[q].to)]]
  /\ UNCHANGED <<notifications, conversations, messages, client, astray, broken, started>>

Next ==
  \/ \E q \in Task :
       \/ CreateForPost(q) \/ CreateMentionNotifications(q)
       \/ GetRelationship(q) \/ CheckMuted(q) \/ CheckSettings(q) \/ CreateNotification(q)
       \/ MarkRead(q) \/ MarkAllRead(q) \/ MarkNotificationsRead(q)
       \/ SendDm(q) \/ CheckBlocks(q) \/ GetOrCreateConversation(q) \/ AddMessage(q) \/ Touch(q)
       \/ MarkConversationRead(q) \/ MarkMessagesRead(q)
       \/ PublishUnreadCount(q) \/ CountFails(q) \/ Answer(q) \/ Fail(q)
  \/ \E u \in User :
       \/ \E k \in Kind : HandleUnreadCount(u, k) \/ ShowCount(u, k)
       \/ Resync(u) \/ Disconnect(u) \/ Subscribe(u) \/ Greet(u)
  \/ Change

Spec == Init /\ [][Next]_vars
-----------------------------------------------------------------------------
InboxTypeOK ==
  /\ rel \subseteq Rel /\ mentionsOff \subseteq User
  /\ \A i \in DOMAIN notifications : notifications[i].to # notifications[i].from
  /\ conversations \subseteq SUBSET User
  /\ \A i \in DOMAIN messages : {messages[i].to, messages[i].from} \in conversations
  /\ badge \in [User -> [Kind -> Nat]]
  /\ fetch \in [User -> [Kind -> Nat \cup {Idle, Asked}]]
  /\ stream \in [User -> {"up", "greeting", "down"}]
  /\ resync \subseteq User
  /\ \A q \in Task : task[q].at = "count" => task[q].todo # <<>>
  /\ astray \subseteq User \X Kind

Busy(u, k) ==
  \/ \E q \in Task :
       /\ task[q].kind = k
       /\ \/ task[q].at \in {"touch", "count"} /\ \E i \in DOMAIN task[q].todo : task[q].todo[i] = u
          \/ task[q].at \in {"read", "answer"} /\ u \in {task[q].to, task[q].from}
  \/ fetch[u][k] # Idle
  \/ u \in resync
  \/ k = "notes" /\ stream[u] # "up"

Opening(c) == \E q \in Task : task[q].at = "message" /\ {task[q].from, task[q].to} = c

(* Once nothing is under way a badge shows what there is to read, in whatever order
   counts were read and published, but for a change the client was never told of: the
   count could not be read, the request was cut, or a message came while there was no
   stream. The inbox has the unread messages that the badge counts, and opens, unless
   the first message of a conversation is on its way or has failed. *)
BadgesConverge ==
  \A u \in User :
    /\ u \in Watching => \A k \in Kind : Busy(u, k) \/ <<u, k>> \in astray \/ badge[u][k] = UnreadCount(u, k)
    /\ Listable(u) \/ \E c \in conversations : u \in c /\ (Opening(c) \/ c \in broken)
    /\ (\E e \in ListConversations(u) : e.unread > 0) <=> UnreadMessages(u) > 0

(* Who is blocked, by either of the two, sends no message, and who is muted or
   unwanted makes no notification, when that has stood since the request began: but
   for a pair that is blocked and muted, of which either row may be the one read. *)
BlockedStayOut ==
  /\ \A i \in DOMAIN notifications :
       notifications[i].against # {} =>
         /\ notifications[i].mixed
         /\ \A r \in notifications[i].against : r[3] = "block"
  /\ \A i \in DOMAIN messages :
       (\E r \in messages[i].against : r[3] = "block") => messages[i].mixed
=============================================================================
