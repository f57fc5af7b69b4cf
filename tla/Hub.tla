-------------------------------- MODULE Hub --------------------------------
(***************************************************************************)
(* The realtime hub (internal/realtime/hub.go) and the stream handler that *)
(* uses it (internal/handlers/realtime_handler.go).                        *)
(*                                                                         *)
(* Publishers hold the read lock of the RWMutex for as long as a Publish   *)
(* lasts, so several run at once, statement by statement. Subscribe and    *)
(* the delete in cancel run under the write lock: one step each, that no   *)
(* running publisher allows and that keeps new publishers out while it     *)
(* waits (sync.RWMutex gives waiting writers precedence).                  *)
(***************************************************************************)
EXTENDS Naturals, Sequences

CONSTANTS User,
          Publisher,  \* goroutines that call Publish
          Stream,     \* connections, each with the channel of its Subscribe
          userOf,     \* userOf[c]: the user the connection c belongs to
          Event,      \* what is published
          Resync,     \* the event "stream.resync"
          Capacity    \* make(chan Event, 16)

ASSUME CapacityAssumption == Capacity \in Nat \ {0}
ASSUME UserOfAssumption == userOf \in [Stream -> User]
ASSUME ResyncAssumption == Resync \notin Event

VARIABLES
  subscribers,  \* channels in the map
  queue,        \* queue[c]: the buffered channel
  closed,       \* channels that have been closed
  stage,        \* stage[c]: where the stream handler is
  at,           \* at[p]: the select statement the publisher is in
  todo,         \* todo[p]: channels its range loop has yet to serve
  target,       \* target[p]: the channel it serves
  event,        \* event[p]: what it publishes
  stale,        \* connections that lost an event since their last resync
  crowded       \* connections on which two publishers have met (neither is state
                \* of the code: both are there for the properties)

streamVars == <<subscribers, closed, stage>>
publishVars == <<at, todo, target, event>>
lost == <<stale, crowded>>
vars == <<subscribers, queue, closed, stage, at, todo, target, event, lost>>

None == "none"
ASSUME NoneAssumption == None \notin Stream

Stage == {"new", "subscribing", "open", "cancelling", "closing", "gone"}
Select == {"idle", "send", "drop", "signal"}

Readers == {p \in Publisher : at[p] # "idle"}
(* mutant: a lock that lets readers pass a waiting writer *)
NoPrecedence == {}

WritersWaiting == {c \in Stream : stage[c] \in {"subscribing", "cancelling"}}

Init ==
  /\ subscribers = {}
  /\ queue = [c \in Stream |-> <<>>]
  /\ closed = {}
  /\ stage = [c \in Stream |-> "new"]
  /\ at = [p \in Publisher |-> "idle"]
  /\ todo = [p \in Publisher |-> {}]
  /\ target = [p \in Publisher |-> None]
  /\ event = [p \in Publisher |-> None]
  /\ stale = {}
  /\ crowded = {}

-----------------------------------------------------------------------------
(* The stream handler. *)

Connect(c) ==
  /\ stage[c] = "new"
  /\ stage' = [stage EXCEPT ![c] = "subscribing"]
  /\ UNCHANGED <<subscribers, queue, closed, publishVars, lost>>

Subscribe(c) ==
  /\ stage[c] = "subscribing"
  /\ Readers = {}
  /\ subscribers' = subscribers \cup {c}
  /\ stage' = [stage EXCEPT ![c] = "open"]
  /\ UNCHANGED <<queue, closed, publishVars, lost>>

(* writeEvent sends the oldest event to the client; on a resync it refetches *)
Receive(c) ==
  /\ stage[c] = "open"
  /\ queue[c] # <<>>
  /\ queue' = [queue EXCEPT ![c] = Tail(@)]
  /\ stale' = IF Head(queue[c]) = Resync THEN stale \ {c} ELSE stale
  /\ UNCHANGED <<streamVars, publishVars, crowded>>

(* the request ends, a write fails, or the session is over at a heartbeat: the
   deferred cancel asks for the write lock *)
Leave(c) ==
  /\ stage[c] = "open"
  /\ stage' = [stage EXCEPT ![c] = "cancelling"]
  /\ UNCHANGED <<subscribers, queue, closed, publishVars, lost>>

(* mutant: cancel deletes without the lock *)
UnsubscribeUnlocked(c) ==
  /\ stage[c] = "cancelling"
  /\ subscribers' = subscribers \ {c}
  /\ stage' = [stage EXCEPT ![c] = "closing"]
  /\ UNCHANGED <<queue, closed, publishVars, lost>>

Unsubscribe(c) ==
  /\ stage[c] = "cancelling"
  /\ Readers = {}
  /\ subscribers' = subscribers \ {c}
  /\ stage' = [stage EXCEPT ![c] = "closing"]
  /\ UNCHANGED <<queue, closed, publishVars, lost>>

(* close(channel), after the lock has been given back *)
CloseChannel(c) ==
  /\ stage[c] = "closing"
  /\ closed' = closed \cup {c}
  /\ stage' = [stage EXCEPT ![c] = "gone"]
  /\ UNCHANGED <<subscribers, queue, publishVars, lost>>

-----------------------------------------------------------------------------
(* Publish. *)

BeginPublish(p, u, e) ==
  /\ at[p] = "idle"
  /\ WritersWaiting = {}
  /\ at' = [at EXCEPT ![p] = "send"]
  /\ todo' = [todo EXCEPT ![p] = {c \in subscribers : userOf[c] = u}]
  /\ event' = [event EXCEPT ![p] = e]
  /\ UNCHANGED <<target, queue, streamVars, lost>>

(* the loop goes on with the channels after c *)
Served(p, c) ==
  /\ at' = [at EXCEPT ![p] = "send"]
  /\ todo' = [todo EXCEPT ![p] = @ \ {c}]
  /\ target' = [target EXCEPT ![p] = None]

(* mutant: off by one *)
FullAfter(c) == Len(queue[c]) > Capacity

Full(c) == Len(queue[c]) = Capacity

(* mutant: the send has no default *)
SendOrWait(p) ==
  /\ at[p] = "send"
  /\ \E c \in todo[p] :
       /\ ~Full(c)
       /\ queue' = [queue EXCEPT ![c] = Append(@, event[p])]
       /\ Served(p, c)
  /\ UNCHANGED <<event, streamVars, lost>>

(* select { case channel <- event: default: } *)
Send(p) ==
  /\ at[p] = "send"
  /\ \E c \in todo[p] :
       /\ \/ /\ ~Full(c)
             /\ queue' = [queue EXCEPT ![c] = Append(@, event[p])]
             /\ Served(p, c)
             /\ UNCHANGED stale
          \/ /\ Full(c)
             /\ at' = [at EXCEPT ![p] = "drop"]
             /\ target' = [target EXCEPT ![p] = c]
             /\ stale' = stale \cup {c}
             /\ UNCHANGED <<queue, todo>>
       /\ crowded' = crowded \cup {d \in {c} : \E q \in Publisher : target[q] = d}
  /\ UNCHANGED <<event, streamVars>>

(* mutant: nothing is dropped to make room for the resync *)
DropNothing(p) ==
  /\ at[p] = "drop"
  /\ at' = [at EXCEPT ![p] = "signal"]
  /\ UNCHANGED <<queue, todo, target, event, streamVars, lost>>

(* select { case <-channel: default: } *)
DropOldest(p) ==
  /\ at[p] = "drop"
  /\ queue' = [queue EXCEPT ![target[p]] = IF @ = <<>> THEN @ ELSE Tail(@)]
  /\ at' = [at EXCEPT ![p] = "signal"]
  /\ UNCHANGED <<todo, target, event, streamVars, lost>>

(* select { case channel <- resync: default: } *)
SignalResync(p) ==
  /\ at[p] = "signal"
  /\ queue' = [queue EXCEPT ![target[p]] = IF Full(target[p]) THEN @ ELSE Append(@, Resync)]
  /\ Served(p, target[p])
  /\ UNCHANGED <<event, streamVars, lost>>

EndPublish(p) ==
  /\ at[p] = "send"
  /\ todo[p] = {}
  /\ at' = [at EXCEPT ![p] = "idle"]
  /\ event' = [event EXCEPT ![p] = None]
  /\ UNCHANGED <<todo, target, queue, streamVars, lost>>

-----------------------------------------------------------------------------
Publishing(p) == Send(p) \/ DropOldest(p) \/ SignalResync(p) \/ EndPublish(p)
Locking(c) == Subscribe(c) \/ Unsubscribe(c) \/ CloseChannel(c)

Next ==
  \/ \E c \in Stream : Connect(c) \/ Receive(c) \/ Leave(c) \/ Locking(c)
  \/ \E p \in Publisher :
       \/ \E u \in User, e \in Event : BeginPublish(p, u, e)
       \/ Publishing(p)

Spec == Init /\ [][Next]_vars

(* goroutines that can run do; nothing is assumed of the clients: Receive is
   not fair *)
FairSpec ==
  /\ Spec
  /\ \A p \in Publisher : WF_vars(Publishing(p))
  /\ \A c \in Stream : WF_vars(Locking(c))

-----------------------------------------------------------------------------
TypeOK ==
  /\ subscribers \in SUBSET Stream
  /\ queue \in [Stream -> Seq(Event \cup {Resync})]
  /\ \A c \in Stream : Len(queue[c]) <= Capacity
  /\ closed \in SUBSET Stream
  /\ stage \in [Stream -> Stage]
  /\ at \in [Publisher -> Select]
  /\ todo \in [Publisher -> SUBSET Stream]
  /\ target \in [Publisher -> Stream \cup {None}]
  /\ event \in [Publisher -> Event \cup {None}]
  /\ stale \in SUBSET Stream
  /\ crowded \in SUBSET Stream

(* No publisher ever sends on a closed channel, which would panic the server:
   cancel closes outside the lock, after every publisher that could still have
   the channel in its loop has finished. *)
SendsGoToOpenChannels ==
  \A p \in Publisher : todo[p] \cap closed = {}

(* An event that a full channel loses is made up for: unless another publisher
   used the channel meanwhile, the client finds a resync among what it has yet
   to read, whatever is published to it before and after. *)
LossIsSignalledAlone ==
  \A c \in Stream \ crowded :
    stage[c] = "open" /\ c \in stale /\ (\A p \in Publisher : target[p] # c)
      => \E i \in 1 .. Len(queue[c]) : queue[c][i] = Resync

(* The same of every channel: hub.go 53-55 says that the oldest event is replaced
   with a resync signal "so clients refetch authoritative notification/feed state
   instead of remaining stale". *)
LossIsSignalled ==
  \A c \in Stream :
    stage[c] = "open" /\ c \in stale /\ (\A p \in Publisher : target[p] # c)
      => \E i \in 1 .. Len(queue[c]) : queue[c][i] = Resync

(* hub.go 52: a slow client does not block the write path. Every Publish ends,
   whether or not the streams read what is queued for them. *)
PublishEnds == \A p \in Publisher : at[p] = "send" ~> at[p] = "idle"

(* A stream that leaves gets the write lock and is gone, however busy the
   publishers are. *)
LeaversGo == \A c \in Stream : stage[c] = "cancelling" ~> stage[c] = "gone"
=============================================================================
