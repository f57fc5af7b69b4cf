----------------------------- MODULE HubProofs -----------------------------
(***************************************************************************)
(* Proofs about Hub, for any number of users, connections and publishers   *)
(* and any capacity of the channels.                                       *)
(***************************************************************************)
EXTENDS Hub, SequenceTheorems, TLAPS

(* how far a connection is decides whether it is in the map and closed *)
StageInv ==
  \A c \in Stream :
    /\ c \in subscribers <=> stage[c] \in {"open", "cancelling"}
    /\ c \in closed <=> stage[c] = "gone"

(* a publisher works only on channels that are in the map: whoever wants to
   take one out waits for it *)
LoopInv ==
  \A p \in Publisher :
    /\ todo[p] \subseteq subscribers
    /\ at[p] = "idle" => todo[p] = {}
    /\ at[p] # "idle" => event[p] \in Event
    /\ at[p] \in {"drop", "signal"} => target[p] \in todo[p]

IInv == TypeOK /\ StageInv /\ LoopInv

-----------------------------------------------------------------------------
(* The queues stay sequences of events, within their capacity. *)
QueuesOK ==
  /\ queue \in [Stream -> Seq(Event \cup {Resync})]
  /\ \A c \in Stream : Len(queue[c]) <= Capacity

(* A channel with room takes one more event. *)
LEMMA AppendOK ==
  ASSUME QueuesOK, NEW c \in Stream, ~Full(c), NEW e \in Event \cup {Resync},
         queue' = [queue EXCEPT ![c] = Append(@, e)]
  PROVE  QueuesOK'
<1>1. Append(queue[c], e) \in Seq(Event \cup {Resync}) /\ Len(Append(queue[c], e)) = Len(queue[c]) + 1
  BY DEF QueuesOK
<1>2. Len(queue[c]) \in Nat /\ Len(queue[c]) < Capacity
  BY CapacityAssumption DEF QueuesOK, Full
<1>3. Len(queue[c]) + 1 <= Capacity
  BY <1>2, CapacityAssumption
<1>4. QED
  BY <1>1, <1>3 DEF QueuesOK

(* A channel that is not empty gives its oldest event. *)
LEMMA TailOK ==
  ASSUME QueuesOK, NEW c \in Stream, queue[c] # <<>>,
         queue' = [queue EXCEPT ![c] = Tail(@)]
  PROVE  QueuesOK'
<1>1. Tail(queue[c]) \in Seq(Event \cup {Resync}) /\ Len(Tail(queue[c])) = Len(queue[c]) - 1
  BY DEF QueuesOK
<1>2. Len(queue[c]) \in Nat /\ Len(queue[c]) <= Capacity
  BY DEF QueuesOK
<1>3. Len(queue[c]) - 1 <= Capacity
  BY <1>2, CapacityAssumption
<1>4. QED
  BY <1>1, <1>3 DEF QueuesOK

-----------------------------------------------------------------------------
(* The stream handler's steps preserve the invariant. *)
LEMMA StreamStep ==
  ASSUME IInv, NEW c \in Stream,
         Connect(c) \/ Receive(c) \/ Leave(c) \/ Locking(c)
  PROVE  IInv'
<1>1. CASE Connect(c)
  BY <1>1 DEF IInv, TypeOK, StageInv, LoopInv, Connect, publishVars, lost, Stage
<1>2. CASE Receive(c)
  <2>1. QueuesOK'
    BY <1>2, TailOK DEF IInv, TypeOK, QueuesOK, Receive
  <2>2. QED
    BY <1>2, <2>1 DEF IInv, TypeOK, QueuesOK, StageInv, LoopInv, Receive, streamVars, publishVars, lost
<1>3. CASE Leave(c)
  BY <1>3 DEF IInv, TypeOK, StageInv, LoopInv, Leave, publishVars, lost, Stage
<1>4. CASE Subscribe(c)
  BY <1>4 DEF IInv, TypeOK, StageInv, LoopInv, Subscribe, publishVars, lost, Stage
<1>5. CASE Unsubscribe(c)
  <2>1. \A p \in Publisher : todo[p] = {}
    BY <1>5 DEF IInv, LoopInv, Unsubscribe, Readers
  <2>2. QED
    BY <1>5, <2>1 DEF IInv, TypeOK, StageInv, LoopInv, Unsubscribe, publishVars, lost, Stage
<1>6. CASE CloseChannel(c)
  BY <1>6 DEF IInv, TypeOK, StageInv, LoopInv, CloseChannel, publishVars, lost, Stage
<1>7. QED
  BY <1>1, <1>2, <1>3, <1>4, <1>5, <1>6 DEF Locking

(* The publisher's steps preserve the invariant. *)
LEMMA PublisherStep ==
  ASSUME IInv, NEW p \in Publisher,
         (\E u \in User, e \in Event : BeginPublish(p, u, e)) \/ Publishing(p)
  PROVE  IInv'
<1>1. CASE \E u \in User, e \in Event : BeginPublish(p, u, e)
  BY <1>1 DEF IInv, TypeOK, StageInv, LoopInv, BeginPublish, streamVars, lost, Select
<1>2. CASE Send(p)
  <2>1. event[p] \in Event /\ at[p] = "send"
    BY <1>2 DEF IInv, LoopInv, Send
  <2>2. PICK c \in todo[p] :
          \/ /\ ~Full(c)
             /\ queue' = [queue EXCEPT ![c] = Append(@, event[p])]
             /\ Served(p, c)
             /\ UNCHANGED stale
          \/ /\ at' = [at EXCEPT ![p] = "drop"]
             /\ target' = [target EXCEPT ![p] = c]
             /\ stale' = stale \cup {c}
             /\ UNCHANGED <<queue, todo>>
    BY <1>2 DEF Send
  <2>3. c \in Stream
    BY DEF IInv, TypeOK
  <2>4. QueuesOK'
    <3>1. CASE ~Full(c) /\ queue' = [queue EXCEPT ![c] = Append(@, event[p])]
      <4>1. PICK e \in Event : e = event[p]
        BY <2>1
      <4>2. QED
        BY <2>3, <3>1, <4>1, AppendOK DEF IInv, TypeOK, QueuesOK
    <3>2. CASE UNCHANGED queue
      BY <3>2 DEF IInv, TypeOK, QueuesOK
    <3>3. QED
      BY <2>2, <3>1, <3>2
  <2>5. TypeOK'
    <3>3. crowded' \in SUBSET Stream
      BY <1>2 DEF IInv, TypeOK, Send
    <3>1. /\ at' \in [Publisher -> Select]
          /\ todo' \in [Publisher -> SUBSET Stream]
          /\ target' \in [Publisher -> Stream \cup {None}]
          /\ stale' \in SUBSET Stream
      <4>1. CASE Served(p, c) /\ UNCHANGED stale
        <5>1. todo[p] \ {c} \in SUBSET Stream
          BY DEF IInv, TypeOK
        <5>2. QED
          BY <4>1, <5>1 DEF IInv, TypeOK, Served, Select
      <4>2. CASE /\ at' = [at EXCEPT ![p] = "drop"]
                 /\ target' = [target EXCEPT ![p] = c]
                 /\ stale' = stale \cup {c}
                 /\ UNCHANGED <<queue, todo>>
        BY <2>3, <4>2 DEF IInv, TypeOK, Select
      <4>3. QED
        BY <2>2, <4>1, <4>2
    <3>2. QED
      BY <1>2, <2>4, <3>1, <3>3 DEF IInv, TypeOK, QueuesOK, Send, streamVars
  <2>6. LoopInv'
    BY <1>2, <2>1, <2>2, <2>3 DEF IInv, TypeOK, LoopInv, Send, Served, streamVars, lost
  <2>7. QED
    BY <1>2, <2>5, <2>6 DEF IInv, StageInv, Send, streamVars, lost
<1>3. CASE DropOldest(p)
  <2>1. target[p] \in Stream
    BY <1>3 DEF IInv, TypeOK, LoopInv, DropOldest
  <2>2. QueuesOK'
    <3>1. PICK c \in Stream : c = target[p]
      BY <2>1
    <3>2. CASE queue[c] = <<>>
      BY <1>3, <3>1, <3>2 DEF IInv, TypeOK, QueuesOK, DropOldest
    <3>3. CASE queue[c] # <<>>
      <4>1. queue' = [queue EXCEPT ![c] = Tail(@)]
        BY <1>3, <3>1, <3>3 DEF DropOldest
      <4>2. QED
        BY <3>3, <4>1, TailOK DEF IInv, TypeOK, QueuesOK
    <3>4. QED
      BY <3>2, <3>3
  <2>3. QED
    BY <1>3, <2>2 DEF IInv, TypeOK, QueuesOK, StageInv, LoopInv, DropOldest, streamVars, lost, Select
<1>4. CASE SignalResync(p)
  <2>1. target[p] \in Stream
    BY <1>4 DEF IInv, TypeOK, LoopInv, SignalResync
  <2>2. QueuesOK'
    <3>1. PICK c \in Stream : c = target[p]
      BY <2>1
    <3>2. CASE Full(c)
      BY <1>4, <3>1, <3>2 DEF IInv, TypeOK, QueuesOK, SignalResync
    <3>3. CASE ~Full(c)
      <4>1. queue' = [queue EXCEPT ![c] = Append(@, Resync)]
        BY <1>4, <3>1, <3>3 DEF SignalResync
      <4>2. QED
        BY <3>3, <4>1, AppendOK DEF IInv, TypeOK, QueuesOK
    <3>4. QED
      BY <3>2, <3>3
  <2>3. QED
    BY <1>4, <2>1, <2>2
    DEF IInv, TypeOK, QueuesOK, StageInv, LoopInv, SignalResync, Served, streamVars, lost, Select
<1>5. CASE EndPublish(p)
  BY <1>5 DEF IInv, TypeOK, StageInv, LoopInv, EndPublish, streamVars, lost, Select
<1>6. QED
  BY <1>1, <1>2, <1>3, <1>4, <1>5 DEF Publishing

(* The inductive invariant holds in every reachable state. *)
THEOREM Invariance == Spec => []IInv
<1>1. Init => IInv
  BY CapacityAssumption DEF Init, IInv, TypeOK, StageInv, LoopInv, Stage, Select
<1>2. IInv /\ [Next]_vars => IInv'
  <2> SUFFICES ASSUME IInv, [Next]_vars PROVE IInv'
    OBVIOUS
  <2>1. CASE Next
    BY <2>1, StreamStep, PublisherStep DEF Next
  <2>2. CASE UNCHANGED vars
    BY <2>2 DEF vars, streamVars, publishVars, lost, IInv, TypeOK, StageInv, LoopInv
  <2>3. QED
    BY <2>1, <2>2
<1>3. QED
  BY <1>1, <1>2, PTL DEF Spec

(* Every variable keeps its type, and no channel holds more than it can. *)
THEOREM TypeCorrect == Spec => []TypeOK
<1>1. IInv => TypeOK
  BY DEF IInv
<1>2. QED
  BY <1>1, Invariance, PTL

(* No publisher has a closed channel left in its loop. *)
THEOREM SendsGoToOpenChannelsHolds == Spec => []SendsGoToOpenChannels
<1>1. IInv => SendsGoToOpenChannels
  BY DEF IInv, TypeOK, StageInv, LoopInv, SendsGoToOpenChannels
<1>2. QED
  BY <1>1, Invariance, PTL

-----------------------------------------------------------------------------
(* Lost events are signalled. A publisher has a target between the full channel
   it found and the resync it sends, and at no other time. *)
TargetInv ==
  \A p \in Publisher :
    /\ at[p] \in {"drop", "signal"} => target[p] \in Stream
    /\ at[p] \notin {"drop", "signal"} => target[p] = None

(* Two publishers never have the same target but on a crowded channel; so the
   one that has made room for the resync still finds that room. *)
RoomInv ==
  /\ \A p, q \in Publisher :
       p # q /\ target[p] \in Stream /\ target[p] = target[q] => target[p] \in crowded
  /\ \A p \in Publisher :
       at[p] = "signal" /\ target[p] \notin crowded => Len(queue[target[p]]) < Capacity

(* Once it has finished, the resync is among the events still to be read. *)
ResyncQueued(c) == \E i \in 1 .. Len(queue[c]) : queue[c][i] = Resync

SignalInv ==
  \A c \in Stream \ crowded :
    c \in stale /\ (\A p \in Publisher : target[p] # c) => ResyncQueued(c)

LossInv == TargetInv /\ RoomInv /\ SignalInv

(* An event added at the end leaves a queued resync where it is. *)
LEMMA AppendKeepsResync ==
  ASSUME TypeOK, NEW c \in Stream, ResyncQueued(c), NEW e \in Event \cup {Resync},
         queue'[c] = Append(queue[c], e)
  PROVE  ResyncQueued(c)'
<1>1. PICK i \in 1 .. Len(queue[c]) : queue[c][i] = Resync
  BY DEF ResyncQueued
<1>2. queue[c] \in Seq(Event \cup {Resync})
  BY DEF TypeOK
<1>3. i \in 1 .. Len(queue'[c]) /\ queue'[c][i] = queue[c][i]
  BY <1>1, <1>2
<1>4. QED
  BY <1>1, <1>3 DEF ResyncQueued

(* A resync that is added is queued. *)
LEMMA AppendResync ==
  ASSUME TypeOK, NEW c \in Stream, queue'[c] = Append(queue[c], Resync)
  PROVE  ResyncQueued(c)'
<1>1. queue[c] \in Seq(Event \cup {Resync})
  BY DEF TypeOK
<1>2. Len(queue'[c]) \in 1 .. Len(queue'[c]) /\ queue'[c][Len(queue'[c])] = Resync
  BY <1>1
<1>3. QED
  BY <1>2 DEF ResyncQueued

(* Reading an event that is not the resync leaves the resync queued. *)
LEMMA TailKeepsResync ==
  ASSUME TypeOK, NEW c \in Stream, ResyncQueued(c), Head(queue[c]) # Resync,
         queue[c] # <<>>, queue'[c] = Tail(queue[c])
  PROVE  ResyncQueued(c)'
<1>1. PICK i \in 1 .. Len(queue[c]) : queue[c][i] = Resync
  BY DEF ResyncQueued
<1>2. queue[c] \in Seq(Event \cup {Resync})
  BY DEF TypeOK
<1>3. i # 1
  BY <1>1, <1>2
<1>4. i - 1 \in 1 .. Len(queue'[c]) /\ queue'[c][i - 1] = queue[c][i]
  BY <1>1, <1>2, <1>3
<1>5. QED
  BY <1>1, <1>4 DEF ResyncQueued

(* The stream handler only takes events out, and a resync it takes out ends the
   staleness. *)
LEMMA StreamKeepsLoss ==
  ASSUME IInv, LossInv, NEW c \in Stream,
         Connect(c) \/ Receive(c) \/ Leave(c) \/ Locking(c)
  PROVE  LossInv'
<1>1. CASE Receive(c)
  <2>1. TargetInv'
    BY <1>1 DEF LossInv, TargetInv, Receive, publishVars
  <2>2. RoomInv'
    <3>1. \A d \in Stream : Len(queue'[d]) <= Len(queue[d])
      BY <1>1 DEF IInv, TypeOK, Receive
    <3>2. \A d \in Stream : Len(queue[d]) \in Nat /\ Len(queue'[d]) \in Nat
      BY <1>1 DEF IInv, TypeOK, Receive
    <3>3. \A d \in Stream : Len(queue[d]) < Capacity => Len(queue'[d]) < Capacity
      BY <3>1, <3>2, CapacityAssumption
    <3>4. QED
      BY <1>1, <3>3 DEF LossInv, TargetInv, RoomInv, Receive, publishVars
  <2>3. SignalInv'
    <3> SUFFICES ASSUME NEW d \in Stream \ crowded', d \in stale',
                        \A p \in Publisher : target'[p] # d
                 PROVE  ResyncQueued(d)'
      BY DEF SignalInv, ResyncQueued
    <3>1. ResyncQueued(d)
      BY <1>1 DEF LossInv, SignalInv, Receive, publishVars
    <3>2. CASE d = c
      BY <1>1, <3>1, <3>2, TailKeepsResync DEF IInv, TypeOK, Receive
    <3>3. CASE d # c
      BY <1>1, <3>1, <3>3 DEF ResyncQueued, IInv, TypeOK, Receive
    <3>4. QED
      BY <3>2, <3>3
  <2>4. QED
    BY <2>1, <2>2, <2>3 DEF LossInv
<1>2. CASE UNCHANGED <<queue, publishVars, lost>>
  BY <1>2 DEF LossInv, TargetInv, RoomInv, SignalInv, ResyncQueued, publishVars, lost
<1>3. QED
  BY <1>1, <1>2 DEF Connect, Leave, Locking, Subscribe, Unsubscribe, CloseChannel

(* A publisher that finds room adds its event; one that does not has a target,
   and the channel it takes is crowded if another has it already. *)
LEMMA SendKeepsLoss == ASSUME IInv, LossInv, NEW p \in Publisher, Send(p) PROVE LossInv'
<1>1. at[p] = "send" /\ target[p] = None /\ event[p] \in Event
  BY DEF Send, LossInv, TargetInv, IInv, LoopInv
<1>2. PICK c \in todo[p] :
        /\ \/ /\ ~Full(c)
              /\ queue' = [queue EXCEPT ![c] = Append(@, event[p])]
              /\ Served(p, c)
              /\ UNCHANGED stale
           \/ /\ Full(c)
              /\ at' = [at EXCEPT ![p] = "drop"]
              /\ target' = [target EXCEPT ![p] = c]
              /\ stale' = stale \cup {c}
              /\ UNCHANGED <<queue, todo>>
        /\ crowded' = crowded \cup {d \in {c} : \E q \in Publisher : target[q] = d}
  BY DEF Send
<1>3. c \in Stream
  BY DEF IInv, TypeOK
<1>4. CASE ~Full(c) /\ queue' = [queue EXCEPT ![c] = Append(@, event[p])]
           /\ Served(p, c) /\ UNCHANGED stale
  <2>1. target' = target /\ at' = at
    BY <1>1, <1>4 DEF Served, IInv, TypeOK
  <2>2. TargetInv'
    BY <2>1 DEF LossInv, TargetInv
  <2>3. RoomInv'
    <3>1. \A q \in Publisher : target[q] \notin crowded' => target[q] # c
      BY <1>2
    <3>2. \A d \in Stream : d # c => queue'[d] = queue[d]
      BY <1>4 DEF IInv, TypeOK
    <3>3. QED
      BY <1>2, <2>1, <3>1, <3>2 DEF LossInv, TargetInv, RoomInv
  <2>4. SignalInv'
    <3> SUFFICES ASSUME NEW d \in Stream \ crowded', d \in stale',
                        \A q \in Publisher : target'[q] # d
                 PROVE  ResyncQueued(d)'
      BY DEF SignalInv, ResyncQueued
    <3>1. ResyncQueued(d)
      BY <1>2, <1>4, <2>1 DEF LossInv, SignalInv
    <3>2. CASE d = c
      BY <1>1, <1>4, <3>1, <3>2, AppendKeepsResync DEF IInv, TypeOK
    <3>3. CASE d # c
      BY <1>4, <3>1, <3>3 DEF ResyncQueued, IInv, TypeOK
    <3>4. QED
      BY <3>2, <3>3
  <2>5. QED
    BY <2>2, <2>3, <2>4 DEF LossInv
<1>5. CASE /\ at' = [at EXCEPT ![p] = "drop"]
           /\ target' = [target EXCEPT ![p] = c]
           /\ stale' = stale \cup {c}
           /\ UNCHANGED <<queue, todo>>
  <2>1. at' \in [Publisher -> Select] /\ target' \in [Publisher -> Stream \cup {None}]
    BY <1>3, <1>5 DEF IInv, TypeOK, Select
  <2>2. TargetInv'
    BY <1>3, <1>5, <2>1 DEF LossInv, TargetInv, IInv, TypeOK
  <2>3. RoomInv'
    <3>1. \A q \in Publisher : q # p => at'[q] = at[q] /\ target'[q] = target[q]
      BY <1>5 DEF IInv, TypeOK
    <3>2. at'[p] = "drop" /\ target'[p] = c
      BY <1>5 DEF IInv, TypeOK
    <3>3. crowded \subseteq crowded'
      BY <1>2
    <3>4. \A q \in Publisher : target[q] = c => c \in crowded'
      BY <1>2
    <3>5. QED
      BY <1>3, <1>5, <3>1, <3>2, <3>3, <3>4 DEF LossInv, RoomInv
  <2>4. SignalInv'
    <3> SUFFICES ASSUME NEW d \in Stream \ crowded', d \in stale',
                        \A q \in Publisher : target'[q] # d
                 PROVE  ResyncQueued(d)'
      BY DEF SignalInv, ResyncQueued
    <3>1. d # c
      BY <1>5 DEF IInv, TypeOK
    <3>2. d \in stale /\ d \notin crowded
      BY <1>2, <1>5, <3>1
    <3>3. \A q \in Publisher : target[q] # d
      BY <1>1, <1>5, NoneAssumption DEF IInv, TypeOK
    <3>4. QED
      BY <1>5, <3>2, <3>3 DEF LossInv, SignalInv, ResyncQueued
  <2>5. QED
    BY <2>2, <2>3, <2>4 DEF LossInv
<1>6. QED
  BY <1>2, <1>4, <1>5

(* Making room never empties a channel of a resync that somebody relies on: the
   channel is the publisher's target. *)
LEMMA DropKeepsLoss == ASSUME IInv, LossInv, NEW p \in Publisher, DropOldest(p) PROVE LossInv'
<1> DEFINE c == target[p]
<1>1. at[p] = "drop" /\ c \in Stream
  BY DEF DropOldest, LossInv, TargetInv
<1>2. /\ at' = [at EXCEPT ![p] = "signal"]
      /\ target' = target /\ stale' = stale /\ crowded' = crowded
      /\ \A d \in Stream : d # c => queue'[d] = queue[d]
  BY DEF DropOldest, IInv, TypeOK, lost
<1>3. Len(queue'[c]) < Capacity
  <2>1. queue[c] \in Seq(Event \cup {Resync}) /\ Len(queue[c]) \in Nat /\ Len(queue[c]) <= Capacity
    BY <1>1 DEF IInv, TypeOK
  <2>2. queue'[c] = IF queue[c] = <<>> THEN queue[c] ELSE Tail(queue[c])
    BY <1>1 DEF DropOldest, IInv, TypeOK
  <2>3. CASE queue[c] = <<>>
    BY <2>2, <2>3, CapacityAssumption
  <2>4. CASE queue[c] # <<>>
    <3>1. Len(queue'[c]) = Len(queue[c]) - 1
      BY <2>1, <2>2, <2>4
    <3>2. QED
      BY <2>1, <3>1, CapacityAssumption
  <2>5. QED
    BY <2>3, <2>4
<1>4. TargetInv'
  BY <1>1, <1>2 DEF LossInv, TargetInv, IInv, TypeOK
<1>5. RoomInv'
  <2>1. \A q \in Publisher : q # p => at'[q] = at[q]
    BY <1>2 DEF IInv, TypeOK
  <2>2. \A q \in Publisher : q # p /\ target[q] = c => c \in crowded
    BY <1>1 DEF LossInv, RoomInv
  <2>3. \A q \in Publisher : at'[q] = "signal" => target[q] \in Stream
    BY <1>1, <2>1 DEF LossInv, TargetInv
  <2>4. \A q \in Publisher :
          at'[q] = "signal" /\ target[q] \notin crowded => Len(queue'[target[q]]) < Capacity
    BY <1>2, <1>3, <2>1, <2>2, <2>3 DEF LossInv, RoomInv
  <2>5. QED
    BY <1>2, <2>4 DEF LossInv, RoomInv
<1>6. SignalInv'
  BY <1>2 DEF LossInv, SignalInv, ResyncQueued
<1>7. QED
  BY <1>4, <1>5, <1>6 DEF LossInv

(* On a channel that is not crowded the room is still there, so the resync is
   queued when the publisher goes on. *)
LEMMA SignalKeepsLoss == ASSUME IInv, LossInv, NEW p \in Publisher, SignalResync(p) PROVE LossInv'
<1> DEFINE c == target[p]
<1>1. at[p] = "signal" /\ c \in Stream
  BY DEF SignalResync, LossInv, TargetInv
<1>2. /\ at' = [at EXCEPT ![p] = "send"]
      /\ target' = [target EXCEPT ![p] = None]
      /\ stale' = stale /\ crowded' = crowded
      /\ queue'[c] = IF Full(c) THEN queue[c] ELSE Append(queue[c], Resync)
      /\ \A d \in Stream : d # c => queue'[d] = queue[d]
  BY <1>1 DEF SignalResync, Served, IInv, TypeOK, lost
<1>3. TargetInv'
  BY <1>1, <1>2 DEF LossInv, TargetInv, IInv, TypeOK
<1>4. \A q \in Publisher : q # p => at'[q] = at[q] /\ target'[q] = target[q]
  BY <1>2 DEF IInv, TypeOK
<1>5. at'[p] = "send" /\ target'[p] = None
  BY <1>2 DEF IInv, TypeOK
<1>6. \A q \in Publisher : q # p /\ target[q] = c => c \in crowded
  BY <1>1 DEF LossInv, RoomInv
<1>7. RoomInv'
  <2>1. \A q \in Publisher :
          at'[q] = "signal" /\ target'[q] \notin crowded => Len(queue'[target'[q]]) < Capacity
    BY <1>2, <1>4, <1>5, <1>6 DEF LossInv, RoomInv, TargetInv
  <2>2. \A q1, q2 \in Publisher :
          q1 # q2 /\ target'[q1] \in Stream /\ target'[q1] = target'[q2] => target'[q1] \in crowded
    BY <1>4, <1>5, NoneAssumption DEF LossInv, RoomInv
  <2>3. QED
    BY <1>2, <2>1, <2>2 DEF RoomInv
<1>8. SignalInv'
  <2> SUFFICES ASSUME NEW d \in Stream \ crowded, d \in stale,
                      \A q \in Publisher : target'[q] # d
               PROVE  ResyncQueued(d)'
    BY <1>2 DEF SignalInv, ResyncQueued
  <2>1. CASE d = c
    <3>1. Len(queue[c]) < Capacity /\ Len(queue[c]) \in Nat
      BY <1>1, <2>1 DEF LossInv, RoomInv, IInv, TypeOK
    <3>2. ~Full(c)
      BY <3>1, CapacityAssumption DEF Full
    <3>3. queue'[c] = Append(queue[c], Resync)
      BY <1>2, <3>2
    <3>4. QED
      BY <1>1, <2>1, <3>3, AppendResync DEF IInv
  <2>2. CASE d # c
    <3>1. \A q \in Publisher : target[q] # d
      BY <1>4, <2>2
    <3>2. QED
      BY <1>2, <2>2, <3>1 DEF LossInv, SignalInv, ResyncQueued
  <2>3. QED
    BY <2>1, <2>2
<1>9. QED
  BY <1>3, <1>7, <1>8 DEF LossInv

(* Starting and ending a Publish touches no channel. *)
LEMMA PublisherKeepsLoss ==
  ASSUME IInv, LossInv, NEW p \in Publisher,
         (\E u \in User, e \in Event : BeginPublish(p, u, e)) \/ Publishing(p)
  PROVE  LossInv'
<1>1. CASE (\E u \in User, e \in Event : BeginPublish(p, u, e)) \/ EndPublish(p)
  <2>1. at'[p] \in {"idle", "send"} /\ at[p] \in {"idle", "send"}
        /\ \A q \in Publisher : q # p => at'[q] = at[q]
    BY <1>1 DEF BeginPublish, EndPublish, IInv, TypeOK
  <2>2. UNCHANGED <<queue, target, stale, crowded>>
    BY <1>1 DEF BeginPublish, EndPublish, lost
  <2>3. QED
    BY <2>1, <2>2 DEF LossInv, TargetInv, RoomInv, SignalInv, ResyncQueued
<1>2. QED
  BY <1>1, SendKeepsLoss, DropKeepsLoss, SignalKeepsLoss DEF Publishing

(* A full channel that loses an event is left with a resync to read, unless two
   publishers worked on it at once: then the second may take the room that the
   first has made for the resync. *)
THEOREM LossIsSignalledAloneHolds == Spec => []LossIsSignalledAlone
<1>1. Init => LossInv
  BY NoneAssumption DEF Init, LossInv, TargetInv, RoomInv, SignalInv
<1>2. IInv /\ LossInv /\ [Next]_vars => LossInv'
  <2> SUFFICES ASSUME IInv, LossInv, [Next]_vars PROVE LossInv'
    OBVIOUS
  <2>1. CASE Next
    BY <2>1, StreamKeepsLoss, PublisherKeepsLoss DEF Next
  <2>2. CASE UNCHANGED vars
    BY <2>2 DEF vars, lost, LossInv, TargetInv, RoomInv, SignalInv, ResyncQueued
  <2>3. QED
    BY <2>1, <2>2
<1>3. LossInv => LossIsSignalledAlone
  BY DEF LossInv, SignalInv, ResyncQueued, LossIsSignalledAlone
<1>4. QED
  BY <1>1, <1>2, <1>3, Invariance, PTL DEF Spec
=============================================================================
