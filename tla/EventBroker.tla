----------------------------- MODULE EventBroker -----------------------------
(***************************************************************************)
(* The in-process event bus (mesh/event_broker.go) and the event streams   *)
(* that read from it (mesh/api_v1_events.go).                              *)
(*                                                                         *)
(* A publisher holds the broker's lock for reading while it visits the     *)
(* channels one by one, in the order of a Go map, which is any order, and  *)
(* never waits: a full channel loses the event.  Subscribing and leaving   *)
(* take the lock for writing, so no channel comes or goes under a          *)
(* publisher; a channel is closed only after it has left.  A client that   *)
(* comes back has a channel of its own, with the name of the first.        *)
(***************************************************************************)
EXTENDS Naturals, Sequences

CONSTANTS
  Client,     \* event streams
  Publisher,  \* goroutines that publish
  Event,
  NoEvent,
  BufferSize  \* capacity of a subscriber's channel: 32 in the code

ASSUME BufferAssumption == BufferSize \in Nat \ {0}
ASSUME NoEventAssumption == NoEvent \notin Event

VARIABLES
  stream,     \* Client -> "away", "reading", "left" (out of the broker's map)
  queue,      \* Client -> what its channel holds
  closed,     \* channels that were closed and not replaced
  publishing, \* Publisher -> the event it publishes
  todo        \* Publisher -> the channels it has yet to visit

brokerVars == <<stream, queue, closed, publishing, todo>>

BrokerTypeOK ==
  /\ stream \in [Client -> {"away", "reading", "left"}]
  /\ queue \in [Client -> Seq(Event)]
  /\ \A c \in Client : Len(queue[c]) <= BufferSize
  /\ closed \subseteq Client
  /\ publishing \in [Publisher -> Event \cup {NoEvent}]
  /\ todo \in [Publisher -> SUBSET Client]

BrokerInit ==
  /\ stream = [c \in Client |-> "away"]
  /\ queue = [c \in Client |-> <<>>]
  /\ closed = {}
  /\ publishing = [g \in Publisher |-> NoEvent]
  /\ todo = [g \in Publisher |-> {}]

\* The channels in the broker's map.
clients == {c \in Client : stream[c] = "reading"}

\* Nobody holds the broker's lock for reading.
NobodyPublishes == \A g \in Publisher : publishing[g] = NoEvent

Subscribe(c) ==
  /\ stream[c] = "away"
  /\ NobodyPublishes
  /\ stream' = [stream EXCEPT ![c] = "reading"]
  /\ queue' = [queue EXCEPT ![c] = <<>>]
  /\ closed' = closed \ {c}
  /\ UNCHANGED <<publishing, todo>>

\* v1Events takes the next event and writes it to the client.
Receive(c) ==
  /\ stream[c] = "reading"
  /\ queue[c] # <<>>
  /\ queue' = [queue EXCEPT ![c] = Tail(@)]
  /\ UNCHANGED <<stream, closed, publishing, todo>>

\* Mutant: the channel is taken out of the map without the lock.
LeaveUnlocked(c) ==
  /\ stream[c] = "reading"
  /\ stream' = [stream EXCEPT ![c] = "left"]
  /\ UNCHANGED <<queue, closed, publishing, todo>>

\* The client is gone: Unsubscribe takes its channel out of the map ...
Leave(c) ==
  /\ stream[c] = "reading"
  /\ NobodyPublishes
  /\ stream' = [stream EXCEPT ![c] = "left"]
  /\ UNCHANGED <<queue, closed, publishing, todo>>

\* ... and, with no lock held, closes it.
Close(c) ==
  /\ stream[c] = "left"
  /\ stream' = [stream EXCEPT ![c] = "away"]
  /\ queue' = [queue EXCEPT ![c] = <<>>]
  /\ closed' = closed \cup {c}
  /\ UNCHANGED <<publishing, todo>>

BeginPublish(g, e) ==
  /\ publishing[g] = NoEvent
  /\ publishing' = [publishing EXCEPT ![g] = e]
  /\ todo' = [todo EXCEPT ![g] = clients]
  /\ UNCHANGED <<stream, queue, closed>>

\* Mutant: the send waits for room in the channel.
DeliverBlocking(g, c) ==
  /\ c \in todo[g]
  /\ Len(queue[c]) < BufferSize
  /\ queue' = [queue EXCEPT ![c] = Append(@, publishing[g])]
  /\ todo' = [todo EXCEPT ![g] = @ \ {c}]
  /\ UNCHANGED <<stream, closed, publishing>>

\* Mutant: the channel takes one event more than it holds.
AcceptsOneMore(c) == Len(queue[c]) <= BufferSize

\* select with a default: there is room, or the event is dropped.
Accepts(c) == Len(queue[c]) < BufferSize

Deliver(g, c) ==
  /\ c \in todo[g]
  /\ queue' = IF Accepts(c) THEN [queue EXCEPT ![c] = Append(@, publishing[g])] ELSE queue
  /\ todo' = [todo EXCEPT ![g] = @ \ {c}]
  /\ UNCHANGED <<stream, closed, publishing>>

EndPublish(g) ==
  /\ publishing[g] # NoEvent
  /\ todo[g] = {}
  /\ publishing' = [publishing EXCEPT ![g] = NoEvent]
  /\ UNCHANGED <<stream, queue, closed, todo>>

\* A send on a closed channel would take the whole server down: no publisher has
\* one ahead of it, whatever clients come and go while it is at work.
NoSendOnClosed == \A g \in Publisher : todo[g] \cap closed = {}

\* Publish never blocks: with any number of clients that do not read, a publisher
\* that has begun ends, and with it the message loop and the lock it may hold.
PublishFinishes == \A g \in Publisher : publishing[g] # NoEvent ~> publishing[g] = NoEvent

=============================================================================
