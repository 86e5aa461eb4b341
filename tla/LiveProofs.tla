----------------------------- MODULE LiveProofs -----------------------------
(***************************************************************************)
(* Theorems about LiveEvents, for any devices, links and clients, and      *)
(* channels of any capacity.                                               *)
(***************************************************************************)
EXTENDS LiveEvents, SequenceTheorems, TLAPS

USE BufferAssumption, NoEventAssumption, PublisherAssumption

(***************************************************************************)
(* Type correctness.                                                       *)
(***************************************************************************)

LEMMA EventType ==
  ASSUME NEW m \in Mac, NEW type \in {"health", "node_online", "node_offline"}
  PROVE  EventOf(type, m) \in Event
BY DEF EventOf

LEMMA AnnouncementType ==
  ASSUME TypeOK, NEW g \in Publisher
  PROVE  /\ Announcement(g) \in Event
         /\ Announcement(g).mac = node[g] /\ Announcement(g).type \in Presence
         /\ Announcement(g).type = (IF online[node[g]] THEN "node_online" ELSE "node_offline")
<1>1. node[g] \in Mac
  BY DEF TypeOK
<1>. QED BY <1>1 DEF Announcement, EventOf, Presence

(***************************************************************************)
(* The broker.                                                             *)
(***************************************************************************)

\* A publisher that has channels to visit is publishing, they are in the broker's
\* map, and a channel in the map is not closed.
Visits ==
  /\ \A g \in Publisher : publishing[g] = NoEvent => todo[g] = {}
  /\ \A g \in Publisher : todo[g] \subseteq clients
  /\ closed \cap clients = {}

LEMMA EmptyQueue ==
  ASSUME BrokerTypeOK, NEW c \in Client, queue' = [queue EXCEPT ![c] = <<>>]
  PROVE  /\ queue' \in [Client -> Seq(Event)]
         /\ \A o \in Client : Len(queue'[o]) <= BufferSize
<1>1. <<>> \in Seq(Event) /\ Len(<<>>) <= BufferSize
  OBVIOUS
<1>2. \A o \in Client : queue'[o] = queue[o] \/ queue'[o] = <<>>
  BY DEF BrokerTypeOK
<1>. QED BY <1>1, <1>2 DEF BrokerTypeOK

LEMMA ClientBroker ==
  ASSUME BrokerTypeOK, Visits, NEW c \in Client,
         Subscribe(c) \/ Receive(c) \/ Leave(c) \/ Close(c)
  PROVE  BrokerTypeOK' /\ Visits'
<1>1. CASE Subscribe(c)
  <2>1. BrokerTypeOK'
    BY <1>1, EmptyQueue DEF Subscribe, BrokerTypeOK
  <2>2. clients' = clients \cup {c}
    BY <1>1 DEF Subscribe, BrokerTypeOK, clients
  <2>. QED BY <1>1, <2>1, <2>2 DEF Subscribe, Visits
<1>2. CASE Receive(c)
  <2>1. /\ queue[c] \in Seq(Event) /\ queue[c] # <<>> /\ Len(queue[c]) <= BufferSize
    BY <1>2 DEF Receive, BrokerTypeOK
  <2>2. Tail(queue[c]) \in Seq(Event) /\ Len(Tail(queue[c])) <= BufferSize
    BY <2>1, HeadTailProperties
  <2>3. BrokerTypeOK'
    BY <1>2, <2>2 DEF Receive, BrokerTypeOK
  <2>. QED BY <1>2, <2>3 DEF Receive, Visits, clients
<1>3. CASE Leave(c)
  <2>1. BrokerTypeOK'
    BY <1>3 DEF Leave, BrokerTypeOK
  <2>2. \A g \in Publisher : todo[g] = {}
    BY <1>3 DEF Leave, NobodyPublishes, Visits
  <2>3. clients' \subseteq clients
    BY <1>3 DEF Leave, BrokerTypeOK, clients
  <2>. QED BY <1>3, <2>1, <2>2, <2>3 DEF Leave, Visits
<1>4. CASE Close(c)
  <2>1. BrokerTypeOK'
    BY <1>4, EmptyQueue DEF Close, BrokerTypeOK
  <2>2. clients' = clients /\ c \notin clients
    BY <1>4 DEF Close, BrokerTypeOK, clients
  <2>. QED BY <1>4, <2>1, <2>2 DEF Close, Visits
<1>. QED BY <1>1, <1>2, <1>3, <1>4

LEMMA BeginBroker ==
  ASSUME BrokerTypeOK, Visits, NEW g \in Publisher, NEW e \in Event, BeginPublish(g, e)
  PROVE  BrokerTypeOK' /\ Visits'
<1>1. clients \subseteq Client /\ clients' = clients
  BY DEF BeginPublish, clients
<1>2. BrokerTypeOK'
  BY <1>1 DEF BeginPublish, BrokerTypeOK
<1>3. Visits'
  BY <1>1 DEF BeginPublish, BrokerTypeOK, Visits
<1>. QED BY <1>2, <1>3

LEMMA DeliverBroker ==
  ASSUME BrokerTypeOK, Visits, NEW g \in Publisher, NEW c \in Client, Deliver(g, c)
  PROVE  BrokerTypeOK' /\ Visits'
<1>1. publishing[g] \in Event
  BY DEF Deliver, Visits, BrokerTypeOK
<1>2. todo' \in [Publisher -> SUBSET Client]
  BY DEF Deliver, BrokerTypeOK
<1>3. queue' \in [Client -> Seq(Event)] /\ \A o \in Client : Len(queue'[o]) <= BufferSize
  <2>1. CASE ~Accepts(c)
    BY <2>1 DEF Deliver, BrokerTypeOK
  <2>2. CASE Accepts(c)
    <3>1. queue[c] \in Seq(Event) /\ Len(queue[c]) \in Nat /\ Len(queue[c]) < BufferSize
      BY <2>2, LenProperties DEF Accepts, BrokerTypeOK
    <3>2. /\ Append(queue[c], publishing[g]) \in Seq(Event)
          /\ Len(Append(queue[c], publishing[g])) <= BufferSize
      BY <1>1, <3>1, AppendProperties
    <3>3. queue' = [queue EXCEPT ![c] = Append(queue[c], publishing[g])]
      BY <2>2 DEF Deliver
    <3>. QED BY <3>2, <3>3 DEF BrokerTypeOK
  <2>. QED BY <2>1, <2>2
<1>4. BrokerTypeOK'
  BY <1>2, <1>3 DEF Deliver, BrokerTypeOK
<1>5. Visits'
  BY DEF Deliver, BrokerTypeOK, Visits, clients
<1>. QED BY <1>4, <1>5

LEMMA EndBroker ==
  ASSUME BrokerTypeOK, Visits, NEW g \in Publisher, EndPublish(g)
  PROVE  BrokerTypeOK' /\ Visits'
BY DEF EndPublish, BrokerTypeOK, Visits, clients

LEMMA IdleBroker ==
  ASSUME BrokerTypeOK, Visits, UNCHANGED brokerVars
  PROVE  BrokerTypeOK' /\ Visits'
BY DEF brokerVars, BrokerTypeOK, Visits, clients

\* What a step of LiveEvents is to the broker.
LEMMA NextBroker ==
  ASSUME TypeOK, Visits, [Next]_vars
  PROVE  BrokerTypeOK' /\ Visits'
<1>. BrokerTypeOK
  BY DEF TypeOK
<1>1. ASSUME NEW g \in Publisher, NEW c \in Client, Send(g, c)
      PROVE  BrokerTypeOK' /\ Visits'
  BY <1>1, DeliverBroker DEF Send
<1>2. ASSUME NEW g \in Publisher, Look(g)
      PROVE  BrokerTypeOK' /\ Visits'
  <2>1. EventOf("health", node[g]) \in Event
    BY EventType DEF TypeOK
  <2>. QED BY <1>2, <2>1, IdleBroker, BeginBroker DEF Look
<1>3. ASSUME NEW g \in Publisher, HealthPublished(g) \/ Announced(g)
      PROVE  BrokerTypeOK' /\ Visits'
  BY <1>3, EndBroker DEF HealthPublished, Announced
<1>4. ASSUME NEW g \in Publisher, Announce(g)
      PROVE  BrokerTypeOK' /\ Visits'
  BY <1>4, AnnouncementType, BeginBroker DEF Announce
<1>5. ASSUME NEW c \in Client, Join(c) \/ ClientStep(c)
      PROVE  BrokerTypeOK' /\ Visits'
  BY <1>5, ClientBroker DEF Join, ClientStep
<1>6. CASE \/ \E g \in Publisher : Lock(g)
           \/ \E m \in Mac : Scan(m) \/ GoesSilent(m) \/ Assigned(m) \/ Deleted(m)
           \/ ScanEnds \/ Tick \/ UNCHANGED vars
           \/ \E l \in Link, m \in Mac : Report(l, m)
  <2>1. UNCHANGED brokerVars
    BY <1>6 DEF Lock, LinkLocks, DetectorLocks, Scan, GoesSilent, Assigned, Deleted, ScanEnds,
                Tick, Report, vars
  <2>. QED BY <2>1, IdleBroker
<1>. QED BY <1>1, <1>2, <1>3, <1>4, <1>5, <1>6 DEF Next, Proceed

\* What LiveEvents keeps besides, by the step.
LEMMA InitType == Init => TypeOK /\ Visits
<1>. SUFFICES ASSUME Init PROVE TypeOK /\ Visits
  OBVIOUS
<1>1. BrokerTypeOK /\ Visits
  <2>1. <<>> \in Seq(Event) /\ Len(<<>>) <= BufferSize
    OBVIOUS
  <2>. QED BY <2>1 DEF Init, BrokerInit, BrokerTypeOK, Visits, clients
<1>2. /\ seen \in [Mac -> Age] /\ copy \in [Mac -> Age] /\ online \in [Mac -> BOOLEAN]
      /\ unseen \subseteq Mac /\ node \in [Publisher -> Mac]
  BY DEF Init, Age
<1>3. /\ mu \in {{}} \cup {{g} : g \in Publisher}
      /\ pc \in [Publisher -> {"idle", "look", "health", "lock", "scan", "announce", "announcing"}]
  BY DEF Init
<1>4. /\ told \in [Client -> [Mac -> Presence \cup {"none"}]]
      /\ missed \in [Client -> SUBSET Mac]
  <2>1. [m \in Mac |-> "none"] \in [Mac -> Presence \cup {"none"}]
    OBVIOUS
  <2>. QED BY <2>1 DEF Init
<1>. QED BY <1>1, <1>2, <1>3, <1>4 DEF TypeOK

\* Somebody who has mu gives it back alone.
Holds(g) == pc[g] \in {"scan", "announce", "announcing"}

Holding == \A g \in Publisher : Holds(g) => mu = {g}

LEMMA NextType ==
  ASSUME TypeOK, Visits, Holding, [Next]_vars
  PROVE  TypeOK'
<1>. USE DEF At, Goto
<1> DEFINE Step == {"idle", "look", "health", "lock", "scan", "announce", "announcing"}
           Rest == /\ seen' \in [Mac -> Age] /\ copy' \in [Mac -> Age]
                   /\ online' \in [Mac -> BOOLEAN]
                   /\ mu' \in {{}} \cup {{g} : g \in Publisher}
                   /\ pc' \in [Publisher -> Step]
                   /\ node' \in [Publisher -> Mac]
                   /\ unseen' \subseteq Mac
                   /\ told' \in [Client -> [Mac -> Presence \cup {"none"}]]
                   /\ missed' \in [Client -> SUBSET Mac]
<1>1. ASSUME NEW g \in Publisher, NEW c \in Client, Send(g, c)
      PROVE  Rest
  <2>1. UNCHANGED presenceVars
    BY <1>1 DEF Send
  <2>2. told \in [Client -> [Mac -> Presence \cup {"none"}]] /\ missed \in [Client -> SUBSET Mac]
    BY DEF TypeOK
  <2>3. publishing[g] \in Event
    BY <1>1 DEF Send, Deliver, Visits, TypeOK, BrokerTypeOK
  <2>4. PICK e : e = publishing[g]
    OBVIOUS
  <2>5. e.mac \in Mac
    BY <2>3, <2>4
  <2>6. missed' \in [Client -> SUBSET Mac]
    <3>1. \/ missed' = missed
          \/ missed' = [missed EXCEPT ![c] = @ \cup {e.mac}]
          \/ missed' = [missed EXCEPT ![c] = @ \ {e.mac}]
      BY <1>1, <2>4 DEF Send, history
    <3>. QED BY <2>2, <2>5, <3>1
  <2>7. told' \in [Client -> [Mac -> Presence \cup {"none"}]]
    <3>1. \/ told' = told
          \/ e.type \in Presence /\ told' = [told EXCEPT ![c][e.mac] = e.type]
      BY <1>1, <2>4 DEF Send, history
    <3>2. PICK P : P = Presence \cup {"none"}
      OBVIOUS
    <3>3. e.type \in Presence => e.type \in P
      BY <3>2
    <3>. QED BY <2>2, <2>5, <3>1, <3>2, <3>3
  <2>. QED BY <2>1, <2>6, <2>7 DEF presenceVars, TypeOK
<1>2. ASSUME NEW g \in Publisher, Look(g) \/ HealthPublished(g) \/ Announce(g)
      PROVE  Rest
  BY <1>2 DEF Look, HealthPublished, Announce, history, TypeOK
<1>3. ASSUME NEW g \in Publisher, Announced(g)
      PROVE  Rest
  <2>1. mu = {g}
    BY <1>3 DEF Announced, Holding, Holds
  <2>2. mu' \in {{}} \cup {{h} : h \in Publisher}
    BY <1>3, <2>1 DEF Announced
  <2>. QED BY <1>3, <2>2 DEF Announced, history, TypeOK
<1>4. ASSUME NEW m \in Mac, Scan(m)
      PROVE  Rest
  <2>0. Detector \in Publisher
    OBVIOUS
  <2>1. CASE UNCHANGED <<online, node, pc>>
    BY <1>4, <2>1 DEF Scan, history, TypeOK
  <2>2. CASE /\ online' = [online EXCEPT ![m] = FALSE]
             /\ node' = [node EXCEPT ![Detector] = m]
             /\ Goto(Detector, "announce")
    <3>1. UNCHANGED <<seen, mu, copy, history>> /\ unseen' = unseen \ {m}
      BY <1>4 DEF Scan
    <3>2. online' \in [Mac -> BOOLEAN] /\ node' \in [Publisher -> Mac] /\ pc' \in [Publisher -> Step]
      BY <2>0, <2>2 DEF TypeOK
    <3>. QED BY <3>1, <3>2 DEF history, TypeOK
  <2>. QED BY <1>4, <2>1, <2>2 DEF Scan
<1>5. ASSUME ScanEnds \/ Tick
      PROVE  Rest
  <2>. Detector \in Publisher
    OBVIOUS
  <2>. QED BY <1>5 DEF ScanEnds, Tick, history, TypeOK, Age
<1>6. ASSUME DetectorLocks
      PROVE  Rest
  <2>. Detector \in Publisher
    OBVIOUS
  <2>. QED BY <1>6 DEF DetectorLocks, history, TypeOK
<1>7. ASSUME NEW g \in Publisher, LinkLocks(g)
      PROVE  Rest
  BY <1>7 DEF LinkLocks, history, TypeOK
<1>8. ASSUME NEW l \in Link, NEW m \in Mac, Report(l, m)
      PROVE  Rest
  BY <1>8 DEF Report, history, TypeOK, Age
<1>9. ASSUME NEW m \in Mac, GoesSilent(m) \/ Assigned(m) \/ Deleted(m)
      PROVE  Rest
  BY <1>9 DEF GoesSilent, Assigned, Deleted, history, TypeOK, Age
<1>10. ASSUME NEW c \in Client, Join(c) \/ ClientStep(c)
       PROVE  Rest
  <2>1. UNCHANGED presenceVars
    BY <1>10 DEF Join, ClientStep
  <2>2. /\ told' \in [Client -> [Mac -> Presence \cup {"none"}]]
        /\ missed' \in [Client -> SUBSET Mac]
    <3>1. CASE UNCHANGED history
      BY <3>1 DEF history, TypeOK
    <3>2. CASE Join(c)
      <4>1. [m \in Mac |-> "none"] \in [Mac -> Presence \cup {"none"}]
        OBVIOUS
      <4>. QED BY <3>2, <4>1 DEF Join, TypeOK
    <3>. QED BY <1>10, <3>1, <3>2 DEF ClientStep
  <2>. QED BY <2>1, <2>2 DEF presenceVars, TypeOK
<1>11. ASSUME UNCHANGED vars
       PROVE  Rest
  BY <1>11 DEF vars, presenceVars, history, TypeOK
<1>12. Rest
  <2>. HIDE DEF Rest
  <2>. QED BY <1>1, <1>2, <1>3, <1>4, <1>5, <1>6, <1>7, <1>8, <1>9, <1>10, <1>11
           DEF Next, Proceed, Lock
<1>13. BrokerTypeOK'
  BY NextBroker
<1>. QED BY <1>12, <1>13 DEF TypeOK

(***************************************************************************)
(* Who has mu, and what is being published.                                *)
(***************************************************************************)

\* A publisher that is past its Lock and not yet at its Unlock has mu, alone.
LEMMA NextHolding ==
  ASSUME TypeOK, Holding, [Next]_vars
  PROVE  Holding'
<1>. USE DEF At, Goto, Holds
<1>. pc \in [Publisher -> {"idle", "look", "health", "lock", "scan", "announce", "announcing"}]
  BY DEF TypeOK
<1>1. ASSUME NEW g \in Publisher, NEW c \in Client, Send(g, c)
      PROVE  Holding'
  BY <1>1 DEF Send, presenceVars, Holding
<1>2. ASSUME NEW g \in Publisher, Look(g) \/ HealthPublished(g) \/ Announce(g)
      PROVE  Holding'
  BY <1>2 DEF Look, HealthPublished, Announce, Holding
<1>3. ASSUME NEW g \in Publisher, Announced(g)
      PROVE  Holding'
  <2>1. mu = {g} /\ \A h \in Publisher \ {g} : ~Holds(h)
    BY <1>3 DEF Announced, Holding
  <2>. QED BY <1>3, <2>1 DEF Announced, Holding
<1>4. ASSUME NEW m \in Mac, Scan(m)
      PROVE  Holding'
  BY <1>4 DEF Scan, Holding
<1>5. CASE ScanEnds
  <2>1. mu = {Detector} /\ \A h \in Publisher \ {Detector} : ~Holds(h)
    BY <1>5 DEF ScanEnds, Holding
  <2>. QED BY <1>5, <2>1 DEF ScanEnds, Holding
<1>6. CASE Tick
  BY <1>6 DEF Tick, Holding
<1>7. ASSUME NEW g \in Publisher, Lock(g)
      PROVE  Holding'
  <2>1. \A h \in Publisher : ~Holds(h)
    BY <1>7 DEF Lock, LinkLocks, DetectorLocks, Holding
  <2>. QED BY <1>7, <2>1 DEF Lock, LinkLocks, DetectorLocks, Holding
<1>8. ASSUME NEW l \in Link, NEW m \in Mac, Report(l, m)
      PROVE  Holding'
  BY <1>8 DEF Report, Holding
<1>9. ASSUME NEW m \in Mac, GoesSilent(m) \/ Assigned(m) \/ Deleted(m)
      PROVE  Holding'
  BY <1>9 DEF GoesSilent, Assigned, Deleted, Holding
<1>10. ASSUME NEW c \in Client, Join(c) \/ ClientStep(c)
       PROVE  Holding'
  BY <1>10 DEF Join, ClientStep, presenceVars, Holding
<1>11. CASE UNCHANGED vars
  BY <1>11 DEF vars, presenceVars, Holding
<1>. QED BY <1>1, <1>2, <1>3, <1>4, <1>5, <1>6, <1>7, <1>8, <1>9, <1>10, <1>11
         DEF Next, Proceed

\* What a publisher publishes follows from where it is.
Says(g) ==
  /\ pc[g] = "announcing" => publishing[g] = Announcement(g)
  /\ pc[g] = "health" => publishing[g].type = "health"
  /\ pc[g] \notin {"health", "announcing"} => publishing[g] = NoEvent

Saying == \A g \in Publisher : Says(g)

\* An announcement stays true while it is published: mu guards what it is about.
LEMMA NextSaying ==
  ASSUME TypeOK, Holding, Saying, [Next]_vars
  PROVE  Saying'
<1>. USE DEF At, Goto
<1>. /\ pc \in [Publisher -> {"idle", "look", "health", "lock", "scan", "announce", "announcing"}]
     /\ node \in [Publisher -> Mac] /\ online \in [Mac -> BOOLEAN]
     /\ publishing \in [Publisher -> Event \cup {NoEvent}]
  BY DEF TypeOK, BrokerTypeOK
\* Whoever does not move says what it said if its node is as it was.
<1>0. ASSUME NEW h \in Publisher, pc'[h] = pc[h], publishing'[h] = publishing[h],
             pc[h] = "announcing" => node'[h] = node[h] /\ online'[node[h]] = online[node[h]]
      PROVE  Says(h)'
  BY <1>0 DEF Saying, Says, Announcement, EventOf
<1>1. ASSUME NEW g \in Publisher, NEW c \in Client, Send(g, c)
      PROVE  Saying'
  BY <1>0, <1>1 DEF Send, Deliver, presenceVars, Saying
<1>2. ASSUME NEW g \in Publisher, Look(g)
      PROVE  Saying'
  <2>1. \A h \in Publisher \ {g} : Says(h)'
    BY <1>0, <1>2 DEF Look, BeginPublish, brokerVars
  <2>2. Says(g)'
    BY <1>2 DEF Look, BeginPublish, brokerVars, Saying, Says, EventOf
  <2>. QED BY <2>1, <2>2 DEF Saying
<1>3. ASSUME NEW g \in Publisher, HealthPublished(g)
      PROVE  Saying'
  <2>1. \A h \in Publisher \ {g} : Says(h)'
    BY <1>0, <1>3 DEF HealthPublished, EndPublish
  <2>2. Says(g)'
    BY <1>3 DEF HealthPublished, EndPublish, Says
  <2>. QED BY <2>1, <2>2 DEF Saying
<1>4. ASSUME NEW g \in Publisher, Announce(g)
      PROVE  Saying'
  <2>1. \A h \in Publisher \ {g} : Says(h)'
    BY <1>0, <1>4 DEF Announce, BeginPublish
  <2>2. Says(g)'
    BY <1>4 DEF Announce, BeginPublish, Says, Announcement, EventOf
  <2>. QED BY <2>1, <2>2 DEF Saying
<1>5. ASSUME NEW g \in Publisher, Announced(g)
      PROVE  Saying'
  <2>1. \A h \in Publisher \ {g} : Says(h)'
    BY <1>0, <1>5 DEF Announced, EndPublish
  <2>2. Says(g)'
    BY <1>5 DEF Announced, EndPublish, Says
  <2>. QED BY <2>1, <2>2 DEF Saying
<1>6. ASSUME NEW m \in Mac, Scan(m)
      PROVE  Saying'
  <2>. Detector \in Publisher
    OBVIOUS
  <2>1. \A h \in Publisher \ {Detector} : pc[h] # "announcing"
    BY <1>6 DEF Scan, Holding, Holds
  <2>2. \A h \in Publisher \ {Detector} : Says(h)'
    BY <1>0, <1>6, <2>1 DEF Scan, brokerVars
  <2>3. Says(Detector)'
    BY <1>6 DEF Scan, brokerVars, Saying, Says
  <2>. QED BY <2>2, <2>3 DEF Saying
<1>7. ASSUME NEW g \in Publisher, Lock(g)
      PROVE  Saying'
  <2>1. \A h \in Publisher : pc[h] # "announcing"
    BY <1>7 DEF Lock, LinkLocks, DetectorLocks, Holding, Holds
  <2>2. \A h \in Publisher \ {g} : Says(h)'
    BY <1>0, <1>7, <2>1 DEF Lock, LinkLocks, DetectorLocks, brokerVars
  <2>3. Says(g)'
    BY <1>7 DEF Lock, LinkLocks, DetectorLocks, brokerVars, Saying, Says
  <2>. QED BY <2>2, <2>3 DEF Saying
<1>8. ASSUME NEW g \in Publisher, pc[g] = "idle" \/ pc[g] = "scan",
             pc'[g] \notin {"health", "announcing"},
             UNCHANGED <<publishing, online>>,
             \A h \in Publisher \ {g} : pc'[h] = pc[h] /\ node'[h] = node[h]
      PROVE  Saying'
  <2>1. Says(g)'
    BY <1>8 DEF Saying, Says
  <2>. QED BY <1>0, <1>8, <2>1 DEF Saying
<1>9. CASE ScanEnds \/ Tick
  BY <1>8, <1>9 DEF ScanEnds, Tick, brokerVars
<1>10. ASSUME NEW l \in Link, NEW m \in Mac, Report(l, m)
       PROVE  Saying'
  BY <1>8, <1>10 DEF Report, brokerVars
<1>11. CASE \/ \E m \in Mac : GoesSilent(m) \/ Assigned(m) \/ Deleted(m)
            \/ \E c \in Client : Join(c) \/ ClientStep(c)
            \/ UNCHANGED vars
  <2>1. UNCHANGED <<pc, publishing, node, online>>
    BY <1>11 DEF GoesSilent, Assigned, Deleted, Join, Subscribe, ClientStep, Receive, Leave, Close,
                 vars, brokerVars, presenceVars
  <2>. QED BY <1>0, <2>1 DEF Saying
<1>. QED BY <1>1, <1>2, <1>3, <1>4, <1>5, <1>6, <1>7, <1>9, <1>10, <1>11 DEF Next, Proceed

(***************************************************************************)
(* What clients were told.                                                 *)
(***************************************************************************)

\* What StreamTellsPresence says of one client and one node.
Truth(c, m) ==
  told[c][m] # "none" /\ m \notin missed[c] /\ ~OnItsWay(m, c)
  => told[c][m] = (IF online[m] THEN "node_online" ELSE "node_offline")

\* A step that neither tells a client anything nor changes nodeOnlineState, and
\* takes no announcement off its way.
LEMMA TruthStays ==
  ASSUME StreamTellsPresence, UNCHANGED <<history, online>>, clients' \subseteq clients,
         \A c \in clients', m \in Mac : OnItsWay(m, c) => OnItsWay(m, c)'
  PROVE  StreamTellsPresence'
BY DEF StreamTellsPresence, history

\* nodeOnlineState changes with the announcement on its way.
LEMMA TruthChanges ==
  ASSUME TypeOK, StreamTellsPresence, UNCHANGED <<history, clients>>, NEW n \in Mac,
         \A m \in Mac \ {n} : online'[m] = online[m],
         \A c \in clients : OnItsWay(n, c)',
         \A c \in clients, m \in Mac : OnItsWay(m, c) => OnItsWay(m, c)'
  PROVE  StreamTellsPresence'
BY DEF StreamTellsPresence, history

\* A presence event is put into a channel, or lost there.
LEMMA TruthTold ==
  ASSUME TypeOK, Visits, Saying, StreamTellsPresence,
         NEW g \in Publisher, NEW c \in Client, Send(g, c), pc[g] = "announcing"
  PROVE  StreamTellsPresence'
<1>1. /\ node[g] \in Mac
      /\ told \in [Client -> [Mac -> Presence \cup {"none"}]] /\ missed \in [Client -> SUBSET Mac]
      /\ todo \in [Publisher -> SUBSET Client]
  BY DEF TypeOK, BrokerTypeOK
<1>2. UNCHANGED <<online, node, pc, clients>> /\ todo' = [todo EXCEPT ![g] = @ \ {c}]
  BY DEF Send, Deliver, presenceVars, clients
<1>3. PICK e : e = publishing[g]
  OBVIOUS
<1>4. /\ e.mac = node[g] /\ e.type \in Presence
      /\ e.type = (IF online[node[g]] THEN "node_online" ELSE "node_offline")
  BY <1>3, AnnouncementType DEF Saying, Says
<1>5. \/ /\ told' = [told EXCEPT ![c][node[g]] = e.type]
         /\ missed' = [missed EXCEPT ![c] = @ \ {node[g]}]
      \/ told' = told /\ missed' = [missed EXCEPT ![c] = @ \cup {node[g]}]
  BY <1>3, <1>4 DEF Send
<1>6. ASSUME NEW o \in clients, NEW m \in Mac, o # c \/ m # node[g]
      PROVE  Truth(o, m)'
  <2>1. o \in Client
    BY DEF clients
  <2>2. told'[o][m] = told[o][m] /\ (m \in missed'[o] <=> m \in missed[o])
    BY <1>1, <1>5, <1>6, <2>1
  <2>3. OnItsWay(m, o) => OnItsWay(m, o)'
    BY <1>1, <1>2, <1>6 DEF OnItsWay, At
  <2>4. Truth(o, m)
    BY DEF StreamTellsPresence, Truth
  <2>. QED BY <1>2, <2>2, <2>3, <2>4 DEF Truth
<1>7. ASSUME NEW n, n = node[g]
      PROVE  Truth(c, n)'
  <2>1. n \in missed'[c] \/ told'[c][n] = e.type
    BY <1>1, <1>5, <1>7
  <2>2. Truth(c, n)' <=>
          (told'[c][n] # "none" /\ n \notin missed'[c] /\ ~OnItsWay(n, c)'
           => told'[c][n] = (IF online[n] THEN "node_online" ELSE "node_offline"))
    BY <1>2 DEF Truth, OnItsWay, At
  <2>. QED BY <1>4, <1>7, <2>1, <2>2
<1>8. \A o \in clients, m \in Mac : Truth(o, m)'
  <2>. SUFFICES ASSUME NEW o \in clients, NEW m \in Mac PROVE Truth(o, m)'
    OBVIOUS
  <2>1. CASE o # c \/ m # node[g]
    BY <1>6, <2>1
  <2>2. CASE o = c /\ m = node[g]
    BY <1>7, <2>2
  <2>. QED BY <2>1, <2>2
<1>. QED BY <1>2, <1>8 DEF StreamTellsPresence, Truth

LEMMA NextTruth ==
  ASSUME TypeOK, Visits, Holding, Saying, StreamTellsPresence, [Next]_vars
  PROVE  StreamTellsPresence'
<1>. USE DEF At, Goto
<1>. /\ pc \in [Publisher -> {"idle", "look", "health", "lock", "scan", "announce", "announcing"}]
     /\ node \in [Publisher -> Mac] /\ todo \in [Publisher -> SUBSET Client]
     /\ online \in [Mac -> BOOLEAN]
  BY DEF TypeOK, BrokerTypeOK
<1>1. ASSUME NEW g \in Publisher, NEW c \in Client, Send(g, c)
      PROVE  StreamTellsPresence'
  <2>1. CASE pc[g] = "announcing"
    BY <1>1, <2>1, TruthTold
  <2>2. CASE pc[g] # "announcing"
    <3>1. publishing[g].type = "health"
      BY <1>1, <2>2 DEF Send, Deliver, Visits, Saying, Says
    <3>2. UNCHANGED history
      BY <1>1, <3>1 DEF Send, Presence
    <3>3. UNCHANGED <<online, node, pc, clients>> /\ todo' = [todo EXCEPT ![g] = @ \ {c}]
      BY <1>1 DEF Send, Deliver, presenceVars, clients
    <3>4. \A o \in clients', m \in Mac : OnItsWay(m, o) => OnItsWay(m, o)'
      BY <2>2, <3>3 DEF OnItsWay
    <3>. QED BY <3>2, <3>3, <3>4, TruthStays
  <2>. QED BY <2>1, <2>2
<1>2. ASSUME NEW g \in Publisher, Look(g) \/ HealthPublished(g)
      PROVE  StreamTellsPresence'
  <2>1. UNCHANGED <<history, online, node, clients>>
    BY <1>2 DEF Look, HealthPublished, BeginPublish, EndPublish, brokerVars, clients
  <2>2. pc[g] \in {"look", "health"}
        /\ \A h \in Publisher \ {g} : pc'[h] = pc[h] /\ todo'[h] = todo[h]
    BY <1>2 DEF Look, HealthPublished, BeginPublish, EndPublish, brokerVars
  <2>3. \A o \in clients', m \in Mac : OnItsWay(m, o) => OnItsWay(m, o)'
    BY <2>1, <2>2 DEF OnItsWay
  <2>. QED BY <2>1, <2>3, TruthStays
<1>3. ASSUME NEW g \in Publisher, Announce(g)
      PROVE  StreamTellsPresence'
  <2>1. /\ UNCHANGED <<history, online, node, clients>>
        /\ pc' = [pc EXCEPT ![g] = "announcing"] /\ todo' = [todo EXCEPT ![g] = clients]
    BY <1>3 DEF Announce, BeginPublish, clients
  <2>2. \A o \in clients', m \in Mac : OnItsWay(m, o) => OnItsWay(m, o)'
    BY <2>1 DEF OnItsWay
  <2>. QED BY <2>1, <2>2, TruthStays
<1>4. ASSUME NEW g \in Publisher, Announced(g)
      PROVE  StreamTellsPresence'
  <2>1. /\ UNCHANGED <<history, online, node, todo, clients>> /\ todo[g] = {} /\ pc[g] = "announcing"
        /\ \A h \in Publisher \ {g} : pc'[h] = pc[h]
    BY <1>4 DEF Announced, EndPublish, clients
  <2>2. \A o \in clients', m \in Mac : OnItsWay(m, o) => OnItsWay(m, o)'
    BY <2>1 DEF OnItsWay
  <2>. QED BY <2>1, <2>2, TruthStays
<1>5. ASSUME NEW n \in Mac, Scan(n)
      PROVE  StreamTellsPresence'
  <2>. Detector \in Publisher
    OBVIOUS
  <2>1. UNCHANGED <<history, clients, todo>> /\ pc[Detector] = "scan"
    BY <1>5 DEF Scan, brokerVars, clients
  <2>2. \A h \in Publisher \ {Detector} : pc'[h] = pc[h] /\ node'[h] = node[h]
    BY <1>5 DEF Scan
  <2>3. \A o \in clients, m \in Mac : OnItsWay(m, o) => OnItsWay(m, o)'
    BY <2>1, <2>2 DEF OnItsWay
  <2>4. CASE UNCHANGED <<online, node, pc>>
    BY <2>1, <2>3, <2>4, TruthStays
  <2>5. CASE /\ online' = [online EXCEPT ![n] = FALSE]
             /\ node' = [node EXCEPT ![Detector] = n]
             /\ pc' = [pc EXCEPT ![Detector] = "announce"]
    <3>1. \A o \in clients : OnItsWay(n, o)'
      BY <2>5 DEF OnItsWay
    <3>. QED BY <2>1, <2>3, <2>5, <3>1, TruthChanges
  <2>. QED BY <1>5, <2>4, <2>5 DEF Scan
<1>6. ASSUME NEW g \in Publisher, Lock(g)
      PROVE  StreamTellsPresence'
  <2>1. UNCHANGED <<history, clients, todo, node>> /\ pc[g] = "lock"
    BY <1>6 DEF Lock, LinkLocks, DetectorLocks, brokerVars, clients
  <2>2. \A h \in Publisher \ {g} : pc'[h] = pc[h]
    BY <1>6 DEF Lock, LinkLocks, DetectorLocks
  <2>3. \A o \in clients, m \in Mac : OnItsWay(m, o) => OnItsWay(m, o)'
    BY <2>1, <2>2 DEF OnItsWay
  <2>4. CASE UNCHANGED online
    BY <2>1, <2>3, <2>4, TruthStays
  <2>5. CASE /\ online' = [online EXCEPT ![node[g]] = TRUE]
             /\ pc' = [pc EXCEPT ![g] = "announce"]
    <3>1. node[g] \in Mac /\ \A o \in clients : OnItsWay(node[g], o)'
      BY <2>1, <2>5 DEF OnItsWay
    <3>2. PICK n \in Mac : n = node[g]
      BY <3>1
    <3>3. \A o \in clients : OnItsWay(n, o)'
      BY <2>1, <2>5, <3>2 DEF OnItsWay
    <3>. QED BY <2>1, <2>3, <2>5, <3>2, <3>3, TruthChanges
  <2>. QED BY <1>6, <2>4, <2>5 DEF Lock, LinkLocks, DetectorLocks
<1>7. CASE ScanEnds \/ Tick
  <2>. Detector \in Publisher
    OBVIOUS
  <2>1. /\ UNCHANGED <<history, online, clients, todo, node>> /\ pc[Detector] \in {"idle", "scan"}
        /\ \A h \in Publisher \ {Detector} : pc'[h] = pc[h]
    BY <1>7 DEF ScanEnds, Tick, brokerVars, clients
  <2>2. \A o \in clients', m \in Mac : OnItsWay(m, o) => OnItsWay(m, o)'
    BY <2>1 DEF OnItsWay
  <2>. QED BY <2>1, <2>2, TruthStays
<1>8. ASSUME NEW l \in Link, NEW n \in Mac, Report(l, n)
      PROVE  StreamTellsPresence'
  <2>1. /\ UNCHANGED <<history, online, clients, todo>> /\ pc[l] = "idle"
        /\ \A h \in Publisher \ {l} : pc'[h] = pc[h] /\ node'[h] = node[h]
    BY <1>8 DEF Report, brokerVars, clients
  <2>2. \A o \in clients', m \in Mac : OnItsWay(m, o) => OnItsWay(m, o)'
    BY <2>1 DEF OnItsWay
  <2>. QED BY <2>1, <2>2, TruthStays
<1>9. ASSUME NEW c \in Client, Join(c)
      PROVE  StreamTellsPresence'
  <2>1. UNCHANGED <<online, pc, node, todo>>
    BY <1>9 DEF Join, Subscribe, presenceVars
  <2>2. \A o \in Client, m \in Mac : OnItsWay(m, o)' <=> OnItsWay(m, o)
    BY <2>1 DEF OnItsWay
  <2>3. /\ told \in [Client -> [Mac -> Presence \cup {"none"}]] /\ missed \in [Client -> SUBSET Mac]
        /\ stream \in [Client -> {"away", "reading", "left"}]
    BY DEF TypeOK, BrokerTypeOK
  <2>4. \A m \in Mac : told'[c][m] = "none"
    BY <1>9, <2>3 DEF Join
  <2>5. \A o \in clients' \ {c} : /\ o \in clients
                                   /\ told'[o] = told[o] /\ missed'[o] = missed[o]
    BY <1>9, <2>3 DEF Join, Subscribe, clients
  <2>6. clients' \subseteq Client
    BY DEF clients
  <2>. QED BY <2>1, <2>2, <2>4, <2>5, <2>6 DEF StreamTellsPresence
<1>10. CASE \/ \E m \in Mac : GoesSilent(m) \/ Assigned(m) \/ Deleted(m)
            \/ \E c \in Client : ClientStep(c)
            \/ UNCHANGED vars
  <2>1. UNCHANGED <<history, online, pc, node, todo>>
    BY <1>10 DEF GoesSilent, Assigned, Deleted, ClientStep, Receive, Leave, Close,
                 vars, brokerVars, presenceVars
  <2>2. clients' \subseteq clients
    <3>. stream \in [Client -> {"away", "reading", "left"}]
      BY DEF TypeOK, BrokerTypeOK
    <3>. QED BY <1>10 DEF GoesSilent, Assigned, Deleted, ClientStep, Receive, Leave, Close,
                          vars, brokerVars, clients
  <2>3. \A o \in clients', m \in Mac : OnItsWay(m, o) => OnItsWay(m, o)'
    BY <2>1 DEF OnItsWay
  <2>. QED BY <2>1, <2>2, <2>3, TruthStays
<1>. QED BY <1>1, <1>2, <1>3, <1>4, <1>5, <1>6, <1>7, <1>8, <1>9, <1>10 DEF Next, Proceed

(***************************************************************************)
(* No client is told the same twice.                                       *)
(***************************************************************************)

\* g has changed nodeOnlineState and still has that to say to c.
Owes(g, c) == At(g, "announce") \/ (At(g, "announcing") /\ c \in todo[g])

\* What is still to be said is news to the client, unless the client's own full
\* channel has lost an event about that node.
News ==
  \A g \in Publisher, c \in clients :
    Owes(g, c) => node[g] \in missed[c] \/ told[c][node[g]] # Announcement(g).type

\* A step that tells nobody anything, changes nothing announced and gives nobody more to say.
LEMMA NewsStays ==
  ASSUME News, UNCHANGED <<history, online>>, clients' \subseteq clients,
         \A g \in Publisher, c \in clients' : Owes(g, c)' => Owes(g, c) /\ node'[g] = node[g]
  PROVE  News'
BY DEF News, history, Announcement

\* nodeOnlineState changes for a node nobody was announcing: StreamTellsPresence says
\* what the clients were told of it.
LEMMA NewsBorn ==
  ASSUME TypeOK, Holding, StreamTellsPresence, UNCHANGED <<history, clients, todo>>,
         NEW g \in Publisher, NEW n \in Mac, node'[g] = n,
         \A h \in Publisher \ {g} : ~Holds(h) /\ pc'[h] = pc[h],
         pc[g] \in {"lock", "scan"}, online'[n] # online[n], online'[n] \in BOOLEAN
  PROVE  News'
<1>. USE DEF At, Holds
<1>1. \A h \in Publisher, m \in Mac, c \in clients : ~OnItsWay(m, c)
  BY DEF OnItsWay
<1>2. \A h \in Publisher \ {g}, c \in clients : ~Owes(h, c)'
  BY DEF Owes
<1>3. Announcement(g)'.type = (IF online'[n] THEN "node_online" ELSE "node_offline")
  BY DEF Announcement, EventOf
<1>4. online[n] \in BOOLEAN
  BY DEF TypeOK
<1>5. ASSUME NEW c \in clients
      PROVE  n \in missed[c] \/ told[c][n] # Announcement(g)'.type
  <2>1. told[c][n] = "none" \/ n \in missed[c]
        \/ told[c][n] = (IF online[n] THEN "node_online" ELSE "node_offline")
    BY <1>1 DEF StreamTellsPresence
  <2>. QED BY <1>3, <1>4, <2>1
<1>. QED BY <1>2, <1>5 DEF News, history

LEMMA NextNews ==
  ASSUME TypeOK, Visits, Holding, Saying, StreamTellsPresence, News, [Next]_vars
  PROVE  News'
<1>. USE DEF At, Goto
<1>. /\ pc \in [Publisher -> {"idle", "look", "health", "lock", "scan", "announce", "announcing"}]
     /\ node \in [Publisher -> Mac] /\ todo \in [Publisher -> SUBSET Client]
     /\ online \in [Mac -> BOOLEAN]
     /\ told \in [Client -> [Mac -> Presence \cup {"none"}]] /\ missed \in [Client -> SUBSET Mac]
  BY DEF TypeOK, BrokerTypeOK
<1>1. ASSUME NEW g \in Publisher, NEW c \in Client, Send(g, c)
      PROVE  News'
  <2>1. UNCHANGED <<online, node, pc, clients>> /\ todo' = [todo EXCEPT ![g] = @ \ {c}]
    BY <1>1 DEF Send, Deliver, presenceVars, clients
  <2>2. \A h \in Publisher, o \in clients : Owes(h, o)' =>
                                         \/ Owes(h, o) /\ <<h, o>> # <<g, c>>
                                         \/ pc[h] = "announce"
    BY <2>1 DEF Owes
  <2>3. CASE pc[g] = "announcing"
    <3>1. \A h \in Publisher \ {g} : ~Holds(h)
      BY <2>3 DEF Holding, Holds
    <3>2. ASSUME NEW h \in Publisher, NEW o \in clients, Owes(h, o)'
          PROVE  h = g /\ o # c /\ Owes(g, o)
      BY <2>1, <2>3, <3>1, <3>2 DEF Owes, Holds
    <3>3. \A o \in Client \ {c} : told'[o] = told[o] /\ missed'[o] = missed[o]
      BY <1>1 DEF Send, history
    <3>4. clients \subseteq Client
      BY DEF clients
    <3>. QED BY <2>1, <3>2, <3>3, <3>4 DEF News, Announcement
  <2>4. CASE pc[g] # "announcing"
    <3>1. publishing[g].type = "health"
      BY <1>1, <2>4 DEF Send, Deliver, Visits, Saying, Says
    <3>2. UNCHANGED history
      BY <1>1, <3>1 DEF Send, Presence
    <3>3. \A h \in Publisher, o \in clients' : Owes(h, o)' => Owes(h, o) /\ node'[h] = node[h]
      BY <2>1 DEF Owes
    <3>. QED BY <2>1, <3>2, <3>3, NewsStays
  <2>. QED BY <2>3, <2>4
<1>2. ASSUME NEW g \in Publisher, Look(g) \/ HealthPublished(g) \/ Announced(g)
      PROVE  News'
  <2>1. UNCHANGED <<history, online, node, clients>>
    BY <1>2 DEF Look, HealthPublished, Announced, BeginPublish, EndPublish, brokerVars, clients
  <2>2. pc'[g] \in {"idle", "health", "lock", "scan"}
        /\ \A h \in Publisher \ {g} : pc'[h] = pc[h] /\ todo'[h] = todo[h]
    BY <1>2 DEF Look, HealthPublished, Announced, BeginPublish, EndPublish, brokerVars
  <2>3. \A h \in Publisher, o \in clients' : Owes(h, o)' => Owes(h, o) /\ node'[h] = node[h]
    BY <2>1, <2>2 DEF Owes
  <2>. QED BY <2>1, <2>3, NewsStays
<1>3. ASSUME NEW g \in Publisher, Announce(g)
      PROVE  News'
  <2>1. /\ UNCHANGED <<history, online, node, clients>> /\ pc[g] = "announce"
        /\ pc' = [pc EXCEPT ![g] = "announcing"] /\ todo' = [todo EXCEPT ![g] = clients]
    BY <1>3 DEF Announce, BeginPublish, clients
  <2>2. \A h \in Publisher, o \in clients' : Owes(h, o)' => Owes(h, o) /\ node'[h] = node[h]
    BY <2>1 DEF Owes
  <2>. QED BY <2>1, <2>2, NewsStays
<1>4. ASSUME NEW n \in Mac, Scan(n)
      PROVE  News'
  <2>. Detector \in Publisher
    OBVIOUS
  <2>1. UNCHANGED <<history, clients, todo>> /\ pc[Detector] = "scan"
    BY <1>4 DEF Scan, brokerVars, clients
  <2>2. \A h \in Publisher \ {Detector} : pc'[h] = pc[h] /\ node'[h] = node[h] /\ ~Holds(h)
    BY <1>4, <2>1 DEF Scan, Holding, Holds
  <2>3. CASE UNCHANGED <<online, node, pc>>
    <3>1. \A h \in Publisher, o \in clients' : Owes(h, o)' => Owes(h, o) /\ node'[h] = node[h]
      BY <2>1, <2>3 DEF Owes
    <3>. QED BY <2>1, <2>3, <3>1, NewsStays
  <2>4. CASE /\ online[n]
             /\ online' = [online EXCEPT ![n] = FALSE]
             /\ node' = [node EXCEPT ![Detector] = n]
             /\ pc' = [pc EXCEPT ![Detector] = "announce"]
    <3>1. node'[Detector] = n /\ online'[n] # online[n] /\ online'[n] \in BOOLEAN
      BY <2>4
    <3>. QED BY <2>1, <2>2, <3>1, NewsBorn
  <2>. QED BY <1>4, <2>3, <2>4 DEF Scan
<1>5. ASSUME NEW g \in Publisher, Lock(g)
      PROVE  News'
  <2>1. UNCHANGED <<history, clients, todo, node>> /\ pc[g] = "lock"
    BY <1>5 DEF Lock, LinkLocks, DetectorLocks, brokerVars, clients
  <2>2. \A h \in Publisher \ {g} : pc'[h] = pc[h] /\ ~Holds(h)
    BY <1>5 DEF Lock, LinkLocks, DetectorLocks, Holding, Holds
  <2>3. CASE UNCHANGED online /\ pc'[g] \in {"idle", "scan"}
    <3>1. \A h \in Publisher, o \in clients' : Owes(h, o)' => Owes(h, o) /\ node'[h] = node[h]
      BY <2>1, <2>2, <2>3 DEF Owes
    <3>. QED BY <2>1, <2>3, <3>1, NewsStays
  <2>4. CASE /\ ~online[node[g]]
             /\ online' = [online EXCEPT ![node[g]] = TRUE]
    <3>1. PICK n \in Mac : n = node[g]
      OBVIOUS
    <3>2. node'[g] = n /\ online'[n] # online[n] /\ online'[n] \in BOOLEAN
      BY <2>1, <2>4, <3>1
    <3>. QED BY <2>1, <2>2, <3>2, NewsBorn
  <2>. QED BY <1>5, <2>3, <2>4 DEF Lock, LinkLocks, DetectorLocks
<1>6. CASE ScanEnds \/ Tick
  <2>. Detector \in Publisher
    OBVIOUS
  <2>1. /\ UNCHANGED <<history, online, clients, todo, node>> /\ pc'[Detector] \in {"idle", "lock"}
        /\ \A h \in Publisher \ {Detector} : pc'[h] = pc[h]
    BY <1>6 DEF ScanEnds, Tick, brokerVars, clients
  <2>2. \A h \in Publisher, o \in clients' : Owes(h, o)' => Owes(h, o) /\ node'[h] = node[h]
    BY <2>1 DEF Owes
  <2>. QED BY <2>1, <2>2, NewsStays
<1>7. ASSUME NEW l \in Link, NEW n \in Mac, Report(l, n)
      PROVE  News'
  <2>1. /\ UNCHANGED <<history, online, clients, todo>> /\ pc'[l] = "look"
        /\ \A h \in Publisher \ {l} : pc'[h] = pc[h] /\ node'[h] = node[h]
    BY <1>7 DEF Report, brokerVars, clients
  <2>2. \A h \in Publisher, o \in clients' : Owes(h, o)' => Owes(h, o) /\ node'[h] = node[h]
    BY <2>1 DEF Owes
  <2>. QED BY <2>1, <2>2, NewsStays
<1>8. ASSUME NEW c \in Client, Join(c)
      PROVE  News'
  <2>1. UNCHANGED <<online, pc, node, todo>>
    BY <1>8 DEF Join, Subscribe, presenceVars
  <2>2. \A h \in Publisher, o \in Client : Owes(h, o)' <=> Owes(h, o)
    BY <2>1 DEF Owes
  <2>3. stream \in [Client -> {"away", "reading", "left"}]
    BY DEF TypeOK, BrokerTypeOK
  <2>4. ASSUME NEW h \in Publisher
        PROVE  told'[c][node[h]] # Announcement(h).type
    <3>1. told'[c][node[h]] = "none"
      BY <1>8 DEF Join
    <3>. QED BY <3>1, AnnouncementType DEF Presence
  <2>5. \A o \in clients' \ {c} : /\ o \in clients
                                   /\ told'[o] = told[o] /\ missed'[o] = missed[o]
    BY <1>8, <2>3 DEF Join, Subscribe, clients
  <2>6. clients' \subseteq Client
    BY DEF clients
  <2>7. \A h \in Publisher : Announcement(h)' = Announcement(h)
    BY <2>1 DEF Announcement
  <2>. QED BY <2>1, <2>2, <2>4, <2>5, <2>6, <2>7 DEF News
<1>9. CASE \/ \E m \in Mac : GoesSilent(m) \/ Assigned(m) \/ Deleted(m)
           \/ \E c \in Client : ClientStep(c)
           \/ UNCHANGED vars
  <2>1. UNCHANGED <<history, online, pc, node, todo>>
    BY <1>9 DEF GoesSilent, Assigned, Deleted, ClientStep, Receive, Leave, Close,
                vars, brokerVars, presenceVars
  <2>2. clients' \subseteq clients
    <3>. stream \in [Client -> {"away", "reading", "left"}]
      BY DEF TypeOK, BrokerTypeOK
    <3>. QED BY <1>9 DEF GoesSilent, Assigned, Deleted, ClientStep, Receive, Leave, Close,
                         vars, brokerVars, clients
  <2>3. \A h \in Publisher, o \in clients' : Owes(h, o)' => Owes(h, o) /\ node'[h] = node[h]
    BY <2>1 DEF Owes
  <2>. QED BY <2>1, <2>2, <2>3, NewsStays
<1>. QED BY <1>1, <1>2, <1>3, <1>4, <1>5, <1>6, <1>7, <1>8, <1>9 DEF Next, Proceed

\* The only step that takes a client off a publisher's list is the one that tells it.
LEMMA OnlySendsTell ==
  ASSUME TypeOK, Visits, [Next]_vars, NEW g \in Publisher, NEW c \in Client,
         c \in todo[g], c \notin todo'[g]
  PROVE  Send(g, c)
<1>. todo \in [Publisher -> SUBSET Client]
  BY DEF TypeOK, BrokerTypeOK
<1>1. ASSUME NEW h \in Publisher, NEW o \in Client, Send(h, o)
      PROVE  Send(g, c)
  <2>1. h = g /\ o = c
    BY <1>1 DEF Send, Deliver
  <2>. QED BY <1>1, <2>1
<1>2. ASSUME NEW h \in Publisher, NEW e, BeginPublish(h, e)
      PROVE  FALSE
  BY <1>2 DEF BeginPublish, Visits
<1>3. UNCHANGED todo => FALSE
  OBVIOUS
<1>4. ASSUME NEW h \in Publisher, Look(h) \/ HealthPublished(h) \/ Announce(h) \/ Announced(h)
      PROVE  FALSE
  BY <1>2, <1>3, <1>4 DEF Look, HealthPublished, Announce, Announced, EndPublish, brokerVars
<1>5. CASE \/ \E h \in Publisher : Lock(h)
           \/ \E m \in Mac : Scan(m) \/ GoesSilent(m) \/ Assigned(m) \/ Deleted(m)
           \/ ScanEnds \/ Tick \/ UNCHANGED vars
           \/ \E l \in Link, m \in Mac : Report(l, m)
           \/ \E o \in Client : Join(o) \/ ClientStep(o)
  BY <1>3, <1>5 DEF Lock, LinkLocks, DetectorLocks, Scan, GoesSilent, Assigned, Deleted, ScanEnds,
                    Tick, Report, Join, Subscribe, ClientStep, Receive, Leave, Close,
                    vars, brokerVars
<1>. QED BY <1>1, <1>4, <1>5 DEF Next, Proceed

LEMMA TellsNews ==
  ASSUME TypeOK, Visits, Saying, News, [Next]_vars, NEW g \in Publisher, NEW c \in Client,
         c \in todo[g], c \notin todo'[g], publishing[g].type \in Presence
  PROVE  LET e == publishing[g]
         IN e.mac \in missed[c] \/ told[c][e.mac] # e.type
<1>1. Send(g, c)
  BY OnlySendsTell
<1>2. publishing[g] # NoEvent
  BY DEF Visits
<1>3. pc[g] = "announcing" /\ publishing[g] = Announcement(g)
  BY <1>2 DEF Saying, Says, Presence
<1>4. c \in clients /\ Owes(g, c)
  BY <1>3 DEF Visits, Owes, At
<1>. QED BY <1>3, <1>4, AnnouncementType DEF News

(***************************************************************************)
(* The theorems.                                                           *)
(***************************************************************************)

LiveInv ==
  /\ TypeOK
  /\ Visits
  /\ Holding
  /\ Saying
  /\ StreamTellsPresence
  /\ News

LEMMA InitLive == Init => LiveInv
<1>. SUFFICES ASSUME Init PROVE LiveInv
  OBVIOUS
<1>1. TypeOK /\ Visits
  BY InitType
<1>2. Holding /\ Saying
  BY DEF Init, BrokerInit, Holding, Holds, Saying, Says
<1>3. StreamTellsPresence /\ News
  BY DEF Init, BrokerInit, StreamTellsPresence, News, clients
<1>. QED BY <1>1, <1>2, <1>3 DEF LiveInv

LEMMA NextLive == LiveInv /\ [Next]_vars => LiveInv'
<1>. SUFFICES ASSUME LiveInv, [Next]_vars PROVE LiveInv'
  OBVIOUS
<1>1. TypeOK /\ Visits /\ Holding /\ Saying /\ StreamTellsPresence /\ News
  BY DEF LiveInv
<1>. QED BY <1>1, NextType, NextBroker, NextHolding, NextSaying, NextTruth, NextNews DEF LiveInv

LEMMA LiveInvariant == Spec => []LiveInv
BY InitLive, NextLive, PTL DEF Spec

\* Type correctness: no channel ever holds more than its capacity, whoever publishes
\* and whoever does not read.
THEOREM TypeCorrect == Spec => []TypeOK
<1>1. LiveInv => TypeOK
  BY DEF LiveInv
<1>. QED BY <1>1, LiveInvariant, PTL

\* No publisher ever has a closed channel ahead of it: Subscribe and Unsubscribe wait
\* for publishers, and a channel is closed only out of the map.
THEOREM NoSendOnClosedChannel == Spec => []NoSendOnClosed
<1>1. LiveInv => NoSendOnClosed
  BY DEF LiveInv, Visits, NoSendOnClosed
<1>. QED BY <1>1, LiveInvariant, PTL

\* With any number of links that hear nodes and clients that come and go, what a
\* client that lost nothing was last told of a node is what the hub believes.
THEOREM StreamIsTrue == Spec => []StreamTellsPresence
<1>1. LiveInv => StreamTellsPresence
  BY DEF LiveInv
<1>. QED BY <1>1, LiveInvariant, PTL

\* Two links that hear a node at once announce it once, and the detector announces no
\* silence twice: no client that lost nothing is told what it was told last.
THEOREM NothingToldTwice == Spec => PresenceAlternates
<1>1. LiveInv /\ [Next]_vars
      => [\A g \in Publisher, c \in Client :
            /\ c \in todo[g] /\ c \notin todo'[g]
            /\ publishing[g].type \in Presence
            => LET e == publishing[g]
               IN e.mac \in missed[c] \/ told[c][e.mac] # e.type]_vars
  BY TellsNews DEF LiveInv
<1>. QED BY <1>1, LiveInvariant, PTL DEF Spec, PresenceAlternates

=============================================================================
