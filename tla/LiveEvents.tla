----------------------------- MODULE LiveEvents -----------------------------
(***************************************************************************)
(* Who is online, and what the event streams say about it: health reports  *)
(* handled by the message processors, the offline detector, the node       *)
(* registry they read, MeshServer.mu that guards nodeOnlineState, and the  *)
(* broker they publish to.                                                 *)
(*                                                                         *)
(* LastSeen is reduced to whether it is within healthTimeout.  The detector *)
(* works on copies of the registry's entries; a copy ages with its entry.  *)
(* The events a node causes outside mu (health, motion, route_update, ...) *)
(* are one type, "health".  Registry operations are atomic, as their lock  *)
(* makes them.                                                             *)
(***************************************************************************)
EXTENDS EventBroker

CONSTANTS
  Mac,
  Link,     \* serial links, one message processor each
  Detector  \* the offline detector's goroutine

ASSUME PublisherAssumption ==
  /\ Publisher = Link \cup {Detector} /\ Detector \notin Link
  /\ Event = [type : {"health", "node_online", "node_offline"}, mac : Mac]

VARIABLES
  seen,    \* Mac -> how old its entry's LastSeen is, "none" without an entry
  online,  \* nodeOnlineState
  mu,      \* who holds mu, {} or a singleton
  pc,      \* Publisher -> where it is
  node,    \* Publisher -> the node at hand
  copy,    \* the detector's copies of the entries
  unseen,  \* entries the detector's loop has yet to look at
  told,    \* history: the last presence event put into a client's channel,
  missed   \* and the nodes whose last presence event its full channel lost

presenceVars == <<seen, online, mu, pc, node, copy, unseen>>
history == <<told, missed>>
vars == <<brokerVars, presenceVars, history>>

Age == {"none", "fresh", "stale"}

Presence == {"node_online", "node_offline"}

TypeOK ==
  /\ BrokerTypeOK
  /\ seen \in [Mac -> Age] /\ copy \in [Mac -> Age]
  /\ online \in [Mac -> BOOLEAN]
  /\ mu \in {{}} \cup {{g} : g \in Publisher}
  /\ pc \in [Publisher -> {"idle", "look", "health", "lock", "scan", "announce", "announcing"}]
  /\ node \in [Publisher -> Mac]
  /\ unseen \subseteq Mac
  /\ told \in [Client -> [Mac -> Presence \cup {"none"}]]
  /\ missed \in [Client -> SUBSET Mac]

\* Entries may have been loaded from the registry's file, with an old LastSeen.
Init ==
  /\ BrokerInit
  /\ seen \in [Mac -> {"none", "stale"}]
  /\ online = [m \in Mac |-> FALSE]
  /\ mu = {}
  /\ pc = [g \in Publisher |-> "idle"]
  /\ \E m \in Mac : node = [g \in Publisher |-> m]
  /\ copy = [m \in Mac |-> "none"] /\ unseen = {}
  /\ told = [c \in Client |-> [m \in Mac |-> "none"]]
  /\ missed = [c \in Client |-> {}]

-----------------------------------------------------------------------------

At(g, step) == pc[g] = step

Goto(g, step) == pc' = [pc EXCEPT ![g] = step]

EventOf(type, m) == [type |-> type, mac |-> m]

\* What g says of its node when it has changed nodeOnlineState.
Announcement(g) == EventOf(IF online[node[g]] THEN "node_online" ELSE "node_offline", node[g])

-----------------------------------------------------------------------------
(* A message processor handles a health report.                            *)

\* UpdateNode.
Report(l, m) ==
  /\ At(l, "idle")
  /\ seen' = [seen EXCEPT ![m] = "fresh"]
  /\ node' = [node EXCEPT ![l] = m]
  /\ Goto(l, "look")
  /\ UNCHANGED <<brokerVars, online, mu, copy, unseen, history>>

\* GetNode: an entry that was deleted meanwhile ends it.  Else the health event.
Look(l) ==
  /\ At(l, "look")
  /\ IF seen[node[l]] = "none"
     THEN Goto(l, "idle") /\ UNCHANGED brokerVars
     ELSE Goto(l, "health") /\ BeginPublish(l, EventOf("health", node[l]))
  /\ UNCHANGED <<seen, online, mu, node, copy, unseen, history>>

HealthPublished(l) ==
  /\ At(l, "health")
  /\ EndPublish(l)
  /\ Goto(l, "lock")
  /\ UNCHANGED <<seen, online, mu, node, copy, unseen, history>>

\* Mutant: every report announces its node.
AnnounceAlways(l) ==
  /\ l \in Link /\ At(l, "lock") /\ mu = {}
  /\ online' = [online EXCEPT ![node[l]] = TRUE]
  /\ mu' = {l} /\ Goto(l, "announce")
  /\ UNCHANGED <<brokerVars, seen, node, copy, unseen, history>>

\* Mutant: the node is announced, and nodeOnlineState not changed.
AnnounceUnnoted(l) ==
  /\ l \in Link /\ At(l, "lock") /\ mu = {}
  /\ IF online[node[l]] THEN Goto(l, "idle") /\ UNCHANGED mu
                        ELSE Goto(l, "announce") /\ mu' = {l}
  /\ UNCHANGED <<brokerVars, online, seen, node, copy, unseen, history>>

\* mu.Lock: a node that was not online is now, and is announced with mu held.
LinkLocks(l) ==
  /\ l \in Link /\ At(l, "lock") /\ mu = {}
  /\ IF online[node[l]]
     THEN Goto(l, "idle") /\ UNCHANGED <<online, mu>>
     ELSE /\ online' = [online EXCEPT ![node[l]] = TRUE]
          /\ mu' = {l} /\ Goto(l, "announce")
  /\ UNCHANGED <<brokerVars, seen, node, copy, unseen, history>>

\* Mutant: mu is given back before the event is published.
AnnounceUnlocked(g) ==
  /\ At(g, "announce")
  /\ BeginPublish(g, Announcement(g))
  /\ Goto(g, "announcing")
  /\ mu' = {}
  /\ UNCHANGED <<seen, online, node, copy, unseen, history>>

Announce(g) ==
  /\ At(g, "announce")
  /\ BeginPublish(g, Announcement(g))
  /\ Goto(g, "announcing")
  /\ UNCHANGED <<seen, online, mu, node, copy, unseen, history>>

\* A link is done and unlocks; the detector goes on with its loop.
Announced(g) ==
  /\ At(g, "announcing")
  /\ EndPublish(g)
  /\ IF g = Detector THEN Goto(g, "scan") /\ UNCHANGED mu
                     ELSE Goto(g, "idle") /\ mu' = mu \ {g}
  /\ UNCHANGED <<seen, online, node, copy, unseen, history>>

-----------------------------------------------------------------------------
(* checkOfflineNodes.                                                      *)

\* Mutant: the detector asks for GetOnlineNodes.
TickOnlineNodes ==
  /\ At(Detector, "idle")
  /\ copy' = [m \in Mac |-> IF seen[m] = "fresh" THEN "fresh" ELSE "none"]
  /\ Goto(Detector, "lock")
  /\ UNCHANGED <<brokerVars, seen, online, mu, node, unseen, history>>

\* GetAllNodes, before mu is taken.
Tick ==
  /\ At(Detector, "idle")
  /\ copy' = seen
  /\ Goto(Detector, "lock")
  /\ UNCHANGED <<brokerVars, seen, online, mu, node, unseen, history>>

DetectorLocks ==
  /\ At(Detector, "lock") /\ mu = {}
  /\ mu' = {Detector}
  /\ unseen' = {m \in Mac : copy[m] # "none"}
  /\ Goto(Detector, "scan")
  /\ UNCHANGED <<brokerVars, seen, online, node, copy, history>>

Scan(m) ==
  /\ At(Detector, "scan") /\ m \in unseen
  /\ unseen' = unseen \ {m}
  /\ IF copy[m] = "stale" /\ online[m]
     THEN /\ online' = [online EXCEPT ![m] = FALSE]
          /\ node' = [node EXCEPT ![Detector] = m]
          /\ Goto(Detector, "announce")
     ELSE UNCHANGED <<online, node, pc>>
  /\ UNCHANGED <<brokerVars, seen, mu, copy, history>>

ScanEnds ==
  /\ At(Detector, "scan") /\ unseen = {}
  /\ mu' = {}
  /\ copy' = [m \in Mac |-> "none"]
  /\ Goto(Detector, "idle")
  /\ UNCHANGED <<brokerVars, seen, online, node, unseen, history>>

-----------------------------------------------------------------------------
(* Time, the API and the clients.                                          *)

\* healthTimeout passes without a report.
GoesSilent(m) ==
  /\ seen[m] = "fresh"
  /\ seen' = [seen EXCEPT ![m] = "stale"]
  /\ copy' = [copy EXCEPT ![m] = IF @ = "fresh" THEN "stale" ELSE @]
  /\ UNCHANGED <<brokerVars, online, mu, pc, node, unseen, history>>

\* An approval makes an entry that was never seen, whose LastSeen is zero.
Assigned(m) ==
  /\ seen[m] = "none"
  /\ seen' = [seen EXCEPT ![m] = "stale"]
  /\ UNCHANGED <<brokerVars, online, mu, pc, node, copy, unseen, history>>

\* v1DeleteNode: nodeOnlineState keeps what it knew of the node.
Deleted(m) ==
  /\ seen[m] # "none"
  /\ seen' = [seen EXCEPT ![m] = "none"]
  /\ UNCHANGED <<brokerVars, online, mu, pc, node, copy, unseen, history>>

Join(c) ==
  /\ Subscribe(c)
  /\ told' = [told EXCEPT ![c] = [m \in Mac |-> "none"]]
  /\ missed' = [missed EXCEPT ![c] = {}]
  /\ UNCHANGED presenceVars

ClientStep(c) ==
  /\ Receive(c) \/ Leave(c) \/ Close(c)
  /\ UNCHANGED <<presenceVars, history>>

Send(g, c) ==
  /\ Deliver(g, c)
  /\ LET e == publishing[g]
     IN IF e.type \notin Presence THEN UNCHANGED history
        ELSE IF Accepts(c)
        THEN /\ told' = [told EXCEPT ![c][e.mac] = e.type]
             /\ missed' = [missed EXCEPT ![c] = @ \ {e.mac}]
        ELSE UNCHANGED told /\ missed' = [missed EXCEPT ![c] = @ \cup {e.mac}]
  /\ UNCHANGED presenceVars

-----------------------------------------------------------------------------

\* Steps of a publisher that waits for nothing but mu.
Proceed(g) ==
  \/ \E c \in Client : Send(g, c)
  \/ Look(g) \/ HealthPublished(g)
  \/ Announce(g) \/ Announced(g)
  \/ g = Detector /\ ((\E m \in Mac : Scan(m)) \/ ScanEnds)

Lock(g) == IF g = Detector THEN DetectorLocks ELSE LinkLocks(g)

Next ==
  \/ \E g \in Publisher : Proceed(g) \/ Lock(g)
  \/ \E l \in Link, m \in Mac : Report(l, m)
  \/ Tick
  \/ \E m \in Mac : GoesSilent(m) \/ Assigned(m) \/ Deleted(m)
  \/ \E c \in Client : Join(c) \/ ClientStep(c)

Spec == Init /\ [][Next]_vars

\* Goroutines are scheduled, the detector's ticker ticks, and a Go mutex starves
\* nobody.  Clients may stop reading for ever.
Fairness ==
  /\ \A g \in Publisher : WF_vars(Proceed(g)) /\ SF_vars(Lock(g))
  /\ WF_vars(Tick)

FairSpec == Spec /\ Fairness

-----------------------------------------------------------------------------

\* g has a presence event of m for c that is not in c's channel yet.
OnItsWay(m, c) ==
  \E g \in Publisher : /\ node[g] = m
                       /\ \/ At(g, "announce")
                          \/ At(g, "announcing") /\ c \in todo[g]

\* nodeOnlineState changes and its announcement reaches the channels as one step of
\* mu: the last presence event in a client's channel is the hub's belief, however
\* processors and detector interleave, unless the client's own full channel lost it.
StreamTellsPresence ==
  \A c \in clients, m \in Mac :
    told[c][m] # "none" /\ m \notin missed[c] /\ ~OnItsWay(m, c)
    => told[c][m] = (IF online[m] THEN "node_online" ELSE "node_offline")

\* A client that lost nothing is never told the same twice: two links that hear a
\* node at once announce it once.
PresenceAlternates ==
  [][\A g \in Publisher, c \in Client :
       /\ c \in todo[g] /\ c \notin todo'[g]
       /\ publishing[g].type \in Presence
       => LET e == publishing[g]
          IN e.mac \in missed[c] \/ told[c][e.mac] # e.type]_vars

\* A node that falls silent does not stay online for ever.
SilentGoesOffline ==
  \A m \in Mac : online[m] /\ seen[m] = "stale" ~> ~online[m] \/ seen[m] # "stale"

\* The detector judges copies that are older than its lock and may declare a node offline
\* that has just reported; another report mends that.  A node that goes on reporting is
\* online again and again, whatever the detector, both links and deletions do.
ReportsBringOnline ==
  \A m \in Mac :
    /\ []<><<\E l \in Link : Report(l, m)>>_vars
    /\ <>[](seen[m] # "none")
    => []<>online[m]

=============================================================================
