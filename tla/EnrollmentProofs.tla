-------------------------- MODULE EnrollmentProofs --------------------------
(***************************************************************************)
(* Theorems about Enrollment and Identity, for every set of devices, keys, *)
(* links and requests and every MaxNodeID.                                 *)
(***************************************************************************)
EXTENDS Identity, WellFoundedInduction, TLAPS

(***************************************************************************)
(* Lemmas about the registries' operators.                                 *)
(***************************************************************************)

\* A non-empty set of naturals has a least element: what the loop of
\* NextFreeNodeID finds first.
LEMMA LeastNatural ==
  ASSUME NEW S, S \subseteq Nat, S # {}
  PROVE  \E x \in S : \A y \in S : x <= y
<1>1. PICK x \in S : \A y \in S : ~ (<<y, x>> \in OpToRel(<, Nat))
  BY WFMin, NatLessThanWellFounded
<1>2. \A y \in S : ~ (y < x)
  BY <1>1 DEF OpToRel
<1>3. \A y \in S : x <= y
  BY <1>2
<1>4. QED
  BY <1>3

\* NextFreeNodeID answers an ID in range which no entry holds, or 0.
LEMMA NextFreeIsFree ==
  ASSUME NEW N, IsNodeRegistry(N)
  PROVE  /\ NextFreeNodeID(N) \in NodeID
         /\ NextFreeNodeID(N) > 0
            => \A m \in DOMAIN N : N[m].nodeID # NextFreeNodeID(N)
<1>1. CASE FreeNodeIDs(N) = {}
  BY <1>1, MaxNodeIDAssumption DEF NextFreeNodeID, NodeID
<1>2. CASE FreeNodeIDs(N) # {}
  <2>1. FreeNodeIDs(N) \subseteq Nat
    BY MaxNodeIDAssumption DEF FreeNodeIDs
  <2>2. \E id \in FreeNodeIDs(N) : \A other \in FreeNodeIDs(N) : id <= other
    BY <1>2, <2>1, LeastNatural
  <2>3. NextFreeNodeID(N) \in FreeNodeIDs(N)
    BY <1>2, <2>2 DEF NextFreeNodeID
  <2>4. QED
    BY <2>3, MaxNodeIDAssumption DEF FreeNodeIDs, UsedNodeIDs, NodeID
<1>3. QED
  BY <1>1, <1>2

LEMMA EntryType ==
  ASSUME NEW N, IsNodeRegistry(N), NEW m \in Mac
  PROVE  Entry(N, m) \in NodeInfo
BY MaxNodeIDAssumption DEF IsNodeRegistry, Entry, NewNode, NodeInfo, NodeID

\* Every method leaves a registry a registry.
LEMMA PutType ==
  ASSUME NEW N, IsNodeRegistry(N), NEW m \in Mac, NEW e \in NodeInfo
  PROVE  IsNodeRegistry(Put(N, m, e))
BY DEF IsNodeRegistry, Put

LEMMA UpdateNodeType ==
  ASSUME NEW N, IsNodeRegistry(N), NEW m \in Mac, NEW t \in AdapterType
  PROVE  IsNodeRegistry(UpdateNode(N, m, t, 0))
<1> DEFINE upd(e) == [e EXCEPT !.adapterType = t, !.lastSeen = 0]
<1>1. ASSUME NEW e \in NodeInfo
      PROVE  upd(e) \in NodeInfo
  BY DEF NodeInfo
<1>2. upd(Entry(N, m)) \in NodeInfo
  <2> HIDE DEF upd
  <2> QED BY <1>1, EntryType
<1>3. QED
  BY <1>2, PutType DEF UpdateNode

LEMMA AssignNodeType ==
  ASSUME NEW N, IsNodeRegistry(N), NEW m \in Mac, NEW id \in NodeID,
         NEW name \in Name \cup {EmptyName} \cup Mac,
         NEW zone \in Zone \cup {EmptyZone}
  PROVE  IsNodeRegistry(AssignNode(N, m, id, name, zone))
<1> DEFINE upd(e) == [e EXCEPT
                        !.nodeID = id,
                        !.name   = IF name = EmptyName THEN m ELSE name,
                        !.zone   = zone]
<1>1. ASSUME NEW e \in NodeInfo
      PROVE  upd(e) \in NodeInfo
  <2>1. (IF name = EmptyName THEN m ELSE name) \in Name \cup {EmptyName} \cup Mac
    OBVIOUS
  <2>2. QED
    BY <2>1 DEF NodeInfo
<1>2. upd(Entry(N, m)) \in NodeInfo
  <2> HIDE DEF upd
  <2> QED BY <1>1, EntryType
<1>3. QED
  BY <1>2, PutType DEF AssignNode

LEMMA RemoveNodeType ==
  ASSUME NEW N, IsNodeRegistry(N), NEW m
  PROVE  IsNodeRegistry(RemoveNode(N, m))
BY DEF IsNodeRegistry, RemoveNode, Delete

LEMMA MarkReplacedType ==
  ASSUME NEW N, IsNodeRegistry(N), NEW m, NEW by \in Mac \cup {NoMac}
  PROVE  IsNodeRegistry(MarkReplaced(N, m, by))
<1> DEFINE upd(e) == [e EXCEPT !.status = "replaced", !.replacedBy = by,
                               !.nodeID = 0]
<1>1. CASE m \in DOMAIN N
  <2>1. ASSUME NEW e \in NodeInfo
        PROVE  upd(e) \in NodeInfo
    <3>1. 0 \in NodeID
      BY MaxNodeIDAssumption DEF NodeID
    <3>2. QED
      BY <3>1 DEF NodeInfo
  <2>2. MarkReplaced(N, m, by) = [N EXCEPT ![m] = upd(N[m])]
    BY <1>1 DEF MarkReplaced, IsNodeRegistry
  <2>3. upd(N[m]) \in NodeInfo
    <3> HIDE DEF upd
    <3> QED BY <1>1, <2>1 DEF IsNodeRegistry
  <2>4. QED
    <3> HIDE DEF upd
    <3> QED BY <1>1, <2>2, <2>3 DEF IsNodeRegistry
<1>2. CASE m \notin DOMAIN N
  BY <1>2 DEF MarkReplaced
<1>3. QED
  BY <1>1, <1>2

LEMMA AddPendingType ==
  ASSUME NEW A, Auth!IsAuthRegistry(A), NEW m \in Mac, NEW k \in Key
  PROVE  Auth!IsAuthRegistry(Auth!AddPending(A, m, k))
BY DEF Auth!IsAuthRegistry, Auth!AddPending, Auth!Put, Auth!NodeAuth,
       Auth!TrustStatus

LEMMA ApproveRejectType ==
  ASSUME NEW A, Auth!IsAuthRegistry(A), NEW m \in Mac
  PROVE  /\ Auth!IsAuthRegistry(Auth!Approve(A, m))
         /\ Auth!IsAuthRegistry(Auth!Reject(A, m))
BY DEF Auth!IsAuthRegistry, Auth!Approve, Auth!Reject, Auth!NodeAuth,
       Auth!TrustStatus

(***************************************************************************)
(* Type correctness.  TypeOK alone is not inductive: a handler in the      *)
(* middle of its work must be known to name a device, and one that will    *)
(* read the trust registry a device that is in it.                         *)
(***************************************************************************)

CallOK ==
  \A w \in Worker :
    /\ call[w].at # "idle" => call[w].mac \in Mac
    /\ call[w].at \in {"resend", "approve", "choose", "assign", "replace",
                       "joinAck"}
       => call[w].mac \in DOMAIN auth

TInv == TypeOK /\ CallOK

LEMMA IdleType == Idle \in Call
BY MaxNodeIDAssumption
   DEF Idle, Call, Step, NodeID, TypeGiven

LEMMA GotoType ==
  ASSUME call \in [Worker -> Call], NEW w \in Worker, NEW s \in Step, Goto(w, s)
  PROVE  call' \in [Worker -> Call]
BY DEF Goto, Call

\* What handing over to the next step leaves as it is.
LEMMA GotoMac ==
  ASSUME call \in [Worker -> Call], NEW w \in Worker, NEW s \in Step, Goto(w, s)
  PROVE  \A v \in Worker : /\ call'[v].mac = call[v].mac
                           /\ call'[v].at = IF v = w THEN s ELSE call[v].at
BY DEF Goto, Call

\* A handler's locals replaced as a whole.
LEMMA CallStep ==
  ASSUME TInv, NEW w \in Worker, NEW c \in Call, call' = [call EXCEPT ![w] = c],
         c.at # "idle" => c.mac \in Mac,
         c.at \in {"resend", "approve", "choose", "assign", "replace", "joinAck"}
           => c.mac \in DOMAIN auth',
         DOMAIN auth \subseteq DOMAIN auth'
  PROVE  call' \in [Worker -> Call] /\ CallOK'
BY DEF TInv, TypeOK, CallOK

LEMMA AnswerType ==
  ASSUME TypeOK, NEW m, NEW v \in Answer, Send(m, "answer", v)
  PROVE  sent' \in [Mac -> [answer : Answer, id : NodeID]]
BY DEF TypeOK, Send

LEMMA SentIDType ==
  ASSUME TypeOK, NEW m, NEW v \in NodeID, Send(m, "id", v)
  PROVE  sent' \in [Mac -> [answer : Answer, id : NodeID]]
BY DEF TypeOK, Send

\* A save, and one that fails.
LEMMA SaveType ==
  ASSUME TypeOK, NEW M \in SUBSET Mac, Save \/ SaveFails(M)
  PROVE  Auth!IsAuthRegistry(authFile') /\ unsaved' \subseteq Mac
<1>1. CASE Save
  BY <1>1 DEF Save, TypeOK
<1>2. CASE SaveFails(M)
  BY <1>2 DEF SaveFails, TypeOK, EmptyMap, Auth!IsAuthRegistry
<1>3. QED
  BY <1>1, <1>2

LEMMA InitTInv == Init => TInv
<1> SUFFICES ASSUME Init PROVE TInv
  OBVIOUS
<1>1. TypeOK
  BY IdleType, MaxNodeIDAssumption
  DEF Init, TypeOK, EmptyMap, Auth!IsAuthRegistry, IsNodeRegistry, Answer,
      NodeID
<1>2. CallOK
  BY DEF Init, CallOK, Idle
<1>3. QED
  BY <1>1, <1>2 DEF TInv

\* One step of each action.
LEMMA NextTInv == TInv /\ [Next]_vars => TInv'
<1> SUFFICES ASSUME TInv, [Next]_vars
             PROVE  TInv'
  OBVIOUS
<1> USE DEF TInv
<1>1. ASSUME NEW l \in Link, NEW m \in Mac, NEW k \in Key, JoinRequest(l, m, k)
      PROVE  TInv'
  <2>1. CASE Auth!ApprovedSameKey(auth, m, k)
    <3> DEFINE c == [Idle EXCEPT !.at = "resend", !.mac = m]
    <3>1. c \in Call /\ c.at = "resend" /\ c.mac = m
      BY IdleType DEF Call, Step, Idle
    <3>2. /\ call' = [call EXCEPT ![l] = c]
          /\ UNCHANGED <<auth, authFile, unsaved, nodes, sent, granted>>
      BY <1>1, <2>1 DEF JoinRequest
    <3>3. m \in DOMAIN auth
      BY <2>1 DEF Auth!ApprovedSameKey, Auth!IsApproved
    <3>4. QED
      BY <3>1, <3>2, <3>3 DEF TypeOK, CallOK, Worker
  <2>2. CASE ~Auth!ApprovedSameKey(auth, m, k)
    <3> DEFINE c == [Idle EXCEPT !.at = "persist", !.mac = m]
    <3>1. c \in Call /\ c.at = "persist" /\ c.mac = m
      BY IdleType DEF Call, Step, Idle
    <3>2. /\ auth' = Auth!AddPending(auth, m, k)
          /\ call' = [w \in Worker |-> IF w = l THEN c ELSE Orphan(call[w], m)]
          /\ UNCHANGED <<authFile, unsaved, nodes, sent, granted>>
      BY <1>1, <2>2 DEF JoinRequest
    <3>3. ASSUME NEW w \in Worker
          PROVE  /\ Orphan(call[w], m) \in Call
                 /\ Orphan(call[w], m).at = call[w].at
                 /\ Orphan(call[w], m).mac = call[w].mac
      BY <3>3 DEF Orphan, TypeOK, CallOK, Call, Auth!IsAuthRegistry,
                  Auth!NodeAuth
    <3>4. Auth!IsAuthRegistry(auth') /\ DOMAIN auth \subseteq DOMAIN auth'
      <4>1. Auth!IsAuthRegistry(auth')
        BY <3>2, AddPendingType DEF TypeOK
      <4>2. DOMAIN auth \subseteq DOMAIN auth'
        BY <3>2 DEF Auth!AddPending, Auth!Put
      <4>3. QED
        BY <4>1, <4>2
    <3>5. TypeOK'
      BY <3>1, <3>2, <3>3, <3>4 DEF TypeOK
    <3>6. CallOK'
      <4> HIDE DEF c
      <4> QED BY <3>1, <3>2, <3>3, <3>4 DEF CallOK
    <3>7. QED
      BY <3>5, <3>6
  <2>3. QED
    BY <2>1, <2>2
<1>2. ASSUME NEW l \in Link, NEW m \in Mac, NEW t \in AdapterType,
             HealthReport(l, m, t)
      PROVE  TInv'
  BY <1>2, UpdateNodeType DEF HealthReport, TypeOK, CallOK
<1>3. ASSUME NEW l \in Link, ResendJoinAck(l)
      PROVE  TInv'
  <2> l \in Worker
    BY DEF Worker
  <2>1. call[l].mac \in Mac /\ call[l].mac \in DOMAIN auth
    BY <1>3 DEF ResendJoinAck, At, CallOK
  <2>2. call' \in [Worker -> Call]
    <3>1. CASE call[l].mac \in DOMAIN nodes
      <4> DEFINE n == nodes[call[l].mac]
                 c == [call[l] EXCEPT !.at = "approve", !.id = n.nodeID,
                                      !.name = n.name, !.zone = n.zone,
                                      !.type = "named"]
      <4>1. n \in NodeInfo
        BY <3>1 DEF TypeOK, IsNodeRegistry
      <4>2. /\ n.nodeID \in NodeID
            /\ n.name \in Name \cup {EmptyName} \cup Mac
            /\ n.zone \in Zone \cup {EmptyZone}
        BY <4>1 DEF NodeInfo
      <4>3. call[l] \in Call
        BY DEF TypeOK
      <4>4. c \in Call
        <5> HIDE DEF n
        <5> QED BY <4>2, <4>3 DEF Call, Step, TypeGiven
      <4>5. call' = [call EXCEPT ![l] = c]
        BY <1>3, <3>1 DEF ResendJoinAck, TypeOK
      <4>6. QED
        <5> HIDE DEF c
        <5> QED BY <4>4, <4>5 DEF TypeOK
    <3>2. CASE call[l].mac \notin DOMAIN nodes
      BY <1>3, <3>2 DEF ResendJoinAck, TypeOK, Call, Step
    <3>3. QED
      BY <3>1, <3>2
  <2>3. \A v \in Worker : /\ call'[v].mac = call[v].mac
                          /\ call'[v].at = IF v = l THEN "approve"
                                                    ELSE call[v].at
    BY <1>3 DEF ResendJoinAck, TypeOK, Call
  <2>4. QED
    BY <1>3, <2>1, <2>2, <2>3 DEF ResendJoinAck, TypeOK, CallOK
<1>4. ASSUME NEW l \in Link, ApproveAgain(l)
      PROVE  TInv'
  <2> l \in Worker
    BY DEF Worker
  <2>1. call[l].mac \in Mac /\ call[l].mac \in DOMAIN auth
    BY <1>4 DEF ApproveAgain, At, CallOK
  <2>2. "choose" \in Step
    BY DEF Step
  <2>3. Auth!IsAuthRegistry(auth') /\ DOMAIN auth' = DOMAIN auth
    BY <1>4, <2>1, ApproveRejectType DEF ApproveAgain, TypeOK, Auth!Approve
  <2>4. QED
    BY <1>4, <2>1, <2>2, <2>3, GotoType, GotoMac
    DEF ApproveAgain, TypeOK, CallOK
<1>5. ASSUME NEW a \in Admin, NEW m \in Mac, NEW id \in NodeID,
             NEW name \in Name \cup {EmptyName}, NEW zone \in Zone \cup {EmptyZone},
             NEW type \in TypeAsked, ApproveRequest(a, m, id, name, zone, type)
      PROVE  TInv'
  <2> a \in Worker
    BY DEF Worker
  <2> DEFINE c == [Idle EXCEPT !.at = "choose", !.mac = m, !.id = id,
                               !.name = name, !.zone = zone, !.type = type]
  <2> type \in TypeGiven
    BY TypeAssumption
  <2>1. c \in Call /\ c.at = "choose" /\ c.mac = m
    BY IdleType DEF Call, Step, Idle
  <2>2. /\ m \in DOMAIN auth
        /\ auth' = Auth!Approve(auth, m)
        /\ granted' = granted \cup {<<m, auth[m].publicKey>>}
        /\ call' = [call EXCEPT ![a] = c]
        /\ UNCHANGED <<authFile, unsaved, nodes, sent>>
    BY <1>5 DEF ApproveRequest
  <2>3. Auth!IsAuthRegistry(auth') /\ DOMAIN auth' = DOMAIN auth
    BY <2>2, ApproveRejectType DEF TypeOK, Auth!Approve
  <2>4. granted' \subseteq Mac \X Key
    BY <2>2 DEF TypeOK, Auth!IsAuthRegistry, Auth!NodeAuth
  <2>5. QED
    <3> HIDE DEF c
    <3> QED BY <2>1, <2>2, <2>3, <2>4 DEF TypeOK, CallOK
<1>6. ASSUME NEW a \in Admin, NEW m \in Mac, RejectRequest(a, m)
      PROVE  TInv'
  <2> a \in Worker
    BY DEF Worker
  <2> DEFINE c == [Idle EXCEPT !.at = "rejectAck", !.mac = m]
  <2>1. c \in Call /\ c.at = "rejectAck" /\ c.mac = m
    BY IdleType DEF Call, Step, Idle
  <2>2. /\ auth' = Auth!Reject(auth, m)
        /\ call' = [call EXCEPT ![a] = c]
        /\ UNCHANGED <<authFile, unsaved, nodes, sent, granted>>
    BY <1>6 DEF RejectRequest
  <2>3. Auth!IsAuthRegistry(auth') /\ DOMAIN auth' = DOMAIN auth
    BY <2>2, ApproveRejectType DEF TypeOK, Auth!Reject
  <2>4. QED
    <3> HIDE DEF c
    <3> QED BY <2>1, <2>2, <2>3 DEF TypeOK, CallOK
<1>7. ASSUME NEW a \in Admin, NEW id \in NodeID \ {0},
             NEW type \in TypeAsked \ {"named"}, UpdateRequest(a, id, type)
      PROVE  TInv'
  <2> a \in Worker
    BY DEF Worker
  <2> DEFINE c(m, name, zone) ==
        [Idle EXCEPT !.at = "update", !.mac = m, !.id = id,
                     !.name = name, !.zone = zone, !.type = type]
  <2>1. PICK m \in HoldersOf(nodes, id) :
          \E name \in Name \cup {EmptyName, nodes[m].name},
             zone \in Zone \cup {EmptyZone, nodes[m].zone} :
            call' = [call EXCEPT ![a] = c(m, name, zone)]
    BY <1>7 DEF UpdateRequest
  <2>2. m \in Mac /\ nodes[m] \in NodeInfo
    BY DEF HoldersOf, TypeOK, IsNodeRegistry
  <2>3. /\ nodes[m].name \in Name \cup {EmptyName} \cup Mac
        /\ nodes[m].zone \in Zone \cup {EmptyZone}
    BY <2>2 DEF NodeInfo
  <2>4. ASSUME NEW name \in Name \cup {EmptyName, nodes[m].name},
               NEW zone \in Zone \cup {EmptyZone, nodes[m].zone}
        PROVE  /\ c(m, name, zone) \in Call
               /\ c(m, name, zone).at = "update"
               /\ c(m, name, zone).mac = m
    <3>1. /\ name \in Name \cup {EmptyName} \cup Mac
          /\ zone \in Zone \cup {EmptyZone}
      BY <2>3
    <3>2. id \in NodeID /\ type \in TypeGiven
      BY TypeAssumption DEF TypeGiven
    <3>3. QED
      BY <2>2, <3>1, <3>2, IdleType DEF Call, Step, Idle
  <2>5. PICK name \in Name \cup {EmptyName, nodes[m].name},
             zone \in Zone \cup {EmptyZone, nodes[m].zone} :
          call' = [call EXCEPT ![a] = c(m, name, zone)]
    BY <2>1
  <2>6. UNCHANGED <<auth, authFile, unsaved, nodes, sent, granted>>
    BY <1>7 DEF UpdateRequest
  <2>7. call' \in [Worker -> Call] /\ CallOK'
    <3> HIDE DEF c
    <3> QED BY <2>2, <2>4, <2>5, <2>6, CallStep
  <2>8. QED
    BY <2>6, <2>7 DEF TypeOK
<1>8. ASSUME NEW a \in Admin, NEW id \in NodeID \ {0}, DeleteRequest(a, id)
      PROVE  TInv'
  <2> a \in Worker
    BY DEF Worker
  <2>1. PICK m \in HoldersOf(nodes, id) :
          call' = [call EXCEPT ![a] = [Idle EXCEPT !.at = "remove", !.mac = m]]
    BY <1>8 DEF DeleteRequest
  <2> DEFINE c == [Idle EXCEPT !.at = "remove", !.mac = m]
  <2>2. m \in Mac
    BY DEF HoldersOf, TypeOK, IsNodeRegistry
  <2>3. c \in Call /\ c.at = "remove" /\ c.mac = m
    BY <2>2, IdleType DEF Call, Step, Idle
  <2>4. QED
    <3> HIDE DEF c
    <3>1. UNCHANGED <<auth, authFile, unsaved, nodes, sent, granted>>
      BY <1>8 DEF DeleteRequest
    <3>2. call' = [call EXCEPT ![a] = c]
      BY <2>1 DEF c
    <3>3. QED
      BY <2>2, <2>3, <3>1, <3>2, CallStep DEF TypeOK
<1>9. ASSUME NEW a \in Admin, SendRejection(a)
      PROVE  TInv'
  <2> a \in Worker
    BY DEF Worker
  <2>1. "persist" \in Step /\ "rejected" \in Answer
    BY DEF Step, Answer
  <2>2. call[a].mac \in Mac
    BY <1>9 DEF SendRejection, At, CallOK
  <2>3. QED
    BY <1>9, <2>1, <2>2, GotoType, GotoMac, AnswerType
    DEF SendRejection, TypeOK, CallOK
<1>10. ASSUME NEW a \in Admin, Configure(a)
       PROVE  TInv'
  BY <1>10, IdleType DEF Configure, TypeOK, CallOK, Idle, Worker
<1>11. ASSUME NEW a \in Admin, Update(a)
       PROVE  TInv'
  <2> a \in Worker
    BY DEF Worker
  <2>1. call[a].mac \in Mac /\ call[a] \in Call
    BY <1>11 DEF Update, At, CallOK, TypeOK
  <2>2. IsNodeRegistry(nodes')
    BY <1>11, <2>1, AssignNodeType DEF Update, TypeOK, Call
  <2>3. \E c \in Call :
          /\ call' = [call EXCEPT ![a] = c]
          /\ c.at \in {"idle", "configure"}
          /\ c.at # "idle" => c.mac = call[a].mac
    <3>1. CASE call[a].type = "configured"
      <4> DEFINE c == [call[a] EXCEPT !.at = "configure"]
      <4>1. c \in Call /\ c.at = "configure" /\ c.mac = call[a].mac
        BY <2>1 DEF Call, Step
      <4>2. QED
        BY <1>11, <3>1, <4>1 DEF Update, TypeOK
    <3>2. CASE call[a].type # "configured"
      BY <1>11, <3>2, IdleType DEF Update, Idle, TypeOK
    <3>3. QED
      BY <3>1, <3>2
  <2>4. QED
    BY <1>11, <2>1, <2>2, <2>3 DEF Update, TypeOK, CallOK
<1>12. ASSUME NEW a \in Admin, Remove(a)
       PROVE  TInv'
  BY <1>12, IdleType, RemoveNodeType DEF Remove, TypeOK, CallOK, Idle, Worker
<1>13. ASSUME NEW w \in Worker, ChooseFreeID(w)
       PROVE  TInv'
  <2>1. NextFreeNodeID(nodes) \in NodeID /\ "assign" \in Step
    BY NextFreeIsFree DEF TypeOK, Step
  <2>2. call' \in [Worker -> Call]
    <3> DEFINE c == [call[w] EXCEPT !.at = "assign", !.id = NextFreeNodeID(nodes)]
    <3>1. c \in Call
      BY <2>1 DEF TypeOK, Call
    <3>2. call' = [call EXCEPT ![w] = c]
      BY <1>13 DEF ChooseFreeID, TypeOK
    <3>3. QED
      <4> HIDE DEF c
      <4> QED BY <3>1, <3>2 DEF TypeOK
  <2>3. \A v \in Worker : /\ call'[v].mac = call[v].mac
                          /\ call'[v].at = IF v = w THEN "assign"
                                                    ELSE call[v].at
    BY <1>13 DEF ChooseFreeID, TypeOK, Call
  <2>4. call[w].at = "choose"
    BY <1>13 DEF ChooseFreeID, At
  <2>5. QED
    BY <1>13, <2>2, <2>3, <2>4 DEF ChooseFreeID, TypeOK, CallOK
<1>14. ASSUME NEW w \in Worker, DetectHotswap(w)
       PROVE  TInv'
  <2>1. call[w].at = "choose" /\ call[w] \in Call
    BY <1>14 DEF DetectHotswap, At, TypeOK
  <2>2. \E c \in Call : /\ call' = [call EXCEPT ![w] = c]
                        /\ c.at = "assign" /\ c.mac = call[w].mac
    <3>1. ASSUME NEW m \in HoldersOf(nodes, call[w].id)
          PROVE  /\ Inherit(call[w], m) \in Call
                 /\ Inherit(call[w], m).at = "assign"
                 /\ Inherit(call[w], m).mac = call[w].mac
      <4>1. m \in Mac /\ nodes[m] \in NodeInfo
        BY DEF HoldersOf, TypeOK, IsNodeRegistry
      <4>2. nodes[m].name \in Name \cup {EmptyName} \cup Mac
            /\ nodes[m].zone \in Zone \cup {EmptyZone}
        BY <4>1 DEF NodeInfo
      <4> DEFINE name == IF call[w].name = EmptyName THEN nodes[m].name
                                                    ELSE call[w].name
                 zone == IF call[w].zone = EmptyZone THEN nodes[m].zone
                                                    ELSE call[w].zone
                 inherits == /\ call[w].type = "none"
                             /\ nodes[m].adapterType # AdapterTypeUnknown
      <4>3. /\ name \in Name \cup {EmptyName} \cup Mac
            /\ zone \in Zone \cup {EmptyZone}
            /\ inherits \in BOOLEAN
        BY <2>1, <4>2 DEF Call
      <4>4. Inherit(call[w], m) =
              [call[w] EXCEPT !.at = "assign", !.old = m, !.name = name,
                              !.zone = zone, !.inherits = inherits]
        BY <2>1 DEF Inherit, Call
      <4>5. QED
        <5> HIDE DEF name, zone, inherits
        <5> QED BY <2>1, <4>1, <4>3, <4>4 DEF Call, Step
    <3>2. [call[w] EXCEPT !.at = "assign"] \in Call
          /\ [call[w] EXCEPT !.at = "assign"].at = "assign"
          /\ [call[w] EXCEPT !.at = "assign"].mac = call[w].mac
      BY <2>1 DEF Call, Step
    <3>3. CASE \E m \in HoldersOf(nodes, call[w].id) :
                 call' = [call EXCEPT ![w] =
                     IF m = call[w].mac THEN [@ EXCEPT !.at = "assign"]
                                        ELSE Inherit(@, m)]
      BY <3>1, <3>2, <3>3 DEF TypeOK
    <3>4. CASE Goto(w, "assign")
      BY <3>2, <3>4 DEF Goto, TypeOK
    <3>5. QED
      BY <1>14, <3>3, <3>4 DEF DetectHotswap
  <2>3. QED
    BY <1>14, <2>1, <2>2 DEF DetectHotswap, TypeOK, CallOK
<1>15. ASSUME NEW w \in Worker, Assign(w)
       PROVE  TInv'
  <2>1. call[w].at = "assign" /\ call[w].mac \in Mac /\ call[w] \in Call
        /\ call[w].mac \in DOMAIN auth
    BY <1>15 DEF Assign, At, TypeOK, CallOK
  <2>2. IsNodeRegistry(nodes')
    BY <1>15, <2>1, AssignNodeType DEF Assign, TypeOK, Call
  <2>3. "replace" \in Step /\ "joinAck" \in Step
    BY DEF Step
  <2>4. QED
    BY <1>15, <2>1, <2>2, <2>3, GotoType, GotoMac DEF Assign, TypeOK, CallOK
<1>16. ASSUME NEW w \in Worker, Replace(w)
       PROVE  TInv'
  <2>1. call[w].at = "replace" /\ call[w].mac \in Mac
        /\ call[w].mac \in DOMAIN auth
    BY <1>16 DEF Replace, At, CallOK
  <2>2. IsNodeRegistry(nodes')
    BY <1>16, <2>1, MarkReplacedType DEF Replace, TypeOK
  <2>3. "joinAck" \in Step
    BY DEF Step
  <2>4. QED
    BY <1>16, <2>1, <2>2, <2>3, GotoType, GotoMac DEF Replace, TypeOK, CallOK
<1>17. ASSUME NEW w \in Worker, SendJoinAck(w)
       PROVE  TInv'
  <2>1. call[w].at = "joinAck" /\ call[w].mac \in DOMAIN auth /\ call[w] \in Call
        /\ call[w].mac \in Mac
    BY <1>17 DEF SendJoinAck, At, TypeOK, CallOK
  <2>2. AckKey(w) \in Answer
    BY <2>1 DEF AckKey, Answer, Call, TypeOK, Auth!IsAuthRegistry, Auth!NodeAuth
  <2>3. sent' \in [Mac -> [answer : Answer, id : NodeID]]
    BY <1>17, <2>2, AnswerType DEF SendJoinAck
  <2>4. PICK s \in {"idSet", "configSet", "persist"} :
          call' = [call EXCEPT ![w].at = s, ![w].key = "live"]
    BY <1>17 DEF SendJoinAck, AfterIDSet
  <2>5. call' \in [Worker -> Call]
    <3> DEFINE c == [call[w] EXCEPT !.at = s, !.key = "live"]
    <3>1. c \in Call
      BY <2>1 DEF Call, Step
    <3>2. call' = [call EXCEPT ![w] = c]
      BY <2>4 DEF TypeOK
    <3>3. QED
      <4> HIDE DEF c
      <4> QED BY <3>1, <3>2 DEF TypeOK
  <2>6. \A v \in Worker : /\ call'[v].mac = call[v].mac
                          /\ call'[v].at = IF v = w THEN s ELSE call[v].at
    BY <2>4 DEF TypeOK, Call
  <2>7. QED
    BY <1>17, <2>1, <2>3, <2>5, <2>6 DEF SendJoinAck, TypeOK, CallOK
<1>18. ASSUME NEW w \in Worker, SendNodeIDSet(w)
       PROVE  TInv'
  <2>1. call[w].at = "idSet" /\ call[w] \in Call /\ call[w].mac \in Mac
    BY <1>18 DEF SendNodeIDSet, At, TypeOK, CallOK
  <2>2. sent' \in [Mac -> [answer : Answer, id : NodeID]]
    BY <1>18, <2>1, SentIDType DEF SendNodeIDSet, Call
  <2>3. AfterIDSet(w) \in Step /\ AfterIDSet(w) \in {"configSet", "persist"}
    BY DEF AfterIDSet, Step
  <2>4. QED
    BY <1>18, <2>1, <2>2, <2>3, GotoType, GotoMac
    DEF SendNodeIDSet, TypeOK, CallOK
<1>19. ASSUME NEW w \in Worker, SendConfigSet(w)
       PROVE  TInv'
  <2>1. call[w].at = "configSet" /\ call[w].mac \in Mac
    BY <1>19 DEF SendConfigSet, At, CallOK
  <2>2. "persist" \in Step
    BY DEF Step
  <2>3. QED
    BY <1>19, <2>1, <2>2, GotoType, GotoMac DEF SendConfigSet, TypeOK, CallOK
<1>20. ASSUME NEW w \in Worker, Persist(w)
       PROVE  TInv'
  <2>1. call[w] \in Call /\ call[w].mac \in Mac
    BY <1>20 DEF Persist, At, CallOK, TypeOK
  <2>2. \E c \in Call :
          /\ call' = [call EXCEPT ![w] = c]
          /\ c.at \in {"idle", "configure"}
          /\ c.at # "idle" => c.mac = call[w].mac
    <3>1. CASE call[w].type = "configured"
      <4> DEFINE c == [call[w] EXCEPT !.at = "configure"]
      <4>1. c \in Call /\ c.at = "configure" /\ c.mac = call[w].mac
        BY <2>1 DEF Call, Step
      <4>2. QED
        BY <1>20, <3>1, <4>1 DEF Persist, TypeOK
    <3>2. CASE call[w].type # "configured"
      BY <1>20, <3>2, IdleType DEF Persist, Idle, TypeOK
    <3>3. QED
      BY <3>1, <3>2
  <2>3. /\ Auth!IsAuthRegistry(authFile') /\ unsaved' \subseteq Mac
        /\ UNCHANGED <<auth, nodes, sent, granted>>
    BY <1>20, SaveType DEF Persist
  <2>4. QED
    BY <2>1, <2>2, <2>3 DEF TypeOK, CallOK
<1>21. ASSUME NEW w \in Worker, PersistFails(w)
       PROVE  TInv'
  <2>1. call[w].mac \in Mac
    BY <1>21 DEF PersistFails, At, CallOK
  <2>2. /\ Auth!IsAuthRegistry(authFile') /\ unsaved' \subseteq Mac
        /\ UNCHANGED <<auth, nodes, sent, granted>>
        /\ call' = [call EXCEPT ![w] = Idle]
    BY <1>21, <2>1, SaveType DEF PersistFails
  <2>3. QED
    BY <2>2, IdleType DEF TypeOK, CallOK, Idle
<1>22. CASE PersistTick
  <2>1. /\ Auth!IsAuthRegistry(authFile') /\ unsaved' \subseteq Mac
        /\ UNCHANGED <<auth, nodes, sent, call, granted>>
    BY <1>22, SaveType DEF PersistTick
  <2>2. QED
    BY <2>1 DEF TypeOK, CallOK
<1>23. CASE UNCHANGED vars
  BY <1>23 DEF vars, TypeOK, CallOK
<1>24. QED
  BY <1>1, <1>2, <1>3, <1>4, <1>5, <1>6, <1>7, <1>8, <1>9, <1>10, <1>11, <1>12,
     <1>13, <1>14, <1>15, <1>16, <1>17, <1>18, <1>19, <1>20, <1>21, <1>22, <1>23
  DEF Next, LinkStep, AdminStep, ApproveStep

\* Every variable keeps its shape; a handler at work names a device, and one
\* that approves names a device the trust registry knows.
LEMMA TInvInvariant == Spec => []TInv
BY InitTInv, NextTInv, PTL DEF Spec

THEOREM TypeCorrect == Spec => []TypeOK
<1>1. TInv => TypeOK
  BY DEF TInv
<1>2. QED
  BY TInvInvariant, <1>1, PTL

(***************************************************************************)
(* What a step leaves alone of the identities.                             *)
(***************************************************************************)

\* A step that neither settles nor tells: no node has a new ID, no device is sent
\* one, and no handler enters or leaves the steps in S.
Kept(v) ==
  /\ call'[v].at = call[v].at /\ call'[v].mac = call[v].mac
  /\ call'[v].id = call[v].id /\ call'[v].old = call[v].old

CallsQuiet(S) ==
  \A v \in Worker : Kept(v) \/ (call[v].at \notin S /\ call'[v].at \notin S)

NodesQuiet ==
  \A m \in DOMAIN nodes' :
    \/ nodes'[m].nodeID = 0
    \/ /\ m \in DOMAIN nodes
       /\ nodes'[m].nodeID = nodes[m].nodeID
       /\ nodes'[m].status = nodes[m].status

SentQuiet == \A m \in Mac : sent'[m].id = sent[m].id

\* A handler moves from one quiet step to another.
LEMMA QuietCall ==
  ASSUME TypeOK, NEW w \in Worker, NEW c, call' = [call EXCEPT ![w] = c],
         NEW S, call[w].at \notin S, c.at \notin S
  PROVE  CallsQuiet(S)
BY DEF TypeOK, CallsQuiet, Kept

LEMMA QuietGoto ==
  ASSUME TypeOK, NEW w \in Worker, NEW s, Goto(w, s),
         NEW S, call[w].at \notin S, s \notin S
  PROVE  CallsQuiet(S)
BY DEF TypeOK, Goto, Call, CallsQuiet, Kept

\* N2 is N with one entry rewritten, whose ID and status are as given.
Rewritten(N, N2, m, id, status) ==
  /\ DOMAIN N2 = DOMAIN N \cup {m}
  /\ N2[m].nodeID = id
  /\ N2[m].status = status
  /\ \A n \in DOMAIN N2 : n # m => N2[n] = N[n]

LEMMA UpdateNodeEffect ==
  ASSUME NEW N, IsNodeRegistry(N), NEW m \in Mac, NEW t \in AdapterType
  PROVE  Rewritten(N, UpdateNode(N, m, t, 0), m,
                   Entry(N, m).nodeID, Entry(N, m).status)
<1> DEFINE upd(e) == [e EXCEPT !.adapterType = t, !.lastSeen = 0]
<1>1. ASSUME NEW e \in NodeInfo
      PROVE  upd(e).nodeID = e.nodeID /\ upd(e).status = e.status
  BY DEF NodeInfo
<1>2. UpdateNode(N, m, t, 0) = Put(N, m, upd(Entry(N, m)))
  BY DEF UpdateNode
<1>3. QED
  <2> HIDE DEF upd
  <2> QED BY <1>1, <1>2, EntryType DEF Put, Rewritten

LEMMA AssignNodeEffect ==
  ASSUME NEW N, IsNodeRegistry(N), NEW m \in Mac, NEW id \in NodeID,
         NEW name, NEW zone
  PROVE  Rewritten(N, AssignNode(N, m, id, name, zone), m,
                   id, Entry(N, m).status)
<1> DEFINE upd(e) == [e EXCEPT
                        !.nodeID = id,
                        !.name   = IF name = EmptyName THEN m ELSE name,
                        !.zone   = zone]
<1>1. ASSUME NEW e \in NodeInfo
      PROVE  upd(e).nodeID = id /\ upd(e).status = e.status
  BY DEF NodeInfo
<1>2. AssignNode(N, m, id, name, zone) = Put(N, m, upd(Entry(N, m)))
  BY DEF AssignNode
<1>3. QED
  <2> HIDE DEF upd
  <2> QED BY <1>1, <1>2, EntryType DEF Put, Rewritten

Loud == Settling \cup Telling

\* The actions that leave every identity alone.
QuietAction ==
  \/ \E l \in Link, m \in Mac, k \in Key : JoinRequest(l, m, k)
  \/ \E l \in Link, m \in Mac, type \in AdapterType : HealthReport(l, m, type)
  \/ \E l \in Link : ResendJoinAck(l) \/ ApproveAgain(l)
  \/ \E a \in Admin, m \in Mac, id \in NodeID, name \in Name \cup {EmptyName},
        zone \in Zone \cup {EmptyZone}, type \in TypeAsked :
       ApproveRequest(a, m, id, name, zone, type)
  \/ \E a \in Admin, m \in Mac : RejectRequest(a, m)
  \/ \E a \in Admin, id \in NodeID \ {0} : DeleteRequest(a, id)
  \/ \E a \in Admin : SendRejection(a) \/ Configure(a) \/ Remove(a)
  \/ \E w \in Worker : SendConfigSet(w) \/ Persist(w) \/ PersistFails(w)
  \/ PersistTick

\* The others, but for the sending of a JOIN_ACK or an ID, rewrite identities or
\* read them for a write to come.
NextAction ==
  \/ QuietAction
  \/ \E a \in Admin, id \in NodeID \ {0}, type \in TypeAsked \ {"named"} :
       UpdateRequest(a, id, type)
  \/ \E a \in Admin : Update(a)
  \/ \E w \in Worker : \/ ChooseFreeID(w) \/ DetectHotswap(w) \/ Assign(w)
                       \/ Replace(w) \/ SendJoinAck(w) \/ SendNodeIDSet(w)

LEMMA Sorted ==
  ASSUME Next
  PROVE  NextAction
BY DEF Next, LinkStep, AdminStep, ApproveStep, NextAction, QuietAction, Worker

LEMMA SameNodes ==
  ASSUME UNCHANGED nodes
  PROVE  NodesQuiet
BY DEF NodesQuiet

LEMMA AnswerOnly ==
  ASSUME TypeOK, NEW m, NEW k, Send(m, "answer", k)
  PROVE  SentQuiet
BY DEF TypeOK, Send, SentQuiet

LEMMA QuietSteps ==
  ASSUME TInv, QuietAction
  PROVE  NodesQuiet /\ SentQuiet /\ CallsQuiet(Loud)
<1> USE DEF TInv
<1> DEFINE Calm == {"idle", "resend", "approve", "choose", "configSet",
                    "rejectAck", "persist", "configure", "remove"}
<1>0. \A s \in Calm : s \notin Loud
  BY DEF Loud, Settling, Telling
<1> HIDE DEF Calm
<1>1. ASSUME NEW l \in Link, NEW m \in Mac, NEW k \in Key, JoinRequest(l, m, k)
      PROVE  NodesQuiet /\ SentQuiet /\ CallsQuiet(Loud)
  <2>1. CallsQuiet(Loud)
    <3>1. l \in Worker /\ call[l].at = "idle" /\ "idle" \notin Loud
      BY <1>0, <1>1 DEF JoinRequest, At, Worker, Calm
    <3>2. CASE Auth!ApprovedSameKey(auth, m, k)
      <4> DEFINE c == [Idle EXCEPT !.at = "resend", !.mac = m]
      <4>1. c.at = "resend" /\ call' = [call EXCEPT ![l] = c]
        BY <1>1, <3>2 DEF JoinRequest, Idle
      <4>2. "resend" \notin Loud
        BY <1>0 DEF Calm
      <4>3. QED
        <5> HIDE DEF c
        <5> QED BY <3>1, <4>1, <4>2, QuietCall
    <3>3. CASE ~Auth!ApprovedSameKey(auth, m, k)
      <4>1. call' = [w \in Worker |->
                       IF w = l THEN [Idle EXCEPT !.at = "persist", !.mac = m]
                                ELSE Orphan(call[w], m)]
        BY <1>1, <3>3 DEF JoinRequest
      <4>2. ASSUME NEW w \in Worker
            PROVE  /\ Orphan(call[w], m).at = call[w].at
                   /\ Orphan(call[w], m).mac = call[w].mac
                   /\ Orphan(call[w], m).id = call[w].id
                   /\ Orphan(call[w], m).old = call[w].old
        BY DEF Orphan, TypeOK, Call
      <4>3. [Idle EXCEPT !.at = "persist", !.mac = m].at = "persist"
            /\ "persist" \notin Loud
        BY <1>0 DEF Idle, Calm
      <4>4. QED
        BY <3>1, <4>1, <4>2, <4>3 DEF CallsQuiet, Kept
    <3>4. QED
      BY <3>2, <3>3
  <2>2. QED
    BY <1>1, <2>1, SameNodes DEF JoinRequest, SentQuiet
<1>2. ASSUME NEW l \in Link, NEW m \in Mac, NEW t \in AdapterType,
             HealthReport(l, m, t)
      PROVE  NodesQuiet /\ SentQuiet /\ CallsQuiet(Loud)
  <2>1. SentQuiet /\ CallsQuiet(Loud)
    BY <1>2 DEF HealthReport, SentQuiet, CallsQuiet, Kept
  <2>2. NodesQuiet
    <3>1. nodes' = UpdateNode(nodes, m, t, 0)
      BY <1>2 DEF HealthReport
    <3>2. Rewritten(nodes, nodes', m, Entry(nodes, m).nodeID,
                    Entry(nodes, m).status)
      BY <3>1, UpdateNodeEffect DEF TypeOK
    <3>3. QED
      BY <3>2 DEF Rewritten, Entry, NewNode, NodesQuiet
  <2>3. QED
    BY <2>1, <2>2
<1>3. ASSUME NEW l \in Link, ResendJoinAck(l)
      PROVE  NodesQuiet /\ SentQuiet /\ CallsQuiet(Loud)
  <2>1. l \in Worker /\ call[l].at = "resend"
    BY <1>3 DEF ResendJoinAck, At, Worker
  <2>2. PICK c : call' = [call EXCEPT ![l] = c] /\ c.at = "approve"
    <3>1. call[l] \in Call
      BY <2>1 DEF TypeOK
    <3>2. CASE call[l].mac \in DOMAIN nodes
      <4> DEFINE m == call[l].mac
                 c == [call[l] EXCEPT
                         !.at = "approve", !.id = nodes[m].nodeID,
                         !.name = nodes[m].name, !.zone = nodes[m].zone,
                         !.type = "named"]
      <4>1. c.at = "approve"
        BY <3>1 DEF Call
      <4>2. call' = [call EXCEPT ![l] = c]
        BY <1>3, <2>1, <3>2 DEF ResendJoinAck, TypeOK
      <4>3. QED
        <5> HIDE DEF c
        <5> QED BY <4>1, <4>2
    <3>3. CASE call[l].mac \notin DOMAIN nodes
      <4> DEFINE c == [call[l] EXCEPT !.at = "approve"]
      <4>1. c.at = "approve"
        BY <3>1 DEF Call
      <4>2. call' = [call EXCEPT ![l] = c]
        BY <1>3, <2>1, <3>3 DEF ResendJoinAck, TypeOK
      <4>3. QED
        <5> HIDE DEF c
        <5> QED BY <4>1, <4>2
    <3>4. QED
      BY <3>2, <3>3
  <2>3. "resend" \notin Loud /\ "approve" \notin Loud
    BY <1>0 DEF Calm
  <2>4. CallsQuiet(Loud)
    BY <2>1, <2>2, <2>3, QuietCall
  <2>5. QED
    BY <1>3, <2>4, SameNodes DEF ResendJoinAck, SentQuiet
<1>4. ASSUME NEW l \in Link, ApproveAgain(l)
      PROVE  NodesQuiet /\ SentQuiet /\ CallsQuiet(Loud)
  <2>1. /\ l \in Worker /\ call[l].at = "approve" /\ Goto(l, "choose")
        /\ "approve" \notin Loud /\ "choose" \notin Loud
    BY <1>0, <1>4 DEF ApproveAgain, At, Worker, Calm
  <2>2. CallsQuiet(Loud)
    BY <2>1, QuietGoto
  <2>3. QED
    BY <1>4, <2>2, SameNodes DEF ApproveAgain, SentQuiet
<1>5. ASSUME NEW a \in Admin, NEW m \in Mac, NEW id \in NodeID,
             NEW name \in Name \cup {EmptyName}, NEW zone \in Zone \cup {EmptyZone},
             NEW type \in TypeAsked, ApproveRequest(a, m, id, name, zone, type)
      PROVE  NodesQuiet /\ SentQuiet /\ CallsQuiet(Loud)
  <2> DEFINE c == [Idle EXCEPT !.at = "choose", !.mac = m, !.id = id,
                               !.name = name, !.zone = zone, !.type = type]
  <2>1. /\ c.at = "choose" /\ call' = [call EXCEPT ![a] = c]
        /\ call[a].at = "idle" /\ a \in Worker
        /\ "idle" \notin Loud /\ "choose" \notin Loud
    BY <1>0, <1>5 DEF ApproveRequest, Idle, At, Worker, Calm
  <2>2. CallsQuiet(Loud)
    <3> HIDE DEF c
    <3> QED BY <2>1, QuietCall
  <2>3. QED
    BY <1>5, <2>2, SameNodes DEF ApproveRequest, SentQuiet
<1>6. ASSUME NEW a \in Admin, NEW m \in Mac, RejectRequest(a, m)
      PROVE  NodesQuiet /\ SentQuiet /\ CallsQuiet(Loud)
  <2> DEFINE c == [Idle EXCEPT !.at = "rejectAck", !.mac = m]
  <2>1. /\ c.at = "rejectAck" /\ call' = [call EXCEPT ![a] = c]
        /\ call[a].at = "idle" /\ a \in Worker
        /\ "idle" \notin Loud /\ "rejectAck" \notin Loud
    BY <1>0, <1>6 DEF RejectRequest, Idle, At, Worker, Calm
  <2>2. CallsQuiet(Loud)
    <3> HIDE DEF c
    <3> QED BY <2>1, QuietCall
  <2>3. QED
    BY <1>6, <2>2, SameNodes DEF RejectRequest, SentQuiet
<1>7. ASSUME NEW a \in Admin, NEW id \in NodeID \ {0}, DeleteRequest(a, id)
      PROVE  NodesQuiet /\ SentQuiet /\ CallsQuiet(Loud)
  <2>1. PICK m \in HoldersOf(nodes, id) :
          call' = [call EXCEPT ![a] = [Idle EXCEPT !.at = "remove", !.mac = m]]
    BY <1>7 DEF DeleteRequest
  <2> DEFINE c == [Idle EXCEPT !.at = "remove", !.mac = m]
  <2>2. /\ c.at = "remove" /\ call' = [call EXCEPT ![a] = c]
        /\ call[a].at = "idle" /\ a \in Worker
        /\ "idle" \notin Loud /\ "remove" \notin Loud
    BY <1>0, <1>7, <2>1 DEF DeleteRequest, Idle, At, Worker, Calm
  <2>3. CallsQuiet(Loud)
    <3> HIDE DEF c
    <3> QED BY <2>2, QuietCall
  <2>4. QED
    BY <1>7, <2>3, SameNodes DEF DeleteRequest, SentQuiet
<1>8. ASSUME NEW a \in Admin, SendRejection(a)
      PROVE  NodesQuiet /\ SentQuiet /\ CallsQuiet(Loud)
  <2>1. /\ a \in Worker /\ call[a].at = "rejectAck" /\ Goto(a, "persist")
        /\ "rejectAck" \notin Loud /\ "persist" \notin Loud
    BY <1>0, <1>8 DEF SendRejection, At, Worker, Calm
  <2>2. CallsQuiet(Loud)
    BY <2>1, QuietGoto
  <2>3. QED
    BY <1>8, <2>2, SameNodes, AnswerOnly DEF SendRejection
<1>9. ASSUME NEW a \in Admin, Configure(a)
      PROVE  NodesQuiet /\ SentQuiet /\ CallsQuiet(Loud)
  <2>1. /\ a \in Worker /\ call[a].at = "configure" /\ Idle.at = "idle"
        /\ call' = [call EXCEPT ![a] = Idle]
        /\ "configure" \notin Loud /\ "idle" \notin Loud
    BY <1>0, <1>9 DEF Configure, At, Worker, Idle, Calm
  <2>2. CallsQuiet(Loud)
    BY <2>1, QuietCall
  <2>3. QED
    BY <1>9, <2>2, SameNodes DEF Configure, SentQuiet
<1>10. ASSUME NEW a \in Admin, Remove(a)
       PROVE  NodesQuiet /\ SentQuiet /\ CallsQuiet(Loud)
  <2>1. /\ a \in Worker /\ call[a].at = "remove" /\ Idle.at = "idle"
        /\ call' = [call EXCEPT ![a] = Idle]
        /\ "remove" \notin Loud /\ "idle" \notin Loud
    BY <1>0, <1>10 DEF Remove, At, Worker, Idle, Calm
  <2>2. CallsQuiet(Loud)
    BY <2>1, QuietCall
  <2>3. NodesQuiet
    BY <1>10 DEF Remove, RemoveNode, Delete, NodesQuiet
  <2>4. QED
    BY <1>10, <2>2, <2>3 DEF Remove, SentQuiet
<1>11. ASSUME NEW w \in Worker, SendConfigSet(w)
       PROVE  NodesQuiet /\ SentQuiet /\ CallsQuiet(Loud)
  <2>1. /\ call[w].at = "configSet" /\ Goto(w, "persist")
        /\ "configSet" \notin Loud /\ "persist" \notin Loud
    BY <1>0, <1>11 DEF SendConfigSet, At, Calm
  <2>2. CallsQuiet(Loud)
    BY <2>1, QuietGoto
  <2>3. QED
    BY <1>11, <2>2, SameNodes DEF SendConfigSet, SentQuiet
<1>12. ASSUME NEW w \in Worker, Persist(w)
       PROVE  NodesQuiet /\ SentQuiet /\ CallsQuiet(Loud)
  <2>1. call[w].at = "persist" /\ call[w] \in Call
    BY <1>12 DEF Persist, At, TypeOK
  <2>2. PICK c : call' = [call EXCEPT ![w] = c] /\ c.at \in {"configure", "idle"}
    <3>1. CASE call[w].type = "configured"
      <4> DEFINE c == [call[w] EXCEPT !.at = "configure"]
      <4>1. c.at = "configure"
        BY <2>1 DEF Call
      <4>2. call' = [call EXCEPT ![w] = c]
        BY <1>12, <3>1 DEF Persist, TypeOK
      <4>3. QED
        <5> HIDE DEF c
        <5> QED BY <4>1, <4>2
    <3>2. CASE call[w].type # "configured"
      <4>1. call' = [call EXCEPT ![w] = Idle] /\ Idle.at = "idle"
        BY <1>12, <3>2 DEF Persist, Idle, TypeOK
      <4>2. QED
        BY <4>1
    <3>3. QED
      BY <3>1, <3>2
  <2>3. "persist" \notin Loud /\ "configure" \notin Loud /\ "idle" \notin Loud
    BY <1>0 DEF Calm
  <2>4. CallsQuiet(Loud)
    BY <2>1, <2>2, <2>3, QuietCall
  <2>5. QED
    BY <1>12, <2>4, SameNodes DEF Persist, SentQuiet
<1>13. ASSUME NEW w \in Worker, PersistFails(w)
       PROVE  NodesQuiet /\ SentQuiet /\ CallsQuiet(Loud)
  <2>1. /\ call[w].at = "persist" /\ Idle.at = "idle"
        /\ call' = [call EXCEPT ![w] = Idle]
        /\ "persist" \notin Loud /\ "idle" \notin Loud
    BY <1>0, <1>13 DEF PersistFails, At, Idle, Calm
  <2>2. CallsQuiet(Loud)
    BY <2>1, QuietCall
  <2>3. QED
    BY <1>13, <2>2, SameNodes DEF PersistFails, SentQuiet
<1>14. CASE PersistTick
  BY <1>14, SameNodes DEF PersistTick, SentQuiet, CallsQuiet, Kept
<1>15. QED
  BY <1>1, <1>2, <1>3, <1>4, <1>5, <1>6, <1>7, <1>8, <1>9, <1>10, <1>11, <1>12,
     <1>13, <1>14
  DEF QuietAction

LEMMA MarkReplacedEffect ==
  ASSUME NEW N, IsNodeRegistry(N), NEW o, NEW m
  PROVE  LET N2 == MarkReplaced(N, o, m) IN
         /\ DOMAIN N2 = DOMAIN N
         /\ o \in DOMAIN N2 => N2[o].nodeID = 0
         /\ \A n \in DOMAIN N2 : n # o => N2[n] = N[n]
<1>1. CASE o \in DOMAIN N
  <2>1. N[o] \in NodeInfo
    BY <1>1 DEF IsNodeRegistry
  <2>2. MarkReplaced(N, o, m) = [N EXCEPT ![o] = [N[o] EXCEPT
          !.status = "replaced", !.replacedBy = m, !.nodeID = 0]]
    BY <1>1 DEF MarkReplaced, IsNodeRegistry
  <2>3. QED
    BY <1>1, <2>1, <2>2 DEF NodeInfo
<1>2. CASE o \notin DOMAIN N
  BY <1>2 DEF MarkReplaced
<1>3. QED
  BY <1>1, <1>2

(***************************************************************************)
(* Node IDs are unique among active nodes.  UniqueActiveIDs is not         *)
(* inductive: it needs what a handler between its look at the registry and *)
(* its write can rely on as long as no other has the same ID in hand.      *)
(***************************************************************************)

UniqueAt(i) ==
  \A m, n \in HoldersOf(nodes, i) : m = n \/ Swapping(m, n, i) \/ Swapping(n, m, i)

\* The ID a handler is about to write, or has just written, belongs to nobody but
\* the device it is for and the one that device replaces.
SlotOK(i) ==
  \A w \in Worker :
    /\ Settles(w, i) => HoldersOf(nodes, i) \subseteq {call[w].mac, call[w].old}
    /\ Settles(w, i) /\ At(w, "update") => HoldersOf(nodes, i) \subseteq {call[w].mac}

Owned(i) == UniqueAt(i) /\ SlotOK(i)

IDInv ==
  /\ TInv
  /\ \A i \in (1 .. MaxNodeID) \ disputed : ~Contested(i) /\ Owned(i)

\* Steps that give the ID to nobody, of handlers that do not settle it or leave off.
LEMMA StillOwned ==
  ASSUME NEW i, Owned(i), HoldersOf(nodes', i) \subseteq HoldersOf(nodes, i),
         \A v \in Worker :
           Kept(v) \/ (~Settles(v, i)' /\ ~ (At(v, "replace") /\ call[v].id = i))
  PROVE  Owned(i)'
<1>1. ASSUME NEW m \in HoldersOf(nodes, i), NEW n \in HoldersOf(nodes, i),
             Swapping(m, n, i)
      PROVE  Swapping(m, n, i)'
  BY <1>1 DEF Swapping, At, Kept
<1>2. UniqueAt(i)'
  BY <1>1 DEF Owned, UniqueAt
<1>3. SlotOK(i)'
  <2> SUFFICES ASSUME NEW w \in Worker, Settles(w, i)'
               PROVE  /\ HoldersOf(nodes', i) \subseteq {call'[w].mac, call'[w].old}
                      /\ At(w, "update")'
                         => HoldersOf(nodes', i) \subseteq {call'[w].mac}
    BY DEF SlotOK
  <2>1. Kept(w)
    OBVIOUS
  <2>2. QED
    BY <2>1 DEF Owned, SlotOK, Settles, Kept, At
<1>4. QED
  BY <1>2, <1>3 DEF Owned

LEMMA QuietHolders ==
  ASSUME NodesQuiet, NEW i, i # 0
  PROVE  HoldersOf(nodes', i) \subseteq HoldersOf(nodes, i)
BY DEF NodesQuiet, HoldersOf

\* The ID is written into m's entry: m may be a new holder, or is none any more.
LEMMA WrittenHolders ==
  ASSUME NEW m, NEW id, NEW status, Rewritten(nodes, nodes', m, id, status), NEW i
  PROVE  /\ HoldersOf(nodes', i) \subseteq HoldersOf(nodes, i) \cup {m}
         /\ i # id => HoldersOf(nodes', i) \subseteq HoldersOf(nodes, i)
BY DEF Rewritten, HoldersOf

\* Only w settles the ID, and is not in the middle of a hotswap: one node has it.
LEMMA OneHolder ==
  ASSUME NEW i, UniqueAt(i), \A v \in Worker : ~ (At(v, "replace") /\ call[v].id = i),
         NEW m \in HoldersOf(nodes, i)
  PROVE  HoldersOf(nodes, i) = {m}
BY DEF UniqueAt, Swapping

\* Only w settles it, before or after a step of w.
LEMMA Alone ==
  ASSUME NEW i, NEW w \in Worker, \A v \in Worker : v # w => Kept(v),
         (~Contested(i) /\ Settles(w, i)) \/ (~Contested(i)' /\ Settles(w, i)')
  PROVE  \A v \in Worker : v # w => ~Settles(v, i) /\ ~Settles(v, i)'
BY DEF Contested, Settles, Kept

LEMMA NextOwned ==
  ASSUME TInv, TInv', Next, NEW i \in 1 .. MaxNodeID,
         ~Contested(i), ~Contested(i)', Owned(i)
  PROVE  Owned(i)'
<1> USE DEF TInv
<1>0. i # 0 /\ i \in NodeID
  BY MaxNodeIDAssumption DEF NodeID
<1>1. CASE QuietAction
  <2>1. NodesQuiet /\ CallsQuiet(Loud)
    BY <1>1, QuietSteps
  <2>2. \A v \in Worker : Kept(v) \/ (call[v].at \notin Settling /\ call'[v].at \notin Settling)
    BY <2>1 DEF CallsQuiet, Loud
  <2>3. \A v \in Worker :
          Kept(v) \/ (~Settles(v, i)' /\ ~ (At(v, "replace") /\ call[v].id = i))
    BY <2>2 DEF Settles, Settling, At
  <2>4. HoldersOf(nodes', i) \subseteq HoldersOf(nodes, i)
    BY <1>0, <2>1, QuietHolders
  <2>5. QED
    BY <2>3, <2>4, StillOwned
<1>2. ASSUME NEW a \in Admin, NEW id \in NodeID \ {0},
             NEW type \in TypeAsked \ {"named"}, UpdateRequest(a, id, type)
      PROVE  Owned(i)'
  <2>1. PICK m \in HoldersOf(nodes, id) :
          /\ call'[a].at = "update" /\ call'[a].mac = m /\ call'[a].id = id
          /\ \A v \in Worker : v # a => call'[v] = call[v]
    BY <1>2 DEF UpdateRequest, TypeOK, Idle, Worker
  <2>2. /\ a \in Worker /\ call[a].at = "idle" /\ UNCHANGED nodes
        /\ \A v \in Worker : v # a => Kept(v)
    BY <1>2, <2>1 DEF UpdateRequest, At, Worker, Kept
  <2>3. CASE i # id
    <3>1. ~Settles(a, i)' /\ ~At(a, "replace")
      BY <2>1, <2>2, <2>3 DEF Settles, At
    <3>2. QED
      BY <2>2, <3>1, StillOwned
  <2>4. CASE i = id
    <3>1. Settles(a, i)'
      BY <2>1, <2>4 DEF Settles, Settling
    <3>2. \A v \in Worker : v # a => ~Settles(v, i) /\ ~Settles(v, i)'
      BY <2>2, <3>1, Alone
    <3>3. \A v \in Worker : ~ (At(v, "replace") /\ call[v].id = i)
      BY <2>2, <3>2 DEF Settles, Settling, At
    <3>4. HoldersOf(nodes, i) = {m}
      BY <2>1, <2>4, <3>3, OneHolder DEF Owned
    <3>5. HoldersOf(nodes', i) = {m}
      BY <2>2, <3>4
    <3>6. UniqueAt(i)'
      BY <3>5 DEF UniqueAt
    <3>7. SlotOK(i)'
      BY <2>1, <3>2, <3>5 DEF SlotOK
    <3>8. QED
      BY <3>6, <3>7 DEF Owned
  <2>5. QED
    BY <2>3, <2>4
<1>3. ASSUME NEW a \in Admin, Update(a)
      PROVE  Owned(i)'
  <2> DEFINE m == call[a].mac
             id == call[a].id
  <2>1. a \in Worker /\ call[a].at = "update" /\ m \in Mac /\ id \in NodeID
    BY <1>3 DEF Update, At, Worker, CallOK, TypeOK, Call
  <2>2. Rewritten(nodes, nodes', m, id, Entry(nodes, m).status)
    BY <1>3, <2>1, AssignNodeEffect DEF Update, TypeOK
  <2>3. /\ \A v \in Worker : v # a => Kept(v)
        /\ call'[a].at \in {"idle", "configure"}
    BY <1>3, <2>1 DEF Update, TypeOK, Call, Idle, Kept
  <2>4. ~Settles(a, i)' /\ ~At(a, "replace")
    BY <2>1, <2>3 DEF Settles, Settling, At
  <2>5. CASE i # id
    <3>1. HoldersOf(nodes', i) \subseteq HoldersOf(nodes, i)
      BY <2>2, <2>5, WrittenHolders
    <3>2. QED
      BY <2>3, <2>4, <3>1, StillOwned
  <2>6. CASE i = id
    <3>1. Settles(a, i)
      BY <2>1, <2>6 DEF Settles, Settling
    <3>2. HoldersOf(nodes, i) \subseteq {m}
      BY <2>1, <3>1 DEF Owned, SlotOK, At
    <3>3. HoldersOf(nodes', i) \subseteq {m}
      BY <2>2, <3>2, WrittenHolders
    <3>4. \A v \in Worker : ~Settles(v, i)'
      BY <2>1, <2>3, <2>4, <3>1, Alone
    <3>5. UniqueAt(i)' /\ SlotOK(i)'
      BY <3>3, <3>4 DEF UniqueAt, SlotOK
    <3>6. QED
      BY <3>5 DEF Owned
  <2>7. QED
    BY <2>5, <2>6
<1>4. ASSUME NEW w \in Worker, ChooseFreeID(w)
      PROVE  Owned(i)'
  <2>1. call[w].at = "choose" /\ UNCHANGED nodes
    BY <1>4 DEF ChooseFreeID, At
  <2>2. /\ \A v \in Worker : v # w => Kept(v)
        /\ call'[w].id = NextFreeNodeID(nodes)
    BY <1>4 DEF ChooseFreeID, TypeOK, Call, Kept
  <2>3. CASE i = NextFreeNodeID(nodes)
    <3>1. HoldersOf(nodes, i) = {}
      BY <2>3, NextFreeIsFree DEF HoldersOf, TypeOK
    <3>2. HoldersOf(nodes', i) = {}
      BY <2>1, <3>1
    <3>3. UniqueAt(i)' /\ SlotOK(i)'
      BY <3>2 DEF UniqueAt, SlotOK
    <3>4. QED
      BY <3>3 DEF Owned
  <2>4. CASE i # NextFreeNodeID(nodes)
    <3>1. ~Settles(w, i)' /\ ~At(w, "replace")
      BY <2>1, <2>2, <2>4 DEF Settles, At
    <3>2. QED
      BY <2>1, <2>2, <3>1, StillOwned
  <2>5. QED
    BY <2>3, <2>4
<1>5. ASSUME NEW w \in Worker, DetectHotswap(w)
      PROVE  Owned(i)'
  <2> DEFINE id == call[w].id
  <2>1. call[w].at = "choose" /\ UNCHANGED nodes /\ call[w] \in Call
    BY <1>5 DEF DetectHotswap, At, TypeOK
  <2>2. /\ \A v \in Worker : v # w => Kept(v)
        /\ call'[w].at = "assign" /\ call'[w].id = id
        /\ \/ HoldersOf(nodes, id) = {}
           \/ \E m \in HoldersOf(nodes, id) : m \in {call'[w].mac, call'[w].old}
    <3>1. CASE HoldersOf(nodes, id) = {} /\ Goto(w, "assign")
      BY <3>1, <2>1 DEF Goto, TypeOK, Call, Kept
    <3>2. ASSUME NEW m \in HoldersOf(nodes, id),
                 call' = [call EXCEPT ![w] =
                     IF m = call[w].mac THEN [@ EXCEPT !.at = "assign"]
                                        ELSE Inherit(@, m)]
          PROVE  /\ \A v \in Worker : v # w => Kept(v)
                 /\ call'[w].at = "assign" /\ call'[w].id = id
                 /\ m \in {call'[w].mac, call'[w].old}
      BY <3>2, <2>1 DEF Inherit, TypeOK, Call, Kept
    <3>3. QED
      BY <1>5, <3>1, <3>2 DEF DetectHotswap
  <2>3. CASE i # id
    <3>1. ~Settles(w, i)' /\ ~At(w, "replace")
      BY <2>1, <2>2, <2>3 DEF Settles, At
    <3>2. QED
      BY <2>1, <2>2, <3>1, StillOwned
  <2>4. CASE i = id
    <3>1. Settles(w, i)'
      BY <2>2, <2>4 DEF Settles, Settling
    <3>2. \A v \in Worker : v # w => ~Settles(v, i) /\ ~Settles(v, i)'
      BY <2>2, <3>1, Alone
    <3>3. \A v \in Worker : ~ (At(v, "replace") /\ call[v].id = i)
      BY <2>1, <3>2 DEF Settles, Settling, At
    <3>4. \A m \in HoldersOf(nodes, i) : HoldersOf(nodes, i) = {m}
      BY <3>3, OneHolder DEF Owned
    <3>5. HoldersOf(nodes', i) \subseteq {call'[w].mac, call'[w].old}
      BY <2>1, <2>2, <2>4, <3>4
    <3>6. UniqueAt(i)'
      BY <2>1, <3>4 DEF UniqueAt
    <3>7. SlotOK(i)'
      BY <2>2, <3>2, <3>5 DEF SlotOK, At
    <3>8. QED
      BY <3>6, <3>7 DEF Owned
  <2>5. QED
    BY <2>3, <2>4
<1>6. ASSUME NEW w \in Worker, Assign(w)
      PROVE  Owned(i)'
  <2> DEFINE m == call[w].mac
             id == call[w].id
             o == call[w].old
  <2>1. /\ call[w].at = "assign" /\ m \in Mac /\ id \in NodeID
        /\ call[w] \in Call
    BY <1>6 DEF Assign, At, CallOK, TypeOK, Call
  <2>2. Rewritten(nodes, nodes', m, id, Entry(nodes, m).status)
    BY <1>6, <2>1, AssignNodeEffect DEF Assign, TypeOK
  <2>3. /\ \A v \in Worker : v # w => Kept(v)
        /\ call'[w].at = IF o # NoMac THEN "replace" ELSE "joinAck"
        /\ call'[w].mac = m /\ call'[w].old = o /\ call'[w].id = id
    BY <1>6, <2>1 DEF Assign, Goto, TypeOK, Call, Kept
  <2>4. CASE i # id
    <3>1. HoldersOf(nodes', i) \subseteq HoldersOf(nodes, i)
      BY <2>2, <2>4, WrittenHolders
    <3>2. ~Settles(w, i)' /\ ~At(w, "replace")
      BY <2>1, <2>3, <2>4 DEF Settles, At
    <3>3. QED
      BY <2>3, <3>1, <3>2, StillOwned
  <2>5. CASE i = id
    <3>1. Settles(w, i)
      BY <2>1, <2>5 DEF Settles, Settling
    <3>2. HoldersOf(nodes, i) \subseteq {m, o}
      BY <3>1 DEF Owned, SlotOK
    <3>3. HoldersOf(nodes', i) \subseteq {m, o}
      BY <2>2, <3>2, WrittenHolders
    <3>4. NoMac \notin HoldersOf(nodes', i)
      BY NoMacAssumption DEF TypeOK, IsNodeRegistry, HoldersOf
    <3>5. ASSUME NEW x \in HoldersOf(nodes', i), NEW y \in HoldersOf(nodes', i), x # y
          PROVE  Swapping(x, y, i)' \/ Swapping(y, x, i)'
      <4>1. o # NoMac /\ ((x = o /\ y = m) \/ (x = m /\ y = o))
        BY <3>3, <3>4, <3>5
      <4>2. /\ call'[w].at = "replace" /\ call'[w].id = i
            /\ call'[w].old = o /\ call'[w].mac = m
        BY <2>3, <2>5, <4>1
      <4>3. QED
        BY <4>1, <4>2 DEF Swapping, At
    <3>6. UniqueAt(i)'
      BY <3>5 DEF UniqueAt
    <3>7. \A v \in Worker : v # w => ~Settles(v, i)'
      BY <2>3, <3>1, Alone
    <3>8. SlotOK(i)'
      BY <2>3, <3>3, <3>7 DEF SlotOK, At
    <3>9. QED
      BY <3>6, <3>8 DEF Owned
  <2>6. QED
    BY <2>4, <2>5
<1>7. ASSUME NEW w \in Worker, Replace(w)
      PROVE  Owned(i)'
  <2> DEFINE m == call[w].mac
             id == call[w].id
             o == call[w].old
  <2>1. call[w].at = "replace" /\ nodes' = MarkReplaced(nodes, o, m)
    BY <1>7 DEF Replace, At
  <2>2. /\ DOMAIN nodes' = DOMAIN nodes
        /\ o \in DOMAIN nodes' => nodes'[o].nodeID = 0
        /\ \A n \in DOMAIN nodes' : n # o => nodes'[n] = nodes[n]
    BY <2>1, MarkReplacedEffect DEF TypeOK
  <2>3. HoldersOf(nodes', i) \subseteq HoldersOf(nodes, i) \ {o}
    BY <1>0, <2>2 DEF HoldersOf
  <2>4. /\ \A v \in Worker : v # w => Kept(v)
        /\ call'[w].at = "joinAck"
    BY <1>7 DEF Replace, Goto, TypeOK, Call, Kept
  <2>5. ~Settles(w, i)'
    BY <2>4 DEF Settles, Settling
  <2>6. CASE i # id
    <3>1. ~ (At(w, "replace") /\ call[w].id = i)
      BY <2>6
    <3>2. QED
      BY <2>3, <2>4, <2>5, <3>1, StillOwned
  <2>7. CASE i = id
    <3>1. Settles(w, i)
      BY <2>1, <2>7 DEF Settles, Settling
    <3>2. HoldersOf(nodes, i) \subseteq {m, o}
      BY <3>1 DEF Owned, SlotOK
    <3>3. HoldersOf(nodes', i) \subseteq {m}
      BY <2>3, <3>2
    <3>4. \A v \in Worker : ~Settles(v, i)'
      BY <2>4, <2>5, <3>1, Alone
    <3>5. UniqueAt(i)' /\ SlotOK(i)'
      BY <3>3, <3>4 DEF UniqueAt, SlotOK
    <3>6. QED
      BY <3>5 DEF Owned
  <2>8. QED
    BY <2>6, <2>7
<1>8. ASSUME NEW w \in Worker, SendJoinAck(w) \/ SendNodeIDSet(w)
      PROVE  Owned(i)'
  <2>1. call[w].at \in {"joinAck", "idSet"} /\ UNCHANGED nodes
    BY <1>8 DEF SendJoinAck, SendNodeIDSet, At
  <2>2. /\ \A v \in Worker : v # w => Kept(v)
        /\ call'[w].at \in {"idSet", "configSet", "persist"}
    BY <1>8 DEF SendJoinAck, SendNodeIDSet, Goto, AfterIDSet, TypeOK, Call, Kept
  <2>3. ~Settles(w, i)' /\ ~At(w, "replace")
    BY <2>1, <2>2 DEF Settles, Settling, At
  <2>4. QED
    BY <2>1, <2>2, <2>3, StillOwned
<1>9. QED
  BY <1>1, <1>2, <1>3, <1>4, <1>5, <1>6, <1>7, <1>8, Sorted DEF NextAction

LEMMA InitIDInv == IdentityInit => IDInv
<1> SUFFICES ASSUME IdentityInit PROVE IDInv
  OBVIOUS
<1>1. ASSUME NEW i
      PROVE  ~Shared(i) /\ \A w \in Worker : ~Settles(w, i)
  BY DEF IdentityInit, Init, Idle, EmptyMap, HoldersOf, Shared, Settles, Settling
<1>2. QED
  BY <1>1, InitTInv
  DEF IDInv, IdentityInit, Owned, UniqueAt, SlotOK, Contested, Shared

LEMMA NextIDInv == IDInv /\ [IdentityNext]_identityVars => IDInv'
<1> SUFFICES ASSUME IDInv, [IdentityNext]_identityVars
             PROVE  IDInv'
  OBVIOUS
<1>1. CASE IdentityNext
  <2>1. TInv'
    BY <1>1, NextTInv DEF IDInv, IdentityNext
  <2>2. ASSUME NEW i \in 1 .. MaxNodeID, i \notin disputed'
        PROVE  (~Contested(i) /\ Owned(i))'
    <3>1. /\ ~Contested(i)'
          /\ i \in disputed => ~Shared(i)' /\ \A w \in Worker : ~Settles(w, i)'
      BY <1>1, <2>2 DEF IdentityNext, Account
    <3>2. CASE i \in disputed
      <4>1. UniqueAt(i)'
        BY <3>1, <3>2 DEF Shared, UniqueAt
      <4>2. SlotOK(i)'
        BY <3>1, <3>2 DEF SlotOK
      <4>3. QED
        BY <3>1, <4>1, <4>2 DEF Owned
    <3>3. CASE i \notin disputed
      <4>1. ~Contested(i) /\ Owned(i)
        BY <3>3 DEF IDInv
      <4>2. Owned(i)'
        BY <1>1, <2>1, <3>1, <4>1, NextOwned DEF IDInv, IdentityNext
      <4>3. QED
        BY <3>1, <4>2
    <3>4. QED
      BY <3>2, <3>3
  <2>3. QED
    BY <2>1, <2>2 DEF IDInv
<1>2. CASE UNCHANGED identityVars
  <2>1. TInv' /\ UNCHANGED <<nodes, call, disputed>>
    BY <1>2, NextTInv DEF IDInv, identityVars, vars
  <2>2. QED
    BY <2>1 DEF IDInv, Contested, Settles, Owned, UniqueAt, SlotOK, Swapping, At
<1>3. QED
  BY <1>1, <1>2

\* Two active nodes share a node ID only inside a hotswap, which is what the order of
\* AssignNode and MarkReplaced in ApproveEnrollment is for, or after two handlers had
\* looked the ID up before either was done with it; whatever runs at the same time, and
\* whichever frames and saves fail.
THEOREM UniqueIDs == IdentitySpec => []UniqueActiveIDs
<1>1. IDInv => UniqueActiveIDs
  BY DEF IDInv, UniqueActiveIDs, Owned, UniqueAt
<1>2. QED
  BY InitIDInv, NextIDInv, <1>1, PTL DEF IdentitySpec

(***************************************************************************)
(* A device knows the ID the registry holds for it.  DeviceToldItsID is    *)
(* not inductive: a handler that has written an ID and not yet sent it     *)
(* must still carry the ID it wrote, and a PATCH must write back the one   *)
(* the device was sent.                                                    *)
(***************************************************************************)

\* The ID the device of w will have been sent when the handler w is done with it.
Promised(w) ==
  IF call[w].id > 0 \/ call[w].at = "idSet" THEN call[w].id ELSE sent[call[w].mac].id

ToldOrTelling(m) ==
  Told(m) \/ \E w \in Worker :
               call[w].mac = m /\ call[w].at \in {"replace", "joinAck", "idSet"}

TellsRight(m) ==
  \A w \in Worker : Tells(w, m) =>
    /\ At(w, "update") => call[w].id = sent[m].id
    /\ ~At(w, "update") /\ m \in DOMAIN nodes => nodes[m].nodeID \in {0, Promised(w)}

Assured(m) == ToldOrTelling(m) /\ TellsRight(m)

ToldInv ==
  /\ TInv
  /\ \A m \in Mac \ unsettled : ~Crowded(m) /\ Assured(m)

\* The device m keeps its ID, or loses it, and is sent none.
LeftAlone(m) ==
  /\ m \in DOMAIN nodes' =>
       \/ nodes'[m].nodeID = 0
       \/ m \in DOMAIN nodes /\ nodes'[m].nodeID = nodes[m].nodeID
  /\ sent'[m].id = sent[m].id

LEMMA StillAssured ==
  ASSUME NEW m, Assured(m), LeftAlone(m),
         \A v \in Worker : Kept(v) \/ (~Tells(v, m) /\ ~Tells(v, m)')
  PROVE  Assured(m)'
<1>1. ToldOrTelling(m)'
  <2>1. CASE Told(m)
    BY <2>1 DEF Told, LeftAlone, ToldOrTelling
  <2>2. ASSUME NEW w \in Worker, call[w].mac = m,
               call[w].at \in {"replace", "joinAck", "idSet"}
        PROVE  ToldOrTelling(m)'
    <3>1. Kept(w)
      BY <2>2 DEF Tells, Telling
    <3>2. QED
      BY <2>2, <3>1 DEF Kept, ToldOrTelling
  <2>3. QED
    BY <2>1, <2>2 DEF Assured, ToldOrTelling
<1>2. TellsRight(m)'
  <2> SUFFICES ASSUME NEW w \in Worker, Tells(w, m)'
               PROVE  /\ At(w, "update")' => call'[w].id = sent'[m].id
                      /\ ~At(w, "update")' /\ m \in DOMAIN nodes'
                         => nodes'[m].nodeID \in {0, Promised(w)'}
    BY DEF TellsRight
  <2>1. Kept(w) /\ Tells(w, m) /\ call[w].mac = m
    BY DEF Tells, Kept
  <2>2. Promised(w)' = Promised(w)
    BY <2>1 DEF Promised, Kept, LeftAlone
  <2>3. QED
    BY <2>1, <2>2 DEF Assured, TellsRight, LeftAlone, Kept, At
<1>3. QED
  BY <1>1, <1>2 DEF Assured

\* Only w tells the device anything, before or after a step of w.
LEMMA AloneWith ==
  ASSUME NEW m, NEW w \in Worker, \A v \in Worker : v # w => Kept(v),
         (~Crowded(m) /\ Tells(w, m)) \/ (~Crowded(m)' /\ Tells(w, m)')
  PROVE  \A v \in Worker : v # w => ~Tells(v, m) /\ ~Tells(v, m)'
BY DEF Crowded, Tells, Kept

LEMMA NextAssured ==
  ASSUME TInv, TInv', Next, NEW m \in Mac,
         ~Crowded(m), ~Crowded(m)', ~IDLost(m), Assured(m)
  PROVE  Assured(m)'
<1> USE DEF TInv
<1>1. CASE QuietAction
  <2>1. NodesQuiet /\ SentQuiet /\ CallsQuiet(Loud)
    BY <1>1, QuietSteps
  <2>2. \A v \in Worker : Kept(v) \/ (~Tells(v, m) /\ ~Tells(v, m)')
    BY <2>1 DEF CallsQuiet, Loud, Tells
  <2>3. LeftAlone(m)
    BY <2>1 DEF NodesQuiet, SentQuiet, LeftAlone
  <2>4. QED
    BY <2>2, <2>3, StillAssured
<1>2. ASSUME NEW a \in Admin, NEW id \in NodeID \ {0},
             NEW type \in TypeAsked \ {"named"}, UpdateRequest(a, id, type)
      PROVE  Assured(m)'
  <2>1. PICK n \in HoldersOf(nodes, id) :
          /\ call'[a].at = "update" /\ call'[a].mac = n /\ call'[a].id = id
          /\ \A v \in Worker : v # a => call'[v] = call[v]
    BY <1>2 DEF UpdateRequest, TypeOK, Idle, Worker
  <2>2. /\ a \in Worker /\ call[a].at = "idle" /\ UNCHANGED <<nodes, sent>>
        /\ \A v \in Worker : v # a => Kept(v)
    BY <1>2, <2>1 DEF UpdateRequest, At, Worker, Kept
  <2>3. LeftAlone(m)
    BY <2>2 DEF LeftAlone
  <2>4. ~Tells(a, m)
    BY <2>2 DEF Tells, Telling
  <2>5. CASE n # m
    <3>1. ~Tells(a, m)'
      BY <2>1, <2>5 DEF Tells
    <3>2. QED
      BY <2>2, <2>3, <2>4, <3>1, StillAssured
  <2>6. CASE n = m
    <3>1. Tells(a, m)'
      BY <2>1, <2>6 DEF Tells, Telling
    <3>2. \A v \in Worker : v # a => ~Tells(v, m) /\ ~Tells(v, m)'
      BY <2>2, <3>1, AloneWith
    <3>3. \A v \in Worker : ~Tells(v, m)
      BY <2>4, <3>2
    <3>4. Told(m)
      BY <3>3 DEF Assured, ToldOrTelling, Tells, Telling
    <3>5. m \in DOMAIN nodes /\ nodes[m].nodeID = id /\ id # 0
      BY <2>1, <2>6 DEF HoldersOf
    <3>6. sent'[m].id = id
      BY <2>2, <3>4, <3>5 DEF Told
    <3>7. ToldOrTelling(m)'
      BY <2>2, <3>4 DEF Told, ToldOrTelling
    <3>8. TellsRight(m)'
      BY <2>1, <3>2, <3>6 DEF TellsRight, At
    <3>9. QED
      BY <3>7, <3>8 DEF Assured
  <2>7. QED
    BY <2>5, <2>6
<1>3. ASSUME NEW a \in Admin, Update(a)
      PROVE  Assured(m)'
  <2>1. /\ a \in Worker /\ call[a].at = "update" /\ call[a].mac \in Mac
        /\ call[a].id \in NodeID /\ UNCHANGED sent
    BY <1>3 DEF Update, At, Worker, CallOK, TypeOK, Call
  <2>2. Rewritten(nodes, nodes', call[a].mac, call[a].id,
                  Entry(nodes, call[a].mac).status)
    BY <1>3, <2>1, AssignNodeEffect DEF Update, TypeOK
  <2>3. /\ \A v \in Worker : v # a => Kept(v)
        /\ call'[a].at \in {"idle", "configure"}
    BY <1>3, <2>1 DEF Update, TypeOK, Call, Idle, Kept
  <2>4. ~Tells(a, m)'
    BY <2>3 DEF Tells, Telling
  <2>5. CASE call[a].mac # m
    <3>1. ~Tells(a, m) /\ LeftAlone(m)
      BY <2>1, <2>2, <2>5 DEF Tells, LeftAlone, Rewritten
    <3>2. QED
      BY <2>3, <2>4, <3>1, StillAssured
  <2>6. CASE call[a].mac = m
    <3>1. Tells(a, m)
      BY <2>1, <2>6 DEF Tells, Telling
    <3>2. call[a].id = sent[m].id
      BY <2>1, <3>1 DEF Assured, TellsRight, At
    <3>3. \A v \in Worker : ~Tells(v, m)'
      BY <2>1, <2>3, <2>4, <3>1, AloneWith
    <3>4. nodes'[m].nodeID = sent'[m].id
      BY <2>1, <2>2, <2>6, <3>2 DEF Rewritten
    <3>5. ToldOrTelling(m)' /\ TellsRight(m)'
      BY <3>3, <3>4 DEF Told, ToldOrTelling, TellsRight
    <3>6. QED
      BY <3>5 DEF Assured
  <2>7. QED
    BY <2>5, <2>6
<1>4. ASSUME NEW w \in Worker, ChooseFreeID(w) \/ DetectHotswap(w)
      PROVE  Assured(m)'
  <2>1. /\ call[w].at = "choose" /\ UNCHANGED <<nodes, sent>>
        /\ call[w] \in Call
    BY <1>4 DEF ChooseFreeID, DetectHotswap, At, TypeOK
  <2>2. /\ \A v \in Worker : v # w => Kept(v)
        /\ call'[w].at = "assign"
    <3>1. CASE ChooseFreeID(w)
      BY <2>1, <3>1 DEF ChooseFreeID, TypeOK, Call, Kept
    <3>2. ASSUME NEW c, call' = [call EXCEPT ![w] = c], c.at = "assign"
          PROVE  /\ \A v \in Worker : v # w => Kept(v)
                 /\ call'[w].at = "assign"
      BY <3>2 DEF TypeOK, Kept
    <3>3. CASE DetectHotswap(w)
      <4> DEFINE c == [call[w] EXCEPT !.at = "assign"]
      <4>1. c.at = "assign" /\ \A n : Inherit(call[w], n).at = "assign"
        BY <2>1 DEF Inherit, Call
      <4>2. \/ call' = [call EXCEPT ![w] = c]
            \/ \E n : call' = [call EXCEPT ![w] = Inherit(call[w], n)]
        BY <2>1, <3>3 DEF DetectHotswap, Goto, TypeOK
      <4>3. QED
        <5> HIDE DEF c
        <5> QED BY <3>2, <4>1, <4>2
    <3>4. QED
      BY <1>4, <3>1, <3>3
  <2>3. ~Tells(w, m) /\ ~Tells(w, m)' /\ LeftAlone(m)
    BY <2>1, <2>2 DEF Tells, Telling, LeftAlone
  <2>4. QED
    BY <2>2, <2>3, StillAssured
<1>5. ASSUME NEW w \in Worker, Assign(w)
      PROVE  Assured(m)'
  <2>1. /\ call[w].at = "assign" /\ call[w].mac \in Mac
        /\ call[w].id \in NodeID /\ UNCHANGED sent
    BY <1>5 DEF Assign, At, CallOK, TypeOK, Call
  <2>2. Rewritten(nodes, nodes', call[w].mac, call[w].id,
                  Entry(nodes, call[w].mac).status)
    BY <1>5, <2>1, AssignNodeEffect DEF Assign, TypeOK
  <2>3. /\ \A v \in Worker : v # w => Kept(v)
        /\ call'[w].at \in {"replace", "joinAck"}
        /\ call'[w].mac = call[w].mac /\ call'[w].id = call[w].id
    BY <1>5, <2>1 DEF Assign, Goto, TypeOK, Call, Kept
  <2>4. CASE call[w].mac # m
    <3>1. ~Tells(w, m) /\ ~Tells(w, m)' /\ LeftAlone(m)
      BY <2>1, <2>2, <2>3, <2>4 DEF Tells, LeftAlone, Rewritten
    <3>2. QED
      BY <2>3, <3>1, StillAssured
  <2>5. CASE call[w].mac = m
    <3>1. Tells(w, m)'
      BY <2>3, <2>5 DEF Tells, Telling
    <3>2. \A v \in Worker : v # w => ~Tells(v, m)'
      BY <2>3, <3>1, AloneWith
    <3>3. nodes'[m].nodeID = call'[w].id
      BY <2>2, <2>3, <2>5 DEF Rewritten
    <3>4. call'[w].id = 0 \/ call'[w].id > 0
      BY <2>1, <2>3, MaxNodeIDAssumption DEF NodeID
    <3>5. nodes'[m].nodeID \in {0, Promised(w)'}
      BY <3>3, <3>4 DEF Promised
    <3>6. TellsRight(m)'
      BY <2>3, <3>2, <3>5 DEF TellsRight, At
    <3>7. ToldOrTelling(m)'
      BY <2>3, <2>5 DEF ToldOrTelling
    <3>8. QED
      BY <3>6, <3>7 DEF Assured
  <2>6. QED
    BY <2>4, <2>5
<1>6. ASSUME NEW w \in Worker, Replace(w)
      PROVE  Assured(m)'
  <2>1. /\ call[w].at = "replace" /\ UNCHANGED sent
        /\ nodes' = MarkReplaced(nodes, call[w].old, call[w].mac)
    BY <1>6 DEF Replace, At
  <2>2. LeftAlone(m)
    <3>1. /\ DOMAIN nodes' = DOMAIN nodes
          /\ call[w].old \in DOMAIN nodes' => nodes'[call[w].old].nodeID = 0
          /\ \A n \in DOMAIN nodes' : n # call[w].old => nodes'[n] = nodes[n]
      BY <2>1, MarkReplacedEffect DEF TypeOK
    <3>2. QED
      BY <2>1, <3>1 DEF LeftAlone
  <2>3. /\ \A v \in Worker : v # w => Kept(v)
        /\ call'[w].at = "joinAck"
        /\ call'[w].mac = call[w].mac /\ call'[w].id = call[w].id
    BY <1>6 DEF Replace, Goto, TypeOK, Call, Kept
  <2>4. CASE call[w].mac # m
    <3>1. ~Tells(w, m) /\ ~Tells(w, m)'
      BY <2>3, <2>4 DEF Tells
    <3>2. QED
      BY <2>2, <2>3, <3>1, StillAssured
  <2>5. CASE call[w].mac = m
    <3>1. Tells(w, m)
      BY <2>1, <2>5 DEF Tells, Telling
    <3>2. \A v \in Worker : v # w => ~Tells(v, m)'
      BY <2>3, <3>1, AloneWith
    <3>3. m \in DOMAIN nodes => nodes[m].nodeID \in {0, Promised(w)}
      BY <2>1, <3>1 DEF Assured, TellsRight, At
    <3>4. Promised(w)' = Promised(w)
      BY <2>1, <2>3 DEF Promised
    <3>5. m \in DOMAIN nodes' => nodes'[m].nodeID \in {0, Promised(w)'}
      BY <2>2, <3>3, <3>4 DEF LeftAlone
    <3>6. TellsRight(m)'
      BY <2>3, <3>2, <3>5 DEF TellsRight, At
    <3>7. ToldOrTelling(m)'
      BY <2>3, <2>5 DEF ToldOrTelling
    <3>8. QED
      BY <3>6, <3>7 DEF Assured
  <2>6. QED
    BY <2>4, <2>5
<1>7. ASSUME NEW w \in Worker, SendJoinAck(w)
      PROVE  Assured(m)'
  <2>1. /\ call[w].at = "joinAck" /\ UNCHANGED nodes /\ call[w].mac \in Mac
        /\ call[w].id \in NodeID
    BY <1>7 DEF SendJoinAck, At, CallOK, TypeOK, Call
  <2>2. SentQuiet
    BY <1>7, AnswerOnly DEF SendJoinAck
  <2>3. LeftAlone(m)
    BY <2>1, <2>2 DEF LeftAlone, SentQuiet
  <2>4. /\ \A v \in Worker : v # w => Kept(v)
        /\ call'[w].at \in {"idSet", "configSet", "persist"}
        /\ call'[w].at = "idSet" <=> call[w].id > 0
        /\ call'[w].mac = call[w].mac /\ call'[w].id = call[w].id
    BY <1>7 DEF SendJoinAck, AfterIDSet, TypeOK, Call, Kept
  <2>5. CASE call[w].mac # m
    <3>1. ~Tells(w, m) /\ ~Tells(w, m)'
      BY <2>4, <2>5 DEF Tells
    <3>2. QED
      BY <2>3, <2>4, <3>1, StillAssured
  <2>6. CASE call[w].mac = m
    <3>1. Tells(w, m)
      BY <2>1, <2>6 DEF Tells, Telling
    <3>2. \A v \in Worker : v # w => ~Tells(v, m)'
      BY <2>4, <3>1, AloneWith
    <3>3. m \in DOMAIN nodes => nodes[m].nodeID \in {0, Promised(w)}
      BY <2>1, <3>1 DEF Assured, TellsRight, At
    <3>4. CASE call[w].id > 0
      <4>1. Promised(w)' = Promised(w)
        BY <2>4, <3>4 DEF Promised
      <4>2. m \in DOMAIN nodes' => nodes'[m].nodeID \in {0, Promised(w)'}
        BY <2>1, <3>3, <4>1
      <4>3. TellsRight(m)'
        BY <2>4, <3>2, <3>4, <4>2 DEF TellsRight, At
      <4>4. ToldOrTelling(m)'
        BY <2>4, <2>6, <3>4 DEF ToldOrTelling
      <4>5. QED
        BY <4>3, <4>4 DEF Assured
    <3>5. CASE ~ (call[w].id > 0)
      <4>1. Promised(w) = sent'[m].id
        BY <2>1, <2>3, <2>6, <3>5 DEF Promised, LeftAlone
      <4>2. Told(m)'
        BY <2>1, <3>3, <4>1 DEF Told
      <4>3. ~Tells(w, m)'
        BY <2>4, <3>5 DEF Tells, Telling
      <4>4. TellsRight(m)'
        BY <3>2, <4>3 DEF TellsRight
      <4>5. QED
        BY <4>2, <4>4 DEF Assured, ToldOrTelling
    <3>6. QED
      BY <3>4, <3>5
  <2>7. QED
    BY <2>5, <2>6
<1>8. ASSUME NEW w \in Worker, SendNodeIDSet(w)
      PROVE  Assured(m)'
  <2>1. call[w].at = "idSet" /\ UNCHANGED nodes /\ call[w].mac \in Mac
    BY <1>8 DEF SendNodeIDSet, At, CallOK
  <2>2. \/ sent' = [sent EXCEPT ![call[w].mac]["id"] = call[w].id]
        \/ UNCHANGED sent
    BY <1>8 DEF SendNodeIDSet, Send
  <2>3. /\ \A v \in Worker : v # w => Kept(v)
        /\ call'[w].at \in {"configSet", "persist"}
    BY <1>8 DEF SendNodeIDSet, Goto, AfterIDSet, TypeOK, Call, Kept
  <2>4. ~Tells(w, m)'
    BY <2>3 DEF Tells, Telling
  <2>5. CASE call[w].mac # m
    <3>1. ~Tells(w, m)
      BY <2>5 DEF Tells
    <3>2. LeftAlone(m)
      BY <2>1, <2>2, <2>5 DEF LeftAlone, TypeOK
    <3>3. QED
      BY <2>3, <2>4, <3>1, <3>2, StillAssured
  <2>6. CASE call[w].mac = m
    <3>1. Tells(w, m)
      BY <2>1, <2>6 DEF Tells, Telling
    <3>2. \A v \in Worker : ~Tells(v, m)'
      BY <2>3, <2>4, <3>1, AloneWith
    <3>3. m \in DOMAIN nodes => nodes[m].nodeID \in {0, call[w].id}
      BY <2>1, <3>1 DEF Assured, TellsRight, At, Promised
    <3>4. sent'[m].id = call[w].id
      BY <2>1, <2>3, <2>6 DEF IDLost, At
    <3>5. Told(m)' /\ TellsRight(m)'
      BY <2>1, <3>2, <3>3, <3>4 DEF Told, TellsRight
    <3>6. QED
      BY <3>5 DEF Assured, ToldOrTelling
  <2>7. QED
    BY <2>5, <2>6
<1>9. QED
  BY <1>1, <1>2, <1>3, <1>4, <1>5, <1>6, <1>7, <1>8, Sorted DEF NextAction

LEMMA InitToldInv == IdentityInit => ToldInv
<1> SUFFICES ASSUME IdentityInit PROVE ToldInv
  OBVIOUS
<1>1. ASSUME NEW m \in Mac
      PROVE  Told(m) /\ \A w \in Worker : ~Tells(w, m)
  BY DEF IdentityInit, Init, Idle, EmptyMap, Told, Tells, Telling
<1>2. QED
  BY <1>1, InitTInv
  DEF ToldInv, IdentityInit, Assured, ToldOrTelling, TellsRight, Crowded

LEMMA NextToldInv == ToldInv /\ [IdentityNext]_identityVars => ToldInv'
<1> SUFFICES ASSUME ToldInv, [IdentityNext]_identityVars
             PROVE  ToldInv'
  OBVIOUS
<1>1. CASE IdentityNext
  <2>1. TInv'
    BY <1>1, NextTInv DEF ToldInv, IdentityNext
  <2>2. ASSUME NEW m \in Mac, m \notin unsettled'
        PROVE  (~Crowded(m) /\ Assured(m))'
    <3>1. /\ ~Crowded(m)' /\ ~IDLost(m)
          /\ m \in unsettled => Told(m)' /\ \A w \in Worker : ~Tells(w, m)'
      BY <1>1, <2>2 DEF IdentityNext, Account
    <3>2. CASE m \in unsettled
      <4>1. ToldOrTelling(m)' /\ TellsRight(m)'
        BY <3>1, <3>2 DEF ToldOrTelling, TellsRight
      <4>2. QED
        BY <3>1, <4>1 DEF Assured
    <3>3. CASE m \notin unsettled
      <4>1. ~Crowded(m) /\ Assured(m)
        BY <3>3 DEF ToldInv
      <4>2. Assured(m)'
        BY <1>1, <2>1, <3>1, <4>1, NextAssured DEF ToldInv, IdentityNext
      <4>3. QED
        BY <3>1, <4>2
    <3>4. QED
      BY <3>2, <3>3
  <2>3. QED
    BY <2>1, <2>2 DEF ToldInv
<1>2. CASE UNCHANGED identityVars
  <2>1. TInv' /\ UNCHANGED <<nodes, sent, call, unsettled>>
    BY <1>2, NextTInv DEF ToldInv, identityVars, vars
  <2>2. QED
    BY <2>1 DEF ToldInv, Crowded, Tells, Assured, ToldOrTelling, TellsRight, Told,
                Promised, At
<1>3. QED
  BY <1>1, <1>2

\* The ID the registry holds for a device is the one in the last OP_NODE_ID_SET the device
\* was sent, or about to be sent; unless two handlers told the device at once or that frame
\* was lost, and then until the device is told again.
THEOREM ToldItsID == IdentitySpec => []DeviceToldItsID
<1>1. ToldInv => DeviceToldItsID
  BY DEF ToldInv, DeviceToldItsID, Assured, ToldOrTelling
<1>2. QED
  BY InitToldInv, NextToldInv, <1>1, PTL DEF IdentitySpec

=============================================================================
