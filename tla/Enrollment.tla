----------------------------- MODULE Enrollment -----------------------------
(***************************************************************************)
(* How devices join the mesh.  A device asks (JOIN_REQUEST on a serial     *)
(* link), an administrator decides (HTTP), and the hub answers on the      *)
(* wire, writing two registries and one file on the way.                   *)
(*                                                                         *)
(* Every handler runs on a goroutine of its own: one message processor per *)
(* serial link, one goroutine per HTTP request.  No lock spans a handler:  *)
(* each registry call locks for itself, so a handler is cut into one step  *)
(* per registry call, per frame written and per file written, and the      *)
(* steps of different handlers interleave.  call[w] is what the goroutine  *)
(* w carries from one step to the next.                                    *)
(***************************************************************************)
EXTENDS NodeRegistry

CONSTANTS
  Key,          \* public keys the devices present
  Link,         \* message processors: one per serial link, one or two
  Admin,        \* HTTP requests that can be in flight at once
  TypeAsked,    \* what administrators may say of the adapter type, see TypeGiven
  WriteMayFail, \* whether a frame written to a serial link may be lost
  SaveMayFail   \* whether writing the trust registry's file may fail

ASSUME WorkerAssumption == Link \cap Admin = {}

Auth == INSTANCE AuthRegistry

Worker == Link \cup Admin

VARIABLES
  auth,      \* nodeauth registry, in memory
  authFile,  \* nodeauth registry, as last written to its file
  nodes,     \* node registry
  sent,      \* the answer and the node ID each device was last sent
  call,      \* the handler each goroutine is running, and its local variables
  granted,   \* history: <<MAC, key>> pairs an administrator has ever approved
  unsaved    \* history: devices the last saves failed for

vars == <<auth, authFile, nodes, sent, call, granted, unsaved>>

\* Answers to a join request: an accepting JOIN_ACK carries the fingerprint of
\* the node's key, a rejecting one carries no key.
Answer == Key \cup {"none", "rejected"}

Step == { "idle", "resend", "approve", "choose", "assign", "replace",
          "joinAck", "idSet", "configSet", "rejectAck", "persist",
          "configure", "update", "remove" }

\* What the caller says of the adapter type: nothing, a type to announce, or
\* one that the HTTP handler also configures the node for afterwards.
TypeGiven == {"none", "named", "configured"}

ASSUME TypeAssumption == TypeAsked \subseteq TypeGiven

Call ==
  [ at        : Step,
    mac       : Mac \cup {NoMac},
    id        : NodeID,                          \* nodeId
    name      : Name \cup {EmptyName} \cup Mac,  \* params.Name
    zone      : Zone \cup {EmptyZone},           \* params.Zone
    type      : TypeGiven,                       \* params.AdapterTypeStr
    old       : Mac \cup {NoMac},                \* hotswapOldMAC
    inherits  : BOOLEAN,                         \* inheritedAdapterType is known
    key       : Key \cup {"live"} ]              \* *node, see SendJoinAck

Idle ==
  [ at |-> "idle", mac |-> NoMac, id |-> 0, name |-> EmptyName,
    zone |-> EmptyZone, type |-> "none", old |-> NoMac, inherits |-> FALSE,
    key |-> "live" ]

TypeOK ==
  /\ Auth!IsAuthRegistry(auth)
  /\ Auth!IsAuthRegistry(authFile)
  /\ IsNodeRegistry(nodes)
  /\ sent \in [Mac -> [answer : Answer, id : NodeID]]
  /\ call \in [Worker -> Call]
  /\ granted \subseteq Mac \X Key
  /\ unsaved \subseteq Mac

\* The hub starts on empty or missing files.
Init ==
  /\ auth = EmptyMap
  /\ authFile = EmptyMap
  /\ nodes = EmptyMap
  /\ sent = [m \in Mac |-> [answer |-> "none", id |-> 0]]
  /\ call = [w \in Worker |-> Idle]
  /\ granted = {}
  /\ unsaved = {}

-----------------------------------------------------------------------------

At(w, step) == call[w].at = step

Goto(w, step) == call' = [call EXCEPT ![w].at = step]

\* Write a frame to the link; a write error is logged and forgotten.
Send(m, field, value) ==
  \/ sent' = [sent EXCEPT ![m][field] = value]
  \/ WriteMayFail /\ UNCHANGED sent

-----------------------------------------------------------------------------
(* Requests that devices make, on the message processor of a link.         *)

\* An approval in flight holds a pointer to the entry AddPending replaces: from
\* now on it reads the key of the entry that is no longer in the registry.
Orphan(c, m) ==
  IF c.mac = m /\ c.at \in {"choose", "assign", "replace", "joinAck"}
     /\ c.key = "live" /\ ~Auth!KeepsObject(auth, m)
  THEN [c EXCEPT !.key = auth[m].publicKey]
  ELSE c

\* handleEnrollmentRequest, up to and including AddPending.
JoinRequest(l, m, k) ==
  /\ At(l, "idle")
  /\ IF Auth!ApprovedSameKey(auth, m, k)
     THEN /\ call' = [call EXCEPT ![l] = [Idle EXCEPT !.at = "resend", !.mac = m]]
          /\ UNCHANGED auth
     ELSE /\ auth' = Auth!AddPending(auth, m, k)
          /\ call' = [w \in Worker |->
                        IF w = l THEN [Idle EXCEPT !.at = "persist", !.mac = m]
                                 ELSE Orphan(call[w], m)]
  /\ UNCHANGED <<authFile, unsaved, nodes, sent, granted>>

\* Mutant: a device that has an identity is not answered again.
ResendJoinAckOnce(l) ==
  /\ At(l, "resend")
  /\ call' = [call EXCEPT ![l] =
                IF @.mac \in DOMAIN nodes THEN Idle ELSE [@ EXCEPT !.at = "approve"]]
  /\ UNCHANGED <<auth, authFile, unsaved, nodes, sent, granted>>

\* resendJoinAck: look up the identity the device already has.
ResendJoinAck(l) ==
  /\ At(l, "resend")
  /\ LET m == call[l].mac IN
     call' = [call EXCEPT ![l] =
                IF m \in DOMAIN nodes
                THEN [@ EXCEPT !.at = "approve", !.id = nodes[m].nodeID,
                               !.name = nodes[m].name, !.zone = nodes[m].zone,
                               !.type = "named"]
                ELSE [@ EXCEPT !.at = "approve"]]
  /\ UNCHANGED <<auth, authFile, unsaved, nodes, sent, granted>>

\* A health report reaches the node registry.
HealthReport(l, m, type) ==
  /\ At(l, "idle")
  /\ nodes' = UpdateNode(nodes, m, type, 0)
  /\ UNCHANGED <<auth, authFile, unsaved, sent, call, granted>>

-----------------------------------------------------------------------------
(* ApproveEnrollment, for an administrator or for resendJoinAck.           *)

\* The administrator's call: an unknown MAC is an error and changes nothing.
ApproveRequest(a, m, id, name, zone, type) ==
  /\ At(a, "idle")
  /\ m \in DOMAIN auth
  /\ auth' = Auth!Approve(auth, m)
  /\ granted' = granted \cup {<<m, auth[m].publicKey>>}
  /\ call' = [call EXCEPT ![a] =
                [Idle EXCEPT !.at = "choose", !.mac = m, !.id = id,
                             !.name = name, !.zone = zone, !.type = type]]
  /\ UNCHANGED <<authFile, unsaved, nodes, sent>>

\* The call made by resendJoinAck: the same method, no administrator.
ApproveAgain(l) ==
  /\ At(l, "approve")
  /\ auth' = Auth!Approve(auth, call[l].mac)
  /\ Goto(l, "choose")
  /\ UNCHANGED <<authFile, unsaved, nodes, sent, granted>>

\* No ID named: the lowest free one, or 0 when every ID is used.
ChooseFreeID(w) ==
  /\ At(w, "choose")
  /\ call[w].id = 0
  /\ call' = [call EXCEPT ![w].at = "assign", ![w].id = NextFreeNodeID(nodes)]
  /\ UNCHANGED <<auth, authFile, unsaved, nodes, sent, granted>>

\* An ID named, and another node owns it: that node is to be replaced, and what
\* the parameters leave open is inherited from it.
Inherit(c, m) ==
  [c EXCEPT !.at = "assign", !.old = m,
            !.name = IF @ = EmptyName THEN nodes[m].name ELSE @,
            !.zone = IF @ = EmptyZone THEN nodes[m].zone ELSE @,
            !.inherits = /\ c.type = "none"
                          /\ nodes[m].adapterType # AdapterTypeUnknown]

DetectHotswap(w) ==
  /\ At(w, "choose")
  /\ call[w].id > 0
  /\ \/ \E m \in HoldersOf(nodes, call[w].id) :
          call' = [call EXCEPT ![w] =
                     IF m = call[w].mac THEN [@ EXCEPT !.at = "assign"]
                                        ELSE Inherit(@, m)]
     \/ /\ HoldersOf(nodes, call[w].id) = {}
        /\ Goto(w, "assign")
  /\ UNCHANGED <<auth, authFile, unsaved, nodes, sent, granted>>

Assign(w) ==
  /\ At(w, "assign")
  /\ nodes' = AssignNode(nodes, call[w].mac, call[w].id,
                         call[w].name, call[w].zone)
  /\ Goto(w, IF call[w].old # NoMac THEN "replace" ELSE "joinAck")
  /\ UNCHANGED <<auth, authFile, unsaved, sent, granted>>

Replace(w) ==
  /\ At(w, "replace")
  /\ nodes' = MarkReplaced(nodes, call[w].old, call[w].mac)
  /\ Goto(w, "joinAck")
  /\ UNCHANGED <<auth, authFile, unsaved, sent, granted>>

\* The key is read here, without the lock, through the pointer Approve returned.
AckKey(w) ==
  IF call[w].key = "live" THEN auth[call[w].mac].publicKey ELSE call[w].key

AfterIDSet(w) == IF call[w].inherits THEN "configSet" ELSE "persist"

\* Mutant: the first ID is taken for none.
SendJoinAckSkipsFirstID(w) ==
  /\ At(w, "joinAck")
  /\ Send(call[w].mac, "answer", AckKey(w))
  /\ call' = [call EXCEPT ![w].at = IF call[w].id > 1 THEN "idSet"
                                                      ELSE AfterIDSet(w),
                          ![w].key = "live"]
  /\ UNCHANGED <<auth, authFile, unsaved, nodes, granted>>

SendJoinAck(w) ==
  /\ At(w, "joinAck")
  /\ Send(call[w].mac, "answer", AckKey(w))
  /\ call' = [call EXCEPT ![w].at = IF call[w].id > 0 THEN "idSet"
                                                      ELSE AfterIDSet(w),
                          ![w].key = "live"]
  /\ UNCHANGED <<auth, authFile, unsaved, nodes, granted>>

SendNodeIDSet(w) ==
  /\ At(w, "idSet")
  /\ Send(call[w].mac, "id", call[w].id)
  /\ Goto(w, AfterIDSet(w))
  /\ UNCHANGED <<auth, authFile, unsaved, nodes, granted>>

\* The types that frames carry decide nothing here: only that one is sent.
SendConfigSet(w) ==
  /\ At(w, "configSet")
  /\ Goto(w, "persist")
  /\ UNCHANGED <<auth, authFile, unsaved, nodes, sent, granted>>

\* Registry.Persist writes the file while it holds the read lock.
Save == authFile' = auth /\ unsaved' = {}

\* What the memory knows of a device is not what the file says.
Differs(m) == m \in DOMAIN auth /\ ~ (m \in DOMAIN authFile /\ authFile[m] = auth[m])

\* It fails: the file is as it was, or, if it could be opened, truncated and of no
\* use to Load.  M: the devices whose save this was.
SaveFails(M) ==
  /\ SaveMayFail
  /\ \/ UNCHANGED authFile /\ unsaved' = unsaved \cup {m \in M : Differs(m)}
     \/ authFile' = EmptyMap /\ unsaved' = DOMAIN auth

Persist(w) ==
  /\ At(w, "persist")
  /\ Save
  /\ call' = [call EXCEPT ![w] =
                IF @.type = "configured" THEN [@ EXCEPT !.at = "configure"]
                                         ELSE Idle]
  /\ UNCHANGED <<auth, nodes, sent, granted>>

\* The error is the request's answer: nothing is configured any more.  On a link it
\* is logged.
PersistFails(w) ==
  /\ At(w, "persist")
  /\ SaveFails({call[w].mac})
  /\ call' = [call EXCEPT ![w] = Idle]
  /\ UNCHANGED <<auth, nodes, sent, granted>>

\* ConfigureNode, after an approval or an update that names a type.
Configure(a) ==
  /\ At(a, "configure")
  /\ call' = [call EXCEPT ![a] = Idle]
  /\ UNCHANGED <<auth, authFile, unsaved, nodes, sent, granted>>

-----------------------------------------------------------------------------
(* The administrator's other requests.                                     *)

RejectRequest(a, m) ==
  /\ At(a, "idle")
  /\ m \in DOMAIN auth
  /\ auth' = Auth!Reject(auth, m)
  /\ call' = [call EXCEPT ![a] = [Idle EXCEPT !.at = "rejectAck", !.mac = m]]
  /\ UNCHANGED <<authFile, unsaved, nodes, sent, granted>>

\* Mutant: RejectEnrollment returns without saving the registry.
SendRejectionUnsaved(a) ==
  /\ At(a, "rejectAck")
  /\ Send(call[a].mac, "answer", "rejected")
  /\ call' = [call EXCEPT ![a] = Idle]
  /\ UNCHANGED <<auth, authFile, unsaved, nodes, granted>>

SendRejection(a) ==
  /\ At(a, "rejectAck")
  /\ Send(call[a].mac, "answer", "rejected")
  /\ Goto(a, "persist")
  /\ UNCHANGED <<auth, authFile, unsaved, nodes, granted>>

\* PATCH /nodes/{id}: read the node, ...  A field the body leaves out is taken
\* from the copy just read.
UpdateRequest(a, id, type) ==
  /\ At(a, "idle")
  /\ \E m \in HoldersOf(nodes, id) :
       \E name \in Name \cup {EmptyName, nodes[m].name},
          zone \in Zone \cup {EmptyZone, nodes[m].zone} :
         call' = [call EXCEPT ![a] =
                    [Idle EXCEPT !.at = "update", !.mac = m, !.id = id,
                                 !.name = name, !.zone = zone, !.type = type]]
  /\ UNCHANGED <<auth, authFile, unsaved, nodes, sent, granted>>

\* ... then write it back.
Update(a) ==
  /\ At(a, "update")
  /\ nodes' = AssignNode(nodes, call[a].mac, call[a].id,
                         call[a].name, call[a].zone)
  /\ call' = [call EXCEPT ![a] =
                IF @.type = "configured" THEN [@ EXCEPT !.at = "configure"]
                                         ELSE Idle]
  /\ UNCHANGED <<auth, authFile, unsaved, sent, granted>>

\* DELETE /nodes/{id}: read the node, ...
DeleteRequest(a, id) ==
  /\ At(a, "idle")
  /\ \E m \in HoldersOf(nodes, id) :
       call' = [call EXCEPT ![a] = [Idle EXCEPT !.at = "remove", !.mac = m]]
  /\ UNCHANGED <<auth, authFile, unsaved, nodes, sent, granted>>

\* ... then remove its MAC from the node registry, and from nothing else.
Remove(a) ==
  /\ At(a, "remove")
  /\ nodes' = RemoveNode(nodes, call[a].mac)
  /\ call' = [call EXCEPT ![a] = Idle]
  /\ UNCHANGED <<auth, authFile, unsaved, sent, granted>>

\* One tick of the registry's PersistLoop, which saves changed or not and logs errors.
PersistTick ==
  /\ Save \/ SaveFails({})
  /\ UNCHANGED <<auth, nodes, sent, call, granted>>

-----------------------------------------------------------------------------

LinkStep(l) ==
  \/ \E m \in Mac, k \in Key : JoinRequest(l, m, k)
  \/ \E m \in Mac, type \in AdapterType : HealthReport(l, m, type)
  \/ ResendJoinAck(l)
  \/ ApproveAgain(l)

AdminStep(a) ==
  \/ \E m \in Mac, id \in NodeID, name \in Name \cup {EmptyName},
        zone \in Zone \cup {EmptyZone}, type \in TypeAsked :
       ApproveRequest(a, m, id, name, zone, type)
  \/ \E m \in Mac : RejectRequest(a, m)
  \/ \E id \in NodeID \ {0}, type \in TypeAsked \ {"named"} : UpdateRequest(a, id, type)
  \/ \E id \in NodeID \ {0} : DeleteRequest(a, id)
  \/ SendRejection(a)
  \/ Configure(a)
  \/ Update(a)
  \/ Remove(a)

ApproveStep(w) ==
  \/ ChooseFreeID(w)
  \/ DetectHotswap(w)
  \/ Assign(w)
  \/ Replace(w)
  \/ SendJoinAck(w)
  \/ SendNodeIDSet(w)
  \/ SendConfigSet(w)
  \/ Persist(w)
  \/ PersistFails(w)

Next ==
  \/ \E l \in Link : LinkStep(l)
  \/ \E a \in Admin : AdminStep(a)
  \/ \E w \in Worker : ApproveStep(w)
  \/ PersistTick

Spec == Init /\ [][Next]_vars

-----------------------------------------------------------------------------
(* A handler that has begun runs to its end: nothing it calls waits for    *)
(* another handler.  Of that, only what the links' goroutines do is asked  *)
(* for.  Devices and administrators may stop asking.  A serial link loses  *)
(* frames, but not all of them for ever.                                   *)

Deliver(w) == SendJoinAck(w) /\ sent'[call[w].mac].answer = AckKey(w)

Fairness ==
  \A l \in Link : /\ WF_vars(ResendJoinAck(l) \/ ApproveAgain(l) \/ ApproveStep(l))
                  /\ SF_vars(Deliver(l))

FairSpec == Spec /\ Fairness

-----------------------------------------------------------------------------
(* Safety.                                                                 *)

\* An approved entry carries a key that an administrator approved for that
\* MAC: self-healing resends never extend trust to a key nobody decided on.  A
\* rejection takes nothing out of granted: a key approved once, rejected, and approved
\* again by a resend that overlaps the rejection is not this property's subject.
ApprovedKeyWasGranted ==
  \A m \in DOMAIN auth :
    Auth!IsApproved(auth, m) => <<m, auth[m].publicKey>> \in granted

\* Whatever the memory knows about a device and the file does not is still owed
\* by a handler, or the save that was to write it failed and none has succeeded since:
\* no request is answered before its decision is on disk, and no concurrent save
\* writes an older registry over a newer one.
AuthFileOwed ==
  \A m \in DOMAIN auth :
    \/ m \in DOMAIN authFile /\ authFile[m] = auth[m]
    \/ m \in unsaved
    \/ \E w \in Worker :
         /\ call[w].mac = m
         /\ call[w].at \in {"choose", "assign", "replace", "joinAck", "idSet",
                            "configSet", "rejectAck", "persist"}

-----------------------------------------------------------------------------
(* Liveness.                                                               *)

\* The device keeps asking, as the firmware does until it has its JOIN_ACK.
Asks(m, k) == []<><<\E l \in Link : JoinRequest(l, m, k)>>_vars

\* Self-healing (#178): an approved device that lost its JOIN_ACK, or whose last
\* answer was a rejection since overruled, and that goes on asking with the
\* approved key, gets an accepting answer again, however many frames are lost.
LostAckHealed ==
  \A m \in Mac, k \in Key :
    <>[]Auth!ApprovedSameKey(auth, m, k) /\ Asks(m, k) => []<>(sent[m].answer = k)

=============================================================================
