------------------------------ MODULE Identity ------------------------------
(***************************************************************************)
(* Who owns which logical ID.  ApproveEnrollment and PATCH look an ID or a *)
(* node up in one step and write it in a later one, with no lock in        *)
(* between, and a frame that sets a device's ID may be lost.  Two history  *)
(* variables keep the IDs and the devices for which that went wrong, so    *)
(* that the properties can say that it goes wrong in no other way.         *)
(***************************************************************************)
EXTENDS Enrollment

VARIABLES
  disputed,  \* history: IDs that two handlers had in hand at once
  unsettled  \* history: devices that two handlers had in hand, or whose ID was lost

identityVars == <<vars, disputed, unsettled>>

IdentityInit == Init /\ disputed = {} /\ unsettled = {}

-----------------------------------------------------------------------------

\* From looking an ID up until it is written and taken from its former owner.
Settling == {"assign", "replace", "update"}

\* Where a handler is to tell a device its ID, or counts on the device knowing it.
Telling == {"replace", "joinAck", "idSet", "update"}

Settles(w, i) == call[w].at \in Settling /\ call[w].id = i

Tells(w, m) == call[w].at \in Telling /\ call[w].mac = m

\* Two handlers at once settle the ID i, or tell the device m.
Contested(i) == \E v \in Worker : Settles(v, i) /\ \E w \in Worker \ {v} : Settles(w, i)

Crowded(m) == \E v \in Worker : Tells(v, m) /\ \E w \in Worker \ {v} : Tells(w, m)

\* Two active nodes have the ID i.
Shared(i) == \E m \in HoldersOf(nodes, i) : HoldersOf(nodes, i) # {m}

\* The device m was told the ID the registry has for it, if it has one.
Told(m) == m \in DOMAIN nodes => nodes[m].nodeID \in {0, sent[m].id}

\* SendNodeIDSet is done, and the device m does not know its ID.
IDLost(m) ==
  \E w \in Worker : /\ At(w, "idSet") /\ ~At(w, "idSet")'
                    /\ call[w].mac = m /\ sent'[m].id # call[w].id

\* A dispute lasts as long as a handler settles the ID or two nodes share it.  A device is
\* unsettled until no handler tells it anything any more and it knows its ID.
Account ==
  /\ disputed' = {i \in 1 .. MaxNodeID :
                    \/ Contested(i)'
                    \/ i \in disputed /\ (Shared(i)' \/ \E w \in Worker : Settles(w, i)')}
  /\ unsettled' = {m \in Mac :
                     \/ Crowded(m)'
                     \/ IDLost(m)
                     \/ m \in unsettled /\ (~Told(m)' \/ \E w \in Worker : Tells(w, m)')}

IdentityNext == Next /\ Account

IdentitySpec == IdentityInit /\ [][IdentityNext]_identityVars

-----------------------------------------------------------------------------

\* The hotswap whose second half is still to come: n has m's ID i, and so has m.
Swapping(m, n, i) ==
  \E w \in Worker : /\ At(w, "replace") /\ call[w].id = i
                    /\ call[w].old = m /\ call[w].mac = n

\* ApproveEnrollment marks the old node replaced to ensure "GetNodeByID uniqueness".  Two
\* active nodes share an ID only while one replaces the other, or after two handlers had
\* looked the ID up before either was done with it: not after any other overlap of
\* approvals, resends, updates, deletions and rejections.
UniqueActiveIDs ==
  \A i \in (1 .. MaxNodeID) \ disputed : \A m, n \in HoldersOf(nodes, i) :
    m = n \/ Swapping(m, n, i) \/ Swapping(n, m, i)

\* ApproveEnrollment and PATCH: the ID that the registry has for a device is the one the
\* device was last sent, or a handler is about to send it; except after two handlers told
\* the device at once, or its OP_NODE_ID_SET was lost, until that is made good.
DeviceToldItsID ==
  \A m \in Mac \ unsettled :
    Told(m) \/ \E w \in Worker :
                 call[w].mac = m /\ call[w].at \in {"replace", "joinAck", "idSet"}

=============================================================================
