---------------------------- MODULE MCIdentity ----------------------------
(***************************************************************************)
(* A small instance of Identity for TLC.  States that agree on what        *)
(* decides about identities count as one: nobody who settles an identity   *)
(* reads the file, the answers sent, the names or what was granted.        *)
(***************************************************************************)
EXTENDS Identity

\* Where a handler has no identity to settle any more.
Done == {"configSet", "rejectAck", "persist", "configure"}

\* What it has yet to read of its local variables.
HandlerView(c) ==
  << c.at,
     IF c.at \in Done THEN 0 ELSE c.id,
     c.at \notin Done /\ c.inherits,
     c.at \in {"approve", "choose"} /\ c.type = "none",
     c.type = "configured" >>

Names(c, m) == c.at \notin Done /\ c.mac = m

Replaces(c, m) == c.at \in {"assign", "replace"} /\ c.old = m

\* What is known of the device m, and which handlers are at it.
DeviceView(m) ==
  << m \in DOMAIN auth, Auth!IsApproved(auth, m), sent[m].id, m \in unsettled,
     IF m \in DOMAIN nodes
     THEN <<nodes[m].nodeID, nodes[m].status, nodes[m].adapterType>> ELSE <<>>,
     {w \in Worker : Names(call[w], m)}, {w \in Worker : Replaces(call[w], m)} >>

\* A set: the devices are interchangeable, and there are two.
IdentityView ==
  <<{DeviceView(m) : m \in Mac}, [w \in Worker |-> HandlerView(call[w])], disputed>>

=============================================================================
