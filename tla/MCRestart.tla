----------------------------- MODULE MCRestart ------------------------------
(***************************************************************************)
(* A small instance of Restart for TLC.                                    *)
(***************************************************************************)
EXTENDS Restart, TLC

\* What a handler has yet to read of its local variables.
CallView(c) ==
  << c.at, c.mac, c.key,
     IF c.at \in {"configSet", "persist"} THEN 0 ELSE c.id,
     IF c.at \in {"assign", "replace"} THEN c.old ELSE NoMac,
     c.at \in {"approve", "choose"} /\ c.type = "none",
     c.type = "configured" >>

\* States that agree on this count as one: nobody reads the names, the IDs that were sent
\* or, after the last crash, the node registry's file.
RestartView ==
  << auth, authFile, unsaved, granted, crashes,
     [m \in DOMAIN nodes |-> <<nodes[m].nodeID, nodes[m].status>>],
     [m \in Mac |-> sent[m].answer],
     [w \in Worker |-> CallView(call[w])],
     [m \in IF crashes < MaxCrashes THEN DOMAIN nodesFile ELSE {} |->
        <<nodesFile[m].nodeID, nodesFile[m].status>>] >>

=============================================================================
