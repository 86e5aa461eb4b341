---------------------------- MODULE NodeRegistry ----------------------------
(***************************************************************************)
(* The registry of mesh nodes (mesh/node_registry.go): what the hub knows  *)
(* of every device it heard of, keyed by MAC.  Each operator is one        *)
(* method, one critical section of the registry's lock.  Uptime, hop count *)
(* and the full relay path are shown to clients but decide nothing, and    *)
(* are left out.                                                           *)
(***************************************************************************)
EXTENDS GoMap, Naturals

CONSTANTS
  Mac, NoMac,          \* hardware addresses; NoMac: no address
  MaxNodeID,           \* the last logical ID, 255 in the code
  AdapterType,         \* the adapter types a node may report
  AdapterTypeUnknown,  \* its zero value
  Name, EmptyName,     \* names an administrator may give; EmptyName: ""
  Zone, EmptyZone      \* zones an administrator may give; EmptyZone: ""

ASSUME MaxNodeIDAssumption == MaxNodeID \in Nat \ {0}
ASSUME NoMacAssumption == NoMac \notin Mac

\* 0 is "no ID assigned".
NodeID == 0 .. MaxNodeID

NodeInfo ==
  [ adapterType : AdapterType \cup {AdapterTypeUnknown},
    lastSeen    : Nat,
    nodeID      : NodeID,
    name        : Name \cup {EmptyName} \cup Mac,
    zone        : Zone \cup {EmptyZone},
    status      : {"active", "replaced"},
    replacedBy  : Mac \cup {NoMac},
    parentID    : NodeID ]

IsNodeRegistry(nodes) ==
  /\ DOMAIN nodes \subseteq Mac
  /\ nodes \in [DOMAIN nodes -> NodeInfo]

\* The entry created by the first report, assignment or route of a MAC.
NewNode ==
  [ adapterType |-> AdapterTypeUnknown, lastSeen |-> 0, nodeID |-> 0,
    name |-> EmptyName, zone |-> EmptyZone, status |-> "active",
    replacedBy |-> NoMac, parentID |-> 0 ]

Entry(nodes, m) == IF m \in DOMAIN nodes THEN nodes[m] ELSE NewNode

\* A health report: identity fields are sticky, only AssignNode sets them.
UpdateNode(nodes, m, type, now) ==
  Put(nodes, m,
      [Entry(nodes, m) EXCEPT !.adapterType = type, !.lastSeen = now])

\* An empty name is stored as the MAC.  The status is left as it was.
AssignNode(nodes, m, id, name, zone) ==
  Put(nodes, m,
      [Entry(nodes, m) EXCEPT
         !.nodeID = id,
         !.name   = IF name = EmptyName THEN m ELSE name,
         !.zone   = zone])

UsedNodeIDs(nodes) == {nodes[m].nodeID : m \in DOMAIN nodes}

FreeNodeIDs(nodes) == (1 .. MaxNodeID) \ UsedNodeIDs(nodes)

\* Mutant: the search does not stop at the last ID.
NextFreeNodeIDUnbounded(nodes) ==
  IF FreeNodeIDs(nodes) = {}
  THEN MaxNodeID + 1
  ELSE CHOOSE id \in FreeNodeIDs(nodes) :
         \A other \in FreeNodeIDs(nodes) : id <= other

\* The lowest ID that no entry holds, replaced entries included; 0 when full.
NextFreeNodeID(nodes) ==
  IF FreeNodeIDs(nodes) = {}
  THEN 0
  ELSE CHOOSE id \in FreeNodeIDs(nodes) :
         \A other \in FreeNodeIDs(nodes) : id <= other

Active(nodes, m) == m \in DOMAIN nodes /\ nodes[m].status # "replaced"

\* GetNodeByID returns the first match in map order: any member of this set.
HoldersOf(nodes, id) ==
  {m \in DOMAIN nodes : nodes[m].nodeID = id /\ nodes[m].status # "replaced"}

RemoveNode(nodes, m) == Delete(nodes, m)

\* Mutant: the replaced entry keeps its ID and its status.
MarkReplacedByOnly(nodes, m, by) ==
  IF m \in DOMAIN nodes THEN [nodes EXCEPT ![m].replacedBy = by] ELSE nodes

\* The entry stays for audit; a MAC that is gone is left alone.
MarkReplaced(nodes, m, by) ==
  IF m \in DOMAIN nodes
  THEN [nodes EXCEPT ![m].status = "replaced",
                     ![m].replacedBy = by,
                     ![m].nodeID = 0]
  ELSE nodes

=============================================================================
