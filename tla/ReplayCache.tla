----------------------------- MODULE ReplayCache -----------------------------
(***************************************************************************)
(* The replay cache of package nodeauth (nodeauth/replay.go): one ring of  *)
(* slots per device, made when the device is first heard of, overwritten   *)
(* in turn.  IsDuplicate runs under the cache's lock, so it is one step.   *)
(* A slot that was never written holds the pair of two zeros, as a slot    *)
(* does into which that very pair was written.                             *)
(***************************************************************************)
EXTENDS GoMap, Naturals, Sequences

CONSTANTS
  Mac,   \* the devices
  Pair,  \* <<epoch, seq>>
  Zero,  \* <<0, 0>>
  Size   \* slots of a ring, 32 in the code

ASSUME SizeAssumption == Size \in Nat \ {0}
ASSUME ZeroAssumption == Zero \in Pair

VARIABLES
  rings,  \* rc.nodes: the ring of every device heard of
  answer  \* history: the last call and its result

vars == <<rings, answer>>

Slot == 0 .. Size - 1

NodeBuf == [buf : [Slot -> Pair], idx : Slot]

NewNodeBuf == [buf |-> [i \in Slot |-> Zero], idx |-> 0]

TypeOK ==
  /\ DOMAIN rings \subseteq Mac
  /\ rings \in [DOMAIN rings -> NodeBuf]
  /\ answer \in [pair : Pair, duplicate : BOOLEAN]

Init ==
  /\ rings = EmptyMap
  /\ answer = [pair |-> Zero, duplicate |-> FALSE]

\* The ring of a device, empty if it is new.
Ring(m) == IF m \in DOMAIN rings THEN rings[m] ELSE NewNodeBuf

\* Mutant: the index is taken modulo one slot too few.
RecordShort(ring, p) ==
  [ring EXCEPT !.buf[ring.idx] = p,
               !.idx = IF Size = 1 THEN 0 ELSE (@ + 1) % (Size - 1)]

\* Write the pair into the next slot, which held the oldest.
Record(ring, p) ==
  [ring EXCEPT !.buf[ring.idx] = p, !.idx = (@ + 1) % Size]

\* Mutant: only the slots written since the index was last 0 are looked at.
HoldsThisLap(ring, p) == p # Zero /\ \E i \in Slot : i < ring.idx /\ ring.buf[i] = p

\* An unused slot must not match: the pair of two zeros is never found.
Holds(ring, p) == p # Zero /\ \E i \in Slot : ring.buf[i] = p

IsDuplicate(m, p) ==
  /\ rings' = Put(rings, m, IF Holds(Ring(m), p) THEN Ring(m) ELSE Record(Ring(m), p))
  /\ answer' = [pair |-> p, duplicate |-> Holds(Ring(m), p)]

Next == \E m \in Mac, p \in Pair : IsDuplicate(m, p)

Spec == Init /\ [][Next]_vars

-----------------------------------------------------------------------------

\* The slots of a ring in the order in which they were written.
Oldest(ring, k) ==
  IF ring.idx + k <= Size THEN ring.idx + k - 1 ELSE ring.idx + k - 1 - Size

Unrolled(ring) == [k \in 1 .. Size |-> ring.buf[Oldest(ring, k)]]

\* The ring remembers what the comment on IsDuplicate promises, each device's
\* recent messages apart from every other's: whatever is written in whatever
\* order, it answers as a window over the last Size messages let pass does.
Window == INSTANCE ReplayWindow WITH window <- [m \in Mac |-> Unrolled(Ring(m))]

IsWindow == Window!WSpec

\* No message takes two slots, so only Size other messages, and never copies of
\* one, can push a message out of its device's ring.
NoPairTwice ==
  \A m \in DOMAIN rings : \A i, j \in Slot :
    rings[m].buf[i] = rings[m].buf[j] => i = j \/ rings[m].buf[i] = Zero

=============================================================================
