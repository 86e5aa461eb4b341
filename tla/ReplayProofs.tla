---------------------------- MODULE ReplayProofs ----------------------------
(***************************************************************************)
(* The ring of ReplayCache implements the window of ReplayWindow, for any  *)
(* devices, any marks and any size of the ring.  IsDuplicate is taken      *)
(* apart into what it does to one ring (RecordType, RecordShifts) and what *)
(* it leaves of the others.                                                *)
(***************************************************************************)
EXTENDS ReplayCache, SequenceTheorems, TLAPS

USE SizeAssumption, ZeroAssumption

-----------------------------------------------------------------------------
(* One ring.                                                               *)

\* The slot after the last is the first.
LEMMA NextSlot ==
  ASSUME NEW i \in Slot
  PROVE  /\ (i + 1) % Size \in Slot
         /\ (i + 1) % Size = IF i + 1 < Size THEN i + 1 ELSE 0
BY DEF Slot

LEMMA RingType ==
  ASSUME TypeOK, NEW m \in Mac
  PROVE  Ring(m) \in NodeBuf
BY DEF TypeOK, Ring, NewNodeBuf, NodeBuf, Slot

LEMMA RecordType ==
  ASSUME NEW ring \in NodeBuf, NEW p \in Pair
  PROVE  /\ Record(ring, p) \in NodeBuf
         /\ Record(ring, p).idx = IF ring.idx + 1 < Size THEN ring.idx + 1 ELSE 0
         /\ \A i \in Slot :
              Record(ring, p).buf[i] = IF i = ring.idx THEN p ELSE ring.buf[i]
<1>1. ring.idx \in Slot /\ ring.buf \in [Slot -> Pair]
  BY DEF NodeBuf
<1>2. (ring.idx + 1) % Size \in Slot
  BY <1>1, NextSlot
<1>3. (ring.idx + 1) % Size = IF ring.idx + 1 < Size THEN ring.idx + 1 ELSE 0
  BY <1>1, NextSlot
<1>. QED BY <1>1, <1>2, <1>3 DEF Record, NodeBuf

LEMMA OldestSlot ==
  ASSUME NEW ring \in NodeBuf, NEW k \in 1 .. Size
  PROVE  Oldest(ring, k) \in Slot
BY DEF NodeBuf, Oldest, Slot

LEMMA UnrolledType ==
  ASSUME NEW ring \in NodeBuf
  PROVE  /\ Unrolled(ring) \in Seq(Pair)
         /\ Len(Unrolled(ring)) = Size
<1>1. \A k \in 1 .. Size : ring.buf[Oldest(ring, k)] \in Pair
  BY OldestSlot DEF NodeBuf
<1>2. Unrolled(ring) \in [1 .. Size -> Pair]
  BY <1>1 DEF Unrolled
<1>. QED BY <1>2

\* Every slot is in the window, and nothing else is.
LEMMA UnrolledHolds ==
  ASSUME NEW ring \in NodeBuf, NEW p \in Pair
  PROVE  Holds(ring, p) <=> p # Zero /\ \E k \in 1 .. Size : Unrolled(ring)[k] = p
<1>1. ASSUME NEW i \in Slot
      PROVE  \E k \in 1 .. Size : Oldest(ring, k) = i
  <2>1. ring.idx \in Slot
    BY DEF NodeBuf
  <2>2. CASE i >= ring.idx
    <3>1. i - ring.idx + 1 \in 1 .. Size
      BY <2>1, <2>2 DEF Slot
    <3>2. Oldest(ring, i - ring.idx + 1) = i
      BY <2>1, <2>2 DEF Oldest, Slot
    <3>. QED BY <3>1, <3>2
  <2>3. CASE i < ring.idx
    <3>1. i - ring.idx + 1 + Size \in 1 .. Size
      BY <2>1, <2>3 DEF Slot
    <3>2. Oldest(ring, i - ring.idx + 1 + Size) = i
      BY <2>1, <2>3 DEF Oldest, Slot
    <3>. QED BY <3>1, <3>2
  <2>. QED BY <2>1, <2>2, <2>3 DEF Slot
<1>2. \A k \in 1 .. Size : Unrolled(ring)[k] = ring.buf[Oldest(ring, k)]
  BY DEF Unrolled
<1>3. \A k \in 1 .. Size : Oldest(ring, k) \in Slot
  BY OldestSlot
<1>. QED BY <1>1, <1>2, <1>3 DEF Holds

\* Recording drops the oldest message and puts the new one last.
LEMMA RecordShifts ==
  ASSUME NEW ring \in NodeBuf, NEW p \in Pair
  PROVE  Unrolled(Record(ring, p)) = Append(Tail(Unrolled(ring)), p)
<1> DEFINE after == Record(ring, p)
           w == Unrolled(ring)
           shifted == Append(Tail(w), p)
<1>1. after \in NodeBuf /\ ring.idx \in Slot
  BY RecordType DEF NodeBuf
<1>2. w \in Seq(Pair) /\ Len(w) = Size /\ w # << >>
  BY UnrolledType, EmptySeq
<1>3. /\ Tail(w) \in Seq(Pair) /\ Len(Tail(w)) = Size - 1
      /\ \A k \in 1 .. Size - 1 : Tail(w)[k] = w[k + 1]
  BY <1>2, HeadTailProperties
<1>4. /\ shifted \in Seq(Pair) /\ Len(shifted) = Size
      /\ \A k \in 1 .. Size - 1 : shifted[k] = Tail(w)[k]
      /\ shifted[Size] = p
  BY <1>3, AppendProperties
<1>5. Unrolled(after) \in Seq(Pair) /\ Len(Unrolled(after)) = Size
  BY <1>1, UnrolledType
<1>6. \A k \in 1 .. Size : Unrolled(after)[k] = shifted[k]
  <2>1. \A k \in 1 .. Size : Unrolled(after)[k] = after.buf[Oldest(after, k)]
    BY DEF Unrolled
  <2>2. \A k \in 1 .. Size : Oldest(after, k) \in Slot
    BY <1>1, OldestSlot
  <2>3. \A i \in Slot : after.buf[i] = IF i = ring.idx THEN p ELSE ring.buf[i]
    BY RecordType
  <2>4. after.idx = IF ring.idx + 1 < Size THEN ring.idx + 1 ELSE 0
    BY RecordType
  <2>5. Oldest(after, Size) = ring.idx
    BY <1>1, <2>4 DEF Oldest, Slot
  <2>6. ASSUME NEW k \in 1 .. Size - 1
        PROVE  Oldest(after, k) = Oldest(ring, k + 1) /\ Oldest(after, k) # ring.idx
    BY <1>1, <2>4 DEF Oldest, Slot
  <2>7. \A k \in 1 .. Size - 1 : w[k + 1] = ring.buf[Oldest(ring, k + 1)]
    BY DEF Unrolled
  <2>8. Unrolled(after)[Size] = shifted[Size]
    BY <1>4, <2>1, <2>2, <2>3, <2>5
  <2>9. ASSUME NEW k \in 1 .. Size - 1
        PROVE  Unrolled(after)[k] = shifted[k]
    <3>1. Unrolled(after)[k] = ring.buf[Oldest(ring, k + 1)]
      BY <2>1, <2>2, <2>3, <2>6
    <3>. QED BY <3>1, <1>3, <1>4, <2>7
  <2>10. \A k \in 1 .. Size : k \in 1 .. Size - 1 \/ k = Size
    OBVIOUS
  <2>. QED BY <2>8, <2>9, <2>10, Zenon
<1>7. Unrolled(after) = shifted
  <2>. HIDE DEF after, shifted
  <2>. QED BY <1>4, <1>5, <1>6, SeqEqual
<1>. QED BY <1>7

-----------------------------------------------------------------------------
(* All the rings.                                                          *)

\* IsDuplicate works on the ring of the device named and on no other.
LEMMA OtherRings ==
  ASSUME TypeOK, NEW m \in Mac, NEW p \in Pair, IsDuplicate(m, p)
  PROVE  /\ Ring(m)' = IF Holds(Ring(m), p) THEN Ring(m) ELSE Record(Ring(m), p)
         /\ \A n \in Mac \ {m} : Ring(n)' = Ring(n)
         /\ DOMAIN rings' = DOMAIN rings \cup {m}
BY DEF IsDuplicate, Put, Ring, TypeOK

LEMMA InitType == Init => TypeOK
BY DEF Init, TypeOK, EmptyMap

LEMMA NextType == TypeOK /\ [Next]_vars => TypeOK'
<1>. SUFFICES ASSUME TypeOK, [Next]_vars PROVE TypeOK'
  OBVIOUS
<1>1. ASSUME NEW m \in Mac, NEW p \in Pair, IsDuplicate(m, p)
      PROVE  TypeOK'
  <2>1. Ring(m) \in NodeBuf
    BY RingType
  <2>2. Record(Ring(m), p) \in NodeBuf
    BY <2>1, RecordType
  <2>3. rings' = Put(rings, m, IF Holds(Ring(m), p) THEN Ring(m) ELSE Record(Ring(m), p))
    BY <1>1 DEF IsDuplicate
  <2>4. DOMAIN rings' \subseteq Mac /\ rings' \in [DOMAIN rings' -> NodeBuf]
    <3> DEFINE ring == IF Holds(Ring(m), p) THEN Ring(m) ELSE Record(Ring(m), p)
    <3>1. ring \in NodeBuf
      BY <2>1, <2>2
    <3>. HIDE DEF ring
    <3>2. rings' = Put(rings, m, ring)
      BY <2>3 DEF ring
    <3>. QED BY <3>1, <3>2 DEF Put, TypeOK
  <2>5. answer' \in [pair : Pair, duplicate : BOOLEAN]
    BY <1>1 DEF IsDuplicate, Holds
  <2>. QED BY <2>4, <2>5 DEF TypeOK
<1>2. CASE UNCHANGED vars
  BY <1>2 DEF vars, TypeOK
<1>. QED BY <1>1, <1>2 DEF Next

\* The rings and the last answer keep their types: every ring has Size slots and
\* an index into them (NewReplayCache, IsDuplicate).
THEOREM TypeCorrect == Spec => []TypeOK
BY InitType, NextType, PTL DEF Spec

-----------------------------------------------------------------------------
(* No message takes two slots.                                             *)

\* A message is recorded only if no slot holds it (IsDuplicate), so the slots
\* that are in use tell that many different messages apart.
THEOREM Distinct == Spec => []NoPairTwice
<1>1. Init => NoPairTwice
  BY DEF Init, EmptyMap, NoPairTwice
<1>2. TypeOK /\ NoPairTwice /\ [Next]_vars => NoPairTwice'
  <2>. SUFFICES ASSUME TypeOK, NoPairTwice, [Next]_vars PROVE NoPairTwice'
    OBVIOUS
  <2>1. ASSUME NEW m \in Mac, NEW p \in Pair, IsDuplicate(m, p)
        PROVE  NoPairTwice'
    <3> DEFINE Apart(ring) ==
          \A i, j \in Slot : ring.buf[i] = ring.buf[j] => i = j \/ ring.buf[i] = Zero
    <3>1. Ring(m) \in NodeBuf
      BY RingType
    <3>2. \A n \in Mac : Apart(Ring(n))
      BY DEF NoPairTwice, Ring, NewNodeBuf
    <3>3. Apart(Ring(m)')
      <4>1. CASE Holds(Ring(m), p)
        BY <2>1, <4>1, <3>2, OtherRings
      <4>2. CASE ~Holds(Ring(m), p)
        <5>1. Ring(m)' = Record(Ring(m), p)
          BY <2>1, <4>2, OtherRings
        <5>2. \A i \in Slot : Record(Ring(m), p).buf[i]
                               = IF i = Ring(m).idx THEN p ELSE Ring(m).buf[i]
          BY <3>1, RecordType
        <5>3. p = Zero \/ \A i \in Slot : Ring(m).buf[i] # p
          BY <4>2 DEF Holds
        <5>4. Apart(Ring(m))
          BY <3>2
        <5>. QED BY <5>1, <5>2, <5>3, <5>4
      <4>. QED BY <4>1, <4>2
    <3>4. \A n \in Mac : Apart(Ring(n)')
      <4>1. ASSUME NEW n \in Mac \ {m}
            PROVE  Apart(Ring(n)')
        <5>1. Ring(n)' = Ring(n)
          BY <2>1, OtherRings
        <5>2. Apart(Ring(n))
          BY <3>2
        <5>. QED BY <5>1, <5>2
      <4>. HIDE DEF Apart
      <4>. QED BY <3>3, <4>1
    <3>5. \A n \in DOMAIN rings' : n \in Mac /\ Ring(n)' = rings'[n]
      BY <2>1, OtherRings DEF Ring, TypeOK
    <3>. QED BY <3>4, <3>5 DEF NoPairTwice
  <2>2. CASE UNCHANGED vars
    BY <2>2 DEF vars, NoPairTwice
  <2>. QED BY <2>1, <2>2 DEF Next
<1>. QED BY <1>1, <1>2, TypeCorrect, PTL DEF Spec

-----------------------------------------------------------------------------
(* The refinement.                                                         *)

LEMMA NewIsEmpty == Unrolled(NewNodeBuf) = [k \in 1 .. Size |-> Zero]
<1>1. NewNodeBuf \in NodeBuf
  BY DEF NewNodeBuf, NodeBuf, Slot
<1>2. \A k \in 1 .. Size : Oldest(NewNodeBuf, k) \in Slot
  BY <1>1, OldestSlot
<1>. QED BY <1>2 DEF Unrolled, NewNodeBuf

LEMMA InitWindow == Init => Window!WInit
BY NewIsEmpty DEF Init, Window!WInit, Ring, EmptyMap

\* A call of IsDuplicate is a step of the window: it refuses what the window has
\* seen, and lets the rest pass.
LEMMA CallIsStep ==
  ASSUME TypeOK, NEW m \in Mac, NEW p \in Pair, IsDuplicate(m, p)
  PROVE  Window!Pass(m, p) \/ Window!Refuse(m, p)
<1> DEFINE window == [n \in Mac |-> Unrolled(Ring(n))]
<1>1. Ring(m) \in NodeBuf
  BY RingType
<1>2. Holds(Ring(m), p) <=> Window!Seen(m, p)
  BY <1>1, UnrolledHolds DEF Window!Seen
<1>3. CASE Holds(Ring(m), p)
  <2>1. \A n \in Mac : Ring(n)' = Ring(n)
    BY <1>3, OtherRings
  <2>2. window' = window
    BY <2>1
  <2>3. answer' = [pair |-> p, duplicate |-> TRUE]
    BY <1>3 DEF IsDuplicate
  <2>. QED BY <1>2, <1>3, <2>2, <2>3 DEF Window!Refuse
<1>4. CASE ~Holds(Ring(m), p)
  <2>1. Ring(m)' = Record(Ring(m), p)
    BY <1>4, OtherRings
  <2>2. \A n \in Mac \ {m} : Ring(n)' = Ring(n)
    BY OtherRings
  <2>3. Unrolled(Ring(m)') = Append(Tail(Unrolled(Ring(m))), p)
    BY <1>1, <2>1, RecordShifts
  <2>4. window' = [window EXCEPT ![m] = Append(Tail(@), p)]
    BY <2>2, <2>3
  <2>5. answer' = [pair |-> p, duplicate |-> FALSE]
    <3>1. Holds(Ring(m), p) = FALSE
      BY <1>4 DEF Holds
    <3>. QED BY <3>1 DEF IsDuplicate
  <2>. QED BY <1>2, <1>4, <2>4, <2>5 DEF Window!Pass
<1>. QED BY <1>3, <1>4

\* The comment on IsDuplicate, made precise and proved: "returns true if (mac,
\* epoch, seq) was seen recently; records it otherwise".
THEOREM RingIsWindow == Spec => IsWindow
<1>1. TypeOK /\ [Next]_vars => [Window!WNext]_Window!wvars
  <2>. SUFFICES ASSUME TypeOK, [Next]_vars PROVE [Window!WNext]_Window!wvars
    OBVIOUS
  <2>1. CASE Next
    BY <2>1, CallIsStep DEF Next, Window!WNext
  <2>2. CASE UNCHANGED vars
    BY <2>2 DEF vars, Window!wvars, Ring
  <2>. QED BY <2>1, <2>2
<1>. QED BY <1>1, InitWindow, TypeCorrect, PTL DEF Spec, IsWindow, Window!WSpec

=============================================================================
