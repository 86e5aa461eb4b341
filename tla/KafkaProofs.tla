----------------------------- MODULE KafkaProofs -----------------------------
(***************************************************************************)
(* Theorems about KafkaStore, for any topics and writers, any numbers of   *)
(* connection attempts and messages, and any behaviour of the broker.      *)
(***************************************************************************)
EXTENDS KafkaStore, FiniteSetTheorems, WellFoundedInduction, TLAPS

USE TopicAssumption, TriesAssumption

(***************************************************************************)
(* Type correctness.                                                       *)
(***************************************************************************)

\* main has a try left while it dials, and of the messages written to a topic none
\* is both delivered and on its way.
Budget ==
  /\ at["main"] = "dial" => tries < MaxTries
  /\ \A t \in Topic : delivered[t] + inFlight[t] <= written[t]

LEMMA CountFailureType ==
  ASSUME stats \in Stats, NEW t \in Topic, CountFailure(t)
  PROVE  stats' \in Stats
<1>1. stats.failedWrites[t] + 1 \in Nat /\ stats.total + 1 \in Nat
  BY DEF Stats
<1>2. [stats.failedWrites EXCEPT ![t] = @ + 1] \in [Topic -> Nat]
  BY <1>1 DEF Stats
<1>3. stats' = [stats EXCEPT !.failedWrites = [stats.failedWrites EXCEPT ![t] = @ + 1],
                             !.total = stats.total + 1]
  BY DEF CountFailure, Stats
<1>. QED BY <1>1, <1>2, <1>3 DEF Stats

LEMMA RecordedType ==
  ASSUME stats \in Stats, outcome \in Outcome
  PROVE  Recorded \in Stats
<1>1. [t \in Topic |-> t \notin outcome.refused] \in [Topic -> BOOLEAN]
  OBVIOUS
<1>2. (outcome.refused = {}) \in BOOLEAN
  OBVIOUS
<1> DEFINE ready == [t \in Topic |-> t \notin outcome.refused]
           all == outcome.refused = {}
<1>3. ready \in [Topic -> BOOLEAN] /\ all \in BOOLEAN
  BY <1>1, <1>2
<1>4. Recorded = IF outcome.error THEN [stats EXCEPT !.topicsReady = FALSE]
                 ELSE [stats EXCEPT !.topicsReady = all, !.ready = ready]
  BY DEF Recorded
<1> HIDE DEF ready, all
<1>. QED BY <1>3, <1>4 DEF Stats

LEMMA AllReadyType == AllReady \in Outcome
BY DEF AllReady, Refusing, Outcome

LEMMA InitType == Init => TypeOK /\ Budget
<1>. SUFFICES ASSUME Init PROVE TypeOK /\ Budget
  OBVIOUS
<1>1. stats \in Stats
  BY DEF Init, DisconnectedStats, Stats
<1>2. at \in [{"main", "loop"} -> Step] /\ at["main"] = "dial"
  BY DEF Init, Step
<1>3. outcome \in Outcome
  BY AllReadyType DEF Init
<1>4. tries \in 0 .. MaxTries /\ tries < MaxTries
  BY DEF Init
<1>5. /\ cancelled \in BOOLEAN
      /\ client \in {"none", "open", "closed"} /\ broker \in {"up", "refusing", "down"}
      /\ exists \subseteq Topic
  BY DEF Init
<1>6. /\ inFlight \in [Topic -> 0 .. MaxWrites] /\ written \in [Topic -> 0 .. MaxWrites]
      /\ delivered \in [Topic -> 0 .. MaxWrites] /\ failing \in [Writer -> SUBSET Topic]
      /\ \A t \in Topic : delivered[t] + inFlight[t] <= written[t]
  BY DEF Init
<1>. QED BY <1>1, <1>2, <1>3, <1>4, <1>5, <1>6 DEF TypeOK, Budget

LEMMA NextType ==
  ASSUME TypeOK, Budget, [Next]_vars
  PROVE  TypeOK' /\ Budget'
<1>. USE DEF At, Goto, world, messages, store
<1>1. CASE DialFails
  <2>1. tries' \in 0 .. MaxTries /\ (tries' # MaxTries => tries' < MaxTries)
    BY <1>1 DEF DialFails, TypeOK, Budget
  <2>. QED BY <1>1, <2>1 DEF DialFails, TypeOK, Budget, Step
<1>2. CASE Connect
  <2>1. tries' \in 0 .. MaxTries
    BY <1>2 DEF Connect, TypeOK, Budget
  <2>2. stats' \in Stats
    BY <1>2 DEF Connect, TypeOK, Stats
  <2>. QED BY <1>2, <2>1, <2>2 DEF Connect, TypeOK, Budget, Step
<1>3. ASSUME NEW g \in {"main", "loop"}, CreateTopics(g)
      PROVE  TypeOK' /\ Budget'
  <2>1. outcome' \in Outcome /\ exists' \subseteq Topic
    <3>1. CASE \E refused \in SUBSET Topic :
                 outcome' = Refusing(refused) /\ exists' = exists \cup (Topic \ refused)
      <4>1. PICK refused \in SUBSET Topic :
              outcome' = Refusing(refused) /\ exists' = exists \cup (Topic \ refused)
        BY <3>1
      <4>. QED BY <4>1 DEF Refusing, Outcome, TypeOK
    <3>2. CASE outcome' = RequestError /\ \E created \in SUBSET Topic : exists' = exists \cup created
      BY <3>2 DEF RequestError, Outcome, TypeOK
    <3>. QED BY <1>3, <3>1, <3>2 DEF CreateTopics
  <2>2. at' \in [{"main", "loop"} -> Step] /\ (at'["main"] = "dial" => at["main"] = "dial")
    BY <1>3 DEF CreateTopics, TypeOK, Step
  <2>. QED BY <1>3, <2>1, <2>2 DEF CreateTopics, TypeOK, Budget
<1>4. ASSUME NEW g \in {"main", "loop"}, Record(g)
      PROVE  TypeOK' /\ Budget'
  <2>1. stats' \in Stats
    BY <1>4, RecordedType DEF Record, TypeOK
  <2>2. at' \in [{"main", "loop"} -> Step] /\ (at'["main"] = "dial" => at["main"] = "dial")
    BY <1>4 DEF Record, AfterAttempt, TypeOK, Step
  <2>3. outcome' \in Outcome
    BY <1>4, AllReadyType DEF Record
  <2>. QED BY <1>4, <2>1, <2>2, <2>3 DEF Record, TypeOK, Budget
<1>5. CASE SleepEnds
  <2>1. at' \in [{"main", "loop"} -> Step] /\ at'["main"] = at["main"]
    BY <1>5 DEF SleepEnds, TypeOK, Step
  <2>. QED BY <1>5, <2>1 DEF SleepEnds, TypeOK, Budget
<1>6. ASSUME NEW w \in Writer, NEW t \in Topic, WriteMessage(w, t)
      PROVE  TypeOK' /\ Budget'
  <2>1. /\ written[t] \in Nat /\ inFlight[t] \in Nat /\ delivered[t] \in Nat
        /\ written[t] < MaxWrites /\ delivered[t] + inFlight[t] <= written[t]
    BY <1>6 DEF WriteMessage, TypeOK, Budget
  <2>2. written' \in [Topic -> 0 .. MaxWrites]
        /\ \A o \in Topic : written'[o] = IF o = t THEN written[o] + 1 ELSE written[o]
    BY <1>6, <2>1 DEF WriteMessage, TypeOK
  <2>3. inFlight' \in [Topic -> 0 .. MaxWrites]
        /\ \A o \in Topic : inFlight'[o] <= IF o = t THEN inFlight[o] + 1 ELSE inFlight[o]
    BY <1>6, <2>1 DEF WriteMessage, TypeOK
  <2>4. failing' \in [Writer -> SUBSET Topic]
    BY <1>6 DEF WriteMessage, TypeOK
  <2>5. UNCHANGED <<at, outcome, store, world, delivered>>
    BY <1>6 DEF WriteMessage
  <2>6. \A o \in Topic : delivered'[o] + inFlight'[o] <= written'[o]
    <3>. TAKE o \in Topic
    <3>1. /\ written[o] \in Nat /\ inFlight[o] \in Nat /\ delivered[o] \in Nat
          /\ inFlight'[o] \in Nat /\ delivered'[o] = delivered[o]
          /\ delivered[o] + inFlight[o] <= written[o]
      BY <2>3, <2>5 DEF TypeOK, Budget
    <3>. QED BY <2>2, <2>3, <3>1
  <2>. QED BY <2>2, <2>3, <2>4, <2>5, <2>6 DEF TypeOK, Budget
<1>7. ASSUME NEW w \in Writer, WriteFails(w)
      PROVE  TypeOK' /\ Budget'
  <2>1. stats' \in Stats
    BY <1>7, CountFailureType DEF WriteFails, TypeOK
  <2>2. failing' \in [Writer -> SUBSET Topic]
    BY <1>7 DEF WriteFails, TypeOK
  <2>. QED BY <1>7, <2>1, <2>2 DEF WriteFails, TypeOK, Budget
<1>8. ASSUME NEW t \in Topic, Delivered(t) \/ DeliveryFails(t)
      PROVE  TypeOK' /\ Budget'
  <2>1. \A o \in Topic :
          /\ written[o] \in 0 .. MaxWrites /\ inFlight[o] \in Nat /\ delivered[o] \in Nat
          /\ delivered[o] + inFlight[o] <= written[o]
    BY DEF TypeOK, Budget
  <2>2. /\ inFlight[t] > 0 /\ inFlight' = [inFlight EXCEPT ![t] = @ - 1]
        /\ delivered' = delivered \/ delivered' = [delivered EXCEPT ![t] = @ + 1]
        /\ UNCHANGED <<at, outcome, failing, tries, cancelled, client, world, written>>
    BY <1>8 DEF Delivered, DeliveryFails
  <2>3. inFlight' \in [Topic -> 0 .. MaxWrites]
    BY <2>1, <2>2 DEF TypeOK
  <2>4. delivered' \in [Topic -> 0 .. MaxWrites]
    BY <2>1, <2>2 DEF TypeOK
  <2>5. \A o \in Topic : delivered'[o] + inFlight'[o] <= written'[o]
    BY <2>1, <2>2 DEF TypeOK
  <2>6. stats' \in Stats
    BY <1>8, CountFailureType DEF Delivered, DeliveryFails, TypeOK
  <2>. QED BY <2>2, <2>3, <2>4, <2>5, <2>6 DEF TypeOK, Budget
<1>9. CASE CloseBegins \/ StopWaits \/ CloseWriter \/ Flushed
  <2>1. at' \in [{"main", "loop"} -> Step] /\ at'["main"] # "dial"
    BY <1>9 DEF CloseBegins, StopWaits, CloseWriter, Flushed, TypeOK, Step
  <2>2. stats' \in Stats
    BY <1>9 DEF CloseBegins, StopWaits, CloseWriter, Flushed, TypeOK, Stats
  <2>3. cancelled' \in BOOLEAN
    <3>1. cancelled' = cancelled \/ cancelled' = (client # "none")
      BY <1>9 DEF CloseBegins, StopWaits, CloseWriter, Flushed
    <3>. QED BY <3>1 DEF TypeOK
  <2>4. client' \in {"none", "open", "closed"}
    BY <1>9 DEF CloseBegins, StopWaits, CloseWriter, Flushed, TypeOK
  <2>5. UNCHANGED <<outcome, failing, tries, world, messages>>
    BY <1>9 DEF CloseBegins, StopWaits, CloseWriter, Flushed
  <2>. QED BY <2>1, <2>2, <2>3, <2>4, <2>5 DEF TypeOK, Budget
<1>10. ASSUME NEW how \in {"up", "refusing", "down"}, BrokerChanges(how)
       PROVE  TypeOK' /\ Budget'
  BY <1>10 DEF BrokerChanges, TypeOK, Budget
<1>11. CASE UNCHANGED vars
  BY <1>11 DEF vars, TypeOK, Budget
<1>. QED BY <1>1, <1>2, <1>3, <1>4, <1>5, <1>6, <1>7, <1>8, <1>9, <1>10, <1>11
         DEF Next, Main, Loop

(***************************************************************************)
(* Where main and the retry loop can be together.                          *)
(***************************************************************************)

\* The loop runs only after main's own attempt, and is over before main closes the
\* writer; what was handed over has its outcome before main ends.
Phases ==
  /\ at["main"] \notin {"sleep", "off", "ended"}
  /\ at["main"] \in {"dial", "request", "record"} => at["loop"] = "off"
  /\ at["main"] \in {"close", "flush", "down"} =>
       at["loop"] \in {"off", "ended"} /\ ~stats.connected
  /\ client = "open" => at["main"] \notin {"flush", "down"}
  /\ at["main"] = "down" => \A t \in Topic : inFlight[t] = 0

LEMMA NextPhases ==
  ASSUME TypeOK, Phases, [Next]_vars
  PROVE  Phases'
<1>. USE DEF At, Goto, world, messages, store
<1>. at \in [{"main", "loop"} -> Step] /\ stats \in Stats
  BY DEF TypeOK
<1>1. CASE DialFails
  <2>1. at["main"] = "dial" /\ at'["main"] \in {"serve", "dial"} /\ at'["loop"] = at["loop"]
    BY <1>1 DEF DialFails
  <2>. QED BY <1>1, <2>1 DEF DialFails, Phases
<1>2. CASE Connect
  BY <1>2 DEF Connect, Phases
<1>3. ASSUME NEW g \in {"main", "loop"}, CreateTopics(g)
      PROVE  Phases'
  <2>1. at[g] = "request" /\ at' = [at EXCEPT ![g] = "record"]
        /\ UNCHANGED <<stats, client, inFlight>>
    BY <1>3 DEF CreateTopics
  <2>. QED BY <2>1 DEF Phases
<1>4. ASSUME NEW g \in {"main", "loop"}, Record(g)
      PROVE  Phases'
  <2>1. at[g] = "record" /\ at' = AfterAttempt(g) /\ UNCHANGED <<client, inFlight>>
    BY <1>4 DEF Record
  <2>2. at["main"] \notin {"close", "flush", "down"}
    BY <2>1 DEF Phases
  <2>3. at'["main"] \in {"serve", at["main"]} /\ (at["main"] = "record" => at'["main"] = "serve")
    <3>1. CASE g = "main"
      BY <2>1, <3>1 DEF AfterAttempt
    <3>2. CASE g = "loop"
      BY <2>1, <3>2 DEF AfterAttempt, Phases
    <3>. QED BY <3>1, <3>2
  <2>4. at'["main"] \in {"dial", "request", "record"} => at'["loop"] = "off"
    <3>1. CASE g = "main"
      BY <2>1, <3>1 DEF AfterAttempt
    <3>2. CASE g = "loop"
      BY <2>1, <2>3, <3>2 DEF Phases
    <3>. QED BY <3>1, <3>2
  <2>. QED BY <2>1, <2>2, <2>3, <2>4 DEF Phases
<1>5. CASE SleepEnds
  BY <1>5 DEF SleepEnds, Phases
<1>6. ASSUME NEW w \in Writer, NEW t \in Topic, WriteMessage(w, t)
      PROVE  Phases'
  BY <1>6 DEF WriteMessage, Phases
<1>7. ASSUME NEW w \in Writer, WriteFails(w)
      PROVE  Phases'
  <2>1. stats'.connected = stats.connected /\ UNCHANGED <<at, client, inFlight>>
    BY <1>7 DEF WriteFails, CountFailure, Stats
  <2>. QED BY <2>1 DEF Phases
<1>8. ASSUME NEW t \in Topic, Delivered(t) \/ DeliveryFails(t)
      PROVE  Phases'
  <2>1. at["main"] # "down"
    BY <1>8 DEF Delivered, DeliveryFails, Phases
  <2>2. stats'.connected = stats.connected /\ UNCHANGED <<at, client>>
    BY <1>8 DEF Delivered, DeliveryFails, CountFailure, Stats
  <2>. QED BY <2>1, <2>2 DEF Phases
<1>9. CASE CloseBegins
  BY <1>9 DEF CloseBegins, Phases
<1>10. CASE StopWaits
  <2>1. ~stats'.connected
    BY <1>10 DEF StopWaits, Stats
  <2>. QED BY <1>10, <2>1 DEF StopWaits, Phases
<1>11. CASE CloseWriter
  BY <1>11 DEF CloseWriter, Phases
<1>12. CASE Flushed
  BY <1>12 DEF Flushed, Phases
<1>13. ASSUME NEW how \in {"up", "refusing", "down"}, BrokerChanges(how)
       PROVE  Phases'
  BY <1>13 DEF BrokerChanges, Phases
<1>14. CASE UNCHANGED vars
  BY <1>14 DEF vars, Phases
<1>. QED BY <1>1, <1>2, <1>3, <1>4, <1>5, <1>6, <1>7, <1>8, <1>9, <1>10, <1>11, <1>12, <1>13,
            <1>14 DEF Next, Main, Loop

(***************************************************************************)
(* What is known of the topics.                                            *)
(***************************************************************************)

\* An answer that is about to be recorded is not ahead of the broker either.
Answered ==
  (at["main"] = "record" \/ at["loop"] = "record") /\ ~outcome.error =>
    Topic \ outcome.refused \subseteq exists

\* Only attempts to create topics change what is known of them, and none takes a
\* topic away.
LEMMA ElseKnown ==
  ASSUME TypeOK, Phases, Next,
         \A g \in {"main", "loop"} : ~CreateTopics(g) /\ ~Record(g)
  PROVE  /\ stats'.ready = stats.ready /\ stats'.topicsReady = stats.topicsReady
         /\ UNCHANGED <<outcome, exists>>
         /\ \A g \in {"main", "loop"} : at'[g] = "record" => at[g] = "record"
<1>. USE DEF At, Goto, world, messages, store
<1>. at \in [{"main", "loop"} -> Step] /\ stats \in Stats
  BY DEF TypeOK
<1>1. CASE DialFails \/ Connect
  BY <1>1 DEF DialFails, Connect, Stats
<1>2. CASE SleepEnds
  BY <1>2 DEF SleepEnds
<1>3. ASSUME NEW w \in Writer, NEW t \in Topic, WriteMessage(w, t)
      PROVE  UNCHANGED <<stats, outcome, exists, at>>
  BY <1>3 DEF WriteMessage
<1>4. ASSUME NEW w \in Writer, WriteFails(w)
      PROVE  /\ stats'.ready = stats.ready /\ stats'.topicsReady = stats.topicsReady
             /\ UNCHANGED <<outcome, exists, at>>
  BY <1>4 DEF WriteFails, CountFailure, Stats
<1>5. ASSUME NEW t \in Topic, Delivered(t) \/ DeliveryFails(t)
      PROVE  /\ stats'.ready = stats.ready /\ stats'.topicsReady = stats.topicsReady
             /\ UNCHANGED <<outcome, exists, at>>
  BY <1>5 DEF Delivered, DeliveryFails, CountFailure, Stats
<1>6. CASE CloseBegins \/ StopWaits \/ CloseWriter \/ Flushed
  BY <1>6 DEF CloseBegins, StopWaits, CloseWriter, Flushed, Stats
<1>7. ASSUME NEW how \in {"up", "refusing", "down"}, BrokerChanges(how)
      PROVE  UNCHANGED <<stats, outcome, exists, at>>
  BY <1>7 DEF BrokerChanges
<1>. QED BY <1>1, <1>2, <1>3, <1>4, <1>5, <1>6, <1>7 DEF Next, Main, Loop

LEMMA NextKnown ==
  ASSUME TypeOK, Phases, ReadyMeansExists, Answered, [Next]_vars
  PROVE  ReadyMeansExists' /\ Answered'
<1>. USE DEF At, Goto, world, messages, store
<1>. at \in [{"main", "loop"} -> Step] /\ stats \in Stats
  BY DEF TypeOK
<1>1. ASSUME NEW g \in {"main", "loop"}, CreateTopics(g)
      PROVE  ReadyMeansExists' /\ Answered'
  <2>1. stats' = stats
    BY <1>1 DEF CreateTopics
  <2>2. CASE \E refused \in SUBSET Topic :
               outcome' = Refusing(refused) /\ exists' = exists \cup (Topic \ refused)
    <3>1. PICK refused \in SUBSET Topic :
            outcome' = Refusing(refused) /\ exists' = exists \cup (Topic \ refused)
      BY <2>2
    <3>2. outcome'.refused = refused
      BY <3>1 DEF Refusing
    <3>3. exists \subseteq exists'
      BY <3>1 DEF TypeOK
    <3>4. Answered'
      BY <3>1, <3>2 DEF Answered
    <3>. QED BY <2>1, <3>3, <3>4 DEF ReadyMeansExists
  <2>3. CASE outcome' = RequestError /\ \E created \in SUBSET Topic : exists' = exists \cup created
    BY <2>1, <2>3 DEF RequestError, ReadyMeansExists, Answered
  <2>. QED BY <1>1, <2>2, <2>3 DEF CreateTopics
<1>2. ASSUME NEW g \in {"main", "loop"}, Record(g)
      PROVE  ReadyMeansExists' /\ Answered'
  <2>1. at[g] = "record" /\ at' = AfterAttempt(g) /\ stats' = Recorded /\ exists' = exists
    BY <1>2 DEF Record
  <2>2. at'["main"] # "record" /\ at'["loop"] # "record"
    <3>1. CASE g = "main"
      BY <2>1, <3>1 DEF AfterAttempt
    <3>2. CASE g = "loop"
      BY <2>1, <3>2 DEF AfterAttempt, Phases
    <3>. QED BY <3>1, <3>2
  <2>3. CASE outcome.error
    <3>1. stats'.ready = stats.ready /\ ~stats'.topicsReady
      BY <2>1, <2>3 DEF Recorded, Stats
    <3>. QED BY <2>1, <2>2, <3>1 DEF ReadyMeansExists, Answered
  <2>4. CASE ~outcome.error
    <3>1. /\ stats'.ready = [t \in Topic |-> t \notin outcome.refused]
          /\ stats'.topicsReady = (outcome.refused = {})
      BY <2>1, <2>4 DEF Recorded, Stats
    <3>2. Topic \ outcome.refused \subseteq exists
      BY <2>1, <2>4 DEF Answered
    <3>. QED BY <2>1, <2>2, <3>1, <3>2 DEF ReadyMeansExists, Answered
  <2>. QED BY <2>3, <2>4
<1>3. CASE Next /\ \A g \in {"main", "loop"} : ~CreateTopics(g) /\ ~Record(g)
  BY <1>3, ElseKnown DEF ReadyMeansExists, Answered
<1>4. CASE UNCHANGED vars
  BY <1>4 DEF vars, ReadyMeansExists, Answered
<1>. QED BY <1>1, <1>2, <1>3, <1>4

(***************************************************************************)
(* Sums over a finite set, as MapThenSumSet takes them: one element after  *)
(* the other, in the order of CHOOSE.                                      *)
(***************************************************************************)

FirstOf(s) == CHOOSE x \in s : TRUE

But(s) == s \ {FirstOf(s)}

SumFrom(f, g, s) == IF s = {} THEN 0 ELSE f[FirstOf(s)] + g[But(s)]

Sums(S, f) == CHOOSE g : g = [s \in SUBSET S |-> SumFrom(f, g, s)]

\* A non-empty set of naturals has a least element.
LEMMA LeastNatural ==
  ASSUME NEW N, N \subseteq Nat, N # {}
  PROVE  \E n \in N : \A k \in N : n <= k
<1>1. PICK n \in N : \A k \in N : ~ (<<k, n>> \in OpToRel(<, Nat))
  BY WFMin, NatLessThanWellFounded
<1>2. \A k \in N : ~ (k < n)
  BY <1>1 DEF OpToRel
<1>3. n \in Nat /\ \A k \in N : k \in Nat
  OBVIOUS
<1>. QED BY <1>2, <1>3

LEMMA FewerLeft ==
  ASSUME NEW S, IsFiniteSet(S), NEW s \in SUBSET S, s # {}
  PROVE  /\ But(s) \in SUBSET S /\ FirstOf(s) \in s
         /\ Cardinality(s) \in Nat /\ Cardinality(But(s)) \in Nat
         /\ Cardinality(s) = Cardinality(But(s)) + 1
<1>1. IsFiniteSet(s)
  BY FS_Subset
<1>2. FirstOf(s) \in s
  BY DEF FirstOf
<1>3. /\ IsFiniteSet(But(s)) /\ Cardinality(But(s)) = Cardinality(s) - 1
  BY <1>1, <1>2, FS_RemoveElement DEF But
<1>4. Cardinality(s) \in Nat /\ Cardinality(But(s)) \in Nat
  BY <1>1, <1>3, FS_CardinalityType
<1>. QED BY <1>2, <1>3, <1>4 DEF But

\* The recursive function exists: extend it from the subsets of at most n - 1
\* elements to those of at most n.
LEMMA SumsExist ==
  ASSUME NEW S, IsFiniteSet(S), NEW f
  PROVE  \E g : g = [s \in SUBSET S |-> SumFrom(f, g, s)]
<1> DEFINE UpTo(n) == {s \in SUBSET S : Cardinality(s) <= n}
           Fits(g, n) == g = [s \in UpTo(n) |-> SumFrom(f, g, s)]
           Bad == {n \in Nat : ~ \E g : Fits(g, n)}
<1>1. \A s \in SUBSET S : Cardinality(s) \in Nat /\ (Cardinality(s) = 0 <=> s = {})
                          /\ Cardinality(s) <= Cardinality(S)
  BY FS_Subset, FS_CardinalityType, FS_EmptySet
<1>2. Bad = {}
  <2> SUFFICES ASSUME Bad # {} PROVE FALSE
    OBVIOUS
  <2>1. PICK n \in Bad : \A k \in Bad : n <= k
    <3>1. Bad \subseteq Nat
      OBVIOUS
    <3> HIDE DEF Bad
    <3>. QED BY <3>1, LeastNatural
  <2>2. PICK g : n = 0 \/ Fits(g, n - 1)
    <3>1. CASE n = 0
      BY <3>1
    <3>2. CASE n # 0
      <4>1. n - 1 \in Nat /\ ~ (n <= n - 1)
        BY <3>2
      <4>2. n - 1 \notin Bad
        BY <2>1, <4>1
      <4>. QED BY <4>1, <4>2
    <3>. QED BY <3>1, <3>2
  <2> DEFINE h == [s \in UpTo(n) |-> SumFrom(f, g, s)]
  <2>3. ASSUME NEW s \in UpTo(n)
        PROVE  h[s] = SumFrom(f, h, s)
    <3>1. h[s] = SumFrom(f, g, s)
      OBVIOUS
    <3>2. CASE s = {}
      BY <3>1, <3>2 DEF SumFrom
    <3>3. CASE s # {}
      <4>1. But(s) \in SUBSET S /\ Cardinality(s) = Cardinality(But(s)) + 1
            /\ Cardinality(But(s)) \in Nat /\ Cardinality(s) \in Nat
        BY <3>3, FewerLeft
      <4>2. n # 0 /\ But(s) \in UpTo(n - 1) /\ But(s) \in UpTo(n)
        BY <4>1
      <4>3. Fits(g, n - 1)
        BY <2>2, <4>2
      <4>4. g[But(s)] = SumFrom(f, g, But(s))
        BY <4>2, <4>3
      <4>5. h[But(s)] = SumFrom(f, g, But(s))
        BY <4>2
      <4> HIDE DEF h, UpTo
      <4>. QED BY <3>1, <3>3, <4>4, <4>5 DEF SumFrom
    <3>. QED BY <3>2, <3>3
  <2>4. Fits(h, n)
    <3>1. h = [s \in UpTo(n) |-> h[s]]
      OBVIOUS
    <3> HIDE DEF h, UpTo
    <3>. QED BY <2>3, <3>1
  <2> HIDE DEF h, Fits
  <2>. QED BY <2>1, <2>4
<1>3. Cardinality(S) \in Nat
  BY FS_CardinalityType
<1>4. PICK g : Fits(g, Cardinality(S))
  <2> HIDE DEF Fits
  <2>. QED BY <1>2, <1>3
<1>5. UpTo(Cardinality(S)) = SUBSET S
  BY <1>1
<1>. QED BY <1>4, <1>5

LEMMA SumsStep ==
  ASSUME NEW S, IsFiniteSet(S), NEW f, NEW s \in SUBSET S
  PROVE  Sums(S, f)[s] = SumFrom(f, Sums(S, f), s)
<1>1. Sums(S, f) = [r \in SUBSET S |-> SumFrom(f, Sums(S, f), r)]
  BY SumsExist DEF Sums
<1> DEFINE g == Sums(S, f)
<1>2. g = [r \in SUBSET S |-> SumFrom(f, g, r)]
  BY <1>1
<1> HIDE DEF g
<1>3. g[s] = SumFrom(f, g, s)
  BY <1>2
<1>. QED BY <1>3 DEF g

\* Induction on the subsets of a finite set, in the order they are summed.
LEMMA SubsetInduction ==
  ASSUME NEW S, IsFiniteSet(S), NEW P, {} \in P,
         \A s \in SUBSET S : s # {} /\ But(s) \in P => s \in P
  PROVE  S \in P
<1> DEFINE Bad == {n \in Nat : \E s \in SUBSET S : Cardinality(s) = n /\ s \notin P}
<1>1. Bad = {}
  <2> SUFFICES ASSUME Bad # {} PROVE FALSE
    OBVIOUS
  <2>1. PICK n \in Bad : \A k \in Bad : n <= k
    <3>1. Bad \subseteq Nat
      OBVIOUS
    <3> HIDE DEF Bad
    <3>. QED BY <3>1, LeastNatural
  <2>2. PICK s \in SUBSET S : Cardinality(s) = n /\ s \notin P
    BY <2>1
  <2>3. s # {} /\ But(s) \notin P
    BY <2>2
  <2>4. /\ But(s) \in SUBSET S /\ Cardinality(But(s)) \in Nat
        /\ n = Cardinality(But(s)) + 1
    BY <2>2, <2>3, FewerLeft
  <2>5. Cardinality(But(s)) \in Bad
    BY <2>3, <2>4
  <2>. QED BY <2>1, <2>4, <2>5
<1>2. Cardinality(S) \in Nat
  BY FS_CardinalityType
<1>. QED BY <1>1, <1>2

LEMMA SumsAt ==
  ASSUME NEW S, IsFiniteSet(S), NEW f
  PROVE  /\ Sums(S, f)[{}] = 0
         /\ \A s \in SUBSET S :
              s # {} => Sums(S, f)[s] = f[FirstOf(s)] + Sums(S, f)[But(s)]
BY SumsStep DEF SumFrom

LEMMA SumOfZeros ==
  ASSUME NEW S, IsFiniteSet(S), NEW f, \A t \in S : f[t] = 0
  PROVE  Sums(S, f)[S] = 0
<1> DEFINE P == {s \in SUBSET S : Sums(S, f)[s] = 0}
<1>1. {} \in P
  BY SumsAt
<1>2. ASSUME NEW s \in SUBSET S, s # {}, But(s) \in P
      PROVE  s \in P
  <2>1. Sums(S, f)[s] = f[FirstOf(s)] + Sums(S, f)[But(s)]
    BY <1>2, SumsAt
  <2>2. FirstOf(s) \in S
    BY <1>2, FewerLeft
  <2>. QED BY <1>2, <2>1, <2>2
<1>3. S \in P
  <2> HIDE DEF P
  <2>. QED BY <1>1, <1>2, SubsetInduction
<1>. QED BY <1>3

\* One more somewhere is one more in all.
LEMMA SumGrows ==
  ASSUME NEW S, IsFiniteSet(S), NEW f, f \in [S -> Nat], NEW t \in S,
         NEW g, \A x \in S : g[x] = f[x] + (IF x = t THEN 1 ELSE 0)
  PROVE  Sums(S, f)[S] \in Nat /\ Sums(S, g)[S] = Sums(S, f)[S] + 1
<1> DEFINE F == Sums(S, f)
           G == Sums(S, g)
           P == {s \in SUBSET S : F[s] \in Nat /\ G[s] = F[s] + (IF t \in s THEN 1 ELSE 0)}
<1>0. /\ F[{}] = 0 /\ G[{}] = 0
      /\ \A s \in SUBSET S : s # {} => F[s] = f[FirstOf(s)] + F[But(s)]
      /\ \A s \in SUBSET S : s # {} => G[s] = g[FirstOf(s)] + G[But(s)]
  BY SumsAt
<1> HIDE DEF F, G
<1>1. {} \in P
  BY <1>0
<1>2. ASSUME NEW s \in SUBSET S, s # {}, But(s) \in P
      PROVE  s \in P
  <2>1. F[s] = f[FirstOf(s)] + F[But(s)] /\ G[s] = g[FirstOf(s)] + G[But(s)]
    BY <1>0, <1>2
  <2>2. FirstOf(s) \in s /\ FirstOf(s) \in S
    BY <1>2, FewerLeft
  <2>3. F[But(s)] \in Nat /\ G[But(s)] = F[But(s)] + (IF t \in But(s) THEN 1 ELSE 0)
    BY <1>2
  <2>4. f[FirstOf(s)] \in Nat
        /\ g[FirstOf(s)] = f[FirstOf(s)] + (IF FirstOf(s) = t THEN 1 ELSE 0)
    BY <2>2
  <2>5. t \in s <=> t \in But(s) \/ FirstOf(s) = t
    BY <2>2 DEF But
  <2>6. ~ (t \in But(s) /\ FirstOf(s) = t)
    BY DEF But
  <2>. QED BY <2>1, <2>3, <2>4, <2>5, <2>6
<1>3. S \in P
  <2> HIDE DEF P
  <2>. QED BY <1>1, <1>2, SubsetInduction
<1>. QED BY <1>3 DEF F, G

(***************************************************************************)
(* Every message is accounted for.                                         *)
(***************************************************************************)

Failing(t) == {w \in Writer : t \in failing[w]}

\* A writer has one message at hand at most.  However many writers there may ever be,
\* finitely many have failed and not counted yet.
AtHand ==
  /\ \A w \in Writer : failing[w] = {} \/ \E t \in Topic : failing[w] = {t}
  /\ \A t \in Topic : IsFiniteSet(Failing(t))

Total == Sums(Topic, stats.failedWrites)[Topic]

\* FailuresAddUp, with the sum named.
Counted ==
  /\ \A t \in Topic :
       written[t] = delivered[t] + inFlight[t] + stats.failedWrites[t] + Counting(t)
  /\ stats.total = Total

LEMMA CountedAddsUp ==
  ASSUME Counted
  PROVE  FailuresAddUp
<1>1. MapThenSumSet(LAMBDA t : stats.failedWrites[t], Topic) = Total
  BY DEF MapThenSumSet, MapThenFoldSet, Total, Sums, SumFrom, FirstOf, But
<1>. QED BY <1>1 DEF Counted, FailuresAddUp

LEMMA CountFailureEffect ==
  ASSUME stats \in Stats, NEW t \in Topic, CountFailure(t)
  PROVE  /\ \A o \in Topic : stats'.failedWrites[o]
                             = stats.failedWrites[o] + (IF o = t THEN 1 ELSE 0)
         /\ stats'.total = stats.total + 1
         /\ Total' = Total + 1
<1>1. \A o \in Topic : stats'.failedWrites[o]
                       = stats.failedWrites[o] + (IF o = t THEN 1 ELSE 0)
  BY DEF CountFailure, Stats
<1>2. stats'.total = stats.total + 1
  BY DEF CountFailure, Stats
<1>3. stats.failedWrites \in [Topic -> Nat]
  BY DEF Stats
<1>4. PICK f, g : f = stats.failedWrites /\ g = stats'.failedWrites
  OBVIOUS
<1>5. /\ f \in [Topic -> Nat]
      /\ \A o \in Topic : g[o] = f[o] + (IF o = t THEN 1 ELSE 0)
  BY <1>1, <1>3, <1>4
<1>6. Sums(Topic, g)[Topic] = Sums(Topic, f)[Topic] + 1
  BY <1>5, SumGrows
<1>7. Total = Sums(Topic, f)[Topic] /\ Total' = Sums(Topic, g)[Topic]
  BY <1>4 DEF Total
<1>. QED BY <1>1, <1>2, <1>6, <1>7

\* Steps that count nothing and hand over nothing.
LEMMA NothingCounted ==
  ASSUME AtHand, Counted, UNCHANGED <<failing, messages>>,
         stats'.failedWrites = stats.failedWrites, stats'.total = stats.total
  PROVE  AtHand' /\ Counted'
<1>1. AtHand'
  BY DEF AtHand, Failing
<1>2. Total' = Total
  BY DEF Total
<1>3. \A t \in Topic : Counting(t)' = Counting(t)
  BY DEF Counting
<1>. QED BY <1>1, <1>2, <1>3 DEF Counted, messages

\* One topic's account still balances when both of its sides change by as much.
LEMMA StillBalanced ==
  ASSUME NEW o \in Topic, NEW w \in Int, NEW d \in Int, NEW i \in Int, NEW f \in Int, NEW c \in Int,
         written[o] \in Nat, delivered[o] \in Nat, inFlight[o] \in Nat,
         stats.failedWrites[o] \in Nat, Counting(o) \in Nat,
         written[o] = delivered[o] + inFlight[o] + stats.failedWrites[o] + Counting(o),
         written'[o] = written[o] + w, delivered'[o] = delivered[o] + d,
         inFlight'[o] = inFlight[o] + i, stats'.failedWrites[o] = stats.failedWrites[o] + f,
         Counting(o)' = Counting(o) + c, w = d + i + f + c
  PROVE  written'[o] = delivered'[o] + inFlight'[o] + stats'.failedWrites[o] + Counting(o)'
OBVIOUS

LEMMA NextCounted ==
  ASSUME TypeOK, AtHand, Counted, [Next]_vars
  PROVE  AtHand' /\ Counted'
<1>. USE DEF world, messages, store
<1>0. /\ stats \in Stats
      /\ \A t \in Topic : /\ written[t] \in Nat /\ delivered[t] \in Nat /\ inFlight[t] \in Nat
                          /\ stats.failedWrites[t] \in Nat
                          /\ Failing(t) = {w \in Writer : t \in failing[w]}
                          /\ IsFiniteSet(Failing(t))
                          /\ Counting(t) = Cardinality(Failing(t)) /\ Counting(t) \in Nat
                          /\ written[t] = delivered[t] + inFlight[t]
                                          + stats.failedWrites[t] + Counting(t)
      /\ stats.total = Total
  <2>1. stats \in Stats
    BY DEF TypeOK
  <2>2. ASSUME NEW t \in Topic
        PROVE  /\ written[t] \in Nat /\ delivered[t] \in Nat /\ inFlight[t] \in Nat
               /\ stats.failedWrites[t] \in Nat
    BY <2>1 DEF TypeOK, Stats
  <2>3. ASSUME NEW t \in Topic
        PROVE  /\ Failing(t) = {w \in Writer : t \in failing[w]}
               /\ IsFiniteSet(Failing(t))
               /\ Counting(t) = Cardinality(Failing(t)) /\ Counting(t) \in Nat
    <3>1. IsFiniteSet(Failing(t))
      BY DEF AtHand
    <3>2. Counting(t) = Cardinality(Failing(t))
      BY DEF Counting, Failing
    <3>. QED BY <3>1, <3>2, FS_CardinalityType DEF Failing
  <2>. QED BY <2>1, <2>2, <2>3 DEF Counted
<1>1. ASSUME NEW w \in Writer, NEW t \in Topic, WriteMessage(w, t)
      PROVE  AtHand' /\ Counted'
  <2>1. /\ UNCHANGED <<stats, delivered>> /\ failing[w] = {}
        /\ \A o \in Topic : written'[o] = written[o] + (IF o = t THEN 1 ELSE 0)
    BY <1>1 DEF WriteMessage, TypeOK
  <2>2. Total' = Total
    BY <2>1 DEF Total
  <2>3. CASE inFlight' = [inFlight EXCEPT ![t] = @ + 1] /\ UNCHANGED failing
    <3>1. \A o \in Topic : inFlight'[o] = inFlight[o] + (IF o = t THEN 1 ELSE 0)
      BY <2>3 DEF TypeOK
    <3>2. AtHand' /\ \A o \in Topic : Counting(o)' = Counting(o)
      BY <2>3 DEF AtHand, Failing, Counting
    <3>3. ASSUME NEW o \in Topic
          PROVE  written'[o] = delivered'[o] + inFlight'[o]
                               + stats'.failedWrites[o] + Counting(o)'
      <4>1. PICK n, m \in Int : n = (IF o = t THEN 1 ELSE 0) /\ m = -n
        OBVIOUS
      <4>2. /\ written'[o] = written[o] + n
            /\ delivered'[o] = delivered[o] + 0
            /\ inFlight'[o] = inFlight[o] + n
            /\ stats'.failedWrites[o] = stats.failedWrites[o] + 0
            /\ Counting(o)' = Counting(o) + 0
        BY <4>1, <1>0, <2>1, <3>1, <3>2
      <4>3. /\ 0 \in Int /\ m \in Int
            /\ n = 0 + n + 0 + 0
        BY <4>1
      <4>4. /\ written[o] \in Nat /\ delivered[o] \in Nat /\ inFlight[o] \in Nat
            /\ stats.failedWrites[o] \in Nat /\ Counting(o) \in Nat
            /\ written[o] = delivered[o] + inFlight[o] + stats.failedWrites[o] + Counting(o)
        BY <1>0
      <4>. QED BY <4>2, <4>3, <4>4, StillBalanced
    <3>. QED BY <1>0, <2>1, <2>2, <3>2, <3>3 DEF Counted
  <2>4. CASE failing' = [failing EXCEPT ![w] = {t}] /\ UNCHANGED inFlight
    <3>1. /\ Failing(t)' = Failing(t) \cup {w} /\ w \notin Failing(t)
          /\ \A o \in Topic \ {t} : Failing(o)' = Failing(o)
      BY <2>1, <2>4 DEF Failing, TypeOK
    <3>2. /\ IsFiniteSet(Failing(t)')
          /\ Cardinality(Failing(t)') = Cardinality(Failing(t)) + 1
      <4>1. IsFiniteSet(Failing(t))
        BY <1>0
      <4>2. PICK S, T : S = Failing(t) /\ T = Failing(t)'
        OBVIOUS
      <4>3. IsFiniteSet(S) /\ w \notin S /\ T = S \cup {w}
        BY <3>1, <4>1, <4>2
      <4>4. IsFiniteSet(T) /\ Cardinality(T) = Cardinality(S) + 1
        BY <4>3, FS_AddElement
      <4>. QED BY <4>2, <4>4
    <3>3. \A o \in Topic : Counting(o)' = Counting(o) + (IF o = t THEN 1 ELSE 0)
      <4>1. \A o \in Topic : Counting(o)' = Cardinality(Failing(o)')
        BY DEF Counting, Failing
      <4>2. Counting(t)' = Counting(t) + 1
        BY <1>0, <3>2, <4>1
      <4>3. ASSUME NEW o \in Topic, o # t
            PROVE  Counting(o)' = Counting(o) + 0
        <5>1. Counting(o)' = Counting(o) /\ Counting(o) \in Nat
          BY <1>0, <3>1, <4>1, <4>3
        <5>. QED BY <5>1
      <4>. QED BY <4>2, <4>3
    <3>4. AtHand'
      <4>1. \A v \in Writer : failing'[v] = failing[v] \/ failing'[v] = {t}
        BY <2>4 DEF TypeOK
      <4>2. \A o \in Topic : IsFiniteSet(Failing(o)')
        BY <1>0, <3>1, <3>2
      <4>. QED BY <4>1, <4>2 DEF AtHand
    <3>5. ASSUME NEW o \in Topic
          PROVE  written'[o] = delivered'[o] + inFlight'[o]
                               + stats'.failedWrites[o] + Counting(o)'
      <4>1. PICK n, m \in Int : n = (IF o = t THEN 1 ELSE 0) /\ m = -n
        OBVIOUS
      <4>2. /\ written'[o] = written[o] + n
            /\ delivered'[o] = delivered[o] + 0
            /\ inFlight'[o] = inFlight[o] + 0
            /\ stats'.failedWrites[o] = stats.failedWrites[o] + 0
            /\ Counting(o)' = Counting(o) + n
        BY <4>1, <1>0, <2>1, <2>4, <3>3
      <4>3. /\ 0 \in Int /\ m \in Int
            /\ n = 0 + 0 + 0 + n
        BY <4>1
      <4>4. /\ written[o] \in Nat /\ delivered[o] \in Nat /\ inFlight[o] \in Nat
            /\ stats.failedWrites[o] \in Nat /\ Counting(o) \in Nat
            /\ written[o] = delivered[o] + inFlight[o] + stats.failedWrites[o] + Counting(o)
        BY <1>0
      <4>. QED BY <4>2, <4>3, <4>4, StillBalanced
    <3>. QED BY <1>0, <2>1, <2>2, <3>4, <3>5 DEF Counted
  <2>. QED BY <1>1, <2>3, <2>4 DEF WriteMessage
<1>2. ASSUME NEW w \in Writer, WriteFails(w)
      PROVE  AtHand' /\ Counted'
  <2>1. PICK t \in Topic : failing[w] = {t} /\ CountFailure(t)
    BY <1>2 DEF WriteFails, AtHand
  <2>2. /\ \A o \in Topic : stats'.failedWrites[o]
                            = stats.failedWrites[o] + (IF o = t THEN 1 ELSE 0)
        /\ stats'.total = stats.total + 1
        /\ Total' = Total + 1
    BY <1>0, <2>1, CountFailureEffect
  <2>3. UNCHANGED <<written, inFlight, delivered>> /\ failing' = [failing EXCEPT ![w] = {}]
    BY <1>2 DEF WriteFails
  <2>4. /\ Failing(t)' = Failing(t) \ {w} /\ w \in Failing(t)
        /\ \A o \in Topic \ {t} : Failing(o)' = Failing(o)
    BY <2>1, <2>3 DEF Failing, TypeOK
  <2>5. /\ IsFiniteSet(Failing(t)')
        /\ Cardinality(Failing(t)') = Cardinality(Failing(t)) - 1
    <3>1. IsFiniteSet(Failing(t))
      BY <1>0
    <3>2. PICK S, T : S = Failing(t) /\ T = Failing(t)'
      OBVIOUS
    <3>3. IsFiniteSet(S) /\ w \in S /\ T = S \ {w}
      BY <2>4, <3>1, <3>2
    <3>4. IsFiniteSet(T) /\ Cardinality(T) = Cardinality(S) - 1
      BY <3>3, FS_RemoveElement
    <3>. QED BY <3>2, <3>4
  <2>6. \A o \in Topic : Counting(o)' = Counting(o) - (IF o = t THEN 1 ELSE 0)
    <3>1. \A o \in Topic : Counting(o)' = Cardinality(Failing(o)')
      BY DEF Counting, Failing
    <3>2. Counting(t)' = Counting(t) - 1
      BY <1>0, <2>5, <3>1
    <3>3. ASSUME NEW o \in Topic, o # t
          PROVE  Counting(o)' = Counting(o) - 0
      <4>1. Counting(o)' = Counting(o) /\ Counting(o) \in Nat
        BY <1>0, <2>4, <3>1, <3>3
      <4>. QED BY <4>1
    <3>. QED BY <3>2, <3>3
  <2>7. AtHand'
    <3>1. \A v \in Writer : failing'[v] = failing[v] \/ failing'[v] = {}
      BY <2>3 DEF TypeOK
    <3>2. \A o \in Topic : IsFiniteSet(Failing(o)')
      BY <1>0, <2>4, <2>5
    <3>. QED BY <3>1, <3>2 DEF AtHand
  <2>8. ASSUME NEW o \in Topic
        PROVE  written'[o] = delivered'[o] + inFlight'[o]
                             + stats'.failedWrites[o] + Counting(o)'
    <3>1. PICK n, m \in Int : n = (IF o = t THEN 1 ELSE 0) /\ m = -n
      OBVIOUS
    <3>2. /\ written'[o] = written[o] + 0
          /\ delivered'[o] = delivered[o] + 0
          /\ inFlight'[o] = inFlight[o] + 0
          /\ stats'.failedWrites[o] = stats.failedWrites[o] + n
          /\ Counting(o)' = Counting(o) + m
      BY <3>1, <1>0, <2>2, <2>3, <2>6
    <3>3. /\ 0 \in Int /\ m \in Int
          /\ 0 = 0 + 0 + n + m
      BY <3>1
    <3>4. /\ written[o] \in Nat /\ delivered[o] \in Nat /\ inFlight[o] \in Nat
          /\ stats.failedWrites[o] \in Nat /\ Counting(o) \in Nat
          /\ written[o] = delivered[o] + inFlight[o] + stats.failedWrites[o] + Counting(o)
      BY <1>0
    <3>. QED BY <3>2, <3>3, <3>4, StillBalanced
  <2>9. stats'.total = Total'
    BY <1>0, <2>2
  <2>. QED BY <2>7, <2>8, <2>9 DEF Counted
<1>3. ASSUME NEW t \in Topic, Delivered(t)
      PROVE  AtHand' /\ Counted'
  <2>1. /\ UNCHANGED <<stats, failing, written>>
        /\ \A o \in Topic : delivered'[o] = delivered[o] + (IF o = t THEN 1 ELSE 0)
        /\ \A o \in Topic : inFlight'[o] = inFlight[o] - (IF o = t THEN 1 ELSE 0)
    BY <1>3 DEF Delivered, TypeOK
  <2>2. AtHand' /\ \A o \in Topic : Counting(o)' = Counting(o)
    BY <2>1 DEF AtHand, Failing, Counting
  <2>3. ASSUME NEW o \in Topic
        PROVE  written'[o] = delivered'[o] + inFlight'[o]
                             + stats'.failedWrites[o] + Counting(o)'
    <3>1. PICK n, m \in Int : n = (IF o = t THEN 1 ELSE 0) /\ m = -n
      OBVIOUS
    <3>2. /\ written'[o] = written[o] + 0
          /\ delivered'[o] = delivered[o] + n
          /\ inFlight'[o] = inFlight[o] + m
          /\ stats'.failedWrites[o] = stats.failedWrites[o] + 0
          /\ Counting(o)' = Counting(o) + 0
      BY <3>1, <1>0, <2>1, <2>2
    <3>3. /\ 0 \in Int /\ m \in Int
          /\ 0 = n + m + 0 + 0
      BY <3>1
    <3>4. /\ written[o] \in Nat /\ delivered[o] \in Nat /\ inFlight[o] \in Nat
          /\ stats.failedWrites[o] \in Nat /\ Counting(o) \in Nat
          /\ written[o] = delivered[o] + inFlight[o] + stats.failedWrites[o] + Counting(o)
      BY <1>0
    <3>. QED BY <3>2, <3>3, <3>4, StillBalanced
  <2>4. Total' = Total
    BY <2>1 DEF Total
  <2>. QED BY <1>0, <2>1, <2>2, <2>3, <2>4 DEF Counted
<1>4. ASSUME NEW t \in Topic, DeliveryFails(t)
      PROVE  AtHand' /\ Counted'
  <2>1. /\ UNCHANGED <<failing, written, delivered>> /\ CountFailure(t)
        /\ \A o \in Topic : inFlight'[o] = inFlight[o] - (IF o = t THEN 1 ELSE 0)
    BY <1>4 DEF DeliveryFails, TypeOK
  <2>2. AtHand' /\ \A o \in Topic : Counting(o)' = Counting(o)
    BY <2>1 DEF AtHand, Failing, Counting
  <2>3. /\ \A o \in Topic : stats'.failedWrites[o]
                            = stats.failedWrites[o] + (IF o = t THEN 1 ELSE 0)
        /\ stats'.total = stats.total + 1
        /\ Total' = Total + 1
    BY <1>0, <2>1, CountFailureEffect
  <2>4. ASSUME NEW o \in Topic
        PROVE  written'[o] = delivered'[o] + inFlight'[o]
                             + stats'.failedWrites[o] + Counting(o)'
    <3>1. PICK n, m \in Int : n = (IF o = t THEN 1 ELSE 0) /\ m = -n
      OBVIOUS
    <3>2. /\ written'[o] = written[o] + 0
          /\ delivered'[o] = delivered[o] + 0
          /\ inFlight'[o] = inFlight[o] + m
          /\ stats'.failedWrites[o] = stats.failedWrites[o] + n
          /\ Counting(o)' = Counting(o) + 0
      BY <3>1, <1>0, <2>1, <2>2, <2>3
    <3>3. /\ 0 \in Int /\ m \in Int
          /\ 0 = 0 + m + n + 0
      BY <3>1
    <3>4. /\ written[o] \in Nat /\ delivered[o] \in Nat /\ inFlight[o] \in Nat
          /\ stats.failedWrites[o] \in Nat /\ Counting(o) \in Nat
          /\ written[o] = delivered[o] + inFlight[o] + stats.failedWrites[o] + Counting(o)
      BY <1>0
    <3>. QED BY <3>2, <3>3, <3>4, StillBalanced
  <2>5. stats'.total = Total'
    BY <1>0, <2>3
  <2>. QED BY <2>2, <2>4, <2>5 DEF Counted
<1>5. ASSUME NEW g \in {"main", "loop"}, CreateTopics(g) \/ Record(g)
      PROVE  AtHand' /\ Counted'
  <2>1. /\ UNCHANGED <<failing, messages>>
        /\ stats'.failedWrites = stats.failedWrites /\ stats'.total = stats.total
    BY <1>0, <1>5 DEF CreateTopics, Record, Recorded, Stats
  <2>. QED BY <2>1, NothingCounted
<1>6. CASE \/ DialFails \/ Connect \/ SleepEnds
           \/ CloseBegins \/ StopWaits \/ CloseWriter \/ Flushed
           \/ \E how \in {"up", "refusing", "down"} : BrokerChanges(how)
           \/ UNCHANGED vars
  <2>1. /\ UNCHANGED <<failing, messages>>
        /\ stats'.failedWrites = stats.failedWrites /\ stats'.total = stats.total
    BY <1>0, <1>6 DEF DialFails, Connect, SleepEnds, CloseBegins, StopWaits, CloseWriter, Flushed,
                      BrokerChanges, vars, Stats
  <2>. QED BY <2>1, NothingCounted
<1>. QED BY <1>1, <1>2, <1>3, <1>4, <1>5, <1>6 DEF Next, Main, Loop

LEMMA InitCounted == Init => AtHand /\ Counted
<1>. SUFFICES ASSUME Init PROVE AtHand /\ Counted
  OBVIOUS
<1>1. \A t \in Topic : Failing(t) = {}
  BY DEF Init, Failing
<1>2. AtHand
  BY <1>1, FS_EmptySet DEF Init, AtHand
<1>3. \A t \in Topic : Counting(t) = 0
  BY <1>1, FS_EmptySet DEF Counting, Failing
<1>4. /\ \A t \in Topic : stats.failedWrites[t] = 0 /\ written[t] = 0
                          /\ delivered[t] = 0 /\ inFlight[t] = 0
      /\ stats.total = 0
  BY DEF Init, DisconnectedStats
<1>5. Total = 0
  <2>1. PICK f : f = stats.failedWrites
    OBVIOUS
  <2>2. \A t \in Topic : f[t] = 0
    BY <1>4, <2>1
  <2>3. Sums(Topic, f)[Topic] = 0
    BY <2>2, SumOfZeros
  <2>. QED BY <2>1, <2>3 DEF Total
<1>. QED BY <1>2, <1>3, <1>4, <1>5 DEF Counted

(***************************************************************************)
(* The theorems.                                                           *)
(***************************************************************************)

KInv == TypeOK /\ Budget /\ Phases /\ ReadyMeansExists /\ Answered /\ AtHand /\ Counted

LEMMA InitInv == Init => KInv
<1>. SUFFICES ASSUME Init PROVE KInv
  OBVIOUS
<1>1. Phases /\ Answered
  BY DEF Init, Phases, Answered
<1>2. ReadyMeansExists
  BY DEF Init, DisconnectedStats, ReadyMeansExists
<1>. QED BY InitType, InitCounted, <1>1, <1>2 DEF KInv

LEMMA SpecInv == Spec => []KInv
<1>1. KInv /\ [Next]_vars => KInv'
  BY NextType, NextPhases, NextKnown, NextCounted DEF KInv
<1>. QED BY InitInv, <1>1, PTL DEF Spec

\* TypeOK: main tries to connect no more often than MaxTries, and no counter of
\* messages exceeds the number written.
THEOREM TypeCorrect == Spec => []TypeOK
<1>1. KInv => TypeOK
  BY DEF KInv
<1>. QED BY <1>1, SpecInv, PTL

\* ReadyMeansExists: what the status says of a topic, and of all of them, the broker
\* has confirmed, however attempts fail, overlap with the broker's moods, or are cut short.
THEOREM ReadyIsTrue == Spec => []ReadyMeansExists
<1>1. KInv => ReadyMeansExists
  BY DEF KInv
<1>. QED BY <1>1, SpecInv, PTL

\* QuietAfterClose: when main ends, the retry loop has ended, no callback is
\* outstanding and the status says disconnected.
THEOREM ClosedIsQuiet == Spec => []QuietAfterClose
<1>1. KInv => QuietAfterClose
  BY DEF KInv, Phases, QuietAfterClose, At
<1>. QED BY <1>1, SpecInv, PTL

\* FailuresAddUp: no message vanishes and none is counted twice, and the total of the
\* status is the sum of the failures of its topics, for any number of writers and topics.
THEOREM NothingUncounted == Spec => []FailuresAddUp
<1>1. KInv => FailuresAddUp
  BY CountedAddsUp DEF KInv
<1>. QED BY <1>1, SpecInv, PTL

=============================================================================
