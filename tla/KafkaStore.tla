----------------------------- MODULE KafkaStore -----------------------------
(***************************************************************************)
(* The event store (eventStore/kafka.go, ensure.go) as the orchestrator    *)
(* uses it: main makes a store and connects it, up to MaxTries times with  *)
(* a new store each; message processors and requests write to it; main     *)
(* closes it last.  Topics are created by main in Connect and, if that     *)
(* fails, by a goroutine that tries again until it succeeds or is told to  *)
(* stop.  Messages are delivered by the writer of kafka-go, which reports  *)
(* each outcome later through a callback.                                  *)
(*                                                                         *)
(* Stats are changed under one lock, for which nobody waits long: each     *)
(* critical section is part of a step.  How long a retry waits decides     *)
(* nothing here and is left out, and so are the texts of errors.           *)
(***************************************************************************)
EXTENDS Naturals, FiniteSets, FiniteSetsExt

CONSTANTS
  Topic,      \* the producer topics, Topics()
  Writer,     \* goroutines that call WriteMessage
  MaxTries,   \* maxRetries, 3 in main
  MaxWrites   \* bound: messages written per topic

ASSUME TopicAssumption == IsFiniteSet(Topic) /\ Topic # {}
ASSUME TriesAssumption == MaxTries \in Nat \ {0} /\ MaxWrites \in Nat

VARIABLES
  at,         \* where main and the retry loop are
  tries,      \* connections main has tried
  cancelled,  \* ctx of the retry loop is done
  outcome,    \* what CreateTopics returned, until it is recorded
  stats,      \* s.stats of the store in use
  client,     \* s.writer: none, open or closed
  inFlight,   \* messages handed to it whose outcome is not reported yet
  failing,    \* the message each writer has failed to hand over and not counted
  broker,     \* how the broker behaves at the moment
  exists,     \* topics that exist on the broker
  written,    \* history: messages WriteMessage was called with
  delivered   \* history: messages the broker has taken

store == <<tries, cancelled, stats, client>>
world == <<broker, exists>>
messages == <<inFlight, written, delivered>>
vars == <<at, outcome, failing, store, world, messages>>

Step == { "dial", "request", "record", "serve", "wait", "close", "flush", "down",
          "off", "sleep", "ended" }

Stats ==
  [ connected    : BOOLEAN,
    topicsReady  : BOOLEAN,
    ready        : [Topic -> BOOLEAN],
    failedWrites : [Topic -> Nat],
    total        : Nat ]

\* DisconnectedStats: every topic listed, none ready, nothing failed yet.
DisconnectedStats ==
  [ connected |-> FALSE, topicsReady |-> FALSE,
    ready |-> [t \in Topic |-> FALSE],
    failedWrites |-> [t \in Topic |-> 0], total |-> 0 ]

\* The request failed as a whole, or it was answered and some topics were refused.
Outcome == [error : BOOLEAN, refused : SUBSET Topic]

Refusing(topics) == [error |-> FALSE, refused |-> topics]

RequestError == [error |-> TRUE, refused |-> {}]

AllReady == Refusing({})

TypeOK ==
  /\ at \in [{"main", "loop"} -> Step]
  /\ tries \in 0 .. MaxTries
  /\ cancelled \in BOOLEAN
  /\ outcome \in Outcome
  /\ stats \in Stats
  /\ client \in {"none", "open", "closed"}
  /\ inFlight \in [Topic -> 0 .. MaxWrites]
  /\ failing \in [Writer -> SUBSET Topic]
  /\ broker \in {"up", "refusing", "down"}
  /\ exists \subseteq Topic
  /\ written \in [Topic -> 0 .. MaxWrites]
  /\ delivered \in [Topic -> 0 .. MaxWrites]

Init ==
  /\ at = [g \in {"main", "loop"} |-> IF g = "main" THEN "dial" ELSE "off"]
  /\ tries = 0 /\ cancelled = FALSE /\ outcome = AllReady
  /\ stats = DisconnectedStats
  /\ client = "none"
  /\ inFlight = [t \in Topic |-> 0]
  /\ failing = [w \in Writer |-> {}]
  /\ broker \in {"up", "refusing", "down"}
  /\ exists \in SUBSET Topic
  /\ written = [t \in Topic |-> 0] /\ delivered = [t \in Topic |-> 0]

-----------------------------------------------------------------------------

At(g, step) == at[g] = step

Goto(g, step) == at' = [at EXCEPT ![g] = step]

-----------------------------------------------------------------------------
(* main: New and Connect.                                                  *)

\* Mutant: one attempt too many.
DialFailsOnceMore ==
  /\ At("main", "dial")
  /\ broker = "down"
  /\ tries' = tries + 1
  /\ Goto("main", IF tries = MaxTries THEN "serve" ELSE "dial")
  /\ UNCHANGED <<outcome, failing, cancelled, stats, client, world, messages>>

\* The broker does not answer.  The next try is made with a new store; after the
\* last, main goes on with a store that never connected.
DialFails ==
  /\ At("main", "dial")
  /\ broker = "down"
  /\ tries' = tries + 1
  /\ Goto("main", IF tries' = MaxTries THEN "serve" ELSE "dial")
  /\ UNCHANGED <<outcome, failing, cancelled, stats, client, world, messages>>

Connect ==
  /\ At("main", "dial")
  /\ broker # "down"
  /\ tries' = tries + 1
  /\ client' = "open"
  /\ stats' = [stats EXCEPT !.connected = TRUE]
  /\ Goto("main", "request")
  /\ UNCHANGED <<outcome, failing, cancelled, world, messages>>

-----------------------------------------------------------------------------
(* ensureTopicsOnce, called by main once and by the retry loop.            *)

\* One CreateTopics round trip.  A broker that refuses topics may refuse any of them,
\* and a request whose answer is lost may have been carried out.
CreateTopics(g) ==
  /\ At(g, "request")
  /\ \/ /\ broker # "down"
        /\ \E refused \in SUBSET Topic :
             /\ broker = "up" => refused = {}
             /\ outcome' = Refusing(refused)
             /\ exists' = exists \cup (Topic \ refused)
     \/ /\ broker # "up" \/ (g = "loop" /\ cancelled)
        /\ outcome' = RequestError
        /\ \E created \in SUBSET Topic :
             /\ broker = "down" => created = {}
             /\ exists' = exists \cup created
  /\ Goto(g, "record")
  /\ UNCHANGED <<failing, store, broker, messages>>

\* Mutant: topics are ready once the broker has answered.
RecordedHasty ==
  IF outcome.error
  THEN [stats EXCEPT !.topicsReady = FALSE]
  ELSE [stats EXCEPT !.topicsReady = TRUE, !.ready = [t \in Topic |-> t \notin outcome.refused]]

\* A request that failed says nothing about any topic.
Recorded ==
  IF outcome.error
  THEN [stats EXCEPT !.topicsReady = FALSE]
  ELSE [stats EXCEPT !.topicsReady = outcome.refused = {},
                     !.ready = [t \in Topic |-> t \notin outcome.refused]]

\* Mutant: a request that fails as a whole ends the retries.
AfterAttemptGivesUp(g) ==
  IF g = "main" THEN [at EXCEPT !["main"] = "serve",
                                !["loop"] = IF outcome = AllReady THEN "ended" ELSE "sleep"]
  ELSE [at EXCEPT !["loop"] =
          IF outcome.error \/ outcome.refused = {} \/ cancelled THEN "ended" ELSE "sleep"]

\* Mutant: the retry loop does not look at its context.
AfterAttemptDeaf(g) ==
  IF g = "main" THEN [at EXCEPT !["main"] = "serve",
                                !["loop"] = IF outcome = AllReady THEN "ended" ELSE "sleep"]
  ELSE [at EXCEPT !["loop"] = IF outcome = AllReady THEN "ended" ELSE "sleep"]

\* main starts the retry loop unless every topic is ready; the loop ends when every
\* topic is, or when it is told to.  "ended" is a closed ensureDone.
AfterAttempt(g) ==
  IF g = "main" THEN [at EXCEPT !["main"] = "serve",
                                !["loop"] = IF outcome = AllReady THEN "ended" ELSE "sleep"]
  ELSE [at EXCEPT !["loop"] = IF outcome = AllReady \/ cancelled THEN "ended" ELSE "sleep"]

Record(g) ==
  /\ At(g, "record")
  /\ stats' = Recorded
  /\ at' = AfterAttempt(g)
  /\ outcome' = AllReady
  /\ UNCHANGED <<failing, tries, cancelled, client, world, messages>>

\* sleepCtx: the timer, or the context.
SleepEnds ==
  /\ At("loop", "sleep")
  /\ \/ Goto("loop", "request")
     \/ cancelled /\ Goto("loop", "ended")
  /\ UNCHANGED <<outcome, failing, store, world, messages>>

-----------------------------------------------------------------------------
(* WriteMessage, and the writer's callback.                                *)

CountFailure(t) ==
  stats' = [stats EXCEPT !.failedWrites[t] = @ + 1, !.total = @ + 1]

\* The message is handed over, or fails at once: there was never a connection, the
\* writer is closed, or it cannot learn where the topic's partition is.
WriteMessage(w, t) ==
  /\ failing[w] = {}
  /\ at["main"] \in {"serve", "wait", "close", "flush"}
  /\ written[t] < MaxWrites
  /\ written' = [written EXCEPT ![t] = @ + 1]
  /\ \/ /\ client = "open" /\ t \in exists
        /\ inFlight' = [inFlight EXCEPT ![t] = @ + 1]
        /\ UNCHANGED failing
     \/ /\ client # "open" \/ broker # "up" \/ t \notin exists
        /\ failing' = [failing EXCEPT ![w] = {t}]
        /\ UNCHANGED inFlight
  /\ UNCHANGED <<at, outcome, store, world, delivered>>

\* Mutant: what cannot be handed over is logged only.
WriteFailsUncounted(w) ==
  /\ failing[w] # {}
  /\ failing' = [failing EXCEPT ![w] = {}]
  /\ UNCHANGED <<at, outcome, store, world, messages>>

WriteFails(w) ==
  /\ \E t \in failing[w] : CountFailure(t)
  /\ failing' = [failing EXCEPT ![w] = {}]
  /\ UNCHANGED <<at, outcome, tries, cancelled, client, world, messages>>

\* Completion: what became of a message handed over before.
Delivered(t) ==
  /\ inFlight[t] > 0
  /\ broker # "down"
  /\ inFlight' = [inFlight EXCEPT ![t] = @ - 1]
  /\ delivered' = [delivered EXCEPT ![t] = @ + 1]
  /\ UNCHANGED <<at, outcome, failing, store, world, written>>

DeliveryFails(t) ==
  /\ inFlight[t] > 0
  /\ broker # "up"
  /\ inFlight' = [inFlight EXCEPT ![t] = @ - 1]
  /\ CountFailure(t)
  /\ UNCHANGED <<at, outcome, failing, tries, cancelled, client, world, written, delivered>>

-----------------------------------------------------------------------------
(* main: Close.                                                            *)

\* stopEnsure: cancel the retry loop, if there ever was a connection ...
CloseBegins ==
  /\ At("main", "serve")
  /\ cancelled' = (client # "none")
  /\ Goto("main", "wait")
  /\ UNCHANGED <<outcome, failing, tries, stats, client, world, messages>>

\* Mutant: Close cancels the loop and does not wait for it.
StopWaitsForNobody ==
  /\ At("main", "wait")
  /\ stats' = [stats EXCEPT !.connected = FALSE]
  /\ Goto("main", "close")
  /\ UNCHANGED <<outcome, failing, tries, cancelled, client, world, messages>>

\* ... and wait until it has ended.
StopWaits ==
  /\ At("main", "wait")
  /\ at["loop"] \in {"off", "ended"}
  /\ stats' = [stats EXCEPT !.connected = FALSE]
  /\ Goto("main", "close")
  /\ UNCHANGED <<outcome, failing, tries, cancelled, client, world, messages>>

\* From now on nothing is handed over to the writer, ...
CloseWriter ==
  /\ At("main", "close")
  /\ client' = IF client = "open" THEN "closed" ELSE client
  /\ Goto("main", "flush")
  /\ UNCHANGED <<outcome, failing, tries, cancelled, stats, world, messages>>

\* ... and when what was has its outcome, Close returns and main ends.
Flushed ==
  /\ At("main", "flush")
  /\ \A t \in Topic : inFlight[t] = 0
  /\ Goto("main", "down")
  /\ UNCHANGED <<outcome, failing, store, world, messages>>

-----------------------------------------------------------------------------

BrokerChanges(how) ==
  /\ broker # how
  /\ broker' = how
  /\ UNCHANGED <<at, outcome, failing, store, exists, messages>>

Main ==
  \/ DialFails \/ Connect
  \/ CreateTopics("main") \/ Record("main")
  \/ StopWaits \/ CloseWriter \/ Flushed

Loop == CreateTopics("loop") \/ Record("loop") \/ SleepEnds

Alive == ~At("main", "down")

Next ==
  /\ Alive
  /\ \/ Main \/ Loop
     \/ CloseBegins
     \/ \E w \in Writer : WriteFails(w) \/ \E t \in Topic : WriteMessage(w, t)
     \/ \E t \in Topic : Delivered(t) \/ DeliveryFails(t)
     \/ \E how \in {"up", "refusing", "down"} : BrokerChanges(how)

Spec == Init /\ [][Next]_vars

\* main and the loop go on: each attempt has a timeout, and so has each delivery.
\* Nobody has to write, and nobody has to ask main to end.
Fairness ==
  /\ WF_vars(Alive /\ Main)
  /\ WF_vars(Alive /\ Loop)
  /\ \A w \in Writer : WF_vars(Alive /\ WriteFails(w))
  /\ \A t \in Topic : WF_vars(Alive /\ (Delivered(t) \/ DeliveryFails(t)))

FairSpec == Spec /\ Fairness

-----------------------------------------------------------------------------
(* Safety.                                                                 *)

\* "Ready is true once the topic is known to exist on the broker", and TopicsReady
\* once every topic does (the comments on Stats): neither is ever ahead of the broker,
\* whatever attempts failed, half succeeded or were cut short by Close before.
ReadyMeansExists ==
  /\ \A t \in Topic : stats.ready[t] => t \in exists
  /\ stats.topicsReady => \A t \in Topic : stats.ready[t]

\* No message vanishes: each one was taken by the broker, is on its way, or is counted
\* as failed under its topic and in the total, or about to be.  That holds for a
\* store that never connected and for writes that race with Close.
Counting(t) == Cardinality({w \in Writer : t \in failing[w]})

FailuresAddUp ==
  /\ \A t \in Topic :
       written[t] = delivered[t] + inFlight[t] + stats.failedWrites[t] + Counting(t)
  /\ stats.total = MapThenSumSet(LAMBDA t : stats.failedWrites[t], Topic)

\* When Close has returned the store is at rest: no attempt to create topics is under
\* way or to come, no callback is outstanding, and the status says disconnected.
QuietAfterClose ==
  At("main", "down") =>
    /\ at["loop"] \in {"off", "ended"}
    /\ \A t \in Topic : inFlight[t] = 0
    /\ ~stats.connected

-----------------------------------------------------------------------------
(* Liveness.                                                               *)

\* Close does not wait for ever, whatever the retry loop is in the middle of.
CloseEnds == At("main", "wait") ~> At("main", "down")

\* A broker that comes to accept topics, however late, gets them: once connected
\* the store goes on trying until it has created every topic or is closed.
TopicsComeReady ==
  <>[](broker = "up") => [](stats.connected => <>(stats.topicsReady \/ ~stats.connected))

=============================================================================
