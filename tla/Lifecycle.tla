------------------------------ MODULE Lifecycle ------------------------------
(***************************************************************************)
(* How the orchestrator starts and stops: main, the goroutines that        *)
(* MeshServer.Start spawns and Stop waits for, the HTTP requests, which    *)
(* may stop and start the server themselves and outlive the API's          *)
(* shutdown, a timer, and the one lock they share, MeshServer.mu.          *)
(*                                                                         *)
(* mu is a sync.RWMutex: a writer that waits keeps new readers out, which  *)
(* is what makes a second RLock on the same goroutine a deadlock.  What a  *)
(* registry holds is reduced to how often it has changed, and its file to  *)
(* the number of changes the file has.                                     *)
(***************************************************************************)
EXTENDS Naturals, FiniteSets

CONSTANTS
  Link,        \* configured serial ports: "primary", perhaps "secondary"
  Request,     \* HTTP requests that can be in flight at once
  RequestKind, \* "message" (SendMessage), "data" (SendNodeData), "preset",
               \* "approve" (ApproveEnrollment), "stop" and "start" (the server)
  Frame,       \* frames that arrive: "health", "join", "route", "motion"
  MaxChanges,  \* bound: changes made to each registry
  MaxStarts    \* bound: times the server starts

ASSUME LinkAssumption == "primary" \in Link /\ Link \subseteq {"primary", "secondary"}
ASSUME KindAssumption == /\ RequestKind \subseteq {"message", "data", "preset", "approve", "stop", "start"}
                         /\ Frame \subseteq {"health", "join", "route", "motion"}
\* A second Stop panics before it waits for what the second Start spawned, so a
\* third Start could meet two goroutines of one name.
ASSUME StartsAssumption == MaxStarts \in 1 .. 2
ASSUME ChangesAssumption == MaxChanges \in Nat
ASSUME RequestAssumption ==
  /\ IsFiniteSet(Request)
  /\ Request \cap (Link \cup {"main", "timer", "detector", "auth", "node"}) = {}

Saver == {"auth", "node"}  \* the PersistLoops, one per registry

\* The goroutines wg counts.
Spawned == Link \cup Saver \cup {"detector"}

\* The goroutines that may call Stop.
Stopper == {"main"} \cup Request

Sender == Request \cup {"timer"}

Goroutine == {"main"} \cup Spawned \cup Sender

VARIABLES
  pc,         \* where each goroutine is
  job,        \* what it is doing there
  running,    \* ms.running
  starts,     \* times the server has started
  stops,      \* times it was stopped: ms.ctx is done and the stop channels are
              \* closed from the first on, and never made anew
  comms,      \* links whose SerialComm was created
  open,       \* links whose port is open
  mem, file,  \* changes each registry has had, and those its file has
  snap,       \* what the node PersistLoop is about to write
  storeOpen,  \* the event store is open
  writer,     \* who holds mu for writing, {} or a singleton
  readers,    \* who holds mu for reading
  pending,    \* writers waiting for mu
  stopped,    \* history: mem when the first Stop was granted mu,
  late        \* and whether the server was started when main had given it up

lock == <<writer, readers, pending>>
history == <<stopped, late>>
world == <<running, starts, stops, comms, open, mem, file, snap, storeOpen, history>>
vars == <<pc, job, world, lock>>

cancelled == stops > 0

Step == { "off", "done", "idle", "startLinks", "arm", "serve", "drain", "check",
          "teardown", "join", "closeStore", "down", "crashed",
          "top", "read", "pause", "handle", "select", "persist", "save",
          "assign", "rlock", "log", "write", "route", "transmit", "want", "pend" }

Job == {"none", "tick", "stop", "start", "message", "preset"} \cup RequestKind \cup Frame

TypeOK ==
  /\ pc \in [Goroutine -> Step]
  /\ job \in [Goroutine -> Job]
  /\ running \in BOOLEAN /\ storeOpen \in BOOLEAN /\ late \in BOOLEAN
  /\ starts \in 0 .. MaxStarts /\ stops \in 0 .. starts
  /\ comms \subseteq Link /\ open \subseteq comms
  /\ mem \in [Saver -> 0 .. MaxChanges] /\ file \in [Saver -> 0 .. MaxChanges]
  /\ snap \in 0 .. MaxChanges
  /\ stopped \in [Saver -> 0 .. MaxChanges]
  /\ writer \subseteq Goroutine /\ Cardinality(writer) <= 1
  /\ readers \subseteq Goroutine /\ pending \subseteq Goroutine
  /\ writer # {} => readers = {}

Init ==
  /\ pc = [g \in Goroutine |-> IF g = "main" THEN "want"
                               ELSE IF g \in Request THEN "idle" ELSE "off"]
  /\ job = [g \in Goroutine |-> IF g = "main" THEN "start" ELSE "none"]
  /\ running = FALSE /\ starts = 0 /\ stops = 0 /\ storeOpen = TRUE
  /\ comms = {} /\ open = {}
  /\ mem = [r \in Saver |-> 0] /\ file = [r \in Saver |-> 0] /\ snap = 0
  /\ stopped = [r \in Saver |-> 0] /\ late = FALSE
  /\ writer = {} /\ readers = {} /\ pending = {}

-----------------------------------------------------------------------------

At(g, step) == pc[g] = step

Goto(g, step) == pc' = [pc EXCEPT ![g] = step]

\* A goroutine starts an errand: job says which one.
Begin(g, step, what) ==
  /\ pc' = [pc EXCEPT ![g] = step]
  /\ job' = [job EXCEPT ![g] = what]

\* RLock is granted when no writer holds mu and none waits for it.
MayRead == writer = {} /\ pending = {}

\* Lock is granted to a waiting writer when nobody holds mu.
MayWrite(g) == g \in pending /\ writer = {} /\ readers = {}

\* The errand is over, and the goroutine is back where it waits for the next.
Home(g) == CASE g \in Link     -> "top"
             [] g = "detector" -> "select"
             [] g = "main"     -> "arm"
             [] g = "timer"    -> "done"
             [] g \in Request  -> "idle"

Return(g) == Begin(g, Home(g), "none")

Change(registries) ==
  mem' = [r \in Saver |-> IF r \in registries THEN mem[r] + 1 ELSE mem[r]]

\* The registries that g is about to change.
Changing(g) ==
  CASE pc[g] = "handle" /\ job[g] \in {"health", "route"} -> {"node"}
    [] pc[g] = "handle" /\ job[g] = "join" -> Saver
    [] pc[g] = "assign" -> Saver
    [] OTHER -> {}

\* Bound: nothing arrives that could take a registry past MaxChanges.
Room == \A r \in Saver :
  mem[r] + Cardinality({g \in Goroutine : r \in Changing(g)}) < MaxChanges

-----------------------------------------------------------------------------
(* Start, called by main first and then by requests.                       *)

\* Start takes mu; the server runs already, or the port does not open.
StartFails(g) ==
  /\ At(g, "pend") /\ job[g] = "start"
  /\ MayWrite(g)
  /\ pending' = pending \ {g}
  /\ IF g = "main" THEN Begin(g, "serve", "none") ELSE Return(g)
  /\ UNCHANGED <<world, writer, readers>>

StartPrimary(g) ==
  /\ At(g, "pend") /\ job[g] = "start"
  /\ MayWrite(g)
  /\ ~running
  /\ writer' = {g} /\ pending' = pending \ {g}
  /\ comms' = comms \cup {"primary"} /\ open' = open \cup {"primary"}
  /\ running' = TRUE /\ starts' = starts + 1
  /\ late' = (late \/ At("main", "closeStore"))
  /\ pc' = [pc EXCEPT ![g] = "startLinks", !["primary"] = "top"]
  /\ UNCHANGED <<job, stops, mem, file, snap, storeOpen, stopped, readers>>

\* The secondary port may not open.  Start returns, and main sets the TX power.
StartLinks(g, secondary) ==
  /\ At(g, "startLinks")
  /\ comms' = comms \cup secondary /\ open' = open \cup secondary
  /\ pc' = [h \in Goroutine |->
              CASE h = g -> IF g = "main" THEN "route" ELSE "idle"
                [] h \in secondary -> "top"
                [] h \in Saver \cup {"detector"} -> "select"
                [] OTHER -> pc[h]]
  /\ job' = [job EXCEPT ![g] = IF g = "main" THEN "preset" ELSE "none"]
  /\ writer' = {}
  /\ UNCHANGED <<running, starts, stops, mem, file, snap, storeOpen, history,
                 readers, pending>>

-----------------------------------------------------------------------------
(* Stop, called by main when it ends and by requests.                      *)

\* IsRunning, then Start or Stop if the answer is right for it.
Check(g) ==
  /\ At(g, "check")
  /\ MayRead
  /\ IF running = (job[g] = "stop") THEN Begin(g, "want", job[g])
     ELSE IF g = "main" THEN Begin(g, "closeStore", "none") ELSE Return(g)
  /\ UNCHANGED <<world, lock>>

\* Where Stop returns to.
AfterStop(g) == Begin(g, IF g = "main" THEN "closeStore" ELSE "idle", "none")

\* Somebody else stopped the server first: an error.
StopRefused(g) ==
  /\ At(g, "pend") /\ job[g] = "stop"
  /\ MayWrite(g) /\ ~running
  /\ pending' = pending \ {g}
  /\ AfterStop(g)
  /\ UNCHANGED <<world, writer, readers>>

\* Mutant: running is not reset.
StopGrantedStillRunning(g) ==
  /\ At(g, "pend") /\ job[g] = "stop"
  /\ MayWrite(g) /\ running
  /\ stops = 0
  /\ writer' = {g} /\ pending' = pending \ {g}
  /\ stops' = stops + 1
  /\ stopped' = mem
  /\ Goto(g, "teardown")
  /\ UNCHANGED <<job, running, starts, comms, open, mem, file, snap, storeOpen, late, readers>>

\* Stop has mu: cancel the context and close the stop channels.
StopGranted(g) ==
  /\ At(g, "pend") /\ job[g] = "stop"
  /\ MayWrite(g) /\ running
  /\ stops = 0
  /\ writer' = {g} /\ pending' = pending \ {g}
  /\ running' = FALSE /\ stops' = stops + 1
  /\ stopped' = mem
  /\ Goto(g, "teardown")
  /\ UNCHANGED <<job, starts, comms, open, mem, file, snap, storeOpen, late, readers>>

\* The second time the channels are closed already, and closing them panics:
\* net/http recovers for a request, whose deferred Unlock runs, and nobody for main.
StopPanics(g) ==
  /\ At(g, "pend") /\ job[g] = "stop"
  /\ MayWrite(g) /\ running
  /\ stops > 0
  /\ pending' = pending \ {g}
  /\ running' = FALSE /\ stops' = stops + 1
  /\ Begin(g, IF g = "main" THEN "crashed" ELSE "idle", "none")
  /\ UNCHANGED <<starts, comms, open, mem, file, snap, storeOpen, history, writer, readers>>

\* Mutant: Stop waits for the processors without closing their ports.
ClosePortsLater(g) ==
  /\ At(g, "teardown")
  /\ Goto(g, "join")
  /\ UNCHANGED <<job, world, lock>>

ClosePorts(g) ==
  /\ At(g, "teardown")
  /\ open' = {}
  /\ Goto(g, "join")
  /\ UNCHANGED <<job, running, starts, stops, comms, mem, file, snap, storeOpen, history, lock>>

\* Mutant: the offline detector is started without wg.Add.
JoinWithoutDetector(g) ==
  /\ At(g, "join")
  /\ \A h \in Spawned \ {"detector"} : pc[h] \in {"off", "done"}
  /\ writer' = {}
  /\ AfterStop(g)
  /\ UNCHANGED <<world, readers, pending>>

\* wg.Wait, with mu still held; then Stop returns.
Join(g) ==
  /\ At(g, "join")
  /\ \A h \in Spawned : pc[h] \in {"off", "done"}
  /\ writer' = {}
  /\ AfterStop(g)
  /\ UNCHANGED <<world, readers, pending>>

-----------------------------------------------------------------------------
(* main.                                                                   *)

\* The timer that asks for health reports two seconds later; then the API.
ArmTimer ==
  /\ At("main", "arm")
  /\ pc' = [pc EXCEPT !["main"] = "serve", !["timer"] = "idle"]
  /\ UNCHANGED <<job, world, lock>>

\* SIGINT or SIGTERM: the API takes no new requests.
Signal ==
  /\ At("main", "serve")
  /\ Goto("main", "drain")
  /\ UNCHANGED <<job, world, lock>>

\* Every request has ended, or ten seconds have passed.
Drain ==
  /\ At("main", "drain")
  /\ Begin("main", "check", "stop")
  /\ UNCHANGED <<world, lock>>

CloseStore ==
  /\ At("main", "closeStore")
  /\ storeOpen' = FALSE
  /\ Goto("main", "down")
  /\ UNCHANGED <<job, running, starts, stops, comms, open, mem, file, snap, history, lock>>

-----------------------------------------------------------------------------
(* The message processors, one per link.                                   *)

Top(l) ==
  /\ At(l, "top")
  /\ Goto(l, IF cancelled THEN "done" ELSE "read")
  /\ UNCHANGED <<job, world, lock>>

FrameArrives(l, f) ==
  /\ At(l, "read")
  /\ l \in open
  /\ f = "motion" \/ Room
  /\ Begin(l, "handle", f)
  /\ UNCHANGED <<world, lock>>

\* A bad frame, a failing port, or a port that Stop has closed.
ReadFails(l) ==
  /\ At(l, "read")
  /\ Goto(l, "pause")
  /\ UNCHANGED <<job, world, lock>>

\* 100 ms, cut short by the context.
Pause(l) ==
  /\ At(l, "pause")
  /\ \/ Goto(l, "top")
     \/ cancelled /\ Goto(l, "done")
  /\ UNCHANGED <<job, world, lock>>

\* handleMessage logs every frame to the event store, then acts on it.  A join
\* request here is one that is answered: it changes both registries.
Handle(l) ==
  /\ At(l, "handle")
  /\ Change(Changing(l))
  /\ CASE job[l] = "health" -> Goto(l, "want") /\ UNCHANGED job
       [] job[l] = "join"   -> Goto(l, "route") /\ UNCHANGED job
       [] OTHER             -> Return(l)
  /\ UNCHANGED <<running, starts, stops, comms, open, file, snap, storeOpen, history, lock>>

-----------------------------------------------------------------------------
(* The offline detector and the persistence loops.                         *)

DetectorTick ==
  /\ At("detector", "select")
  /\ Goto("detector", "want")
  /\ UNCHANGED <<job, world, lock>>

DetectorStop ==
  /\ At("detector", "select")
  /\ cancelled
  /\ Goto("detector", "done")
  /\ UNCHANGED <<job, world, lock>>

\* PersistLoop: the ticker or the stop channel, which is followed by a last save.
\* The trust registry is written with its lock held ...
AuthTick ==
  /\ At("auth", "select")
  /\ file' = [file EXCEPT !["auth"] = mem["auth"]]
  /\ UNCHANGED <<pc, job, running, starts, stops, comms, open, mem, snap, storeOpen, history, lock>>

AuthStop ==
  /\ At("auth", "select")
  /\ cancelled
  /\ file' = [file EXCEPT !["auth"] = mem["auth"]]
  /\ Goto("auth", "done")
  /\ UNCHANGED <<job, running, starts, stops, comms, open, mem, snap, storeOpen, history, lock>>

\* ... and the node registry is copied with its lock held and written later.
NodeTick ==
  /\ At("node", "select")
  /\ Begin("node", "persist", "tick")
  /\ snap' = mem["node"]
  /\ UNCHANGED <<running, starts, stops, comms, open, mem, file, storeOpen, history, lock>>

\* Mutant: the loop ends on its stop channel without the last save.
NodeStopUnsaved ==
  /\ At("node", "select")
  /\ cancelled
  /\ Goto("node", "done")
  /\ UNCHANGED <<job, world, lock>>

NodeStop ==
  /\ At("node", "select")
  /\ cancelled
  /\ Begin("node", "persist", "stop")
  /\ snap' = mem["node"]
  /\ UNCHANGED <<running, starts, stops, comms, open, mem, file, storeOpen, history, lock>>

NodeWrite ==
  /\ At("node", "persist")
  /\ file' = [file EXCEPT !["node"] = snap]
  /\ snap' = 0
  /\ Begin("node", IF job["node"] = "stop" THEN "done" ELSE "select", "none")
  /\ UNCHANGED <<running, starts, stops, comms, open, mem, storeOpen, history, lock>>

-----------------------------------------------------------------------------
(* What HTTP requests, the timer and main itself do with the server.       *)

\* SendNodeData and SetTxPowerPreset give up when there is no serial link.
BeginRequest(q, kind) ==
  /\ At(q, "idle")
  /\ At("main", "serve")
  /\ kind \in {"data", "preset"} => comms # {}
  /\ kind = "approve" => Room
  /\ kind = "start" =>
       starts + Cardinality({r \in Request : job[r] = "start"}) < MaxStarts
  /\ Begin(q, CASE kind = "message" -> "rlock"
                [] kind = "approve" -> "assign"
                [] kind \in {"stop", "start"} -> "check"
                [] OTHER            -> "route", kind)
  /\ UNCHANGED <<world, lock>>

TimerFires ==
  /\ At("timer", "idle")
  /\ Begin("timer", "rlock", "message")
  /\ UNCHANGED <<world, lock>>

\* ApproveEnrollment changes both registries, answers if there is a link to
\* answer on, and saves the trust registry.
ApproveRequest(q) ==
  /\ At(q, "assign")
  /\ Change(Changing(q))
  /\ Goto(q, IF comms # {} THEN "route" ELSE "save")
  /\ UNCHANGED <<job, running, starts, stops, comms, open, file, snap, storeOpen, history, lock>>

SaveAuth(g) ==
  /\ At(g, "save")
  /\ file' = [file EXCEPT !["auth"] = mem["auth"]]
  /\ Return(g)
  /\ UNCHANGED <<running, starts, stops, comms, open, mem, snap, storeOpen, history, lock>>

\* Mutant: SendMessage does not ask whether the server runs.
SendMessageUnchecked(g) ==
  /\ At(g, "rlock")
  /\ MayRead
  /\ readers' = readers \cup {g}
  /\ Begin(g, "log", job[g])
  /\ UNCHANGED <<world, writer, pending>>

\* Mutant: mu protects only the look at running.
SendMessageLockedBriefly(g) ==
  /\ At(g, "rlock")
  /\ MayRead
  /\ IF running THEN Begin(g, "log", job[g]) ELSE Return(g)
  /\ UNCHANGED <<world, lock>>

\* SendMessage: RLock, check running, ...
SendMessage(g) ==
  /\ At(g, "rlock")
  /\ MayRead
  /\ IF running THEN readers' = readers \cup {g} /\ Begin(g, "log", job[g])
                ELSE UNCHANGED readers /\ Return(g)
  /\ UNCHANGED <<world, writer, pending>>

\* ... log the message to the event store, ...
LogOutgoing(g) ==
  /\ At(g, "log")
  /\ Goto(g, "write")
  /\ UNCHANGED <<job, world, lock>>

\* Mutant: the link is chosen by activeOutboundComm, which takes mu again.
WriteOutgoingRelocking(g) ==
  /\ At(g, "write")
  /\ MayRead
  /\ readers' = readers \ {g}
  /\ Return(g)
  /\ UNCHANGED <<world, writer, pending>>

\* ... write it, on a link chosen without locking again, and RUnlock.
WriteOutgoing(g) ==
  /\ At(g, "write")
  /\ readers' = readers \ {g}
  /\ Return(g)
  /\ UNCHANGED <<world, writer, pending>>

\* activeOutboundComm: RLock, look at the secondary link, RUnlock.
Route(g) ==
  /\ At(g, "route")
  /\ MayRead
  /\ Goto(g, "transmit")
  /\ UNCHANGED <<job, world, lock>>

\* The frame is written with no lock held; the link may be closed by now.
Transmit(g) ==
  /\ At(g, "transmit")
  /\ CASE job[g] \in {"join", "approve"} -> Begin(g, "save", job[g])
       [] job[g] = "preset"              -> Begin(g, "want", job[g])
       [] job[g] = "data"                -> Return(g)
  /\ UNCHANGED <<world, lock>>

-----------------------------------------------------------------------------
(* mu.                                                                     *)

Want(g) ==
  /\ At(g, "want")
  /\ pending' = pending \cup {g}
  /\ Goto(g, "pend")
  /\ UNCHANGED <<job, world, writer, readers>>

\* Lock, the few lines it protects, and Unlock.
LockBriefly(g) ==
  /\ At(g, "pend") /\ job[g] \notin {"start", "stop"}
  /\ MayWrite(g)
  /\ pending' = pending \ {g}
  /\ Return(g)
  /\ UNCHANGED <<world, writer, readers>>

-----------------------------------------------------------------------------

StartOrStop(g) ==
  \/ StartFails(g) \/ StartPrimary(g)
  \/ \E secondary \in SUBSET (Link \ {"primary"}) : StartLinks(g, secondary)
  \/ Check(g) \/ StopRefused(g) \/ StopGranted(g) \/ StopPanics(g)
  \/ ClosePorts(g) \/ Join(g)

\* What a goroutine does of its own accord, waiting for nothing but mu and, in
\* Stop, for the goroutines that Start spawned.
Proceed(g) ==
  \/ g \in Link /\ (Top(g) \/ Pause(g) \/ Handle(g))
  \/ g = "detector" /\ DetectorStop
  \/ g = "auth" /\ AuthStop
  \/ g = "node" /\ (NodeStop \/ NodeWrite)
  \/ g = "main" /\ (ArmTimer \/ Drain \/ CloseStore)
  \/ g \in Stopper /\ (StartOrStop(g) \/ ApproveRequest(g))
  \/ g \in Sender /\ (SendMessage(g) \/ LogOutgoing(g) \/ WriteOutgoing(g))
  \/ g \notin Saver /\ (Route(g) \/ Transmit(g) \/ SaveAuth(g) \/ Want(g) \/ LockBriefly(g))

\* What comes from outside: frames, errors, ticks and requests.
Environment ==
  \/ \E l \in Link : (\E f \in Frame : FrameArrives(l, f)) \/ ReadFails(l)
  \/ DetectorTick
  \/ AuthTick \/ NodeTick
  \/ \E q \in Request, kind \in RequestKind : BeginRequest(q, kind)
  \/ TimerFires
  \/ Signal

\* The process ends with main.
Alive == pc["main"] \notin {"down", "crashed"}

Next == Alive /\ ((\E g \in Goroutine : Proceed(g)) \/ Environment)

Spec == Init /\ [][Next]_vars

\* Steps that are enabled on and off: a select does not take one of two ready cases
\* for ever, and a reader is let in between two writers.
OnceMore == NodeStop \/ DetectorStop \/ Check("main")

\* Goroutines are scheduled, and reading a closed port fails.  Nothing arrives, and
\* nobody asks main to stop, unless it wants to.
Fairness ==
  /\ \A g \in Goroutine : WF_vars(Alive /\ Proceed(g))
  /\ SF_vars(Alive /\ OnceMore)
  /\ \A l \in Link : WF_vars(Alive /\ l \notin open /\ ReadFails(l))

FairSpec == Spec /\ Fairness

-----------------------------------------------------------------------------
(* Safety.                                                                 *)

\* The first Stop has returned and the server has not been started again.
StoppedOnce == stops = 1 /\ ~running /\ \A g \in Stopper : pc[g] \notin {"teardown", "join"}

\* main closes the event store last: no goroutine that outlives Stop, be it a
\* request, the timer or a message processor, writes to it any more, unless a
\* request that outlived the API's shutdown has started the server after main had
\* stopped it, or had found it stopped.
StoreOpenWhenUsed ==
  \A g \in Goroutine : pc[g] \in {"handle", "log"} => storeOpen \/ late

\* A SendMessage that found the server running has an open link to write to,
\* whatever Stop does meanwhile: it holds mu until the frame is written.
CheckedSendHasLink == \A g \in Sender : At(g, "write") => "primary" \in open

\* When Stop returns nothing that Start spawned is still running.
StopLeavesNothing == StoppedOnce => \A g \in Spawned : pc[g] \in {"off", "done"}

\* When Stop returns, the files hold at least what the registries held when it
\* began, and no trust decision is missing but those of requests still in flight.
StopSaves ==
  StoppedOnce
  => /\ \A r \in Saver : file[r] >= stopped[r]
     /\ \/ file["auth"] = mem["auth"]
        \/ \E q \in Request : job[q] = "approve" /\ pc[q] \in {"route", "transmit", "save"}

-----------------------------------------------------------------------------
(* Liveness.                                                               *)

\* While a writer waits for mu, the SendMessages that hold it for reading get done
\* and let go: the deadlock mesh_test.go's NoDeadlockWithConcurrentStop is about.
SendersFinish == pending # {} /\ readers # {} ~> readers = {} \/ ~Alive

\* Stop waits for ever only for a goroutine that waits for the lock Stop holds:
\* closing the ports and the channels gets everything else to end.
StopWaits == \E g \in Stopper : At(g, "join")

OnlyTheLockHoldsStop ==
  StopWaits ~> ~StopWaits \/ \E g \in Spawned : pc[g] \in {"route", "pend"}

-----------------------------------------------------------------------------
(* What the source says of itself and does not do.                         *)

\* main.go: after the signal the API, the mesh server and the event store are
\* shut down one after the other, and main ends.
ShutdownCompletes == At("main", "drain") ~> At("main", "down")

\* README.md: POST /server/start starts mesh communication.  The server that runs
\* has a message processor on every link, also when it was stopped before.
StartServes == running => \A l \in open : pc[l] # "done"

=============================================================================
