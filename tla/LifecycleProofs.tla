-------------------------- MODULE LifecycleProofs ---------------------------
(***************************************************************************)
(* Theorems about Lifecycle, for one link or two, any finite number of     *)
(* requests of any kinds, and any bound on changes.                        *)
(*                                                                         *)
(* Nearly every step is the step of one goroutine that starts or stops     *)
(* nothing: Ordinary says what all of these have in common, and the        *)
(* invariant's parts are then shown for an ordinary step and for the eight *)
(* others.                                                                 *)
(***************************************************************************)
EXTENDS Lifecycle, FiniteSetTheorems, TLAPS

USE LinkAssumption, KindAssumption, StartsAssumption, ChangesAssumption, RequestAssumption

(***************************************************************************)
(* The inductive invariant.                                                *)
(***************************************************************************)

\* Where each goroutine can be, and with what errand.
LinkFits(step, errand) ==
  \/ step \in {"off", "top", "read", "pause", "done"} /\ errand = "none"
  \/ step = "handle" /\ errand \in Frame
  \/ step \in {"want", "pend"} /\ errand = "health"
  \/ step \in {"route", "transmit", "save"} /\ errand = "join"

SaverFits(g, step, errand) ==
  \/ step \in {"off", "select", "done"} /\ errand = "none"
  \/ g = "node" /\ step = "persist" /\ errand \in {"tick", "stop"}

DetectorFits(step, errand) ==
  step \in {"off", "select", "want", "pend", "done"} /\ errand = "none"

TimerFits(step, errand) ==
  \/ step \in {"off", "idle", "done"} /\ errand = "none"
  \/ step \in {"rlock", "log", "write"} /\ errand = "message"

MainFits(step, errand) ==
  \/ step \in {"arm", "serve", "drain", "closeStore", "down", "crashed"} /\ errand = "none"
  \/ step \in {"want", "pend"} /\ errand \in {"start", "preset", "stop"}
  \/ step = "startLinks" /\ errand = "start"
  \/ step \in {"route", "transmit"} /\ errand = "preset"
  \/ step \in {"check", "teardown", "join"} /\ errand = "stop"

RequestFits(step, errand) ==
  \/ step = "idle" /\ errand = "none"
  \/ step \in {"rlock", "log", "write"} /\ errand = "message"
  \/ step \in {"assign", "save"} /\ errand = "approve"
  \/ step \in {"route", "transmit"} /\ errand \in {"approve", "data", "preset"}
  \/ step \in {"want", "pend"} /\ errand \in {"preset", "start", "stop"}
  \/ step = "check" /\ errand \in {"start", "stop"}
  \/ step = "startLinks" /\ errand = "start"
  \/ step \in {"teardown", "join"} /\ errand = "stop"

Fits(g, step, errand) ==
  /\ step \in Step /\ errand \in Job
  /\ g \in Link => LinkFits(step, errand)
  /\ g \in Saver => SaverFits(g, step, errand)
  /\ g = "detector" => DetectorFits(step, errand)
  /\ g = "timer" => TimerFits(step, errand)
  /\ g = "main" => MainFits(step, errand)
  /\ g \in Request => RequestFits(step, errand)

Places ==
  /\ pc \in [Goroutine -> Step] /\ job \in [Goroutine -> Job]
  /\ \A g \in Goroutine : Fits(g, pc[g], job[g])

Data ==
  /\ running \in BOOLEAN /\ storeOpen \in BOOLEAN /\ late \in BOOLEAN
  /\ starts \in Nat /\ stops \in Nat
  /\ comms \subseteq Link /\ open \subseteq comms
  /\ mem \in [Saver -> 0 .. MaxChanges] /\ file \in [Saver -> 0 .. MaxChanges]
  /\ snap \in 0 .. MaxChanges
  /\ stopped \in [Saver -> 0 .. MaxChanges]

\* Who holds mu is where it is held, and so on.
Stopping(g) == pc[g] \in {"teardown", "join"}
Writing(g) == pc[g] = "startLinks" \/ Stopping(g)
Reading(g) == pc[g] \in {"log", "write"}

LockOK ==
  /\ writer = {g \in Goroutine : Writing(g)}
  /\ readers = {g \in Goroutine : Reading(g)}
  /\ pending = {g \in Goroutine : pc[g] = "pend"}
  /\ \A g, h \in writer : g = h
  /\ writer # {} => readers = {}

\* What is on its way to start the server, or to change a registry, fits below the bound.
ToStart == {g \in Stopper : job[g] = "start" /\ pc[g] # "startLinks"}
StartRoom == starts + Cardinality(ToStart) <= MaxStarts

ToChange(r) == {g \in Goroutine : r \in Changing(g)}
ChangeRoom == \A r \in Saver : mem[r] + Cardinality(ToChange(r)) <= MaxChanges

ServerOK ==
  /\ starts = IF running THEN stops + 1 ELSE stops
  /\ running => "primary" \in open
  /\ readers # {} => running
  /\ \A g \in Goroutine :
       /\ pc[g] = "startLinks" => running
       /\ Stopping(g) => ~running /\ stops = 1

Ended(h) == pc[h] \in {"off", "done"}
Idling(l) == pc[l] \in {"off", "top", "done"}

\* In its second life the server's context is done, and its links end at once.
SpawnOK ==
  /\ starts = 0 => \A h \in Spawned : pc[h] = "off"
  /\ \A g \in Goroutine : pc[g] = "startLinks" => \A h \in Spawned \ {"primary"} : Ended(h)
  /\ starts > 0 /\ (\A g \in Goroutine : pc[g] # "startLinks") => \A r \in Saver : pc[r] # "off"
  /\ stops = 0 => \A h \in Spawned : pc[h] # "done"
  /\ stops > 0 /\ (\A g \in Goroutine : ~Stopping(g)) => \A l \in Link : Idling(l)
  /\ StopLeavesNothing

\* The trust decision g has made is not in the file yet.
OwesAt(step, errand) == step \in {"route", "transmit", "save"} /\ errand \in {"join", "approve"}

SaveOK ==
  /\ \A r \in Saver : stopped[r] <= mem[r]
  /\ \A r \in Saver : pc[r] = "done" => stopped[r] <= file[r]
  /\ pc["node"] = "persist" /\ job["node"] = "stop" => stops > 0 /\ stopped["node"] <= snap
  /\ file["auth"] = mem["auth"] \/ \E g \in Goroutine : OwesAt(pc[g], job[g])

StoreOK ==
  /\ pc["main"] \in {"closeStore", "down"} /\ ~late => ~running /\ \A l \in Link : Idling(l)
  /\ ~storeOpen => pc["main"] = "down"

\* main is still starting up: it has not armed the timer.
BootingAt(step, errand) ==
  \/ step \in {"startLinks", "route", "transmit", "arm"}
  \/ step \in {"want", "pend"} /\ errand # "stop"

BootOK == BootingAt(pc["main"], job["main"]) => pc["timer"] = "off"

IInv == /\ Places /\ Data /\ LockOK /\ StartRoom /\ ChangeRoom
        /\ ServerOK /\ SpawnOK /\ SaveOK /\ StoreOK /\ BootOK

(***************************************************************************)
(* Goroutines, and what they fit.                                          *)
(***************************************************************************)

\* No name is that of two goroutines.
LEMMA Names ==
  /\ Link \subseteq Spawned /\ Saver \subseteq Spawned /\ "detector" \in Spawned
  /\ Spawned \subseteq Goroutine /\ Stopper \subseteq Goroutine /\ Sender \subseteq Goroutine
  /\ Request \subseteq Stopper \cap Sender /\ "main" \in Stopper /\ "timer" \in Sender
  /\ Spawned \cap (Stopper \cup Sender) = {} /\ "main" \notin Sender /\ "timer" \notin Stopper
  /\ Saver \cap Link = {} /\ "detector" \notin Link \cup Saver /\ "main" \notin Request
  /\ "primary" \in Link /\ "timer" \notin Request
BY DEF Spawned, Saver, Stopper, Sender, Goroutine

LEMMA FiniteGoroutine == IsFiniteSet(Goroutine) /\ IsFiniteSet(Stopper)
<1>1. IsFiniteSet({"main"}) /\ IsFiniteSet({"timer"}) /\ IsFiniteSet({"detector"})
  BY FS_Singleton
<1>2. IsFiniteSet({"auth"}) /\ IsFiniteSet({"node"}) /\ IsFiniteSet({"primary"}) /\ IsFiniteSet({"secondary"})
  BY FS_Singleton
<1>3. IsFiniteSet({"auth"} \cup {"node"}) /\ IsFiniteSet({"primary"} \cup {"secondary"})
  BY <1>2, FS_Union
<1>4. IsFiniteSet(Link)
  <2>1. Link \subseteq {"primary"} \cup {"secondary"}
    OBVIOUS
  <2>. QED BY <1>3, <2>1, FS_Subset
<1>5. IsFiniteSet(Link \cup ({"auth"} \cup {"node"}))
  BY <1>3, <1>4, FS_Union
<1>6. IsFiniteSet((Link \cup ({"auth"} \cup {"node"})) \cup {"detector"})
  BY <1>1, <1>5, FS_Union
<1>7. IsFiniteSet({"main"} \cup Request)
  BY <1>1, FS_Union
<1>8. IsFiniteSet(({"main"} \cup Request) \cup {"timer"})
  BY <1>1, <1>7, FS_Union
<1>9. IsFiniteSet((({"main"} \cup Request) \cup {"timer"}) \cup ((Link \cup ({"auth"} \cup {"node"})) \cup {"detector"}))
  BY <1>6, <1>8, FS_Union
<1>10. Goroutine = ((({"main"} \cup Request) \cup {"timer"}) \cup ((Link \cup ({"auth"} \cup {"node"})) \cup {"detector"}))
  BY DEF Goroutine, Spawned, Saver, Sender
<1>11. Stopper = {"main"} \cup Request
  BY DEF Stopper
<1>. QED BY <1>7, <1>9, <1>10, <1>11

\* A goroutine has one role, which says where it may be.
LEMMA Roles ==
  ASSUME NEW g, NEW step \in Step, NEW errand \in Job
  PROVE  /\ g \in Link => (Fits(g, step, errand) <=> LinkFits(step, errand))
         /\ g \in Saver => (Fits(g, step, errand) <=> SaverFits(g, step, errand))
         /\ g = "detector" => (Fits(g, step, errand) <=> DetectorFits(step, errand))
         /\ g = "timer" => (Fits(g, step, errand) <=> TimerFits(step, errand))
         /\ g = "main" => (Fits(g, step, errand) <=> MainFits(step, errand))
         /\ g \in Request => (Fits(g, step, errand) <=> RequestFits(step, errand))
BY Names DEF Fits, Saver, Spawned, Stopper, Sender

LEMMA Homes ==
  /\ \A l \in Link : Home(l) = "top"
  /\ Home("detector") = "select" /\ Home("main") = "arm" /\ Home("timer") = "done"
  /\ \A q \in Request : Home(q) = "idle"
BY Names DEF Home, Spawned, Sender

LEMMA JobHas ==
  /\ {"none", "tick", "stop", "start", "message", "preset"} \subseteq Job
  /\ RequestKind \subseteq Job /\ Frame \subseteq Job
BY DEF Job

(***************************************************************************)
(* Ordinary steps.                                                         *)
(***************************************************************************)

ChangesAt(step, errand, r) ==
  \/ step = "handle" /\ errand \in {"health", "route"} /\ r = "node"
  \/ step = "handle" /\ errand = "join"
  \/ step = "assign"

\* g moves to step with an errand, and starts, stops, opens and closes nothing.
Calm(g, step, errand) ==
  /\ g \in Goroutine /\ Fits(g, step, errand)
  /\ pc' = [pc EXCEPT ![g] = step] /\ job' = [job EXCEPT ![g] = errand]
  /\ UNCHANGED <<running, starts, stops, comms, open, storeOpen, stopped, late, writer>>

\* It holds mu for reading, or waits for it, exactly where it says so.
KeepsLock(g, step) ==
  /\ readers' = IF step \in {"log", "write"} THEN readers \cup {g} ELSE readers \ {g}
  /\ pending' = IF step = "pend" THEN pending \cup {g} ELSE pending \ {g}
  /\ step \in {"log", "write"} => writer = {} /\ running

\* Nothing that has ended goes on, nothing ends while the server runs in its first
\* life, and no link does anything in its second.
KeepsCourse(g, step) ==
  /\ pc[g] \notin {"off", "done", "closeStore", "down", "crashed", "startLinks", "teardown", "join"}
  /\ step \notin {"off", "down", "crashed", "startLinks", "teardown", "join"}
  /\ step = "done" /\ g \in Spawned => stops > 0
  /\ pc[g] = "top" /\ stops > 0 => step = "done"
  /\ step = "closeStore" => ~running /\ writer = {}

KeepsRoom(g, step, errand) ==
  /\ Change(Changing(g))
  /\ (\E r \in Saver : ChangesAt(step, errand, r)) => Room
  /\ errand = "start" /\ job[g] # "start" =>
       /\ pc["main"] = "serve"
       /\ starts + Cardinality({r \in Request : job[r] = "start"}) < MaxStarts

KeepsFiles(g, step, errand) ==
  \/ /\ g \notin Saver /\ UNCHANGED <<file, snap>>
     /\ OwesAt(pc[g], job[g]) \/ "auth" \in Changing(g) => OwesAt(step, errand)
  \/ /\ g \notin Saver /\ UNCHANGED <<mem, snap>>
     /\ file' = [file EXCEPT !["auth"] = mem["auth"]]
  \/ g = "auth" /\ (AuthTick \/ AuthStop)
  \/ g = "node" /\ (NodeTick \/ NodeStop \/ NodeWrite)

KeepsBoot(g, step, errand) ==
  g = "main" /\ BootingAt(step, errand) => BootingAt(pc[g], job[g])

Ordinary(g, step, errand) ==
  /\ Calm(g, step, errand) /\ KeepsLock(g, step) /\ KeepsCourse(g, step) /\ KeepsBoot(g, step, errand)
  /\ KeepsRoom(g, step, errand) /\ KeepsFiles(g, step, errand)

OrdinaryStep == \E g \in Goroutine, step \in Step, errand \in Job : Ordinary(g, step, errand)

LEMMA ChangingIs ==
  \A g, r : r \in Changing(g) <=> r \in Saver /\ ChangesAt(pc[g], job[g], r)
BY DEF Changing, ChangesAt, Saver

LEMMA ChangingIsNext ==
  \A g, r : r \in Changing(g)' <=> r \in Saver /\ ChangesAt(pc'[g], job'[g], r)
BY DEF Changing, ChangesAt, Saver

\* Most steps neither touch mu nor change a registry or its file.
LEMMA Quiet ==
  ASSUME IInv, NEW g \in Goroutine \ Saver, NEW step \in Step, NEW errand \in Job,
         Fits(g, step, errand), KeepsCourse(g, step), KeepsBoot(g, step, errand),
         pc' = [pc EXCEPT ![g] = step], job' = [job EXCEPT ![g] = errand],
         UNCHANGED <<world, lock>>,
         pc[g] \notin {"log", "write", "pend", "handle", "assign"},
         step \notin {"log", "write", "pend"},
         (\E r \in Saver : ChangesAt(step, errand, r)) => Room,
         OwesAt(pc[g], job[g]) => OwesAt(step, errand),
         errand = "start" /\ job[g] # "start" =>
           /\ pc["main"] = "serve"
           /\ starts + Cardinality({r \in Request : job[r] = "start"}) < MaxStarts
  PROVE  OrdinaryStep
<1>1. Calm(g, step, errand)
  BY DEF Calm, world, lock, history
<1>2. KeepsLock(g, step)
  BY DEF KeepsLock, world, lock, IInv, LockOK, Reading
<1>3. Changing(g) = {}
  BY DEF Changing
<1>4. KeepsRoom(g, step, errand)
  <2>1. Change(Changing(g))
    BY <1>3 DEF Change, world, IInv, Data
  <2>. QED BY <2>1 DEF KeepsRoom
<1>5. KeepsFiles(g, step, errand)
  BY <1>3 DEF KeepsFiles, world
<1>. QED BY <1>1, <1>2, <1>4, <1>5 DEF Ordinary, OrdinaryStep

LEMMA LinkSteps ==
  ASSUME IInv, NEW l \in Link,
         \/ Top(l) \/ Pause(l) \/ Handle(l) \/ ReadFails(l)
         \/ \E f \in Frame : FrameArrives(l, f)
  PROVE  OrdinaryStep
<1>1. l \in Goroutine \ Saver /\ l \in Spawned /\ l \notin {"main", "timer", "detector"} \cup Request
  BY Names
<1>2. Fits(l, pc[l], job[l]) /\ pc[l] \in Step /\ job[l] \in Job
  BY <1>1 DEF IInv, Places
<1>3. LinkFits(pc[l], job[l])
  BY <1>2, Roles
<1>4. job = [job EXCEPT ![l] = job[l]]
  BY DEF IInv, Places
<1>5. \A step, errand : KeepsBoot(l, step, errand)
  BY <1>1 DEF KeepsBoot
<1>6. CASE Top(l)
  <2>. DEFINE step == IF stops > 0 THEN "done" ELSE "read"
  <2>1. LinkFits(step, job[l]) /\ step \in Step
    BY <1>3, <1>6 DEF Top, At, LinkFits, Step
  <2>2. Fits(l, step, job[l])
    BY <1>2, <2>1, Roles
  <2>3. KeepsCourse(l, step)
    BY <1>6 DEF KeepsCourse, Top, At
  <2>4. /\ pc[l] = "top" /\ pc' = [pc EXCEPT ![l] = step] /\ job' = job /\ UNCHANGED <<world, lock>>
        /\ ~OwesAt(pc[l], job[l]) /\ (\A r \in Saver : ~ChangesAt(step, job[l], r))
    BY <1>6 DEF Top, At, Goto, cancelled, OwesAt, ChangesAt
  <2>. QED BY <1>1, <1>5, <1>2, <1>4, <2>1, <2>2, <2>3, <2>4, Quiet
<1>7. CASE Pause(l)
  <2>. PICK step \in {"top", "done"} : pc' = [pc EXCEPT ![l] = step] /\ (step = "done" => stops > 0)
    BY <1>7 DEF Pause, Goto, cancelled
  <2>1. LinkFits(step, job[l]) /\ step \in Step
    BY <1>3, <1>7 DEF Pause, At, LinkFits, Step
  <2>2. Fits(l, step, job[l])
    BY <1>2, <2>1, Roles
  <2>3. KeepsCourse(l, step)
    BY <1>7 DEF KeepsCourse, Pause, At
  <2>4. /\ pc[l] = "pause" /\ job' = job /\ UNCHANGED <<world, lock>>
        /\ ~OwesAt(pc[l], job[l]) /\ (\A r \in Saver : ~ChangesAt(step, job[l], r))
    BY <1>7 DEF Pause, At, OwesAt, ChangesAt
  <2>. QED BY <1>1, <1>5, <1>2, <1>4, <2>1, <2>2, <2>3, <2>4, Quiet
<1>8. CASE ReadFails(l)
  <2>1. LinkFits("pause", job[l]) /\ "pause" \in Step
    BY <1>3, <1>8 DEF ReadFails, At, LinkFits, Step
  <2>2. Fits(l, "pause", job[l])
    BY <1>2, <2>1, Roles
  <2>3. KeepsCourse(l, "pause")
    BY <1>8 DEF KeepsCourse, ReadFails, At
  <2>4. /\ pc[l] = "read" /\ pc' = [pc EXCEPT ![l] = "pause"] /\ job' = job /\ UNCHANGED <<world, lock>>
        /\ ~OwesAt(pc[l], job[l]) /\ (\A r \in Saver : ~ChangesAt("pause", job[l], r))
    BY <1>8 DEF ReadFails, At, Goto, OwesAt, ChangesAt
  <2>. QED BY <1>1, <1>5, <1>2, <1>4, <2>1, <2>2, <2>3, <2>4, Quiet
<1>9. CASE \E f \in Frame : FrameArrives(l, f)
  <2>. PICK f \in Frame : FrameArrives(l, f)
    BY <1>9
  <2>1. LinkFits("handle", f) /\ "handle" \in Step /\ f \in Job /\ f # "start"
    BY JobHas DEF LinkFits, Step
  <2>2. Fits(l, "handle", f)
    BY <2>1, Roles
  <2>3. KeepsCourse(l, "handle")
    BY DEF KeepsCourse, FrameArrives, At
  <2>4. /\ pc[l] = "read" /\ pc' = [pc EXCEPT ![l] = "handle"] /\ job' = [job EXCEPT ![l] = f]
        /\ UNCHANGED <<world, lock>>
        /\ ~OwesAt(pc[l], job[l]) /\ (f = "motion" \/ Room)
        /\ \A r \in Saver : ChangesAt("handle", f, r) => f # "motion"
    BY DEF FrameArrives, At, Begin, OwesAt, ChangesAt
  <2>. QED BY <1>1, <1>5, <2>1, <2>2, <2>3, <2>4, Quiet
<1>10. CASE Handle(l)
  <2>. PICK step \in {"want", "route", "top"}, errand \in {"health", "join", "none"} :
         /\ pc' = [pc EXCEPT ![l] = step] /\ job' = [job EXCEPT ![l] = errand]
         /\ \/ step = "want" /\ errand = "health" /\ job[l] = "health"
            \/ step = "route" /\ errand = "join" /\ job[l] = "join"
            \/ step = "top" /\ errand = "none" /\ job[l] \notin {"health", "join"}
    <3>1. CASE job[l] = "health"
      BY <1>4, <1>10, <3>1 DEF Handle, Goto
    <3>2. CASE job[l] = "join"
      BY <1>4, <1>10, <3>2 DEF Handle, Goto
    <3>3. CASE job[l] \notin {"health", "join"}
      BY <1>10, <3>3, Homes DEF Handle, Return, Begin
    <3>. QED BY <3>1, <3>2, <3>3
  <2>1. pc[l] = "handle" /\ Change(Changing(l)) /\ UNCHANGED <<file, snap, lock>>
        /\ UNCHANGED <<running, starts, stops, comms, open, storeOpen, stopped, late>>
    BY <1>10 DEF Handle, At, history
  <2>2. LinkFits(step, errand) /\ step \in Step /\ errand \in Job
    <3>1. errand = "none" \/ errand = job[l]
      OBVIOUS
    <3>. QED BY <1>2, <3>1, JobHas DEF LinkFits, Step
  <2>3. Calm(l, step, errand)
    BY <1>1, <2>1, <2>2, Roles DEF Calm, lock
  <2>4. KeepsLock(l, step)
    BY <1>1, <2>1 DEF KeepsLock, lock, IInv, LockOK, Reading
  <2>5. KeepsCourse(l, step)
    BY <2>1 DEF KeepsCourse
  <2>6. KeepsRoom(l, step, errand)
    BY <2>1 DEF KeepsRoom, ChangesAt
  <2>7. KeepsFiles(l, step, errand)
    <3>1. "auth" \in Changing(l) => job[l] = "join"
      BY <1>3, <2>1, ChangingIs DEF ChangesAt, LinkFits
    <3>2. ~OwesAt(pc[l], job[l])
      BY <2>1 DEF OwesAt
    <3>. QED BY <1>1, <2>1, <3>1, <3>2 DEF KeepsFiles, OwesAt
  <2>. QED BY <1>1, <1>5, <2>2, <2>3, <2>4, <2>5, <2>6, <2>7 DEF Ordinary, OrdinaryStep
<1>. QED BY <1>6, <1>7, <1>8, <1>9, <1>10

LEMMA DetectorSteps ==
  ASSUME IInv, DetectorTick \/ DetectorStop
  PROVE  OrdinaryStep
<1>1. "detector" \in Goroutine \ Saver
  BY Names DEF Goroutine, Spawned, Saver
<1>2. pc["detector"] = "select" /\ pc["detector"] \in Step /\ job["detector"] \in Job
  BY <1>1 DEF IInv, Places, DetectorTick, DetectorStop, At
<1>3. job["detector"] = "none" /\ job = [job EXCEPT !["detector"] = job["detector"]]
  BY <1>1, <1>2, Roles DEF IInv, Places, DetectorFits
<1>. PICK step \in {"want", "done"} :
       pc' = [pc EXCEPT !["detector"] = step] /\ (step = "done" => stops > 0)
  BY DEF DetectorTick, DetectorStop, Goto, cancelled
<1>4. DetectorFits(step, "none") /\ step \in Step /\ "none" \in Job
  BY JobHas DEF DetectorFits, Step
<1>5. Fits("detector", step, "none")
  BY <1>4, Roles
<1>6. KeepsCourse("detector", step) /\ KeepsBoot("detector", step, "none")
  BY <1>2 DEF KeepsCourse, KeepsBoot
<1>7. UNCHANGED <<world, lock>> /\ job' = job
  BY DEF DetectorTick, DetectorStop
<1>8. ~OwesAt(pc["detector"], job["detector"]) /\ \A r \in Saver : ~ChangesAt(step, "none", r)
  BY <1>2 DEF OwesAt, ChangesAt
<1>. QED BY <1>1, <1>2, <1>3, <1>4, <1>5, <1>6, <1>7, <1>8, Quiet

LEMMA SaverSteps ==
  ASSUME IInv, AuthTick \/ AuthStop \/ NodeTick \/ NodeStop \/ NodeWrite
  PROVE  OrdinaryStep
<1>. PICK h \in Saver : /\ h = "auth" => AuthTick \/ AuthStop
                        /\ h = "node" => NodeTick \/ NodeStop \/ NodeWrite
  BY DEF Saver
<1>1. h \in Goroutine /\ h \in Spawned /\ h \in {"auth", "node"}
  BY Names DEF Saver
<1>2. Fits(h, pc[h], job[h]) /\ pc[h] \in Step /\ job[h] \in Job
  BY <1>1 DEF IInv, Places
<1>3. SaverFits(h, pc[h], job[h])
  BY <1>2, Roles
<1>4. pc = [pc EXCEPT ![h] = pc[h]] /\ job = [job EXCEPT ![h] = job[h]]
  BY <1>1 DEF IInv, Places
<1>. PICK step \in {"select", "done", "persist"}, errand \in {"none", "tick", "stop"} :
       /\ pc' = [pc EXCEPT ![h] = step] /\ job' = [job EXCEPT ![h] = errand]
       /\ SaverFits(h, step, errand)
       /\ step = "done" => (pc[h] = "persist" /\ job[h] = "stop") \/ stops > 0
  <2>1. CASE h = "auth" /\ AuthTick
    BY <1>3, <1>4, <2>1 DEF AuthTick, At, SaverFits
  <2>2. CASE h = "auth" /\ AuthStop
    BY <1>3, <1>4, <2>2 DEF AuthStop, At, Goto, cancelled, SaverFits
  <2>3. CASE h = "node" /\ NodeTick
    BY <2>3 DEF NodeTick, Begin, SaverFits
  <2>4. CASE h = "node" /\ NodeStop
    BY <2>4 DEF NodeStop, Begin, SaverFits
  <2>5. CASE h = "node" /\ NodeWrite
    BY <2>5 DEF NodeWrite, At, Begin, SaverFits
  <2>. QED BY <1>1, <2>1, <2>2, <2>3, <2>4, <2>5
<1>5. /\ pc[h] \in {"select", "persist"} /\ mem' = mem /\ UNCHANGED lock
      /\ UNCHANGED <<running, starts, stops, comms, open, storeOpen, stopped, late>>
  BY <1>1 DEF AuthTick, AuthStop, NodeTick, NodeStop, NodeWrite, At, history
<1>6. step \in Step /\ errand \in Job
  BY JobHas DEF Step
<1>7. Fits(h, step, errand)
  BY <1>6, Roles
<1>8. Calm(h, step, errand)
  BY <1>1, <1>5, <1>7 DEF Calm, lock
<1>9. KeepsLock(h, step)
  BY <1>5 DEF KeepsLock, lock, IInv, LockOK, Reading
<1>10. KeepsCourse(h, step)
  <2>1. pc[h] = "persist" /\ job[h] = "stop" => stops > 0
    BY <1>1, <1>3 DEF IInv, SaveOK, SaverFits
  <2>. QED BY <1>5, <2>1 DEF KeepsCourse
<1>11. KeepsRoom(h, step, errand)
  <2>1. Changing(h) = {}
    BY <1>5 DEF Changing
  <2>2. Change(Changing(h))
    BY <1>5, <2>1 DEF Change, IInv, Data
  <2>. QED BY <2>2 DEF KeepsRoom, ChangesAt
<1>12. KeepsFiles(h, step, errand) /\ KeepsBoot(h, step, errand)
  BY <1>1 DEF KeepsFiles, KeepsBoot
<1>. QED BY <1>1, <1>6, <1>8, <1>9, <1>10, <1>11, <1>12 DEF Ordinary, OrdinaryStep

LEMMA TimerStep ==
  ASSUME IInv, TimerFires
  PROVE  OrdinaryStep
<1>1. "timer" \in Goroutine \ Saver
  BY Names DEF Saver
<1>2. /\ pc["timer"] = "idle" /\ UNCHANGED <<world, lock>>
      /\ pc' = [pc EXCEPT !["timer"] = "rlock"] /\ job' = [job EXCEPT !["timer"] = "message"]
  BY DEF TimerFires, At, Begin
<1>3. TimerFits("rlock", "message") /\ "rlock" \in Step /\ "message" \in Job
  BY JobHas DEF TimerFits, Step
<1>4. Fits("timer", "rlock", "message")
  BY <1>3, Roles
<1>5. KeepsCourse("timer", "rlock") /\ KeepsBoot("timer", "rlock", "message")
  BY <1>2 DEF KeepsCourse, KeepsBoot
<1>6. ~OwesAt(pc["timer"], job["timer"]) /\ \A r \in Saver : ~ChangesAt("rlock", "message", r)
  BY <1>2 DEF OwesAt, ChangesAt
<1>. QED BY <1>1, <1>2, <1>3, <1>4, <1>5, <1>6, Quiet

LEMMA MainSteps ==
  ASSUME IInv, Signal \/ Drain
  PROVE  OrdinaryStep
<1>1. "main" \in Goroutine \ Saver
  BY Names DEF Saver, Stopper
<1>2. job = [job EXCEPT !["main"] = job["main"]] /\ job["main"] \in Job /\ pc["main"] \in Step
      /\ Fits("main", pc["main"], job["main"])
  BY <1>1 DEF IInv, Places
<1>3. MainFits(pc["main"], job["main"])
  BY <1>2, Roles
<1>. PICK step \in {"drain", "check"}, errand \in {"none", "stop"} :
       /\ pc' = [pc EXCEPT !["main"] = step] /\ job' = [job EXCEPT !["main"] = errand]
       /\ MainFits(step, errand)
  <2>1. CASE Signal
    BY <1>2, <1>3, <2>1 DEF Signal, At, Goto, MainFits
  <2>2. CASE Drain
    BY <2>2 DEF Drain, Begin, MainFits
  <2>. QED BY <2>1, <2>2
<1>4. pc["main"] \in {"serve", "drain"} /\ UNCHANGED <<world, lock>>
  BY DEF Signal, Drain, At
<1>5. Fits("main", step, errand) /\ step \in Step /\ errand \in Job
  <2>1. step \in Step /\ errand \in Job
    BY JobHas DEF Step
  <2>. QED BY <2>1, Roles
<1>6. KeepsCourse("main", step) /\ KeepsBoot("main", step, errand)
  BY <1>1, <1>4, Names DEF KeepsCourse, KeepsBoot, BootingAt
<1>7. ~OwesAt(pc["main"], job["main"]) /\ \A r \in Saver : ~ChangesAt(step, errand, r)
  BY <1>4 DEF OwesAt, ChangesAt
<1>. QED BY <1>1, <1>4, <1>5, <1>6, <1>7, Quiet

LEMMA RequestBegins ==
  ASSUME IInv, NEW q \in Request, NEW kind \in RequestKind, BeginRequest(q, kind)
  PROVE  OrdinaryStep
<1>1. q \in Goroutine \ Saver /\ q \notin Spawned /\ q # "main"
  BY Names DEF Spawned
<1>2. /\ pc[q] = "idle" /\ UNCHANGED <<world, lock>> /\ pc["main"] = "serve"
      /\ kind = "approve" => Room
      /\ kind = "start" => starts + Cardinality({r \in Request : job[r] = "start"}) < MaxStarts
  BY DEF BeginRequest, At
<1>. PICK step \in {"rlock", "assign", "check", "route"} :
       /\ pc' = [pc EXCEPT ![q] = step] /\ job' = [job EXCEPT ![q] = kind]
       /\ RequestFits(step, kind)
       /\ step = "assign" => kind = "approve"
  <2>1. CASE kind = "message"
    BY <2>1 DEF BeginRequest, Begin, RequestFits
  <2>2. CASE kind = "approve"
    BY <2>2 DEF BeginRequest, Begin, RequestFits
  <2>3. CASE kind \in {"stop", "start"}
    BY <2>3 DEF BeginRequest, Begin, RequestFits
  <2>4. CASE kind \in {"data", "preset"}
    BY <2>4 DEF BeginRequest, Begin, RequestFits
  <2>. QED BY <2>1, <2>2, <2>3, <2>4
<1>3. Fits(q, step, kind) /\ step \in Step /\ kind \in Job
  <2>1. step \in Step /\ kind \in Job
    BY JobHas DEF Step
  <2>. QED BY <2>1, Roles
<1>4. KeepsCourse(q, step) /\ KeepsBoot(q, step, kind)
  BY <1>1, <1>2 DEF KeepsCourse, KeepsBoot
<1>5. ~OwesAt(pc[q], job[q]) /\ \A r \in Saver : ChangesAt(step, kind, r) => kind = "approve"
  BY <1>2 DEF OwesAt, ChangesAt
<1>. QED BY <1>1, <1>2, <1>3, <1>4, <1>5, Quiet

LEMMA RequestApproves ==
  ASSUME IInv, NEW q \in Stopper, ApproveRequest(q)
  PROVE  OrdinaryStep
<1>1. q \in Goroutine \ Saver /\ q \notin Spawned
  BY Names DEF Spawned
<1>2. Fits(q, pc[q], job[q]) /\ pc[q] \in Step /\ job[q] \in Job
      /\ job = [job EXCEPT ![q] = job[q]] /\ pc[q] = "assign"
  BY <1>1 DEF IInv, Places, ApproveRequest, At
<1>3. q \in Request /\ job[q] = "approve"
  BY <1>2, Roles DEF MainFits, RequestFits, Stopper
<1>. PICK step \in {"route", "save"} : pc' = [pc EXCEPT ![q] = step]
  BY DEF ApproveRequest, Goto
<1>4. /\ Change(Changing(q)) /\ UNCHANGED <<job, file, snap, lock>>
      /\ UNCHANGED <<running, starts, stops, comms, open, storeOpen, stopped, late>>
  BY DEF ApproveRequest, history
<1>5. Fits(q, step, "approve") /\ step \in Step
  <2>1. RequestFits(step, "approve") /\ step \in Step
    BY DEF RequestFits, Step
  <2>. QED BY <1>2, <1>3, <2>1, Roles
<1>6. Calm(q, step, "approve")
  BY <1>1, <1>2, <1>3, <1>4, <1>5 DEF Calm, lock
<1>7. KeepsLock(q, step)
  BY <1>2, <1>4 DEF KeepsLock, lock, IInv, LockOK, Reading
<1>8. KeepsCourse(q, step) /\ KeepsBoot(q, step, "approve")
  BY <1>1, <1>2, <1>3, Names DEF KeepsCourse, KeepsBoot
<1>9. KeepsRoom(q, step, "approve")
  BY <1>4 DEF KeepsRoom, ChangesAt
<1>10. KeepsFiles(q, step, "approve")
  BY <1>1, <1>4 DEF KeepsFiles, OwesAt
<1>. QED BY <1>1, <1>2, <1>3, <1>5, <1>6, <1>7, <1>8, <1>9, <1>10 DEF Ordinary, OrdinaryStep

LEMMA SenderSteps ==
  ASSUME IInv, NEW g \in Sender, SendMessage(g) \/ LogOutgoing(g) \/ WriteOutgoing(g)
  PROVE  OrdinaryStep
<1>1. g \in Goroutine \ Saver /\ g # "main" /\ g \notin Spawned /\ (g = "timer" \/ g \in Request)
  BY Names DEF Sender, Spawned
<1>2. Fits(g, pc[g], job[g]) /\ pc[g] \in Step /\ job[g] \in Job
      /\ job = [job EXCEPT ![g] = job[g]] /\ pc[g] \in {"rlock", "log", "write"}
  BY <1>1 DEF IInv, Places, SendMessage, LogOutgoing, WriteOutgoing, At
<1>3. job[g] = "message"
  BY <1>1, <1>2, Roles DEF TimerFits, RequestFits
<1>4. Home(g) \in {"done", "idle"} /\ (Home(g) = "done" <=> g = "timer")
  BY <1>1, Homes, Names
<1>. PICK step \in {"log", "write", "done", "idle"}, errand \in {"message", "none"} :
       /\ pc' = [pc EXCEPT ![g] = step] /\ job' = [job EXCEPT ![g] = errand]
       /\ step \in {"done", "idle"} => step = Home(g) /\ errand = "none"
       /\ step \notin {"done", "idle"} => errand = "message"
       /\ readers' = IF step \in {"log", "write"} THEN readers \cup {g} ELSE readers \ {g}
       /\ step \in {"log", "write"} => writer = {} /\ running
  <2>1. CASE SendMessage(g) /\ running
    BY <1>3, <2>1 DEF SendMessage, At, Begin, MayRead
  <2>2. CASE SendMessage(g) /\ ~running
    BY <1>1, <1>4, <2>2 DEF SendMessage, At, Return, Begin, IInv, LockOK, Reading
  <2>3. CASE LogOutgoing(g)
    BY <1>1, <1>2, <1>3, <2>3 DEF LogOutgoing, At, Goto, lock, world, IInv, LockOK, Reading, ServerOK
  <2>4. CASE WriteOutgoing(g)
    BY <1>1, <1>4, <2>4 DEF WriteOutgoing, At, Return, Begin
  <2>. QED BY <2>1, <2>2, <2>3, <2>4
<1>5. Fits(g, step, errand) /\ step \in Step /\ errand \in Job
  <2>1. step \in Step /\ errand \in Job
    BY JobHas DEF Step
  <2>2. CASE g = "timer"
    BY <1>4, <2>1, <2>2, Roles DEF TimerFits
  <2>3. CASE g \in Request
    BY <1>1, <1>4, <2>1, <2>3, Names, Roles DEF RequestFits
  <2>. QED BY <1>1, <2>1, <2>2, <2>3
<1>6. UNCHANGED <<world, writer, pending>>
  BY DEF SendMessage, LogOutgoing, WriteOutgoing, lock
<1>7. Calm(g, step, errand)
  BY <1>1, <1>5, <1>6 DEF Calm, world, history
<1>8. KeepsLock(g, step)
  BY <1>1, <1>2, <1>6 DEF KeepsLock, IInv, LockOK
<1>9. KeepsCourse(g, step) /\ KeepsBoot(g, step, errand)
  BY <1>1, <1>2 DEF KeepsCourse, KeepsBoot
<1>10. Changing(g) = {}
  BY <1>2 DEF Changing
<1>11. KeepsRoom(g, step, errand)
  <2>1. Change(Changing(g))
    BY <1>6, <1>10 DEF Change, world, IInv, Data
  <2>. QED BY <2>1 DEF KeepsRoom, ChangesAt
<1>12. KeepsFiles(g, step, errand)
  BY <1>1, <1>2, <1>6, <1>10 DEF KeepsFiles, OwesAt, world
<1>. QED BY <1>1, <1>5, <1>7, <1>8, <1>9, <1>11, <1>12 DEF Ordinary, OrdinaryStep

\* What a goroutine of any role but a registry's does on its way.
LEMMA HomeFits ==
  ASSUME NEW g \in Goroutine \ Saver
  PROVE  /\ Fits(g, Home(g), "none") /\ Home(g) \in {"top", "select", "arm", "done", "idle"}
         /\ Home(g) = "done" => g \notin Spawned
         /\ Home(g) \in Step
<1>1. "none" \in Job /\ {"top", "select", "arm", "done", "idle"} \subseteq Step
  BY JobHas DEF Step
<1>2. CASE g \in Link
  BY <1>1, <1>2, Homes, Roles DEF LinkFits
<1>3. CASE g = "detector"
  BY <1>1, <1>3, Homes, Roles DEF DetectorFits
<1>4. CASE g = "main"
  BY <1>1, <1>4, Homes, Roles DEF MainFits
<1>5. CASE g = "timer"
  BY <1>1, <1>5, Homes, Roles, Names DEF TimerFits
<1>6. CASE g \in Request
  BY <1>1, <1>6, Homes, Roles DEF RequestFits
<1>. QED BY <1>2, <1>3, <1>4, <1>5, <1>6 DEF Goroutine, Spawned, Sender

LEMMA RouteStep ==
  ASSUME IInv, NEW g \in Goroutine \ Saver, Route(g)
  PROVE  OrdinaryStep
<1>1. Fits(g, pc[g], job[g]) /\ job[g] \in Job /\ job = [job EXCEPT ![g] = job[g]] /\ pc[g] = "route"
  BY DEF IInv, Places, Route, At
<1>2. Fits(g, "transmit", job[g]) /\ "transmit" \in Step
  <2>1. "transmit" \in Step
    BY DEF Step
  <2>. QED
    BY <1>1, <2>1, Names DEF Fits, LinkFits, SaverFits, DetectorFits, TimerFits, MainFits, RequestFits
<1>3. KeepsCourse(g, "transmit") /\ KeepsBoot(g, "transmit", job[g])
  BY <1>1 DEF KeepsCourse, KeepsBoot, BootingAt
<1>4. /\ pc' = [pc EXCEPT ![g] = "transmit"] /\ UNCHANGED <<job, world, lock>>
      /\ OwesAt(pc[g], job[g]) => OwesAt("transmit", job[g])
      /\ \A r \in Saver : ~ChangesAt("transmit", job[g], r)
  BY <1>1 DEF Route, Goto, OwesAt, ChangesAt
<1>. QED BY <1>1, <1>2, <1>3, <1>4, Quiet

LEMMA TransmitStep ==
  ASSUME IInv, NEW g \in Goroutine \ Saver, Transmit(g)
  PROVE  OrdinaryStep
<1>1. Fits(g, pc[g], job[g]) /\ job[g] \in Job /\ pc[g] = "transmit"
  BY DEF IInv, Places, Transmit, At
<1>2. job[g] \in {"join", "approve", "preset", "data"} /\ (job[g] = "data" => g \in Request)
  BY <1>1 DEF Fits, LinkFits, SaverFits, DetectorFits, TimerFits, MainFits, RequestFits,
              Goroutine, Spawned, Sender
<1>3. "save" \in Step /\ "want" \in Step /\ "none" \in Job
  BY JobHas DEF Step
<1>4. UNCHANGED <<world, lock>>
  BY DEF Transmit
<1>5. CASE job[g] \in {"join", "approve"}
  <2>1. /\ pc' = [pc EXCEPT ![g] = "save"] /\ job' = [job EXCEPT ![g] = job[g]]
    BY <1>5 DEF Transmit, Begin
  <2>2. Fits(g, "save", job[g])
    BY <1>1, <1>3, <1>5, Names DEF Fits, LinkFits, SaverFits, DetectorFits, TimerFits, MainFits, RequestFits
  <2>3. KeepsCourse(g, "save") /\ KeepsBoot(g, "save", job[g])
    BY <1>1 DEF KeepsCourse, KeepsBoot, BootingAt
  <2>4. OwesAt("save", job[g]) /\ \A r \in Saver : ~ChangesAt("save", job[g], r)
    BY <1>5 DEF OwesAt, ChangesAt
  <2>. QED BY <1>1, <1>3, <1>4, <2>1, <2>2, <2>3, <2>4, Quiet
<1>6. CASE job[g] = "preset"
  <2>1. /\ pc' = [pc EXCEPT ![g] = "want"] /\ job' = [job EXCEPT ![g] = job[g]]
    BY <1>6 DEF Transmit, Begin
  <2>2. Fits(g, "want", job[g])
    BY <1>1, <1>3, <1>6, Names DEF Fits, LinkFits, SaverFits, DetectorFits, TimerFits, MainFits, RequestFits
  <2>3. KeepsCourse(g, "want") /\ KeepsBoot(g, "want", job[g])
    BY <1>1 DEF KeepsCourse, KeepsBoot, BootingAt
  <2>4. ~OwesAt(pc[g], job[g]) /\ \A r \in Saver : ~ChangesAt("want", job[g], r)
    BY <1>6 DEF OwesAt, ChangesAt
  <2>. QED BY <1>1, <1>3, <1>4, <2>1, <2>2, <2>3, <2>4, Quiet
<1>7. CASE job[g] = "data"
  <2>1. Home(g) = "idle"
    BY <1>2, <1>7, Homes
  <2>2. /\ pc' = [pc EXCEPT ![g] = "idle"] /\ job' = [job EXCEPT ![g] = "none"]
    BY <1>7, <2>1 DEF Transmit, Return, Begin
  <2>3. Fits(g, "idle", "none") /\ "idle" \in Step
    BY <2>1, HomeFits
  <2>4. KeepsCourse(g, "idle") /\ KeepsBoot(g, "idle", "none")
    BY <1>1 DEF KeepsCourse, KeepsBoot, BootingAt
  <2>5. ~OwesAt(pc[g], job[g]) /\ \A r \in Saver : ~ChangesAt("idle", "none", r)
    BY <1>7 DEF OwesAt, ChangesAt
  <2>. QED BY <1>1, <1>3, <1>4, <2>2, <2>3, <2>4, <2>5, Quiet
<1>. QED BY <1>2, <1>5, <1>6, <1>7

LEMMA WantStep ==
  ASSUME IInv, NEW g \in Goroutine \ Saver, Want(g)
  PROVE  OrdinaryStep
<1>1. Fits(g, pc[g], job[g]) /\ job[g] \in Job /\ job = [job EXCEPT ![g] = job[g]] /\ pc[g] = "want"
  BY DEF IInv, Places, Want, At
<1>2. Fits(g, "pend", job[g]) /\ "pend" \in Step
  <2>1. "pend" \in Step
    BY DEF Step
  <2>. QED
    BY <1>1, <2>1, Names DEF Fits, LinkFits, SaverFits, DetectorFits, TimerFits, MainFits, RequestFits
<1>3. /\ pc' = [pc EXCEPT ![g] = "pend"] /\ UNCHANGED <<job, world, writer, readers>>
      /\ pending' = pending \cup {g}
  BY DEF Want, Goto
<1>4. Calm(g, "pend", job[g])
  BY <1>1, <1>2, <1>3 DEF Calm, world, history
<1>5. KeepsLock(g, "pend")
  BY <1>1, <1>3 DEF KeepsLock, IInv, LockOK, Reading
<1>6. KeepsCourse(g, "pend") /\ KeepsBoot(g, "pend", job[g])
  BY <1>1 DEF KeepsCourse, KeepsBoot, BootingAt
<1>7. Changing(g) = {}
  BY <1>1 DEF Changing
<1>8. KeepsRoom(g, "pend", job[g])
  <2>1. Change(Changing(g))
    BY <1>3, <1>7 DEF Change, world, IInv, Data
  <2>. QED BY <2>1 DEF KeepsRoom, ChangesAt
<1>9. KeepsFiles(g, "pend", job[g])
  BY <1>1, <1>3, <1>7 DEF KeepsFiles, OwesAt, world
<1>. QED BY <1>1, <1>2, <1>4, <1>5, <1>6, <1>8, <1>9 DEF Ordinary, OrdinaryStep

\* A writer gets mu, does what it wants it for, and lets go, all in one step.
LEMMA Released ==
  ASSUME IInv, NEW g \in Goroutine \ Saver, NEW step \in {"top", "select", "arm", "done", "idle", "serve", "closeStore"},
         Fits(g, step, "none"), pc[g] = "pend", MayWrite(g),
         step = "done" => g \notin Spawned, step = "closeStore" => ~running,
         step = "arm" => job[g] # "stop",
         pc' = [pc EXCEPT ![g] = step], job' = [job EXCEPT ![g] = "none"],
         pending' = pending \ {g}, UNCHANGED <<world, writer, readers>>
  PROVE  OrdinaryStep
<1>1. step \in Step /\ "none" \in Job
  BY JobHas DEF Step
<1>2. Calm(g, step, "none")
  BY DEF Calm, world, history
<1>3. KeepsLock(g, step)
  BY DEF KeepsLock, IInv, LockOK, Reading
<1>4. KeepsCourse(g, step) /\ KeepsBoot(g, step, "none")
  BY DEF KeepsCourse, KeepsBoot, BootingAt, MayWrite
<1>5. Changing(g) = {}
  BY DEF Changing
<1>6. KeepsRoom(g, step, "none")
  <2>1. Change(Changing(g))
    BY <1>5 DEF Change, world, IInv, Data
  <2>. QED BY <2>1 DEF KeepsRoom, ChangesAt
<1>7. KeepsFiles(g, step, "none")
  BY <1>5 DEF KeepsFiles, OwesAt, world
<1>. QED BY <1>1, <1>2, <1>3, <1>4, <1>6, <1>7 DEF Ordinary, OrdinaryStep

LEMMA ReleasingSteps ==
  ASSUME IInv, NEW g \in Goroutine \ Saver,
         LockBriefly(g) \/ (g \in Stopper /\ (StartFails(g) \/ StopRefused(g)))
  PROVE  OrdinaryStep
<1>1. Fits(g, Home(g), "none") /\ Home(g) \in {"top", "select", "arm", "done", "idle"}
      /\ (Home(g) = "done" => g \notin Spawned)
  BY HomeFits
<1>2. Fits("main", "serve", "none") /\ Fits("main", "closeStore", "none")
  <2>1. "serve" \in Step /\ "closeStore" \in Step /\ "none" \in Job
    BY JobHas DEF Step
  <2>. QED BY <2>1, Roles DEF MainFits
<1>3. CASE LockBriefly(g)
  BY <1>1, <1>3, Released DEF LockBriefly, At, Return, Begin
<1>4. CASE g \in Stopper /\ StartFails(g)
  <2>1. CASE g = "main"
    BY <1>2, <1>4, <2>1, Released DEF StartFails, At, Begin
  <2>2. CASE g # "main"
    BY <1>1, <1>4, <2>2, Released DEF StartFails, At, Return, Begin
  <2>. QED BY <2>1, <2>2
<1>5. CASE g \in Stopper /\ StopRefused(g)
  <2>1. CASE g = "main"
    BY <1>2, <1>5, <2>1, Released DEF StopRefused, At, AfterStop, Begin
  <2>2. CASE g # "main"
    <3>1. Home(g) = "idle"
      BY <1>5, <2>2, Homes DEF Stopper
    <3>. QED BY <1>1, <1>5, <2>2, <3>1, Released DEF StopRefused, At, AfterStop, Begin
  <2>. QED BY <2>1, <2>2
<1>. QED BY <1>3, <1>4, <1>5

LEMMA CheckStep ==
  ASSUME IInv, NEW g \in Stopper, Check(g)
  PROVE  OrdinaryStep
<1>1. g \in Goroutine \ Saver /\ g \notin Spawned
  BY Names DEF Spawned
<1>2. Fits(g, pc[g], job[g]) /\ job[g] \in Job /\ pc[g] = "check" /\ pc[g] \in Step
  BY <1>1 DEF IInv, Places, Check, At
<1>3. /\ job[g] \in {"start", "stop"} /\ (g = "main" => job[g] = "stop")
      /\ Fits(g, "want", job[g]) /\ (g = "main" => Fits(g, "closeStore", "none"))
  <2>1. "want" \in Step /\ "closeStore" \in Step /\ "none" \in Job
    BY JobHas DEF Step
  <2>2. CASE g = "main"
    BY <1>2, <2>1, <2>2, Roles DEF MainFits
  <2>3. CASE g \in Request
    BY <1>2, <2>1, <2>3, Names, Roles DEF RequestFits
  <2>. QED BY <2>2, <2>3 DEF Stopper
<1>. PICK step \in {"want", "closeStore", "idle"}, errand \in {job[g], "none"} :
       /\ pc' = [pc EXCEPT ![g] = step] /\ job' = [job EXCEPT ![g] = errand]
       /\ Fits(g, step, errand)
       /\ step = "closeStore" => ~running
       /\ errand = IF step = "want" THEN job[g] ELSE "none"
  <2>1. CASE running = (job[g] = "stop")
    BY <1>3, <2>1 DEF Check, Begin
  <2>2. CASE running # (job[g] = "stop") /\ g = "main"
    <3>1. ~running
      BY <1>3, <2>2 DEF IInv, Data
    <3>. QED BY <1>3, <2>2, <3>1 DEF Check, Begin
  <2>3. CASE running # (job[g] = "stop") /\ g # "main"
    <3>1. Home(g) = "idle" /\ Fits(g, "idle", "none")
      BY <1>1, <2>3, Homes, HomeFits DEF Stopper
    <3>. QED BY <2>3, <3>1 DEF Check, Return, Begin
  <2>. QED BY <2>1, <2>2, <2>3
<1>4. step \in Step /\ errand \in Job
  BY <1>2, JobHas DEF Step
<1>5. UNCHANGED <<world, lock>> /\ writer = {}
  BY DEF Check, MayRead
<1>6. KeepsCourse(g, step) /\ KeepsBoot(g, step, errand)
  BY <1>1, <1>2, <1>3, <1>5 DEF KeepsCourse, KeepsBoot, BootingAt
<1>7. ~OwesAt(pc[g], job[g]) /\ (\A r \in Saver : ~ChangesAt(step, errand, r)) /\ (errand = "start" => job[g] = "start")
  BY <1>2, <1>3 DEF OwesAt, ChangesAt
<1>. QED BY <1>1, <1>2, <1>4, <1>5, <1>6, <1>7, Quiet

LEMMA SaveStep ==
  ASSUME IInv, NEW g \in Goroutine \ Saver, SaveAuth(g)
  PROVE  OrdinaryStep
<1>1. /\ pc[g] = "save" /\ pc' = [pc EXCEPT ![g] = Home(g)] /\ job' = [job EXCEPT ![g] = "none"]
      /\ file' = [file EXCEPT !["auth"] = mem["auth"]]
      /\ UNCHANGED <<running, starts, stops, comms, open, mem, snap, storeOpen, stopped, late, lock>>
  BY DEF SaveAuth, At, Return, Begin, history
<1>2. Fits(g, Home(g), "none") /\ Home(g) \in {"top", "select", "arm", "done", "idle"}
      /\ (Home(g) = "done" => g \notin Spawned) /\ Home(g) \in Step /\ "none" \in Job
  BY HomeFits, JobHas
<1>3. Calm(g, Home(g), "none")
  BY <1>1, <1>2 DEF Calm, lock
<1>4. KeepsLock(g, Home(g))
  BY <1>1, <1>2 DEF KeepsLock, lock, IInv, LockOK, Reading
<1>5. KeepsCourse(g, Home(g)) /\ KeepsBoot(g, Home(g), "none")
  <2>1. g # "main"
    BY <1>1, Roles DEF IInv, Places, Fits, MainFits
  <2>. QED BY <1>1, <1>2, <2>1 DEF KeepsCourse, KeepsBoot
<1>6. Changing(g) = {}
  BY <1>1 DEF Changing
<1>7. KeepsRoom(g, Home(g), "none")
  <2>1. Change(Changing(g))
    BY <1>1, <1>6 DEF Change, IInv, Data
  <2>. QED BY <1>2, <2>1 DEF KeepsRoom, ChangesAt
<1>8. KeepsFiles(g, Home(g), "none")
  BY <1>1 DEF KeepsFiles
<1>. QED BY <1>1, <1>2, <1>3, <1>4, <1>5, <1>7, <1>8 DEF Ordinary, OrdinaryStep

\* The steps that are not ordinary.
Special ==
  \/ ArmTimer \/ CloseStore
  \/ \E g \in Stopper :
       \/ StartPrimary(g)
       \/ \E secondary \in SUBSET (Link \ {"primary"}) : StartLinks(g, secondary)
       \/ StopGranted(g) \/ StopPanics(g) \/ ClosePorts(g) \/ Join(g)

LEMMA Classified ==
  ASSUME IInv, Next
  PROVE  Alive /\ (OrdinaryStep \/ Special)
<1>0. Alive
  BY DEF Next
<1>1. ASSUME NEW g \in Goroutine, Proceed(g)
      PROVE  OrdinaryStep \/ Special
  <2>1. CASE g \in Link /\ (Top(g) \/ Pause(g) \/ Handle(g))
    BY <2>1, LinkSteps
  <2>2. CASE g = "detector" /\ DetectorStop
    BY <2>2, DetectorSteps
  <2>3. CASE (g = "auth" /\ AuthStop) \/ (g = "node" /\ (NodeStop \/ NodeWrite))
    BY <2>3, SaverSteps
  <2>4. CASE g = "main" /\ (ArmTimer \/ Drain \/ CloseStore)
    BY <2>4, MainSteps DEF Special
  <2>5. CASE g \in Stopper /\ StartOrStop(g)
    <3>1. g \in Goroutine \ Saver
      BY <2>5, Names DEF Spawned
    <3>. QED BY <2>5, <3>1, ReleasingSteps, CheckStep DEF StartOrStop, Special
  <2>6. CASE g \in Stopper /\ ApproveRequest(g)
    BY <2>6, RequestApproves
  <2>7. CASE g \in Sender /\ (SendMessage(g) \/ LogOutgoing(g) \/ WriteOutgoing(g))
    BY <2>7, SenderSteps
  <2>8. CASE g \notin Saver /\ (Route(g) \/ Transmit(g) \/ SaveAuth(g) \/ Want(g) \/ LockBriefly(g))
    <3>1. g \in Goroutine \ Saver
      BY <2>8
    <3>2. CASE Route(g) \/ Transmit(g) \/ SaveAuth(g)
      BY <3>1, <3>2, RouteStep, TransmitStep, SaveStep
    <3>3. CASE Want(g)
      BY <3>1, <3>3, WantStep
    <3>4. CASE LockBriefly(g)
      BY <3>1, <3>4, ReleasingSteps
    <3>. QED BY <2>8, <3>2, <3>3, <3>4
  <2>. QED BY <1>1, <2>1, <2>2, <2>3, <2>4, <2>5, <2>6, <2>7, <2>8 DEF Proceed
<1>2. ASSUME Environment
      PROVE  OrdinaryStep
  BY <1>2, LinkSteps, DetectorSteps, SaverSteps, RequestBegins, TimerStep, MainSteps DEF Environment
<1>. QED BY <1>0, <1>1, <1>2 DEF Next

(***************************************************************************)
(* What an ordinary step keeps.                                            *)
(***************************************************************************)

LEMMA FiniteParts ==
  /\ IsFiniteSet(ToStart) /\ Cardinality(ToStart) \in Nat
  /\ \A r : IsFiniteSet(ToChange(r)) /\ Cardinality(ToChange(r)) \in Nat
<1>1. ToStart \subseteq Stopper /\ \A r : ToChange(r) \subseteq Goroutine
  BY DEF ToStart, ToChange
<1>2. IsFiniteSet(ToStart) /\ \A r : IsFiniteSet(ToChange(r))
  BY <1>1, FiniteGoroutine, FS_Subset
<1>. QED BY <1>2, FS_CardinalityType

\* One goroutine moves, whatever else happens.
LEMMA Moved ==
  ASSUME IInv, NEW g \in Goroutine, NEW step \in Step, NEW errand \in Job, Fits(g, step, errand),
         pc' = [pc EXCEPT ![g] = step], job' = [job EXCEPT ![g] = errand]
  PROVE  /\ Places'
         /\ pc'[g] = step /\ job'[g] = errand
         /\ \A h \in Goroutine \ {g} : pc'[h] = pc[h] /\ job'[h] = job[h]
<1>1. /\ pc \in [Goroutine -> Step] /\ job \in [Goroutine -> Job]
      /\ \A h \in Goroutine : Fits(h, pc[h], job[h])
  BY DEF IInv, Places
<1>2. /\ pc' \in [Goroutine -> Step] /\ job' \in [Goroutine -> Job]
      /\ pc'[g] = step /\ job'[g] = errand
      /\ \A h \in Goroutine \ {g} : pc'[h] = pc[h] /\ job'[h] = job[h]
  BY <1>1
<1>3. \A h \in Goroutine : Fits(h, pc'[h], job'[h])
  BY <1>1, <1>2
<1>4. Places'
  BY <1>2, <1>3 DEF Places
<1>. QED BY <1>2, <1>4

LEMMA OrdinaryPlaces ==
  ASSUME IInv, NEW g, NEW step, NEW errand, Calm(g, step, errand)
  PROVE  /\ Places'
         /\ g \in Goroutine /\ pc'[g] = step /\ job'[g] = errand /\ step \in Step /\ errand \in Job
         /\ \A h \in Goroutine \ {g} : pc'[h] = pc[h] /\ job'[h] = job[h]
<1>1. step \in Step /\ errand \in Job
  BY DEF Calm, Fits
<1>. QED BY <1>1, Moved DEF Calm

LEMMA OrdinaryLock ==
  ASSUME IInv, NEW g, NEW step, NEW errand, Ordinary(g, step, errand)
  PROVE  LockOK'
<1>1. /\ g \in Goroutine /\ pc'[g] = step
      /\ \A h \in Goroutine \ {g} : pc'[h] = pc[h]
      /\ writer' = writer
  BY OrdinaryPlaces DEF Ordinary, Calm
<1>2. ~Writing(g) /\ ~Writing(g)'
  BY <1>1 DEF Ordinary, KeepsCourse, Writing, Stopping
<1>3. writer' = {h \in Goroutine : Writing(h)'}
  BY <1>1, <1>2 DEF IInv, LockOK, Writing, Stopping
<1>4. readers' = {h \in Goroutine : Reading(h)'}
  BY <1>1 DEF IInv, LockOK, Reading, Ordinary, KeepsLock
<1>5. pending' = {h \in Goroutine : pc'[h] = "pend"}
  BY <1>1 DEF IInv, LockOK, Ordinary, KeepsLock
<1>6. writer' # {} => readers' = {}
  <2>1. SUFFICES ASSUME writer # {} PROVE readers' = {}
    BY <1>1
  <2>2. step \notin {"log", "write"} /\ readers = {}
    BY <2>1 DEF Ordinary, KeepsLock, IInv, LockOK
  <2>. QED BY <2>2 DEF Ordinary, KeepsLock
<1>7. \A x, y \in writer' : x = y
  BY <1>1 DEF IInv, LockOK
<1>. QED BY <1>3, <1>4, <1>5, <1>6, <1>7 DEF LockOK

LEMMA OrdinaryStartRoom ==
  ASSUME IInv, NEW g, NEW step, NEW errand, Ordinary(g, step, errand)
  PROVE  StartRoom'
<1>1. /\ g \in Goroutine /\ pc'[g] = step /\ job'[g] = errand
      /\ \A h \in Goroutine \ {g} : pc'[h] = pc[h] /\ job'[h] = job[h]
      /\ starts' = starts /\ starts \in Nat
  BY OrdinaryPlaces DEF Ordinary, Calm, IInv, Data
<1>2. starts + Cardinality(ToStart) <= MaxStarts
  BY DEF IInv, StartRoom
<1>3. IsFiniteSet(ToStart) /\ Cardinality(ToStart) \in Nat
  BY FiniteParts
<1>4. pc[g] # "startLinks" /\ step # "startLinks"
  BY DEF Ordinary, KeepsCourse
<1>5. CASE errand = "start" /\ job[g] # "start"
  <2>. DEFINE Asked == {r \in Request : job[r] = "start"}
  <2>1. starts + Cardinality(Asked) < MaxStarts /\ pc["main"] = "serve"
    BY <1>5 DEF Ordinary, KeepsRoom
  <2>2. "main" \in Goroutine /\ job["main"] # "start"
    <3>1. "main" \in Goroutine
      BY Names
    <3>2. Fits("main", "serve", job["main"]) /\ job["main"] \in Job /\ "serve" \in Step
      BY <2>1, <3>1 DEF IInv, Places, Fits
    <3>3. MainFits("serve", job["main"])
      BY <3>2, Roles
    <3>. QED BY <3>1, <3>3 DEF MainFits
  <2>3. IsFiniteSet(Asked) /\ Cardinality(Asked) \in Nat
    <3>1. Asked \subseteq Request
      OBVIOUS
    <3>. QED BY <3>1, FS_Subset, FS_CardinalityType
  <2>4. ToStart' \subseteq Asked \cup {g}
    <3>1. "main" \in Goroutine \ {g} => job'["main"] # "start"
      BY <1>1, <2>2
    <3>2. \A h \in Stopper : h \in ToStart' /\ h # g => h \in Request /\ job[h] = "start"
      BY <1>1, <2>2, <3>1, Names DEF ToStart, Stopper
    <3>. QED BY <3>2 DEF ToStart
  <2>. HIDE DEF Asked
  <2>5. /\ Cardinality(Asked \cup {g}) = IF g \in Asked THEN Cardinality(Asked) ELSE Cardinality(Asked) + 1
        /\ IsFiniteSet(Asked \cup {g}) /\ Cardinality(Asked \cup {g}) \in Nat
    BY <2>3, FS_AddElement, FS_CardinalityType
  <2>6. Cardinality(ToStart') <= Cardinality(Asked \cup {g}) /\ Cardinality(ToStart') \in Nat
    BY <2>4, <2>5, FS_Subset, FS_CardinalityType
  <2>. QED BY <1>1, <2>1, <2>3, <2>5, <2>6 DEF StartRoom
<1>6. CASE ~(errand = "start" /\ job[g] # "start")
  <2>1. ToStart' \subseteq ToStart
    BY <1>1, <1>4, <1>6, Names DEF ToStart
  <2>2. Cardinality(ToStart') <= Cardinality(ToStart) /\ Cardinality(ToStart') \in Nat
    BY <1>3, <2>1, FS_Subset, FS_CardinalityType
  <2>. QED BY <1>1, <1>2, <1>3, <2>2 DEF StartRoom
<1>. QED BY <1>5, <1>6

LEMMA OrdinaryChangeRoom ==
  ASSUME IInv, NEW g, NEW step, NEW errand, Ordinary(g, step, errand)
  PROVE  ChangeRoom'
<1>1. /\ g \in Goroutine /\ pc'[g] = step /\ job'[g] = errand
      /\ \A h \in Goroutine \ {g} : pc'[h] = pc[h] /\ job'[h] = job[h]
  BY OrdinaryPlaces DEF Ordinary
<1>. SUFFICES ASSUME NEW r \in Saver
              PROVE  mem'[r] + Cardinality(ToChange(r)') <= MaxChanges
  BY DEF ChangeRoom
<1>. DEFINE Before == ToChange(r)
            After == ToChange(r)'
<1>2. /\ mem[r] \in Nat /\ mem[r] + Cardinality(Before) <= MaxChanges
      /\ IsFiniteSet(Before) /\ Cardinality(Before) \in Nat
  BY FiniteParts DEF IInv, Data, ChangeRoom
<1>3. \A h \in Goroutine \ {g} : h \in After <=> h \in Before
  BY <1>1, ChangingIs, ChangingIsNext DEF ToChange
<1>4. After \subseteq Goroutine /\ Before \subseteq Goroutine
  BY DEF ToChange
<1>5. mem'[r] = IF g \in Before THEN mem[r] + 1 ELSE mem[r]
  BY <1>1 DEF Ordinary, KeepsRoom, Change, ToChange
<1>6. g \in After => mem[r] + Cardinality(Before) < MaxChanges
  BY <1>1, ChangingIsNext DEF Ordinary, KeepsRoom, Room, ToChange
<1>. HIDE DEF Before, After
<1>7. CASE g \in After
  <2>1. After \subseteq Before \cup {g}
    BY <1>3, <1>4
  <2>2. /\ Cardinality(Before \cup {g}) = IF g \in Before THEN Cardinality(Before) ELSE Cardinality(Before) + 1
        /\ IsFiniteSet(Before \cup {g}) /\ Cardinality(Before \cup {g}) \in Nat
    BY <1>2, FS_AddElement, FS_CardinalityType
  <2>3. Cardinality(After) <= Cardinality(Before \cup {g}) /\ Cardinality(After) \in Nat
    BY <2>1, <2>2, FS_Subset, FS_CardinalityType
  <2>. QED BY <1>2, <1>5, <1>6, <1>7, <2>2, <2>3 DEF After
<1>8. CASE g \notin After
  <2>1. After = Before \ {g}
    BY <1>3, <1>4, <1>8
  <2>2. Cardinality(After) = IF g \in Before THEN Cardinality(Before) - 1 ELSE Cardinality(Before)
    BY <1>2, <2>1, FS_RemoveElement
  <2>. QED BY <1>2, <1>5, <2>2 DEF After
<1>. QED BY <1>7, <1>8

LEMMA OrdinaryData ==
  ASSUME IInv, NEW g, NEW step, NEW errand, Ordinary(g, step, errand)
  PROVE  Data'
<1>1. /\ running' \in BOOLEAN /\ storeOpen' \in BOOLEAN /\ late' \in BOOLEAN
      /\ starts' \in Nat /\ stops' \in Nat /\ comms' \subseteq Link /\ open' \subseteq comms'
      /\ stopped' \in [Saver -> 0 .. MaxChanges]
  BY DEF Ordinary, Calm, IInv, Data
<1>2. mem' \in [Saver -> 0 .. MaxChanges]
  <2>1. mem \in [Saver -> Nat] /\ mem' = [r \in Saver |-> IF r \in Changing(g) THEN mem[r] + 1 ELSE mem[r]]
    BY DEF IInv, Data, Ordinary, KeepsRoom, Change
  <2>2. \A r \in Saver : mem'[r] \in Nat
    BY <2>1
  <2>3. \A r \in Saver : mem'[r] + Cardinality(ToChange(r)') <= MaxChanges
    BY OrdinaryChangeRoom DEF ChangeRoom
  <2>4. \A r : IsFiniteSet(ToChange(r)')
    <3>1. \A r : ToChange(r)' \subseteq Goroutine
      BY DEF ToChange
    <3>. QED BY <3>1, FiniteGoroutine, FS_Subset
  <2>5. \A r : Cardinality(ToChange(r)') \in Nat
    BY <2>4, FS_CardinalityType
  <2>6. \A r \in Saver : mem'[r] \in 0 .. MaxChanges
    BY <2>2, <2>3, <2>5
  <2>. QED BY <2>1, <2>6
<1>3. file' \in [Saver -> 0 .. MaxChanges] /\ snap' \in 0 .. MaxChanges
  BY DEF Ordinary, KeepsFiles, IInv, Data, Saver, AuthTick, AuthStop, NodeTick, NodeStop, NodeWrite
<1>. QED BY <1>1, <1>2, <1>3 DEF Data

\* What the rest of the invariant needs to know of an ordinary step.
LEMMA OrdinaryFacts ==
  ASSUME IInv, NEW g, NEW step, NEW errand, Ordinary(g, step, errand)
  PROVE  /\ g \in Goroutine /\ pc'[g] = step /\ job'[g] = errand
         /\ \A h \in Goroutine \ {g} : pc'[h] = pc[h] /\ job'[h] = job[h]
         /\ UNCHANGED <<running, starts, stops, comms, open, storeOpen, stopped, late, writer>>
         /\ KeepsCourse(g, step)
BY OrdinaryPlaces DEF Ordinary, Calm

LEMMA OrdinaryServer ==
  ASSUME IInv, NEW g, NEW step, NEW errand, Ordinary(g, step, errand)
  PROVE  ServerOK'
<1>1. /\ g \in Goroutine /\ pc'[g] = step /\ KeepsCourse(g, step)
      /\ \A h \in Goroutine \ {g} : pc'[h] = pc[h]
      /\ UNCHANGED <<running, starts, stops, open>>
  BY OrdinaryFacts
<1>2. readers' # {} => running'
  BY <1>1 DEF Ordinary, KeepsLock, IInv, ServerOK
<1>3. ASSUME NEW h \in Goroutine
      PROVE  /\ pc'[h] = "startLinks" => running'
             /\ Stopping(h)' => ~running' /\ stops' = 1
  BY <1>1 DEF KeepsCourse, Stopping, IInv, ServerOK
<1>4. starts' = (IF running' THEN stops' + 1 ELSE stops') /\ (running' => "primary" \in open')
  BY <1>1 DEF IInv, ServerOK
<1>. QED BY <1>2, <1>3, <1>4 DEF ServerOK

LEMMA OrdinarySpawn ==
  ASSUME IInv, NEW g, NEW step, NEW errand, Ordinary(g, step, errand)
  PROVE  SpawnOK'
<1>1. /\ g \in Goroutine /\ pc'[g] = step
      /\ \A h \in Goroutine \ {g} : pc'[h] = pc[h]
      /\ UNCHANGED <<running, starts, stops>>
  BY OrdinaryFacts
<1>2. /\ pc[g] \notin {"off", "done", "startLinks", "teardown", "join"}
      /\ step \notin {"off", "startLinks", "teardown", "join"}
      /\ step = "done" /\ g \in Spawned => stops > 0
      /\ pc[g] = "top" /\ stops > 0 => step = "done"
  BY OrdinaryFacts DEF KeepsCourse
<1>3. /\ Link \subseteq Spawned /\ Saver \subseteq Spawned /\ Spawned \subseteq Goroutine
      /\ Stopper \subseteq Goroutine
  BY Names
<1>4. starts' = 0 => \A h \in Spawned : pc'[h] = "off"
  BY <1>1, <1>2, <1>3 DEF IInv, SpawnOK
<1>5. \A h \in Goroutine : pc'[h] = "startLinks" => \A k \in Spawned \ {"primary"} : Ended(k)'
  <2>1. SUFFICES ASSUME NEW h \in Goroutine, pc'[h] = "startLinks", NEW k \in Spawned \ {"primary"}
                 PROVE  Ended(k)'
    OBVIOUS
  <2>2. pc[h] = "startLinks"
    BY <1>1, <1>2, <2>1
  <2>3. Ended(k)
    BY <2>1, <2>2 DEF IInv, SpawnOK
  <2>. QED BY <1>1, <1>2, <1>3, <2>1, <2>3 DEF Ended
<1>6. starts' > 0 /\ (\A h \in Goroutine : pc'[h] # "startLinks") => \A r \in Saver : pc'[r] # "off"
  <2>1. SUFFICES ASSUME starts > 0, \A h \in Goroutine : pc'[h] # "startLinks"
                 PROVE  \A r \in Saver : pc'[r] # "off"
    BY <1>1
  <2>2. \A h \in Goroutine : pc[h] # "startLinks"
    BY <1>1, <1>2, <2>1
  <2>3. \A r \in Saver : pc[r] # "off"
    BY <2>1, <2>2 DEF IInv, SpawnOK
  <2>. QED BY <1>1, <1>2, <1>3, <2>3
<1>7. stops' = 0 => \A h \in Spawned : pc'[h] # "done"
  <2>1. stops = 0 => ~(stops > 0)
    OBVIOUS
  <2>. QED BY <1>1, <1>2, <1>3, <2>1 DEF IInv, SpawnOK
<1>8. stops' > 0 /\ (\A h \in Goroutine : ~Stopping(h)') => \A l \in Link : Idling(l)'
  <2>1. SUFFICES ASSUME stops > 0, \A h \in Goroutine : ~Stopping(h)'
                 PROVE  \A l \in Link : Idling(l)'
    BY <1>1
  <2>2. \A h \in Goroutine : ~Stopping(h)
    BY <1>1, <1>2, <2>1 DEF Stopping
  <2>3. \A l \in Link : Idling(l)
    BY <2>1, <2>2 DEF IInv, SpawnOK
  <2>. QED BY <1>1, <1>2, <1>3, <2>1, <2>3 DEF Idling
<1>9. StopLeavesNothing'
  <2>1. StoppedOnce' => StoppedOnce
    BY <1>1, <1>2, <1>3 DEF StoppedOnce
  <2>2. StoppedOnce => \A h \in Spawned : pc[h] \in {"off", "done"}
    BY DEF IInv, SpawnOK, StopLeavesNothing
  <2>. QED BY <1>1, <1>2, <1>3, <2>1, <2>2 DEF StopLeavesNothing
<1>. QED BY <1>4, <1>5, <1>6, <1>7, <1>8, <1>9 DEF SpawnOK

LEMMA OrdinarySave ==
  ASSUME IInv, NEW g, NEW step, NEW errand, Ordinary(g, step, errand)
  PROVE  SaveOK'
<1>1. /\ g \in Goroutine /\ pc'[g] = step /\ job'[g] = errand
      /\ \A h \in Goroutine \ {g} : pc'[h] = pc[h] /\ job'[h] = job[h]
      /\ UNCHANGED <<stops, stopped>>
  BY OrdinaryFacts
<1>2. /\ mem \in [Saver -> Nat] /\ stopped \in [Saver -> Nat] /\ file \in [Saver -> Nat] /\ snap \in Nat
      /\ stops \in Nat
  BY DEF IInv, Data
<1>3. /\ \A r \in Saver : stopped[r] <= mem[r]
      /\ \A r \in Saver : pc[r] = "done" => stopped[r] <= file[r]
      /\ pc["node"] = "persist" /\ job["node"] = "stop" => stops > 0 /\ stopped["node"] <= snap
      /\ file["auth"] = mem["auth"] \/ \E h \in Goroutine : OwesAt(pc[h], job[h])
  BY DEF IInv, SaveOK
<1>4. mem' = [r \in Saver |-> IF r \in Changing(g) THEN mem[r] + 1 ELSE mem[r]]
  BY DEF Ordinary, KeepsRoom, Change
<1>5. \A r \in Saver : mem'[r] \in Nat /\ mem[r] <= mem'[r]
  BY <1>2, <1>4
<1>6. \A r \in Saver : stopped'[r] <= mem'[r]
  BY <1>1, <1>2, <1>3, <1>5
<1>7. "auth" \in Saver /\ "node" \in Saver /\ Saver \subseteq Goroutine
  BY Names DEF Saver
<1>8. ASSUME g \notin Saver, UNCHANGED snap,
             file' = file \/ file' = [file EXCEPT !["auth"] = mem["auth"]]
      PROVE  /\ \A r \in Saver : pc'[r] = "done" => stopped'[r] <= file'[r]
             /\ pc'["node"] = "persist" /\ job'["node"] = "stop" => stops' > 0 /\ stopped'["node"] <= snap'
  BY <1>1, <1>2, <1>3, <1>7, <1>8
<1>9. CASE /\ g \notin Saver /\ UNCHANGED <<file, snap>>
           /\ OwesAt(pc[g], job[g]) \/ "auth" \in Changing(g) => OwesAt(step, errand)
  <2>1. file'["auth"] = mem'["auth"] \/ \E h \in Goroutine : OwesAt(pc'[h], job'[h])
    <3>1. CASE OwesAt(step, errand)
      BY <1>1, <3>1
    <3>2. CASE ~OwesAt(step, errand)
      <4>1. mem'["auth"] = mem["auth"] /\ file' = file
        BY <1>4, <1>7, <1>9, <3>2
      <4>2. \A h \in Goroutine : OwesAt(pc[h], job[h]) => OwesAt(pc'[h], job'[h])
        BY <1>1, <1>9, <3>2
      <4>. QED BY <1>3, <4>1, <4>2
    <3>. QED BY <3>1, <3>2
  <2>. QED BY <1>6, <1>8, <1>9, <2>1 DEF SaveOK
<1>10. CASE /\ g \notin Saver /\ UNCHANGED <<mem, snap>>
            /\ file' = [file EXCEPT !["auth"] = mem["auth"]]
  <2>1. file'["auth"] = mem'["auth"]
    BY <1>2, <1>7, <1>10
  <2>. QED BY <1>6, <1>8, <1>10, <2>1 DEF SaveOK
<1>11. CASE g = "auth" /\ (AuthTick \/ AuthStop)
  <2>1. /\ file' = [file EXCEPT !["auth"] = mem["auth"]] /\ UNCHANGED <<mem, snap>>
    BY <1>11 DEF AuthTick, AuthStop
  <2>2. file'["auth"] = mem'["auth"] /\ file'["node"] = file["node"]
    BY <1>2, <1>7, <2>1
  <2>3. pc'["node"] = pc["node"] /\ job'["node"] = job["node"]
    BY <1>1, <1>7, <1>11
  <2>4. \A r \in Saver : pc'[r] = "done" => stopped'[r] <= file'[r]
    BY <1>1, <1>3, <1>6, <2>2, <2>3 DEF Saver
  <2>. QED BY <1>1, <1>3, <1>6, <2>1, <2>2, <2>3, <2>4 DEF SaveOK
<1>12. CASE g = "node" /\ (NodeTick \/ NodeStop \/ NodeWrite)
  <2>1. /\ pc'["auth"] = pc["auth"] /\ mem' = mem /\ file'["auth"] = file["auth"]
    BY <1>1, <1>2, <1>7, <1>12 DEF NodeTick, NodeStop, NodeWrite
  <2>2. file'["auth"] = mem'["auth"] \/ \E h \in Goroutine : OwesAt(pc'[h], job'[h])
    <3>1. ~OwesAt(pc["node"], job["node"])
      BY <1>12 DEF OwesAt, NodeTick, NodeStop, NodeWrite, At
    <3>. QED BY <1>1, <1>3, <1>12, <2>1, <3>1
  <2>3. pc'["node"] = "done" => stopped'["node"] <= file'["node"]
    <3>1. CASE NodeTick \/ NodeStop
      BY <1>7, <3>1 DEF NodeTick, NodeStop, Begin, IInv, Places
    <3>2. CASE NodeWrite
      <4>1. pc["node"] = "persist" /\ file' = [file EXCEPT !["node"] = snap]
            /\ pc' = [pc EXCEPT !["node"] = IF job["node"] = "stop" THEN "done" ELSE "select"]
        BY <3>2 DEF NodeWrite, At, Begin
      <4>2. pc'["node"] = "done" => job["node"] = "stop"
        BY <1>7, <4>1 DEF IInv, Places
      <4>3. file'["node"] = snap
        BY <1>2, <1>7, <4>1
      <4>. QED BY <1>1, <1>3, <4>1, <4>2, <4>3
    <3>. QED BY <1>12, <3>1, <3>2
  <2>4. pc'["node"] = "persist" /\ job'["node"] = "stop" => stops' > 0 /\ stopped'["node"] <= snap'
    <3>1. CASE NodeStop
      BY <1>1, <1>3, <1>7, <3>1 DEF NodeStop, cancelled
    <3>2. CASE NodeTick
      BY <1>1, <1>12, <3>2, <1>7 DEF NodeTick, Begin, IInv, Places
    <3>3. CASE NodeWrite
      BY <1>1, <1>12, <3>3, <1>7 DEF NodeWrite, Begin, IInv, Places
    <3>. QED BY <1>12, <3>1, <3>2, <3>3
  <2>5. \A r \in Saver : pc'[r] = "done" => stopped'[r] <= file'[r]
    BY <1>1, <1>3, <2>1, <2>3 DEF Saver
  <2>. QED BY <1>6, <2>2, <2>4, <2>5 DEF SaveOK
<1>. QED BY <1>9, <1>10, <1>11, <1>12 DEF Ordinary, KeepsFiles

LEMMA OrdinaryStore ==
  ASSUME IInv, Alive, NEW g, NEW step, NEW errand, Ordinary(g, step, errand)
  PROVE  StoreOK'
<1>1. /\ g \in Goroutine /\ pc'[g] = step
      /\ \A h \in Goroutine \ {g} : pc'[h] = pc[h]
      /\ UNCHANGED <<running, stops, storeOpen, late>>
  BY OrdinaryFacts
<1>2. /\ pc[g] \notin {"off", "done", "startLinks", "teardown", "join", "closeStore", "down"}
      /\ step \notin {"off", "down"}
      /\ pc[g] = "top" /\ stops > 0 => step = "done"
      /\ step = "closeStore" => ~running /\ writer = {}
  BY OrdinaryFacts DEF KeepsCourse
<1>3. Link \subseteq Spawned /\ Spawned \subseteq Goroutine /\ "main" \in Goroutine /\ "main" \notin Spawned
  BY Names
<1>4. storeOpen'
  BY <1>1 DEF IInv, StoreOK, Alive
<1>5. ASSUME pc'["main"] \in {"closeStore", "down"}, ~late
      PROVE  ~running /\ \A l \in Link : Idling(l)'
  <2>1. ~running /\ \A l \in Link : Idling(l)
    <3>1. CASE g = "main"
      <4>1. ~running /\ writer = {} /\ step = "closeStore"
        BY <1>1, <1>2, <1>5, <3>1
      <4>2. \A h \in Goroutine : ~Stopping(h)
        BY <4>1 DEF IInv, LockOK, Writing
      <4>3. starts = stops /\ stops \in Nat
        BY <4>1 DEF IInv, ServerOK, Data
      <4>4. CASE stops > 0
        BY <4>1, <4>2, <4>4 DEF IInv, SpawnOK
      <4>5. CASE stops = 0
        BY <1>3, <4>1, <4>3, <4>5 DEF IInv, SpawnOK, Idling
      <4>. QED BY <4>3, <4>4, <4>5
    <3>2. CASE g # "main"
      BY <1>1, <1>3, <1>5, <3>2 DEF IInv, StoreOK
    <3>. QED BY <3>1, <3>2
  <2>2. starts = stops /\ stops \in Nat
    BY <2>1 DEF IInv, ServerOK, Data
  <2>3. CASE stops > 0
    BY <1>1, <1>2, <1>3, <2>1, <2>3 DEF Idling
  <2>4. CASE stops = 0
    <3>1. \A l \in Link : pc[l] = "off"
      BY <1>3, <2>2, <2>4 DEF IInv, SpawnOK
    <3>. QED BY <1>1, <1>2, <1>3, <2>1, <3>1 DEF Idling
  <2>. QED BY <2>2, <2>3, <2>4
<1>. QED BY <1>1, <1>4, <1>5 DEF StoreOK

LEMMA OrdinaryBoot ==
  ASSUME IInv, NEW g, NEW step, NEW errand, Ordinary(g, step, errand)
  PROVE  BootOK'
<1>1. /\ g \in Goroutine /\ pc'[g] = step /\ job'[g] = errand
      /\ \A h \in Goroutine \ {g} : pc'[h] = pc[h] /\ job'[h] = job[h]
      /\ pc[g] # "off" /\ KeepsBoot(g, step, errand)
  BY OrdinaryFacts DEF Ordinary, KeepsCourse
<1>2. "main" \in Goroutine /\ "timer" \in Goroutine
  BY Names
<1>. QED BY <1>1, <1>2 DEF IInv, BootOK, KeepsBoot

LEMMA OrdinaryKeeps ==
  ASSUME IInv, Alive, OrdinaryStep
  PROVE  IInv'
<1>. PICK g \in Goroutine, step \in Step, errand \in Job : Ordinary(g, step, errand)
  BY DEF OrdinaryStep
<1>1. Calm(g, step, errand)
  BY DEF Ordinary
<1>2. Places'
  BY <1>1, OrdinaryPlaces
<1>3. Data' /\ LockOK' /\ StartRoom' /\ ChangeRoom'
  BY OrdinaryData, OrdinaryLock, OrdinaryStartRoom, OrdinaryChangeRoom
<1>4. ServerOK' /\ SpawnOK' /\ SaveOK' /\ StoreOK' /\ BootOK'
  BY OrdinaryServer, OrdinarySpawn, OrdinarySave, OrdinaryStore, OrdinaryBoot
<1>. QED BY <1>2, <1>3, <1>4 DEF IInv

(***************************************************************************)
(* What the other steps keep.                                              *)
(***************************************************************************)

LEMMA ChangeRoomKept ==
  ASSUME IInv, UNCHANGED mem,
         \A h \in Goroutine : \/ pc'[h] = pc[h] /\ job'[h] = job[h]
                              \/ pc'[h] \notin {"handle", "assign"}
  PROVE  ChangeRoom'
<1>. SUFFICES ASSUME NEW r \in Saver
              PROVE  mem[r] + Cardinality(ToChange(r)') <= MaxChanges
  BY DEF ChangeRoom
<1>1. ToChange(r)' \subseteq ToChange(r)
  BY ChangingIs, ChangingIsNext DEF ToChange, ChangesAt
<1>2. /\ mem[r] \in Nat /\ mem[r] + Cardinality(ToChange(r)) <= MaxChanges
      /\ IsFiniteSet(ToChange(r)) /\ Cardinality(ToChange(r)) \in Nat
  BY FiniteParts DEF IInv, Data, ChangeRoom
<1>3. Cardinality(ToChange(r)') <= Cardinality(ToChange(r)) /\ Cardinality(ToChange(r)') \in Nat
  BY <1>1, <1>2, FS_Subset, FS_CardinalityType
<1>. QED BY <1>2, <1>3

LEMMA StartRoomKept ==
  ASSUME IInv, UNCHANGED starts, ToStart' \subseteq ToStart
  PROVE  StartRoom'
<1>1. starts \in Nat /\ starts + Cardinality(ToStart) <= MaxStarts
      /\ IsFiniteSet(ToStart) /\ Cardinality(ToStart) \in Nat
  BY FiniteParts DEF IInv, Data, StartRoom
<1>2. Cardinality(ToStart') <= Cardinality(ToStart) /\ Cardinality(ToStart') \in Nat
  BY <1>1, FS_Subset, FS_CardinalityType
<1>. QED BY <1>1, <1>2 DEF StartRoom

\* There is no third life.
LEMMA TwoLives ==
  ASSUME IInv
  PROVE  starts \in 0 .. MaxStarts /\ stops \in 0 .. starts /\ starts <= 2
<1>1. starts \in Nat /\ stops \in Nat /\ Cardinality(ToStart) \in Nat
  BY FiniteParts DEF IInv, Data
<1>2. starts + Cardinality(ToStart) <= MaxStarts /\ starts = IF running THEN stops + 1 ELSE stops
  BY DEF IInv, StartRoom, ServerOK
<1>. QED BY <1>1, <1>2

\* Nobody stops the server, and it does not run: what it spawned has ended.
LEMMA AllEnded ==
  ASSUME IInv, ~running, starts <= 1, \A h \in Goroutine : ~Stopping(h)
  PROVE  \A h \in Spawned : Ended(h)
<1>1. starts = stops /\ stops \in 0 .. 1
  BY TwoLives DEF IInv, ServerOK
<1>2. CASE stops = 0
  BY <1>1, <1>2 DEF IInv, SpawnOK, Ended
<1>3. CASE stops = 1
  <2>1. StoppedOnce
    BY <1>3, Names DEF StoppedOnce, Stopping
  <2>. QED BY <2>1 DEF IInv, SpawnOK, StopLeavesNothing, Ended
<1>. QED BY <1>1, <1>2, <1>3

LEMMA EndedIdle ==
  ASSUME IInv, NEW h \in Spawned, Ended(h)
  PROVE  job[h] = "none"
<1>1. Fits(h, pc[h], job[h])
  BY Names DEF IInv, Places
<1>. QED BY <1>1, Names DEF Fits, LinkFits, SaverFits, DetectorFits, Ended, Spawned

LEMMA StartPrimaryKeeps ==
  ASSUME IInv, Alive, NEW g \in Stopper, StartPrimary(g)
  PROVE  IInv'
<1>1. /\ pc[g] = "pend" /\ job[g] = "start" /\ writer = {} /\ readers = {} /\ ~running
      /\ writer' = {g} /\ pending' = pending \ {g}
      /\ comms' = comms \cup {"primary"} /\ open' = open \cup {"primary"}
      /\ running' = TRUE /\ starts' = starts + 1
      /\ late' = (late \/ pc["main"] = "closeStore")
      /\ UNCHANGED <<job, stops, mem, file, snap, storeOpen, stopped, readers>>
  BY DEF StartPrimary, At, MayWrite
<1>2. /\ g \in Goroutine /\ "primary" \in Goroutine /\ "primary" \in Spawned /\ g # "primary" /\ g \notin Spawned
      /\ Stopper \subseteq Goroutine /\ Spawned \subseteq Goroutine /\ "primary" # "main"
      /\ Link \subseteq Spawned /\ Saver \subseteq Spawned /\ "primary" \notin Saver /\ "main" \in Goroutine
  BY Names
<1>3. /\ pc' \in [Goroutine -> Step] /\ pc'[g] = "startLinks" /\ pc'["primary"] = "top"
      /\ \A h \in Goroutine \ {g, "primary"} : pc'[h] = pc[h]
  <2>1. "top" \in Step /\ "startLinks" \in Step
    BY DEF Step
  <2>. QED BY <1>2, <2>1 DEF StartPrimary, IInv, Places
<1>4. \A h \in Goroutine : ~Writing(h) /\ ~Stopping(h) /\ pc[h] # "startLinks"
  BY <1>1 DEF IInv, LockOK, Writing
<1>5. StartRoom' /\ starts + 1 <= MaxStarts /\ starts = stops /\ starts \in Nat
  <2>1. g \in ToStart /\ ToStart' = ToStart \ {g}
    BY <1>1, <1>2, <1>3, Names DEF ToStart
  <2>2. /\ starts \in Nat /\ starts + Cardinality(ToStart) <= MaxStarts
        /\ IsFiniteSet(ToStart) /\ Cardinality(ToStart) \in Nat
    BY FiniteParts DEF IInv, Data, StartRoom
  <2>3. Cardinality(ToStart \ {g}) = Cardinality(ToStart) - 1 /\ Cardinality(ToStart \ {g}) \in Nat
    BY <2>1, <2>2, FS_RemoveElement, FS_CardinalityType
  <2>4. starts = stops
    BY <1>1 DEF IInv, ServerOK
  <2>. QED BY <1>1, <2>1, <2>2, <2>3, <2>4 DEF StartRoom
<1>6. \A h \in Spawned : Ended(h)
  BY <1>1, <1>4, <1>5, AllEnded
<1>7. Places'
  <2>1. Fits(g, "startLinks", "start") /\ Fits("primary", "top", "none")
    <3>1. {"startLinks", "top"} \subseteq Step /\ "start" \in Job /\ "none" \in Job
      BY JobHas DEF Step
    <3>. QED BY <3>1, Roles DEF MainFits, RequestFits, LinkFits, Stopper
  <2>2. job["primary"] = "none"
    BY <1>2, <1>6, EndedIdle
  <2>3. \A h \in Goroutine : Fits(h, pc'[h], job[h])
    BY <1>1, <1>2, <1>3, <2>1, <2>2 DEF IInv, Places
  <2>. QED BY <1>1, <1>3, <2>3 DEF IInv, Places
<1>8. Data'
  BY <1>1, <1>5 DEF IInv, Data
<1>9. LockOK'
  <2>1. writer' = {h \in Goroutine : Writing(h)'}
    BY <1>1, <1>2, <1>3, <1>4 DEF Writing, Stopping
  <2>2. readers' = {h \in Goroutine : Reading(h)'}
    BY <1>1, <1>2, <1>3 DEF Reading, IInv, LockOK, Ended
  <2>3. pending' = {h \in Goroutine : pc'[h] = "pend"}
    BY <1>1, <1>2, <1>3, <1>6 DEF IInv, LockOK, Ended
  <2>. QED BY <1>1, <2>1, <2>2, <2>3 DEF LockOK
<1>10. ChangeRoom'
  BY <1>1, <1>2, <1>3, ChangeRoomKept
<1>11. ServerOK'
  <2>1. \A h \in Goroutine : ~Stopping(h)'
    BY <1>2, <1>3, <1>4 DEF Stopping
  <2>. QED BY <1>1, <1>5, <2>1 DEF ServerOK
<1>12. SpawnOK'
  <2>1. \A h \in Spawned \ {"primary"} : Ended(h)'
    BY <1>2, <1>3, <1>6 DEF Ended
  <2>2. starts' > 0
    BY <1>1, <1>5
  <2>3. stops' = 0 => \A h \in Spawned : pc'[h] # "done"
    <3>1. stops = 0 => \A h \in Spawned : pc[h] # "done"
      BY DEF IInv, SpawnOK
    <3>. QED BY <1>1, <1>2, <1>3, <3>1
  <2>4. \A l \in Link : Idling(l)'
    BY <1>2, <1>3, <2>1 DEF Ended, Idling
  <2>5. StopLeavesNothing'
    BY <1>1 DEF StopLeavesNothing, StoppedOnce
  <2>6. g \in Goroutine /\ pc'[g] = "startLinks"
    BY <1>2, <1>3
  <2>. QED BY <2>1, <2>2, <2>3, <2>4, <2>5, <2>6 DEF SpawnOK
<1>13. SaveOK'
  <2>1. "auth" \in Saver /\ "node" \in Saver /\ \A r \in Saver : pc'[r] = pc[r]
    BY <1>2, <1>3 DEF Saver
  <2>2. \A h \in Goroutine : OwesAt(pc[h], job[h]) => OwesAt(pc'[h], job'[h])
    BY <1>1, <1>2, <1>3, <1>6 DEF OwesAt, Ended
  <2>. QED BY <1>1, <2>1, <2>2 DEF IInv, SaveOK
<1>14. StoreOK'
  <2>1. storeOpen'
    BY <1>1 DEF IInv, StoreOK, Alive
  <2>2. pc'["main"] \in {"closeStore", "down"} => late'
    BY <1>1, <1>2, <1>3 DEF Alive
  <2>. QED BY <2>1, <2>2 DEF StoreOK
<1>15. BootOK'
  <2>1. "main" \in Goroutine \ {"primary"} /\ "timer" \in Goroutine \ {g, "primary"}
    BY <1>2, Names
  <2>2. BootingAt(pc'["main"], job'["main"]) => BootingAt(pc["main"], job["main"])
    BY <1>1, <1>3, <2>1 DEF BootingAt
  <2>. QED BY <1>3, <2>1, <2>2 DEF IInv, BootOK
<1>. QED BY <1>5, <1>7, <1>8, <1>9, <1>10, <1>11, <1>12, <1>13, <1>14, <1>15 DEF IInv

LEMMA StartLinksKeeps ==
  ASSUME IInv, Alive, NEW g \in Stopper, NEW secondary \in SUBSET (Link \ {"primary"}),
         StartLinks(g, secondary)
  PROVE  IInv'
<1>1. /\ pc[g] = "startLinks" /\ writer' = {}
      /\ comms' = comms \cup secondary /\ open' = open \cup secondary
      /\ UNCHANGED <<running, starts, stops, mem, file, snap, storeOpen, stopped, late, readers, pending>>
  BY DEF StartLinks, At, history
<1>2. /\ g \in Goroutine /\ g \notin Spawned /\ Stopper \subseteq Goroutine
      /\ Spawned \subseteq Goroutine /\ Link \subseteq Spawned /\ Saver \subseteq Spawned
      /\ "detector" \in Spawned /\ "primary" \notin Saver /\ "detector" # "primary"
      /\ Saver \cap Link = {} /\ "detector" \notin Link \cup Saver
  BY Names DEF Spawned, Saver
<1>. DEFINE Begun == secondary \cup Saver \cup {"detector"}
            next == IF g = "main" THEN "route" ELSE "idle"
            errand == IF g = "main" THEN "preset" ELSE "none"
<1>3. Begun \subseteq Spawned \ {"primary"} /\ Begun \subseteq Goroutine \ {g}
  BY <1>2
<1>4. /\ pc' = [h \in Goroutine |->
                  CASE h = g -> next
                    [] h \in secondary -> "top"
                    [] h \in Saver \cup {"detector"} -> "select"
                    [] OTHER -> pc[h]]
      /\ job' = [job EXCEPT ![g] = errand]
  BY DEF StartLinks
<1>5. /\ pc'[g] = next
      /\ \A h \in secondary : pc'[h] = "top"
      /\ \A h \in Saver \cup {"detector"} : pc'[h] = "select"
      /\ \A h \in Goroutine \ ({g} \cup Begun) : pc'[h] = pc[h]
  BY <1>2, <1>3, <1>4
<1>6. /\ job'[g] = errand /\ \A h \in Goroutine \ {g} : job'[h] = job[h]
  BY <1>2, <1>4 DEF IInv, Places
<1>7. /\ running /\ writer = {g} /\ readers = {}
      /\ \A h \in Goroutine \ {g} : ~Writing(h)
  <2>1. g \in writer
    BY <1>1, <1>2 DEF IInv, LockOK, Writing
  <2>2. running
    BY <1>1, <1>2 DEF IInv, ServerOK
  <2>3. writer = {g} /\ readers = {}
    BY <2>1 DEF IInv, LockOK
  <2>. QED BY <2>2, <2>3 DEF IInv, LockOK
<1>8. \A h \in Spawned \ {"primary"} : Ended(h)
  BY <1>1, <1>2 DEF IInv, SpawnOK
<1>9. Places'
  <2>1. {"top", "select", "route", "idle"} \subseteq Step /\ {"none", "preset"} \subseteq Job
    BY JobHas DEF Step
  <2>2. ASSUME NEW h \in Goroutine
        PROVE  Fits(h, pc'[h], job'[h]) /\ pc'[h] \in Step /\ job'[h] \in Job
    <3>1. CASE h = g
      <4>1. Fits(g, next, errand)
        BY <2>1, Roles DEF Stopper, MainFits, RequestFits
      <4>. QED BY <1>5, <1>6, <2>1, <3>1, <4>1
    <3>2. CASE h \in secondary
      <4>1. pc'[h] = "top" /\ job'[h] = "none"
        BY <1>3, <1>5, <1>6, <1>8, <3>2, EndedIdle
      <4>. QED BY <2>1, <3>2, <4>1, Roles DEF LinkFits
    <3>3. CASE h \in Saver
      <4>1. pc'[h] = "select" /\ job'[h] = "none"
        BY <1>3, <1>5, <1>6, <1>8, <3>3, EndedIdle
      <4>. QED BY <2>1, <3>3, <4>1, Roles DEF SaverFits
    <3>4. CASE h = "detector"
      <4>1. pc'[h] = "select" /\ job'[h] = "none"
        BY <1>3, <1>5, <1>6, <1>8, <3>4, EndedIdle
      <4>. QED BY <2>1, <3>4, <4>1, Roles DEF DetectorFits
    <3>5. CASE h \notin {g} \cup Begun
      BY <1>5, <1>6, <3>5 DEF IInv, Places
    <3>. QED BY <3>1, <3>2, <3>3, <3>4, <3>5
  <2>3. pc' \in [Goroutine -> Step] /\ job' \in [Goroutine -> Job]
    <3>1. job \in [Goroutine -> Job] /\ errand \in Job
      BY <2>1 DEF IInv, Places
    <3>2. job' \in [Goroutine -> Job]
      BY <1>4, <3>1
    <3>3. pc' = [h \in Goroutine |-> pc'[h]]
      BY <1>4
    <3>. QED BY <2>2, <3>2, <3>3
  <2>. QED BY <2>2, <2>3 DEF Places
<1>10. Data'
  BY <1>1 DEF IInv, Data
<1>11. \A h \in Begun : pc[h] \in {"off", "done"} /\ pc'[h] \in {"top", "select"}
  BY <1>3, <1>5, <1>8 DEF Ended
<1>12. next \in {"route", "idle"}
  OBVIOUS
<1>. HIDE DEF Begun, next
<1>13. LockOK'
  <2>1. writer' = {h \in Goroutine : Writing(h)'}
    BY <1>1, <1>5, <1>7, <1>11, <1>12 DEF Writing, Stopping
  <2>2. readers' = {h \in Goroutine : Reading(h)'}
    BY <1>1, <1>5, <1>11, <1>12 DEF IInv, LockOK, Reading
  <2>3. pending' = {h \in Goroutine : pc'[h] = "pend"}
    BY <1>1, <1>5, <1>11, <1>12 DEF IInv, LockOK
  <2>. QED BY <1>1, <2>1, <2>2, <2>3 DEF LockOK
<1>14. StartRoom'
  <2>1. errand # "start"
    OBVIOUS
  <2>2. ToStart' \subseteq ToStart
    BY <1>2, <1>3, <1>5, <1>6, <1>11, <2>1 DEF ToStart
  <2>. QED BY <1>1, <2>2, StartRoomKept
<1>15. ChangeRoom'
  <2>1. \A h \in Goroutine : (pc'[h] = pc[h] /\ job'[h] = job[h]) \/ pc'[h] \notin {"handle", "assign"}
    BY <1>5, <1>6, <1>11, <1>12
  <2>. QED BY <1>1, <2>1, ChangeRoomKept
<1>16. \A h \in Goroutine : pc'[h] # "startLinks" /\ ~Stopping(h)'
  BY <1>5, <1>7, <1>11, <1>12 DEF Writing, Stopping
<1>17. ServerOK'
  BY <1>1, <1>7, <1>16 DEF IInv, ServerOK
<1>18. \A l \in Link : pc'[l] = pc[l] \/ pc'[l] = "top"
  BY <1>2, <1>5 DEF Begun
<1>19. SpawnOK'
  <2>1. starts' # 0
    BY <1>1, <1>7 DEF IInv, ServerOK, Data
  <2>2. \A r \in Saver : pc'[r] # "off"
    BY <1>5
  <2>3. stops' = 0 => \A h \in Spawned : pc'[h] # "done"
    BY <1>1, <1>2, <1>5, <1>11 DEF IInv, SpawnOK
  <2>4. stops' > 0 => \A l \in Link : Idling(l)'
    <3>1. SUFFICES ASSUME stops > 0 PROVE \A l \in Link : Idling(l)'
      BY <1>1
    <3>2. \A h \in Goroutine : ~Stopping(h)
      BY <1>1, <1>2, <1>7 DEF Writing, Stopping
    <3>3. \A l \in Link : Idling(l)
      BY <3>1, <3>2 DEF IInv, SpawnOK
    <3>. QED BY <1>18, <3>3 DEF Idling
  <2>5. StopLeavesNothing'
    BY <1>1, <1>7 DEF StopLeavesNothing, StoppedOnce
  <2>. QED BY <1>16, <2>1, <2>2, <2>3, <2>4, <2>5 DEF SpawnOK
<1>20. SaveOK'
  <2>1. \A h \in Goroutine : OwesAt(pc[h], job[h]) => OwesAt(pc'[h], job'[h])
    BY <1>1, <1>5, <1>6, <1>11 DEF OwesAt
  <2>2. "node" \in Saver
    BY DEF Saver
  <2>. QED BY <1>1, <1>5, <2>1, <2>2 DEF IInv, SaveOK
<1>21. StoreOK'
  <2>1. storeOpen'
    BY <1>1 DEF IInv, StoreOK, Alive
  <2>2. pc'["main"] \in {"closeStore", "down"} => late'
    <3>1. "main" \in Goroutine \ Spawned
      BY Names
    <3>2. pc'["main"] = pc["main"] \/ pc'["main"] = next
      BY <1>3, <1>5, <3>1
    <3>. QED BY <1>1, <1>7, <1>12, <3>2 DEF IInv, StoreOK
  <2>. QED BY <2>1, <2>2 DEF StoreOK
<1>22. BootOK'
  <2>1. "main" \in Goroutine \ Spawned /\ "timer" \in Goroutine \ ({g} \cup Spawned)
    BY Names
  <2>2. pc'["timer"] = pc["timer"]
    BY <1>3, <1>5, <2>1
  <2>3. BootingAt(pc'["main"], job'["main"]) => BootingAt(pc["main"], job["main"])
    BY <1>1, <1>3, <1>5, <1>6, <2>1 DEF BootingAt
  <2>. QED BY <2>2, <2>3 DEF IInv, BootOK
<1>. QED BY <1>9, <1>10, <1>13, <1>14, <1>15, <1>17, <1>19, <1>20, <1>21, <1>22 DEF IInv

\* Stop is called with that errand, by main or by a request.
LEMMA StopErrand ==
  ASSUME NEW g \in Stopper
  PROVE  /\ \A step \in {"teardown", "join"} : Fits(g, step, "stop")
         /\ \A step \in {"closeStore", "crashed"} : g = "main" => Fits(g, step, "none")
         /\ g # "main" => Fits(g, "idle", "none")
         /\ {"teardown", "join", "closeStore", "crashed", "idle"} \subseteq Step
         /\ "stop" \in Job /\ "none" \in Job
<1>1. {"teardown", "join", "closeStore", "crashed", "idle"} \subseteq Step /\ {"stop", "none"} \subseteq Job
  BY JobHas DEF Step
<1>2. CASE g = "main"
  BY <1>1, <1>2, Roles DEF MainFits
<1>3. CASE g \in Request
  BY <1>1, <1>3, Roles, Names DEF RequestFits
<1>. QED BY <1>1, <1>2, <1>3 DEF Stopper

LEMMA StopGrantedKeeps ==
  ASSUME IInv, Alive, NEW g \in Stopper, StopGranted(g)
  PROVE  IInv'
<1>1. /\ pc[g] = "pend" /\ job[g] = "stop" /\ writer = {} /\ readers = {} /\ running /\ stops = 0
      /\ writer' = {g} /\ pending' = pending \ {g}
      /\ running' = FALSE /\ stops' = stops + 1 /\ stopped' = mem
      /\ pc' = [pc EXCEPT ![g] = "teardown"]
      /\ UNCHANGED <<job, starts, comms, open, mem, file, snap, storeOpen, late, readers>>
  BY DEF StopGranted, At, MayWrite, Goto
<1>2. /\ g \in Goroutine /\ g \notin Spawned /\ Spawned \subseteq Goroutine /\ Stopper \subseteq Goroutine
      /\ Link \subseteq Spawned /\ Saver \subseteq Spawned /\ "main" \in Goroutine /\ "timer" \in Goroutine \ {g}
  BY Names
<1>3. job' = [job EXCEPT ![g] = "stop"]
  BY <1>1, <1>2 DEF IInv, Places
<1>4. /\ Places' /\ pc'[g] = "teardown"
      /\ \A h \in Goroutine \ {g} : pc'[h] = pc[h]
  <2>1. Fits(g, "teardown", "stop") /\ "teardown" \in Step /\ "stop" \in Job
    BY StopErrand
  <2>2. pc' = [pc EXCEPT ![g] = "teardown"]
    BY <1>1
  <2>. QED BY <1>2, <1>3, <2>1, <2>2, Moved
<1>5. \A h \in Goroutine : ~Stopping(h) /\ pc[h] # "startLinks"
  BY <1>1 DEF IInv, LockOK, Writing
<1>6. Data'
  <2>1. running' \in BOOLEAN /\ storeOpen' \in BOOLEAN /\ late' \in BOOLEAN
    BY <1>1 DEF IInv, Data
  <2>3. stops' \in Nat /\ starts' \in Nat /\ snap' \in 0 .. MaxChanges
    BY <1>1 DEF IInv, Data
  <2>2. /\ comms' \subseteq Link /\ open' \subseteq comms'
        /\ mem' \in [Saver -> 0 .. MaxChanges] /\ file' \in [Saver -> 0 .. MaxChanges]
        /\ stopped' \in [Saver -> 0 .. MaxChanges]
    BY <1>1 DEF IInv, Data
  <2>. QED BY <2>1, <2>2, <2>3 DEF Data
<1>7. LockOK'
  <2>1. writer' = {h \in Goroutine : Writing(h)'}
    BY <1>1, <1>2, <1>4, <1>5 DEF Writing, Stopping
  <2>2. readers' = {h \in Goroutine : Reading(h)'}
    BY <1>1, <1>2, <1>4 DEF IInv, LockOK, Reading
  <2>3. pending' = {h \in Goroutine : pc'[h] = "pend"}
    BY <1>1, <1>2, <1>4 DEF IInv, LockOK
  <2>. QED BY <1>1, <2>1, <2>2, <2>3 DEF LockOK
<1>8. StartRoom'
  <2>1. ToStart' \subseteq ToStart
    BY <1>1, <1>2, <1>4 DEF ToStart
  <2>. QED BY <1>1, <2>1, StartRoomKept
<1>9. ChangeRoom'
  BY <1>1, <1>4, ChangeRoomKept
<1>10. starts = 1
  BY <1>1 DEF IInv, ServerOK
<1>11. ServerOK'
  <2>1. \A h \in Goroutine : pc'[h] # "startLinks"
    BY <1>4, <1>5
  <2>. QED BY <1>1, <1>10, <2>1 DEF ServerOK
<1>12. SpawnOK'
  <2>1. \A h \in Goroutine : pc'[h] # "startLinks"
    BY <1>4, <1>5
  <2>2. \A r \in Saver : pc'[r] # "off"
    <3>1. \A r \in Saver : pc[r] # "off"
      BY <1>5, <1>10 DEF IInv, SpawnOK
    <3>. QED BY <1>2, <1>4, <3>1
  <2>3. Stopping(g)' /\ starts' # 0 /\ stops' # 0
    BY <1>1, <1>4, <1>10 DEF Stopping
  <2>4. StopLeavesNothing'
    BY <1>4 DEF StopLeavesNothing, StoppedOnce
  <2>. QED BY <1>2, <2>1, <2>2, <2>3, <2>4 DEF SpawnOK
<1>13. SaveOK'
  <2>1. mem \in [Saver -> Nat] /\ "node" \in Saver /\ "auth" \in Saver
    BY DEF IInv, Data, Saver
  <2>2. \A r \in Saver : stopped'[r] <= mem'[r]
    BY <1>1, <2>1
  <2>3. \A r \in Saver : pc'[r] # "done"
    BY <1>1, <1>2, <1>4 DEF IInv, SpawnOK
  <2>4. ~(pc'["node"] = "persist" /\ job'["node"] = "stop")
    BY <1>1, <1>2, <1>4, <2>1 DEF IInv, SaveOK
  <2>5. file'["auth"] = mem'["auth"] \/ \E h \in Goroutine : OwesAt(pc'[h], job'[h])
    <3>1. \A h \in Goroutine : OwesAt(pc[h], job[h]) => OwesAt(pc'[h], job'[h])
      BY <1>1, <1>4 DEF OwesAt
    <3>. QED BY <1>1, <3>1 DEF IInv, SaveOK
  <2>. QED BY <2>2, <2>3, <2>4, <2>5 DEF SaveOK
<1>14. StoreOK'
  <2>1. storeOpen'
    BY <1>1 DEF IInv, StoreOK, Alive
  <2>2. pc'["main"] \in {"closeStore", "down"} => late'
    BY <1>1, <1>2, <1>4 DEF IInv, StoreOK
  <2>. QED BY <2>1, <2>2 DEF StoreOK
<1>15. BootOK'
  BY <1>1, <1>2, <1>4 DEF IInv, BootOK, BootingAt
<1>. QED BY <1>4, <1>6, <1>7, <1>8, <1>9, <1>11, <1>12, <1>13, <1>14, <1>15 DEF IInv

LEMMA StopPanicsKeeps ==
  ASSUME IInv, Alive, NEW g \in Stopper, StopPanics(g)
  PROVE  IInv'
<1>. DEFINE next == IF g = "main" THEN "crashed" ELSE "idle"
<1>1. /\ pc[g] = "pend" /\ job[g] = "stop" /\ writer = {} /\ readers = {} /\ running /\ stops > 0
      /\ pending' = pending \ {g} /\ running' = FALSE /\ stops' = stops + 1
      /\ pc' = [pc EXCEPT ![g] = next] /\ job' = [job EXCEPT ![g] = "none"]
      /\ UNCHANGED <<starts, comms, open, mem, file, snap, storeOpen, stopped, late, writer, readers>>
  BY DEF StopPanics, At, MayWrite, Begin, history
<1>2. /\ g \in Goroutine /\ g \notin Spawned /\ Spawned \subseteq Goroutine /\ Stopper \subseteq Goroutine
      /\ Link \subseteq Spawned /\ Saver \subseteq Spawned /\ "main" \in Goroutine /\ "timer" \in Goroutine \ {g}
  BY Names
<1>3. Fits(g, next, "none") /\ next \in Step /\ "none" \in Job /\ next \in {"crashed", "idle"}
  BY StopErrand
<1>. HIDE DEF next
<1>4. /\ Places' /\ pc'[g] = next /\ job'[g] = "none"
      /\ \A h \in Goroutine \ {g} : pc'[h] = pc[h] /\ job'[h] = job[h]
  BY <1>1, <1>2, <1>3, Moved
<1>5. \A h \in Goroutine : ~Stopping(h) /\ pc[h] # "startLinks"
  BY <1>1 DEF IInv, LockOK, Writing
<1>6. \A h \in Goroutine : ~Stopping(h)' /\ pc'[h] # "startLinks"
  BY <1>3, <1>4, <1>5 DEF Stopping
<1>7. starts = stops + 1 /\ stops \in Nat /\ starts \in Nat
  BY <1>1 DEF IInv, Data, ServerOK
<1>8. Data'
  BY <1>1, <1>7 DEF IInv, Data
<1>9. LockOK'
  <2>1. writer' = {h \in Goroutine : Writing(h)'}
    BY <1>1, <1>6 DEF Writing
  <2>2. readers' = {h \in Goroutine : Reading(h)'}
    BY <1>1, <1>2, <1>3, <1>4 DEF IInv, LockOK, Reading
  <2>3. pending' = {h \in Goroutine : pc'[h] = "pend"}
    BY <1>1, <1>2, <1>3, <1>4 DEF IInv, LockOK
  <2>. QED BY <1>1, <2>1, <2>2, <2>3 DEF LockOK
<1>10. StartRoom'
  <2>1. ToStart' \subseteq ToStart
    BY <1>2, <1>4 DEF ToStart
  <2>. QED BY <1>1, <2>1, StartRoomKept
<1>11. ChangeRoom'
  BY <1>1, <1>3, <1>4, ChangeRoomKept
<1>12. ServerOK'
  BY <1>1, <1>6, <1>7 DEF ServerOK
<1>13. SpawnOK'
  <2>1. \A r \in Saver : pc'[r] # "off"
    <3>1. \A r \in Saver : pc[r] # "off"
      BY <1>5, <1>7 DEF IInv, SpawnOK
    <3>. QED BY <1>2, <1>4, <3>1
  <2>2. \A l \in Link : Idling(l)'
    <3>1. \A l \in Link : Idling(l)
      BY <1>1, <1>5 DEF IInv, SpawnOK
    <3>. QED BY <1>2, <1>4, <3>1 DEF Idling
  <2>3. starts' # 0 /\ stops' # 0 /\ stops' # 1
    BY <1>1, <1>7
  <2>4. StopLeavesNothing'
    BY <2>3 DEF StopLeavesNothing, StoppedOnce
  <2>. QED BY <1>6, <2>1, <2>2, <2>3, <2>4 DEF SpawnOK
<1>14. SaveOK'
  <2>1. "node" \in Saver /\ "auth" \in Saver /\ \A r \in Saver : pc'[r] = pc[r] /\ job'[r] = job[r]
    BY <1>2, <1>4 DEF Saver
  <2>2. \A h \in Goroutine : OwesAt(pc[h], job[h]) => OwesAt(pc'[h], job'[h])
    BY <1>1, <1>4 DEF OwesAt
  <2>3. stops' > 0
    BY <1>1, <1>7
  <2>. QED BY <1>1, <2>1, <2>2, <2>3 DEF IInv, SaveOK
<1>15. StoreOK'
  <2>1. storeOpen'
    BY <1>1 DEF IInv, StoreOK, Alive
  <2>2. pc'["main"] \in {"closeStore", "down"} => late'
    BY <1>1, <1>2, <1>3, <1>4 DEF IInv, StoreOK
  <2>. QED BY <2>1, <2>2 DEF StoreOK
<1>16. BootOK'
  BY <1>1, <1>2, <1>3, <1>4 DEF IInv, BootOK, BootingAt
<1>. QED BY <1>4, <1>8, <1>9, <1>10, <1>11, <1>12, <1>13, <1>14, <1>15, <1>16 DEF IInv

LEMMA ClosePortsKeeps ==
  ASSUME IInv, Alive, NEW g \in Stopper, ClosePorts(g)
  PROVE  IInv'
<1>1. /\ pc[g] = "teardown" /\ open' = {} /\ pc' = [pc EXCEPT ![g] = "join"]
      /\ UNCHANGED <<job, running, starts, stops, comms, mem, file, snap, storeOpen, stopped, late, lock>>
  BY DEF ClosePorts, At, Goto, history
<1>2. /\ g \in Goroutine /\ g \notin Spawned /\ Spawned \subseteq Goroutine
      /\ Link \subseteq Spawned /\ Saver \subseteq Spawned /\ "main" \in Goroutine /\ "timer" \in Goroutine \ {g}
  BY Names
<1>3. job[g] = "stop" /\ job' = [job EXCEPT ![g] = "stop"]
  <2>1. Fits(g, "teardown", job[g])
    BY <1>1, <1>2 DEF IInv, Places
  <2>2. job[g] = "stop"
    BY <2>1 DEF Fits, MainFits, RequestFits, Stopper
  <2>. QED BY <1>1, <1>2, <2>2 DEF IInv, Places
<1>4. /\ Places' /\ pc'[g] = "join"
      /\ \A h \in Goroutine \ {g} : pc'[h] = pc[h]
  <2>1. Fits(g, "join", "stop") /\ "join" \in Step /\ "stop" \in Job
    BY StopErrand
  <2>2. pc' = [pc EXCEPT ![g] = "join"]
    BY <1>1
  <2>. QED BY <1>2, <1>3, <2>1, <2>2, Moved
<1>5. \A h \in Goroutine : pc[h] \notin {"startLinks"} /\ pc'[h] # "startLinks" /\ (Stopping(h)' <=> Stopping(h))
  <2>1. g \in writer
    BY <1>1, <1>2 DEF IInv, LockOK, Writing, Stopping
  <2>2. \A h \in Goroutine : pc[h] # "startLinks"
    BY <1>1, <2>1 DEF IInv, LockOK, Writing
  <2>. QED BY <1>1, <1>4, <2>2 DEF Stopping
<1>6. ~running /\ stops = 1 /\ Stopping(g) /\ Stopping(g)' /\ starts = 1
  BY <1>1, <1>2, <1>4 DEF IInv, ServerOK, Stopping
<1>7. Data'
  BY <1>1 DEF IInv, Data
<1>8. LockOK'
  <2>1. writer' = {h \in Goroutine : Writing(h)'}
    BY <1>1, <1>5 DEF IInv, LockOK, Writing, lock
  <2>2. readers' = {h \in Goroutine : Reading(h)'}
    BY <1>1, <1>2, <1>4 DEF IInv, LockOK, Reading, lock
  <2>3. pending' = {h \in Goroutine : pc'[h] = "pend"}
    BY <1>1, <1>2, <1>4 DEF IInv, LockOK, lock
  <2>4. writer' = writer /\ readers' = readers
    BY <1>1 DEF lock
  <2>5. (\A x, y \in writer' : x = y) /\ (writer' # {} => readers' = {})
    BY <2>4 DEF IInv, LockOK
  <2>. QED BY <2>1, <2>2, <2>3, <2>5 DEF LockOK
<1>9. StartRoom'
  <2>1. ToStart' \subseteq ToStart
    BY <1>1, <1>2, <1>4 DEF ToStart
  <2>. QED BY <1>1, <2>1, StartRoomKept
<1>10. ChangeRoom'
  BY <1>1, <1>4, ChangeRoomKept
<1>11. ServerOK'
  <2>1. readers' = {}
    BY <1>1, <1>2 DEF IInv, LockOK, Writing, Stopping, lock
  <2>. QED BY <1>1, <1>5, <1>6, <2>1 DEF ServerOK
<1>12. SpawnOK'
  <2>1. \A r \in Saver : pc'[r] # "off"
    <3>1. \A r \in Saver : pc[r] # "off"
      BY <1>5, <1>6 DEF IInv, SpawnOK
    <3>. QED BY <1>2, <1>4, <3>1
  <2>2. starts' # 0 /\ stops' # 0
    BY <1>1, <1>6
  <2>3. StopLeavesNothing'
    BY <1>4 DEF StopLeavesNothing, StoppedOnce
  <2>. QED BY <1>2, <1>5, <1>6, <2>1, <2>2, <2>3 DEF SpawnOK
<1>13. SaveOK'
  <2>1. "node" \in Saver /\ "auth" \in Saver /\ \A r \in Saver : pc'[r] = pc[r]
    BY <1>2, <1>4 DEF Saver
  <2>2. \A h \in Goroutine : OwesAt(pc[h], job[h]) => OwesAt(pc'[h], job'[h])
    BY <1>1, <1>4 DEF OwesAt
  <2>. QED BY <1>1, <2>1, <2>2 DEF IInv, SaveOK
<1>14. StoreOK'
  BY <1>1, <1>2, <1>4 DEF IInv, StoreOK, Alive, Idling
<1>15. BootOK'
  BY <1>1, <1>2, <1>4 DEF IInv, BootOK, BootingAt
<1>. QED BY <1>4, <1>7, <1>8, <1>9, <1>10, <1>11, <1>12, <1>13, <1>14, <1>15 DEF IInv

LEMMA JoinKeeps ==
  ASSUME IInv, Alive, NEW g \in Stopper, Join(g)
  PROVE  IInv'
<1>. DEFINE next == IF g = "main" THEN "closeStore" ELSE "idle"
<1>1. /\ pc[g] = "join" /\ (\A h \in Spawned : Ended(h)) /\ writer' = {}
      /\ pc' = [pc EXCEPT ![g] = next] /\ job' = [job EXCEPT ![g] = "none"]
      /\ UNCHANGED <<running, starts, stops, comms, open, mem, file, snap, storeOpen, stopped, late>>
      /\ UNCHANGED <<readers, pending>>
  BY DEF Join, At, AfterStop, Begin, Ended, world, history
<1>2. /\ g \in Goroutine /\ g \notin Spawned /\ Spawned \subseteq Goroutine /\ Stopper \subseteq Goroutine
      /\ Link \subseteq Spawned /\ Saver \subseteq Spawned /\ "main" \in Goroutine /\ "timer" \in Goroutine \ {g}
  BY Names
<1>3. Fits(g, next, "none") /\ next \in Step /\ "none" \in Job /\ next \in {"closeStore", "idle"}
  BY StopErrand
<1>. HIDE DEF next
<1>4. /\ Places' /\ pc'[g] = next /\ job'[g] = "none"
      /\ \A h \in Goroutine \ {g} : pc'[h] = pc[h] /\ job'[h] = job[h]
  BY <1>1, <1>2, <1>3, Moved
<1>5. writer = {g} /\ readers = {} /\ ~running /\ stops = 1 /\ starts = 1
  <2>1. g \in writer
    BY <1>1, <1>2 DEF IInv, LockOK, Writing, Stopping
  <2>2. ~running /\ stops = 1 /\ starts = 1
    BY <1>1, <1>2 DEF IInv, ServerOK, Stopping
  <2>. QED BY <2>1, <2>2 DEF IInv, LockOK
<1>6. \A h \in Goroutine : ~Stopping(h)' /\ pc'[h] # "startLinks"
  <2>1. \A h \in Goroutine \ {g} : ~Writing(h)
    BY <1>5 DEF IInv, LockOK
  <2>. QED BY <1>3, <1>4, <2>1 DEF Writing, Stopping
<1>7. Data'
  BY <1>1 DEF IInv, Data
<1>8. LockOK'
  <2>1. writer' = {h \in Goroutine : Writing(h)'}
    BY <1>1, <1>6 DEF Writing
  <2>2. readers' = {h \in Goroutine : Reading(h)'}
    BY <1>1, <1>2, <1>3, <1>4 DEF IInv, LockOK, Reading
  <2>3. pending' = {h \in Goroutine : pc'[h] = "pend"}
    BY <1>1, <1>2, <1>3, <1>4 DEF IInv, LockOK
  <2>. QED BY <1>1, <2>1, <2>2, <2>3 DEF LockOK
<1>9. StartRoom'
  <2>1. ToStart' \subseteq ToStart
    BY <1>2, <1>4 DEF ToStart
  <2>. QED BY <1>1, <2>1, StartRoomKept
<1>10. ChangeRoom'
  BY <1>1, <1>3, <1>4, ChangeRoomKept
<1>11. ServerOK'
  BY <1>1, <1>5, <1>6 DEF ServerOK
<1>12. \A h \in Spawned : pc'[h] = pc[h] /\ Ended(h)'
  BY <1>1, <1>2, <1>4 DEF Ended
<1>13. SpawnOK'
  <2>1. \A r \in Saver : pc'[r] # "off"
    <3>1. \A h \in Goroutine : pc[h] # "startLinks"
      BY <1>1, <1>4, <1>6
    <3>2. \A r \in Saver : pc[r] # "off"
      BY <1>5, <3>1 DEF IInv, SpawnOK
    <3>. QED BY <1>2, <1>12, <3>2
  <2>2. \A l \in Link : Idling(l)'
    BY <1>2, <1>12 DEF Ended, Idling
  <2>3. StopLeavesNothing'
    BY <1>12 DEF StopLeavesNothing, Ended
  <2>. QED BY <1>1, <1>5, <1>6, <2>1, <2>2, <2>3 DEF SpawnOK
<1>14. SaveOK'
  <2>1. "node" \in Saver /\ "auth" \in Saver /\ \A r \in Saver : pc'[r] = pc[r] /\ job'[r] = job[r]
    BY <1>2, <1>4 DEF Saver
  <2>2. \A h \in Goroutine : OwesAt(pc[h], job[h]) => OwesAt(pc'[h], job'[h])
    BY <1>1, <1>4 DEF OwesAt
  <2>. QED BY <1>1, <2>1, <2>2 DEF IInv, SaveOK
<1>15. StoreOK'
  <2>1. storeOpen' /\ ~running' /\ \A l \in Link : Idling(l)'
    BY <1>1, <1>2, <1>5, <1>12 DEF IInv, StoreOK, Alive, Ended, Idling
  <2>. QED BY <2>1 DEF StoreOK
<1>16. BootOK'
  BY <1>1, <1>2, <1>3, <1>4 DEF IInv, BootOK, BootingAt
<1>. QED BY <1>4, <1>7, <1>8, <1>9, <1>10, <1>11, <1>13, <1>14, <1>15, <1>16 DEF IInv

LEMMA MainKeeps ==
  ASSUME IInv, Alive, ArmTimer \/ CloseStore
  PROVE  IInv'
<1>1. /\ "main" \in Stopper /\ "main" \in Goroutine /\ "timer" \in Goroutine /\ "main" \notin Spawned /\ "timer" \notin Spawned
      /\ Link \subseteq Spawned /\ Saver \subseteq Spawned /\ Spawned \subseteq Goroutine /\ "timer" \notin Stopper
      /\ "primary" \in Link
  BY Names
<1>2. /\ UNCHANGED <<job, running, starts, stops, comms, open, mem, file, snap, stopped, late>>
      /\ UNCHANGED <<writer, readers, pending>>
  BY DEF ArmTimer, CloseStore, world, history, lock
<1>3. /\ pc["main"] \in {"arm", "closeStore"} /\ pc'["main"] \in {"serve", "down"}
      /\ pc'["timer"] = pc["timer"] \/ (pc["timer"] = "off" /\ pc'["timer"] = "idle")
      /\ \A h \in Goroutine \ {"main", "timer"} : pc'[h] = pc[h]
      /\ storeOpen' = IF pc["main"] = "arm" THEN storeOpen ELSE FALSE
      /\ pc'["main"] = IF pc["main"] = "arm" THEN "serve" ELSE "down"
      /\ pc' \in [Goroutine -> Step]
  <2>1. pc \in [Goroutine -> Step] /\ {"serve", "down", "idle"} \subseteq Step
    BY DEF IInv, Places, Step
  <2>2. CASE ArmTimer
    BY <1>1, <2>1, <2>2 DEF ArmTimer, At, IInv, BootOK, BootingAt, world
  <2>3. CASE CloseStore
    BY <1>1, <2>1, <2>3 DEF CloseStore, At, Goto
  <2>. QED BY <2>2, <2>3
<1>4. \A h \in Goroutine : pc'[h] = pc[h] \/ ( /\ pc[h] \in {"arm", "closeStore", "off"}
                                               /\ pc'[h] \in {"serve", "down", "idle"}
                                               /\ h \in {"main", "timer"} )
  BY <1>3
<1>5. Places'
  <2>1. Fits("main", pc["main"], job["main"]) /\ Fits("timer", pc["timer"], job["timer"])
        /\ {"serve", "down", "idle", "off"} \subseteq Step /\ job["main"] \in Job /\ job["timer"] \in Job
        /\ pc["main"] \in Step
    BY <1>1 DEF IInv, Places, Step
  <2>2. Fits("main", pc'["main"], job["main"])
    <3>1. MainFits(pc["main"], job["main"])
      BY <2>1, Roles
    <3>2. MainFits(pc'["main"], job["main"]) /\ pc'["main"] \in Step
      BY <1>3, <2>1, <3>1 DEF MainFits
    <3>. QED BY <2>1, <3>2, Roles
  <2>3. Fits("timer", pc'["timer"], job["timer"])
    <3>1. CASE pc'["timer"] = pc["timer"]
      BY <2>1, <3>1
    <3>2. CASE pc["timer"] = "off" /\ pc'["timer"] = "idle"
      <4>1. TimerFits("off", job["timer"])
        BY <2>1, <3>2, Roles
      <4>2. TimerFits("idle", job["timer"])
        BY <4>1 DEF TimerFits
      <4>. QED BY <2>1, <3>2, <4>2, Roles
    <3>. QED BY <1>3, <3>1, <3>2
  <2>4. \A h \in Goroutine : Fits(h, pc'[h], job[h])
    BY <1>3, <2>2, <2>3 DEF IInv, Places
  <2>. QED BY <1>2, <1>3, <2>4 DEF IInv, Places
<1>6. Data'
  BY <1>2, <1>3 DEF IInv, Data
<1>7. \A h \in Goroutine : /\ Stopping(h)' <=> Stopping(h)
                           /\ Writing(h)' <=> Writing(h)
                           /\ Reading(h)' <=> Reading(h)
                           /\ pc'[h] = "pend" <=> pc[h] = "pend"
                           /\ pc'[h] = "startLinks" <=> pc[h] = "startLinks"
  BY <1>4 DEF Stopping, Writing, Reading
<1>8. LockOK'
  BY <1>2, <1>7 DEF IInv, LockOK
<1>9. StartRoom'
  <2>1. ToStart' \subseteq ToStart
    BY <1>1, <1>2, <1>7, Names DEF ToStart
  <2>. QED BY <1>2, <2>1, StartRoomKept
<1>10. ChangeRoom'
  BY <1>2, <1>4, ChangeRoomKept
<1>11. ServerOK'
  BY <1>2, <1>7 DEF IInv, ServerOK
<1>12. \A h \in Spawned : pc'[h] = pc[h]
  BY <1>1, <1>3
<1>13. SpawnOK'
  <2>1. StopLeavesNothing'
    <3>1. StoppedOnce' => StoppedOnce
      BY <1>1, <1>2, <1>4 DEF StoppedOnce, Stopper, Goroutine, Sender
    <3>. QED BY <1>12, <3>1 DEF IInv, SpawnOK, StopLeavesNothing
  <2>2. starts' > 0 /\ (\A h \in Goroutine : pc'[h] # "startLinks") => \A r \in Saver : pc'[r] # "off"
    BY <1>1, <1>2, <1>7, <1>12 DEF IInv, SpawnOK
  <2>3. stops' > 0 /\ (\A h \in Goroutine : ~Stopping(h)') => \A l \in Link : Idling(l)'
    BY <1>1, <1>2, <1>7, <1>12 DEF IInv, SpawnOK, Idling
  <2>4. \A h \in Goroutine : pc'[h] = "startLinks" => \A k \in Spawned \ {"primary"} : Ended(k)'
    BY <1>7, <1>12 DEF IInv, SpawnOK, Ended
  <2>5. (starts' = 0 => \A h \in Spawned : pc'[h] = "off") /\ (stops' = 0 => \A h \in Spawned : pc'[h] # "done")
    BY <1>2, <1>12 DEF IInv, SpawnOK
  <2>. QED BY <2>1, <2>2, <2>3, <2>4, <2>5 DEF SpawnOK
<1>14. SaveOK'
  <2>1. \A h \in Goroutine : OwesAt(pc[h], job[h]) => OwesAt(pc'[h], job'[h])
    BY <1>2, <1>4 DEF OwesAt
  <2>2. "node" \in Saver
    BY DEF Saver
  <2>. QED BY <1>1, <1>2, <1>12, <2>1, <2>2 DEF IInv, SaveOK
<1>15. StoreOK'
  BY <1>1, <1>2, <1>3, <1>12 DEF IInv, StoreOK, Alive, Idling
<1>16. BootOK'
  BY <1>3 DEF BootOK, BootingAt
<1>. QED BY <1>5, <1>6, <1>8, <1>9, <1>10, <1>11, <1>13, <1>14, <1>15, <1>16 DEF IInv

(***************************************************************************)
(* The theorems.                                                           *)
(***************************************************************************)

LEMMA InitInv == Init => IInv
<1>. SUFFICES ASSUME Init PROVE IInv
  OBVIOUS
<1>1. /\ \A g \in Goroutine : pc[g] = IF g = "main" THEN "want" ELSE IF g \in Request THEN "idle" ELSE "off"
      /\ \A g \in Goroutine : job[g] = IF g = "main" THEN "start" ELSE "none"
      /\ running = FALSE /\ starts = 0 /\ stops = 0 /\ storeOpen = TRUE /\ comms = {} /\ open = {}
      /\ mem = [r \in Saver |-> 0] /\ file = [r \in Saver |-> 0] /\ snap = 0
      /\ stopped = [r \in Saver |-> 0] /\ late = FALSE
      /\ writer = {} /\ readers = {} /\ pending = {}
  BY DEF Init
<1>2. /\ "main" \in Goroutine /\ "timer" \in Goroutine /\ "main" \notin Spawned \cup Request
      /\ Spawned \subseteq Goroutine /\ Spawned \cap Request = {} /\ "timer" \notin Request
      /\ Stopper \subseteq Goroutine /\ Saver \subseteq Spawned /\ "auth" \in Saver /\ "node" \in Saver
      /\ Link \subseteq Spawned
  BY Names DEF Saver, Sender, Stopper
<1>3. \A h \in Spawned : pc[h] = "off"
  BY <1>1, <1>2
<1>4. Places
  <2>1. {"want", "idle", "off"} \subseteq Step /\ {"start", "none"} \subseteq Job
    BY JobHas DEF Step
  <2>2. ASSUME NEW g \in Goroutine
        PROVE  Fits(g, pc[g], job[g])
    BY <1>1, <2>1, Names DEF Fits, LinkFits, SaverFits, DetectorFits, TimerFits, MainFits, RequestFits,
                             Goroutine, Spawned, Saver, Sender
  <2>3. pc \in [Goroutine -> Step] /\ job \in [Goroutine -> Job]
    BY <2>1 DEF Init
  <2>. QED BY <2>2, <2>3 DEF Places
<1>5. Data
  <2>1. 0 \in 0 .. MaxChanges
    OBVIOUS
  <2>2. /\ mem \in [Saver -> 0 .. MaxChanges] /\ file \in [Saver -> 0 .. MaxChanges]
        /\ stopped \in [Saver -> 0 .. MaxChanges] /\ snap \in 0 .. MaxChanges
    BY <1>1, <2>1
  <2>3. running \in BOOLEAN /\ storeOpen \in BOOLEAN /\ late \in BOOLEAN
    BY <1>1
  <2>. QED BY <1>1, <2>2, <2>3 DEF Data
<1>6. \A g \in Goroutine : pc[g] \in {"want", "idle", "off"}
  BY <1>1
<1>7. LockOK
  BY <1>1, <1>6 DEF LockOK, Writing, Stopping, Reading
<1>8. StartRoom
  <2>1. ToStart \subseteq {"main"}
    BY <1>1, <1>2 DEF ToStart
  <2>2. IsFiniteSet({"main"}) /\ Cardinality({"main"}) = 1
    BY FS_Singleton
  <2>3. Cardinality(ToStart) <= 1 /\ Cardinality(ToStart) \in Nat
    <3>1. Cardinality(ToStart) <= Cardinality({"main"})
      BY <2>1, <2>2, FS_Subset
    <3>. QED BY <2>2, <3>1, FiniteParts
  <2>. QED BY <1>1, <2>3 DEF StartRoom
<1>9. ChangeRoom
  <2>1. \A r \in Saver : ToChange(r) = {}
    BY <1>6, ChangingIs DEF ToChange, ChangesAt
  <2>2. Cardinality({}) = 0
    BY FS_EmptySet
  <2>. QED BY <1>1, <2>1, <2>2 DEF ChangeRoom
<1>10. ServerOK
  BY <1>1, <1>6 DEF ServerOK, Stopping
<1>11. SpawnOK
  BY <1>1, <1>3, <1>6 DEF SpawnOK, StopLeavesNothing
<1>12. SaveOK
  BY <1>1, <1>2, <1>3 DEF SaveOK
<1>13. StoreOK /\ BootOK
  BY <1>1, <1>2, <1>6 DEF StoreOK, BootOK
<1>. QED BY <1>4, <1>5, <1>7, <1>8, <1>9, <1>10, <1>11, <1>12, <1>13 DEF IInv

LEMMA Invariance == Spec => []IInv
<1>1. IInv /\ [Next]_vars => IInv'
  <2>1. ASSUME IInv, Next
        PROVE  IInv'
    <3>1. Alive /\ (OrdinaryStep \/ Special)
      BY <2>1, Classified
    <3>2. CASE OrdinaryStep
      BY <2>1, <3>1, <3>2, OrdinaryKeeps
    <3>3. CASE ArmTimer \/ CloseStore
      BY <2>1, <3>1, <3>3, MainKeeps
    <3>4. ASSUME NEW g \in Stopper, StartPrimary(g)
          PROVE  IInv'
      BY <2>1, <3>1, <3>4, StartPrimaryKeeps
    <3>5. ASSUME NEW g \in Stopper, NEW secondary \in SUBSET (Link \ {"primary"}), StartLinks(g, secondary)
          PROVE  IInv'
      BY <2>1, <3>1, <3>5, StartLinksKeeps
    <3>6. ASSUME NEW g \in Stopper, StopGranted(g)
          PROVE  IInv'
      BY <2>1, <3>1, <3>6, StopGrantedKeeps
    <3>7. ASSUME NEW g \in Stopper, StopPanics(g)
          PROVE  IInv'
      BY <2>1, <3>1, <3>7, StopPanicsKeeps
    <3>8. ASSUME NEW g \in Stopper, ClosePorts(g)
          PROVE  IInv'
      BY <2>1, <3>1, <3>8, ClosePortsKeeps
    <3>9. ASSUME NEW g \in Stopper, Join(g)
          PROVE  IInv'
      BY <2>1, <3>1, <3>9, JoinKeeps
    <3>. QED BY <3>1, <3>2, <3>3, <3>4, <3>5, <3>6, <3>7, <3>8, <3>9 DEF Special
  <2>2. ASSUME IInv, UNCHANGED vars
        PROVE  IInv'
    BY <2>2, ChangingIs, ChangingIsNext DEF vars, world, history, lock, IInv, Places, Data, LockOK, Writing, Stopping, Reading,
                 StartRoom, ToStart, ChangeRoom, ToChange, Changing, ServerOK, SpawnOK, Ended, Idling,
                 StopLeavesNothing, StoppedOnce, SaveOK, StoreOK, BootOK
  <2>. QED BY <2>1, <2>2
<1>. QED BY <1>1, InitInv, PTL DEF Spec

\* Each variable has its type, the counters stay below their bounds, and mu is
\* held either by one writer or by readers (sync.RWMutex).
THEOREM TypeCorrect == Spec => []TypeOK
<1>1. IInv => TypeOK
  <2>. SUFFICES ASSUME IInv PROVE TypeOK
    OBVIOUS
  <2>1. writer \subseteq Goroutine /\ readers \subseteq Goroutine /\ pending \subseteq Goroutine
        /\ (writer # {} => readers = {})
    BY DEF IInv, LockOK
  <2>2. Cardinality(writer) <= 1
    <3>1. CASE writer = {}
      BY <3>1, FS_EmptySet
    <3>2. CASE writer # {}
      <4>1. PICK g \in writer : TRUE
        BY <3>2
      <4>2. writer = {g}
        BY <4>1 DEF IInv, LockOK
      <4>3. Cardinality({g}) = 1
        BY FS_Singleton
      <4>. QED BY <4>2, <4>3
    <3>. QED BY <3>1, <3>2
  <2>. QED BY <2>1, <2>2, TwoLives DEF IInv, Places, Data, TypeOK
<1>. QED BY <1>1, Invariance, PTL

\* main closes the event store last: what outlives Stop does not write to it (main.go).
THEOREM StoreClosedLast == Spec => []StoreOpenWhenUsed
<1>1. IInv => StoreOpenWhenUsed
  <2>. SUFFICES ASSUME IInv, NEW g \in Goroutine, pc[g] \in {"handle", "log"}, ~storeOpen, ~late
                PROVE  FALSE
    BY DEF StoreOpenWhenUsed
  <2>1. ~running /\ \A l \in Link : Idling(l)
    BY DEF IInv, StoreOK
  <2>2. CASE pc[g] = "log"
    BY <2>1, <2>2 DEF IInv, LockOK, Reading, ServerOK
  <2>3. CASE pc[g] = "handle"
    <3>1. Fits(g, "handle", job[g])
      BY <2>3 DEF IInv, Places
    <3>2. g \in Link
      BY <3>1 DEF Fits, LinkFits, SaverFits, DetectorFits, TimerFits, MainFits, RequestFits,
                  Goroutine, Spawned, Sender
    <3>. QED BY <2>1, <2>3, <3>2 DEF Idling
  <2>. QED BY <2>2, <2>3
<1>. QED BY <1>1, Invariance, PTL

\* A SendMessage that found the server running writes to an open link, whatever Stop
\* does meanwhile (server.go: SendMessage holds mu for reading until it has written).
THEOREM CheckedSends == Spec => []CheckedSendHasLink
<1>1. IInv => CheckedSendHasLink
  BY Names DEF IInv, LockOK, Reading, ServerOK, CheckedSendHasLink, At
<1>. QED BY <1>1, Invariance, PTL

\* When Stop returns, everything Start spawned has ended (server.go: wg.Wait).
THEOREM NothingOutlivesStop == Spec => []StopLeavesNothing
<1>1. IInv => StopLeavesNothing
  BY DEF IInv, SpawnOK
<1>. QED BY <1>1, Invariance, PTL

\* When Stop returns, the registries' files hold what the registries held when it
\* began, and no trust decision is missing but those of requests still in flight.
THEOREM StopSavesAll == Spec => []StopSaves
<1>1. IInv => StopSaves
  <2>. SUFFICES ASSUME IInv, StoppedOnce PROVE StopSaves
    BY DEF StopSaves
  <2>1. \A h \in Spawned : pc[h] \in {"off", "done"}
    BY DEF IInv, SpawnOK, StopLeavesNothing
  <2>2. stops = 1 /\ ~running /\ starts = 1
    BY DEF StoppedOnce, IInv, ServerOK
  <2>3. \A h \in Goroutine : pc[h] # "startLinks"
    BY <2>2 DEF IInv, ServerOK
  <2>4. \A r \in Saver : pc[r] = "done"
    <3>1. \A r \in Saver : pc[r] # "off"
      BY <2>2, <2>3 DEF IInv, SpawnOK
    <3>. QED BY <2>1, <3>1, Names
  <2>5. \A r \in Saver : file[r] >= stopped[r]
    BY <2>4 DEF IInv, SaveOK, Data
  <2>6. ASSUME NEW g \in Goroutine, OwesAt(pc[g], job[g])
        PROVE  g \in Request /\ job[g] = "approve" /\ pc[g] \in {"route", "transmit", "save"}
    <3>1. g \notin Spawned /\ Fits(g, pc[g], job[g])
      BY <2>1, <2>6 DEF OwesAt, IInv, Places
    <3>2. g # "main" /\ g # "timer"
      BY <2>6, <3>1 DEF OwesAt, Fits, MainFits, TimerFits
    <3>3. g \in Request
      BY <3>1, <3>2 DEF Goroutine, Sender
    <3>. QED BY <2>6, <3>1, <3>3 DEF OwesAt, Fits, RequestFits
  <2>7. file["auth"] = mem["auth"] \/ \E g \in Goroutine : OwesAt(pc[g], job[g])
    BY DEF IInv, SaveOK
  <2>. QED BY <2>5, <2>6, <2>7 DEF StopSaves
<1>. QED BY <1>1, Invariance, PTL

=============================================================================
