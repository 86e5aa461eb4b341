----------------------------- MODULE SerialLink -----------------------------
(***************************************************************************)
(* The serial links of the mesh server: what a message processor notes of  *)
(* the link it reads, what the hub tells of its links, and which link it   *)
(* writes to.  With two links a frame goes to the secondary one when the   *)
(* primary has been silent for longer than FailoverAfter.                  *)
(*                                                                         *)
(* A time stamp is modelled by its age: Tick lets time pass, and a stamp   *)
(* of age Longest is too old for every purpose, as is the zero time.  The  *)
(* server is started once: what becomes of a second start is the subject   *)
(* of Lifecycle, and so is everything else that waits for mu.              *)
(***************************************************************************)
EXTENDS Naturals

CONSTANTS
  Link,                  \* configured ports: "primary", perhaps "secondary"
  Sender,                \* goroutines that write frames
  MaxConsecutiveErrors,  \* 5 in the code
  HealthTimeout,         \* age from which on a stamp no longer means online
  FailoverAfter,         \* age after which the primary counts as silent
  Longest                \* bound: ages are told apart up to here

ASSUME LinkAssumption == "primary" \in Link /\ Link \subseteq {"primary", "secondary"}
ASSUME AgeAssumption ==
  /\ MaxConsecutiveErrors \in Nat /\ HealthTimeout \in Nat /\ FailoverAfter \in Nat
  /\ Longest \in Nat /\ Longest > FailoverAfter /\ Longest >= HealthTimeout

VARIABLES
  server,   \* what Start and Stop have done so far
  comms,    \* links whose SerialComm was created
  gauge,    \* mesh_serial_connected
  proc,     \* where the message processor of each link is
  errors,   \* consecutiveErrors of each processor, up to one past the maximum
  stamp,    \* age of primaryLastFrameAt and of secondaryLastFrameAt
  send,     \* what each sender is doing
  silence,  \* history: age of the last frame the link delivered, or of Start
  late      \* history: frames stamped after Stop had forgotten the stamps

vars == <<server, comms, gauge, proc, errors, stamp, send, silence, late>>

Age == 0 .. Longest

\* The frame a sender is about to write: an approval writes three, a message one.
Frame == {"none", "joinAck", "idSet", "configSet", "message"}

Send ==
  [ at      : {"idle", "look", "pick", "write"},
    frame   : Frame,
    link    : Link,
    silence : Age,        \* history: the primary's silence when link was picked,
    unsure  : BOOLEAN ]   \* and whether a frame was unstamped, or the server stopped

Idle == [at |-> "idle", frame |-> "none", link |-> "primary",
         silence |-> 0, unsure |-> FALSE]

TypeOK ==
  /\ server \in {"new", "running", "stopping", "closing", "closed", "stopped"}
  /\ comms \subseteq Link
  /\ gauge \in BOOLEAN
  /\ proc \in [Link -> {"off", "top", "read", "stamp", "pause", "done"}]
  /\ errors \in [Link -> 0 .. MaxConsecutiveErrors + 1]
  /\ stamp \in [Link -> Age] /\ silence \in [Link -> Age]
  /\ send \in [Sender -> Send]
  /\ late \in [Link -> 0 .. 2]

Init ==
  /\ server = "new" /\ comms = {} /\ gauge = FALSE
  /\ proc = [l \in Link |-> "off"]
  /\ errors = [l \in Link |-> 0]
  /\ stamp = [l \in Link |-> Longest] /\ silence = [l \in Link |-> Longest]
  /\ send = [s \in Sender |-> Idle]
  /\ late = [l \in Link |-> 0]

-----------------------------------------------------------------------------

\* A ctx that is done.
cancelled == server \in {"stopping", "closing", "closed", "stopped"}

\* Stop holds mu from its first line to its last.
Unlocked == server \notin {"stopping", "closing", "closed"}

\* The port of l has not been closed by Stop.
Readable(l) == server \in {"running", "stopping"} \/ (server = "closing" /\ l # "primary")

\* recordFrame.
Stamped(links) == [l \in Link |-> IF l \in links THEN 0 ELSE stamp[l]]

Older(ages) == [l \in Link |-> IF ages[l] < Longest THEN ages[l] + 1 ELSE Longest]

Tick ==
  /\ \E l \in Link : stamp[l] < Longest \/ silence[l] < Longest
  /\ stamp' = Older(stamp) /\ silence' = Older(silence)
  /\ UNCHANGED <<server, comms, gauge, proc, errors, send, late>>

-----------------------------------------------------------------------------
(* Start and Stop.                                                         *)

\* Mutant: only frames stamp a link, Start does not.
StartUnstamped(opened) ==
  /\ server = "new"
  /\ server' = "running" /\ comms' = opened /\ gauge' = TRUE
  /\ proc' = [l \in Link |-> IF l \in opened THEN "top" ELSE "off"]
  /\ silence' = [l \in Link |-> IF l \in opened THEN 0 ELSE silence[l]]
  /\ UNCHANGED <<errors, stamp, send, late>>

\* The primary port opens, or Start fails and changes nothing; the secondary may
\* not open.  A link counts as heard from the moment it is opened.
Start(opened) ==
  /\ server = "new"
  /\ server' = "running" /\ comms' = opened /\ gauge' = TRUE
  /\ proc' = [l \in Link |-> IF l \in opened THEN "top" ELSE "off"]
  /\ stamp' = Stamped(opened)
  /\ silence' = [l \in Link |-> IF l \in opened THEN 0 ELSE silence[l]]
  /\ UNCHANGED <<errors, send, late>>

\* Nobody writes a message: SendMessage holds mu for reading.
NoMessageSent == \A s \in Sender : send[s].frame # "message"

\* Mutant: the stamps are left to grow old.
StopRemembering ==
  /\ server = "running" /\ NoMessageSent
  /\ server' = "stopping"
  /\ UNCHANGED <<comms, gauge, proc, errors, stamp, send, silence, late>>

\* Stop cancels ctx and forgets the last frames of both links, ...
StopBegins ==
  /\ server = "running" /\ NoMessageSent
  /\ server' = "stopping"
  /\ stamp' = [l \in Link |-> Longest]
  /\ UNCHANGED <<comms, gauge, proc, errors, send, silence, late>>

\* ... closes the primary's port, ...
StopCloses ==
  /\ server = "stopping"
  /\ server' = "closing"
  /\ UNCHANGED <<comms, gauge, proc, errors, stamp, send, silence, late>>

\* ... takes the gauge back and closes the secondary's ...
StopClosesSecondary ==
  /\ server = "closing"
  /\ server' = "closed" /\ gauge' = FALSE
  /\ UNCHANGED <<comms, proc, errors, stamp, send, silence, late>>

\* ... and waits for the message processors.
StopReturns ==
  /\ server = "closed"
  /\ \A l \in Link : proc[l] \in {"off", "done"}
  /\ server' = "stopped"
  /\ UNCHANGED <<comms, gauge, proc, errors, stamp, send, silence, late>>

-----------------------------------------------------------------------------
(* The message processor of a link.                                        *)

Top(l) ==
  /\ proc[l] = "top"
  /\ proc' = [proc EXCEPT ![l] = IF cancelled THEN "done" ELSE "read"]
  /\ UNCHANGED <<server, comms, gauge, errors, stamp, send, silence, late>>

\* Mutant: the link counts as lost one error too late.
GaugeAfterErrorLate(l) ==
  IF l = "primary" /\ errors[l] = MaxConsecutiveErrors + 1 THEN FALSE ELSE gauge

\* The primary's sixth error in a row is where its link counts as lost.
GaugeAfterError(l) ==
  IF l = "primary" /\ errors[l] = MaxConsecutiveErrors THEN FALSE ELSE gauge

\* A read error: too many change the gauge, and flush the port's input at some point.
ReadFails(l) ==
  /\ proc[l] = "read"
  /\ errors' = [errors EXCEPT ![l] = IF @ <= MaxConsecutiveErrors THEN @ + 1 ELSE @]
  /\ gauge' = GaugeAfterError(l)
  /\ proc' = [proc EXCEPT ![l] = "pause"]
  /\ UNCHANGED <<server, comms, stamp, send, silence, late>>

\* 100 ms, cut short by ctx.
Pause(l) ==
  /\ proc[l] = "pause"
  /\ \/ proc' = [proc EXCEPT ![l] = "top"]
     \/ cancelled /\ proc' = [proc EXCEPT ![l] = "done"]
  /\ UNCHANGED <<server, comms, gauge, errors, stamp, send, silence, late>>

\* A frame: the error counter is reset, the gauge is not, ...
ReadFrame(l) ==
  /\ proc[l] = "read"
  /\ Readable(l)
  /\ errors' = [errors EXCEPT ![l] = 0]
  /\ silence' = [silence EXCEPT ![l] = 0]
  /\ proc' = [proc EXCEPT ![l] = "stamp"]
  /\ UNCHANGED <<server, comms, gauge, stamp, send, late>>

\* ... and the link it arrived on is stamped, even if Stop has begun meanwhile.
RecordFrame(l) ==
  /\ proc[l] = "stamp"
  /\ stamp' = Stamped({l})
  /\ late' = [late EXCEPT ![l] = IF cancelled THEN @ + 1 ELSE @]
  /\ proc' = [proc EXCEPT ![l] = "top"]
  /\ UNCHANGED <<server, comms, gauge, errors, send, silence>>

-----------------------------------------------------------------------------
(* Writing frames.                                                         *)

\* ApproveEnrollment writes if there is a SerialComm; it is not taken away by Stop.
Approve(s) ==
  /\ send[s].at = "idle"
  /\ comms # {}
  /\ send' = [send EXCEPT ![s] = [Idle EXCEPT !.at = "look", !.frame = "joinAck"]]
  /\ UNCHANGED <<server, comms, gauge, proc, errors, stamp, silence, late>>

\* SendMessage takes mu for reading, finds the server running, and keeps mu.
SendMessage(s) ==
  /\ send[s].at = "idle"
  /\ server = "running"
  /\ send' = [send EXCEPT ![s] = [Idle EXCEPT !.at = "pick", !.frame = "message"]]
  /\ UNCHANGED <<server, comms, gauge, proc, errors, stamp, silence, late>>

\* activeOutboundComm: is there a secondary link?  That is asked with mu held ...
Look(s) ==
  /\ send[s].at = "look"
  /\ Unlocked
  /\ send' = [send EXCEPT ![s].at = "pick"]
  /\ UNCHANGED <<server, comms, gauge, proc, errors, stamp, silence, late>>

\* Mutant: the failover needs a secondary that is being heard.
ActiveOutboundHeard ==
  IF /\ "secondary" \in comms
     /\ stamp["primary"] > FailoverAfter
     /\ stamp["secondary"] <= FailoverAfter
  THEN "secondary" ELSE "primary"

ActiveOutbound ==
  IF "secondary" \in comms /\ stamp["primary"] > FailoverAfter
  THEN "secondary" ELSE "primary"

\* ... and how long the primary has been silent without it.
Pick(s) ==
  /\ send[s].at = "pick"
  /\ send' = [send EXCEPT ![s].at = "write", ![s].link = ActiveOutbound,
                          ![s].silence = silence["primary"],
                          ![s].unsure = cancelled \/ proc["primary"] = "stamp"]
  /\ UNCHANGED <<server, comms, gauge, proc, errors, stamp, silence, late>>

\* The frames that may follow in an approval.  A node without an ID is told none, and
\* configSet does not ask for the active link.
Following(c) ==
  LET idSet     == [Idle EXCEPT !.at = "look", !.frame = "idSet"]
      configSet == [Idle EXCEPT !.at = "write", !.frame = "configSet"]
  IN  CASE c.frame = "joinAck" -> {idSet, configSet, Idle}
        [] c.frame = "idSet"   -> {configSet, Idle}
        [] OTHER               -> {Idle}

\* WriteFrame; an error is logged.
Write(s) ==
  /\ send[s].at = "write"
  /\ \E next \in Following(send[s]) : send' = [send EXCEPT ![s] = next]
  /\ UNCHANGED <<server, comms, gauge, proc, errors, stamp, silence, late>>

-----------------------------------------------------------------------------

Proceed(l) == Top(l) \/ Pause(l) \/ RecordFrame(l)

Sending(s) == Look(s) \/ Pick(s) \/ Write(s)

Stop == StopBegins \/ StopCloses \/ StopClosesSecondary \/ StopReturns

Next ==
  \/ Tick
  \/ \E secondary \in SUBSET (Link \ {"primary"}) : Start({"primary"} \cup secondary)
  \/ Stop
  \/ \E l \in Link : Proceed(l) \/ ReadFails(l) \/ ReadFrame(l)
  \/ \E s \in Sender : Approve(s) \/ SendMessage(s) \/ Sending(s)

Spec == Init /\ [][Next]_vars

\* Time passes, processors and senders go on, and reading a closed port fails.
\* Links owe no frames, and nobody has to start, stop or send.
Fairness ==
  /\ WF_vars(Tick)
  /\ WF_vars(StopCloses \/ StopClosesSecondary \/ StopReturns)
  /\ \A l \in Link : WF_vars(Proceed(l)) /\ WF_vars(~Readable(l) /\ ReadFails(l))
  /\ \A s \in Sender : WF_vars(Sending(s))

FairSpec == Spec /\ Fairness

-----------------------------------------------------------------------------
(* Safety.                                                                 *)

\* mesh_serial_connected is never 1 for a primary link whose last six reads have failed,
\* nor once Stop, which closes the port first, has gone on to the secondary.  (The other
\* direction does not hold: six errors set it to 0, and frames read afterwards do not set
\* it to 1 again.)
GaugeNeverOverstates ==
  gauge => /\ server \in {"running", "stopping", "closing"}
           /\ errors["primary"] <= MaxConsecutiveErrors

\* A frame leaves on the secondary link only when the primary has in truth delivered
\* nothing for longer than the threshold since it was opened: the secondary's frames
\* do not count for it and stamps lag by no more than the frame in a processor's hands.
SecondaryMeansSilence ==
  \A s \in Sender :
    send[s].at = "write" /\ send[s].link = "secondary" =>
      send[s].silence > FailoverAfter \/ send[s].unsure

\* Stop forgets when frames were last heard, so that the online flags "read false
\* immediately instead of lingering for up to healthTimeout".  They may linger after all:
\* a processor that was reading stamps its link once more.  But that happens at most once
\* per link, and nothing else makes a stopped server's master look online.
Online(l) == stamp[l] < HealthTimeout

StopForgets ==
  \A l \in Link :
    /\ late[l] <= 1
    /\ cancelled /\ Online(l) => late[l] = 1

-----------------------------------------------------------------------------
(* Liveness.                                                               *)

\* Once the primary stays silent, every frame whose link is chosen goes to the secondary
\* link, and goes on doing so, while the server runs.
SilenceFailsOver ==
  /\ "secondary" \in Link
  /\ <>[](/\ server = "running" /\ "secondary" \in comms
          /\ silence["primary"] > 0 /\ proc["primary"] # "stamp")
  => <>[](\A s \in Sender :
            send[s].at = "write" /\ send[s].link = "primary" => send[s].frame = "configSet")

=============================================================================
