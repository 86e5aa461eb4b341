---------------------------- MODULE SerialProofs ----------------------------
(***************************************************************************)
(* Theorems about SerialLink, for one link or two, any number of senders   *)
(* and every threshold.                                                    *)
(***************************************************************************)
EXTENDS SerialLink, TLAPS

USE LinkAssumption, AgeAssumption

(***************************************************************************)
(* Type correctness.                                                       *)
(***************************************************************************)

LEMMA OlderType ==
  ASSUME NEW ages \in [Link -> Age]
  PROVE  /\ Older(ages) \in [Link -> Age]
         /\ \A l \in Link : ages[l] <= Older(ages)[l]
BY DEF Older, Age

LEMMA StampedType ==
  ASSUME stamp \in [Link -> Age], NEW links
  PROVE  Stamped(links) \in [Link -> Age]
BY DEF Stamped, Age

LEMMA IdleType == Idle \in Send
BY DEF Idle, Send, Frame, Age

LEMMA InitType == Init => TypeOK
<1>. SUFFICES ASSUME Init PROVE TypeOK
  OBVIOUS
<1>1. Longest \in Age /\ 0 \in 0 .. MaxConsecutiveErrors + 1
  BY DEF Age
<1>2. send \in [Sender -> Send]
  BY IdleType DEF Init
<1>4. /\ server \in {"new", "running", "stopping", "closing", "closed", "stopped"}
      /\ comms \subseteq Link /\ gauge \in BOOLEAN
  BY DEF Init
<1>5. proc \in [Link -> {"off", "top", "read", "stamp", "pause", "done"}]
  BY DEF Init
<1>6. /\ errors \in [Link -> 0 .. MaxConsecutiveErrors + 1]
      /\ stamp \in [Link -> Age] /\ silence \in [Link -> Age]
      /\ late \in [Link -> 0 .. 2]
  BY <1>1 DEF Init
<1>. QED BY <1>2, <1>4, <1>5, <1>6 DEF TypeOK

LEMMA SendType ==
  ASSUME TypeOK, NEW s \in Sender,
         \/ Approve(s) \/ SendMessage(s) \/ Sending(s)
  PROVE  send' \in [Sender -> Send]
<1>. send \in [Sender -> Send] /\ send[s] \in Send /\ silence["primary"] \in Age
  BY DEF TypeOK
<1>1. CASE Approve(s)
  BY <1>1, IdleType DEF Approve, Send, Frame
<1>2. CASE SendMessage(s)
  BY <1>2, IdleType DEF SendMessage, Send, Frame
<1>3. CASE Look(s)
  BY <1>3 DEF Look, Send
<1>4. CASE Pick(s)
  <2>1. ActiveOutbound \in Link
    BY DEF ActiveOutbound, TypeOK
  <2>2. (cancelled \/ proc["primary"] = "stamp") \in BOOLEAN
    BY DEF cancelled
  <2> DEFINE u == cancelled \/ proc["primary"] = "stamp"
  <2>3. send' = [send EXCEPT ![s] = [send[s] EXCEPT !.at = "write", !.link = ActiveOutbound,
                                     !.silence = silence["primary"], !.unsure = u]]
    BY <1>4 DEF Pick
  <2> HIDE DEF u
  <2>. QED BY <2>1, <2>2, <2>3 DEF Send, u
<1>5. CASE Write(s)
  <2>1. Following(send[s]) \subseteq Send
    <3>1. [Idle EXCEPT !.at = "look", !.frame = "idSet"] \in Send
      BY IdleType DEF Send, Frame
    <3>2. [Idle EXCEPT !.at = "write", !.frame = "configSet"] \in Send
      BY IdleType DEF Send, Frame
    <3>. QED BY <3>1, <3>2, IdleType DEF Following
  <2>. QED BY <1>5, <2>1 DEF Write
<1>. QED BY <1>1, <1>2, <1>3, <1>4, <1>5 DEF Sending

\* Nothing runs before Start.
NotStarted == server = "new" => \A l \in Link : proc[l] = "off" /\ errors[l] = 0

\* A frame that is stamped after Stop has begun is the last its processor reads.
LateOnce ==
  \A l \in Link :
    /\ late[l] = 0 \/ (late[l] = 1 /\ proc[l] \in {"top", "done"})
    /\ ~cancelled => late[l] = 0

LEMMA NextType ==
  ASSUME TypeOK, LateOnce, [Next]_vars
  PROVE  TypeOK'
<1>1. CASE Tick
  BY <1>1, OlderType DEF Tick, TypeOK
<1>2. ASSUME NEW secondary \in SUBSET (Link \ {"primary"}), Start({"primary"} \cup secondary)
      PROVE  TypeOK'
  <2> DEFINE opened == {"primary"} \cup secondary
  <2>1. opened \subseteq Link
    OBVIOUS
  <2>2. stamp' \in [Link -> Age]
    BY <1>2, StampedType DEF Start, TypeOK
  <2>3. silence' \in [Link -> Age]
    BY <1>2 DEF Start, TypeOK, Age
  <2>4. proc' \in [Link -> {"off", "top", "read", "stamp", "pause", "done"}]
    BY <1>2 DEF Start
  <2>5. server' = "running" /\ comms' = opened /\ gauge' = TRUE
        /\ UNCHANGED <<errors, send, late>>
    BY <1>2 DEF Start
  <2> HIDE DEF opened
  <2>. QED BY <2>1, <2>2, <2>3, <2>4, <2>5 DEF TypeOK
<1>3. CASE Stop
  <2>1. stamp' \in [Link -> Age]
    BY <1>3 DEF Stop, StopBegins, StopCloses, StopClosesSecondary, StopReturns, TypeOK, Age
  <2>. QED BY <1>3, <2>1 DEF Stop, StopBegins, StopCloses, StopClosesSecondary, StopReturns, TypeOK
<1>4. ASSUME NEW l \in Link, Top(l) \/ Pause(l)
      PROVE  TypeOK'
  BY <1>4 DEF Top, Pause, TypeOK
<1>5. ASSUME NEW l \in Link, ReadFails(l)
      PROVE  TypeOK'
  <2>1. errors' \in [Link -> 0 .. MaxConsecutiveErrors + 1]
    <3>1. errors[l] \in 0 .. MaxConsecutiveErrors + 1
      BY DEF TypeOK
    <3>2. (IF errors[l] <= MaxConsecutiveErrors THEN errors[l] + 1 ELSE errors[l])
            \in 0 .. MaxConsecutiveErrors + 1
      BY <3>1
    <3>. QED BY <1>5, <3>2 DEF ReadFails, TypeOK
  <2>2. gauge' \in BOOLEAN
    <3>1. gauge \in BOOLEAN /\ gauge' = GaugeAfterError(l)
      BY <1>5 DEF ReadFails, TypeOK
    <3>. QED BY <3>1, Zenon DEF GaugeAfterError
  <2>. QED BY <1>5, <2>1, <2>2 DEF ReadFails, TypeOK
<1>6. ASSUME NEW l \in Link, ReadFrame(l)
      PROVE  TypeOK'
  <2>1. 0 \in Age /\ 0 \in 0 .. MaxConsecutiveErrors + 1
    BY DEF Age
  <2>. QED BY <1>6, <2>1 DEF ReadFrame, TypeOK
<1>7. ASSUME NEW l \in Link, RecordFrame(l)
      PROVE  TypeOK'
  <2>1. stamp' \in [Link -> Age]
    BY <1>7, StampedType DEF RecordFrame, TypeOK
  <2>2. late' \in [Link -> 0 .. 2]
    <3>1. late[l] = 0 /\ late \in [Link -> 0 .. 2]
      BY <1>7 DEF RecordFrame, LateOnce, TypeOK
    <3>2. late' = [late EXCEPT ![l] = IF cancelled THEN @ + 1 ELSE @]
      BY <1>7 DEF RecordFrame
    <3>. QED BY <3>1, <3>2
  <2>. QED BY <1>7, <2>1, <2>2 DEF RecordFrame, TypeOK
<1>8. ASSUME NEW s \in Sender, Approve(s) \/ SendMessage(s) \/ Sending(s)
      PROVE  TypeOK'
  <2>1. send' \in [Sender -> Send]
    BY <1>8, SendType
  <2>2. UNCHANGED <<server, comms, gauge, proc, errors, stamp, silence, late>>
    BY <1>8 DEF Approve, SendMessage, Sending, Look, Pick, Write
  <2>. QED BY <2>1, <2>2 DEF TypeOK
<1>9. CASE UNCHANGED vars
  BY <1>9 DEF vars, TypeOK
<1>. QED BY <1>1, <1>2, <1>3, <1>4, <1>5, <1>6, <1>7, <1>8, <1>9 DEF Next, Proceed

(***************************************************************************)
(* The gauge, and what Stop forgets.                                       *)
(***************************************************************************)

\* What the senders do changes nothing but send.
LEMMA SendingQuiet ==
  ASSUME NEW s \in Sender, Approve(s) \/ SendMessage(s) \/ Sending(s)
  PROVE  UNCHANGED <<server, comms, gauge, proc, errors, stamp, silence, late>>
BY DEF Approve, SendMessage, Sending, Look, Pick, Write

LEMMA NextNotStarted ==
  ASSUME NotStarted, [Next]_vars
  PROVE  NotStarted'
<1>1. CASE Tick \/ UNCHANGED vars
  BY <1>1 DEF Tick, vars, NotStarted
<1>2. ASSUME NEW opened, Start(opened)
      PROVE  NotStarted'
  BY <1>2 DEF Start, NotStarted
<1>3. CASE Stop
  BY <1>3 DEF Stop, StopBegins, StopCloses, StopClosesSecondary, StopReturns, NotStarted
<1>4. ASSUME NEW l \in Link, Proceed(l) \/ ReadFails(l) \/ ReadFrame(l)
      PROVE  NotStarted'
  <2>1. proc[l] # "off" /\ server' = server
    BY <1>4 DEF Proceed, Top, Pause, RecordFrame, ReadFails, ReadFrame
  <2>. QED BY <2>1 DEF NotStarted
<1>5. ASSUME NEW s \in Sender, Approve(s) \/ SendMessage(s) \/ Sending(s)
      PROVE  NotStarted'
  BY <1>5, SendingQuiet DEF NotStarted
<1>. QED BY <1>1, <1>2, <1>3, <1>4, <1>5 DEF Next

LEMMA NextGauge ==
  ASSUME TypeOK, NotStarted, GaugeNeverOverstates, [Next]_vars
  PROVE  GaugeNeverOverstates'
<1>1. CASE Tick \/ UNCHANGED vars
  BY <1>1 DEF Tick, vars, GaugeNeverOverstates
<1>2. ASSUME NEW opened, Start(opened)
      PROVE  GaugeNeverOverstates'
  BY <1>2 DEF Start, NotStarted, GaugeNeverOverstates
<1>3. CASE Stop
  BY <1>3 DEF Stop, StopBegins, StopCloses, StopClosesSecondary, StopReturns, GaugeNeverOverstates
<1>4. ASSUME NEW l \in Link, Proceed(l)
      PROVE  GaugeNeverOverstates'
  BY <1>4 DEF Proceed, Top, Pause, RecordFrame, GaugeNeverOverstates
<1>5. ASSUME NEW l \in Link, ReadFails(l)
      PROVE  GaugeNeverOverstates'
  <2>1. /\ errors' = [errors EXCEPT ![l] = IF @ <= MaxConsecutiveErrors THEN @ + 1 ELSE @]
        /\ gauge' = GaugeAfterError(l) /\ server' = server
    BY <1>5 DEF ReadFails
  <2>2. errors \in [Link -> 0 .. MaxConsecutiveErrors + 1]
    BY DEF TypeOK
  <2>3. CASE l = "primary" /\ errors[l] = MaxConsecutiveErrors
    BY <2>1, <2>3 DEF GaugeAfterError, GaugeNeverOverstates
  <2>4. CASE ~ (l = "primary" /\ errors[l] = MaxConsecutiveErrors)
    <3>1. gauge' = gauge
      BY <2>1, <2>4 DEF GaugeAfterError
    <3>2. errors["primary"] <= MaxConsecutiveErrors => errors'["primary"] <= MaxConsecutiveErrors
      BY <2>1, <2>2, <2>4
    <3>. QED BY <2>1, <3>1, <3>2 DEF GaugeNeverOverstates
  <2>. QED BY <2>3, <2>4
<1>6. ASSUME NEW l \in Link, ReadFrame(l)
      PROVE  GaugeNeverOverstates'
  BY <1>6 DEF ReadFrame, GaugeNeverOverstates, TypeOK
<1>7. ASSUME NEW s \in Sender, Approve(s) \/ SendMessage(s) \/ Sending(s)
      PROVE  GaugeNeverOverstates'
  BY <1>7, SendingQuiet DEF GaugeNeverOverstates
<1>. QED BY <1>1, <1>2, <1>3, <1>4, <1>5, <1>6, <1>7 DEF Next

LEMMA NextLateOnce ==
  ASSUME TypeOK, LateOnce, [Next]_vars
  PROVE  LateOnce'
<1>1. CASE Tick \/ UNCHANGED vars
  BY <1>1 DEF Tick, vars, LateOnce, cancelled
<1>2. ASSUME NEW opened, Start(opened)
      PROVE  LateOnce'
  <2>1. server = "new" /\ server' = "running" /\ late' = late
    BY <1>2 DEF Start
  <2>2. \A l \in Link : late[l] = 0
    BY <2>1 DEF LateOnce, cancelled
  <2>. QED BY <2>1, <2>2 DEF LateOnce, cancelled
<1>3. CASE Stop
  BY <1>3 DEF Stop, StopBegins, StopCloses, StopClosesSecondary, StopReturns, LateOnce, cancelled
<1>4. ASSUME NEW l \in Link, Top(l) \/ Pause(l) \/ ReadFails(l) \/ ReadFrame(l)
      PROVE  LateOnce'
  <2>1. /\ late' = late /\ server' = server
        /\ \A k \in Link : k # l => proc'[k] = proc[k]
    BY <1>4 DEF Top, Pause, ReadFails, ReadFrame, TypeOK
  <2>2. late[l] = 1 => cancelled /\ proc[l] \in {"top", "done"}
    BY DEF LateOnce, cancelled
  <2>3. late[l] = 1 => proc'[l] = "done"
    BY <1>4, <2>2 DEF Top, Pause, ReadFails, ReadFrame, TypeOK
  <2>4. \A k \in Link : late[k] = 0 \/ (late[k] = 1 /\ proc'[k] \in {"top", "done"})
    BY <2>1, <2>3 DEF LateOnce
  <2>. QED BY <2>1, <2>4 DEF LateOnce, cancelled
<1>5. ASSUME NEW l \in Link, RecordFrame(l)
      PROVE  LateOnce'
  <2>1. late[l] = 0
    BY <1>5 DEF RecordFrame, LateOnce
  <2>2. /\ server' = server /\ proc'[l] = "top"
        /\ \A k \in Link : k # l => proc'[k] = proc[k] /\ late'[k] = late[k]
    BY <1>5 DEF RecordFrame, TypeOK
  <2>3. late'[l] = IF cancelled THEN 1 ELSE 0
    BY <1>5, <2>1 DEF RecordFrame, TypeOK
  <2>. QED BY <2>2, <2>3 DEF LateOnce, cancelled
<1>6. ASSUME NEW s \in Sender, Approve(s) \/ SendMessage(s) \/ Sending(s)
      PROVE  LateOnce'
  BY <1>6, SendingQuiet DEF LateOnce, cancelled
<1>. QED BY <1>1, <1>2, <1>3, <1>4, <1>5, <1>6 DEF Next, Proceed

\* The stamps that Stop has reset stay old, but for the one late frame.
Forgotten == \A l \in Link : cancelled /\ late[l] = 0 => stamp[l] >= HealthTimeout

LEMMA NextForgotten ==
  ASSUME TypeOK, LateOnce, Forgotten, [Next]_vars
  PROVE  Forgotten'
<1>1. CASE Tick
  <2>1. \A l \in Link : stamp[l] <= stamp'[l] /\ stamp[l] \in Nat /\ stamp'[l] \in Nat
    <3>1. stamp \in [Link -> Age] /\ stamp' = Older(stamp)
      BY <1>1 DEF Tick, TypeOK
    <3>2. stamp' \in [Link -> Age] /\ \A l \in Link : stamp[l] <= stamp'[l]
      BY <3>1, OlderType
    <3>. QED BY <3>1, <3>2 DEF Age
  <2>2. UNCHANGED <<server, late>>
    BY <1>1 DEF Tick
  <2>. QED BY <2>1, <2>2 DEF Forgotten, cancelled
<1>2. ASSUME NEW opened, Start(opened)
      PROVE  Forgotten'
  BY <1>2 DEF Start, Forgotten, cancelled
<1>3. CASE Stop
  BY <1>3 DEF Stop, StopBegins, StopCloses, StopClosesSecondary, StopReturns, Forgotten, cancelled
<1>4. ASSUME NEW l \in Link, Top(l) \/ Pause(l) \/ ReadFails(l) \/ ReadFrame(l)
      PROVE  Forgotten'
  BY <1>4 DEF Top, Pause, ReadFails, ReadFrame, Forgotten, cancelled
<1>5. ASSUME NEW l \in Link, RecordFrame(l)
      PROVE  Forgotten'
  <2>1. late[l] = 0 /\ late \in [Link -> 0 .. 2] /\ server' = server
    BY <1>5 DEF RecordFrame, LateOnce, TypeOK
  <2>2. cancelled => late'[l] = 1
    BY <1>5, <2>1 DEF RecordFrame
  <2>3. \A k \in Link : k # l => late'[k] = late[k] /\ stamp'[k] = stamp[k]
    BY <1>5, <2>1 DEF RecordFrame, Stamped
  <2>. QED BY <2>1, <2>2, <2>3 DEF Forgotten, cancelled
<1>6. ASSUME NEW s \in Sender, Approve(s) \/ SendMessage(s) \/ Sending(s)
      PROVE  Forgotten'
  BY <1>6, SendingQuiet DEF Forgotten, cancelled
<1>7. CASE UNCHANGED vars
  BY <1>7 DEF vars, Forgotten, cancelled
<1>. QED BY <1>1, <1>2, <1>3, <1>4, <1>5, <1>6, <1>7 DEF Next, Proceed

(***************************************************************************)
(* The failover.                                                           *)
(***************************************************************************)

\* Until Stop, and but for a frame in the processor's hands, the primary has been
\* silent for at least as long as its stamp says.
StampLags == ~cancelled /\ proc["primary"] # "stamp" => stamp["primary"] <= silence["primary"]

LEMMA NextStampLags ==
  ASSUME TypeOK, StampLags, [Next]_vars
  PROVE  StampLags'
<1>. /\ "primary" \in Link
     /\ stamp \in [Link -> Age] /\ silence \in [Link -> Age]
     /\ stamp["primary"] \in Age /\ silence["primary"] \in Age
  BY DEF TypeOK
<1>1. CASE Tick
  <2>1. /\ stamp'["primary"] = IF stamp["primary"] < Longest THEN stamp["primary"] + 1 ELSE Longest
        /\ silence'["primary"] =
             IF silence["primary"] < Longest THEN silence["primary"] + 1 ELSE Longest
        /\ UNCHANGED <<server, proc>>
    BY <1>1 DEF Tick, Older
  <2>2. stamp["primary"] <= silence["primary"] => stamp'["primary"] <= silence'["primary"]
    BY <2>1 DEF Age
  <2>. QED BY <2>1, <2>2 DEF StampLags, cancelled
<1>2. ASSUME NEW secondary, Start({"primary"} \cup secondary)
      PROVE  StampLags'
  <2>1. stamp'["primary"] = 0 /\ silence'["primary"] = 0
    BY <1>2 DEF Start, Stamped
  <2>. QED BY <2>1 DEF StampLags
<1>3. CASE Stop
  BY <1>3 DEF Stop, StopBegins, StopCloses, StopClosesSecondary, StopReturns, StampLags, cancelled
<1>4. ASSUME NEW l \in Link, Top(l) \/ Pause(l) \/ ReadFails(l)
      PROVE  StampLags'
  <2>1. proc["primary"] = "stamp" => proc'["primary"] = "stamp"
    BY <1>4 DEF Top, Pause, ReadFails, TypeOK
  <2>2. UNCHANGED <<server, stamp, silence>>
    BY <1>4 DEF Top, Pause, ReadFails
  <2>. QED BY <2>1, <2>2 DEF StampLags, cancelled
<1>5. ASSUME NEW l \in Link, ReadFrame(l)
      PROVE  StampLags'
  <2>1. CASE l = "primary"
    <3>1. proc'["primary"] = "stamp"
      BY <1>5, <2>1 DEF ReadFrame, TypeOK
    <3>. QED BY <3>1 DEF StampLags
  <2>2. CASE l # "primary"
    <3>1. /\ proc'["primary"] = proc["primary"] /\ silence'["primary"] = silence["primary"]
          /\ UNCHANGED <<server, stamp>>
      BY <1>5, <2>2 DEF ReadFrame, TypeOK
    <3>. QED BY <3>1 DEF StampLags, cancelled
  <2>. QED BY <2>1, <2>2
<1>6. ASSUME NEW l \in Link, RecordFrame(l)
      PROVE  StampLags'
  <2>1. CASE l = "primary"
    <3>1. stamp'["primary"] = 0 /\ silence' = silence
      BY <1>6, <2>1 DEF RecordFrame, Stamped
    <3>. QED BY <3>1 DEF StampLags, Age
  <2>2. CASE l # "primary"
    <3>1. /\ proc'["primary"] = proc["primary"] /\ stamp'["primary"] = stamp["primary"]
          /\ UNCHANGED <<server, silence>>
      BY <1>6, <2>2 DEF RecordFrame, Stamped, TypeOK
    <3>. QED BY <3>1 DEF StampLags, cancelled
  <2>. QED BY <2>1, <2>2
<1>7. ASSUME NEW s \in Sender, Approve(s) \/ SendMessage(s) \/ Sending(s)
      PROVE  StampLags'
  BY <1>7, SendingQuiet DEF StampLags, cancelled
<1>8. CASE UNCHANGED vars
  BY <1>8 DEF vars, StampLags, cancelled
<1>. QED BY <1>1, <1>2, <1>3, <1>4, <1>5, <1>6, <1>7, <1>8 DEF Next, Proceed

\* What SecondaryMeansSilence says of one sender.
Justified(c) ==
  c.at = "write" /\ c.link = "secondary" => c.silence > FailoverAfter \/ c.unsure

\* Only Pick makes a sender write on the secondary link.
LEMMA NextJustified ==
  ASSUME TypeOK, StampLags, SecondaryMeansSilence, NEW s \in Sender,
         Approve(s) \/ SendMessage(s) \/ Sending(s)
  PROVE  SecondaryMeansSilence'
<1>1. \A k \in Sender : Justified(send[k])
  BY DEF SecondaryMeansSilence, Justified
<1>2. \E c : send' = [send EXCEPT ![s] = c] /\ Justified(c)
  <2>1. CASE Approve(s) \/ SendMessage(s) \/ Look(s)
    <3> DEFINE a == [Idle EXCEPT !.at = "look", !.frame = "joinAck"]
               b == [Idle EXCEPT !.at = "pick", !.frame = "message"]
               d == [send[s] EXCEPT !.at = "pick"]
    <3>1. \E c \in {a, b, d} : send' = [send EXCEPT ![s] = c]
      BY <2>1 DEF Approve, SendMessage, Look
    <3>2. a.at = "look" /\ b.at = "pick"
      BY DEF Idle
    <3>3. d.at = "pick"
      BY DEF TypeOK, Send
    <3>4. \A c \in {a, b, d} : Justified(c)
      BY <3>2, <3>3 DEF Justified
    <3>. QED BY <3>1, <3>4
  <2>2. CASE Pick(s)
    <3> DEFINE u == cancelled \/ proc["primary"] = "stamp"
               c == [send[s] EXCEPT !.at = "write", !.link = ActiveOutbound,
                                    !.silence = silence["primary"], !.unsure = u]
    <3>1. send' = [send EXCEPT ![s] = c]
      BY <2>2 DEF Pick
    <3>2. ActiveOutbound = "secondary" => stamp["primary"] > FailoverAfter
      BY DEF ActiveOutbound
    <3>3. ~u => stamp["primary"] <= silence["primary"]
      BY DEF StampLags
    <3>4. stamp["primary"] \in Nat /\ silence["primary"] \in Nat
      BY DEF TypeOK, Age
    <3>5. ActiveOutbound = "secondary" => silence["primary"] > FailoverAfter \/ u
      BY <3>2, <3>3, <3>4
    <3>6. /\ c.link = ActiveOutbound /\ c.silence = silence["primary"] /\ c.unsure = u
      BY DEF TypeOK, Send
    <3>. QED BY <3>1, <3>5, <3>6 DEF Justified
  <2>3. CASE Write(s)
    <3>1. PICK c \in Following(send[s]) : send' = [send EXCEPT ![s] = c]
      BY <2>3 DEF Write
    <3>2. /\ Justified([Idle EXCEPT !.at = "look", !.frame = "idSet"])
          /\ Justified([Idle EXCEPT !.at = "write", !.frame = "configSet"])
          /\ Justified(Idle)
      BY DEF Idle, Justified
    <3>3. Justified(c)
      BY <3>1, <3>2 DEF Following
    <3>. QED BY <3>1, <3>3
  <2>. QED BY <2>1, <2>2, <2>3 DEF Sending
<1>3. PICK c : send' = [send EXCEPT ![s] = c] /\ Justified(c)
  BY <1>2
<1>4. \A k \in Sender : Justified(send'[k])
  BY <1>1, <1>3 DEF TypeOK
<1>. QED BY <1>4 DEF SecondaryMeansSilence, Justified

LEMMA NextSecondaryMeansSilence ==
  ASSUME TypeOK, StampLags, SecondaryMeansSilence, [Next]_vars
  PROVE  SecondaryMeansSilence'
<1>1. CASE \E s \in Sender : Approve(s) \/ SendMessage(s) \/ Sending(s)
  BY <1>1, NextJustified
<1>2. CASE ~ \E s \in Sender : Approve(s) \/ SendMessage(s) \/ Sending(s)
  <2>1. send' = send
    BY <1>2 DEF Next, Tick, Start, Stop, StopBegins, StopCloses, StopClosesSecondary,
                StopReturns, Proceed, Top, Pause, RecordFrame, ReadFails, ReadFrame, vars
  <2>. QED BY <2>1 DEF SecondaryMeansSilence
<1>. QED BY <1>1, <1>2

(***************************************************************************)
(* The theorems.                                                           *)
(***************************************************************************)

SInv ==
  /\ TypeOK /\ NotStarted
  /\ GaugeNeverOverstates
  /\ LateOnce /\ Forgotten
  /\ StampLags /\ SecondaryMeansSilence

LEMMA InitInv == Init => SInv
<1>. SUFFICES ASSUME Init PROVE SInv
  OBVIOUS
<1>1. TypeOK
  BY InitType
<1>2. NotStarted /\ GaugeNeverOverstates /\ LateOnce /\ Forgotten
  BY DEF Init, NotStarted, GaugeNeverOverstates, LateOnce, Forgotten, cancelled
<1>3. StampLags
  BY DEF Init, StampLags
<1>4. SecondaryMeansSilence
  BY DEF Init, SecondaryMeansSilence, Idle
<1>. QED BY <1>1, <1>2, <1>3, <1>4 DEF SInv

LEMMA SpecInv == Spec => []SInv
<1>1. SInv /\ [Next]_vars => SInv'
  BY NextType, NextNotStarted, NextGauge, NextLateOnce, NextForgotten, NextStampLags,
     NextSecondaryMeansSilence DEF SInv
<1>. QED BY InitInv, <1>1, PTL DEF Spec

\* TypeOK: the error counter of a message processor stops one past its maximum, and a
\* processor stamps a link no more often after Stop than the model can count.
THEOREM TypeCorrect == Spec => []TypeOK
<1>1. SInv => TypeOK
  BY DEF SInv
<1>. QED BY <1>1, SpecInv, PTL

\* GaugeNeverOverstates: mesh_serial_connected is 1 only until Stop has closed the
\* primary's port and said so, and only while fewer than MaxConsecutiveErrors + 1 reads
\* in a row have failed.
THEOREM GaugeHonest == Spec => []GaugeNeverOverstates
<1>1. SInv => GaugeNeverOverstates
  BY DEF SInv
<1>. QED BY <1>1, SpecInv, PTL

\* StopForgets: after Stop no link counts as online, but for the one frame its message
\* processor may have been reading.
THEOREM StopForgetsLinks == Spec => []StopForgets
<1>1. SInv => StopForgets
  <2>. SUFFICES ASSUME SInv, NEW l \in Link
                PROVE  late[l] <= 1 /\ (cancelled /\ Online(l) => late[l] = 1)
    BY DEF StopForgets
  <2>1. late[l] = 0 \/ late[l] = 1
    BY DEF SInv, LateOnce
  <2>2. stamp[l] \in Nat
    BY DEF SInv, TypeOK, Age
  <2>3. cancelled /\ late[l] = 0 => stamp[l] >= HealthTimeout
    BY DEF SInv, Forgotten
  <2>. QED BY <2>1, <2>2, <2>3 DEF Online
<1>. QED BY <1>1, SpecInv, PTL

\* SecondaryMeansSilence: a frame is written on the secondary link only if the primary
\* had delivered nothing for longer than the threshold, whatever the two stamps race with.
THEOREM FailoverNeedsSilence == Spec => []SecondaryMeansSilence
<1>1. SInv => SecondaryMeansSilence
  BY DEF SInv
<1>. QED BY <1>1, SpecInv, PTL

=============================================================================
