------------------------------ MODULE Commands ------------------------------
(***************************************************************************)
(* Commands to lights and relays: the two HTTP handlers that send them, the *)
(* CommandStore, the link they are written to, the mesh at its other end    *)
(* (the simulator of stub mode) and the acknowledgements coming back.       *)
(*                                                                         *)
(* A frame is a header (the length) and a body, two Writes that nothing    *)
(* holds together, so the frames of two handlers may interleave.  Every     *)
(* command frame has the same length, 72 bytes.  A Write may fail with part *)
(* of its bytes written.  Of a torn stream the model keeps what those bytes *)
(* mean to ReadFrame; see ReadTorn, ReadBroken and ReadScrap.               *)
(*                                                                         *)
(* The hub's entries and the simulator's nodes are the same devices, known  *)
(* and enrolled from the start.  Actions and colours are left out.          *)
(***************************************************************************)
EXTENDS GoMap, Naturals, Sequences

CONSTANTS
  Call,         \* HTTP requests that send a command
  Device,
  AdapterType,
  TypeOf,       \* Device -> its adapter type
  OutputTypes,  \* those that take commands, adapter.IsOutput
  Zones,        \* zones, as their sets of devices
  Token,        \* the last two bytes of a command's UUID
  ZeroToken,    \* what a zone command has in their place
  TornToken,    \* what a frame pieced together of several may have there
  MaxFailures,  \* bound: Writes that fail
  GiveUpAfter   \* the Writes a desynchronised reader takes in before it fails

ASSUME CommandsAssumption ==
  /\ TypeOf \in [Device -> AdapterType]
  /\ OutputTypes \subseteq AdapterType
  /\ Zones \subseteq SUBSET Device
  /\ ZeroToken \in Token /\ TornToken \subseteq Token
  /\ MaxFailures \in Nat /\ GiveUpAfter \in Nat

VARIABLES
  pc,        \* Call -> how far its handler is
  todo,      \* Call -> devices it has yet to write a frame for
  half,      \* Call -> the device whose header is written and body is not
  token,     \* Call -> the token its frames carry
  store,     \* CommandStore.commands, with the ids of their calls
  failures,
  down,      \* what the hub wrote and the mesh has not read
  up,        \* the acknowledgements the hub has not read
  reader,    \* the simulator's readLoop
  taken,     \* Writes a desynchronised reader has taken in
  mute,      \* whether the simulator has given its side of the link up, s.comm = nil
  offline,   \* lights and relays switched off
  heard,     \* history: calls a frame of which the mesh has handled
  acted,     \* history: Call -> devices that carried it out, from a frame with its token
  announced  \* history: Call -> command_ack events published for it

hubVars == <<pc, todo, half, token, store, failures>>
simVars == <<reader, taken, mute, offline, heard, acted>>
vars == <<hubVars, simVars, down, up, announced>>

PendingCommand == [node : Device, status : {"pending", "acked"}]

\* What one Write puts on the link, all of its bytes or the first few.
Header == [call : Call, whole : BOOLEAN]  \* the call is history: all headers are equal

Body == [call : Call, whole : BOOLEAN, type : AdapterType, token : Token]

HasBody(w) == "type" \in DOMAIN w

IsBody(w) == HasBody(w) /\ w.whole

IsHeader(w) == ~ HasBody(w) /\ w.whole

Ack == [token : Token, from : SUBSET Device]

TypeOK ==
  /\ pc \in [Call -> {"idle", "writing", "accepted", "failed"}]
  /\ todo \in [Call -> SUBSET Device]
  /\ half \in [Call -> SUBSET Device]
  /\ token \in [Call -> Token]
  /\ DOMAIN store \subseteq Call /\ store \in [DOMAIN store -> PendingCommand]
  /\ failures \in 0..MaxFailures
  /\ down \in Seq(Header \cup Body)
  /\ up \in Seq(Ack)
  /\ reader \in {"reading", "desync", "gone"}
  /\ taken \in Nat
  /\ mute \in BOOLEAN
  /\ offline \subseteq Device
  /\ heard \subseteq Call
  /\ acted \in [Call -> SUBSET Device]
  /\ announced \in [Call -> Nat]

Init ==
  /\ pc = [c \in Call |-> "idle"]
  /\ todo = [c \in Call |-> {}]
  /\ half = [c \in Call |-> {}]
  /\ token = [c \in Call |-> ZeroToken]
  /\ store = EmptyMap
  /\ failures = 0
  /\ down = <<>>
  /\ up = <<>>
  /\ reader = "reading"
  /\ taken = 0
  /\ mute = FALSE
  /\ offline = {}
  /\ heard = {}
  /\ acted = [c \in Call |-> {}]
  /\ announced = [c \in Call |-> 0]

------------------------------------------------------------------------------

IsOutput(d) == TypeOf[d] \in OutputTypes

\* Mutant: the literal leaves Status out.
NewCommandWithoutStatus(d) == [node |-> d, status |-> ""]

NewCommand(d) == [node |-> d, status |-> "pending"]

\* Mutant: the record is never stored.
AddForgotten(commands, c, cmd) == commands

\* CommandStore.Add
Add(commands, c, cmd) == Put(commands, c, cmd)

\* v1NodeCommand up to its Write: the record is stored before the frame goes out.
NodeCommand(c, d) ==
  /\ pc[c] = "idle"
  /\ IsOutput(d)
  /\ \E t \in Token : token' = [token EXCEPT ![c] = t]
  /\ store' = Add(store, c, NewCommand(d))
  /\ pc' = [pc EXCEPT ![c] = "writing"]
  /\ todo' = [todo EXCEPT ![c] = {d}]
  /\ UNCHANGED <<half, failures, simVars, down, up, announced>>

\* v1ZoneCommand up to its Writes: no record, and a zero token.
ZoneCommand(c, z) ==
  /\ pc[c] = "idle"
  /\ todo' = [todo EXCEPT ![c] = {d \in z : IsOutput(d)}]
  /\ pc' = [pc EXCEPT ![c] = IF todo'[c] = {} THEN "accepted" ELSE "writing"]
  /\ UNCHANGED <<half, token, store, failures, simVars, down, up, announced>>

\* WriteFrame, its first Write.
WriteHeader(c) ==
  /\ half[c] = {}
  /\ \E d \in todo[c] : half' = [half EXCEPT ![c] = {d}]
  /\ down' = Append(down, [call |-> c, whole |-> TRUE])
  /\ UNCHANGED <<pc, todo, token, store, failures, simVars, up, announced>>

\* The handler goes on to the zone's next device, or answers 202.
NextFrame(c, d) ==
  /\ todo' = [todo EXCEPT ![c] = @ \ {d}]
  /\ pc' = [pc EXCEPT ![c] = IF todo'[c] = {} THEN "accepted" ELSE @]

BodyOf(c, d, whole) ==
  [call |-> c, whole |-> whole, type |-> TypeOf[d], token |-> token[c]]

\* WriteFrame, its second Write.
WriteBody(c) ==
  /\ \E d \in half[c] : down' = Append(down, BodyOf(c, d, TRUE)) /\ NextFrame(c, d)
  /\ half' = [half EXCEPT ![c] = {}]
  /\ UNCHANGED <<token, store, failures, simVars, up, announced>>

\* What a Write that runs into its deadline of 2 s leaves on the link: nothing, or the
\* first bytes of what it was to write.
LeftBehind(c, d) ==
  \/ UNCHANGED down
  \/ half[c] = {} /\ down' = Append(down, [call |-> c, whole |-> FALSE])
  \/ half[c] = {d} /\ down' = Append(down, BodyOf(c, d, FALSE))

\* Either Write fails: a node command answers 500 and leaves its record pending, a zone
\* command does without this frame.
WriteFails(c) ==
  /\ failures < MaxFailures
  /\ failures' = failures + 1
  /\ \E d \in todo[c] :
       /\ half[c] \in {{}, {d}}
       /\ LeftBehind(c, d)
       /\ IF c \in DOMAIN store
            THEN /\ pc' = [pc EXCEPT ![c] = "failed"]
                 /\ todo' = [todo EXCEPT ![c] = {}]
            ELSE NextFrame(c, d)
  /\ half' = [half EXCEPT ![c] = {}]
  /\ UNCHANGED <<token, store, simVars, up, announced>>

------------------------------------------------------------------------------

\* The devices that carry out a command frame of this type.
Addressed(type) == {d \in Device \ offline : TypeOf[d] = type}

\* The acknowledgements of one frame, in the order of a map, which the hub cannot tell:
\* an element of up is one frame's.
Acks(t, from) == IF from = {} THEN up ELSE Append(up, [token |-> t, from |-> from])

\* writeLocked of each.  The first that fails is the last: s.comm is nil from then on,
\* while readLoop goes on.
Acknowledge(t, from) ==
  \/ mute /\ UNCHANGED <<mute, up>>
  \/ ~ mute /\ UNCHANGED mute /\ up' = Acks(t, from)
  \/ /\ ~ mute /\ mute' = TRUE
     /\ \E some \in SUBSET from \ {from} : up' = Acks(t, some)

\* Mutant: an acknowledgement is let go while another is on its way.
HandleFrameBusy(b, t) ==
  /\ heard' = heard \cup {b.call}
  /\ acted' = IF t = b.token
              THEN [acted EXCEPT ![b.call] = @ \cup Addressed(b.type)] ELSE acted
  /\ Acknowledge(t, IF up # <<>> THEN {} ELSE Addressed(b.type))

\* HandleFrame of the command in body b, with token t: everyone addressed carries it
\* out, whatever becomes of the acknowledgement.
HandleFrame(b, t) ==
  /\ heard' = heard \cup {b.call}
  /\ acted' = IF t = b.token
              THEN [acted EXCEPT ![b.call] = @ \cup Addressed(b.type)] ELSE acted
  /\ Acknowledge(t, Addressed(b.type))

\* Mutant: the reader flushes what is buffered behind its frame.
DropAll(n) == down' = <<>>

\* A reader takes the first n Writes off the stream.
Drop(n) == down' = SubSeq(down, n + 1, Len(down))

ReadFrame ==
  /\ reader = "reading"
  /\ Len(down) >= 2 /\ IsHeader(down[1]) /\ IsBody(down[2])
  /\ HandleFrame(down[2], down[2].token)
  /\ Drop(2)
  /\ UNCHANGED <<hubVars, reader, taken, offline, announced>>

\* n headers, one behind the other, then a body.
Torn(n) == IsBody(down[n + 1]) /\ \A i \in 1..n : IsHeader(down[i])

\* Two headers, then a body.  The second header and the body but for its last two
\* bytes are 72 bytes that parse: "48 00" is seqNum = 0, and the cut takes protoVersion,
\* which HandleFrame does not look at.  The two bytes left are read as a length, 1360.
ReadTorn ==
  /\ reader = "reading"
  /\ Len(down) >= 3 /\ Torn(2)
  /\ HandleFrame(down[3], down[3].token)
  /\ Drop(3)
  /\ reader' = "desync"
  /\ UNCHANGED <<hubVars, taken, offline, announced>>

\* readLoop ends for good, and the simulator sends nothing more.
GiveUp == reader' = "gone" /\ mute' = TRUE

\* More headers before the body: its payload is cut short, and does not parse.
ReadBroken ==
  /\ reader = "reading"
  /\ \E n \in 4..Len(down) : Torn(n - 1) /\ Drop(n)
  /\ GiveUp
  /\ UNCHANGED <<hubVars, taken, offline, heard, acted, up, announced>>

\* The next Write that is no header is cut short: what follows is taken for the rest
\* of it, and where the reader then finds its next length depends on the cut.
ReadScrap ==
  /\ reader = "reading"
  /\ \E n \in 1..Len(down) : /\ ~ down[n].whole
                             /\ \A i \in 1..(n - 1) : IsHeader(down[i])
  /\ reader' = "desync"
  /\ UNCHANGED <<hubVars, taken, mute, offline, heard, acted, down, up, announced>>

\* The reader takes in one more Write, and does nothing with it or gives up.
ReadOn(giveUp) ==
  /\ reader = "desync"
  /\ down # <<>>
  /\ Drop(1)
  /\ IF giveUp THEN GiveUp ELSE UNCHANGED <<reader, mute>>
  /\ UNCHANGED <<hubVars, offline, heard, acted, up, announced>>

\* io.ReadFull collects 1360 bytes that do not parse.
ReadJunk ==
  /\ failures = 0
  /\ taken' = taken + 1
  /\ ReadOn(taken' >= GiveUpAfter)

\* With a scrap in the stream a frame may still parse, of the right bytes but for the
\* token, and a length may be one that ReadFrame refuses (0, or above 4096).
ReadAstray ==
  /\ failures > 0
  /\ UNCHANGED taken
  /\ \/ \E giveUp \in BOOLEAN : ReadOn(giveUp)
     \/ /\ reader = "desync"
        /\ down # <<>> /\ HasBody(down[1])
        /\ \E t \in {down[1].token} \cup TornToken : HandleFrame(down[1], t)
        /\ Drop(1)
        /\ UNCHANGED <<hubVars, reader, offline, announced>>

\* tick: a health or route report that cannot be written.
Mute ==
  /\ ~ mute /\ mute' = TRUE
  /\ UNCHANGED <<hubVars, reader, taken, offline, heard, acted, down, up, announced>>

SetOffline(d, off) ==
  /\ offline' = IF off THEN offline \cup {d} ELSE offline \ {d}
  /\ UNCHANGED <<hubVars, reader, taken, mute, heard, acted, down, up, announced>>

------------------------------------------------------------------------------

\* Mutant: the token is not compared.
AnyPending(t) == {c \in DOMAIN store : store[c].status = "pending"}

\* Mutant: the status is not looked at.
AnyStatus(t) == {c \in DOMAIN store : token[c] = t}

\* CommandStore.AckByToken: the pending commands it may take, in the order of a map.
Acknowledged(t) ==
  {c \in DOMAIN store : store[c].status = "pending" /\ token[c] = t}

\* handleCommandAck of the next acknowledgement.
HandleCommandAck ==
  /\ up # <<>>
  /\ \E d \in Head(up).from :
       up' = IF Head(up).from = {d} THEN Tail(up)
             ELSE [up EXCEPT ![1].from = @ \ {d}]
  /\ LET found == Acknowledged(Head(up).token) IN
     \/ /\ found = {}
        /\ UNCHANGED <<store, announced>>
     \/ \E c \in found :
          /\ store' = [store EXCEPT ![c].status = "acked"]
          /\ announced' = [announced EXCEPT ![c] = @ + 1]
  /\ UNCHANGED <<pc, todo, half, token, failures, simVars, down>>

------------------------------------------------------------------------------

Write(c) == WriteHeader(c) \/ WriteBody(c)

Handler(c) ==
  \/ \E d \in Device : NodeCommand(c, d)
  \/ \E z \in Zones : ZoneCommand(c, z)
  \/ Write(c)
  \/ WriteFails(c)

ReadLoop ==
  ReadFrame \/ ReadTorn \/ ReadBroken \/ ReadScrap \/ ReadJunk \/ ReadAstray

Next ==
  \/ \E c \in Call : Handler(c)
  \/ ReadLoop
  \/ Mute
  \/ HandleCommandAck
  \/ \E d \in Device, off \in BOOLEAN : IsOutput(d) /\ SetOffline(d, off)

Spec == Init /\ [][Next]_vars

\* The goroutines run; nobody has to send a command or switch a device.
Fairness ==
  /\ \A c \in Call : WF_vars(Write(c))
  /\ WF_vars(ReadLoop)
  /\ WF_vars(HandleCommandAck)

FairSpec == Spec /\ Fairness

------------------------------------------------------------------------------

Started(c) == pc[c] # "idle"

Acked(c) == c \in DOMAIN store /\ store[c].status = "acked"

\* v1NodeCommand has answered 202.
Accepted(c) == pc[c] = "accepted" /\ c \in DOMAIN store

\* Neither another request's frames nor frames pieced together carry c's token.
Unambiguous(c) ==
  token[c] \notin TornToken /\ \A o \in Call \ {c} : Started(o) => token[o] # token[c]

\* A command whose token is its own is acked only when some device has carried it
\* out, refused or accepted, over a torn link too: AckByToken and the simulator agree
\* on what a token names.
AckMeansActed == \A c \in Call : Acked(c) /\ Unambiguous(c) => acted[c] # {}

\* However fast the device, its acknowledgement finds the command in the store:
\* v1NodeCommand adds the record before it sends.
AckFindsCommand ==
  \A i \in DOMAIN up : up[i].token \notin TornToken \cup {ZeroToken} =>
    \E c \in DOMAIN store : token[c] = up[i].token

\* However many devices acknowledge it, a command is announced as acked once.
AnnouncedOnce == \A c \in Call : announced[c] = (IF Acked(c) THEN 1 ELSE 0)

\* A command that some device carries out while the simulator can still write is acked
\* in the end, one answered with 500 too, and whatever becomes of the link meanwhile:
\* the acknowledgement is on its way and finds the command pending.
CarriedOutIsAcked ==
  \A c \in Call : (c \in DOMAIN store /\ acted[c] # {} /\ ~ mute)
                    ~> (Acked(c) \/ ~ Unambiguous(c))

\* The part of it that is never wrong for a moment: no acknowledgement is consumed
\* without its command, and none is missing but for a write that failed.
CarriedOutIsOwed ==
  \A c \in DOMAIN store : acted[c] # {} /\ ~ mute /\ Unambiguous(c) =>
    Acked(c) \/ \E i \in DOMAIN up : up[i].token = token[c]

\* An accepted command comes through to the mesh as long as the link is in step.
AcceptedIsHeard ==
  \A c \in Call : Accepted(c) ~> (c \in heard \/ reader # "reading")

\* docs/api_guide.md:259: the reply "means the instruction was accepted and handed
\* to the device".  It is not when two handlers write at once.
AcceptedIsHandedOver == \A c \in Call : Accepted(c) ~> c \in heard

=============================================================================
