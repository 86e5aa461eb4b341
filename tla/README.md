# lattice-hub in TLA+

A formal model of lattice-hub: the hub ("orchestrator") that talks to a mesh of
small radio devices over one or two serial links, and to people over HTTP. The
modules are translated from the Go source under `src/server/orchestrator`.
TLC checks them on small instances; TLAPS proves the properties that matter
most for every size.

`PROJECT.json` says which lines each definition stands for (`map`), what each run
checks (`runs`), which faults of the code would break each property (`mutants`),
where the code is hard to test (`hazards`), and where code and documentation
disagree (`findings`).

Contents

1. The system: components, state, operations, interactions
2. The modules, and how they correspond to the code
3. What the runs check, their bounds, and the fairness they assume
4. What is proved
5. Where the code disagrees with what is said of it
6. What is not modelled
7. Plan

## 1. The system

    devices ~~radio~~ master ESP32 --serial--> message processor --+
                      (one or two)                                 |
                                         +-------------------------+-----------+
                                         |  MeshServer                         |
       administrator, artists --HTTP-->  |  trust registry -> file             |
       (one goroutine per request)       |  node registry  -> file             |
                                         |  zone registry  -> file             |
                                         |  command store, nodeOnlineState     |
                                         +---+-----------------------+---------+
                                             |                       |
                                       event broker             event store
                                     (SSE streams)           (Kafka -> sidecar)

### Enrollment: trust registry, node registry, handlers

*State.* The trust registry (`nodeauth.Registry`: MAC to key and status), its
file, the node registry (`NodeRegistry`: MAC to node ID, name, zone, adapter
type, status), its file, and the local variables of the handlers in flight.

*Operations.* A device sends JOIN_REQUEST; an administrator approves (possibly
naming a node ID that another device holds, which is a *hotswap*), rejects,
renames (PATCH) or deletes; the hub answers with JOIN_ACK, OP_NODE_ID_SET and
OP_CONFIG_SET. A device that is approved already and asks again is answered
again (self-healing).

*Interactions.* Each registry has a lock of its own for each call; no lock spans
a handler. Approve returns a pointer into the registry, which is read later
without the lock.

*Hard.* Handlers interleave between any two registry calls; frames are lost;
resends re-run a whole approval with values read before; IDs run out at 255.

*Correct when.* No two active nodes have one node ID; the device knows the ID
the registry holds for it; trust follows an administrator's decision about that
very key; a decision is on disk when its request has been answered with success; a lost
JOIN_ACK is repeated.

### Server lifecycle

*State.* `MeshServer.mu`, `running`, the context, the stop channels, the wait
group, the ports, and the two registries' files.

*Operations.* `Start` opens ports and spawns a message processor per link, the
offline detector and two `PersistLoop`s. `Stop` cancels, closes ports and waits.
`main` starts everything and takes it down on SIGTERM; `/server/start` and
`/server/stop` do it by HTTP; requests and a timer send frames meanwhile.

*Hard.* `mu` is a `sync.RWMutex` on which a waiting writer keeps readers out;
`Stop` waits with `mu` held; requests outlive the API's ten-second shutdown.

*Correct when.* Nothing spawned outlives `Stop`; the registries are saved; the
event store is closed after its last user; the shutdown ends.

### Live events

*State.* The broker's map of channels, `nodeOnlineState` (guarded by `mu`), and
each node's `LastSeen`.

*Operations.* A health report publishes `health`, and `node_online` when the
node was not online; every 30 s the detector publishes `node_offline` for nodes
silent for longer than `healthTimeout`; clients subscribe, read and go.

*Hard.* Publishers of three goroutines; clients that never read; channels closed
while events are published; decisions on copies of the registry.

*Correct when.* Nobody sends on a closed channel; a slow client delays nobody;
the last presence event a stream carries is what the hub believes; node_online
and node_offline alternate; a silent device goes offline.

### Commands to lights and relays

*State.* The command store (command ID to target and status), the handlers that
are writing, the link, and the mesh behind it.

*Operations.* `v1NodeCommand` stores a record, and broadcasts one frame to the
adapter type of its node, with two bytes of the command's UUID as a token;
`v1ZoneCommand` broadcasts one frame per light or relay of the zone, with no record
and no token. Every device addressed acts and sends OP_COMMAND_ACK with
the token; the hub acks a pending command with that token and publishes
`command_ack`.

*Hard.* A frame is two Writes and nothing keeps the frames of two requests apart; a
Write may fail with part of its bytes sent; the simulator may lose its side of the
link; tokens are short and random; several devices acknowledge one command; devices
are off.

*Correct when.* What shows as acked was carried out and is announced once; what is
carried out gets acked, a command answered with 500 too; an accepted one reaches the
mesh.

### Serial links and failover

*State.* One open port per link, a time stamp per link of the last frame heard, a
counter of consecutive read errors per message processor, and the
`mesh_serial_connected` gauge.

*Operations.* A processor reads frames, stamps its link and counts errors; senders
ask `activeOutboundComm` for a link before each frame; `Start` opens and stamps,
`Stop` cancels, forgets the stamps and closes.

*Hard.* Stamps change between the choice of a link and the Write; a processor may
be between a frame and its stamp when `Stop` forgets; the gauge is written by
three parties.

*Correct when.* Nothing goes to the secondary link unless the primary is silent; a
silent primary is given up; a stopped or failed link is not reported as connected.

### Event store

*State.* The Kafka writer, per-topic statistics under one lock, and a goroutine that
creates the topics main could not create.

*Operations.* `Connect` (tried three times by `main`), topic creation and its retry
loop, `WriteMessage` from any goroutine, the writer's callback, `Close`.

*Hard.* The retry loop runs on while messages are written and the store is closed;
a request may be carried out and its answer lost; the store may be used without
ever having connected.

*Correct when.* "Ready" means the topic exists; every message is delivered, on its
way or counted as failed; `Close` ends and leaves nothing running; a broker that
recovers gets its topics.

### Replay cache

*State.* A ring of 32 (epoch, sequence) pairs per device. *Operation.*
`IsDuplicate`. *Hard.* Wrapping, and the pair of zeros that unused slots hold.
*Correct when.* A pair is refused exactly when it is among the last 32 let pass.
Only the cache's tests call it today.

### Crash and restart

*State.* The two registry files. *Operations.* `Persist`, `PersistLoop`, `Load`.
*Hard.* Files are overwritten in place; the trust registry is saved by every
handler, the node registry every 60 s only; handlers are cut short anywhere.
*Correct when.* A restart loses no request or decision that was answered, and
makes no key trusted.

### Not modelled

| Component | What it is |
|---|---|
| Zone registry | a map of names under one lock; saved by `Stop` only |
| Route topology | `UpdateNodeRoute`: path and parent of a node, for display |
| Mesh simulator, but for commands | stands in for the firmware |
| Sidecar, portal, dashboard | a monitor over Docker and Kafka, and web clients |
| Encoding, configuration, HTTP plumbing | stateless |

## 2. The modules

| Module | Models | Uses |
|---|---|---|
| `GoMap` | Go maps with `Put` and `Delete` | |
| `AuthRegistry` | `nodeauth/registry.go` as operators on a registry value | `GoMap` |
| `NodeRegistry` | `mesh/node_registry.go`, likewise | `GoMap` |
| `Enrollment` | the handlers of `mesh/server.go` and `mesh/api_v1_*.go` that use both registries | `NodeRegistry`, `AuthRegistry` |
| `Identity` | who has which node ID, and when that can go wrong | `Enrollment` |
| `Lifecycle` | `Start`, `Stop`, `main` and the lock they share | |
| `EventBroker` | `mesh/event_broker.go` and the stream handler | |
| `LiveEvents` | health reports, the offline detector, `nodeOnlineState` | `EventBroker` |
| `Commands` | command handlers, `command_store.go`, `WriteFrame`, and the simulator that reads and acknowledges | `GoMap` |
| `Restart` | crashes, `Load` of both registries, the node registry's `PersistLoop` | `Enrollment` |
| `SerialLink` | the message processor's reading, stamps, gauge, choice of link | |
| `KafkaStore` | `eventStore/kafka.go`, `ensure.go`, `main`'s connection attempts | |
| `ReplayWindow` | what a replay cache promises | |
| `ReplayCache` | `nodeauth/replay.go`, which implements it | `GoMap`, `ReplayWindow` (refinement) |
| `MCEnrollment`, `MCIdentity`, `MCRestart`, `MCLifecycle`, `MCLiveEvents`, `MCCommands`, `MCSerialLink`, `MCKafkaStore`, `MCReplayCache` | instances for TLC | |
| `EnrollmentProofs`, `RestartProofs` | theorems | `Enrollment` and `Identity`, `Restart` |
| `LifecycleProofs`, `CommandProofs`, `LiveProofs`, `SerialProofs`, `KafkaProofs`, `ReplayProofs` | theorems | the module of that name |

Operators under a comment *Mutant* are deliberately faulty versions of the definition
that follows them. No specification uses them; `PROJECT.json` says which
property each one breaks, which shows that the property can fail.

### Enrollment

A handler becomes one step per registry call, per frame written and per file
written. `call[w]` holds the position and the local variables of goroutine `w`:
a message processor (`Link`) or an HTTP request (`Admin`).

    handleEnrollmentRequest   JoinRequest, then Persist or ResendJoinAck
    resendJoinAck             ResendJoinAck, ApproveAgain, then as below
    ApproveEnrollment         ApproveRequest, ChooseFreeID or DetectHotswap, Assign,
                              Replace, SendJoinAck, SendNodeIDSet, SendConfigSet, and
                              Persist or PersistFails
    v1ApproveEnrollment       the same, then Configure
    RejectEnrollment          RejectRequest, SendRejection, Persist
    v1UpdateNode              UpdateRequest, Update, Configure
    v1DeleteNode              DeleteRequest, Remove
    handleHealthReport        HealthReport
    Registry.PersistLoop      PersistTick

* `Approve` returns a pointer. `call[w].key` is "live" while that pointer reaches
  the registry's entry; `Orphan` replaces it by the entry's key when `AddPending`
  puts a new entry in its place. (Where `AddPending` updates the entry in place, the
  fingerprint is read as it is at that moment: both outcomes of that race are
  in the model, as the order of the two steps.)
* Go's map order makes `GetNodeByID` return any holder of an ID: `HoldersOf` is a
  set, and a step takes any member.
* `AssignNode` does not reset `Status`; neither does the model.
* Left out: receipt and approval times, uptime and hop counts, the contents of
  frames beyond the key fingerprint and the ID, Kafka records and the `enrolled`
  event. Assumed: a serial link exists, both file paths are set, the server runs.
* A frame may be lost where `WriteMayFail` says so; the code logs the error and goes on.
* Where `SaveMayFail` says so a save may fail, and leave the file as it was or, since
  `os.WriteFile` truncates it first, of no use to `Load` (`SaveFails`).
  `ApproveEnrollment` and `RejectEnrollment` return the error (`server.go:806-808`,
  `861-863`): the request answers 400 and configures nothing, with the registry
  changed and the device told; on a link and in `PersistLoop` it is logged. `unsaved`
  is history: the devices the last saves failed for, none after one that succeeds.
* Concurrent `Persist`s hold the registry's lock for reading; they write the same
  content, so one step stands for them.

### Identity

No lock spans a handler, so two of them may look an ID up before either writes it, or
have different IDs in hand for one device, and a frame that tells a device its ID may
be lost. `Identity` keeps two history variables beside Enrollment's, which no step
reads:

* `disputed`, IDs that two handlers had in hand at once, from looking the ID up until
  it is written and taken from its former owner (`Settling`): until no handler has it
  in hand and it has one owner again;
* `unsettled`, devices that two handlers were telling at once (`Telling`), or whose
  OP_NODE_ID_SET was lost: until no handler is at the device and it knows its ID.

Handlers overlap in every way; nothing is cut off. The properties say that
it is these overlaps and losses, and no others, that leave two owners of an ID or a
device with another ID than the registry's. So a hotswap that overlaps with a deletion,
with a rejection, with approvals of other IDs, or with resends of other devices is safe,
and a failure is confined to the ID or the device concerned.

### Restart

Adds to Enrollment the node registry's file and `Crash(torn)`, which ends all
handlers and loads the files; those in `torn` were being overwritten and cannot be
read, so their registry starts empty, as `NewMeshServer` goes on after a failed
`Load`. A `PersistLoop` may be writing at any time, so any file may be torn.
What devices were sent and what administrators decided outlives the crash.

### Lifecycle

Each goroutine has a program counter and a job. `mu` is three variables: `writer`,
`readers` and `pending`, writers that have asked for it; `MayRead` refuses readers
while a writer waits, as `sync.RWMutex` does. A registry is reduced to the number
of times it has changed, its file to the number of changes it has, so "saved"
is an inequality. `ApproveRequest`, `Route`, `Transmit`, `Want`, `LockBriefly`
are the points at which a handler touches `mu`, a registry or a port; what
happens between them is Enrollment's subject.

* `starts` and `stops` count, because the context and the stop channels, once
  used, are never made anew: everything spawned by a second `Start` ends at once
  (`Top`, `DetectorStop`, `AuthStop`, `NodeStop`) and a second `Stop` panics
  (`StopPanics`): in a request, which `net/http` recovers from, or in `main`.
* `MaxStarts <= 2`: after the panic the wait group was not waited for, and a third
  `Start` could run two goroutines of one name.
* The API's shutdown waits for requests for at most ten seconds: `Drain` may pass
  while requests are still at work.
* `late` is history: a request has started the server when `main` had stopped it, or
  had found it stopped, and was about to close the event store.
* Left out: the value of the TX preset, `nodeOnlineState` (see LiveEvents),
  errors in writing frames and files.

### EventBroker and LiveEvents

A publisher holds the broker's lock for reading from `BeginPublish` to `EndPublish`
and visits the channels in any order; `Subscribe` and `Leave` need the lock for
writing and are atomic, which the guard `NobodyPublishes` says. `LastSeen` becomes
"fresh" or "stale"; the detector's copies age as their entries do, since both are
compared with the same clock. `health`, `motion` and `route_update` are one
type: they only take room in channels. `told` and `missed` are history.

### Commands

`Call` are HTTP requests; `todo[c]` the devices for which `c` has yet to write a
frame, `half[c]` the one whose header is written and body is not. `down` is the
sequence of Writes, `up` the acknowledgements, those of one frame together (their
order is that of a Go map, and nothing tells them apart).

    v1NodeCommand      NodeCommand, then WriteHeader, WriteBody or WriteFails
    v1ZoneCommand      ZoneCommand, then the same for each light or relay of the zone
    readLoop           ReadFrame, ReadTorn, ReadBroken, ReadScrap, ReadJunk, ReadAstray
    writeLocked        Acknowledge; Mute for the reports of tick
    Simulator.SetOffline, handleCommandAck   under their own names

* What torn frames do follows from their bytes. Every command frame is `48 00`, then
  72 bytes: `08 03`, two bytes of type, `32 40` and 64 bytes of data, `50 05`. After
  header, header, body the reader's 72 bytes are `48 00` and the body without `50 05`,
  which parse as the same command with `seqNum` 0 and no `protoVersion`; the simulator
  carries it out (`ReadTorn`). Next it takes `50 05` for a length, 1360, and collects
  the 36 Writes that follow and part of the 37th, which do not parse. Then `readLoop`
  ends and the simulator is mute until the hub connects anew, which it does at
  start-up only. `GiveUpAfter` is that 37; the runs use 2. With three headers or more
  in front the data field is cut short, and the first frame fails (`ReadBroken`).
* A Write that runs into its deadline of 2 s may have written nothing, or the first
  bytes of what it was to write (`LeftBehind`, a record with `whole` FALSE): a header
  cut to one byte, or a body cut anywhere. How many Writes fail is bounded by
  `MaxFailures`. Where the reader finds the next length after such a scrap depends on
  the cut. Some cuts lead to a length that `ReadFrame` refuses: behind a header cut to
  `48` it reads `48 48`, 18504, above 4096. Of a body cut to 70 of its 72 bytes, the
  next header completes the frame, and a command answered with 500 is carried out with
  its own token. A body cut near its last two data bytes has its token completed from
  the bytes of the next frame: that token is one of `TornToken`. Which of these
  happens is left open: after a scrap each Write that has a body may be carried out,
  with its own token or one of `TornToken`, or lost, or make the reader give up
  (`ReadScrap`, `ReadAstray`). Frames that garbage turns into another type of message
  are left out.
* The simulator carries commands out whether or not it can acknowledge them. When a
  Write of its own fails it drops its side of the link (`s.comm = nil`) and says
  nothing more, while `readLoop` goes on: `mute`, set by `Acknowledge` in the middle of
  the acks of a frame, or by a report (`Mute`), or with `readLoop`'s end.
  A connection made anew, which the hub does not do while it runs, is left out.
* A token is any element of `Token`, `ZeroToken` included: UUIDs are random.
  *Unambiguous* commands share theirs with no other request and no torn frame.
* `heard`, `acted` and `announced` are history, as is the call of a frame.
* Devices are known and enrolled throughout; one serial link; other frames that
  share the link are left out.

### SerialLink

A time stamp is its age, from 0 to `Longest`; `Tick` ages all of them. `silence` is
history: the age of the last frame a link delivered, which its stamp lags behind by at
most the frame between `ReadFrame` and `RecordFrame`. `Look` and `Pick` are two steps
because `activeOutboundComm` gives `mu` back before it reads the stamp. An approval's
third frame, OP_CONFIG_SET, is written without asking, and its second left out for a
node without an ID (`Following`). `Stop` closes the primary's port before it resets
the gauge, and the secondary's after (`StopCloses`, `StopClosesSecondary`). Errors are
counted up to one past the maximum, where the code counts on and nothing depends on
how far. One start; locks are Lifecycle's subject.

### KafkaStore

`at` holds where `main` and the retry loop are. `CreateTopics` is one round trip, with
every outcome: answered with any of the topics refused, failed as a whole, or failed
after the broker had carried it out. The broker (`world`) and kafka-go's writer
are external: messages handed over are delivered or reported as failed later, by
a callback. `stats` is what the status endpoint shows. How long retries wait and
what errors say is left out.

### ReplayCache and ReplayWindow

`IsDuplicate` holds the cache's lock, so it is one step. A pair is a model value;
`Zero` is the pair of two zeros. `Unrolled` lists a ring from its oldest slot, and
under `window <- Unrolled(Ring(m))` the rings implement the window, in which
nothing is said of slots and indices.

## 3. Runs

| Run | Instance | Shows |
|---|---|---|
| `enrollment_ids` | 2 devices, 2 IDs, 1 lossy link, 1 request, overlapping at will | which overlaps and losses can leave an ID with two owners or a device with a wrong ID |
| `enrollment_trust` | 1 device with 2 keys, 1 ID, 1 lossy link, 1 request, saves that fail, 1 crash | trust follows decisions, decisions reach the file and outlive a crash, lost acks are repeated |
| `lifecycle` | 1 link, 1 request that approves, stops, starts; 2 starts | the order of shutdown, the last saves, the lock |
| `live_events` | 1 device, 2 links, 1 client, channel of 2 | presence events, slow clients, channels that close |
| `commands` | 2 requests, 2 lights and a motion sensor in one zone, 2 tokens besides the zero one, 1 failing Write, a simulator that may fall silent | commands and their acknowledgements over a link that may be torn |
| `serial_link` | 2 links, 1 sender, thresholds of 1, ages up to 2, 1 error tolerated | choice of link, gauge, online flags |
| `event_store` | 2 topics, 2 writers, 3 connection attempts, 1 message per topic | topics, statistics, `Close` |
| `replay` | 2 devices, 5 marks with the zero mark, rings of 3 | the rings are a window |
| `enrollment_links`, `lifecycle_stop`, `lifecycle_start`, `commands_torn` | smallest instances | the disagreements of section 5 |

*Bounds.* Two devices and two IDs are the least with which an ID can be taken from its
holder, freed and given again, and with which IDs run out. One link and one request
are the least that overlap: a resend or a report with an approval, an update, a
deletion or a rejection. Two requests at once take too many states for a run; the
proofs of the same two properties have any number. Two keys are the least with which a
device can be re-keyed after a decision. Names and zones decide nothing in the
properties checked, so one value (the empty one, or the MAC) is enough. `TypeAsked` is
what an administrator fills in; with one device and one ID only an approval without a
name is distinct, so `enrollment_trust` has just that. One crash: what a second finds
is a state the first may have left, and `RestartProofs` has any number. In
`lifecycle`, `MaxChanges = 1` lets each registry change once, before or after `Stop`
has begun, which is what a save can miss; the guard `Room` lets nothing arrive that
would exceed it, and takes handlers already under way into account, so no handler is
ever stuck on the bound. `BufferSize = 2` has a channel that is empty, partly full and
full; larger instances (two clients; two devices with one link; two starts with every
kind of request) were explored for safety as well. In `commands` two requests are
enough for torn frames, and a zone of two lights for a frame that comes between two
others; two lights for several acks of one command, three tokens (one of them zero,
which torn frames may have) for ambiguous and unambiguous commands. In `serial_link`
an age of 2 is past both thresholds, which are at 1, and a processor can exceed one
tolerated error; the gauge and both stamps depend on nothing else. In `event_store`
two topics can be refused apart, two writers can fail at once, and one message per
topic has every outcome; `MaxTries` is the code's. In `replay` rings of three wrap
with four non-zero marks. `CHECK_DEADLOCK FALSE` in the lifecycle runs and
`event_store`: the process ends, and in the former the lock makes `Stop` wait for
ever, which is a finding. Symmetry is used for devices and keys in `enrollment_links`.
Two runs have a view, in which states count as one if they agree on all that the
properties and the steps to come depend on: `IdentityView` drops the trust file, keys,
names and answers sent, which decide nothing about IDs, with what handlers have no
more use for, and takes the two devices as interchangeable; `CommandsView` takes the
lights as interchangeable and drops what is written to a reader that is gone, which
nothing reads.

*Fairness.* Go schedules every runnable goroutine, so a handler that has begun takes
its next step (weak fairness per goroutine). Locks starve nobody (`sync.Mutex` and
`RWMutex` hand over after a while), hence strong fairness for taking `mu`; a `select`
picks among ready cases at random, hence strong fairness for noticing the stop
channels between ticks. Reading a closed port fails. A lossy link does not lose every
frame for ever: strong fairness of delivering a JOIN_ACK, and `LostAckHealed` assumes
in addition a device that keeps asking. (In Enrollment fairness is asked of the links'
goroutines only.) The detector's ticker ticks. The handlers of commands, the
simulator's reader and the message processors go on (weak fairness). Time passes.
Attempts to create topics and deliveries have timeouts in kafka-go, so each ends.
Nothing is owed by administrators, devices or clients; a client may stop reading for
ever; a link owes no frame, and a broker need never recover.

*Properties.*

* `UniqueActiveIDs`, `DeviceToldItsID`: under every overlap of handlers and every loss
  of frames. An ID has two owners only within a hotswap, or after two handlers had
  that ID in hand at once (`disputed`); a device has another ID than the registry's
  only after two handlers were telling it at once, or its OP_NODE_ID_SET was lost
  (`unsettled`). Both do happen (section 5).
* `ApprovedKeyWasGranted`, `AuthFileOwed`, `LostAckHealed`, `AnsweredSurvives`: under
  all interleavings, failing saves and crashes, with one serial link. With two the
  first fails (section 5). It speaks of decisions ever made: `Reject` takes nothing
  out of `granted`, so a key that was approved, rejected, and approved again by a
  resend that overlapped the rejection is not against it. What a failed save left out
  (`unsaved`) is exempt from the second and the last. `AnsweredSurvives` is about a
  trust file that is whole: one torn by the crash loses every entry, and
  `docs/wire_protocol.md:113-115`, by which a pending request survives a restart,
  holds only with a file that can be read.
* `StoreOpenWhenUsed`, `CheckedSendHasLink`, `StopLeavesNothing`, `StopSaves`: the
  order in which things are taken down. The first exempts what a `Start` brings to life
  after `main`'s `Stop` (`late`): nothing stops that server, and its processors may
  still read a frame when the store is closed.
* `SendersFinish`: a sender that holds `mu` for reading while `Stop` waits gets
  done, because it takes no second lock. `OnlyTheLockHoldsStop`: if `Stop` hangs,
  somebody it waits for is waiting for `mu`; nothing else can hold it up.
* `NoSendOnClosed`, `StreamTellsPresence`, `PresenceAlternates`, `PublishFinishes`,
  `SilentGoesOffline`, `ReportsBringOnline`: the event streams. The last says that the
  detector's stale copies do no lasting harm: a device that goes on reporting is
  online again and again.
* `AckMeansActed`, `AckFindsCommand`, `AnnouncedOnce`, `CarriedOutIsOwed`,
  `CarriedOutIsAcked`: hold over torn and half-written frames too. The last two are
  about commands answered with 500 as well, and exempt what a simulator that can no
  longer write (`mute`) does not acknowledge. `AcceptedIsHeard` is about a link in
  step; what happens otherwise is `commands_torn`.
* `GaugeNeverOverstates`, `SecondaryMeansSilence`, `StopForgets`, `SilenceFailsOver`:
  the serial links. `SecondaryMeansSilence` exempts a choice made while a frame of the
  primary was read and not yet stamped, or after `Stop` began. `StopForgets` exempts the
  one late stamp per link that is described in section 5.
* `ReadyMeansExists`, `FailuresAddUp`, `QuietAfterClose`, `CloseEnds`,
  `TopicsComeReady`: the event store.
* `IsWindow` (refinement), `NoPairTwice`: the replay cache.

## 4. Proofs

`EnrollmentProofs!TypeCorrect` proves `Spec => []TypeOK` for any sets of
devices, keys, links, requests, names and zones and any number of IDs. TypeOK is not
inductive: `ApproveAgain`, `SendJoinAck` and `SendRejection` apply
`auth[call[w].mac]`, so the proof carries `CallOK`, which says that a handler at work
names a device, and that one that approves names a device the trust registry
knows (entries are never removed from it). `NextFreeIsFree` states what
`NextFreeNodeID` returns, from the existence of a least element.

`EnrollmentProofs!UniqueIDs` proves `IdentitySpec => []UniqueActiveIDs`, and
`EnrollmentProofs!ToldItsID` proves `IdentitySpec => []DeviceToldItsID`, without
further hypotheses: any number of requests and links, overlapping at will, and frames
lost at will. The invariant of the first remembers, for a handler about to assign an
ID that is not disputed, that nobody else actively holds it or that it is the recorded
holder who will be replaced. That of the second says that a handler between the
registry and the link still carries the ID it wrote, and that a PATCH writes back the
ID the device was sent, unless the device is unsettled. Most steps touch neither.

`RestartProofs` is about `RestartSpec`, with any number of crashes. `FileOwed` proves
`[]AuthFileOwed`, `DecisionsSurvive` the action property `AnsweredSurvives` from it: a
registry and its file differ only in entries some handler is still to save or a save
failed for.
`TrustIsGranted` proves `[]ApprovedKeyWasGranted` if there is at most one serial link,
which is its hypothesis; without it the property is false (section 5). Its invariant
says that the file, too, holds only granted keys, and that a handler about to approve
again names an entry whose key was granted, which one link cannot overtake.

`CommandProofs` proves all safety properties of `Commands`, for any sets of requests,
devices, zones and tokens and any bounds. The inductive invariant `IInv` follows a
command along its way: a body on the link carries its request's token and, if it has a
record, was written by a handler that is done (`FrameInv`), whole or cut; a token on
its way back belongs to a request somebody has carried out (`AckInv`); `CallInv` ties
a handler's progress to its record. `AckMeansActed` alone is not inductive, for it
says nothing of the acks in `up`. `CarriedOutIsOwed` (theorem `CarriedOutShows`) is
kept because an acknowledgement is consumed only for a pending command with its token,
and an unambiguous one has no rival. `Monotone` collects what no step takes back, and
most steps keep the invariant by that alone.

`LifecycleProofs` proves all the safety properties of `Lifecycle`, for any finite set
of requests, one link or two and any number of changes. Each goroutine may only be
where its code is (`Places`); `mu` is held and asked for by the goroutines whose
position says so, alone if for writing (`LockOK`), from which `CheckedSendHasLink`
follows with `ServerOK`, by which a running server has its primary link open.
`StartRoom` and `ChangeRoom` count what is under way, so that the bounds hold: they
are why requests must be finitely many. `SpawnOK`, `SaveOK` and `StoreOK` say what is
left of a run at each stage of `Stop`, what the files still lack and who will write
it, and that links idle from `main`'s `Stop` to the closing of the store. None of the
properties is inductive without the lock. Eight steps change the lock or the server's
state and are proved one by one; all others are `Ordinary`.

`LiveProofs` proves `TypeOK`, `NoSendOnClosed`, `StreamTellsPresence` and the action
property `PresenceAlternates` for any number of devices, links and clients and
channels of any capacity. `Visits` says that
publishers have only channels of the broker's map ahead of them, and that these are
not closed; `Holding` that `mu` is held alone from a change of
`nodeOnlineState` to the end of its announcement; `Saying` that what is published
is still true, which `Holding` is needed for; `News` that whoever has changed
`nodeOnlineState` has something to say that its clients were not told last, which
follows from `StreamTellsPresence` at the moment of the change.

`SerialProofs` proves `TypeOK`, `GaugeNeverOverstates`, `StopForgets` and
`SecondaryMeansSilence` for one link or two and any thresholds. The invariant compares
each stamp with the silence it stands for, and counts a processor's last frame.

`KafkaProofs` proves `TypeOK`, `ReadyMeansExists`, `QuietAfterClose` and
`FailuresAddUp` for any finite set of topics, any writers and any number of attempts.
The invariant says what an outcome that is not yet recorded promises of `exists`, and
that `main` and the retry loop are never in an attempt at once. For `FailuresAddUp` it
adds that a writer has one failed message at hand at most, and finitely many writers
have one, though there may be infinitely many. The total is a sum over a set, which
the library computes by a recursive function on its subsets: `SumsExist` shows that
there is such a function and `SumGrows` that a sum grows by one when one summand does.
Both go by a least counterexample, a subset of the fewest elements for which the claim
fails, since induction cannot be cited.

`ReplayProofs` proves type correctness, `NoPairTwice` and the refinement
`Spec => Window!WSpec` for any ring size: recording in the slot of the oldest entry
is `Append(Tail(w), p)` of the unrolled ring (`RecordShifts`).

The assumptions are those named in the modules: `MaxNodeID` is a positive
natural, links and requests are disjoint, `NoMac` is not a MAC; devices have adapter
types, zones consist of devices; capacities and sizes are positive; the longest
age told apart is past both thresholds; topics and control requests are finitely many;
at most two starts.

Only model-checked: every liveness property, since fairness and ENABLED are beyond the
prover: `LostAckHealed`, `SendersFinish`, `OnlyTheLockHoldsStop`, `PublishFinishes`,
`SilentGoesOffline`, `ReportsBringOnline`, `CarriedOutIsAcked`, `AcceptedIsHeard`,
`CloseEnds`, `TopicsComeReady`, `SilenceFailsOver`. Every other property of a passing
run is a theorem.

## 5. Where the code disagrees

Shown by runs:

* **A resend can approve a key nobody decided on** (`enrollment_links`). Between
  `AddPending`'s check and the resend's `Approve`, the other link may present a
  new key, which resets the entry to pending; `Approve` then approves it.
* **Shutdown can hang** (`lifecycle_stop`). `Stop` waits with `mu` held for
  goroutines that may be waiting for `mu`.
* **A stopped server does not serve again** (`lifecycle_start`). `Start` after
  `Stop` reports success and serves no link.
* **Two commands at once can end the link** (`commands_torn`). Their frames run into
  each other, one of them is lost after its 202, and so is everything after it.
  The run shows it with the simulator of stub mode, whose reader is in this
  repository; the firmware at the end of a real link is not.

Behaviours of the models that no run is spent on, and that a maintainer should know:

* Two active nodes may share an ID for good. The comment at `mesh/server.go:729` says
  that the old node is marked replaced to ensure "GetNodeByID uniqueness", and
  `docs/wire_protocol.md:338-351` describes a narrow window between the two calls of one
  hotswap. But two approvals may choose the same free ID before either assigns it;
  each finds no holder to replace, and nothing ends what follows. So may a resend or
  a PATCH that has read its node's ID before a hotswap gave it to another. These are
  the states in which `disputed` exempts an ID from `UniqueActiveIDs`.
* A device whose OP_NODE_ID_SET was lost keeps its old ID, or none, until it asks
  again: the registry shows the new one meanwhile. Two handlers that tell a device two
  IDs may write the registry in one order and the link in the other.
* A command answered with 500 may be carried out: its body was sent but for bytes the
  next frame supplies, or the deadline passed with most of it written
  (`mesh/serial.go:99-104`). It is then acked like any other.
  (`docs/api_guide.md:258-261` describes the 202 only.)
* Acknowledgements the simulator cannot write are lost for good and the command stays
  pending (`meshsim/sim.go:166-179`).
* An approval or a rejection whose save fails answers 400, with the registry changed
  and the device told.
* A resend runs all of `ApproveEnrollment` with the node ID it read before. If that ID
  has gone to another node by then, the node is marked replaced, which
  `docs/wire_protocol.md:302` says only an administrator's input decides.
* The detector judges copies of the registry older than its lock
  (`mesh/server.go:1059-1062`): a device that has just reported may be declared
  offline, until its next report.
* Commands are broadcast to an adapter type. Any device of that type acknowledges;
  the one addressed (`docs/api_guide.md:286-287`) may be off.
* The node registry is saved every 60 s, the trust registry at once. After a crash in
  between a device is approved and its ID forgotten, and `NextFreeNodeID` may give
  that ID to another device. A file saved in the middle of a hotswap brings back two
  active nodes with one ID, for good (the comment at `mesh/server.go:729` counts on
  the second step to follow).
* A crash in the middle of a save loses that registry: the file is truncated first.
* `mesh_serial_connected` goes to 0 after six read errors and never back to 1 while
  the server runs (help text at `mesh/metrics.go:31`).
* After `Stop`, one frame in a processor's hands makes its link look online again,
  until the stamp is old, although the comment at `mesh/server.go:277-279` says that
  "the per-master online flags read false immediately instead of lingering for up to
  healthTimeout".
* The secondary link is chosen because the primary is silent, whether the secondary
  is heard or not; OP_CONFIG_SET goes to the primary without asking.
* `main`'s branch "continuing without Kafka" (`main.go:85-87`) is never taken: after the
  last failed attempt the store is not nil, and every write fails and is counted.

## 6. What is not modelled

* *Encoding and framing* of single messages (`mesh.proto`, the builder, generated
  code), configuration, CORS, metrics and rendering: no state of their own.
* *Zone registry.* Each operation is one step under one lock, and the only save is
  `Stop`'s: there is nothing to interleave but the crash that loses the zones. A
  third registry in `Lifecycle` multiplies its states past what a run can hold.
* *Route topology.* `UpdateNodeRoute` sets what clients are shown; nothing reads it to
  decide anything.
* *Master key.* One file, read or written once before anything else runs.
* *The rest of the simulator.* It stands in for firmware: enrollment, ticks, spawning
  and reset produce frames that Enrollment and LiveEvents take as inputs anyway.
* *Sidecar, portal, dashboard, deployment.* Separate programs, stateless but for the
  sidecar's tail of recent events and the portal's live view.
* *The firmware of the devices*: only what the hub receives from it and sends to it.

## 7. Plan

What would add most, in this order:

1. A crash run with two devices and the told IDs, beyond one run's reach as
   Enrollment stands; a coarser module of approvals and saves only.
2. The safe halves of the liveness properties: what a goroutine waits for is held by
   somebody who can go on.
3. The zone registry with its handlers and the zone commands that read it.
4. The simulator's enrollment against Enrollment's devices; the portal's live view
   as a client of `EventBroker` that reconnects and polls.
