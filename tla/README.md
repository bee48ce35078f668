# Verification of scrhub

scrhub (a Go server, `cmd/web-scrcpy`, with a browser front end) shows the screens of
Android devices to any number of viewers and lets one viewer at a time control each of
them.  For every connected device the server keeps a *session* (the scrcpy server on the
device and three connections to it) and a *relay* (which copies what comes in on these
connections to the viewers).  This directory holds TLA+ models of the program, the TLC
configurations that check them, and proofs for TLAPS.

All definitions follow the source; comments name the functions and lines.  Names of the
source are kept wherever TLA+ allows it.

Contents: [Inventory](#inventory) · [Modules](#modules) · [Runs](#runs) ·
[Fairness](#fairness) · [Proofs](#proofs) · [Where the code and its comments part](#where-the-code-and-its-comments-part) ·
[Known and not stated](#known-and-not-stated) · [Not modelled](#not-modelled) · [Plan](#plan)

## Inventory

| Component | State | Operations | Modelled in |
|---|---|---|---|
| Relay, `internal/relay/relay.go` | viewer map, cached frames and control token under `r.mu` (RWMutex); per viewer a bounded send channel, `videoSynced`, `open` under `c.mu` | stream readers, `broadcast`, `broadcastVideo`, `AddClient`, `RemoveClient`, `RequestControl`, `ReleaseControl`, `HandleControlMsg`, `WritePump`, `Stop` | `Relay`, `ViewerChannel` |
| Websocket handler, `internal/server/server.go` | one goroutine per viewer | `handleWebSocket`, `handleMgmtMsg` | `Relay`, `Player` (partly) |
| Session, `internal/device/session.go` | `running`, `connecting` under `s.mu`; connections, listener, process, `cancelFn` as plain fields | `Start`, `Stop`, `SendControlMsg`, `IsRunning` | `Session`, `SessionLife`, `Tunnels` |
| Manager, `internal/device/manager.go` | map of sessions under `m.mu` | `Connect`, `Disconnect`, `StopAll`, `cleanupDeadSessions`, `cleanStaleForwards`, device listing | `Lifecycle`, `Tunnels` (partly) |
| Relay registry and HTTP handlers, `server.go` | map of relays under `s.mu` | `handleConnect`, `handleDisconnect`, `StopAllRelays` | `Lifecycle`, `Wire` (partly) |
| Shutdown, `cmd/web-scrcpy/main.go` | none | signal, `StopAllRelays`, `StopAll` | `Lifecycle` (partly) |
| Player socket, `frontend/js/websocket.js` | `ws`, `connected`, `shouldReconnect`, timers | `connect`, `disconnect`, `reconnect`, listeners | `PlayerSocket`, `Player` |
| Player page, `frontend/player.html` | control button, settings, adaptive loop | `reconnectWithSettings`, client callbacks, button handlers | `PlayerSocket`, `Player` (partly) |
| MSE decoder, `frontend/js/mse-decoder.js` | MediaSource, SourceBuffer, queue of segments, recovery flags | `feed`, listeners, `_resetPipeline`, `_processPendingBuffers` | `MseDecoder` |
| Input handler, `frontend/js/input.js` | `enabled`, pointers that are down | `enable`, `disable`, event handlers | `Player` (`enabled` only) |
| WebCodecs decoder, `frontend/js/decoder.js` | decoder, keyframe gate | `feed`, `_configure`, `destroy` | planned |
| Framing, `internal/protocol/packet.go`, `device.go` | none; a reader's place in its connection | `ReadPacket`, `ReadDeviceMsg`, header readers | `Wire`, `Session` |
| Control messages, `internal/protocol/control.go`, `frontend/js/protocol.js` | none | `ValidateControlMsg`, the page's encoder | `ControlMsg`, `Wire` |
| ADB wrapper, `internal/adb/adb.go` | none in the program; the tunnels in the adb server | `ListDevices`, `Forward`, `ForwardList`, `ForwardRemove`, shell, push, tcpip | `Tunnels`, `Session` (partly) |
| Audio player, muxer, dashboard, TLS | see [Not modelled](#not-modelled) | | no |

How they meet:

- A connect request (`handleConnect`) asks the manager for a session, whose `Start`
  takes seconds, and then makes and starts a relay on its connections.  The two maps have
  a lock each, and neither is held from the one to the other.
- The relay's readers take packets from the session's connections until a read fails; the
  end of the audio or video stream stops the relay.  Nothing tells a relay that its
  session was stopped: it finds out because its connections are closed.
- A second connect request on a running session replaces its relay: for a moment the old and
  the new one read the same connections.
- The tunnels to the devices are kept by the adb server, which outlives the program and
  serves other programs too.  The program removes what earlier runs have left when it starts.
- A broadcast hands a message to the send channel of each viewer and never waits: a full
  channel loses the message.  The viewer's write pump empties the channel into the
  websocket.  The viewer's handler reads the websocket: control messages go to the device
  if the viewer has the control token, management messages ask for and give back the token.
- The page opens the websocket again whenever it is lost.  A change of settings stops the
  session by one request, starts another one by a second request, and connects again.

What is hard, and what has to hold:

- **Interleaving.**  A viewer registers while frames are cached and broadcast
  (`LatestQueued`); the check of the control token and the write to the device are two
  steps (`ControlExclusive`); `Stop` runs into `Start` (`FailedStart`, `ControlReady`);
  requests for one device overlap (`LiveRelayListed`, `ListedAlive`); changes of settings
  overlap with each other and with reconnection (`NeverStranded`, `SocketsBounded`); two
  relays read one connection (`InStep`, `OneMore`); two sessions are given one port
  (`LeadsHome`).
- **Crash and restart.**  The program is killed with tunnels open or while it removes those of
  an earlier run (`StaleGone`), and a command of that cleanup may hang (`StartsUp`).
- **Boundaries.**  Control messages are cut, too long or exactly at a limit (`ControlFramed`).
- **Queues at their limit.**  A channel overflows and has room again in the middle of a
  chain of delta frames (`ChainUnbroken`); the gate that then keeps deltas out opens again, and
  keeps out no more than it has to (`ImplementsChannel`).
- **Late events.**  A sourceopen or updateend of a pipeline that was replaced
  (`BufferCurrent`, `PendingDrains`); the close event of a socket that was replaced; a reply
  about control that crosses a click (`ControlAgrees`).
- **Partial failure.**  `Start` fails at any step (`FailedStart`), an adb command does its
  work although it is reported as failed (`CleanStop`), a request of a change of
  settings fails (`NeverStranded`), an append finds the buffer full (`NoSilentGap`).
- **Liveness.**  A stuck viewer holds up nobody (`BroadcastsFinish`, `JoinsComplete`), a
  relay that is stopped lets go of its viewers (`StopReaches`) and, if the device goes on
  sending, of the connection (`HandoverEnds`), one whose connection is closed ends
  (`ClosedEnds`), `Stop` frees a
  `Start` that waits for a silent device (`StopUnblocks`), the page gets connected again
  (`ConnectsAgain`), a queued segment is appended (`PendingDrains`).

`PROJECT.json` lists the hazards line by line with the properties that cover each.

## Modules

Each module has its types in one invariant, its safety properties after the next-state
relation, and its liveness properties after these.  Operators marked *variant for a mutant*
are what a plausible bug would make of the definition that follows; they are used by
nothing else, and show that a property can fail.

### Relay

One relay, from `Start` to `Stop`.  The processes are the three stream readers and, per
viewer, the websocket handler and the write pump.  A critical section under `r.mu` is one
step, with one exception: the loops of `broadcast` and `broadcastVideo` hold the *read*
lock while they visit the viewers one after the other, and other readers (a second
broadcast, the check of the control token) and the write pumps run in between.  `readers`
is the set of processes that hold the read lock; what takes the write lock waits for it
to be empty.

| TLA+ | Code |
|---|---|
| `ReadPacket`, `CachePacket`, `StreamEnds`, `StreamDone` | loops of `relayVideoStream`, `relayAudioStream`, `relayDeviceMessages` |
| `BeginBroadcast`, `Deliver`, `EndBroadcast` | `broadcast`, `broadcastVideo` |
| `Accepts`, `Send`, `SendVideo` | `Client.Send`, `Client.SendVideo` with the gate `videoSynced` |
| `OpenSocket`, `AddClient`, `SendCached`, `CountViewers`, `StartPump` | `handleWebSocket` and `AddClient` up to the read loop |
| `RequestControl`, `ReleaseControl`, `CheckControl`, `ForwardControl`, `RemoveClient` | the read loop and its deferred call |
| `PumpWrites`, `PumpFails`, `PumpEnds` | `WritePump` |
| `BeginStop`, `FinishStop` | `Stop` (sync.Once, then the write lock) |

A packet is its stream and its number; `stream[s]` records the kinds (configuration, key,
delta) read so far.  A send channel is a log of everything ever put into it and the number
of messages taken out; it is full when the difference is `Cap`.  This makes what a viewer
has received a matter of state, and `ChainUnbroken` an invariant.

`ViewerChannel` is what all of this comes to for one viewer: no locks, no other viewers, no
broadcast loops and no flag `videoSynced`, but a bounded channel that is offered each packet
once and in order from the moment the viewer joins.  It says exactly when a message may be
lost: the channel is full, or the packet is a delta and the one it refers to was lost
(`Pointless`; then it must not be sent either, `Decodable`).  After it has been closed nothing
is put into it.  `Relay` implements it for each viewer (`ImplementsChannel`): `Phase` reads how
far the viewer is off its handler and the viewer map, `OfferedTo` how far each stream has been
offered to it off the broadcast loops.  A relay that a second connect request starts on a
running session begins in the middle of the stream, so its first packet may be of any kind
(`Follows`); after that, a delta frame follows a key frame or another delta.  In two places `ViewerChannel` allows more than one would wish,
because the code does: a cached frame is sent whatever came before it, and the first packet
offered after joining may be the very keyframe that is in the cache, so that the delta behind
it may be left out although the keyframe was sent from there.

### Session

One call of `Start` with any number of `Stop`s, one of which `Start` itself makes when it
fails, and the messages `SendControlMsg` writes meanwhile.  `pc` walks through
`Start` in reverse, forward and fall-back mode; each step may fail.  `res` is
what exists outside the program (connections, listener, process), `held` is
which of them `Start` has stored where `Stop` sees them; in between, something acquired is
invisible.  `adb reverse` and `adb forward` take two steps each (`Reverse`, `EndReverse`,
`Forward`, `EndForward`), so that a `Stop` may cancel the context under them.  A command
that fails, or is killed because its context is over, may have mapped the tunnel: `tunnel`
is then `ghost`, there although `Start` takes it not to be; `set` is one adb has
reported, `stuck` one adb could not remove.  `CleanupTunnel` removes the tunnel of the mode
`Start` is in, and does nothing in a context that is cancelled.  `Stop` is `Cancel`, one `CloseNext` per resource in the order of the code, and
`StopTunnel`.

`SessionLife` is what the manager, the server and the relay see of it: the two flags,
whether the three connections are stored, and whether they are lost.  It says in which order
these change: connections before `running`, `connecting` until one of `running` and failure is
decided, connections given up before a failed session stops looking alive, and `running`
taken back by `Stop` alone.  `Session` implements it (`ImplementsLife`, with `start`, `built` and
`closed` read off its program counter, its stored fields and its context), so that `Lifecycle`
may have nothing but these flags.

### Lifecycle

All the sessions and relays of one device: the two maps, the requests that change them, the
cleanup every five seconds, the loss of the device, shutdown.  Of a session only the flags
are left (`connecting`, `running`, `built`, `closed`); each of its sessions moves as
`SessionLife` allows (`SessionsLive`).  A shutdown counts as a takedown: it removes the
relay first and the session after it, as a disconnect does.  `crashed` is the exit of the
process: a relay that is started on connections that are nil panics.

### ControlMsg and Wire

`ControlMsg` has no state: `Validate` is `ValidateControlMsg`, on frames of which the type, the
size and the lengths they declare are left; `Whole` says the same from the fields each type
has by the comments of `control.go`; `PageFrames` is what `protocol.js` makes.

`Wire` is one connection of a running session.  In the directions from the device (`kind` is a
media stream or the device messages) a message comes in parts, one `io.ReadFull` each;
`left` is what the connection still has of it and `need[r]` what the reader of relay `r` waits
for.  Relays are made by successive connect requests (`Replace` under the lock, `Launch`
after it), and stopped by the next one, by a disconnect, or because their other stream ended.
The media readers look at `stopCh` behind the read, the device reader before it.  In the
direction to the device (`kind` is `"control"`) viewers send frames and `SendControlMsg`
passes or refuses them.

| TLA+ | Code |
|---|---|
| `Replace`, `Launch` | `handleConnect` (server.go:194-203) |
| `StopRelay`, `SiblingEnds`, `CloseConn` | `handleDisconnect`; the deferred `Stop` of the other reader; `Session.Stop` |
| `Check`, `ReadPart`, `ReadFails`, `Deliver` | loops of `relayVideoStream`, `relayAudioStream`, `relayDeviceMessages` |
| `Advance`, `Refuse` | `ReadPacket`, `ReadDeviceMsg`: the next part, a zero or excessive length, an unknown type |
| `SendControlMsg` | `Session.SendControlMsg` |

### Tunnels

The table of forward tunnels in the adb server, the start of the program that clears it of
earlier runs, and the sessions that use it.  `FindPort` is the listener that is opened and
closed to learn a free port, `Forward` the adb command, which maps a port anew if adb has it
already and may have taken effect although it failed, `Dial` the connection, and `CleanupTunnel` what `Stop`
and a failing `Start` do.  The cleanup lists the devices, lists the tunnels of each, and removes
them one command at a time; each command may fail.  The list of a device's tunnels may
be that of all devices (`Picks`), as `adb forward --list` prints them all.  `Crash` may come at any step.  What adb
and the devices do by themselves is external: unplugging a device removes its tunnels, and
another program may map a free port and give back its own.  A command that is under way when
the program is killed is taken to end with it.

### MseDecoder

The decoder of browsers without WebCodecs.  One callback is one step.  A MediaSource is
named by the keyframe it was made for, and the events the browser has queued (`tasks`) carry
the pipeline they belong to, so that a late event is told from a current one exactly where
the code looks.  The browser's part (`Attach`, `Updated`) is external.

### PlayerSocket and Player

`PlayerSocket` is the client with its sockets and timers and the changes of settings that
go through it.  A socket is closed, connecting, open or closing, and its listeners
act on the one client even when the client has gone on to another socket.  Timers are
counted by what they do (`retries`: connect; `enables`: switch reconnection on and
connect); nothing ever clears one.  `Begin`, `Stopped`, `Reconnect` and `Fails` are the
stretches of `reconnectWithSettings` between its awaits, which any other callback may
separate.  `Apply` is the viewer's button, which is disabled meanwhile; `Adapt` is the
adaptive loop, which looks at its own flag only and may start a change during another one.

`Player` adds the control button, `inputHandler.enabled` and, at the other end of each
socket, the handler that answers.  Requests and replies travel in order and take their
time.  It extends the actions of `PlayerSocket` one by one, and `PlayerImplements` proves
that it makes no step of the socket that `PlayerSocket` does not have.  The other viewers of
the device appear as refusals; that a relay gives the token to one viewer at a time is
`Relay`'s matter.

## Runs

Every property of a passing run has a mutant in `PROJECT.json`, a change of one definition
that the run finds.

| Run | Distinct states | Shows |
|---|---|---|
| `RelayVideo` | 1.9 million | `TypeOK`, `ChainUnbroken`, `LatestQueued`, `ImplementsChannel`: one viewer, three video packets, three slots |
| `RelayControl` | 117 thousand | `ControlExclusive`, `ControllerPresent`, `JoinsComplete`: two viewers, one of them slow, one slot, audio packets without end |
| `RelayLive` | 7.8 thousand | `BroadcastsFinish`, `StopReaches`: one viewer, one slot, audio packets without end |
| `SessionStart` | complete | `ControlReady`, `FailedStart`, `CleanStop`, `StopUnblocks`, `ImplementsLife`, types |
| `SessionStopEarly` | counterexample | `StopTearsDown` |
| `LifecycleOverlap` | complete | `LiveRelayListed`, `ListedAlive`, `SessionsLive`, types: two connects, two takedowns |
| `LifecycleHalfBuilt` | counterexample | `HandedOutConnected` |
| `LifecycleOrphan` | counterexample | `StopAllComplete` |
| `MseRecovery` | complete | `BufferCurrent`, `StartsWithKey`, `NoSilentGap`, `PendingDrains`, types: five packets |
| `Wire` | 48 thousand | `InStep`, `OneMore`, `HandoverEnds`, `ClosedEnds`, `ControlFramed`, types: three relays, 110 control frames |
| `Tunnels` | 322 thousand | `StaleGone`, `LeadsHome`, `StartsUp`, types: two sessions, two devices, two ports |
| `PlayerControl` | 1.2 million | `NeverStranded`, `SocketsBounded`, `ControlAgrees`, `ConnectsAgain`, types: two changes, three sockets |

Bounds and why they are enough:

- `Clients`: viewers interact through the token, the lock and the viewer count.
  Two viewers exchange the token in every way, and one of them joins while the other,
  whose channel is full and whose pump may never run again, holds up a broadcast if
  anybody can.  The video properties are about one channel, and a second viewer only adds
  steps at which the broadcast is elsewhere, which `Deliver` may do with one viewer too.  The
  proofs cover any number.
- `Begun`: the runs of `Relay` start where the reader of device messages has ended, `RelayControl`
  and `RelayLive` with one viewer in its read loop behind a full channel.  These are states every relay
  can reach from `Init`; the proofs are about `Init`.  In `RelayVideo` nobody asks for control
  (`NobodyControls`), which has no part in its properties.
- `Cap`, `MaxVideo`: three slots take the join messages and a packet, so that the channel is
  empty, part full and full; three packets make key-delta-delta, key-configuration-key and
  the rest, of which two are needed to open a gap and a third to send across it.
- `MaxAudio`, `MaxDevice`: `RelayControl` and `RelayLive` have audio packets without end, so
  that broadcasts go on for as long as somebody waits for the lock.  They look at a `VIEW`
  that keeps how many messages a channel holds and not which: states with the same view take
  the same steps to the same views.  The bound `MaxAudio` = 100 is far beyond the depth of
  these graphs (about 30 steps) and is never met.  `LatestQueued` is proved for
  any number of audio packets.  Device messages differ from audio in not being cached and in
  ending nothing; they are covered by the proofs only (`MaxDevice` is 0 in the runs).
- `MaxAttempts` = 2 (100 in the code): the first dial, a later one, and giving up.
- `Connects` = 2, `Takedowns` = 2: the maps hold one entry, so a request can be overtaken by
  one that replaces the entry and one that removes it.
- `MaxPackets` = 5 in `MseDecoder`: a configuration, a key, a delta that is dropped, one that
  is appended, and a key for the next pipeline.
- `Relays` = 3 in `Wire`: one that reads, one that replaces it, and one that is replaced before
  it was launched.  There is no bound on messages.  `Data`: each of the 18 types and an unknown
  one, with frames that end one byte before, at and one byte behind the fixed part and the whole
  message, and lengths at the two limits and one above.
- `Sessions` = 2, `Ports` = 2, `Devices` = 2 in `Tunnels`: two sessions of one run collide on a
  port, or one of an earlier run and one of this one share the table; two ports on one device
  give the cleanup two lines to remove, and a second device its second list.  The program may be
  killed any number of times.
- `Changes` = 2, `Sockets` = 3, `MaxRequests` = 2: two changes overlap in every way;
  `SocketsBounded` says that three sockets are then enough; two messages under way let
  a click cross a reply.

`CHECK_DEADLOCK FALSE` is set for `MseDecoder`, where the decoder has nothing to do when all
packets are fed and the pipeline is idle, and for `Wire`, where nothing is left to do when the
connection is closed and all relays have ended.  In `Relay`, `Session` and
`Lifecycle` the quiet end is a step of its own (`Terminated`, `Quiet`), so that TLC's check
for deadlock finds a goroutine that waits for ever.

## Fairness

- **Relay.**  A goroutine that can go on does.  A Go RWMutex keeps new readers out when
  a writer waits, so whoever needs the write lock gets it in the end: strong fairness
  for those steps (`Fairness`).  Nothing is assumed of the device, the viewers or the server, and of the
  write pumps only in `StopReaches` (its premise), where the five-second write deadline
  justifies it.  A control message may be written for ever: the code sets no deadline.
- **Session.**  adb commands, accepting and dialling have timeouts.  Reading the headers has
  none: it is fair only when the connection is closed or the process is gone.  `Stop`
  need not be called, but goes on once it was.
- **Lifecycle.**  No liveness is stated, and no fairness assumed.
- **Wire.**  Goroutines run, and the read of a closed connection fails.  No read of an open
  connection is assumed to return, for the code sets no deadline: `ClosedEnds` does without,
  and `HandoverEnds` has it as its premise.  A relay that was stopped stays at the
  connection of a device whose screen stands still.
- **Tunnels.**  The cleanup goes on: its commands run under a context of ten seconds
  (`manager.go:217`), and exec kills a command whose context is over.  Nothing is assumed of
  sessions, devices or other programs.
- **MseDecoder.**  The browser opens an attached source, ends updates and runs queued tasks.
- **PlayerSocket, Player.**  Timers fire; a connecting or closing socket gets its event.
  Nothing is assumed of the requests of a change of settings.  `ConnectsAgain` has as a
  premise that the server takes a connection that is offered again and again.

## Proofs

TLAPS (SMT and Zenon for the steps, LS4 for the temporal ones) proves these for all values of the constants,
from the assumptions the modules name (`ClientsAssumption`, `SessionAssumption`, ...), which
say no more than that names are distinct, sets finite and bounds natural numbers.

**`RelayProofs`.**
`TypeCorrect` (every channel within its capacity) rests on `TypeOK` and that a viewer with a
pump has begun.  `ChainTheorem` is the central one.  `ChainUnbroken` alone is not inductive:
whether a delta frame may be queued is decided by the flag `videoSynced`, so the
invariant has to say what the flag stands for.  `InSync` does: a viewer in sync has been
queued the last packet the broadcast visited it with, unless that was a configuration,
which no delta frame follows (`Grammar`).  `Anchored` adds that what comes from the cache can start a chain,
`LogSound` that nothing is queued before it was read, and `Registered` that the lock keeps
the viewers of a broadcast in place.  `LatestTheorem` proves `LatestQueued` from
`LatestInv`: a cached frame that a viewer was not queued is still `ToCome`.
`ControlTheorem` and `ControllerTheorem` share an invariant that ties the token to where the
handlers are.

**`RelayChannelProofs`.**  `ChannelTheorem` is `Spec => ImplementsChannel`: every step of the
relay is a step of the channel of each viewer or leaves it alone.  Joining, sending from the
cache, counting, taking and closing match one to one; a broadcast that begins without a viewer
is a packet the viewer misses.  The hard step is a video packet that is held
back by the gate while there is room: it has to be `Pointless`, that is, the gate may be
closed only behind a hole.  `ChainInv` has one half of what `videoSynced` means (in sync: the
last packet was queued); `GateInv` has the other.  `BehindLoss` says that a viewer out of
sync has not been queued the packet it was offered last; for this to survive a step, that packet
must not get into the log later, so `OnlyOffered` says that the log and the rest of the
snapshot hold nothing that was not yet offered, but for the frames cached at the moment of joining,
and `OpenFirst` that a viewer begins in sync and that what is open is registered or about
to be.

**`SessionProofs`.**  `SessionTyped`; `ReadyTheorem` from which resources have been
acquired at each point of `Start`; `FailedTheorem` (`FailedStart`), that a `Start` which fails has released all connections and
the process, and leaves a listener only if the server could not be started, and a tunnel that
was reported as set only if, besides, a `Stop` had interrupted it: from where each resource is on the
way from acquired to stored to closed, and how far each `Stop` has got in its list.  That nothing but a `Stop`
of the manager can have cancelled the context of a `Start` on its way is `Broken`, and that it stays
so `StaysInterrupted`.  `StopTheorem`
(`CleanStop`), that a `Stop` which begins after `Start` has returned leaves no connection, listener
or process, and of the tunnels only what adb could not remove and a ghost of the mode
`Start` is not in: what is stored
when it begins is closed once it has passed that place of its list (`Passed`), and nothing
is acquired or stored any more (`Over`).  `LifeTheorem` is the
refinement `Spec => Life!Spec`: every step of `Start` and `Stop` is a step of `SessionLife` or
changes nothing it can see.  It needs to know that `running` is set only with the connections
stored, and that a start that fails has cancelled its context before (`LifeInv`).

**`LifecycleProofs`.**  `SessionsTyped`; `ListedTheorem`, since a relay is only overwritten by a request
that stops it in the same critical section, or is launched by one that has just listed it; `AliveTheorem`, from the
fact that only the request that made a session takes it through the two moments at which it
looks dead.  `LivesTheorem` shows that each of the sessions makes only steps of `SessionLife`, so
that what `Lifecycle` lets happen to the flags is no more than what `Session` was proved to do.

**`WireProofs`.**  `WireTyped`; `InStepTheorem`, by the invariant that, unless relays have overlapped,
at most one reader is at the connection (`Alone`), waits for exactly what the connection has
left of its message (`Level`), and leaves it between two messages unless it has refused one
(`Clean`); `OneMoreTheorem`, since a reader that has taken a message after the stop is at
`check` or has ended; `FramedTheorem` (`ControlFramed`), since what `ValidateControlMsg` lets pass has all
the bytes of its message (`ValidateCorrect`: for any bytes it answers what the fields of the
type say, which is a lemma about pure operators for every length) and what the page makes is
whole (`PageWhole`).

**`MseDecoderProofs`.**  `DecoderTyped`; `BufferTheorem`, `StartTheorem` and `GapTheorem` for any
number of packets and any limits.  The invariant is `Attached` and `Chained`.  `Attached` says
which parts of a pipeline are there together: a SourceBuffer is that of the current
MediaSource, an initialized decoder has one (a part of `TypeOK`), and a decoder that waits for a keyframe has no
MediaSource.  `Chained` says that without a MediaSource nothing has been given, and that what
a pipeline was given starts with its keyframe and goes on, in order and without
repetition, with every frame up to the last packet fed, but for those in `early` and `refused`.
Each feed adds the last packet, an update moves packets from the queue to the buffer or loses
them to `refused`, and a reset empties both.

Every safety property of the passing runs is thus a theorem.  Only model-checked: the liveness
properties (`BroadcastsFinish`, `JoinsComplete`, `StopReaches`, `StopUnblocks`,
`PendingDrains`, `HandoverEnds`, `ClosedEnds`, `StartsUp`, `ConnectsAgain`), since
fairness and ENABLED are out of TLAPS' reach, and the counterexamples, which are behaviours.

## Where the code and its comments part

Each of these is a run that TLC must find violated.

- `SessionStopEarly`: "Stop tears down the session." (`session.go:193`).  A `Stop` that comes
  before `Start` has made its context, or after its last check, is without effect on
  `running`.
- `LifecycleHalfBuilt`: "already connected" (`manager.go:95`).  A second connect request is
  handed a session that is still connecting, and a relay is started on connections that
  are nil.
- `LifecycleOrphan`: "StopAll stops all active sessions." (`manager.go:137`).  Between its
  entry in the map and the first step of `Start` a session looks dead; another request or
  the cleanup takes it out, it goes on to run, and nobody finds it again.

## Known and not stated

Behaviours the models have and no property forbids, because nothing in the repository says
what is meant:

- A viewer that joins inside a group of pictures is in sync at once and gets delta frames
  without those between the cached keyframe and them (`relay.go:47`); `ChainUnbroken` counts
  from the moment of joining.
- A configuration that meets a full channel is dropped, and the viewer stays in sync, whereas
  "Config packets are always sent (SPS/PPS)" (`relay.go:76`).
- A delta frame between the making of the MediaSource and its sourceopen event is dropped, and
  those after it are appended; `NoSilentGap` excepts these frames, whereas "This guarantees a
  clean decode chain." (`mse-decoder.js:8`).  "Build the media segment even
  if sourceBuffer isn't ready yet" (`mse-decoder.js:112`) holds of keyframes only.
- A relay that replaces another on a running session starts with an empty cache.  The device
  sends its configuration once, so viewers that join later are handed none until the device
  sends another; "so client can start decoding immediately" (`relay.go:200`) then has to wait.
- Three things a `Start` may leave behind.  The tunnel of an `adb reverse` that took effect but was
  reported as failed, which nobody removes after the fall-back, or of such an `adb forward`, since
  the removal looks at the mode (`session.go:282-290`).  The tunnel and the listener, when
  a `Stop` comes in before the server is started: the removal runs in the
  cancelled context, and nothing closes the listener (`session.go:148-152`).  The listener alone, when
  the server cannot be started for another reason.  A later `Stop` finds the last two;
  `FailedStart` and `CleanStop` say that there is nothing else, but for what adb could not remove.
- When two relays overlap on a connection, or one starts after a packet was refused, what they
  read is out of step (`InStep` says that there is no other way).
- The bytes of a frame behind its first control message are not looked at and are written with
  it (`session.go:499`).  `ValidateControlMsg` answers an unknown type with -1, where its
  comment has 0 (`control.go:34`).
- The cleanup knows tunnels by the prefix `scrcpy_`, so it also removes those of another
  program that forwards to a scrcpy server, although its comment speaks of "previous runs"
  (`manager.go:215`).  Reverse tunnels and servers on a device survive a crash.
- Two counts of viewers can be broadcast in the wrong order (`relay.go:302`).
- `-max-size` and `-bit-rate` are cut to 16 and 32 bits (`main.go:57`).
- A handler can register with a relay that has been stopped (`server.go:271`).
- A control stream that ends stops nothing, whereas the end of audio stops the relay.
- A device that is unplugged stays listed as running (`manager.go:173`).  The periodic
  cleanup can only ever find sessions that are about to start (`ListedAlive`).
- The page can have two sockets at once: a close event that comes after `reconnect` has
  switched reconnection on, a retry that was pending when a change began, or two changes
  that overlap.  "Cleanly close and reconnect" (`websocket.js:115`) describes the usual
  case; `SocketsBounded` says how many there can be, and `ControlAgrees` excepts that time.

## Not modelled

- Of the ADB wrapper (`adb.go`): `adb connect`, `disconnect` and `tcpip`, which change what adb
  knows of devices and nothing in the program, the search for a device's address, and the parsing of output.
- Audio player: one decoder without recovery, and time arithmetic in floating point.
- MP4 muxer: the layout of a file format, without state.
- Dashboard, styles, key maps, coordinates, statistics, the debug panel: display and data.
- TLS certificates, embedding, release scripts: no state that outlives a call.
- An adb command that is killed is taken to have had its effect, or not, by the time `Start` goes on.
- A new SourceBuffer is taken to accept the init segment that was built for it: the catch block
  of `sourceopen` behind `addSourceBuffer` (`mse-decoder.js:206-209`) is not modelled.  A
  browser that refuses it leaves a decoder that waits for the next reset.
- In the modelled parts: payloads, wording of messages, logging, exact delays.

## Plan

In this order; each step is a module (or two) with its runs and, where possible, its proofs.

1. The handler that looks up a relay and joins it after it was replaced: `Lifecycle` with
   viewers.
2. `WsWriter`: the two goroutines that write to one websocket; the order of viewer counts.
3. `CodecDecoder`: the keyframe gate of `decoder.js` and its reset of a full queue, as the other
   decoder a page can have.
4. `Pointers`: what is down on the device when input is disabled.
5. `AdaptiveQuality`: the settings the adaptive loop chooses, as a function, and that it
   settles.
