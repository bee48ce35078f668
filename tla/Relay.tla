------------------------------- MODULE Relay -------------------------------
(***************************************************************************)
(* One relay of internal/relay/relay.go: the goroutines that read the      *)
(* video, audio and device-message streams of a device session, the        *)
(* handlers of the viewers (internal/server/server.go, handleWebSocket),   *)
(* and the write pump of each viewer.  They share the viewer map, the      *)
(* cached frames and the control token under r.mu (an RWMutex), and each   *)
(* viewer's bounded send channel under c.mu.                               *)
(*                                                                         *)
(* A critical section is one step, except the loops of broadcast and       *)
(* broadcastVideo: they hold the read lock while they hand the message to  *)
(* one viewer after the other, so that other readers of r.mu, the write    *)
(* pumps, and c.Send outside r.mu interleave with them.                    *)
(***************************************************************************)
EXTENDS Naturals, Sequences, FiniteSets

CONSTANTS
  Clients,    (* Viewers that may connect: one websocket handler each.      *)
  Nobody,     (* The empty client ID: no viewer holds control.              *)
  Cap,        (* Capacity of a viewer's send channel (64 in NewClient).     *)
  MaxVideo,   (* Bounds on the packets of each stream.                      *)
  MaxAudio,
  MaxDevice

Streams == {"video", "audio", "device"}

ASSUME ClientsAssumption ==
  /\ IsFiniteSet(Clients)
  /\ Nobody \notin Clients
  /\ Clients \cap Streams = {}

ASSUME BoundsAssumption ==
  /\ Cap \in Nat \ {0}
  /\ {MaxVideo, MaxAudio, MaxDevice} \subseteq Nat

VARIABLES
  stream,       (* stream[s]: kinds of the packets its reader has accepted. *)
  videoConfig,  (* The cached frames: a packet's number in its stream, or 0.*)
  lastKeyFrame,
  audioConfig,
  clients,      (* The viewers in r.clients.                                *)
  controller,   (* The viewer that holds control, or Nobody.                *)
  stop,         (* Relay.Stop: "no", "closing" (stopCh closed), "done".     *)
  log,          (* log[c]: every message ever put into c's send channel.    *)
  taken,        (* taken[c]: how many of them the write pump took out.      *)
  open,         (* Client.open.                                             *)
  videoSynced,  (* Client.videoSynced.                                      *)
  pump,         (* The write pump: "off", "on", or "dead" (socket closed).  *)
  pc,           (* Where each stream reader and each handler is.            *)
  todo,         (* todo[b]: viewers b's broadcast loop has still to visit.  *)
  count,        (* count[c]: the viewer count c's handler has read.         *)
  pending,      (* pending[c]: cached frames AddClient has still to send.   *)
  since         (* History: video packets whose broadcast had begun when c  *)
                (* registered; c is not sent those.                         *)

cached == <<videoConfig, lastKeyFrame, audioConfig>>
channels == <<log, taken, open, videoSynced>>
vars == <<stream, cached, clients, controller, stop, channels, pump, pc,
          todo, count, pending, since>>

Procs == Streams \cup Clients

-----------------------------------------------------------------------------
(* Data *)

Kinds == {"config", "key", "delta", "data", "msg"}

\* The packets a stream may bring next.  A codec sends a keyframe right after
\* each configuration.  The first packet of the relay is a configuration only if
\* the relay was started with its session: one that a second connect has started
\* begins in the middle of the stream.
Follows(s, k) ==
  LET seen == stream[s] IN
  \/ s = "device" /\ k = "msg"
  \/ s = "audio" /\ k \in {"config", "data"}
  \/ /\ s = "video" /\ k \in {"config", "key", "delta"}
     /\ seen # <<>> /\ seen[Len(seen)] = "config" => k = "key"

Bound(s) == [video |-> MaxVideo, audio |-> MaxAudio, device |-> MaxDevice][s]

\* A message on a viewer's channel: packet n of a stream, the device_info
\* message, or a viewer_count message that says n.
Frame(from, n) == [from |-> from, n |-> n]

Cached(s, n) == IF n = 0 THEN <<>> ELSE <<Frame(s, n)>>

\* Variant for a mutant: the keyframe is forgotten.
SnapshotKeyless == Cached("video", videoConfig) \o Cached("audio", audioConfig)

Snapshot == Cached("video", videoConfig) \o Cached("video", lastKeyFrame)
              \o Cached("audio", audioConfig)

\* What broadcaster b is delivering.
Message(b) == IF b \in Streams THEN Frame(b, Len(stream[b]))
                               ELSE Frame("viewers", count[b])

InLog(c, m) == \E i \in 1..Len(log[c]) : log[c][i] = m

-----------------------------------------------------------------------------
(* The send channel of a viewer *)

HasRoom(c) == Len(log[c]) - taken[c] < Cap

\* Variant for a mutant: a send that does not look at the room.
AcceptsAlways(c) == open[c]

Accepts(c) == open[c] /\ HasRoom(c)

\* Client.Send: drops the message when the channel is full or closed.
Send(c, m) ==
  /\ log' = [log EXCEPT ![c] = IF Accepts(c) THEN Append(@, m) ELSE @]
  /\ UNCHANGED videoSynced

\* Variant for a mutant: any frame that finds room is sent.
SendVideoUngated(c, n) ==
  /\ log' = [log EXCEPT ![c] = IF Accepts(c) THEN Append(@, Frame("video", n))
                                            ELSE @]
  /\ videoSynced' = [videoSynced EXCEPT ![c] = HasRoom(c)]

\* Variant for a mutant: the gate keeps keyframes out as well.
SendVideoShut(c, n) ==
  LET kind  == stream["video"][n]
      gated == kind # "config" /\ ~videoSynced[c]
  IN  /\ log' = [log EXCEPT ![c] = IF Accepts(c) /\ ~gated
                                   THEN Append(@, Frame("video", n)) ELSE @]
      /\ videoSynced' = [videoSynced EXCEPT ![c] =
                           IF open[c] /\ ~gated /\ kind # "config"
                           THEN HasRoom(c) ELSE @]

\* Client.SendVideo: a full channel takes the viewer out of sync, and a
\* viewer out of sync is sent no delta until a keyframe finds room.
SendVideo(c, n) ==
  LET kind  == stream["video"][n]
      gated == kind = "delta" /\ ~videoSynced[c]
  IN  /\ log' = [log EXCEPT ![c] = IF Accepts(c) /\ ~gated
                                   THEN Append(@, Frame("video", n)) ELSE @]
      /\ videoSynced' = [videoSynced EXCEPT ![c] =
                           IF open[c] /\ ~gated /\ kind # "config"
                           THEN HasRoom(c) ELSE @]

-----------------------------------------------------------------------------
(* The lock r.mu: a broadcast loop holds it for reading. *)

readers == {b \in Procs : pc[b] = "deliver"}

Goto(p, label) == pc' = [pc EXCEPT ![p] = label]

At(p, label) == pc[p] = label

-----------------------------------------------------------------------------
Init ==
  /\ stream = [s \in Streams |-> <<>>]
  /\ videoConfig = 0 /\ lastKeyFrame = 0 /\ audioConfig = 0
  /\ clients = {}
  /\ controller = Nobody
  /\ stop = "no"
  /\ log = [c \in Clients |-> <<>>]
  /\ taken = [c \in Clients |-> 0]
  /\ open = [c \in Clients |-> FALSE]
  /\ videoSynced = [c \in Clients |-> TRUE]
  /\ pump = [c \in Clients |-> "off"]
  /\ pc = [p \in Procs |-> IF p \in Streams THEN "idle" ELSE "new"]
  /\ todo = [p \in Procs |-> {}]
  /\ count = [c \in Clients |-> 0]
  /\ pending = [c \in Clients |-> <<>>]
  /\ since = [c \in Clients |-> 0]

-----------------------------------------------------------------------------
(* The stream readers *)

\* A packet arrives.  The video and audio readers discard it, and end, when
\* stopCh is closed by then; the reader of device messages does not look.
ReadPacket(s, k) ==
  /\ At(s, "idle")
  /\ s # "device" => stop = "no"
  /\ Len(stream[s]) < Bound(s)
  /\ Follows(s, k)
  /\ stream' = [stream EXCEPT ![s] = Append(@, k)]
  /\ Goto(s, IF k \in {"config", "key"} THEN "cache" ELSE "bcast")
  /\ UNCHANGED <<cached, clients, controller, stop, channels, pump, todo,
                 count, pending, since>>

\* Under the write lock, remember the configuration or the keyframe.
CachePacket(s) ==
  LET n    == Len(stream[s])
      kind == stream[s][n]
  IN  /\ At(s, "cache") /\ readers = {}
      /\ videoConfig' = IF s = "video" /\ kind = "config" THEN n ELSE videoConfig
      /\ lastKeyFrame' = IF s = "video" /\ kind = "key" THEN n ELSE lastKeyFrame
      /\ audioConfig' = IF s = "audio" THEN n ELSE audioConfig
      /\ Goto(s, "bcast")
      /\ UNCHANGED <<stream, clients, controller, stop, channels, pump, todo,
                     count, pending, since>>

\* The stream fails, or brings a packet after stopCh was closed.  Video and
\* audio readers stop the relay on their way out.
StreamEnds(s) ==
  /\ At(s, "idle")
  /\ Goto(s, IF s = "device" THEN "done" ELSE "stop")
  /\ UNCHANGED <<stream, cached, clients, controller, stop, channels, pump,
                 todo, count, pending, since>>

\* The deferred Stop returns once some call of it has run to its end.
StreamDone(s) ==
  /\ At(s, "stop") /\ stop = "done"
  /\ Goto(s, "done")
  /\ UNCHANGED <<stream, cached, clients, controller, stop, channels, pump,
                 todo, count, pending, since>>

-----------------------------------------------------------------------------
(* Broadcasts: of a packet by its reader, of the viewer count by a handler *)

BeginBroadcast(b) ==
  /\ At(b, "bcast")
  /\ Goto(b, "deliver")
  /\ todo' = [todo EXCEPT ![b] = clients]
  /\ UNCHANGED <<stream, cached, clients, controller, stop, channels, pump,
                 count, pending, since>>

\* Variant for a mutant: the send waits for room.
DeliverWaiting(b, c) ==
  /\ At(b, "deliver") /\ c \in todo[b]
  /\ ~open[c] \/ HasRoom(c)
  /\ IF b = "video" THEN SendVideo(c, Len(stream[b])) ELSE Send(c, Message(b))
  /\ todo' = [todo EXCEPT ![b] = @ \ {c}]
  /\ UNCHANGED <<stream, cached, clients, controller, stop, taken, open, pump,
                 pc, count, pending, since>>

Deliver(b, c) ==
  /\ At(b, "deliver") /\ c \in todo[b]
  /\ IF b = "video" THEN SendVideo(c, Len(stream[b])) ELSE Send(c, Message(b))
  /\ todo' = [todo EXCEPT ![b] = @ \ {c}]
  /\ UNCHANGED <<stream, cached, clients, controller, stop, taken, open, pump,
                 pc, count, pending, since>>

\* A handler goes on to start the write pump, or, when it has announced that
\* its viewer left, ends.  The device reader checks stopCh before it reads on.
AfterBroadcast(b) ==
  IF b \in Clients
  THEN IF pump[b] = "off" THEN "joined" ELSE "done"
  ELSE IF b = "device" /\ stop # "no" THEN "done" ELSE "idle"

EndBroadcast(b) ==
  /\ At(b, "deliver") /\ todo[b] = {}
  /\ Goto(b, AfterBroadcast(b))
  /\ UNCHANGED <<stream, cached, clients, controller, stop, channels, pump,
                 todo, count, pending, since>>

-----------------------------------------------------------------------------
(* The handler of a viewer *)

\* The socket is accepted; a session that is still known to the manager adds
\* the device_info message.
OpenSocket(c) ==
  /\ At(c, "new")
  /\ Goto(c, "opened")
  /\ open' = [open EXCEPT ![c] = TRUE]
  /\ \E info \in {<<>>, <<Frame("info", 0)>>} : log' = [log EXCEPT ![c] = info]
  /\ UNCHANGED <<stream, cached, clients, controller, stop, taken, videoSynced,
                 pump, todo, count, pending, since>>

\* AddClient, under the write lock.
AddClient(c) ==
  /\ At(c, "opened") /\ readers = {}
  /\ clients' = clients \cup {c}
  /\ pending' = [pending EXCEPT ![c] = Snapshot]
  /\ since' = [since EXCEPT ![c] = IF pc["video"] \in {"cache", "bcast"}
                                   THEN Len(stream["video"]) - 1
                                   ELSE Len(stream["video"])]
  /\ Goto(c, "cached")
  /\ UNCHANGED <<stream, cached, controller, stop, channels, pump, todo, count>>

\* AddClient, after the lock: one cached frame.
SendCached(c) ==
  /\ At(c, "cached") /\ pending[c] # <<>>
  /\ Send(c, Head(pending[c]))
  /\ pending' = [pending EXCEPT ![c] = Tail(@)]
  /\ UNCHANGED <<stream, cached, clients, controller, stop, taken, open, pump,
                 pc, todo, count, since>>

\* broadcastViewerCount reads the count, and takes the lock again to send it.
CountViewers(c) ==
  /\ pc[c] \in {"cached", "left"} /\ pending[c] = <<>>
  /\ count' = [count EXCEPT ![c] = Cardinality(clients)]
  /\ Goto(c, "bcast")
  /\ UNCHANGED <<stream, cached, clients, controller, stop, channels, pump,
                 todo, pending, since>>

StartPump(c) ==
  /\ At(c, "joined")
  /\ pump' = [pump EXCEPT ![c] = "on"]
  /\ Goto(c, "read")
  /\ UNCHANGED <<stream, cached, clients, controller, stop, channels, todo,
                 count, pending, since>>

\* Variant for a mutant: whoever asks gets control.
RequestControlAnyway(c) ==
  /\ At(c, "read") /\ readers = {}
  /\ controller' = c
  /\ UNCHANGED <<stream, cached, clients, stop, channels, pump, pc, todo,
                 count, pending, since>>

RequestControl(c) ==
  /\ At(c, "read") /\ readers = {}
  /\ controller \in {Nobody, c}
  /\ controller' = c
  /\ UNCHANGED <<stream, cached, clients, stop, channels, pump, pc, todo,
                 count, pending, since>>

ReleaseControl(c) ==
  /\ At(c, "read") /\ readers = {}
  /\ controller = c
  /\ controller' = Nobody
  /\ UNCHANGED <<stream, cached, clients, stop, channels, pump, pc, todo,
                 count, pending, since>>

\* HandleControlMsg checks the token under the read lock...
CheckControl(c) ==
  /\ At(c, "read") /\ controller = c
  /\ Goto(c, "forward")
  /\ UNCHANGED <<stream, cached, clients, controller, stop, channels, pump,
                 todo, count, pending, since>>

\* ...and writes to the device after it has let go of it.
ForwardControl(c) ==
  /\ At(c, "forward")
  /\ Goto(c, "read")
  /\ UNCHANGED <<stream, cached, clients, controller, stop, channels, pump,
                 todo, count, pending, since>>

\* Variant for a mutant: control is released only if the viewer is registered.
RemoveClientIfKnown(c) ==
  /\ At(c, "read") /\ readers = {}
  /\ clients' = clients \ {c}
  /\ open' = [open EXCEPT ![c] = @ /\ c \notin clients]
  /\ controller' = IF controller = c /\ c \in clients THEN Nobody
                                                      ELSE controller
  /\ Goto(c, IF c \in clients THEN "left" ELSE "done")
  /\ UNCHANGED <<stream, cached, stop, log, taken, videoSynced, pump, todo,
                 count, pending, since>>

\* The read from the socket fails: RemoveClient, under the write lock.  Only a
\* viewer that was still registered is announced as gone.
RemoveClient(c) ==
  /\ At(c, "read") /\ readers = {}
  /\ clients' = clients \ {c}
  /\ open' = [open EXCEPT ![c] = @ /\ c \notin clients]
  /\ controller' = IF controller = c THEN Nobody ELSE controller
  /\ Goto(c, IF c \in clients THEN "left" ELSE "done")
  /\ UNCHANGED <<stream, cached, stop, log, taken, videoSynced, pump, todo,
                 count, pending, since>>

-----------------------------------------------------------------------------
(* The write pump of a viewer *)

PumpWrites(c) ==
  /\ pump[c] = "on" /\ taken[c] < Len(log[c])
  /\ taken' = [taken EXCEPT ![c] = @ + 1]
  /\ UNCHANGED <<stream, cached, clients, controller, stop, log, open,
                 videoSynced, pump, pc, todo, count, pending, since>>

\* A message is taken and the socket no longer accepts it (or not within the
\* write deadline): the pump returns and closes the socket.
PumpFails(c) ==
  /\ pump[c] = "on" /\ taken[c] < Len(log[c])
  /\ taken' = [taken EXCEPT ![c] = @ + 1]
  /\ pump' = [pump EXCEPT ![c] = "dead"]
  /\ UNCHANGED <<stream, cached, clients, controller, stop, log, open,
                 videoSynced, pc, todo, count, pending, since>>

\* Variant for a mutant: the pump returns and leaves the socket open.
PumpEndsQuietly(c) ==
  /\ pump[c] = "on" /\ ~open[c] /\ taken[c] = Len(log[c])
  /\ pump' = [pump EXCEPT ![c] = "off"]
  /\ UNCHANGED <<stream, cached, clients, controller, stop, channels, pc, todo,
                 count, pending, since>>

\* The channel is closed and drained.
PumpEnds(c) ==
  /\ pump[c] = "on" /\ ~open[c] /\ taken[c] = Len(log[c])
  /\ pump' = [pump EXCEPT ![c] = "dead"]
  /\ UNCHANGED <<stream, cached, clients, controller, stop, channels, pc, todo,
                 count, pending, since>>

-----------------------------------------------------------------------------
(* Relay.Stop: by a stream that ended, or by the server *)

BeginStop ==
  /\ stop = "no"
  /\ stop' = "closing"
  /\ UNCHANGED <<stream, cached, clients, controller, channels, pump, pc, todo,
                 count, pending, since>>

FinishStop ==
  /\ stop = "closing" /\ readers = {}
  /\ stop' = "done"
  /\ open' = [c \in Clients |-> open[c] /\ c \notin clients]
  /\ clients' = {}
  /\ UNCHANGED <<stream, cached, controller, log, taken, videoSynced, pump, pc,
                 todo, count, pending, since>>

-----------------------------------------------------------------------------
\* Every goroutine has returned; stuttering here is no deadlock.
Terminated ==
  /\ \A p \in Procs : At(p, "done")
  /\ \A c \in Clients : pump[c] # "on"
  /\ UNCHANGED vars

StreamStep(s) ==
  \/ \E k \in Kinds : ReadPacket(s, k)
  \/ CachePacket(s)
  \/ StreamEnds(s)
  \/ StreamDone(s)

BroadcastStep(b) ==
  \/ BeginBroadcast(b)
  \/ \E c \in Clients : Deliver(b, c)
  \/ EndBroadcast(b)

HandlerStep(c) ==
  \/ OpenSocket(c) \/ AddClient(c) \/ SendCached(c) \/ CountViewers(c)
  \/ StartPump(c)
  \/ RequestControl(c) \/ ReleaseControl(c)
  \/ CheckControl(c) \/ ForwardControl(c)
  \/ RemoveClient(c)

PumpStep(c) == PumpWrites(c) \/ PumpFails(c) \/ PumpEnds(c)

Next ==
  \/ \E s \in Streams : StreamStep(s)
  \/ \E b \in Procs : BroadcastStep(b)
  \/ \E c \in Clients : HandlerStep(c) \/ PumpStep(c)
  \/ BeginStop
  \/ FinishStop
  \/ Terminated

Spec == Init /\ [][Next]_vars

(***************************************************************************)
(* Fairness: what the Go scheduler and sync.RWMutex guarantee.  A goroutine *)
(* that is not blocked takes its step.  A waiting writer keeps new readers  *)
(* out, so that it gets the write lock although the lock may be taken for   *)
(* reading again and again: strong fairness.  Nothing is assumed of the     *)
(* device (ReadPacket, StreamEnds), of the viewer (control messages, a      *)
(* socket that fails), or of the server (BeginStop).  A write to the device *)
(* has no deadline: ForwardControl may never return.                        *)
(***************************************************************************)
StreamFairness(s) ==
  WF_vars(BroadcastStep(s) \/ StreamDone(s) \/ (At(s, "stop") /\ BeginStop))

\* A viewer whose pump has closed the socket is no longer read from, but for
\* the finitely many messages that are already buffered.
HandlerFairness(c) ==
  /\ WF_vars(BroadcastStep(c) \/ SendCached(c) \/ CountViewers(c) \/ StartPump(c))
  /\ SF_vars(AddClient(c) \/ (pump[c] = "dead" /\ RemoveClient(c)))

\* A write to a websocket ends, or fails at its deadline of five seconds.
PumpFairness(c) == WF_vars(PumpStep(c))

Fairness ==
  /\ \A s \in Streams : StreamFairness(s)
  /\ \A c \in Clients : HandlerFairness(c)
  /\ SF_vars(\E s \in Streams : CachePacket(s))
  /\ SF_vars(FinishStop)

FairSpec == Spec /\ Fairness

-----------------------------------------------------------------------------
(* Safety *)

Messages == [from : Streams \cup {"info", "viewers"}, n : Nat]

\* Every variable has its type, and no channel ever holds more than its
\* capacity: Send and SendVideo never wait for room (relay.go:57, 86).
TypeOK ==
  /\ stream \in [Streams -> Seq(Kinds)]
  /\ {videoConfig, lastKeyFrame, audioConfig} \subseteq Nat
  /\ clients \subseteq Clients
  /\ controller \in Clients \cup {Nobody}
  /\ stop \in {"no", "closing", "done"}
  /\ log \in [Clients -> Seq(Messages)]
  /\ taken \in [Clients -> Nat]
  /\ \A c \in Clients : Len(log[c]) - taken[c] \in 0..Cap
  /\ open \in [Clients -> BOOLEAN]
  /\ videoSynced \in [Clients -> BOOLEAN]
  /\ pump \in [Clients -> {"off", "on", "dead"}]
  /\ pc \in [Procs -> {"idle", "cache", "bcast", "deliver", "stop", "done",
                       "new", "opened", "cached", "joined", "read", "forward",
                       "left"}]
  /\ todo \in [Procs -> SUBSET Clients]
  /\ count \in [Clients -> 0..Cardinality(Clients)]
  /\ pending \in [Clients -> Seq(Messages)]
  /\ since \in [Clients -> Nat]

IsDelta(m) == m.from = "video" /\ stream["video"][m.n] = "delta"

\* Once a viewer takes part in the broadcasts, a delta frame is queued for it
\* only behind the packet it refers to, however often its channel ran full and
\* found room again in between: dropping frames never leaves a gap inside a
\* chain (SendVideo, relay.go:65-99).
ChainUnbroken ==
  \A c \in Clients : \A j \in 1..Len(log[c]) :
    LET m == log[c][j] IN
    IsDelta(m) /\ m.n - 1 > since[c]
      => \E i \in 1..(j - 1) : log[c][i] = Frame("video", m.n - 1)

\* The frames a new viewer needs: what the relay has cached.
Latest == {<<"video", videoConfig>>, <<"video", lastKeyFrame>>,
           <<"audio", audioConfig>>}

\* A viewer that has been sent its snapshot, while no reader is between
\* caching a frame and broadcasting it, has been queued every frame of the
\* cache, unless it has been queued as many messages as its channel holds, so
\* that the channel may have been full: a frame cached while the viewer
\* registers is in the snapshot or in a broadcast to come, never in neither
\* (relay.go:196-214 against 345-356 and 391-397).
LatestQueued ==
  \A c \in clients : \A f \in Latest :
    /\ f[2] # 0
    /\ pending[c] = <<>>
    /\ At(f[1], "idle")
    => InLog(c, Frame(f[1], f[2])) \/ Len(log[c]) >= Cap

\* A control message goes to the device only while its sender holds control,
\* although HandleControlMsg has let go of the lock by then (relay.go:269-276).
ControlExclusive ==
  \A c \in Clients : At(c, "forward") => controller = c

\* Control is never held by a viewer whose handler has left its read loop: no
\* sequence of joining, stopping and leaving can lock all others out for good
\* (relay.go:229-231).
ControllerPresent ==
  controller # Nobody => pc[controller] \in {"read", "forward"}

-----------------------------------------------------------------------------
(* The inductive invariant behind ChainUnbroken *)

VideoFrame(m) == m.from = "video"

\* No delta frame follows a configuration.
Grammar ==
  LET video == stream["video"] IN
  \A n \in 1..Len(video) :
    video[n] = "delta" /\ n > 1 => video[n - 1] # "config"

Anchor(n) == n \in 1..Len(stream["video"]) /\ stream["video"][n] # "delta"

\* What is cached, and what AddClient has still to send, can start a chain.
Anchored ==
  /\ \A n \in {videoConfig, lastKeyFrame} : n # 0 => Anchor(n)
  /\ \A c \in Clients : \A i \in 1..Len(pending[c]) :
       VideoFrame(pending[c][i]) => Anchor(pending[c][i].n)

\* Only registered viewers are sent packets, and only packets that were read.
LogSound ==
  \A c \in Clients : \A j \in 1..Len(log[c]) :
    VideoFrame(log[c][j])
      => ~At(c, "opened") /\ log[c][j].n \in 1..Len(stream["video"])

\* The lock keeps the viewers of a running broadcast registered, and whoever
\* is registered is open.
Registered ==
  /\ \A b \in Procs :
       /\ todo[b] \subseteq clients
       /\ ~At(b, "deliver") => todo[b] = {}
  /\ \A c \in Clients :
       /\ c \in clients => open[c]
       /\ At(c, "opened") => open[c]
       /\ pc[c] \in {"new", "opened"} => c \notin clients

\* The last packet of stream s whose broadcast has visited viewer c, or has
\* begun without it.
Offered(c, s) ==
  IF pc[s] \in {"cache", "bcast"} \/ c \in todo[s]
  THEN Len(stream[s]) - 1 ELSE Len(stream[s])

Visited(c) == Offered(c, "video")

\* A viewer in sync has been queued the last packet it was visited with, if
\* that is one a delta may refer to.
InSync ==
  \A c \in clients :
    /\ videoSynced[c]
    /\ Visited(c) > since[c]
    /\ stream["video"][Visited(c)] # "config"
    => InLog(c, Frame("video", Visited(c)))

ChainInv == Grammar /\ Anchored /\ LogSound /\ Registered /\ InSync
              /\ ChainUnbroken

\* The inductive invariant behind LatestQueued: a cached frame a registered
\* viewer has not been queued is still to come, from its snapshot or from the
\* broadcast that begins or runs.
ToCome(c, s, n) ==
  \/ \E i \in 1..Len(pending[c]) : pending[c][i] = Frame(s, n)
  \/ n = Len(stream[s]) /\ (At(s, "bcast") \/ c \in todo[s])

LatestInv ==
  \A c \in clients : \A f \in Latest :
    f[2] # 0 => \/ InLog(c, Frame(f[1], f[2]))
                \/ Len(log[c]) >= Cap
                \/ ToCome(c, f[1], f[2])

-----------------------------------------------------------------------------
(* What the relay is to one viewer *)

Phase(c) == IF At(c, "new") THEN "new"
            ELSE IF c \in clients THEN "joined"
            ELSE IF open[c] THEN "open" ELSE "closed"

OfferedTo(c) == [s \in Streams |-> Offered(c, s)]

Channel(c) == INSTANCE ViewerChannel WITH
  state <- Phase(c), queue <- log[c], taken <- taken[c], cache <- pending[c],
  offered <- OfferedTo(c), since <- since[c], Viewers <- Cardinality(Clients)

\* Whatever the other viewers, the readers and the server do, to each viewer the
\* relay is the channel of ViewerChannel: packets are offered once and in order,
\* nothing is lost while there is room but delta frames behind a loss, which are
\* never sent, and a closed channel is never sent to (relay.go:51-99, 194-239,
\* 285-300).
ImplementsChannel ==
  /\ \A c \in Clients : Channel(c)!Init
  /\ [][\A c \in Clients : [Channel(c)!Next]_(Channel(c)!channel)]_vars

\* The inductive invariant behind ImplementsChannel, next to ChainInv.  Only what
\* was offered is queued, but for the cached frames;
Old(c, n) == n <= Visited(c) \/ n <= since[c] + 1

OnlyOffered(c) ==
  /\ since[c] <= Visited(c)
  /\ \A i \in 1..Len(pending[c]) :
       VideoFrame(pending[c][i]) => pending[c][i].n <= since[c] + 1
  /\ \A j \in 1..Len(log[c]) :
       VideoFrame(log[c][j]) => Old(c, log[c][j].n)

\* a viewer is out of sync only behind a frame it has not been queued;
BehindLoss(c) ==
  LET n == Visited(c) IN
  videoSynced[c] \/ /\ n > since[c]
                    /\ \/ stream["video"][n] = "config"
                       \/ n = since[c] + 1
                       \/ ~InLog(c, Frame("video", n))

\* and what is open is registered or about to be.
OpenFirst(c) ==
  /\ pc[c] \in {"new", "opened"} => videoSynced[c]
  /\ open[c] => c \in clients \/ At(c, "opened")

GateInv ==
  /\ \A c \in clients : OnlyOffered(c) /\ BehindLoss(c)
  /\ \A c \in Clients : OpenFirst(c)
  /\ audioConfig \in 0..Len(stream["audio"])

-----------------------------------------------------------------------------
(* Liveness *)

Busy(b) == pc[b] \in {"cache", "bcast", "deliver"}

\* A packet or a viewer count on its way to the viewers gets to the end of the
\* broadcast even if no write pump ever takes another step: a slow viewer holds
\* up neither the other viewers nor the stream.
BroadcastsFinish == \A b \in Procs : Busy(b) ~> ~Busy(b)

\* A viewer that has connected gets into its read loop, whatever is broadcast
\* meanwhile.
JoinsComplete == \A c \in Clients : At(c, "opened") ~> At(c, "read")

\* As long as writes to websockets end or fail, a relay one of whose media
\* streams has ended gets stopped, and every viewer it has closed leaves, unless
\* that viewer's handler waits for the device to take a control message.
StopReaches ==
  (\A c \in Clients : PumpFairness(c))
    => /\ \A s \in {"video", "audio"} : At(s, "stop") ~> stop = "done"
       /\ \A c \in Clients : ~open[c] /\ At(c, "read")
            ~> pc[c] \in {"done", "forward"}

=============================================================================
