------------------------- MODULE RelayChannelProofs -------------------------
(* Proof that Relay is, to each of its viewers, the channel of ViewerChannel: *)
(* for any set of viewers, any capacity and any bounds.                       *)
EXTENDS RelayProofs

-----------------------------------------------------------------------------
(* What a step does to one viewer *)

\* A viewer that is registered after a step was so before, or has registered.
LEMMA JoinedFrame ==
  ASSUME [Next]_vars, NEW d \in clients', ~AddClient(d)
  PROVE  d \in clients
<1>1. ASSUME NEW c \in Clients, AddClient(c) PROVE d \in clients
  BY <1>1 DEF AddClient
<1>2. QED
  BY <1>1
     DEF Next, StreamStep, BroadcastStep, HandlerStep, PumpStep, vars, cached, channels,
         ReadPacket, CachePacket, StreamEnds, StreamDone, BeginBroadcast, Deliver,
         EndBroadcast, OpenSocket, SendCached, CountViewers, StartPump,
         RequestControl, ReleaseControl, CheckControl, ForwardControl, RemoveClient,
         PumpWrites, PumpFails, PumpEnds, BeginStop, FinishStop, Terminated

\* Only the delivery of a video packet decides whether its viewer is in sync.
LEMMA SyncedFrame ==
  ASSUME TypeInv, [Next]_vars, NEW d \in Clients, ~Deliver("video", d)
  PROVE  videoSynced'[d] = videoSynced[d]
<1>1. ASSUME NEW b \in Procs, NEW c \in Clients, Deliver(b, c)
      PROVE  videoSynced'[d] = videoSynced[d]
  <2>1. CASE b # "video"
    BY <1>1, <2>1 DEF Deliver, Send
  <2>2. CASE b = "video"
    <3>1. \E v : videoSynced' = [videoSynced EXCEPT ![c] = v]
      BY <1>1, <2>2 DEF Deliver, SendVideo
    <3>2. c # d
      BY <1>1, <2>2
    <3>3. QED
      BY <3>1, <3>2 DEF TypeInv, TypeOK
  <2>3. QED
    BY <2>1, <2>2
<1>2. ASSUME NEW c \in Clients, OpenSocket(c) \/ SendCached(c)
      PROVE  videoSynced'[d] = videoSynced[d]
  BY <1>2 DEF OpenSocket, SendCached, Send
<1>3. QED
  BY <1>1, <1>2, LogFrame

\* A viewer that stays registered is visited by the deliveries to it only.
LEMMA VisitedStays ==
  ASSUME TypeInv, ChainInv, [Next]_vars, NEW d \in clients, d \in clients',
         ~Deliver("video", d)
  PROVE  Visited(d)' = Visited(d) /\ since'[d] = since[d]
<1>1. ~AddClient(d)
  BY DEF AddClient, At, ChainInv, Registered, TypeInv, TypeOK
<1>2. ASSUME NEW c \in Clients, Deliver("video", c)
      PROVE  Visited(d)' = Visited(d) /\ since'[d] = since[d]
  <2>1. /\ UNCHANGED <<stream, since, pc>>
        /\ todo' = [todo EXCEPT !["video"] = @ \ {c}] /\ c # d
    BY <1>2 DEF Deliver
  <2>2. QED
    BY <2>1 DEF Visited, Offered, TypeInv, TypeOK, Procs, Streams
<1>3. QED
  BY <1>1, <1>2, VisitedFrame

\* What is in the log of a registered viewer was there, or comes from a
\* broadcast or from its snapshot.
LEMMA LogSource ==
  ASSUME TypeInv, ChainInv, [Next]_vars, NEW d \in clients, NEW j \in 1..Len(log'[d])
  PROVE  \/ j \in 1..Len(log[d]) /\ log'[d][j] = log[d][j]
         \/ \E b \in Procs : Deliver(b, d) /\ log'[d][j] = Message(b)
         \/ SendCached(d) /\ log'[d][j] = pending[d][1]
<1> DEFINE Kept == j \in 1..Len(log[d]) /\ log'[d][j] = log[d][j]
<1>0. d \in Clients
  BY DEF TypeInv, TypeOK
<1>1. CASE UNCHANGED log
  BY <1>1
<1>2. ASSUME NEW c \in Clients, OpenSocket(c) PROVE Kept
  <2>1. d # c
    BY <1>2 DEF OpenSocket, ChainInv, Registered, At
  <2>2. log'[d] = log[d]
    BY <1>0, <1>2, <2>1 DEF OpenSocket, TypeInv, TypeOK
  <2>3. QED
    BY <2>2
<1>3. ASSUME NEW c \in Clients, SendCached(c)
      PROVE  Kept \/ (SendCached(d) /\ log'[d][j] = pending[d][1])
  <2> DEFINE m == Head(pending[c])
  <2>1. m \in Messages /\ m = pending[c][1] /\ Accepts(c) \in BOOLEAN
    BY SMTT(30), <1>3 DEF SendCached, Accepts, HasRoom, TypeInv, TypeOK
  <2>2. log' = [log EXCEPT ![c] = IF Accepts(c) THEN Append(@, m) ELSE @]
    BY <1>3 DEF SendCached, Send
  <2>3. Kept \/ (d = c /\ log'[d][j] = m)
    <3> HIDE DEF m
    <3> QED BY <1>0, <2>1, <2>2, SendAdds
  <2>4. QED
    BY <1>3, <2>1, <2>3
<1>4. ASSUME NEW b \in Procs, NEW c \in Clients, Deliver(b, c)
      PROVE  Kept \/ (Deliver(b, d) /\ log'[d][j] = Message(b))
  <2> DEFINE m == Message(b)
  <2>1. m \in Messages
    BY MessageType DEF TypeInv
  <2>2. PICK ok \in BOOLEAN : log' = [log EXCEPT ![c] = IF ok THEN Append(@, m) ELSE @]
    BY <1>4, DeliverSends
  <2>3. Kept \/ (d = c /\ log'[d][j] = m)
    <3> HIDE DEF m
    <3> QED BY <1>0, <2>1, <2>2, SendAdds
  <2>4. QED
    BY <1>4, <2>3
<1>5. QED
  BY <1>1, <1>2, <1>3, <1>4, LogFrame

\* What AddClient still has to send is only ever used up.
LEMMA PendingShrinks ==
  ASSUME TypeInv, [Next]_vars, NEW d \in Clients, ~AddClient(d)
  PROVE  /\ pending'[d] \in Seq(Messages)
         /\ \A i \in 1..Len(pending'[d]) :
              \E k \in 1..Len(pending[d]) : pending'[d][i] = pending[d][k]
<1>0. pending[d] \in Seq(Messages)
  BY DEF TypeInv, TypeOK
<1>1. CASE pending'[d] = pending[d]
  BY <1>0, <1>1
<1>2. CASE pending[d] # <<>> /\ pending'[d] = Tail(pending[d])
  <2>1. /\ Len(pending'[d]) = Len(pending[d]) - 1 /\ Len(pending[d]) \in Nat
        /\ \A i \in 1..Len(pending'[d]) : pending'[d][i] = pending[d][i + 1]
        /\ pending'[d] \in Seq(Messages)
    BY <1>0, <1>2, HeadTailProperties
  <2>2. ASSUME NEW i \in 1..Len(pending'[d]) PROVE i + 1 \in 1..Len(pending[d])
    BY <2>1
  <2>3. QED
    BY <2>1, <2>2
<1>3. ASSUME NEW c \in Clients, AddClient(c) PROVE pending'[d] = pending[d]
  BY <1>3 DEF AddClient, TypeInv, TypeOK
<1>4. ASSUME NEW c \in Clients, SendCached(c)
      PROVE  \/ pending'[d] = pending[d]
             \/ pending[d] # <<>> /\ pending'[d] = Tail(pending[d])
  BY <1>4 DEF SendCached, TypeInv, TypeOK
<1>5. QED
  BY <1>1, <1>2, <1>3, <1>4, PendingFrame

\* Packets are numbers.
LEMMA VisitedType ==
  ASSUME TypeInv, ChainInv, NEW d \in Clients
  PROVE  /\ since[d] \in Nat /\ Len(stream["video"]) \in Nat
         /\ Visited(d) \in 0..Len(stream["video"])
<1>1. since[d] \in Nat /\ Len(stream["video"]) \in Nat
  BY DEF TypeInv, TypeOK, Streams
<1>2. pc["video"] \in {"cache", "bcast"} \/ d \in todo["video"]
        => Len(stream["video"]) > 0
  BY DEF TypeInv, Begun, Busy, ChainInv, Registered, At, Procs, Streams
<1>3. QED
  BY <1>1, <1>2 DEF Visited, Offered

-----------------------------------------------------------------------------
(* GateInv *)

LEMMA GateInit == Init => GateInv
<1> SUFFICES ASSUME Init PROVE GateInv
  OBVIOUS
<1>1. clients = {} /\ \A c \in Clients : ~open[c] /\ videoSynced[c]
  BY DEF Init
<1>2. audioConfig = 0 /\ Len(stream["audio"]) = 0
  BY DEF Init, Streams
<1>3. QED
  BY <1>1, <1>2 DEF GateInv, OpenFirst

\* A viewer that registers begins with a snapshot and nothing else.
LEMMA GateJoin ==
  ASSUME TypeInv, ChainInv, GateInv, NEW d \in Clients, AddClient(d)
  PROVE  OnlyOffered(d)' /\ BehindLoss(d)'
<1> DEFINE L == Len(stream["video"])
<1>1. /\ UNCHANGED <<stream, log, videoSynced, todo>> /\ At(d, "opened")
      /\ pending'[d] = Snapshot
      /\ since'[d] = IF pc["video"] \in {"cache", "bcast"} THEN L - 1 ELSE L
      /\ todo["video"] = {}
      /\ pc'["video"] = pc["video"]
  BY ClientsAssumption, WriteLocked
     DEF AddClient, Goto, TypeInv, TypeOK, channels, ChainInv, Procs, Streams
<1>2. Visited(d)' = since'[d]
  BY <1>1 DEF Visited, Offered
<1>3. L \in Nat /\ since'[d] \in Nat /\ L <= since'[d] + 1
  <2>1. L \in Nat
    BY VisitedType
  <2>2. pc["video"] \in {"cache", "bcast"} => L > 0
    BY DEF TypeInv, Begun, Busy, Streams
  <2>3. QED
    BY <1>1, <2>1, <2>2
<1>4. \A i \in 1..Len(Snapshot) : VideoFrame(Snapshot[i]) => Snapshot[i].n \in 1..L
  BY SnapshotAnchored DEF ChainInv, Anchor
<1>5. \A j \in 1..Len(log[d]) : ~VideoFrame(log[d][j])
  BY <1>1 DEF ChainInv, LogSound
<1>6. OnlyOffered(d)'
  BY <1>1, <1>2, <1>3, <1>4, <1>5 DEF OnlyOffered, VideoFrame
<1>7. videoSynced'[d]
  BY <1>1 DEF GateInv, OpenFirst, At
<1>8. QED
  BY <1>6, <1>7 DEF BehindLoss

\* The message that a registered viewer is delivered was not offered before.
LEMMA Delivered ==
  ASSUME TypeInv, ChainInv, [Next]_vars, NEW d \in Clients, Deliver("video", d)
  PROVE  /\ d \in clients /\ open[d] /\ UNCHANGED <<stream, clients, since, pending>>
         /\ Visited(d) = Len(stream["video"]) - 1
         /\ Visited(d)' = Len(stream["video"])
         /\ Message("video") = Frame("video", Len(stream["video"]))
         /\ Len(stream["video"]) \in Nat \ {0}
<1>1. /\ d \in todo["video"] /\ d \in clients /\ open[d]
      /\ UNCHANGED <<stream, clients, since, pending, pc>>
      /\ todo' = [todo EXCEPT !["video"] = @ \ {d}]
      /\ pc["video"] = "deliver"
  BY DEF Deliver, ChainInv, Registered, Procs, Streams, At
<1>2. d \notin todo'["video"]
  BY <1>1 DEF TypeInv, TypeOK, Procs, Streams
<1>3. Len(stream["video"]) \in Nat \ {0}
  BY <1>1 DEF TypeInv, TypeOK, Begun, Busy, Streams
<1>4. QED
  BY <1>1, <1>2, <1>3 DEF Visited, Offered, Message, Streams

LEMMA OnlyOfferedStep ==
  ASSUME TypeInv, ChainInv, [Next]_vars, NEW d \in clients, d \in clients',
         OnlyOffered(d)
  PROVE  OnlyOffered(d)'
<1>0. /\ d \in Clients /\ ~AddClient(d)
      /\ since[d] \in Nat /\ Visited(d) \in Nat
  BY VisitedType DEF AddClient, At, ChainInv, Registered, TypeInv, TypeOK
<1>1. since'[d] = since[d] /\ Visited(d)' \in Nat /\ Visited(d) <= Visited(d)'
  <2>1. CASE Deliver("video", d)
    BY <1>0, <2>1, Delivered
  <2>2. CASE ~Deliver("video", d)
    BY <1>0, <2>2, VisitedStays
  <2>3. QED
    BY <2>1, <2>2
<1>2. ASSUME NEW i \in 1..Len(pending'[d]), VideoFrame(pending'[d][i])
      PROVE  pending'[d][i].n <= since'[d] + 1
  BY <1>0, <1>1, <1>2, PendingShrinks DEF OnlyOffered, VideoFrame
<1>3. ASSUME NEW j \in 1..Len(log'[d]), VideoFrame(log'[d][j])
      PROVE  log'[d][j].n <= Visited(d)' \/ log'[d][j].n <= since[d] + 1
  <2>1. CASE j \in 1..Len(log[d]) /\ log'[d][j] = log[d][j]
    <3>1. log[d][j] \in Messages
      BY <1>0, <2>1 DEF TypeInv, TypeOK
    <3>2. log[d][j].n \in Nat
      BY <3>1 DEF Messages
    <3>3. log[d][j].n <= Visited(d) \/ log[d][j].n <= since[d] + 1
      BY <1>3, <2>1 DEF OnlyOffered, VideoFrame, Old
    <3>4. QED
      BY <1>0, <1>1, <2>1, <3>2, <3>3
  <2>2. ASSUME NEW b \in Procs, Deliver(b, d), log'[d][j] = Message(b)
        PROVE  log'[d][j].n <= Visited(d)'
    <3>1. b = "video"
      BY <1>3, <2>2 DEF Message, Frame, VideoFrame, Streams
    <3>2. QED
      BY <1>0, <2>2, <3>1, Delivered DEF Frame
  <2>3. ASSUME SendCached(d), log'[d][j] = pending[d][1]
        PROVE  log'[d][j].n <= since[d] + 1
    <3>1. 1 \in 1..Len(pending[d])
      BY <1>0, <2>3 DEF SendCached, TypeInv, TypeOK
    <3>2. QED
      BY <1>3, <2>3, <3>1 DEF OnlyOffered, VideoFrame
  <2>4. QED
    BY <2>1, <2>2, <2>3, LogSource
<1>4. since'[d] <= Visited(d)'
  BY <1>0, <1>1 DEF OnlyOffered
<1>5. QED
  BY <1>1, <1>2, <1>3, <1>4 DEF OnlyOffered, Old, VideoFrame

\* A video packet that meets a full channel, or a closed gate, is not queued.
LEMMA DeliveredOrLost ==
  ASSUME TypeInv, ChainInv, GateInv, [Next]_vars, NEW d \in Clients,
         Deliver("video", d), OnlyOffered(d)
  PROVE  BehindLoss(d)'
<1> DEFINE L == Len(stream["video"])
           kind == stream["video"][L]
           gated == kind = "delta" /\ ~videoSynced[d]
<1>1. /\ open[d] /\ UNCHANGED <<stream, since>> /\ since[d] \in Nat
      /\ Visited(d) = L - 1 /\ Visited(d)' = L /\ L \in Nat \ {0}
  BY Delivered, VisitedType
<1>2. /\ log'[d] = IF Accepts(d) /\ ~gated THEN Append(log[d], Frame("video", L))
                                           ELSE log[d]
      /\ videoSynced'[d] = IF open[d] /\ ~gated /\ kind # "config"
                            THEN HasRoom(d) ELSE videoSynced[d]
  BY DEF Deliver, SendVideo, TypeInv, TypeOK
<1>3. L > since[d]
  BY <1>1 DEF OnlyOffered
<1>4. ASSUME ~videoSynced'[d], kind # "config", L # since[d] + 1,
             NEW j \in 1..Len(log'[d]), log'[d][j] = Frame("video", L)
      PROVE  FALSE
  <2>1. log'[d] = log[d]
    BY <1>1, <1>2, <1>4 DEF Accepts
  <2>2. VideoFrame(log[d][j]) /\ log[d][j].n = L
    BY <1>4, <2>1 DEF Frame, VideoFrame
  <2>3. L <= Visited(d) \/ L <= since[d] + 1
    BY <1>4, <2>1, <2>2 DEF OnlyOffered, Old
  <2>4. QED
    BY <1>1, <1>3, <1>4, <2>3
<1>5. QED
  BY <1>1, <1>3, <1>4 DEF BehindLoss, InLog, Frame

LEMMA BehindLossStep ==
  ASSUME TypeInv, ChainInv, GateInv, [Next]_vars, NEW d \in clients, d \in clients',
         OnlyOffered(d), BehindLoss(d), ~Deliver("video", d)
  PROVE  BehindLoss(d)'
<1> DEFINE n == Visited(d)
<1>0. d \in Clients /\ since[d] \in Nat /\ n \in 0..Len(stream["video"])
      /\ Len(stream["video"]) \in Nat
  BY VisitedType DEF TypeInv, TypeOK
<1>1. Visited(d)' = n /\ since'[d] = since[d] /\ videoSynced'[d] = videoSynced[d]
  BY <1>0, VisitedStays, SyncedFrame
<1>2. ASSUME ~videoSynced[d] PROVE n > since[d] /\ stream'["video"][n] = stream["video"][n]
  BY <1>0, <1>2, VideoStays DEF BehindLoss
<1>3. ASSUME n > since[d], n # since[d] + 1, InLog(d, Frame("video", n))'
      PROVE  InLog(d, Frame("video", n))
  <2>1. PICK j \in 1..Len(log'[d]) : log'[d][j] = Frame("video", n)
    BY <1>1, <1>3 DEF InLog, Frame
  <2>2. log'[d][j].from = "video" /\ log'[d][j].n = n
    BY <2>1 DEF Frame
  <2>3. CASE j \in 1..Len(log[d]) /\ log'[d][j] = log[d][j]
    BY <2>1, <2>3 DEF InLog
  <2>4. ASSUME NEW b \in Procs, Deliver(b, d), log'[d][j] = Message(b)
        PROVE  FALSE
    BY <2>2, <2>4 DEF Message, Frame, Streams
  <2>5. ASSUME SendCached(d), log'[d][j] = pending[d][1]
        PROVE  FALSE
    <3>1. 1 \in 1..Len(pending[d])
      BY <1>0, <2>5 DEF SendCached, TypeInv, TypeOK
    <3>2. n <= since[d] + 1
      BY <2>2, <2>5, <3>1 DEF OnlyOffered, VideoFrame
    <3>3. QED
      BY <1>0, <1>3, <3>2
  <2>6. QED
    BY <2>3, <2>4, <2>5, LogSource
<1>4. QED
  BY <1>1, <1>2, <1>3 DEF BehindLoss, InLog, Frame

\* A socket is opened before its viewer registers, and closed when it is no
\* longer registered.
LEMMA OpenFirstStep ==
  ASSUME TypeInv, ChainInv, GateInv, [Next]_vars, NEW d \in Clients
  PROVE  OpenFirst(d)'
<1> USE DEF TypeInv, TypeOK, OpenFirst, GateInv, At, cached, channels, Procs
<1>1. ASSUME NEW s \in Streams, StreamStep(s) PROVE OpenFirst(d)'
  BY <1>1, ClientsAssumption
     DEF StreamStep, ReadPacket, CachePacket, StreamEnds, StreamDone, Goto
<1>2. ASSUME NEW b \in Procs, BroadcastStep(b) PROVE OpenFirst(d)'
  <2>1. CASE BeginBroadcast(b)
    BY <2>1 DEF BeginBroadcast, Goto
  <2>2. ASSUME NEW c \in Clients, Deliver(b, c) PROVE OpenFirst(d)'
    <3>1. UNCHANGED <<pc, open, clients>> /\ c \in clients
      BY <2>2 DEF Deliver, ChainInv, Registered
    <3>2. pc[d] \in {"new", "opened"} => d # c
      BY <3>1 DEF ChainInv, Registered
    <3>3. d # c => videoSynced'[d] = videoSynced[d]
      BY <2>2, SyncedFrame DEF Deliver, Send, SendVideo
    <3>4. QED
      BY <3>1, <3>2, <3>3
  <2>3. CASE EndBroadcast(b)
    <3>1. AfterBroadcast(b) \in {"idle", "joined", "done"} /\ pc[b] = "deliver"
      BY <2>3 DEF AfterBroadcast, EndBroadcast
    <3>2. QED
      BY <2>3, <3>1 DEF EndBroadcast, Goto
  <2>4. QED
    BY <1>2, <2>1, <2>2, <2>3 DEF BroadcastStep
<1>3. ASSUME NEW c \in Clients, HandlerStep(c) PROVE OpenFirst(d)'
  <2>1. CASE OpenSocket(c)
    BY <2>1 DEF OpenSocket, Goto
  <2>2. CASE AddClient(c)
    BY <2>2 DEF AddClient, Goto
  <2>3. CASE SendCached(c)
    BY <2>3 DEF SendCached, Send
  <2>4. CASE CountViewers(c)
    BY <2>4 DEF CountViewers, Goto
  <2>5. CASE StartPump(c)
    BY <2>5 DEF StartPump, Goto
  <2>6. CASE RequestControl(c) \/ ReleaseControl(c)
    BY <2>6 DEF RequestControl, ReleaseControl
  <2>7. CASE CheckControl(c)
    BY <2>7 DEF CheckControl, Goto
  <2>8. CASE ForwardControl(c)
    BY <2>8 DEF ForwardControl, Goto
  <2>9. CASE RemoveClient(c)
    BY <2>9 DEF RemoveClient, Goto
  <2>10. QED
    BY <1>3, <2>1, <2>2, <2>3, <2>4, <2>5, <2>6, <2>7, <2>8, <2>9 DEF HandlerStep
<1>4. ASSUME NEW c \in Clients, PumpStep(c) PROVE OpenFirst(d)'
  BY <1>4 DEF PumpStep, PumpWrites, PumpFails, PumpEnds
<1>5. CASE BeginStop
  BY <1>5 DEF BeginStop
<1>6. CASE FinishStop
  BY <1>6 DEF FinishStop
<1>7. CASE UNCHANGED vars
  BY <1>7 DEF vars
<1>8. QED
  BY <1>1, <1>2, <1>3, <1>4, <1>5, <1>6, <1>7 DEF Next, Terminated

LEMMA AudioCached ==
  ASSUME TypeInv, audioConfig \in 0..Len(stream["audio"]), [Next]_vars
  PROVE  audioConfig' \in 0..Len(stream'["audio"])
<1>1. /\ Len(stream["audio"]) \in Nat
      /\ Len(stream'["audio"]) \in {Len(stream["audio"]), Len(stream["audio"]) + 1}
  BY StreamGrows DEF TypeInv, TypeOK, Streams
<1>2. ASSUME NEW s \in Streams, CachePacket(s)
      PROVE  audioConfig' \in {audioConfig, Len(stream["audio"])}
  BY <1>2 DEF CachePacket
<1>3. audioConfig' \in {audioConfig, Len(stream["audio"])}
  BY <1>2, CacheFrame DEF cached
<1>4. QED
  BY <1>1, <1>3

LEMMA GateStep ==
  ASSUME TypeInv, ChainInv, GateInv, [Next]_vars
  PROVE  GateInv'
<1>1. ASSUME NEW d \in clients' PROVE OnlyOffered(d)' /\ BehindLoss(d)'
  <2>1. d \in Clients
    BY TypeStep DEF TypeInv, TypeOK
  <2>2. CASE AddClient(d)
    BY <2>1, <2>2, GateJoin
  <2>3. CASE ~AddClient(d)
    <3>1. d \in clients /\ OnlyOffered(d) /\ BehindLoss(d)
      BY <2>3, JoinedFrame DEF GateInv
    <3>2. QED
      BY <2>1, <3>1, OnlyOfferedStep, BehindLossStep, DeliveredOrLost
  <2>4. QED
    BY <2>2, <2>3
<1>2. QED
  BY <1>1, OpenFirstStep, AudioCached DEF GateInv

-----------------------------------------------------------------------------
(* The refinement: every step is a step of each viewer's channel, or none *)

ChannelInv == TypeInv /\ ChainInv /\ GateInv

Refines(q) == [Channel(q)!Next]_(Channel(q)!channel)

\* What the channel of q consists of, apart from what has been offered.
Rest(q) == <<stream, Phase(q), log[q], taken[q], pending[q], since[q]>>

LEMMA Stutters ==
  ASSUME NEW q \in Clients, UNCHANGED <<Rest(q), OfferedTo(q)>>
  PROVE  Refines(q)
BY DEF Refines, Rest, Channel!channel

LEMMA StreamRefines ==
  ASSUME ChannelInv, NEW q \in Clients, NEW s \in Streams, StreamStep(s)
  PROVE  Refines(q)
<1> USE DEF ChannelInv, TypeInv, TypeOK, Procs
<1>0. q # s /\ q \in Procs /\ s \in Procs
  BY ClientsAssumption
<1>1. ASSUME NEW k \in Kinds, ReadPacket(s, k) PROVE Refines(q)
  <2>1. /\ stream' = [stream EXCEPT ![s] = Append(@, k)]
        /\ pc[s] = "idle" /\ pc'[s] \in {"cache", "bcast"}
        /\ \A p \in Procs : p # s => pc'[p] = pc[p]
        /\ UNCHANGED <<clients, open, log, taken, pending, since, todo>>
    BY <1>0, <1>1 DEF ReadPacket, Goto, At, channels
  <2>2. Len(stream'[s]) = Len(stream[s]) + 1 /\ Len(stream[s]) \in Nat
    BY <2>1
  <2>3. q \notin todo[s]
    BY <1>0, <2>1 DEF ChainInv, Registered, At
  <2>4. Offered(q, s)' = Offered(q, s)
    BY <2>1, <2>2, <2>3 DEF Offered
  <2>5. ASSUME NEW t \in Streams, t # s PROVE Offered(q, t)' = Offered(q, t)
    BY <2>1, <2>5 DEF Offered
  <2>6. OfferedTo(q)' = OfferedTo(q)
    BY <2>4, <2>5 DEF OfferedTo
  <2>7. Phase(q)' = Phase(q)
    BY <1>0, <2>1 DEF Phase, At
  <2>8. Channel(q)!ReadPacket(s)
    BY <2>1, <2>6, <2>7 DEF Channel!ReadPacket, Kinds
  <2>9. QED
    BY <2>8 DEF Refines, Channel!Next, Channel!Streams, Streams
<1>2. ASSUME UNCHANGED <<stream, clients, open, log, taken, pending, since, todo>>,
             NEW label, Goto(s, label),
             pc[s] \in {"cache", "bcast"} <=> label \in {"cache", "bcast"}
      PROVE  Refines(q)
  <2>1. pc'[s] = label /\ \A p \in Procs : p # s => pc'[p] = pc[p]
    BY <1>0, <1>2 DEF Goto
  <2>2. \A t \in Streams : Offered(q, t)' = Offered(q, t)
    BY <1>2, <2>1 DEF Offered
  <2>3. OfferedTo(q)' = OfferedTo(q) /\ Phase(q)' = Phase(q)
    BY <1>0, <1>2, <2>1, <2>2 DEF OfferedTo, Phase, At
  <2>4. QED
    BY <1>2, <2>3, Stutters DEF Rest
<1>3. CASE CachePacket(s)
  BY <1>2, <1>3 DEF CachePacket, At, channels
<1>4. CASE StreamEnds(s)
  BY <1>2, <1>4 DEF StreamEnds, At, channels
<1>5. CASE StreamDone(s)
  BY <1>2, <1>5 DEF StreamDone, At, channels
<1>6. QED
  BY <1>1, <1>3, <1>4, <1>5 DEF StreamStep

\* A viewer that is visited by a broadcast has joined, and its channel is open.
LEMMA VisitedJoined ==
  ASSUME ChannelInv, NEW b \in Procs, NEW q \in Clients, Deliver(b, q)
  PROVE  /\ q \in todo[b] /\ q \in clients /\ open[q] /\ pc[b] = "deliver"
         /\ Phase(q) = "joined" /\ Phase(q)' = "joined"
         /\ todo' = [todo EXCEPT ![b] = @ \ {q}]
         /\ UNCHANGED <<stream, taken, pending, since, pc, count>>
BY DEF Deliver, ChannelInv, ChainInv, Registered, Phase, At

LEMMA CountRefines ==
  ASSUME ChannelInv, NEW b \in Clients, NEW q \in Clients, Deliver(b, q)
  PROVE  Refines(q)
<1> USE DEF ChannelInv, TypeInv, TypeOK
<1>0. b \in Procs /\ b \notin Streams /\ b # "video"
  BY ClientsAssumption DEF Procs, Streams
<1>1. /\ open[q] /\ Phase(q) = "joined" /\ Phase(q)' = "joined"
      /\ todo' = [todo EXCEPT ![b] = @ \ {q}]
      /\ UNCHANGED <<stream, taken, pending, since, pc>>
  BY <1>0, VisitedJoined
<1>2. OfferedTo(q)' = OfferedTo(q)
  <2>1. \A t \in Streams : todo'[t] = todo[t]
    BY <1>0, <1>1 DEF Procs
  <2>2. QED
    BY <1>1, <2>1 DEF OfferedTo, Offered
<1>3. log'[q] = IF Accepts(q) THEN Append(log[q], Frame("viewers", count[b])) ELSE log[q]
  BY <1>0 DEF Deliver, Send, Message
<1>4. count[b] \in 0..Cardinality(Clients)
  OBVIOUS
<1>5. \E n \in 0..Cardinality(Clients) :
        log'[q] = IF Accepts(q) THEN Append(log[q], Frame("viewers", n)) ELSE log[q]
  BY <1>3, <1>4
<1>6. Channel(q)!Count
  <2> HIDE DEF ChannelInv, TypeInv, TypeOK
  <2>1. QED
    BY <1>1, <1>2, <1>5
       DEF Channel!Count, Channel!Offer, Channel!Put, Channel!Lose, Channel!Room,
           Channel!Frame, Frame, Accepts, HasRoom
<1>7. QED
  BY <1>6 DEF Refines, Channel!Next

\* A delivery from a stream offers its last packet.
LEMMA StreamOffers ==
  ASSUME ChannelInv, NEW b \in Streams, NEW q \in Clients, Deliver(b, q)
  PROVE  /\ OfferedTo(q)[b] = Len(stream[b]) - 1 /\ Len(stream[b]) \in Nat \ {0}
         /\ OfferedTo(q)' = [OfferedTo(q) EXCEPT ![b] = @ + 1]
<1> USE DEF ChannelInv, TypeInv, TypeOK
<1>0. b \in Procs /\ Streams \subseteq Procs
  BY DEF Procs
<1>1. /\ q \in todo[b] /\ pc[b] = "deliver"
      /\ todo' = [todo EXCEPT ![b] = @ \ {q}]
      /\ UNCHANGED <<stream, pc>>
  BY <1>0, VisitedJoined
<1>2. Len(stream[b]) \in Nat \ {0}
  BY <1>1 DEF Begun, Busy
<1>3. Offered(q, b) = Len(stream[b]) - 1 /\ Offered(q, b)' = Len(stream[b])
  BY <1>0, <1>1 DEF Offered
<1>4. ASSUME NEW t \in Streams, t # b PROVE Offered(q, t)' = Offered(q, t)
  BY <1>0, <1>1, <1>4 DEF Offered
<1>5. OfferedTo(q)[b] = Len(stream[b]) - 1 /\ Offered(q, b)' = OfferedTo(q)[b] + 1
  BY <1>2, <1>3 DEF OfferedTo
<1>6. OfferedTo(q)' = [OfferedTo(q) EXCEPT ![b] = @ + 1]
  BY <1>4, <1>5 DEF OfferedTo
<1>7. QED
  BY <1>2, <1>5, <1>6

LEMMA PacketRefines ==
  ASSUME ChannelInv, NEW b \in Streams, b # "video", NEW q \in Clients, Deliver(b, q)
  PROVE  Refines(q)
<1> DEFINE L == Len(stream[b])
<1>1. /\ open[q] /\ Phase(q) = "joined" /\ Phase(q)' = "joined"
      /\ UNCHANGED <<stream, taken, pending, since>>
  BY VisitedJoined DEF Procs
<1>2. /\ OfferedTo(q)[b] = L - 1 /\ L \in Nat \ {0}
      /\ OfferedTo(q)' = [OfferedTo(q) EXCEPT ![b] = @ + 1]
  BY StreamOffers
<1>3. log'[q] = IF Accepts(q) THEN Append(log[q], Frame(b, L)) ELSE log[q]
  BY DEF Deliver, Send, Message, ChannelInv, TypeInv, TypeOK
<1>4. Channel(q)!Offer(Channel(q)!Frame(b, OfferedTo(q)[b] + 1))
  <2>1. OfferedTo(q)[b] + 1 = L
    BY <1>2
  <2> HIDE DEF L
  <2>2. QED
    BY <1>1, <1>3, <2>1
       DEF Channel!Offer, Channel!Put, Channel!Lose, Channel!Room, Channel!Frame, Frame,
           Accepts, HasRoom
<1>5. Channel(q)!Broadcast(b)
  <2>1. OfferedTo(q)[b] < L
    BY <1>2
  <2>2. QED
    BY <1>1, <1>2, <1>4, <2>1 DEF Channel!Broadcast
<1>6. QED
  BY <1>5 DEF Refines, Channel!Next, Channel!Streams, Streams

\* A video packet is queued behind what it refers to, and lost only when the
\* channel is full or what it refers to was lost.
LEMMA VideoRefines ==
  ASSUME ChannelInv, NEW q \in Clients, Deliver("video", q)
  PROVE  Refines(q)
<1> DEFINE L == Len(stream["video"])
           kind == stream["video"][L]
           gated == kind = "delta" /\ ~videoSynced[q]
<1>1. /\ open[q] /\ q \in clients
      /\ Phase(q) = "joined" /\ Phase(q)' = "joined"
      /\ UNCHANGED <<stream, taken, pending, since>>
  BY VisitedJoined DEF Procs, Streams
<1>2. /\ OfferedTo(q)["video"] = L - 1 /\ L \in Nat \ {0}
      /\ OfferedTo(q)' = [OfferedTo(q) EXCEPT !["video"] = @ + 1]
  BY StreamOffers DEF Streams
<1>3. log'[q] = IF Accepts(q) /\ ~gated THEN Append(log[q], Frame("video", L)) ELSE log[q]
  BY DEF Deliver, SendVideo, ChannelInv, TypeInv, TypeOK
<1>4. since[q] \in Nat /\ Visited(q) = L - 1
  BY <1>2, VisitedType DEF ChannelInv, OfferedTo, Visited, Streams
<1>5. ASSUME Accepts(q) /\ ~gated PROVE Channel(q)!OfferVideo(L)
  <2>1. kind = "delta" /\ L - 1 > since[q] => InLog(q, Frame("video", L - 1))
    BY <1>5, DeltaHasPredecessor DEF ChannelInv
  <2>2. Channel(q)!Decodable(L)
    BY <2>1 DEF Channel!Decodable, Channel!Queued, Channel!Kind, Channel!Frame, Frame, InLog
  <2>3. Channel(q)!Room /\ Channel(q)!Put(Channel(q)!Frame("video", L))
    BY <1>3, <1>5
       DEF Accepts, HasRoom, Channel!Room, Channel!Put, Channel!Frame, Frame
  <2>4. QED
    BY <2>2, <2>3 DEF Channel!OfferVideo
<1>6. ASSUME ~Accepts(q) PROVE Channel(q)!OfferVideo(L)
  <2>1. ~Channel(q)!Room /\ Channel(q)!Lose
    BY <1>1, <1>3, <1>6 DEF Accepts, HasRoom, Channel!Room, Channel!Lose
  <2>2. QED
    BY <2>1 DEF Channel!OfferVideo
<1>7. ASSUME gated PROVE Channel(q)!OfferVideo(L)
  <2>1. L - 1 > since[q]
    BY <1>1, <1>4, <1>7 DEF ChannelInv, GateInv, BehindLoss
  <2>2. L - 1 = since[q] + 1 \/ ~InLog(q, Frame("video", L - 1))
    <3>1. L \in 1..L /\ L > 1
      <4> HIDE DEF L
      <4> QED BY <1>2, <1>4, <2>1
    <3>2. stream["video"][L - 1] # "config"
      BY <1>7, <3>1 DEF ChannelInv, ChainInv, Grammar
    <3>3. QED
      BY <1>1, <1>4, <1>7, <3>2 DEF ChannelInv, GateInv, BehindLoss
  <2>3. Channel(q)!Pointless(L)
    BY <1>7, <2>1, <2>2
       DEF Channel!Pointless, Channel!Queued, Channel!Kind, Channel!Frame, Frame, InLog
  <2>4. Channel(q)!Lose
    BY <1>3, <1>7 DEF Channel!Lose
  <2>5. QED
    BY <2>3, <2>4 DEF Channel!OfferVideo
<1>8. Channel(q)!OfferVideo(OfferedTo(q)["video"] + 1)
  <2>1. OfferedTo(q)["video"] + 1 = L
    BY <1>2
  <2>2. Channel(q)!OfferVideo(L)
    BY <1>5, <1>6, <1>7
  <2>3. QED
    BY <2>1, <2>2
<1>9. Channel(q)!Broadcast("video")
  <2>1. OfferedTo(q)["video"] < L
    BY <1>2
  <2>2. QED
    BY <1>1, <1>2, <1>8, <2>1 DEF Channel!Broadcast
<1>10. QED
  BY <1>9 DEF Refines, Channel!Next, Channel!Streams

LEMMA BroadcastRefines ==
  ASSUME ChannelInv, NEW q \in Clients, NEW b \in Procs, BroadcastStep(b)
  PROVE  Refines(q)
<1> USE DEF ChannelInv, TypeInv, TypeOK
<1>0. q \in Procs /\ Streams \subseteq Procs /\ q \notin Streams
  BY ClientsAssumption DEF Procs
<1>1. CASE BeginBroadcast(b)
  <2>1. /\ pc[b] = "bcast" /\ pc'[b] = "deliver" /\ todo'[b] = clients
        /\ \A p \in Procs : p # b => pc'[p] = pc[p] /\ todo'[p] = todo[p]
        /\ UNCHANGED <<stream, clients, open, log, taken, pending, since>>
    BY <1>1 DEF BeginBroadcast, Goto, At, channels
  <2>2. Phase(q)' = Phase(q)
    BY <1>0, <2>1 DEF Phase, At
  <2>3. \A t \in Streams : t # b => Offered(q, t)' = Offered(q, t)
    BY <1>0, <2>1 DEF Offered
  <2>4. CASE b \in Streams /\ q \notin clients
    <3>1. Offered(q, b) = Len(stream[b]) - 1 /\ Offered(q, b)' = Len(stream[b])
      BY <2>1, <2>4 DEF Offered
    <3>2. Len(stream[b]) \in Nat
      BY <2>4
    <3>3. OfferedTo(q)' = [OfferedTo(q) EXCEPT ![b] = @ + 1]
      <4>1. Offered(q, b)' = Offered(q, b) + 1
        BY <3>1, <3>2
      <4>2. OfferedTo(q)[b] = Offered(q, b)
        BY <2>4 DEF OfferedTo
      <4>3. QED
        BY <2>3, <2>4, <4>1, <4>2 DEF OfferedTo
    <3>4. OfferedTo(q)[b] < Len(stream[b]) /\ Phase(q) # "joined"
      BY <2>4, <3>1, <3>2 DEF OfferedTo, Phase
    <3>5. Channel(q)!Miss(b)
      BY <2>1, <2>2, <3>3, <3>4 DEF Channel!Miss
    <3>6. QED
      BY <2>4, <3>5 DEF Refines, Channel!Next, Channel!Streams, Streams
  <2>5. CASE ~(b \in Streams /\ q \notin clients)
    <3>1. b \in Streams => Offered(q, b)' = Offered(q, b)
      BY <2>1, <2>5 DEF Offered
    <3>2. OfferedTo(q)' = OfferedTo(q)
      BY <2>3, <3>1 DEF OfferedTo
    <3>3. QED
      BY <2>1, <2>2, <3>2, Stutters DEF Rest
  <2>6. QED
    BY <2>4, <2>5
<1>2. ASSUME NEW c \in Clients, Deliver(b, c) PROVE Refines(q)
  <2>1. CASE c = q
    BY <1>2, <2>1, CountRefines, PacketRefines, VideoRefines DEF Procs
  <2>2. CASE c # q
    <3>1. /\ todo' = [todo EXCEPT ![b] = @ \ {c}] /\ log'[q] = log[q]
          /\ UNCHANGED <<stream, taken, pending, since, pc, clients, open>>
      BY <1>2, <2>2 DEF Deliver, Send, SendVideo
    <3>2. \A t \in Streams : q \in todo'[t] <=> q \in todo[t]
      BY <1>0, <2>2, <3>1
    <3>3. OfferedTo(q)' = OfferedTo(q) /\ Phase(q)' = Phase(q)
      BY <3>1, <3>2 DEF OfferedTo, Offered, Phase, At
    <3>4. QED
      BY <3>1, <3>3, Stutters DEF Rest
  <2>3. QED
    BY <2>1, <2>2
<1>3. CASE EndBroadcast(b)
  <2>1. /\ pc[b] = "deliver" /\ pc'[b] \in {"idle", "joined", "done"}
        /\ \A p \in Procs : p # b => pc'[p] = pc[p]
        /\ UNCHANGED <<stream, clients, open, log, taken, pending, since, todo>>
    <3>1. AfterBroadcast(b) \in {"idle", "joined", "done"}
      BY DEF AfterBroadcast
    <3>2. QED
      BY <1>3, <3>1 DEF EndBroadcast, Goto, At, channels
  <2>2. OfferedTo(q)' = OfferedTo(q) /\ Phase(q)' = Phase(q)
    <3>1. \A t \in Streams : Offered(q, t)' = Offered(q, t)
      BY <1>0, <2>1 DEF Offered
    <3>2. QED
      BY <1>0, <2>1, <3>1 DEF OfferedTo, Phase, At
  <2>3. QED
    BY <2>1, <2>2, Stutters DEF Rest
<1>4. QED
  BY <1>1, <1>2, <1>3 DEF BroadcastStep

\* A step that is none of a stream's leaves what has been offered.
LEMMA OfferedStays ==
  ASSUME NEW q \in Clients, UNCHANGED <<stream, todo>>,
         \A s \in Streams : pc'[s] = pc[s]
  PROVE  OfferedTo(q)' = OfferedTo(q)
BY DEF OfferedTo, Offered

LEMMA OpenRefines ==
  ASSUME ChannelInv, NEW q \in Clients, OpenSocket(q) PROVE Refines(q)
<1> USE DEF ChannelInv, TypeInv, TypeOK, Procs
<1>1. /\ pc[q] = "new" /\ pc'[q] = "opened" /\ \A s \in Streams : pc'[s] = pc[s]
      /\ open'[q] /\ q \notin clients
      /\ UNCHANGED <<stream, clients, taken, pending, since, todo>>
  BY ClientsAssumption
     DEF OpenSocket, Goto, At, ChainInv, Registered
<1>2. log'[q] \in {<<>>, <<Frame("info", 0)>>}
  BY DEF OpenSocket
<1>3. Phase(q) = "new" /\ Phase(q)' = "open" /\ OfferedTo(q)' = OfferedTo(q)
  BY <1>1, OfferedStays DEF Phase, At
<1>4. Channel(q)!Open
  BY <1>1, <1>2, <1>3 DEF Channel!Open, Channel!Frame, Frame
<1>5. QED
  BY <1>4 DEF Refines, Channel!Next

\* A snapshot consists of frames that have been read and refer to no other.
LEMMA SnapshotFrames ==
  ASSUME ChannelInv
  PROVE  /\ Snapshot \in Seq([from : Streams, n : Nat])
         /\ \A i \in 1..Len(Snapshot) :
              /\ Snapshot[i].n \in 1..Len(stream[Snapshot[i].from])
              /\ Snapshot[i].from = "video" => Anchor(Snapshot[i].n)
<1> DEFINE Sound(q) ==
             /\ q \in Seq([from : Streams, n : Nat])
             /\ \A i \in 1..Len(q) :
                  /\ q[i].n \in 1..Len(stream[q[i].from])
                  /\ q[i].from = "video" => Anchor(q[i].n)
<1>1. ASSUME NEW q, NEW r, Sound(q), Sound(r) PROVE Sound(q \o r)
  BY <1>1
<1>2. ASSUME NEW s \in {"video", "audio"}, NEW n \in Nat,
             n # 0 => n \in 1..Len(stream[s]), s = "video" /\ n # 0 => Anchor(n)
      PROVE  Sound(Cached(s, n))
  <2>1. /\ Frame(s, n) \in [from : Streams, n : Nat]
        /\ Frame(s, n).from = s /\ Frame(s, n).n = n
    BY DEF Frame, Streams
  <2>2. CASE n = 0
    BY <2>2 DEF Cached
  <2>3. CASE n # 0
    <3>1. Cached(s, n) = <<Frame(s, n)>>
      BY <2>3 DEF Cached
    <3>2. QED
      BY <1>2, <2>1, <2>3, <3>1
  <2>4. QED
    BY <2>2, <2>3
<1>3. /\ Sound(Cached("video", videoConfig))
      /\ Sound(Cached("video", lastKeyFrame))
      /\ Sound(Cached("audio", audioConfig))
  <2>1. /\ {videoConfig, lastKeyFrame, audioConfig} \subseteq Nat
        /\ videoConfig # 0 => Anchor(videoConfig)
        /\ lastKeyFrame # 0 => Anchor(lastKeyFrame)
    BY DEF ChannelInv, ChainInv, Anchored, TypeInv, TypeOK
  <2>2. audioConfig # 0 => audioConfig \in 1..Len(stream["audio"])
    <3>1. audioConfig \in 0..Len(stream["audio"]) /\ Len(stream["audio"]) \in Nat
      BY DEF ChannelInv, GateInv, TypeInv, TypeOK, Streams
    <3>2. QED
      BY <3>1
  <2>3. QED
    BY <1>2, <2>1, <2>2 DEF Anchor
<1>4. Sound(Snapshot)
  <2> HIDE DEF Sound
  <2> QED BY <1>1, <1>3 DEF Snapshot
<1>5. QED
  BY <1>4

LEMMA JoinRefines ==
  ASSUME ChannelInv, NEW q \in Clients, AddClient(q) PROVE Refines(q)
<1> USE DEF ChannelInv, TypeInv, TypeOK, Procs
<1>1. /\ pc[q] = "opened" /\ pc'[q] = "cached" /\ \A s \in Streams : pc'[s] = pc[s]
      /\ open[q] /\ q \notin clients /\ q \in clients'
      /\ UNCHANGED <<stream, log, taken, todo>>
      /\ pending'[q] = Snapshot
  BY ClientsAssumption DEF AddClient, Goto, At, ChainInv, Registered, channels
<1>2. Phase(q) = "open" /\ Phase(q)' = "joined" /\ OfferedTo(q)' = OfferedTo(q)
  BY <1>1, OfferedStays DEF Phase, At
<1>3. since'[q] = OfferedTo(q)["video"]
  <2>1. q \notin todo["video"]
    BY WriteLocked DEF AddClient, ChainInv, Streams
  <2>2. QED
    BY <2>1 DEF AddClient, OfferedTo, Offered, Streams
<1>4. Channel(q)!Join
  <2> HIDE DEF ChannelInv, TypeInv, TypeOK
  <2>1. QED
    BY <1>1, <1>2, <1>3, SnapshotFrames
       DEF Channel!Join, Channel!Kind, Channel!Streams, Streams, Anchor
<1>5. QED
  BY <1>4 DEF Refines, Channel!Next

LEMMA SendCachedRefines ==
  ASSUME ChannelInv, NEW q \in Clients, SendCached(q) PROVE Refines(q)
<1> USE DEF ChannelInv, TypeInv, TypeOK, Procs
<1>1. /\ pc[q] = "cached" /\ pending[q] # <<>> /\ pending'[q] = Tail(pending[q])
      /\ UNCHANGED <<stream, taken, open, clients, pc, todo, since>>
  BY DEF SendCached, At
<1>2. Phase(q)' = Phase(q) /\ OfferedTo(q)' = OfferedTo(q)
  BY <1>1, OfferedStays DEF Phase, At
<1>3. Phase(q) = "joined" <=> open[q]
  BY <1>1 DEF Phase, At, GateInv, OpenFirst, ChainInv, Registered
<1>4. log'[q] = IF Accepts(q) THEN Append(log[q], Head(pending[q])) ELSE log[q]
  BY DEF SendCached, Send
<1>5. Channel(q)!SendCached
  <2> HIDE DEF ChannelInv, TypeInv, TypeOK
  <2>1. QED
    BY <1>1, <1>2, <1>3, <1>4
       DEF Channel!SendCached, Channel!Offer, Channel!Put, Channel!Lose, Channel!Room,
           Accepts, HasRoom
<1>6. QED
  BY <1>5 DEF Refines, Channel!Next

LEMMA LeaveRefines ==
  ASSUME ChannelInv, NEW q \in Clients,
         UNCHANGED <<stream, log, taken, todo, pending, since>>,
         \A s \in Streams : pc'[s] = pc[s], pc[q] = "new" <=> pc'[q] = "new",
         q \notin clients' \/ q \in clients, q \in clients \/ open'[q] = open[q],
         q \in clients /\ q \notin clients' => ~open'[q]
  PROVE  Refines(q)
<1>1. OfferedTo(q)' = OfferedTo(q)
  BY OfferedStays
<1>2. CASE q \in clients /\ q \notin clients'
  <2>1. Phase(q) = "joined" /\ Phase(q)' = "closed"
    BY <1>2 DEF Phase, At, ChannelInv, ChainInv, Registered
  <2>2. Channel(q)!Close
    BY <1>1, <2>1 DEF Channel!Close
  <2>3. QED
    BY <2>2 DEF Refines, Channel!Next
<1>3. CASE ~(q \in clients /\ q \notin clients')
  <2>1. Phase(q)' = Phase(q)
    BY <1>3 DEF Phase, At
  <2>2. QED
    BY <1>1, <2>1, Stutters DEF Rest
<1>4. QED
  BY <1>2, <1>3

LEMMA HandlerRefines ==
  ASSUME ChannelInv, NEW q \in Clients, NEW c \in Clients, HandlerStep(c)
  PROVE  Refines(q)
<1> USE DEF ChannelInv, TypeInv, TypeOK, Procs
<1>0. c \notin Streams
  BY ClientsAssumption
\* A step of another viewer's handler does not touch this one's channel.
<1>1. ASSUME UNCHANGED <<stream, todo, clients, open>>, NEW label, Goto(c, label),
             pc[c] = "new" <=> label = "new", UNCHANGED <<log, taken, pending, since>>
      PROVE  Refines(q)
  BY <1>0, <1>1, LeaveRefines DEF Goto
<1>2. CASE OpenSocket(c)
  <2>1. ASSUME c # q PROVE Refines(q)
    <3>1. /\ UNCHANGED <<stream, taken, todo, pending, since, clients>>
          /\ log'[q] = log[q] /\ open'[q] = open[q] /\ pc'[q] = pc[q]
          /\ \A s \in Streams : pc'[s] = pc[s]
      BY <1>0, <1>2, <2>1 DEF OpenSocket, Goto
    <3>2. OfferedTo(q)' = OfferedTo(q) /\ Phase(q)' = Phase(q)
      BY <3>1, OfferedStays DEF Phase, At
    <3>3. QED
      BY <3>1, <3>2, Stutters DEF Rest
  <2>2. QED
    BY <1>2, <2>1, OpenRefines
<1>3. CASE AddClient(c)
  <2>1. ASSUME c # q PROVE Refines(q)
    <3>1. /\ UNCHANGED <<stream, log, taken, todo, open>>
          /\ pending'[q] = pending[q] /\ since'[q] = since[q] /\ pc'[q] = pc[q]
          /\ \A s \in Streams : pc'[s] = pc[s]
          /\ q \in clients' <=> q \in clients
      BY <1>0, <1>3, <2>1 DEF AddClient, Goto, channels
    <3>2. OfferedTo(q)' = OfferedTo(q) /\ Phase(q)' = Phase(q)
      BY <3>1, OfferedStays DEF Phase, At
    <3>3. QED
      BY <3>1, <3>2, Stutters DEF Rest
  <2>2. QED
    BY <1>3, <2>1, JoinRefines
<1>4. CASE SendCached(c)
  <2>1. ASSUME c # q PROVE Refines(q)
    <3>1. /\ UNCHANGED <<stream, taken, todo, open, since, clients, pc>>
          /\ log'[q] = log[q] /\ pending'[q] = pending[q]
      BY <1>4, <2>1 DEF SendCached, Send
    <3>2. OfferedTo(q)' = OfferedTo(q) /\ Phase(q)' = Phase(q)
      BY <3>1, OfferedStays DEF Phase, At
    <3>3. QED
      BY <3>1, <3>2, Stutters DEF Rest
  <2>2. QED
    BY <1>4, <2>1, SendCachedRefines
<1>5. CASE CountViewers(c) \/ StartPump(c)
  BY <1>1, <1>5 DEF CountViewers, StartPump, At, channels
<1>6. CASE CheckControl(c) \/ ForwardControl(c)
  BY <1>1, <1>6 DEF CheckControl, ForwardControl, At, channels
<1>7. CASE RequestControl(c) \/ ReleaseControl(c)
  BY <1>7, LeaveRefines DEF RequestControl, ReleaseControl, channels
<1>8. CASE RemoveClient(c)
  <2>1. /\ clients' = clients \ {c} /\ open' = [open EXCEPT ![c] = @ /\ c \notin clients]
        /\ UNCHANGED <<stream, log, taken, todo, pending, since>>
    BY <1>8 DEF RemoveClient
  <2>2. /\ \A s \in Streams : pc'[s] = pc[s]
        /\ pc[q] = "new" <=> pc'[q] = "new"
    BY <1>0, <1>8 DEF RemoveClient, Goto, At
  <2>3. QED
    BY <2>1, <2>2, LeaveRefines
<1>9. QED
  BY <1>2, <1>3, <1>4, <1>5, <1>6, <1>7, <1>8 DEF HandlerStep

LEMMA PumpRefines ==
  ASSUME ChannelInv, NEW q \in Clients, NEW c \in Clients, PumpStep(c)
  PROVE  Refines(q)
<1>1. ASSUME taken[c] < Len(log[c]), taken' = [taken EXCEPT ![c] = @ + 1],
             UNCHANGED <<stream, log, todo, pending, since, clients, open, pc>>
      PROVE  Refines(q)
  <2>1. OfferedTo(q)' = OfferedTo(q) /\ Phase(q)' = Phase(q)
    BY <1>1, OfferedStays DEF Phase, At
  <2>2. CASE c = q
    <3>1. taken'[q] = taken[q] + 1
      BY <1>1, <2>2 DEF ChannelInv, TypeInv, TypeOK
    <3>2. Channel(q)!Take
      BY <1>1, <2>1, <2>2, <3>1 DEF Channel!Take
    <3>3. QED
      BY <3>2 DEF Refines, Channel!Next
  <2>3. CASE c # q
    <3>1. taken'[q] = taken[q]
      BY <1>1, <2>3 DEF ChannelInv, TypeInv, TypeOK
    <3>2. QED
      BY <1>1, <2>1, <3>1, Stutters DEF Rest
  <2>4. QED
    BY <2>2, <2>3
<1>2. CASE PumpWrites(c) \/ PumpFails(c)
  BY <1>1, <1>2 DEF PumpWrites, PumpFails
<1>3. CASE PumpEnds(c)
  BY <1>3, LeaveRefines DEF PumpEnds, channels
<1>4. QED
  BY <1>2, <1>3 DEF PumpStep

LEMMA ChannelStep ==
  ASSUME ChannelInv, [Next]_vars, NEW q \in Clients
  PROVE  Refines(q)
<1>1. CASE FinishStop
  <2>1. /\ open'[q] = (open[q] /\ q \notin clients) /\ clients' = {}
        /\ UNCHANGED <<stream, log, taken, todo, pending, since, pc>>
    BY <1>1 DEF FinishStop
  <2>2. q \in clients \/ open'[q] = open[q]
    BY <2>1 DEF ChannelInv, TypeInv, TypeOK
  <2>3. QED
    BY <2>1, <2>2, LeaveRefines
<1>2. CASE BeginStop \/ Terminated \/ UNCHANGED vars
  BY <1>2, LeaveRefines DEF BeginStop, Terminated, vars, channels
<1>3. QED
  BY <1>1, <1>2, StreamRefines, BroadcastRefines, HandlerRefines, PumpRefines DEF Next

LEMMA ChannelInit == Init => \A c \in Clients : Channel(c)!Init
<1> SUFFICES ASSUME Init, NEW q \in Clients PROVE Channel(q)!Init
  OBVIOUS
<1>1. /\ Phase(q) = "new" /\ stream = [s \in Streams |-> <<>>]
      /\ log[q] = <<>> /\ taken[q] = 0 /\ pending[q] = <<>> /\ since[q] = 0
  BY ClientsAssumption DEF Init, Phase, At, Procs
<1>2. \A s \in Streams : Offered(q, s) = 0
  BY DEF Init, Offered, Procs
<1>3. OfferedTo(q) = [s \in Streams |-> 0]
  BY <1>2 DEF OfferedTo
<1>4. QED
  BY <1>1, <1>3 DEF Channel!Init, Channel!Streams, Streams

\* The relay implements the abstract channel for each of its viewers, for any set
\* of viewers and any capacity: what the other viewers, the stream readers and
\* Stop do interleaves with the deliveries to one viewer, and all it ever sees is
\* a bounded channel that offers each packet once and in order, and that leaves a
\* hole in the video only by being full or behind such a hole.
THEOREM ChannelTheorem == Spec => ImplementsChannel
<1>1. Init => ChannelInv
  BY TypeInit, ChainInit, GateInit DEF ChannelInv
<1>2. ChannelInv /\ [Next]_vars => ChannelInv'
  <2> SUFFICES ASSUME ChannelInv, [Next]_vars PROVE ChannelInv'
    OBVIOUS
  <2>1. TypeInv /\ ChainInv /\ GateInv
    BY DEF ChannelInv
  <2>2. TypeInv' /\ GateInv'
    BY <2>1, TypeStep, GateStep
  <2>3. ChainInv'
    BY <2>1, GrammarStep, AnchoredStep, LogSoundStep, RegisteredStep, InSyncStep,
       ChainStep DEF ChainInv
  <2>4. QED
    BY <2>2, <2>3 DEF ChannelInv
<1>3. ChannelInv /\ [Next]_vars
        => [\A c \in Clients : [Channel(c)!Next]_(Channel(c)!channel)]_vars
  BY ChannelStep DEF Refines
<1>4. QED
  BY ChannelInit, <1>1, <1>2, <1>3, PTL DEF Spec, ImplementsChannel

=============================================================================
