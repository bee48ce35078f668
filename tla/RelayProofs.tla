---------------------------- MODULE RelayProofs ----------------------------
(* Proofs about Relay: for any set of viewers, any capacity and any bounds. *)
EXTENDS Relay, FiniteSetTheorems, SequenceTheorems, TLAPS

-----------------------------------------------------------------------------
(* Types *)

\* A handler that has not begun has no pump, and a reader that is busy with a
\* packet has one: OpenSocket and AddClient need it for their types.
Begun ==
  /\ \A c \in Clients : At(c, "new") => pump[c] = "off" /\ taken[c] = 0
  /\ \A s \in Streams : Busy(s) => Len(stream[s]) > 0

TypeInv == TypeOK /\ Begun

\* A cached frame is a message, and a snapshot consists of messages.
LEMMA FrameType ==
  ASSUME NEW s \in Streams \cup {"info", "viewers"}, NEW n \in Nat
  PROVE  Frame(s, n) \in Messages
BY DEF Frame, Messages

LEMMA SnapshotType ==
  ASSUME TypeOK PROVE Snapshot \in Seq(Messages)
<1>1. ASSUME NEW s \in {"video", "audio"}, NEW n \in Nat
      PROVE  Cached(s, n) \in Seq(Messages)
  <2>1. Frame(s, n) \in Messages
    BY FrameType DEF Streams
  <2>2. <<Frame(s, n)>> \in Seq(Messages) /\ <<>> \in Seq(Messages)
    BY <2>1
  <2>3. QED
    BY <2>2 DEF Cached
<1>2. {videoConfig, lastKeyFrame, audioConfig} \subseteq Nat
  BY DEF TypeOK
<1>3. QED
  BY <1>1, <1>2 DEF Snapshot

\* No more viewers are registered than there are.
LEMMA CountType ==
  ASSUME TypeOK PROVE Cardinality(clients) \in 0..Cardinality(Clients)
<1>1. clients \subseteq Clients /\ IsFiniteSet(Clients)
  BY ClientsAssumption DEF TypeOK
<1>2. /\ Cardinality(clients) \in Nat /\ Cardinality(Clients) \in Nat
      /\ Cardinality(clients) <= Cardinality(Clients)
  BY <1>1, FS_Subset, FS_CardinalityType
<1>3. QED
  BY <1>2

\* What any broadcaster delivers is a message.
LEMMA MessageType ==
  ASSUME TypeOK, NEW b \in Procs PROVE Message(b) \in Messages
BY ClientsAssumption DEF TypeOK, Message, Messages, Frame, Procs, Streams

\* A log that takes a message or drops it keeps its type, and the channel its
\* bound.
LEMMA SendType ==
  ASSUME TypeOK, NEW c \in Clients, NEW m \in Messages, NEW ok \in BOOLEAN,
         ok => HasRoom(c), UNCHANGED taken,
         log' = [log EXCEPT ![c] = IF ok THEN Append(@, m) ELSE @]
  PROVE  /\ log' \in [Clients -> Seq(Messages)]
         /\ \A d \in Clients : Len(log'[d]) - taken'[d] \in 0..Cap
<1>1. log[c] \in Seq(Messages) /\ Append(log[c], m) \in Seq(Messages)
  BY DEF TypeOK
<1>2. log' \in [Clients -> Seq(Messages)]
  BY <1>1 DEF TypeOK
<1>3. ASSUME NEW d \in Clients PROVE Len(log'[d]) - taken'[d] \in 0..Cap
  <2>1. /\ log[d] \in Seq(Messages) /\ taken[d] \in Nat /\ Cap \in Nat
        /\ Len(log[d]) - taken[d] \in 0..Cap
    BY BoundsAssumption DEF TypeOK
  <2>2. CASE d = c /\ ok
    <3>1. log'[c] = Append(log[c], m)
      BY <2>2 DEF TypeOK
    <3>2. Len(log'[c]) = Len(log[c]) + 1 /\ Len(log[c]) - taken[c] < Cap
      BY <1>1, <2>2, <3>1 DEF HasRoom
    <3>3. QED
      BY <2>1, <2>2, <3>2, LenProperties
  <2>3. CASE ~(d = c /\ ok)
    BY <2>1, <2>3 DEF TypeOK
  <2>4. QED
    BY <2>2, <2>3
<1>4. QED
  BY <1>2, <1>3

-----------------------------------------------------------------------------
(* Every step keeps the types.  The steps that send need SendType, the others *)
(* follow from what they assign.                                              *)

LEMMA DeliverType ==
  ASSUME TypeInv, NEW b \in Procs, NEW c \in Clients, Deliver(b, c)
  PROVE  TypeInv'
<1>1. Message(b) \in Messages
  BY MessageType DEF TypeInv
<1>2. CASE b # "video"
  <2>1. log' = [log EXCEPT ![c] = IF Accepts(c) THEN Append(@, Message(b)) ELSE @]
    BY <1>2 DEF Deliver, Send
  <2>2. Accepts(c) \in BOOLEAN /\ (Accepts(c) => HasRoom(c))
    BY DEF Accepts, TypeInv, TypeOK, HasRoom
  <2>3. QED
    BY <1>1, <1>2, <2>1, <2>2, SendType DEF Deliver, Send, TypeInv, TypeOK, Begun, At, Busy, cached
<1>3. CASE b = "video"
  <2> DEFINE n == Len(stream[b])
             gated == stream["video"][n] = "delta" /\ ~videoSynced[c]
             ok == Accepts(c) /\ ~gated
  <2>1. log' = [log EXCEPT ![c] = IF ok THEN Append(@, Message(b)) ELSE @]
    BY <1>3 DEF Deliver, SendVideo, Message, Streams
  <2>2. ok \in BOOLEAN /\ (ok => HasRoom(c))
    BY DEF Accepts, TypeInv, TypeOK, HasRoom
  <2>3. UNCHANGED taken
    BY DEF Deliver
  <2>4. /\ log' \in [Clients -> Seq(Messages)]
        /\ \A d \in Clients : Len(log'[d]) - taken'[d] \in 0..Cap
    <3> HIDE DEF ok
    <3> QED BY <1>1, <2>1, <2>2, <2>3, SendType DEF TypeInv
  <2>5. videoSynced' \in [Clients -> BOOLEAN]
    <3>1. PICK v \in BOOLEAN : videoSynced' = [videoSynced EXCEPT ![c] = v]
      <4>1. HasRoom(c) \in BOOLEAN /\ videoSynced[c] \in BOOLEAN
        BY DEF HasRoom, TypeInv, TypeOK
      <4>2. QED
        BY <1>3, <4>1 DEF Deliver, SendVideo
    <3>2. QED
      BY <3>1 DEF TypeInv, TypeOK
  <2>6. QED
    BY <2>4, <2>5 DEF Deliver, TypeInv, TypeOK, Begun, At, Busy, cached
<1>4. QED
  BY <1>2, <1>3

LEMMA SendCachedType ==
  ASSUME TypeInv, NEW c \in Clients, SendCached(c)
  PROVE  TypeInv'
<1>1. Head(pending[c]) \in Messages /\ Tail(pending[c]) \in Seq(Messages)
  BY DEF SendCached, TypeInv, TypeOK
<1>2. Accepts(c) \in BOOLEAN /\ (Accepts(c) => HasRoom(c))
  BY DEF Accepts, TypeInv, TypeOK, HasRoom
<1>3. /\ log' \in [Clients -> Seq(Messages)]
      /\ \A d \in Clients : Len(log'[d]) - taken'[d] \in 0..Cap
  BY <1>1, <1>2, SendType DEF SendCached, Send, TypeInv
<1>4. QED
  BY <1>1, <1>3 DEF SendCached, Send, TypeInv, TypeOK, Begun, At, Busy, cached

LEMMA OpenSocketType ==
  ASSUME TypeInv, NEW c \in Clients, OpenSocket(c)
  PROVE  TypeInv'
<1>1. PICK info \in {<<>>, <<Frame("info", 0)>>} : log' = [log EXCEPT ![c] = info]
  BY DEF OpenSocket
<1>2. Frame("info", 0) \in Messages
  BY FrameType
<1>3. info \in Seq(Messages) /\ Len(info) \in 0..1
  <2>1. CASE info = <<>>
    BY <2>1
  <2>2. CASE info = <<Frame("info", 0)>>
    BY <1>2, <2>2
  <2>3. QED
    BY <2>1, <2>2
<1>4. log' \in [Clients -> Seq(Messages)]
  BY <1>1, <1>3 DEF TypeInv, TypeOK
<1>5. taken[c] = 0 /\ taken' = taken
  BY DEF OpenSocket, TypeInv, Begun
<1>6. \A d \in Clients : Len(log'[d]) - taken'[d] \in 0..Cap
  <2>1. log'[c] = info
    BY <1>1 DEF TypeInv, TypeOK
  <2>2. Cap \in Nat \ {0}
    BY BoundsAssumption
  <2>3. Len(info) - 0 \in 0..Cap
    <3>1. \A k \in 0..1 : k - 0 \in 0..Cap
      BY <2>2
    <3>2. QED
      BY <1>3, <3>1
  <2>4. \A d \in Clients : d # c => log'[d] = log[d]
    BY <1>1 DEF TypeInv, TypeOK
  <2>5. QED
    BY <1>5, <2>1, <2>3, <2>4 DEF TypeInv, TypeOK
<1>7. QED
  BY <1>4, <1>6, ClientsAssumption
     DEF OpenSocket, Goto, TypeInv, TypeOK, Begun, At, Busy, Procs, cached

LEMMA AddClientType ==
  ASSUME TypeInv, NEW c \in Clients, AddClient(c)
  PROVE  TypeInv'
<1>1. pending' \in [Clients -> Seq(Messages)]
  BY SnapshotType DEF AddClient, TypeInv, TypeOK
<1>2. since' \in [Clients -> Nat]
  <2>1. Len(stream["video"]) \in Nat
    BY DEF TypeInv, TypeOK, Streams
  <2>2. pc["video"] \in {"cache", "bcast"} => Len(stream["video"]) - 1 \in Nat
    BY <2>1 DEF TypeInv, Begun, Busy, Streams
  <2>3. QED
    BY <2>1, <2>2 DEF AddClient, TypeInv, TypeOK
<1>3. QED
  BY <1>1, <1>2, ClientsAssumption
     DEF AddClient, Goto, TypeInv, TypeOK, Begun, At, Busy, Procs, cached, channels

LEMMA ReadPacketType ==
  ASSUME TypeInv, NEW s \in Streams, NEW k \in Kinds, ReadPacket(s, k)
  PROVE  TypeInv'
<1>1. /\ Append(stream[s], k) \in Seq(Kinds)
      /\ Len(Append(stream[s], k)) > 0
  BY DEF TypeInv, TypeOK
<1>2. stream' \in [Streams -> Seq(Kinds)]
  BY <1>1 DEF ReadPacket, TypeInv, TypeOK
<1>3. Begun'
  BY <1>1, ClientsAssumption
     DEF ReadPacket, Goto, TypeInv, TypeOK, Begun, At, Busy, Procs, channels
<1>4. QED
  BY <1>2, <1>3 DEF ReadPacket, Goto, TypeInv, TypeOK, Procs, cached, channels

LEMMA TypeStep == TypeInv /\ [Next]_vars => TypeInv'
<1> SUFFICES ASSUME TypeInv, [Next]_vars PROVE TypeInv'
  OBVIOUS
<1> USE DEF TypeInv, TypeOK, Begun, At, Busy, cached, channels
<1>1. ASSUME NEW s \in Streams, StreamStep(s) PROVE TypeInv'
  <2>1. ASSUME NEW k \in Kinds, ReadPacket(s, k) PROVE TypeInv'
    BY <2>1, ReadPacketType
  <2>2. CASE CachePacket(s)
    BY SMTT(30), <2>2, ClientsAssumption DEF CachePacket, Goto, Procs
  <2>3. CASE StreamEnds(s)
    BY <2>3, ClientsAssumption DEF StreamEnds, Goto, Procs
  <2>4. CASE StreamDone(s)
    BY <2>4, ClientsAssumption DEF StreamDone, Goto, Procs
  <2>5. QED
    BY <1>1, <2>1, <2>2, <2>3, <2>4 DEF StreamStep
<1>2. ASSUME NEW b \in Procs, BroadcastStep(b) PROVE TypeInv'
  <2>1. CASE BeginBroadcast(b)
    BY SMTT(30), <2>1 DEF BeginBroadcast, Goto
  <2>2. ASSUME NEW c \in Clients, Deliver(b, c) PROVE TypeInv'
    BY <2>2, DeliverType
  <2>3. CASE EndBroadcast(b)
    <3>1. AfterBroadcast(b) \in {"idle", "joined", "done"}
      BY ClientsAssumption DEF AfterBroadcast, Procs, Streams
    <3>2. QED
      BY <2>3, <3>1 DEF EndBroadcast, Goto, Procs
  <2>4. QED
    BY <1>2, <2>1, <2>2, <2>3 DEF BroadcastStep
<1>3. ASSUME NEW c \in Clients, HandlerStep(c) PROVE TypeInv'
  <2>1. CASE OpenSocket(c)
    BY <2>1, OpenSocketType
  <2>2. CASE AddClient(c)
    BY <2>2, AddClientType
  <2>3. CASE SendCached(c)
    BY <2>3, SendCachedType
  <2>4. CASE CountViewers(c)
    BY <2>4, CountType, ClientsAssumption DEF CountViewers, Goto, Procs
  <2>5. CASE StartPump(c)
    BY <2>5, ClientsAssumption DEF StartPump, Goto, Procs
  <2>6. CASE RequestControl(c)
    BY <2>6 DEF RequestControl
  <2>7. CASE ReleaseControl(c)
    BY <2>7 DEF ReleaseControl
  <2>8. CASE CheckControl(c)
    BY <2>8, ClientsAssumption DEF CheckControl, Goto, Procs
  <2>9. CASE ForwardControl(c)
    BY <2>9, ClientsAssumption DEF ForwardControl, Goto, Procs
  <2>10. CASE RemoveClient(c)
    BY <2>10, ClientsAssumption DEF RemoveClient, Goto, Procs
  <2>11. QED
    BY <1>3, <2>1, <2>2, <2>3, <2>4, <2>5, <2>6, <2>7, <2>8, <2>9, <2>10
       DEF HandlerStep
<1>4. ASSUME NEW c \in Clients, PumpStep(c) PROVE TypeInv'
  <2>1. ASSUME taken' = [taken EXCEPT ![c] = @ + 1], taken[c] < Len(log[c]),
               UNCHANGED log
        PROVE  /\ taken' \in [Clients -> Nat]
               /\ \A d \in Clients : Len(log'[d]) - taken'[d] \in 0..Cap
    <3>1. \A d \in Clients : Len(log[d]) \in Nat /\ taken[d] \in Nat
      OBVIOUS
    <3>2. taken[c] + 1 \in Nat /\ Len(log[c]) - (taken[c] + 1) \in 0..Cap
      <4>1. Cap \in Nat
        BY BoundsAssumption
      <4>2. Len(log[c]) - taken[c] \in 0..Cap
        OBVIOUS
      <4>3. QED
        BY <2>1, <3>1, <4>1, <4>2
    <3>3. QED
      BY <2>1, <3>2
  <2>2. CASE PumpWrites(c)
    BY <2>1, <2>2 DEF PumpWrites
  <2>3. CASE PumpFails(c)
    BY <2>1, <2>3 DEF PumpFails
  <2>4. CASE PumpEnds(c)
    BY <2>4 DEF PumpEnds
  <2>5. QED
    BY <1>4, <2>2, <2>3, <2>4 DEF PumpStep
<1>5. CASE BeginStop
  BY <1>5 DEF BeginStop
<1>6. CASE FinishStop
  BY <1>6 DEF FinishStop
<1>7. CASE UNCHANGED vars
  BY <1>7 DEF vars
<1>8. QED
  BY <1>1, <1>2, <1>3, <1>4, <1>5, <1>6, <1>7 DEF Next, Terminated

LEMMA TypeInit == Init => TypeInv
<1> SUFFICES ASSUME Init PROVE TypeInv
  OBVIOUS
<1>1. count \in [Clients -> 0..Cardinality(Clients)]
  <2>1. Cardinality(Clients) \in Nat
    BY ClientsAssumption, FS_CardinalityType
  <2>2. QED
    BY <2>1 DEF Init
<1>2. QED
  BY <1>1, BoundsAssumption, ClientsAssumption
     DEF Init, TypeInv, TypeOK, Begun, At, Busy, Procs, Streams

\* The type invariant: whatever the interleaving, no send channel ever holds
\* more than its capacity.
THEOREM TypeCorrect == Spec => []TypeOK
<1>1. TypeInv => TypeOK
  BY DEF TypeInv
<1>2. QED
  BY TypeInit, TypeStep, <1>1, PTL DEF Spec

-----------------------------------------------------------------------------
(* Which steps write what *)

\* Only the arrival of a packet changes a stream.
LEMMA StreamFrame ==
  ASSUME [Next]_vars
  PROVE  \/ \E s \in Streams, k \in Kinds : ReadPacket(s, k)
         \/ UNCHANGED stream
BY DEF Next, StreamStep, BroadcastStep, HandlerStep, PumpStep, vars, cached, channels,
       CachePacket, StreamEnds, StreamDone, BeginBroadcast, Deliver, EndBroadcast,
       OpenSocket, AddClient, SendCached, CountViewers, StartPump, RequestControl,
       ReleaseControl, CheckControl, ForwardControl, RemoveClient,
       PumpWrites, PumpFails, PumpEnds, BeginStop, FinishStop, Terminated

\* Only CachePacket changes the cache.
LEMMA CacheFrame ==
  ASSUME [Next]_vars
  PROVE  \/ \E s \in Streams : CachePacket(s)
         \/ UNCHANGED cached
BY DEF Next, StreamStep, BroadcastStep, HandlerStep, PumpStep, vars, cached, channels,
       ReadPacket, StreamEnds, StreamDone, BeginBroadcast, Deliver, EndBroadcast,
       OpenSocket, AddClient, SendCached, CountViewers, StartPump, RequestControl,
       ReleaseControl, CheckControl, ForwardControl, RemoveClient,
       PumpWrites, PumpFails, PumpEnds, BeginStop, FinishStop, Terminated

\* Snapshots are taken by AddClient and used up by SendCached.
LEMMA PendingFrame ==
  ASSUME [Next]_vars
  PROVE  \/ \E c \in Clients : AddClient(c) \/ SendCached(c)
         \/ UNCHANGED pending
BY DEF Next, StreamStep, BroadcastStep, HandlerStep, PumpStep, vars, cached, channels,
       ReadPacket, CachePacket, StreamEnds, StreamDone, BeginBroadcast, Deliver,
       EndBroadcast, OpenSocket, CountViewers, StartPump, RequestControl,
       ReleaseControl, CheckControl, ForwardControl, RemoveClient,
       PumpWrites, PumpFails, PumpEnds, BeginStop, FinishStop, Terminated

\* Only three steps put anything on a channel.
LEMMA LogFrame ==
  ASSUME [Next]_vars
  PROVE  \/ \E b \in Procs, c \in Clients : Deliver(b, c)
         \/ \E c \in Clients : OpenSocket(c) \/ SendCached(c)
         \/ UNCHANGED <<log, videoSynced>>
BY DEF Next, StreamStep, BroadcastStep, HandlerStep, PumpStep, vars, cached, channels,
       ReadPacket, CachePacket, StreamEnds, StreamDone, BeginBroadcast,
       EndBroadcast, AddClient, CountViewers, StartPump, RequestControl,
       ReleaseControl, CheckControl, ForwardControl, RemoveClient,
       PumpWrites, PumpFails, PumpEnds, BeginStop, FinishStop, Terminated

-----------------------------------------------------------------------------
(* The parts of ChainInv *)

\* Packets are only ever appended to a stream.
LEMMA StreamGrows ==
  ASSUME TypeInv, [Next]_vars, NEW s \in Streams
  PROVE  /\ Len(stream'[s]) \in {Len(stream[s]), Len(stream[s]) + 1}
         /\ \A n \in 1..Len(stream[s]) : stream'[s][n] = stream[s][n]
<1>1. stream[s] \in Seq(Kinds)
  BY DEF TypeInv, TypeOK
<1>2. CASE UNCHANGED stream
  BY <1>1, <1>2
<1>3. ASSUME NEW t \in Streams, NEW k \in Kinds, ReadPacket(t, k)
      PROVE  stream'[s] \in {stream[s], Append(stream[s], k)}
  BY <1>3 DEF ReadPacket, TypeInv, TypeOK
<1>4. QED
  BY <1>1, <1>2, <1>3, StreamFrame

LEMMA GrammarStep ==
  ASSUME TypeInv, Grammar, [Next]_vars PROVE Grammar'
<1>1. stream["video"] \in Seq(Kinds)
  BY DEF TypeInv, TypeOK, Streams
<1>2. CASE UNCHANGED stream
  BY <1>2 DEF Grammar
<1>3. ASSUME NEW s \in Streams, NEW k \in Kinds, ReadPacket(s, k), s # "video"
      PROVE  Grammar'
  BY <1>3 DEF ReadPacket, Grammar, TypeInv, TypeOK, Streams
<1>4. ASSUME NEW k \in Kinds, ReadPacket("video", k)
      PROVE  Grammar'
  <2> DEFINE old == stream["video"]
  <2>1. stream'["video"] = Append(old, k)
    BY <1>4 DEF ReadPacket, TypeInv, TypeOK, Streams
  <2>2. k = "delta" /\ old # <<>> => old[Len(old)] # "config"
    BY <1>4 DEF ReadPacket, Follows
  <2>3. \A n \in 1..Len(old) :
          old[n] = "delta" /\ n > 1 => old[n - 1] # "config"
    BY DEF Grammar
  <2>4. \A n \in 1..(Len(old) + 1) :
          Append(old, k)[n] = "delta" /\ n > 1 => Append(old, k)[n - 1] # "config"
    <3> HIDE DEF old
    <3> QED BY <1>1, <2>2, <2>3 DEF old
  <2>5. QED
    BY <1>1, <2>1, <2>4 DEF Grammar
<1>5. QED
  BY <1>2, <1>3, <1>4, StreamFrame

\* Whoever holds the write lock knows that no broadcast is under way.
LEMMA WriteLocked ==
  ASSUME Registered, readers = {} PROVE \A b \in Procs : todo[b] = {}
BY DEF Registered, readers, At

LEMMA RegisteredStep ==
  ASSUME TypeInv, Registered, [Next]_vars PROVE Registered'
<1> USE DEF TypeInv, TypeOK, Registered, At, cached, channels
<1>1. ASSUME NEW s \in Streams, StreamStep(s) PROVE Registered'
  <2>1. ASSUME NEW k \in Kinds, ReadPacket(s, k) PROVE Registered'
    BY <2>1, ClientsAssumption DEF ReadPacket, Goto, Procs
  <2>2. CASE CachePacket(s)
    BY <2>2, ClientsAssumption DEF CachePacket, Goto, Procs
  <2>3. CASE StreamEnds(s)
    BY <2>3, ClientsAssumption DEF StreamEnds, Goto, Procs
  <2>4. CASE StreamDone(s)
    BY <2>4, ClientsAssumption DEF StreamDone, Goto, Procs
  <2>5. QED
    BY <1>1, <2>1, <2>2, <2>3, <2>4 DEF StreamStep
<1>2. ASSUME NEW b \in Procs, BroadcastStep(b) PROVE Registered'
  <2>1. CASE BeginBroadcast(b)
    BY <2>1 DEF BeginBroadcast, Goto, Procs
  <2>2. ASSUME NEW c \in Clients, Deliver(b, c) PROVE Registered'
    BY <2>2 DEF Deliver
  <2>3. CASE EndBroadcast(b)
    <3>1. AfterBroadcast(b) \in {"idle", "joined", "done"}
      BY DEF AfterBroadcast
    <3>2. QED
      BY <2>3, <3>1 DEF EndBroadcast, Goto, Procs
  <2>4. QED
    BY <1>2, <2>1, <2>2, <2>3 DEF BroadcastStep
<1>3. ASSUME NEW c \in Clients, HandlerStep(c) PROVE Registered'
  <2>1. CASE OpenSocket(c)
    BY <2>1 DEF OpenSocket, Goto, Procs
  <2>2. CASE AddClient(c)
    BY <2>2, WriteLocked DEF AddClient, Goto, Procs
  <2>3. CASE SendCached(c)
    BY <2>3 DEF SendCached
  <2>4. CASE CountViewers(c)
    BY <2>4 DEF CountViewers, Goto, Procs
  <2>5. CASE StartPump(c)
    BY <2>5 DEF StartPump, Goto, Procs
  <2>6. CASE RequestControl(c) \/ ReleaseControl(c)
    BY <2>6 DEF RequestControl, ReleaseControl
  <2>7. CASE CheckControl(c) \/ ForwardControl(c)
    BY ZenonT(30), <2>7 DEF CheckControl, ForwardControl, Goto, Procs
  <2>8. CASE RemoveClient(c)
    BY <2>8, WriteLocked DEF RemoveClient, Goto, Procs
  <2>9. QED
    BY <1>3, <2>1, <2>2, <2>3, <2>4, <2>5, <2>6, <2>7, <2>8 DEF HandlerStep
<1>4. ASSUME NEW c \in Clients, PumpStep(c) PROVE Registered'
  BY <1>4 DEF PumpStep, PumpWrites, PumpFails, PumpEnds
<1>5. CASE BeginStop
  BY <1>5 DEF BeginStop
<1>6. CASE FinishStop
  BY <1>6, WriteLocked DEF FinishStop, Procs
<1>7. CASE UNCHANGED vars
  BY <1>7 DEF vars
<1>8. QED
  BY <1>1, <1>2, <1>3, <1>4, <1>5, <1>6, <1>7 DEF Next, Terminated

\* A video packet keeps its number and its kind when more have arrived.
LEMMA VideoStays ==
  ASSUME TypeInv, [Next]_vars
  PROVE  \A n \in 1..Len(stream["video"]) :
           /\ n \in 1..Len(stream'["video"])
           /\ stream'["video"][n] = stream["video"][n]
<1>1. Len(stream["video"]) \in Nat
  BY DEF TypeInv, TypeOK, Streams
<1>2. QED
  BY <1>1, StreamGrows DEF Streams

\* What AddClient is about to hand out starts chains.
LEMMA SnapshotAnchored ==
  ASSUME TypeInv, Anchored
  PROVE  \A i \in 1..Len(Snapshot) :
           VideoFrame(Snapshot[i]) => Anchor(Snapshot[i].n)
<1> DEFINE Sound(q) == /\ q \in Seq(Messages)
                       /\ \A i \in 1..Len(q) : VideoFrame(q[i]) => Anchor(q[i].n)
<1>1. ASSUME NEW q, NEW r, Sound(q), Sound(r) PROVE Sound(q \o r)
  BY <1>1
<1>2. ASSUME NEW s \in {"video", "audio"}, NEW n \in Nat,
             s = "video" /\ n # 0 => Anchor(n)
      PROVE  Sound(Cached(s, n))
  <2>1. Frame(s, n) \in Messages
    BY FrameType DEF Streams
  <2>2. Frame(s, n).from = s /\ Frame(s, n).n = n
    BY DEF Frame
  <2>3. CASE n = 0
    BY <2>3 DEF Cached
  <2>4. CASE n # 0
    <3>1. Cached(s, n) = <<Frame(s, n)>>
      BY <2>4 DEF Cached
    <3>2. QED
      BY <1>2, <2>1, <2>2, <2>4, <3>1 DEF VideoFrame
  <2>5. QED
    BY <2>3, <2>4
<1>3. /\ Sound(Cached("video", videoConfig))
      /\ Sound(Cached("video", lastKeyFrame))
      /\ Sound(Cached("audio", audioConfig))
  BY <1>2 DEF Anchored, TypeInv, TypeOK
<1>4. Sound(Snapshot)
  <2> HIDE DEF Sound
  <2> QED BY <1>1, <1>3 DEF Snapshot
<1>5. QED
  BY <1>4

LEMMA AnchoredStep ==
  ASSUME TypeInv, Anchored, [Next]_vars PROVE Anchored'
<1> DEFINE CacheSound == \A n \in {videoConfig, lastKeyFrame} : n # 0 => Anchor(n)
           PendingSound(c) ==
             \A i \in 1..Len(pending[c]) :
               VideoFrame(pending[c][i]) => Anchor(pending[c][i].n)
<1>1. CacheSound'
  <2>1. CASE UNCHANGED cached
    BY <2>1, VideoStays DEF Anchored, cached, Anchor
  <2>2. ASSUME NEW s \in Streams, CachePacket(s) PROVE CacheSound'
    <3>1. CASE s # "video"
      BY <2>2, <3>1, VideoStays DEF CachePacket, Anchored, Anchor
    <3>2. CASE s = "video"
      <4> DEFINE n == Len(stream["video"])
      <4>1. n \in 1..n
        BY <2>2, <3>2 DEF CachePacket, At, Busy, TypeInv, TypeOK, Begun, Streams
      <4>2. /\ videoConfig' \in {videoConfig, n} /\ lastKeyFrame' \in {lastKeyFrame, n}
            /\ videoConfig' # videoConfig => Anchor(n)
            /\ lastKeyFrame' # lastKeyFrame => Anchor(n)
        BY <2>2, <3>2, <4>1 DEF CachePacket, Anchor
      <4>3. QED
        BY <4>2, VideoStays DEF Anchored, Anchor
    <3>3. QED
      BY <3>1, <3>2
  <2>3. QED
    BY <2>1, <2>2, CacheFrame
<1>2. ASSUME NEW c \in Clients PROVE PendingSound(c)'
  <2>1. \A i \in 1..Len(pending[c]) :
          VideoFrame(pending[c][i]) => Anchor(pending[c][i].n)
    BY DEF Anchored
  <2>2. CASE UNCHANGED pending
    BY <2>1, <2>2, VideoStays DEF Anchor, VideoFrame
  <2>3. ASSUME NEW d \in Clients, AddClient(d) PROVE PendingSound(c)'
    <3>1. pending'[c] = pending[c] \/ pending'[c] = Snapshot
      BY <2>3 DEF AddClient, TypeInv, TypeOK
    <3>2. CASE pending'[c] = pending[c]
      BY <2>1, <3>2, VideoStays DEF Anchor, VideoFrame
    <3>3. CASE pending'[c] = Snapshot
      BY <3>3, SnapshotAnchored, VideoStays DEF Anchor, VideoFrame
    <3>4. QED
      BY <3>1, <3>2, <3>3
  <2>4. ASSUME NEW d \in Clients, SendCached(d) PROVE PendingSound(c)'
    <3>1. /\ pending[c] \in Seq(Messages)
          /\ \/ pending'[c] = pending[c]
             \/ pending[c] # <<>> /\ pending'[c] = Tail(pending[c])
      BY <2>4 DEF SendCached, TypeInv, TypeOK
    <3>2. \A i \in 1..Len(pending'[c]) :
            \E j \in 1..Len(pending[c]) : pending'[c][i] = pending[c][j]
      <4>1. CASE pending'[c] = pending[c]
        BY <4>1
      <4>2. CASE pending[c] # <<>> /\ pending'[c] = Tail(pending[c])
        BY <3>1, <4>2
      <4>3. QED
        BY <3>1, <4>1, <4>2
    <3>3. QED
      BY ZenonT(30), <2>1, <3>2, VideoStays DEF Anchor, VideoFrame
  <2>5. QED
    BY <2>2, <2>3, <2>4, PendingFrame
<1>3. QED
  BY <1>1, <1>2 DEF Anchored

-----------------------------------------------------------------------------
(* What a send does to the logs *)

\* A send adds its message to one log, or nothing to any.
LEMMA SendAdds ==
  ASSUME TypeInv, NEW c \in Clients, NEW m \in Messages, NEW ok \in BOOLEAN,
         log' = [log EXCEPT ![c] = IF ok THEN Append(@, m) ELSE @],
         NEW d \in Clients
  PROVE  /\ \A j \in 1..Len(log[d]) :
              j \in 1..Len(log'[d]) /\ log'[d][j] = log[d][j]
         /\ \A j \in 1..Len(log'[d]) :
              \/ j \in 1..Len(log[d])
              \/ d = c /\ ok /\ j = Len(log[d]) + 1 /\ log'[d][j] = m
         /\ d = c /\ ok => \E j \in 1..Len(log'[c]) : log'[c][j] = m
<1>1. log[c] \in Seq(Messages) /\ log[d] \in Seq(Messages)
  BY DEF TypeInv, TypeOK
<1>2. CASE d = c /\ ok
  <2>1. log'[d] = Append(log[d], m)
    BY <1>2 DEF TypeInv, TypeOK
  <2>2. Len(log'[d]) = Len(log[d]) + 1 /\ log'[d][Len(log[d]) + 1] = m
    BY <1>1, <2>1
  <2>3. \A j \in 1..Len(log[d]) : log'[d][j] = log[d][j]
    BY <1>1, <2>1
  <2>4. \E j \in 1..Len(log'[c]) : log'[c][j] = m
    BY <1>1, <1>2, <2>2
  <2>5. \A j \in 1..Len(log[d]) :
          j \in 1..Len(log'[d]) /\ log'[d][j] = log[d][j]
    BY <1>1, <2>2, <2>3
  <2>6. \A j \in 1..Len(log'[d]) :
          \/ j \in 1..Len(log[d])
          \/ d = c /\ ok /\ j = Len(log[d]) + 1 /\ log'[d][j] = m
    <3>1. Len(log[d]) \in Nat
      BY <1>1
    <3>2. QED
      BY <1>2, <2>2, <3>1
  <2>7. QED
    BY <2>4, <2>5, <2>6
<1>3. CASE ~(d = c /\ ok)
  <2>1. log'[d] = log[d]
    BY <1>3 DEF TypeInv, TypeOK
  <2>2. /\ \A j \in 1..Len(log[d]) :
             j \in 1..Len(log'[d]) /\ log'[d][j] = log[d][j]
        /\ \A j \in 1..Len(log'[d]) : j \in 1..Len(log[d])
    BY <2>1
  <2>3. d = c /\ ok => \E j \in 1..Len(log'[c]) : log'[c][j] = m
    BY <1>3
  <2>4. QED
    BY <2>2, <2>3
<1>4. QED
  BY <1>2, <1>3

\* Every delivery is such a send; that of a video frame heeds videoSynced.
LEMMA DeliverSends ==
  ASSUME TypeInv, NEW b \in Procs, NEW c \in Clients, Deliver(b, c)
  PROVE  \E ok \in BOOLEAN :
           /\ log' = [log EXCEPT ![c] = IF ok THEN Append(@, Message(b)) ELSE @]
           /\ b = "video" /\ ok
                => stream["video"][Len(stream["video"])] # "delta" \/ videoSynced[c]
<1>1. CASE b # "video"
  <2>1. Accepts(c) \in BOOLEAN
    BY DEF Accepts, HasRoom, TypeInv, TypeOK
  <2>2. log' = [log EXCEPT ![c] = IF Accepts(c) THEN Append(@, Message(b)) ELSE @]
    BY <1>1 DEF Deliver, Send
  <2>3. QED
    BY <1>1, <2>1, <2>2
<1>2. CASE b = "video"
  <2> DEFINE ok == Accepts(c) /\ ~(stream["video"][Len(stream["video"])] = "delta"
                                      /\ ~videoSynced[c])
  <2> WITNESS ok \in BOOLEAN
  <2> QED BY <1>2 DEF Deliver, SendVideo, Message, Streams
<1>3. QED
  BY <1>1, <1>2

\* The socket's handler is in this place right after it has opened the socket.
LEMMA OpenedFrame ==
  ASSUME TypeInv, [Next]_vars, NEW c \in Clients, At(c, "opened")'
  PROVE  At(c, "opened") \/ OpenSocket(c)
<1>1. ASSUME NEW p \in Procs, NEW label, Goto(p, label), label # "opened"
      PROVE  At(c, "opened")
  BY <1>1 DEF Goto, At, TypeInv, TypeOK, Procs
<1>2. ASSUME NEW d \in Clients, OpenSocket(d) PROVE At(c, "opened") \/ OpenSocket(c)
  BY <1>2 DEF OpenSocket, Goto, At, TypeInv, TypeOK, Procs
<1>3. ASSUME NEW b \in Procs, EndBroadcast(b) PROVE At(c, "opened")
  <2>1. AfterBroadcast(b) # "opened"
    BY DEF AfterBroadcast
  <2>2. QED
    BY <1>1, <1>3, <2>1 DEF EndBroadcast
<1>4. CASE UNCHANGED pc
  BY <1>4 DEF At
<1>5. ASSUME NEW s \in Streams, StreamStep(s) PROVE At(c, "opened")
  BY <1>1, <1>5 DEF StreamStep, ReadPacket, CachePacket, StreamEnds, StreamDone, Procs
<1>6. ASSUME NEW d \in Clients, HandlerStep(d) PROVE At(c, "opened") \/ OpenSocket(c)
  BY <1>1, <1>2, <1>4, <1>6
     DEF HandlerStep, AddClient, SendCached, CountViewers, StartPump, RequestControl,
         ReleaseControl, CheckControl, ForwardControl, RemoveClient, Procs
<1>7. ASSUME NEW b \in Procs, BroadcastStep(b) PROVE At(c, "opened")
  <2>1. CASE BeginBroadcast(b)
    BY <1>1, <2>1 DEF BeginBroadcast
  <2>2. ASSUME NEW d \in Clients, Deliver(b, d) PROVE At(c, "opened")
    BY <2>2 DEF Deliver, At
  <2>3. QED
    BY <1>3, <1>7, <2>1, <2>2 DEF BroadcastStep
<1>8. QED
  BY <1>4, <1>5, <1>6, <1>7
     DEF Next, PumpStep, PumpWrites, PumpFails, PumpEnds, BeginStop, FinishStop,
         Terminated, vars

LEMMA LogSoundStep ==
  ASSUME TypeInv, ChainInv, [Next]_vars PROVE LogSound'
<1> SUFFICES ASSUME NEW d \in Clients, NEW j \in 1..Len(log'[d]), VideoFrame(log'[d][j])
             PROVE  ~At(d, "opened")' /\ log'[d][j].n \in 1..Len(stream'["video"])
  BY DEF LogSound, VideoFrame
<1>1. ASSUME j \in 1..Len(log[d]), log'[d][j] = log[d][j], ~OpenSocket(d)
      PROVE  ~At(d, "opened")' /\ log'[d][j].n \in 1..Len(stream'["video"])
  <2>1. ~At(d, "opened") /\ log[d][j].n \in 1..Len(stream["video"])
    BY <1>1 DEF ChainInv, LogSound, VideoFrame
  <2>2. QED
    BY <1>1, <2>1, VideoStays, OpenedFrame
<1>2. CASE OpenSocket(d)
  <2>1. PICK info \in {<<>>, <<Frame("info", 0)>>} : log' = [log EXCEPT ![d] = info]
    BY <1>2 DEF OpenSocket
  <2>2. log'[d] = <<>> \/ log'[d] = <<Frame("info", 0)>>
    BY <2>1 DEF TypeInv, TypeOK
  <2>3. QED
    BY <2>2 DEF Frame, VideoFrame
<1>3. ASSUME ~OpenSocket(d), NEW c \in Clients, OpenSocket(c)
      PROVE  ~At(d, "opened")' /\ log'[d][j].n \in 1..Len(stream'["video"])
  BY <1>1, <1>3 DEF OpenSocket, TypeInv, TypeOK
<1>4. ASSUME ~OpenSocket(d), UNCHANGED log
      PROVE  ~At(d, "opened")' /\ log'[d][j].n \in 1..Len(stream'["video"])
  BY <1>1, <1>4
<1>5. ASSUME ~OpenSocket(d), NEW b \in Procs, NEW c \in Clients, Deliver(b, c)
      PROVE  ~At(d, "opened")' /\ log'[d][j].n \in 1..Len(stream'["video"])
  <2> DEFINE m == Message(b)
  <2>1. m \in Messages
    BY MessageType DEF TypeInv
  <2>2. PICK ok \in BOOLEAN : log' = [log EXCEPT ![c] = IF ok THEN Append(@, m) ELSE @]
    BY <1>5, DeliverSends
  <2>3. \/ j \in 1..Len(log[d]) /\ log'[d][j] = log[d][j]
        \/ d = c /\ log'[d][j] = m
    <3> HIDE DEF m
    <3> QED BY <2>1, <2>2, SendAdds
  <2>4. CASE d = c /\ log'[d][j] = m
    <3>1. b = "video" /\ m.n = Len(stream["video"])
      BY <2>4 DEF Message, Frame, VideoFrame, Streams
    <3>2. Len(stream["video"]) \in 1..Len(stream["video"])
      BY <1>5, <3>1 DEF Deliver, At, Busy, TypeInv, TypeOK, Begun, Streams
    <3>3. c \in clients
      BY <1>5 DEF Deliver, ChainInv, Registered
    <3>4. ~At(d, "opened")'
      BY <1>5, <2>4, <3>3 DEF Deliver, ChainInv, Registered, At
    <3>5. QED
      BY <2>4, <3>1, <3>2, <3>4, VideoStays
  <2>5. QED
    BY <1>1, <1>5, <2>3, <2>4
<1>6. ASSUME ~OpenSocket(d), NEW c \in Clients, SendCached(c)
      PROVE  ~At(d, "opened")' /\ log'[d][j].n \in 1..Len(stream'["video"])
  <2> DEFINE m == Head(pending[c])
  <2>1. /\ m \in Messages /\ m = pending[c][1] /\ 1 \in 1..Len(pending[c])
    BY SMTT(30), <1>6 DEF SendCached, TypeInv, TypeOK
  <2>2. Accepts(c) \in BOOLEAN
    BY DEF Accepts, HasRoom, TypeInv, TypeOK
  <2>3. log' = [log EXCEPT ![c] = IF Accepts(c) THEN Append(@, m) ELSE @]
    BY <1>6 DEF SendCached, Send
  <2>4. \/ j \in 1..Len(log[d]) /\ log'[d][j] = log[d][j]
        \/ d = c /\ log'[d][j] = m
    <3> HIDE DEF m
    <3> QED BY <2>1, <2>2, <2>3, SendAdds
  <2>5. CASE d = c /\ log'[d][j] = m
    <3>1. m.n \in 1..Len(stream["video"])
      BY <2>1, <2>5 DEF ChainInv, Anchored, Anchor, VideoFrame
    <3>2. ~At(d, "opened")'
      BY <1>6, <2>5 DEF SendCached, At
    <3>3. QED
      BY <2>5, <3>1, <3>2, VideoStays
  <2>6. QED
    BY <1>1, <1>6, <2>4, <2>5
<1>7. QED
  BY <1>2, <1>3, <1>4, <1>5, <1>6, LogFrame

\* Only registering changes where a viewer's broadcasts begin.
LEMMA SinceFrame ==
  ASSUME TypeInv, [Next]_vars, NEW d \in Clients
  PROVE  AddClient(d) \/ since'[d] = since[d]
<1>1. ASSUME NEW c \in Clients, AddClient(c)
      PROVE  AddClient(d) \/ since'[d] = since[d]
  BY <1>1 DEF AddClient, TypeInv, TypeOK
<1>2. QED
  BY <1>1 DEF Next, StreamStep, BroadcastStep, HandlerStep, PumpStep, vars, cached,
       channels, ReadPacket, CachePacket, StreamEnds, StreamDone, BeginBroadcast,
       Deliver, EndBroadcast, OpenSocket, SendCached, CountViewers, StartPump,
       RequestControl, ReleaseControl, CheckControl, ForwardControl, RemoveClient,
       PumpWrites, PumpFails, PumpEnds, BeginStop, FinishStop, Terminated

\* A delta frame that is handed to a viewer comes right behind its predecessor.
LEMMA DeltaHasPredecessor ==
  ASSUME TypeInv, ChainInv, NEW c \in Clients, Deliver("video", c), videoSynced[c],
         stream["video"][Len(stream["video"])] = "delta",
         Len(stream["video"]) - 1 > since[c]
  PROVE  InLog(c, Frame("video", Len(stream["video"]) - 1))
<1> DEFINE L == Len(stream["video"])
<1>1. L \in Nat /\ L > 0 /\ since[c] \in Nat
  BY DEF Deliver, At, Busy, TypeInv, TypeOK, Begun, Streams
<1>2. stream["video"][L - 1] # "config"
  <2>1. L \in 1..L /\ L > 1
    BY <1>1
  <2>2. \A n \in 1..Len(stream["video"]) :
          stream["video"][n] = "delta" /\ n > 1 => stream["video"][n - 1] # "config"
    BY DEF ChainInv, Grammar
  <2>3. QED
    BY <2>1, <2>2
<1>3. c \in clients /\ Visited(c) = L - 1
  BY DEF Deliver, ChainInv, Registered, Visited, Offered, Procs, Streams
<1>4. QED
  BY <1>2, <1>3 DEF ChainInv, InSync

LEMMA ChainStep ==
  ASSUME TypeInv, ChainInv, [Next]_vars PROVE ChainUnbroken'
<1> DEFINE Linked(d, j) ==
             \E i \in 1..(j - 1) : log[d][i] = Frame("video", log[d][j].n - 1)
<1> SUFFICES ASSUME NEW d \in Clients, NEW j \in 1..Len(log'[d]),
                    IsDelta(log[d][j])', log'[d][j].n - 1 > since'[d]
             PROVE  Linked(d, j)'
  BY DEF ChainUnbroken
<1>1. ASSUME j \in 1..Len(log[d]), \A i \in 1..Len(log[d]) : log'[d][i] = log[d][i]
      PROVE  Linked(d, j)'
  <2>1. VideoFrame(log[d][j])
    BY <1>1 DEF IsDelta, VideoFrame
  <2>2. ~At(d, "opened") /\ log[d][j].n \in 1..Len(stream["video"])
    BY <1>1, <2>1 DEF ChainInv, LogSound
  <2>3. IsDelta(log[d][j])
    BY <1>1, <2>2, VideoStays DEF IsDelta
  <2>4. since'[d] = since[d]
    BY <2>2, SinceFrame DEF AddClient
  <2>5. Linked(d, j)
    BY <1>1, <2>3, <2>4 DEF ChainInv, ChainUnbroken
  <2>6. j \in Nat /\ Len(log[d]) \in Nat
    <3>1. log[d] \in Seq(Messages)
      BY DEF TypeInv, TypeOK
    <3>2. Len(log[d]) \in Nat
      BY <3>1
    <3>3. QED
      BY <1>1, <3>2
  <2>7. QED
    BY <1>1, <2>5, <2>6
<1>2. CASE UNCHANGED log
  BY <1>1, <1>2
<1>3. ASSUME NEW c \in Clients, OpenSocket(c) PROVE Linked(d, j)'
  <2>1. PICK info \in {<<>>, <<Frame("info", 0)>>} : log' = [log EXCEPT ![c] = info]
    BY <1>3 DEF OpenSocket
  <2>2. CASE d = c
    <3>1. log'[d] = <<>> \/ log'[d] = <<Frame("info", 0)>>
      BY <2>1, <2>2 DEF TypeInv, TypeOK
    <3>2. QED
      BY <3>1 DEF Frame, IsDelta
  <2>3. CASE d # c
    BY <1>1, <2>1, <2>3 DEF TypeInv, TypeOK
  <2>4. QED
    BY <2>2, <2>3
<1>4. ASSUME NEW b \in Procs, NEW c \in Clients, Deliver(b, c) PROVE Linked(d, j)'
  <2> DEFINE m == Message(b)
  <2>1. m \in Messages
    BY MessageType DEF TypeInv
  <2>2. PICK ok \in BOOLEAN :
          /\ log' = [log EXCEPT ![c] = IF ok THEN Append(@, m) ELSE @]
          /\ b = "video" /\ ok
               => stream["video"][Len(stream["video"])] # "delta" \/ videoSynced[c]
    BY <1>4, DeliverSends
  <2>3. /\ \A i \in 1..Len(log[d]) : log'[d][i] = log[d][i]
        /\ \/ j \in 1..Len(log[d])
           \/ d = c /\ ok /\ j = Len(log[d]) + 1 /\ log'[d][j] = m
    <3> HIDE DEF m
    <3> QED BY <2>1, <2>2, SendAdds
  <2>4. CASE d = c /\ ok /\ j = Len(log[d]) + 1 /\ log'[d][j] = m
    <3>1. b = "video" /\ m = Frame("video", Len(stream["video"]))
      BY <2>4 DEF IsDelta, Message, Frame, Streams
    <3>2. log'[d][j].n = Len(stream["video"])
      BY <2>4, <3>1 DEF Frame
    <3>3. UNCHANGED <<stream, since>>
      BY <1>4 DEF Deliver
    <3>4. /\ stream["video"][Len(stream["video"])] = "delta" /\ videoSynced[c]
          /\ Len(stream["video"]) - 1 > since[c]
      BY <2>2, <2>4, <3>1, <3>2, <3>3 DEF IsDelta
    <3>5. InLog(d, Frame("video", Len(stream["video"]) - 1))
      BY <1>4, <2>4, <3>1, <3>4, DeltaHasPredecessor
    <3>6. PICK i \in 1..Len(log[d]) :
            log[d][i] = Frame("video", Len(stream["video"]) - 1)
      BY <3>5 DEF InLog
    <3>7. i \in 1..(j - 1)
      BY <2>4, <3>6 DEF TypeInv, TypeOK
    <3>8. QED
      BY <2>3, <3>2, <3>6, <3>7
  <2>5. QED
    BY <1>1, <2>3, <2>4
<1>5. ASSUME NEW c \in Clients, SendCached(c) PROVE Linked(d, j)'
  <2> DEFINE m == Head(pending[c])
  <2>1. /\ m \in Messages /\ m = pending[c][1] /\ 1 \in 1..Len(pending[c])
    BY SMTT(30), <1>5 DEF SendCached, TypeInv, TypeOK
  <2>2. Accepts(c) \in BOOLEAN
    BY DEF Accepts, HasRoom, TypeInv, TypeOK
  <2>3. log' = [log EXCEPT ![c] = IF Accepts(c) THEN Append(@, m) ELSE @]
    BY <1>5 DEF SendCached, Send
  <2>4. /\ \A i \in 1..Len(log[d]) : log'[d][i] = log[d][i]
        /\ j \in 1..Len(log[d]) \/ log'[d][j] = m
    <3> HIDE DEF m
    <3> QED BY <2>1, <2>2, <2>3, SendAdds
  <2>5. log'[d][j] # m
    <3>1. VideoFrame(m) => Anchor(m.n)
      BY <2>1 DEF ChainInv, Anchored
    <3>2. UNCHANGED stream
      BY <1>5 DEF SendCached
    <3>3. QED
      BY <3>1, <3>2 DEF IsDelta, Anchor, VideoFrame
  <2>6. QED
    BY <1>1, <2>4, <2>5
<1>6. QED
  BY <1>2, <1>3, <1>4, <1>5, LogFrame

\* No step but a video delivery changes which packet a registered viewer was
\* visited with last; a viewer that registers begins right behind it.
LEMMA VisitedFrame ==
  ASSUME TypeInv, ChainInv, [Next]_vars, NEW d \in clients',
         ~ \E c \in Clients : Deliver("video", c)
  PROVE  \/ AddClient(d) /\ Visited(d)' = since'[d]
         \/ d \in clients /\ Visited(d)' = Visited(d) /\ since'[d] = since[d]
<1> USE DEF Visited, Offered, TypeInv, TypeOK, ChainInv, Registered, At, cached, channels,
            Streams, Procs
<1>0. d \in Clients /\ "video" \in Procs
  BY TypeStep
<1>1. ASSUME NEW s \in Streams, StreamStep(s)
      PROVE  d \in clients /\ Visited(d)' = Visited(d) /\ since'[d] = since[d]
  <2>1. ASSUME NEW k \in Kinds, ReadPacket(s, k), s = "video"
        PROVE  d \in clients /\ Visited(d)' = Visited(d) /\ since'[d] = since[d]
    <3>1. /\ clients' = clients /\ since' = since /\ todo' = todo
          /\ pc["video"] = "idle" /\ pc'["video"] \in {"cache", "bcast"}
      BY <1>0, <2>1 DEF ReadPacket, Goto
    <3>2. Len(stream'["video"]) = Len(stream["video"]) + 1 /\ Len(stream["video"]) \in Nat
      BY <2>1 DEF ReadPacket
    <3>3. todo["video"] = {}
      BY <3>1
    <3>4. QED
      BY <3>1, <3>2, <3>3
  <2>2. ASSUME NEW k \in Kinds, ReadPacket(s, k), s # "video"
        PROVE  d \in clients /\ Visited(d)' = Visited(d) /\ since'[d] = since[d]
    BY <2>2 DEF ReadPacket, Goto
  <2>3. CASE CachePacket(s)
    BY <2>3 DEF CachePacket, Goto
  <2>4. CASE StreamEnds(s)
    BY <2>4 DEF StreamEnds, Goto
  <2>5. CASE StreamDone(s)
    BY <2>5 DEF StreamDone, Goto
  <2>6. QED
    BY <1>1, <2>1, <2>2, <2>3, <2>4, <2>5 DEF StreamStep
<1>2. ASSUME NEW b \in Procs, BroadcastStep(b)
      PROVE  d \in clients /\ Visited(d)' = Visited(d) /\ since'[d] = since[d]
  <2>1. CASE BeginBroadcast(b)
    BY <1>0, <2>1 DEF BeginBroadcast, Goto
  <2>2. ASSUME NEW c \in Clients, Deliver(b, c)
        PROVE  d \in clients /\ Visited(d)' = Visited(d) /\ since'[d] = since[d]
    BY <1>0, <2>2 DEF Deliver
  <2>3. CASE EndBroadcast(b)
    <3>1. AfterBroadcast(b) \in {"idle", "joined", "done"}
      BY DEF AfterBroadcast
    <3>2. QED
      BY <1>0, <2>3, <3>1 DEF EndBroadcast, Goto
  <2>4. QED
    BY <1>2, <2>1, <2>2, <2>3 DEF BroadcastStep
<1>3. ASSUME NEW c \in Clients, HandlerStep(c)
      PROVE  \/ AddClient(d) /\ Visited(d)' = since'[d]
             \/ d \in clients /\ Visited(d)' = Visited(d) /\ since'[d] = since[d]
  <2>1. CASE OpenSocket(c)
    BY <1>0, <2>1, ClientsAssumption DEF OpenSocket, Goto
  <2>2. CASE AddClient(c)
    <3>1. todo["video"] = {} /\ UNCHANGED <<todo, stream>> /\ pc'["video"] = pc["video"]
      BY <1>0, <2>2, ClientsAssumption, WriteLocked DEF AddClient, Goto
    <3>2. CASE d = c
      BY <1>0, <2>2, <3>1, <3>2 DEF AddClient
    <3>3. CASE d # c
      BY <1>0, <2>2, <3>1, <3>3 DEF AddClient
    <3>4. QED
      BY <3>2, <3>3
  <2>3. CASE SendCached(c)
    BY <1>0, <2>3 DEF SendCached
  <2>4. CASE CountViewers(c)
    BY <1>0, <2>4, ClientsAssumption DEF CountViewers, Goto
  <2>5. CASE StartPump(c)
    BY <1>0, <2>5, ClientsAssumption DEF StartPump, Goto
  <2>6. CASE RequestControl(c) \/ ReleaseControl(c)
    BY <1>0, <2>6 DEF RequestControl, ReleaseControl
  <2>7. CASE CheckControl(c) \/ ForwardControl(c)
    BY SMTT(30), <1>0, <2>7, ClientsAssumption
       DEF CheckControl, ForwardControl, Goto
  <2>8. CASE RemoveClient(c)
    BY <1>0, <2>8, ClientsAssumption DEF RemoveClient, Goto
  <2>9. QED
    BY <1>3, <2>1, <2>2, <2>3, <2>4, <2>5, <2>6, <2>7, <2>8 DEF HandlerStep
<1>4. ASSUME NEW c \in Clients, PumpStep(c)
      PROVE  d \in clients /\ Visited(d)' = Visited(d) /\ since'[d] = since[d]
  BY <1>0, <1>4 DEF PumpStep, PumpWrites, PumpFails, PumpEnds
<1>5. CASE BeginStop
  BY <1>0, <1>5 DEF BeginStop
<1>6. ASSUME FinishStop PROVE FALSE
  BY <1>6 DEF FinishStop
<1>7. CASE UNCHANGED vars
  BY <1>0, <1>7 DEF vars
<1>8. QED
  BY <1>1, <1>2, <1>3, <1>4, <1>5, <1>6, <1>7 DEF Next, Terminated

\* A viewer in sync stays so unless its channel is full.
LEMMA VideoDeliverySyncs ==
  ASSUME TypeInv, ChainInv, NEW c \in Clients, Deliver("video", c)
  PROVE  InSync'
<1> DEFINE L == Len(stream["video"])
           kind == stream["video"][L]
           gated == kind = "delta" /\ ~videoSynced[c]
           m == Frame("video", L)
           ok == Accepts(c) /\ ~gated
<1>1. /\ UNCHANGED <<stream, clients, since, open, pc>>
      /\ c \in clients /\ open[c] /\ c \in todo["video"] /\ pc["video"] = "deliver"
      /\ todo' = [todo EXCEPT !["video"] = @ \ {c}]
  BY DEF Deliver, ChainInv, Registered, Procs, Streams, At
<1>2. m \in Messages /\ ok \in BOOLEAN
  BY DEF Frame, Messages, Streams, Accepts, HasRoom, TypeInv, TypeOK
<1>3. /\ log' = [log EXCEPT ![c] = IF ok THEN Append(@, m) ELSE @]
      /\ videoSynced' = [videoSynced EXCEPT ![c] =
                           IF open[c] /\ ~gated /\ kind # "config" THEN HasRoom(c) ELSE @]
  BY DEF Deliver, SendVideo
<1>4. ASSUME NEW d \in Clients, NEW x, InLog(d, x)
      PROVE  \E j \in 1..Len(log'[d]) : log'[d][j] = x
  <2> HIDE DEF m, ok
  <2>1. \A j \in 1..Len(log[d]) : j \in 1..Len(log'[d]) /\ log'[d][j] = log[d][j]
    BY <1>2, <1>3, SendAdds
  <2>2. QED
    BY <1>4, <2>1 DEF InLog
<1>5. ok => \E j \in 1..Len(log'[c]) : log'[c][j] = m
  <2> HIDE DEF m, ok
  <2> QED BY ZenonT(30), <1>2, <1>3, SendAdds
<1>6. ASSUME NEW d \in clients', videoSynced'[d], Visited(d)' > since'[d],
             stream'["video"][Visited(d)'] # "config"
      PROVE  InLog(d, Frame("video", Visited(d)))'
  <2>1. d \in clients /\ d \in Clients
    BY <1>1, <1>6 DEF TypeInv, TypeOK
  <2>2. CASE d = c
    <3>1. Visited(c)' = L
      BY <1>1 DEF Visited, Offered, TypeInv, TypeOK, Procs, Streams
    <3>2. kind # "config"
      BY <1>1, <1>6, <2>2, <3>1
    <3>3. ok
      BY <1>1, <1>3, <1>6, <2>2, <3>2 DEF Accepts, TypeInv, TypeOK
    <3>4. QED
      BY <1>1, <1>5, <2>2, <3>1, <3>3 DEF InLog, Frame
  <2>3. CASE d # c
    <3>1. Visited(d)' = Visited(d)
      BY <1>1, <2>3 DEF Visited, Offered, TypeInv, TypeOK, Procs, Streams
    <3>2. videoSynced[d] /\ UNCHANGED <<stream, since>>
      BY <1>1, <1>3, <1>6, <2>1, <2>3 DEF TypeInv, TypeOK
    <3>3. InLog(d, Frame("video", Visited(d)))
      BY <1>6, <2>1, <3>1, <3>2 DEF ChainInv, InSync
    <3>4. \E j \in 1..Len(log'[d]) : log'[d][j] = Frame("video", Visited(d))
      BY <1>4, <2>1, <3>3
    <3>5. QED
      BY <3>1, <3>4 DEF InLog, Frame
  <2>4. QED
    BY <2>2, <2>3
<1>7. QED
  BY <1>6 DEF InSync

LEMMA InSyncStep ==
  ASSUME TypeInv, ChainInv, [Next]_vars PROVE InSync'
<1>1. CASE \E c \in Clients : Deliver("video", c)
  BY <1>1, VideoDeliverySyncs
<1>2. CASE ~ \E c \in Clients : Deliver("video", c)
  <2> SUFFICES ASSUME NEW d \in clients', videoSynced'[d], Visited(d)' > since'[d],
                      stream'["video"][Visited(d)'] # "config"
               PROVE  InLog(d, Frame("video", Visited(d)))'
    BY DEF InSync
  <2>1. d \in Clients /\ since'[d] \in Nat
    BY TypeStep DEF TypeInv, TypeOK
  <2>2. d \in clients /\ Visited(d)' = Visited(d) /\ since'[d] = since[d]
    BY <1>2, <2>1, VisitedFrame
  <2>3. Visited(d) \in 1..Len(stream["video"])
    <3>1. Len(stream["video"]) \in Nat /\ since[d] \in Nat
      BY <2>1 DEF TypeInv, TypeOK, Streams
    <3>2. QED
      BY <2>1, <2>2, <3>1 DEF Visited, Offered
  <2>4. stream["video"][Visited(d)] # "config"
    BY <2>2, <2>3, VideoStays
  <2>5. ASSUME videoSynced[d],
               \A j \in 1..Len(log[d]) : j \in 1..Len(log'[d]) /\ log'[d][j] = log[d][j]
        PROVE  InLog(d, Frame("video", Visited(d)))'
    <3>1. InLog(d, Frame("video", Visited(d)))
      BY <2>2, <2>4, <2>5 DEF ChainInv, InSync
    <3>2. \E j \in 1..Len(log'[d]) : log'[d][j] = Frame("video", Visited(d))
      BY <2>5, <3>1 DEF InLog
    <3>3. QED
      BY <2>2, <3>2 DEF InLog, Frame
  <2>6. CASE UNCHANGED <<log, videoSynced>>
    BY <2>5, <2>6
  <2>7. ASSUME NEW c \in Clients, OpenSocket(c)
        PROVE  InLog(d, Frame("video", Visited(d)))'
    <3>1. d # c
      BY <2>2, <2>7 DEF OpenSocket, ChainInv, Registered, At
    <3>2. log'[d] = log[d] /\ videoSynced' = videoSynced
      BY <2>1, <2>7, <3>1 DEF OpenSocket, TypeInv, TypeOK
    <3>3. QED
      BY <2>5, <3>2
  <2>8. ASSUME NEW c \in Clients, SendCached(c)
        PROVE  InLog(d, Frame("video", Visited(d)))'
    <3> DEFINE m == Head(pending[c])
    <3>1. m \in Messages /\ Accepts(c) \in BOOLEAN
      BY SMTT(30), <2>8 DEF SendCached, Accepts, HasRoom, TypeInv, TypeOK
    <3>2. log' = [log EXCEPT ![c] = IF Accepts(c) THEN Append(@, m) ELSE @]
      BY <2>8 DEF SendCached, Send
    <3>3. \A j \in 1..Len(log[d]) : j \in 1..Len(log'[d]) /\ log'[d][j] = log[d][j]
      <4> HIDE DEF m
      <4> QED BY <2>1, <3>1, <3>2, SendAdds
    <3>4. videoSynced' = videoSynced
      BY <2>8 DEF SendCached, Send
    <3>5. QED
      BY <2>5, <3>3, <3>4
  <2>9. ASSUME NEW b \in Procs, NEW c \in Clients, Deliver(b, c)
        PROVE  InLog(d, Frame("video", Visited(d)))'
    <3> DEFINE m == Message(b)
    <3>1. b # "video"
      BY <1>2, <2>9
    <3>2. m \in Messages
      BY MessageType DEF TypeInv
    <3>3. PICK ok \in BOOLEAN :
            log' = [log EXCEPT ![c] = IF ok THEN Append(@, m) ELSE @]
      BY <2>9, DeliverSends
    <3>4. \A j \in 1..Len(log[d]) : j \in 1..Len(log'[d]) /\ log'[d][j] = log[d][j]
      <4> HIDE DEF m
      <4> QED BY <2>1, <3>2, <3>3, SendAdds
    <3>5. videoSynced' = videoSynced
      BY <2>9, <3>1 DEF Deliver, Send
    <3>6. QED
      BY <2>5, <3>4, <3>5
  <2>10. QED
    BY <2>6, <2>7, <2>8, <2>9, LogFrame
<1>3. QED
  BY <1>1, <1>2

LEMMA ChainInit == Init => ChainInv
<1> SUFFICES ASSUME Init PROVE ChainInv
  OBVIOUS
<1>1. TypeOK
  BY TypeInit DEF TypeInv
<1>2. /\ \A c \in Clients : log[c] = <<>> /\ pending[c] = <<>>
      /\ stream["video"] = <<>> /\ clients = {}
  BY DEF Init, Streams
<1>3. Grammar /\ Anchored /\ LogSound /\ InSync /\ ChainUnbroken
  BY <1>2 DEF Init, Grammar, Anchored, LogSound, InSync, ChainUnbroken
<1>4. Registered
  BY ClientsAssumption DEF Init, Registered, At, Procs
<1>5. QED
  BY <1>3, <1>4 DEF ChainInv

\* However the broadcasts, the joins, the slow viewers and Stop interleave, a
\* viewer that takes part in the broadcasts is never queued a delta frame
\* without the packet before it: SendVideo does what its comment promises.
THEOREM ChainTheorem == Spec => []ChainUnbroken
<1>1. TypeInv /\ ChainInv /\ [Next]_vars => ChainInv'
  BY GrammarStep, AnchoredStep, LogSoundStep, RegisteredStep, InSyncStep, ChainStep
     DEF ChainInv
<1>2. ChainInv => ChainUnbroken
  BY DEF ChainInv
<1>3. QED
  BY TypeInit, TypeStep, ChainInit, <1>1, <1>2, PTL DEF Spec

-----------------------------------------------------------------------------
(* Control *)

ControlInv == ControlExclusive /\ ControllerPresent

LEMMA ControlStep ==
  ASSUME TypeInv, ControlInv, [Next]_vars PROVE ControlInv'
<1> USE DEF ControlInv, ControlExclusive, ControllerPresent, At, TypeInv, TypeOK
<1>1. ASSUME UNCHANGED controller, UNCHANGED pc PROVE ControlInv'
  BY <1>1
<1>2. ASSUME UNCHANGED controller, NEW p \in Procs, NEW label, Goto(p, label),
             p \in Clients => pc[p] \notin {"read", "forward"}, label # "forward"
      PROVE  ControlInv'
  BY <1>2 DEF Goto, Procs
<1>3. ASSUME NEW s \in Streams, StreamStep(s) PROVE ControlInv'
  <2>1. s \in Procs /\ s \notin Clients
    BY ClientsAssumption DEF Procs
  <2>2. QED
    BY <1>2, <1>3, <2>1 DEF StreamStep, ReadPacket, CachePacket, StreamEnds, StreamDone
<1>4. ASSUME NEW b \in Procs, BroadcastStep(b) PROVE ControlInv'
  <2>1. CASE BeginBroadcast(b)
    BY <1>2, <2>1 DEF BeginBroadcast
  <2>2. ASSUME NEW c \in Clients, Deliver(b, c) PROVE ControlInv'
    BY <1>1, <2>2 DEF Deliver
  <2>3. CASE EndBroadcast(b)
    <3>1. AfterBroadcast(b) # "forward"
      BY DEF AfterBroadcast
    <3>2. QED
      BY <1>2, <2>3, <3>1 DEF EndBroadcast
  <2>4. QED
    BY <1>4, <2>1, <2>2, <2>3 DEF BroadcastStep
<1>5. ASSUME NEW c \in Clients, HandlerStep(c) PROVE ControlInv'
  <2>0. c \in Procs
    BY DEF Procs
  <2>1. CASE OpenSocket(c) \/ AddClient(c) \/ CountViewers(c) \/ StartPump(c)
    BY <1>2, <2>0, <2>1 DEF OpenSocket, AddClient, CountViewers, StartPump
  <2>2. CASE SendCached(c)
    BY <1>1, <2>2 DEF SendCached
  <2>3. CASE RequestControl(c)
    BY <2>3, ClientsAssumption DEF RequestControl
  <2>4. CASE ReleaseControl(c)
    BY <2>4, ClientsAssumption DEF ReleaseControl
  <2>5. CASE CheckControl(c)
    BY SMTT(30), <2>0, <2>5 DEF CheckControl, Goto
  <2>6. CASE ForwardControl(c)
    BY SMTT(30), <2>0, <2>6 DEF ForwardControl, Goto
  <2>7. CASE RemoveClient(c)
    BY <2>0, <2>7, ClientsAssumption DEF RemoveClient, Goto, Procs
  <2>8. QED
    BY <1>5, <2>1, <2>2, <2>3, <2>4, <2>5, <2>6, <2>7 DEF HandlerStep
<1>6. CASE UNCHANGED <<controller, pc>>
  BY <1>1, <1>6
<1>7. QED
  BY <1>3, <1>4, <1>5, <1>6
     DEF Next, PumpStep, PumpWrites, PumpFails, PumpEnds, BeginStop, FinishStop,
         Terminated, vars

LEMMA ControlInit == Init => ControlInv
BY ClientsAssumption
   DEF Init, ControlInv, ControlExclusive, ControllerPresent, At, Procs

\* Whoever is writing to the device holds control at that moment: the check
\* HandleControlMsg makes under the lock still holds after the lock.
THEOREM ControlTheorem == Spec => []ControlExclusive
<1>1. ControlInv => ControlExclusive
  BY DEF ControlInv
<1>2. QED
  BY TypeInit, TypeStep, ControlInit, ControlStep, <1>1, PTL DEF Spec

\* Control is always held by a viewer that is there to use or release it.
THEOREM ControllerTheorem == Spec => []ControllerPresent
<1>1. ControlInv => ControllerPresent
  BY DEF ControlInv
<1>2. QED
  BY TypeInit, TypeStep, ControlInit, ControlStep, <1>1, PTL DEF Spec

-----------------------------------------------------------------------------
(* No cached frame is missed *)

\* One cached frame and one viewer.
Reaches(c, s, n) == \/ InLog(c, Frame(s, n))
                    \/ Len(log[c]) >= Cap
                    \/ ToCome(c, s, n)

LatestHolds ==
  /\ videoConfig # 0  => \A c \in clients : Reaches(c, "video", videoConfig)
  /\ lastKeyFrame # 0 => \A c \in clients : Reaches(c, "video", lastKeyFrame)
  /\ audioConfig # 0  => \A c \in clients : Reaches(c, "audio", audioConfig)

LEMMA LatestSplit == LatestInv <=> LatestHolds
BY DEF LatestInv, LatestHolds, Latest, Reaches

\* A snapshot holds every cached frame.
LEMMA SnapshotHolds ==
  ASSUME TypeOK, NEW s, NEW n,
         <<s, n>> \in {<<"video", videoConfig>>, <<"video", lastKeyFrame>>,
                       <<"audio", audioConfig>>},
         n # 0
  PROVE  \E i \in 1..Len(Snapshot) : Snapshot[i] = Frame(s, n)
<1> DEFINE Holds(q) == \E i \in 1..Len(q) : q[i] = Frame(s, n)
           A == Cached("video", videoConfig)
           B == Cached("video", lastKeyFrame)
           C == Cached("audio", audioConfig)
<1>1. ASSUME NEW t \in {"video", "audio"}, NEW k \in Nat
      PROVE  Cached(t, k) \in Seq(Messages)
  <2>1. Frame(t, k) \in Messages
    BY FrameType DEF Streams
  <2>2. <<Frame(t, k)>> \in Seq(Messages) /\ <<>> \in Seq(Messages)
    BY <2>1
  <2>3. QED
    BY <2>2 DEF Cached
<1>2. A \in Seq(Messages) /\ B \in Seq(Messages) /\ C \in Seq(Messages)
  BY <1>1 DEF TypeOK
<1>3. Holds(<<Frame(s, n)>>)
  OBVIOUS
<1>4. Cached(s, n) = <<Frame(s, n)>>
  BY DEF Cached
<1>5. Holds(A) \/ Holds(B) \/ Holds(C)
  BY <1>3, <1>4
<1>6. ASSUME NEW q \in Seq(Messages), NEW r \in Seq(Messages), Holds(q) \/ Holds(r)
      PROVE  Holds(q \o r)
  <2>1. CASE Holds(q)
    <3>1. PICK i \in 1..Len(q) : q[i] = Frame(s, n)
      BY <2>1
    <3>2. i \in 1..Len(q \o r) /\ (q \o r)[i] = Frame(s, n)
      BY <3>1
    <3>3. QED
      BY <3>2
  <2>2. CASE Holds(r)
    <3>1. PICK i \in 1..Len(r) : r[i] = Frame(s, n)
      BY <2>2
    <3>2. Len(q) + i \in 1..Len(q \o r) /\ (q \o r)[Len(q) + i] = Frame(s, n)
      BY <3>1
    <3>3. QED
      BY <3>2
  <2>3. QED
    BY <1>6, <2>1, <2>2
<1>7. Snapshot = (A \o B) \o C
  BY DEF Snapshot
<1>8. A \o B \in Seq(Messages)
  BY <1>2
<1>9. Holds((A \o B) \o C)
  <2> HIDE DEF Holds, A, B, C
  <2> QED BY <1>2, <1>5, <1>6, <1>8
<1>10. QED
  BY <1>7, <1>9

\* The log of a registered viewer only grows.
LEMMA LogGrows ==
  ASSUME TypeInv, ChainInv, [Next]_vars, NEW d \in clients
  PROVE  /\ \A j \in 1..Len(log[d]) : j \in 1..Len(log'[d]) /\ log'[d][j] = log[d][j]
         /\ Len(log[d]) >= Cap => Len(log'[d]) >= Cap
<1>0. d \in Clients /\ Cap \in Nat \ {0}
  BY BoundsAssumption DEF TypeInv, TypeOK
<1>1. \A j \in 1..Len(log[d]) : j \in 1..Len(log'[d]) /\ log'[d][j] = log[d][j]
  <2>1. CASE UNCHANGED log
    BY <2>1
  <2>2. ASSUME NEW c \in Clients, OpenSocket(c)
        PROVE  \A j \in 1..Len(log[d]) :
                 j \in 1..Len(log'[d]) /\ log'[d][j] = log[d][j]
    <3>1. d # c
      BY <2>2 DEF OpenSocket, ChainInv, Registered, At
    <3>2. log'[d] = log[d]
      BY <1>0, <2>2, <3>1 DEF OpenSocket, TypeInv, TypeOK
    <3>3. QED
      BY <3>2
  <2>3. ASSUME NEW c \in Clients, SendCached(c)
        PROVE  \A j \in 1..Len(log[d]) :
                 j \in 1..Len(log'[d]) /\ log'[d][j] = log[d][j]
    <3> DEFINE m == Head(pending[c])
    <3>1. m \in Messages /\ Accepts(c) \in BOOLEAN
      BY <2>3 DEF SendCached, Accepts, HasRoom, TypeInv, TypeOK
    <3>2. log' = [log EXCEPT ![c] = IF Accepts(c) THEN Append(@, m) ELSE @]
      BY <2>3 DEF SendCached, Send
    <3> HIDE DEF m
    <3> QED BY <1>0, <3>1, <3>2, SendAdds
  <2>4. ASSUME NEW b \in Procs, NEW c \in Clients, Deliver(b, c)
        PROVE  \A j \in 1..Len(log[d]) :
                 j \in 1..Len(log'[d]) /\ log'[d][j] = log[d][j]
    <3> DEFINE m == Message(b)
    <3>1. m \in Messages
      BY MessageType DEF TypeInv
    <3>2. PICK ok \in BOOLEAN :
            log' = [log EXCEPT ![c] = IF ok THEN Append(@, m) ELSE @]
      BY <2>4, DeliverSends
    <3> HIDE DEF m
    <3> QED BY <1>0, <3>1, <3>2, SendAdds
  <2>5. QED
    BY <2>1, <2>2, <2>3, <2>4, LogFrame
<1>2. Len(log[d]) \in Nat /\ Len(log'[d]) \in Nat
  <2>1. TypeInv'
    BY TypeStep
  <2>2. log[d] \in Seq(Messages) /\ log'[d] \in Seq(Messages)
    BY <1>0, <2>1 DEF TypeInv, TypeOK
  <2>3. QED
    BY <2>2
<1>3. Len(log[d]) >= Cap => Len(log'[d]) >= Cap
  <2>1. SUFFICES ASSUME Len(log[d]) >= Cap PROVE Len(log'[d]) >= Cap
    OBVIOUS
  <2>2. Len(log[d]) \in 1..Len(log[d])
    BY <1>0, <1>2, <2>1
  <2>3. Len(log[d]) \in 1..Len(log'[d])
    BY <1>1, <2>2
  <2>4. QED
    BY <1>0, <1>2, <2>1, <2>3
<1>4. QED
  BY <1>1, <1>3

\* A message sent to a registered viewer is on its channel, or the channel is
\* full.
LEMMA SentOrFull ==
  ASSUME TypeInv, ChainInv, [Next]_vars, NEW d \in clients, NEW m \in Messages,
         log' = [log EXCEPT ![d] = IF Accepts(d) THEN Append(@, m) ELSE @]
  PROVE  (\E j \in 1..Len(log'[d]) : log'[d][j] = m) \/ Len(log'[d]) >= Cap
<1>1. d \in Clients /\ open[d]
  BY DEF ChainInv, Registered, TypeInv, TypeOK
<1>2. CASE HasRoom(d)
  <2>1. Accepts(d) /\ Accepts(d) \in BOOLEAN
    BY <1>1, <1>2 DEF Accepts
  <2>2. QED
    <3>1. log[d] \in Seq(Messages) /\ log'[d] = Append(log[d], m)
      BY <1>1, <2>1 DEF TypeInv, TypeOK
    <3>2. Len(log'[d]) \in 1..Len(log'[d]) /\ log'[d][Len(log'[d])] = m
      BY <3>1
    <3>3. QED
      BY <3>2
<1>3. CASE ~HasRoom(d)
  <2>1. Len(log[d]) \in Nat /\ taken[d] \in Nat /\ Cap \in Nat
    BY <1>1, BoundsAssumption DEF TypeInv, TypeOK
  <2>2. Len(log[d]) >= Cap
    BY <1>3, <2>1 DEF HasRoom
  <2>3. QED
    BY <2>2, LogGrows
<1>4. QED
  BY <1>2, <1>3

LEMMA PendingReaches ==
  ASSUME TypeInv, ChainInv, [Next]_vars, NEW d \in clients, NEW x,
         \E i \in 1..Len(pending[d]) : pending[d][i] = x
  PROVE  \/ \E i \in 1..Len(pending'[d]) : pending'[d][i] = x
         \/ \E j \in 1..Len(log'[d]) : log'[d][j] = x
         \/ Len(log'[d]) >= Cap
<1>0. d \in Clients
  BY DEF TypeInv, TypeOK
<1>1. CASE UNCHANGED pending
  BY <1>1
<1>2. ASSUME NEW c \in Clients, AddClient(c)
      PROVE  \E i \in 1..Len(pending'[d]) : pending'[d][i] = x
  <2>1. d # c
    BY <1>2 DEF AddClient, ChainInv, Registered, At
  <2>2. QED
    BY <1>0, <1>2, <2>1 DEF AddClient, TypeInv, TypeOK
<1>3. ASSUME NEW c \in Clients, SendCached(c), c # d
      PROVE  \E i \in 1..Len(pending'[d]) : pending'[d][i] = x
  BY <1>0, <1>3 DEF SendCached, TypeInv, TypeOK
<1>4. ASSUME SendCached(d)
      PROVE  \/ \E i \in 1..Len(pending'[d]) : pending'[d][i] = x
             \/ \E j \in 1..Len(log'[d]) : log'[d][j] = x
             \/ Len(log'[d]) >= Cap
  <2>1. /\ pending[d] \in Seq(Messages) /\ pending[d] # <<>>
        /\ pending'[d] = Tail(pending[d])
    BY <1>0, <1>4 DEF SendCached, TypeInv, TypeOK
  <2>2. PICK i \in 1..Len(pending[d]) : pending[d][i] = x
    OBVIOUS
  <2>3. CASE i = 1
    <3>1. Head(pending[d]) = x /\ x \in Messages
      BY <2>1, <2>2, <2>3
    <3>2. log' = [log EXCEPT ![d] = IF Accepts(d) THEN Append(@, x) ELSE @]
      BY <1>4, <3>1 DEF SendCached, Send
    <3>3. QED
      BY <3>1, <3>2, SentOrFull
  <2>4. CASE i # 1
    <3>1. i - 1 \in 1..Len(Tail(pending[d])) /\ Tail(pending[d])[i - 1] = x
      BY <2>1, <2>2, <2>4
    <3>2. QED
      BY <2>1, <3>1
  <2>5. QED
    BY <2>3, <2>4
<1>5. QED
  BY <1>1, <1>2, <1>3, <1>4, PendingFrame

\* The newest packet, whose broadcast begins or runs, reaches every registered
\* viewer it has not visited.
LEMMA BroadcastReaches ==
  ASSUME TypeInv, ChainInv, [Next]_vars, NEW d \in clients, d \in clients',
         NEW s \in {"video", "audio"},
         s = "video" => Anchor(Len(stream["video"])),
         At(s, "bcast") \/ d \in todo[s]
  PROVE  \/ /\ Len(stream'[s]) = Len(stream[s])
            /\ pc'[s] = "bcast" \/ d \in todo'[s]
         \/ \E j \in 1..Len(log'[d]) : log'[d][j] = Frame(s, Len(stream[s]))
         \/ Len(log'[d]) >= Cap
<1> DEFINE OnItsWay == /\ Len(stream'[s]) = Len(stream[s])
                       /\ pc'[s] = "bcast" \/ d \in todo'[s]
<1> USE DEF TypeInv, TypeOK, ChainInv, Registered, At, cached, channels
<1>0. /\ d \in Clients /\ s \in Streams /\ s \in Procs /\ s \notin Clients
      /\ At(s, "bcast") \/ At(s, "deliver")
  BY ClientsAssumption DEF Streams, Procs
<1>1. ASSUME NEW t \in Streams, StreamStep(t) PROVE OnItsWay
  <2>1. t # s
    BY <1>0, <1>1 DEF StreamStep, ReadPacket, CachePacket, StreamEnds, StreamDone
  <2>2. QED
    BY <1>0, <1>1, <2>1
       DEF StreamStep, ReadPacket, CachePacket, StreamEnds, StreamDone, Goto
<1>2. ASSUME NEW b \in Procs, BeginBroadcast(b) PROVE OnItsWay
  BY <1>0, <1>2 DEF BeginBroadcast, Goto
<1>3. ASSUME NEW b \in Procs, EndBroadcast(b) PROVE OnItsWay
  BY <1>0, <1>3 DEF EndBroadcast, Goto
<1>4. ASSUME NEW b \in Procs, NEW c \in Clients, Deliver(b, c), b # s \/ c # d
      PROVE  OnItsWay
  BY <1>0, <1>4 DEF Deliver
<1>5. ASSUME Deliver(s, d)
      PROVE  \/ \E j \in 1..Len(log'[d]) : log'[d][j] = Frame(s, Len(stream[s]))
             \/ Len(log'[d]) >= Cap
  <2> DEFINE m == Frame(s, Len(stream[s]))
  <2>1. m \in Messages
    BY <1>0, FrameType
  <2>2. log' = [log EXCEPT ![d] = IF Accepts(d) THEN Append(@, m) ELSE @]
    BY <1>0, <1>5 DEF Deliver, Send, SendVideo, Message, Anchor, Streams
  <2> HIDE DEF m
  <2>3. (\E j \in 1..Len(log'[d]) : log'[d][j] = m) \/ Len(log'[d]) >= Cap
    BY <2>1, <2>2, SentOrFull
  <2>4. QED
    BY <2>3 DEF m
<1>6. ASSUME NEW c \in Clients, HandlerStep(c) PROVE OnItsWay
  <2>1. UNCHANGED <<stream, todo>>
    BY <1>6
       DEF HandlerStep, OpenSocket, AddClient, SendCached, CountViewers, StartPump,
           RequestControl, ReleaseControl, CheckControl, ForwardControl, RemoveClient
  <2>2. c # s
    BY <1>0
  <2>3. pc'[s] = pc[s]
    BY SMTT(30), <1>0, <1>6, <2>2
       DEF HandlerStep, OpenSocket, AddClient, SendCached, CountViewers, StartPump,
           RequestControl, ReleaseControl, CheckControl, ForwardControl, RemoveClient,
           Goto
  <2>4. QED
    BY <1>0, <2>1, <2>3
<1>7. CASE UNCHANGED <<stream, pc, todo>>
  BY <1>7
<1>8. QED
  BY <1>1, <1>2, <1>3, <1>4, <1>5, <1>6, <1>7
     DEF Next, BroadcastStep, PumpStep, PumpWrites, PumpFails, PumpEnds, BeginStop,
         FinishStop, Terminated, vars

\* A frame that is in the cache reaches every viewer registered after the step.
LEMMA CachedReaches ==
  ASSUME TypeInv, ChainInv, [Next]_vars, NEW d \in clients',
         NEW s \in {"video", "audio"}, NEW n \in Nat \ {0},
         <<s, n>> \in {<<"video", videoConfig>>, <<"video", lastKeyFrame>>,
                       <<"audio", audioConfig>>},
         \A c \in clients : Reaches(c, s, n)
  PROVE  Reaches(d, s, n)'
<1>1. CASE d \in clients
  <2>1. InLog(d, Frame(s, n)) \/ Len(log[d]) >= Cap \/ ToCome(d, s, n)
    BY <1>1 DEF Reaches
  <2>2. CASE InLog(d, Frame(s, n)) \/ Len(log[d]) >= Cap
    BY <1>1, <2>2, LogGrows DEF Reaches, InLog, Frame
  <2>3. CASE \E i \in 1..Len(pending[d]) : pending[d][i] = Frame(s, n)
    BY <1>1, <2>3, PendingReaches DEF Reaches, InLog, ToCome, Frame
  <2>4. CASE n = Len(stream[s]) /\ (At(s, "bcast") \/ d \in todo[s])
    <3>1. s = "video" => Anchor(Len(stream["video"]))
      BY <2>4 DEF ChainInv, Anchored
    <3>2. QED
      BY <1>1, <2>4, <3>1, BroadcastReaches DEF Reaches, InLog, ToCome, Frame, At
  <2>5. QED
    BY <2>1, <2>2, <2>3, <2>4 DEF ToCome
<1>2. CASE d \notin clients
  <2>1. AddClient(d)
    <3>1. ASSUME NEW c \in Clients, AddClient(c) PROVE c = d
      BY <1>2, <3>1 DEF AddClient
    <3>2. ASSUME clients' \subseteq clients PROVE FALSE
      BY <1>2, <3>2
    <3>3. \A c \in Clients : RemoveClient(c) => clients' \subseteq clients
      BY DEF RemoveClient
    <3>4. FinishStop => clients' \subseteq clients
      BY DEF FinishStop
    <3>5. QED
      BY <3>1, <3>2, <3>3, <3>4
         DEF Next, StreamStep, BroadcastStep, HandlerStep, PumpStep, vars, cached,
             channels, ReadPacket, CachePacket, StreamEnds, StreamDone,
             BeginBroadcast, Deliver, EndBroadcast, OpenSocket, SendCached,
             CountViewers, StartPump, RequestControl, ReleaseControl, CheckControl,
             ForwardControl, PumpWrites, PumpFails, PumpEnds, BeginStop, Terminated
  <2>2. d \in Clients
    BY <2>1, TypeStep DEF TypeInv, TypeOK
  <2>3. pending'[d] = Snapshot
    BY <2>1, <2>2 DEF AddClient, TypeInv, TypeOK
  <2>4. \E i \in 1..Len(Snapshot) : Snapshot[i] = Frame(s, n)
    BY SnapshotHolds DEF TypeInv
  <2>5. QED
    BY <2>3, <2>4 DEF Reaches, ToCome, Frame
<1>3. QED
  BY <1>1, <1>2

LEMMA LatestStep ==
  ASSUME TypeInv, ChainInv, LatestInv, [Next]_vars PROVE LatestInv'
<1> SUFFICES ASSUME NEW c \in clients', NEW f \in Latest', f[2] # 0
             PROVE  Reaches(c, f[1], f[2])'
  BY DEF LatestInv, Reaches
<1>1. /\ f[1] \in {"video", "audio"} /\ f = <<f[1], f[2]>>
      /\ f[2] \in Nat
  <2>1. {videoConfig', lastKeyFrame', audioConfig'} \subseteq Nat
    BY TypeStep DEF TypeInv, TypeOK
  <2>2. QED
    BY <2>1 DEF Latest
<1>2. CASE f \in Latest
  <2>1. \A d \in clients : Reaches(d, f[1], f[2])
    BY <1>2 DEF LatestInv, Reaches
  <2>2. <<f[1], f[2]>> \in Latest /\ f[2] \in Nat \ {0}
    BY <1>1, <1>2
  <2>3. QED
    BY <1>1, <2>1, <2>2, CachedReaches DEF Latest
<1>3. CASE f \notin Latest
  <2>1. PICK s \in Streams : CachePacket(s)
    BY <1>3, CacheFrame DEF Latest, cached
  <2>2. f[1] = s /\ f[2] = Len(stream[s]) /\ UNCHANGED stream
    BY <1>3, <2>1 DEF CachePacket, Latest
  <2>3. At(s, "bcast")'
    BY <2>1 DEF CachePacket, Goto, At, TypeInv, TypeOK, Procs
  <2>4. QED
    BY <2>2, <2>3 DEF Reaches, ToCome
<1>4. QED
  BY <1>2, <1>3

\* Between the cache and the broadcasts no configuration and no keyframe can
\* slip past a viewer that registers meanwhile: AddClient needs no more than
\* its one critical section.
THEOREM LatestTheorem == Spec => []LatestQueued
<1>1. Init => LatestInv
  BY DEF Init, LatestInv
<1>2. TypeInv /\ ChainInv /\ LatestInv => LatestQueued
  <2> SUFFICES ASSUME TypeInv, ChainInv, LatestInv, NEW c \in clients, NEW f \in Latest,
                      f[2] # 0, pending[c] = <<>>, At(f[1], "idle")
               PROVE  InLog(c, Frame(f[1], f[2])) \/ Len(log[c]) >= Cap
    BY DEF LatestQueued
  <2>1. f[1] \in Procs
    BY DEF Latest, Procs, Streams
  <2>2. ~ToCome(c, f[1], f[2])
    BY <2>1 DEF ToCome, ChainInv, Registered, At
  <2>3. QED
    BY <2>2 DEF LatestInv
<1>3. TypeInv /\ ChainInv /\ [Next]_vars => ChainInv'
  BY GrammarStep, AnchoredStep, LogSoundStep, RegisteredStep, InSyncStep, ChainStep
     DEF ChainInv
<1>4. QED
  BY TypeInit, TypeStep, ChainInit, LatestStep, <1>1, <1>2, <1>3, PTL DEF Spec

=============================================================================
