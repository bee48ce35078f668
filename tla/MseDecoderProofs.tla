--------------------------- MODULE MseDecoderProofs ---------------------------
(* Proofs about MseDecoder: for any number of packets.                      *)
EXTENDS MseDecoder, SequenceTheorems, TLAPS

-----------------------------------------------------------------------------
(* Sequences of packets *)

\* What has been fed stays fed, and the numbers of packets stay numbers of
\* packets, when another one is fed.
LEMMA FedMore ==
  ASSUME TypeOK, NEW k \in Kinds, Fed(k)
  PROVE  /\ stream' \in Seq(Kinds)
         /\ Len(stream) \in Nat /\ This = Len(stream) + 1 /\ Len(stream') = This
         /\ \A n \in Packets : stream'[n] = stream[n]
         /\ stream'[This] = k
         /\ This \in Packets' /\ Packets \subseteq Packets'
<1>1. stream \in Seq(Kinds) /\ stream' = Append(stream, k)
  BY DEF TypeOK, Fed
<1>2. QED
  BY <1>1, AppendProperties, LenProperties DEF Packets, This

LEMMA SeqOfPackets ==
  ASSUME NEW m \in Nat, NEW n \in Nat, m <= n, NEW q \in Seq(1..m)
  PROVE  q \in Seq(1..n)
<1>1. 1..m \subseteq 1..n
  OBVIOUS
<1>2. QED
  BY <1>1, SeqMonotonic

\* The members of sequences put together.
LEMMA ElementsOfAppend ==
  ASSUME NEW S, NEW q \in Seq(S), NEW e \in S
  PROVE  Elements(Append(q, e)) = Elements(q) \cup {e}
<1>1. /\ Append(q, e) \in Seq(S)
      /\ Len(q) \in Nat /\ Len(Append(q, e)) = Len(q) + 1
      /\ \A i \in 1..Len(q) : Append(q, e)[i] = q[i]
      /\ Append(q, e)[Len(q) + 1] = e
  BY AppendProperties, LenProperties
<1>2. QED
  BY <1>1 DEF Elements

LEMMA ElementsOfConcat ==
  ASSUME NEW S, NEW p \in Seq(S), NEW q \in Seq(S)
  PROVE  Elements(p \o q) = Elements(p) \cup Elements(q)
<1> DEFINE r == p \o q
<1>1. /\ Len(p) \in Nat /\ Len(q) \in Nat /\ Len(r) = Len(p) + Len(q)
      /\ \A i \in 1..(Len(p) + Len(q)) :
           r[i] = IF i <= Len(p) THEN p[i] ELSE q[i - Len(p)]
  BY ConcatProperties, LenProperties
<1> HIDE DEF r
<1>2. ASSUME NEW n \in Elements(r) PROVE n \in Elements(p) \cup Elements(q)
  <2>1. PICK i \in 1..Len(r) : n = r[i]
    BY DEF Elements
  <2>2. CASE i <= Len(p)
    BY <1>1, <2>1, <2>2 DEF Elements
  <2>3. CASE ~(i <= Len(p))
    <3>1. i - Len(p) \in 1..Len(q) /\ n = q[i - Len(p)]
      BY <1>1, <2>1, <2>3
    <3>2. QED
      BY <3>1 DEF Elements
  <2>4. QED
    BY <2>2, <2>3
<1>3. ASSUME NEW n \in Elements(p) PROVE n \in Elements(r)
  <2>1. PICK i \in 1..Len(p) : n = p[i]
    BY <1>3 DEF Elements
  <2>2. i \in 1..Len(r) /\ r[i] = n
    BY <1>1, <2>1
  <2>3. QED
    BY <2>2 DEF Elements
<1>4. ASSUME NEW n \in Elements(q) PROVE n \in Elements(r)
  <2>1. PICK i \in 1..Len(q) : n = q[i]
    BY <1>4 DEF Elements
  <2>2. Len(p) + i \in 1..Len(r) /\ r[Len(p) + i] = n
    BY <1>1, <2>1
  <2>3. QED
    BY <2>2 DEF Elements
<1>5. QED
  BY <1>2, <1>3, <1>4 DEF r

-----------------------------------------------------------------------------
(* Types *)

\* The part of the types that the pipeline and its events have.
PipelineTypes(n) ==
  /\ mediaSource \in Nat /\ sourceBuffer \in Nat
  /\ pendingBuffers \in Seq(1..n) /\ appended \in Seq(1..n)
  /\ opened \in BOOLEAN /\ initialized \in BOOLEAN
  /\ appending \in BOOLEAN /\ updating \in BOOLEAN
  /\ initialized => sourceBuffer # 0
  /\ waiting \in BOOLEAN
  /\ refused \subseteq 1..n

OtherTypes(n) ==
  /\ config \in Nat
  /\ waitingTimer \in BOOLEAN /\ playBlocked \in BOOLEAN /\ destroyed \in BOOLEAN
  /\ early \subseteq 1..n

Tasks == Seq([what : {"sourceopen", "updateend"}, of : Nat])

LEMMA TypesSplit ==
  TypeOK <=> /\ stream \in Seq(Kinds) /\ PipelineTypes(Len(stream))
             /\ OtherTypes(Len(stream)) /\ tasks \in Tasks
BY DEF TypeOK, PipelineTypes, OtherTypes, Tasks, Packets

LEMMA TypesNext ==
  ASSUME stream' \in Seq(Kinds), PipelineTypes(Len(stream))',
         OtherTypes(Len(stream))', tasks' \in Tasks
  PROVE  TypeOK'
<1> USE DEF PipelineTypes, OtherTypes
<1>1. /\ {config', mediaSource', sourceBuffer'} \subseteq Nat
      /\ {pendingBuffers', appended'} \subseteq Seq(Packets')
      /\ early' \subseteq Packets' /\ refused' \subseteq Packets'
  BY DEF Packets
<1>2. \A flag \in {opened', initialized', appending', updating', waiting',
                   waitingTimer', playBlocked', destroyed'} : flag \in BOOLEAN
  OBVIOUS
<1>3. QED
  BY <1>1, <1>2 DEF TypeOK, Tasks

LEMMA TypeInit == Init => TypeOK
<1> SUFFICES ASSUME Init PROVE TypeOK
  OBVIOUS
<1>1. <<>> \in Seq(Kinds) /\ <<>> \in Seq(1..Len(stream)) /\ <<>> \in Tasks
  BY EmptySeq DEF Tasks
<1>2. QED
  BY <1>1, TypesSplit DEF Init, PipelineTypes, OtherTypes

\* The actions that feed a packet leave the parts they do not touch well typed.
LEMMA FedTypes ==
  ASSUME TypeOK, NEW k \in Kinds, Fed(k)
  PROVE  /\ stream' \in Seq(Kinds) /\ Len(stream') \in Nat
         /\ PipelineTypes(Len(stream')) /\ OtherTypes(Len(stream'))
         /\ Append(pendingBuffers, This) \in Seq(1..Len(stream'))
         /\ <<This>> \in Seq(1..Len(stream'))
         /\ This \in Nat /\ This \in 1..Len(stream')
<1>1. /\ Len(stream) \in Nat /\ Len(stream') = Len(stream) + 1
      /\ stream' \in Seq(Kinds) /\ This = Len(stream) + 1
  BY FedMore
<1>2. PipelineTypes(Len(stream')) /\ OtherTypes(Len(stream'))
  <2>1. /\ pendingBuffers \in Seq(1..Len(stream'))
        /\ appended \in Seq(1..Len(stream'))
    BY <1>1, TypesSplit, SeqOfPackets DEF PipelineTypes
  <2>2. 1..Len(stream) \subseteq 1..Len(stream')
    BY <1>1
  <2>3. QED
    BY <2>1, <2>2, TypesSplit DEF PipelineTypes, OtherTypes
<1>3. Append(pendingBuffers, This) \in Seq(1..Len(stream'))
  BY <1>1, <1>2, AppendProperties DEF PipelineTypes
<1>4. QED
  BY <1>1, <1>2, <1>3

LEMMA TeardownTypes ==
  ASSUME NEW n \in Nat, Teardown, waiting' \in BOOLEAN, refused' \subseteq 1..n
  PROVE  PipelineTypes(n)'
BY EmptySeq DEF Teardown, PipelineTypes

LEMMA AbortTypes == TypeOK => AfterAbort \in Tasks
BY TypesSplit, AppendProperties
   DEF AfterAbort, Event, Tasks, PipelineTypes

LEMMA ProcessTypes ==
  ASSUME NEW n \in Nat, PipelineTypes(n), NEW queue \in Seq(1..n),
         NEW busy \in BOOLEAN, ProcessPending(queue, busy)
  PROVE  PipelineTypes(n)'
<1>1. CASE /\ pendingBuffers' = queue /\ appending' = busy
           /\ UNCHANGED <<mediaSource, opened, sourceBuffer, initialized,
                          updating, appended, waiting, refused>>
  BY <1>1 DEF PipelineTypes
<1>2. CASE /\ pendingBuffers' = <<>> /\ appending' = TRUE /\ updating' = TRUE
           /\ appended' = appended \o queue
           /\ UNCHANGED <<mediaSource, opened, sourceBuffer, initialized,
                          waiting, refused>>
  BY <1>2, EmptySeq, ConcatProperties DEF PipelineTypes
<1>3. CASE /\ pendingBuffers' = <<>> /\ appending' = FALSE
           /\ updating' \in BOOLEAN
           /\ refused' = refused \cup Elements(queue)
           /\ UNCHANGED <<mediaSource, opened, sourceBuffer, initialized,
                          appended, waiting>>
  <2>1. Elements(queue) \subseteq 1..n
    BY ElementOfSeq DEF Elements
  <2>2. QED
    BY <1>3, <2>1, EmptySeq DEF PipelineTypes
<1>4. CASE Reset /\ UNCHANGED refused
  BY <1>4, TeardownTypes DEF Reset, PipelineTypes
<1>5. QED
  BY <1>1, <1>2, <1>3, <1>4 DEF ProcessPending, Batch

LEMMA TypeFeed ==
  ASSUME TypeOK,
         FeedConfig \/ FeedFirstKey
           \/ \E k \in Kinds : FeedDropped(k) \/ FeedSegment(k)
  PROVE  TypeOK'
<1> USE DEF Kinds
<1>1. CASE FeedConfig
  <2>1. Fed("config") /\ config' = This
        /\ UNCHANGED <<pipeline, waiting, waitingTimer, playBlocked, tasks,
                       destroyed, early, refused>>
    BY <1>1 DEF FeedConfig
  <2>2. QED
    BY <2>1, FedTypes, TypesSplit, TypesNext DEF pipeline, PipelineTypes, OtherTypes
<1>2. CASE FeedFirstKey
  <2>1. Fed("key") /\ tasks' = AfterAbort /\ pendingBuffers' = <<This>>
    BY <1>2 DEF FeedFirstKey
  <2>2. tasks' \in Tasks
    BY <2>1, AbortTypes
  <2>3. QED
    BY <1>2, <2>1, <2>2, FedTypes, TypesSplit, TypesNext, EmptySeq
       DEF FeedFirstKey, PipelineTypes, OtherTypes
<1>3. ASSUME NEW k \in Kinds, FeedDropped(k) PROVE TypeOK'
  <2>1. /\ Fed(k)
        /\ early' = IF mediaSource # 0 THEN early \cup {This} ELSE early
        /\ UNCHANGED <<config, pipeline, waiting, waitingTimer, playBlocked,
                       tasks, destroyed, refused>>
    BY <1>3 DEF FeedDropped
  <2>2. QED
    BY <2>1, FedTypes, TypesSplit, TypesNext DEF pipeline, PipelineTypes, OtherTypes
<1>4. ASSUME NEW k \in Kinds, FeedSegment(k) PROVE TypeOK'
  <2>1. /\ Fed(k)
        /\ ProcessPending(Append(pendingBuffers, This), appending)
        /\ UNCHANGED <<config, waitingTimer, playBlocked, tasks, destroyed,
                       early>>
    BY <1>4 DEF FeedSegment
  <2> DEFINE n == Len(stream')
  <2>2. /\ n \in Nat /\ PipelineTypes(n) /\ OtherTypes(n)
        /\ Append(pendingBuffers, This) \in Seq(1..n) /\ stream' \in Seq(Kinds)
    BY <2>1, FedTypes
  <2>3. PICK m \in Nat : m = n
    BY <2>2
  <2>4. PipelineTypes(m)'
    <3>1. appending \in BOOLEAN
      BY TypesSplit, TypesNext DEF PipelineTypes
    <3>2. QED
      BY <2>1, <2>2, <2>3, <3>1, ProcessTypes
  <2>5. QED
    BY <2>1, <2>2, <2>3, <2>4, TypesSplit, TypesNext DEF PipelineTypes, OtherTypes
<1>5. QED
  BY <1>1, <1>2, <1>3, <1>4

LEMMA TypeListener ==
  ASSUME TypeOK, Attach \/ Updated \/ SourceOpen \/ UpdateEnd
  PROVE  TypeOK'
<1> USE TypesSplit, TypesNext DEF PipelineTypes, OtherTypes
<1>1. CASE Attach
  <2>1. tasks' \in Tasks
    BY <1>1, AppendProperties DEF Attach, Event, Tasks
  <2>2. QED
    BY <1>1, <2>1 DEF Attach
<1>2. CASE Updated
  <2>1. tasks' \in Tasks
    BY <1>2, AppendProperties DEF Updated, Event, Tasks
  <2>2. QED
    BY <1>2, <2>1 DEF Updated
<1>3. CASE SourceOpen
  <2>1. tasks' \in Tasks
    BY <1>3, HeadTailProperties DEF SourceOpen, Runs, Tasks
  <2>2. QED
    BY <1>3, <2>1 DEF SourceOpen, OpensForCurrent
<1>4. CASE UpdateEnd
  <2>1. tasks' \in Tasks
    BY <1>4, HeadTailProperties DEF UpdateEnd, Runs, Tasks
  <2>2. /\ ProcessPending(pendingBuffers, FALSE)
        /\ UNCHANGED <<stream, config, waitingTimer, playBlocked, destroyed,
                       early>>
    BY <1>4 DEF UpdateEnd
  <2>3. PICK m \in Nat : m = Len(stream)
    BY LenProperties
  <2>4. PipelineTypes(m)'
    BY <2>2, <2>3, ProcessTypes
  <2>5. QED
    BY <2>1, <2>2, <2>3, <2>4
<1>5. QED
  BY <1>1, <1>2, <1>3, <1>4

LEMMA TypeRecovery ==
  ASSUME TypeOK,
         VideoWaiting \/ WaitingTimeout \/ VideoError \/ Stalled \/ Trim
           \/ PlaySettles \/ Destroy \/ UNCHANGED vars
  PROVE  TypeOK'
<1> USE TypesSplit, TypesNext DEF PipelineTypes, OtherTypes
<1>1. CASE VideoWaiting \/ Trim \/ PlaySettles \/ UNCHANGED vars
  <2>1. CASE VideoWaiting \/ PlaySettles
    BY <2>1 DEF VideoWaiting, PlaySettles, pipeline
  <2>2. CASE Trim
    BY <2>2 DEF Trim
  <2>3. CASE UNCHANGED vars
    BY <2>3 DEF vars, pipeline
  <2>4. QED
    BY <1>1, <2>1, <2>2, <2>3
<1>2. ASSUME Teardown, waiting' \in BOOLEAN, config' \in Nat,
             waitingTimer' \in BOOLEAN, destroyed' \in BOOLEAN,
             tasks' = AfterAbort,
             UNCHANGED <<stream, playBlocked, early, refused>>
      PROVE  TypeOK'
  <2>1. tasks' \in Tasks
    BY <1>2, AbortTypes
  <2>2. <<>> \in Seq(1..Len(stream))
    BY EmptySeq
  <2>3. QED
    BY <1>2, <2>1, <2>2 DEF Teardown
<1>3. CASE VideoError \/ Stalled \/ Destroy
  <2>1. /\ waiting \in BOOLEAN /\ config \in Nat
        /\ waitingTimer \in BOOLEAN /\ destroyed \in BOOLEAN
    OBVIOUS
  <2>2. CASE VideoError \/ Stalled
    BY <1>2, <2>1, <2>2 DEF VideoError, Stalled, Reset
  <2>3. CASE Destroy
    BY <1>2, <2>1, <2>3 DEF Destroy
  <2>4. QED
    BY <1>3, <2>2, <2>3
<1>4. CASE WaitingTimeout
  <2>1. CASE Reset /\ tasks' = AfterAbort
    BY <1>2, <1>4, <2>1 DEF WaitingTimeout, Reset
  <2>2. CASE UNCHANGED <<pipeline, waiting, tasks>>
    BY <1>4, <2>2 DEF WaitingTimeout, pipeline
  <2>3. QED
    BY <1>4, <2>1, <2>2 DEF WaitingTimeout
<1>5. QED
  BY <1>1, <1>3, <1>4

\* Every variable keeps its type: what is queued and appended are numbers of
\* packets that were fed.
THEOREM DecoderTyped == Spec => []TypeOK
<1>1. TypeOK /\ [Next]_vars => TypeOK'
  BY TypeFeed, TypeListener, TypeRecovery DEF Next
<1>2. QED
  BY <1>1, TypeInit, PTL DEF Spec

-----------------------------------------------------------------------------
(* What a pipeline is given *)

\* The packets g, given to the pipeline of keyframe m out of the stream s, begin
\* with m, go up, and leave out only configurations and what is in `lost`.
Chain(m, g, s, lost) ==
  /\ g # <<>> /\ g[1] = m /\ s[m] = "key"
  /\ \A i, j \in 1..Len(g) : i < j => g[i] < g[j]
  /\ \A n \in m..Len(s) : s[n] = "config" \/ n \in Elements(g) \cup lost

\* A keyframe begins a chain.
LEMMA ChainStart ==
  ASSUME NEW s \in Seq(Kinds), NEW lost
  PROVE  Chain(Len(s) + 1, <<Len(s) + 1>>, Append(s, "key"), lost)
<1> DEFINE m == Len(s) + 1  t == Append(s, "key")
<1>1. m \in Nat /\ Len(t) = m /\ t[m] = "key"
  BY AppendProperties, LenProperties DEF Kinds
<1>2. Len(<<m>>) = 1 /\ <<m>>[1] = m /\ <<m>> # <<>>
  OBVIOUS
<1>3. m \in Elements(<<m>>)
  BY <1>2 DEF Elements
<1> HIDE DEF m, t
<1>4. Chain(m, <<m>>, t, lost)
  BY <1>1, <1>2, <1>3 DEF Chain
<1>5. QED
  BY <1>4 DEF m, t

\* A packet that may be left out leaves it a chain.
LEMMA ChainFed ==
  ASSUME NEW s \in Seq(Kinds), NEW k \in Kinds, NEW g \in Seq(1..Len(s)),
         NEW m, NEW lost, NEW more, lost \subseteq more, Chain(m, g, s, lost),
         k = "config" \/ Len(s) + 1 \in more
  PROVE  Chain(m, g, Append(s, k), more)
<1> DEFINE t == Append(s, k)
<1>1. Len(s) \in Nat /\ Len(t) = Len(s) + 1
  BY AppendProperties, LenProperties
<1>2. t[Len(s) + 1] = k /\ \A n \in 1..Len(s) : t[n] = s[n]
  BY AppendProperties
<1>3. m \in 1..Len(s)
  BY ElementOfSeq, EmptySeq DEF Chain
<1> HIDE DEF t
<1>4. ASSUME NEW n \in m..Len(t)
      PROVE  t[n] = "config" \/ n \in Elements(g) \cup more
  <2>1. CASE n = Len(s) + 1
    BY <1>2, <2>1
  <2>2. CASE n # Len(s) + 1
    <3>1. n \in m..Len(s) /\ n \in 1..Len(s)
      BY <1>1, <1>3, <2>2
    <3>2. QED
      BY <1>2, <3>1 DEF Chain
  <2>3. QED
    BY <2>1, <2>2
<1>5. t[m] = "key"
  BY <1>2, <1>3 DEF Chain
<1>6. Chain(m, g, t, more)
  BY <1>4, <1>5 DEF Chain
<1>7. QED
  BY <1>6 DEF t

\* So does one that is given.
LEMMA ChainGiven ==
  ASSUME NEW s \in Seq(Kinds), NEW k \in Kinds, NEW g \in Seq(1..Len(s)),
         NEW m, NEW lost, Chain(m, g, s, lost)
  PROVE  Chain(m, Append(g, Len(s) + 1), Append(s, k), lost)
<1> DEFINE e == Len(s) + 1  t == Append(s, k)  h == Append(g, e)
<1>1. /\ Len(s) \in Nat /\ Len(t) = e /\ \A n \in 1..Len(s) : t[n] = s[n]
  BY AppendProperties, LenProperties
<1>2. g \in Seq(1..e) /\ e \in 1..e
  BY <1>1, SeqOfPackets
<1>3. Len(g) \in Nat /\ Len(h) = Len(g) + 1
  BY <1>2, AppendProperties, LenProperties
<1>4. /\ h # <<>> /\ h[Len(g) + 1] = e
       /\ \A i \in 1..Len(g) : h[i] = g[i]
  BY <1>2, AppendProperties
<1>5. \A i \in 1..Len(g) : g[i] \in 1..Len(s)
  BY ElementOfSeq
<1>6. Elements(h) = Elements(g) \cup {e}
  BY <1>2, ElementsOfAppend
<1>7. Len(g) >= 1 /\ m \in 1..Len(s)
  BY <1>3, <1>5, EmptySeq DEF Chain
<1> HIDE DEF e, t, h
<1>8. h # <<>> /\ h[1] = m /\ t[m] = "key"
  <2>1. 1 \in 1..Len(g)
    BY <1>7, <1>3
  <2>2. QED
    BY <1>1, <1>7, <1>4, <2>1 DEF Chain
<1>9. ASSUME NEW i \in 1..Len(h), NEW j \in 1..Len(h), i < j
      PROVE  h[i] < h[j]
  <2>1. CASE j \in 1..Len(g)
    <3>1. i \in 1..Len(g)
      BY <1>9, <1>3, <2>1
    <3>2. QED
      BY <1>9, <1>4, <2>1, <3>1 DEF Chain
  <2>2. CASE j \notin 1..Len(g)
    <3>1. j = Len(g) + 1 /\ i \in 1..Len(g)
      BY <1>9, <1>3, <2>2
    <3>2. h[j] = e /\ h[i] \in 1..Len(s)
      BY <1>4, <1>5, <3>1
    <3>3. QED
      BY <1>1, <3>2 DEF e
  <2>3. QED
    BY <2>1, <2>2
<1>10. ASSUME NEW n \in m..Len(t)
      PROVE  t[n] = "config" \/ n \in Elements(h) \cup lost
  <2>1. CASE n = e
    BY <1>6, <2>1
  <2>2. CASE n # e
    <3>1. n \in m..Len(s) /\ t[n] = s[n]
      BY <1>1, <1>7, <2>2 DEF e
    <3>2. QED
      BY <1>6, <3>1 DEF Chain
  <2>3. QED
    BY <2>1, <2>2
<1>11. Chain(m, h, t, lost)
  BY <1>8, <1>9, <1>10 DEF Chain
<1>12. QED
  BY <1>11 DEF e, t, h

\* The end of a chain may be lost.
LEMMA ChainLost ==
  ASSUME NEW S, NEW p \in Seq(S), NEW q \in Seq(S), NEW s, NEW m, NEW lost,
         p # <<>>, Chain(m, p \o q, s, lost)
  PROVE  Chain(m, p, s, lost \cup Elements(q))
<1> DEFINE g == p \o q
<1>1. /\ Len(p) \in Nat /\ Len(q) \in Nat /\ Len(g) = Len(p) + Len(q)
      /\ \A i \in 1..Len(p) : i \in 1..Len(g) /\ g[i] = p[i]
      /\ Len(p) >= 1
  BY ConcatProperties, LenProperties, EmptySeq
<1>2. Elements(g) = Elements(p) \cup Elements(q)
  BY ElementsOfConcat
<1> HIDE DEF g
<1>3. Chain(m, g, s, lost)
  BY DEF g
<1>4. p[1] = m /\ s[m] = "key"
  BY <1>1, <1>3 DEF Chain
<1>5. \A i, j \in 1..Len(p) : i < j => p[i] < p[j]
  BY <1>1, <1>3 DEF Chain
<1>6. QED
  BY <1>2, <1>3, <1>4, <1>5 DEF Chain

-----------------------------------------------------------------------------
(* The inductive invariant *)

\* A SourceBuffer belongs to the MediaSource of the moment, and a decoder that
\* waits for a keyframe has no MediaSource.
Attached ==
  /\ sourceBuffer # 0 => sourceBuffer = mediaSource
  /\ initialized => sourceBuffer # 0
  /\ waiting => mediaSource = 0

\* What a MediaSource is given is a chain; without one, nothing is given.
Chained ==
  /\ mediaSource = 0 => Given = <<>>
  /\ mediaSource # 0
       => Chain(mediaSource, Given, stream, early \cup refused)

DecoderInv == TypeOK /\ Attached /\ Chained

LEMMA GivenTyped ==
  TypeOK => /\ appended \in Seq(1..Len(stream))
            /\ pendingBuffers \in Seq(1..Len(stream))
            /\ Given \in Seq(1..Len(stream))
BY TypesSplit, ConcatProperties DEF PipelineTypes, Given

LEMMA DecoderInit == Init => Attached /\ Chained
<1>1. <<>> \o <<>> = <<>>
  BY ConcatEmptySeq, EmptySeq
<1>2. QED
  BY <1>1 DEF Init, Attached, Chained, Given

\* A pipeline that is torn down leaves nothing behind.
LEMMA TornDown ==
  ASSUME Teardown PROVE Attached' /\ Chained'
<1>1. <<>> \o <<>> = <<>>
  BY ConcatEmptySeq, EmptySeq
<1>2. QED
  BY <1>1 DEF Teardown, Attached, Chained, Given

\* Whether the queue goes to the buffer, is lost, or stays, what the pipeline
\* was to be given remains a chain.
LEMMA Processed ==
  ASSUME NEW n \in Nat, PipelineTypes(n), NEW queue \in Seq(1..n),
         NEW busy \in BOOLEAN, ProcessPending(queue, busy),
         NEW s, Attached, early' = early,
         mediaSource = 0 => appended \o queue = <<>>,
         mediaSource # 0
           => Chain(mediaSource, appended \o queue, s, early \cup refused),
         stream' = s
  PROVE  Attached' /\ Chained'
<1>1. CASE /\ pendingBuffers' = queue /\ appending' = busy
           /\ UNCHANGED <<mediaSource, opened, sourceBuffer, initialized,
                          updating, appended, waiting, refused>>
  BY <1>1 DEF Attached, Chained, Given
<1>2. CASE /\ pendingBuffers' = <<>> /\ appending' = TRUE /\ updating' = TRUE
           /\ appended' = appended \o queue
           /\ UNCHANGED <<mediaSource, opened, sourceBuffer, initialized,
                          waiting, refused>>
  <2>1. Given' = appended \o queue
    <3>1. appended \o queue \in Seq(1..n)
      BY ConcatProperties DEF PipelineTypes
    <3>2. QED
      BY <1>2, <3>1, ConcatEmptySeq DEF Given
  <2>2. QED
    BY <1>2, <2>1 DEF Attached, Chained
<1>3. CASE /\ appended # <<>>
           /\ pendingBuffers' = <<>>
           /\ refused' = refused \cup Elements(queue)
           /\ UNCHANGED <<mediaSource, opened, sourceBuffer, initialized,
                          appended, waiting>>
  <2>1. Given' = appended
    BY <1>3, ConcatEmptySeq DEF Given, PipelineTypes
  <2>2. mediaSource # 0
    <3>1. appended \o queue # <<>>
      BY <1>3, ConcatEqualIffEmpty DEF PipelineTypes
    <3>2. QED
      BY <3>1
  <2>3. Chain(mediaSource, appended, s, (early \cup refused) \cup Elements(queue))
    BY <1>3, <2>2, ChainLost DEF PipelineTypes
  <2>4. (early \cup refused) \cup Elements(queue) = early' \cup refused'
    BY <1>3
  <2>5. QED
    BY <1>3, <2>1, <2>2, <2>3, <2>4 DEF Attached, Chained
<1>4. CASE Reset
  BY <1>4, TornDown DEF Reset
<1>5. QED
  BY <1>1, <1>2, <1>3, <1>4 DEF ProcessPending, Batch

\* A packet that is not given is a configuration, or has no pipeline to miss it,
\* or is counted as dropped.
LEMMA Withheld ==
  ASSUME DecoderInv, NEW k \in Kinds, Fed(k),
         UNCHANGED <<pipeline, waiting, refused>>, early \subseteq early',
         k = "config" \/ mediaSource = 0 \/ This \in early'
  PROVE  Attached' /\ Chained'
<1>1. /\ Given' = Given /\ Given \in Seq(1..Len(stream))
      /\ UNCHANGED <<mediaSource, sourceBuffer, initialized, waiting>>
  BY GivenTyped DEF pipeline, Given, DecoderInv
<1>2. stream \in Seq(Kinds) /\ stream' = Append(stream, k)
  BY DEF DecoderInv, TypeOK, Fed
<1>3. ASSUME mediaSource # 0
      PROVE  Chain(mediaSource, Given, stream', early' \cup refused')
  <2>1. Chain(mediaSource, Given, stream, early \cup refused)
    BY <1>3 DEF DecoderInv, Chained
  <2>2. early \cup refused \subseteq early' \cup refused'
    OBVIOUS
  <2>3. k = "config" \/ Len(stream) + 1 \in early' \cup refused'
    BY <1>3 DEF This
  <2>4. QED
    BY <1>1, <1>2, <2>1, <2>2, <2>3, ChainFed
<1>4. QED
  BY <1>1, <1>3 DEF DecoderInv, Attached, Chained

LEMMA DecoderFeed ==
  ASSUME DecoderInv,
         FeedConfig \/ FeedFirstKey
           \/ \E k \in Kinds : FeedDropped(k) \/ FeedSegment(k)
  PROVE  Attached' /\ Chained'
<1>1. stream \in Seq(Kinds) /\ Len(stream) \in Nat
  BY LenProperties DEF DecoderInv, TypeOK
<1>2. CASE FeedConfig
  BY <1>2, Withheld DEF FeedConfig, Kinds
<1>3. CASE FeedFirstKey
  <2>1. /\ mediaSource' = Len(stream) + 1 /\ sourceBuffer' = 0
        /\ ~initialized' /\ ~waiting'
        /\ stream' = Append(stream, "key")
        /\ Given' = <<>> \o <<Len(stream) + 1>>
    BY <1>3 DEF FeedFirstKey, Fed, This, Given
  <2>2. <<>> \o <<Len(stream) + 1>> = <<Len(stream) + 1>>
    BY <1>1, ConcatEmptySeq
  <2>3. Chain(mediaSource', Given', stream', early' \cup refused')
    BY <1>1, <2>1, <2>2, ChainStart
  <2>4. QED
    BY <1>1, <2>1, <2>3 DEF Attached, Chained
<1>4. ASSUME NEW k \in Kinds, FeedDropped(k) PROVE Attached' /\ Chained'
  BY <1>4, Withheld DEF FeedDropped
<1>5. ASSUME NEW k \in Kinds, FeedSegment(k) PROVE Attached' /\ Chained'
  <2> DEFINE e == Len(stream) + 1  queue == Append(pendingBuffers, e)
  <2>1. /\ Fed(k) /\ stream' = Append(stream, k)
        /\ ProcessPending(queue, appending) /\ early' = early
    BY <1>5 DEF FeedSegment, Fed, This
  <2>2. mediaSource # 0
    BY <1>5 DEF FeedSegment, Fresh, DecoderInv, Attached
  <2>3. PICK n \in Nat : n = e
    BY <1>1
  <2>4. PipelineTypes(n) /\ queue \in Seq(1..n)
    BY <1>1, <2>1, <2>3, FedMore, FedTypes DEF DecoderInv, This
  <2>5. appended \o queue = Append(Given, e)
    <3>1. /\ appended \in Seq(1..n) /\ pendingBuffers \in Seq(1..n)
          /\ Given \in Seq(1..n) /\ e \in 1..n /\ <<e>> \in Seq(1..n)
      BY <1>1, <2>3, <2>4, ConcatProperties DEF PipelineTypes, Given
    <3>2. queue = pendingBuffers \o <<e>> /\ Append(Given, e) = Given \o <<e>>
      BY <3>1, AppendIsConcat
    <3>3. QED
      BY <3>1, <3>2, ConcatAssociative DEF Given
  <2>6. Chain(mediaSource, appended \o queue, stream', early \cup refused)
    <3>1. Chain(mediaSource, Given, stream, early \cup refused)
      BY <2>2 DEF DecoderInv, Chained
    <3>2. Given \in Seq(1..Len(stream))
      BY GivenTyped DEF DecoderInv
    <3>3. QED
      BY <1>1, <2>1, <2>5, <3>1, <3>2, ChainGiven
  <2>7. appending \in BOOLEAN
    BY <2>4 DEF PipelineTypes
  <2> HIDE DEF e, queue
  <2>8. QED
    BY <2>1, <2>2, <2>4, <2>6, <2>7, Processed DEF DecoderInv
<1>6. QED
  BY <1>2, <1>3, <1>4, <1>5

LEMMA DecoderListener ==
  ASSUME DecoderInv, Attach \/ Updated \/ SourceOpen \/ UpdateEnd
  PROVE  Attached' /\ Chained'
<1> USE DEF DecoderInv, Attached, Chained, Given
<1>1. CASE Attach \/ Updated
  <2>1. UNCHANGED <<stream, early, refused, mediaSource, sourceBuffer,
                    initialized, waiting, appended, pendingBuffers>>
    BY <1>1 DEF Attach, Updated
  <2>2. QED
    BY <2>1
<1>2. CASE SourceOpen
  BY <1>2 DEF SourceOpen, OpensForCurrent
<1>3. CASE UpdateEnd
  <2>1. ProcessPending(pendingBuffers, FALSE) /\ UNCHANGED <<stream, early>>
    BY <1>3 DEF UpdateEnd
  <2>2. PICK n \in Nat : n = Len(stream)
    BY LenProperties, TypesSplit
  <2>3. PipelineTypes(n) /\ pendingBuffers \in Seq(1..n)
    BY <2>2, TypesSplit DEF PipelineTypes
  <2>4. QED
    BY <2>1, <2>3, Processed
<1>4. QED
  BY <1>1, <1>2, <1>3

LEMMA DecoderRecovery ==
  ASSUME DecoderInv,
         VideoWaiting \/ WaitingTimeout \/ VideoError \/ Stalled \/ Trim
           \/ PlaySettles \/ Destroy \/ UNCHANGED vars
  PROVE  Attached' /\ Chained'
<1>1. CASE UNCHANGED <<stream, early, refused, mediaSource, sourceBuffer,
                      initialized, waiting, appended, pendingBuffers>>
  BY <1>1 DEF DecoderInv, Attached, Chained, Given
<1>2. CASE Teardown
  BY <1>2, TornDown
<1>3. QED
  BY <1>1, <1>2
     DEF VideoWaiting, WaitingTimeout, VideoError, Stalled, Trim, PlaySettles,
         Destroy, Reset, vars, pipeline

LEMMA DecoderStep == DecoderInv /\ [Next]_vars => DecoderInv'
BY TypeFeed, TypeListener, TypeRecovery, DecoderFeed, DecoderListener,
   DecoderRecovery DEF Next, DecoderInv

LEMMA DecoderInvariant == Spec => []DecoderInv
<1>1. Init => DecoderInv
  BY TypeInit, DecoderInit DEF DecoderInv
<1>2. QED
  BY <1>1, DecoderStep, PTL DEF Spec

-----------------------------------------------------------------------------

\* Whichever events come late, and however often the pipeline is rebuilt, the
\* decoder appends to the buffer of the MediaSource the video plays.
THEOREM BufferTheorem == Spec => []BufferCurrent
<1>1. DecoderInv => BufferCurrent
  BY DEF DecoderInv, Attached, BufferCurrent
<1>2. QED
  BY <1>1, DecoderInvariant, PTL

\* The first frame of every pipeline is the keyframe it was made for.
THEOREM StartTheorem == Spec => []StartsWithKey
<1>1. DecoderInv => StartsWithKey
  BY DEF DecoderInv, Chained, Chain, StartsWithKey
<1>2. QED
  BY <1>1, DecoderInvariant, PTL

\* Since its keyframe, a pipeline is given every frame once and in order, but
\* for those dropped before its SourceBuffer was there or by a full buffer.
THEOREM GapTheorem == Spec => []NoSilentGap
<1>1. ASSUME DecoderInv PROVE NoSilentGap
  <2>1. ASSUME NEW i \in 1..(Len(Given) - 1) PROVE Given[i] < Given[i + 1]
    <3>1. Len(Given) \in Nat
      BY <1>1, GivenTyped, LenProperties DEF DecoderInv
    <3>2. i \in 1..Len(Given) /\ i + 1 \in 1..Len(Given) /\ i < i + 1
      BY <3>1
    <3>3. mediaSource # 0
      BY <1>1, <3>2, EmptySeq DEF DecoderInv, Chained
    <3>4. QED
      BY <1>1, <3>2, <3>3 DEF DecoderInv, Chained, Chain
  <2>2. QED
    BY <1>1, <2>1 DEF DecoderInv, Chained, Chain, NoSilentGap
<1>2. QED
  BY <1>1, DecoderInvariant, PTL

=============================================================================
