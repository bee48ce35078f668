------------------------------ MODULE MseDecoder ------------------------------
(***************************************************************************)
(* The fallback video decoder of the player, frontend/js/mse-decoder.js:   *)
(* it wraps each frame into a segment and appends the segments to the      *)
(* SourceBuffer of a MediaSource, and it tears this pipeline down and      *)
(* builds another one when the video gets stuck.                           *)
(*                                                                         *)
(* JavaScript runs one callback at a time, so a callback is one step: a    *)
(* packet from the websocket (feed), a listener of the MediaSource, of the *)
(* SourceBuffer or of the video element, a timer.  What is hard is that a  *)
(* callback may come when the pipeline it was registered for is gone.      *)
(***************************************************************************)
EXTENDS Naturals, Sequences, FiniteSets

CONSTANT MaxPackets    (* Bound on the packets that are fed.               *)

ASSUME BoundAssumption == MaxPackets \in Nat

VARIABLES
  stream,        (* The kinds of the packets fed so far.                   *)
  config,        (* Number of the packet sps and pps come from, or 0.      *)
  mediaSource,   (* The MediaSource, named by the number of the keyframe   *)
                 (* it was made for, or 0 for null.                        *)
  opened,        (* mediaSource.readyState is "open".                      *)
  sourceBuffer,  (* The MediaSource the SourceBuffer belongs to, or 0.     *)
  initialized,   (* The init segment is appended, and the listeners of the *)
                 (* video and the stall detector are in place.             *)
  pendingBuffers,(* The packets whose segments wait to be appended.        *)
  appending,     (* An append is under way, by the decoder's own account.  *)
  updating,      (* The SourceBuffer is updating, by the browser's.        *)
  appended,      (* The packets appended to the SourceBuffer.              *)
  waiting,       (* _waitingForKeyframe.                                   *)
  waitingTimer,  (* _waitingTimer is set.                                  *)
  playBlocked,   (* _playBlocked.                                          *)
  tasks,         (* Events the browser has queued for the decoder.         *)
  destroyed,     (* The player has called destroy and forgotten it.        *)
  early,         (* History: deltas dropped before the SourceBuffer was    *)
                 (* there, though their keyframe was queued.               *)
  refused        (* History: packets of appends that found the buffer full.*)

pipeline == <<mediaSource, opened, sourceBuffer, initialized, pendingBuffers,
              appending, updating, appended>>
vars == <<stream, config, pipeline, waiting, waitingTimer, playBlocked, tasks,
          destroyed, early, refused>>

\* Any packet may come next: the relay drops packets of every kind.
Kinds == {"config", "key", "delta"}

Event(what, source) == [what |-> what, of |-> source]

Elements(q) == {q[i] : i \in 1..Len(q)}

Init ==
  /\ stream = <<>>
  /\ config = 0
  /\ mediaSource = 0 /\ opened = FALSE
  /\ sourceBuffer = 0 /\ initialized = FALSE
  /\ pendingBuffers = <<>> /\ appending = FALSE
  /\ updating = FALSE /\ appended = <<>>
  /\ waiting = FALSE /\ waitingTimer = FALSE
  /\ playBlocked = FALSE
  /\ tasks = <<>>
  /\ destroyed = FALSE
  /\ early = {} /\ refused = {}

-----------------------------------------------------------------------------
(* The pipeline *)

\* Variant for a mutant: initialized is not taken back.
TeardownHalf ==
  /\ mediaSource' = 0 /\ opened' = FALSE
  /\ sourceBuffer' = 0 /\ UNCHANGED initialized
  /\ pendingBuffers' = <<>> /\ appending' = FALSE
  /\ updating' = FALSE /\ appended' = <<>>

\* _teardownMSE.
Teardown ==
  /\ mediaSource' = 0 /\ opened' = FALSE
  /\ sourceBuffer' = 0 /\ initialized' = FALSE
  /\ pendingBuffers' = <<>> /\ appending' = FALSE
  /\ updating' = FALSE /\ appended' = <<>>

\* The events to come once a SourceBuffer is given up: abort() and removal end
\* an update, and the listener of the old buffer is still told.
AfterAbort ==
  IF updating THEN Append(tasks, Event("updateend", sourceBuffer)) ELSE tasks

\* _resetPipeline.
Reset ==
  /\ Teardown
  /\ waiting' = TRUE

\* Variant for a mutant: one segment at a time is appended, the rest is lost.
BatchOfOne(queue) == <<queue[1]>>

\* All that waits is appended at once.
Batch(queue) == queue

\* _processPendingBuffers with the given queue and value of appending: nothing
\* to do, or an append that starts, finds the buffer full (then the batch is
\* lost, and _trimBufferNow may have begun to make room), or throws.  A buffer
\* without any frame is not full.
ProcessPending(queue, busy) ==
  LET idle == ~busy /\ sourceBuffer # 0 /\ queue # <<>> /\ ~updating
  IN
  \/ /\ ~idle
     /\ pendingBuffers' = queue /\ appending' = busy
     /\ UNCHANGED <<mediaSource, opened, sourceBuffer, initialized, updating,
                    appended, waiting, refused>>
  \/ /\ idle
     /\ pendingBuffers' = <<>> /\ appending' = TRUE
     /\ updating' = TRUE
     /\ appended' = appended \o Batch(queue)
     /\ UNCHANGED <<mediaSource, opened, sourceBuffer, initialized, waiting,
                    refused>>
  \/ /\ idle /\ appended # <<>>
     /\ pendingBuffers' = <<>> /\ appending' = FALSE
     /\ updating' \in BOOLEAN
     /\ refused' = refused \cup Elements(queue)
     /\ UNCHANGED <<mediaSource, opened, sourceBuffer, initialized, appended,
                    waiting>>
  \/ idle /\ Reset /\ UNCHANGED refused

-----------------------------------------------------------------------------
(* feed *)

Fed(k) ==
  /\ ~destroyed
  /\ Len(stream) < MaxPackets
  /\ stream' = Append(stream, k)

This == Len(stream) + 1

\* Neither a pipeline nor a SourceBuffer to append to: _waitingForKeyframe, or
\* not yet initialized.  A keyframe starts a pipeline, all else is dropped.
Fresh == waiting \/ (~initialized /\ sourceBuffer = 0)

FeedConfig ==
  /\ Fed("config")
  /\ config' = This
  /\ UNCHANGED <<pipeline, waiting, waitingTimer, playBlocked, tasks, destroyed,
                 early, refused>>

FeedDropped(k) ==
  /\ Fed(k)
  /\ Fresh
  /\ k = "delta" \/ (k = "key" /\ ~waiting /\ config = 0)
  /\ early' = IF mediaSource # 0 THEN early \cup {This} ELSE early
  /\ UNCHANGED <<config, pipeline, waiting, waitingTimer, playBlocked, tasks,
                 destroyed, refused>>

\* Variant for a mutant: the segments of the old pipeline stay queued.
FeedFirstKeyQueueing ==
  /\ Fed("key")
  /\ Fresh /\ config # 0
  /\ mediaSource' = This /\ opened' = FALSE
  /\ sourceBuffer' = 0 /\ initialized' = FALSE
  /\ pendingBuffers' = Append(pendingBuffers, This) /\ appending' = FALSE
  /\ updating' = FALSE /\ appended' = <<>>
  /\ waiting' = FALSE
  /\ tasks' = AfterAbort
  /\ UNCHANGED <<config, waitingTimer, playBlocked, destroyed, early, refused>>

\* _doInitMSE, and the keyframe's segment is queued: the SourceBuffer comes
\* with the sourceopen event.  (The browser is taken to support the codec.)
FeedFirstKey ==
  /\ Fed("key")
  /\ Fresh /\ config # 0
  /\ mediaSource' = This /\ opened' = FALSE
  /\ sourceBuffer' = 0 /\ initialized' = FALSE
  /\ pendingBuffers' = <<This>> /\ appending' = FALSE
  /\ updating' = FALSE /\ appended' = <<>>
  /\ waiting' = FALSE
  /\ tasks' = AfterAbort
  /\ UNCHANGED <<config, waitingTimer, playBlocked, destroyed, early, refused>>

FeedSegment(k) ==
  /\ Fed(k) /\ k # "config"
  /\ ~Fresh
  /\ ProcessPending(Append(pendingBuffers, This), appending)
  /\ UNCHANGED <<config, waitingTimer, playBlocked, tasks, destroyed, early>>

-----------------------------------------------------------------------------
(* The browser: external *)

\* The MediaSource that is the video's src gets attached to it.
Attach ==
  /\ mediaSource # 0 /\ ~opened
  /\ opened' = TRUE
  /\ tasks' = Append(tasks, Event("sourceopen", mediaSource))
  /\ UNCHANGED <<stream, config, mediaSource, sourceBuffer, initialized,
                 pendingBuffers, appending, updating, appended, waiting,
                 waitingTimer, playBlocked, destroyed, early, refused>>

\* An append or a removal has been done.
Updated ==
  /\ updating
  /\ updating' = FALSE
  /\ tasks' = Append(tasks, Event("updateend", sourceBuffer))
  /\ UNCHANGED <<stream, config, mediaSource, opened, sourceBuffer, initialized,
                 pendingBuffers, appending, appended, waiting, waitingTimer,
                 playBlocked, destroyed, early, refused>>

-----------------------------------------------------------------------------
(* Listeners *)

Runs(what) == tasks # <<>> /\ Head(tasks).what = what /\ tasks' = Tail(tasks)

\* Variant for a mutant: the listener adds the buffer to the MediaSource it was
\* registered for.
OpensFor(source) == source

\* The listener adds the buffer to whatever MediaSource is current by then.
OpensForCurrent(source) == mediaSource

\* The sourceopen listener.  addSourceBuffer throws, and nothing happens, when
\* the current MediaSource is null, not open, or has its buffer already.  (A new
\* buffer is taken to accept its init segment.)
SourceOpen ==
  /\ Runs("sourceopen")
  /\ IF mediaSource # 0 /\ opened /\ sourceBuffer = 0
     THEN /\ sourceBuffer' = OpensForCurrent(Head(tasks).of)
          /\ initialized' = TRUE
          /\ updating' = TRUE
          /\ playBlocked' = TRUE
     ELSE UNCHANGED <<sourceBuffer, initialized, updating, playBlocked>>
  /\ UNCHANGED <<stream, config, mediaSource, opened, pendingBuffers, appending,
                 appended, waiting, waitingTimer, destroyed, early, refused>>

\* Variant for a mutant: the append goes on to count as under way.
UpdateEndForgetful ==
  /\ Runs("updateend")
  /\ ProcessPending(pendingBuffers, appending)
  /\ UNCHANGED <<stream, config, waitingTimer, playBlocked, destroyed, early>>

\* The updateend listener, of the present SourceBuffer or of a former one.
UpdateEnd ==
  /\ Runs("updateend")
  /\ ProcessPending(pendingBuffers, FALSE)
  /\ UNCHANGED <<stream, config, waitingTimer, playBlocked, destroyed, early>>

\* _onVideoWaiting: half a second is given to the video before the reset.
VideoWaiting ==
  /\ initialized /\ ~playBlocked /\ ~waitingTimer
  /\ waitingTimer' = TRUE
  /\ UNCHANGED <<stream, config, pipeline, waiting, playBlocked, tasks,
                 destroyed, early, refused>>

\* The timer of _onVideoWaiting, which the video may or may not have outrun.
WaitingTimeout ==
  /\ waitingTimer
  /\ waitingTimer' = FALSE
  /\ \/ /\ ~playBlocked /\ initialized
        /\ Reset /\ tasks' = AfterAbort
     \/ UNCHANGED <<pipeline, waiting, tasks>>
  /\ UNCHANGED <<stream, config, playBlocked, destroyed, early, refused>>

\* _onVideoError.
VideoError ==
  /\ initialized
  /\ Reset /\ tasks' = AfterAbort
  /\ UNCHANGED <<stream, config, waitingTimer, playBlocked, destroyed, early,
                 refused>>

\* The stall detector: the video has not moved for 1.5 seconds although there
\* is something to play.
Stalled ==
  /\ sourceBuffer # 0 /\ initialized /\ appended # <<>>
  /\ Reset /\ tasks' = AfterAbort
  /\ UNCHANGED <<stream, config, waitingTimer, playBlocked, destroyed, early,
                 refused>>

\* The stall detector: _deferredTrim, at most once in three seconds, by when
\* every event that was queued has been handled.
Trim ==
  /\ initialized /\ appended # <<>> /\ tasks = <<>>
  /\ sourceBuffer # 0 /\ ~updating /\ ~appending
  /\ updating' = TRUE
  /\ UNCHANGED <<stream, config, mediaSource, opened, sourceBuffer, initialized,
                 pendingBuffers, appending, appended, waiting, waitingTimer,
                 playBlocked, tasks, destroyed, early, refused>>

\* A play() succeeds or is refused: of the sourceopen listener, _onVideoPause,
\* the stall detector or tryPlay, and maybe when the pipeline is gone.
PlaySettles ==
  /\ initialized \/ waiting
  /\ playBlocked' = ~playBlocked
  /\ UNCHANGED <<stream, config, pipeline, waiting, waitingTimer, tasks,
                 destroyed, early, refused>>

\* destroy: the player goes on with a new decoder.
Destroy ==
  /\ ~destroyed
  /\ destroyed' = TRUE
  /\ Teardown /\ tasks' = AfterAbort
  /\ waitingTimer' = FALSE
  /\ config' = 0
  /\ UNCHANGED <<stream, waiting, playBlocked, early, refused>>

-----------------------------------------------------------------------------
Next ==
  \/ FeedConfig
  \/ \E k \in Kinds : FeedDropped(k) \/ FeedSegment(k)
  \/ FeedFirstKey
  \/ Attach \/ Updated
  \/ SourceOpen \/ UpdateEnd
  \/ VideoWaiting \/ WaitingTimeout \/ VideoError
  \/ Stalled \/ Trim \/ PlaySettles
  \/ Destroy

Spec == Init /\ [][Next]_vars

\* The browser attaches the video's source, ends every update, and runs every
\* task that it has queued.  Nothing is assumed of packets, video or timers.
FairSpec ==
  /\ Spec
  /\ WF_vars(Attach) /\ WF_vars(Updated)
  /\ WF_vars(SourceOpen) /\ WF_vars(UpdateEnd)

-----------------------------------------------------------------------------
(* Safety *)

Packets == 1..Len(stream)

\* Types; and a decoder that is initialized, and so watched by the listeners that
\* reset it, has a SourceBuffer (mse-decoder.js:179, 242-245).
TypeOK ==
  /\ stream \in Seq(Kinds)
  /\ {config, mediaSource, sourceBuffer} \subseteq Nat
  /\ {pendingBuffers, appended} \subseteq Seq(Packets)
  /\ \A flag \in {opened, initialized, appending, updating, waiting,
                  waitingTimer, playBlocked, destroyed} : flag \in BOOLEAN
  /\ initialized => sourceBuffer # 0
  /\ tasks \in Seq([what : {"sourceopen", "updateend"}, of : Nat])
  /\ early \subseteq Packets
  /\ refused \subseteq Packets

\* The SourceBuffer is always that of the MediaSource the video plays, although
\* a sourceopen event may come when its MediaSource has been replaced
\* (mse-decoder.js:161-164).
BufferCurrent == sourceBuffer # 0 => sourceBuffer = mediaSource

\* What a pipeline has been given, or will be, in order.
Given == appended \o pendingBuffers

\* A pipeline starts with the keyframe it was made for: no frame of the former
\* pipeline, queued or in a late callback, gets into it (lines 99-110, 217-248).
StartsWithKey ==
  Given # <<>> => Given[1] = mediaSource /\ stream[mediaSource] = "key"

\* Within a pipeline, frames are appended in the order they were fed, each once,
\* and none fed since its keyframe is left out, neither between two others nor
\* at the end, but those that were fed before the SourceBuffer was there and
\* those of an append that found the buffer full.
NoSilentGap ==
  /\ \A i \in 1..(Len(Given) - 1) : Given[i] < Given[i + 1]
  /\ mediaSource # 0 =>
       \A n \in mediaSource..Len(stream) :
         stream[n] = "config" \/ n \in Elements(Given) \cup early \cup refused

-----------------------------------------------------------------------------
(* Liveness *)

\* A segment does not stay queued: it is appended, or given up together with
\* its pipeline or because the buffer is full.
PendingDrains ==
  \A n \in 1..MaxPackets :
    n \in Elements(pendingBuffers) ~> n \notin Elements(pendingBuffers)

=============================================================================
