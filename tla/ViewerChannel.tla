---------------------------- MODULE ViewerChannel ----------------------------
(***************************************************************************)
(* What a relay promises to one viewer: a bounded channel that may lose    *)
(* messages.  Each stream is offered to the viewer packet by packet from   *)
(* the moment it joins, in order and each packet once; next to that come   *)
(* the frames that were cached by then.  A message is lost only when the   *)
(* channel is full, and a delta frame also when the packet it refers to    *)
(* was lost, in which case it is never sent.  Module Relay, which has      *)
(* locks, readers and any number of viewers, implements it                 *)
(* (internal/relay/relay.go).                                              *)
(***************************************************************************)
EXTENDS Naturals, Sequences

CONSTANTS
  Cap,       (* Capacity of the channel.                                     *)
  Viewers    (* Most viewers that may be there.                              *)

VARIABLES
  stream,    (* stream[s]: kinds of the packets read from stream s.          *)
  state,     (* "new", "open", "joined" or "closed".                         *)
  queue,     (* Every message ever put into the channel...                   *)
  taken,     (* ...and how many of them have been taken out.                 *)
  cache,     (* Cached frames that are still to be sent.                     *)
  offered,   (* offered[s]: packets of s the viewer was offered, or missed   *)
             (* because it was not there.                                    *)
  since      (* offered["video"] at the moment of joining.                   *)

channel == <<stream, state, queue, taken, cache, offered, since>>

Streams == {"video", "audio", "device"}

Frame(from, n) == [from |-> from, n |-> n]

Room == Len(queue) - taken < Cap

Put(m) == queue' = Append(queue, m)

Lose == UNCHANGED queue

Offer(m) == IF state = "joined" /\ Room THEN Put(m) ELSE Lose

Kind(n) == stream["video"][n]

Queued(n) == \E i \in 1..Len(queue) : queue[i] = Frame("video", n)

\* Packet n may be sent: what it refers to has been, if it was ever offered.
Decodable(n) == Kind(n) = "delta" /\ n - 1 > since => Queued(n - 1)

\* Delta frame n may be left out although there is room.  (The first packet
\* that is offered may have been lost and be in the cache all the same.)
Pointless(n) == /\ Kind(n) = "delta" /\ n - 1 > since
                /\ ~Queued(n - 1) \/ n - 1 = since + 1

-----------------------------------------------------------------------------
Init ==
  /\ stream = [s \in Streams |-> <<>>]
  /\ state = "new"
  /\ queue = <<>> /\ taken = 0
  /\ cache = <<>>
  /\ offered = [s \in Streams |-> 0]
  /\ since = 0

ReadPacket(s) ==
  /\ \E k \in {"config", "key", "delta", "data", "msg"} :
       stream' = [stream EXCEPT ![s] = Append(@, k)]
  /\ UNCHANGED <<state, queue, taken, cache, offered, since>>

Open ==
  /\ state = "new"
  /\ state' = "open"
  /\ queue' \in {<<>>, <<Frame("info", 0)>>}
  /\ UNCHANGED <<stream, taken, cache, offered, since>>

\* A packet goes by before the viewer has joined, or after it was closed.
Miss(s) ==
  /\ state # "joined"
  /\ offered[s] < Len(stream[s])
  /\ offered' = [offered EXCEPT ![s] = @ + 1]
  /\ UNCHANGED <<stream, state, queue, taken, cache, since>>

\* No cached video frame refers to another one.
Join ==
  /\ state = "open"
  /\ state' = "joined"
  /\ since' = offered["video"]
  /\ cache' \in Seq([from : Streams, n : Nat])
  /\ \A i \in 1..Len(cache') :
       /\ cache'[i].n \in 1..Len(stream[cache'[i].from])
       /\ cache'[i].from = "video" => Kind(cache'[i].n) # "delta"
  /\ UNCHANGED <<stream, queue, taken, offered>>

SendCached ==
  /\ cache # <<>>
  /\ Offer(Head(cache))
  /\ cache' = Tail(cache)
  /\ UNCHANGED <<stream, state, taken, offered, since>>

OfferVideo(n) ==
  \/ Room /\ Decodable(n) /\ Put(Frame("video", n))
  \/ (~Room \/ Pointless(n)) /\ Lose

\* The next packet of stream s.
Broadcast(s) ==
  /\ state = "joined"
  /\ offered[s] < Len(stream[s])
  /\ offered' = [offered EXCEPT ![s] = @ + 1]
  /\ IF s = "video" THEN OfferVideo(offered[s] + 1)
                    ELSE Offer(Frame(s, offered[s] + 1))
  /\ UNCHANGED <<stream, state, taken, cache, since>>

Count ==
  /\ state = "joined"
  /\ \E n \in 0..Viewers : Offer(Frame("viewers", n))
  /\ UNCHANGED <<stream, state, taken, cache, offered, since>>

Take ==
  /\ taken < Len(queue)
  /\ taken' = taken + 1
  /\ UNCHANGED <<stream, state, queue, cache, offered, since>>

Close ==
  /\ state = "joined"
  /\ state' = "closed"
  /\ UNCHANGED <<stream, queue, taken, cache, offered, since>>

Next ==
  \/ \E s \in Streams : ReadPacket(s) \/ Miss(s) \/ Broadcast(s)
  \/ Open \/ Join \/ SendCached \/ Count \/ Take \/ Close

Spec == Init /\ [][Next]_channel

=============================================================================
