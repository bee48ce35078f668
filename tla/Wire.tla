--------------------------------- MODULE Wire ---------------------------------
(***************************************************************************)
(* One connection of a running session and the relays that use it in turn. *)
(*                                                                          *)
(* A second connect request on a running session starts a second relay on  *)
(* the same connections (handleConnect).  The relay it replaces is told to *)
(* stop but notices only when its read returns, so for a moment two        *)
(* goroutines read one byte stream.  A message is read in parts, one        *)
(* io.ReadFull each: `left` is the number of parts of the current message   *)
(* that are still in the connection, `need[r]` the number of parts the      *)
(* reader of relay r believes to be missing.  As long as a reader is in     *)
(* step the two agree; once they do not, what it takes for a header is      *)
(* anything, and the connection is garbled for good.                        *)
(*                                                                          *)
(* kind says which connection it is: one of the two media streams, the      *)
(* messages from the device, or the control messages that viewers send.     *)
(***************************************************************************)
EXTENDS ControlMsg, FiniteSets

CONSTANTS Relays,      \* the relays made for this session, one per request
          NoRelay,
          Data,        \* what viewers send as control messages
          None

ASSUME WireAssumption == NoRelay \notin Relays /\ Data \subseteq Frame

VARIABLES kind, open, current, stopped, reader, need, left,
          refused,     \* a reader has given up on a message it was in
          garbled,
          shared,      \* a relay was started next to an active reader, or after `refused`
          after,       \* messages a relay took after it was stopped, counted up to 2
          last         \* the last control message of a viewer and its fate

conn  == <<kind, open>>
wire  == <<left, refused, garbled>>
vars  == <<conn, current, stopped, reader, need, wire, shared, after, last>>

Active(r) == reader[r] \in {"check", "read", "done"}

Init ==
  /\ kind \in {"media", "device", "control"} /\ open = TRUE
  /\ current = NoRelay /\ stopped = {}
  /\ reader = [r \in Relays |-> "none"] /\ need = [r \in Relays |-> 0]
  /\ left = 0 /\ refused = FALSE /\ garbled = FALSE /\ shared = FALSE
  /\ after = [r \in Relays |-> 0]
  /\ last = None

\* handleConnect under the lock: the relay that is registered is stopped and
\* a new one takes its place.
Replace(r) ==
  /\ reader[r] = "none" /\ kind # "control"
  /\ stopped' = (stopped \cup {current}) \ {NoRelay}
  /\ current' = r
  /\ reader' = [reader EXCEPT ![r] = "made"]
  /\ UNCHANGED <<conn, need, wire, shared, after, last>>

\* rl.Start, after the lock was released.
Launch(r) ==
  /\ reader[r] = "made"
  /\ reader' = [reader EXCEPT ![r] = IF kind = "device" THEN "check" ELSE "read"]
  /\ shared' = (shared \/ refused \/ \E q \in Relays : Active(q))
  /\ UNCHANGED <<conn, current, stopped, need, wire, after, last>>

\* handleDisconnect: the relay is stopped before its session.
StopRelay ==
  /\ current # NoRelay
  /\ stopped' = stopped \cup {current} /\ current' = NoRelay
  /\ UNCHANGED <<conn, reader, need, wire, shared, after, last>>

\* The reader of another stream of r has ended and stops r.
SiblingEnds(r) ==
  /\ Active(r) /\ r \notin stopped
  /\ stopped' = stopped \cup {r}
  /\ UNCHANGED <<conn, current, reader, need, wire, shared, after, last>>

\* Session.Stop closes the connection, or the device goes away.
CloseConn ==
  /\ open /\ open' = FALSE
  /\ UNCHANGED <<kind, current, stopped, reader, need, wire, shared, after, last>>

\* A reader returns; that of a media stream stops its relay (defer r.Stop()).
EndQuietly(r) ==  \* variant: it does not stop its relay
  /\ reader' = [reader EXCEPT ![r] = "end"]
  /\ UNCHANGED stopped
End(r) ==
  /\ reader' = [reader EXCEPT ![r] = "end"]
  /\ stopped' = IF kind = "media" THEN stopped \cup {r} ELSE stopped

\* relayDeviceMessages looks at stopCh before each message.
CheckNothing(r) ==  \* variant: it does not look
  /\ reader[r] = "check"
  /\ reader' = [reader EXCEPT ![r] = "read"]
  /\ UNCHANGED <<conn, current, stopped, need, wire, shared, after, last>>
Check(r) ==
  /\ reader[r] = "check"
  /\ IF r \in stopped THEN End(r)
     ELSE reader' = [reader EXCEPT ![r] = "read"] /\ UNCHANGED stopped
  /\ UNCHANGED <<conn, current, need, wire, shared, after, last>>

\* A read of a connection that is closed fails.
ReadFails(r) ==
  /\ reader[r] = "read" /\ ~open
  /\ End(r)
  /\ UNCHANGED <<conn, current, need, wire, shared, after, last>>

\* The parts that can follow the first one of a message: a packet has its
\* payload; a message of the device has one field, or a length and a text.
Rests == IF kind = "media" THEN {1} ELSE {1, 2}

\* The reader has read a part and n are missing.
AdvanceOne(r, n) ==  \* variant: waits for one part too many
  /\ need' = [need EXCEPT ![r] = n + 1]
  /\ reader' = reader
  /\ left' = IF garbled' THEN 0 ELSE n
  /\ UNCHANGED <<stopped, refused>>
Advance(r, n) ==
  /\ need' = [need EXCEPT ![r] = n]
  /\ reader' = [reader EXCEPT ![r] = IF n = 0 THEN "done" ELSE "read"]
  /\ left' = IF garbled' THEN 0 ELSE n
  /\ UNCHANGED <<stopped, refused>>

\* The reader has read a part that makes no sense, or a length over the limit,
\* and leaves the n parts that follow where they are.
RefuseAndGoOn(r, n) ==  \* variant: it reads on
  /\ need' = [need EXCEPT ![r] = 0] /\ UNCHANGED <<reader, stopped>>
  /\ left' = IF garbled' THEN 0 ELSE n
  /\ UNCHANGED refused
Refuse(r, n) ==
  /\ End(r)
  /\ need' = [need EXCEPT ![r] = 0]
  /\ left' = IF garbled' THEN 0 ELSE n
  /\ refused' = TRUE

\* One io.ReadFull of ReadPacket or ReadDeviceMsg.  A header can be refused,
\* and so can the length of a text.
ReadPart(r) ==
  /\ reader[r] = "read" /\ open
  /\ garbled' = (garbled \/ left # need[r])
  /\ \/ /\ need[r] = 0
        /\ \/ \E n \in Rests : Advance(r, n)
           \/ \E n \in Rests \cup {0} : Refuse(r, n)
     \/ /\ need[r] > 0
        /\ \/ Advance(r, need[r] - 1)
           \/ need[r] = 2 /\ Refuse(r, 1)
  /\ UNCHANGED <<conn, current, shared, after, last>>

\* The message is complete.  The readers of the media streams look at stopCh
\* and drop it; that of the device broadcasts it, to nobody if r is stopped.
DeliverAnyway(r) ==  \* variant: the readers of the media streams do not look
  /\ reader[r] = "done"
  /\ after' = [after EXCEPT ![r] = IF r \in stopped /\ @ < 2 THEN @ + 1 ELSE @]
  /\ reader' = [reader EXCEPT ![r] = IF kind = "device" THEN "check" ELSE "read"]
  /\ UNCHANGED <<conn, current, stopped, need, wire, shared, last>>
Deliver(r) ==
  /\ reader[r] = "done"
  /\ after' = [after EXCEPT ![r] = IF r \in stopped /\ @ < 2 THEN @ + 1 ELSE @]
  /\ IF kind = "device" THEN reader' = [reader EXCEPT ![r] = "check"] /\ UNCHANGED stopped
     ELSE IF r \in stopped THEN End(r)
     ELSE reader' = [reader EXCEPT ![r] = "read"] /\ UNCHANGED stopped
  /\ UNCHANGED <<conn, current, need, wire, shared, last>>

\* SendControlMsg of a running session.
SendControlMsg(f) ==
  /\ kind = "control" /\ open
  /\ last' = [frame |-> f, written |-> Validate(f) > 0 /\ f.type <= 17]
  /\ UNCHANGED <<conn, current, stopped, reader, need, wire, shared, after>>

Reader(r) == Check(r) \/ ReadFails(r) \/ ReadPart(r) \/ Deliver(r)

Next == \/ \E r \in Relays : Replace(r) \/ Launch(r) \/ SiblingEnds(r) \/ Reader(r)
        \/ StopRelay \/ CloseConn
        \/ \E f \in Data : SendControlMsg(f)

Spec == Init /\ [][Next]_vars

\* Relays and their readers are goroutines the runtime schedules.  The reads have
\* no deadline: nothing says that the read of a connection that is open returns.
FairSpec ==
  /\ Spec
  /\ \A r \in Relays : WF_vars(Launch(r)) /\ WF_vars(Check(r) \/ ReadFails(r) \/ Deliver(r))
-------------------------------------------------------------------------------
\* Every variable has its type, no reader waits for more than two parts or
\* rests with a message in its hands that is not complete, and the registered
\* relay is one that was made.
TypeOK ==
  /\ kind \in {"media", "device", "control"} /\ open \in BOOLEAN
  /\ reader \in [Relays -> {"none", "made", "check", "read", "done", "end"}]
  /\ need \in [Relays -> 0..2] /\ left \in 0..2
  /\ \A r \in Relays : need[r] > 0 => reader[r] \in {"read", "end"}
  /\ stopped \subseteq {r \in Relays : reader[r] # "none"}
  /\ current = NoRelay \/ (current \in Relays /\ reader[current] # "none")
  /\ refused \in BOOLEAN /\ garbled \in BOOLEAN /\ shared \in BOOLEAN
  /\ after \in [Relays -> 0..2]
  /\ last = None \/ (last.frame \in Data /\ last.written \in BOOLEAN)

\* A reader is in step with the messages of its connection, whatever it refuses
\* and however relays succeed each other, unless a relay was started while
\* another one was still reading or after a message was refused half-way
\* (ReadPacket and ReadDeviceMsg leave nothing behind otherwise).
InStep == garbled => shared

\* A relay that was stopped takes at most one more message from the connection
\* it shares with its successor.
OneMore == \A r \in Relays : after[r] <= 1

\* The reader of a relay that was stopped leaves the connection to its successor,
\* if the device goes on sending: a stopped relay learns of it only when a read
\* returns, and one that waits for a silent device waits on.
HandoverEnds ==
  (\A r \in Relays : WF_vars(ReadPart(r)))
    => \A r \in Relays : r \in stopped /\ Active(r) ~> reader[r] = "end"

\* Once the connection is closed, by Session.Stop or the device, every reader ends
\* that is on it or comes to it later, in a message or before one, and the relays
\* of media streams are stopped, so that their viewers are let go: Stop of a
\* session tells no relay (session.go:204-212, relay.go:312-324, 360-373, 401-416).
ClosedEnds ==
  \A r \in Relays : ~open /\ (Active(r) \/ reader[r] = "made")
    ~> reader[r] = "end" /\ (kind = "media" => r \in stopped)

\* SendControlMsg writes a frame exactly if it begins with a whole message of
\* a known type, by the fields of the protocol, and refuses none of the page's.
ControlFramed ==
  last # None => /\ last.written <=> Whole(last.frame)
                 /\ last.frame \in PageFrames => last.written
===============================================================================
