------------------------------ MODULE MCRelay ------------------------------
(* Small instances of Relay for TLC. *)
EXTENDS Relay, TLC

CONSTANTS c1, c2

\* A state that every relay may get to before its streams bring a packet: the
\* reader of device messages has ended, and the viewers in joined - one at most -
\* are in their read loop, with the viewer count in their channel.
Begun(joined) ==
  /\ stream = [s \in Streams |-> <<>>]
  /\ videoConfig = 0 /\ lastKeyFrame = 0 /\ audioConfig = 0
  /\ clients = joined
  /\ controller = Nobody
  /\ stop = "no"
  /\ log = [c \in Clients |-> IF c \in joined THEN <<Frame("viewers", 1)>>
                                             ELSE <<>>]
  /\ taken = [c \in Clients |-> 0]
  /\ open = [c \in Clients |-> c \in joined]
  /\ videoSynced = [c \in Clients |-> TRUE]
  /\ pump = [c \in Clients |-> IF c \in joined THEN "on" ELSE "off"]
  /\ pc = [video |-> "idle", audio |-> "idle", device |-> "done"]
            @@ [c \in Clients |-> IF c \in joined THEN "read" ELSE "new"]
  /\ todo = [p \in Procs |-> {}]
  /\ count = [c \in Clients |-> IF c \in joined THEN 1 ELSE 0]
  /\ pending = [c \in Clients |-> <<>>]
  /\ since = [c \in Clients |-> 0]

\* From a relay without viewers.
VideoSpec == Begun({}) /\ [][Next]_vars

\* A bound for the same run: the viewer does not ask for control, which changes
\* nothing in its channel.
NobodyControls == controller' = Nobody

\* From a relay whose only viewer has a channel of one slot, which is full.
CrowdedSpec == Begun({c1}) /\ [][Next]_vars /\ Fairness

(***************************************************************************)
(* For the runs without video and device messages.  What a step of theirs  *)
(* does depends on how many messages are in a channel, or are still to be  *)
(* sent, and on whether there is a cached packet; not on which these are.  *)
(* So states that agree on this View have the same future, and a run that  *)
(* looks at the View alone has audio packets without end: the way to any   *)
(* state it finds is shorter than the bound on them.                       *)
(***************************************************************************)
Occupied == [c \in Clients |-> Len(log[c]) - taken[c]]

View == <<audioConfig # 0, clients, controller, stop, Occupied, open, pump, pc,
          todo, [c \in Clients |-> Len(pending[c])]>>

=============================================================================
