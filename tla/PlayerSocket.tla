---------------------------- MODULE PlayerSocket ----------------------------
(***************************************************************************)
(* The websocket of the player page and those who open and close it: the   *)
(* client with its automatic reconnection (frontend/js/websocket.js), and  *)
(* the changes of settings (frontend/player.html, reconnectWithSettings),  *)
(* which the viewer asks for with a button and the page by itself.         *)
(*                                                                         *)
(* JavaScript runs one callback at a time.  A change of settings waits for *)
(* two requests and a delay, during which everything else goes on, other   *)
(* changes included.  Every socket has listeners that act on the one       *)
(* client, also when the client has gone on to another socket; and a timer *)
(* that has been set is never cleared.                                     *)
(***************************************************************************)
EXTENDS Naturals, FiniteSets

CONSTANTS
  Changes,   (* Changes of settings that may be made.                       *)
  Sockets,   (* Sockets; the name of one that is closed is used again.      *)
  None

ASSUME PlayerAssumption ==
  /\ IsFiniteSet(Changes) /\ IsFiniteSet(Sockets)
  /\ None \notin Changes \cup Sockets

VARIABLES
  socket,           (* Each socket: "closed", "connecting", "open", or      *)
                    (* "closing" (close() was called, its event is to come).*)
  ws,               (* client.ws: the newest socket, or None.               *)
  connected,        (* client.connected, and stats.wsState of the page.     *)
  shouldReconnect,
  retries,          (* How many timers will call connect...                 *)
  enables,          (* ...and how many will set shouldReconnect before it.  *)
  change,           (* Each change: "idle", "stopping", "starting", "done". *)
  automatic,        (* The change the page makes by itself, or None:        *)
                    (* adaptiveReconnecting.                                *)
  disabled          (* btnApplySettings.disabled.                           *)

timers == <<retries, enables>>
page == <<change, automatic, disabled>>
vars == <<socket, ws, connected, shouldReconnect, timers, page>>

\* The page is loaded; connect follows as soon as the defaults are there.
Init ==
  /\ socket = [k \in Sockets |-> "closed"]
  /\ ws = None
  /\ connected = FALSE
  /\ shouldReconnect = TRUE
  /\ retries = 1 /\ enables = 0
  /\ change = [r \in Changes |-> "idle"]
  /\ automatic = None
  /\ disabled = FALSE

-----------------------------------------------------------------------------
(* The client *)

Free == {k \in Sockets : socket[k] = "closed"}

\* connect: a new socket, named by any free name.  The one before it is not
\* looked at.
Connect ==
  LET k == CHOOSE k \in Free : TRUE IN
  /\ Free # {}
  /\ socket' = [socket EXCEPT ![k] = "connecting"]
  /\ ws' = k

\* disconnect, and the first half of reconnect.
Disconnect ==
  /\ shouldReconnect' = FALSE
  /\ socket' = [k \in Sockets |->
                  IF k = ws /\ socket[k] # "closed" THEN "closing" ELSE socket[k]]

Opened(k) ==
  /\ socket[k] = "connecting"
  /\ socket' = [socket EXCEPT ![k] = "open"]
  /\ connected' = TRUE
  /\ UNCHANGED <<ws, shouldReconnect, timers, page>>

\* Variant for a mutant: only the loss of the newest socket counts.
ClosedUnlessOld(k) ==
  /\ socket[k] # "closed"
  /\ socket' = [socket EXCEPT ![k] = "closed"]
  /\ connected' = (connected /\ ws # k)
  /\ retries' = IF shouldReconnect THEN retries + 1 ELSE retries
  /\ UNCHANGED <<ws, shouldReconnect, enables, page>>

\* Variant for a mutant: the error event that comes with it retries as well.
ClosedTwice(k) ==
  /\ socket[k] # "closed"
  /\ socket' = [socket EXCEPT ![k] = "closed"]
  /\ connected' = FALSE
  /\ retries' = IF shouldReconnect THEN retries + 2 ELSE retries
  /\ UNCHANGED <<ws, shouldReconnect, enables, page>>

\* The close event: the attempt fails, the connection is lost, or close() has
\* come to its end.
Closed(k) ==
  /\ socket[k] # "closed"
  /\ socket' = [socket EXCEPT ![k] = "closed"]
  /\ connected' = FALSE
  /\ retries' = IF shouldReconnect THEN retries + 1 ELSE retries
  /\ UNCHANGED <<ws, shouldReconnect, enables, page>>

\* The timer of a close event, or the end of loadDefaults.
Retry ==
  /\ retries > 0
  /\ retries' = retries - 1
  /\ Connect
  /\ UNCHANGED <<connected, shouldReconnect, enables, page>>

\* Variant for a mutant: automatic reconnection stays off.
EnableForgetful ==
  /\ enables > 0
  /\ enables' = enables - 1
  /\ Connect
  /\ UNCHANGED <<connected, shouldReconnect, retries, page>>

\* The timer of reconnect, or that of a change that has failed.
Enable ==
  /\ enables > 0
  /\ enables' = enables - 1
  /\ shouldReconnect' = TRUE
  /\ Connect
  /\ UNCHANGED <<connected, retries, page>>

-----------------------------------------------------------------------------
(* reconnectWithSettings *)

Begin(r) ==
  /\ change[r] = "idle"
  /\ change' = [change EXCEPT ![r] = "stopping"]
  /\ disabled' = TRUE
  /\ Disconnect
  /\ UNCHANGED <<ws, connected, timers>>

\* The viewer presses the button.
Apply(r) == ~disabled /\ Begin(r) /\ UNCHANGED automatic

\* The adaptive loop looks at the connection, and at its own changes only.
Adapt(r) ==
  /\ automatic = None /\ connected
  /\ Begin(r)
  /\ automatic' = r

\* The finally clauses.
Finish(r) ==
  /\ change' = [change EXCEPT ![r] = "done"]
  /\ disabled' = FALSE
  /\ automatic' = IF automatic = r THEN None ELSE automatic

\* The disconnect request is answered, whatever it says, and 500 ms pass.
Stopped(r) ==
  /\ change[r] = "stopping"
  /\ change' = [change EXCEPT ![r] = "starting"]
  /\ UNCHANGED <<socket, ws, connected, shouldReconnect, timers, automatic,
                 disabled>>

\* The connect request has succeeded: reconnect.
Reconnect(r) ==
  /\ change[r] = "starting"
  /\ Disconnect
  /\ enables' = enables + 1
  /\ Finish(r)
  /\ UNCHANGED <<ws, connected, retries>>

\* Variant for a mutant: nothing is done about a request that failed.
FailsSilently(r) ==
  /\ change[r] \in {"stopping", "starting"}
  /\ Finish(r)
  /\ UNCHANGED <<socket, ws, connected, shouldReconnect, timers>>

\* A request fails: connect again in two seconds.
Fails(r) ==
  /\ change[r] \in {"stopping", "starting"}
  /\ enables' = enables + 1
  /\ Finish(r)
  /\ UNCHANGED <<socket, ws, connected, shouldReconnect, retries>>

-----------------------------------------------------------------------------
ChangeStep(r) == Apply(r) \/ Adapt(r) \/ Stopped(r) \/ Reconnect(r) \/ Fails(r)

Next ==
  \/ \E k \in Sockets : Opened(k) \/ Closed(k)
  \/ Retry
  \/ Enable
  \/ \E r \in Changes : ChangeStep(r)

Spec == Init /\ [][Next]_vars

(***************************************************************************)
(* Fairness: the browser runs every timer, and settles every attempt to    *)
(* connect and every close() with an event.  Nothing is assumed of the     *)
(* requests of a change: the server answers the second one when the device *)
(* has sent its headers, which may take forever.                           *)
(***************************************************************************)
FairSpec ==
  /\ Spec
  /\ WF_vars(Retry) /\ WF_vars(Enable)
  /\ \A k \in Sockets :
       /\ WF_vars(socket[k] = "closing" /\ Closed(k))
       /\ WF_vars(socket[k] = "connecting" /\ (Opened(k) \/ Closed(k)))

-----------------------------------------------------------------------------
(* Safety *)

Live == {k \in Sockets : socket[k] # "closed"}

Changing == \E r \in Changes : change[r] \in {"stopping", "starting"}

Made == {r \in Changes : change[r] = "done"}

\* Types; and a connected client has a socket that has been opened and whose
\* close event has not come.
TypeOK ==
  /\ socket \in [Sockets -> {"closed", "connecting", "open", "closing"}]
  /\ ws \in Sockets \cup {None}
  /\ connected \in BOOLEAN /\ shouldReconnect \in BOOLEAN /\ disabled \in BOOLEAN
  /\ {retries, enables} \subseteq Nat
  /\ change \in [Changes -> {"idle", "stopping", "starting", "done"}]
  /\ automatic \in Changes \cup {None}
  /\ connected => \E k \in Sockets : socket[k] \in {"open", "closing"}

\* The page never ends up without a connection and without anything that would
\* make one: automatic reconnection is off only while a change or a timer is
\* there to put it on again, however changes of settings, their failures, lost
\* connections and late close events overlap (websocket.js:43-50, 108-127,
\* player.html:276, 315-327).
NeverStranded ==
  /\ ~shouldReconnect => Changing \/ enables > 0
  /\ Changing \/ enables > 0 \/ retries > 0 \/ Live # {}

\* Sockets and timers that will open one do not multiply: automatic reconnection
\* by itself never makes a second connection, and each change of settings that
\* is over has left at most one more behind (websocket.js:43-50, 115-127,
\* player.html:315-323).
SocketsBounded == Cardinality(Live) + retries + enables <= 1 + Cardinality(Made)

-----------------------------------------------------------------------------
(* Liveness *)

\* As long as the server takes one of the connections it is offered again and
\* again, the page gets connected again and again, unless a change of settings
\* waits for its answer.
ConnectsAgain ==
  SF_vars(\E k \in Sockets : Opened(k)) => []<>(connected \/ Changing)

=============================================================================
