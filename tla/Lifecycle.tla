----------------------------- MODULE Lifecycle -----------------------------
(***************************************************************************)
(* The sessions and relays of one device: the manager's map of sessions    *)
(* (internal/device/manager.go), the server's map of relays                *)
(* (internal/server/server.go), and the goroutines that change them: the   *)
(* handlers of connect and disconnect requests, the cleanup the manager    *)
(* runs every five seconds, and the shutdown of main.go.  Each map has a   *)
(* lock of its own and is let go of between the two.                       *)
(*                                                                         *)
(* A session and a relay are named after the connect request that creates  *)
(* them.  Of a session only what the other parts can see is kept; module   *)
(* Session is its inside.                                                  *)
(***************************************************************************)
EXTENDS FiniteSets

CONSTANTS
  Connects,   (* Connect requests.                                          *)
  Takedowns,  (* Disconnect requests, and the shutdown of the server: both  *)
              (* take the relay down first and the session after it.        *)
  None

ASSUME LifecycleAssumption ==
  /\ None \notin Connects \cup Takedowns
  /\ Connects \cap Takedowns = {}

VARIABLES
  sessions,    (* m.sessions[serial]: a session or None.                    *)
  relays,      (* s.relays[serial]: a relay or None.                        *)
  pc,          (* Where each request is...                                  *)
  sess,        (* ...and the session it works on.                           *)
  connecting,  (* The sessions whose flag connecting is set,                *)
  running,     (* ...whose flag running is set,                             *)
  built,       (* ...that have stored their three connections,              *)
  closed,      (* ...that have lost or closed them, or whose context is     *)
               (* cancelled.                                                *)
  relay,       (* relay[r]: "none", "made", "live" (started), "over".       *)
  stopped,     (* The relays whose Stop has been called.                    *)
  crashed      (* A reader was started on a connection that is nil.         *)

flags == <<connecting, running, built, closed>>
vars == <<sessions, relays, pc, sess, flags, relay, stopped, crashed>>

Requests == Connects \cup Takedowns

IsRunning(s) == s \in connecting \cup running

Init ==
  /\ sessions = None /\ relays = None
  /\ pc = [r \in Requests |-> "idle"]
  /\ sess = [r \in Requests |-> None]
  /\ connecting = {} /\ running = {} /\ built = {} /\ closed = {}
  /\ relay = [r \in Connects |-> "none"]
  /\ stopped = {}
  /\ crashed = FALSE

Goto(r, label) == pc' = [pc EXCEPT ![r] = label]

-----------------------------------------------------------------------------
(* A connect request: Manager.Connect, then the relay *)

\* The session that is there is handed out, or a new one put in its place.
Connect(r) ==
  /\ pc[r] = "idle"
  /\ IF sessions # None /\ IsRunning(sessions)
     THEN /\ sess' = [sess EXCEPT ![r] = sessions]
          /\ Goto(r, "register")
          /\ UNCHANGED sessions
     ELSE /\ sess' = [sess EXCEPT ![r] = r]
          /\ sessions' = r
          /\ Goto(r, "start")
  /\ UNCHANGED <<relays, flags, relay, stopped, crashed>>

EnterStart(r) ==
  /\ pc[r] = "start"
  /\ connecting' = connecting \cup {r}
  /\ Goto(r, "starting")
  /\ UNCHANGED <<sessions, relays, sess, running, built, closed, relay, stopped,
                 crashed>>

StoreConns(r) ==
  /\ pc[r] = "starting" /\ r \notin built
  /\ built' = built \cup {r}
  /\ UNCHANGED <<sessions, relays, pc, sess, connecting, running, closed, relay,
                 stopped, crashed>>

\* Start succeeds, in spite of a Stop that came too early or too late for it.
SetRunning(r) ==
  /\ pc[r] = "starting" /\ r \in built
  /\ running' = running \cup {r}
  /\ Goto(r, "leaving")
  /\ UNCHANGED <<sessions, relays, sess, connecting, built, closed, relay,
                 stopped, crashed>>

ReturnStart(r) ==
  /\ pc[r] = "leaving"
  /\ connecting' = connecting \ {r}
  /\ Goto(r, "register")
  /\ UNCHANGED <<sessions, relays, sess, running, built, closed, relay, stopped,
                 crashed>>

\* Variant for a mutant: a failed start keeps its connections.
StartFailsOpen(r) ==
  /\ pc[r] = "starting"
  /\ connecting' = connecting \ {r}
  /\ Goto(r, "forget")
  /\ UNCHANGED <<sessions, relays, sess, running, built, closed, relay, stopped,
                 crashed>>

\* Start fails, and has closed whatever it had.
StartFails(r) ==
  /\ pc[r] = "starting"
  /\ connecting' = connecting \ {r}
  /\ closed' = closed \cup {r}
  /\ Goto(r, "forget")
  /\ UNCHANGED <<sessions, relays, sess, running, built, relay, stopped, crashed>>

\* Variant for a mutant: a failed start leaves the session in the map.
ForgetNothing(r) ==
  /\ pc[r] = "forget"
  /\ Goto(r, "done")
  /\ UNCHANGED <<sessions, relays, sess, flags, relay, stopped, crashed>>

\* Connect deletes the map's entry, whichever session it names by now.
Forget(r) ==
  /\ pc[r] = "forget"
  /\ sessions' = None
  /\ Goto(r, "done")
  /\ UNCHANGED <<relays, sess, flags, relay, stopped, crashed>>

\* Variant for a mutant: the relay that is replaced is not stopped.
RegisterOver(r) ==
  /\ pc[r] = "register"
  /\ relays' = r
  /\ relay' = [relay EXCEPT ![r] = "made"]
  /\ Goto(r, "launch")
  /\ UNCHANGED <<sessions, sess, flags, stopped, crashed>>

\* Under relaysMu: the relay that is there is stopped and replaced.
Register(r) ==
  /\ pc[r] = "register"
  /\ stopped' = stopped \cup ({relays} \ {None})
  /\ relays' = r
  /\ relay' = [relay EXCEPT ![r] = "made"]
  /\ Goto(r, "launch")
  /\ UNCHANGED <<sessions, sess, flags, crashed>>

\* Relay.Start, after relaysMu was let go of.  A reader of a connection that
\* is not there yet panics, and with it the server.
Launch(r) ==
  /\ pc[r] = "launch"
  /\ relay' = [relay EXCEPT ![r] = "live"]
  /\ crashed' = (sess[r] \notin built)
  /\ Goto(r, "done")
  /\ UNCHANGED <<sessions, relays, sess, flags, stopped>>

-----------------------------------------------------------------------------
(* A disconnect request, or the shutdown *)

StopRelay(d) ==
  /\ pc[d] = "idle"
  /\ stopped' = stopped \cup ({relays} \ {None})
  /\ relays' = None
  /\ Goto(d, "take")
  /\ UNCHANGED <<sessions, sess, flags, relay, crashed>>

\* Variant for a mutant: Stop is called though there is no session.
TakeAnything(d) ==
  /\ pc[d] = "take"
  /\ sess' = [sess EXCEPT ![d] = sessions]
  /\ sessions' = None
  /\ Goto(d, "stop")
  /\ UNCHANGED <<relays, flags, relay, stopped, crashed>>

TakeSession(d) ==
  /\ pc[d] = "take"
  /\ sess' = [sess EXCEPT ![d] = sessions]
  /\ sessions' = None
  /\ Goto(d, IF sessions = None THEN "done" ELSE "stop")
  /\ UNCHANGED <<relays, flags, relay, stopped, crashed>>

\* Session.Stop finds the connections, or the context - unless Start has not
\* yet made it.
StopSession(d) ==
  LET s == sess[d] IN
  /\ pc[d] = "stop"
  /\ running' = running \ {s}
  /\ closed' \in {closed} \cup {closed \cup {s}}
  /\ s \in built => s \in closed'
  /\ pc[s] = "start" => closed' = closed
  /\ Goto(d, "done")
  /\ UNCHANGED <<sessions, relays, sess, connecting, built, relay, stopped,
                 crashed>>

-----------------------------------------------------------------------------
(* The cleanup, the device, and the readers of a relay *)

CleanupDeadSessions ==
  /\ sessions # None /\ ~IsRunning(sessions)
  /\ sessions' = None
  /\ UNCHANGED <<relays, pc, sess, flags, relay, stopped, crashed>>

\* The device is unplugged: the connections of a session break.
DeviceGone(s) ==
  /\ s \in built \ closed
  /\ closed' = closed \cup {s}
  /\ UNCHANGED <<sessions, relays, pc, sess, connecting, running, built, relay,
                 stopped, crashed>>

\* The readers end: their connections are closed, or bring a packet after Stop.
RelayEnds(r) ==
  /\ relay[r] = "live"
  /\ r \in stopped \/ sess[r] \in closed
  /\ relay' = [relay EXCEPT ![r] = "over"]
  /\ stopped' = stopped \cup {r}
  /\ UNCHANGED <<sessions, relays, pc, sess, flags, crashed>>

-----------------------------------------------------------------------------
ConnectStep(r) ==
  \/ Connect(r) \/ EnterStart(r) \/ StoreConns(r) \/ SetRunning(r)
  \/ ReturnStart(r) \/ StartFails(r) \/ Forget(r)
  \/ Register(r) \/ Launch(r)

TakedownStep(d) == StopRelay(d) \/ TakeSession(d) \/ StopSession(d)

\* Requests need not come; and nothing happens once the server has crashed.
Quiet ==
  /\ crashed \/ \A r \in Requests : pc[r] \in {"idle", "done"}
  /\ UNCHANGED vars

Step ==
  \/ \E r \in Connects : ConnectStep(r) \/ RelayEnds(r) \/ DeviceGone(r)
  \/ \E d \in Takedowns : TakedownStep(d)
  \/ CleanupDeadSessions

Next == (~crashed /\ Step) \/ Quiet

Spec == Init /\ [][Next]_vars

-----------------------------------------------------------------------------
\* Types; and a request that is about to stop a session has one.
TypeOK ==
  /\ {sessions, relays} \subseteq Connects \cup {None}
  /\ pc \in [Requests -> {"idle", "start", "starting", "leaving", "forget",
                          "register", "launch", "take", "stop", "done"}]
  /\ sess \in [Requests -> Connects \cup {None}]
  /\ \A flag \in {connecting, running, built, closed, stopped} : flag \subseteq Connects
  /\ relay \in [Connects -> {"none", "made", "live", "over"}]
  /\ \A d \in Takedowns : pc[d] = "stop" => sess[d] # None
  /\ crashed \in BOOLEAN

\* A relay that has not been stopped is the one in the map, where viewers find
\* it and where the next disconnect, connect or shutdown stops it: however
\* requests overlap, no relay goes on unseen, and no two feed viewers
\* (server.go:195-203, 219-224, 379-384).
LiveRelayListed ==
  \A r \in Connects : relay[r] \in {"made", "live"} /\ r \notin stopped => relays = r

\* A session in the map is connecting or running, unless the request that put
\* it there is about to start it or to take it out again: whatever Stops and
\* failures come in between, the map keeps no dead session, and all that the
\* periodic cleanup can find is a session that is about to start
\* (manager.go:92-105, 119, 173).
ListedAlive ==
  sessions # None => IsRunning(sessions) \/ pc[sessions] \in {"start", "forget"}

-----------------------------------------------------------------------------
(* Each session by itself *)

Life(r) == INSTANCE SessionLife WITH
  start <- IF sess[r] # r \/ pc[r] = "start" THEN "new"
           ELSE IF pc[r] = "starting" THEN "busy"
           ELSE IF pc[r] = "leaving" \/ pc[r] = "register" \/ relay[r] # "none"
                THEN "ok" ELSE "failed",
  connecting <- r \in connecting,
  running <- r \in running,
  built <- r \in built,
  closed <- r \in closed

\* However many requests overlap, none does to a session what one session on
\* its own does not do: all that is said here of sessions is what module
\* Session shows of them (manager.go:84-151 against session.go:88-228).
SessionsLive ==
  /\ \A r \in Connects : Life(r)!Init
  /\ [][\A r \in Connects : [Life(r)!Next]_(Life(r)!life)]_vars

-----------------------------------------------------------------------------
(* What comments of manager.go say, and the code does not do *)

\* "already connected" (manager.go:95): the session that Connect hands out is
\* connected, so that a relay can be built on it.
HandedOutConnected ==
  \A r \in Connects : pc[r] \in {"register", "launch"} => sess[r] \in built

\* "StopAll stops all active sessions." (manager.go:137): when it, or a
\* Disconnect, takes the map's session, no other one is active.
StopAllComplete ==
  [][\A d \in Takedowns :
       TakeSession(d) => \A s \in Connects : IsRunning(s) => s = sessions]_vars

=============================================================================
