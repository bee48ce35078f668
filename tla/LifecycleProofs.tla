-------------------------- MODULE LifecycleProofs --------------------------
(* That no relay is ever lost from the server's map while it is live, that *)
(* no dead session stays in the manager's, and that the sessions do only   *)
(* what a session promises, for any number of overlapping requests.        *)
EXTENDS Lifecycle, TLAPS

-----------------------------------------------------------------------------
(* Types *)

LEMMA TypeInit == Init => TypeOK
BY LifecycleAssumption DEF Init, TypeOK, Requests

\* The steps of a connect request do not move a takedown.
LEMMA ConnectTypes ==
  ASSUME TypeOK, NEW r \in Connects, ConnectStep(r) PROVE TypeOK'
<1> USE LifecycleAssumption DEF TypeOK, Requests, flags, Goto
<1>1. CASE Connect(r)
  BY <1>1 DEF Connect
<1>2. CASE EnterStart(r)
  BY <1>2 DEF EnterStart
<1>3. CASE StoreConns(r)
  BY <1>3 DEF StoreConns
<1>4. CASE SetRunning(r)
  BY <1>4 DEF SetRunning
<1>5. CASE ReturnStart(r)
  BY <1>5 DEF ReturnStart
<1>6. CASE StartFails(r)
  BY <1>6 DEF StartFails
<1>7. CASE Forget(r)
  BY <1>7 DEF Forget
<1>8. CASE Register(r)
  BY <1>8 DEF Register
<1>9. CASE Launch(r)
  BY <1>9 DEF Launch
<1>10. QED
  BY <1>1, <1>2, <1>3, <1>4, <1>5, <1>6, <1>7, <1>8, <1>9 DEF ConnectStep

LEMMA TakedownTypes ==
  ASSUME TypeOK, NEW d \in Takedowns, TakedownStep(d) PROVE TypeOK'
<1> USE LifecycleAssumption DEF TypeOK, Requests, flags, Goto
<1>1. CASE StopRelay(d)
  BY <1>1 DEF StopRelay
<1>2. CASE TakeSession(d)
  BY <1>2 DEF TakeSession
<1>3. CASE StopSession(d)
  <2>1. sess[d] \in Connects
    BY <1>3 DEF StopSession
  <2>2. QED
    BY <1>3, <2>1 DEF StopSession
<1>4. QED
  BY <1>1, <1>2, <1>3 DEF TakedownStep

LEMMA TypeStep == TypeOK /\ [Next]_vars => TypeOK'
<1> SUFFICES ASSUME TypeOK, [Next]_vars PROVE TypeOK'
  OBVIOUS
<1> USE DEF TypeOK, flags
<1>1. ASSUME NEW r \in Connects, RelayEnds(r) PROVE TypeOK'
  BY <1>1 DEF RelayEnds
<1>2. ASSUME NEW r \in Connects, DeviceGone(r) PROVE TypeOK'
  BY <1>2 DEF DeviceGone
<1>3. CASE CleanupDeadSessions
  BY <1>3 DEF CleanupDeadSessions
<1>4. CASE UNCHANGED vars
  BY <1>4 DEF vars
<1>5. QED
  BY <1>1, <1>2, <1>3, <1>4, ConnectTypes, TakedownTypes
     DEF Next, Step, Quiet

\* Every variable keeps its type: in particular the session that a disconnect
\* or the shutdown stops is one, never a nil taken from an empty map
\* (manager.go:114-122).
THEOREM SessionsTyped == Spec => []TypeOK
BY TypeInit, TypeStep, PTL DEF Spec

-----------------------------------------------------------------------------
(* Relays *)

\* The relay that a request launches is the one it has registered: without
\* this, Launch could bring to life a relay the map never held.
Launching == \A r \in Connects : pc[r] = "launch" => relay[r] = "made"

ListedInv == TypeOK /\ Launching /\ LiveRelayListed

LEMMA ListedInit == Init => Launching /\ LiveRelayListed
BY DEF Init, Launching, LiveRelayListed, Requests

LEMMA LaunchingStep == TypeOK /\ Launching /\ [Next]_vars => Launching'
<1> SUFFICES ASSUME TypeOK, Launching, [Next]_vars PROVE Launching'
  OBVIOUS
<1> USE LifecycleAssumption DEF TypeOK, Launching, Requests, Goto
<1>1. ASSUME NEW r \in Connects, ConnectStep(r) PROVE Launching'
  BY <1>1 DEF ConnectStep, Connect, EnterStart, StoreConns, SetRunning,
              ReturnStart, StartFails, Forget, Register, Launch
<1>2. ASSUME NEW d \in Takedowns, TakedownStep(d) PROVE Launching'
  BY <1>2 DEF TakedownStep, StopRelay, TakeSession, StopSession
<1>3. ASSUME NEW r \in Connects, RelayEnds(r) PROVE Launching'
  BY <1>3 DEF RelayEnds
<1>4. CASE UNCHANGED <<pc, relay>>
  BY <1>4
<1>5. QED
  BY <1>1, <1>2, <1>3, <1>4
     DEF Next, Step, Quiet, vars, DeviceGone, CleanupDeadSessions

\* Only three steps take a relay out of the map, and each of them stops it.
LEMMA ListedStep ==
  TypeOK /\ Launching /\ LiveRelayListed /\ [Next]_vars => LiveRelayListed'
<1> SUFFICES ASSUME TypeOK, Launching, LiveRelayListed, [Next]_vars
             PROVE  LiveRelayListed'
  OBVIOUS
<1> USE LifecycleAssumption DEF TypeOK, LiveRelayListed, flags
<1>1. ASSUME NEW r \in Connects, Register(r) PROVE LiveRelayListed'
  BY <1>1 DEF Register
<1>2. ASSUME NEW r \in Connects, Launch(r) PROVE LiveRelayListed'
  BY <1>2 DEF Launch, Launching
<1>3. ASSUME NEW r \in Connects, RelayEnds(r) PROVE LiveRelayListed'
  BY <1>3 DEF RelayEnds
<1>4. ASSUME NEW d \in Takedowns, StopRelay(d) PROVE LiveRelayListed'
  BY <1>4 DEF StopRelay
<1>5. CASE UNCHANGED <<relays, relay, stopped>>
  BY <1>5
<1>6. QED
  BY <1>1, <1>2, <1>3, <1>4, <1>5
     DEF Next, Step, Quiet, vars, ConnectStep, TakedownStep, Connect,
         EnterStart, StoreConns, SetRunning, ReturnStart, StartFails, Forget,
         TakeSession, StopSession, DeviceGone, CleanupDeadSessions

\* Of any number of relays that overlapping requests make for a device, the
\* one that has not been stopped is in the server's map.
THEOREM ListedTheorem == Spec => []LiveRelayListed
<1>1. Init => ListedInv
  BY TypeInit, ListedInit DEF ListedInv
<1>2. ListedInv /\ [Next]_vars => ListedInv'
  BY TypeStep, LaunchingStep, ListedStep DEF ListedInv
<1>3. ListedInv => LiveRelayListed
  BY DEF ListedInv
<1>4. QED
  BY <1>1, <1>2, <1>3, PTL DEF Spec

-----------------------------------------------------------------------------
(* Sessions *)

\* Where the request that made the session of the map is, and which flag it has
\* set by then.
Alive ==
  sessions # None =>
    /\ pc[sessions] # "idle"
    /\ \/ pc[sessions] \in {"start", "forget"}
       \/ pc[sessions] = "starting" /\ sessions \in connecting
       \/ pc[sessions] # "starting" /\ sessions \in running

\* A session that a request has taken out to stop it never comes back.
Detached ==
  \A d \in Takedowns :
    pc[d] = "stop" => sess[d] # sessions /\ pc[sess[d]] # "idle"

AliveInv == TypeOK /\ Alive /\ Detached

LEMMA AliveInit == Init => Alive /\ Detached
BY DEF Init, Alive, Detached, Requests

LEMMA AliveConnect ==
  ASSUME AliveInv, NEW r \in Connects, ConnectStep(r) PROVE Alive' /\ Detached'
<1> USE LifecycleAssumption
    DEF AliveInv, TypeOK, Alive, Detached, Requests, Goto, flags
<1>1. CASE Connect(r)
  BY <1>1 DEF Connect
<1>2. CASE EnterStart(r)
  BY <1>2 DEF EnterStart
<1>3. CASE StoreConns(r)
  BY <1>3 DEF StoreConns
<1>4. CASE SetRunning(r)
  BY <1>4 DEF SetRunning
<1>5. CASE ReturnStart(r)
  BY <1>5 DEF ReturnStart
<1>6. CASE StartFails(r)
  BY <1>6 DEF StartFails
<1>7. CASE Forget(r)
  BY <1>7 DEF Forget
<1>8. CASE Register(r)
  BY <1>8 DEF Register
<1>9. CASE Launch(r)
  BY <1>9 DEF Launch
<1>10. QED
  BY <1>1, <1>2, <1>3, <1>4, <1>5, <1>6, <1>7, <1>8, <1>9 DEF ConnectStep

LEMMA AliveTakedown ==
  ASSUME AliveInv, NEW d \in Takedowns, TakedownStep(d) PROVE Alive' /\ Detached'
<1> USE LifecycleAssumption
    DEF AliveInv, TypeOK, Alive, Detached, Requests, Goto, flags
<1>1. CASE StopRelay(d)
  BY <1>1 DEF StopRelay
<1>2. CASE TakeSession(d)
  BY <1>2 DEF TakeSession
<1>3. CASE StopSession(d)
  <2>1. sess[d] \in Connects /\ sess[d] # sessions
    BY <1>3 DEF StopSession
  <2>2. /\ running' = running \ {sess[d]}
        /\ pc' = [pc EXCEPT ![d] = "done"]
        /\ UNCHANGED <<sessions, sess, connecting>>
    BY <1>3 DEF StopSession
  <2>3. QED
    BY <2>1, <2>2
<1>4. QED
  BY <1>1, <1>2, <1>3 DEF TakedownStep

LEMMA AliveStep == AliveInv /\ [Next]_vars => Alive' /\ Detached'
<1> SUFFICES ASSUME AliveInv, [Next]_vars PROVE Alive' /\ Detached'
  OBVIOUS
<1> USE DEF AliveInv, Alive, Detached, flags
<1>1. ASSUME NEW r \in Connects, RelayEnds(r) PROVE Alive' /\ Detached'
  BY <1>1 DEF RelayEnds
<1>2. ASSUME NEW r \in Connects, DeviceGone(r) PROVE Alive' /\ Detached'
  BY <1>2 DEF DeviceGone
<1>3. CASE CleanupDeadSessions
  BY <1>3, LifecycleAssumption DEF CleanupDeadSessions, TypeOK
<1>4. CASE UNCHANGED vars
  BY <1>4 DEF vars
<1>5. QED
  BY <1>1, <1>2, <1>3, <1>4, AliveConnect, AliveTakedown DEF Next, Step, Quiet

\* Of any number of overlapping requests, none leaves a session in the map that
\* has failed or has been stopped.
THEOREM AliveTheorem == Spec => []ListedAlive
<1>1. Init => AliveInv
  BY TypeInit, AliveInit DEF AliveInv
<1>2. AliveInv /\ [Next]_vars => AliveInv'
  BY TypeStep, AliveStep DEF AliveInv
<1>3. AliveInv => ListedAlive
  BY DEF AliveInv, Alive, ListedAlive, IsRunning
<1>4. QED
  BY <1>1, <1>2, <1>3, PTL DEF Spec

-----------------------------------------------------------------------------
(* Each session is a SessionLife *)

\* A request that was handed a session makes none; one that makes a session has
\* its flags and its relay set according to where it is.
Own ==
  \A r \in Connects :
    /\ sess[r] = r => pc[r] \in {"start", "starting", "leaving", "forget",
                                  "register", "launch", "done"}
    /\ sess[r] # r \/ pc[r] = "start"
         => r \notin connecting \cup running \cup built \cup closed
    /\ pc[r] = "starting" => sess[r] = r /\ r \in connecting
    /\ pc[r] = "leaving" => sess[r] = r
    /\ pc[r] \in {"idle", "start", "starting", "leaving", "forget", "register"}
         => relay[r] = "none"
    /\ pc[r] = "idle" => sess[r] = None
    /\ pc[r] = "start" => sess[r] = r
    /\ pc[r] = "launch" => relay[r] # "none"

\* The session in the map, and the one that a request stops, have been made.
Made ==
  /\ sessions # None => sess[sessions] = sessions
  /\ \A d \in Takedowns : pc[d] = "stop" => sess[sess[d]] = sess[d]

OwnInv == TypeOK /\ Own /\ Made

LEMMA OwnInit == Init => Own /\ Made
BY LifecycleAssumption DEF Init, Own, Made, Requests

LEMMA OwnConnect ==
  ASSUME OwnInv, NEW r \in Connects, ConnectStep(r) PROVE Own' /\ Made'
<1> USE LifecycleAssumption
    DEF OwnInv, TypeOK, Own, Made, Requests, Goto, flags
<1>1. CASE Connect(r)
  BY <1>1 DEF Connect
<1>2. CASE EnterStart(r)
  BY <1>2 DEF EnterStart
<1>3. CASE StoreConns(r)
  BY <1>3 DEF StoreConns
<1>4. CASE SetRunning(r)
  BY <1>4 DEF SetRunning
<1>5. CASE ReturnStart(r)
  BY <1>5 DEF ReturnStart
<1>6. CASE StartFails(r)
  BY <1>6 DEF StartFails
<1>7. CASE Forget(r)
  BY <1>7 DEF Forget
<1>8. CASE Register(r)
  BY <1>8 DEF Register
<1>9. CASE Launch(r)
  BY <1>9 DEF Launch
<1>10. QED
  BY <1>1, <1>2, <1>3, <1>4, <1>5, <1>6, <1>7, <1>8, <1>9 DEF ConnectStep

LEMMA OwnTakedown ==
  ASSUME OwnInv, NEW d \in Takedowns, TakedownStep(d) PROVE Own' /\ Made'
<1> USE LifecycleAssumption
    DEF OwnInv, TypeOK, Own, Made, Requests, Goto, flags
<1>1. CASE StopRelay(d)
  BY <1>1 DEF StopRelay
<1>2. CASE TakeSession(d)
  BY <1>2 DEF TakeSession
<1>3. CASE StopSession(d)
  <2>1. /\ sess[d] \in Connects /\ sess[sess[d]] = sess[d]
        /\ running' = running \ {sess[d]}
        /\ closed' = closed \/ (closed' = closed \cup {sess[d]} /\ pc[sess[d]] # "start")
        /\ pc' = [pc EXCEPT ![d] = "done"]
        /\ UNCHANGED <<sessions, sess, connecting, built, relay>>
    BY <1>3 DEF StopSession
  <2>2. QED
    BY <2>1
<1>4. QED
  BY <1>1, <1>2, <1>3 DEF TakedownStep

LEMMA OwnStep == OwnInv /\ [Next]_vars => OwnInv'
<1> SUFFICES ASSUME OwnInv, [Next]_vars PROVE Own' /\ Made'
  BY TypeStep DEF OwnInv
<1> USE DEF OwnInv, TypeOK, Own, Made, flags
<1>1. ASSUME NEW r \in Connects, RelayEnds(r) PROVE Own' /\ Made'
  BY <1>1 DEF RelayEnds
<1>2. ASSUME NEW r \in Connects, DeviceGone(r) PROVE Own' /\ Made'
  BY <1>2 DEF DeviceGone
<1>3. CASE CleanupDeadSessions
  BY <1>3, LifecycleAssumption DEF CleanupDeadSessions
<1>4. CASE UNCHANGED vars
  BY <1>4 DEF vars
<1>5. QED
  BY <1>1, <1>2, <1>3, <1>4, OwnConnect, OwnTakedown DEF Next, Step, Quiet

\* A step of request r is a step of session r, or none of any session.
LEMMA LivesConnect ==
  ASSUME OwnInv, NEW r \in Connects, ConnectStep(r), NEW q \in Connects
  PROVE  [Life(q)!Next]_(Life(q)!life)
<1> USE LifecycleAssumption
    DEF OwnInv, TypeOK, Own, Requests, Goto, flags, Life!life
<1>1. CASE Connect(r)
  BY <1>1 DEF Connect, Made
<1>2. CASE EnterStart(r)
  BY <1>2 DEF EnterStart, Life!Next, Life!Enter
<1>3. CASE StoreConns(r)
  BY <1>3 DEF StoreConns, Life!Next, Life!Build
<1>4. CASE SetRunning(r)
  BY <1>4 DEF SetRunning, Life!Next, Life!Succeed
<1>5. CASE ReturnStart(r)
  BY <1>5 DEF ReturnStart, Life!Next, Life!Leave
<1>6. CASE StartFails(r)
  BY <1>6 DEF StartFails, Life!Next, Life!Fail
<1>7. CASE Forget(r)
  BY <1>7 DEF Forget
<1>8. CASE Register(r)
  BY <1>8 DEF Register
<1>9. CASE Launch(r)
  BY <1>9 DEF Launch
<1>10. QED
  BY <1>1, <1>2, <1>3, <1>4, <1>5, <1>6, <1>7, <1>8, <1>9 DEF ConnectStep

LEMMA LivesTakedown ==
  ASSUME OwnInv, NEW d \in Takedowns, TakedownStep(d), NEW q \in Connects
  PROVE  [Life(q)!Next]_(Life(q)!life)
<1> USE LifecycleAssumption
    DEF OwnInv, TypeOK, Own, Made, Requests, Goto, flags, Life!life
<1>1. CASE StopRelay(d)
  BY <1>1 DEF StopRelay
<1>2. CASE TakeSession(d)
  BY <1>2 DEF TakeSession
<1>3. CASE StopSession(d)
  <2>1. /\ sess[d] \in Connects /\ sess[sess[d]] = sess[d]
        /\ running' = running \ {sess[d]}
        /\ closed' = closed \/ (closed' = closed \cup {sess[d]} /\ pc[sess[d]] # "start")
        /\ pc' = [pc EXCEPT ![d] = "done"]
        /\ UNCHANGED <<sess, connecting, built, relay>>
    BY <1>3 DEF StopSession
  <2>2. CASE sess[d] = q /\ pc[q] # "start"
    <3>1. UNCHANGED <<sess[q], pc[q], relay[q], q \in connecting, q \in built>>
      BY <2>1, <2>2
    <3>2. q \notin running' /\ (q \in closed => q \in closed')
      BY <2>1, <2>2
    <3>3. sess[q] = q
      BY <2>1, <2>2
    <3>4. (q \in running') = FALSE
      BY <3>2
    <3>5. (q \in closed') = (q \in closed) \/ (q \in closed') = TRUE
      BY <3>2
    <3>6. Life(q)!Stop
      BY <2>2, <3>1, <3>3, <3>4, <3>5 DEF Life!Stop
    <3>7. QED
      BY <3>6 DEF Life!Next
  <2>3. CASE ~(sess[d] = q /\ pc[q] # "start")
    BY <2>1, <2>3
  <2>4. QED
    BY <2>2, <2>3
<1>4. QED
  BY <1>1, <1>2, <1>3 DEF TakedownStep

\* Of any number of overlapping requests none does to a session what the
\* session on its own does not do.
THEOREM LivesTheorem == Spec => SessionsLive
<1>1. Init => OwnInv
  BY TypeInit, OwnInit DEF OwnInv
<1>2. Init => \A r \in Connects : Life(r)!Init
  BY LifecycleAssumption DEF Init, Requests, Life!Init
<1>3. OwnInv /\ [Next]_vars
        => [\A r \in Connects : [Life(r)!Next]_(Life(r)!life)]_vars
  <2> SUFFICES ASSUME OwnInv, [Next]_vars, NEW q \in Connects
               PROVE  [Life(q)!Next]_(Life(q)!life)
    OBVIOUS
  <2> USE DEF OwnInv, TypeOK, Own, flags, Life!life
  <2>1. ASSUME NEW r \in Connects, RelayEnds(r)
        PROVE  [Life(q)!Next]_(Life(q)!life)
    BY <2>1 DEF RelayEnds
  <2>2. ASSUME NEW r \in Connects, DeviceGone(r)
        PROVE  [Life(q)!Next]_(Life(q)!life)
    BY <2>2 DEF DeviceGone, Life!Next, Life!Lose
  <2>3. CASE CleanupDeadSessions \/ UNCHANGED vars
    BY <2>3 DEF CleanupDeadSessions, vars
  <2>4. QED
    BY <2>1, <2>2, <2>3, LivesConnect, LivesTakedown DEF Next, Step, Quiet
<1>4. QED
  BY <1>1, <1>2, <1>3, OwnStep, PTL DEF Spec, SessionsLive

=============================================================================
