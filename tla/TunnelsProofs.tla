----------------------------- MODULE TunnelsProofs -----------------------------
(* That the cleanup leaves nothing of earlier runs, and that the ports of     *)
(* sessions lead to their own devices, for any number of sessions, ports and  *)
(* devices and any number of crashes.                                         *)
EXTENDS Tunnels, TLAPS

-------------------------------------------------------------------------------
(* Types *)

LEMMA TypeInit == Init => TypeOK
<1> SUFFICES ASSUME Init PROVE TypeOK
  OBVIOUS
<1> USE DEF Init
<1>1. /\ table \in [Ports -> Sessions \cup {Nothing, Other}]
      /\ port \in [Sessions -> Ports \cup {Nothing}]
      /\ reached \in [Sessions -> Sessions \cup {Nothing, Other}]
  OBVIOUS
<1>2. missed \in BOOLEAN /\ disturbed \in [Sessions -> BOOLEAN]
  OBVIOUS
<1>3. QED
  BY <1>1, <1>2 DEF TypeOK

LEMMA TypeStep == TypeOK /\ [Next]_vars => TypeOK'
<1> SUFFICES ASSUME TypeOK, [Next]_vars PROVE TypeOK'
  OBVIOUS
<1> USE TunnelsAssumption DEF TypeOK, cleanup, session
<1>1. CASE Launch
  BY <1>1 DEF Launch
<1>2. CASE ListDevices
  BY <1>2 DEF ListDevices
<1>3. CASE CleanupDone
  BY <1>3 DEF CleanupDone
<1>4. ASSUME NEW d \in Devices, ForwardList(d) PROVE TypeOK'
  <2>1. \A lines \in Picks(d) : lines \subseteq Ports
    BY DEF Picks, Of
  <2>2. stale' \subseteq Ports /\ missed' \in BOOLEAN
    BY <1>4, <2>1, Zenon DEF ForwardList
  <2>3. QED
    BY <1>4, <2>2 DEF ForwardList
<1>5. ASSUME NEW p \in Ports, RemoveStale(p) PROVE TypeOK'
  BY <1>5 DEF RemoveStale
<1>6. ASSUME NEW s \in Sessions, FindPort(s) PROVE TypeOK'
  <2>1. PICK p \in Ports : Take(s, p)
    BY <1>6 DEF FindPort
  <2>2. disturbed' \in [Sessions -> BOOLEAN]
    BY <2>1, Zenon DEF Take
  <2>3. /\ port' \in [Sessions -> Ports \cup {Nothing}]
        /\ st' \in [Sessions -> {"new", "found", "open", "linked", "gone"}]
        /\ \A q \in Sessions : st'[q] \in {"found", "open", "linked"} => port'[q] \in Ports /\ phase = "up"
        /\ earlier \subseteq {q \in Sessions : st'[q] = "gone"}
    BY <1>6, <2>1 DEF FindPort, Take
  <2>4. QED
    BY <2>1, <2>2, <2>3 DEF Take
<1>7. ASSUME NEW s \in Sessions, Forward(s) PROVE TypeOK'
  BY <1>7 DEF Forward
<1>8. ASSUME NEW s \in Sessions, Dial(s) PROVE TypeOK'
  BY <1>8 DEF Dial
<1>9. ASSUME NEW s \in Sessions, CleanupTunnel(s) PROVE TypeOK'
  BY <1>9 DEF CleanupTunnel
<1>10. CASE Crash
  BY <1>10 DEF Crash
<1>11. ASSUME NEW d \in Devices, Detach(d) PROVE TypeOK'
  <2>1. disturbed' \in [Sessions -> BOOLEAN]
    BY <1>11, Zenon DEF Detach
  <2>2. QED
    BY <1>11, <2>1 DEF Detach
<1>12. ASSUME NEW d \in Devices, Attach(d) PROVE TypeOK'
  BY <1>12 DEF Attach
<1>13. ASSUME NEW p \in Ports, OtherForwards(p) PROVE TypeOK'
  BY <1>13 DEF OtherForwards
<1>14. CASE UNCHANGED vars
  BY <1>14 DEF vars
<1>15. QED
  BY <1>1, <1>2, <1>3, <1>4, <1>5, <1>6, <1>7, <1>8, <1>9, <1>10, <1>11, <1>12, <1>13, <1>14
     DEF Next, Start, Clean, Run, World

\* Every variable keeps its type, for any number of devices, ports and sessions.
THEOREM TunnelsTyped == Spec => []TypeOK
BY TypeInit, TypeStep, PTL DEF Spec

-------------------------------------------------------------------------------
(* Tunnels of earlier runs *)

\* adb keeps no tunnel to a device that is gone, so a device that is not on the
\* list of the cleanup has none.
Plugged == \A p \in Ports : table[p] \in Sessions => device[table[p]] \in attached

\* What the cleanup has not come to yet.
Swept == phase \in {"cleaning", "up"} /\ ~missed =>
           \A p \in Ports : table[p] \in earlier =>
             phase = "cleaning" /\ (device[table[p]] \in todo \/ p \in stale)

LEMMA PluggedStep == TypeOK /\ Plugged /\ [Next]_vars => Plugged'
<1> SUFFICES ASSUME TypeOK, Plugged, [Next]_vars PROVE Plugged'
  OBVIOUS
<1> USE TunnelsAssumption DEF TypeOK, Plugged, cleanup, session
<1>1. ASSUME NEW p \in Ports, RemoveStale(p) PROVE Plugged'
  BY <1>1 DEF RemoveStale
<1>2. ASSUME NEW s \in Sessions, Forward(s) PROVE Plugged'
  BY <1>2 DEF Forward
<1>3. ASSUME NEW s \in Sessions, CleanupTunnel(s) PROVE Plugged'
  BY <1>3 DEF CleanupTunnel
<1>4. ASSUME NEW d \in Devices, Detach(d) PROVE Plugged'
  BY <1>4 DEF Detach, Of
<1>5. ASSUME NEW p \in Ports, OtherForwards(p) PROVE Plugged'
  BY <1>5 DEF OtherForwards
<1>6. ASSUME NEW d \in Devices, Attach(d) PROVE Plugged'
  BY <1>6 DEF Attach
<1>7. ASSUME UNCHANGED <<table, device, attached>> PROVE Plugged'
  BY <1>7
<1>8. QED
  BY <1>1, <1>2, <1>3, <1>4, <1>5, <1>6, <1>7
     DEF Next, Start, Clean, Run, World, Launch, ListDevices, CleanupDone, ForwardList,
         FindPort, Take, Dial, Crash, vars

LEMMA SweptStep == TypeOK /\ Plugged /\ Swept /\ [Next]_vars => Swept'
<1> SUFFICES ASSUME TypeOK, Plugged, Swept, [Next]_vars PROVE Swept'
  OBVIOUS
<1> USE TunnelsAssumption DEF TypeOK, Swept, cleanup, session
<1>1. CASE Launch
  BY <1>1 DEF Launch
<1>2. CASE ListDevices
  BY <1>2 DEF ListDevices, Plugged
<1>3. CASE CleanupDone
  BY <1>3 DEF CleanupDone
<1>4. ASSUME NEW d \in Devices, ForwardList(d) PROVE Swept'
  <2>1. ASSUME ~missed' PROVE ~missed /\ stale = {} /\ todo' = todo \ {d} /\ Of(d) \subseteq stale'
    BY <1>4, <2>1 DEF ForwardList, Picks
  <2>2. QED
    BY <1>4, <2>1 DEF ForwardList, Of
<1>5. ASSUME NEW p \in Ports, RemoveStale(p) PROVE Swept'
  BY <1>5 DEF RemoveStale
<1>6. ASSUME NEW s \in Sessions, FindPort(s) PROVE Swept'
  BY <1>6 DEF FindPort, Take
<1>7. ASSUME NEW s \in Sessions, Forward(s) PROVE Swept'
  BY <1>7 DEF Forward
<1>8. ASSUME NEW s \in Sessions, Dial(s) PROVE Swept'
  BY <1>8 DEF Dial
<1>9. ASSUME NEW s \in Sessions, CleanupTunnel(s) PROVE Swept'
  BY <1>9 DEF CleanupTunnel
<1>10. CASE Crash
  BY <1>10 DEF Crash
<1>11. ASSUME NEW d \in Devices, Detach(d) PROVE Swept'
  BY <1>11 DEF Detach
<1>12. ASSUME NEW d \in Devices, Attach(d) PROVE Swept'
  BY <1>12 DEF Attach
<1>13. ASSUME NEW p \in Ports, OtherForwards(p) PROVE Swept'
  BY <1>13 DEF OtherForwards
<1>14. CASE UNCHANGED vars
  BY <1>14 DEF vars
<1>15. QED
  BY <1>1, <1>2, <1>3, <1>4, <1>5, <1>6, <1>7, <1>8, <1>9, <1>10, <1>11, <1>12, <1>13, <1>14
     DEF Next, Start, Clean, Run, World

\* However often the program is killed, and wherever, once it is up again
\* nothing is left of earlier runs unless a command of its cleanup failed.
THEOREM StaleTheorem == Spec => []StaleGone
<1>1. Init => Plugged /\ Swept
  BY TunnelsAssumption DEF Init, Plugged, Swept
<1>2. TypeOK /\ Swept => StaleGone
  BY DEF Swept, StaleGone
<1>3. QED
  BY <1>1, <1>2, TypeInit, TypeStep, PluggedStep, SweptStep, PTL DEF Spec

-------------------------------------------------------------------------------
(* Where ports lead *)

Holding(s) == st[s] \in {"found", "open", "linked"}

\* Two sessions hold the same port only if the one that is not connected yet
\* was disturbed; one that was not has its tunnel in place.
Paired == \A q, s \in Sessions :
            q # s /\ Holding(q) /\ st[s] \in {"found", "open"} /\ port[q] = port[s] => disturbed[s]
Placed == \A s \in Sessions : st[s] = "open" /\ ~disturbed[s] => table[port[s]] = s

HomeInv == Paired /\ Placed /\ LeadsHome

\* The steps of a cleanup meet no session that holds a port.
LEMMA HomeIdle ==
  ASSUME TypeOK, HomeInv, phase # "up", UNCHANGED session PROVE HomeInv'
BY DEF TypeOK, HomeInv, Paired, Placed, LeadsHome, Holding, session

LEMMA HomeFind ==
  ASSUME TypeOK, HomeInv, NEW s \in Sessions, FindPort(s) PROVE HomeInv'
<1> USE TunnelsAssumption DEF TypeOK
<1>1. PICK p \in Ports : table[p] = Nothing /\ Take(s, p)
  BY DEF FindPort
<1>2. st[s] = "new"
  BY DEF FindPort
<1>3. \A q \in Sessions : Holding(q) /\ port[q] = p => Shares(q, p)
  BY <1>1 DEF Holding, Shares
<1>4. \A q \in Sessions : disturbed[q] => disturbed'[q]
  BY <1>1, Zenon DEF Take
<1>5. \A q \in Sessions : Shares(q, p) => disturbed'[q] /\ disturbed'[s]
  BY <1>1, Zenon DEF Take
<1>6. /\ st' = [st EXCEPT ![s] = "found"] /\ port' = [port EXCEPT ![s] = p]
      /\ UNCHANGED <<table, reached>>
  BY <1>1 DEF Take
<1>7. Paired'
  BY <1>2, <1>3, <1>4, <1>5, <1>6 DEF HomeInv, Paired, Holding
<1>8. Placed' /\ LeadsHome'
  BY <1>4, <1>6 DEF HomeInv, Placed, LeadsHome
<1>9. QED
  BY <1>7, <1>8 DEF HomeInv

LEMMA HomeForward ==
  ASSUME TypeOK, HomeInv, NEW s \in Sessions, Forward(s) PROVE HomeInv'
<1> USE DEF TypeOK, Forward, HomeInv
<1>1. Paired' /\ LeadsHome'
  BY DEF Paired, Holding, LeadsHome
<1>2. ASSUME NEW q \in Sessions, st'[q] = "open", ~disturbed'[q] PROVE table'[port'[q]] = q
  <2>1. CASE q = s
    BY <1>2, <2>1
  <2>2. CASE q # s
    <3>1. port[q] # port[s] /\ table[port[q]] = q
      BY <1>2, <2>2 DEF Paired, Placed, Holding
    <3>2. QED
      BY <1>2, <2>2, <3>1
  <2>3. QED
    BY <2>1, <2>2
<1>3. QED
  BY <1>1, <1>2 DEF Placed

LEMMA HomeDial ==
  ASSUME TypeOK, HomeInv, NEW s \in Sessions, Dial(s) PROVE HomeInv'
BY DEF TypeOK, Dial, HomeInv, Paired, Placed, LeadsHome, Holding

LEMMA HomeCleanup ==
  ASSUME TypeOK, HomeInv, NEW s \in Sessions, CleanupTunnel(s) PROVE HomeInv'
<1> USE DEF TypeOK, CleanupTunnel, HomeInv
<1>1. Paired' /\ LeadsHome'
  BY DEF Paired, Holding, LeadsHome
<1>2. ASSUME NEW q \in Sessions, st'[q] = "open", ~disturbed'[q] PROVE table'[port'[q]] = q
  <2>1. q # s /\ port[q] # port[s] /\ table[port[q]] = q
    BY <1>2 DEF Paired, Placed, Holding
  <2>2. QED
    BY <1>2, <2>1
<1>3. QED
  BY <1>1, <1>2 DEF Placed

LEMMA HomeDetach ==
  ASSUME TypeOK, HomeInv, NEW d \in Devices, Detach(d) PROVE HomeInv'
<1> USE DEF TypeOK, Detach
<1>1. \A s \in Sessions : /\ disturbed[s] => disturbed'[s]
                          /\ st[s] = "open" /\ device[s] = d => disturbed'[s]
  BY Zenon
<1>2. UNCHANGED <<st, port, reached>>
  OBVIOUS
<1>3. \A p \in Ports : p \notin Of(d) => table'[p] = table[p]
  OBVIOUS
<1>4. Paired' /\ LeadsHome'
  BY <1>1, <1>2 DEF HomeInv, Paired, Holding, LeadsHome
<1>5. ASSUME NEW s \in Sessions, st'[s] = "open", ~disturbed'[s] PROVE table'[port'[s]] = s
  <2>1. table[port[s]] = s /\ device[s] # d /\ port[s] \in Ports
    BY <1>1, <1>2, <1>5 DEF HomeInv, Placed
  <2>2. QED
    BY <1>2, <1>3, <2>1 DEF Of
<1>6. QED
  BY <1>4, <1>5 DEF HomeInv, Placed

LEMMA HomeStep == TypeOK /\ HomeInv /\ [Next]_vars => HomeInv'
<1> SUFFICES ASSUME TypeOK, HomeInv, [Next]_vars PROVE HomeInv'
  OBVIOUS
<1>1. CASE Start
  <2>1. phase # "up" /\ UNCHANGED session
    BY <1>1 DEF Start, Launch, ListDevices, CleanupDone
  <2>2. QED
    BY <2>1, HomeIdle
<1>2. CASE Clean
  <2>1. phase # "up" /\ UNCHANGED session
    BY <1>2 DEF Clean, ForwardList, RemoveStale, TypeOK
  <2>2. QED
    BY <2>1, HomeIdle
<1>3. CASE Crash
  BY <1>3 DEF Crash, HomeInv, Paired, Placed, LeadsHome, Holding, TypeOK
<1>4. ASSUME NEW p \in Ports, OtherForwards(p) PROVE HomeInv'
  BY <1>4, TunnelsAssumption
     DEF OtherForwards, HomeInv, Paired, Placed, LeadsHome, Holding, TypeOK, session
<1>5. ASSUME NEW d \in Devices, Attach(d) PROVE HomeInv'
  BY <1>5 DEF Attach, HomeInv, Paired, Placed, LeadsHome, Holding, session
<1>6. CASE UNCHANGED vars
  BY <1>6 DEF vars, HomeInv, Paired, Placed, LeadsHome, Holding, session
<1>7. QED
  BY <1>1, <1>2, <1>3, <1>4, <1>5, <1>6, HomeFind, HomeForward, HomeDial, HomeCleanup, HomeDetach
     DEF Next, Run, World

\* Whatever other sessions and other programs do with their ports, a session
\* that was not disturbed is connected to its own device.
THEOREM HomeTheorem == Spec => []LeadsHome
<1>1. Init => HomeInv
  BY DEF Init, HomeInv, Paired, Placed, LeadsHome, Holding
<1>2. HomeInv => LeadsHome
  BY DEF HomeInv
<1>3. QED
  BY <1>1, <1>2, TypeInit, TypeStep, HomeStep, PTL DEF Spec
===============================================================================
