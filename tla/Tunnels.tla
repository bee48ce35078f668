------------------------------- MODULE Tunnels -------------------------------
(***************************************************************************)
(* The forward tunnels of adb: a table from local ports to the server of a *)
(* session on its device.  It lives in the adb server, outlives the program *)
(* and is shared with other programs (internal/adb/adb.go).                 *)
(*                                                                          *)
(* The program clears what earlier runs have left when it starts            *)
(* (cleanStaleForwards of manager.go).  A session that falls back to a      *)
(* forward tunnel looks for a free port, gives it back, asks adb to forward *)
(* it, connects through it and removes it in the end (session.go): between  *)
(* two of these steps the port may come to mean something else.             *)
(***************************************************************************)
EXTENDS Naturals, FiniteSets

CONSTANTS Devices, Ports, Sessions, Nothing,
          Other         \* stands for every tunnel of another program

ASSUME TunnelsAssumption ==
  Nothing \notin Sessions /\ Other \notin Sessions /\ Nothing # Other

VARIABLES
  table,     \* what adb has mapped each port to
  device,    \* the device each session is for
  attached,  \* the devices adb lists
  phase,     \* of the program: down, listing, cleaning or up
  todo,      \* the devices whose tunnels are still to be listed
  stale,     \* the ports of the device in hand that are still to be removed
  missed,    \* this time a command of the cleanup failed or timed out
  st,        \* of each session: new, found, open, linked, gone
  port,      \* its localPort
  reached,   \* the session whose server it has got a connection to
  disturbed, \* its device was unplugged, or another session was given its port
  earlier    \* the sessions of earlier runs

cleanup == <<todo, stale, missed>>
session == <<st, port, reached, disturbed>>
vars == <<table, device, attached, phase, cleanup, session, earlier>>

\* The tunnels that end on device d.
Of(d) == {p \in Ports : table[p] \in Sessions /\ device[table[p]] = d}

\* What the cleanup may pick from the list it asks of a device: every tunnel whose
\* target begins with "scrcpy_", those of other programs among them; and adb may
\* list the tunnels of all devices.
Picks(d) == {Of(d) \cup others : others \in SUBSET {p \in Ports : table[p] # Nothing}}

Init ==
  /\ table = [p \in Ports |-> Nothing]
  /\ device \in [Sessions -> Devices] /\ attached = Devices
  /\ phase = "down" /\ todo = {} /\ stale = {} /\ missed = FALSE
  /\ st = [s \in Sessions |-> "new"] /\ port = [s \in Sessions |-> Nothing]
  /\ reached = [s \in Sessions |-> Nothing] /\ disturbed = [s \in Sessions |-> FALSE]
  /\ earlier = {}

-------------------------------------------------------------------------------
(* The start of the program: NewManager                                     *)

Launch ==
  /\ phase = "down" /\ phase' = "listing"
  /\ missed' = FALSE
  /\ UNCHANGED <<table, device, attached, todo, stale, session, earlier>>

\* ListDevices: an adb that cannot be run counts as no device at all.
ListDevices ==
  /\ phase = "listing" /\ phase' = "cleaning"
  /\ \/ todo' = attached /\ UNCHANGED missed
     \/ todo' = {} /\ missed' = TRUE
  /\ UNCHANGED <<table, device, attached, stale, session, earlier>>

\* ForwardList of the next device; if it fails the device is passed over.
ForwardListFirst(d) ==  \* variant: takes only one line of the list
  /\ phase = "cleaning" /\ stale = {} /\ d \in todo
  /\ todo' = todo \ {d}
  /\ \/ stale' = (IF Of(d) = {} THEN {} ELSE {CHOOSE p \in Of(d) : TRUE}) /\ UNCHANGED missed
     \/ missed' = TRUE /\ UNCHANGED stale
  /\ UNCHANGED <<table, device, attached, phase, session, earlier>>
ForwardList(d) ==
  /\ phase = "cleaning" /\ stale = {} /\ d \in todo
  /\ todo' = todo \ {d}
  /\ \/ stale' \in Picks(d) /\ UNCHANGED missed
     \/ missed' = TRUE /\ UNCHANGED stale
  /\ UNCHANGED <<table, device, attached, phase, session, earlier>>

\* ForwardRemove of the next line, by its port alone.
RemoveStale(p) ==
  /\ p \in stale /\ stale' = stale \ {p}
  /\ \/ table' = [table EXCEPT ![p] = Nothing] /\ UNCHANGED missed
     \/ missed' = TRUE /\ UNCHANGED table
  /\ UNCHANGED <<device, attached, phase, todo, session, earlier>>

CleanupDoneEarly ==   \* variant: does not wait for the last removals
  /\ phase = "cleaning" /\ todo = {}
  /\ phase' = "up"
  /\ UNCHANGED <<table, device, attached, cleanup, session, earlier>>
CleanupDoneIfClean ==  \* variant: does not start after a failure
  /\ phase = "cleaning" /\ todo = {} /\ stale = {} /\ ~missed
  /\ phase' = "up"
  /\ UNCHANGED <<table, device, attached, cleanup, session, earlier>>
CleanupDone ==
  /\ phase = "cleaning" /\ todo = {} /\ stale = {}
  /\ phase' = "up"
  /\ UNCHANGED <<table, device, attached, cleanup, session, earlier>>

-------------------------------------------------------------------------------
(* A session with a forward tunnel                                          *)

\* A port nobody listens on; the listener is closed at once.
Shares(s, p) == st[s] \in {"found", "open", "linked"} /\ port[s] = p /\ table[p] # s
Take(s, p) ==
  /\ port' = [port EXCEPT ![s] = p]
  /\ LET sharing == {q \in Sessions : Shares(q, p)}
         met     == sharing \cup (IF sharing = {} THEN {} ELSE {s})
     IN disturbed' = [q \in Sessions |-> disturbed[q] \/ q \in met]
  /\ st' = [st EXCEPT ![s] = "found"]
  /\ UNCHANGED <<table, device, attached, phase, cleanup, reached, earlier>>
FindAnyPort(s) ==  \* variant: does not look whether the port is free
  phase = "up" /\ st[s] = "new" /\ \E p \in Ports : Take(s, p)
FindPort(s) ==
  phase = "up" /\ st[s] = "new" /\ \E p \in Ports : table[p] = Nothing /\ Take(s, p)

\* adb forward: a port adb has mapped already is mapped anew.  If the command
\* fails or is cut off, Start gives up and leaves what it may have done.
Forward(s) ==
  /\ st[s] = "found"
  /\ \/ table' = [table EXCEPT ![port[s]] = s] /\ device[s] \in attached
     \/ UNCHANGED table
  /\ \/ st' = [st EXCEPT ![s] = "open"] /\ table'[port[s]] = s
     \/ st' = [st EXCEPT ![s] = "gone"]
  /\ UNCHANGED <<device, attached, phase, cleanup, port, reached, disturbed, earlier>>

\* connectForward: the connections go where the port leads by now.
Dial(s) ==
  /\ st[s] = "open" /\ table[port[s]] # Nothing
  /\ reached' = [reached EXCEPT ![s] = table[port[s]]]
  /\ st' = [st EXCEPT ![s] = "linked"]
  /\ UNCHANGED <<table, device, attached, phase, cleanup, port, disturbed, earlier>>

\* Stop, or a Start that fails: cleanupTunnel, whose errors are ignored.
CleanupTunnel(s) ==
  /\ st[s] \in {"open", "linked"}
  /\ table' \in {table, [table EXCEPT ![port[s]] = Nothing]}
  /\ st' = [st EXCEPT ![s] = "gone"]
  /\ UNCHANGED <<device, attached, phase, cleanup, port, reached, disturbed, earlier>>

-------------------------------------------------------------------------------
(* What happens to the program                                              *)

\* The program is killed, at any point: its sessions go, their tunnels stay.
Crash ==
  /\ phase # "down" /\ phase' = "down"
  /\ todo' = {} /\ stale' = {}
  /\ earlier' = earlier \cup {s \in Sessions : st[s] # "new"}
  /\ st' = [s \in Sessions |-> IF st[s] = "new" THEN "new" ELSE "gone"]
  /\ UNCHANGED <<table, device, attached, missed, port, reached, disturbed>>

\* A device is unplugged: adb gives up its tunnels.
Detach(d) ==
  /\ d \in attached /\ attached' = attached \ {d}
  /\ table' = [p \in Ports |-> IF p \in Of(d) THEN Nothing ELSE table[p]]
  /\ disturbed' = [s \in Sessions |-> disturbed[s] \/ (st[s] = "open" /\ device[s] = d)]
  /\ UNCHANGED <<device, phase, cleanup, st, port, reached, earlier>>
Attach(d) ==
  /\ d \notin attached /\ attached' = attached \cup {d}
  /\ UNCHANGED <<table, device, phase, cleanup, session, earlier>>

\* Another program maps a free port, or gives one of its own back.
OtherForwards(p) ==
  /\ \/ table[p] = Nothing /\ table' = [table EXCEPT ![p] = Other]
     \/ table[p] = Other   /\ table' = [table EXCEPT ![p] = Nothing]
  /\ UNCHANGED <<device, attached, phase, cleanup, session, earlier>>

Start == Launch \/ ListDevices \/ CleanupDone
Clean == (\E d \in Devices : ForwardList(d)) \/ (\E p \in Ports : RemoveStale(p))
Run(s) == FindPort(s) \/ Forward(s) \/ Dial(s) \/ CleanupTunnel(s)
World == \/ Crash
         \/ \E d \in Devices : Detach(d) \/ Attach(d)
         \/ \E p \in Ports : OtherForwards(p)

Next == Start \/ Clean \/ (\E s \in Sessions : Run(s)) \/ World

Spec == Init /\ [][Next]_vars

\* Every adb command of the cleanup ends: the context it runs under has a
\* deadline of ten seconds, and exec kills a command whose context is over.
FairSpec == Spec /\ WF_vars(ListDevices \/ CleanupDone \/ Clean)
-------------------------------------------------------------------------------
\* Every variable has its type; tunnels are on the list of the cleanup only
\* while it runs, and what is not of an earlier run was started in this one.
TypeOK ==
  /\ table \in [Ports -> Sessions \cup {Nothing, Other}]
  /\ device \in [Sessions -> Devices] /\ attached \subseteq Devices
  /\ phase \in {"down", "listing", "cleaning", "up"}
  /\ todo \subseteq Devices /\ stale \subseteq Ports /\ missed \in BOOLEAN
  /\ phase # "cleaning" => todo = {} /\ stale = {}
  /\ st \in [Sessions -> {"new", "found", "open", "linked", "gone"}]
  /\ port \in [Sessions -> Ports \cup {Nothing}]
  /\ \A s \in Sessions : st[s] \in {"found", "open", "linked"} => port[s] \in Ports /\ phase = "up"
  /\ reached \in [Sessions -> Sessions \cup {Nothing, Other}]
  /\ disturbed \in [Sessions -> BOOLEAN]
  /\ earlier \subseteq {s \in Sessions : st[s] = "gone"}

\* Once the program is up, no tunnel of an earlier run is left, wherever that
\* run or a cleanup before this one was killed, unless a command of this
\* cleanup failed (manager.go:216).
StaleGone == phase = "up" /\ ~missed => \A p \in Ports : table[p] \notin earlier

\* A session is connected to its own device, whatever other sessions and other
\* programs do with their ports, unless another session was given its port
\* while its own tunnel was not there (between the search for a port and the
\* adb command), or its device was unplugged before it was connected
\* (session.go:263-274).
LeadsHome == \A s \in Sessions : reached[s] \in {s, Nothing} \/ disturbed[s]

\* The cleanup does not keep the program from starting, whatever fails.
StartsUp == phase \in {"listing", "cleaning"} ~> phase \in {"up", "down"}
===============================================================================
