---------------------------- MODULE SessionLife ----------------------------
(***************************************************************************)
(* What a device session promises to the manager and the server, who see   *)
(* no more of it than two flags and three connections: how Start and Stop  *)
(* of internal/device/session.go may change these.  Module Session, which  *)
(* has the steps of Start and Stop, implements it; module Lifecycle, which *)
(* has many sessions, relies on it.                                        *)
(***************************************************************************)

VARIABLES
  start,       (* Start: "new", "busy", and what it has come to: "ok" or    *)
               (* "failed".                                                 *)
  connecting,
  running,
  built,       (* The three connections are stored.                         *)
  closed       (* They are lost, or whatever waits for them gives up.       *)

life == <<start, connecting, running, built, closed>>

Init ==
  /\ start = "new"
  /\ connecting = FALSE /\ running = FALSE
  /\ built = FALSE /\ closed = FALSE

Enter ==
  /\ start = "new"
  /\ start' = "busy" /\ connecting' = TRUE
  /\ UNCHANGED <<running, built, closed>>

Build ==
  /\ start = "busy"
  /\ built' = TRUE
  /\ UNCHANGED <<start, connecting, running, closed>>

Succeed ==
  /\ start = "busy" /\ built
  /\ start' = "ok" /\ running' = TRUE
  /\ UNCHANGED <<connecting, built, closed>>

\* The connections are given up before the session ceases to look alive.
Fail ==
  /\ start = "busy" /\ connecting
  /\ start' = "failed" /\ closed' = TRUE
  /\ connecting' \in BOOLEAN
  /\ UNCHANGED <<running, built>>

Leave ==
  /\ start \in {"ok", "failed"}
  /\ connecting' = FALSE
  /\ UNCHANGED <<start, running, built, closed>>

\* A Stop may come before there is anything to close; it does not keep Start
\* from going on.
Stop ==
  /\ start # "new"
  /\ running' = FALSE
  /\ UNCHANGED closed \/ closed' = TRUE
  /\ UNCHANGED <<start, connecting, built>>

\* The device hangs up.
Lose ==
  /\ built
  /\ closed' = TRUE
  /\ UNCHANGED <<start, connecting, running, built>>

Next == Enter \/ Build \/ Succeed \/ Fail \/ Leave \/ Stop \/ Lose

Spec == Init /\ [][Next]_life

=============================================================================
