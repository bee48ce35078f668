------------------------------ MODULE Session ------------------------------
(***************************************************************************)
(* A device session of internal/device/session.go: the one call of Start   *)
(* that builds it, the calls of Stop that take it down again - by the      *)
(* manager at any moment, and by Start itself when it fails - and the      *)
(* control messages that are written meanwhile.  Only running and          *)
(* connecting are under s.mu; the connections, the listener, the process   *)
(* and cancelFn are plain fields that Start stores and Stop reads.  What   *)
(* has been acquired but is not stored yet, Stop does not see; a torn read *)
(* of a field while it is stored comes to the same.                        *)
(***************************************************************************)
EXTENDS Naturals, Sequences

CONSTANTS
  Stoppers,    (* Callers of Stop other than Start: Disconnect, StopAll.    *)
  MaxAttempts  (* Dials of the first connection in forward mode (100).      *)

ASSUME SessionAssumption ==
  /\ "start" \notin Stoppers
  /\ MaxAttempts \in Nat \ {0}

Threads == Stoppers \cup {"start"}

\* In the order in which Stop closes them.
Order == <<"video", "audio", "control", "listener", "process">>

Conns == {"video", "audio", "control"}
Resources == Conns \cup {"listener", "process"}
Modes == {"reverse", "forward"}

VARIABLES
  usb,         (* The serial names a USB device: it contains no colon.      *)
  pc,          (* Where Start is...                                         *)
  want,        (* ...the resource it is acquiring, or reading from...       *)
  attempts,    (* ...and how often it has dialled.                          *)
  outcome,     (* What Start returns: "none" as long as that is open.       *)
  connecting,
  running,
  ctx,         (* sessionCtx: "none" (cancelFn is nil), "live", "cancelled".*)
  socketName,  (* Whether s.socketName is set.                              *)
  forward,
  res,         (* res[r]: "none", "open" or "closed".                       *)
  held,        (* The resources that are stored in the session's fields.    *)
  tunnel,      (* tunnel[m]: "none", "set" as adb has reported, "ghost":    *)
               (* there though adb reported a failure, "stuck": adb could   *)
               (* not remove it, or "removed".                              *)
  at,          (* at[t]: where t's call of Stop is...                       *)
  next,        (* ...and the number in Order of what it closes next.        *)
  sender,      (* SendControlMsg: "idle", or "write" after the check.       *)
  after        (* History: the calls of Stop that began when Start was over.*)

flags == <<connecting, running>>
fields == <<socketName, forward, held>>
starting == <<pc, want, attempts, outcome>>
stopping == <<at, next, after>>
vars == <<usb, starting, flags, ctx, fields, res, tunnel, stopping, sender>>

IsRunning == running \/ connecting

Init ==
  /\ usb \in BOOLEAN
  /\ pc = "call" /\ want = "listener" /\ attempts = 0 /\ outcome = "none"
  /\ connecting = FALSE /\ running = FALSE
  /\ ctx = "none"
  /\ socketName = FALSE /\ forward = FALSE
  /\ res = [r \in Resources |-> "none"]
  /\ held = {}
  /\ tunnel = [m \in Modes |-> "none"]
  /\ at = [t \in Threads |-> "idle"]
  /\ next = [t \in Threads |-> 1]
  /\ sender = "idle"
  /\ after = {}

-----------------------------------------------------------------------------
(* Tunnels *)

InPlace(m) == tunnel[m] \in {"set", "ghost", "stuck"}

\* Variant for a mutant: what is removed goes by the kind of the device.
DoomedByDevice(m) == m = IF usb THEN "reverse" ELSE "forward"

\* The mapping that cleanupTunnel asks adb to remove.
Doomed(m) == m = IF forward THEN "forward" ELSE "reverse"

\* cleanupTunnel.  With a cancelled context the command is not even started;
\* otherwise adb may fail, and nobody looks.
CleanupTunnel(context) ==
  IF context # "live" \/ (~forward /\ ~socketName) THEN UNCHANGED tunnel
  ELSE \E result \in {"removed", "stuck"} :
         tunnel' = [m \in Modes |-> IF Doomed(m) /\ InPlace(m) THEN result
                                                               ELSE tunnel[m]]

-----------------------------------------------------------------------------
(* Start *)

\* A failure of the first half: the context is cancelled, an error returned.
Abort ==
  /\ pc' = "defer" /\ outcome' = "error"
  /\ ctx' = "cancelled"
  /\ UNCHANGED <<want, attempts>>

Goto(label) == pc' = label /\ UNCHANGED <<want, attempts, outcome>>

\* r is there; the next step stores it in its field.
Acquire(r) ==
  /\ res' = [res EXCEPT ![r] = "open"]
  /\ want' = r
  /\ pc' = "keep"
  /\ UNCHANGED <<attempts, outcome>>

EnterStart ==
  /\ pc = "call" /\ ~IsRunning
  /\ connecting' = TRUE
  /\ Goto("context")
  /\ UNCHANGED <<usb, running, ctx, fields, res, tunnel, stopping, sender>>

MakeContext ==
  /\ pc = "context"
  /\ ctx' = "live"
  /\ Goto("push")
  /\ UNCHANGED <<usb, flags, fields, res, tunnel, stopping, sender>>

\* adb push, like every adb command, fails once the context is cancelled.
Push ==
  /\ pc = "push"
  /\ \/ /\ ctx = "live"
        /\ socketName' = TRUE
        /\ Goto(IF usb THEN "listen" ELSE "forward")
        /\ UNCHANGED ctx
     \/ Abort /\ UNCHANGED socketName
  /\ UNCHANGED <<usb, flags, forward, held, res, tunnel, stopping, sender>>

\* setupReverseTunnel: a listener first...
Listen ==
  /\ pc = "listen"
  /\ \/ Goto("reverse") /\ res' = [res EXCEPT !["listener"] = "open"]
     \/ Goto("forward") /\ UNCHANGED res
  /\ UNCHANGED <<usb, flags, ctx, fields, tunnel, stopping, sender>>

\* ...then adb reverse, which is not started in a cancelled context, and killed
\* when the context is cancelled or 30 seconds are over (adb.go:220-228).
Reverse ==
  /\ pc = "reverse"
  /\ \/ /\ ctx = "live"
        /\ Goto("reversing")
        /\ UNCHANGED res
     \/ /\ ctx = "cancelled"
        /\ res' = [res EXCEPT !["listener"] = "closed"]
        /\ Goto("forward")
  /\ UNCHANGED <<usb, flags, ctx, fields, tunnel, stopping, sender>>

\* A command that failed or was killed may have done its work.  Start falls back
\* to forward mode either way.
EndReverse ==
  /\ pc = "reversing"
  /\ \/ /\ tunnel' = [tunnel EXCEPT !["reverse"] = "set"]
        /\ Acquire("listener")
     \/ /\ tunnel' \in {tunnel, [tunnel EXCEPT !["reverse"] = "ghost"]}
        /\ res' = [res EXCEPT !["listener"] = "closed"]
        /\ Goto("forward")
  /\ UNCHANGED <<usb, flags, ctx, fields, stopping, sender>>

\* setupForwardTunnel: adb forward, in the same way.
Forward ==
  /\ pc = "forward"
  /\ \/ ctx = "live" /\ Goto("forwarding") /\ UNCHANGED ctx
     \/ ctx = "cancelled" /\ Abort
  /\ UNCHANGED <<usb, flags, fields, res, tunnel, stopping, sender>>

EndForward ==
  /\ pc = "forwarding"
  /\ \/ /\ tunnel' = [tunnel EXCEPT !["forward"] = "set"]
        /\ Goto("mode")
        /\ UNCHANGED ctx
     \/ /\ tunnel' \in {tunnel, [tunnel EXCEPT !["forward"] = "ghost"]}
        /\ Abort
  /\ UNCHANGED <<usb, flags, fields, res, stopping, sender>>

SetMode ==
  /\ pc = "mode"
  /\ forward' = TRUE
  /\ Goto("serve")
  /\ UNCHANGED <<usb, flags, ctx, socketName, held, res, tunnel, stopping, sender>>

\* startServer: the local adb process that runs the server on the device.
Serve ==
  /\ pc = "serve"
  /\ \/ ctx = "live" /\ Acquire("process")
     \/ Goto("cleanup") /\ UNCHANGED res
  /\ UNCHANGED <<usb, flags, ctx, fields, tunnel, stopping, sender>>

\* Variant for a mutant: the tunnel is forgotten.
ServeFailedQuietly ==
  /\ pc = "cleanup"
  /\ Abort
  /\ UNCHANGED <<usb, flags, fields, res, tunnel, stopping, sender>>

\* The tunnel is removed in the context of the session, which may be cancelled.
ServeFailed ==
  /\ pc = "cleanup"
  /\ CleanupTunnel(ctx)
  /\ Abort
  /\ UNCHANGED <<usb, flags, fields, res, stopping, sender>>

\* acceptConnections: one connection, unless the listener is closed or the
\* deadline of 30 seconds passes.
Accept ==
  /\ pc = "connect" /\ ~forward
  /\ \/ res["listener"] = "open" /\ Acquire(want)
     \/ Goto("stop") /\ UNCHANGED res
  /\ UNCHANGED <<usb, flags, ctx, fields, tunnel, stopping, sender>>

\* Variant for a mutant: one attempt too many.
DialTooOften ==
  /\ pc = "connect" /\ forward
  /\ \/ InPlace("forward") /\ Acquire(want)
     \/ /\ want = "video" /\ attempts < MaxAttempts
        /\ attempts' = attempts + 1
        /\ UNCHANGED <<pc, want, outcome, res>>
     \/ /\ want = "video" => attempts = MaxAttempts
        /\ Goto("stop") /\ UNCHANGED res
  /\ UNCHANGED <<usb, flags, ctx, fields, tunnel, stopping, sender>>

\* connectForward: only the first connection is dialled again.
Dial ==
  /\ pc = "connect" /\ forward
  /\ \/ InPlace("forward") /\ Acquire(want)
     \/ /\ want = "video" /\ attempts + 1 < MaxAttempts
        /\ attempts' = attempts + 1
        /\ UNCHANGED <<pc, want, outcome, res>>
     \/ /\ want = "video" => attempts + 1 = MaxAttempts
        /\ Goto("stop") /\ UNCHANGED res
  /\ UNCHANGED <<usb, flags, ctx, fields, tunnel, stopping, sender>>

\* Where Start goes once it has stored a resource, and what it wants there.
After == [listener |-> "serve", process |-> "connect", video |-> "connect",
          audio |-> "connect", control |-> "header"]
Wanted == [listener |-> "listener", process |-> "video", video |-> "audio",
           audio |-> "control", control |-> "video"]

\* Variant for a mutant: the control connection is not stored.
KeepTwo ==
  /\ pc = "keep"
  /\ held' = held \cup ({want} \ {"control"})
  /\ pc' = After[want] /\ want' = Wanted[want]
  /\ UNCHANGED <<usb, attempts, outcome, flags, ctx, socketName, forward, res,
                 tunnel, stopping, sender>>

Keep ==
  /\ pc = "keep"
  /\ held' = held \cup {want}
  /\ pc' = After[want] /\ want' = Wanted[want]
  /\ UNCHANGED <<usb, attempts, outcome, flags, ctx, socketName, forward, res,
                 tunnel, stopping, sender>>

\* readDeviceInfo and readStreamInfo.  The reads have no deadline.
ReadHeader ==
  /\ pc = "header" /\ res[want] = "open"
  /\ pc' = IF want = "video" THEN "header" ELSE "ready"
  /\ want' = "audio"
  /\ UNCHANGED <<usb, attempts, outcome, flags, ctx, fields, res, tunnel,
                 stopping, sender>>

\* The connection is lost or closed, or the device names no video codec.
HeaderFails ==
  /\ pc = "header"
  /\ Goto("stop")
  /\ UNCHANGED <<usb, flags, ctx, fields, res, tunnel, stopping, sender>>

SetRunning ==
  /\ pc = "ready"
  /\ running' = TRUE
  /\ pc' = "defer" /\ outcome' = "ok"
  /\ UNCHANGED <<usb, want, attempts, connecting, ctx, fields, res, tunnel,
                 stopping, sender>>

ReturnStart ==
  /\ pc = "defer"
  /\ connecting' = FALSE
  /\ Goto("returned")
  /\ UNCHANGED <<usb, running, ctx, fields, res, tunnel, stopping, sender>>

-----------------------------------------------------------------------------
(* Stop *)

Move(t, label) == at' = [at EXCEPT ![t] = label]

BeginStop(t) ==
  /\ at[t] = "idle"
  /\ t = "start" => pc = "stop"
  /\ running' = FALSE
  /\ Move(t, "cancel")
  /\ after' = IF pc = "returned" THEN after \cup {t} ELSE after
  /\ UNCHANGED <<usb, starting, connecting, ctx, fields, res, tunnel, next,
                 sender>>

\* Variant for a mutant: the context is not cancelled.
CancelForgotten(t) ==
  /\ at[t] = "cancel"
  /\ Move(t, "close")
  /\ UNCHANGED <<usb, starting, flags, ctx, fields, res, tunnel, next, after,
                 sender>>

Cancel(t) ==
  /\ at[t] = "cancel"
  /\ ctx' = IF ctx = "none" THEN ctx ELSE "cancelled"
  /\ Move(t, "close")
  /\ UNCHANGED <<usb, starting, flags, fields, res, tunnel, next, after, sender>>

\* Close the next connection, the listener, or kill the process, if it is set.
CloseNext(t) ==
  LET r == Order[next[t]] IN
  /\ at[t] = "close"
  /\ res' = [res EXCEPT ![r] = IF r \in held THEN "closed" ELSE @]
  /\ next' = [next EXCEPT ![t] = @ + 1]
  /\ Move(t, IF next[t] = Len(Order) THEN "tunnel" ELSE "close")
  /\ UNCHANGED <<usb, starting, flags, ctx, fields, tunnel, after, sender>>

\* The tunnel is removed in a context of its own; Start, if it was Start that
\* called Stop, returns its error.
StopTunnel(t) ==
  /\ at[t] = "tunnel"
  /\ CleanupTunnel("live")
  /\ Move(t, "done")
  /\ IF t = "start" THEN /\ pc' = "defer" /\ outcome' = "error"
                         /\ UNCHANGED <<want, attempts>>
                    ELSE UNCHANGED starting
  /\ UNCHANGED <<usb, flags, ctx, fields, res, next, after, sender>>

-----------------------------------------------------------------------------
(* SendControlMsg, and the world outside *)

CheckRunning ==
  /\ sender = "idle" /\ running
  /\ sender' = "write"
  /\ UNCHANGED <<usb, starting, flags, ctx, fields, res, tunnel, stopping>>

WriteControl ==
  /\ sender = "write"
  /\ sender' = "idle"
  /\ UNCHANGED <<usb, starting, flags, ctx, fields, res, tunnel, stopping>>

\* exec.CommandContext kills the process of a cancelled context, and the
\* process may end by itself.
ServerDies ==
  /\ res["process"] = "open"
  /\ res' = [res EXCEPT !["process"] = "closed"]
  /\ UNCHANGED <<usb, starting, flags, ctx, fields, tunnel, stopping, sender>>

\* Start and every Stop have returned; nothing is left to do.
Terminated ==
  /\ pc = "returned" /\ sender = "idle" /\ ~running
  /\ \A t \in Stoppers : at[t] = "done"
  /\ UNCHANGED vars

StartStep ==
  \/ EnterStart \/ MakeContext \/ Push \/ Listen
  \/ Reverse \/ EndReverse \/ Forward \/ EndForward \/ SetMode
  \/ Serve \/ ServeFailed \/ Accept \/ Dial \/ Keep
  \/ ReadHeader \/ HeaderFails \/ SetRunning \/ ReturnStart

StopStep(t) == BeginStop(t) \/ Cancel(t) \/ CloseNext(t) \/ StopTunnel(t)

Next ==
  \/ StartStep
  \/ \E t \in Threads : StopStep(t)
  \/ CheckRunning \/ WriteControl
  \/ ServerDies
  \/ Terminated

Spec == Init /\ [][Next]_vars

(***************************************************************************)
(* Fairness: adb commands, Accept and Dial have timeouts, so that every    *)
(* step of Start and Stop ends, but for the reads of the headers: these    *)
(* wait until the device sends, the connection is closed, or the server    *)
(* process is gone, which hangs up (adb.go:74-75).  Nobody has to call     *)
(* Stop, but a call that has begun goes on.                                *)
(***************************************************************************)
Lost == res[want] = "closed" \/ res["process"] = "closed"

FairSpec ==
  /\ Spec
  /\ WF_vars(StartStep /\ (pc = "header" => Lost))
  /\ \A t \in Threads : WF_vars(StopStep(t) /\ (t = "start" \/ at[t] # "idle"))
  /\ WF_vars(ctx = "cancelled" /\ ServerDies)

-----------------------------------------------------------------------------
(* Safety *)

TypeOK ==
  /\ {usb, connecting, running, socketName, forward} \subseteq BOOLEAN
  /\ pc \in {"call", "context", "push", "listen", "reverse", "reversing",
             "forward", "forwarding", "mode", "serve", "cleanup", "connect",
             "keep", "header", "ready", "stop", "defer", "returned"}
  /\ want \in Resources
  /\ attempts \in 0..(MaxAttempts - 1)
  /\ outcome \in {"none", "ok", "error"}
  /\ ctx \in {"none", "live", "cancelled"}
  /\ res \in [Resources -> {"none", "open", "closed"}]
  /\ held \subseteq Resources
  /\ tunnel \in [Modes -> {"none", "set", "ghost", "stuck", "removed"}]
  /\ at \in [Threads -> {"idle", "cancel", "close", "tunnel", "done"}]
  /\ next \in [Threads -> 1..(Len(Order) + 1)]
  /\ sender \in {"idle", "write"}
  /\ after \subseteq Threads

\* A message is written to the control connection only when all three are
\* stored, whatever Stop and Start do between the check of running and the
\* write (session.go:482-499), and a stored connection is not nil.
ControlReady ==
  running \/ sender = "write"
    => Conns \subseteq held /\ \A r \in Conns : res[r] # "none"

\* A Stop that began before Start was over has cancelled Start's context.
Interrupted == \E t \in Stoppers \ after : at[t] \notin {"idle", "cancel"}

\* A Start that fails has released every connection, and the listener and the
\* process too unless it was the server that could not be started: then nobody
\* closes the listener, and if the server could not be started because a Stop
\* came in between, the tunnel is removed in a cancelled context, that is, not at
\* all (session.go:148-152).  Otherwise no tunnel stays that adb reported as set
\* up, but for one it could not remove; of a tunnel that is there in spite of a
\* reported failure Start knows nothing.
FailedStart ==
  pc = "returned" /\ outcome = "error" =>
    LET unserved == res["process"] = "none" IN
    /\ \A r \in Resources : res[r] = "open" => r = "listener" /\ unserved
    /\ \A m \in Modes : tunnel[m] = "set" => unserved /\ Interrupted

\* A Stop that begins when Start has returned finds every resource, whichever
\* way Start went, fell back or failed, and whatever another Stop has left: it
\* leaves none open, and of the tunnels only one that adb could not remove, or
\* one of the mode Start does not know it has: a reverse that took effect though
\* adb reported a failure, after the fall-back, or such a forward
\* (session.go:121-167 against 194-223 and 282-290).
CleanStop ==
  \A t \in after : at[t] = "done" =>
    /\ ~running
    /\ \A r \in Resources : res[r] # "open"
    /\ \A m \in Modes :
         InPlace(m) => tunnel[m] = "stuck" \/ (tunnel[m] = "ghost" /\ ~Doomed(m))

-----------------------------------------------------------------------------
(* Liveness *)

\* A Stop that finds the context makes Start return, wherever Start is: also
\* while it reads a header from a device that never sends one.
StopUnblocks ==
  \A t \in Stoppers : at[t] = "cancel" /\ ctx # "none" ~> pc = "returned"

-----------------------------------------------------------------------------
(* What the manager and the server see of it *)

Life == INSTANCE SessionLife WITH
  start <- IF pc = "call" THEN "new"
           ELSE IF outcome = "none" THEN "busy"
           ELSE IF outcome = "ok" THEN "ok" ELSE "failed",
  built <- Conns \subseteq held,
  closed <- ctx = "cancelled"

\* The flags and connections change only as SessionLife says: running is set
\* once, when the connections are stored, and taken back by a Stop alone; a
\* Start that fails has given up its connections before the session ceases to
\* look alive (session.go:88-228).
ImplementsLife == Life!Spec

-----------------------------------------------------------------------------
(* What a comment of session.go says, and the code does not do *)

\* "Stop tears down the session." (session.go:193): when Stop and Start have
\* both returned, the session does not run.
StopTearsDown ==
  pc = "returned" /\ (\E t \in Stoppers : at[t] = "done") => ~running

=============================================================================
