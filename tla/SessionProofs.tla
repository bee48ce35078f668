--------------------------- MODULE SessionProofs ---------------------------
(* Proofs about Session: for any callers of Stop and any number of dials.   *)
EXTENDS Session, TLAPS

-----------------------------------------------------------------------------
(* Types *)

LEMMA OrderLength == Len(Order) = 5
BY DEF Order

LEMMA OrderRange ==
  /\ \A i \in 1..5 : Order[i] \in Resources
  /\ \A r \in Resources : \E i \in 1..5 : Order[i] = r
<1>1. /\ Order[1] = "video" /\ Order[2] = "audio" /\ Order[3] = "control"
      /\ Order[4] = "listener" /\ Order[5] = "process"
  BY DEF Order
<1>2. QED
  BY <1>1 DEF Resources, Conns

\* A call of Stop that closes has something left to close.
Closing == \A t \in Threads : at[t] \in {"idle", "cancel", "close"} => next[t] <= 5

TypeInv == TypeOK /\ Closing

LEMMA TypeInit == Init => TypeInv
<1> SUFFICES ASSUME Init PROVE TypeInv
  OBVIOUS
<1>1. {usb, connecting, running, socketName, forward} \subseteq BOOLEAN
  BY DEF Init
<1>2. attempts \in 0..(MaxAttempts - 1)
  BY SessionAssumption DEF Init
<1>3. next \in [Threads -> 1..(Len(Order) + 1)] /\ Closing
  BY OrderLength DEF Init, Closing
<1>4. /\ res \in [Resources -> {"none", "open", "closed"}]
      /\ tunnel \in [Modes -> {"none", "set", "ghost", "stuck", "removed"}]
      /\ at \in [Threads -> {"idle", "cancel", "close", "tunnel", "done"}]
      /\ want \in Resources
  BY DEF Init, Resources
<1>5. QED
  BY <1>1, <1>2, <1>3, <1>4 DEF Init, TypeInv, TypeOK

LEMMA CleanupTypes ==
  ASSUME TypeOK, NEW context, CleanupTunnel(context)
  PROVE  tunnel' \in [Modes -> {"none", "set", "ghost", "stuck", "removed"}]
BY DEF TypeOK, CleanupTunnel

LEMMA StartTypes == ASSUME TypeInv, StartStep PROVE TypeInv'
<1> USE SessionAssumption, OrderLength
    DEF TypeInv, TypeOK, Closing, flags, fields, starting, stopping, Goto,
        Acquire, Abort
<1>1. CASE EnterStart
  BY <1>1 DEF EnterStart
<1>2. CASE MakeContext
  BY <1>2 DEF MakeContext
<1>3. CASE Push
  BY <1>3 DEF Push
<1>4. CASE Listen
  BY <1>4 DEF Listen, Resources
<1>5. CASE Reverse
  BY <1>5 DEF Reverse, Resources
<1>6. CASE EndReverse
  BY <1>6 DEF EndReverse, Resources, Modes
<1>7. CASE Forward
  BY <1>7 DEF Forward
<1>8. CASE EndForward
  BY <1>8 DEF EndForward, Modes
<1>9. CASE SetMode
  BY <1>9 DEF SetMode
<1>10. CASE Serve
  BY <1>10 DEF Serve, Resources
<1>11. CASE ServeFailed
  BY <1>11, CleanupTypes DEF ServeFailed
<1>12. CASE Accept
  BY <1>12 DEF Accept
<1>13. CASE Dial
  BY <1>13 DEF Dial
<1>14. CASE Keep
  BY <1>14 DEF Keep, After, Wanted, Resources, Conns
<1>15. CASE ReadHeader
  BY <1>15 DEF ReadHeader, Resources, Conns
<1>16. CASE HeaderFails
  BY <1>16 DEF HeaderFails
<1>17. CASE SetRunning
  BY <1>17 DEF SetRunning
<1>18. CASE ReturnStart
  BY <1>18 DEF ReturnStart
<1>19. QED
  BY <1>1, <1>2, <1>3, <1>4, <1>5, <1>6, <1>7, <1>8, <1>9, <1>10, <1>11,
     <1>12, <1>13, <1>14, <1>15, <1>16, <1>17, <1>18 DEF StartStep

LEMMA StopTypes ==
  ASSUME TypeInv, NEW t \in Threads, StopStep(t) PROVE TypeInv'
<1> USE OrderLength
    DEF TypeInv, TypeOK, Closing, flags, fields, starting, stopping, Move
<1>1. CASE BeginStop(t)
  BY <1>1 DEF BeginStop
<1>2. CASE Cancel(t)
  BY <1>2 DEF Cancel
<1>3. CASE CloseNext(t)
  <2>1. next[t] \in 1..5
    BY <1>3 DEF CloseNext
  <2>2. /\ next' = [next EXCEPT ![t] = @ + 1]
        /\ res' = [res EXCEPT ![Order[next[t]]] =
                     IF Order[next[t]] \in held THEN "closed" ELSE @]
        /\ at' = [at EXCEPT ![t] = IF next[t] = 5 THEN "tunnel" ELSE "close"]
    BY <1>3 DEF CloseNext
  <2>3. next' \in [Threads -> 1..6] /\ Closing'
    BY <2>1, <2>2
  <2>4. res' \in [Resources -> {"none", "open", "closed"}]
    BY <2>1, <2>2, OrderRange
  <2>5. at' \in [Threads -> {"idle", "cancel", "close", "tunnel", "done"}]
    BY <2>2
  <2>6. QED
    BY <1>3, <2>3, <2>4, <2>5 DEF CloseNext
<1>4. CASE StopTunnel(t)
  BY <1>4, CleanupTypes DEF StopTunnel
<1>5. QED
  BY <1>1, <1>2, <1>3, <1>4 DEF StopStep

LEMMA OtherTypes ==
  ASSUME TypeInv,
         CheckRunning \/ WriteControl \/ ServerDies \/ UNCHANGED vars
  PROVE  TypeInv'
BY DEF TypeInv, TypeOK, Closing, flags, fields, starting, stopping, vars,
       CheckRunning, WriteControl, ServerDies

\* Every variable keeps its type.
THEOREM SessionTyped == Spec => []TypeOK
<1>1. TypeInv /\ [Next]_vars => TypeInv'
  BY StartTypes, StopTypes, OtherTypes DEF Next, Terminated
<1>2. TypeInv => TypeOK
  BY DEF TypeInv
<1>3. QED
  BY <1>1, <1>2, TypeInit, PTL DEF Spec

-----------------------------------------------------------------------------
(* What Start has stored when it gets to a place *)

\* The connections come one after the other, and each is stored before the
\* next one is waited for.
Progress ==
  /\ pc \in {"header", "ready"} => Conns \subseteq held
  /\ pc \in {"connect", "keep"} /\ want = "audio" => "video" \in held
  /\ pc \in {"connect", "keep"} /\ want = "control"
       => {"video", "audio"} \subseteq held
  /\ running \/ sender = "write" => Conns \subseteq held

\* What is stored, or about to be, has been acquired.
Acquired ==
  /\ \A r \in held : res[r] # "none"
  /\ pc = "keep" => res[want] # "none"

ReadyInv == TypeInv /\ Progress /\ Acquired

LEMMA ReadyInit == Init => Progress /\ Acquired
BY DEF Init, Progress, Acquired

LEMMA ReadyStart ==
  ASSUME ReadyInv, StartStep PROVE Progress' /\ Acquired'
<1> USE DEF ReadyInv, TypeInv, TypeOK, Progress, Acquired, Goto, flags, fields,
            starting, stopping
<1>1. CASE EnterStart \/ MakeContext \/ SetMode \/ HeaderFails \/ ReturnStart
  BY <1>1 DEF EnterStart, MakeContext, SetMode, HeaderFails, ReturnStart
<1>2. CASE Push \/ Forward \/ EndForward \/ ServeFailed
  BY <1>2 DEF Push, Forward, EndForward, ServeFailed, Abort
<1>3. CASE Listen \/ Reverse \/ EndReverse
  BY <1>3 DEF Listen, Reverse, EndReverse, Acquire, Resources
<1>4. CASE Serve
  BY <1>4 DEF Serve, Acquire, Resources
<1>5. CASE Accept \/ Dial
  BY <1>5 DEF Accept, Dial, Acquire
<1>6. CASE Keep
  <2>1. /\ held' = held \cup {want} /\ UNCHANGED <<res, running, sender>>
        /\ pc' = After[want] /\ want' = Wanted[want] /\ pc = "keep"
    BY <1>6 DEF Keep
  <2>2. Acquired'
    BY <2>1 DEF After, Resources, Conns
  <2>3. Progress'
    BY <2>1 DEF After, Wanted, Resources, Conns
  <2>4. QED
    BY <2>2, <2>3
<1>7. CASE ReadHeader \/ SetRunning
  BY <1>7 DEF ReadHeader, SetRunning
<1>8. QED
  BY <1>1, <1>2, <1>3, <1>4, <1>5, <1>6, <1>7 DEF StartStep

LEMMA ReadyStop ==
  ASSUME ReadyInv, NEW t \in Threads, StopStep(t) PROVE Progress' /\ Acquired'
<1> USE DEF ReadyInv, TypeInv, TypeOK, Progress, Acquired, flags, fields,
            starting, stopping
<1>1. CASE BeginStop(t) \/ Cancel(t) \/ StopTunnel(t)
  BY <1>1 DEF BeginStop, Cancel, StopTunnel
<1>2. CASE CloseNext(t)
  BY <1>2 DEF CloseNext
<1>3. QED
  BY <1>1, <1>2 DEF StopStep

LEMMA ReadyOther ==
  ASSUME ReadyInv,
         CheckRunning \/ WriteControl \/ ServerDies \/ UNCHANGED vars
  PROVE  Progress' /\ Acquired'
BY DEF ReadyInv, TypeInv, TypeOK, Progress, Acquired, flags, fields, starting,
       stopping, vars, CheckRunning, WriteControl, ServerDies

\* Whatever Stop and Start do between its check and its write, SendControlMsg
\* writes to a connection that is there.
THEOREM ReadyTheorem == Spec => []ControlReady
<1>1. Init => ReadyInv
  BY TypeInit, ReadyInit DEF ReadyInv
<1>2. ReadyInv /\ [Next]_vars => ReadyInv'
  BY StartTypes, StopTypes, OtherTypes, ReadyStart, ReadyStop, ReadyOther
     DEF Next, Terminated, ReadyInv
<1>3. ReadyInv => ControlReady
  BY DEF ReadyInv, Progress, Acquired, ControlReady
<1>4. QED
  BY <1>1, <1>2, <1>3, PTL DEF Spec

-----------------------------------------------------------------------------
(* What a failed Start leaves behind *)

\* Before the server runs, Start has but a listener, and calls no Stop.
Preparing ==
  \/ pc \in {"call", "context", "push", "listen", "reverse", "reversing",
             "forward", "forwarding", "mode", "serve", "cleanup"}
  \/ pc = "keep" /\ want = "listener"

OnlyListener == \A r \in Resources \ {"listener"} : res[r] = "none"

\* An error is returned by a Start that has got no further, or by one that has
\* called Stop and come to its end.
Position ==
  /\ Preparing => OnlyListener /\ at["start"] = "idle"
  /\ pc = "connect" => want \in Conns
  /\ outcome # "none" <=> pc \in {"defer", "returned"}
  /\ at["start"] # "idle"
       => (pc \in {"defer", "returned"} /\ at["start"] = "done")
            \/ (pc = "stop" /\ at["start"] # "done")
  /\ outcome = "error"
       => at["start"] = "done" \/ (OnlyListener /\ at["start"] = "idle")

\* Whatever is open is in its field, where Stop finds it, or Start has it in
\* hand.
Owned ==
  \A r \in Resources :
    res[r] = "open" => \/ r \in held
                       \/ pc = "keep" /\ r = want
                       \/ pc \in {"reverse", "reversing"} /\ r = "listener"

\* What Start's own Stop has closed stays closed.
Shut ==
  /\ at["start"] \in {"idle", "cancel"} => next["start"] = 1
  /\ at["start"] = "close"
       => \A i \in 1..5 : i < next["start"] => res[Order[i]] # "open"
  /\ at["start"] \in {"tunnel", "done"} => \A r \in Resources : res[r] # "open"

\* The tunnel that is set up is the one cleanupTunnel would remove, unless Start
\* was interrupted before there was a server.
Mapped ==
  /\ pc \in {"listen", "reverse", "reversing", "forward", "forwarding", "mode"}
       => socketName
  /\ pc \in {"call", "context", "push", "listen", "reverse", "reversing",
             "forward", "forwarding", "mode"}
       => ~forward
  /\ pc \in {"call", "context", "push", "listen", "reverse", "reversing",
             "forward", "forwarding"}
       => \A m \in Modes : tunnel[m] # "set"
  /\ pc = "mode" => tunnel["reverse"] # "set"
  /\ \A m \in Modes : tunnel[m] # "none" => socketName
  /\ \A m \in Modes : tunnel[m] = "set" => Doomed(m) \/ pc = "mode"
  /\ outcome = "error"
       => \A m \in Modes :
            tunnel[m] = "set" => res["process"] = "none" /\ Interrupted

\* While Start is on its way, only a Stop of the manager that ran into it can
\* have cancelled its context.
Broken ==
  /\ after # {} => pc = "returned"
  /\ pc \notin {"call", "context"} => ctx # "none"
  /\ ctx = "cancelled" /\ outcome = "none" /\ at["start"] \in {"idle", "cancel"}
       => Interrupted

CleanInv == ReadyInv /\ Position /\ Owned /\ Shut /\ Mapped /\ Broken

LEMMA CleanInit == Init => Position /\ Owned /\ Shut /\ Mapped /\ Broken
<1> SUFFICES ASSUME Init PROVE Position /\ Owned /\ Shut /\ Mapped /\ Broken
  OBVIOUS
<1> USE DEF Init, Threads
<1>1. Position
  BY DEF Position, Preparing, OnlyListener
<1>2. Owned
  BY DEF Owned
<1>3. Shut
  BY DEF Shut
<1>4. Mapped
  BY DEF Mapped
<1>5. Broken
  BY DEF Broken
<1>6. QED
  BY <1>1, <1>2, <1>3, <1>4, <1>5

\* cleanupTunnel maps nothing; in a context that is not cancelled it leaves
\* nothing in place that is of the mode of the session and nothing set.
LEMMA CleanupMapped ==
  ASSUME CleanInv, NEW context, CleanupTunnel(context)
  PROVE  /\ \A m \in Modes :
              /\ tunnel'[m] \in {"set", "ghost"} => tunnel'[m] = tunnel[m]
              /\ tunnel'[m] # "none" => tunnel[m] # "none"
         /\ context = "live" /\ pc # "mode"
              => \A m \in Modes : /\ tunnel'[m] # "set"
                                  /\ tunnel'[m] = "ghost" => ~Doomed(m)
BY DEF CleanInv, ReadyInv, TypeInv, TypeOK, Mapped, CleanupTunnel, Doomed, InPlace

\* A Stop that has interrupted Start has done so for good.
LEMMA StaysInterrupted ==
  ASSUME TypeInv, [Next]_vars, Interrupted PROVE Interrupted'
<1>1. PICK t \in Stoppers \ after : at[t] \notin {"idle", "cancel"}
  BY DEF Interrupted
<1>2. at'[t] \notin {"idle", "cancel"}
  BY <1>1 DEF TypeInv, TypeOK, Threads, Next, StartStep, EnterStart, MakeContext,
     Push, Listen, Reverse, EndReverse, Forward, EndForward, SetMode, Serve,
     ServeFailed, Accept, Dial, Keep, ReadHeader, HeaderFails, SetRunning,
     ReturnStart, StopStep, BeginStop, Cancel, CloseNext, StopTunnel, Move,
     CheckRunning, WriteControl, ServerDies, Terminated, stopping, vars
<1>3. t \notin after'
  BY <1>1 DEF TypeInv, TypeOK, Threads, Next, StartStep, EnterStart, MakeContext,
     Push, Listen, Reverse, EndReverse, Forward, EndForward, SetMode, Serve,
     ServeFailed, Accept, Dial, Keep, ReadHeader, HeaderFails, SetRunning,
     ReturnStart, StopStep, BeginStop, Cancel, CloseNext, StopTunnel,
     CheckRunning, WriteControl, ServerDies, Terminated, stopping, vars
<1>4. QED
  BY <1>1, <1>2, <1>3 DEF Interrupted

LEMMA BrokenStep == ASSUME CleanInv, [Next]_vars PROVE Broken'
<1> USE DEF CleanInv, ReadyInv, TypeInv, TypeOK, Position, Preparing, Broken,
            Goto, Acquire, Abort, Move, flags, fields, starting, stopping, Threads
<1>1. Interrupted => Interrupted'
  BY StaysInterrupted
<1>2. CASE StartStep
  <2>1. CASE EnterStart \/ MakeContext \/ Push \/ Listen \/ Reverse \/ EndReverse
    BY <1>1, <2>1 DEF EnterStart, MakeContext, Push, Listen, Reverse, EndReverse
  <2>2. CASE Forward \/ EndForward \/ SetMode \/ Serve \/ ServeFailed
    BY <1>1, <2>2 DEF Forward, EndForward, SetMode, Serve, ServeFailed
  <2>3. CASE Accept \/ Dial
    BY <1>1, <2>3 DEF Accept, Dial
  <2>4. CASE Keep
    BY <1>1, <2>4 DEF Keep, After, Resources, Conns
  <2>5. CASE ReadHeader \/ HeaderFails \/ SetRunning \/ ReturnStart
    BY <1>1, <2>5 DEF ReadHeader, HeaderFails, SetRunning, ReturnStart
  <2>6. QED
    BY <1>2, <2>1, <2>2, <2>3, <2>4, <2>5 DEF StartStep
<1>3. ASSUME NEW t \in Threads, StopStep(t) PROVE Broken'
  <2>1. CASE BeginStop(t) \/ CloseNext(t) \/ StopTunnel(t)
    BY <1>1, <2>1 DEF BeginStop, CloseNext, StopTunnel
  <2>2. CASE Cancel(t)
    <3>1. /\ at[t] = "cancel" /\ at' = [at EXCEPT ![t] = "close"]
          /\ ctx' = IF ctx = "none" THEN ctx ELSE "cancelled"
          /\ UNCHANGED <<pc, outcome, after>>
      BY <2>2 DEF Cancel
    <3>2. outcome = "none" => after = {}
      BY DEF Position
    <3>3. outcome = "none" /\ t # "start" => Interrupted'
      BY <3>1, <3>2 DEF Interrupted
    <3>4. QED
      BY <1>1, <3>1, <3>3
  <2>3. QED
    BY <1>3, <2>1, <2>2 DEF StopStep
<1>4. CASE CheckRunning \/ WriteControl \/ ServerDies \/ UNCHANGED vars
  BY <1>1, <1>4 DEF CheckRunning, WriteControl, ServerDies, vars
<1>5. QED
  BY <1>2, <1>3, <1>4 DEF Next, Terminated

LEMMA CleanStart ==
  ASSUME CleanInv, StartStep PROVE Position' /\ Owned' /\ Shut' /\ Mapped'
<1> USE DEF CleanInv, ReadyInv, TypeInv, TypeOK, Position, Preparing, OnlyListener,
            Owned, Shut, Mapped, Doomed, Goto, flags, fields, starting,
            stopping, Threads
<1> /\ Interrupted => Interrupted'
    /\ res["process"] \in {"none", "open", "closed"}
  BY StaysInterrupted DEF Next, Resources
<1>1. CASE EnterStart \/ MakeContext
  BY <1>1 DEF EnterStart, MakeContext
<1>2. CASE Push
  BY <1>2 DEF Push, Abort
<1>3. CASE Listen
  BY <1>3, OrderRange DEF Listen
<1>4. CASE Reverse
  BY <1>4, OrderRange DEF Reverse, Resources
<1>5. CASE EndReverse
  BY <1>5, OrderRange DEF EndReverse, Acquire, Modes, Resources
<1>6. CASE Forward
  BY <1>6 DEF Forward, Abort
<1>7. CASE EndForward
  BY <1>7 DEF EndForward, Abort, Modes
<1>8. CASE SetMode
  BY <1>8 DEF SetMode, Modes
<1>9. CASE Serve
  BY <1>9 DEF Serve, Acquire, Resources
<1>10. CASE ServeFailed
  <2>1. /\ pc = "cleanup" /\ CleanupTunnel(ctx) /\ outcome = "none"
        /\ pc' = "defer" /\ outcome' = "error"
        /\ UNCHANGED <<forward, socketName, held, res, at, next, want>>
    BY <1>10 DEF ServeFailed, Abort
  <2>2. /\ \A m \in Modes : tunnel'[m] = "set" => tunnel[m] = "set"
        /\ \A m \in Modes : tunnel'[m] # "none" => tunnel[m] # "none"
        /\ ctx = "live" => \A m \in Modes : tunnel'[m] # "set"
    BY <2>1, CleanupMapped
  <2>3. ctx = "cancelled" => Interrupted'
    BY <2>1 DEF Broken
  <2>4. ctx \in {"live", "cancelled"} /\ res["process"] = "none"
    BY <2>1 DEF Broken, Resources
  <2>5. Mapped'
    BY <2>1, <2>2, <2>3, <2>4
  <2>6. Position' /\ Owned' /\ Shut'
    BY <2>1
  <2>7. QED
    BY <2>5, <2>6
<1>11. CASE Accept
  BY <1>11 DEF Accept, Acquire, Conns
<1>12. CASE Dial
  BY <1>12 DEF Dial, Acquire, Conns
<1>13. CASE Keep
  BY <1>13 DEF Keep, After, Wanted, Resources, Conns
<1>14. CASE ReadHeader
  BY <1>14 DEF ReadHeader
<1>15. CASE HeaderFails
  BY <1>15 DEF HeaderFails
<1>16. CASE SetRunning \/ ReturnStart
  BY <1>16 DEF SetRunning, ReturnStart
<1>17. QED
  BY <1>1, <1>2, <1>3, <1>4, <1>5, <1>6, <1>7, <1>8, <1>9, <1>10, <1>11,
     <1>12, <1>13, <1>14, <1>15, <1>16 DEF StartStep

LEMMA CleanStops ==
  ASSUME CleanInv, NEW t \in Threads, StopStep(t)
  PROVE  Position' /\ Owned' /\ Shut' /\ Mapped'
<1> USE DEF CleanInv, ReadyInv, TypeInv, TypeOK, Position, Preparing, OnlyListener,
            Owned, Shut, Mapped, Doomed, Move, flags, fields, starting,
            stopping, Threads
<1> Interrupted => Interrupted'
  BY StaysInterrupted DEF Next
<1>1. CASE BeginStop(t)
  BY <1>1 DEF BeginStop
<1>2. CASE Cancel(t)
  BY <1>2 DEF Cancel
<1>3. CASE CloseNext(t)
  <2>1. /\ at[t] = "close" /\ next[t] \in 1..5
        /\ next' = [next EXCEPT ![t] = @ + 1]
        /\ res' = [res EXCEPT ![Order[next[t]]] =
                     IF Order[next[t]] \in held THEN "closed" ELSE @]
        /\ at' = [at EXCEPT ![t] = IF next[t] = 5 THEN "tunnel" ELSE "close"]
        /\ UNCHANGED <<pc, want, outcome, socketName, forward, held, tunnel>>
    BY <1>3, OrderLength DEF CloseNext, Closing
  <2>2. Order[next[t]] \in Resources
    BY <2>1, OrderRange
  <2>3. \A r \in Resources : res'[r] = "open" => res[r] = "open"
    BY <2>1, <2>2
  <2>4. Position' /\ Owned' /\ Mapped'
    <3>1. Position'
      <4>1. at["start"] \in {"idle", "done"} => at'["start"] = at["start"]
        BY <2>1
      <4>2. t = "start" => pc = "stop" /\ outcome = "none"
        BY <2>1
      <4>3. at["start"] # "idle" /\ at["start"] # "done"
              => at'["start"] \notin {"idle", "done"}
        BY <2>1
      <4>4. ASSUME NEW r \in Resources, OnlyListener, t # "start", r # "listener"
            PROVE  res'[r] = "none"
        <5>1. res[r] = "none"
          BY <4>4
        <5>2. QED
          BY <2>1, <2>2, <5>1 DEF Acquired
      <4>5. QED
        BY <2>1, <4>1, <4>2, <4>3, <4>4
    <3>2. Owned'
      BY <2>1, <2>3
    <3>3. res["process"] = "none" => res'["process"] = "none"
      BY <2>1, <2>2 DEF Acquired, Resources
    <3>4. Mapped'
      BY <2>1, <3>3
    <3>5. QED
      BY <3>1, <3>2, <3>4
  <2>5. Shut'
    <3>1. CASE t # "start"
      BY <2>1, <2>3, <3>1, OrderRange
    <3>2. CASE t = "start"
      <4>1. pc = "stop"
        BY <2>1, <3>2
      <4>2. res'[Order[next[t]]] # "open"
        BY <2>1, <2>2, <4>1
      <4>3. ASSUME NEW i \in 1..5, i < next'["start"]
            PROVE  res'[Order[i]] # "open"
        <5>1. i < next["start"] \/ i = next["start"]
          BY <2>1, <3>2, <4>3
        <5>2. QED
          BY <2>1, <2>3, <3>2, <4>2, <5>1, OrderRange
      <4>4. ASSUME at'["start"] \in {"tunnel", "done"}, NEW r \in Resources
            PROVE  res'[r] # "open"
        <5>1. next'["start"] = 6
          BY <2>1, <3>2, <4>4
        <5>2. PICK i \in 1..5 : Order[i] = r
          BY OrderRange
        <5>3. QED
          BY <4>3, <5>1, <5>2
      <4>5. at'["start"] \in {"close", "tunnel"}
        BY <2>1, <3>2
      <4>6. QED
        BY <4>3, <4>4, <4>5
    <3>3. QED
      BY <3>1, <3>2
  <2>6. QED
    BY <2>4, <2>5
<1>4. CASE StopTunnel(t)
  <2>1. /\ at[t] = "tunnel" /\ CleanupTunnel("live")
        /\ at' = [at EXCEPT ![t] = "done"]
        /\ UNCHANGED <<want, socketName, forward, held, res, next>>
        /\ IF t = "start" THEN pc' = "defer" /\ outcome' = "error"
                          ELSE UNCHANGED <<pc, outcome>>
    BY <1>4 DEF StopTunnel
  <2>2. t = "start" => pc = "stop"
    BY <2>1
  <2>3. Position' /\ Owned' /\ Shut'
    BY <2>1, <2>2
  <2>4. Mapped'
    <3>1. \A m \in Modes : /\ tunnel'[m] = "set" => tunnel[m] = "set"
                           /\ tunnel'[m] # "none" => tunnel[m] # "none"
      BY <2>1, CleanupMapped
    <3>2. t = "start" => \A m \in Modes : tunnel'[m] # "set"
      BY <2>1, <2>2, CleanupMapped
    <3>3. QED
      BY <2>1, <2>2, <3>1, <3>2 DEF Modes
  <2>5. QED
    BY <2>3, <2>4
<1>5. QED
  BY <1>1, <1>2, <1>3, <1>4 DEF StopStep

LEMMA CleanOther ==
  ASSUME CleanInv,
         CheckRunning \/ WriteControl \/ ServerDies \/ UNCHANGED vars
  PROVE  Position' /\ Owned' /\ Shut' /\ Mapped'
<1> USE DEF CleanInv, ReadyInv, TypeInv, TypeOK, Position, Preparing, OnlyListener,
            Owned, Shut, Mapped, Doomed, flags, fields, starting, stopping
<1> Interrupted => Interrupted'
  BY StaysInterrupted DEF Next, Terminated
<1>1. CASE CheckRunning \/ WriteControl \/ UNCHANGED vars
  BY <1>1 DEF CheckRunning, WriteControl, vars
<1>2. CASE ServerDies
  BY <1>2, OrderRange DEF ServerDies, Resources
<1>3. QED
  BY <1>1, <1>2

LEMMA CleanStep == CleanInv /\ [Next]_vars => CleanInv'
<1> SUFFICES ASSUME CleanInv, [Next]_vars PROVE CleanInv'
  OBVIOUS
<1>1. ReadyInv'
  BY StartTypes, StopTypes, OtherTypes, ReadyStart, ReadyStop, ReadyOther
     DEF Next, Terminated, CleanInv, ReadyInv
<1>2. Position' /\ Owned' /\ Shut' /\ Mapped'
  BY CleanStart, CleanStops, CleanOther DEF Next, Terminated
<1>3. QED
  BY <1>1, <1>2, BrokenStep DEF CleanInv

\* A Start that fails, wherever and with a Stop of the manager at any moment
\* in between, leaves no connection and no process; a listener only if the server
\* could not be started; and a tunnel that adb reported as set up only if, besides,
\* a Stop had cancelled the context in which it would have been removed, or adb
\* could not remove it.
THEOREM FailedTheorem == Spec => []FailedStart
<1>1. Init => CleanInv
  BY TypeInit, ReadyInit, CleanInit DEF CleanInv, ReadyInv
<1>2. CleanInv /\ [Next]_vars => CleanInv'
  BY CleanStep
<1>3. CleanInv => FailedStart
  BY DEF CleanInv, Position, OnlyListener, Shut, Mapped, FailedStart, Resources
<1>4. QED
  BY <1>1, <1>2, <1>3, PTL DEF Spec

-----------------------------------------------------------------------------
(* What a Stop leaves behind that begins when Start is over *)

\* How far such a Stop has got: what it has passed is not open, and nothing is
\* acquired any more.
Passed(t) ==
  /\ at[t] # "idle"
  /\ at[t] = "close" => \A i \in 1..5 : i < next[t] => res[Order[i]] # "open"
  /\ at[t] \in {"tunnel", "done"} => \A r \in Resources : res[r] # "open"
  /\ at[t] = "done" => \A m \in Modes : /\ tunnel[m] # "set"
                                        /\ tunnel[m] = "ghost" => ~Doomed(m)

Over ==
  /\ \A t \in Threads : at[t] \in {"idle", "cancel"} => next[t] = 1
  /\ after # {} => pc = "returned" /\ ~running
  /\ \A t \in after : Passed(t)

StopInv == CleanInv /\ Over

\* Start is not affected, as there is no step of it left.
LEMMA OverStart == ASSUME StopInv, StartStep PROVE Over'
<1>1. pc # "returned" /\ UNCHANGED <<at, next, after>>
  BY DEF StartStep, EnterStart, MakeContext, Push, Listen, Reverse, EndReverse,
         Forward, EndForward, SetMode, Serve, ServeFailed, Accept, Dial, Keep, ReadHeader,
         HeaderFails, SetRunning, ReturnStart, stopping
<1>2. QED
  BY <1>1 DEF StopInv, Over

\* What is not open stays so, and no tunnel is mapped, by any step of any Stop.
LEMMA StopReleases ==
  ASSUME CleanInv, NEW u \in Threads, StopStep(u)
  PROVE  /\ \A r \in Resources : res'[r] = "open" => res[r] = "open"
         /\ \A m \in Modes :
              tunnel'[m] \in {"set", "ghost"} => tunnel'[m] = tunnel[m]
         /\ UNCHANGED forward
<1> USE DEF CleanInv, ReadyInv, TypeInv, TypeOK, fields, starting, stopping, flags
<1>1. CASE BeginStop(u) \/ Cancel(u)
  BY <1>1 DEF BeginStop, Cancel
<1>2. CASE CloseNext(u)
  BY <1>2 DEF CloseNext
<1>3. CASE StopTunnel(u)
  BY <1>3, CleanupMapped DEF StopTunnel
<1>4. QED
  BY <1>1, <1>2, <1>3 DEF StopStep

\* The Stop that makes the step passes one resource more.
LEMMA OverOwn ==
  ASSUME StopInv, NEW u \in Threads, StopStep(u), u \in after'
  PROVE  Passed(u)'
<1> USE DEF StopInv, CleanInv, ReadyInv, TypeInv, TypeOK, Over, Passed
<1>1. CASE BeginStop(u)
  BY <1>1 DEF BeginStop, Move
<1>2. CASE Cancel(u)
  BY <1>2 DEF Cancel, Move, stopping
<1>3. CASE CloseNext(u)
  <2>1. /\ at[u] = "close" /\ next[u] \in 1..5
        /\ next'[u] = next[u] + 1
        /\ res' = [res EXCEPT ![Order[next[u]]] =
                     IF Order[next[u]] \in held THEN "closed" ELSE @]
        /\ at'[u] = IF next[u] = 5 THEN "tunnel" ELSE "close"
        /\ UNCHANGED <<pc, after>>
    BY <1>3, OrderLength DEF CloseNext, Closing, Move, starting
  <2>2. pc = "returned" /\ Order[next[u]] \in Resources
    BY <2>1, OrderRange
  <2>3. res'[Order[next[u]]] # "open"
    BY <2>1, <2>2 DEF Owned
  <2>4. ASSUME NEW i \in 1..5, i < next'[u] PROVE res'[Order[i]] # "open"
    <3>1. i < next[u] \/ i = next[u]
      BY <2>1, <2>4
    <3>2. QED
      BY <1>3, <2>1, <2>3, <3>1, OrderRange, StopReleases DEF StopStep
  <2>5. ASSUME at'[u] = "tunnel", NEW r \in Resources PROVE res'[r] # "open"
    <3>1. next'[u] = 6
      BY <2>1, <2>5
    <3>2. PICK i \in 1..5 : Order[i] = r
      BY OrderRange
    <3>3. QED
      BY <2>4, <3>1, <3>2
  <2>6. QED
    BY <2>1, <2>4, <2>5
<1>4. CASE StopTunnel(u)
  <2>1. /\ at[u] = "tunnel" /\ CleanupTunnel("live") /\ at'[u] = "done"
        /\ UNCHANGED <<res, after>>
    BY <1>4 DEF StopTunnel, Move
  <2>2. pc = "returned"
    BY <2>1
  <2>3. \A m \in Modes : tunnel'[m] # "set" /\ (tunnel'[m] = "ghost" => ~Doomed(m)')
    <3>1. UNCHANGED forward
      BY <1>4 DEF StopTunnel, fields
    <3>2. QED
      BY <2>1, <2>2, <3>1, CleanupMapped DEF Doomed
  <2>4. QED
    BY <2>1, <2>3
<1>5. QED
  BY <1>1, <1>2, <1>3, <1>4 DEF StopStep

LEMMA OverStop ==
  ASSUME StopInv, NEW u \in Threads, StopStep(u) PROVE Over'
<1> USE DEF StopInv, CleanInv, ReadyInv, TypeInv, TypeOK
<1>1. \A t \in Threads : t # u => UNCHANGED <<at[t], next[t]>>
  BY DEF StopStep, BeginStop, Cancel, CloseNext, StopTunnel, Move, stopping
<1>2. at'[u] \in {"idle", "cancel"} => next'[u] = 1
  BY DEF Over, StopStep, BeginStop, Cancel, CloseNext, StopTunnel, Move, stopping
<1>3. after' # {} => pc' = "returned" /\ ~running'
  <2>1. CASE BeginStop(u)
    BY <2>1 DEF BeginStop, Over, starting
  <2>2. CASE Cancel(u) \/ CloseNext(u)
    BY <2>2 DEF Cancel, CloseNext, Over, starting, stopping, flags
  <2>3. CASE StopTunnel(u)
    BY <2>3 DEF StopTunnel, Over, starting, flags, Position, Preparing
  <2>4. QED
    BY <2>1, <2>2, <2>3 DEF StopStep
<1>4. ASSUME NEW t \in after', t # u PROVE Passed(t)'
  <2>1. t \in after /\ t \in Threads
    BY <1>4 DEF StopStep, BeginStop, Cancel, CloseNext, StopTunnel, stopping
  <2>2. Passed(t)
    BY <2>1 DEF Over
  <2>3. QED
    BY <1>1, <1>4, <2>1, <2>2, StopReleases, OrderRange DEF Passed, Doomed
<1>5. u \in after' => Passed(u)'
  BY OverOwn
<1>6. QED
  BY <1>1, <1>2, <1>3, <1>4, <1>5 DEF Over

LEMMA OverOther ==
  ASSUME StopInv,
         CheckRunning \/ WriteControl \/ ServerDies \/ UNCHANGED vars
  PROVE  Over'
<1> USE DEF StopInv, CleanInv, ReadyInv, TypeInv, TypeOK, Over, Passed, flags,
            fields, starting, stopping, Doomed
<1>1. CASE CheckRunning \/ WriteControl \/ UNCHANGED vars
  BY <1>1 DEF CheckRunning, WriteControl, vars
<1>2. CASE ServerDies
  BY <1>2, OrderRange DEF ServerDies, Resources
<1>3. QED
  BY <1>1, <1>2

\* A Stop that begins when Start is over, however it went and whatever other
\* Stops are under way, leaves no connection, no listener and no process, a session
\* that does not run, and of the tunnels only one that adb could not remove or that
\* is of the other mode: adb had reported that it could not set it up.
THEOREM StopTheorem == Spec => []CleanStop
<1>1. Init => StopInv
  BY TypeInit, ReadyInit, CleanInit
     DEF Init, StopInv, CleanInv, ReadyInv, Over, Threads
<1>2. StopInv /\ [Next]_vars => StopInv'
  BY CleanStep, OverStart, OverStop, OverOther DEF Next, Terminated, StopInv
<1>3. StopInv => CleanStop
  <2> SUFFICES ASSUME StopInv, NEW t \in after, at[t] = "done"
               PROVE  /\ ~running
                      /\ \A r \in Resources : res[r] # "open"
                      /\ \A m \in Modes :
                           InPlace(m) => \/ tunnel[m] = "stuck"
                                         \/ tunnel[m] = "ghost" /\ ~Doomed(m)
    BY DEF CleanStop
  <2>1. Passed(t) /\ ~running
    BY DEF StopInv, Over
  <2>2. QED
    BY <2>1 DEF Passed, InPlace
<1>4. QED
  BY <1>1, <1>2, <1>3, PTL DEF Spec

-----------------------------------------------------------------------------
(* The session implements SessionLife *)

\* The context is there from the first step of Start on, the flag connecting
\* from the first to the last, and Start's own Stop cancels before it closes.
Begun ==
  /\ pc = "call" => ~connecting /\ ~running /\ held = {}
  /\ ctx = "none" <=> pc \in {"call", "context"}
  /\ connecting <=> pc \notin {"call", "returned"}
  /\ at["start"] \in {"close", "tunnel"} => ctx = "cancelled"

LifeInv == CleanInv /\ Begun

LEMMA BegunStep ==
  ASSUME LifeInv, [Next]_vars PROVE Begun'
<1> USE DEF LifeInv, CleanInv, ReadyInv, TypeInv, TypeOK, Position, Preparing,
            Begun, IsRunning, Goto, Acquire, Abort, Move, flags, fields,
            starting, stopping, Threads
<1>1. CASE StartStep
  <2>1. CASE EnterStart \/ MakeContext \/ Push \/ Listen \/ Reverse \/ EndReverse
             \/ Forward \/ EndForward
    BY <2>1 DEF EnterStart, MakeContext, Push, Listen, Reverse, EndReverse,
                Forward, EndForward
  <2>2. CASE SetMode \/ Serve \/ ServeFailed \/ Accept \/ Dial
    BY <2>2 DEF SetMode, Serve, ServeFailed, Accept, Dial
  <2>3. CASE Keep
    BY <2>3 DEF Keep, After, Resources, Conns
  <2>4. CASE ReadHeader \/ HeaderFails \/ SetRunning \/ ReturnStart
    BY <2>4 DEF ReadHeader, HeaderFails, SetRunning, ReturnStart
  <2>5. QED
    BY <1>1, <2>1, <2>2, <2>3, <2>4 DEF StartStep
<1>2. ASSUME NEW t \in Threads, StopStep(t) PROVE Begun'
  BY <1>2 DEF StopStep, BeginStop, Cancel, CloseNext, StopTunnel
<1>3. CASE CheckRunning \/ WriteControl \/ ServerDies \/ UNCHANGED vars
  BY <1>3 DEF CheckRunning, WriteControl, ServerDies, vars
<1>4. QED
  BY <1>1, <1>2, <1>3 DEF Next, Terminated

\* The abstract session of a state, and what the steps of Start do to it.
LEMMA LifeOfStart ==
  ASSUME LifeInv, StartStep PROVE [Life!Next]_(Life!life)
<1> USE DEF LifeInv, CleanInv, ReadyInv, TypeInv, TypeOK, Position, Preparing,
            Begun, Goto, Acquire, Abort, flags, fields, starting, stopping,
            Life!life
<1>1. CASE EnterStart
  BY <1>1 DEF EnterStart, Life!Next, Life!Enter
<1>2. CASE MakeContext
  BY <1>2 DEF MakeContext
<1>3. CASE Push \/ Forward \/ EndForward \/ ServeFailed
  <2>1. CASE outcome' = "none"
    BY <1>3, <2>1 DEF Push, Forward, EndForward, ServeFailed
  <2>2. CASE outcome' # "none"
    BY <1>3, <2>2 DEF Push, Forward, EndForward, ServeFailed,
                   Life!Next, Life!Fail
  <2>3. QED
    BY <2>1, <2>2
<1>4. CASE Listen \/ Reverse \/ EndReverse \/ SetMode \/ Serve
  BY <1>4 DEF Listen, Reverse, EndReverse, SetMode, Serve
<1>5. CASE Accept \/ Dial \/ ReadHeader \/ HeaderFails
  BY <1>5 DEF Accept, Dial, ReadHeader, HeaderFails
<1>6. CASE Keep
  <2>1. CASE Conns \subseteq held'
    BY <1>6, <2>1 DEF Keep, After, Resources, Conns, Life!Next, Life!Build
  <2>2. CASE ~(Conns \subseteq held')
    BY <1>6, <2>2 DEF Keep, After, Resources, Conns
  <2>3. QED
    BY <2>1, <2>2
<1>7. CASE SetRunning
  BY <1>7 DEF SetRunning, Progress, Life!Next, Life!Succeed
<1>8. CASE ReturnStart
  BY <1>8 DEF ReturnStart, Life!Next, Life!Leave
<1>9. QED
  BY <1>1, <1>2, <1>3, <1>4, <1>5, <1>6, <1>7, <1>8 DEF StartStep

\* A session that has begun to run again by the time Stop cancels its context
\* loses its connections as if the device had hung up.
LEMMA LifeOfStop ==
  ASSUME LifeInv, NEW t \in Threads, StopStep(t)
  PROVE  [Life!Next]_(Life!life)
<1> USE DEF LifeInv, CleanInv, ReadyInv, TypeInv, TypeOK, Position, Preparing,
            Begun, Move, flags, fields, starting, stopping, Life!life
<1>1. CASE BeginStop(t)
  BY <1>1 DEF BeginStop, Life!Next, Life!Stop
<1>2. CASE Cancel(t)
  <2>1. CASE running
    BY <1>2, <2>1 DEF Cancel, Progress, Life!Next, Life!Lose
  <2>2. CASE ~running
    BY <1>2, <2>2 DEF Cancel, Life!Next, Life!Stop
  <2>3. QED
    BY <2>1, <2>2
<1>3. CASE CloseNext(t)
  BY <1>3 DEF CloseNext
<1>4. CASE StopTunnel(t)
  <2>1. CASE t = "start"
    BY <1>4, <2>1 DEF StopTunnel, Threads, Life!Next, Life!Fail
  <2>2. CASE t # "start"
    BY <1>4, <2>2 DEF StopTunnel
  <2>3. QED
    BY <2>1, <2>2
<1>5. QED
  BY <1>1, <1>2, <1>3, <1>4 DEF StopStep

\* Each step of Start and of the Stops that run into it is a step of the
\* abstract session or none.
THEOREM LifeTheorem == Spec => ImplementsLife
<1>1. Init => LifeInv
  BY TypeInit, ReadyInit, CleanInit
     DEF Init, LifeInv, CleanInv, ReadyInv, Begun, Threads
<1>2. LifeInv /\ [Next]_vars => LifeInv'
  BY BegunStep, CleanStep DEF LifeInv
<1>3. Init => Life!Init
  BY DEF Init, Life!Init, Conns
<1>4. LifeInv /\ [Next]_vars => [Life!Next]_(Life!life)
  <2> SUFFICES ASSUME LifeInv, [Next]_vars PROVE [Life!Next]_(Life!life)
    OBVIOUS
  <2>1. CASE CheckRunning \/ WriteControl \/ ServerDies \/ UNCHANGED vars
    BY <2>1 DEF CheckRunning, WriteControl, ServerDies, vars, flags, fields,
                starting, stopping, Life!life
  <2>2. QED
    BY <2>1, LifeOfStart, LifeOfStop DEF Next, Terminated
<1>5. QED
  BY <1>1, <1>2, <1>3, <1>4, PTL DEF Spec, ImplementsLife, Life!Spec

=============================================================================
