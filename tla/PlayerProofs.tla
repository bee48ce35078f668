---------------------------- MODULE PlayerProofs ----------------------------
(* Proofs about PlayerSocket and Player: for any sockets and any changes of  *)
(* settings.                                                                 *)
EXTENDS Player, FiniteSetTheorems, SequenceTheorems, TLAPS

-----------------------------------------------------------------------------
(* The socket *)

\* Connect takes a name that is free.
LEMMA ConnectTakesFree ==
  ASSUME Connect
  PROVE  \E k \in Sockets : /\ socket[k] = "closed" /\ ws' = k
                            /\ socket' = [socket EXCEPT ![k] = "connecting"]
BY DEF Connect, Free

LEMMA TypeInit == Init => TypeOK /\ NeverStranded
<1>1. Init => NeverStranded
  BY DEF Init, NeverStranded
<1>2. Init => connected = FALSE /\ connected \in BOOLEAN /\ disabled \in BOOLEAN
  BY DEF Init
<1>3. Init => {retries, enables} \subseteq Nat
  BY DEF Init
<1>4. QED
  BY <1>1, <1>2, <1>3 DEF Init, TypeOK

LEMMA TypeStep == TypeOK /\ [Next]_vars => TypeOK'
<1> SUFFICES ASSUME TypeOK, [Next]_vars PROVE TypeOK'
  OBVIOUS
<1> USE DEF TypeOK, page, timers
<1>1. ASSUME NEW k \in Sockets, Opened(k) PROVE TypeOK'
  BY <1>1 DEF Opened
<1>2. ASSUME NEW k \in Sockets, Closed(k) PROVE TypeOK'
  <2>1. socket' \in [Sockets -> {"closed", "connecting", "open", "closing"}]
    BY <1>2 DEF Closed
  <2>2. connected' = FALSE /\ connected' \in BOOLEAN
    BY <1>2 DEF Closed
  <2>3. {retries', enables'} \subseteq Nat
    BY <1>2 DEF Closed
  <2>4. QED
    BY <1>2, <2>1, <2>2, <2>3 DEF Closed
<1>3. CASE Retry
  BY <1>3, ConnectTakesFree DEF Retry
<1>4. CASE Enable
  BY <1>4, ConnectTakesFree DEF Enable
<1>5. ASSUME NEW r \in Changes, Apply(r) \/ Adapt(r) PROVE TypeOK'
  <2>1. socket' \in [Sockets -> {"closed", "connecting", "open", "closing"}]
    BY <1>5 DEF Apply, Adapt, Begin, Disconnect
  <2>2. connected => \E k \in Sockets : socket'[k] \in {"open", "closing"}
    BY <1>5 DEF Apply, Adapt, Begin, Disconnect
  <2>3. change' \in [Changes -> {"idle", "stopping", "starting", "done"}]
    BY <1>5 DEF Apply, Adapt, Begin, Disconnect
  <2>4. automatic' \in Changes \cup {None}
    BY <1>5 DEF Apply, Adapt, Begin, Disconnect
  <2>5. shouldReconnect' \in BOOLEAN /\ disabled' \in BOOLEAN
    BY <1>5 DEF Apply, Adapt, Begin, Disconnect
  <2>6. QED
    BY <1>5, <2>1, <2>2, <2>3, <2>4, <2>5 DEF Apply, Adapt, Begin, Disconnect
<1>6. ASSUME NEW r \in Changes, Stopped(r) PROVE TypeOK'
  BY <1>6 DEF Stopped
<1>7. ASSUME NEW r \in Changes, Reconnect(r) PROVE TypeOK'
  <2>1. socket' \in [Sockets -> {"closed", "connecting", "open", "closing"}]
    BY <1>7 DEF Reconnect, Disconnect
  <2>2. connected => \E k \in Sockets : socket'[k] \in {"open", "closing"}
    BY <1>7 DEF Reconnect, Disconnect
  <2>3. {retries', enables'} \subseteq Nat
    BY <1>7 DEF Reconnect
  <2>4. shouldReconnect' \in BOOLEAN /\ disabled' \in BOOLEAN
    BY <1>7 DEF Reconnect, Disconnect, Finish
  <2>5. QED
    BY <1>7, <2>1, <2>2, <2>3, <2>4 DEF Reconnect, Finish
<1>8. ASSUME NEW r \in Changes, Fails(r) PROVE TypeOK'
  <2>1. {retries', enables'} \subseteq Nat
    BY <1>8 DEF Fails
  <2>2. disabled' = FALSE /\ disabled' \in BOOLEAN
    BY <1>8 DEF Fails, Finish
  <2>3. QED
    BY <1>8, <2>1, <2>2 DEF Fails, Finish
<1>9. CASE UNCHANGED vars
  BY <1>9 DEF vars
<1>10. QED
  BY <1>1, <1>2, <1>3, <1>4, <1>5, <1>6, <1>7, <1>8, <1>9 DEF Next, ChangeStep

LEMMA StrandedStep == TypeOK /\ NeverStranded /\ [Next]_vars => NeverStranded'
<1> SUFFICES ASSUME TypeOK, NeverStranded, [Next]_vars PROVE NeverStranded'
  OBVIOUS
<1> USE DEF TypeOK, NeverStranded, Live, Changing, page, timers
<1>1. ASSUME NEW k \in Sockets, Opened(k) PROVE NeverStranded'
  BY <1>1 DEF Opened
<1>2. ASSUME NEW k \in Sockets, Closed(k) PROVE NeverStranded'
  BY <1>2 DEF Closed
<1>3. CASE Retry
  BY <1>3, ConnectTakesFree DEF Retry
<1>4. CASE Enable
  BY <1>4, ConnectTakesFree DEF Enable
<1>5. ASSUME NEW r \in Changes, Apply(r) \/ Adapt(r) PROVE NeverStranded'
  BY <1>5 DEF Apply, Adapt, Begin
<1>6. ASSUME NEW r \in Changes, Stopped(r) PROVE NeverStranded'
  <2>1. change'[r] = "starting" /\ shouldReconnect' = shouldReconnect
    BY <1>6 DEF Stopped
  <2>2. QED
    BY <1>6, <2>1 DEF Stopped
<1>7. ASSUME NEW r \in Changes, Reconnect(r) \/ Fails(r) PROVE NeverStranded'
  BY <1>7 DEF Reconnect, Fails
<1>8. CASE UNCHANGED vars
  BY <1>8 DEF vars
<1>9. QED
  BY <1>1, <1>2, <1>3, <1>4, <1>5, <1>6, <1>7, <1>8 DEF Next, ChangeStep

\* Types.
THEOREM SocketTyped == Spec => []TypeOK
BY TypeInit, TypeStep, PTL DEF Spec

\* The page always has a connection or something that will make one.
THEOREM StrandedTheorem == Spec => []NeverStranded
<1>1. TypeOK /\ NeverStranded /\ [Next]_vars => TypeOK' /\ NeverStranded'
  BY TypeStep, StrandedStep
<1>2. QED
  BY <1>1, TypeInit, PTL DEF Spec

-----------------------------------------------------------------------------
(* The number of sockets *)

LEMMA LiveFinite ==
  /\ IsFiniteSet(Live) /\ Cardinality(Live) \in Nat
  /\ IsFiniteSet(Made) /\ Cardinality(Made) \in Nat
<1>1. Live \subseteq Sockets /\ Made \subseteq Changes
  BY DEF Live, Made
<1>2. QED
  BY <1>1, PlayerAssumption, FS_Subset, FS_CardinalityType

\* One more socket, or one less.
LEMMA LiveGrows ==
  ASSUME TypeOK, Connect PROVE Cardinality(Live') = Cardinality(Live) + 1
<1>1. PICK k \in Sockets : /\ socket[k] = "closed"
                           /\ socket' = [socket EXCEPT ![k] = "connecting"]
  BY ConnectTakesFree
<1>2. Live' = Live \cup {k} /\ k \notin Live
  BY <1>1 DEF Live, TypeOK
<1>3. QED
  BY <1>2, LiveFinite, FS_AddElement

LEMMA LiveShrinks ==
  ASSUME TypeOK, NEW k \in Sockets, Closed(k)
  PROVE  Cardinality(Live') = Cardinality(Live) - 1
<1>1. Live' = Live \ {k} /\ k \in Live
  BY DEF Live, TypeOK, Closed
<1>2. QED
  BY <1>1, LiveFinite, FS_RemoveElement

\* A change that ends counts as made from then on.
LEMMA MadeGrows ==
  ASSUME TypeOK, NEW r \in Changes, change[r] # "done", Finish(r)
  PROVE  Cardinality(Made') = Cardinality(Made) + 1
<1>1. Made' = Made \cup {r} /\ r \notin Made
  BY DEF Made, Finish, TypeOK
<1>2. QED
  BY <1>1, LiveFinite, FS_AddElement

LEMMA BoundedInit == Init => SocketsBounded
<1> SUFFICES ASSUME Init PROVE SocketsBounded
  OBVIOUS
<1>1. Live = {} /\ Made = {} /\ retries = 1 /\ enables = 0
  BY DEF Init, Live, Made
<1>2. Cardinality(Live) = 0 /\ Cardinality(Made) = 0
  BY <1>1, FS_EmptySet
<1>3. QED
  BY <1>1, <1>2 DEF SocketsBounded

LEMMA BoundedStep == TypeOK /\ SocketsBounded /\ [Next]_vars => SocketsBounded'
<1> SUFFICES ASSUME TypeOK, SocketsBounded, [Next]_vars PROVE SocketsBounded'
  OBVIOUS
<1>0. /\ Cardinality(Live) \in Nat /\ Cardinality(Made) \in Nat
      /\ retries \in Nat /\ enables \in Nat
      /\ Cardinality(Live) + retries + enables <= 1 + Cardinality(Made)
  BY LiveFinite DEF TypeOK, SocketsBounded
<1>1. ASSUME Live' = Live, Made' = Made, UNCHANGED timers PROVE SocketsBounded'
  BY <1>1 DEF SocketsBounded, timers
<1>2. ASSUME NEW k \in Sockets, Opened(k) PROVE SocketsBounded'
  <2>1. Live' = Live /\ Made' = Made
    BY <1>2 DEF Opened, Live, Made, TypeOK, page
  <2>2. QED
    BY <1>1, <1>2, <2>1 DEF Opened
<1>3. ASSUME NEW k \in Sockets, Closed(k) PROVE SocketsBounded'
  <2>1. Cardinality(Live') = Cardinality(Live) - 1 /\ Made' = Made
    BY <1>3, LiveShrinks DEF Closed, Made, page
  <2>2. enables' = enables /\ retries' \in {retries, retries + 1}
    BY <1>3 DEF Closed
  <2>3. QED
    BY <1>0, <2>1, <2>2 DEF SocketsBounded
<1>4. CASE Retry \/ Enable
  <2>1. Cardinality(Live') = Cardinality(Live) + 1 /\ Made' = Made
    BY <1>4, LiveGrows DEF Retry, Enable, Made, page
  <2>2. \/ retries' = retries - 1 /\ enables' = enables
        \/ retries' = retries /\ enables' = enables - 1
    BY <1>4 DEF Retry, Enable
  <2>3. QED
    BY <1>0, <2>1, <2>2 DEF SocketsBounded
<1>5. ASSUME NEW r \in Changes, Apply(r) \/ Adapt(r) \/ Stopped(r)
      PROVE  SocketsBounded'
  <2>1. Live' = Live
    BY <1>5 DEF Apply, Adapt, Begin, Disconnect, Stopped, Live, TypeOK
  <2>2. Made' = Made
    BY <1>5 DEF Apply, Adapt, Begin, Stopped, Made, TypeOK
  <2>3. QED
    BY <1>1, <1>5, <2>1, <2>2 DEF Apply, Adapt, Begin, Stopped
<1>6. ASSUME NEW r \in Changes, Reconnect(r) \/ Fails(r) PROVE SocketsBounded'
  <2>1. Live' = Live
    BY <1>6 DEF Reconnect, Fails, Disconnect, Live, TypeOK
  <2>2. Cardinality(Made') = Cardinality(Made) + 1
    BY <1>6, MadeGrows DEF Reconnect, Fails
  <2>3. retries' = retries /\ enables' = enables + 1
    BY <1>6 DEF Reconnect, Fails
  <2>4. QED
    BY <1>0, <2>1, <2>2, <2>3 DEF SocketsBounded
<1>7. CASE UNCHANGED vars
  <2>1. Live' = Live /\ Made' = Made
    BY <1>7 DEF vars, page, Live, Made
  <2>2. QED
    BY <1>1, <1>7, <2>1 DEF vars
<1>8. QED
  BY <1>2, <1>3, <1>4, <1>5, <1>6, <1>7 DEF Next, ChangeStep

\* Sockets and the timers that open one are at most one more than the changes
\* of settings that are over.
THEOREM BoundedTheorem == Spec => []SocketsBounded
<1>1. TypeOK /\ SocketsBounded /\ [Next]_vars => TypeOK' /\ SocketsBounded'
  BY TypeStep, BoundedStep
<1>2. Init => TypeOK /\ SocketsBounded
  BY TypeInit, BoundedInit
<1>3. QED
  BY <1>1, <1>2, PTL DEF Spec

-----------------------------------------------------------------------------
(* The control button *)

\* Every step of Player is a step of PlayerSocket, or leaves it alone.
LEMMA PlayerStep == [PlayerNext]_playerVars => [Next]_vars
<1> SUFFICES ASSUME [PlayerNext]_playerVars PROVE Next \/ UNCHANGED vars
  OBVIOUS
<1>1. CASE \E k \in Sockets : Connected(k) \/ Disconnected(k)
  BY <1>1 DEF Connected, Disconnected, Next
<1>2. CASE OtherStep
  BY <1>2 DEF OtherStep, Next
<1>3. CASE \E k \in Sockets : HandleRequest(k) \/ HandleRelease(k)
  BY <1>3 DEF HandleRequest, HandleRelease, Reply
<1>4. CASE Click \/ \E k \in Sockets : Replied(k) \/ HandlerEnds(k)
  BY <1>4 DEF Click, Replied, HandlerEnds
<1>5. CASE UNCHANGED playerVars
  BY <1>5 DEF playerVars
<1>6. QED
  BY <1>1, <1>2, <1>3, <1>4, <1>5 DEF PlayerNext

\* The page with its control button behaves like PlayerSocket, so that all that
\* holds of the one holds of the other.
THEOREM PlayerImplements == PlayerSpec => Spec
BY PlayerStep, PTL DEF PlayerSpec, PlayerInit, Spec

\* What the other steps do to the sockets: one is made, or the client closes it.
LEMMA OtherSockets ==
  ASSUME TypeOK, OtherStep
  PROVE  \/ \E k \in Sockets :
              /\ socket[k] = "closed" /\ ws' = k
              /\ socket' = [socket EXCEPT ![k] = "connecting"]
         \/ /\ ws' = ws
            /\ \A k \in Sockets :
                 socket[k] # socket'[k]
                   => socket[k] # "closed" /\ socket'[k] = "closing"
<1>1. CASE Retry \/ Enable
  BY <1>1, ConnectTakesFree DEF Retry, Enable
<1>2. ASSUME NEW r \in Changes, ChangeStep(r)
      PROVE  /\ ws' = ws
             /\ \A k \in Sockets :
                  socket[k] # socket'[k]
                    => socket[k] # "closed" /\ socket'[k] = "closing"
  <2>1. \/ Disconnect /\ ws' = ws
        \/ UNCHANGED <<socket, ws>>
    BY <1>2 DEF ChangeStep, Apply, Adapt, Begin, Stopped, Reconnect, Fails
  <2>2. QED
    BY <2>1 DEF Disconnect
<1>3. QED
  BY <1>1, <1>2 DEF OtherStep

LEMMA OtherConnected == OtherStep => connected' = connected
BY DEF OtherStep, Retry, Enable, ChangeStep, Apply, Adapt, Begin, Stopped,
       Reconnect, Fails

LEMMA PlayerTypeInit == PlayerInit => PlayerTypeOK
<1>1. PlayerInit => TypeOK
  BY TypeInit DEF PlayerInit
<1>2. PlayerInit => /\ hasControl = FALSE /\ enabled = FALSE /\ mixed = FALSE
                    /\ {hasControl, enabled, mixed} \subseteq BOOLEAN
  BY DEF PlayerInit
<1>3. PlayerInit => /\ toServer \in [Sockets -> Seq({"request", "release"})]
                    /\ toPage \in [Sockets -> Seq({"granted", "denied", "released"})]
  BY DEF PlayerInit
<1>4. PlayerInit => holders \subseteq served /\ served \subseteq Live
  BY DEF PlayerInit
<1>5. QED
  BY <1>1, <1>2, <1>3, <1>4 DEF PlayerTypeOK

\* A request that is sent keeps the queue's type.
LEMMA SendType ==
  ASSUME PlayerTypeOK, NEW msg \in {"request", "release"}, SendMgmt(msg)
  PROVE  toServer' \in [Sockets -> Seq({"request", "release"})]
<1>1. CASE ws \in Sockets
  <2>1. toServer[ws] \in Seq({"request", "release"})
    BY <1>1 DEF PlayerTypeOK
  <2>2. Append(toServer[ws], msg) \in Seq({"request", "release"})
    BY <2>1
  <2>3. QED
    BY <1>1, <2>1, <2>2 DEF PlayerTypeOK, SendMgmt
<1>2. CASE ws \notin Sockets
  BY <1>2 DEF PlayerTypeOK, SendMgmt
<1>3. QED
  BY <1>1, <1>2

LEMMA ReplyType ==
  ASSUME PlayerTypeOK, NEW k \in Sockets,
         NEW msg \in {"granted", "denied", "released"}, Reply(k, msg)
  PROVE  /\ toServer' \in [Sockets -> Seq({"request", "release"})]
         /\ toPage' \in [Sockets -> Seq({"granted", "denied", "released"})]
<1>1. /\ toServer[k] \in Seq({"request", "release"}) /\ toServer[k] # <<>>
      /\ toPage[k] \in Seq({"granted", "denied", "released"})
  BY DEF PlayerTypeOK, Reply
<1>2. /\ Tail(toServer[k]) \in Seq({"request", "release"})
      /\ Append(toPage[k], msg) \in Seq({"granted", "denied", "released"})
  BY <1>1
<1>3. QED
  BY <1>2 DEF PlayerTypeOK, Reply

\* TypeOK follows from PlayerSocket; the rest is shown step by step.
LEMMA PlayerTypeStep == PlayerTypeOK /\ [PlayerNext]_playerVars => PlayerTypeOK'
<1> SUFFICES ASSUME PlayerTypeOK, [PlayerNext]_playerVars PROVE PlayerTypeOK'
  OBVIOUS
<1>0. TypeOK /\ TypeOK'
  BY PlayerStep, TypeStep DEF PlayerTypeOK
<1>a. hasControl \in BOOLEAN /\ enabled \in BOOLEAN /\ mixed \in BOOLEAN
  BY DEF PlayerTypeOK
<1>b. Mixes => mixed' \in BOOLEAN
  BY DEF Mixes
<1>1. ASSUME NEW k \in Sockets, Connected(k) PROVE PlayerTypeOK'
  <2>1. Live' = Live /\ k \in Live
    BY <1>0, <1>1 DEF Connected, Opened, Live, TypeOK
  <2>2. holders' \subseteq served' /\ served' \subseteq Live'
    BY <1>1, <2>1 DEF Connected, PlayerTypeOK
  <2>3. toServer' \in [Sockets -> Seq({"request", "release"})]
    BY <1>1, SendType DEF Connected
  <2>4. toPage' \in [Sockets -> Seq({"granted", "denied", "released"})]
    BY <1>1 DEF Connected, PlayerTypeOK
  <2>5. {hasControl', enabled', mixed'} \subseteq BOOLEAN
    BY <1>1, <1>a, <1>b DEF Connected, control
  <2>6. QED
    BY <1>0, <2>2, <2>3, <2>4, <2>5 DEF PlayerTypeOK
<1>2. ASSUME NEW k \in Sockets, Disconnected(k) PROVE PlayerTypeOK'
  <2>1. Live' = Live \ {k}
    BY <1>0, <1>2 DEF Disconnected, Closed, Live, TypeOK
  <2>2. holders' \subseteq served' /\ served' \subseteq Live'
    BY <1>2, <2>1 DEF Disconnected, PlayerTypeOK
  <2>3. toServer' \in [Sockets -> Seq({"request", "release"})]
    BY <1>2 DEF Disconnected, PlayerTypeOK
  <2>4. toPage' \in [Sockets -> Seq({"granted", "denied", "released"})]
    BY <1>2 DEF Disconnected, PlayerTypeOK
  <2>5. hasControl' \in BOOLEAN /\ enabled' \in BOOLEAN /\ mixed' \in BOOLEAN
    BY <1>2, <1>b DEF Disconnected
  <2>6. QED
    BY <1>0, <2>2, <2>3, <2>4, <2>5 DEF PlayerTypeOK
<1>3. CASE Click
  <2>1. toServer' \in [Sockets -> Seq({"request", "release"})]
    <3>1. CASE connected
      <4> DEFINE msg == IF hasControl THEN "release" ELSE "request"
      <4>1. msg \in {"request", "release"} /\ SendMgmt(msg)
        BY <1>3, <3>1 DEF Click
      <4>2. QED
        BY <4>1, SendType
    <3>2. CASE ~connected
      BY <1>3, <3>2 DEF Click, PlayerTypeOK
    <3>3. QED
      BY <3>1, <3>2
  <2>2. holders' \subseteq served' /\ served' \subseteq Live'
    BY <1>3 DEF Click, PlayerTypeOK, vars, Live
  <2>3. toPage' \in [Sockets -> Seq({"granted", "denied", "released"})]
    BY <1>3 DEF Click, PlayerTypeOK
  <2>4. hasControl' \in BOOLEAN /\ enabled' \in BOOLEAN /\ mixed' \in BOOLEAN
    BY <1>3, <1>a DEF Click
  <2>5. QED
    BY <1>0, <2>1, <2>2, <2>3, <2>4 DEF PlayerTypeOK
<1>4. ASSUME NEW k \in Sockets, Replied(k) PROVE PlayerTypeOK'
  <2>1. toPage[k] \in Seq({"granted", "denied", "released"}) /\ toPage[k] # <<>>
    BY <1>4 DEF Replied, PlayerTypeOK
  <2>2. /\ Tail(toPage[k]) \in Seq({"granted", "denied", "released"})
        /\ Head(toPage[k]) \in {"granted", "denied", "released"}
    BY <2>1
  <2>3. toPage' \in [Sockets -> Seq({"granted", "denied", "released"})]
    BY <1>4, <2>2 DEF Replied, PlayerTypeOK
  <2>4. hasControl' \in BOOLEAN /\ enabled' \in BOOLEAN /\ mixed' \in BOOLEAN
    BY <1>4, <1>a, <2>2 DEF Replied
  <2>5. /\ holders' \subseteq served' /\ served' \subseteq Live'
        /\ toServer' \in [Sockets -> Seq({"request", "release"})]
    BY <1>4 DEF Replied, PlayerTypeOK, vars, Live
  <2>6. QED
    BY <1>0, <2>3, <2>4, <2>5 DEF PlayerTypeOK
<1>5. CASE OtherStep
  <2>1. Live \subseteq Live'
    BY <1>0, <1>5, OtherSockets DEF Live, TypeOK
  <2>2. hasControl' \in BOOLEAN /\ enabled' \in BOOLEAN /\ mixed' \in BOOLEAN
    BY <1>5, <1>a, <1>b DEF OtherStep, control
  <2>3. QED
    BY <1>0, <1>5, <2>1, <2>2 DEF OtherStep, PlayerTypeOK, wires
<1>6. ASSUME NEW k \in Sockets, HandleRequest(k) \/ HandleRelease(k)
      PROVE  PlayerTypeOK'
  <2>1. PICK msg \in {"granted", "denied", "released"} : Reply(k, msg)
    BY <1>6 DEF HandleRequest, HandleRelease
  <2>2. k \in served /\ served' = served /\ holders' \subseteq holders \cup {k}
    BY <1>6 DEF HandleRequest, HandleRelease, Reply
  <2>3. holders' \subseteq served' /\ served' \subseteq Live'
    BY <2>1, <2>2 DEF Reply, PlayerTypeOK, vars, Live
  <2>4. /\ toServer' \in [Sockets -> Seq({"request", "release"})]
        /\ toPage' \in [Sockets -> Seq({"granted", "denied", "released"})]
    BY <2>1, ReplyType
  <2>5. hasControl' \in BOOLEAN /\ enabled' \in BOOLEAN /\ mixed' \in BOOLEAN
    BY <2>1, <1>a DEF Reply, control
  <2>6. QED
    BY <1>0, <2>3, <2>4, <2>5 DEF PlayerTypeOK
<1>7. ASSUME NEW k \in Sockets, HandlerEnds(k) PROVE PlayerTypeOK'
  BY <1>0, <1>7 DEF HandlerEnds, PlayerTypeOK, vars, control, Live
<1>8. CASE UNCHANGED playerVars
  BY <1>0, <1>8 DEF playerVars, PlayerTypeOK, vars, control, wires, Live
<1>9. QED
  BY <1>1, <1>2, <1>3, <1>4, <1>5, <1>6, <1>7, <1>8 DEF PlayerNext

\* With no second socket about, whatever socket is there is the client's.
LEMMA OneLive ==
  ASSUME Alone, ~mixed, NEW k \in Live PROVE k = ws
BY DEF Alone

LEMMA ControlInit == PlayerInit => ControlInv
<1> SUFFICES ASSUME PlayerInit PROVE ControlInv
  OBVIOUS
<1>1. Live = {} /\ mixed = FALSE /\ hasControl = FALSE /\ enabled = FALSE
  BY DEF PlayerInit, Init, Live
<1>2. Quiet
  BY DEF PlayerInit, Quiet
<1>3. Alone
  BY <1>1 DEF Alone
<1>4. Truthful
  BY DEF PlayerInit, Truthful
<1>5. QED
  BY <1>2, <1>3, <1>4 DEF ControlInv

LEMMA ConnectedControl ==
  ASSUME PlayerTypeOK, PlayerTypeOK', ControlInv, NEW k \in Sockets, Connected(k)
  PROVE  ControlInv'
<1> USE DEF ControlInv
<1>1. /\ socket[k] = "connecting"
      /\ socket' = [socket EXCEPT ![k] = "open"] /\ connected' = TRUE /\ ws' = ws
  BY DEF Connected, Opened
<1>2. Live' = Live /\ k \in Live /\ socket'[k] = "open"
  BY <1>1 DEF Live, PlayerTypeOK, TypeOK
<1>3. ~mixed' => ~mixed /\ k = ws
  BY <1>2, OneLive DEF Connected, Mixes
<1>4. Quiet'
  BY <1>1 DEF Connected, Quiet, SendMgmt, PlayerTypeOK, TypeOK
<1>5. Alone'
  BY <1>1, <1>2, <1>3 DEF Alone
<1>6. ASSUME ~mixed', NEW j \in served', socket'[j] = "open"
      PROVE  Informed(j)' /\ NeverRefused(j)'
  <2>1. j \in Live /\ j = k
    BY <1>2, <1>3, <1>6, OneLive DEF PlayerTypeOK
  <2>2. toPage'[k] = <<>> /\ k \notin holders'
    BY <1>1 DEF Quiet, Connected, PlayerTypeOK
  <2>3. ~hasControl' /\ ~enabled'
    BY <1>1, <1>2, <1>3, <1>6, OneLive DEF Alone, Connected, control
  <2>4. QED
    BY <2>1, <2>2, <2>3 DEF Informed, NeverRefused
<1>7. QED
  BY <1>4, <1>5, <1>6 DEF Truthful

LEMMA DisconnectedControl ==
  ASSUME PlayerTypeOK, PlayerTypeOK', ControlInv, NEW k \in Sockets,
         Disconnected(k)
  PROVE  ControlInv'
<1> USE DEF ControlInv
<1>1. Live' = Live \ {k} /\ k \in Live
  BY DEF Disconnected, Closed, Live, PlayerTypeOK, TypeOK
<1>2. ~mixed' => Live' = {}
  BY <1>1, OneLive DEF Disconnected, Mixes
<1>3. Quiet'
  BY DEF Disconnected, Closed, Quiet, PlayerTypeOK, TypeOK
<1>4. Alone'
  BY <1>2 DEF Alone, Disconnected, Mixes
<1>5. Truthful'
  BY <1>2 DEF Truthful, PlayerTypeOK
<1>6. QED
  BY <1>3, <1>4, <1>5

LEMMA ClickControl ==
  ASSUME PlayerTypeOK, ControlInv, Click PROVE ControlInv'
<1> USE DEF ControlInv
<1>1. /\ socket' = socket /\ ws' = ws /\ connected' = connected /\ mixed' = mixed
      /\ toPage' = toPage /\ served' = served /\ holders' = holders
      /\ hasControl' = FALSE /\ Live' = Live
  BY DEF Click, vars, Live
<1>2. \A j \in Sockets : j # ws \/ socket[j] # "open" => toServer'[j] = toServer[j]
  BY <1>1 DEF Click, SendMgmt, PlayerTypeOK
<1>3. Quiet'
  BY <1>1, <1>2 DEF Quiet
<1>4. Alone'
  <2>1. ~hasControl' /\ (~enabled => ~enabled')
    <3>1. enabled' = (enabled /\ ~hasControl)
      BY DEF Click
    <3>2. QED
      BY <1>1, <3>1
  <2>2. QED
    BY <1>1, <2>1 DEF Alone
<1>5. ASSUME ~mixed, NEW j \in served, socket[j] = "open"
      PROVE  Informed(j)' /\ NeverRefused(j)'
  <2>1. j \in Live /\ j = ws /\ j \in Sockets /\ connected
    BY <1>5, OneLive DEF PlayerTypeOK, Live, Alone
  <2>2. Informed(j) /\ NeverRefused(j)
    BY <1>5 DEF Truthful
  <2>3. ~enabled'
    BY <2>2 DEF NeverRefused, Click
  <2>4. toServer'[j] # <<>>
    <3>1. PICK msg : toServer'[j] = Append(toServer[j], msg)
      BY <1>1, <1>5, <2>1 DEF Click, SendMgmt, PlayerTypeOK
    <3>2. toServer[j] \in Seq({"request", "release"})
      BY <2>1 DEF PlayerTypeOK
    <3>3. QED
      BY <3>1, <3>2
  <2>5. Informed(j)'
    BY <1>1, <2>2, <2>4 DEF Informed
  <2>6. NeverRefused(j)'
    BY <1>1, <2>2, <2>3 DEF NeverRefused
  <2>7. QED
    BY <2>5, <2>6
<1>6. QED
  BY <1>1, <1>3, <1>4, <1>5 DEF Truthful

\* What a queue of replies looks like without its first one.
LEMMA TailFacts ==
  ASSUME NEW S, NEW q \in Seq(S), q # <<>>
  PROVE  /\ Tail(q) \in Seq(S) /\ Len(Tail(q)) = Len(q) - 1
         /\ Head(q) = q[1] /\ Len(q) \in Nat \ {0}
         /\ \A i \in 1..Len(Tail(q)) : Tail(q)[i] = q[i + 1]
         /\ Tail(q) = <<>> => Len(q) = 1
<1>1. Len(q) \in Nat \ {0} /\ Head(q) = q[1]
  OBVIOUS
<1>2. Tail(q) \in Seq(S) /\ Len(Tail(q)) = Len(q) - 1
  OBVIOUS
<1>3. \A i \in 1..Len(Tail(q)) : Tail(q)[i] = q[i + 1]
  OBVIOUS
<1>4. ASSUME Tail(q) = <<>>  PROVE Len(q) = 1
  <2> DEFINE t == Tail(q)
             n == Len(q)
  <2>1. Len(t) = n - 1 /\ n \in Nat /\ t = <<>>
    BY <1>1, <1>2, <1>4
  <2> HIDE DEF t, n
  <2>2. Len(t) = 0
    BY <2>1
  <2>3. n = 1
    BY <2>1, <2>2
  <2>4. QED
    BY <2>3 DEF n
<1>5. QED
  BY <1>1, <1>2, <1>3, <1>4

LEMMA RepliedControl ==
  ASSUME PlayerTypeOK, ControlInv, NEW k \in Sockets, Replied(k)
  PROVE  ControlInv'
<1> USE DEF ControlInv
<1>1. /\ socket' = socket /\ ws' = ws /\ connected' = connected /\ mixed' = mixed
      /\ toServer' = toServer /\ served' = served /\ holders' = holders
      /\ Live' = Live /\ socket[k] = "open" /\ k \in Live
  BY DEF Replied, vars, Live
<1>2. Quiet'
  BY <1>1 DEF Quiet, Replied, PlayerTypeOK
<1>3. Alone'
  BY <1>1 DEF Alone
<1>4. ASSUME ~mixed, k \in served
      PROVE  Informed(k)' /\ NeverRefused(k)'
  <2> DEFINE q == toPage[k]
             reply == q[1]
  <2>1. q \in Seq({"granted", "denied", "released"}) /\ q # <<>>
    BY DEF Replied, PlayerTypeOK
  <2>2. Informed(k) /\ NeverRefused(k)
    BY <1>1, <1>4 DEF Truthful
  <2>3. /\ Tail(q) \in Seq({"granted", "denied", "released"})
        /\ Len(Tail(q)) = Len(q) - 1 /\ Len(q) \in Nat \ {0}
        /\ Head(q) = reply
        /\ \A i \in 1..Len(Tail(q)) : Tail(q)[i] = q[i + 1]
        /\ Tail(q) = <<>> => Len(q) = 1
    BY <2>1, TailFacts
  <2>4. toPage'[k] = Tail(q)
    BY DEF Replied, PlayerTypeOK
  <2>5. /\ hasControl' <=> reply = "granted"
        /\ enabled' <=> reply = "granted" \/ (reply = "denied" /\ enabled)
    BY <2>3 DEF Replied
  <2>6. Informed(k)'
    <3>1. q[Len(q)] = "granted" <=> k \in holders
      BY <2>1, <2>2 DEF Informed, Last
    <3>2. CASE Tail(q) = <<>>
      BY <1>1, <2>3, <2>4, <2>5, <3>1, <3>2 DEF Informed
    <3>3. CASE Tail(q) # <<>>
      <4>1. Len(Tail(q)) >= 1
        BY <2>3, <3>3, EmptySeq
      <4>2. Tail(q)[Len(Tail(q))] = q[Len(q)]
        BY <2>3, <4>1
      <4>3. QED
        BY <1>1, <2>4, <3>1, <3>3, <4>2 DEF Informed, Last
    <3>4. QED
      BY <3>2, <3>3
  <2>7. enabled' <=> hasControl'
    BY <2>2, <2>3, <2>5 DEF NeverRefused
  <2>8. ASSUME NEW i \in 1..Len(Tail(q)), Tail(q)[i] = "denied"
        PROVE  IF i = 1 THEN ~hasControl' ELSE Tail(q)[i - 1] # "granted"
    <3>1. i + 1 \in 1..Len(q) /\ q[i + 1] = "denied" /\ i + 1 # 1 /\ (i + 1) - 1 = i
      BY <2>3, <2>8
    <3>2. q[i] # "granted"
      BY <2>2, <3>1 DEF NeverRefused
    <3>3. CASE i = 1
      BY <2>5, <3>2, <3>3
    <3>4. CASE i # 1
      BY <2>3, <3>2, <3>4
    <3>5. QED
      BY <3>3, <3>4
  <2>9. NeverRefused(k)'
    BY <2>4, <2>7, <2>8 DEF NeverRefused
  <2>10. QED
    BY <2>6, <2>9
<1>5. Truthful'
  BY <1>1, <1>4, OneLive DEF Truthful, PlayerTypeOK
<1>6. QED
  BY <1>2, <1>3, <1>5

LEMMA HandledControl ==
  ASSUME PlayerTypeOK, ControlInv, NEW k \in Sockets,
         HandleRequest(k) \/ HandleRelease(k)
  PROVE  ControlInv'
<1> USE DEF ControlInv
<1>1. PICK msg \in {"granted", "denied", "released"} :
        /\ Reply(k, msg)
        /\ msg = "granted" <=> k \in holders'
        /\ msg = "denied" => k \notin holders
  BY DEF HandleRequest, HandleRelease
<1>2. /\ socket' = socket /\ ws' = ws /\ connected' = connected /\ mixed' = mixed
      /\ hasControl' = hasControl /\ enabled' = enabled
      /\ served' = served /\ Live' = Live /\ k \in served
  BY <1>1 DEF Reply, vars, Live, control
<1>3. Quiet'
  BY <1>1, <1>2 DEF Quiet, Reply, PlayerTypeOK
<1>4. Alone'
  BY <1>2 DEF Alone
<1>5. ASSUME ~mixed, socket[k] = "open"
      PROVE  Informed(k)' /\ NeverRefused(k)'
  <2> DEFINE q == toPage[k]
             n == Len(q)
  <2>1. q \in Seq({"granted", "denied", "released"})
    BY DEF PlayerTypeOK
  <2>2. Informed(k) /\ NeverRefused(k)
    BY <1>2, <1>5 DEF Truthful
  <2>3. toPage'[k] = Append(q, msg)
    BY <1>1 DEF Reply, PlayerTypeOK
  <2>4. /\ Len(Append(q, msg)) = n + 1 /\ n \in Nat /\ Append(q, msg) # <<>>
        /\ Append(q, msg)[n + 1] = msg
        /\ \A i \in 1..n : Append(q, msg)[i] = q[i]
    BY <2>1
  <2>5. Informed(k)'
    BY <1>1, <2>3, <2>4 DEF Informed, Last
  <2>6. ASSUME NEW i \in 1..(n + 1), Append(q, msg)[i] = "denied"
        PROVE  IF i = 1 THEN ~hasControl ELSE Append(q, msg)[i - 1] # "granted"
    <3>1. CASE i \in 1..n
      <4>1. q[i] = "denied"
        BY <2>4, <2>6, <3>1
      <4>2. IF i = 1 THEN ~hasControl ELSE q[i - 1] # "granted"
        BY <2>2, <3>1, <4>1 DEF NeverRefused
      <4>3. QED
        BY <2>4, <3>1, <4>2
    <3>2. CASE i = n + 1
      <4>1. msg = "denied" /\ k \notin holders
        BY <1>1, <2>4, <2>6, <3>2
      <4>2. CASE n = 0
        <5>1. q = <<>>
          BY <2>1, <4>2, EmptySeq
        <5>2. QED
          BY <2>2, <3>2, <4>1, <4>2, <5>1 DEF Informed
      <4>3. CASE n # 0
        <5>1. q # <<>> /\ q[n] # "granted"
          BY <2>1, <2>2, <4>1, <4>3, EmptySeq DEF Informed, Last
        <5>2. QED
          BY <2>4, <3>2, <4>3, <5>1
      <4>4. QED
        BY <4>2, <4>3
    <3>3. QED
      BY <2>4, <3>1, <3>2
  <2>7. NeverRefused(k)'
    BY <1>2, <2>2, <2>3, <2>4, <2>6 DEF NeverRefused
  <2>8. QED
    BY <2>5, <2>7
<1>6. Truthful'
  BY <1>2, <1>5, OneLive DEF Truthful, PlayerTypeOK
<1>7. QED
  BY <1>3, <1>4, <1>6

LEMMA EndsControl ==
  ASSUME PlayerTypeOK, ControlInv, NEW k \in Sockets, HandlerEnds(k)
  PROVE  ControlInv'
<1> USE DEF ControlInv
<1>1. /\ socket' = socket /\ ws' = ws /\ connected' = connected /\ mixed' = mixed
      /\ toServer' = toServer /\ toPage' = toPage
      /\ hasControl' = hasControl /\ enabled' = enabled /\ Live' = Live
      /\ served' = served \ {k} /\ holders' = holders \ {k}
  BY DEF HandlerEnds, vars, Live, control
<1>2. Quiet' /\ Alone'
  BY <1>1 DEF Quiet, Alone
<1>3. Truthful'
  BY <1>1 DEF Truthful, Informed, NeverRefused
<1>4. QED
  BY <1>2, <1>3

LEMMA OtherControl ==
  ASSUME PlayerTypeOK, PlayerTypeOK', ControlInv, OtherStep PROVE ControlInv'
<1> USE DEF ControlInv
<1>1. /\ hasControl' = hasControl /\ enabled' = enabled /\ toServer' = toServer
      /\ toPage' = toPage /\ served' = served /\ holders' = holders
      /\ connected' = connected
  BY OtherConnected DEF OtherStep, control, wires
<1>2. mixed' <=> (\E j, k \in Live' : j # k) \/ (mixed /\ Live' # {})
  BY DEF OtherStep, Mixes
<1>3. ASSUME NEW k \in Sockets, socket[k] = "closed", ws' = k,
             socket' = [socket EXCEPT ![k] = "connecting"]
      PROVE  ControlInv'
  <2>1. Live' = Live \cup {k} /\ k \notin Live /\ socket'[k] = "connecting"
    BY <1>3 DEF Live, PlayerTypeOK, TypeOK
  <2>2. ~mixed' => ~mixed /\ Live = {} /\ Live' = {k}
    BY <1>2, <2>1
  <2>3. Quiet'
    BY <1>1, <1>3 DEF Quiet, PlayerTypeOK, TypeOK
  <2>4. Alone'
    BY <1>1, <1>3, <2>1, <2>2 DEF Alone
  <2>5. Truthful'
    BY <1>1, <2>2 DEF Truthful, PlayerTypeOK
  <2>6. QED
    BY <2>3, <2>4, <2>5
<1>4. ASSUME ws' = ws,
             \A k \in Sockets :
               socket[k] # socket'[k]
                 => socket[k] # "closed" /\ socket'[k] = "closing"
      PROVE  ControlInv'
  <2>1. Live' = Live
    BY <1>4 DEF Live
  <2>2. \A k \in Sockets : socket'[k] \in {"closed", "connecting", "open"}
                            => socket'[k] = socket[k]
    BY <1>4
  <2>3. ~mixed' => ~mixed
    BY <1>2, <2>1 DEF Alone
  <2>4. Quiet'
    BY <1>1, <2>2 DEF Quiet
  <2>5. \A k \in Live : k \in Sockets
    BY DEF Live
  <2>6. Alone'
    BY <1>1, <1>2, <1>4, <2>1, <2>2, <2>3, <2>5 DEF Alone
  <2>7. Truthful'
    BY SMTT(30), <1>1, <2>2, <2>3, <2>5
       DEF Truthful, Informed, NeverRefused, PlayerTypeOK
  <2>8. QED
    BY <2>4, <2>6, <2>7
<1>5. TypeOK
  BY DEF PlayerTypeOK
<1>6. QED
  BY <1>3, <1>4, <1>5, OtherSockets

LEMMA ControlStep ==
  ASSUME PlayerTypeOK, ControlInv, [PlayerNext]_playerVars PROVE ControlInv'
<1>1. PlayerTypeOK'
  BY PlayerTypeStep
<1>2. CASE UNCHANGED playerVars
  BY <1>2 DEF playerVars, vars, control, wires, ControlInv, Quiet, Alone, Truthful,
              Informed, NeverRefused, Live
<1>3. QED
  BY <1>1, <1>2, ConnectedControl, DisconnectedControl, ClickControl,
     RepliedControl, HandledControl, EndsControl, OtherControl DEF PlayerNext

\* Whatever is clicked, refused, released and lost: when nothing is under way,
\* the page and the server agree on who has control.
THEOREM AgreesTheorem == PlayerSpec => []ControlAgrees
<1>1. PlayerTypeOK /\ ControlInv /\ [PlayerNext]_playerVars
        => PlayerTypeOK' /\ ControlInv'
  BY PlayerTypeStep, ControlStep
<1>2. PlayerTypeOK /\ ControlInv => ControlAgrees
  BY DEF PlayerTypeOK, ControlInv, Truthful, Informed, NeverRefused, ControlAgrees
<1>3. QED
  BY <1>1, <1>2, PlayerTypeInit, ControlInit, PTL DEF PlayerSpec

\* Types of the page, its sockets and the messages between them.
THEOREM PlayerTyped == PlayerSpec => []PlayerTypeOK
BY PlayerTypeInit, PlayerTypeStep, PTL DEF PlayerSpec

=============================================================================
