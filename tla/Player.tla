------------------------------- MODULE Player -------------------------------
(***************************************************************************)
(* PlayerSocket together with the control of the device: the button and    *)
(* the input handler of the page (frontend/player.html, js/input.js), and  *)
(* at the other end of each socket its handler on the server               *)
(* (internal/server/server.go, handleMgmtMsg).  Requests and replies       *)
(* travel in order and take their time; the page acts on a reply without   *)
(* asking which socket it came from or what has been clicked since.        *)
(*                                                                         *)
(* Module Relay shows that a relay gives control to one viewer at a time.  *)
(* Here the other viewers are whoever makes a request fail.                *)
(***************************************************************************)
EXTENDS PlayerSocket, Sequences, FiniteSetsExt

CONSTANT MaxRequests    (* Bound on the messages under way when one clicks.*)

ASSUME RequestsAssumption == MaxRequests \in Nat \ {0}

VARIABLES
  hasControl,   (* What the button shows.                                  *)
  enabled,      (* inputHandler.enabled: clicks and keys are captured.     *)
  toServer,     (* toServer[k]: requests on their way.                     *)
  toPage,       (* toPage[k]: replies on their way.                        *)
  served,       (* The sockets whose handler is in its read loop,          *)
  holders,      (* ...and those that hold the control token of their relay.*)
  mixed         (* History: two sockets have been there at the same time,  *)
                (* and they have not all been closed since.                *)

control == <<hasControl, enabled>>
wires == <<toServer, toPage, served, holders>>
playerVars == <<vars, control, wires, mixed>>

PlayerInit ==
  /\ Init
  /\ hasControl = FALSE /\ enabled = FALSE
  /\ toServer = [k \in Sockets |-> <<>>]
  /\ toPage = [k \in Sockets |-> <<>>]
  /\ served = {} /\ holders = {}
  /\ mixed = FALSE

Mixes ==
  mixed' = ((\E j, k \in Live' : j # k) \/ (mixed /\ Live' # {}))

-----------------------------------------------------------------------------
(* The page *)

\* sendMgmt of a connected client: lost on a socket that is not open.
SendMgmt(msg) ==
  toServer' = [toServer EXCEPT ![ws] =
                 IF socket'[ws] = "open" THEN Append(@, msg) ELSE @]

\* onopen: onConnected asks for control.
Connected(k) ==
  /\ Opened(k)
  /\ SendMgmt("request")
  /\ served' = served \cup {k}
  /\ Mixes
  /\ UNCHANGED <<control, toPage, holders>>

\* onclose: onDisconnected.  The handler finds out when it finds out; what it
\* still gets or holds does not matter to the page any more.
Disconnected(k) ==
  /\ Closed(k)
  /\ hasControl' = FALSE /\ enabled' = FALSE
  /\ toServer' = [toServer EXCEPT ![k] = <<>>]
  /\ toPage' = [toPage EXCEPT ![k] = <<>>]
  /\ served' = served \ {k} /\ holders' = holders \ {k}
  /\ Mixes

UnderWay == FoldSet(LAMBDA k, n : Len(toServer[k]) + Len(toPage[k]) + n, 0, Sockets)

\* The button.  A send on a socket that is still connecting throws, and the
\* click is lost.
Click ==
  /\ ws # None
  /\ connected => socket[ws] # "connecting"
  /\ connected => UnderWay < MaxRequests
  /\ UNCHANGED <<vars, toPage, served, holders, mixed>>
  /\ IF connected THEN SendMgmt(IF hasControl THEN "release" ELSE "request")
                  ELSE UNCHANGED toServer
  /\ hasControl' = FALSE
  /\ enabled' = (enabled /\ ~hasControl)

\* A reply arrives.  A socket that is closing delivers none.
Replied(k) ==
  /\ socket[k] = "open" /\ toPage[k] # <<>>
  /\ LET reply == Head(toPage[k]) IN
       /\ hasControl' = (reply = "granted")
       /\ enabled' = (reply = "granted" \/ (reply = "denied" /\ enabled))
  /\ toPage' = [toPage EXCEPT ![k] = Tail(@)]
  /\ UNCHANGED <<vars, toServer, served, holders, mixed>>

\* The rest of PlayerSocket does not touch what has to do with control.
OtherStep ==
  /\ Retry \/ Enable \/ \E r \in Changes : ChangeStep(r)
  /\ Mixes
  /\ UNCHANGED <<control, wires>>

-----------------------------------------------------------------------------
(* The handler of a socket, on the server *)

\* Take a request and answer it.  When the answer cannot be written the
\* connection is broken: that is HandlerEnds, nothing more reaches the page.
Reply(k, msg) ==
  /\ k \in served /\ toServer[k] # <<>>
  /\ toServer' = [toServer EXCEPT ![k] = Tail(@)]
  /\ toPage' = [toPage EXCEPT ![k] = Append(@, msg)]
  /\ UNCHANGED <<vars, control, served, mixed>>

\* request_control: refused when another viewer has the token.
HandleRequest(k) ==
  /\ toServer[k] # <<>> /\ Head(toServer[k]) = "request"
  /\ \/ Reply(k, "granted") /\ holders' = holders \cup {k}
     \/ k \notin holders /\ Reply(k, "denied") /\ UNCHANGED holders

\* Variant for a mutant: the token is given back without a word.
HandleReleaseSilent(k) ==
  /\ k \in served
  /\ toServer[k] # <<>> /\ Head(toServer[k]) = "release"
  /\ toServer' = [toServer EXCEPT ![k] = Tail(@)]
  /\ holders' = holders \ {k}
  /\ UNCHANGED <<vars, control, served, toPage, mixed>>

\* release_control: confirmed whether or not the token was there.
HandleRelease(k) ==
  /\ toServer[k] # <<>> /\ Head(toServer[k]) = "release"
  /\ Reply(k, "released") /\ holders' = holders \ {k}

\* The handler leaves its loop (RemoveClient): the relay was stopped, or the
\* socket is lost; the page will get its close event.
HandlerEnds(k) ==
  /\ k \in served
  /\ served' = served \ {k} /\ holders' = holders \ {k}
  /\ UNCHANGED <<vars, control, toServer, toPage, mixed>>

-----------------------------------------------------------------------------
PlayerNext ==
  \/ \E k \in Sockets : Connected(k) \/ Disconnected(k) \/ Replied(k)
  \/ \E k \in Sockets : HandleRequest(k) \/ HandleRelease(k) \/ HandlerEnds(k)
  \/ Click
  \/ OtherStep

PlayerSpec == PlayerInit /\ [][PlayerNext]_playerVars

\* The fairness of PlayerSocket.
FairPlayerSpec ==
  /\ PlayerSpec
  /\ WF_playerVars(Retry /\ OtherStep) /\ WF_playerVars(Enable /\ OtherStep)
  /\ \A k \in Sockets :
       /\ WF_playerVars(socket[k] = "closing" /\ Disconnected(k))
       /\ WF_playerVars(socket[k] = "connecting" /\ (Connected(k) \/ Disconnected(k)))

-----------------------------------------------------------------------------
(* Safety *)

\* Types, of PlayerSocket too; only a socket that is being served holds control.
PlayerTypeOK ==
  /\ TypeOK
  /\ {hasControl, enabled, mixed} \subseteq BOOLEAN
  /\ toServer \in [Sockets -> Seq({"request", "release"})]
  /\ toPage \in [Sockets -> Seq({"granted", "denied", "released"})]
  /\ holders \subseteq served
  /\ served \subseteq Live

\* The button and the input handler tell the truth: when nothing is under way
\* on the page's socket, the page shows control, and captures clicks and keys,
\* if and only if the server has given control to it.  Double clicks, refusals,
\* a release that crosses a grant, the loss of the socket and a change of
\* settings do not get the two apart for longer than the messages take, as long
\* as no second socket gets in between (player.html:331-370, 396-405,
\* server.go:336-366).
ControlAgrees ==
  ~mixed => \A k \in served :
    socket[k] = "open" /\ toServer[k] = <<>> /\ toPage[k] = <<>>
      => /\ hasControl <=> k \in holders
         /\ enabled <=> hasControl

-----------------------------------------------------------------------------
(* The inductive invariant behind ControlAgrees *)

Last(q) == q[Len(q)]

\* Only an open or closing socket has a handler and messages.
Quiet ==
  \A k \in Sockets : socket[k] \in {"closed", "connecting"}
    => toServer[k] = <<>> /\ toPage[k] = <<>> /\ k \notin served

\* Unless sockets were mixed, the one that is there is the client's, and the
\* page has no control before it is open.
Alone ==
  /\ mixed => Live # {}
  /\ ~mixed =>
       /\ Live \subseteq {ws}
       /\ \A k \in Live : socket[k] = "open" => connected
       /\ (\A k \in Live : socket[k] = "connecting") => ~hasControl /\ ~enabled

\* The last reply under way says what the server has; if none is, the page knows
\* it, unless a request that will tell is under way.
Informed(k) ==
  /\ toPage[k] # <<>> => (Last(toPage[k]) = "granted" <=> k \in holders)
  /\ toPage[k] = <<>> /\ k \notin holders => ~hasControl
  /\ toPage[k] = <<>> /\ k \in holders /\ ~hasControl => toServer[k] # <<>>

\* A refusal never comes upon a page that has control by then: such a refusal
\* would leave the input handler enabled.
NeverRefused(k) ==
  /\ enabled <=> hasControl
  /\ \A i \in 1..Len(toPage[k]) : toPage[k][i] = "denied" =>
       IF i = 1 THEN ~hasControl ELSE toPage[k][i - 1] # "granted"

Truthful ==
  ~mixed => \A k \in served :
    socket[k] = "open" => Informed(k) /\ NeverRefused(k)

ControlInv == Quiet /\ Alone /\ Truthful

=============================================================================
