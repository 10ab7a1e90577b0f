------------------------- MODULE KioskTimers_proofs -------------------------
(***************************************************************************)
(* The kiosk never waits without a timer, and never leaves the strike      *)
(* energized without one, for every value of the constants and any timing. *)
(*                                                                         *)
(* A timer is pending while it runs or its event waits in the FIFO: the    *)
(* world moves it from one to the other, the global handler takes it out,  *)
(* and then the state's handler sets it again or leaves the state.         *)
(*                                                                         *)
(* Nor does operator mode go on without its timers, unless the power       *)
(* fails.  Its menus switch among each other and back, and what goes on    *)
(* between the ExitState and EnterState handlers depends on two flags      *)
(* which they leave for each other: OperFlags says what those mean.        *)
(***************************************************************************)
EXTENDS KioskTypes_proofs

(***************************************************************************)
(* The FIFO of events.                                                     *)
(***************************************************************************)
\* Every event but the two of the door; and every one but these and the power supply's.
Quiet == Events \ {"Door Opened", "Door Closed"}
Calm == Quiet \ {"Voltage Alarm", "Voltage Alarm Reset"}

\* Events that are appended leave those that wait in their places.
LEMMA Appended ==
  ASSUME evt \in Seq(Events), NEW es \in Seq(Events), evt' = evt \o es
  PROVE  /\ Len(evt) \in Nat /\ DOMAIN evt = 1 .. Len(evt)
         /\ Len(es) \in Nat /\ DOMAIN es = 1 .. Len(es)
         /\ DOMAIN evt' = 1 .. (Len(evt) + Len(es))
         /\ \A i \in DOMAIN evt : i \in DOMAIN evt' /\ evt'[i] = evt[i]
         /\ \A i \in DOMAIN es : Len(evt) + i \in DOMAIN evt' /\ evt'[Len(evt) + i] = es[i]
BY ConcatProperties, LenProperties

\* An event that waited is the one taken, or has moved up by one.
LEMMA Taken ==
  ASSUME evt \in Seq(Events), evt # <<>>, evt' = Tail(evt), NEW i \in DOMAIN evt
  PROVE  \/ i = 1 /\ evt[i] = Head(evt)
         \/ i - 1 \in DOMAIN evt' /\ evt'[i - 1] = evt[i]
BY HeadTailProperties

\* Sequences of no event and of one.
LEMMA OneCalm == <<>> \in Seq(Calm) /\ \A e \in Calm : <<e>> \in Seq(Calm)
OBVIOUS

LEMMA OneQuiet == \A e \in Quiet : <<e>> \in Seq(Quiet)
OBVIOUS

LEMMA CalmIsQuiet == ASSUME NEW es \in Seq(Calm) PROVE es \in Seq(Quiet)
BY SeqMonotonic DEF Calm

LEMMA QuietIsEvents == ASSUME NEW es \in Seq(Quiet) PROVE es \in Seq(Events)
BY SeqMonotonic DEF Quiet

\* An answer of the server daemon is no event of the door or the power supply.
LEMMA AnswersAreCalm ==
  ASSUME NEW e \in Calm, Answered(<<e>>)
  PROVE  \E es \in Seq(Calm) : evt' = evt \o es
<1>0. "Server OK" \in Calm
  BY DEF Calm, Quiet, Events
<1>1. <<e>> \in Seq(Calm) /\ <<"Server OK">> \in Seq(Calm) /\ <<>> \in Seq(Calm)
  BY <1>0, OneCalm
<1>2. <<e>> \o (IF server THEN <<>> ELSE <<"Server OK">>) \in Seq(Calm)
  BY <1>1, ConcatProperties
<1> QED BY <1>2 DEF Answered, Post

\* What arrives is the door's last move, the power supply's, or nothing of theirs.
LEMMA CalmArrivals ==
  ASSUME TypeOK, World
  PROVE  DoorMoves \/ Power \/ (UNCHANGED door /\ \E es \in Seq(Calm) : evt' = evt \o es)
<1> SUFFICES ASSUME ~DoorMoves, ~Power
             PROVE  UNCHANGED door /\ \E es \in Seq(Calm) : evt' = evt \o es
  OBVIOUS
<1>e. <<>> \in Seq(Calm) /\ \A e \in Calm : <<e>> \in Seq(Calm)
  BY OneCalm
<1>q. {"MSR", "MSR bad", "Flowmeter", "Pump OFF", "Keypad Valid", "Fuel Level", "GW Accepted"} \cup AuthEvts \cup GWEvts \cup ServerDown
         \subseteq Calm
  BY DEF Calm, Quiet, Events, AuthEvts, GWEvts, GWRetryEvts, GWRejectEvts, ServerDown
<1>0. evt \in Seq(Events) /\ evt = evt \o <<>>
  BY DEF TypeOK, SiteOK
<1>1. CASE Swipe \/ Flow \/ PumpMotor
  BY <1>1, <1>e, <1>q, <1>0 DEF Swipe, Flow, PumpMotor, Post, sensors
<1>2. CASE PressKey
  <2>1. PICK k \in KeysPressed :
          Post(<<KeypadEvt(k)>> \o (IF k = "#" THEN <<"Keypad Valid">> ELSE <<>>))
    BY <1>2 DEF PressKey
  <2>2. KeypadEvt(k) \in Calm
    <3>1. KeypadEvt(k) \in KeypadEvts
      BY WorldConstants DEF KeypadEvts
    <3>2. KeypadEvts \subseteq Events
      BY DEF Events
    <3> HIDE DEF KeypadEvts
    <3> QED BY <3>1, <3>2, EventNames DEF Calm, Quiet
  <2>3. <<KeypadEvt(k)>> \in Seq(Calm)
        /\ (IF k = "#" THEN <<"Keypad Valid">> ELSE <<>>) \in Seq(Calm)
    BY <2>2, <1>e, <1>q
  <2>4. <<KeypadEvt(k)>> \o (IF k = "#" THEN <<"Keypad Valid">> ELSE <<>>) \in Seq(Calm)
    BY <2>3, ConcatProperties
  <2> QED BY <1>2, <2>1, <2>4 DEF PressKey, Post, sensors
<1>3. CASE Timer
  <2>1. PICK t \in Timers : Expire(t)
    BY <1>3 DEF Timer
  <2>2. TimeoutOf(t) \in Calm
    BY EventNames DEF Calm, Quiet, Events
  <2> QED BY <2>1, <2>2, <1>e DEF Expire, Post, sensors
<1>4. CASE ServerDaemon
  <2>1. CASE StatusAnswered
    <3>1. <<"Server OK">> \in Seq(Calm)
      BY DEF Calm, Quiet, Events
    <3>2. evt' = evt \o (<<>> \o (IF server THEN <<>> ELSE <<"Server OK">>))
      BY <2>1 DEF StatusAnswered, Answered, Post
    <3>3. <<>> \o (IF server THEN <<>> ELSE <<"Server OK">>) \in Seq(Calm)
      BY <3>1, <1>e, ConcatProperties
    <3> QED BY <2>1, <3>2, <3>3 DEF StatusAnswered, sensors
  <2>2. CASE AuthAnswer
    <3>1. PICK o \in Offers : Answered(<<o.answer>>)
      BY <2>2 DEF AuthAnswer
    <3>2. o.answer \in Calm
      BY OfferFields, <1>q
    <3> QED BY <2>2, <3>1, <3>2, AnswersAreCalm DEF AuthAnswer, sensors
  <2>3. CASE GatewayAccepts
    BY <2>3, <1>q, AnswersAreCalm DEF GatewayAccepts, sensors
  <2>4. CASE GatewayRefuses
    <3>1. PICK e \in GWEvts : Answered(<<e>>)
      BY <2>4, WorldConstants DEF GatewayRefuses, GWEvts, GWRetryEvts
    <3> QED BY <2>4, <3>1, <1>q, AnswersAreCalm DEF GatewayRefuses, sensors
  <2>5. CASE ServerLost \/ FuelDelivered
    BY <2>5, <1>e, <1>q DEF ServerLost, FuelDelivered, Post, sensors
  <2> QED BY <1>4, <2>1, <2>2, <2>3, <2>4, <2>5 DEF ServerDaemon
<1> QED BY <1>1, <1>2, <1>3, <1>4 DEF World

\* What arrives is the door's last move, or nothing of the door's.
LEMMA Arrivals ==
  ASSUME TypeOK, World
  PROVE  DoorMoves \/ (UNCHANGED door /\ \E es \in Seq(Quiet) : evt' = evt \o es)
<1>1. CASE Power
  <2>1. "Voltage Alarm" \in Quiet /\ "Voltage Alarm Reset" \in Quiet
    BY DEF Quiet, Events
  <2>2. <<IF valarm THEN "Voltage Alarm Reset" ELSE "Voltage Alarm">> \in Seq(Quiet)
    BY <2>1, OneQuiet
  <2> QED BY <1>1, <2>2 DEF Power, Post
<1> QED BY <1>1, CalmArrivals, CalmIsQuiet

(***************************************************************************)
(* Timers.                                                                 *)
(***************************************************************************)
LEMMA ArmedPends == ASSUME NEW t, t \in armed' PROVE Pending(t)'
BY DEF Pending

\* A timer that no step cancels is still pending.
LEMMA PendingStays ==
  ASSUME UNCHANGED evt, NEW t, Pending(t), t \in armed => t \in armed' PROVE Pending(t)'
BY DEF Pending

\* The world takes no timer away: it runs out, and then its event waits.
LEMMA PendingOutside ==
  ASSUME TypeOK, World, NEW t \in Timers, Pending(t) PROVE Pending(t)'
<1>0. evt \in Seq(Events)
  BY DEF TypeOK, SiteOK
<1>1. \E es \in Seq(Events) :
        evt' = evt \o es /\ (UNCHANGED armed \/ \E u \in Timers : es = <<TimeoutOf(u)>> /\ armed' = armed \ {u})
  <2>1. CASE Timer
    <3>1. PICK u \in Timers : Expire(u)
      BY <2>1 DEF Timer
    <3>2. TimeoutOf(u) \in Events
      BY DEF Events
    <3>3. <<TimeoutOf(u)>> \in Seq(Events)
      BY <3>2, OneEventType
    <3> QED BY <3>1, <3>3 DEF Expire, Post
  <2>2. CASE ~Timer
    <3>1. UNCHANGED armed
      BY <2>2 DEF World, Swipe, PressKey, DoorMoves, Flow, PumpMotor, Power, ServerDaemon,
                  StatusAnswered, AuthAnswer, GatewayAccepts, GatewayRefuses, ServerLost,
                  FuelDelivered
    <3>2. ASSUME NEW es \in Seq(Quiet) PROVE es \in Seq(Events)
      BY QuietIsEvents
    <3>3. CASE DoorMoves
      <4>1. {"Door Closed", "Door Opened"} \subseteq Events
        BY DEF Events
      <4>2. (IF door THEN "Door Closed" ELSE "Door Opened") \in Events
        BY <4>1
      <4>3. <<IF door THEN "Door Closed" ELSE "Door Opened">> \in Seq(Events)
        BY <4>2, OneEventType
      <4> QED BY <3>1, <3>3, <4>3 DEF DoorMoves, Post
    <3> QED BY <3>1, <3>2, <3>3, Arrivals
  <2> QED BY <2>1, <2>2
<1>2. PICK es \in Seq(Events) :
        evt' = evt \o es /\ (UNCHANGED armed \/ \E u \in Timers : es = <<TimeoutOf(u)>> /\ armed' = armed \ {u})
  BY <1>1
<1>3. CASE \E i \in DOMAIN evt : evt[i] = TimeoutOf(t)
  BY <1>0, <1>2, <1>3, Appended DEF Pending
<1>4. CASE t \in armed /\ t \notin armed'
  <2>1. es = <<TimeoutOf(t)>> /\ 1 \in DOMAIN es
    BY <1>2, <1>4
  <2> QED BY <1>0, <1>2, <2>1, Appended DEF Pending
<1> QED BY <1>3, <1>4 DEF Pending

\* The global handler takes out the first event, and stops one timer only.
LEMMA PendingTaken ==
  ASSUME TypeOK, TakeEvent, NEW t \in Timers, Pending(t),
         t = "Dispensing" => status = "Dispensing"
  PROVE  Pending(t)' \/ Head(evt) = TimeoutOf(t)
<1>0. evt \in Seq(Events) /\ evt # <<>> /\ evt' = Tail(evt)
  BY DEF TypeOK, SiteOK, TakeEvent
<1>1. CASE t \in armed
  <2>1. t \in armed'
    BY <1>1 DEF TakeEvent, DoFlowmeter, DoorViolation, Disarm
  <2> QED BY <2>1, ArmedPends
<1>2. CASE \E i \in DOMAIN evt : evt[i] = TimeoutOf(t)
  BY <1>0, <1>2, Taken DEF Pending
<1> QED BY <1>1, <1>2 DEF Pending

(***************************************************************************)
(* The invariant.                                                          *)
(***************************************************************************)
\* The timer t ends the wait in the present state.
Ends(t) ==
  \/ status \in DialogStates /\ t = "Input"
  \/ status \in NetStates /\ t = "ServerResp"
  \/ status = "Dispensing" /\ t = "Dispensing"
  \/ status \in RestStates /\ t = "Status"

\* It is pending, or its event is the one to be handled.
TimedInv ==
  \A t \in Timers : Ends(t) =>
    /\ phase = "wait" => Pending(t)
    /\ phase = "handle" => Pending(t) \/ cur = TimeoutOf(t)

\* What a handler has to show: where it stays, the timer that ends the wait is set,
\* or was pending and goes on.
LEMMA HandlerKeepsTimed ==
  ASSUME UNCHANGED evt, phase' # "handle",
         phase' = "wait" =>
           /\ UNCHANGED status
           /\ \A t \in Timers : Ends(t) => t \in armed' \/ (Pending(t) /\ (t \in armed => t \in armed'))
  PROVE  TimedInv'
<1>1. ASSUME phase' = "wait", NEW t \in Timers, Ends(t)' PROVE Pending(t)'
  <2>1. Ends(t)
    BY <1>1 DEF Ends
  <2> QED BY <1>1, <2>1, ArmedPends, PendingStays
<1> QED BY <1>1 DEF TimedInv

\* While an event is handled that is not its own, the timer of the state is pending.
LEMMA HandledPends ==
  ASSUME TimedInv, phase = "handle", NEW t \in Timers, Ends(t), cur # TimeoutOf(t)
  PROVE  Pending(t)
BY DEF TimedInv

\* The states of rest set their timer where they stay, or were not woken by it.
LEMMA TimedRest == TypeOK /\ TimedInv /\ RestStep => TimedInv'
<1> SUFFICES ASSUME TypeOK, TimedInv, RestStep PROVE TimedInv'
  OBVIOUS
<1>1. UNCHANGED evt /\ phase' # "handle"
  BY DEF RestStep, doIdle, doNoFuel, doNoServer, doShutdown, doWaitDoorClosed, Left, Move, Stay,
         Goto, DoReset, ResetTo
<1>2. ASSUME phase' = "wait" 
      PROVE  /\ UNCHANGED status
             /\ \A t \in Timers : Ends(t) => t \in armed' \/ (Pending(t) /\ (t \in armed => t \in armed'))
  <2> USE DEF Left, Move, Stay, Goto, DoReset, ResetTo, Entering, Leaving, Handling, Arm
  <2>0. UNCHANGED status
    BY <1>2 DEF RestStep, doIdle, doNoFuel, doNoServer, doShutdown, doWaitDoorClosed
  <2>1. ASSUME NEW t \in Timers, Ends(t)
        PROVE  t \in armed' \/ (Pending(t) /\ (t \in armed => t \in armed'))
    <3>1. CASE status \in {"Shutdown", "WaitDoorClosed"}
      BY <2>1, <3>1 DEF Ends, DialogStates, NetStates, RestStates
    <3>2. CASE status \in RestStates
      <4>1. t = "Status"
        BY <2>1, <3>2 DEF Ends, DialogStates, NetStates, RestStates
      <4>2. TimeoutOf(t) = "Status Timeout"
        BY <4>1, EventNames
      <4>3. t \in armed' \/ (phase = "handle" /\ cur # "Status Timeout" /\ (t \in armed => t \in armed'))
        <5>1. CASE doIdle
          BY <1>2, <4>1, <5>1 DEF doIdle, ServerDown
        <5>2. CASE doNoFuel
          BY <1>2, <4>1, <5>2 DEF doNoFuel, ServerDown
        <5>3. CASE doNoServer
          BY <1>2, <4>1, <5>3 DEF doNoServer, ResetTargets, RestState
        <5> QED BY <3>2, <5>1, <5>2, <5>3 DEF RestStep, RestStates, doShutdown, doWaitDoorClosed
      <4> QED BY <2>1, <4>2, <4>3, HandledPends
    <3> QED BY <3>1, <3>2 DEF RestStep, doIdle, doNoFuel, doNoServer, doShutdown,
               doWaitDoorClosed, RestStates
  <2> QED BY <2>0, <2>1
<1> QED BY <1>1, <1>2, HandlerKeepsTimed

\* In a dialog, a key sets the Input timer again, and the timeout ends the dialog.
LEMMA TimedSale == TypeOK /\ TimedInv /\ SaleStep => TimedInv'
<1> SUFFICES ASSUME TypeOK, TimedInv, SaleStep PROVE TimedInv'
  OBVIOUS
<1> USE DEF Left, Move, Stay, Goto, DoReset, ResetTo, Handling, Arm, Again, Then, ThenReset,
        Ignore, Sell, PaySurcharge, EnterAmount, Confirm
<1> DEFINE Dialogs == doUserLogin \/ doAskRenew \/ doAskBuyMemb \/ doAskUpgrade
          \/ doAskRenewExpired \/ doRenewExpired \/ doBuyMemb \/ doSPNConf
          \/ doAskDeclined \/ doMSRReswipe \/ doSetPreAuth
<1>0. status \in DialogStates
  BY DEF SaleStep, DialogEnter, DialogExit, DialogStates, doUserLogin, doAskRenew, doAskBuyMemb,
     doAskUpgrade, doAskRenewExpired, doRenewExpired, doBuyMemb, doSPNConf, doAskDeclined,
     doMSRReswipe, doSetPreAuth
<1>1. UNCHANGED evt /\ phase' # "handle"
  BY DEF SaleStep, DialogEnter, DialogExit, doUserLogin, doAskRenew, doAskBuyMemb, doAskUpgrade,
     doAskRenewExpired, doRenewExpired, doBuyMemb, doSPNConf, doAskDeclined, doMSRReswipe,
     doSetPreAuth
<1>2. \A up : ResetTargets(up) \cap DialogStates = {}
  BY DEF ResetTargets, RestState, DialogStates
<1>3. ASSUME phase' = "wait"
      PROVE  /\ UNCHANGED status
             /\ "Input" \in armed' \/ (phase = "handle" /\ cur # "Input Timeout" /\ UNCHANGED armed)
  <2>1. CASE DialogEnter \/ DialogExit
    BY <1>3, <2>1 DEF DialogEnter, DialogExit
  <2>2. CASE Dialogs
    BY <1>0, <1>2, <1>3, <2>2 DEF doUserLogin, doAskRenew, doAskBuyMemb, doAskUpgrade,
       doAskRenewExpired, doRenewExpired, doBuyMemb, doSPNConf, doAskDeclined, doMSRReswipe,
       doSetPreAuth, AfterRenewal
  <2> QED BY <2>1, <2>2 DEF SaleStep
<1>4. ASSUME NEW t \in Timers, Ends(t) PROVE t = "Input" /\ TimeoutOf(t) = "Input Timeout"
  BY <1>0, <1>4, EventNames DEF Ends, DialogStates, NetStates, RestStates
<1> HIDE DEF Dialogs
<1> QED BY <1>1, <1>3, <1>4, HandledPends, HandlerKeepsTimed

\* No reset leads to a state that waits for the server, or dispenses.
LEMMA ResetsToRest ==
  \A up : ResetTargets(up) \cap (NetStates \cup {"Dispensing"}) = {}
BY DEF ResetTargets, RestState, NetStates

\* A state that waits for the server has one timer to end the wait.
LEMMA EndsInNet ==
  ASSUME status \in NetStates, NEW t, Ends(t)
  PROVE  t = "ServerResp" /\ TimeoutOf(t) = "ServerResp Timeout"
BY EventNames DEF Ends, DialogStates, NetStates, RestStates

\* A request and its repetitions have the ServerResp timer; its timeout leaves the state, or
\* repeats the request and sets it again.
LEMMA TimedCard == TypeOK /\ TimedInv /\ CardStep => TimedInv'
<1> SUFFICES ASSUME TypeOK, TimedInv, CardStep PROVE TimedInv'
  OBVIOUS
<1> USE ResetsToRest DEF Left, Move, Stay, Goto, DoReset, ResetTo, Entering, Leaving, Handling,
        Arm, Disarm, Then, ThenReset, Ignore
<1> DEFINE Goes(t) == t \in armed' \/ (phase = "handle" /\ cur # TimeoutOf(t)
                                        /\ (t \in armed => t \in armed'))
<1>1. UNCHANGED evt
  BY DEF CardStep
<1>2. ASSUME status \in NetStates, phase' # "handle",
             phase' = "wait" => UNCHANGED status /\ Goes("ServerResp")
      PROVE  TimedInv'
  BY <1>1, <1>2, EndsInNet, HandledPends, HandlerKeepsTimed
<1>t. TimeoutOf("ServerResp") = "ServerResp Timeout"
  BY EventNames
<1>3. CASE doServerAuth
  <2>1. status = "ServerAuth" /\ phase' # "handle"
    BY <1>3 DEF doServerAuth, ServerAuthEnter
  <2>2. phase' = "wait" => UNCHANGED status /\ Goes("ServerResp")
    BY <1>3, <1>t DEF doServerAuth, ServerAuthEnter, NetStates, AfterRenewal
  <2> QED BY <1>2, <2>1, <2>2 DEF NetStates
<1>4. CASE doRegNewMemb
  <2>1. status = "RegNewMemb" /\ phase' # "handle"
    BY <1>4 DEF doRegNewMemb
  <2>2. phase' = "wait" => UNCHANGED status /\ Goes("ServerResp")
    BY <1>4, <1>t DEF doRegNewMemb, AfterRegistration
  <2> QED BY <1>2, <2>1, <2>2 DEF NetStates
<1>5. CASE doGatewayPreAuth
  <2>1. status = "GatewayPreAuth" /\ phase' # "handle"
    BY <1>5 DEF doGatewayPreAuth, GatewayPreAuthEnter, PreAuthAnswer
  <2>2. phase' = "wait" => UNCHANGED status /\ Goes("ServerResp")
    <3>1. AfterPreAuth # "GatewayPreAuth"
      BY DEF AfterPreAuth, AfterRegistration
    <3>2. CASE GatewayPreAuthEnter
      BY <3>1, <3>2 DEF GatewayPreAuthEnter
    <3>3. CASE Handling("GatewayPreAuth") /\ PreAuthAnswer
      <4>1. "ServerResp" # "GW Retry"
        OBVIOUS
      <4>2. CASE cur = "ServerResp Timeout" \/ cur \in ServerDown
        BY <3>3, <4>2 DEF PreAuthAnswer, NetStates, AskedAgain, ServerDown
      <4>3. CASE cur \notin {"ServerResp Timeout"} \cup ServerDown
        BY <1>t, <3>1, <3>3, <4>3 DEF PreAuthAnswer, NetStates
      <4> QED BY <4>2, <4>3
    <3> QED BY <1>5, <1>t, <2>1, <3>2, <3>3 DEF doGatewayPreAuth
  <2> QED BY <1>2, <2>1, <2>2 DEF NetStates
<1>6. CASE doGatewayCapture
  <2>1. status = "GatewayCapture" /\ phase' # "handle"
    BY <1>6 DEF doGatewayCapture, CaptureEnter, CaptureExit, AskGateway, GiveUp
  <2>2. phase' = "wait" => UNCHANGED status /\ Goes("ServerResp")
    <3>1. CASE CaptureEnter \/ CaptureExit
      BY <3>1 DEF CaptureEnter, CaptureExit, NetStates
    <3>2. CASE Handling("GatewayCapture") /\ AskGateway
      BY <3>2 DEF AskGateway, GiveUp, NetStates
    <3>3. CASE Handling("GatewayCapture") /\ cur \in GWRejectEvts /\ GiveUp
      BY <3>3 DEF GiveUp, NetStates
    <3>4. CASE Handling("GatewayCapture") /\ cur \in GWRetryEvts /\ Arm("GW Retry") /\ Stay
      BY <3>4, <1>t DEF GWRetryEvts
    <3>5. CASE Handling("GatewayCapture") /\ DoReset
      BY <3>5 DEF NetStates
    <3>6. CASE Handling("GatewayCapture") /\ (Then("NoServer") \/ (Ignore /\ cur # "ServerResp Timeout"))
      BY <3>6, <1>t
    <3> QED BY <1>6, <3>1, <3>2, <3>3, <3>4, <3>5, <3>6 DEF doGatewayCapture
  <2> QED BY <1>2, <2>1, <2>2 DEF NetStates
<1>7. CASE doDispensing
  <2>1. status = "Dispensing" /\ phase' # "handle"
    BY <1>7 DEF doDispensing, DispensingEnter, DispensingExit
  <2>2. phase' = "wait" => UNCHANGED status /\ Goes("Dispensing")
    BY <1>7, EventNames DEF doDispensing, DispensingEnter, DispensingExit, DispensingOver
  <2>3. ASSUME NEW t, Ends(t) PROVE t = "Dispensing"
    BY <2>1, <2>3 DEF Ends, DialogStates, NetStates, RestStates
  <2> QED BY <1>1, <2>1, <2>2, <2>3, HandledPends, HandlerKeepsTimed
<1> QED BY <1>3, <1>4, <1>5, <1>6, <1>7 DEF CardStep

\* A handler of operator mode returns a state, or is the last of the one that is left.
LEMMA OperatorMoves == OperatorStep => Left \/ \E s : Goto(s)
<1> SUFFICES ASSUME OperatorStep PROVE Left \/ \E s : Goto(s)
  OBVIOUS
<1> USE DEF Move, Stay, DoReset, ResetTo, Then, ThenReset, Ignore, Again
<1>1. OperatorEvent => \E s : Goto(s)
  BY DEF OperatorEvent, OperatorCodeTyped
<1>2. CASE doOperator
  BY <1>1, <1>2 DEF doOperator, OperatorEnter, OperatorReenter, OperatorExit
<1>3. CASE SubStateEnter \/ SubStateExit
  BY <1>3 DEF SubStateEnter, SubStateExit
<1>4. ASSUME NEW r, Menu(r) PROVE \E s : Goto(s)
  BY <1>1, <1>4 DEF Menu, MenuKey, HandOver, SubExit, SubStay
<1>5. CASE doMenu
  <2>1. \/ \E r : Menu(r)
        \/ \E s, c : Leads(s, c)
    BY <1>5 DEF doMenu, doCalOnAmps, doCalOffAmps, doCalKFact, doSetTankCap, doSetLowFuel,
      doSetNoFuel, doSetOperSPN, doConfOperSPN, doSetAvailGal, doSetFuelType, doSetPPG,
      NextMenu, SettingsSaved, SettingsDropped
  <2> QED BY <1>4, <2>1 DEF Leads
<1>6. CASE doCalMenu \/ doShowStatus \/ doShowNetStatus
  BY <1>1, <1>6 DEF doCalMenu, doShowStatus, doShowNetStatus, Show, HandOver, SubExit, SubStay
<1> QED BY <1>2, <1>3, <1>5, <1>6 DEF OperatorStep, SubStep

\* Operator mode ends in no state it could wait in without a timer.
LEMMA TimedOperator == TimedInv /\ OperatorStep => TimedInv'
<1> SUFFICES ASSUME OperatorStep PROVE TimedInv'
  OBVIOUS
<1>1. status \in SubStates \cup {"Operator"}
  BY DEF OperatorStep, SubStep, doOperator, OperatorEnter, OperatorReenter, OperatorExit, Entering,
     Leaving, Handling, SubStateEnter, SubStateExit, doCalMenu, doMenu, doCalOnAmps, doCalOffAmps,
     doCalKFact, doSetTankCap, doSetLowFuel, doSetNoFuel, doSetOperSPN, doConfOperSPN,
     doSetAvailGal, doSetFuelType, doSetPPG, doShowStatus, doShowNetStatus, SubStates
<1>2. Left \/ \E s : Goto(s)
  BY OperatorMoves
<1>3. phase' # "handle" /\ (phase' = "wait" => UNCHANGED status)
  BY <1>2 DEF Left, Goto
<1>4. UNCHANGED evt
  BY DEF OperatorStep, SubStep, doOperator
<1>5. \A t : ~Ends(t)
  BY <1>1 DEF Ends, SubStates, DialogStates, NetStates, RestStates
<1> QED BY <1>3, <1>4, <1>5, HandlerKeepsTimed

\* The event that is read is handled, or the state is left.
LEMMA TimedTake == TypeOK /\ TimedInv /\ TakeEvent => TimedInv'
<1> SUFFICES ASSUME TypeOK, TimedInv, TakeEvent, NEW t \in Timers, Ends(t)', phase' # "exit"
             PROVE  phase' = "handle" /\ (Pending(t)' \/ cur' = TimeoutOf(t))
  BY DEF TimedInv, TakeEvent, Preempt, Dispatch
<1>1. phase = "wait" /\ phase' = "handle" /\ UNCHANGED status /\ cur' = Head(evt)
  BY DEF TakeEvent, Preempt, Dispatch
<1>2. Ends(t)
  BY <1>1 DEF Ends
<1>3. t = "Dispensing" => status = "Dispensing"
  BY <1>2 DEF Ends
<1> QED BY <1>1, <1>2, <1>3, PendingTaken DEF TimedInv

\* What is outside takes no timer without its event.
LEMMA TimedWorld == TypeOK /\ TimedInv /\ World => TimedInv'
<1> SUFFICES ASSUME TypeOK, TimedInv, World PROVE TimedInv'
  OBVIOUS
<1>1. UNCHANGED <<status, phase, cur>>
  BY WorldIsOutside DEF ctl
<1> QED BY <1>1, PendingOutside DEF TimedInv, Ends

\* Every state that waits, for the customer, the server, the gateway or nobody, has a timer
\* running, or its event in the FIFO, that will end the wait: whichever events come in whichever
\* order, no step of a session, a power failure or the operator leaves the kiosk stuck.
THEOREM WaitsAlwaysTimed == Spec => []WaitsAreTimed
<1>1. Init => TimedInv
  BY DEF Init, TimedInv
<1>2. TypeOK /\ TimedInv /\ [Next]_vars => TimedInv'
  <2> SUFFICES ASSUME TypeOK, TimedInv, [Next]_vars PROVE TimedInv'
    OBVIOUS
  <2>1. CASE UNCHANGED vars
    BY <2>1 DEF vars, ctl, TimedInv, Ends, Pending
  <2> QED BY <2>1, TimedRest, TimedSale, TimedCard, TimedOperator, TimedTake, TimedWorld
          DEF Next, FSMStep
<1>3. TimedInv => WaitsAreTimed
  BY DEF TimedInv, Ends, WaitsAreTimed, Timers
<1> QED BY <1>1, <1>2, <1>3, TypeCorrect, PTL DEF Spec

(***************************************************************************)
(* The strike.  StrikeTimed is inductive.                                  *)
(***************************************************************************)
\* A handler turns the strike off, sets its timer, or leaves both alone.
StrikeKept ==
  \/ ~strike' \/ "StrikeRly" \in armed'
  \/ UNCHANGED strike /\ ("StrikeRly" \in armed => "StrikeRly" \in armed')

\* A handler that leaves the strike as it is, with its timer, or off.
LEMMA KeptIsTimed == ASSUME StrikeTimed, StrikeKept, UNCHANGED evt PROVE StrikeTimed'
BY ArmedPends, PendingStays DEF StrikeTimed, StrikeKept

\* A reset turns the strike off.
LEMMA ResetDropsStrike ==
  ASSUME NEW up, ResetTo(up) PROVE ~strike'
BY DEF ResetTo, ClearSession

\* By kind of state: the strike is left alone with its timer, turned on with it, or off.
LEMMA StrikeRest == RestStep => StrikeKept
BY ResetDropsStrike DEF RestStep, doIdle, doNoFuel, doNoServer, doShutdown, doWaitDoorClosed,
   Move, Stay, DoReset, Arm, Disarm, relays, StrikeKept

LEMMA StrikeSale == SaleStep => StrikeKept
BY ResetDropsStrike DEF SaleStep, DialogEnter, DialogExit, doUserLogin, doAskRenew, doAskBuyMemb,
   doAskUpgrade, doAskRenewExpired, doRenewExpired, doBuyMemb, doSPNConf, doAskDeclined,
   doMSRReswipe, doSetPreAuth, Confirm, ThenReset, Then, Ignore, Again, Stay, Move, Sell,
   PaySurcharge, EnterAmount, DoReset, Arm, Disarm, relays, StrikeKept

LEMMA StrikeCard == CardStep => StrikeKept
<1> SUFFICES ASSUME CardStep PROVE StrikeKept
  OBVIOUS
<1> USE ResetDropsStrike DEF DoReset, ThenReset, Then, Ignore, Stay, Move, Arm, Disarm, relays,
        StrikeKept
<1>1. CASE doServerAuth
  BY <1>1 DEF doServerAuth, ServerAuthEnter
<1>2. CASE doRegNewMemb
  BY <1>2 DEF doRegNewMemb
<1>3. CASE doGatewayPreAuth
  BY <1>3 DEF doGatewayPreAuth, GatewayPreAuthEnter, PreAuthAnswer
<1>4. CASE doDispensing
  BY <1>4 DEF doDispensing, DispensingEnter, DispensingExit
<1>5. CASE doGatewayCapture
  BY <1>5 DEF doGatewayCapture, CaptureEnter, CaptureExit, AskGateway, GiveUp, ClearSession
<1> QED BY <1>1, <1>2, <1>3, <1>4, <1>5 DEF CardStep

LEMMA StrikeOperator == OperatorStep => StrikeKept
<1> SUFFICES ASSUME OperatorStep PROVE StrikeKept
  OBVIOUS
<1> USE ResetDropsStrike DEF DoReset, ThenReset, Then, Ignore, Again, Stay, Move, Arm, Disarm,
        relays, StrikeKept
<1>1. OperatorEvent => StrikeKept
  BY DEF OperatorEvent, OperatorCodeTyped
<1>2. CASE doOperator
  BY <1>1, <1>2 DEF doOperator, OperatorEnter, OperatorReenter, OperatorExit
<1>3. CASE SubStateEnter \/ SubStateExit
  BY <1>3 DEF SubStateEnter, SubStateExit
<1>4. ASSUME NEW r, Menu(r) PROVE StrikeKept
  BY <1>1, <1>4 DEF Menu, MenuKey, HandOver, SubExit, SubStay
<1>5. CASE doMenu
  <2>1. \/ \E r : Menu(r)
        \/ \E s, c : Leads(s, c)
    BY <1>5 DEF doMenu, doCalOnAmps, doCalOffAmps, doCalKFact, doSetTankCap, doSetLowFuel,
      doSetNoFuel, doSetOperSPN, doConfOperSPN, doSetAvailGal, doSetFuelType, doSetPPG,
      NextMenu, SettingsSaved, SettingsDropped
  <2> QED BY <1>4, <2>1 DEF Leads
<1>6. CASE doCalMenu \/ doShowStatus \/ doShowNetStatus
  BY <1>1, <1>6 DEF doCalMenu, doShowStatus, doShowNetStatus, Show, HandOver, SubExit, SubStay
<1> QED BY <1>2, <1>3, <1>5, <1>6 DEF OperatorStep, SubStep

\* Its own timeout is what turns it off in any state.
LEMMA StrikeTake == TypeOK /\ StrikeTimed /\ TakeEvent => StrikeTimed'
<1> SUFFICES ASSUME TypeOK, StrikeTimed, TakeEvent, strike' PROVE Pending("StrikeRly")'
  BY DEF StrikeTimed
<1>1. strike /\ Head(evt) # "StrikeRly Timeout"
  BY DEF TakeEvent, Preempt, Dispatch, DoFlowmeter, DoorViolation, relays
<1>2. Pending("StrikeRly") /\ "StrikeRly" \in Timers
  BY <1>1 DEF StrikeTimed, Timers
<1> QED BY <1>1, <1>2, PendingTaken, EventNames

\* Whoever opened the strike, a customer's session or the operator, and whatever ended the state
\* that did, its timer is pending as long as it is energized: the coil is released.
THEOREM StrikeAlwaysTimed == Spec => []StrikeTimed
<1>1. Init => StrikeTimed
  BY DEF Init, StrikeTimed
<1>2. TypeOK /\ StrikeTimed /\ [Next]_vars => StrikeTimed'
  <2> SUFFICES ASSUME TypeOK, StrikeTimed, [Next]_vars PROVE StrikeTimed'
    OBVIOUS
  <2>1. CASE UNCHANGED vars
    BY <2>1 DEF vars, relays, StrikeTimed, Pending
  <2>2. CASE RestStep \/ SaleStep \/ CardStep \/ OperatorStep
    <3>1. UNCHANGED evt
      BY <2>2 DEF RestStep, doIdle, doNoFuel, doNoServer, doShutdown, doWaitDoorClosed, SaleStep,
         CardStep, OperatorStep, doOperator, SubStep
    <3> QED BY <2>2, <3>1, StrikeRest, StrikeSale, StrikeCard, StrikeOperator, KeptIsTimed
  <2>3. CASE World
    <3>1. UNCHANGED relays /\ "StrikeRly" \in Timers
      BY <2>3, WorldIsOutside DEF Timers
    <3> QED BY <2>3, <3>1, PendingOutside DEF StrikeTimed, relays
  <2> QED BY <2>1, <2>2, <2>3, StrikeTake DEF Next, FSMStep
<1> QED BY <1>1, <1>2, TypeCorrect, PTL DEF Spec

(***************************************************************************)
(* Operator mode, while the power lasts.  A power failure takes the state  *)
(* machine out of a menu with isSubstate set, and the next operator is     *)
(* taken for one who comes back from a menu: no timer is set then.         *)
(***************************************************************************)
OpStates == {"Operator"} \cup SubStates

\* Operator mode goes on: in a state that waits, on the way to a menu or back from one.
InMode ==
  \/ status \in OpStates /\ phase \in {"wait", "handle"}
  \/ status \in SubStates /\ phase = "enter"
  \/ status = "Operator" /\ phase = "enter" /\ isSubstate
  \/ status \in OpStates /\ phase = "exit" /\ target \in OpStates

OpTimed(t) == Pending(t) \/ (phase = "handle" /\ cur = TimeoutOf(t))

OpTimers == OpTimed("Operator") /\ (waitDoorClosed => OpTimed("DoorClose"))

NoAlarm == \A i \in DOMAIN evt : evt[i] # "Voltage Alarm"

\* isSubstate and operatorExit tell a switch between the menus from the end of the mode.
OperFlags ==
  /\ status \in SubStates => isSubstate \/ (phase = "exit" /\ operatorExit)
  /\ status \notin OpStates => ~isSubstate /\ (phase = "exit" => target \notin SubStates)
  /\ status = "Operator" =>
       /\ phase \in {"wait", "handle"} => ~isSubstate
       /\ phase = "exit" => (isSubstate <=> target \in SubStates) /\ target # "Operator"
  /\ status \in SubStates =>
       /\ phase \in {"wait", "handle"} => ~operatorExit
       /\ phase = "exit" => (operatorExit <=> target \notin OpStates)

\* While the mode goes on its timers do.
OperInv == NoAlarm /\ OperFlags /\ (InMode => OpTimers)

\* A handler of another state leads to no menu.
LEMMA OutsideMoves ==
  ASSUME RestStep \/ SaleStep \/ CardStep
  PROVE  /\ status \notin OpStates /\ UNCHANGED <<oper, evt>>
         /\ (phase = "exit" /\ Left) \/ \E s \in States \ SubStates : Goto(s)
<1> USE DEF Move, Stay, DoReset, ResetTo, Then, ThenReset, Ignore, Again, Entering, Leaving, Handling
<1> DEFINE Moves == (phase = "exit" /\ Left) \/ \E s \in States \ SubStates : Goto(s)
           Elsewhere == DialogStates \cup NetStates \cup RestStates \cup {"Shutdown", "Dispensing", "WaitDoorClosed"}
<1>1. /\ Elsewhere \cap OpStates = {} /\ Elsewhere \subseteq States \ SubStates
      /\ "Operator" \in States \ SubStates
  BY DEF OpStates, SubStates, DialogStates, NetStates, RestStates, States
<1>2. UNCHANGED <<oper, evt>>
  BY DEF RestStep, doIdle, doNoFuel, doNoServer, doShutdown, doWaitDoorClosed, SaleStep, CardStep
<1>3. \A up : ResetTargets(up) \subseteq Elsewhere
  BY DEF ResetTargets, RestState, RestStates
<1>4. {AfterPreAuth, AfterRegistration, AfterRenewal} \subseteq Elsewhere
  BY DEF AfterPreAuth, AfterRegistration, AfterRenewal, NetStates, DialogStates
<1>5. {"Idle", "NoFuel", "NoServer", "Shutdown", "WaitDoorClosed", "UserLogin", "GatewayCapture", "Dispensing",
       "ServerAuth", "GatewayPreAuth", "RegNewMemb"} \cup DialogStates \subseteq Elsewhere
  BY DEF DialogStates, NetStates, RestStates
<1>6. \A s \in Elsewhere : Goto(s) => Moves
  BY <1>1
<1> HIDE DEF Elsewhere, Moves
<1>7. CASE RestStep
  <2>1. status \in Elsewhere
    BY <1>5, <1>7 DEF RestStep, doIdle, doNoFuel, doNoServer, doShutdown, doWaitDoorClosed
  <2>2. Moves
    BY <1>3, <1>5, <1>6, <1>7, <2>1 DEF Moves, RestStep, doIdle, doNoFuel, doNoServer, doShutdown, doWaitDoorClosed
  <2> QED BY <1>1, <1>2, <2>1, <2>2 DEF Moves
<1>8. CASE SaleStep
  <2>1. status \in DialogStates
    BY <1>8 DEF SaleStep, DialogEnter, DialogExit, doUserLogin, doAskRenew, doAskBuyMemb, doAskUpgrade,
      doAskRenewExpired, doRenewExpired, doBuyMemb, doSPNConf, doAskDeclined, doMSRReswipe,
      doSetPreAuth, Confirm, DialogStates
  <2>2. {"UserLogin", "AskRenew", "AskBuyMemb", "AskUpgrade", "BuyMemb", "SPNConf", "AskRenewExpired",
         "RenewExpired", "AskDeclined", "MSRReswipe", "SetPreAuth"} \subseteq Elsewhere
    BY <1>5 DEF DialogStates
  <2>3. Moves
    BY <1>3, <1>4, <1>5, <1>6, <1>8, <2>1, <2>2 DEF Moves, SaleStep, DialogEnter, DialogExit, doUserLogin,
      doAskRenew, doAskBuyMemb, doAskUpgrade, doAskRenewExpired, doRenewExpired, doBuyMemb, doSPNConf,
      doAskDeclined, doMSRReswipe, doSetPreAuth, Confirm, Sell, PaySurcharge, EnterAmount
  <2> QED BY <1>1, <1>2, <1>5, <2>1, <2>3 DEF Moves
<1>9. CASE CardStep
  <2>1. {"AskRenew", "AskBuyMemb", "AskRenewExpired", "MSRReswipe", "AskDeclined"} \subseteq Elsewhere
    BY <1>5 DEF DialogStates
  <2>2. status \in Elsewhere
    BY <1>5, <1>9 DEF CardStep, doServerAuth, ServerAuthEnter, doRegNewMemb, doGatewayPreAuth,
      GatewayPreAuthEnter, doDispensing, DispensingEnter, DispensingExit, doGatewayCapture, CaptureEnter,
      CaptureExit
  <2>3. doServerAuth => Moves
    BY <1>3, <1>4, <1>5, <1>6, <2>1, <2>2 DEF Moves, doServerAuth, ServerAuthEnter
  <2>4. doRegNewMemb => Moves
    BY <1>3, <1>4, <1>5, <1>6, <2>1, <2>2 DEF Moves, doRegNewMemb
  <2>5. doGatewayPreAuth => Moves
    BY <1>3, <1>4, <1>5, <1>6, <2>1, <2>2 DEF Moves, doGatewayPreAuth, GatewayPreAuthEnter, PreAuthAnswer
  <2>6. doDispensing => Moves
    BY <1>3, <1>4, <1>5, <1>6, <2>1, <2>2 DEF Moves, doDispensing, DispensingEnter, DispensingExit
  <2>7. doGatewayCapture => Moves
    BY <1>3, <1>4, <1>5, <1>6, <2>1, <2>2 DEF Moves, doGatewayCapture, CaptureEnter, CaptureExit,
      AskGateway, GiveUp
  <2>8. Moves
    BY <1>9, <2>3, <2>4, <2>5, <2>6, <2>7 DEF CardStep
  <2> QED BY <1>1, <1>2, <2>2, <2>8 DEF Moves
<1> QED BY <1>7, <1>8, <1>9

\* So operator mode is not entered halfway.
LEMMA OperOutside == OperInv /\ (RestStep \/ SaleStep \/ CardStep) => OperInv'
<1> SUFFICES ASSUME OperInv, RestStep \/ SaleStep \/ CardStep PROVE OperInv'
  OBVIOUS
<1>1. /\ status \notin OpStates /\ UNCHANGED <<isSubstate, evt>>
      /\ (phase = "exit" /\ Left) \/ \E s \in States \ SubStates : Goto(s)
  BY OutsideMoves DEF oper
<1>2. NoAlarm' /\ ~isSubstate'
  BY <1>1 DEF OperInv, OperFlags, NoAlarm
<1>3. CASE phase = "exit" /\ Left
  <2>1. status' \notin SubStates /\ phase' = "enter"
    BY <1>1, <1>3 DEF OperInv, OperFlags, Left
  <2> QED BY <1>2, <2>1 DEF OperInv, OperFlags, InMode, OpStates
<1>4. CASE \E s \in States \ SubStates : Goto(s)
  <2>1. UNCHANGED status /\ phase' \in {"wait", "exit"} /\ target' \notin SubStates
    BY <1>4 DEF Goto
  <2> QED BY <1>1, <1>2, <2>1 DEF OperInv, OperFlags, InMode, OpStates
<1> QED BY <1>1, <1>3, <1>4

\* The event that is read is the end of neither the mode nor its timers, before it is handled.
LEMMA OperTake == TypeOK /\ OperInv /\ TakeEvent => OperInv'
<1> SUFFICES ASSUME TypeOK, OperInv, TakeEvent PROVE OperInv'
  OBVIOUS
<1>0. evt \in Seq(Events) /\ evt # <<>> /\ evt' = Tail(evt) /\ phase = "wait" /\ UNCHANGED <<status, oper>>
  BY DEF TypeOK, SiteOK, TakeEvent, Preempt, Dispatch
<1>1. Head(evt) # "Voltage Alarm" /\ NoAlarm'
  <2>1. 1 \in DOMAIN evt /\ Head(evt) = evt[1]
    BY <1>0, HeadTailProperties
  <2>2. \A i \in DOMAIN evt' : i + 1 \in DOMAIN evt /\ evt'[i] = evt[i + 1]
    BY <1>0, HeadTailProperties
  <2> QED BY <2>1, <2>2 DEF OperInv, NoAlarm
<1>2. Dispatch(Head(evt)) \/ (status \notin OpStates /\ Preempt("Operator"))
  BY <1>1 DEF TakeEvent, OperatorCode, CanEnterOperator, OpStates
<1>3. CASE Dispatch(Head(evt))
  <2>1. ASSUME NEW t \in {"Operator", "DoorClose"}, OpTimed(t) PROVE OpTimed(t)'
    <3>1. t \in Timers /\ t # "Dispensing"
      BY DEF Timers
    <3>2. Pending(t)
      BY <1>0, <2>1 DEF OpTimed
    <3>3. Pending(t)' \/ Head(evt) = TimeoutOf(t)
      BY <3>1, <3>2, PendingTaken
    <3> QED BY <1>3, <3>3 DEF Dispatch, OpTimed
  <2>2. phase' = "handle" /\ UNCHANGED <<target, isSubstate, waitDoorClosed, operatorExit>>
    BY <1>0, <1>3 DEF Dispatch, oper
  <2>3. OperFlags'
    BY <1>0, <2>2 DEF OperInv, OperFlags
  <2>4. InMode' => InMode
    BY <1>0, <2>2 DEF InMode, OpStates
  <2> QED BY <1>1, <2>1, <2>2, <2>3, <2>4 DEF OperInv, OpTimers
<1>4. CASE status \notin OpStates /\ Preempt("Operator")
  <2>1. status' \notin OpStates /\ phase' = "exit" /\ target' = "Operator" /\ UNCHANGED isSubstate
    BY <1>0, <1>4 DEF Preempt, oper
  <2>2. "Operator" \notin SubStates
    BY DEF SubStates
  <2> QED BY <1>1, <1>4, <2>1, <2>2 DEF OperInv, OperFlags, InMode, OpStates
<1> QED BY <1>2, <1>3, <1>4

\* The world stops no timer, and its only alarm is the power's.
LEMMA OperWorld == "power" \notin Happens /\ TypeOK /\ OperInv /\ World => OperInv'
<1> SUFFICES ASSUME "power" \notin Happens, TypeOK, OperInv, World PROVE OperInv'
  OBVIOUS
<1>0. UNCHANGED <<status, phase, cur, target, isSubstate, waitDoorClosed, operatorExit>>
  BY WorldIsOutside DEF ctl, oper
<1>1. NoAlarm'
  <2>0. evt \in Seq(Events)
    BY DEF TypeOK, SiteOK
  <2>1. PICK es \in Seq(Events) : evt' = evt \o es /\ \A i \in DOMAIN es : es[i] # "Voltage Alarm"
    <3>1. CASE DoorMoves
      <4>1. (IF door THEN "Door Closed" ELSE "Door Opened") \in Events \ {"Voltage Alarm"}
        BY DEF Events
      <4>2. <<IF door THEN "Door Closed" ELSE "Door Opened">> \in Seq(Events)
        BY <4>1, OneEventType
      <4> DEFINE e == IF door THEN "Door Closed" ELSE "Door Opened"
      <4>3. e # "Voltage Alarm"
        OBVIOUS
      <4> HIDE DEF e
      <4>4. \A i \in DOMAIN <<e>> : <<e>>[i] # "Voltage Alarm"
        <5>1. \A i \in DOMAIN <<e>> : <<e>>[i] = e
          OBVIOUS
        <5> QED BY <4>3, <5>1
      <4> USE DEF e
      <4>5. evt' = evt \o <<IF door THEN "Door Closed" ELSE "Door Opened">>
        BY <3>1 DEF DoorMoves, Post
      <4> QED BY <4>2, <4>4, <4>5
    <3>2. ASSUME NEW es \in Seq(Calm) PROVE es \in Seq(Events) /\ \A i \in DOMAIN es : es[i] # "Voltage Alarm"
      <4>1. es \in Seq(Events)
        BY CalmIsQuiet, QuietIsEvents
      <4>2. \A i \in DOMAIN es : es[i] \in Calm
        OBVIOUS
      <4> QED BY <4>1, <4>2 DEF Calm
    <3>3. ~DoorMoves => \E es \in Seq(Calm) : evt' = evt \o es
      BY CalmArrivals DEF Power
    <3>4. CASE ~DoorMoves
      <4>1. PICK es \in Seq(Calm) : evt' = evt \o es
        BY <3>3, <3>4
      <4> QED BY <3>2, <4>1
    <3> QED BY <3>1, <3>4
  <2>2. ASSUME NEW i \in DOMAIN evt' PROVE evt'[i] # "Voltage Alarm"
    <3>0. /\ Len(evt) \in Nat /\ DOMAIN evt = 1 .. Len(evt) /\ Len(es) \in Nat /\ DOMAIN es = 1 .. Len(es)
          /\ i \in 1 .. (Len(evt) + Len(es))
      BY <2>0, <2>1, Appended
    <3>1. i \in DOMAIN evt \/ i - Len(evt) \in DOMAIN es
      BY <3>0
    <3>2. CASE i \in DOMAIN evt
      BY <2>0, <2>1, <3>2, Appended DEF OperInv, NoAlarm
    <3>3. CASE i - Len(evt) \in DOMAIN es
      <4>1. \A j \in DOMAIN es : evt'[Len(evt) + j] = es[j]
        BY <2>0, <2>1, Appended
      <4>2. Len(evt) + (i - Len(evt)) = i
        BY <3>0
      <4>3. evt'[Len(evt) + (i - Len(evt))] = es[i - Len(evt)]
        BY <3>3, <4>1
      <4>4. evt'[i] = es[i - Len(evt)]
        BY <4>2, <4>3
      <4> QED BY <2>1, <3>3, <4>4
    <3> QED BY <3>1, <3>2, <3>3
  <2> QED BY <2>2 DEF NoAlarm
<1>2. ASSUME NEW t \in {"Operator", "DoorClose"}, OpTimed(t) PROVE OpTimed(t)'
  <2>1. t \in Timers
    BY DEF Timers
  <2> QED BY <1>0, <1>2, <2>1, PendingOutside DEF OpTimed
<1> QED BY <1>0, <1>1, <1>2 DEF OperInv, OperFlags, InMode, OpTimers

\* A handler's timers: those that were pending go on, or are set.
TimersGo == Pending("Operator")' /\ (waitDoorClosed' => Pending("DoorClose")')

\* What doOperator does with an event: it ends the mode, stays, or leads to the first menu.
EventEnds == (\E s \in RestStates \cup {"WaitDoorClosed"} : Goto(s)) /\ UNCHANGED isSubstate
EventStays == Goto(status) /\ UNCHANGED isSubstate /\ TimersGo
EventLeads == Goto("CalMenu") /\ isSubstate' /\ TimersGo /\ cur = "Keypad Valid"

\* While an event is handled, its timer is not pending at most.
LEMMA OperPends ==
  ASSUME OperInv, phase = "handle", status \in OpStates, UNCHANGED evt
  PROVE  /\ (cur # "Operator Timeout" /\ ("Operator" \in armed => "Operator" \in armed')) => Pending("Operator")'
         /\ (waitDoorClosed /\ cur # "DoorClose Timeout" /\ ("DoorClose" \in armed => "DoorClose" \in armed'))
              => Pending("DoorClose")'
<1>1. OpTimed("Operator") /\ (waitDoorClosed => OpTimed("DoorClose"))
  BY DEF OperInv, InMode, OpTimers
<1>2. TimeoutOf("Operator") = "Operator Timeout" /\ TimeoutOf("DoorClose") = "DoorClose Timeout"
  BY EventNames
<1>3. /\ cur # "Operator Timeout" => Pending("Operator")
      /\ (waitDoorClosed /\ cur # "DoorClose Timeout") => Pending("DoorClose")
  BY <1>1, <1>2 DEF OpTimed
<1> QED BY <1>3, PendingStays

\* A reset leads to a state of rest, or waits for the door: operator mode is over.
LEMMA ResetEnds == ASSUME DoReset PROVE \E s \in RestStates \cup {"WaitDoorClosed"} : Goto(s)
BY DEF DoReset, ResetTo, ResetTargets, RestState, RestStates

\* An event that the menus have in common ends the mode, leaves it alone, or leads to a menu.
LEMMA EventOutcome ==
  ASSUME OperInv, phase = "handle", status \in OpStates, UNCHANGED evt, OperatorEvent
  PROVE  EventEnds \/ EventStays \/ EventLeads
<1> USE DEF Then, ThenReset, Ignore, Stay, Move
<1>1. ASSUME cur = "Keypad Valid", kp = "operator", OperatorCodeTyped PROVE EventEnds \/ EventStays
  <2>1. CASE DoorKnownOpen
    <3>1. Goto(status) /\ UNCHANGED isSubstate /\ armed' = armed \cup {"DoorClose"}
      BY <1>1, <2>1 DEF OperatorCodeTyped, Arm
    <3>2. Pending("Operator")' /\ Pending("DoorClose")'
      BY <1>1, <3>1, OperPends, ArmedPends
    <3> QED BY <3>1, <3>2 DEF EventStays, TimersGo
  <2>2. CASE ~DoorKnownOpen
    BY <1>1, <2>2, ResetEnds DEF OperatorCodeTyped, EventEnds
  <2> QED BY <2>1, <2>2
<1>2. ASSUME cur = "Keypad Valid", isSubstate' = TRUE, Then("CalMenu"), UNCHANGED waitDoorClosed
      PROVE  EventLeads
  BY <1>2, OperPends DEF EventLeads, TimersGo
<1>3. ASSUME DoReset, UNCHANGED isSubstate PROVE EventEnds
  BY <1>3, ResetEnds DEF EventEnds
<1>4. ASSUME Goto(status), UNCHANGED <<isSubstate, waitDoorClosed>>, armed \subseteq armed',
             cur \notin {"Operator Timeout", "DoorClose Timeout"}
      PROVE  EventStays
  BY <1>4, OperPends DEF EventStays, TimersGo
<1> QED BY <1>1, <1>2, <1>3, <1>4 DEF OperatorEvent, Arm

\* An event in the Operator state itself.
LEMMA OperEvent == ASSUME OperInv, Handling("Operator"), UNCHANGED evt, OperatorEvent PROVE OperInv'
<1>1. phase = "handle" /\ status = "Operator" /\ ~isSubstate /\ NoAlarm'
  BY DEF Handling, OperInv, OperFlags, NoAlarm
<1>2. "Operator" \notin SubStates /\ "CalMenu" \in SubStates /\ "CalMenu" # "Operator"
      /\ (RestStates \cup {"WaitDoorClosed"}) \cap OpStates = {}
  BY DEF SubStates, RestStates, OpStates
<1>3. CASE EventEnds
  <2>1. /\ status' = "Operator" /\ phase' = "exit" /\ target' \notin OpStates /\ ~isSubstate'
    BY <1>1, <1>2, <1>3 DEF EventEnds, Goto, OpStates
  <2> QED BY <1>1, <1>2, <2>1 DEF OperInv, OperFlags, InMode, OpStates
<1>4. CASE EventStays
  <2>1. /\ status' = "Operator" /\ phase' = "wait" /\ ~isSubstate'
    BY <1>1, <1>4 DEF EventStays, Goto
  <2> QED BY <1>1, <1>2, <1>4, <2>1 DEF OperInv, OperFlags, OpStates, EventStays, TimersGo, OpTimers, OpTimed
<1>5. CASE EventLeads
  <2>1. /\ status' = "Operator" /\ phase' = "exit" /\ target' = "CalMenu" /\ isSubstate'
    BY <1>1, <1>2, <1>5 DEF EventLeads, Goto
  <2> QED BY <1>1, <1>2, <1>5, <2>1 DEF OperInv, OperFlags, OpStates, EventLeads, TimersGo, OpTimers, OpTimed
<1> QED BY <1>1, <1>3, <1>4, <1>5, EventOutcome DEF OpStates

\* Entering the mode sets its timer; coming back and leaving for a menu keep it.
LEMMA OperOperator == ASSUME OperInv, doOperator PROVE OperInv'
<1>0. UNCHANGED evt /\ NoAlarm' /\ "Operator" \notin SubStates /\ UNCHANGED operatorExit
  BY DEF doOperator, OperInv, NoAlarm, SubStates
<1>1. CASE OperatorEnter
  <2>1. /\ status = "Operator" /\ status' = "Operator" /\ phase' = "wait" /\ ~isSubstate' /\ ~waitDoorClosed'
        /\ "Operator" \in armed'
    BY <1>1 DEF OperatorEnter, Entering, Goto
  <2>2. Pending("Operator")'
    BY <2>1, ArmedPends
  <2> QED BY <1>0, <2>1, <2>2 DEF OperInv, OperFlags, OpStates, OpTimers, OpTimed
<1>2. CASE OperatorReenter
  <2>1. /\ status = "Operator" /\ phase = "enter" /\ isSubstate /\ status' = "Operator" /\ phase' = "wait"
        /\ ~isSubstate' /\ UNCHANGED waitDoorClosed /\ armed \subseteq armed'
    BY <1>2 DEF OperatorReenter, Entering, Goto, Arm
  <2>2. Pending("Operator") /\ (waitDoorClosed => Pending("DoorClose"))
    BY <2>1 DEF OperInv, InMode, OpTimers, OpTimed
  <2>3. TimersGo
    BY <1>0, <2>1, <2>2, PendingStays DEF TimersGo
  <2> QED BY <1>0, <2>1, <2>3 DEF OperInv, OperFlags, OpStates, TimersGo, OpTimers, OpTimed
<1>3. CASE OperatorExit
  <2>1. /\ status = "Operator" /\ phase = "exit" /\ status' = target /\ phase' = "enter" /\ UNCHANGED isSubstate
        /\ isSubstate => UNCHANGED <<armed, waitDoorClosed>>
    BY <1>3 DEF OperatorExit, Leaving, Left
  <2>2. CASE isSubstate
    <3>1. target \in SubStates /\ Pending("Operator") /\ (waitDoorClosed => Pending("DoorClose"))
      BY <2>1, <2>2 DEF OperInv, OperFlags, InMode, OpStates, OpTimers, OpTimed
    <3>2. TimersGo
      BY <1>0, <2>1, <2>2, <3>1, PendingStays DEF TimersGo
    <3> QED BY <1>0, <2>1, <2>2, <3>1, <3>2 DEF OperInv, OperFlags, OpStates, TimersGo, OpTimers, OpTimed
  <2>3. CASE ~isSubstate
    <3>1. status' \notin OpStates /\ ~isSubstate'
      BY <2>1, <2>3 DEF OperInv, OperFlags, OpStates
    <3> QED BY <1>0, <2>1, <3>1 DEF OperInv, OperFlags, InMode, OpStates
  <2> QED BY <2>2, <2>3
<1> QED BY <1>0, <1>1, <1>2, <1>3, OperEvent DEF doOperator

\* An event that a menu leaves to doOperator.
LEMMA OperHandOver ==
  ASSUME OperInv, phase = "handle", status \in SubStates, UNCHANGED evt, HandOver,
         status = "CalMenu" \/ cur # "Keypad Valid"
  PROVE  OperInv'
<1>1. isSubstate /\ NoAlarm' /\ status # "Operator" /\ status \in OpStates
  BY DEF OperInv, OperFlags, NoAlarm, SubStates, OpStates
<1>2. (RestStates \cup {"WaitDoorClosed"}) \cap OpStates = {}
  BY DEF SubStates, RestStates, OpStates
<1>3. EventEnds \/ EventStays \/ EventLeads
  BY <1>1, EventOutcome DEF HandOver
<1>4. operatorExit' = (target' # status)
  BY DEF HandOver
<1>5. CASE EventEnds
  <2>1. /\ UNCHANGED status /\ phase' = "exit" /\ target' \notin OpStates /\ isSubstate' /\ operatorExit'
    BY <1>1, <1>2, <1>4, <1>5 DEF EventEnds, Goto
  <2> QED BY <1>1, <2>1 DEF OperInv, OperFlags, InMode
<1>6. CASE EventStays \/ EventLeads
  <2>1. /\ UNCHANGED status /\ phase' = "wait" /\ target' = status /\ isSubstate' /\ ~operatorExit' /\ TimersGo
    BY <1>1, <1>4, <1>6 DEF EventStays, EventLeads, Goto
  <2> QED BY <1>1, <2>1 DEF OperInv, OperFlags, TimersGo, OpTimers, OpTimed
<1> QED BY <1>3, <1>5, <1>6

\* A menu's own events: it stays, or leads to another, or back to Operator.
LEMMA OperSwitch ==
  ASSUME OperInv, phase = "handle", status \in SubStates, NEW s \in OpStates, Goto(s),
         UNCHANGED <<evt, isSubstate, waitDoorClosed, operatorExit>>, armed \ {"Input"} \subseteq armed',
         cur \notin {"Operator Timeout", "DoorClose Timeout"}
  PROVE  OperInv'
<1>1. isSubstate' /\ ~operatorExit' /\ NoAlarm' /\ status # "Operator" /\ status \in OpStates
  BY DEF OperInv, OperFlags, NoAlarm, SubStates, OpStates
<1>2. TimersGo
  BY <1>1, OperPends DEF TimersGo
<1>3. UNCHANGED status /\ phase' \in {"wait", "exit"} /\ target' \in OpStates
  BY DEF Goto
<1> QED BY <1>1, <1>2, <1>3 DEF OperInv, OperFlags, TimersGo, OpTimers, OpTimed

\* Keys are no timeouts.
LEMMA KeysAreKeys ==
  /\ \A e \in KeypadEvts : e \notin {"Operator Timeout", "DoorClose Timeout"}
  /\ \A k \in Keys : KeypadEvt(k) \in KeypadEvts
<1>1. {"Operator Timeout", "DoorClose Timeout"} \subseteq {TimeoutOf(t) : t \in Timers}
  <2>1. "Operator" \in Timers /\ "DoorClose" \in Timers
    BY DEF Timers
  <2>2. TimeoutOf("Operator") \in {TimeoutOf(t) : t \in Timers} /\ TimeoutOf("DoorClose") \in {TimeoutOf(t) : t \in Timers}
    BY <2>1
  <2> QED BY <2>2, EventNames
<1>2. \A k \in Keys : KeypadEvt(k) \in KeypadEvts
  BY DEF KeypadEvts
<1> QED BY <1>1, <1>2, EventNames

\* The menus, and what they show.
LEMMA OperSub == ASSUME OperInv, SubStep PROVE OperInv'
<1> DEFINE Same == UNCHANGED <<isSubstate, waitDoorClosed, operatorExit>>
<1>0. UNCHANGED evt /\ NoAlarm' /\ "Operator" \notin SubStates
  BY DEF SubStep, OperInv, NoAlarm, SubStates
<1>1. CASE SubStateEnter
  <2>1. /\ status \in SubStates /\ phase = "enter" /\ UNCHANGED status /\ phase' = "wait" /\ armed \subseteq armed'
        /\ UNCHANGED <<isSubstate, waitDoorClosed>> /\ ~operatorExit'
    BY <1>1 DEF SubStateEnter, Goto, Arm
  <2>2. isSubstate /\ Pending("Operator") /\ (waitDoorClosed => Pending("DoorClose"))
    BY <2>1 DEF OperInv, OperFlags, InMode, OpTimers, OpTimed
  <2>3. TimersGo
    BY <1>0, <2>1, <2>2, PendingStays DEF TimersGo
  <2> QED BY <1>0, <2>1, <2>2, <2>3 DEF OperInv, OperFlags, OpStates, TimersGo, OpTimers, OpTimed
<1>2. CASE SubStateExit
  <2>1. /\ status \in SubStates /\ phase = "exit" /\ status' = target /\ phase' = "enter"
    BY <1>2 DEF SubStateExit, Left
  <2>2. CASE operatorExit
    <3>1. ~isSubstate' /\ status' \notin OpStates
      BY <1>2, <2>1, <2>2 DEF SubStateExit, OperInv, OperFlags
    <3> QED BY <1>0, <2>1, <3>1 DEF OperInv, OperFlags, InMode, OpStates
  <2>3. CASE ~operatorExit
    <3>1. armed' = armed \ {"Input"} /\ UNCHANGED <<isSubstate, waitDoorClosed>> /\ isSubstate
      BY <1>2, <2>1, <2>3 DEF SubStateExit, Disarm, OperInv, OperFlags
    <3>2. target \in OpStates /\ Pending("Operator") /\ (waitDoorClosed => Pending("DoorClose"))
      BY <2>1, <2>3 DEF OperInv, OperFlags, InMode, OpStates, OpTimers, OpTimed
    <3>3. TimersGo
      BY <1>0, <3>1, <3>2, PendingStays DEF TimersGo
    <3> QED BY <1>0, <2>1, <3>1, <3>2, <3>3 DEF OperInv, OperFlags, OpStates, TimersGo, OpTimers, OpTimed
  <2> QED BY <2>2, <2>3
<1>3. ASSUME phase = "handle", status \in SubStates, NEW s \in OpStates, Goto(s), Same, armed \ {"Input"} \subseteq armed',
             cur \in KeypadEvts \cup {"Keypad Valid", "Input Timeout", "StrikeRly Timeout"}
      PROVE  OperInv'
  BY <1>0, <1>3, OperSwitch, KeysAreKeys
<1>4. \A s : s \in SubStates => s \in OpStates
  BY DEF OpStates
<1>5. "Operator" \in OpStates
  BY DEF OpStates
<1>6. \A k \in Keys : Key(k) => cur \in KeypadEvts
  BY KeysAreKeys DEF Key
<1>7. ASSUME NEW r, phase = "handle", status \in SubStates, Menu(r) PROVE OperInv'
  <2>1. CASE MenuKey(r)
    BY <1>3, <1>4, <1>5, <1>7, <2>1 DEF MenuKey, Move, Stay, Arm
  <2>2. CASE cur = "Input Timeout" /\ SubExit("Operator")
    BY <1>3, <1>5, <1>7, <2>2 DEF SubExit, Then, Move
  <2>3. CASE cur = "StrikeRly Timeout" /\ SubStay
    BY <1>3, <1>4, <1>7, <2>3 DEF SubStay, SubExit, Then, Move
  <2>4. CASE cur # "Keypad Valid" /\ HandOver
    BY <1>0, <1>7, <2>4, OperHandOver
  <2> QED BY <1>7, <2>1, <2>2, <2>3, <2>4 DEF Menu
<1>8. ASSUME NEW s \in OpStates, NEW c, phase = "handle", status \in SubStates, Leads(s, c) PROVE OperInv'
  BY <1>3, <1>8 DEF Leads, Move, Disarm
<1>9. CASE doCalMenu
  <2>1. phase = "handle" /\ status = "CalMenu" /\ {"CalMenu", "SetAvailGal", "ShowStatus", "CalOnAmps"} \subseteq SubStates
    BY <1>9 DEF doCalMenu, Handling, SubStates
  <2>2. {"*", "#", "1", "2", "3", "4", "5"} \subseteq Keys
    BY DEF Keys
  <2>3. CASE HandOver
    BY <1>0, <2>1, <2>3, OperHandOver
  <2>4. CASE ~HandOver
    <3>1. cur \in KeypadEvts \cup {"Input Timeout", "StrikeRly Timeout"}
          /\ \E s \in {"SetAvailGal", "ShowStatus", "CalOnAmps", "CalMenu", "Operator"} : SubExit(s)
      BY <1>6, <1>9, <2>1, <2>2, <2>4 DEF doCalMenu, SubStay
    <3>2. PICK s \in OpStates : SubExit(s)
      BY <1>4, <1>5, <2>1, <3>1
    <3> QED BY <1>3, <2>1, <3>1, <3>2 DEF SubExit, Then, Move
  <2> QED BY <2>3, <2>4
<1>10. CASE doMenu
  <2>1. phase = "handle" /\ status \in SubStates
    BY <1>10 DEF doMenu, doCalOnAmps, doCalOffAmps, doCalKFact, doSetTankCap, doSetLowFuel, doSetNoFuel,
       doSetOperSPN, doConfOperSPN, doSetAvailGal, doSetFuelType, doSetPPG, Handling, SubStates
  <2>2. \/ \E r \in BOOLEAN : Menu(r)
        \/ \E s \in OpStates, c \in BOOLEAN : Leads(s, c)
    BY <1>10 DEF doMenu, doCalOnAmps, doCalOffAmps, doCalKFact, doSetTankCap, doSetLowFuel,
        doSetNoFuel, doSetOperSPN, doConfOperSPN, doSetAvailGal, doSetFuelType, doSetPPG,
        NextMenu, SettingsSaved, SettingsDropped, OpStates, SubStates
  <2> QED BY <1>7, <1>8, <2>1, <2>2
<1>11. ASSUME phase = "handle", status \in SubStates, Show PROVE OperInv'
  <2>1. CASE cur = "Input Timeout" /\ Again /\ Same
    BY <1>3, <1>4, <1>11, <2>1 DEF Again, Arm, Stay, Move
  <2>2. CASE cur = "StrikeRly Timeout" /\ SubStay
    BY <1>3, <1>4, <1>11, <2>2 DEF SubStay, SubExit, Then, Move
  <2>3. CASE cur # "Keypad Valid" /\ HandOver
    BY <1>0, <1>11, <2>3, OperHandOver
  <2> QED BY <1>11, <2>1, <2>2, <2>3 DEF Show
<1>12. CASE doShowStatus \/ doShowNetStatus
  <2>1. phase = "handle" /\ status \in SubStates /\ status \in OpStates /\ "ShowNetStatus" \in OpStates
    BY <1>12 DEF doShowStatus, doShowNetStatus, Handling, SubStates, OpStates
  <2>2. \/ Show
        \/ /\ cur \in KeypadEvts \cup {"Keypad Valid"} /\ Same /\ armed \ {"Input"} \subseteq armed'
           /\ \E s \in OpStates : Goto(s)
    BY <1>5, <1>12, <2>1 DEF doShowStatus, doShowNetStatus, Arm, Disarm, Move, Again, Stay
  <2> QED BY <1>3, <1>11, <2>1, <2>2
<1> QED BY <1>1, <1>2, <1>9, <1>10, <1>12 DEF SubStep

\* The kiosk starts outside of operator mode.
LEMMA OperStarts == Init => OperInv
<1> SUFFICES ASSUME Init PROVE OperInv
  OBVIOUS
<1>1. evt = <<>> /\ phase = "enter" /\ status \in {"Idle", "NoServer"} /\ ~isSubstate
  BY DEF Init
<1> QED BY <1>1 DEF OperInv, OperFlags, NoAlarm, InMode, OpStates, SubStates

\* Every step keeps the mode's flags right, and its timers running.
LEMMA OperKept == ASSUME "power" \notin Happens, TypeOK, OperInv, [Next]_vars PROVE OperInv'
<1>1. CASE UNCHANGED vars
  BY <1>1 DEF vars, ctl, oper, OperInv, OperFlags, NoAlarm, InMode, OpTimers, OpTimed, Pending
<1> QED BY <1>1, OperOutside, OperTake, OperWorld, OperOperator, OperSub DEF Next, FSMStep, OperatorStep

\* Operator mode, in its menus as well, ends with the four-hour timeout at the latest, and a door
\* that is to be closed with its own, whichever events come in whichever order, as long as the
\* power does not fail (doOperator, and what the sub-states hand over to it).
THEOREM OperatorAlwaysTimed == ASSUME "power" \notin Happens PROVE Spec => []OperatorTimed
<1>1. TypeOK /\ OperInv /\ [Next]_vars => OperInv'
  BY OperKept
<1>2. OperInv => OperatorTimed
  BY DEF OperInv, InMode, OpStates, OpTimers, OpTimed, OperatorTimed
<1> QED BY <1>1, <1>2, OperStarts, TypeCorrect, PTL DEF Spec
=============================================================================
