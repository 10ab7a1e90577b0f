------------------------- MODULE KioskSafety_proofs -------------------------
(***************************************************************************)
(* What turns the pump on and keeps it on, and what a new member may be    *)
(* charged for, for every value of the constants.                          *)
(*                                                                         *)
(* PumpSafe is not inductive: the ExitState handlers of Operator and of    *)
(* the menus leave the pump on, which is right only because of where they  *)
(* lead.  PumpInv adds that.                                               *)
(*                                                                         *)
(* A customer's pump runs behind an open door, or the door's closing is on *)
(* its way to the state machine.  The state machine turns the pump on when *)
(* it reads that the door opened, and the door may be closed again by      *)
(* then.  It is safe because the FIFO keeps the order of the door's moves: *)
(* DoorInv.                                                                *)
(*                                                                         *)
(* A new member's transaction is captured by a state that several others   *)
(* lead to, and by the server daemon's answer to a request of long ago.    *)
(* SaleInv follows the unregistered membership through the states: where   *)
(* the transaction may end while it is there, doVoid is set; and when a    *)
(* capture of this session's waits, it is not there, nor can be again.     *)
(***************************************************************************)
EXTENDS KioskTimers_proofs


\* While the pump is on and a state other than Dispensing, whose ExitState handler
\* turns it off, is being left, it is left for another of operator mode or for Shutdown;
\* so Dispensing is entered with the pump off.
PumpInv ==
  pump =>
    \/ /\ status \in PumpStates
       /\ (phase = "exit" /\ status # "Dispensing")
            => target \in {"Operator", "Shutdown"} \cup SubStates
       /\ phase = "enter" => status # "Dispensing"
    \/ status = "Shutdown" /\ phase = "enter"

\* A reset turns the pump off.
LEMMA ResetStopsPump ==
  ASSUME NEW up, ResetTo(up) PROVE ~pump'
BY DEF ResetTo, ClearSession

\* The states in which nothing is under way never turn the pump on.
LEMMA PumpRest == PumpInv /\ RestStep => PumpInv'
<1> SUFFICES ASSUME PumpInv, RestStep PROVE ~pump'
  BY DEF PumpInv
<1> USE ResetStopsPump DEF PumpInv, PumpStates, SubStates, DoReset,
        Entering, Leaving, Handling, Stay, Move, relays
<1>1. CASE doIdle
  BY <1>1 DEF doIdle
<1>2. CASE doNoFuel
  BY <1>2 DEF doNoFuel
<1>3. CASE doNoServer
  BY <1>3 DEF doNoServer
<1>4. CASE doShutdown
  BY <1>4 DEF doShutdown
<1>5. CASE doWaitDoorClosed
  BY <1>5 DEF doWaitDoorClosed
<1> QED BY <1>1, <1>2, <1>3, <1>4, <1>5 DEF RestStep

\* The dialogs, in which the pump is off, leave it off.
LEMMA PumpSale == PumpInv /\ SaleStep => PumpInv'
<1> SUFFICES ASSUME PumpInv, SaleStep PROVE ~pump'
  BY DEF PumpInv
<1>1. ~pump
  BY DEF SaleStep, PumpInv, PumpStates, SubStates, DialogStates, DialogEnter, DialogExit,
     doUserLogin, doAskRenew, doAskBuyMemb, doAskUpgrade, doAskRenewExpired,
     doRenewExpired, doBuyMemb, doSPNConf, doAskDeclined, doMSRReswipe, doSetPreAuth,
     Confirm, Handling
<1>2. relays' = relays \/ ~pump'
  BY ResetStopsPump DEF SaleStep, DialogEnter, DialogExit,
     doUserLogin, doAskRenew, doAskBuyMemb, doAskUpgrade, doAskRenewExpired,
     doRenewExpired, doBuyMemb, doSPNConf, doAskDeclined, doMSRReswipe, doSetPreAuth,
     Confirm, ThenReset, Then, Ignore, Again, Stay, Move, Sell, PaySurcharge, EnterAmount, DoReset
<1> QED BY <1>1, <1>2 DEF relays

\* Dispensing turns the pump on, and off on its way to the capture.
LEMMA PumpCard == PumpInv /\ CardStep => PumpInv'
<1> SUFFICES ASSUME PumpInv, CardStep PROVE PumpInv'
  OBVIOUS
<1> USE ResetStopsPump DEF PumpInv, PumpStates, SubStates, DoReset, ThenReset, Then, Ignore,
        Entering, Leaving, Handling, Stay, Move, relays
<1>1. CASE doServerAuth
  BY <1>1 DEF doServerAuth, ServerAuthEnter
<1>2. CASE doRegNewMemb
  BY <1>2 DEF doRegNewMemb
<1>3. CASE doGatewayPreAuth
  BY <1>3 DEF doGatewayPreAuth, GatewayPreAuthEnter, PreAuthAnswer
<1>4. CASE doDispensing
  BY <1>4 DEF doDispensing, DispensingEnter, DispensingExit, Goto
<1>5. CASE doGatewayCapture
  <2>1. CASE CaptureEnter \/ CaptureExit
    BY <2>1 DEF CaptureEnter, CaptureExit
  <2>2. CASE Handling("GatewayCapture") /\ (AskGateway \/ GiveUp)
    BY <2>2 DEF AskGateway, GiveUp, ClearSession
  <2> QED BY <1>5, <2>1, <2>2 DEF doGatewayCapture
<1> QED BY <1>1, <1>2, <1>3, <1>4, <1>5 DEF CardStep

\* A menu is followed by a menu, or by Operator.
LEMMA PumpLeads ==
  ASSUME PumpInv, status \in SubStates, NEW s \in SubStates \cup {"Operator"},
         NEW c, Leads(s, c)
  PROVE  PumpInv'
BY DEF Leads, Move, Goto, PumpInv, PumpStates, SubStates, relays

\* Operator mode leaves the pump on only for its menus, and its menus for it.
LEMMA PumpOperator == PumpInv /\ OperatorStep => PumpInv'
<1> SUFFICES ASSUME PumpInv, OperatorStep PROVE PumpInv'
  OBVIOUS
<1> USE ResetStopsPump DEF PumpInv, PumpStates, SubStates, DoReset, ThenReset, Then, Ignore,
        Entering, Leaving, Handling, Stay, Move, relays
<1>1. ASSUME OperatorEvent, phase = "handle", status \in {"Operator"} \cup SubStates
      PROVE  PumpInv'
  BY <1>1 DEF OperatorEvent, OperatorCodeTyped, Goto
<1>2. CASE doOperator
  BY <1>1, <1>2 DEF doOperator, OperatorEnter, OperatorReenter, OperatorExit, Goto, Left
<1>3. CASE SubStateEnter \/ SubStateExit
  BY <1>3 DEF SubStateEnter, SubStateExit, Goto, Left
<1>4. CASE doCalMenu
  BY <1>1, <1>4 DEF doCalMenu, HandOver, SubExit, SubStay, Goto
<1>5. CASE doMenu
  <2>1. phase = "handle" /\ status \in SubStates
    BY <1>5 DEF doMenu, doCalOnAmps, doCalOffAmps, doCalKFact, doSetTankCap, doSetLowFuel,
        doSetNoFuel, doSetOperSPN, doConfOperSPN, doSetAvailGal, doSetFuelType, doSetPPG
  <2>2. \/ \E r \in BOOLEAN : Menu(r)
        \/ \E s \in SubStates \cup {"Operator"}, c \in BOOLEAN : Leads(s, c)
    BY <1>5 DEF doMenu, doCalOnAmps, doCalOffAmps, doCalKFact, doSetTankCap, doSetLowFuel,
        doSetNoFuel, doSetOperSPN, doConfOperSPN, doSetAvailGal, doSetFuelType, doSetPPG,
        NextMenu, SettingsSaved, SettingsDropped
  <2>3. ASSUME NEW r \in BOOLEAN, Menu(r) PROVE PumpInv'
    BY <1>1, <2>1, <2>3 DEF Menu, MenuKey, HandOver, SubExit, SubStay, Goto
  <2> QED BY <2>1, <2>2, <2>3, PumpLeads
<1>6. CASE doShowStatus \/ doShowNetStatus
  BY <1>1, <1>6 DEF doShowStatus, doShowNetStatus, Show, HandOver, SubStay, SubExit, Again, Goto
<1> QED BY <1>2, <1>3, <1>4, <1>5, <1>6 DEF OperatorStep, SubStep

\* The global handler only ever turns the pump off.
LEMMA PumpTake == PumpInv /\ TakeEvent => PumpInv'
BY DEF TakeEvent, PumpInv, PumpStates, SubStates, Preempt, Dispatch, DoFlowmeter, DoorViolation,
  relays, OperatorCode, CanEnterOperator

\* The world never moves the state machine, nor a relay.
LEMMA WorldKeepsOff == World => UNCHANGED <<ctl, relays>>
<1>1. Swipe \/ PressKey \/ DoorMoves \/ Flow \/ PumpMotor \/ Power => UNCHANGED <<ctl, relays>>
  BY DEF Swipe, PressKey, DoorMoves, Flow, PumpMotor, Power
<1>2. Timer => UNCHANGED <<ctl, relays>>
  BY DEF Timer, Expire
<1>3. ServerDaemon => UNCHANGED <<ctl, relays>>
  BY DEF ServerDaemon, StatusAnswered, AuthAnswer, GatewayAccepts, GatewayRefuses,
         ServerLost, FuelDelivered
<1> QED BY <1>1, <1>2, <1>3 DEF World

\* Nor does it break the invariant.
LEMMA PumpWorld == PumpInv /\ World => PumpInv'
BY WorldKeepsOff DEF PumpInv, ctl, relays

\* The pump is never on in a state other than Dispensing, Operator and its menus,
\* whatever preempts them (a power failure, the operator's code) and whichever
\* door, flow or timer event comes late; only the moment between a power
\* failure's being seen and doShutdown's turning the relays off is excepted.
THEOREM PumpIsSafe == Spec => []PumpSafe
<1>1. Init => PumpInv
  BY DEF Init, PumpInv
<1>2. PumpInv /\ [Next]_vars => PumpInv'
  BY PumpRest, PumpSale, PumpCard, PumpOperator, PumpTake, PumpWorld
     DEF Next, FSMStep, vars, ctl, relays, PumpInv
<1>3. PumpInv => PumpSafe
  BY DEF PumpInv, PumpSafe
<1> QED BY <1>1, <1>2, <1>3, PTL DEF Spec

(***************************************************************************)
(* The door.                                                               *)
(***************************************************************************)
Opening == "Door Opened"
Closing == "Door Closed"

\* The closing of the door is in the FIFO.
Closes == \E j \in DOMAIN evt : evt[j] = Closing

\* While the door is closed, every opening of it in the FIFO is followed by a closing,
\* and so is one that is being handled.
DoorInv ==
  ~door =>
    /\ \A i \in DOMAIN evt : evt[i] = Opening =>
         \E j \in DOMAIN evt : i < j /\ evt[j] = Closing
    /\ (phase = "handle" /\ cur = Opening) => Closes

\* The pump of a customer whose door is closed is going off.
ClosedInv ==
  (HasDRSN /\ status = "Dispensing" /\ pump /\ ~door) =>
    \/ phase = "exit"
    \/ phase = "handle" /\ cur = Closing
    \/ Closes

\* A closing that waits in the FIFO, or is being handled, still does when others are appended.
LEMMA ClosesKept ==
  ASSUME evt \in Seq(Events), NEW es \in Seq(Events), evt' = evt \o es, Closes
  PROVE  Closes'
BY Appended DEF Closes

\* The door moves only where the move is appended to the FIFO.
LEMMA DoorWorld ==
  ASSUME TypeOK, DoorInv, ClosedInv, World
  PROVE  DoorInv' /\ ClosedInv'
<1>0. evt \in Seq(Events) /\ UNCHANGED <<status, phase, cur, pump>>
  BY WorldIsOutside DEF TypeOK, SiteOK, ctl, relays
<1>d. Opening # Closing
  BY DEF Opening, Closing
<1>1. CASE DoorMoves
  <2>1. CASE door
    <3>1. evt' = evt \o <<Closing>> /\ <<Closing>> \in Seq(Events)
      <4>1. Closing \in Events
        BY DEF Events, Closing
      <4> QED BY <1>1, <2>1, <4>1, OneEventType DEF DoorMoves, Post, Closing
    <3>2. /\ Len(evt) \in Nat /\ Len(evt) + 1 \in DOMAIN evt'
          /\ evt'[Len(evt) + 1] = Closing
          /\ DOMAIN evt' = 1 .. (Len(evt) + 1)
      <4>1. Len(<<Closing>>) = 1 /\ <<Closing>>[1] = Closing
            /\ DOMAIN <<Closing>> = 1 .. 1
        OBVIOUS
      <4>2. /\ Len(evt) \in Nat /\ DOMAIN evt' = 1 .. (Len(evt) + 1)
            /\ evt'[Len(evt) + 1] = Closing
        BY <1>0, <3>1, <4>1, Appended
      <4> QED BY <4>2
    <3>3. Closes'
      BY <3>2 DEF Closes
    <3>4. \A i \in DOMAIN evt' : evt'[i] = Opening =>
            i < Len(evt) + 1
      <4> SUFFICES ASSUME NEW i \in DOMAIN evt', i # Len(evt) + 1 PROVE i < Len(evt) + 1
        BY <1>d, <3>2
      <4>1. i \in 1 .. (Len(evt) + 1)
        BY <3>2
      <4> QED BY <3>2, <4>1
    <3> QED BY <3>2, <3>3, <3>4 DEF DoorInv, ClosedInv
  <2>2. CASE ~door
    BY <1>1, <2>2 DEF DoorMoves, DoorInv, ClosedInv
  <2> QED BY <2>1, <2>2
<1>2. CASE ~DoorMoves
  <2>1. PICK es \in Seq(Quiet) : evt' = evt \o es
    BY <1>2, Arrivals
  <2>2. UNCHANGED door
    BY <1>2, Arrivals
  <2>3. es \in Seq(Events) /\ \A i \in DOMAIN es : es[i] # Opening
    <3>1. \A i \in DOMAIN es : es[i] \in Quiet
      BY LenProperties, ElementOfSeq
    <3> QED BY <3>1, QuietIsEvents DEF Quiet, Opening
  <2>4. Closes => Closes'
    BY <1>0, <2>1, <2>3, ClosesKept
  <2>5. ASSUME ~door, NEW i \in DOMAIN evt', evt'[i] = Opening
        PROVE  \E j \in DOMAIN evt' : i < j /\ evt'[j] = Closing
    <3>1. i \in DOMAIN evt
      <4>1. CASE i \notin DOMAIN evt
        <5>1. /\ Len(evt) \in Nat /\ Len(es) \in Nat
              /\ i \in 1 .. (Len(evt) + Len(es)) /\ i \notin 1 .. Len(evt)
          BY <1>0, <2>1, <2>3, <2>5, <4>1, Appended
        <5>2. i - Len(evt) \in 1 .. Len(es) /\ i = Len(evt) + (i - Len(evt))
          BY <5>1
        <5> QED BY <1>0, <2>1, <2>3, <2>5, <5>2, Appended
      <4> QED BY <4>1
    <3>2. evt[i] = Opening
      BY <1>0, <2>1, <2>3, <2>5, <3>1, Appended
    <3>3. PICK j \in DOMAIN evt : i < j /\ evt[j] = Closing
      BY <2>5, <3>1, <3>2 DEF DoorInv
    <3> QED BY <1>0, <2>1, <2>3, <3>3, Appended
  <2> QED BY <1>0, <2>2, <2>4, <2>5 DEF DoorInv, ClosedInv
<1> QED BY <1>1, <1>2

\* What is read first was followed by its closing, which is still there.
LEMMA DoorTake ==
  ASSUME TypeOK, PumpInv, DoorInv, ClosedInv, TakeEvent
  PROVE  DoorInv' /\ ClosedInv'
<1>0. /\ evt \in Seq(Events) /\ evt # <<>> /\ evt' = Tail(evt) /\ UNCHANGED <<door, status>>
      /\ phase = "wait" /\ (phase' = "exit" \/ (phase' = "handle" /\ cur' = Head(evt)))
  <2>1. evt \in Seq(Events)
    BY DEF TypeOK, SiteOK
  <2> QED BY <2>1 DEF TakeEvent, sensors, Preempt, Dispatch
<1>p. pump' => pump
  BY DEF TakeEvent, DoFlowmeter, DoorViolation, relays
<1>1. /\ Len(evt) \in Nat /\ DOMAIN evt = 1 .. Len(evt) /\ Head(evt) = evt[1] /\ 1 \in DOMAIN evt
      /\ DOMAIN evt' = 1 .. (Len(evt) - 1)
      /\ \A i \in DOMAIN evt' : i + 1 \in DOMAIN evt /\ evt'[i] = evt[i + 1]
      /\ \A i \in DOMAIN evt : i # 1 => i - 1 \in DOMAIN evt' /\ evt'[i - 1] = evt[i]
  <2>1. Len(evt) \in Nat /\ DOMAIN evt = 1 .. Len(evt) /\ Head(evt) = evt[1] /\ 1 \in DOMAIN evt
    BY <1>0, LenProperties, HeadTailProperties
  <2>2. /\ Tail(evt) \in Seq(Events) /\ Len(Tail(evt)) = Len(evt) - 1
        /\ \A i \in 1 .. Len(Tail(evt)) : Tail(evt)[i] = evt[i + 1]
    BY <1>0, HeadTailProperties
  <2>3. DOMAIN Tail(evt) = 1 .. (Len(evt) - 1)
    BY <2>2, LenProperties
  <2> QED BY <1>0, <2>1, <2>2, <2>3
<1>2. ASSUME ~door, NEW i \in DOMAIN evt', evt'[i] = Opening
      PROVE  \E j \in DOMAIN evt' : i < j /\ evt'[j] = Closing
  <2>1. PICK j \in DOMAIN evt : i + 1 < j /\ evt[j] = Closing
    BY <1>1, <1>2 DEF DoorInv
  <2>2. i \in Int /\ j \in Int /\ i > 0
    BY <1>1, <1>2
  <2>3. i < j - 1 /\ j # 1
    BY <2>1, <2>2
  <2>4. j - 1 \in DOMAIN evt' /\ evt'[j - 1] = Closing
    BY <1>1, <2>1, <2>3
  <2> QED BY <2>3, <2>4
<1>3. ASSUME ~door, Head(evt) = Opening PROVE Closes'
  <2>1. PICK j \in DOMAIN evt : 1 < j /\ evt[j] = Closing
    BY <1>1, <1>3 DEF DoorInv
  <2>2. j # 1
    BY <1>1, <2>1
  <2> QED BY <1>1, <2>1, <2>2 DEF Closes
<1>4. Closes => Closes' \/ Head(evt) = Closing
  BY <1>1 DEF Closes
<1>5. DoorInv'
  BY <1>0, <1>2, <1>3 DEF DoorInv
<1>6. ClosedInv'
  BY <1>0, <1>p, <1>4 DEF ClosedInv
<1> QED BY <1>5, <1>6

\* A handler returns a state, or is the last of the one that is left.
LEMMA HandlersMove ==
  RestStep \/ SaleStep \/ CardStep \/ OperatorStep => UNCHANGED <<door, evt>> /\ (Left \/ \E s : Goto(s))
<1> USE DEF Move, Stay, DoReset, ResetTo, Then, ThenReset, Ignore, Again, sensors
<1>1. CASE RestStep
  BY <1>1 DEF RestStep, doIdle, doNoFuel, doNoServer, doShutdown, doWaitDoorClosed
<1>2. CASE SaleStep
  BY <1>2 DEF SaleStep, DialogEnter, DialogExit, doUserLogin, doAskRenew, doAskBuyMemb, doAskUpgrade,
     doAskRenewExpired, doRenewExpired, doBuyMemb, doSPNConf, doAskDeclined, doMSRReswipe,
     doSetPreAuth, Confirm, Sell, PaySurcharge, EnterAmount
<1>3. CASE CardStep
  <2>1. doServerAuth => Left \/ \E s : Goto(s)
    BY DEF doServerAuth, ServerAuthEnter
  <2>2. doRegNewMemb => Left \/ \E s : Goto(s)
    BY DEF doRegNewMemb
  <2>3. doGatewayPreAuth => Left \/ \E s : Goto(s)
    BY DEF doGatewayPreAuth, GatewayPreAuthEnter, PreAuthAnswer
  <2>4. doDispensing => Left \/ \E s : Goto(s)
    BY DEF doDispensing, DispensingEnter, DispensingExit
  <2>5. doGatewayCapture => Left \/ \E s : Goto(s)
    BY DEF doGatewayCapture, CaptureEnter, CaptureExit, AskGateway, GiveUp
  <2>6. UNCHANGED <<door, evt>>
    BY <1>3 DEF CardStep
  <2> QED BY <1>3, <2>1, <2>2, <2>3, <2>4, <2>5, <2>6 DEF CardStep
<1>4. CASE OperatorStep
  <2>1. UNCHANGED <<door, evt>>
    BY <1>4 DEF OperatorStep, doOperator, SubStep
  <2> QED BY <1>4, <2>1, OperatorMoves
<1> QED BY <1>1, <1>2, <1>3, <1>4

\* Dispensing is entered with the pump off, and turns it on when it hears of an opening.
LEMMA DoorHandled ==
  ASSUME PumpInv, PumpInv', DoorInv, ClosedInv, RestStep \/ SaleStep \/ CardStep \/ OperatorStep
  PROVE  DoorInv' /\ ClosedInv'
<1>1. /\ UNCHANGED <<door, evt>>
      /\ phase' # "handle"
      /\ (phase' = "enter" \/ UNCHANGED status)
  BY HandlersMove DEF Left, Goto
<1>s. UNCHANGED <<Opening, Closing>>
  BY DEF Opening, Closing
<1>c. Closes' = Closes
  BY <1>1, <1>s DEF Closes
<1>2. DoorInv'
  <2>1. ASSUME ~door', NEW i \in DOMAIN evt', evt'[i] = Opening'
        PROVE  \E j \in DOMAIN evt' : i < j /\ evt'[j] = Closing'
    BY <1>1, <1>s, <2>1 DEF DoorInv
  <2> QED BY <1>1, <2>1 DEF DoorInv
<1>3. ASSUME HasDRSN, status' = "Dispensing", pump', ~door, phase' # "exit" PROVE Closes
  <2>1. phase' # "enter" /\ status = "Dispensing"
    BY <1>1, <1>3 DEF PumpInv, PumpStates, SubStates
  <2>2. doDispensing
    BY <2>1 DEF RestStep, doIdle, doNoFuel, doNoServer, doShutdown, doWaitDoorClosed, SaleStep,
      DialogEnter, DialogExit, DialogStates, doUserLogin, doAskRenew, doAskBuyMemb, doAskUpgrade,
      doAskRenewExpired, doRenewExpired, doBuyMemb, doSPNConf, doAskDeclined, doMSRReswipe,
      doSetPreAuth, Confirm, CardStep, doServerAuth, ServerAuthEnter, doRegNewMemb,
      doGatewayPreAuth, GatewayPreAuthEnter, doGatewayCapture, CaptureEnter, CaptureExit,
      OperatorStep, SubStep, doOperator, OperatorEnter, OperatorReenter, OperatorExit,
      SubStateEnter, SubStateExit, SubStates, doCalMenu, doMenu, doCalOnAmps, doCalOffAmps,
      doCalKFact, doSetTankCap, doSetLowFuel, doSetNoFuel, doSetOperSPN, doConfOperSPN,
      doSetAvailGal, doSetFuelType, doSetPPG, doShowStatus, doShowNetStatus,
      Entering, Leaving, Handling
  <2>3. ~DispensingExit
    BY <1>3 DEF DispensingExit
  <2>4. ~DispensingEnter
    BY <1>3, <2>1 DEF DispensingEnter, Entering, PumpInv
  <2>5. CASE Handling("Dispensing") /\ cur = Opening
    BY <1>3, <2>5 DEF Handling, DoorInv
  <2>6. CASE Handling("Dispensing") /\ cur # Opening /\ pump
    <3>1. cur # Closing
      BY <1>3, <2>1, <2>2, <2>3, <2>4, <2>6 DEF doDispensing, DispensingOver, Closing, Opening,
         Then, Ignore, Move, Goto
    <3> QED BY <1>3, <2>1, <2>6, <3>1 DEF ClosedInv, Handling
  <2>7. pump \/ cur = Opening
    BY <1>3, <2>2, <2>3, <2>4 DEF doDispensing, Stay, Then, Ignore, Move, relays, Opening
  <2>8. Handling("Dispensing")
    BY <2>2, <2>3, <2>4 DEF doDispensing
  <2> QED BY <2>5, <2>6, <2>7, <2>8
<1>4. ClosedInv'
  BY <1>1, <1>c, <1>3 DEF ClosedInv
<1> QED BY <1>2, <1>4

\* With a door sensor, whatever the delays between the door's moves and the state machine's reading
\* of them, and whatever timeouts, flow or preemptions come between: a customer's pump that runs
\* while the door is closed is about to be turned off.
THEOREM PumpBehindDoor == Spec => []PumpNeedsDoor
<1> DEFINE IInv == PumpInv /\ DoorInv /\ ClosedInv
<1>1. Init => IInv
  BY DEF Init, PumpInv, DoorInv, ClosedInv
<1>2. TypeOK /\ IInv /\ [Next]_vars => IInv'
  <2> SUFFICES ASSUME TypeOK, IInv, [Next]_vars PROVE IInv'
    OBVIOUS
  <2>1. PumpInv'
    BY PumpRest, PumpSale, PumpCard, PumpOperator, PumpTake, PumpWorld
       DEF Next, FSMStep, vars, ctl, relays, PumpInv
  <2>2. CASE UNCHANGED vars
    BY <2>1, <2>2 DEF vars, ctl, sensors, relays, DoorInv, ClosedInv, Closes
  <2> QED BY <2>1, <2>2, DoorHandled, DoorTake, DoorWorld DEF Next, FSMStep
<1>3. IInv => PumpNeedsDoor
  BY DEF ClosedInv, PumpNeedsDoor, Closes, Closing
<1> QED BY <1>1, <1>2, <1>3, TypeCorrect, PTL DEF Spec

(***************************************************************************)
(* A new member's registration, and the charge for it.                     *)
(***************************************************************************)
\* The state that a session is in, or on its way to.
Where == IF phase = "exit" THEN target ELSE status

Unregistered == sale \cap {"full", "temp"} # {}
OwnCapture == \E i \in DOMAIN req : req[i].op = "Capture" /\ req[i].own

\* Where no membership is being sold, and what was sold has been registered.
Registered == {"Idle", "NoFuel", "UserLogin", "ServerAuth", "Dispensing"}
Charging == {"GatewayCapture", "NoServer"}

\* What was sold is registered before the transaction is captured, or it is to be voided;
\* and it was sold before anything was captured.
SaleInv ==
  /\ Where # "Shutdown"
  /\ Unregistered => Where \notin Registered
  /\ (Unregistered /\ Where \in Charging) => doVoid
  /\ OwnCapture => ~Unregistered /\ Where \in Charging \cup OpStates

\* Where is where the handlers send the state machine.
LEMMA GotoWhere == ASSUME NEW s, Goto(s) PROVE Where' = s
BY DEF Goto, Where

LEMMA LeftWhere == ASSUME phase = "exit", Left PROVE Where' = Where
BY DEF Left, Where

\* Steps that leave the sale alone, or lead to where it may go on.
LEMMA SaleKept ==
  ASSUME SaleInv, Where' = Where, UNCHANGED sale, doVoid => doVoid', OwnCapture' => OwnCapture
  PROVE  SaleInv'
BY DEF SaleInv, Unregistered

\* A handler that returns a state which the sale may go to.
LEMMA SaleGoes ==
  ASSUME SaleInv, phase # "exit", NEW s, Goto(s), s # "Shutdown", UNCHANGED sale, doVoid => doVoid',
         OwnCapture' => OwnCapture,
         s = status \/ /\ Unregistered => s \notin Registered /\ (s \in Charging => doVoid')
                       /\ OwnCapture => s \in Charging \cup OpStates
  PROVE  SaleInv'
<1>1. Where' = s /\ Where = status
  BY GotoWhere DEF Where
<1> QED BY <1>1 DEF SaleInv, Unregistered

\* An ExitState handler that leaves the sale alone.
LEMMA SaleLeft == ASSUME SaleInv, phase = "exit", Left, UNCHANGED <<sale, doVoid, req>> PROVE SaleInv'
BY LeftWhere, SaleKept DEF OwnCapture

\* A reset ends the sale, and disowns what was asked for.
LEMMA SaleEnds ==
  ASSUME req \in Seq(Requests), NEW fates, ClearSession(fates), NEW up, \E s \in ResetTargets(up) : Goto(s)
  PROVE  SaleInv'
<1>1. ~Unregistered' /\ ~OwnCapture'
  <2>1. sale' = {} /\ req' = [i \in DOMAIN req |-> [req[i] EXCEPT !.own = FALSE]]
    BY DEF ClearSession
  <2>2. \A i \in DOMAIN req : req[i] \in Requests
    OBVIOUS
  <2>3. \A i \in DOMAIN req' : ~req'[i].own
    BY <2>1, <2>2 DEF Requests
  <2> QED BY <2>1, <2>3 DEF Unregistered, OwnCapture
<1>2. Where' # "Shutdown"
  BY GotoWhere DEF ResetTargets, RestState
<1> QED BY <1>1, <1>2 DEF SaleInv

\* A reset forgets what was sold, and disowns what was asked for.
LEMMA SaleReset == ASSUME req \in Seq(Requests), NEW up, ResetTo(up) PROVE SaleInv'
BY SaleEnds DEF ResetTo

\* A request that is sent.
LEMMA SentIsOwn ==
  ASSUME req \in Seq(Requests), NEW op, NEW h, Send(op, h), OwnCapture' PROVE OwnCapture \/ op = "Capture"
<1> DEFINE r == [op |-> op, hold |-> h, own |-> TRUE]
<1>1. req' = Append(req, r) /\ r.op = op
  BY DEF Send
<1> HIDE DEF r
<1>2. PICK i \in DOMAIN req' : req'[i].op = "Capture" /\ req'[i].own
  BY DEF OwnCapture
<1>3. (i \in DOMAIN req /\ req'[i] = req[i]) \/ req'[i] = r
  BY <1>1, <1>2
<1> QED BY <1>1, <1>2, <1>3 DEF OwnCapture

\* In a state of rest nothing is being sold, but for a transaction that waits for the server.
LEMMA SaleRest == TypeOK /\ SaleInv /\ RestStep => SaleInv'
<1> SUFFICES ASSUME TypeOK, SaleInv, RestStep PROVE SaleInv'
  OBVIOUS
<1> USE DEF Entering, Leaving, Handling, Stay, Move, session, member, card, link
<1>1. CASE \E s : Leaving(s) /\ Left /\ UNCHANGED <<sale, doVoid, req>>
  BY <1>1, SaleLeft
<1>2. CASE \E up : ResetTo(up)
  BY <1>2, SaleReset DEF TypeOK, SessionOK
<1>3. ASSUME phase # "exit", NEW s, Goto(s), UNCHANGED <<sale, doVoid, req>>, status # "Shutdown", s = status
      PROVE  SaleInv'
  BY <1>3, SaleGoes DEF OwnCapture
<1>4. ASSUME phase # "exit", Goto("NoServer"), UNCHANGED <<sale, doVoid, req>>, status \in {"Idle", "NoFuel"}
      PROVE  SaleInv'
  <2>1. ~Unregistered /\ "NoServer" # "Shutdown" /\ "NoServer" \in Charging
    BY <1>4 DEF SaleInv, Where, Registered, Charging
  <2> QED BY <1>4, <2>1, SaleGoes DEF OwnCapture
<1>5. ASSUME phase # "exit", Goto("UserLogin"), UNCHANGED <<sale, doVoid, req>>, status = "Idle" PROVE SaleInv'
  <2>1. ~Unregistered /\ ~OwnCapture
    BY <1>5 DEF SaleInv, Where, Registered, Charging, OpStates, SubStates
  <2> QED BY <1>5, <2>1, SaleGoes DEF OwnCapture
<1>6. ASSUME phase # "exit", Goto("GatewayCapture"), UNCHANGED <<sale, doVoid, req>>, status = "NoServer"
      PROVE  SaleInv'
  <2>1. /\ Unregistered => doVoid
        /\ "GatewayCapture" \in Charging /\ "GatewayCapture" \notin Registered
    BY <1>6 DEF SaleInv, Where, Registered, Charging
  <2> QED BY <1>6, <2>1, SaleGoes DEF OwnCapture
<1>7. ~(phase # "exit" /\ status = "Shutdown")
  BY DEF SaleInv, Where
<1> QED BY <1>1, <1>2, <1>3, <1>4, <1>5, <1>6, <1>7 DEF RestStep, doIdle, doNoFuel, doNoServer, doShutdown,
        doWaitDoorClosed, DoReset

\* The dialogs come before any capture, and after the last state that knows of no sale.
LEMMA SaleDialogs == TypeOK /\ SaleInv /\ SaleStep => SaleInv'
<1> SUFFICES ASSUME TypeOK, SaleInv, SaleStep PROVE SaleInv'
  OBVIOUS
<1> USE DEF Handling, Stay, Move, session, member, card, link, Again, Then, ThenReset, Ignore, DoReset
<1> DEFINE Next0 == {"ServerAuth", "GatewayPreAuth"} \cup (DialogStates \ {"UserLogin"})
<1>0. /\ status \in DialogStates
      /\ phase # "exit" => ~OwnCapture
  <2>1. status \in DialogStates
    BY DEF SaleStep, DialogEnter, DialogExit, doUserLogin, doAskRenew, doAskBuyMemb, doAskUpgrade,
      doAskRenewExpired, doRenewExpired, doBuyMemb, doSPNConf, doAskDeclined, doMSRReswipe,
      doSetPreAuth, Confirm, DialogStates
  <2>2. status \notin Charging \cup OpStates
    BY <2>1 DEF DialogStates, Charging, OpStates, SubStates
  <2> QED BY <2>1, <2>2 DEF SaleInv, Where
<1>1. CASE DialogExit
  BY <1>1, SaleLeft DEF DialogExit
<1>2. CASE \E up : ResetTo(up)
  BY <1>2, SaleReset DEF TypeOK, SessionOK
<1>3. ASSUME phase # "exit", Goto(status), UNCHANGED <<sale, doVoid, req>> PROVE SaleInv'
  <2>1. Where' = status /\ Where = status
    BY <1>3, GotoWhere DEF Where
  <2> QED BY <1>3, <2>1, SaleKept DEF OwnCapture
<1>4. ASSUME phase # "exit", NEW s \in Next0, Goto(s), UNCHANGED <<doVoid, req>>,
             s = "ServerAuth" => status = "UserLogin" /\ UNCHANGED sale
      PROVE  SaleInv'
  <2>1. Where' = s /\ Where = status
    BY <1>4, GotoWhere DEF Where
  <2>2. ~OwnCapture'
    BY <1>0, <1>4 DEF OwnCapture
  <2>3. s # "Shutdown" /\ s \notin Charging /\ (s \in Registered => s = "ServerAuth")
    BY <1>4 DEF Charging, Registered, DialogStates
  <2>4. s = "ServerAuth" => ~Unregistered'
    BY <1>4, <2>1 DEF SaleInv, Registered, Unregistered
  <2> QED BY <2>1, <2>2, <2>3, <2>4 DEF SaleInv
<1>5. {"ServerAuth", "GatewayPreAuth", "AskUpgrade", "BuyMemb", "RenewExpired", "SPNConf", "SetPreAuth", "MSRReswipe"}
        \subseteq Next0 /\ AfterRenewal \in Next0 \ {"ServerAuth"}
  BY DEF DialogStates, AfterRenewal
<1> HIDE DEF Next0
<1>6. CASE DialogEnter
  BY <1>3, <1>6 DEF DialogEnter
<1>7. CASE doUserLogin
  BY <1>2, <1>3, <1>4, <1>5, <1>7 DEF doUserLogin
<1>8. CASE doAskRenew
  BY <1>2, <1>3, <1>4, <1>5, <1>8 DEF doAskRenew, Sell
<1>9. CASE doAskBuyMemb \/ doAskRenewExpired
  BY <1>2, <1>3, <1>4, <1>5, <1>9 DEF doAskBuyMemb, doAskRenewExpired, Confirm
<1>10. CASE doAskUpgrade \/ doRenewExpired
  BY <1>2, <1>3, <1>4, <1>5, <1>10 DEF doAskUpgrade, doRenewExpired, Sell, PaySurcharge
<1>11. CASE doBuyMemb \/ doSPNConf
  BY <1>2, <1>3, <1>4, <1>5, <1>11 DEF doBuyMemb, doSPNConf, Sell
<1>12. CASE doAskDeclined \/ doMSRReswipe \/ doSetPreAuth
  BY <1>2, <1>3, <1>4, <1>5, <1>12 DEF doAskDeclined, doMSRReswipe, doSetPreAuth, EnterAmount
<1> QED BY <1>1, <1>6, <1>7, <1>8, <1>9, <1>10, <1>11, <1>12 DEF SaleStep

\* The server and the gateway: a sale is registered, or its transaction voided.
LEMMA SaleCard == TypeOK /\ SaleInv /\ CardStep => SaleInv'
<1> SUFFICES ASSUME TypeOK, SaleInv, CardStep PROVE SaleInv'
  OBVIOUS
<1> USE DEF Entering, Leaving, Handling, Stay, Move, session, member, card, link, Again, Then, ThenReset,
        Ignore, DoReset
<1>0. req \in Seq(Requests)
  BY DEF TypeOK, SessionOK
<1>1. CASE \E s : Leaving(s) /\ Left /\ UNCHANGED <<sale, doVoid, req>>
  BY <1>1, SaleLeft
<1>2. CASE \E up : ResetTo(up)
  BY <1>0, <1>2, SaleReset
<1>3. ASSUME phase # "exit", Goto(status), UNCHANGED sale, doVoid => doVoid', OwnCapture' => OwnCapture
      PROVE  SaleInv'
  BY <1>3, SaleKept, GotoWhere DEF Where
<1>4. UNCHANGED req => (OwnCapture' => OwnCapture)
  BY DEF OwnCapture
<1>5. CASE doServerAuth
  <2>1. CASE ServerAuthEnter
    <3>1. OwnCapture' => OwnCapture
      BY <1>0, <2>1, SentIsOwn DEF ServerAuthEnter
    <3> QED BY <1>3, <2>1, <3>1 DEF ServerAuthEnter
  <2>2. CASE phase = "handle" /\ status = "ServerAuth" /\ \E s : Move(s) /\ s \in
               {"NoServer", "AskRenew", AfterRenewal, "AskBuyMemb", "AskRenewExpired", "ServerAuth"}
    <3>1. PICK s : Goto(s) /\ UNCHANGED <<sale, doVoid, req>> /\ s \in
               {"NoServer", "AskRenew", AfterRenewal, "AskBuyMemb", "AskRenewExpired", "ServerAuth"}
      BY <2>2
    <3>2. ~Unregistered /\ ~OwnCapture
      BY <2>2 DEF SaleInv, Where, Registered, Charging, OpStates, SubStates
    <3>3. s # "Shutdown"
      BY <3>1 DEF AfterRenewal
    <3> QED BY <1>4, <2>2, <3>1, <3>2, <3>3, SaleGoes
  <2> QED BY <1>1, <1>2, <1>5, <2>1, <2>2 DEF doServerAuth
<1>6. CASE doGatewayPreAuth
  <2>0. status = "GatewayPreAuth" /\ (phase # "exit" => ~OwnCapture)
    BY <1>6 DEF doGatewayPreAuth, GatewayPreAuthEnter, SaleInv, Where, Charging, OpStates, SubStates
  <2>1. ASSUME phase # "exit", NEW s \in {AfterPreAuth, "MSRReswipe", "AskDeclined"}, Goto(s), UNCHANGED <<sale, doVoid, req>>
        PROVE  SaleInv'
    <3>1. Unregistered => s \notin Registered \cup Charging
      BY <2>1 DEF AfterPreAuth, Selling, Unregistered, Registered, Charging
    <3>2. s # "Shutdown"
      BY <2>1 DEF AfterPreAuth, AfterRegistration
    <3> QED BY <1>4, <2>0, <2>1, <3>1, <3>2, SaleGoes
  <2>2. CASE GatewayPreAuthEnter
    BY <1>3, <1>4, <2>0, <2>1, <2>2 DEF GatewayPreAuthEnter
  <2>3. CASE Handling("GatewayPreAuth") /\ PreAuthAnswer
    BY <1>2, <1>3, <1>4, <2>0, <2>1, <2>3 DEF PreAuthAnswer
  <2>4. CASE Handling("GatewayPreAuth") /\ Send("PreAuth", NoHold) /\ Goto(status) /\ UNCHANGED <<sale, doVoid>>
    <3>1. OwnCapture' => OwnCapture
      BY <1>0, <2>4, SentIsOwn
    <3> QED BY <1>3, <2>4, <3>1
  <2> QED BY <1>1, <1>3, <1>4, <1>6, <2>2, <2>3, <2>4 DEF doGatewayPreAuth
<1>7. CASE doRegNewMemb
  <2>0. status = "RegNewMemb" /\ (phase # "exit" => ~OwnCapture)
    BY <1>7 DEF doRegNewMemb, SaleInv, Where, Charging, OpStates, SubStates
  <2>1. CASE Entering("RegNewMemb")
    <3>1. PICK op \in NewMembs : Send(op, trans)
      BY <1>7, <2>1 DEF doRegNewMemb, NewMembs
    <3>2. OwnCapture' => OwnCapture
      BY <1>0, <3>1, SentIsOwn DEF NewMembs
    <3> QED BY <1>3, <1>7, <2>1, <3>2 DEF doRegNewMemb
  <2>2. CASE Handling("RegNewMemb") /\ cur = "Authentication Success"
    <3>1. sale' = sale \ {"full", "temp"} /\ Goto(AfterRegistration) /\ UNCHANGED req
      BY <1>7, <2>2 DEF doRegNewMemb, ServerDown
    <3>2. ~Unregistered' /\ ~OwnCapture'
      BY <1>4, <2>0, <2>2, <3>1 DEF Unregistered
    <3>3. Where' # "Shutdown"
      BY <3>1, GotoWhere DEF AfterRegistration
    <3> QED BY <3>2, <3>3 DEF SaleInv
  <2>3. CASE Handling("RegNewMemb") /\ doVoid' = TRUE /\ Goto("GatewayCapture") /\ UNCHANGED <<sale, req>>
    <3>1. "GatewayCapture" \in Charging /\ "GatewayCapture" \notin Registered
      BY DEF Charging, Registered
    <3> QED BY <1>4, <2>0, <2>3, <3>1, SaleGoes
  <2> QED BY <1>1, <1>3, <1>4, <1>7, <2>1, <2>2, <2>3 DEF doRegNewMemb, CancelSale
<1>8. CASE doDispensing
  <2>1. CASE Handling("Dispensing") /\ Move("GatewayCapture")
    <3>1. ~Unregistered /\ "GatewayCapture" \in Charging
      BY <2>1 DEF SaleInv, Where, Registered, Charging
    <3> QED BY <1>4, <2>1, <3>1, SaleGoes
  <2> QED BY <1>1, <1>3, <1>4, <1>8, <2>1 DEF doDispensing, DispensingEnter, DispensingExit
<1>9. CASE doGatewayCapture
  <2>0. status = "GatewayCapture" /\ (phase # "exit" /\ Unregistered => doVoid)
    BY <1>9 DEF doGatewayCapture, CaptureEnter, CaptureExit, SaleInv, Where, Charging
  <2>1. CASE CaptureEnter
    <3>1. CASE trans = NoHold
      BY <1>2, <2>1, <3>1 DEF CaptureEnter
    <3>2. CASE trans # NoHold
      BY <1>3, <1>4, <2>1, <3>2 DEF CaptureEnter
    <3> QED BY <3>1, <3>2
  <2>2. CASE Handling("GatewayCapture") /\ GiveUp
    BY <1>0, <2>2, SaleEnds DEF GiveUp
  <2>3. CASE Handling("GatewayCapture") /\ Send(IF doVoid THEN "Void" ELSE "Capture", trans) /\ Goto(status)
             /\ UNCHANGED <<sale, doVoid>>
    <3>1. CASE doVoid
      <4>1. OwnCapture' => OwnCapture
        BY <1>0, <2>3, <3>1, SentIsOwn
      <4> QED BY <1>3, <2>3, <4>1
    <3>2. CASE ~doVoid
      <4>1. ~Unregistered' /\ Where' = "GatewayCapture" /\ "GatewayCapture" \in Charging
        BY <2>0, <2>3, <3>2, GotoWhere DEF Unregistered, Charging
      <4> QED BY <4>1 DEF SaleInv
    <3> QED BY <3>1, <3>2
  <2>4. CASE Handling("GatewayCapture") /\ AskGateway
    BY <1>2, <2>2, <2>3, <2>4 DEF AskGateway
  <2>5. CASE Handling("GatewayCapture") /\ Move("NoServer")
    <3>1. "NoServer" \in Charging /\ "NoServer" \notin Registered
      BY DEF Charging, Registered
    <3> QED BY <1>4, <2>0, <2>5, <3>1, SaleGoes
  <2> QED BY <1>1, <1>2, <1>3, <1>4, <1>9, <2>1, <2>2, <2>4, <2>5 DEF doGatewayCapture, CaptureExit
<1> QED BY <1>5, <1>6, <1>7, <1>8, <1>9 DEF CardStep

\* Operator mode leaves the sale as it is, or resets the kiosk.
LEMMA SaleOperator == TypeOK /\ SaleInv /\ OperInv /\ OperatorStep => SaleInv'
<1> SUFFICES ASSUME TypeOK, SaleInv, OperInv, OperatorStep PROVE SaleInv'
  OBVIOUS
<1> USE DEF Entering, Leaving, Handling, Stay, Move, session, member, card, link, Again, Then, ThenReset,
        Ignore, DoReset
<1>0. req \in Seq(Requests)
  BY DEF TypeOK, SessionOK
<1>1. CASE phase = "exit" /\ Left /\ UNCHANGED <<sale, doVoid, req>>
  BY <1>1, SaleLeft
<1>2. CASE \E up : ResetTo(up)
  BY <1>0, <1>2, SaleReset
<1>3. ASSUME phase # "exit", NEW s \in OpStates, Goto(s), UNCHANGED <<sale, doVoid, req>> PROVE SaleInv'
  <2>1. s # "Shutdown" /\ s \notin Registered \cup Charging
    BY DEF OpStates, SubStates, Registered, Charging
  <2> QED BY <1>3, <2>1, SaleGoes DEF OwnCapture
<1>4. /\ "Operator" \in OpStates /\ "CalMenu" \in OpStates /\ "SetAvailGal" \in OpStates /\ "ShowStatus" \in OpStates
      /\ "CalOnAmps" \in OpStates /\ "ShowNetStatus" \in OpStates /\ SubStates \subseteq OpStates
  BY DEF OpStates, SubStates
<1>5. ASSUME phase # "exit", status \in OpStates, OperatorEvent PROVE SaleInv'
  BY <1>2, <1>3, <1>4, <1>5 DEF OperatorEvent, OperatorCodeTyped
<1>6. CASE doOperator
  BY <1>1, <1>3, <1>4, <1>5, <1>6 DEF doOperator, OperatorEnter, OperatorReenter, OperatorExit
<1>7. CASE SubStateEnter \/ SubStateExit
  BY <1>1, <1>3, <1>4, <1>7 DEF SubStateEnter, SubStateExit
<1>8. ASSUME NEW r, phase = "handle", status \in SubStates, Menu(r) PROVE SaleInv'
  BY <1>3, <1>4, <1>5, <1>8 DEF Menu, MenuKey, HandOver, SubExit, SubStay
<1>9. CASE doMenu
  <2>1. phase = "handle" /\ status \in SubStates
    BY <1>9 DEF doMenu, doCalOnAmps, doCalOffAmps, doCalKFact, doSetTankCap, doSetLowFuel, doSetNoFuel,
       doSetOperSPN, doConfOperSPN, doSetAvailGal, doSetFuelType, doSetPPG, SubStates
  <2>2. \/ \E r \in BOOLEAN : Menu(r)
        \/ \E s \in OpStates, c \in BOOLEAN : Leads(s, c)
    BY <1>9 DEF doMenu, doCalOnAmps, doCalOffAmps, doCalKFact, doSetTankCap, doSetLowFuel,
        doSetNoFuel, doSetOperSPN, doConfOperSPN, doSetAvailGal, doSetFuelType, doSetPPG,
        NextMenu, SettingsSaved, SettingsDropped, OpStates, SubStates
  <2> QED BY <1>3, <1>8, <2>1, <2>2 DEF Leads
<1>10. CASE doCalMenu \/ doShowStatus \/ doShowNetStatus
  <2>1. phase = "handle" /\ status \in OpStates
    BY <1>10 DEF doCalMenu, doShowStatus, doShowNetStatus, OpStates, SubStates
  <2> QED BY <1>3, <1>4, <1>5, <1>10, <2>1 DEF doCalMenu, doShowStatus, doShowNetStatus, Show, HandOver, SubExit, SubStay
<1> QED BY <1>6, <1>7, <1>9, <1>10 DEF OperatorStep, SubStep

\* The operator's code takes the kiosk out of a session, which is not gone on with.
LEMMA SaleTake == TypeOK /\ SaleInv /\ OperInv /\ TakeEvent => SaleInv'
<1> SUFFICES ASSUME TypeOK, SaleInv, OperInv, TakeEvent PROVE SaleInv'
  OBVIOUS
<1>0. evt \in Seq(Events) /\ evt # <<>> /\ phase = "wait"
  BY DEF TypeOK, SiteOK, TakeEvent
<1>1. Head(evt) # "Voltage Alarm"
  <2>1. 1 \in DOMAIN evt /\ Head(evt) = evt[1]
    BY <1>0, HeadTailProperties
  <2> QED BY <2>1 DEF OperInv, NoAlarm
<1>2. UNCHANGED <<sale, doVoid, req>> /\ (OwnCapture' => OwnCapture)
  BY DEF TakeEvent, session, member, card, link, DoFlowmeter, DoorViolation, OwnCapture
<1>3. Dispatch(Head(evt)) \/ Preempt("Operator")
  BY <1>1 DEF TakeEvent
<1>4. CASE Dispatch(Head(evt))
  BY <1>0, <1>2, <1>4, SaleKept DEF Dispatch, Where
<1>5. CASE Preempt("Operator")
  <2>1. Where' = "Operator"
    BY <1>5 DEF Preempt, Where
  <2>2. "Operator" \in OpStates /\ "Operator" \notin Registered \cup Charging
    BY DEF OpStates, Registered, Charging
  <2> QED BY <1>2, <2>1, <2>2 DEF SaleInv, Unregistered
<1> QED BY <1>3, <1>4, <1>5

\* The server daemon takes requests out of its queue, and adds none.
LEMMA RequestsOnlyGo ==
  ASSUME req \in Seq(Requests), NEW n \in 0 .. Len(req), NEW m \in 0 .. n,
         req' = SubSeq(req, 1, m) \o SubSeq(req, n + 1, Len(req)), NEW i \in DOMAIN req'
  PROVE  \E j \in DOMAIN req : req'[i] = req[j]
<1> DEFINE a == SubSeq(req, 1, m)
           b == SubSeq(req, n + 1, Len(req))
<1>1. Len(req) \in Nat /\ DOMAIN req = 1 .. Len(req) /\ m \in Nat /\ n \in Nat /\ m <= n /\ n <= Len(req)
  OBVIOUS
<1>2. a \in Seq(Requests) /\ Len(a) = m /\ \A k \in 1 .. m : a[k] = req[k]
  <2>1. /\ SubSeq(req, 1, m) \in Seq(Requests)
        /\ Len(SubSeq(req, 1, m)) = IF 1 <= m THEN m - 1 + 1 ELSE 0
        /\ \A k \in 1 .. m - 1 + 1 : SubSeq(req, 1, m)[k] = req[1 + k - 1]
    <3>1. 1 \in Int /\ m \in Int /\ \A k \in 1 .. m : req[k] \in Requests
      BY <1>1
    <3> QED BY <3>1, SubSeqProperties
  <2>2. m - 1 + 1 = m /\ (~(1 <= m) => m = 0) /\ \A k \in 1 .. m : 1 + k - 1 = k
    BY <1>1
  <2> QED BY <1>1, <2>1, <2>2
<1>3. b \in Seq(Requests) /\ Len(b) = Len(req) - n /\ \A k \in 1 .. (Len(req) - n) : b[k] = req[n + k]
  <2>1. /\ SubSeq(req, n + 1, Len(req)) \in Seq(Requests)
        /\ Len(SubSeq(req, n + 1, Len(req))) = IF n + 1 <= Len(req) THEN Len(req) - (n + 1) + 1 ELSE 0
        /\ \A k \in 1 .. Len(req) - (n + 1) + 1 : SubSeq(req, n + 1, Len(req))[k] = req[(n + 1) + k - 1]
    <3>1. n + 1 \in Int /\ Len(req) \in Int /\ \A k \in (n + 1) .. Len(req) : req[k] \in Requests
      BY <1>1
    <3> QED BY <3>1, SubSeqProperties
  <2>2. ASSUME NEW l \in Nat, n <= l
        PROVE  /\ l - (n + 1) + 1 = l - n /\ (~(n + 1 <= l) => l - n = 0)
               /\ \A k \in 1 .. (l - n) : (n + 1) + k - 1 = n + k
    BY <1>1, <2>2
  <2>3. /\ Len(req) - (n + 1) + 1 = Len(req) - n /\ (~(n + 1 <= Len(req)) => Len(req) - n = 0)
        /\ \A k \in 1 .. (Len(req) - n) : (n + 1) + k - 1 = n + k
    BY <1>1, <2>2
  <2> QED BY <1>1, <2>1, <2>3
<1> HIDE DEF a, b
<1>4. i \in 1 .. (Len(a) + Len(b)) /\ req'[i] = IF i <= Len(a) THEN a[i] ELSE b[i - Len(a)]
  <2>1. req' = a \o b /\ a \in Seq(Requests) /\ b \in Seq(Requests)
    BY <1>2, <1>3 DEF a, b
  <2>2. Len(req') = Len(a) + Len(b) /\ DOMAIN req' = 1 .. Len(req')
    BY <2>1, ConcatProperties, LenProperties
  <2> QED BY <2>1, <2>2, ConcatProperties
<1>5. CASE i <= Len(a)
  <2>1. i \in 1 .. m /\ i \in DOMAIN req
    BY <1>1, <1>2, <1>4, <1>5
  <2> QED BY <1>2, <1>4, <1>5, <2>1
<1>6. CASE ~(i <= Len(a))
  <2>1. i - m \in 1 .. (Len(req) - n) /\ n + (i - m) \in DOMAIN req
    BY <1>1, <1>2, <1>3, <1>4, <1>6
  <2> QED BY <1>2, <1>3, <1>4, <1>6, <2>1
<1> QED BY <1>5, <1>6

\* Outside, no more is sold, and requests are only answered or lost.
LEMMA SaleWorld == TypeOK /\ SaleInv /\ World => SaleInv'
<1> SUFFICES ASSUME TypeOK, SaleInv, World PROVE SaleInv'
  OBVIOUS
<1>0. req \in Seq(Requests) /\ Where' = Where
  BY WorldIsOutside DEF TypeOK, SessionOK, ctl, Where
<1> USE DEF session, member, card, link
<1>1. UNCHANGED <<sale, doVoid>>
  BY DEF World, Swipe, PressKey, DoorMoves, Flow, PumpMotor, Power, Timer, Expire, ServerDaemon, StatusAnswered,
     AuthAnswer, GatewayAccepts, GatewayRefuses, ServerLost, FuelDelivered
<1>2. CASE UNCHANGED req
  BY <1>0, <1>1, <1>2, SaleKept DEF OwnCapture
<1>3. CASE req # <<>> /\ req' = Tail(req)
  <2>1. \A i \in DOMAIN req' : i + 1 \in DOMAIN req /\ req'[i] = req[i + 1]
    BY <1>0, <1>3, HeadTailProperties
  <2>2. OwnCapture' => OwnCapture
    BY <2>1 DEF OwnCapture
  <2> QED BY <1>0, <1>1, <2>2, SaleKept
<1>4. CASE ServerLost
  <2>0. PICK n \in 0 .. Len(req) : \E m \in 0 .. n : req' = SubSeq(req, 1, m) \o SubSeq(req, n + 1, Len(req))
    BY <1>4 DEF ServerLost
  <2>1. PICK m \in 0 .. n : req' = SubSeq(req, 1, m) \o SubSeq(req, n + 1, Len(req))
    BY <2>0
  <2>2. \A i \in DOMAIN req' : \E j \in DOMAIN req : req'[i] = req[j]
    BY <1>0, <2>1, RequestsOnlyGo
  <2>3. OwnCapture' => OwnCapture
    BY <2>2 DEF OwnCapture
  <2> QED BY <1>0, <1>1, <2>3, SaleKept
<1> QED BY <1>2, <1>3, <1>4 DEF World, Swipe, PressKey, DoorMoves, Flow, PumpMotor, Power, Timer, Expire, ServerDaemon,
        StatusAnswered, AuthAnswer, GatewayAccepts, GatewayRefuses, FuelDelivered

\* A customer who buys a membership is not charged while it is not registered: whichever answers
\* fail, come late or twice, are lost with the connection, or cross the operator's code, the
\* capture is sent only after the registration, or a void instead (doRegNewMemb, cc_resp.do_void).
THEOREM NeverChargedUnregistered ==
  ASSUME "power" \notin Happens PROVE Spec => []NoChargeUnregistered
<1>1. Init => OperInv /\ SaleInv
  <2> SUFFICES ASSUME Init PROVE SaleInv
    BY OperStarts
  <2>1. sale = {} /\ req = <<>> /\ phase = "enter" /\ status \in {"Idle", "NoServer"}
    BY DEF Init
  <2> QED BY <2>1 DEF SaleInv, Unregistered, OwnCapture, Where
<1>2. TypeOK /\ OperInv /\ SaleInv /\ [Next]_vars => (OperInv /\ SaleInv)'
  <2> SUFFICES ASSUME TypeOK, OperInv, SaleInv, [Next]_vars PROVE SaleInv'
    BY OperKept
  <2>1. CASE UNCHANGED vars
    BY <2>1 DEF vars, ctl, session, member, card, link, SaleInv, Where, Unregistered, OwnCapture
  <2> QED BY <2>1, SaleRest, SaleDialogs, SaleCard, SaleOperator, SaleTake, SaleWorld DEF Next, FSMStep
<1>3. SaleInv => NoChargeUnregistered
  BY DEF SaleInv, OwnCapture, Unregistered, NoChargeUnregistered
<1> QED BY <1>1, <1>2, <1>3, TypeCorrect, PTL DEF Spec
=============================================================================
