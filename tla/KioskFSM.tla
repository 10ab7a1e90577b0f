------------------------------ MODULE KioskFSM ------------------------------
(***************************************************************************)
(* The kiosk's state machine (BBD9000fsm.c) in its world, and what is      *)
(* expected of it.                                                         *)
(***************************************************************************)
EXTENDS KioskWorld

\* doRestore, with nothing saved: the kiosk starts in Idle or NoServer.
Init ==
  /\ server \in BOOLEAN
  /\ status = (IF server THEN "Idle" ELSE "NoServer")
  /\ target = status /\ phase = "enter" /\ cur = NoEvt
  /\ door = FALSE /\ running = FALSE /\ valarm = FALSE
  /\ counts = 0 /\ gallons = 0
  /\ kp = "empty" /\ spn = "empty"
  /\ pump = FALSE /\ strike = FALSE
  /\ armed = {}
  /\ memb = NoMemb /\ sale = {} /\ preAuth = 0
  /\ trans = NoHold /\ doVoid = FALSE
  /\ amount = 0 /\ retries = 0
  /\ isSubstate = FALSE /\ waitDoorClosed = FALSE
  /\ operatorExit = FALSE /\ doCancel = FALSE
  /\ fuelOut = FALSE /\ violation = 0
  /\ evt = <<>> /\ req = <<>>
  /\ hold = [h \in Holds |-> "none"] /\ mine = {}

FSMStep == TakeEvent \/ RestStep \/ SaleStep \/ CardStep \/ OperatorStep

Next == FSMStep \/ World

Spec == Init /\ [][Next]_vars

(***************************************************************************)
(* The FSM process runs; timers that are set and not canceled run out, and *)
(* their events get into the FIFO whoever else writes to it; a request is  *)
(* answered, unless the connection is lost.                                *)
(***************************************************************************)
Fairness ==
  /\ WF_vars(FSMStep)
  /\ SF_vars(\E t \in {"ServerResp", "Dispensing"} : Expire(t))
  /\ WF_vars(AuthAnswer \/ GatewayAccepts \/ GatewayRefuses)

FairSpec == Spec /\ Fairness

(***************************************************************************)
(* Safety.                                                                 *)
(***************************************************************************)
\* A timer will come: it runs, or its event waits.
Pending(t) == t \in armed \/ \E i \in DOMAIN evt : evt[i] = TimeoutOf(t)

PumpStates == {"Dispensing", "Operator"} \cup SubStates

\* The pump relay is on only while fuel is dispensed or the operator is there;
\* from power failure to the shutdown of the relays it may still be on.
PumpSafe == pump => \/ status \in PumpStates
                    \/ status = "Shutdown" /\ phase = "enter"

\* Whenever the strike is energized, something will release it.
StrikeTimed == strike => Pending("StrikeRly")

\* No state that waits for somebody else waits without a timer.
WaitsAreTimed ==
  phase = "wait" =>
    /\ status \in DialogStates => Pending("Input")
    /\ status \in NetStates => Pending("ServerResp")
    /\ status = "Dispensing" => Pending("Dispensing")
    /\ status \in RestStates => Pending("Status")

\* Operator mode, in its menus as well, ends with the door's closing or with the
\* four-hour timeout; a door that is to be closed is given its own time.
OperatorTimed ==
  (status \in {"Operator"} \cup SubStates /\ phase = "wait") =>
    /\ Pending("Operator")
    /\ waitDoorClosed => Pending("DoorClose")

\* Fuel is dispensed to a customer whose card, or credit, covers it.
FuelIsCovered ==
  (status = "Dispensing" /\ phase = "wait" /\ memb.sure) =>
    \/ preAuth < CCThreshold
    \/ trans \in mine /\ hold[trans] = "live"

\* The pump does not run on once what has been metered reaches the authorization.
PreAuthRespected ==
  (status = "Dispensing" /\ phase = "wait" /\ memb.sure /\ pump /\ gallons = counts)
    => Owed(gallons) < preAuth

\* With a door sensor, a customer's pump runs behind an open door only, or
\* until the door's closing is seen.
PumpNeedsDoor ==
  (HasDRSN /\ status = "Dispensing" /\ pump) =>
    \/ door
    \/ cur = "Door Closed" \/ phase = "exit"
    \/ \E i \in DOMAIN evt : evt[i] = "Door Closed"

\* A customer is charged on his own card: a session that was answered itself captures
\* transactions of its own only, whatever ID a late answer has left in the record.
NoCrossCharge ==
  memb.sure => \A i \in DOMAIN req :
    (req[i].op = "Capture" /\ req[i].own) => req[i].hold \in mine

\* A customer is not charged for a membership while its registration is not confirmed.
NoChargeUnregistered ==
  \A i \in DOMAIN req :
    (req[i].op = "Capture" /\ req[i].own) => sale \cap {"full", "temp"} = {}

\* A transaction the session was granted is let go only settled or reported, or for
\* another one that the session asked for itself.
HoldSettled(h) == hold[h] \in {"captured", "voided"} \/ hold'[h] = "reported"
HoldsAreSettled ==
  [][(memb.sure /\ status \in {"RegNewMemb", "Dispensing", "GatewayCapture", "NoServer"}
        /\ trans \in mine /\ trans' # trans)
     => HoldSettled(trans) \/ trans' \in mine']_vars

\* doGatewayCapture: "This is the only state that can clear the transaction record".
OnlyCaptureClears ==
  [][(trans # NoHold /\ trans' = NoHold) => status = "GatewayCapture"]_vars

(***************************************************************************)
(* Liveness.                                                               *)
(***************************************************************************)
\* A transaction that is dispensed on, or comes to its settlement, is settled or reported in
\* the end, or waits for the server; an answer that comes when the kiosk has given up, and is
\* on its way out, brings none.
Settling == status = "Dispensing" \/ (status = "GatewayCapture" /\ phase # "exit")
EndsSettled == (Settling /\ trans # NoHold) ~> (trans = NoHold \/ status = "NoServer")
=============================================================================
