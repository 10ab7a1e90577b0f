----------------------------- MODULE KioskSteps -----------------------------
(***************************************************************************)
(* What the handlers of BBD9000fsm.c are made of: setStatus and the value  *)
(* a handler returns, doTimeout and cancelTimeout, doReset, the requests   *)
(* to the server, and the global handler every event goes through.         *)
(*                                                                         *)
(* One event is processed in several steps, because the SmartIO, timer and *)
(* server daemons run meanwhile and write the same shared memory: the      *)
(* global handler ("wait" to "handle"), the state's own handler, then, for *)
(* as long as a handler returns another state, that state's ExitState      *)
(* event ("exit") and the new one's EnterState event ("enter").            *)
(***************************************************************************)
EXTENDS KioskMem

Handling(s) == phase = "handle" /\ status = s
Entering(s) == phase = "enter" /\ status = s
Leaving(s)  == phase = "exit" /\ status = s

\* A handler returns s: setStatus has nothing to do when s is the state.
Goto(s) ==
  /\ cur' = NoEvt /\ target' = s
  /\ phase' = IF s = status THEN "wait" ELSE "exit"
  /\ UNCHANGED status

\* The ExitState handler has run; its return value is ignored.
Left ==
  /\ status' = target /\ phase' = "enter"
  /\ UNCHANGED <<cur, target>>

\* The handler returns s and touches neither a relay nor the session.
Move(s) == Goto(s) /\ UNCHANGED <<relays, session>>
Stay == Move(status)

Arm(t) == armed' = armed \cup {t}
Disarm(ts) == armed' = armed \ ts

\* door_open && has_DRSN
DoorKnownOpen == door /\ HasDRSN

\* The amount due: memb_dollars as doFlowmeter and doGatewayCapture compute it.
\* temp_membership_fee, what a trial membership costs, is never set and so 0.
Owed(g) ==
  g * memb.ppg - memb.credit
    + (IF "renewal" \in sale THEN memb.renewalFee ELSE 0)
    + (IF "full" \in sale THEN memb.fullFee ELSE 0)
    + (IF "upgrade" \in sale THEN memb.upgradeFee ELSE 0)

\* A line written to the server FIFO; the write waits while it is full.
Send(op, h) ==
  /\ Len(req) < ReqCap
  /\ req' = Append(req, [op |-> op, hold |-> h, own |-> TRUE])

\* History: where the kiosk knows of one transaction, or none, those that no request refers to
\* can be forgotten, and their IDs stand for new ones.
Forgotten(known) ==
  [h \in Holds |-> IF h = known \/ \E i \in DOMAIN req : req[i].hold = h
                   THEN hold[h] ELSE "none"]

\* The record of the card transaction is cleared.
ClearCard == trans' = NoHold /\ doVoid' = FALSE

\* doReset: the session's data are cleared, the pump and the strike go off.
ClearSession(fates) ==
  /\ memb' = NoMemb /\ sale' = {} /\ gallons' = 0 /\ counts' = 0
  /\ spn' = "empty" /\ kp' = "empty"
  /\ preAuth' = 0 /\ ClearCard
  /\ pump' = FALSE /\ strike' = FALSE
  /\ mine' = {} /\ hold' = fates
  /\ req' = [i \in DOMAIN req |-> [req[i] EXCEPT !.own = FALSE]]

RestState(up) ==
  IF ~up THEN "NoServer" ELSE IF fuelOut THEN "NoFuel" ELSE "Idle"

\* The state doReset returns: somebody may be moving before an open door.
ResetTargets(up) ==
  {RestState(up)} \cup (IF DoorKnownOpen THEN {"WaitDoorClosed"} ELSE {})

ResetTo(up) == ClearSession(Forgotten(NoHold)) /\ \E s \in ResetTargets(up) : Goto(s)
DoReset == ResetTo(server)

\* Mutant: the pump runs until more than what was authorized has flowed.
LimitPassed == Owed(counts) > preAuth

\* What flowed is worth all that was authorized.
LimitReached == Owed(counts) >= preAuth

\* doFlowmeter: what flowed is counted, and paid for or taken as a violation.
DoFlowmeter ==
  /\ gallons' = counts
  /\ fuelOut' \in {fuelOut, TRUE}
  /\ \/ /\ status \in {"Dispensing", "Operator"}
        /\ pump' = (pump /\ ~fuelOut' /\ ~(status = "Dispensing" /\ LimitReached))
        /\ UNCHANGED <<armed, violation>>
     \/ /\ status \notin {"Dispensing", "Operator"}
        /\ Disarm({"Dispensing"})
        /\ pump' = FALSE
        /\ violation' \in IF violation = 0 THEN {1} ELSE {violation, 2}
  /\ UNCHANGED <<member, card, link, kp, counts, strike, server>>

\* A door opened where none should: the pump goes off.
DoorViolation ==
  /\ Disarm({"Dispensing"})
  /\ pump' = FALSE
  /\ violation' = IF violation = 0 THEN 1 ELSE violation
  /\ UNCHANGED <<strike, session, server, fuelOut>>

OperatorCode == kp = "operator" /\ status \in CanEnterOperator

(***************************************************************************)
(* processEvent up to the state's own handler: an event is read, and       *)
(* doGlobal sees it.  It calls for another state (Preempt) or leaves the   *)
(* event to the state (Dispatch).                                          *)
(***************************************************************************)
Preempt(s) ==
  /\ phase' = "exit" /\ target' = s
  /\ UNCHANGED <<status, cur>>

Dispatch(e) ==
  /\ phase' = "handle" /\ cur' = e
  /\ UNCHANGED <<status, target>>

TakeEvent ==
  /\ phase = "wait" /\ evt # <<>>
  /\ evt' = Tail(evt)
  /\ LET e == Head(evt) IN
     \/ /\ e = "Voltage Alarm" /\ status # "Shutdown"
        /\ Preempt("Shutdown")
        /\ UNCHANGED <<relays, session, armed, health>>
     \/ /\ e = "Keypad Valid" /\ OperatorCode
        /\ Preempt("Operator")
        /\ kp' = "empty"
        /\ UNCHANGED <<member, card, meter, link, relays, armed, health>>
     \/ /\ e = "StrikeRly Timeout"
        /\ strike' = FALSE
        /\ Dispatch(e) /\ UNCHANGED <<pump, session, armed, health>>
     \/ e = "Flowmeter" /\ DoFlowmeter /\ Dispatch(e)
     \/ /\ e = "Door Opened" /\ status \notin {"Dispensing", "Operator"}
        /\ DoorViolation /\ Dispatch(e)
     \/ /\ ~(e = "Voltage Alarm" /\ status # "Shutdown")
        /\ ~(e = "Keypad Valid" /\ OperatorCode)
        /\ ~(e = "Door Opened" /\ status \notin {"Dispensing", "Operator"})
        /\ e \notin {"StrikeRly Timeout", "Flowmeter"}
        /\ Dispatch(e) /\ UNCHANGED <<relays, session, armed, health>>
  /\ UNCHANGED <<sensors, capture, oper>>
=============================================================================
