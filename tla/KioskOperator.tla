--------------------------- MODULE KioskOperator ----------------------------
(***************************************************************************)
(* Operator mode in BBD9000fsm.c: the Operator state, and its sub-states,  *)
(* the menus in which the kiosk is refilled and calibrated.                *)
(*                                                                         *)
(* A sub-state hands the events it does not know to doOperator.  The flag  *)
(* isSubstate, set when the first menu is entered, makes doOperator ignore *)
(* the ExitState event of that switch and most of the EnterState event of  *)
(* the switch back.  What a menu sets (thresholds, fuel, price, code) is   *)
(* abstracted to whether there is fuel enough.                             *)
(***************************************************************************)
EXTENDS KioskCard

(***************************************************************************)
(* doOperator.                                                             *)
(***************************************************************************)
OperatorEnter ==
  /\ Entering("Operator") /\ ~isSubstate
  /\ violation' = 0 /\ counts' = 0 /\ gallons' = 0
  /\ memb' = [memb EXCEPT !.credit = 0, !.ppg = 0]
  /\ armed' = (armed \ {"Input"}) \cup {"StrikeRly", "Operator"}
  /\ pump' = TRUE /\ strike' = TRUE
  /\ waitDoorClosed' = FALSE
  /\ Goto(status)
  /\ UNCHANGED <<sale, spn, preAuth, card, link, kp, isSubstate>>

\* Mutant: the strike's timer is forgotten.
OperatorReenterUntimed ==
  /\ Entering("Operator") /\ isSubstate
  /\ isSubstate' = FALSE
  /\ IF DoorKnownOpen THEN UNCHANGED strike ELSE strike' = TRUE
  /\ Goto(status)
  /\ UNCHANGED <<armed, pump, session, violation, waitDoorClosed>>

\* Back from a menu: the door is opened again, if it is closed.
OperatorReenter ==
  /\ Entering("Operator") /\ isSubstate
  /\ isSubstate' = FALSE
  /\ IF DoorKnownOpen THEN UNCHANGED <<armed, strike>>
                      ELSE Arm("StrikeRly") /\ strike' = TRUE
  /\ Goto(status)
  /\ UNCHANGED <<pump, session, violation, waitDoorClosed>>

OperatorTimers == {"Operator", "DoorClose", "StrikeRly"}

OperatorExit ==
  /\ Leaving("Operator")
  /\ IF isSubstate
     THEN UNCHANGED <<armed, strike, waitDoorClosed>>
     ELSE Disarm(OperatorTimers) /\ strike' = FALSE /\ waitDoorClosed' = FALSE
  /\ Left
  /\ UNCHANGED <<pump, session, violation, isSubstate>>

\* The operator's code ends the mode, once the door is closed.
OperatorCodeTyped ==
  /\ IF DoorKnownOpen
     THEN /\ pump' = FALSE /\ strike' = FALSE /\ kp' = "empty"
          /\ Arm("DoorClose") /\ waitDoorClosed' = TRUE
          /\ Goto(status)
          /\ UNCHANGED <<member, card, meter, link>>
     ELSE DoReset /\ UNCHANGED <<armed, waitDoorClosed>>
  /\ UNCHANGED isSubstate

\* Any other event, in Operator or handed over by a sub-state.
OperatorEvent ==
  \/ cur = "Keypad Valid" /\ kp = "operator" /\ OperatorCodeTyped
  \/ /\ cur = "Keypad Valid" /\ kp = "empty" /\ ~waitDoorClosed
     /\ isSubstate' = TRUE
     /\ Then("CalMenu") /\ UNCHANGED waitDoorClosed
  \/ /\ cur \in {"DoorClose Timeout", "Door Closed"}
     /\ waitDoorClosed' = FALSE
     /\ armed' = IF cur = "Door Closed" THEN armed \ {"DoorClose"} ELSE armed
     /\ DoReset /\ UNCHANGED isSubstate
  \/ /\ \/ cur = "Operator Timeout" /\ ThenReset
        \/ cur = "StrikeRly Timeout" /\ ~DoorKnownOpen /\ ThenReset
        \/ cur = "Door Opened" /\ Arm("StrikeRly") /\ Stay
        \/ cur = "Keypad Valid" /\ kp # "operator"
           /\ (kp # "empty" \/ waitDoorClosed) /\ Ignore
        \/ cur = "StrikeRly Timeout" /\ DoorKnownOpen /\ Ignore
        \/ cur \notin {"Keypad Valid", "DoorClose Timeout", "Door Closed",
                       "Operator Timeout", "StrikeRly Timeout", "Door Opened"}
           /\ Ignore
     /\ UNCHANGED <<isSubstate, waitDoorClosed>>

doOperator ==
  /\ \/ OperatorEnter \/ OperatorReenter \/ OperatorExit
     \/ Handling("Operator") /\ OperatorEvent /\ UNCHANGED violation
  /\ UNCHANGED <<sensors, capture, operatorExit, doCancel, server, fuelOut, evt>>

(***************************************************************************)
(* The sub-states.                                                         *)
(***************************************************************************)
SubStateEnter ==
  /\ phase = "enter" /\ status \in SubStates
  /\ operatorExit' = FALSE /\ doCancel' = FALSE
  /\ kp' = "empty"
  /\ Arm("Input") /\ Goto(status)
  /\ UNCHANGED <<relays, member, card, meter, link, isSubstate, waitDoorClosed,
                 fuelOut>>

\* Leaving operator mode from a menu: doOperator is entered and left.
SubStateExit ==
  /\ phase = "exit" /\ status \in SubStates
  /\ operatorExit' = FALSE /\ doCancel' = FALSE
  /\ kp' = IF status # "SetOperSPN" \/ operatorExit \/ doCancel THEN "empty" ELSE kp
  /\ IF operatorExit
     THEN /\ isSubstate' = FALSE /\ waitDoorClosed' = FALSE
          /\ strike' = FALSE
          /\ Disarm({"Input"} \cup OperatorTimers)
     ELSE Disarm({"Input"}) /\ UNCHANGED <<isSubstate, waitDoorClosed, strike>>
  /\ Left
  /\ UNCHANGED <<pump, member, card, meter, link, fuelOut>>

\* Mutant: every event handed over counts as the end of operator mode.
HandOverEnding ==
  /\ OperatorEvent
  /\ operatorExit' = TRUE
  /\ UNCHANGED <<doCancel, fuelOut>>

\* The events a sub-state leaves to doOperator.
HandOver ==
  /\ OperatorEvent
  /\ operatorExit' = (target' # status)
  /\ UNCHANGED <<doCancel, fuelOut>>

SubExit(s) ==
  Then(s) /\ UNCHANGED <<isSubstate, waitDoorClosed, operatorExit, fuelOut>>

SubStay == SubExit(status) /\ UNCHANGED doCancel

doCalMenu ==
  /\ Handling("CalMenu")
  /\ \/ Key("1") /\ SubExit("SetAvailGal") /\ doCancel' = FALSE
     \/ Key("2") /\ SubExit("ShowStatus") /\ doCancel' = FALSE
     \/ Key("3") /\ SubExit("CalOnAmps") /\ doCancel' = FALSE
     \/ Key("4") /\ SubExit(status) /\ doCancel' = FALSE  \* asks for a reboot
     \/ (Key("*") \/ Key("#") \/ Key("5") \/ cur = "Input Timeout")
        /\ SubExit("Operator") /\ doCancel' = TRUE
     \/ cur = "StrikeRly Timeout" /\ SubStay
     \/ cur \notin KeypadEvts \cup {"Input Timeout", "StrikeRly Timeout"} /\ HandOver

(***************************************************************************)
(* The menus in which something is set.  '*' on an empty entry leaves the  *)
(* menu; two of the menus never remember that it was typed.  '#' leads to  *)
(* the next menu, and from the last of a chain to Operator, when what was  *)
(* set is saved: there may be fuel enough now, or not any more.            *)
(***************************************************************************)
MenuKey(remembers) ==
  /\ cur \in KeypadEvts /\ Arm("Input")
  /\ IF Key("*") /\ doCancel
     THEN Move("Operator") /\ UNCHANGED doCancel
     ELSE Stay /\ doCancel' = (Key("*") /\ remembers)
  /\ UNCHANGED <<isSubstate, waitDoorClosed, operatorExit, fuelOut>>

Menu(remembers) ==
  \/ MenuKey(remembers)
  \/ cur = "Input Timeout" /\ SubExit("Operator") /\ doCancel' = TRUE
  \/ cur = "StrikeRly Timeout" /\ SubStay
  \/ cur \notin KeypadEvts \cup {"Keypad Valid", "Input Timeout", "StrikeRly Timeout"}
     /\ HandOver

Leads(s, canceled) ==
  /\ cur = "Keypad Valid"
  /\ Disarm({"Input"}) /\ Move(s)
  /\ doCancel' = canceled
  /\ UNCHANGED <<isSubstate, waitDoorClosed, operatorExit>>

NextMenu(s)     == Leads(s, FALSE) /\ UNCHANGED fuelOut
SettingsDropped == Leads("Operator", TRUE) /\ UNCHANGED fuelOut
SettingsSaved   == Leads("Operator", FALSE) /\ fuelOut' \in BOOLEAN

doCalOnAmps  == Handling("CalOnAmps")  /\ (Menu(TRUE) \/ NextMenu("CalOffAmps"))
doCalOffAmps == Handling("CalOffAmps") /\ (Menu(TRUE) \/ NextMenu("CalKFact"))
doCalKFact   == Handling("CalKFact")   /\ (Menu(TRUE) \/ NextMenu("SetTankCap"))
doSetTankCap == Handling("SetTankCap") /\ (Menu(TRUE) \/ NextMenu("SetLowFuel"))
doSetLowFuel == Handling("SetLowFuel") /\ (Menu(TRUE) \/ NextMenu("SetNoFuel"))
doSetNoFuel  == Handling("SetNoFuel")  /\ (Menu(TRUE) \/ NextMenu("SetOperSPN"))

\* No new code leaves the old one; a code too short or too long drops it all.
doSetOperSPN ==
  /\ Handling("SetOperSPN")
  /\ \/ Menu(FALSE)
     \/ kp = "empty" /\ SettingsSaved
     \/ kp # "empty" /\ (NextMenu("ConfOperSPN") \/ SettingsDropped)

\* The new code is typed again, and is the same or is not.
doConfOperSPN ==
  Handling("ConfOperSPN") /\ (Menu(FALSE) \/ SettingsSaved \/ SettingsDropped)

doSetAvailGal == Handling("SetAvailGal") /\ (Menu(TRUE) \/ NextMenu("SetFuelType"))
doSetFuelType == Handling("SetFuelType") /\ (Menu(TRUE) \/ NextMenu("SetPPG"))
doSetPPG      == Handling("SetPPG")      /\ (Menu(TRUE) \/ SettingsSaved)

doMenu ==
  \/ doCalOnAmps \/ doCalOffAmps \/ doCalKFact \/ doSetTankCap \/ doSetLowFuel
  \/ doSetNoFuel \/ doSetOperSPN \/ doConfOperSPN
  \/ doSetAvailGal \/ doSetFuelType \/ doSetPPG

(***************************************************************************)
(* The two displays stay until the operator leaves them.                   *)
(***************************************************************************)
Show ==
  \/ /\ cur = "Input Timeout" /\ Again
     /\ UNCHANGED <<isSubstate, waitDoorClosed, operatorExit, doCancel, fuelOut>>
  \/ cur = "StrikeRly Timeout" /\ SubStay
  \/ cur \notin KeypadEvts \cup {"Keypad Valid", "Input Timeout", "StrikeRly Timeout"}
     /\ HandOver

doShowStatus ==
  /\ Handling("ShowStatus")
  /\ \/ Show
     \/ /\ \/ cur \in KeypadEvts /\ Arm("Input")
              /\ Move(IF Key("*") THEN "Operator" ELSE status)
           \/ cur = "Keypad Valid" /\ Disarm({"Input"}) /\ Move("ShowNetStatus")
        /\ UNCHANGED <<isSubstate, waitDoorClosed, operatorExit, doCancel, fuelOut>>

doShowNetStatus ==
  /\ Handling("ShowNetStatus")
  /\ \/ Show
     \/ /\ \/ cur \in KeypadEvts /\ Again
           \/ cur = "Keypad Valid" /\ Disarm({"Input"}) /\ Move("Operator")
        /\ UNCHANGED <<isSubstate, waitDoorClosed, operatorExit, doCancel, fuelOut>>

SubStep ==
  /\ SubStateEnter \/ SubStateExit \/ doCalMenu \/ doMenu \/ doShowStatus \/ doShowNetStatus
  /\ UNCHANGED <<sensors, capture, server, violation, evt>>

OperatorStep == doOperator \/ SubStep
=============================================================================
