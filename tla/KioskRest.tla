----------------------------- MODULE KioskRest ------------------------------
(***************************************************************************)
(* The states of BBD9000fsm.c in which no customer is served: Idle,        *)
(* NoFuel, NoServer, Shutdown and WaitDoorClosed.                          *)
(***************************************************************************)
EXTENDS KioskSteps

ServerDown == {"Server Timeout", "Server Error"}

(***************************************************************************)
(* Idle.  A status message goes out and the Status timer is set on entry   *)
(* and on every Status timeout.  A card starts a session, unless it cannot *)
(* be read or refueling is shut down for maintenance.                      *)
(***************************************************************************)
doIdle ==
  /\ \/ Entering("Idle") /\ Arm("Status") /\ Stay
     \/ Leaving("Idle") /\ Disarm({"Status"}) /\ Left /\ UNCHANGED <<relays, session>>
     \/ /\ Handling("Idle")
        /\ \/ cur = "Status Timeout" /\ Arm("Status") /\ Stay
           \/ cur \in ServerDown /\ Move("NoServer") /\ UNCHANGED armed
           \/ cur = "MSR" /\ Arm("Input") /\ Move("UserLogin")
           \/ cur = "MSR bad" /\ Arm("Input") /\ Stay
           \/ cur \in {"MSR", "MSR bad"} /\ Stay /\ UNCHANGED armed
           \/ /\ cur \notin ServerDown \cup {"Status Timeout", "MSR", "MSR bad"}
              /\ Stay /\ UNCHANGED armed
  /\ UNCHANGED <<sensors, capture, oper, health, evt>>

\* NoFuel.  New fuel resets the kiosk, whether or not it is enough.
doNoFuel ==
  /\ \/ Entering("NoFuel") /\ Arm("Status") /\ Stay
     \/ Leaving("NoFuel") /\ Disarm({"Status"}) /\ Left /\ UNCHANGED <<relays, session>>
     \/ /\ Handling("NoFuel")
        /\ \/ cur = "Status Timeout" /\ Arm("Status") /\ Stay
           \/ cur \in ServerDown /\ Move("NoServer") /\ UNCHANGED armed
           \/ cur = "Fuel Level" /\ DoReset /\ UNCHANGED armed
           \/ /\ cur \notin ServerDown \cup {"Status Timeout", "Fuel Level"}
              /\ Stay /\ UNCHANGED armed
  /\ UNCHANGED <<sensors, capture, oper, health, evt>>

(***************************************************************************)
(* NoServer.  The kiosk keeps asking with status messages; once the server *)
(* answers, it settles a transaction left open before anything else.       *)
(***************************************************************************)
doNoServer ==
  /\ \/ /\ Entering("NoServer") /\ server' = FALSE /\ Arm("Status") /\ Stay
     \/ /\ Leaving("NoServer") /\ Left /\ UNCHANGED <<relays, session, armed, server>>
     \/ /\ Handling("NoServer") /\ cur \in ServerDown \cup {"Status Timeout"}
        /\ Arm("Status") /\ Stay /\ UNCHANGED server
     \/ /\ Handling("NoServer") /\ cur = "Server OK"
        /\ server' = TRUE /\ UNCHANGED armed
        /\ IF trans # NoHold THEN Move("GatewayCapture") ELSE ResetTo(TRUE)
     \/ /\ Handling("NoServer") /\ cur \notin ServerDown \cup {"Status Timeout", "Server OK"}
        /\ Stay /\ UNCHANGED <<armed, server>>
  /\ UNCHANGED <<sensors, capture, oper, fuelOut, violation, evt>>

(***************************************************************************)
(* Shutdown.  On a power failure every relay and every timer goes off and  *)
(* the open transaction is reported in an alert; when power is back it is  *)
(* captured or voided.                                                     *)
(***************************************************************************)
doShutdown ==
  /\ \/ /\ Entering("Shutdown")
        /\ pump' = FALSE /\ strike' = FALSE /\ armed' = {}
        /\ Goto("Shutdown") /\ UNCHANGED session
     \/ /\ Leaving("Shutdown") /\ Left /\ UNCHANGED <<relays, session, armed>>
     \/ /\ Handling("Shutdown") /\ cur = "Voltage Alarm Reset"
        /\ Arm("Status")
        /\ IF trans # NoHold THEN Move("GatewayCapture") ELSE DoReset
     \/ /\ Handling("Shutdown") /\ cur # "Voltage Alarm Reset"
        /\ Stay /\ UNCHANGED armed
  /\ UNCHANGED <<sensors, capture, oper, health, evt>>

\* WaitDoorClosed.  The kiosk resets when the door closes, or when it waited enough.
doWaitDoorClosed ==
  /\ \/ Entering("WaitDoorClosed") /\ Arm("DoorClose") /\ Stay
     \/ /\ Leaving("WaitDoorClosed") /\ Disarm({"DoorClose"}) /\ Left
        /\ UNCHANGED <<relays, session>>
     \/ /\ Handling("WaitDoorClosed") /\ UNCHANGED armed
        /\ IF cur \in {"DoorClose Timeout", "Door Closed"} THEN DoReset ELSE Stay
  /\ UNCHANGED <<sensors, capture, oper, health, evt>>

RestStep == doIdle \/ doNoFuel \/ doNoServer \/ doShutdown \/ doWaitDoorClosed
=============================================================================
