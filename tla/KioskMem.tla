------------------------------ MODULE KioskMem ------------------------------
(***************************************************************************)
(* What the kiosk's state machine (BBD9000fsm.c) reads and writes: the     *)
(* shared memory segment of BBD9000mem.h, its own static variables, and    *)
(* the FIFOs to the timer, server and SmartIO daemons.                     *)
(*                                                                         *)
(* Abstractions.  Money is a small integer (no cents), fuel is a whole     *)
(* number of gallons, a credit-card transaction ID is a member of Holds,   *)
(* the keypad buffer is known by its kind (KeypadKinds), and the display   *)
(* and the lights, with their LCD timers, are left out.  Motion is only    *)
(* read by doReset, and any reading of it is possible there.               *)
(***************************************************************************)
EXTENDS Integers, Sequences, FiniteSets

CONSTANTS
  Offers,           \* the answers the server may give to an authorization
  Holds,            \* the transaction IDs the card gateway may hand out
  NoHold,           \* an empty cc_resp.trans_id
  HasDRSN,          \* the kiosk has a door sensor
  CCThreshold,      \* amounts below it are not worth a card transaction
  MaxBusyRetries,   \* MAX_GW_BUSY_RETRIES
  MaxCapRetries,    \* MAX_GW_CAP_RETRIES
  MaxCount,         \* bound: gallons through the meter between two resets
  MaxFuelPreAuth,   \* bound: the fuel amount a customer may ask to be authorized
  EvtCap,           \* bound: events waiting in the event FIFO
  ReqCap            \* bound: requests waiting at the server daemon

(***************************************************************************)
(* States, timers and events.                                              *)
(***************************************************************************)
\* The sub-states of Operator: menus entered from Operator and left to it.
SubStates ==
  {"CalMenu", "CalOnAmps", "CalOffAmps", "CalKFact", "SetTankCap",
   "SetLowFuel", "SetNoFuel", "SetOperSPN", "ConfOperSPN", "SetAvailGal",
   "SetFuelType", "SetPPG", "ShowStatus", "ShowNetStatus"}

\* States that wait for the customer and give up on the Input timeout.
DialogStates ==
  {"UserLogin", "AskRenew", "AskBuyMemb", "AskUpgrade", "BuyMemb",
   "SPNConf", "AskRenewExpired", "RenewExpired", "AskDeclined",
   "MSRReswipe", "SetPreAuth"}

\* States that wait for the server and give up on the ServerResp timeout.
NetStates == {"ServerAuth", "GatewayPreAuth", "RegNewMemb", "GatewayCapture"}

\* States in which nothing is under way.
RestStates == {"Idle", "NoFuel", "NoServer"}

States ==
  SubStates \cup DialogStates \cup NetStates \cup RestStates
    \cup {"Operator", "Shutdown", "Dispensing", "WaitDoorClosed"}

\* can_enter_operator is 1: a code typed here is checked for the operator's.
CanEnterOperator ==
  States \ (SubStates \cup {"Operator", "UserLogin", "SPNConf", "SetPreAuth"})

Timers == {"Status", "Input", "ServerResp", "GW Retry", "Dispensing",
           "StrikeRly", "DoorClose", "Operator"}

TimeoutOf(t) == t \o " Timeout"

Keys == {"*", "#", "1", "2", "3", "4", "5"}    \* "5": any other digit
KeypadEvt(k) == "Keypad " \o k
KeypadEvts == {KeypadEvt(k) : k \in Keys}

KeypadKinds == {"empty", "operator", "spn", "zero"}

AuthEvts == {"Authentication Success", "Membership Expired",
             "Authentication Failed", "Authentication Failed SPN"}

GWRetryEvts == {"GW Timeout", "GW Error", "GW CURL Error", "GW Busy"}
GWRejectEvts == {"GW CCTypeRejected", "GW Declined", "GW CardExpired",
                 "GW TransLost"}
GWEvts == GWRetryEvts \cup GWRejectEvts \cup {"GW Accepted"}

Events ==
  {TimeoutOf(t) : t \in Timers} \cup KeypadEvts \cup AuthEvts \cup GWEvts
    \cup {"Voltage Alarm", "Voltage Alarm Reset", "Server Timeout",
          "Server Error", "Server OK", "Keypad Valid", "MSR", "MSR bad",
          "Door Opened", "Door Closed", "Flowmeter", "Pump OFF",
          "Fuel Level"}

NoEvt == "NULL"

\* Names put together above: each is that of one event, and none is another's.
ASSUME EventNames ==
  /\ TimeoutOf("Status") = "Status Timeout"
  /\ TimeoutOf("Input") = "Input Timeout"
  /\ TimeoutOf("ServerResp") = "ServerResp Timeout"
  /\ TimeoutOf("Dispensing") = "Dispensing Timeout"
  /\ TimeoutOf("StrikeRly") = "StrikeRly Timeout"
  /\ TimeoutOf("DoorClose") = "DoorClose Timeout"
  /\ TimeoutOf("Operator") = "Operator Timeout"
  /\ {TimeoutOf(t) : t \in Timers} \cap KeypadEvts = {}
  /\ {"Door Opened", "Door Closed", "Voltage Alarm", "Voltage Alarm Reset"}
       \cap ({TimeoutOf(t) : t \in Timers} \cup KeypadEvts) = {}

(***************************************************************************)
(* The membership data an authorization leaves in shared memory, and the   *)
(* requests sent to the server daemon.  History, read by no action: a      *)
(* request is "own" while the session that sent it lasts, and the session  *)
(* is "sure" unless it may have mistaken an answer for another one.        *)
(* Nothing in an answer says what it answers, so that happens when one to  *)
(* an earlier session comes late, and when an authorization is asked for   *)
(* again before the first answer was read.                                 *)
(***************************************************************************)
NoMemb == [ask |-> FALSE, credit |-> 0, ppg |-> 0, fuelPreAuth |-> 0,
           renewalFee |-> 0, upgradeFee |-> 0, fullFee |-> 0, surcharge |-> 0,
           sure |-> TRUE]

MembType ==
  [ask : BOOLEAN, credit : Int, ppg : Nat, fuelPreAuth : Nat,
   renewalFee : Nat, upgradeFee : Nat, fullFee : Nat, surcharge : Nat,
   sure : BOOLEAN]

OfferType == [answer : AuthEvts, memb : MembType]

SaleKinds == {"renewal", "full", "temp", "upgrade"}

NewMembs == {"new_memb FULL", "new_memb ONE-DAY"}

Requests == [op : NewMembs \cup {"auth", "PreAuth", "Capture", "Void"},
             hold : Holds \cup {NoHold}, own : BOOLEAN]

ASSUME KioskConstants ==
  /\ Offers \subseteq OfferType
  /\ NoHold \notin Holds
  /\ HasDRSN \in BOOLEAN
  /\ CCThreshold \in Nat
  /\ MaxBusyRetries \in Nat /\ MaxCapRetries \in Nat
  /\ MaxCount \in Nat /\ MaxFuelPreAuth \in Nat /\ EvtCap \in Nat /\ ReqCap \in Nat

VARIABLES
  \* processEvent and setStatus: the state, and where in them the FSM is.
  status,       \* shmem->status_idx
  phase,        \* "wait", "handle", "exit" or "enter"
  cur,          \* the event whose handler is to be called
  target,       \* the state being switched to
  \* shared memory written by the SmartIO daemon
  door,         \* door_open
  running,      \* pump: current flows through the pump's motor
  valarm,       \* valarm
  counts,       \* flowmeter_counts, in gallons
  kp,           \* keypad_buffer
  \* relays, as last commanded
  pump, strike,
  \* timers running in the timer daemon
  armed,
  \* shared memory of the session
  memb, sale, gallons, spn, preAuth, trans, doVoid,
  \* other shared memory
  server, fuelOut, violation,
  \* statics of the handlers
  amount,       \* doGatewayCapture: memb_dollars
  retries,      \* doGatewayPreAuth, doGatewayCapture: retries
  isSubstate, waitDoorClosed,      \* doOperator
  operatorExit, doCancel,          \* the sub-states
  \* FIFOs
  evt, req,
  \* history: what the gateway did, for the properties only
  hold,         \* each transaction's fate at the gateway
  mine          \* the transactions granted to the present session

ctl     == <<status, phase, cur, target>>
sensors == <<door, running, valarm>>
relays  == <<pump, strike>>
member  == <<memb, sale, spn, preAuth>>
card    == <<trans, doVoid>>
meter   == <<gallons, counts>>
link    == <<req, hold, mine>>
session == <<member, card, meter, link, kp>>
capture == <<amount, retries>>
oper    == <<isSubstate, waitDoorClosed, operatorExit, doCancel>>
health  == <<server, fuelOut, violation>>

vars == <<ctl, sensors, relays, armed, session, capture, oper, health, evt>>

HoldStates == {"none", "live", "captured", "voided", "reported"}

ControlOK ==
  /\ status \in States /\ target \in States
  /\ phase \in {"wait", "handle", "exit", "enter"}
  /\ cur \in Events \cup {NoEvt}

SiteOK ==
  /\ door \in BOOLEAN /\ running \in BOOLEAN /\ valarm \in BOOLEAN
  /\ armed \subseteq Timers
  /\ server \in BOOLEAN /\ fuelOut \in BOOLEAN /\ violation \in 0..2
  /\ evt \in Seq(Events)

RelaysOK == pump \in BOOLEAN /\ strike \in BOOLEAN

SessionOK ==
  /\ memb \in MembType /\ sale \subseteq SaleKinds
  /\ kp \in KeypadKinds /\ spn \in KeypadKinds
  /\ counts \in Nat /\ gallons \in Nat
  /\ preAuth \in Int
  /\ trans \in Holds \cup {NoHold} /\ doVoid \in BOOLEAN
  /\ req \in Seq(Requests)
  /\ hold \in [Holds -> HoldStates] /\ mine \subseteq Holds

StaticsOK ==
  /\ amount \in Int /\ retries \in Nat
  /\ isSubstate \in BOOLEAN /\ waitDoorClosed \in BOOLEAN
  /\ operatorExit \in BOOLEAN /\ doCancel \in BOOLEAN

\* Every variable has a value of its kind, whatever the order of handlers and
\* daemons: in particular no state, event or request the C tables do not list.
TypeOK == ControlOK /\ SiteOK /\ RelaysOK /\ SessionOK /\ StaticsOK
=============================================================================
