------------------------- MODULE KioskTypes_proofs --------------------------
(***************************************************************************)
(* TypeOK is an invariant of the kiosk, for every value of the constants.  *)
(*                                                                         *)
(* The lemmas follow the layers of the model: what a handler is made of    *)
(* (Goto, Move, DoReset, Send, DoFlowmeter), the handlers, the world.      *)
(***************************************************************************)
EXTENDS KioskFSM, SequenceTheorems, TLAPS

LEMMA RestStatesAreStates ==
  SubStates \cup DialogStates \cup NetStates \cup RestStates
    \cup {"Operator", "Shutdown", "Dispensing", "WaitDoorClosed"} = States
BY DEF States

LEMMA GotoType == ASSUME ControlOK, NEW s \in States, Goto(s) PROVE ControlOK'
BY DEF ControlOK, Goto

LEMMA LeftType == ASSUME ControlOK, Left PROVE ControlOK'
BY DEF ControlOK, Left

LEMMA OwedIsInt == ASSUME SessionOK, NEW g \in Nat PROVE Owed(g) \in Int
<1>1. /\ memb.ppg \in Nat /\ memb.credit \in Int /\ memb.renewalFee \in Nat
      /\ memb.fullFee \in Nat /\ memb.upgradeFee \in Nat
  BY DEF SessionOK, MembType
<1>2. g * memb.ppg \in Int
  BY <1>1
<1> QED BY <1>1, <1>2 DEF Owed

LEMMA NoMembType == NoMemb \in MembType
BY DEF NoMemb, MembType

\* A request keeps its type when its session ends.
LEMMA DisownedType ==
  ASSUME NEW q \in Seq(Requests)
  PROVE  [i \in DOMAIN q |-> [q[i] EXCEPT !.own = FALSE]] \in Seq(Requests)
<1>1. DOMAIN q = 1 .. Len(q) /\ Len(q) \in Nat
  OBVIOUS
<1>2. ASSUME NEW r \in Requests PROVE [r EXCEPT !.own = FALSE] \in Requests
  BY DEF Requests
<1>3. \A i \in 1 .. Len(q) : q[i] \in Requests
  OBVIOUS
<1>4. [i \in 1 .. Len(q) |-> [q[i] EXCEPT !.own = FALSE]] \in [1 .. Len(q) -> Requests]
  BY <1>2, <1>3
<1> QED BY <1>1, <1>4, SeqDef

LEMMA ClearSessionType ==
  ASSUME SessionOK, NEW fates \in [Holds -> HoldStates], ClearSession(fates)
  PROVE  SessionOK' /\ RelaysOK'
<1>1. req' \in Seq(Requests)
  BY DisownedType DEF ClearSession, SessionOK
<1>2. memb' \in MembType
  BY NoMembType DEF ClearSession
<1>3. /\ sale' = {} /\ gallons' = 0 /\ counts' = 0 /\ spn' = "empty" /\ kp' = "empty"
      /\ preAuth' = 0 /\ trans' = NoHold /\ doVoid' = FALSE /\ mine' = {} /\ hold' = fates
      /\ pump' = FALSE /\ strike' = FALSE
  BY DEF ClearSession, ClearCard
<1>4. doVoid' \in BOOLEAN /\ RelaysOK'
  BY <1>3, Zenon DEF RelaysOK
<1>5. spn' \in KeypadKinds /\ kp' \in KeypadKinds
  BY <1>3 DEF KeypadKinds
<1>6. sale' \subseteq SaleKinds /\ mine' \subseteq Holds
  BY <1>3
<1>7. gallons' \in Nat /\ counts' \in Nat /\ preAuth' \in Int
  BY <1>3
<1>8. trans' \in Holds \cup {NoHold} /\ hold' \in [Holds -> HoldStates]
  BY <1>3
<1> QED BY <1>1, <1>2, <1>4, <1>5, <1>6, <1>7, <1>8, Zenon DEF SessionOK

LEMMA ForgottenType ==
  ASSUME SessionOK PROVE \A known : Forgotten(known) \in [Holds -> HoldStates]
BY DEF SessionOK, Forgotten, HoldStates

LEMMA ResetTargetsAreStates == \A up : ResetTargets(up) \subseteq States
BY DEF ResetTargets, RestState, States, RestStates

LEMMA ResetType ==
  ASSUME ControlOK, SessionOK, NEW up, ResetTo(up)
  PROVE  ControlOK' /\ SessionOK' /\ RelaysOK'
BY ForgottenType, ClearSessionType, ResetTargetsAreStates, GotoType DEF ResetTo

LEMMA MoveType ==
  ASSUME ControlOK, SessionOK, RelaysOK, NEW s \in States, Move(s)
  PROVE  ControlOK' /\ SessionOK' /\ RelaysOK'
<1>1. ControlOK'
  BY GotoType DEF Move
<1> QED BY <1>1 DEF Move, session, member, card, meter, link, relays, SessionOK, RelaysOK

LEMMA StayType ==
  ASSUME ControlOK, SessionOK, RelaysOK, Stay
  PROVE  ControlOK' /\ SessionOK' /\ RelaysOK'
BY MoveType DEF Stay, ControlOK

LEMMA LeaveType ==
  ASSUME ControlOK, SessionOK, RelaysOK, Left, UNCHANGED <<relays, session>>
  PROVE  ControlOK' /\ SessionOK' /\ RelaysOK'
<1>1. ControlOK'
  BY LeftType
<1> QED BY <1>1 DEF session, member, card, meter, link, relays, SessionOK, RelaysOK

LEMMA SiteKept ==
  ASSUME SiteOK, UNCHANGED <<sensors, health, evt>>, armed' \subseteq Timers
  PROVE  SiteOK'
BY DEF SiteOK, sensors, health

LEMMA StaticsKept == ASSUME StaticsOK, UNCHANGED <<capture, oper>> PROVE StaticsOK'
BY DEF StaticsOK, capture, oper

LEMMA TimersKept ==
  ASSUME SiteOK
  PROVE  /\ \A ts : Disarm(ts) => armed' \subseteq Timers
         /\ \A t \in Timers : Arm(t) => armed' \subseteq Timers
         /\ UNCHANGED armed => armed' \subseteq Timers
BY DEF SiteOK, Arm, Disarm

(***************************************************************************)
(* The states in which nobody is served.                                   *)
(***************************************************************************)
LEMMA RestType == TypeOK /\ RestStep => TypeOK'
<1> SUFFICES ASSUME TypeOK, RestStep PROVE TypeOK'
  OBVIOUS
<1> USE ResetType, MoveType, StayType, LeaveType, TimersKept DEF TypeOK
<1>s. /\ "Idle" \in States /\ "NoFuel" \in States /\ "NoServer" \in States
      /\ "UserLogin" \in States /\ "GatewayCapture" \in States /\ "Shutdown" \in States
  BY DEF States, RestStates, DialogStates, NetStates
<1>t. "Status" \in Timers /\ "Input" \in Timers /\ "DoorClose" \in Timers
  BY DEF Timers
<1>1. CASE doIdle
  <2>1. ControlOK' /\ SessionOK' /\ RelaysOK'
    BY <1>1, <1>s DEF doIdle
  <2>2. SiteOK' /\ StaticsOK'
    BY <1>1, <1>t, SiteKept, StaticsKept DEF doIdle
  <2> QED BY <2>1, <2>2
<1>2. CASE doNoFuel
  <2>1. ControlOK' /\ SessionOK' /\ RelaysOK'
    BY <1>2, <1>s DEF doNoFuel, DoReset
  <2>2. SiteOK' /\ StaticsOK'
    BY <1>2, <1>t, SiteKept, StaticsKept DEF doNoFuel
  <2> QED BY <2>1, <2>2
<1>3. CASE doNoServer
  <2>1. ControlOK' /\ SessionOK' /\ RelaysOK'
    BY <1>3, <1>s DEF doNoServer
  <2>2. armed' \subseteq Timers /\ server' \in BOOLEAN
    BY <1>3, <1>t DEF doNoServer, SiteOK
  <2>3. SiteOK'
    BY <1>3, <2>2 DEF doNoServer, SiteOK, sensors
  <2>4. StaticsOK'
    BY <1>3, StaticsKept DEF doNoServer
  <2> QED BY <2>1, <2>3, <2>4
<1>4. CASE doShutdown
  <2>1. ControlOK' /\ SessionOK' /\ RelaysOK'
    <3>1. CASE Entering("Shutdown") /\ pump' = FALSE /\ strike' = FALSE
               /\ Goto("Shutdown") /\ UNCHANGED session
      <4>1. ControlOK'
        BY <3>1, <1>s, GotoType
      <4>2. SessionOK'
        BY <3>1 DEF session, member, card, meter, link, SessionOK
      <4>3. RelaysOK'
        BY <3>1, Zenon DEF RelaysOK
      <4> QED BY <4>1, <4>2, <4>3
    <3> QED BY <3>1, <1>4, <1>s DEF doShutdown, DoReset
  <2>2. SiteOK' /\ StaticsOK'
    BY <1>4, <1>t, SiteKept, StaticsKept DEF doShutdown
  <2> QED BY <2>1, <2>2
<1>5. CASE doWaitDoorClosed
  <2>1. ControlOK' /\ SessionOK' /\ RelaysOK'
    BY <1>5, <1>s DEF doWaitDoorClosed, DoReset
  <2>2. SiteOK' /\ StaticsOK'
    BY <1>5, <1>t, SiteKept, StaticsKept DEF doWaitDoorClosed
  <2> QED BY <2>1, <2>2
<1> QED BY <1>1, <1>2, <1>3, <1>4, <1>5 DEF RestStep

(***************************************************************************)
(* The dialogs.  CoreOK is what a dialog's step preserves.                  *)
(***************************************************************************)
CoreOK == ControlOK /\ SessionOK /\ RelaysOK /\ armed \subseteq Timers

LEMMA ThenType ==
  ASSUME CoreOK
  PROVE  /\ \A s \in States : Then(s) => CoreOK'
         /\ ThenReset => CoreOK'
         /\ Ignore => CoreOK'
         /\ Again => CoreOK'
<1>1. ASSUME NEW s \in States, Then(s) PROVE CoreOK'
  BY <1>1, MoveType DEF Then, CoreOK
<1>2. ASSUME ThenReset PROVE CoreOK'
  BY <1>2, ResetType DEF ThenReset, DoReset, CoreOK
<1>3. status \in States
  BY DEF CoreOK, ControlOK
<1>4. ASSUME Again PROVE CoreOK'
  BY <1>4, StayType DEF Again, Arm, CoreOK, Timers
<1> QED BY <1>1, <1>2, <1>3, <1>4 DEF Ignore

LEMMA SellType ==
  ASSUME CoreOK, NEW kinds \in SUBSET SaleKinds, NEW s \in States, Sell(kinds, s)
  PROVE  CoreOK'
<1>1. ControlOK'
  BY GotoType DEF Sell, CoreOK
<1>2. SessionOK'
  BY DEF Sell, CoreOK, SessionOK, card, meter, link
<1>3. RelaysOK' /\ armed' \subseteq Timers
  BY DEF Sell, CoreOK, RelaysOK, relays
<1> QED BY <1>1, <1>2, <1>3 DEF CoreOK

LEMMA MembChanged ==
  ASSUME NEW m \in MembType, NEW n \in Nat
  PROVE  /\ [m EXCEPT !.ppg = n] \in MembType
         /\ [m EXCEPT !.fuelPreAuth = n] \in MembType
         /\ [m EXCEPT !.fullFee = n] \in MembType
         /\ [m EXCEPT !.credit = 0, !.ppg = n] \in MembType
<1>1. [m EXCEPT !.ppg = n] \in MembType
  BY DEF MembType
<1>2. [m EXCEPT !.fuelPreAuth = n] \in MembType
  BY DEF MembType
<1>3. [m EXCEPT !.fullFee = n] \in MembType
  BY DEF MembType
<1>4. [m EXCEPT !.credit = 0, !.ppg = n] \in MembType
  <2>1. [m EXCEPT !.credit = 0, !.ppg = n] = [[m EXCEPT !.credit = 0] EXCEPT !.ppg = n]
    BY Zenon
  <2>2. [m EXCEPT !.credit = 0] \in MembType
    BY DEF MembType
  <2>3. [[m EXCEPT !.credit = 0] EXCEPT !.ppg = n] \in MembType
    BY <2>2 DEF MembType
  <2> QED BY <2>1, <2>3, Zenon
<1> QED BY <1>1, <1>2, <1>3, <1>4

LEMMA SureChanged ==
  ASSUME NEW m \in MembType, NEW b \in BOOLEAN
  PROVE  [m EXCEPT !.sure = b] \in MembType
BY DEF MembType

LEMMA MembFields ==
  ASSUME NEW m \in MembType
  PROVE  /\ m.ppg \in Nat /\ m.surcharge \in Nat /\ m.fullFee \in Nat
         /\ m.fuelPreAuth \in Nat /\ m.ppg + m.surcharge \in Nat
BY DEF MembType

LEMMA PaySurchargeType ==
  ASSUME CoreOK, NEW s \in States, PaySurcharge(s)
  PROVE  CoreOK'
<1>1. ControlOK'
  BY GotoType DEF PaySurcharge, CoreOK
<1>2. memb' \in MembType
  BY MembChanged, MembFields DEF PaySurcharge, CoreOK, SessionOK
<1>3. SessionOK'
  BY <1>2 DEF PaySurcharge, CoreOK, SessionOK, card, meter, link
<1>4. RelaysOK' /\ armed' \subseteq Timers
  BY DEF PaySurcharge, CoreOK, RelaysOK, relays
<1> QED BY <1>1, <1>3, <1>4 DEF CoreOK

LEMMA EnterAmountType == ASSUME CoreOK, EnterAmount PROVE CoreOK'
<1>1. CASE UNCHANGED memb /\ Arm("Input") /\ Goto(status) /\ kp' \in KeypadKinds
           /\ UNCHANGED <<relays, member, card, meter, link>>
  <2>1. ControlOK'
    BY <1>1, GotoType DEF CoreOK, ControlOK
  <2>2. SessionOK'
    BY <1>1 DEF CoreOK, SessionOK, member, card, meter, link
  <2>3. RelaysOK' /\ armed' \subseteq Timers
    BY <1>1 DEF CoreOK, RelaysOK, relays, Arm, Timers
  <2> QED BY <2>1, <2>2, <2>3 DEF CoreOK
<1>2. ASSUME NEW a \in 1 .. MaxFuelPreAuth, memb' = [memb EXCEPT !.fuelPreAuth = a],
             Disarm({"Input"}), Goto("GatewayPreAuth"),
             UNCHANGED <<relays, sale, spn, preAuth, card, meter, link, kp>>
      PROVE  CoreOK'
  <2>1. ControlOK'
    BY <1>2, GotoType DEF CoreOK, States, NetStates
  <2>2. memb' \in MembType
    <3>1. a \in Nat
      BY KioskConstants
    <3> QED BY <1>2, <3>1, MembChanged DEF CoreOK, SessionOK
  <2>3. SessionOK'
    BY <1>2, <2>2 DEF CoreOK, SessionOK, card, meter, link
  <2>4. RelaysOK' /\ armed' \subseteq Timers
    BY <1>2 DEF CoreOK, RelaysOK, relays, Disarm
  <2> QED BY <2>1, <2>3, <2>4 DEF CoreOK
<1>3. "zero" \in KeypadKinds /\ (CoreOK => kp \in KeypadKinds)
  BY DEF KeypadKinds, CoreOK, SessionOK
<1>4. UNCHANGED member => UNCHANGED memb
  BY DEF member
<1> QED BY <1>1, <1>2, <1>3, <1>4 DEF EnterAmount

LEMMA DialogType == ASSUME CoreOK, DialogEnter \/ DialogExit PROVE CoreOK'
<1>1. CASE DialogEnter
  <2>1. ControlOK'
    BY <1>1, GotoType DEF DialogEnter, CoreOK, ControlOK
  <2>2. kp' \in KeypadKinds
    BY <1>1 DEF DialogEnter, CoreOK, SessionOK, KeypadKinds
  <2>3. SessionOK'
    BY <1>1, <2>2 DEF DialogEnter, CoreOK, SessionOK, member, card, meter, link
  <2>4. RelaysOK' /\ armed' \subseteq Timers
    BY <1>1 DEF DialogEnter, CoreOK, RelaysOK, relays, Arm, Timers
  <2> QED BY <2>1, <2>3, <2>4 DEF CoreOK
<1>2. CASE DialogExit
  BY <1>2, LeaveType DEF DialogExit, CoreOK, Disarm
<1> QED BY <1>1, <1>2

LEMMA SaleType == TypeOK /\ SaleStep => TypeOK'
<1> SUFFICES ASSUME TypeOK, SaleStep PROVE TypeOK'
  OBVIOUS
<1> USE ThenType
<1>0. CoreOK
  BY DEF TypeOK, CoreOK, SiteOK
<1>z. SUFFICES CoreOK'
  BY SiteKept, StaticsKept DEF TypeOK, CoreOK, SaleStep
<1>s. DialogStates \cup NetStates \subseteq States
  BY DEF States
<1>d. /\ {"AskRenew", "AskBuyMemb", "AskUpgrade", "BuyMemb", "SPNConf", "AskRenewExpired",
           "RenewExpired", "AskDeclined", "MSRReswipe", "SetPreAuth"} \subseteq States
      /\ {"ServerAuth", "GatewayPreAuth"} \subseteq States
  BY <1>s DEF DialogStates, NetStates
<1>r. AfterRenewal \in States
  BY <1>d DEF AfterRenewal
<1>1. CASE DialogEnter \/ DialogExit
  BY <1>0, <1>1, DialogType
<1>2. CASE doUserLogin
  BY <1>0, <1>2, <1>d DEF doUserLogin
<1>3. CASE doAskRenew
  BY <1>0, <1>3, <1>d, <1>r, SellType DEF doAskRenew, SaleKinds
<1>4. CASE doAskBuyMemb \/ doAskRenewExpired
  BY <1>0, <1>4, <1>d DEF doAskBuyMemb, doAskRenewExpired, Confirm
<1>5. CASE doAskUpgrade
  <2>1. {"upgrade"} \cup (IF memb.renewalFee > 0 THEN {"renewal"} ELSE {}) \in SUBSET SaleKinds
    BY DEF SaleKinds
  <2> QED BY <1>0, <1>5, <1>d, <2>1, SellType, PaySurchargeType DEF doAskUpgrade
<1>6. CASE doRenewExpired
  BY <1>0, <1>6, <1>d, <1>r, SellType, PaySurchargeType DEF doRenewExpired, SaleKinds
<1>7. CASE doBuyMemb
  BY <1>0, <1>7, <1>d, SellType DEF doBuyMemb, SaleKinds
<1>x. ASSUME DoReset, Disarm({"Input"}) PROVE CoreOK'
  BY <1>0, <1>x, ResetType DEF DoReset, Disarm, CoreOK
<1>8. CASE doSPNConf
  BY <1>0, <1>8, <1>d, <1>x DEF doSPNConf
<1>9. CASE doAskDeclined \/ doMSRReswipe
  BY <1>0, <1>9, <1>d DEF doAskDeclined, doMSRReswipe
<1>10. CASE doSetPreAuth
  BY <1>0, <1>10, <1>x, EnterAmountType DEF doSetPreAuth
<1> QED
  BY <1>1, <1>2, <1>3, <1>4, <1>5, <1>6, <1>7, <1>8, <1>9, <1>10 DEF SaleStep

(***************************************************************************)
(* The server and the gateway.                                             *)
(***************************************************************************)
LEMMA SendType ==
  ASSUME SessionOK, NEW op \in NewMembs \cup {"auth", "PreAuth", "Capture", "Void"},
         NEW h \in Holds \cup {NoHold}, Send(op, h)
  PROVE  req' \in Seq(Requests)
<1>1. [op |-> op, hold |-> h, own |-> TRUE] \in Requests
  BY DEF Requests
<1>2. req \in Seq(Requests)
  BY DEF SessionOK
<1> QED BY <1>1, <1>2, AppendProperties DEF Send

LEMMA ServerAuthType == ASSUME CoreOK, doServerAuth PROVE CoreOK'
<1> USE ThenType
<1>s. {"AskRenew", "AskUpgrade", "GatewayPreAuth", "AskBuyMemb", "AskRenewExpired",
       "NoServer"} \subseteq States
  BY DEF States, DialogStates, NetStates, RestStates
<1>1. CASE ServerAuthEnter
  <2>1. ControlOK'
    BY <1>1, GotoType DEF ServerAuthEnter, CoreOK, ControlOK
  <2>2. req' \in Seq(Requests)
    BY <1>1, SendType DEF ServerAuthEnter, CoreOK
  <2>3. spn' \in KeypadKinds /\ kp' \in KeypadKinds
    BY <1>1 DEF ServerAuthEnter, CoreOK, SessionOK, KeypadKinds
  <2>m. memb' \in MembType
    BY <1>1, SureChanged DEF ServerAuthEnter, CoreOK, SessionOK
  <2>4. SessionOK'
    BY <1>1, <2>2, <2>3, <2>m DEF ServerAuthEnter, CoreOK, SessionOK, card, meter
  <2>5. RelaysOK' /\ armed' \subseteq Timers
    BY <1>1 DEF ServerAuthEnter, CoreOK, RelaysOK, relays, Timers
  <2> QED BY <2>1, <2>4, <2>5 DEF CoreOK
<1>2. CASE Disarm({"ServerResp"}) /\ Left /\ UNCHANGED <<relays, session, violation>>
  BY <1>2, LeaveType DEF CoreOK, Disarm
<1> QED BY <1>1, <1>2, <1>s DEF doServerAuth, AfterRenewal

LEMMA AfterPreAuthIsState == {AfterPreAuth, AfterRegistration} \subseteq States
BY DEF AfterPreAuth, AfterRegistration, States, NetStates

LEMMA PreAuthType ==
  ASSUME CoreOK, retries \in Nat, doGatewayPreAuth
  PROVE  CoreOK' /\ retries' \in Nat
<1> USE ThenType
<1>s. {"MSRReswipe", "AskDeclined", "GatewayPreAuth"} \subseteq States
  BY DEF States, DialogStates, NetStates
<1>1. CASE GatewayPreAuthEnter
  <2>1. ControlOK'
    BY <1>1, GotoType, AfterPreAuthIsState DEF GatewayPreAuthEnter, CoreOK, ControlOK
  <2>2. preAuth' \in Int
    <3>1. memb.fuelPreAuth \in Nat /\ Owed(0) \in Int
      BY MembFields, OwedIsInt DEF CoreOK, SessionOK
    <3>2. preAuth' = memb.fuelPreAuth + Owed(0)
      BY <1>1 DEF GatewayPreAuthEnter
    <3> QED BY <3>1, <3>2
  <2>3. SessionOK'
    BY <1>1, <2>2 DEF GatewayPreAuthEnter, CoreOK, SessionOK, card, meter, link
  <2>4. RelaysOK' /\ armed' \subseteq Timers
    BY <1>1 DEF GatewayPreAuthEnter, CoreOK, RelaysOK, relays, Timers
  <2> QED BY <1>1, <2>1, <2>3, <2>4 DEF CoreOK, GatewayPreAuthEnter
<1>2. CASE Disarm({"ServerResp", "GW Retry"}) /\ Left /\ UNCHANGED <<relays, session, retries>>
  BY <1>2, LeaveType DEF CoreOK, Disarm
<1>3. CASE /\ memb' = [memb EXCEPT !.sure = @ /\ ~AuthorizationDue]
           /\ Send("PreAuth", NoHold) /\ Arm("ServerResp") /\ Goto(status)
           /\ UNCHANGED <<relays, sale, spn, preAuth, card, meter, hold, mine, kp, retries>>
  <2>1. ControlOK'
    BY <1>3, GotoType DEF CoreOK, ControlOK
  <2>2. req' \in Seq(Requests)
    BY <1>3, SendType DEF CoreOK
  <2>m. memb' \in MembType
    <3>1. memb \in MembType
      BY DEF CoreOK, SessionOK
    <3>2. (memb.sure /\ ~AuthorizationDue) \in BOOLEAN
      OBVIOUS
    <3>3. memb' = [memb EXCEPT !.sure = memb.sure /\ ~AuthorizationDue]
      BY <1>3, Zenon
    <3> QED BY <3>1, <3>2, <3>3, SureChanged, Zenon
  <2>3. SessionOK'
    BY <1>3, <2>2, <2>m DEF CoreOK, SessionOK, card, meter
  <2>4. RelaysOK' /\ armed' \subseteq Timers
    BY <1>3 DEF CoreOK, RelaysOK, relays, Arm, Timers
  <2> QED BY <1>3, <2>1, <2>3, <2>4 DEF CoreOK
<1>4. CASE PreAuthAnswer
  <2>1. ASSUME Disarm({"GW Retry"}) \/ Arm("GW Retry"), NEW s \in States, Move(s)
        PROVE  CoreOK'
    BY <2>1, MoveType DEF CoreOK, Disarm, Arm, Timers
  <2>2. status \in States
    BY DEF CoreOK, ControlOK
  <2>3. CoreOK'
    BY <1>4, <1>s, <2>1, <2>2, AfterPreAuthIsState DEF PreAuthAnswer, Stay
  <2>4. retries' \in {retries, retries + 1}
    BY <1>4 DEF PreAuthAnswer, NextRetry
  <2> QED BY <2>3, <2>4
<1>5. CASE Ignore /\ UNCHANGED retries
  BY <1>5
<1> QED BY <1>1, <1>2, <1>3, <1>4, <1>5 DEF doGatewayPreAuth

LEMMA RegNewMembType == ASSUME CoreOK, doRegNewMemb PROVE CoreOK'
<1> USE ThenType
<1>s. "GatewayCapture" \in States
  BY DEF States, NetStates
<1>1. ASSUME NEW op \in NewMembs, Send(op, trans), Arm("ServerResp"), Goto(status),
             UNCHANGED <<relays, member, card, meter, hold, mine, kp, violation>>
      PROVE  CoreOK'
  <2>1. ControlOK'
    BY <1>1, GotoType DEF CoreOK, ControlOK
  <2>2. req' \in Seq(Requests)
    BY <1>1, SendType DEF CoreOK, SessionOK
  <2>3. SessionOK'
    BY <1>1, <2>2 DEF CoreOK, SessionOK, member, card, meter
  <2>4. RelaysOK' /\ armed' \subseteq Timers
    BY <1>1 DEF CoreOK, RelaysOK, relays, Arm, Timers
  <2> QED BY <2>1, <2>3, <2>4 DEF CoreOK
<1>2. CASE Disarm({"ServerResp"}) /\ Left /\ UNCHANGED <<relays, session, violation>>
  BY <1>2, LeaveType DEF CoreOK, Disarm
<1>3. CASE /\ sale' = sale \ {"full", "temp"} /\ Goto(AfterRegistration)
           /\ UNCHANGED <<relays, memb, spn, preAuth, card, meter, link, kp, armed>>
  <2>1. ControlOK'
    BY <1>3, GotoType, AfterPreAuthIsState DEF CoreOK
  <2>2. SessionOK'
    BY <1>3 DEF CoreOK, SessionOK, card, meter, link
  <2>3. RelaysOK' /\ armed' \subseteq Timers
    BY <1>3 DEF CoreOK, RelaysOK, relays
  <2> QED BY <2>1, <2>2, <2>3 DEF CoreOK
<1>4. CASE /\ CancelSale /\ Goto("GatewayCapture")
           /\ UNCHANGED <<relays, member, trans, meter, link, kp, armed, violation>>
  <2>1. ControlOK'
    BY <1>4, <1>s, GotoType DEF CoreOK
  <2>2. SessionOK'
    BY <1>4 DEF CancelSale, CoreOK, SessionOK, member, meter, link
  <2>3. RelaysOK' /\ armed' \subseteq Timers
    BY <1>4 DEF CoreOK, RelaysOK, relays
  <2> QED BY <2>1, <2>2, <2>3 DEF CoreOK
<1>5. "new_memb FULL" \in NewMembs /\ "new_memb ONE-DAY" \in NewMembs
  BY DEF NewMembs
<1> QED BY <1>1, <1>2, <1>3, <1>4, <1>5 DEF doRegNewMemb

LEMMA DispensingType == ASSUME CoreOK, doDispensing PROVE CoreOK'
<1> USE ThenType
<1>s. "GatewayCapture" \in States
  BY DEF States, NetStates
<1>1. CASE DispensingEnter
  <2>1. ControlOK'
    BY <1>1, GotoType DEF DispensingEnter, CoreOK, ControlOK
  <2>2. SessionOK'
    BY <1>1 DEF DispensingEnter, CoreOK, SessionOK, member, card, link
  <2>3. RelaysOK'
    BY <1>1 DEF DispensingEnter, CoreOK, RelaysOK
  <2>4. armed' \subseteq Timers
    BY <1>1 DEF DispensingEnter, CoreOK, Timers
  <2> QED BY <2>1, <2>2, <2>3, <2>4 DEF CoreOK
<1>2. CASE DispensingExit
  <2>1. ControlOK'
    BY <1>2, LeftType DEF DispensingExit, CoreOK
  <2>2. SessionOK'
    BY <1>2 DEF DispensingExit, CoreOK, SessionOK, member, card, link
  <2>3. RelaysOK' /\ armed' \subseteq Timers
    BY <1>2 DEF DispensingExit, CoreOK, RelaysOK, Disarm
  <2> QED BY <2>1, <2>2, <2>3 DEF CoreOK
<1>3. CASE /\ armed' = armed \cup {"StrikeRly", "Dispensing"} /\ pump' = TRUE
           /\ Goto(status) /\ UNCHANGED <<session, strike>>
  <2>1. ControlOK'
    BY <1>3, GotoType DEF CoreOK, ControlOK
  <2>2. SessionOK'
    BY <1>3 DEF CoreOK, SessionOK, session, member, card, meter, link
  <2>3. RelaysOK' /\ armed' \subseteq Timers
    BY <1>3 DEF CoreOK, RelaysOK, Timers
  <2> QED BY <2>1, <2>2, <2>3 DEF CoreOK
<1>4. CASE Arm("Dispensing") /\ Stay
  BY <1>4, StayType DEF CoreOK, Arm, Timers
<1> QED BY <1>1, <1>2, <1>3, <1>4, <1>s DEF doDispensing

LEMMA GiveUpType ==
  ASSUME ControlOK, SessionOK, GiveUp PROVE ControlOK' /\ SessionOK' /\ RelaysOK'
<1>1. [h \in Holds |-> IF h = trans /\ hold[h] = "live" THEN "reported"
                          ELSE Forgotten(NoHold)[h]]
        \in [Holds -> HoldStates]
  <2>1. Forgotten(NoHold) \in [Holds -> HoldStates] /\ "reported" \in HoldStates
    BY ForgottenType DEF HoldStates
  <2> QED BY <2>1
<1> QED BY <1>1, ClearSessionType, ResetTargetsAreStates, GotoType DEF GiveUp

LEMMA CaptureType ==
  ASSUME CoreOK, amount \in Int, retries \in Nat, doGatewayCapture
  PROVE  CoreOK' /\ amount' \in Int /\ retries' \in Nat
<1> USE ThenType
<1>s. "NoServer" \in States
  BY DEF States, RestStates
<1>1. CASE CaptureEnter
  <2>1. CASE amount' = 0 /\ Arm("ServerResp") /\ DoReset
    <3>1. CoreOK'
      BY <2>1, ResetType DEF DoReset, CoreOK, Arm, Timers
    <3>2. amount' = 0 /\ retries' = 0
      BY <1>1, <2>1 DEF CaptureEnter
    <3> QED BY <3>1, <3>2
  <2>2. CASE /\ amount' = IF Owed(gallons) <= preAuth THEN Owed(gallons) ELSE preAuth
             /\ doVoid' = (doVoid \/ amount' < CCThreshold)
             /\ armed' = armed \cup {"GW Retry", "ServerResp"}
             /\ Goto(status)
             /\ hold' = Forgotten(trans)
             /\ mine' = {h \in mine : hold'[h] # "none"}
             /\ UNCHANGED <<relays, member, trans, meter, req, kp>>
    <3>1. ControlOK'
      BY <2>2, GotoType DEF CoreOK, ControlOK
    <3>2. doVoid' \in BOOLEAN
      BY <2>2
    <3>3. SessionOK'
      <4>1. hold' \in [Holds -> HoldStates]
        BY <2>2, ForgottenType DEF CoreOK
      <4> QED BY <2>2, <3>2, <4>1 DEF CoreOK, SessionOK, member, meter
    <3>4. RelaysOK' /\ armed' \subseteq Timers
      BY <2>2 DEF CoreOK, RelaysOK, relays, Timers
    <3>5. amount' \in Int
      BY <2>2, OwedIsInt DEF CoreOK, SessionOK
    <3> QED BY <1>1, <3>1, <3>3, <3>4, <3>5 DEF CaptureEnter, CoreOK
  <2> QED BY <1>1, <2>1, <2>2 DEF CaptureEnter
<1>2. CASE CaptureExit
  BY <1>2, LeaveType DEF CaptureExit, CoreOK, Disarm
<1>3. CASE retries' = NextRetry /\ Arm("GW Retry") /\ Stay /\ UNCHANGED amount
  <2>1. CoreOK'
    BY <1>3, StayType DEF CoreOK, Arm, Timers
  <2>2. retries' = retries + 1 /\ amount' = amount
    BY <1>3 DEF NextRetry
  <2> QED BY <2>1, <2>2
<1>4. CASE AskGateway /\ UNCHANGED capture
  <2>1. armed' \subseteq Timers
    BY <1>4 DEF AskGateway, CoreOK, Arm, Timers
  <2>2. ASSUME NEW op \in {"Void", "Capture"}, Send(op, trans), Goto(status),
               UNCHANGED <<relays, member, card, meter, hold, mine, kp>>
        PROVE  ControlOK' /\ SessionOK' /\ RelaysOK'
    <3>1. ControlOK'
      BY <2>2, GotoType DEF CoreOK, ControlOK
    <3>2. req' \in Seq(Requests)
      BY <2>2, SendType DEF CoreOK, SessionOK
    <3>3. SessionOK'
      BY <2>2, <3>2 DEF CoreOK, SessionOK, member, card, meter
    <3> QED BY <2>2, <3>1, <3>3 DEF CoreOK, RelaysOK, relays
  <2>3. ControlOK' /\ SessionOK' /\ RelaysOK'
    BY <1>4, <2>2, GiveUpType, ResetType DEF AskGateway, DoReset, CoreOK
  <2> QED BY <1>4, <2>1, <2>3 DEF CoreOK, capture
<1>5. CASE UNCHANGED capture /\ GiveUp /\ UNCHANGED armed
  BY <1>5, GiveUpType DEF CoreOK, capture
<1>6. CASE UNCHANGED capture /\ Disarm({"GW Retry"}) /\ DoReset
  BY <1>6, ResetType DEF CoreOK, capture, DoReset, Disarm
<1>7. CASE UNCHANGED capture /\ (Then("NoServer") \/ Ignore)
  BY <1>7, <1>s DEF capture
<1> QED BY <1>1, <1>2, <1>3, <1>4, <1>5, <1>6, <1>7 DEF doGatewayCapture

LEMMA CardType == TypeOK /\ CardStep => TypeOK'
<1> SUFFICES ASSUME TypeOK, CardStep PROVE TypeOK'
  OBVIOUS
<1>0. CoreOK
  BY DEF TypeOK, CoreOK, SiteOK
<1>1. CASE /\ doServerAuth \/ doRegNewMemb
           /\ UNCHANGED <<sensors, capture, oper, server, fuelOut, evt>>
  <2>1. CoreOK'
    BY <1>0, <1>1, ServerAuthType, RegNewMembType
  <2>2. violation' \in {0, violation}
    BY <1>1 DEF doServerAuth, ServerAuthEnter, doRegNewMemb, ThenReset, Then, Ignore,
                relays, health
  <2>3. SiteOK'
    BY <1>1, <2>1, <2>2 DEF TypeOK, SiteOK, CoreOK, sensors
  <2>4. StaticsOK'
    BY <1>1, StaticsKept DEF TypeOK
  <2> QED BY <2>1, <2>3, <2>4 DEF TypeOK, CoreOK
<1>2. CASE doGatewayPreAuth /\ UNCHANGED <<sensors, amount, oper, health, evt>>
  <2>1. CoreOK' /\ retries' \in Nat
    BY <1>0, <1>2, PreAuthType DEF TypeOK, StaticsOK
  <2>2. SiteOK'
    BY <1>2, <2>1, SiteKept DEF TypeOK, CoreOK
  <2>3. StaticsOK'
    BY <1>2, <2>1 DEF TypeOK, StaticsOK, oper
  <2> QED BY <2>1, <2>2, <2>3 DEF TypeOK, CoreOK
<1>3. CASE doDispensing /\ UNCHANGED <<sensors, capture, oper, health, evt>>
  BY <1>0, <1>3, DispensingType, SiteKept, StaticsKept DEF TypeOK, CoreOK
<1>4. CASE doGatewayCapture /\ UNCHANGED <<sensors, oper, health, evt>>
  <2>1. CoreOK' /\ amount' \in Int /\ retries' \in Nat
    BY <1>0, <1>4, CaptureType DEF TypeOK, StaticsOK
  <2>2. SiteOK'
    BY <1>4, <2>1, SiteKept DEF TypeOK, CoreOK
  <2>3. StaticsOK'
    BY <1>4, <2>1 DEF TypeOK, StaticsOK, oper
  <2> QED BY <2>1, <2>2, <2>3 DEF TypeOK, CoreOK
<1> QED BY <1>1, <1>2, <1>3, <1>4 DEF CardStep

(***************************************************************************)
(* Operator mode.                                                          *)
(***************************************************************************)
FlagsOK == isSubstate \in BOOLEAN /\ waitDoorClosed \in BOOLEAN

LEMMA OperatorEventType ==
  ASSUME CoreOK, FlagsOK, OperatorEvent PROVE CoreOK' /\ FlagsOK'
<1> USE ThenType
<1>s. "CalMenu" \in States
  BY DEF States, SubStates
<1>1. CASE OperatorCodeTyped
  <2>1. CASE /\ pump' = FALSE /\ strike' = FALSE /\ kp' = "empty"
             /\ Arm("DoorClose") /\ waitDoorClosed' = TRUE
             /\ Goto(status)
             /\ UNCHANGED <<member, card, meter, link>>
    <3>1. ControlOK'
      BY <2>1, GotoType DEF CoreOK, ControlOK
    <3>2. SessionOK'
      BY <2>1 DEF CoreOK, SessionOK, KeypadKinds, member, card, meter, link
    <3>3. RelaysOK' /\ armed' \subseteq Timers
      BY <2>1 DEF CoreOK, RelaysOK, Arm, Timers
    <3> QED BY <1>1, <2>1, <3>1, <3>2, <3>3 DEF CoreOK, FlagsOK, OperatorCodeTyped
  <2>2. CASE DoReset /\ UNCHANGED <<armed, waitDoorClosed>>
    BY <1>1, <2>2, ResetType DEF CoreOK, DoReset, FlagsOK, OperatorCodeTyped
  <2> QED BY <1>1, <2>1, <2>2 DEF OperatorCodeTyped
<1>2. CASE isSubstate' = TRUE /\ Then("CalMenu") /\ UNCHANGED waitDoorClosed
  BY <1>2, <1>s DEF FlagsOK
<1>3. CASE /\ waitDoorClosed' = FALSE
           /\ armed' = IF cur = "Door Closed" THEN armed \ {"DoorClose"} ELSE armed
           /\ DoReset /\ UNCHANGED isSubstate
  BY <1>3, ResetType DEF CoreOK, DoReset, FlagsOK
<1>4. CASE Arm("StrikeRly") /\ Stay /\ UNCHANGED <<isSubstate, waitDoorClosed>>
  BY <1>4, StayType DEF CoreOK, Arm, Timers, FlagsOK
<1>5. CASE (ThenReset \/ Ignore) /\ UNCHANGED <<isSubstate, waitDoorClosed>>
  BY <1>5 DEF FlagsOK
<1> QED BY <1>1, <1>2, <1>3, <1>4, <1>5 DEF OperatorEvent

LEMMA OperatorType == TypeOK /\ doOperator => TypeOK'
<1> SUFFICES ASSUME TypeOK, doOperator PROVE TypeOK'
  OBVIOUS
<1>0. CoreOK /\ FlagsOK
  BY DEF TypeOK, CoreOK, SiteOK, StaticsOK, FlagsOK
<1>1. CoreOK' /\ FlagsOK'
  <2>1. CASE OperatorEnter
    <3>1. ControlOK'
      BY <1>0, <2>1, GotoType DEF OperatorEnter, CoreOK, ControlOK
    <3>2. memb' \in MembType
      BY <1>0, <2>1, MembChanged DEF OperatorEnter, CoreOK, SessionOK
    <3>3. SessionOK'
      BY <1>0, <2>1, <3>2 DEF OperatorEnter, CoreOK, SessionOK, card, link
    <3>4. RelaysOK' /\ armed' \subseteq Timers
      BY <1>0, <2>1 DEF OperatorEnter, CoreOK, RelaysOK, Timers
    <3>5. FlagsOK'
      BY <1>0, <2>1 DEF OperatorEnter, FlagsOK
    <3> QED BY <3>1, <3>3, <3>4, <3>5 DEF CoreOK
  <2>2. CASE OperatorReenter
    <3>1. ControlOK'
      BY <1>0, <2>2, GotoType DEF OperatorReenter, CoreOK, ControlOK
    <3>2. SessionOK'
      BY <1>0, <2>2 DEF OperatorReenter, CoreOK, SessionOK, session, member, card, meter, link
    <3>3. RelaysOK' /\ armed' \subseteq Timers
      BY <1>0, <2>2 DEF OperatorReenter, CoreOK, RelaysOK, Arm, Timers
    <3>4. FlagsOK'
      BY <1>0, <2>2 DEF OperatorReenter, FlagsOK
    <3> QED BY <3>1, <3>2, <3>3, <3>4 DEF CoreOK
  <2>3. CASE OperatorExit
    <3>1. ControlOK'
      BY <1>0, <2>3, LeftType DEF OperatorExit, CoreOK
    <3>2. SessionOK'
      BY <1>0, <2>3 DEF OperatorExit, CoreOK, SessionOK, session, member, card, meter, link
    <3>3. RelaysOK' /\ armed' \subseteq Timers
      BY <1>0, <2>3 DEF OperatorExit, CoreOK, RelaysOK, Disarm
    <3>4. FlagsOK'
      BY <1>0, <2>3 DEF OperatorExit, FlagsOK
    <3> QED BY <3>1, <3>2, <3>3, <3>4 DEF CoreOK
  <2> QED BY <1>0, <2>1, <2>2, <2>3, OperatorEventType DEF doOperator
<1>2. violation' \in {0, violation}
  BY DEF doOperator, OperatorEnter, OperatorReenter, OperatorExit
<1>3. SiteOK'
  BY <1>1, <1>2 DEF doOperator, TypeOK, SiteOK, CoreOK, sensors
<1>4. StaticsOK'
  BY <1>1 DEF doOperator, TypeOK, StaticsOK, FlagsOK, capture
<1> QED BY <1>1, <1>3, <1>4 DEF TypeOK, CoreOK

(***************************************************************************)
(* The menus.                                                              *)
(***************************************************************************)
MenuOK == FlagsOK /\ operatorExit \in BOOLEAN /\ doCancel \in BOOLEAN /\ fuelOut \in BOOLEAN

LEMMA HandOverType == ASSUME CoreOK, MenuOK, HandOver PROVE CoreOK' /\ MenuOK'
<1>1. CoreOK' /\ FlagsOK'
  BY OperatorEventType DEF HandOver, MenuOK
<1> QED BY <1>1 DEF HandOver, MenuOK

LEMMA SubExitType ==
  ASSUME CoreOK, MenuOK, NEW s \in States, SubExit(s), doCancel' \in BOOLEAN
  PROVE  CoreOK' /\ MenuOK'
<1>1. CoreOK'
  BY ThenType DEF SubExit
<1> QED BY <1>1 DEF SubExit, MenuOK, FlagsOK

LEMMA SubStayType == ASSUME CoreOK, MenuOK, SubStay PROVE CoreOK' /\ MenuOK'
<1>1. status \in States /\ doCancel' \in BOOLEAN
  BY DEF CoreOK, ControlOK, MenuOK, SubStay
<1> QED BY <1>1, SubExitType DEF SubStay

LEMMA MenusAreStates == SubStates \cup {"Operator"} \subseteq States
BY DEF States

LEMMA SubEdgeType ==
  ASSUME CoreOK, MenuOK, SubStateEnter \/ SubStateExit PROVE CoreOK' /\ MenuOK'
<1>1. CASE SubStateEnter
  <2>1. ControlOK'
    BY <1>1, GotoType DEF SubStateEnter, CoreOK, ControlOK
  <2>2. SessionOK'
    BY <1>1 DEF SubStateEnter, CoreOK, SessionOK, KeypadKinds, member, card, meter, link
  <2>3. RelaysOK' /\ armed' \subseteq Timers
    BY <1>1 DEF SubStateEnter, CoreOK, RelaysOK, relays, Arm, Timers
  <2>4. MenuOK'
    BY <1>1 DEF SubStateEnter, MenuOK, FlagsOK
  <2> QED BY <2>1, <2>2, <2>3, <2>4 DEF CoreOK
<1>2. CASE SubStateExit
  <2>1. ControlOK'
    BY <1>2, LeftType DEF SubStateExit, CoreOK
  <2>2. kp' \in KeypadKinds
    BY <1>2 DEF SubStateExit, CoreOK, SessionOK, KeypadKinds
  <2>3. SessionOK'
    BY <1>2, <2>2 DEF SubStateExit, CoreOK, SessionOK, member, card, meter, link
  <2>4. RelaysOK' /\ armed' \subseteq Timers
    BY <1>2 DEF SubStateExit, CoreOK, RelaysOK, Disarm
  <2>5. MenuOK'
    BY <1>2 DEF SubStateExit, MenuOK, FlagsOK
  <2> QED BY <2>1, <2>3, <2>4, <2>5 DEF CoreOK
<1> QED BY <1>1, <1>2

LEMMA CalMenuType == ASSUME CoreOK, MenuOK, doCalMenu PROVE CoreOK' /\ MenuOK'
<1>1. {"SetAvailGal", "ShowStatus", "CalOnAmps", "Operator"} \subseteq States
  BY MenusAreStates DEF SubStates
<1>2. status \in States
  BY DEF CoreOK, ControlOK
<1> QED BY <1>1, <1>2, SubExitType, SubStayType, HandOverType DEF doCalMenu

\* What is typed in a menu ends in the menu itself, the next one, or Operator.
LEMMA MenuMoveType ==
  ASSUME CoreOK, MenuOK, NEW s \in States, Move(s),
         Arm("Input") \/ Disarm({"Input"}) \/ UNCHANGED armed,
         UNCHANGED <<isSubstate, waitDoorClosed, operatorExit>>,
         doCancel' \in BOOLEAN, fuelOut' \in BOOLEAN
  PROVE  CoreOK' /\ MenuOK'
<1>1. ControlOK' /\ SessionOK' /\ RelaysOK'
  BY MoveType DEF CoreOK
<1>2. armed' \subseteq Timers
  BY DEF CoreOK, Arm, Disarm, Timers
<1>3. MenuOK'
  BY DEF MenuOK, FlagsOK
<1> QED BY <1>1, <1>2, <1>3 DEF CoreOK

LEMMA MenuType ==
  ASSUME CoreOK, MenuOK, NEW r \in BOOLEAN, Menu(r) PROVE CoreOK' /\ MenuOK'
<1>s. "Operator" \in States /\ status \in States
  BY MenusAreStates DEF CoreOK, ControlOK
<1>b. doCancel \in BOOLEAN /\ fuelOut \in BOOLEAN
  BY DEF MenuOK
<1>1. CASE MenuKey(r)
  <2>1. doCancel' \in BOOLEAN /\ fuelOut' \in BOOLEAN
    BY <1>1, <1>b DEF MenuKey
  <2> QED BY <1>1, <1>s, <2>1, MenuMoveType DEF MenuKey, Stay
<1>2. CASE SubExit("Operator") /\ doCancel' = TRUE
  BY <1>2, <1>s, SubExitType
<1> QED BY <1>1, <1>2, SubStayType, HandOverType DEF Menu

LEMMA LeadsType ==
  ASSUME CoreOK, MenuOK, NEW s \in SubStates \cup {"Operator"}, NEW c \in BOOLEAN,
         Leads(s, c), fuelOut' \in BOOLEAN
  PROVE  CoreOK' /\ MenuOK'
BY MenusAreStates, MenuMoveType DEF Leads

LEMMA NextMenuType ==
  ASSUME CoreOK, MenuOK, NEW s \in SubStates, NextMenu(s) PROVE CoreOK' /\ MenuOK'
<1>1. fuelOut' \in BOOLEAN
  BY DEF NextMenu, MenuOK
<1> QED BY <1>1, LeadsType DEF NextMenu

LEMMA SettingsType ==
  ASSUME CoreOK, MenuOK, SettingsSaved \/ SettingsDropped PROVE CoreOK' /\ MenuOK'
<1>1. fuelOut' \in BOOLEAN
  BY DEF SettingsSaved, SettingsDropped, MenuOK
<1> QED BY <1>1, LeadsType DEF SettingsSaved, SettingsDropped

LEMMA SetMenuType == ASSUME CoreOK, MenuOK, doMenu PROVE CoreOK' /\ MenuOK'
<1>1. ASSUME NEW r \in BOOLEAN, Menu(r) PROVE CoreOK' /\ MenuOK'
  BY <1>1, MenuType
<1>2. ASSUME NEW s \in SubStates, NextMenu(s) PROVE CoreOK' /\ MenuOK'
  BY <1>2, NextMenuType
<1>3. {"CalOffAmps", "CalKFact", "SetTankCap", "SetLowFuel", "SetNoFuel", "SetOperSPN",
       "ConfOperSPN", "SetFuelType", "SetPPG"} \subseteq SubStates
  BY DEF SubStates
<1>4. CASE doCalOnAmps \/ doCalOffAmps \/ doCalKFact \/ doSetTankCap \/ doSetLowFuel
  BY <1>1, <1>2, <1>3, <1>4 DEF doCalOnAmps, doCalOffAmps, doCalKFact, doSetTankCap,
                                doSetLowFuel
<1>5. CASE doSetNoFuel \/ doSetOperSPN \/ doConfOperSPN
  BY <1>1, <1>2, <1>3, <1>5, SettingsType DEF doSetNoFuel, doSetOperSPN, doConfOperSPN
<1>6. CASE doSetAvailGal \/ doSetFuelType \/ doSetPPG
  BY <1>1, <1>2, <1>3, <1>6, SettingsType DEF doSetAvailGal, doSetFuelType, doSetPPG
<1> QED BY <1>4, <1>5, <1>6 DEF doMenu

LEMMA ShowType ==
  ASSUME CoreOK, MenuOK, doShowStatus \/ doShowNetStatus PROVE CoreOK' /\ MenuOK'
<1>s. "Operator" \in States /\ "ShowNetStatus" \in States /\ status \in States
  BY MenusAreStates DEF SubStates, CoreOK, ControlOK
<1>1. ASSUME NEW s \in States, Move(s), Arm("Input") \/ Disarm({"Input"}),
             UNCHANGED <<isSubstate, waitDoorClosed, operatorExit, doCancel, fuelOut>>
      PROVE  CoreOK' /\ MenuOK'
  <2>1. doCancel' \in BOOLEAN /\ fuelOut' \in BOOLEAN
    BY <1>1 DEF MenuOK
  <2> QED BY <1>1, <2>1, MenuMoveType
<1>2. CASE Show
  BY <1>1, <1>2, <1>s, SubStayType, HandOverType DEF Show, Again, Stay
<1> QED BY <1>1, <1>2, <1>s DEF doShowStatus, doShowNetStatus, Again, Stay

LEMMA SubType == TypeOK /\ SubStep => TypeOK'
<1> SUFFICES ASSUME TypeOK, SubStep PROVE TypeOK'
  OBVIOUS
<1>1. CoreOK /\ MenuOK
  BY DEF TypeOK, CoreOK, MenuOK, FlagsOK, SiteOK, StaticsOK
<1>2. CoreOK' /\ MenuOK'
  BY <1>1, SubEdgeType, CalMenuType, SetMenuType, ShowType DEF SubStep
<1>3. SiteOK'
  BY <1>2 DEF SubStep, TypeOK, SiteOK, CoreOK, MenuOK, sensors
<1>4. StaticsOK'
  BY <1>2 DEF SubStep, TypeOK, StaticsOK, MenuOK, FlagsOK, capture
<1> QED BY <1>2, <1>3, <1>4 DEF TypeOK, CoreOK

(***************************************************************************)
(* The global handler.                                                     *)
(***************************************************************************)
LEMMA TakeType == TypeOK /\ TakeEvent => TypeOK'
<1> SUFFICES ASSUME TypeOK, TakeEvent PROVE TypeOK'
  OBVIOUS
<1>e. Head(evt) \in Events /\ evt' \in Seq(Events)
  BY HeadTailProperties DEF TypeOK, SiteOK, TakeEvent
<1>1. ASSUME NEW s \in {"Shutdown", "Operator"}, Preempt(s) PROVE ControlOK'
  BY <1>1 DEF Preempt, TypeOK, ControlOK, States
<1>2. ASSUME Dispatch(Head(evt)) PROVE ControlOK'
  BY <1>2, <1>e DEF Dispatch, TypeOK, ControlOK
<1>3. ControlOK'
  BY <1>1, <1>2 DEF TakeEvent
<1>4. ASSUME DoFlowmeter
      PROVE  /\ SessionOK' /\ RelaysOK' /\ armed' \subseteq Timers
             /\ server' \in BOOLEAN /\ fuelOut' \in BOOLEAN /\ violation' \in 0..2
  <2>1. SessionOK'
    BY <1>4 DEF DoFlowmeter, TypeOK, SessionOK, member, card, link
  <2>2. fuelOut' \in BOOLEAN /\ server' \in BOOLEAN
    BY <1>4 DEF DoFlowmeter, TypeOK, SiteOK
  <2>3. RelaysOK'
    BY <1>4, <2>2 DEF DoFlowmeter, TypeOK, RelaysOK
  <2>4. armed' \subseteq Timers
    BY <1>4 DEF DoFlowmeter, TypeOK, SiteOK, Disarm
  <2>5. violation' \in 0..2
    BY <1>4 DEF DoFlowmeter, TypeOK, SiteOK
  <2> QED BY <2>1, <2>2, <2>3, <2>4, <2>5
<1>5. ASSUME DoorViolation
      PROVE  /\ SessionOK' /\ RelaysOK' /\ armed' \subseteq Timers
             /\ server' \in BOOLEAN /\ fuelOut' \in BOOLEAN /\ violation' \in 0..2
  <2>1. SessionOK'
    BY <1>5 DEF DoorViolation, TypeOK, SessionOK, session, member, card, meter, link
  <2>2. RelaysOK' /\ armed' \subseteq Timers
    BY <1>5 DEF DoorViolation, TypeOK, RelaysOK, SiteOK, Disarm
  <2>3. server' \in BOOLEAN /\ fuelOut' \in BOOLEAN
    BY <1>5 DEF DoorViolation, TypeOK, SiteOK
  <2>4. violation' \in 0..2
    BY <1>5 DEF DoorViolation, TypeOK, SiteOK
  <2> QED BY <2>1, <2>2, <2>3, <2>4
<1>6. ASSUME UNCHANGED <<armed, health>>, UNCHANGED <<member, card, meter, link>>,
             kp' \in {kp, "empty"}, RelaysOK'
      PROVE  /\ SessionOK' /\ RelaysOK' /\ armed' \subseteq Timers
             /\ server' \in BOOLEAN /\ fuelOut' \in BOOLEAN /\ violation' \in 0..2
  <2>1. SessionOK'
    BY <1>6 DEF TypeOK, SessionOK, KeypadKinds, member, card, meter, link
  <2>2. /\ armed' \subseteq Timers
        /\ server' \in BOOLEAN /\ fuelOut' \in BOOLEAN /\ violation' \in 0..2
    BY <1>6 DEF TypeOK, SiteOK, health
  <2> QED BY <1>6, <2>1, <2>2
<1>7. UNCHANGED relays \/ (strike' = FALSE /\ UNCHANGED pump) => RelaysOK'
  BY DEF TypeOK, RelaysOK, relays
<1>8. UNCHANGED session => UNCHANGED <<member, card, meter, link>> /\ UNCHANGED kp
  BY DEF session
<1>9. /\ SessionOK' /\ RelaysOK' /\ armed' \subseteq Timers
      /\ server' \in BOOLEAN /\ fuelOut' \in BOOLEAN /\ violation' \in 0..2
  BY <1>4, <1>5, <1>6, <1>7, <1>8 DEF TakeEvent
<1>10. SiteOK'
  BY <1>9, <1>e DEF TakeEvent, TypeOK, SiteOK, sensors
<1>11. StaticsOK'
  BY StaticsKept DEF TakeEvent, TypeOK
<1> QED BY <1>3, <1>9, <1>10, <1>11 DEF TypeOK

(***************************************************************************)
(* The world.                                                              *)
(***************************************************************************)
LEMMA PostType ==
  ASSUME evt \in Seq(Events), NEW es \in Seq(Events), Post(es) PROVE evt' \in Seq(Events)
BY ConcatProperties DEF Post

LEMMA OneEventType == <<>> \in Seq(Events) /\ \A e \in Events : <<e>> \in Seq(Events)
<1>1. ASSUME NEW S PROVE <<>> \in Seq(S) /\ \A e \in S : <<e>> \in Seq(S)
  OBVIOUS
<1> QED BY <1>1

LEMMA KeyEventsAreEvents ==
  ASSUME NEW k \in Keys
  PROVE  <<KeypadEvt(k)>> \o (IF k = "#" THEN <<"Keypad Valid">> ELSE <<>>) \in Seq(Events)
<1>1. KeypadEvt(k) \in Events /\ "Keypad Valid" \in Events
  BY DEF Events, KeypadEvts
<1>2. <<KeypadEvt(k)>> \in Seq(Events)
  BY <1>1, OneEventType
<1>3. (IF k = "#" THEN <<"Keypad Valid">> ELSE <<>>) \in Seq(Events)
  BY <1>1, OneEventType
<1> QED BY <1>2, <1>3, ConcatProperties

\* The customer and the sensors write shared memory of their own, and the FIFO.
LEMMA SiteType ==
  TypeOK /\ (Swipe \/ PressKey \/ DoorMoves \/ Flow \/ PumpMotor \/ Power)
    => SiteOK' /\ SessionOK'
<1> SUFFICES ASSUME TypeOK, Swipe \/ PressKey \/ DoorMoves \/ Flow \/ PumpMotor \/ Power
             PROVE  SiteOK' /\ SessionOK'
  OBVIOUS
<1> USE PostType
<1>0. evt \in Seq(Events)
  BY DEF TypeOK, SiteOK
<1>e. \A e \in {"MSR", "MSR bad", "Door Opened", "Door Closed", "Flowmeter", "Pump OFF",
               "Voltage Alarm", "Voltage Alarm Reset"} : <<e>> \in Seq(Events)
  <2>1. {"MSR", "MSR bad", "Door Opened", "Door Closed", "Flowmeter", "Pump OFF",
         "Voltage Alarm", "Voltage Alarm Reset"} \subseteq Events
    BY DEF Events
  <2> QED BY <2>1, OneEventType
<1>k. UNCHANGED session => SessionOK'
  BY DEF TypeOK, SessionOK, session, member, card, meter, link
<1>1. CASE Swipe
  <2>1. evt' \in Seq(Events)
    BY <1>0, <1>1, <1>e DEF Swipe
  <2> QED BY <1>1, <1>k, <2>1 DEF Swipe, TypeOK, SiteOK, sensors, health
<1>2. CASE PressKey
  <2>1. evt' \in Seq(Events)
    BY <1>0, <1>2, KeyEventsAreEvents, WorldConstants DEF PressKey
  <2>2. kp' \in KeypadKinds
    BY <1>2, WorldConstants DEF PressKey, TypeOK, SessionOK, KeypadKinds
  <2> QED BY <1>2, <2>1, <2>2 DEF PressKey, TypeOK, SiteOK, SessionOK, sensors, health,
                                  member, card, meter, link
<1>3. CASE DoorMoves
  <2>1. evt' \in Seq(Events)
    BY <1>0, <1>3, <1>e DEF DoorMoves
  <2> QED BY <1>3, <1>k, <2>1 DEF DoorMoves, TypeOK, SiteOK, health
<1>4. CASE Flow
  <2>1. evt' \in Seq(Events)
    BY <1>0, <1>4, <1>e DEF Flow
  <2> QED BY <1>4, <2>1 DEF Flow, TypeOK, SiteOK, SessionOK, sensors, health, member, card, link
<1>5. CASE PumpMotor
  <2>1. evt' \in Seq(Events)
    BY <1>0, <1>5, <1>e DEF PumpMotor
  <2> QED BY <1>5, <1>k, <2>1 DEF PumpMotor, TypeOK, SiteOK, health
<1>6. CASE Power
  <2>1. evt' \in Seq(Events)
    BY <1>0, <1>6, <1>e DEF Power
  <2> QED BY <1>6, <1>k, <2>1 DEF Power, TypeOK, SiteOK, health
<1> QED BY <1>1, <1>2, <1>3, <1>4, <1>5, <1>6

LEMMA TimerType == TypeOK /\ Timer => SiteOK' /\ SessionOK'
<1> SUFFICES ASSUME TypeOK, NEW t \in Timers, Expire(t) PROVE SiteOK' /\ SessionOK'
  BY DEF Timer
<1>1. <<TimeoutOf(t)>> \in Seq(Events)
  <2>1. TimeoutOf(t) \in Events
    BY DEF Events
  <2> QED BY <2>1, OneEventType
<1>2. evt' \in Seq(Events)
  BY <1>1, PostType DEF Expire, TypeOK, SiteOK
<1> QED BY <1>2 DEF Expire, TypeOK, SiteOK, SessionOK, sensors, health,
                    session, member, card, meter, link

(***************************************************************************)
(* The server daemon.                                                      *)
(***************************************************************************)
LEMMA AnsweredType ==
  ASSUME evt \in Seq(Events), NEW es \in Seq(Events), Answered(es)
  PROVE  evt' \in Seq(Events) /\ server' = TRUE
<1>1. "Server OK" \in Events
  BY DEF Events
<1>2. (IF server THEN <<>> ELSE <<"Server OK">>) \in Seq(Events)
  BY <1>1, OneEventType
<1> QED BY <1>2, PostType, ConcatProperties DEF Answered

LEMMA HeadType ==
  ASSUME TypeOK, req # <<>>, req' = Tail(req)
  PROVE  /\ Head(req) \in Requests /\ Head(req).hold \in Holds \cup {NoHold}
         /\ req' \in Seq(Requests)
<1>1. Head(req) \in Requests /\ req' \in Seq(Requests)
  BY HeadTailProperties DEF TypeOK, SessionOK
<1> QED BY <1>1 DEF Requests

LEMMA SettledType == \A op : Settled(op) \in HoldStates
BY DEF Settled, HoldStates

LEMMA PostedType ==
  ASSUME TypeOK, NEW rs, NEW hs \in SUBSET Holds, NEW done, Posted(rs, hs, done)
  PROVE  hold' \in [Holds -> HoldStates] /\ mine' \subseteq Holds
<1>1. "live" \in HoldStates /\ hold \in [Holds -> HoldStates] /\ mine \subseteq Holds
  BY DEF HoldStates, TypeOK, SessionOK
<1>2. hold' \in [Holds -> HoldStates]
  BY <1>1, SettledType DEF Posted
<1>3. mine' \subseteq Holds
  BY <1>1 DEF Posted
<1> QED BY <1>2, <1>3

LEMMA GatewayEffectType ==
  ASSUME TypeOK, NEW rs, GatewayEffect(rs)
  PROVE  hold' \in [Holds -> HoldStates] /\ mine' \subseteq Holds
<1>1. PICK hs \in SUBSET Holds : \E done : Posted(rs, hs, done)
  BY DEF GatewayEffect, Fresh
<1> QED BY <1>1, PostedType

LEMMA ApprovedType ==
  ASSUME TypeOK, NEW r, Approved(r)
  PROVE  /\ hold' \in [Holds -> HoldStates] /\ mine' \subseteq Holds
         /\ trans' \in Holds \cup {NoHold}
<1>1. PICK hs \in SUBSET Holds : hs # {} /\ Posted({r}, hs, {}) /\ trans' = NewID
  BY DEF Approved, Fresh
<1>2. NewID \in Holds
  BY <1>1 DEF Posted
<1> QED BY <1>1, <1>2, PostedType

LEMMA OfferFields ==
  ASSUME NEW o \in Offers
  PROVE  o.answer \in AuthEvts /\ o.memb \in MembType
BY KioskConstants DEF OfferType

LEMMA AuthAnswerType == TypeOK /\ AuthAnswer => SiteOK' /\ SessionOK'
<1> SUFFICES ASSUME TypeOK, AuthAnswer PROVE SiteOK' /\ SessionOK'
  OBVIOUS
<1>1. PICK o \in Offers :
        /\ memb' = [o.memb EXCEPT
                      !.fullFee = IF o.answer = "Authentication Failed"
                                     /\ (o.memb.fullFee > 0 \/ o.memb.surcharge > 0)
                                  THEN @ ELSE memb.fullFee,
                      !.sure = memb.sure /\ Head(req).own]
        /\ Answered(<<o.answer>>)
  BY DEF AuthAnswer
<1>2. memb.fullFee \in Nat /\ o.memb.fullFee \in Nat
  BY MembFields, OfferFields DEF TypeOK, SessionOK
<1>3. memb' \in MembType
  <2> DEFINE fee == IF o.answer = "Authentication Failed"
                       /\ (o.memb.fullFee > 0 \/ o.memb.surcharge > 0)
                    THEN o.memb.fullFee ELSE memb.fullFee
             sure == memb.sure /\ Head(req).own
  <2>1. fee \in Nat /\ sure \in BOOLEAN
    BY <1>2
  <2>2. memb' = [[o.memb EXCEPT !.fullFee = fee] EXCEPT !.sure = sure]
    BY <1>1, Zenon
  <2>3. [o.memb EXCEPT !.fullFee = fee] \in MembType
    <3> HIDE DEF fee
    <3> QED BY <2>1, OfferFields, MembChanged
  <2> HIDE DEF fee, sure
  <2> QED BY <2>1, <2>2, <2>3, SureChanged
<1>4. <<o.answer>> \in Seq(Events)
  <2>1. o.answer \in Events
    BY OfferFields DEF Events
  <2> QED BY <2>1, OneEventType
<1>5. evt' \in Seq(Events) /\ server' = TRUE
  BY <1>1, <1>4, AnsweredType DEF TypeOK, SiteOK
<1>6. req' \in Seq(Requests)
  BY HeadType DEF AuthAnswer
<1> QED BY <1>3, <1>5, <1>6 DEF AuthAnswer, TypeOK, SiteOK, SessionOK, sensors, card, meter

LEMMA GatewayAcceptsType == TypeOK /\ GatewayAccepts => SiteOK' /\ SessionOK'
<1> SUFFICES ASSUME TypeOK, GatewayAccepts PROVE SiteOK' /\ SessionOK'
  OBVIOUS
<1>1. /\ Head(req).hold \in Holds \cup {NoHold} /\ req' \in Seq(Requests)
  BY HeadType DEF GatewayAccepts
<1>2. evt' \in Seq(Events) /\ server' = TRUE
  <2>1. <<"GW Accepted">> \in Seq(Events)
    BY DEF Events, GWEvts
  <2> QED BY <2>1, AnsweredType DEF GatewayAccepts, TypeOK, SiteOK
<1>3. /\ hold' \in [Holds -> HoldStates] /\ mine' \subseteq Holds
      /\ trans' \in Holds \cup {NoHold}
  <2> DEFINE r == Head(req)
  <2>1. CASE Approved(r)
    BY <2>1, ApprovedType
  <2>2. CASE Posted({r}, {}, {r}) /\ trans' = r.hold
    BY <1>1, <2>2, PostedType
  <2> QED BY <2>1, <2>2 DEF GatewayAccepts
<1> QED BY <1>1, <1>2, <1>3 DEF GatewayAccepts, TypeOK, SiteOK, SessionOK,
                                sensors, member, meter

LEMMA GatewayRefusesType == TypeOK /\ GatewayRefuses => SiteOK' /\ SessionOK'
<1> SUFFICES ASSUME TypeOK, GatewayRefuses PROVE SiteOK' /\ SessionOK'
  OBVIOUS
<1>1. req' \in Seq(Requests)
  BY HeadType DEF GatewayRefuses
<1>2. PICK e \in Refusals \cup {"GW Error"} :
        /\ \/ GatewayEffect({Head(req)}) /\ UNCHANGED trans
           \/ Approved(Head(req))
           \/ UNCHANGED <<trans, hold, mine>>
        /\ Answered(<<e>>)
  BY DEF GatewayRefuses
<1>3. evt' \in Seq(Events) /\ server' = TRUE
  <2>1. e \in Events
    BY WorldConstants DEF Events, GWEvts, GWRetryEvts
  <2>2. <<e>> \in Seq(Events)
    BY <2>1, OneEventType
  <2> QED BY <1>2, <2>2, AnsweredType DEF TypeOK, SiteOK
<1>5. /\ hold' \in [Holds -> HoldStates] /\ mine' \subseteq Holds
      /\ trans' \in Holds \cup {NoHold}
  BY <1>2, ApprovedType, GatewayEffectType DEF TypeOK, SessionOK
<1> QED BY <1>1, <1>3, <1>5 DEF GatewayRefuses, TypeOK, SiteOK, SessionOK,
                                sensors, member, meter

LEMMA ServerLostType == TypeOK /\ ServerLost => SiteOK' /\ SessionOK'
<1> SUFFICES ASSUME TypeOK, ServerLost PROVE SiteOK' /\ SessionOK'
  OBVIOUS
<1>1. PICK n \in 0 .. Len(req) : \E m \in 0 .. n :
        /\ req' = SubSeq(req, 1, m) \o SubSeq(req, n + 1, Len(req))
        /\ GatewayEffect({req[i] : i \in m + 1 .. n})
  BY DEF ServerLost
<1>2. PICK m \in 0 .. n :
        /\ req' = SubSeq(req, 1, m) \o SubSeq(req, n + 1, Len(req))
        /\ GatewayEffect({req[i] : i \in m + 1 .. n})
  BY <1>1
<1>3. req \in Seq(Requests) /\ Len(req) \in Nat /\ m \in Int /\ n + 1 \in Int
  BY DEF TypeOK, SessionOK
<1>4. SubSeq(req, 1, m) \in Seq(Requests)
  BY <1>3, SubSeqProperties
<1>5. SubSeq(req, n + 1, Len(req)) \in Seq(Requests)
  BY <1>3, SubSeqProperties
<1>6. req' \in Seq(Requests)
  BY <1>2, <1>4, <1>5, ConcatProperties
<1>7. hold' \in [Holds -> HoldStates] /\ mine' \subseteq Holds
  BY <1>2, GatewayEffectType
<1>8. evt' \in Seq(Events)
  <2>1. ServerDown \subseteq Events
    BY DEF ServerDown, Events
  <2> QED BY <2>1, OneEventType, PostType DEF ServerLost, TypeOK, SiteOK
<1> QED BY <1>6, <1>7, <1>8 DEF ServerLost, TypeOK, SiteOK, SessionOK,
                                sensors, member, card, meter

LEMMA ServerDaemonType == TypeOK /\ ServerDaemon => SiteOK' /\ SessionOK'
<1> SUFFICES ASSUME TypeOK, ServerDaemon PROVE SiteOK' /\ SessionOK'
  OBVIOUS
<1>0. evt \in Seq(Events)
  BY DEF TypeOK, SiteOK
<1>k. UNCHANGED session => SessionOK'
  BY DEF TypeOK, SessionOK, session, member, card, meter, link
<1>1. CASE StatusAnswered
  <2>1. evt' \in Seq(Events) /\ server' = TRUE
    BY <1>0, <1>1, OneEventType, AnsweredType DEF StatusAnswered
  <2> QED BY <1>1, <1>k, <2>1 DEF StatusAnswered, TypeOK, SiteOK, sensors
<1>2. CASE FuelDelivered
  <2>1. <<"Fuel Level">> \in Seq(Events)
    BY DEF Events
  <2>2. evt' \in Seq(Events)
    BY <1>0, <1>2, <2>1, PostType DEF FuelDelivered
  <2> QED BY <1>2, <1>k, <2>2 DEF FuelDelivered, TypeOK, SiteOK, sensors
<1> QED BY <1>1, <1>2, AuthAnswerType, GatewayAcceptsType, GatewayRefusesType,
           ServerLostType DEF ServerDaemon

LEMMA WorldIsOutside == World => UNCHANGED <<ctl, relays, capture, oper>>
<1>1. Swipe \/ PressKey \/ DoorMoves \/ Flow \/ PumpMotor \/ Power
        => UNCHANGED <<ctl, relays, capture, oper>>
  BY DEF Swipe, PressKey, DoorMoves, Flow, PumpMotor, Power
<1>2. Timer => UNCHANGED <<ctl, relays, capture, oper>>
  BY DEF Timer, Expire
<1>3. ServerDaemon => UNCHANGED <<ctl, relays, capture, oper>>
  BY DEF ServerDaemon, StatusAnswered, AuthAnswer, GatewayAccepts, GatewayRefuses,
         ServerLost, FuelDelivered
<1> QED BY <1>1, <1>2, <1>3 DEF World

LEMMA WorldType == TypeOK /\ World => TypeOK'
<1> SUFFICES ASSUME TypeOK, World PROVE TypeOK'
  OBVIOUS
<1>1. SiteOK' /\ SessionOK'
  BY SiteType, TimerType, ServerDaemonType DEF World
<1>2. ControlOK' /\ RelaysOK'
  BY WorldIsOutside DEF TypeOK, ControlOK, RelaysOK, ctl, relays
<1>3. StaticsOK'
  BY WorldIsOutside, StaticsKept DEF TypeOK
<1> QED BY <1>1, <1>2, <1>3 DEF TypeOK

(***************************************************************************)
(* The theorem.                                                            *)
(***************************************************************************)
LEMMA InitType == Init => TypeOK
<1> SUFFICES ASSUME Init PROVE TypeOK
  OBVIOUS
<1>1. ControlOK
  BY DEF Init, ControlOK, States, RestStates
<1>b. /\ door \in BOOLEAN /\ running \in BOOLEAN /\ valarm \in BOOLEAN
      /\ server \in BOOLEAN /\ fuelOut \in BOOLEAN /\ doVoid \in BOOLEAN
      /\ pump \in BOOLEAN /\ strike \in BOOLEAN
      /\ isSubstate \in BOOLEAN /\ waitDoorClosed \in BOOLEAN
      /\ operatorExit \in BOOLEAN /\ doCancel \in BOOLEAN
  BY Zenon DEF Init
<1>n. /\ armed \subseteq Timers /\ violation \in 0 .. 2 /\ evt = <<>>
      /\ amount \in Int /\ retries \in Nat
  BY SMT DEF Init
<1>2. SiteOK
  BY <1>b, <1>n, OneEventType DEF SiteOK
<1>3. RelaysOK /\ StaticsOK
  BY <1>b, <1>n DEF RelaysOK, StaticsOK
<1>4. req \in Seq(Requests)
  <2>1. ASSUME NEW S PROVE <<>> \in Seq(S)
    OBVIOUS
  <2> QED BY <2>1 DEF Init
<1>5. hold \in [Holds -> HoldStates]
  BY DEF Init, HoldStates
<1>6. /\ memb \in MembType /\ sale \subseteq SaleKinds
      /\ kp \in KeypadKinds /\ spn \in KeypadKinds
      /\ counts \in Nat /\ gallons \in Nat /\ preAuth \in Int
      /\ trans \in Holds \cup {NoHold} /\ mine \subseteq Holds
  BY NoMembType DEF Init, KeypadKinds
<1>7. SessionOK
  BY <1>b, <1>4, <1>5, <1>6 DEF SessionOK
<1> QED BY <1>1, <1>2, <1>3, <1>7 DEF TypeOK

\* No variable ever leaves its type, whatever the order in which handlers and
\* daemons run, whatever the answers and the constants: the kiosk is never in
\* a state, nor handed an event, that the tables of BBD9000fsm.c do not list.
THEOREM TypeCorrect == Spec => []TypeOK
<1>1. TypeOK /\ [Next]_vars => TypeOK'
  <2> SUFFICES ASSUME TypeOK, [Next]_vars PROVE TypeOK'
    OBVIOUS
  <2>1. CASE UNCHANGED vars
    BY <2>1 DEF vars, ctl, sensors, relays, session, member, card, meter, link, capture,
                oper, health, TypeOK, ControlOK, SiteOK, RelaysOK, SessionOK, StaticsOK
  <2>2. CASE FSMStep
    BY <2>2, TakeType, RestType, SaleType, CardType, OperatorType, SubType
       DEF FSMStep, OperatorStep
  <2> QED BY <2>1, <2>2, WorldType DEF Next
<1> QED BY <1>1, InitType, PTL DEF Spec
=============================================================================
