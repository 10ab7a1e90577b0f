----------------------------- MODULE KioskSale ------------------------------
(***************************************************************************)
(* The dialogs of BBD9000fsm.c: the states that ask the customer for a     *)
(* code, a choice or a card, and give up when the Input timer runs out.    *)
(* The code never clears the keypad on entry to UserLogin.                 *)
(***************************************************************************)
EXTENDS KioskRest

Key(k) == cur = KeypadEvt(k)

\* Mutant: a dialog waits for the customer without a timer.
DialogEnterUntimed ==
  /\ phase = "enter" /\ status \in DialogStates
  /\ kp' = IF status \in {"SPNConf", "SetPreAuth"} THEN "empty" ELSE kp
  /\ Goto(status)
  /\ UNCHANGED <<relays, armed, member, card, meter, link>>

\* Every dialog sets the Input timer when entered, and cancels it when left.
DialogEnter ==
  /\ phase = "enter" /\ status \in DialogStates
  /\ kp' = IF status \in {"SPNConf", "SetPreAuth"} THEN "empty" ELSE kp
  /\ Arm("Input") /\ Goto(status)
  /\ UNCHANGED <<relays, member, card, meter, link>>

DialogExit ==
  /\ phase = "exit" /\ status \in DialogStates
  /\ Disarm({"Input"}) /\ Left
  /\ UNCHANGED <<relays, session>>

\* A dialog is over, or goes on with the Input timer as it is.
ThenReset == DoReset /\ UNCHANGED armed
Then(s) == Move(s) /\ UNCHANGED armed
Ignore == Then(status)
Again == Arm("Input") /\ Stay

\* The customer buys the items in kinds.
Sell(kinds, s) ==
  /\ sale' = sale \cup kinds
  /\ Goto(s)
  /\ UNCHANGED <<relays, armed, memb, spn, preAuth, card, meter, link, kp>>

\* The customer pays the surcharge of a trial membership on every gallon.
PaySurcharge(s) ==
  /\ memb' = [memb EXCEPT !.ppg = @ + memb.surcharge]
  /\ Goto(s)
  /\ UNCHANGED <<relays, armed, sale, spn, preAuth, card, meter, link, kp>>

doUserLogin ==
  /\ Handling("UserLogin")
  /\ \/ cur = "Input Timeout" /\ ThenReset
     \/ cur = "Keypad Valid" /\ Then("ServerAuth")
     \/ cur \in KeypadEvts /\ Again
     \/ cur \notin KeypadEvts \cup {"Input Timeout", "Keypad Valid"} /\ Ignore

AfterRenewal == IF memb.upgradeFee > 0 THEN "AskUpgrade" ELSE "GatewayPreAuth"

doAskRenew ==
  /\ Handling("AskRenew")
  /\ \/ Key("*") /\ Then(AfterRenewal)
     \/ cur \in KeypadEvts /\ ~Key("*") /\ Again
     \/ cur = "Keypad Valid" /\ Sell({"renewal"}, AfterRenewal)
     \/ cur = "Input Timeout" /\ Then("GatewayPreAuth")
     \/ cur \notin KeypadEvts \cup {"Input Timeout", "Keypad Valid"} /\ Ignore

\* AskBuyMemb and AskRenewExpired: '#' goes on, '*' cancels.
Confirm(s, next) ==
  /\ Handling(s)
  /\ \/ (Key("*") \/ cur = "Input Timeout") /\ ThenReset
     \/ cur \in KeypadEvts /\ ~Key("*") /\ Again
     \/ cur = "Keypad Valid" /\ Then(next)
     \/ cur \notin KeypadEvts \cup {"Input Timeout", "Keypad Valid"} /\ Ignore

doAskBuyMemb == Confirm("AskBuyMemb", "BuyMemb")
doAskRenewExpired == Confirm("AskRenewExpired", "RenewExpired")

\* A member who upgrades pays a renewal that is due as well.
doAskUpgrade ==
  /\ Handling("AskUpgrade")
  /\ \/ (Key("*") \/ cur = "Input Timeout") /\ ThenReset
     \/ /\ Key("1")
        /\ Sell({"upgrade"} \cup (IF memb.renewalFee > 0 THEN {"renewal"} ELSE {}),
                "GatewayPreAuth")
     \/ Key("2") /\ PaySurcharge("GatewayPreAuth")
     \/ cur \in KeypadEvts /\ ~(Key("*") \/ Key("1") \/ Key("2")) /\ Again
     \/ cur \notin KeypadEvts \cup {"Input Timeout"} /\ Ignore

doRenewExpired ==
  /\ Handling("RenewExpired")
  /\ \/ (Key("*") \/ cur = "Input Timeout") /\ ThenReset
     \/ Key("1") /\ Sell({"renewal"}, AfterRenewal)
     \/ Key("2") /\ memb.upgradeFee > 0 /\ Then("AskUpgrade")
     \/ Key("2") /\ memb.upgradeFee = 0 /\ PaySurcharge("GatewayPreAuth")
     \/ cur \in KeypadEvts /\ ~(Key("*") \/ Key("1") \/ Key("2")) /\ Again
     \/ cur \notin KeypadEvts \cup {"Input Timeout"} /\ Ignore

doBuyMemb ==
  /\ Handling("BuyMemb")
  /\ \/ (Key("*") \/ cur = "Input Timeout") /\ ThenReset
     \/ Key("1") /\ Sell({"full"}, "SPNConf")
     \/ Key("2") /\ Sell({"temp"}, "SPNConf")
     \/ cur \in KeypadEvts /\ ~(Key("*") \/ Key("1") \/ Key("2")) /\ Again
     \/ cur \notin KeypadEvts \cup {"Input Timeout"} /\ Ignore

\* Two codes of the same kind may differ, unless both are empty.
doSPNConf ==
  /\ Handling("SPNConf")
  /\ \/ cur = "Input Timeout" /\ ThenReset
     \/ cur \in KeypadEvts /\ Again
     \/ cur = "Keypad Valid" /\ kp = spn /\ Then("SetPreAuth")
     \/ cur = "Keypad Valid" /\ ~(kp = spn /\ kp = "empty")
        /\ Disarm({"Input"}) /\ DoReset
     \/ cur \notin KeypadEvts \cup {"Input Timeout", "Keypad Valid"} /\ Ignore

doAskDeclined ==
  /\ Handling("AskDeclined")
  /\ \/ (Key("*") \/ cur = "Input Timeout") /\ ThenReset
     \/ Key("1") /\ Then("MSRReswipe")
     \/ Key("2") /\ Then("SetPreAuth")
     \/ cur \in KeypadEvts /\ ~(Key("*") \/ Key("1") \/ Key("2")) /\ Again
     \/ cur \notin KeypadEvts \cup {"Input Timeout"} /\ Ignore

doMSRReswipe ==
  /\ Handling("MSRReswipe")
  /\ \/ (Key("*") \/ cur = "Input Timeout") /\ ThenReset
     \/ cur \in KeypadEvts /\ ~Key("*") /\ Again
     \/ cur = "MSR" /\ Then("GatewayPreAuth")
     \/ cur \notin KeypadEvts \cup {"Input Timeout", "MSR"} /\ Ignore

(***************************************************************************)
(* SetPreAuth.  Each key makes the keypad buffer a number, "0" if there is *)
(* none; any amount but zero goes to the gateway.                          *)
(***************************************************************************)
EnterAmount ==
  \/ /\ cur \in KeypadEvts
     /\ kp' = IF kp = "empty" THEN "zero" ELSE kp
     /\ Arm("Input") /\ Goto(status)
     /\ UNCHANGED <<relays, member, card, meter, link>>
  \/ /\ cur = "Keypad Valid" /\ kp \notin {"empty", "zero"}
     /\ Disarm({"Input"})
     /\ \E a \in 1 .. MaxFuelPreAuth : memb' = [memb EXCEPT !.fuelPreAuth = a]
     /\ Goto("GatewayPreAuth")
     /\ UNCHANGED <<relays, sale, spn, preAuth, card, meter, link, kp>>

doSetPreAuth ==
  /\ Handling("SetPreAuth")
  /\ \/ cur = "Input Timeout" /\ ThenReset
     \/ EnterAmount
     \/ cur = "Keypad Valid" /\ kp \in {"empty", "zero"} /\ Disarm({"Input"}) /\ DoReset
     \/ cur \notin KeypadEvts \cup {"Input Timeout", "Keypad Valid"} /\ Ignore

SaleStep ==
  /\ \/ DialogEnter \/ DialogExit
     \/ doUserLogin \/ doAskRenew \/ doAskBuyMemb \/ doAskUpgrade
     \/ doAskRenewExpired \/ doRenewExpired \/ doBuyMemb \/ doSPNConf
     \/ doAskDeclined \/ doMSRReswipe \/ doSetPreAuth
  /\ UNCHANGED <<sensors, capture, oper, health, evt>>
=============================================================================
