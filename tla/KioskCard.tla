----------------------------- MODULE KioskCard ------------------------------
(***************************************************************************)
(* The states of BBD9000fsm.c in which the kiosk deals with the server and *)
(* the card gateway, and Dispensing between them.  The FSM never waits: it *)
(* writes a request, and an event brings the answer, which the server      *)
(* daemon has put in shared memory already, or a timer runs out.           *)
(***************************************************************************)
EXTENDS KioskSale

Selling(kinds) == sale \cap kinds # {}
Fueling == memb.ppg > 0 /\ memb.fuelPreAuth > 0
AfterRegistration == IF Fueling THEN "Dispensing" ELSE "GatewayCapture"
AfterPreAuth == IF Selling({"full", "temp"}) THEN "RegNewMemb" ELSE AfterRegistration

\* The code typed becomes the SPN; the answer is due before ServerResp runs out.  (History:
\* an earlier one that waits in the FIFO will be taken for it.)
ServerAuthEnter ==
  /\ Entering("ServerAuth")
  /\ memb' = [memb EXCEPT !.sure = \A i \in DOMAIN evt : evt[i] \notin AuthEvts]
  /\ armed' = (armed \ {"Input"}) \cup {"ServerResp"}
  /\ spn' = kp /\ kp' = "empty"
  /\ Send("auth", NoHold) /\ Goto(status)
  /\ UNCHANGED <<relays, sale, preAuth, card, meter, hold, mine, violation>>

doServerAuth ==
  \/ ServerAuthEnter
  \/ /\ Leaving("ServerAuth") /\ Disarm({"ServerResp"}) /\ Left
     /\ UNCHANGED <<relays, session, violation>>
  \/ /\ Handling("ServerAuth") /\ cur = "Authentication Success"
     /\ violation' = 0
     /\ Then(IF memb.ask THEN "AskRenew" ELSE AfterRenewal)
  \/ /\ Handling("ServerAuth")
     /\ \/ cur = "Authentication Failed SPN" /\ ThenReset
        \/ /\ cur = "Authentication Failed"
           /\ IF memb.fullFee > 0 \/ memb.surcharge > 0 THEN Then("AskBuyMemb")
                                                         ELSE ThenReset
        \/ cur = "Membership Expired" /\ Then("AskRenewExpired")
        \/ cur \in ServerDown \cup {"ServerResp Timeout"} /\ Then("NoServer")
        \/ cur \notin AuthEvts \cup ServerDown \cup {"ServerResp Timeout"} /\ Ignore
     /\ UNCHANGED violation

\* Mutants: the retries are counted down, or not at all.
NextRetryDown == retries - 1
NextRetryNever == retries

\* retries++
NextRetry == retries + 1

\* Mutants: off by one at the threshold; a transaction on record is as good as a credit.
CoveredUpTo(total) == total <= CCThreshold
CoveredByRecord(total) == total < CCThreshold \/ trans # NoHold

\* What the credit leaves is not worth a card transaction.
CoveredByCredit(total) == total < CCThreshold

(***************************************************************************)
(* GatewayPreAuth.  Nothing is authorized when the credit covers it all;   *)
(* otherwise the request goes out when the short GW Retry timer runs out.  *)
(***************************************************************************)
GatewayPreAuthEnter ==
  /\ Entering("GatewayPreAuth")
  /\ retries' = 0
  /\ preAuth' = memb.fuelPreAuth + Owed(0)
  /\ IF CoveredByCredit(preAuth')
     THEN /\ Goto(AfterPreAuth)
          /\ armed' = (armed \ {"Input"}) \cup {"ServerResp"}
     ELSE /\ Goto(status)
          /\ armed' = (armed \ {"Input"}) \cup {"ServerResp", "GW Retry"}
  /\ UNCHANGED <<relays, memb, sale, spn, card, meter, link, kp>>

\* The answers after which the authorization is asked for again.
AskedAgain == {"GW Busy"}

\* What is owed is authorized, or the session ends.
PreAuthAnswer ==
  \/ /\ cur = "GW Accepted" /\ Disarm({"GW Retry"}) /\ Move(AfterPreAuth)
     /\ UNCHANGED retries
  \/ /\ cur \in AskedAgain /\ retries' = NextRetry
     /\ IF retries' < MaxBusyRetries THEN Arm("GW Retry") /\ Stay ELSE ThenReset
  \/ /\ \/ cur \in {"GW CCTypeRejected", "GW CardExpired"} /\ Then("MSRReswipe")
        \/ cur = "GW Declined" /\ memb.fuelPreAuth > 0 /\ Then("AskDeclined")
        \/ cur = "GW Declined" /\ memb.fuelPreAuth = 0 /\ ThenReset
        \/ /\ cur \in {"GW TransLost", "GW Error", "GW Timeout", "GW CURL Error",
                       "ServerResp Timeout"} \cup ServerDown
           /\ ThenReset
     /\ UNCHANGED retries

\* History: an authorization was asked for, and the answer is not read yet.
AuthorizationDue ==
  \/ \E i \in DOMAIN req : req[i].op = "PreAuth" /\ req[i].own
  \/ \E i \in DOMAIN evt : evt[i] \in GWEvts

doGatewayPreAuth ==
  \/ GatewayPreAuthEnter
  \/ /\ Leaving("GatewayPreAuth") /\ Disarm({"ServerResp", "GW Retry"}) /\ Left
     /\ UNCHANGED <<relays, session, retries>>
  \/ /\ Handling("GatewayPreAuth") /\ cur = "GW Retry Timeout"
     /\ memb' = [memb EXCEPT !.sure = @ /\ ~AuthorizationDue]
     /\ Send("PreAuth", NoHold) /\ Arm("ServerResp") /\ Goto(status)
     /\ UNCHANGED <<relays, sale, spn, preAuth, card, meter, hold, mine, kp, retries>>
  \/ Handling("GatewayPreAuth") /\ PreAuthAnswer
  \/ /\ Handling("GatewayPreAuth")
     /\ cur \notin GWEvts \cup ServerDown \cup {"GW Retry Timeout", "ServerResp Timeout"}
     /\ Ignore /\ UNCHANGED retries

\* Mutant: the sale of a membership is not canceled.
CancelSaleForgotten == UNCHANGED doVoid

\* The transaction is to be voided, not captured.
CancelSale == doVoid' = TRUE

\* RegNewMemb: a membership that cannot be registered voids the transaction.
doRegNewMemb ==
  \/ /\ Entering("RegNewMemb")
     /\ Send(IF "full" \in sale THEN "new_memb FULL" ELSE "new_memb ONE-DAY", trans)
     /\ Arm("ServerResp") /\ Goto(status)
     /\ UNCHANGED <<relays, member, card, meter, hold, mine, kp, violation>>
  \/ /\ Leaving("RegNewMemb") /\ Disarm({"ServerResp"}) /\ Left
     /\ UNCHANGED <<relays, session, violation>>
  \/ /\ Handling("RegNewMemb") /\ cur = "Authentication Success"
     /\ violation' = 0
     /\ sale' = sale \ {"full", "temp"}
     /\ Goto(AfterRegistration)
     /\ UNCHANGED <<relays, memb, spn, preAuth, card, meter, link, kp, armed>>
  \/ /\ Handling("RegNewMemb")
     /\ cur \in {"Authentication Failed", "Authentication Failed SPN",
                 "ServerResp Timeout"} \cup ServerDown
     /\ CancelSale
     /\ Goto("GatewayCapture")
     /\ UNCHANGED <<relays, member, trans, meter, link, kp, armed, violation>>
  \/ /\ Handling("RegNewMemb")
     /\ cur \notin {"Authentication Success", "Authentication Failed",
                    "Authentication Failed SPN", "ServerResp Timeout"} \cup ServerDown
     /\ Ignore /\ UNCHANGED violation

(***************************************************************************)
(* Dispensing.  The pump starts at once if the door is open or cannot be   *)
(* seen, otherwise when it opens; leaving the state reports the sale.      *)
(***************************************************************************)
DispensingEnter ==
  /\ Entering("Dispensing")
  /\ counts' = 0 /\ gallons' = 0
  /\ IF ~door /\ HasDRSN
     THEN /\ strike' = TRUE /\ UNCHANGED pump
          /\ armed' = (armed \ {"Input"}) \cup {"Dispensing", "StrikeRly"}
     ELSE /\ strike' = FALSE /\ pump' = TRUE
          /\ armed' = (armed \ {"Input", "StrikeRly"}) \cup {"Dispensing"}
  /\ Goto(status)
  /\ UNCHANGED <<member, card, link, kp>>

\* Mutants: the pump, or the strike, is left on.
DispensingExitPumping ==
  /\ Leaving("Dispensing")
  /\ strike' = FALSE
  /\ Disarm({"Dispensing", "StrikeRly"})
  /\ Left
  /\ UNCHANGED <<pump, member, card, gallons, counts, link, kp>>

DispensingExitLatched ==
  /\ Leaving("Dispensing")
  /\ pump' = FALSE
  /\ Disarm({"Dispensing", "StrikeRly"})
  /\ Left
  /\ UNCHANGED <<strike, member, card, gallons, counts, link, kp>>

DispensingExit ==
  /\ Leaving("Dispensing")
  /\ pump' = FALSE /\ strike' = FALSE
  /\ Disarm({"Dispensing", "StrikeRly"})
  /\ Left
  /\ UNCHANGED <<member, card, gallons, counts, link, kp>>

\* Mutant: the closing of the door is not one of the ends.
DispensingOverUnseen == {"Dispensing Timeout", "Pump OFF"}

DispensingOver == {"Dispensing Timeout", "Pump OFF", "Door Closed"}

doDispensing ==
  \/ DispensingEnter
  \/ DispensingExit
  \/ /\ Handling("Dispensing") /\ cur = "Door Opened"
     /\ armed' = armed \cup {"StrikeRly", "Dispensing"}
     /\ pump' = TRUE
     /\ Goto(status) /\ UNCHANGED <<session, strike>>
  \/ Handling("Dispensing") /\ cur = "Flowmeter" /\ Arm("Dispensing") /\ Stay
  \/ Handling("Dispensing") /\ cur \in DispensingOver /\ Then("GatewayCapture")
  \/ /\ Handling("Dispensing")
     /\ cur \notin DispensingOver \cup {"Door Opened", "Flowmeter"} /\ Ignore

(***************************************************************************)
(* GatewayCapture.  The transaction is captured, or voided when it is not  *)
(* worth a charge; the gateway is asked again until it answers, a bounded  *)
(* number of times when it answers that it could not.                      *)
(***************************************************************************)
CaptureEnter ==
  /\ Entering("GatewayCapture")
  /\ retries' = 0
  /\ \/ /\ trans = NoHold
        /\ amount' = 0 /\ Arm("ServerResp") /\ DoReset
     \/ /\ trans # NoHold
        /\ amount' = IF Owed(gallons) <= preAuth THEN Owed(gallons) ELSE preAuth
        /\ doVoid' = (doVoid \/ amount' < CCThreshold)
        /\ armed' = armed \cup {"GW Retry", "ServerResp"}
        /\ Goto(status)
        /\ hold' = Forgotten(trans)
        /\ mine' = {h \in mine : hold'[h] # "none"}
        /\ UNCHANGED <<relays, member, trans, meter, req, kp>>

CaptureExit ==
  /\ Leaving("GatewayCapture")
  /\ retries' = 0 /\ amount' = 0
  /\ Disarm({"ServerResp"})
  /\ Left
  /\ UNCHANGED <<relays, session>>

\* Mutant: the kiosk gives up and tells nobody.
GiveUpSilently == DoReset

\* The kiosk gives up and reports the transaction to the server.
GiveUp ==
  /\ ClearSession([h \in Holds |-> IF h = trans /\ hold[h] = "live" THEN "reported"
                                   ELSE Forgotten(NoHold)[h]])
  /\ \E s \in ResetTargets(server) : Goto(s)

AskGateway ==
  /\ Arm("ServerResp")
  /\ \/ trans = NoHold /\ DoReset
     \/ trans # NoHold /\ retries > MaxCapRetries /\ GiveUp
     \/ /\ trans # NoHold /\ retries <= MaxCapRetries
        /\ Send(IF doVoid THEN "Void" ELSE "Capture", trans)
        /\ Goto(status)
        /\ UNCHANGED <<relays, member, card, meter, hold, mine, kp>>

doGatewayCapture ==
  \/ CaptureEnter
  \/ CaptureExit
  \/ /\ Handling("GatewayCapture") /\ cur \in GWRetryEvts
     /\ retries' = NextRetry /\ Arm("GW Retry") /\ Stay /\ UNCHANGED amount
  \/ /\ Handling("GatewayCapture") /\ UNCHANGED capture
     /\ \/ cur = "GW Accepted" /\ Disarm({"GW Retry"}) /\ DoReset
        \/ cur \in {"ServerResp Timeout", "GW Retry Timeout"} /\ AskGateway
        \/ cur \in GWRejectEvts /\ GiveUp /\ UNCHANGED armed
        \/ cur \in ServerDown /\ Then("NoServer")
        \/ /\ cur \notin GWEvts \cup ServerDown
                           \cup {"ServerResp Timeout", "GW Retry Timeout"}
           /\ Ignore

CardStep ==
  \/ /\ doServerAuth \/ doRegNewMemb
     /\ UNCHANGED <<sensors, capture, oper, server, fuelOut, evt>>
  \/ doGatewayPreAuth /\ UNCHANGED <<sensors, amount, oper, health, evt>>
  \/ doDispensing /\ UNCHANGED <<sensors, capture, oper, health, evt>>
  \/ doGatewayCapture /\ UNCHANGED <<sensors, oper, health, evt>>
=============================================================================
