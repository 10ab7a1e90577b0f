----------------------------- MODULE KioskWorld -----------------------------
(***************************************************************************)
(* What the state machine does not control: the customer, the sensors read *)
(* by the SmartIO daemon (BBD9000SmartIO.c), the timers, the server daemon *)
(* (BBD9000server.c) and, behind it, the server and the card gateway.      *)
(* A daemon writes shared memory first and then posts an event; the FSM    *)
(* gets to the event later.                                                *)
(***************************************************************************)
EXTENDS KioskOperator

CONSTANTS
  Refusals,      \* bound: how the gateway may refuse when there is no reason to
  Happens,       \* the outside happenings of this instance, of Happenings
  KeysPressed,   \* bound: the keys anybody presses
  Typed          \* bound: what a keypad buffer may be once a digit is typed

Happenings ==
  {"swipe", "bad swipe", "keys", "door", "flow", "leak", "pump", "power",
   "fuel", "server lost", "offline"}

ASSUME WorldConstants ==
  /\ Happens \subseteq Happenings
  /\ Refusals \subseteq GWEvts \ {"GW Accepted"}
  /\ KeysPressed \subseteq Keys
  /\ Typed \subseteq KeypadKinds \ {"empty"}

\* Lines written to the event FIFO.
Post(es) == evt' = evt \o es

(***************************************************************************)
(* What nobody asked for happens only while fewer than EvtCap events wait; *)
(* the answers to requests, of which there are ReqCap at most, always fit. *)
(***************************************************************************)
Room == Len(evt) < EvtCap

(***************************************************************************)
(* The customer, and the sensors.                                          *)
(***************************************************************************)
Swipe ==
  /\ Room
  /\ \/ "swipe" \in Happens /\ Post(<<"MSR">>)
     \/ "bad swipe" \in Happens /\ Post(<<"MSR bad">>)
  /\ UNCHANGED <<ctl, sensors, relays, armed, session, capture, oper, health>>

\* A key: the keypad buffer changes at once, ahead of the event.
PressKey ==
  /\ Room /\ "keys" \in Happens
  /\ \E k \in KeysPressed :
       /\ Post(<<KeypadEvt(k)>> \o (IF k = "#" THEN <<"Keypad Valid">> ELSE <<>>))
       /\ kp' \in IF k = "*" THEN {"empty"} ELSE IF k = "#" THEN {kp} ELSE Typed
  /\ UNCHANGED <<ctl, sensors, relays, armed, member, card, meter, link, capture,
                 oper, health>>

DoorMoves ==
  /\ Room /\ "door" \in Happens /\ HasDRSN
  /\ door' = ~door
  /\ Post(<<IF door THEN "Door Closed" ELSE "Door Opened">>)
  /\ UNCHANGED <<ctl, running, valarm, relays, armed, session, capture, oper, health>>

\* Fuel flows while the pump relay is on, or for some other reason.
Flow ==
  /\ Room /\ counts < MaxCount
  /\ ("flow" \in Happens /\ pump) \/ "leak" \in Happens
  /\ counts' = counts + 1
  /\ Post(<<"Flowmeter">>)
  /\ UNCHANGED <<ctl, sensors, relays, armed, member, card, gallons, link, kp,
                 capture, oper, health>>

\* The motor's current: the motor runs some time after the relay closes, and stops.
PumpMotor ==
  /\ Room /\ "pump" \in Happens
  /\ \/ pump /\ ~running /\ running' = TRUE /\ UNCHANGED evt
     \/ running /\ running' = FALSE /\ Post(<<"Pump OFF">>)
  /\ UNCHANGED <<ctl, door, valarm, relays, armed, session, capture, oper, health>>

Power ==
  /\ Room /\ "power" \in Happens
  /\ valarm' = ~valarm
  /\ Post(<<IF valarm THEN "Voltage Alarm Reset" ELSE "Voltage Alarm">>)
  /\ UNCHANGED <<ctl, door, running, relays, armed, session, capture, oper, health>>

(***************************************************************************)
(* Timers.  A timer that runs may run out at any time: ServerResp (63 s)   *)
(* and the 30 s of NoServer's status message as well, while the server     *)
(* daemon is still at a request, for sendMessage tries three times, 30 s   *)
(* each, and restarts the network between the tries.                       *)
(***************************************************************************)
Expire(t) ==
  /\ Room /\ t \in armed
  /\ armed' = armed \ {t}
  /\ Post(<<TimeoutOf(t)>>)
  /\ UNCHANGED <<ctl, sensors, relays, session, capture, oper, health>>

(***************************************************************************)
(* The server daemon.                                                      *)
(***************************************************************************)
\* An answer came back, so the server is there: its events, and Server OK.
Answered(es) ==
  /\ server' = TRUE
  /\ Post(es \o (IF server THEN <<>> ELSE <<"Server OK">>))

\* A batch without requests, sent before those that wait, is answered.
StatusAnswered ==
  /\ Room /\ ~server
  /\ Answered(<<>>)
  /\ UNCHANGED <<ctl, sensors, relays, armed, session, capture, oper, fuelOut, violation>>

\* do_new_memb (BBD-kiosk.pl): a new membership is active; a full one owes its price.
NewMembership(op, o) ==
  /\ o.answer \in {"Authentication Success", "Authentication Failed"}
  /\ ~o.memb.ask /\ o.memb.renewalFee = 0 /\ o.memb.upgradeFee = 0
  /\ o.memb.fullFee = 0 /\ o.memb.surcharge = 0
  /\ o.answer = "Authentication Success" => (o.memb.credit < 0 <=> op = "new_memb FULL")

\* do_auth: a refusal without an offer, like a success, leaves the full fee alone.
AuthAnswer ==
  /\ req # <<>> /\ Head(req).op \in NewMembs \cup {"auth"}
  /\ req' = Tail(req)
  /\ \E o \in Offers :
       /\ Head(req).op \in NewMembs => NewMembership(Head(req).op, o)
       /\ memb' = [o.memb EXCEPT
                    !.fullFee = IF o.answer = "Authentication Failed"
                                   /\ (o.memb.fullFee > 0 \/ o.memb.surcharge > 0)
                                THEN @ ELSE memb.fullFee,
                    !.sure = memb.sure /\ Head(req).own]
       /\ Answered(<<o.answer>>)
  /\ UNCHANGED <<ctl, sensors, relays, armed, sale, spn, preAuth, card, meter, hold,
                 mine, kp, capture, oper, fuelOut, violation>>

\* The transaction IDs the gateway has not used for anything still of interest.  It is no
\* matter which of them it uses first.
Fresh ==
  {h \in Holds : /\ h # trans /\ hold[h] # "live"
                 /\ \A i \in DOMAIN req : req[i].hold # h}
NewID == CHOOSE h \in Fresh : TRUE

Settled(op) == IF op = "Capture" THEN "captured" ELSE "voided"

\* Another capture of what is captured, or void of what is voided, is an error.
CanSettle(r) ==
  \/ hold[r.hold] \in {"live", "reported"}
  \/ r.op = "Void" /\ hold[r.hold] = "captured"

(***************************************************************************)
(* do_GW posts a request up to four times, with no window for duplicates,  *)
(* and sendMessage its batch up to three times.  So it may have been done, *)
(* an authorization several times over, whatever the answer in the end is. *)
(***************************************************************************)
Own(rs) == \E r \in rs : r.op = "PreAuth" /\ r.own

\* hs are the authorizations open at the gateway after posts of rs, done those of rs that
\* settled a transaction.
Posted(rs, hs, done) ==
  /\ hs # {} => NewID \in hs /\ \E r \in rs : r.op = "PreAuth"
  /\ hold' = [h \in Holds |->
                IF h \in hs THEN "live"
                ELSE IF \E r \in done : r.hold = h
                THEN Settled((CHOOSE r \in done : r.hold = h).op) ELSE hold[h]]
  /\ mine' = IF Own(rs) THEN mine \cup hs ELSE mine

\* What the posts of requests did whose answers did not come back.
GatewayEffect(rs) ==
  \E hs \in SUBSET Fresh :
    \E done \in SUBSET {r \in rs : r.op \in {"Capture", "Void"} /\ CanSettle(r)} :
      Posted(rs, hs, done)

\* Approved, where there is trouble after posts whose answers were lost: the last one's ID
\* is stored.
Approved(r) ==
  \E hs \in (SUBSET Fresh) \ {{}} :
    /\ hs = {NewID} \/ Refusals # {}
    /\ Posted({r}, hs, {})
    /\ trans' = NewID

\* do_GW: the transaction ID is stored, then the event is posted.
GatewayAccepts ==
  /\ req # <<>> /\ req' = Tail(req)
  /\ LET r == Head(req) IN
     \/ Approved(r)
     \/ /\ r.op \in {"Capture", "Void"} /\ CanSettle(r)
        /\ Posted({r}, {}, {r})
        /\ trans' = r.hold
  /\ Answered(<<"GW Accepted">>)
  /\ UNCHANGED <<ctl, sensors, relays, armed, member, doVoid, meter, kp, capture, oper,
                 fuelOut, violation>>

\* The gateway may refuse where there is trouble, even what an earlier post did, and else
\* refuses to settle what is settled.  Approved with a reason code that is not the
\* usual one is an error to the kiosk.
GatewayRefuses ==
  /\ req # <<>> /\ Head(req).op \notin NewMembs \cup {"auth"}
  /\ req' = Tail(req)
  /\ \E e \in Refusals \cup {"GW Error"} :
       /\ \/ e \in Refusals /\ GatewayEffect({Head(req)}) /\ UNCHANGED trans
          \/ e = "GW Error" /\ e \in Refusals /\ Approved(Head(req))
          \/ /\ Head(req).op # "PreAuth" /\ ~CanSettle(Head(req))
             /\ UNCHANGED <<trans, hold, mine>>
       /\ Answered(<<e>>)
  /\ UNCHANGED <<ctl, sensors, relays, armed, member, doVoid, meter, kp, capture,
                 oper, fuelOut, violation>>

(***************************************************************************)
(* The connection fails during a batch ("offline": one without requests),  *)
(* which reshuffle_message has sorted (the queue of this model is sorted,  *)
(* or short enough, already): first the requests that are retained and     *)
(* sent again with the next batch, then the volatile ones, done at the     *)
(* server or not, which are dropped.                                       *)
(***************************************************************************)
Retained(r) == r.op \in NewMembs

ServerLost ==
  /\ Room
  /\ \E n \in 0 .. Len(req) : \E m \in 0 .. n :
       /\ (IF n = 0 THEN "offline" ELSE "server lost") \in Happens
       /\ \A i \in 1 .. n : Retained(req[i]) <=> i <= m
       /\ req' = SubSeq(req, 1, m) \o SubSeq(req, n + 1, Len(req))
       /\ GatewayEffect({req[i] : i \in m + 1 .. n})
  /\ server' = FALSE
  /\ \E e \in ServerDown : Post(<<e>>)
  /\ UNCHANGED <<ctl, sensors, relays, armed, member, card, meter, kp, capture,
                 oper, fuelOut, violation>>

\* The server's messages change the fuel level.
FuelDelivered ==
  /\ Room /\ "fuel" \in Happens
  /\ fuelOut' \in BOOLEAN
  /\ Post(<<"Fuel Level">>)
  /\ UNCHANGED <<ctl, sensors, relays, armed, session, capture, oper, server, violation>>

Timer == \E t \in Timers : Expire(t)
ServerDaemon ==
  \/ StatusAnswered \/ AuthAnswer \/ GatewayAccepts \/ GatewayRefuses
  \/ ServerLost \/ FuelDelivered

World == Swipe \/ PressKey \/ DoorMoves \/ Flow \/ PumpMotor \/ Power \/ Timer \/ ServerDaemon
=============================================================================
