# A formal model of the BBD9000 biodiesel kiosk

The BBD9000 is an unattended fuel pump: a customer swipes a card, types a code,
fuels, and is charged what was pumped. An ARM board runs one process per task; an
AVR board (SmartIO) drives relays and sensors; a server keeps members and talks to
the card gateway. This directory models the parts that decide and the parts that must not lose anything, in TLA+: the
kiosk's state machine with everything that interferes with it, the daemon that
reports to the server, the server's books, the firmware of the AVR board, and the
daemon of timers and watchdog. The
models are checked with TLC, and proofs about them with TLAPS.

## 1. Inventory

| Component | State | Operations | Talks to |
|---|---|---|---|
| State machine, `Kiosk/ARM-SBC/src/BBD9000fsm.c` | `status_idx`, statics of handlers (`retries`, `memb_dollars`, `is_substate`, `wait_door_closed`, `do_cancel`, `operator_exit`) | `processEvent` (global handler, state handler, Exit/Enter events), `doReset`, `doFlowmeter`, `doRestore` | all daemons, by FIFOs and shared memory |
| Shared memory, `BBD9000mem.h` | the session (member, sale items, amounts, `cc_resp`), sensors, keypad buffer, flags | plain reads and writes, no locks | every process maps it |
| Server daemon, `BBD9000server.c` | message buffer (kept + volatile), response, `server`, `server_GW` | batch, encrypt, send; `do_auth`, `do_GW`, `do_msg`, `do_time` | FSM (events), server script |
| Timer daemon, `BBD9000timer.c` | list of named timers, watchdog | SET, DEL, CHANGE, expiry, PID check | FSM (events `<name> Timeout`) |
| SmartIO daemon, `BBD9000SmartIO.c` | settings, sensors in shared memory | lines from and to the board | FSM (events), AVR |
| SmartIO firmware, `Kiosk/SmartIO/src` | debounce, pulse count, relays, line buffers | interrupt handlers, commands | SmartIO daemon |
| Kiosk script, `Server/web/fcgi-bin/BBD-kiosk.pl` | database rows of members, sales, transactions | `do_auth`, `do_new_memb`, `do_status`, `do_GW`, `do_notice`, `consolidateCC` | server daemon, gateway |
| Gateway daemon of the kiosk, `BBD9000authorizeDotNet.c` | one transaction | authorize, capture, void | FSM, gateway |
| Management pages, `BBD.pm` and the other `.pl` | sessions, database | reports, edits, messages to kiosks | kiosk script, by the database |
| Start-up, network, temperature, twilight, configuration files | files, modem | start daemons, save and restore | shared memory |

Hard behaviours, and what makes each part correct:

* **Preemption.** A power failure or the operator's code switches the state whatever
  is under way, and the events of the old state keep coming. *Correct:* relays and
  timers follow the state, no session's transaction is lost.
* **Two sides of a FIFO.** A daemon writes shared memory first and its event is read
  later; in between the FSM reads the new value under the old state. *Correct:* what
  a state decides on belongs to the session that asked for it.
* **The gateway.** A request may be done and its answer lost, busy or late; retries
  are counted in one place and timed in another. *Correct:* the transaction a session
  knows is settled or reported, no charge on another's card.
* **The connection.** It fails between two requests of a batch; notices are kept and
  sent again, requests are dropped. *Correct:* nothing waits for ever, nothing kept
  is captured twice to an account.
* **Nested states.** The operator's menus hand their unknown events to the handler
  of another state, with static flags between them. *Correct:* operator mode ends.
* **Restarts.** The run-time state is saved and restored. *Correct:* a transaction
  survives a restart until it is settled.

Nothing is shared between processes but memory without locks and FIFOs, so the
model interleaves at every point where a daemon may run between two reads.

## 2. Plan, and what became of it

Written, in this order:

1. the state machine in its world (`KioskFSM` and what it extends), its runs, its
   type invariant and the safety of the pump proved;
2. the server daemon's queue with the server's side of a request (`ServerQueue`,
   `ServerScript`), against the abstract `Delivery`, which it implements;
3. the server's books (`ServerLedger`): members, sales, card transactions;
4. the SmartIO firmware (`SmartIOBoard`): main loop against interrupts;
5. the timer daemon (`TimerDaemon`): timers through changes of the clock, and the watchdog;
6. proofs of the safety of the queue, of the ledger's members, of the board's keys and
   of the timers;
7. proofs of the order of the queue (the refinement), of the ledger's sums, of the types of
   every module, of operator mode and of a new member's sale.

What is left to prove is in section 7, with what it would take.

Considered and left out, with the reason in section 8: the arithmetic of the
flowmeter, the gateway daemon of the kiosk, restarts of the state machine with a saved
transaction.

## 3. The modules

| Module | Models | Extended or used by |
|---|---|---|
| `KioskMem`, `KioskSteps`, `KioskRest`, `KioskSale`, `KioskCard`, `KioskOperator`, `KioskWorld`, `KioskFSM` | `BBD9000fsm.c`, and what the other processes do to it | `MCCard`, `MCSale`, `MCSite`; `KioskTypes_proofs`, `KioskTimers_proofs`, `KioskSafety_proofs` (each extends the one before) |
| `ServerScript` | the server's side of a request: `do_request`, the transaction around it | `ServerQueue` |
| `ServerQueue` | `BBD9000server.c` | `MCQueue`; `ServerQueue_proofs` |
| `Delivery` | nothing: what the daemon promises of the lines it keeps | instantiated by `ServerQueue` |
| `ServerLedger` | `do_auth`, `do_new_memb`, `do_notice`, `consolidateCC`, the nightly update | `MCLedger`; `ServerLedger_proofs` |
| `SmartIOBoard` | `Kiosk/SmartIO/src` | `MCBoard`; `SmartIOBoard_proofs` |
| `FoldLemmas` | nothing: induction over numbers and sequences, and what the library's folds compute | `ServerQueue_proofs`, `ServerLedger_proofs` |
| `TimerDaemon` | `BBD9000timer.c`, with what the state machine and `do_time` of the server daemon do to it | `MCTimer`; `TimerDaemon_proofs` |

### The state machine

`KioskMem` (variables, constants, types) is extended in a chain: `KioskSteps`
(what handlers are made of), `KioskRest`, `KioskSale`, `KioskCard`, `KioskOperator`
(the handlers, by kind of state), `KioskWorld` (everything else), `KioskFSM`
(`Init`, `Next`, the properties).

**One event, several steps.** `processEvent` reads an event, calls `doGlobal`, then
the state's handler; a handler that returns another state makes `setStatus` send
ExitState to the old handler and EnterState to the new one, repeatedly, as an
EnterState handler may return a third state (GatewayPreAuth with enough credit).
The variable `phase` is where in this the FSM stands: `wait` -> `handle` -> (`exit`
-> `enter`)* -> `wait`, and each arrow is one action, between any two of which the
daemons may act. `status` is `shmem->status_idx`, `target` the state returned.

**Handlers.** Each handler of the C table is an operator with its C name
(`doDispensing`, `doGatewayCapture`, ...), one disjunct per `case`; the sensitive
ones (`DispensingExit`, `CaptureEnter`, `GiveUp`, ...) are definitions of their
own. The dialogs share their EnterState and ExitState handlers (`DialogEnter`,
`DialogExit`), the menus theirs (`SubStateEnter`, `SubStateExit`) and their common
cases (`Menu`).

**Data.** Money is an integer without cents, fuel comes in whole gallons; the keypad
buffer is known by its kind: empty, the operator's code, a number for an SPN or an
amount, zero. An authorization of the server is a member of the constant `Offers`.
A transaction ID is a member of `Holds`. What the menus set is reduced to whether
the tank holds enough afterwards (`fuelOut`). Motion is read in one place,
`doReset`, where either reading is possible. Display, lights, log, notices are left
out, except the report of a transaction the kiosk gives up, which a property needs.
The `Pump ON` and motion events change no state that is modelled. The kiosk is in
the configuration in which the server talks to the gateway (`server_GW`).

**History.** `hold` (each transaction's fate at the gateway), `mine` (the ones
opened for the present session), the `own` field of a request (sent by the
present session) and `memb.sure` are read by no action of the FSM. Nothing in an
answer says what it answers. A session is *sure* unless it may have taken an answer for
another one: an answer to an earlier session's request that came when it waited for its
own, or the first of two authorizations it asked for.

**The world.** `KioskWorld` has one action per line of the SmartIO daemon that
changes shared memory, the expiry of any timer, and the server daemon: answers in
the order of the requests (`AuthAnswer`, `GatewayAccepts`, `GatewayRefuses`), the
loss of a batch (`ServerLost`, after which kept messages wait and volatile ones are
gone, done or not at the server), and fuel levels (`FuelDelivered`).
`do_GW` posts a request to the gateway up to four times, with no window in which
duplicates are refused, and `sendMessage` the batch up to three times. So one
authorization may open several at the gateway, whatever the kiosk is told in the
end: the last one's ID, a refusal, or nothing (`Posted`, `GatewayEffect`, `Approved`). The
kiosk never hears of the others; they are in `mine`. A capture or a void that was done by
a post whose answer was lost is refused when it is posted again, or reported done. An
approval with an unusual reason code stores its ID but is posted as an error.
`Refusals` is what the gateway may answer without a reason of the model's; where it is
empty, the gateway has no trouble, and opens what it is asked for once, unless the answer
is lost on its way to the kiosk.

**Timing.** Any timer that runs may run out at any time, between two handlers of one event too.
That is more than the code does, but it includes what it does: ServerResp (63 s by default)
is longer than one try of curl (30 s), but `sendMessage` tries three times and restarts the network
between the tries, and a resync sends the batch again. So a session may be over before its answer
comes. The answer is stored all the same and read by whoever is there: Idle ignores it, and the
next session may take it for its own.

### The server daemon and its server

The daemon has one buffer of lines. `ServerQueue` knows it by its parts: `ret`, what
`msg_size` counts and is kept till the server has it (notices, new members); `raw`,
what was read and is not sorted; `vol`, what is sent once (status, auth, GW); `acks`,
acknowledgments, which `do_msg` puts beyond what `msg_size` counts. `cut` says that
the buffer does not end in a newline. `pc` is where the daemon's loop stands: it reads
(`Read`), sorts a line at a time (`BeginSort`, `SortLine`, `EndSort`:
`reshuffle_message`), sends (`Send`, `Offline`, `Retry`, `GiveUp`: `sendMessage`) and
reads the answer (`Accepted`, `Resynced`: `process_resp`, `do_time`), after which it may
send again for the acknowledgments. The request under way is a copy, `cur`; when it
times out, the server may still do it (`strays`), before or after the copy that is
sent again.

The state file (`file`) is kept up to date only while the power fails (`saved`, the
signals `PowerAlarm` and `PowerOK`), and by the handler of a termination (`Term`);
`Kill` is the power gone. A restarted daemon sends an empty message first, and loads
the file after that (`Load`). A patch takes one of the kiosk's places whether it can be
read or not, and only one that was read is acknowledged (`ApplyMessages`).

`ServerScript` has the server's tables: what was `entered`, in the order of first times
(`log`), and the messages it keeps until they are acknowledged (`mail`). A request
that is more than 30 seconds off or has no lines is answered resync, and nothing of it is
done. A script that dies is rolled back, but for what a new membership's LOCK TABLES
committed (`RollBack`). The digest that is to tell duplicates covers the time
stamp, and duplicates are only counted, so a line that comes again is entered again.

`Delivery` is the promise: lines accepted are entered in their order, each for a first
time once; a crash may take the latest of them. The refinement maps `owed` to the lines in
the buffer, or in the file before it is loaded, that are not yet entered, and `lost` to those
that are nowhere. A line may be entered while it is still in the buffer: the answer
is then read later, or never, and the line comes again, which `Delivery` does not see.

### The server's books

`ServerLedger` has one customer with one card: his row of members and memberships, whose
the card is, his sales in the order of their time stamps, the rows of card transactions. A
session of the kiosk is what its lines can be: an authorization, which offers fuel, a
renewal, an upgrade or a membership; the notice of a pre-authorization; a new member;
sales; the notice of the capture, void or error that ends it. Each line that was sent may
come again at any moment (`Again`). `Cover` and `Consolidated` are `consolidateCC`, a
fold over the sales, the latest first. `SameWords` says whether the gateway's codes and
texts of an authorization and its capture are the same, as they are in the answers the
script keeps.

### The board

`SmartIOBoard` has the flags of the firmware by register (`reg`), the flag the main loop
looks at (`at`), and how far it is with it (`step`): the line is sent, the register
loaded, the bit cleared, the register stored. Between any two of these come the
interrupts: flow pulses, keys, changes of sensors and levels, the kiosk's commands, the
card reader. What an interrupt sets in the register between load and store is gone, as
in the code. `Loop` is the order in which the main loop looks. `Reset` is the
watchdog's restart.

### The timer daemon

`TimerDaemon` has the table of timers as the code keeps it twice: slots with a `name` and a flag
(`active`), which the daemon goes by, and `queued` with `due`, the queue of the timer library.
`Find` is `find_timer`: the slot of that name, or else the first blank one. A slot that
DEL has left has no name, but its flag stays, as `clear_timer` clears as much as a pointer takes;
`fixTime`, which walks the flags, puts its node back in the queue, where it expires to nobody
unless another timer has taken the slot and set it anew. `pc` says where
the daemon is in its loop (`run` the timers that are due, `wait` in select, `read` lines);
`SetTimer`, `DelTimer` and `FixTime` are the three modes of a line, `WatchdogExpires`,
`PidsExpire` and `TimerExpires` the branches of `timer_func1`, `Alarm` the signal. A time
is counted in ticks from now, by the clock of the moment, so `SetClock` (`do_time`) moves
every time that is queued, and neither select's timeout nor the alarm, which the
kernel counts down whatever the clock says. The history variable `left` is what
a timer's owner expects; `pending` and `off` say which timers were set, or corrected,
while the daemon did not know what the clock was.

The clock, shared memory and the event are three statements of `do_time` and one step of
the model, for the daemon has nothing to do between them but at a tick. Processes take no
time: a tick passes when all of them wait. The state machine of this module only handles
what concerns the daemon; the timers of its states are `armed` in `KioskMem`, where a
timer that is armed may expire at any moment and none expires twice. That is less than
what is shown here of the daemon.

The timer library is not in the repository. That it keeps its queue in order, and that
it does nothing when a node is deleted that is not queued (a deleted slot's, whose flag stayed), is
assumed. Whether it calls
`timer_func1` when a node is deleted is the constant `DelCalls`. The code prepares for
such a call (line 97); but if it comes, `fixTime` leaves every flag clear with the node
queued, and the next SET of a timer adds its node a second time: with `DelCalls = TRUE`
TLC finds `SlotsKept` violated by the first correction of the clock. The run and the theorems are
for a library that does not call, or a clock that is not changed.

## 4. Runs

Bounds are constants with a name.

| Run | Module, config | Checks | Shows |
|---|---|---|---|
| card | MCCard, MCCard.cfg | `TypeOK` `NoCrossCharge` `HoldsAreSettled` `EndsSettled` | members who pay by card one after the other, two transaction IDs, requests done several times, refusals, lost and late answers and lost connections; liveness under `FairSpec` |
| sale | MCSale, MCSale.cfg | `WaitsAreTimed` `FuelIsCovered` `NoChargeUnregistered` `HoldsAreSettled` | seven kinds of customer through every dialog, on a card or on credit, new members included |
| site | MCSite, MCSite.cfg | `PumpSafe` `PreAuthRespected` `StrikeTimed` `PumpNeedsDoor` | door, power and operator against a sale paid by credit, metered up to what was authorized |
| menus | MCSite, MCMenus.cfg | `StrikeTimed` `OperatorTimed` | all menus with door, pump and fuel events, no power failure |
| queue | MCQueue, MCQueue.cfg | `TypeOK` `AckedIsApplied` `SavedIsKept` `KeepsTillEntered` `InOrder` `EventuallyEntered` | the daemon's buffer through timeouts, resyncs, alarms and a restart; it implements `Delivery` |
| ledger | MCLedger, MCLedger.cfg | `TypeOK` `CreditIsBalance` `UncoveredIsOwed` `OneMemberMade` | a customer's books, with every line sent any number of times |
| board | MCBoard, MCBoard.cfg | `TypeOK` `KeyIsThere` `NoFlagStarves` | main loop and interrupts, liveness under the processor's fairness |
| timers | MCTimer, MCTimer.cfg | `SlotsKept` `TimeKept` `NoFalseReboot` `WatchdogBites` `DeadNoticed` | slots, timers, watchdog and alarm through two changes of the clock, a state machine that hangs, a process that dies; liveness |
| dropped | MCCard, MCDropped.cfg | `OnlyCaptureClears` violated | section 6 |
| power_menu | MCSite, MCPowerMenu.cfg | `OperatorTimed` violated | section 6 |
| debt | MCLedger, MCDebt.cfg | `DebtIsUncovered` violated | section 6 |
| swipe | MCBoard, MCSwipe.cfg | `OneCard` violated | section 6 |

### Why the bounds are enough

*The state machine.* `EvtCap` (how many events may wait before the world stops adding
unrequested ones; answers always fit), `ReqCap` (requests at the server daemon),
`MaxCount` (gallons), `MaxFuelPreAuth`, `MaxBusyRetries`, `MaxCapRetries` (3 and 5 in the
code, which only compares with them: one retry that is allowed and one that is not is
what matters). One event waiting besides the answers makes every event of the alphabet meet
every state and phase, with one in front of it.

`card` has one kind of member, who owes what makes a charge worth its while (2, the
threshold) and asks for a gallon: he is charged though none flows, while a transaction
that is left when his data are cleared is voided. Every member goes through authorization,
dispensing and capture, any number of them one after the other. Two transaction IDs are what it
takes for one request to open two, for a session to hold two, or for one customer to be
charged on another's; IDs of transactions that the kiosk does not know, and no request
names, come back as new ones (`Forgotten`), so sessions follow each other without end. Two
requests (`ReqCap`) are those of one session and of the next, or a session that asks twice, and the
connection breaks in the middle of their batch ("server lost"; a batch without requests is
"offline", in `menus`). A busy gateway is the refusal, with all that posts before it may have
done; the others are in `sale`, where a transaction is refused in a new member's sale. Liveness
is checked, of the state machine's runs, in `card` alone, as its graph is small enough. With the
liveness property, a graph with two events waiting is too large; `NoCrossCharge` and
`HoldsAreSettled` hold for two as well (`EvtCap = 2`, under `Spec`).

`sale` has the keys that give every answer of every dialog, seven kinds of customer, and
one transaction ID: what another customer's may do to a session is the matter of `card`. `site` and `menus` have
one member on credit, as the relays do not depend on who pays; a gallon is what the
credit covers, so that it reaches the limit. The operator and the power failure are left out
of `card` because with them the transaction is dropped (section 6), and the power out of
`menus` for the same reason; what remains is checked without them.

What late answers do is in `card`. The server daemon answers in the order of the requests, so an
answer to an earlier session comes before the present one's own, and a session that read it as its
own is not *sure* (section 3): such a session may dispense on an earlier customer's
authorization, and `FuelIsCovered`, `PreAuthRespected` and the two about the transaction except it. A late ID that
Idle ignores stays in the record until the next reset, and one that
comes while the kiosk is on its way out of GatewayCapture is not settled either
(`EndsSettled` is about what is dispensed on or comes to its settlement).

*The queue.* Two kept lines are what it takes to lose one of two, or to swap them;
the second is a new membership, whose lock commits the first when the script dies;
between them comes a volatile one. `BufCap = 2` lets the buffer fill, and end in half
a line. One abandoned request (`MaxStrays`) meets every attempt after it; one crash
(`MaxCrashes`) meets every place of the daemon and of the server, and the state file.
`MaxTries = 2` is one attempt that is repeated and one that is not. One patch and one
place for it make the place taken when the message comes again.

*The ledger.* Two transactions, fuel for 2 or 3 and dues of 2 (`Fee`), captures of the
same: every order of more, the same and less. Three sales and three rows are what a
payment can meet as covered, covered in part and not covered. `MaxTime` lets a
membership come to its reminder and its grace period (`Before`, `After`, `Ask`, `Year`).
The customer is nobody yet, a member in good standing, a non-fueling one, or a pending
one-day member. The transactions are interchangeable (`SYMMETRY`).

*The board.* One flag of each kind: a sensor, a counter, an output, the key, the flow,
the card, the reset; flags of one kind go the same way. `MaxInputs` bounds commands and
swipes between two restarts of the board, `MaxCount` pulses; both start again at `Reset`.

*The timer daemon.* A tick is half a minute: the watchdog's timeout is two, its reset one, the
check of the processes three in place of 123 s, a state's timeout one. The clock is set back by a
tick or forward by two (`MCJumps`), which is less and not less than the watchdog's timeout, at most twice (`MaxJumps`): a
change, and one before the daemon has heard of it. `MaxLines` is what the states write
within a tick. `DelCalls` is FALSE.

Every property of a passing run has a mutant, a definition beside the one it would
replace, marked "Mutant": a forgotten timer, a buffer sorted from its new end, a test for a
registered card left out. Each of them violates its property.

## 5. Fairness

`FairSpec` adds weak fairness of the FSM (it blocks only in the read of its FIFO),
of the server daemon's answers (`curl` has a timeout, so it answers or loses the
connection), and strong fairness of the expiry of ServerResp and Dispensing, the two taken
together: the timer daemon writes to the same FIFO as the others and its blocked
write gets its turn, but the FIFO's being full may come and go, hence strong. Nothing else runs
out of necessity: when GW Retry does not, ServerResp asks again. No
customer, sensor or operator is fair. `EndsSettled` excepts NoServer, where the
kiosk waits for a connection that nothing forces to come back.

`ServerQueue!Spec` adds weak fairness of the daemon's own steps (it blocks only in
`select`, with a timeout as long as the buffer has something to send, and in curl, which
has one too) and strong fairness of sending, of the server's answers and of reading them:
the network may fail again and again, but it lets a request through again and again, or
nothing could be promised. No crash, alarm, stray or writer is fair. `EventuallyEntered`
excepts what a crash takes, and a buffer that is full with half a line at its end.

`SmartIOBoard!Spec` has weak fairness of the main loop, which is never blocked but by its
watchdog's restart, and of the timer that lets `FLM` lines through. No input is fair.

`TimerDaemon!Spec` has weak fairness of the daemon and of the state machine's reading while it
does not hang, and strong fairness of time and of the alarm's signal: the clock of the
kernel is not stopped by lines that are written again and again. No change of the clock, no
state and no death is fair.

## 6. Where the code and its comments disagree

* `dropped`: the comment on `doGatewayCapture` (BBD9000fsm.c:2441) says "This is
  the only state that can clear the transaction record". The operator's code is
  taken in GatewayPreAuth and Dispensing (`can_enter_operator` is 1), and operator
  mode ends in `doReset`, which clears `cc_resp`: the hold stays on the card until
  the gateway lets it expire, and what was fueled is not charged.
* `power_menu`: the entry to Operator has a "4-hour operator timeout" (line 877).
  A voltage alarm in a menu leaves `is_substate` set; the next entry is then taken
  for a return from a menu, and sets neither timer nor relay.
* `debt`: `consolidateCC` says it covers sales "until we run out of money"
  (BBD-kiosk.pl:1261), and at the end of its loop that it subtracts "the sale amount wether or
  not it was covered" (line 1292). When a sale is covered in part, `$sale_credit` was
  raised by what was left of the money, and what is subtracted is the amount less that:
  money is left again, and an older sale gets it too. The member's credit is right
  (`CreditIsBalance`); his sales show less unpaid than he owes. What holds is the other
  direction, `UncoveredIsOwed`.
* `swipe`: the notes on the board's interface say of a MSR line that its tracks "are read
  directly off of the card" (SmartIO-API-notes.txt:126). `MSR_read` remembers which tracks
  it has until it has both, whoever's card they came from. A card of which only one track
  could be read, then another card: one line with a track of each. The kiosk authorizes by
  the name on track 1.

Three more that no run checks. The comment on Shutdown (line 1070) says "The only way to get
out of this state is with a VoltageAlarm_Reset_Evt"; the operator's code is one more, and the
entry to Operator turns on the relays Shutdown had turned off. And a timer that is set after
`do_time` set the clock and before the daemon reads CHANGE is corrected by a change
it already had: without `off`, TLC finds `TimeKept` violated, and `NoFalseReboot`, when the
timer is that of the watchdog's reset and the clock went forward. And Shutdown sends any
transaction to GatewayCapture when the power is back (line 1083): one that was authorized for a
new member, whose registration had not been sent or not been answered when the power failed, is then captured,
and the membership is never registered. Nothing says what should become of it; with "power"
among `Happens` of `sale`, `NoChargeUnregistered` is violated.

## 7. Proofs

The state machine:

* `KioskTypes_proofs!TypeCorrect`: `Spec => []TypeOK`. `TypeOK` is inductive; one
  lemma per handler, from lemmas on `Goto`, `Left`, `ClearSession`, `ResetTo` and
  `Then`, in which most handlers end. The parts of `TypeOK` (`ControlOK`, `SiteOK`,
  `RelaysOK`, `SessionOK`, `StaticsOK`) are grouped as the lemmas need them
  (`CoreOK`, `MenuOK`). The event that is read is an event because `evt` is a
  sequence of them, which the lemmas on the world carry.
* `KioskTimers_proofs!WaitsAlwaysTimed`: `Spec => []WaitsAreTimed`. The lemmas on the FIFO
  say what an appended and a taken event leave of the others (`Appended`, `Taken`), that
  the world removes no timer without appending its timeout (`PendingOutside`), and that
  what a take removes is what is then handled (`PendingTaken`). `TimedInv` adds
  that while an event is handled the timer is pending, or the event is its timeout: what is
  left to show of a handler is that where it stays it sets the timer again, or was not
  woken by it and leaves it alone.
* `KioskTimers_proofs!StrikeAlwaysTimed`: `Spec => []StrikeTimed`, which is inductive with
  the same lemmas: a handler that leaves the strike on leaves its timer alone.
* `KioskTimers_proofs!OperatorAlwaysTimed`: `Spec => []OperatorTimed`, unless the power
  fails (`"power" \notin Happens`). The ExitState handlers cancel the Operator timer or do not, and
  the EnterState handler sets it or does not, as the statics `isSubstate` and `operatorExit`
  tell them; nothing in one handler says that the other will find the flag as it was left.
  `OperFlags` says what the flags mean at each phase: in a menu `isSubstate` is set, until it
  is left for good; outside of operator mode it is clear; in Operator it is set exactly
  while a menu is being entered. `OperInv` adds that no voltage alarm waits, and that while
  the mode goes on (`InMode`) its timers are pending, or their timeouts are being handled.
  The hypothesis is needed: with a power failure the property is false (run
  `power_menu`).
* `KioskSafety_proofs!PumpIsSafe`: `Spec => []PumpSafe`. Not inductive by itself: the
  ExitState handlers of Operator and its menus do not turn the pump off, and are
  right only because of where they lead. `PumpInv` adds that: while the pump is on
  and a state other than Dispensing is being left, it is left for another of
  operator mode, or for Shutdown; so Dispensing is entered with the pump off. Every handler, the global handler and the world preserve
  it; it needs no type invariant.
* `KioskSafety_proofs!PumpBehindDoor`: `Spec => []PumpNeedsDoor`. The state machine may read
  that the door opened when it is closed again. `DoorInv` says that every opening in the
  FIFO is then followed by a closing, and so is one that is being handled; `ClosedInv` is
  the property without its quantifiers' events; `PumpInv` is why no other event can have
  turned the pump on.
* `KioskSafety_proofs!NeverChargedUnregistered`: `Spec => []NoChargeUnregistered`, unless
  the power fails. A capture is asked for in one state, GatewayCapture, to which refusals,
  timeouts, a lost connection and a full tank lead; it asks for a void where `doVoid` is set. `SaleInv` follows the
  membership that was sold and not registered: it is nowhere where it should have been
  registered (`Registered`: fuel is dispensed, a session begins); where the transaction
  ends (`Charging`) `doVoid` is set with it; and while a capture of this session waits, it is
  not there, nor in a state that could sell one. Operator mode, which may be entered from
  any of these, is the reason for `OperInv` in the proof. The hypothesis is needed: with a
  power failure TLC finds the property violated (section 6).

The server daemon:

* `ServerQueue_proofs!QueueTypeCorrect`: `SafeSpec => []TypeOK`, in two parts: `QTypes`, which the other proofs use, and
  `RestTypes`, for which messages are counted as finite sets.
* `ServerQueue_proofs!AckSafe`: `SafeSpec => []AckedIsApplied`. `AckInv` adds that every
  acknowledgment in the buffer, in the request under way and in those abandoned is of a
  message that was applied, and that what the server has deleted was so.
* `ServerQueue_proofs!SavedSafe`: `SafeSpec => []SavedIsKept`, by `DiskInv`, which adds
  that nothing is loaded where the daemon is down or about to load. The signals save what
  `msg_size` counts at that moment, so the steps that change it meanwhile are compared
  with the file only where they end.
* `ServerQueue_proofs!RetainedKept`: `SafeSpec => KeepsTillEntered`. The one step that drops
  lines is the reading of an answer; `CopyInv` says that the answer "ok" is to a request that was
  entered, and that the request was what the buffer holds, or empty.
* `ServerQueue_proofs!Ordered`: `SafeSpec => InOrder`, the refinement: the daemon and the
  server implement `Delivery`. Each step is a step of `Delivery` or a stutter: reading a line
  accepts it, the server's work on a request enters its first times, a crash forgets the latest
  lines, and the rest changes nothing of what is owed. `OrderInv` is why: every line is
  in the buffer once and none of these is still to be read; the state file would give back the
  beginning of what is owed; and so has a request given up, before lines that
  a crash took, so that the server, doing it late, enters them in the order of `owed` still. It assumes
  that the lines to keep are among those the state machine writes, once each.

The books:

* `ServerLedger_proofs!LedgerTypeCorrect`: `Spec => []TypeOK`, with no hypothesis: a sale's credit is never more than its amount,
  and the row it names exists.
* `ServerLedger_proofs!OneMember`: `Spec => []OneMemberMade`. `BooksInv` says whose the books are: only a
  member whose the card is has sales and pays for them. `MadeInv`: once a member was made,
  the card is his, which is what the test for duplicates sees.
* `ServerLedger_proofs!UncoveredOwed`: `Spec => []UncoveredIsOwed`, by `Owed`, the same
  with the fold written as a sum. `ConsolidatedIs` turns `consolidateCC`'s loop into what is left before
  each sale (`Covering`); from this what all sales are short of shrinks by no less than is
  spendable, or to nothing.
* `ServerLedger_proofs!CreditBalanced`: `Spec => []CreditIsBalance`. `CaptureInv` says that every capture
  entered came by a line of the customer's which no other line settles, so that no row has taken
  its place when it comes again, and it is found to be identical.

The last three are for a customer whose card is not that of somebody who is gone (then
no new member's line would find it registered to a member, and each would make one); the last
also for a gateway that words its answers alike (`SameWords`), and a customer who begins
with no credit.

The board and the timers:

* `SmartIOBoard_proofs!KeySafe`: `SafeSpec => []KeyIsThere`. `KeyInv`: a flag that is set has
  a key while the loop is elsewhere; one whose line was sent stays set till it is cleared, so that no
  new key is read; and the copy of the register the loop stores has it not.
* `SmartIOBoard_proofs!BoardTypeCorrect`: `SafeSpec => []TypeOK`, by `RegInv`, which adds to it
  that the copy on its way back holds flags of the register it came from, and that a flow that is
  reported was counted.
* `TimerDaemon_proofs!SlotsSafe`, `TimeSafe`, `WatchdogSafe`: `SafeSpec => []SlotsKept`,
  `[]TimeKept` and `[]NoFalseReboot`, if `FlagsKept`: the library makes no call when a node is
  deleted, or the clock is not changed. `KeptInv` says what a timer is late by while a correction is on its way,
  and that no correction is on its way that was made before (`StaleUnused`). For the watchdog,
  `PairInv` follows its two lines through the FIFO and says that when the second is read
  the first has just been; `HealthInv`, that while the state machine is well the reset is in
  one of the FIFOs, or expires `Margin` before the watchdog by the clock and before the alarm by
  the seconds it counts; `SelInv`, that select does not sleep past it. `HeardInv` is why the
  alarm that comes when both FIFOs are empty finds the clock corrected.

*Induction over data.* The library's induction theorems take an operator and cannot be
instantiated here. `FoldLemmas` states induction with a set: if 0 is in it, and n + 1 with n, then all
of Nat is (`NatInd`, from the well-foundedness of <), and likewise for sequences (`SeqInd`). The
folds of the community modules are a `CHOOSE` of a recursive function; `FoldExists`
shows by that induction that there is one, so that it is what its equation says. On it
rest the sums (`SumIs`, `SumOneMore`, `SumChanged`), `consolidateCC` and the filter by which
`Delivery` is told what is owed.

*Assumed:* the named assumptions on the constants (`KioskConstants`, `WorldConstants`,
`KindsDisjoint`, `Bounds`, `Units`, `Board`, `Clockwork`, `EnoughSlots`) and on the names of the events (`EventNames`), which TLC evaluates in every run;
and what the theorems above state as their hypotheses: no power failure
(`OperatorAlwaysTimed`, `NeverChargedUnregistered`), the cards, `SameWords` and the credit at the
start (the ledger's sums and its members), the lines written (`Ordered`) and `FlagsKept` (the timers).
The theorems hold for every number of
transactions, lines, customers and keys, every bound and any timing.

*Model-checked only:*

* `FuelIsCovered`, `PreAuthRespected`, `NoCrossCharge` and `HoldsAreSettled`. They are
  about a session's transaction, its request at the server daemon and the answer on its way, and they
  hold because answers come in the order of the requests, because sessions that took another's answer
  are told (`sure`), because the operator and a power failure are not there to drop the transaction
  (section 6), and because what the server offers is consistent. An inductive invariant has
  to follow each transaction through requests, answers and FIFO; it is not written.
* `EndsSettled`, `EventuallyEntered`, `NoFlagStarves`, `WatchdogBites` and `DeadNoticed`: liveness under
  fairness, and ENABLED, are out of this prover's reach.

## 8. Not modelled

* The management pages (SQL and HTML), boot loaders, start-up, temperature, twilight
  and cell modem (no state shared with a sale), hardware.
* The gateway daemon of the kiosk (`BBD9000authorizeDotNet.c`): the alternative to the
  server's gateway. It gives the state machine the events that `do_GW` gives it.
* In `TimerDaemon`: the signals other than the alarm's, the reboot that `sigReboot` calls, the moment
  between reading the clock and acting on it, and a table that is full (64 slots for some twenty names).
* The state machine's restart with a saved transaction (`run_cfg`, `doRestore`), the 300 ms in
  which flow events are dropped, and the arithmetic of gallons and fees.
* In `ServerQueue`: encryption and signatures, which are taken to work; the effect of
  net lines; a commit that fails after the answer was printed. The order in which a signal
  comes inside a step of the daemon is that of its steps; a line is sorted in one.
* In `ServerLedger`: two scripts at once, which would overwrite each other's credit;
  a card that is not registered or was somebody's who is gone, with which a repeated capture
  is consolidated again; receipts, alerts, promotions, fuel. A sale that comes again is
  entered again, as in the code.
* In `SmartIOBoard`: the inside of the debounce counters, a count that is read while a
  pulse changes its bytes, the bytes of the lines, thresholds, calibration, display. What a
  change loses when it comes between load and store is in the model, and in
  `PROJECT.json`, but no property is about it.

Hazards that no property covers are listed in `PROJECT.json`, each with the reason.
