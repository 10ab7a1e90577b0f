---------------------------- MODULE TimerDaemon -----------------------------
(***************************************************************************)
(* The kiosk's timer daemon (BBD9000timer.c): named timers that the state  *)
(* machine sets and deletes by lines in a FIFO, and whose timeouts come    *)
(* back as events; the watchdog, which restarts the kiosk when the state   *)
(* machine or another of its processes is gone; and the correction of the  *)
(* timers when the server daemon has set the clock.                        *)
(*                                                                         *)
(* Abstractions.  A time is a number of ticks from now, by the clock of    *)
(* the moment.  Processes take no time: a tick passes when all of them     *)
(* wait.  A line is written at once.  The timer library is not part of the *)
(* repository: to delete a node that is in no queue does nothing, and      *)
(* whether the callback is told of a node's deletion, which clears the     *)
(* timer's flag, is a parameter: DelCalls.  What becomes of a node that is *)
(* added to the queue it is in is not modelled.                            *)
(***************************************************************************)
EXTENDS Integers, Sequences, FiniteSets, FiniteSetsExt

CONSTANTS
  Others,           \* timers of the state machine's states
  Lengths,          \* of their timeouts
  nTIMERS,          \* slots for timers
  WATCHDOG_TIMEOUT, WATCHDOG_RESET, pid_timeout,
  Jumps,            \* differences the server finds between its clock and the kiosk's
  DelCalls,         \* timer_q_del_node calls timer_func1
  Past,             \* bound: ticks for which the time of a node that was deleted is followed
  MaxLines,         \* bound: lines that states write within a tick
  MaxJumps          \* bound: corrections of the clock

WATCHDOG_TIMER == "REBOOT"
pid_timer == "CHK-PIDS"
Reset == "Watchdog-Rst"
Own == {WATCHDOG_TIMER, Reset, pid_timer}
Names == Own \cup Others
ChangeTime == "Change Time"
Blank == ""
Slots == 1 .. nTIMERS

ASSUME Clockwork ==
  /\ Others \cap Own = {} /\ {ChangeTime, Blank} \cap Names = {}
  /\ {WATCHDOG_TIMEOUT, WATCHDOG_RESET, pid_timeout} \cup Lengths \subseteq Nat \ {0}
  /\ WATCHDOG_RESET < WATCHDOG_TIMEOUT
  /\ Jumps \subseteq Int \ {0} /\ DelCalls \in BOOLEAN
  /\ Past \in Nat /\ MaxLines \in Nat /\ MaxJumps \in Nat

\* "That's as many as there can ever be (ever)".
ASSUME EnoughSlots ==
  nTIMERS \in Nat /\ IsFiniteSet(Others) /\ Cardinality(Names) <= nTIMERS

VARIABLES
  pc,      \* the daemon: "start", "check" processes, "run" timers, "wait" in select,
           \* "read" lines, "reboot"
  name,    \* of the timer in each slot
  active,  \* the slots whose flag is set
  queued,  \* those whose node is in the library's queue
  due,     \* when they expire, by the clock
  sel,     \* what is left of select's timeout, which no clock changes
  alarm,   \* ticks to SIGALRM
  tim,     \* the daemon's FIFO
  evt,     \* the state machine's FIFO
  delta_t, \* of shared memory: how far the clock was set forward
  stuck,   \* the state machine handles no event any more
  dead,    \* one of the processes that are watched is gone
  lines, jumps,
  \* history
  left,    \* ticks to each timeout as it was asked for
  pending, \* the clock was set, and the daemon has not heard of it
  off      \* slots of timers set meanwhile, or before one more change of the clock

queue == <<name, active, queued, due>>
fsm == <<tim, evt, stuck>>
history == <<left, pending, off>>
vars == <<pc, queue, sel, alarm, fsm, delta_t, dead, lines, jumps, history>>

Never == -1

Set(n, t) == [mode |-> "SET", name |-> n, ms |-> t]
Del(n) == [mode |-> "DEL", name |-> n, ms |-> 0]
Change == [mode |-> "CHANGE", name |-> "", ms |-> 0]
Commands == [mode : {"SET", "DEL"}, name : Names, ms : Nat] \cup {Change}

\* doGlobal and main of the state machine reset the watchdog so.
ResetWatchdog == <<Set(WATCHDOG_TIMER, WATCHDOG_TIMEOUT), Set(Reset, WATCHDOG_RESET)>>

Init ==
  /\ pc = "start" /\ name = [s \in Slots |-> Blank] /\ active = {} /\ queued = {}
  /\ due = [s \in Slots |-> 0]
  /\ sel = Never /\ alarm = WATCHDOG_TIMEOUT
  /\ tim = ResetWatchdog /\ evt = <<>> /\ delta_t \in {0} \cup Jumps
  /\ stuck = FALSE /\ dead = FALSE /\ lines = 0 /\ jumps = 0
  /\ left = [s \in Slots |-> 0] /\ pending = FALSE /\ off = {}

(***************************************************************************)
(* The daemon.                                                             *)
(***************************************************************************)
Named(n) == {s \in Slots : name[s] = n}

\* find_timer: the slot of that name, or else the first blank one.
Find(n) == IF Named(n) # {} THEN Min(Named(n)) ELSE Min(Named(Blank))

\* The slot is n's, its flag is set, and its node in the queue.
Add(n, t) ==
  LET s == Find(n) IN
  /\ name' = [name EXCEPT ![s] = n]
  /\ active' = active \cup {s} /\ queued' = queued \cup {s}
  /\ due' = [due EXCEPT ![s] = t] /\ left' = [left EXCEPT ![s] = t]
  /\ off' = IF pending THEN off \cup {s} ELSE off \ {s}

\* Its time means nothing any more.
Unlink(s) ==
  /\ active' = active \ {s} /\ queued' = queued \ {s}
  /\ due' = [due EXCEPT ![s] = 0] /\ left' = [left EXCEPT ![s] = 0]
  /\ UNCHANGED <<name, off>>

\* Mutant: looked at once.
CheckPIDsOnce ==
  IF dead
  THEN pc' = "reboot" /\ UNCHANGED <<queue, left, off>>
  ELSE pc' = "run" /\ Unlink(Find(pid_timer))

\* A process that is gone restarts the kiosk; otherwise they are looked at again later.
CheckPIDs ==
  IF dead
  THEN pc' = "reboot" /\ UNCHANGED <<queue, left, off>>
  ELSE pc' = "run" /\ Add(pid_timer, pid_timeout)

Start ==
  /\ pc = "start" /\ pc' = "check"
  /\ Add(WATCHDOG_TIMER, WATCHDOG_TIMEOUT)
  /\ alarm' = WATCHDOG_TIMEOUT
  /\ UNCHANGED <<sel, fsm, delta_t, dead, lines, jumps, pending>>

FirstCheck ==
  /\ pc = "check"
  /\ CheckPIDs
  /\ UNCHANGED <<sel, alarm, fsm, delta_t, dead, lines, jumps, pending>>

\* s is first in the queue.
First(s) == s \in queued /\ \A r \in queued : due[s] <= due[r]

\* timer_q_run_norm.
Expired(s) == pc = "run" /\ First(s) /\ due[s] <= 0

\* alarm (1): a second is time enough for what the processes are at, and less than a tick.
WatchdogExpires(s) ==
  /\ Expired(s) /\ name[s] = WATCHDOG_TIMER /\ Unlink(s)
  /\ alarm' = 0
  /\ UNCHANGED <<pc, sel, fsm, delta_t, dead, lines, jumps, pending>>

\* Out of the queue, and back into it.
PidsExpire(s) ==
  /\ Expired(s) /\ name[s] = pid_timer /\ CheckPIDs
  /\ UNCHANGED <<sel, alarm, fsm, delta_t, dead, lines, jumps, pending>>

\* Any other sends its event; a slot that is nobody's, one that means nothing.
TimerExpires(s) ==
  /\ Expired(s) /\ name[s] \notin {WATCHDOG_TIMER, pid_timer} /\ Unlink(s)
  /\ evt' = Append(evt, name[s])
  /\ UNCHANGED <<pc, sel, alarm, tim, stuck, delta_t, dead, lines, jumps, pending>>

\* Nothing is due: select, as long as the clock says it is to the next.
Select ==
  /\ pc = "run" /\ pc' = "wait"
  /\ \/ queued = {} /\ sel' = Never
     \/ \E s \in queued : First(s) /\ due[s] > 0 /\ sel' = due[s]
  /\ UNCHANGED <<queue, alarm, fsm, delta_t, dead, lines, jumps, history>>

Wake ==
  /\ pc = "wait"
  /\ \/ tim # <<>> /\ pc' = "read"
     \/ tim = <<>> /\ sel = 0 /\ pc' = "run"
  /\ UNCHANGED <<queue, sel, alarm, fsm, delta_t, dead, lines, jumps, history>>

Reading(mode) ==
  /\ pc = "read" /\ tim # <<>> /\ Head(tim).mode = mode
  /\ tim' = Tail(tim)

\* Mutant: a reset of the watchdog leaves the alarm.
SetAlarmNot(n) == UNCHANGED alarm

SetAlarm(n) == alarm' = IF n = WATCHDOG_TIMER THEN WATCHDOG_TIMEOUT ELSE alarm

\* A node that is in the queue, by its flag, is taken out of it first.
SetTimer ==
  /\ Reading("SET")
  /\ Add(Head(tim).name, Head(tim).ms)
  /\ SetAlarm(Head(tim).name)
  /\ UNCHANGED <<pc, sel, evt, stuck, delta_t, dead, lines, jumps, pending>>

\* Mutant: the slot is cleared whole, before its flag is looked at.
DeleteSlot(s) ==
  /\ name' = [name EXCEPT ![s] = Blank] /\ active' = active \ {s}
  /\ UNCHANGED <<queued, due, left, off>>

\* clear_timer clears as much as a pointer takes, so the name is gone, and the flag stays.
Delete(s) ==
  /\ name' = [name EXCEPT ![s] = Blank]
  /\ queued' = IF s \in active THEN queued \ {s} ELSE queued
  /\ active' = IF DelCalls THEN active \ {s} ELSE active
  /\ left' = [left EXCEPT ![s] = 0] /\ off' = off \ {s}
  /\ UNCHANGED due

DelTimer ==
  /\ Reading("DEL")
  /\ Delete(Find(Head(tim).name))
  /\ UNCHANGED <<pc, sel, alarm, evt, stuck, delta_t, dead, lines, jumps, pending>>

\* Mutant: the correction is kept for the next change.
ShiftAndKeep ==
  /\ due' = [s \in Slots |-> IF s \in active THEN due[s] + delta_t ELSE due[s]]
  /\ UNCHANGED delta_t

Shift ==
  /\ due' = [s \in Slots |-> IF s \in active THEN due[s] + delta_t ELSE due[s]]
  /\ delta_t' = 0

\* Every node whose slot has the flag set goes out of the queue and back again, and that
\* of a slot that is nobody's into it.
FixTime ==
  /\ Reading("CHANGE")
  /\ IF delta_t = 0
     THEN UNCHANGED <<pc, queue, alarm, delta_t>>
     ELSE /\ pc' = "run" /\ alarm' = WATCHDOG_TIMEOUT
          /\ Shift
          /\ queued' = queued \cup active
          /\ active' = IF DelCalls THEN {} ELSE active
          /\ UNCHANGED name
  /\ pending' = FALSE
  /\ UNCHANGED <<sel, evt, stuck, dead, lines, jumps, left, off>>

ReadAll ==
  /\ pc = "read" /\ tim = <<>>
  /\ pc' = "run"
  /\ UNCHANGED <<queue, sel, alarm, fsm, delta_t, dead, lines, jumps, history>>

Daemon ==
  \/ Start \/ FirstCheck \/ Select \/ Wake
  \/ \E s \in Slots : WatchdogExpires(s) \/ PidsExpire(s) \/ TimerExpires(s)
  \/ SetTimer \/ DelTimer \/ FixTime \/ ReadAll

(***************************************************************************)
(* The state machine, the server daemon that sets the clock, and time.     *)
(***************************************************************************)
Writes(text) == tim' = tim \o text /\ UNCHANGED <<pc, queue, sel, alarm, stuck, delta_t, dead, jumps, history>>

\* doGlobal, of the events that concern the daemon.
ReadsEvent ==
  /\ pc # "reboot" /\ ~stuck /\ evt # <<>>
  /\ evt' = Tail(evt)
  /\ Writes(CASE Head(evt) = ChangeTime -> <<Change>>
              [] Head(evt) = Reset -> ResetWatchdog
              [] OTHER -> <<>>)
  /\ UNCHANGED lines

\* A state sets and cancels its timeouts.
SetsTimeout ==
  /\ pc # "reboot" /\ ~stuck /\ lines < MaxLines
  /\ \E n \in Others : Writes(<<Del(n)>>) \/ \E t \in Lengths : Writes(<<Set(n, t)>>)
  /\ lines' = lines + 1 /\ UNCHANGED evt

\* The times by a clock that is k further on; a deleted node's is not followed for ever.
Later(k) ==
  [s \in Slots |-> IF s \in queued THEN due[s] - k
                  ELSE IF s \in active THEN Max({due[s] - k, -Past}) ELSE due[s]]

\* do_time: what a timer's time is, is counted from another now; a second change before the
\* daemon has heard of the first takes its place.  timer_q_run_norm has read the clock before.
SetClock ==
  /\ pc \notin {"run", "reboot"} /\ jumps < MaxJumps
  /\ \E d \in Jumps :
       /\ due' = Later(d)
       /\ delta_t' = d
  /\ evt' = Append(evt, ChangeTime) /\ jumps' = jumps + 1
  /\ pending' = TRUE
  /\ off' = IF pending THEN Slots ELSE off
  /\ UNCHANGED <<pc, name, active, queued, sel, alarm, tim, stuck, dead, lines, left>>

GetsStuck == pc # "reboot" /\ ~stuck /\ stuck' = TRUE
             /\ UNCHANGED <<pc, queue, sel, alarm, tim, evt, delta_t, dead, lines, jumps, history>>

ProcessDies == pc # "reboot" /\ ~dead /\ dead' = TRUE
               /\ UNCHANGED <<pc, queue, sel, alarm, fsm, delta_t, lines, jumps, history>>

Quiet == pc = "wait" /\ tim = <<>> /\ (stuck \/ evt = <<>>)

\* Select's timeout, the alarm and every timer come a tick nearer.
Tick ==
  /\ Quiet /\ sel # 0 /\ alarm # 0
  /\ alarm' = alarm - 1 /\ sel' = IF sel = Never THEN Never ELSE sel - 1
  /\ due' = Later(1)
  /\ left' = [s \in Slots |-> IF s \in queued THEN left[s] - 1 ELSE left[s]]
  /\ lines' = 0
  /\ UNCHANGED <<pc, name, active, queued, fsm, delta_t, dead, jumps, pending, off>>

\* Mutant: the signal is ignored like others.
SigRebootNot == UNCHANGED pc

SigReboot == pc' = "reboot"

Alarm ==
  /\ Quiet /\ sel # 0 /\ alarm = 0
  /\ SigReboot
  /\ UNCHANGED <<queue, sel, alarm, fsm, delta_t, dead, lines, jumps, history>>

\* All processes start again.
Restart ==
  /\ pc = "reboot"
  /\ \E d \in {0} \cup Jumps : delta_t' = d
  /\ pc' = "start" /\ name' = [s \in Slots |-> Blank] /\ active' = {} /\ queued' = {}
  /\ due' = [s \in Slots |-> 0]
  /\ sel' = Never /\ alarm' = WATCHDOG_TIMEOUT /\ tim' = ResetWatchdog /\ evt' = <<>>
  /\ stuck' = FALSE /\ dead' = FALSE
  /\ left' = [s \in Slots |-> 0] /\ pending' = FALSE /\ off' = {}
  /\ lines' = 0 /\ UNCHANGED jumps

Next ==
  \/ Daemon \/ ReadsEvent \/ SetsTimeout \/ SetClock \/ GetsStuck \/ ProcessDies
  \/ Tick \/ Alarm \/ Restart

Fairness == WF_vars(Daemon) /\ WF_vars(ReadsEvent) /\ SF_vars(Tick) /\ SF_vars(Alarm)

SafeSpec == Init /\ [][Next]_vars
Spec == SafeSpec /\ Fairness

(***************************************************************************)
(* Properties.                                                             *)
(***************************************************************************)
\* Whatever is set, deleted, set again and corrected: a timer has one slot, and runs while its
\* flag is set; a node is in the library's queue only while its slot's flag is set, so SET
\* and fixTime take it out before they add it again.  Only a slot that DEL has left may have
\* its flag set and its node in no queue.
SlotsKept ==
  /\ \A r, s \in Slots : name[r] = name[s] => r = s \/ name[s] = Blank
  /\ queued \subseteq active
  /\ \A s \in active \ queued : name[s] = Blank

\* Once the daemon has corrected its timers, a timer expires when it was asked to,
\* whatever the clock was set to; but not one that was set before the daemon had
\* heard of a change, or whose first correction the next one took the place of.
TimeKept == ~pending => \A s \in queued \ off : name[s] # Blank => due[s] = left[s]

\* The kiosk is restarted for a reason: the state machine or a process is gone, or the timer
\* by which it resets the watchdog was set between a change of the clock and its correction.
NoFalseReboot == pc = "reboot" => stuck \/ dead \/ \E s \in off : name[s] = Reset

\* A state machine that handles no event any more is restarted, whatever the clock is set to.
WatchdogBites == stuck ~> pc = "reboot"

\* A process that is gone is noticed.
DeadNoticed == dead ~> pc = "reboot"
=============================================================================
