------------------------- MODULE TimerDaemon_proofs -------------------------
(***************************************************************************)
(* A timer has one slot, and the timers keep their time through changes of *)
(* the clock, for every length of the timeouts, every change and any       *)
(* number of them, if the library makes no call when it deletes a node; or *)
(* while the clock is not changed.                                         *)
(***************************************************************************)
EXTENDS TimerDaemon, FoldLemmas

FlagsKept == ~DelCalls \/ Jumps = {}

\* A timer has one slot.
OneSlot == \A r, s \in Slots : name[r] = name[s] => r = s \/ name[s] = Blank

Events == Names \cup {ChangeTime, Blank}

TimerTypes ==
  /\ name \in [Slots -> Names \cup {Blank}] /\ OneSlot
  /\ active \subseteq Slots /\ queued \subseteq Slots
  /\ due \in [Slots -> Int] /\ left \in [Slots -> Int]
  /\ tim \in Seq(Commands) /\ evt \in Seq(Events)
  /\ delta_t \in Jumps \cup {0} /\ delta_t \in Int /\ off \subseteq Slots /\ alarm \in Int

\* There is a slot for every timer: its own, or else one that is blank.
LEMMA FindIs ==
  ASSUME TimerTypes, NEW n \in Names
  PROVE  /\ Find(n) \in Slots /\ name[Find(n)] \in {n, Blank}
         /\ \A s \in Slots : name[s] = n => s = Find(n)
<1>n. nTIMERS \in Nat /\ Slots = 1 .. nTIMERS /\ n # Blank
  BY EnoughSlots, Clockwork DEF Slots
<1>m. ASSUME NEW m, Named(m) # {} PROVE Min(Named(m)) \in Slots /\ name[Min(Named(m))] = m
  <2>1. Named(m) \in SUBSET (1 .. nTIMERS)
    BY <1>n DEF Named
  <2>2. Min(Named(m)) \in Named(m)
    BY <1>n, <1>m, <2>1, MinOfPrefix
  <2> QED BY <2>2 DEF Named
<1>1. CASE Named(n) # {}
  <2>1. Find(n) \in Slots /\ name[Find(n)] = n
    BY <1>1, <1>m DEF Find
  <2> QED BY <1>n, <2>1 DEF TimerTypes, OneSlot
<1>2. CASE Named(n) = {}
  <2>1. Named(Blank) # {}
    <3> SUFFICES ASSUME Named(Blank) = {} PROVE FALSE
      OBVIOUS
    <3> DEFINE T == Names \ {n}
    <3>1. name \in [Slots -> T]
      BY <1>2 DEF TimerTypes, Named
    <3>2. IsFiniteSet(Names)
      <4>1. IsFiniteSet(Own)
        <5>1. Own = (({} \cup {WATCHDOG_TIMER}) \cup {Reset}) \cup {pid_timer}
          BY DEF Own
        <5> QED BY <5>1, FS_EmptySet, FS_AddElement
      <4> QED BY <4>1, EnoughSlots, FS_Union DEF Names
    <3>3. IsFiniteSet(T) /\ Cardinality(T) = Cardinality(Names) - 1
      BY <3>2, FS_RemoveElement
    <3>4. IsFiniteSet(Slots) /\ Cardinality(Slots) = nTIMERS
      BY <1>n, FS_Interval
    <3>5. Cardinality(T) < Cardinality(Slots)
      BY <1>n, <3>2, <3>3, <3>4, EnoughSlots, FS_CardinalityType
    <3> HIDE DEF T
    <3>6. \E x, y \in Slots : x # y /\ name[x] = name[y]
      BY <3>1, <3>3, <3>4, <3>5, FS_PigeonHole
    <3> QED BY <3>6 DEF TimerTypes, OneSlot, Named
  <2>2. Find(n) \in Slots /\ name[Find(n)] = Blank
    BY <1>2, <1>m, <2>1 DEF Find
  <2> QED BY <1>2, <2>2 DEF Named
<1> QED BY <1>1, <1>2

LEMMA CommandTypes ==
  /\ ResetWatchdog \in Seq(Commands) /\ <<Change>> \in Seq(Commands) /\ <<>> \in Seq(Commands)
  /\ \A n \in Others : <<Del(n)>> \in Seq(Commands) /\ \A t \in Lengths : <<Set(n, t)>> \in Seq(Commands)
<1>1. Change \in Commands /\ \A n \in Names : \A t \in Nat : Set(n, t) \in Commands /\ Del(n) \in Commands
  BY DEF Commands, Change, Set, Del
<1>2. /\ WATCHDOG_TIMER \in Names /\ Reset \in Names /\ Others \subseteq Names
      /\ WATCHDOG_TIMEOUT \in Nat /\ WATCHDOG_RESET \in Nat /\ Lengths \subseteq Nat
  BY Clockwork DEF Names, Own
<1>3. Set(WATCHDOG_TIMER, WATCHDOG_TIMEOUT) \in Commands /\ Set(Reset, WATCHDOG_RESET) \in Commands
  BY <1>1, <1>2
<1> QED BY <1>1, <1>2, <1>3 DEF ResetWatchdog

\* What the state machine writes.
LEMMA Written ==
  ASSUME NEW text, Writes(text), text \in Seq(Commands), tim \in Seq(Commands)
  PROVE  tim' \in Seq(Commands)
BY ConcatProperties DEF Writes

\* What the daemon reads names a timer and a time.
LEMMA LineTypes ==
  ASSUME TimerTypes, NEW mode \in {"SET", "DEL"}, Reading(mode)
  PROVE  Head(tim).name \in Names /\ Head(tim).ms \in Nat /\ tim' \in Seq(Commands)
<1>1. Head(tim) \in Commands /\ Tail(tim) \in Seq(Commands)
  BY HeadTailProperties DEF TimerTypes, Reading
<1>2. Head(tim) # Change
  <2>1. Change.mode = "CHANGE" /\ mode # "CHANGE"
    BY DEF Change
  <2> QED BY <2>1 DEF Reading
<1> QED BY <1>1, <1>2 DEF Commands, Reading

LEMMA AddTypes ==
  ASSUME TimerTypes, NEW n \in Names, NEW t \in Nat, Add(n, t)
  PROVE  /\ name' \in [Slots -> Names \cup {Blank}] /\ OneSlot'
         /\ active' \subseteq Slots /\ queued' \subseteq Slots /\ off' \subseteq Slots
         /\ due' \in [Slots -> Int] /\ left' \in [Slots -> Int]
<1>1. PICK s \in Slots :
        /\ \A r \in Slots : name[r] = n => r = s
        /\ name' = [name EXCEPT ![s] = n]
        /\ active' = active \cup {s} /\ queued' = queued \cup {s}
        /\ due' = [due EXCEPT ![s] = t] /\ left' = [left EXCEPT ![s] = t]
        /\ off' = IF pending THEN off \cup {s} ELSE off \ {s}
  BY FindIs DEF Add
<1>2. n # Blank
  BY Clockwork
<1> QED BY <1>1, <1>2 DEF TimerTypes, OneSlot

LEMMA CheckTypes ==
  ASSUME TimerTypes, CheckPIDs
  PROVE  /\ name' \in [Slots -> Names \cup {Blank}] /\ OneSlot'
         /\ active' \subseteq Slots /\ queued' \subseteq Slots /\ off' \subseteq Slots
         /\ due' \in [Slots -> Int] /\ left' \in [Slots -> Int]
<1>1. CASE dead
  BY <1>1 DEF CheckPIDs, TimerTypes, OneSlot, queue
<1>2. CASE ~dead
  <2>1. pid_timer \in Names /\ pid_timeout \in Nat
    BY Clockwork DEF Names, Own
  <2> QED BY <1>2, <2>1, AddTypes DEF CheckPIDs
<1> QED BY <1>1, <1>2

LEMMA UnlinkTypes ==
  ASSUME TimerTypes, NEW s \in Slots, Unlink(s)
  PROVE  /\ name' \in [Slots -> Names \cup {Blank}] /\ OneSlot'
         /\ active' \subseteq Slots /\ queued' \subseteq Slots /\ off' \subseteq Slots
         /\ due' \in [Slots -> Int] /\ left' \in [Slots -> Int]
BY DEF TimerTypes, OneSlot, Unlink

LEMMA DeleteTypes ==
  ASSUME TimerTypes, NEW s \in Slots, Delete(s)
  PROVE  /\ name' \in [Slots -> Names \cup {Blank}] /\ OneSlot'
         /\ active' \subseteq Slots /\ queued' \subseteq Slots /\ off' \subseteq Slots
         /\ due' \in [Slots -> Int] /\ left' \in [Slots -> Int]
BY DEF TimerTypes, OneSlot, Delete

\* A clock that is set, or goes on.
LEMMA LaterIs ==
  ASSUME TimerTypes, NEW k \in Int
  PROVE  /\ Later(k) \in [Slots -> Int]
         /\ \A s \in queued : s \in Slots /\ Later(k)[s] = due[s] - k
<1>1. \A s \in Slots : due[s] - k \in Int /\ -Past \in Int
  BY Clockwork DEF TimerTypes
<1>2. \A a, b \in Int : Max({a, b}) \in {a, b}
  <2>1. \A a, b \in Int : a <= b \/ b <= a
    OBVIOUS
  <2>2. \A a, b \in Int : \E x \in {a, b} : \A y \in {a, b} : x >= y
    BY <2>1
  <2> QED BY <2>2 DEF Max
<1>3. ASSUME NEW s \in Slots
      PROVE (IF s \in queued THEN due[s] - k
               ELSE IF s \in active THEN Max({due[s] - k, -Past}) ELSE due[s]) \in Int
  <2>1. Max({due[s] - k, -Past}) \in Int
    BY <1>1, <1>2
  <2> HIDE <1>2
  <2> QED BY <1>1, <2>1 DEF TimerTypes
<1>4. Later(k) \in [Slots -> Int]
  BY <1>3 DEF Later
<1>5. \A s \in queued : s \in Slots /\ Later(k)[s] = due[s] - k
  BY DEF Later, TimerTypes
<1> QED BY <1>4, <1>5

LEMMA DaemonTypes == TimerTypes /\ Daemon => TimerTypes'
<1> SUFFICES ASSUME TimerTypes, Daemon PROVE TimerTypes'
  OBVIOUS
<1>n. WATCHDOG_TIMER \in Names /\ WATCHDOG_TIMEOUT \in Nat
  BY Clockwork DEF Names, Own
<1>1. CASE Start
  BY <1>1, <1>n, AddTypes DEF Start, TimerTypes, fsm
<1>2. CASE FirstCheck \/ \E s \in Slots : PidsExpire(s)
  BY <1>2, CheckTypes DEF FirstCheck, PidsExpire, TimerTypes, fsm
<1>3. ASSUME NEW s \in Slots, WatchdogExpires(s) PROVE TimerTypes'
  BY <1>3, UnlinkTypes DEF WatchdogExpires, TimerTypes, fsm
<1>4. CASE Select \/ Wake \/ ReadAll
  BY <1>4 DEF Select, Wake, ReadAll, TimerTypes, OneSlot, fsm, queue, history
<1>5. ASSUME NEW s \in Slots, TimerExpires(s) PROVE TimerTypes'
  <2>1. evt' \in Seq(Events)
    <3>1. name[s] \in Events
      BY DEF TimerTypes, Events
    <3> QED BY <1>5, <3>1, AppendProperties DEF TimerExpires, TimerTypes
  <2> QED BY <1>5, <2>1, UnlinkTypes DEF TimerExpires, TimerTypes
<1>6. CASE SetTimer
  <2>1. Head(tim).name \in Names /\ Head(tim).ms \in Nat /\ tim' \in Seq(Commands)
    BY <1>6, LineTypes DEF SetTimer
  <2> QED BY <1>6, <1>n, <2>1, AddTypes DEF SetTimer, SetAlarm, TimerTypes
<1>7. CASE DelTimer
  <2>1. Head(tim).name \in Names /\ tim' \in Seq(Commands)
    BY <1>7, LineTypes DEF DelTimer
  <2>2. Find(Head(tim).name) \in Slots
    BY <2>1, FindIs
  <2> QED BY <1>7, <2>1, <2>2, DeleteTypes DEF DelTimer, TimerTypes
<1>8. CASE FixTime
  <2>1. tim' \in Seq(Commands)
    BY <1>8, HeadTailProperties DEF FixTime, Reading, TimerTypes
  <2> QED BY <1>8, <1>n, <2>1 DEF FixTime, Shift, TimerTypes, OneSlot, queue
<1> QED BY <1>1, <1>2, <1>3, <1>4, <1>5, <1>6, <1>7, <1>8 DEF Daemon

LEMMA TypesKept == TimerTypes /\ [Next]_vars => TimerTypes'
<1> SUFFICES ASSUME TimerTypes, [Next]_vars PROVE TimerTypes'
  OBVIOUS
<1>1. CASE ReadsEvent
  <2>1. evt' \in Seq(Events)
    BY <1>1, HeadTailProperties DEF ReadsEvent, TimerTypes
  <2>2. tim' \in Seq(Commands)
    BY <1>1, CommandTypes, Written DEF ReadsEvent, TimerTypes
  <2> QED BY <1>1, <2>1, <2>2 DEF ReadsEvent, Writes, TimerTypes, OneSlot, queue, history
<1>2. CASE SetsTimeout
  <2>1. tim' \in Seq(Commands)
    BY <1>2, CommandTypes, Written DEF SetsTimeout, TimerTypes
  <2> QED BY <1>2, <2>1 DEF SetsTimeout, Writes, TimerTypes, OneSlot, queue, history
<1>3. CASE SetClock
  <2>1. evt' \in Seq(Events)
    <3>1. ChangeTime \in Events
      BY DEF Events
    <3> QED BY <1>3, <3>1, AppendProperties DEF SetClock, TimerTypes
  <2>2. Jumps \subseteq Int
    BY Clockwork
  <2>3. due' \in [Slots -> Int]
    BY <1>3, <2>2, LaterIs DEF SetClock
  <2> QED BY <1>3, <2>1, <2>2, <2>3 DEF SetClock, TimerTypes, OneSlot
<1>4. CASE GetsStuck \/ ProcessDies \/ Alarm \/ UNCHANGED vars
  BY <1>4 DEF GetsStuck, ProcessDies, Alarm, vars, TimerTypes, OneSlot, queue, fsm, history
<1>5. CASE Tick
  <2>1. due' \in [Slots -> Int]
    BY <1>5, LaterIs DEF Tick
  <2> QED BY <1>5, <2>1 DEF Tick, TimerTypes, OneSlot, fsm
<1>6. CASE Restart
  BY <1>6, CommandTypes, Clockwork DEF Restart, TimerTypes, OneSlot
<1> QED BY <1>1, <1>2, <1>3, <1>4, <1>5, <1>6, DaemonTypes DEF Next

\* Adding a node, or taking one out, keeps the flags of those that are in the queue.
LEMMA AddKnown ==
  ASSUME TimerTypes, SlotsKept, NEW n \in Names, NEW t \in Nat, Add(n, t) PROVE SlotsKept'
<1>1. PICK s \in Slots :
        /\ name' = [name EXCEPT ![s] = n]
        /\ active' = active \cup {s} /\ queued' = queued \cup {s}
  BY FindIs DEF Add
<1>2. OneSlot'
  BY AddTypes
<1> QED BY <1>1, <1>2 DEF SlotsKept, OneSlot, TimerTypes

LEMMA CheckKnown == ASSUME TimerTypes, SlotsKept, CheckPIDs PROVE SlotsKept'
<1>1. pid_timer \in Names /\ pid_timeout \in Nat
  BY Clockwork DEF Names, Own
<1> QED BY <1>1, AddKnown DEF CheckPIDs, SlotsKept, queue

\* No step but the library's, which may tell the callback, parts a node from its flag.
LEMMA KnownKept == FlagsKept /\ TimerTypes /\ SlotsKept /\ [Next]_vars => SlotsKept'
<1> SUFFICES ASSUME FlagsKept, TimerTypes, SlotsKept, [Next]_vars PROVE SlotsKept'
  OBVIOUS
<1>1. CASE UNCHANGED <<name, active, queued>>
  BY <1>1 DEF SlotsKept
<1>n. WATCHDOG_TIMER \in Names /\ WATCHDOG_TIMEOUT \in Nat
  BY Clockwork DEF Names, Own
<1>2. CASE Start \/ FirstCheck \/ \E s \in Slots : PidsExpire(s)
  BY <1>2, <1>n, AddKnown, CheckKnown DEF Start, FirstCheck, PidsExpire
<1>3. CASE \E s \in Slots : WatchdogExpires(s) \/ TimerExpires(s)
  BY <1>3 DEF WatchdogExpires, TimerExpires, Unlink, SlotsKept
<1>4. CASE SetTimer
  <2>1. Head(tim).name \in Names /\ Head(tim).ms \in Nat
    BY <1>4, LineTypes DEF SetTimer
  <2> QED BY <1>4, <2>1, AddKnown DEF SetTimer
<1>5. CASE DelTimer
  <2>1. Head(tim).name \in Names
    BY <1>5, LineTypes DEF DelTimer
  <2>2. PICK s \in Slots : Delete(s)
    BY <1>5, <2>1, FindIs DEF DelTimer
  <2>3. OneSlot'
    BY <2>2, DeleteTypes
  <2> QED BY <2>2, <2>3 DEF Delete, SlotsKept, OneSlot, TimerTypes
<1>6. CASE FixTime
  <2>1. CASE delta_t = 0
    BY <1>1, <1>6, <2>1 DEF FixTime, queue
  <2>2. CASE delta_t # 0
    <3>1. ~DelCalls
      BY <2>2 DEF FlagsKept, TimerTypes
    <3>2. UNCHANGED <<name, active>> /\ queued' = queued \cup active
      BY <1>6, <2>2, <3>1 DEF FixTime
    <3> QED BY <3>2 DEF SlotsKept
  <2> QED BY <2>1, <2>2
<1>7. CASE Restart
  BY <1>7 DEF Restart, SlotsKept
<1>8. CASE SetClock \/ Tick \/ ReadsEvent \/ SetsTimeout \/ GetsStuck \/ ProcessDies \/ Alarm
  BY <1>1, <1>8 DEF SetClock, Tick, ReadsEvent, SetsTimeout, Writes, GetsStuck, ProcessDies, Alarm, queue
<1>9. CASE Select \/ Wake \/ ReadAll \/ UNCHANGED vars
  BY <1>1, <1>9 DEF Select, Wake, ReadAll, vars, queue
<1> QED BY <1>2, <1>3, <1>4, <1>5, <1>6, <1>7, <1>8, <1>9 DEF Next, Daemon

LEMMA TypesInit == Init => TimerTypes
BY CommandTypes, Clockwork DEF Init, TimerTypes, OneSlot

\* Whatever is set, deleted and corrected in whatever order, a timer has one slot (find_timer),
\* and a node is in the library's queue only while its slot's flag is set, so that none is
\* added twice (main, fixTime); and a timer that has a name runs while its flag is set.  This
\* is so if the library makes no call when it deletes a node, or the clock is not changed.
THEOREM SlotsSafe ==
  ASSUME FlagsKept
  PROVE  SafeSpec => []SlotsKept
<1> DEFINE IInv == TimerTypes /\ SlotsKept
<1>1. Init => IInv
  BY TypesInit DEF Init, SlotsKept
<1>2. IInv /\ [Next]_vars => IInv'
  BY TypesKept, KnownKept
<1> QED BY <1>1, <1>2, PTL DEF SafeSpec

\* No change of the clock is on its way to the daemon.
Unheard ==
  \/ \E i \in DOMAIN tim : tim[i] = Change
  \/ \E i \in DOMAIN evt : evt[i] = ChangeTime

\* A node that is not off is late by the change the daemon has not heard of; what was
\* left in shared memory by a change before the processes were there is never used.
InTime ==
  \A s \in queued \ off : name[s] # Blank => due[s] = IF pending THEN left[s] - delta_t ELSE left[s]
StaleUnused == (~pending /\ delta_t # 0) => ~Unheard
KeptInv == InTime /\ StaleUnused

LEMMA NoChange ==
  /\ \A n, t : Set(n, t) # Change /\ Del(n) # Change
  /\ \A i \in DOMAIN ResetWatchdog : ResetWatchdog[i] # Change
  /\ \A n, t : \A i \in DOMAIN <<Set(n, t)>> : <<Set(n, t)>>[i] # Change
  /\ \A n : \A i \in DOMAIN <<Del(n)>> : <<Del(n)>>[i] # Change
<1>1. \A n, t : Set(n, t).mode = "SET" /\ Del(n).mode = "DEL"
  BY DEF Set, Del
<1>2. Change.mode = "CHANGE"
  BY DEF Change
<1>3. \A n, t : Set(n, t) # Change /\ Del(n) # Change
  BY <1>1, <1>2
<1>4. \A i \in DOMAIN ResetWatchdog : ResetWatchdog[i] # Change
  <2>1. DOMAIN ResetWatchdog = 1 .. 2
        /\ ResetWatchdog[1] = Set(WATCHDOG_TIMER, WATCHDOG_TIMEOUT)
        /\ ResetWatchdog[2] = Set(Reset, WATCHDOG_RESET)
    BY DEF ResetWatchdog
  <2> QED BY <1>3, <2>1
<1> QED BY <1>3, <1>4

LEMMA UnheardWrites ==
  ASSUME TimerTypes, NEW text \in Seq(Commands), Writes(text), \A i \in DOMAIN text : text[i] # Change,
         evt' = evt \/ (evt # <<>> /\ evt' = Tail(evt)), Unheard'
  PROVE  Unheard
<1>1. CASE \E i \in DOMAIN tim' : tim'[i] = Change
  <2>1. PICK i \in DOMAIN tim' : tim'[i] = Change
    BY <1>1
  <2>2. tim' = tim \o text /\ tim \in Seq(Commands)
    BY DEF Writes, TimerTypes
  <2>3. i \in DOMAIN tim /\ tim[i] = Change
    BY <2>1, <2>2, ConcatProperties, LenProperties
  <2> QED BY <2>3 DEF Unheard
<1>2. CASE \E i \in DOMAIN evt' : evt'[i] = ChangeTime
  <2>1. PICK i \in DOMAIN evt' : evt'[i] = ChangeTime
    BY <1>2
  <2>2. CASE evt' = evt
    BY <2>1, <2>2 DEF Unheard
  <2>3. CASE evt # <<>> /\ evt' = Tail(evt)
    <3>1. i + 1 \in DOMAIN evt /\ evt[i + 1] = ChangeTime
      BY <2>1, <2>3, HeadTailProperties, LenProperties DEF TimerTypes
    <3> QED BY <3>1 DEF Unheard
  <2> QED BY <2>2, <2>3
<1> QED BY <1>1, <1>2 DEF Unheard

LEMMA UnheardReads ==
  ASSUME TimerTypes, UNCHANGED evt, tim # <<>>, tim' = Tail(tim), Unheard'
  PROVE  Unheard
<1>1. ASSUME NEW i \in DOMAIN tim', tim'[i] = Change PROVE i + 1 \in DOMAIN tim /\ tim[i + 1] = Change
  BY <1>1, HeadTailProperties, LenProperties DEF TimerTypes
<1> QED BY <1>1 DEF Unheard

\* Setting a timer: off while a change is on its way.
LEMMA AddKeeps ==
  ASSUME TimerTypes, KeptInv, NEW n \in Names, NEW t \in Nat, Add(n, t), UNCHANGED <<pending, delta_t>>
  PROVE  InTime'
<1>1. PICK s \in Slots :
        /\ name' = [name EXCEPT ![s] = n] /\ queued' = queued \cup {s}
        /\ due' = [due EXCEPT ![s] = t] /\ left' = [left EXCEPT ![s] = t]
        /\ off' = IF pending THEN off \cup {s} ELSE off \ {s}
  BY FindIs DEF Add
<1> QED BY <1>1 DEF TimerTypes, KeptInv, InTime

LEMMA UnlinkKeeps ==
  ASSUME TimerTypes, KeptInv, NEW s \in Slots, Unlink(s), UNCHANGED <<pending, delta_t>>
  PROVE  InTime'
BY DEF TimerTypes, KeptInv, InTime, Unlink

LEMMA DaemonKeeps == FlagsKept /\ TimerTypes /\ SlotsKept /\ KeptInv /\ Daemon => KeptInv'
<1> SUFFICES ASSUME FlagsKept, TimerTypes, SlotsKept, KeptInv, Daemon PROVE KeptInv'
  OBVIOUS
<1>n. WATCHDOG_TIMER \in Names /\ pid_timer \in Names /\ WATCHDOG_TIMEOUT \in Nat /\ pid_timeout \in Nat
  BY Clockwork DEF Names, Own
<1>u. ASSUME UNCHANGED <<tim, evt, pending, delta_t>> PROVE StaleUnused'
  BY <1>u DEF KeptInv, StaleUnused, Unheard
<1>q. ASSUME UNCHANGED <<queue, left, off, pending, delta_t>> PROVE InTime'
  BY <1>q DEF KeptInv, InTime, queue
<1>s. ASSUME UNCHANGED <<evt, pending, delta_t>>, tim # <<>>, tim' = Tail(tim) PROVE StaleUnused'
  BY <1>s, UnheardReads DEF KeptInv, StaleUnused
<1>1. CASE Start
  BY <1>1, <1>n, <1>u, AddKeeps DEF Start, fsm, KeptInv
<1>2. CASE FirstCheck \/ \E s \in Slots : PidsExpire(s)
  <2>1. UNCHANGED <<tim, evt, pending, delta_t>> /\ CheckPIDs
    BY <1>2 DEF FirstCheck, PidsExpire, fsm
  <2>2. InTime'
    <3>1. CASE dead
      BY <1>q, <2>1, <3>1 DEF CheckPIDs
    <3>2. CASE ~dead
      BY <1>n, <2>1, <3>2, AddKeeps DEF CheckPIDs
    <3> QED BY <3>1, <3>2
  <2> QED BY <1>u, <2>1, <2>2 DEF KeptInv
<1>3. ASSUME NEW s \in Slots, WatchdogExpires(s) PROVE KeptInv'
  BY <1>3, <1>u, UnlinkKeeps DEF WatchdogExpires, fsm, KeptInv
<1>4. CASE Select \/ Wake \/ ReadAll
  BY <1>4, <1>u, <1>q DEF Select, Wake, ReadAll, fsm, history, KeptInv
<1>5. ASSUME NEW s \in Slots, TimerExpires(s) PROVE KeptInv'
  <2>1. InTime'
    BY <1>5, UnlinkKeeps DEF TimerExpires
  <2>2. ASSUME Unheard' PROVE Unheard
    <3>1. ASSUME NEW i \in DOMAIN evt', evt'[i] = ChangeTime PROVE i \in DOMAIN evt /\ evt[i] = ChangeTime
      <4>1. name[s] # ChangeTime /\ name[s] \in Events
        <5>1. name[s] \in Names \cup {Blank}
          BY DEF TimerTypes
        <5>2. ChangeTime \notin Names /\ ChangeTime # Blank
          <6>1. ChangeTime \notin Names
            BY Clockwork
          <6>2. ChangeTime # Blank
            BY DEF ChangeTime, Blank
          <6> QED BY <6>1, <6>2
        <5> QED BY <5>1, <5>2 DEF Events
      <4> QED BY <1>5, <3>1, <4>1, AppendProperties, LenProperties DEF TimerExpires, TimerTypes
    <3> QED BY <1>5, <2>2, <3>1 DEF TimerExpires, Unheard
  <2> QED BY <1>5, <2>1, <2>2 DEF TimerExpires, KeptInv, StaleUnused
<1>6. CASE SetTimer
  <2>1. Head(tim).name \in Names /\ Head(tim).ms \in Nat
    BY <1>6, LineTypes DEF SetTimer
  <2>2. Add(Head(tim).name, Head(tim).ms)
    BY <1>6 DEF SetTimer
  <2>3. UNCHANGED <<evt, pending, delta_t>> /\ tim # <<>> /\ tim' = Tail(tim)
    BY <1>6 DEF SetTimer, Reading
  <2>4. InTime'
    BY <2>1, <2>2, <2>3, AddKeeps
  <2> QED BY <1>s, <2>3, <2>4 DEF KeptInv
<1>7. CASE DelTimer
  <2>1. UNCHANGED <<evt, pending, delta_t>> /\ tim # <<>> /\ tim' = Tail(tim)
    BY <1>7 DEF DelTimer, Reading
  <2>2. PICK s \in Slots : Delete(s)
    <3>1. Head(tim).name \in Names
      BY <1>7, LineTypes DEF DelTimer
    <3> QED BY <1>7, <3>1, FindIs DEF DelTimer
  <2>3. InTime'
    BY <2>1, <2>2 DEF Delete, KeptInv, InTime, TimerTypes
  <2> QED BY <1>s, <2>1, <2>3 DEF KeptInv
<1>8. CASE FixTime
  <2>1. tim # <<>> /\ tim' = Tail(tim) /\ UNCHANGED <<name, left, off>> /\ pending' = FALSE /\ UNCHANGED evt
    BY <1>8 DEF FixTime, Reading, queue
  <2>2. CASE delta_t = 0
    <3>1. UNCHANGED <<due, delta_t, queued>>
      BY <1>8, <2>2 DEF FixTime, queue
    <3>2. InTime'
      <4>1. ASSUME NEW s \in queued \ off, name[s] # Blank PROVE due[s] = left[s]
        <5>1. left[s] \in Int
          BY DEF TimerTypes
        <5> QED BY <2>2, <4>1, <5>1 DEF KeptInv, InTime
      <4> QED BY <2>1, <3>1, <4>1 DEF InTime
    <3> QED BY <2>2, <3>1, <3>2 DEF KeptInv, StaleUnused
  <2>3. CASE delta_t # 0
    <3>1. /\ due' = [s \in Slots |-> IF s \in active THEN due[s] + delta_t ELSE due[s]]
          /\ delta_t' = 0 /\ queued' = queued \cup active
      BY <1>8, <2>3 DEF FixTime, Shift
    <3>2. pending
      <4>1. Change \in Commands /\ Head(tim) = Change
        <5>1. Head(tim) \in Commands /\ Head(tim).mode = "CHANGE"
          BY <1>8, HeadTailProperties DEF FixTime, Reading, TimerTypes
        <5> QED BY <5>1 DEF Commands, Change
      <4>2. 1 \in DOMAIN tim /\ tim[1] = Change
        BY <2>1, <4>1, HeadTailProperties, LenProperties, EmptySeq DEF TimerTypes
      <4> QED BY <2>3, <4>2 DEF KeptInv, StaleUnused, Unheard
    <3>3. ASSUME NEW s \in queued' \ off', name'[s] # Blank PROVE due'[s] = left'[s]
      <4>1. s \in queued \ off /\ s \in active /\ s \in Slots
        BY <2>1, <3>1, <3>3 DEF SlotsKept, TimerTypes
      <4>2. due[s] = left[s] - delta_t
        BY <2>1, <3>2, <3>3, <4>1 DEF KeptInv, InTime
      <4>3. due'[s] = due[s] + delta_t /\ due[s] \in Int /\ left[s] \in Int /\ delta_t \in Int
        BY <3>1, <4>1 DEF TimerTypes
      <4> QED BY <2>1, <4>2, <4>3
    <3>4. InTime'
      BY <2>1, <3>3 DEF InTime
    <3> QED BY <3>1, <3>4 DEF KeptInv, StaleUnused
  <2> QED BY <2>2, <2>3
<1> QED BY <1>1, <1>2, <1>3, <1>4, <1>5, <1>6, <1>7, <1>8 DEF Daemon

\* What the state machine writes is a change only if it read that the clock was set.
LEMMA EventKeeps ==
  ASSUME TimerTypes, ReadsEvent, Unheard'
  PROVE  Unheard
<1>1. evt # <<>> /\ evt' = Tail(evt)
  BY DEF ReadsEvent
<1>2. CASE Head(evt) = ChangeTime
  <2>1. 1 \in DOMAIN evt /\ evt[1] = ChangeTime
    BY <1>1, <1>2, HeadTailProperties, LenProperties, EmptySeq DEF TimerTypes
  <2> QED BY <2>1 DEF Unheard
<1>3. CASE Head(evt) # ChangeTime
  <2>1. PICK text \in {ResetWatchdog, <<>>} : Writes(text)
    BY <1>3 DEF ReadsEvent
  <2>2. \A i \in DOMAIN text : text[i] # Change
    BY <2>1, NoChange
  <2> QED BY <1>1, <2>1, <2>2, CommandTypes, UnheardWrites
<1> QED BY <1>2, <1>3

LEMMA TimeoutKeeps ==
  ASSUME TimerTypes, SetsTimeout, Unheard'
  PROVE  Unheard
<1>1. PICK n \in Others : Writes(<<Del(n)>>) \/ \E t \in Lengths : Writes(<<Set(n, t)>>)
  BY DEF SetsTimeout
<1>2. evt' = evt
  BY DEF SetsTimeout
<1>3. CASE Writes(<<Del(n)>>)
  <2>1. <<Del(n)>> \in Seq(Commands)
    BY CommandTypes
  <2> QED BY <1>2, <1>3, <2>1, NoChange, UnheardWrites
<1>4. ASSUME NEW t \in Lengths, Writes(<<Set(n, t)>>) PROVE Unheard
  <2>1. <<Set(n, t)>> \in Seq(Commands)
    BY CommandTypes
  <2> QED BY <1>2, <1>4, <2>1, NoChange, UnheardWrites
<1> QED BY <1>1, <1>3, <1>4

LEMMA KeptKept == FlagsKept /\ TimerTypes /\ SlotsKept /\ KeptInv /\ [Next]_vars => KeptInv'
<1> SUFFICES ASSUME FlagsKept, TimerTypes, SlotsKept, KeptInv, [Next]_vars PROVE KeptInv'
  OBVIOUS
<1>q. ASSUME UNCHANGED <<queue, left, off, pending, delta_t>> PROVE InTime'
  BY <1>q DEF KeptInv, InTime, queue
<1>1. CASE ReadsEvent \/ SetsTimeout
  <2>1. UNCHANGED <<queue, left, off, pending, delta_t>>
    BY <1>1 DEF ReadsEvent, SetsTimeout, Writes, history
  <2>2. Unheard' => Unheard
    BY <1>1, EventKeeps, TimeoutKeeps
  <2> QED BY <1>q, <2>1, <2>2 DEF KeptInv, StaleUnused
<1>2. CASE SetClock
  <2>1. PICK d \in Jumps : due' = Later(d) /\ delta_t' = d
    BY <1>2 DEF SetClock
  <2>2. d \in Int
    BY Clockwork
  <2>3. ASSUME NEW s \in queued' \ off', name'[s] # Blank PROVE due'[s] = left'[s] - delta_t'
    <3>1. UNCHANGED <<name, queued, left>> /\ off' = IF pending THEN Slots ELSE off
      BY <1>2 DEF SetClock
    <3>2. ~pending /\ s \in queued \ off /\ s \in Slots
      BY <2>3, <3>1 DEF TimerTypes
    <3>3. due[s] = left[s]
      BY <2>3, <3>1, <3>2 DEF KeptInv, InTime
    <3>4. due'[s] = due[s] - d
      BY <2>1, <2>2, <3>2, LaterIs
    <3> QED BY <2>1, <3>1, <3>3, <3>4
  <2>4. pending'
    BY <1>2 DEF SetClock
  <2> QED BY <2>3, <2>4 DEF KeptInv, InTime, StaleUnused
<1>3. CASE GetsStuck \/ ProcessDies \/ Alarm \/ UNCHANGED vars
  <2>1. UNCHANGED <<queue, left, off, pending, delta_t, tim, evt>>
    BY <1>3 DEF GetsStuck, ProcessDies, Alarm, vars, fsm, history
  <2> QED BY <1>q, <2>1 DEF KeptInv, StaleUnused, Unheard
<1>4. CASE Tick
  <2>1. ASSUME NEW s \in queued' \ off', name'[s] # Blank
        PROVE  due'[s] = IF pending' THEN left'[s] - delta_t' ELSE left'[s]
    <3>1. UNCHANGED <<name, queued, off, pending, delta_t>> /\ due' = Later(1)
          /\ left' = [r \in Slots |-> IF r \in queued THEN left[r] - 1 ELSE left[r]]
      BY <1>4 DEF Tick, fsm
    <3>2. s \in queued \ off /\ s \in Slots
      BY <2>1, <3>1 DEF TimerTypes
    <3>3. due'[s] = due[s] - 1 /\ left'[s] = left[s] - 1 /\ left[s] \in Int /\ delta_t \in Int
      BY <3>1, <3>2, LaterIs DEF TimerTypes
    <3>4. due[s] = IF pending THEN left[s] - delta_t ELSE left[s]
      BY <2>1, <3>1, <3>2 DEF KeptInv, InTime
    <3>5. CASE pending
      BY <3>1, <3>3, <3>4, <3>5
    <3>6. CASE ~pending
      BY <3>1, <3>3, <3>4, <3>6
    <3> QED BY <3>5, <3>6
  <2> QED BY <1>4, <2>1 DEF Tick, KeptInv, InTime, StaleUnused, Unheard, fsm
<1>5. CASE Restart
  <2>1. ~Unheard'
    BY <1>5, NoChange DEF Restart, Unheard
  <2> QED BY <1>5, <2>1 DEF Restart, KeptInv, StaleUnused, InTime
<1> QED BY <1>1, <1>2, <1>3, <1>4, <1>5, DaemonKeeps DEF Next

\* Whatever the clock is set to, and however often, a timer that was set while the daemon
\* knew of every change keeps its time (fixTime), if a deletion leaves the flags alone.
THEOREM TimeSafe ==
  ASSUME FlagsKept
  PROVE  SafeSpec => []TimeKept
<1> DEFINE IInv == TimerTypes /\ SlotsKept /\ KeptInv
<1>1. Init => IInv
  <2> SUFFICES ASSUME Init PROVE IInv
    OBVIOUS
  <2>1. TimerTypes
    BY TypesInit
  <2>2. ~Unheard
    BY NoChange DEF Init, Unheard
  <2> QED BY <2>1, <2>2 DEF Init, SlotsKept, KeptInv, InTime, StaleUnused
<1>2. IInv /\ [Next]_vars => IInv'
  BY TypesKept, KnownKept, KeptKept
<1>3. IInv => TimeKept
  BY DEF KeptInv, InTime, TimeKept
<1> QED BY <1>1, <1>2, <1>3, PTL DEF SafeSpec

(***************************************************************************)
(* The watchdog.  Its two timers are set by lines that follow each other;  *)
(* while the state machine is well, the second of them is on its way to    *)
(* the daemon, or its timeout to the state machine, or it will expire      *)
(* before the first, and before the alarm.                                 *)
(***************************************************************************)
Margin == WATCHDOG_TIMEOUT - WATCHDOG_RESET

\* The first of the two lines was just read.
Fresh ==
  pending \/ (/\ \E w \in queued : name[w] = WATCHDOG_TIMER /\ due[w] = WATCHDOG_TIMEOUT
              /\ alarm = WATCHDOG_TIMEOUT)

PairInv ==
  \A i \in DOMAIN tim :
    /\ tim[i].name = WATCHDOG_TIMER =>
         /\ tim[i] = Set(WATCHDOG_TIMER, WATCHDOG_TIMEOUT)
         /\ i + 1 \in DOMAIN tim /\ tim[i + 1] = Set(Reset, WATCHDOG_RESET)
    /\ tim[i].name = Reset =>
         /\ tim[i] = Set(Reset, WATCHDOG_RESET)
         /\ \/ i > 1 /\ tim[i - 1] = Set(WATCHDOG_TIMER, WATCHDOG_TIMEOUT)
            \/ i = 1 /\ pc = "read" /\ Fresh

Relief ==
  \/ \E i \in DOMAIN tim : tim[i].name = Reset
  \/ \E i \in DOMAIN evt : evt[i] = Reset

Watched ==
  \E r, w \in queued :
    /\ name[r] = Reset /\ name[w] = WATCHDOG_TIMER
    /\ due[r] + Margin <= due[w]
    /\ left[r] + Margin <= alarm
    /\ left[r] <= WATCHDOG_RESET

ResetOff == \E s \in off : name[s] = Reset

\* A state machine that is well will reset the watchdog in time.
Well == Relief \/ Watched \/ ResetOff
HealthInv == (pc # "reboot" /\ ~stuck) => Well

\* Select does not sleep past the reset.
SelInv ==
  (pc = "wait" /\ ~pending) =>
    \A s \in queued \ off : name[s] = Reset => sel \in Nat /\ sel <= left[s]

HeardInv == pending => Unheard
StartInv == pc = "start" => queued = {}

LEMMA OwnNames ==
  /\ WATCHDOG_TIMER # Reset /\ WATCHDOG_TIMER # pid_timer /\ Reset # pid_timer
  /\ {WATCHDOG_TIMER, Reset, pid_timer} \subseteq Names
  /\ \A n \in Others : n # WATCHDOG_TIMER /\ n # Reset
  /\ ChangeTime # Reset /\ Change.name # WATCHDOG_TIMER /\ Change.name # Reset
  /\ WATCHDOG_TIMEOUT \in Nat /\ WATCHDOG_RESET \in Nat /\ Margin \in Nat /\ Margin > 0
<1>1. WATCHDOG_TIMER # Reset /\ WATCHDOG_TIMER # pid_timer /\ Reset # pid_timer
      /\ "" # WATCHDOG_TIMER /\ "" # Reset
  BY DEF WATCHDOG_TIMER, Reset, pid_timer
<1>2. {WATCHDOG_TIMER, Reset, pid_timer} \subseteq Names
      /\ \A n \in Others : n # WATCHDOG_TIMER /\ n # Reset
  BY Clockwork DEF Names, Own
<1>3. ChangeTime # Reset
  BY <1>2, Clockwork
<1>4. Change.name = ""
  BY DEF Change
<1>5. WATCHDOG_TIMEOUT \in Nat /\ WATCHDOG_RESET \in Nat /\ WATCHDOG_RESET < WATCHDOG_TIMEOUT
  BY Clockwork
<1>6. Margin \in Nat /\ Margin > 0
  BY <1>5 DEF Margin
<1>7. Change.name # WATCHDOG_TIMER /\ Change.name # Reset
  BY <1>1, <1>4
<1> QED BY <1>1, <1>2, <1>3, <1>5, <1>6, <1>7

LEMMA FirstRead ==
  ASSUME TimerTypes, tim # <<>>, tim' = Tail(tim)
  PROVE  /\ 1 \in DOMAIN tim /\ tim[1] = Head(tim)
         /\ \A i \in DOMAIN tim' : i \in Nat /\ i > 0 /\ i + 1 \in DOMAIN tim /\ tim'[i] = tim[i + 1]
         /\ \A i \in DOMAIN tim : i \in Nat /\ (i > 1 => i - 1 \in DOMAIN tim' /\ tim'[i - 1] = tim[i])
         /\ \A i \in DOMAIN tim : i > 0
BY HeadTailProperties, LenProperties, EmptySeq DEF TimerTypes

LEMMA PairTail ==
  ASSUME TimerTypes, PairInv, tim # <<>>, tim' = Tail(tim),
         Head(tim).name = WATCHDOG_TIMER => pc' = "read" /\ Fresh'
  PROVE  PairInv'
<1>1. ASSUME NEW i \in DOMAIN tim', tim'[i].name = WATCHDOG_TIMER
      PROVE  /\ tim'[i] = Set(WATCHDOG_TIMER, WATCHDOG_TIMEOUT)
             /\ i + 1 \in DOMAIN tim' /\ tim'[i + 1] = Set(Reset, WATCHDOG_RESET)
  <2>1. i \in Nat /\ i > 0 /\ i + 1 \in DOMAIN tim /\ tim'[i] = tim[i + 1]
    BY FirstRead
  <2>2. /\ tim[i + 1] = Set(WATCHDOG_TIMER, WATCHDOG_TIMEOUT)
        /\ (i + 1) + 1 \in DOMAIN tim /\ tim[(i + 1) + 1] = Set(Reset, WATCHDOG_RESET)
    BY <1>1, <2>1 DEF PairInv
  <2>3. ((i + 1) + 1) - 1 = i + 1 /\ (i + 1) + 1 > 1
    BY <2>1
  <2>4. i + 1 \in DOMAIN tim' /\ tim'[i + 1] = tim[(i + 1) + 1]
    BY <2>2, <2>3, FirstRead
  <2> QED BY <2>1, <2>2, <2>4
<1>2. ASSUME NEW i \in DOMAIN tim', tim'[i].name = Reset
      PROVE  /\ tim'[i] = Set(Reset, WATCHDOG_RESET)
             /\ \/ i > 1 /\ tim'[i - 1] = Set(WATCHDOG_TIMER, WATCHDOG_TIMEOUT)
                \/ i = 1 /\ pc' = "read" /\ Fresh'
  <2>1. i \in Nat /\ i > 0 /\ i + 1 \in DOMAIN tim /\ tim'[i] = tim[i + 1]
    BY FirstRead
  <2>2. tim[i + 1] = Set(Reset, WATCHDOG_RESET) /\ tim[(i + 1) - 1] = Set(WATCHDOG_TIMER, WATCHDOG_TIMEOUT)
    BY <1>2, <2>1 DEF PairInv
  <2>3. (i + 1) - 1 = i
    BY <2>1
  <2>4. CASE i = 1
    <3>1. Head(tim) = Set(WATCHDOG_TIMER, WATCHDOG_TIMEOUT)
      BY <2>2, <2>3, <2>4, FirstRead
    <3>2. Head(tim).name = WATCHDOG_TIMER
      BY <3>1 DEF Set
    <3> QED BY <2>1, <2>2, <2>4, <3>2
  <2>5. CASE i > 1
    <3>1. i \in DOMAIN tim
      <4>1. tim \in Seq(Commands) /\ DOMAIN tim = 1 .. Len(tim) /\ Len(tim) \in Nat
        BY LenProperties DEF TimerTypes
      <4>2. i + 1 \in 1 .. Len(tim)
        BY <2>1, <4>1
      <4>3. i \in 1 .. Len(tim)
        BY <2>1, <4>1, <4>2
      <4> QED BY <4>1, <4>3
    <3>2. tim'[i - 1] = tim[i]
      BY <2>5, <3>1, FirstRead
    <3> QED BY <2>1, <2>2, <2>3, <2>5, <3>2
  <2> QED BY <2>1, <2>4, <2>5
<1> QED BY <1>1, <1>2 DEF PairInv

LEMMA PairStays ==
  ASSUME PairInv, UNCHANGED tim, (pc = "read" /\ Fresh /\ tim # <<>>) => pc' = "read" /\ Fresh'
  PROVE  PairInv'
<1>1. \A i \in DOMAIN tim : tim # <<>>
  OBVIOUS
<1> QED BY <1>1 DEF PairInv

\* The lines a state writes are not the watchdog's.
Strange(text) == \A i \in DOMAIN text : text[i].name # WATCHDOG_TIMER /\ text[i].name # Reset

LEMMA StrangeTexts ==
  /\ Strange(<<>>) /\ Strange(<<Change>>)
  /\ \A n \in Others : Strange(<<Del(n)>>) /\ \A t \in Lengths : Strange(<<Set(n, t)>>)
<1>1. \A n, t : Set(n, t).name = n /\ Del(n).name = n
  BY DEF Set, Del
<1>2. Strange(<<>>)
  BY DEF Strange
<1>3. ASSUME NEW c, c.name # WATCHDOG_TIMER, c.name # Reset PROVE Strange(<<c>>)
  BY <1>3 DEF Strange
<1> QED BY <1>1, <1>2, <1>3, OwnNames

LEMMA AllWritten ==
  ASSUME TimerTypes, NEW text \in Seq(Commands), tim' = tim \o text
  PROVE  /\ Len(tim) \in Nat /\ DOMAIN tim = 1 .. Len(tim)
         /\ \A i \in DOMAIN tim : i \in DOMAIN tim' /\ tim'[i] = tim[i]
         /\ \A i \in DOMAIN tim' : \/ i \in DOMAIN tim
                                   \/ i - Len(tim) \in DOMAIN text /\ tim'[i] = text[i - Len(tim)]
         /\ \A j \in DOMAIN text : Len(tim) + j \in DOMAIN tim' /\ tim'[Len(tim) + j] = text[j]
BY ConcatProperties, LenProperties DEF TimerTypes

LEMMA PairOld ==
  ASSUME TimerTypes, PairInv, NEW text \in Seq(Commands), tim' = tim \o text,
         UNCHANGED <<pc, alarm, pending, queue>>, NEW i \in DOMAIN tim
  PROVE  /\ tim'[i].name = WATCHDOG_TIMER =>
              /\ tim'[i] = Set(WATCHDOG_TIMER, WATCHDOG_TIMEOUT)
              /\ i + 1 \in DOMAIN tim' /\ tim'[i + 1] = Set(Reset, WATCHDOG_RESET)
         /\ tim'[i].name = Reset =>
              /\ tim'[i] = Set(Reset, WATCHDOG_RESET)
              /\ \/ i > 1 /\ tim'[i - 1] = Set(WATCHDOG_TIMER, WATCHDOG_TIMEOUT)
                 \/ i = 1 /\ pc' = "read" /\ Fresh'
<1>1. tim'[i] = tim[i] /\ Len(tim) \in Nat /\ DOMAIN tim = 1 .. Len(tim)
      /\ \A j \in DOMAIN tim : j \in DOMAIN tim' /\ tim'[j] = tim[j]
  BY AllWritten
<1>2. Fresh' = Fresh
  BY DEF Fresh, queue
<1>3. i > 1 => i - 1 \in DOMAIN tim
  BY <1>1
<1> QED BY <1>1, <1>2, <1>3 DEF PairInv

LEMMA PairStrange ==
  ASSUME TimerTypes, PairInv, NEW text \in Seq(Commands), Strange(text), tim' = tim \o text,
         UNCHANGED <<pc, alarm, pending, queue>>
  PROVE  PairInv'
<1>1. ASSUME NEW i \in DOMAIN tim', i \notin DOMAIN tim
      PROVE  tim'[i].name # WATCHDOG_TIMER /\ tim'[i].name # Reset
  BY <1>1, AllWritten DEF Strange
<1> QED BY <1>1, PairOld DEF PairInv

LEMMA PairPair ==
  ASSUME TimerTypes, PairInv, tim' = tim \o ResetWatchdog, UNCHANGED <<pc, alarm, pending, queue>>
  PROVE  PairInv'
<1> DEFINE L == Len(tim)
<1>1. /\ Set(WATCHDOG_TIMER, WATCHDOG_TIMEOUT).name = WATCHDOG_TIMER
      /\ Set(Reset, WATCHDOG_RESET).name = Reset
  BY DEF Set
<1>2. DOMAIN ResetWatchdog = 1 .. 2
      /\ ResetWatchdog[1] = Set(WATCHDOG_TIMER, WATCHDOG_TIMEOUT)
      /\ ResetWatchdog[2] = Set(Reset, WATCHDOG_RESET)
  BY DEF ResetWatchdog
<1>3. /\ L \in Nat /\ L + 1 \in DOMAIN tim' /\ L + 2 \in DOMAIN tim'
      /\ tim'[L + 1] = Set(WATCHDOG_TIMER, WATCHDOG_TIMEOUT) /\ tim'[L + 2] = Set(Reset, WATCHDOG_RESET)
  <2>1. 1 \in DOMAIN ResetWatchdog /\ 2 \in DOMAIN ResetWatchdog
    BY <1>2
  <2> QED BY <1>2, <2>1, CommandTypes, AllWritten
<1>4. ASSUME NEW i \in DOMAIN tim', i \notin DOMAIN tim PROVE i = L + 1 \/ i = L + 2
  <2>1. i - L \in 1 .. 2
    BY <1>2, <1>4, CommandTypes, AllWritten
  <2>2. i \in Nat
    <3>1. tim' \in Seq(Commands)
      BY CommandTypes, ConcatProperties DEF TimerTypes
    <3>2. DOMAIN tim' = 1 .. Len(tim') /\ Len(tim') \in Nat
      BY <3>1, LenProperties
    <3> QED BY <3>2
  <2>3. \A a, b \in Nat : a - b \in 1 .. 2 => a = b + 1 \/ a = b + 2
    OBVIOUS
  <2>4. L \in Nat
    BY <1>3
  <2> HIDE DEF L
  <2> QED BY <2>1, <2>2, <2>3, <2>4
<1>5. ASSUME NEW i \in DOMAIN tim', i \notin DOMAIN tim
      PROVE  /\ tim'[i].name = WATCHDOG_TIMER =>
                  /\ tim'[i] = Set(WATCHDOG_TIMER, WATCHDOG_TIMEOUT)
                  /\ i + 1 \in DOMAIN tim' /\ tim'[i + 1] = Set(Reset, WATCHDOG_RESET)
             /\ tim'[i].name = Reset =>
                  /\ tim'[i] = Set(Reset, WATCHDOG_RESET)
                  /\ i > 1 /\ tim'[i - 1] = Set(WATCHDOG_TIMER, WATCHDOG_TIMEOUT)
  <2>1. CASE i = L + 1
    <3>1. i + 1 = L + 2
      BY <1>3, <2>1
    <3> QED BY <1>1, <1>3, <2>1, <3>1, OwnNames
  <2>2. CASE i = L + 2
    <3>1. i - 1 = L + 1 /\ i > 1
      BY <1>3, <2>2
    <3> QED BY <1>1, <1>3, <2>2, <3>1, OwnNames
  <2> QED BY <1>4, <1>5, <2>1, <2>2
<1> QED BY <1>5, PairOld, CommandTypes DEF PairInv

\* The lines the state machine writes.
LEMMA PairWrites ==
  ASSUME TimerTypes, PairInv, ReadsEvent \/ SetsTimeout
  PROVE  PairInv'
<1>1. CASE ReadsEvent
  <2>1. PICK text \in {<<Change>>, ResetWatchdog, <<>>} : Writes(text)
    BY <1>1 DEF ReadsEvent
  <2> QED BY <2>1, PairPair, PairStrange, StrangeTexts, CommandTypes DEF Writes, history
<1>2. CASE SetsTimeout
  <2>1. PICK n \in Others : Writes(<<Del(n)>>) \/ \E t \in Lengths : Writes(<<Set(n, t)>>)
    BY <1>2 DEF SetsTimeout
  <2>2. PICK text \in Seq(Commands) : Strange(text) /\ Writes(text)
    BY <2>1, StrangeTexts, CommandTypes
  <2> QED BY <2>2, PairStrange DEF Writes, history
<1> QED BY <1>1, <1>2

LEMMA PairKept == TimerTypes /\ PairInv /\ [Next]_vars => PairInv'
<1> SUFFICES ASSUME TimerTypes, PairInv, [Next]_vars PROVE PairInv'
  OBVIOUS
<1>1. CASE Start \/ FirstCheck \/ Select \/ Wake \/ ReadAll \/ Alarm \/ Tick
            \/ \E s \in Slots : WatchdogExpires(s) \/ PidsExpire(s) \/ TimerExpires(s)
  <2>1. UNCHANGED tim /\ (pc # "read" \/ tim = <<>>)
    BY <1>1 DEF Start, FirstCheck, WatchdogExpires, PidsExpire, Select, Wake, ReadAll, Alarm, Tick,
       TimerExpires, Expired, Quiet, fsm
  <2> QED BY <2>1, PairStays
<1>2. CASE SetTimer
  <2>1. tim # <<>> /\ tim' = Tail(tim) /\ pc' = "read"
    BY <1>2 DEF SetTimer, Reading
  <2>2. ASSUME Head(tim).name = WATCHDOG_TIMER PROVE Fresh'
    <3>1. Head(tim) = Set(WATCHDOG_TIMER, WATCHDOG_TIMEOUT)
      BY <2>1, <2>2, FirstRead DEF PairInv
    <3>2. Head(tim).ms = WATCHDOG_TIMEOUT
      BY <3>1 DEF Set
    <3>3. Add(WATCHDOG_TIMER, WATCHDOG_TIMEOUT) /\ Find(WATCHDOG_TIMER) \in Slots
      BY <1>2, <2>2, <3>2, OwnNames, FindIs DEF SetTimer
    <3>4. alarm' = WATCHDOG_TIMEOUT
      BY <1>2, <2>2 DEF SetTimer, SetAlarm
    <3> QED BY <3>3, <3>4, OwnNames DEF Add, Fresh, TimerTypes
  <2> QED BY <2>1, <2>2, PairTail
<1>3. CASE DelTimer \/ FixTime
  <2>1. tim # <<>> /\ tim' = Tail(tim) /\ Head(tim).mode # "SET"
    BY <1>3 DEF DelTimer, FixTime, Reading
  <2>2. Head(tim).name # WATCHDOG_TIMER
    <3>1. Set(WATCHDOG_TIMER, WATCHDOG_TIMEOUT).mode = "SET"
      BY DEF Set
    <3> QED BY <2>1, <3>1, FirstRead DEF PairInv
  <2> QED BY <2>1, <2>2, PairTail
<1>4. CASE SetClock
  <2>1. UNCHANGED <<tim, pc>> /\ pending'
    BY <1>4 DEF SetClock
  <2> QED BY <2>1, PairStays DEF Fresh
<1>5. CASE GetsStuck \/ ProcessDies \/ UNCHANGED vars
  <2>1. UNCHANGED <<tim, pc, alarm, pending, queue>>
    BY <1>5 DEF GetsStuck, ProcessDies, vars, fsm, history
  <2> QED BY <2>1, PairStays DEF Fresh, queue
<1>6. CASE Restart
  <2>1. DOMAIN ResetWatchdog = 1 .. 2
        /\ ResetWatchdog[1] = Set(WATCHDOG_TIMER, WATCHDOG_TIMEOUT)
        /\ ResetWatchdog[2] = Set(Reset, WATCHDOG_RESET)
        /\ Set(WATCHDOG_TIMER, WATCHDOG_TIMEOUT).name = WATCHDOG_TIMER
        /\ Set(Reset, WATCHDOG_RESET).name = Reset
    BY DEF ResetWatchdog, Set
  <2> QED BY <1>6, <2>1, OwnNames DEF Restart, PairInv
<1> QED BY <1>1, <1>2, <1>3, <1>4, <1>5, <1>6, PairWrites DEF Next, Daemon

(***************************************************************************)
(* What is on its way.                                                     *)
(***************************************************************************)
LEMMA ReadLine ==
  ASSUME TimerTypes, tim # <<>>, tim' = Tail(tim), NEW i \in DOMAIN tim, tim[i] # Head(tim)
  PROVE  i - 1 \in DOMAIN tim' /\ tim'[i - 1] = tim[i]
<1>1. i \in Nat /\ i > 0 /\ tim[1] = Head(tim)
  BY FirstRead
<1>2. i > 1
  BY <1>1
<1> QED BY <1>2, FirstRead

LEMMA ReadEvent ==
  ASSUME TimerTypes, evt # <<>>, evt' = Tail(evt), NEW i \in DOMAIN evt, evt[i] # Head(evt)
  PROVE  i - 1 \in DOMAIN evt' /\ evt'[i - 1] = evt[i]
BY HeadTailProperties, LenProperties, EmptySeq DEF TimerTypes

LEMMA NewEvent ==
  ASSUME TimerTypes, NEW e \in Events, evt' = Append(evt, e)
  PROVE  /\ \A i \in DOMAIN evt : i \in DOMAIN evt' /\ evt'[i] = evt[i]
         /\ \E i \in DOMAIN evt' : evt'[i] = e
<1>1. /\ \A i \in DOMAIN evt : i \in DOMAIN evt' /\ evt'[i] = evt[i]
      /\ Len(evt) + 1 \in DOMAIN evt' /\ evt'[Len(evt) + 1] = e
  BY AppendProperties, LenProperties DEF TimerTypes
<1> QED BY <1>1

\* The lines that ReadsEvent writes.
LEMMA EventLines ==
  ASSUME ReadsEvent
  PROVE  /\ evt # <<>> /\ evt' = Tail(evt)
         /\ \E text \in {<<Change>>, ResetWatchdog, <<>>} :
              /\ Writes(text)
              /\ Head(evt) = ChangeTime => text = <<Change>>
              /\ Head(evt) = Reset => text = ResetWatchdog
<1>1. CASE Head(evt) = ChangeTime
  BY <1>1, OwnNames DEF ReadsEvent
<1>2. CASE Head(evt) # ChangeTime /\ Head(evt) = Reset
  BY <1>2 DEF ReadsEvent
<1>3. CASE Head(evt) # ChangeTime /\ Head(evt) # Reset
  BY <1>3 DEF ReadsEvent
<1> QED BY <1>1, <1>2, <1>3

\* What a state writes.
LEMMA StateLines ==
  ASSUME SetsTimeout
  PROVE  UNCHANGED evt /\ \E text \in Seq(Commands) : Writes(text)
<1>1. PICK n \in Others : Writes(<<Del(n)>>) \/ \E t \in Lengths : Writes(<<Set(n, t)>>)
  BY DEF SetsTimeout
<1> QED BY <1>1, CommandTypes DEF SetsTimeout

\* Nothing that was written is lost.
LEMMA LinesStay ==
  ASSUME TimerTypes, NEW text \in Seq(Commands), Writes(text)
  PROVE  /\ \A i \in DOMAIN tim : i \in DOMAIN tim' /\ tim'[i] = tim[i]
         /\ \A j \in DOMAIN text : \E i \in DOMAIN tim' : tim'[i] = text[j]
<1>1. tim' = tim \o text
  BY DEF Writes
<1> QED BY <1>1, AllWritten

LEMMA HeardKept == TimerTypes /\ HeardInv /\ [Next]_vars => HeardInv'
<1> SUFFICES ASSUME TimerTypes, HeardInv, [Next]_vars, pending' PROVE Unheard'
  BY DEF HeardInv
<1>1. CASE UNCHANGED <<tim, evt, pending>>
  BY <1>1 DEF HeardInv, Unheard
<1>2. CASE SetTimer \/ DelTimer
  <2>1. /\ tim # <<>> /\ tim' = Tail(tim) /\ UNCHANGED <<evt, pending>> /\ Head(tim).mode # "CHANGE"
    BY <1>2 DEF SetTimer, DelTimer, Reading
  <2>2. Head(tim) # Change
    <3>1. Change.mode = "CHANGE"
      BY DEF Change
    <3> QED BY <2>1, <3>1
  <2>3. ASSUME NEW i \in DOMAIN tim, tim[i] = Change PROVE Unheard'
    BY <2>1, <2>2, <2>3, ReadLine DEF Unheard
  <2> QED BY <2>1, <2>3 DEF HeardInv, Unheard
<1>3. ASSUME NEW s \in Slots, TimerExpires(s) PROVE Unheard'
  <2>1. name[s] \in Events /\ evt' = Append(evt, name[s]) /\ UNCHANGED <<tim, pending>>
    BY <1>3 DEF TimerExpires, TimerTypes, Events
  <2>2. \A i \in DOMAIN evt : i \in DOMAIN evt' /\ evt'[i] = evt[i]
    BY <2>1, NewEvent
  <2> QED BY <2>1, <2>2 DEF HeardInv, Unheard
<1>4. CASE FixTime \/ Restart
  BY <1>4 DEF FixTime, Restart
<1>5. CASE ReadsEvent
  <2>1. PICK text \in {<<Change>>, ResetWatchdog, <<>>} :
          /\ evt # <<>> /\ evt' = Tail(evt) /\ Writes(text)
          /\ Head(evt) = ChangeTime => text = <<Change>>
    BY <1>5, EventLines
  <2>2. /\ \A i \in DOMAIN tim : i \in DOMAIN tim' /\ tim'[i] = tim[i]
        /\ \A j \in DOMAIN text : \E i \in DOMAIN tim' : tim'[i] = text[j]
    BY <2>1, LinesStay, CommandTypes
  <2>3. pending
    BY <2>1 DEF Writes, history
  <2>4. ASSUME NEW i \in DOMAIN evt, evt[i] = ChangeTime PROVE Unheard'
    <3>1. CASE Head(evt) = ChangeTime
      <4>1. 1 \in DOMAIN text /\ text[1] = Change
        BY <2>1, <3>1
      <4> QED BY <2>2, <4>1 DEF Unheard
    <3>2. CASE Head(evt) # ChangeTime
      BY <2>1, <2>4, <3>2, ReadEvent DEF Unheard
    <3> QED BY <3>1, <3>2
  <2> QED BY <2>2, <2>3, <2>4 DEF HeardInv, Unheard
<1>6. CASE SetsTimeout
  <2>1. PICK text \in Seq(Commands) : Writes(text) /\ UNCHANGED evt
    BY <1>6, StateLines
  <2>2. \A i \in DOMAIN tim : i \in DOMAIN tim' /\ tim'[i] = tim[i]
    BY <2>1, LinesStay
  <2> QED BY <2>1, <2>2 DEF HeardInv, Unheard, Writes, history
<1>7. CASE SetClock
  <2>1. evt' = Append(evt, ChangeTime) /\ ChangeTime \in Events
    BY <1>7 DEF SetClock, Events
  <2> QED BY <2>1, NewEvent DEF Unheard
<1>8. CASE \/ Start \/ FirstCheck \/ Select \/ Wake \/ ReadAll
           \/ \E s \in Slots : WatchdogExpires(s) \/ PidsExpire(s)
           \/ GetsStuck \/ ProcessDies \/ Tick \/ Alarm \/ UNCHANGED vars
  BY <1>1, <1>8 DEF Start, FirstCheck, WatchdogExpires, PidsExpire, Select, Wake, ReadAll,
     GetsStuck, ProcessDies, Tick, Alarm, vars, fsm, history
<1> QED BY <1>2, <1>3, <1>4, <1>5, <1>6, <1>7, <1>8 DEF Next, Daemon

LEMMA StartKept == StartInv /\ [Next]_vars => StartInv'
<1> SUFFICES ASSUME StartInv, [Next]_vars, pc' = "start" PROVE queued' = {}
  BY DEF StartInv
<1>1. CASE Restart
  BY <1>1 DEF Restart
<1>2. CASE pc = "start" /\ UNCHANGED queued
  BY <1>2 DEF StartInv
<1>3. CASE \/ ReadsEvent \/ SetsTimeout \/ SetClock \/ GetsStuck \/ ProcessDies \/ Tick \/ UNCHANGED vars
  <2>1. UNCHANGED <<pc, queued>>
    BY <1>3 DEF ReadsEvent, SetsTimeout, Writes, SetClock, GetsStuck, ProcessDies, Tick, queue, vars
  <2> QED BY <1>2, <2>1
<1>4. CASE Daemon \/ Alarm
  <2>1. pc' # "start"
    BY <1>4 DEF Daemon, Alarm, SigReboot, Start, FirstCheck, WatchdogExpires, PidsExpire, CheckPIDs, Select, Wake,
       TimerExpires, Expired, SetTimer, DelTimer, FixTime, Reading, ReadAll
  <2> QED BY <2>1
<1> QED BY <1>1, <1>3, <1>4 DEF Next

LEMMA SelKept == TimerTypes /\ KeptInv /\ SelInv /\ [Next]_vars => SelInv'
<1> SUFFICES ASSUME TimerTypes, KeptInv, SelInv, [Next]_vars, pc' = "wait", ~pending',
                    NEW s \in queued' \ off', name'[s] = Reset
             PROVE  sel' \in Nat /\ sel' <= left'[s]
  BY DEF SelInv
<1>n. Reset # Blank
  BY OwnNames, Clockwork
<1>1. CASE UNCHANGED <<pc, queue, sel, left, pending, off>>
  BY <1>1 DEF SelInv, queue
<1>2. CASE ReadsEvent \/ SetsTimeout \/ GetsStuck \/ ProcessDies \/ UNCHANGED vars
  BY <1>1, <1>2 DEF ReadsEvent, SetsTimeout, Writes, GetsStuck, ProcessDies, vars, history
<1>3. CASE Select
  <2>1. UNCHANGED <<name, queued, due, left, pending, off>> /\ s \in queued
    BY <1>3 DEF Select, queue, history
  <2>2. PICK r \in queued : First(r) /\ due[r] > 0 /\ sel' = due[r]
    BY <1>3, <2>1 DEF Select
  <2>3. due[r] \in Int /\ due[r] <= due[s]
    BY <2>1, <2>2 DEF First, TimerTypes
  <2>4. due[s] = left[s]
    BY <1>n, <2>1 DEF KeptInv, InTime
  <2> QED BY <2>1, <2>2, <2>3, <2>4
<1>4. CASE Tick
  <2>1. UNCHANGED <<pc, name, queued, off, pending>> /\ s \in queued /\ s \in Slots
    BY <1>4 DEF Tick, TimerTypes
  <2>2. sel \in Nat /\ sel <= left[s]
    BY <2>1 DEF SelInv
  <2>3. sel # 0 /\ sel' = sel - 1 /\ left'[s] = left[s] - 1 /\ left[s] \in Int
    BY <1>4, <2>1, <2>2 DEF Tick, Never, TimerTypes
  <2> QED BY <2>2, <2>3
<1>5. CASE SetClock \/ Restart
  BY <1>5 DEF SetClock, Restart
<1>6. CASE Alarm \/ (Daemon /\ ~Select)
  <2>1. pc' # "wait"
    BY <1>6 DEF Daemon, Alarm, SigReboot, Start, FirstCheck, WatchdogExpires, PidsExpire, CheckPIDs, Wake,
       TimerExpires, Expired, SetTimer, DelTimer, FixTime, Reading, ReadAll
  <2> QED BY <2>1
<1> QED BY <1>2, <1>3, <1>4, <1>5, <1>6 DEF Next

\* A line that is not the reset's is read.
LEMMA ReliefRead ==
  ASSUME TimerTypes, tim # <<>>, tim' = Tail(tim), UNCHANGED evt, Head(tim).name # Reset, Relief
  PROVE  Relief'
<1>1. ASSUME NEW i \in DOMAIN tim, tim[i].name = Reset PROVE Relief'
  <2>1. tim[i] # Head(tim)
    BY <1>1
  <2> QED BY <1>1, <2>1, ReadLine DEF Relief
<1> QED BY <1>1 DEF Relief

LEMMA ReliefWritten ==
  ASSUME TimerTypes, Relief, ReadsEvent \/ SetsTimeout
  PROVE  Relief'
<1>1. CASE ReadsEvent
  <2>1. PICK text \in {<<Change>>, ResetWatchdog, <<>>} :
          /\ evt # <<>> /\ evt' = Tail(evt) /\ Writes(text)
          /\ Head(evt) = Reset => text = ResetWatchdog
    BY <1>1, EventLines
  <2>2. /\ \A i \in DOMAIN tim : i \in DOMAIN tim' /\ tim'[i] = tim[i]
        /\ \A j \in DOMAIN text : \E i \in DOMAIN tim' : tim'[i] = text[j]
    BY <2>1, LinesStay, CommandTypes
  <2>3. ASSUME NEW i \in DOMAIN evt, evt[i] = Reset PROVE Relief'
    <3>1. CASE Head(evt) = Reset
      <4>1. text = ResetWatchdog
        BY <2>1, <3>1
      <4>2. 2 \in DOMAIN text /\ text[2] = Set(Reset, WATCHDOG_RESET)
        BY <4>1 DEF ResetWatchdog
      <4>3. Set(Reset, WATCHDOG_RESET).name = Reset
        BY DEF Set
      <4> QED BY <2>2, <4>2, <4>3 DEF Relief
    <3>2. CASE Head(evt) # Reset
      BY <2>1, <2>3, <3>2, ReadEvent DEF Relief
    <3> QED BY <3>1, <3>2
  <2> QED BY <2>2, <2>3 DEF Relief
<1>2. CASE SetsTimeout
  <2>1. PICK text \in Seq(Commands) : Writes(text) /\ UNCHANGED evt
    BY <1>2, StateLines
  <2>2. \A i \in DOMAIN tim : i \in DOMAIN tim' /\ tim'[i] = tim[i]
    BY <2>1, LinesStay
  <2> QED BY <2>1, <2>2 DEF Relief
<1> QED BY <1>1, <1>2

LEMMA ReliefSent ==
  ASSUME TimerTypes, NEW e \in Events, evt' = Append(evt, e), UNCHANGED tim
  PROVE  (Relief => Relief') /\ (e = Reset => Relief')
<1>1. /\ \A i \in DOMAIN evt : i \in DOMAIN evt' /\ evt'[i] = evt[i]
      /\ \E i \in DOMAIN evt' : evt'[i] = e
  BY NewEvent
<1> QED BY <1>1 DEF Relief

\* Another timer is set, runs out, or is deleted.
LEMMA WatchedElse ==
  ASSUME TimerTypes, UNCHANGED alarm, NEW s \in Slots,
         name[s] # WATCHDOG_TIMER, name[s] # Reset,
         \/ \E n \in Names \ {WATCHDOG_TIMER, Reset}, t \in Nat : Add(n, t) /\ s = Find(n)
         \/ Unlink(s)
         \/ Delete(s)
  PROVE  (Watched => Watched') /\ (ResetOff => ResetOff')
<1>1. \A r \in Slots \ {s} : UNCHANGED <<name[r], due[r], left[r]>>
  BY DEF Add, Unlink, Delete, TimerTypes
<1>2. queued \ {s} \subseteq queued' /\ off \ {s} \subseteq off'
  BY DEF Add, Unlink, Delete
<1>3. ASSUME Watched PROVE Watched'
  <2>1. PICK r, w \in queued :
          /\ name[r] = Reset /\ name[w] = WATCHDOG_TIMER
          /\ due[r] + Margin <= due[w] /\ left[r] + Margin <= alarm /\ left[r] <= WATCHDOG_RESET
    BY <1>3 DEF Watched
  <2>2. r \in Slots \ {s} /\ w \in Slots \ {s}
    BY <2>1 DEF TimerTypes
  <2>3. r \in queued' /\ w \in queued'
    BY <1>2, <2>2
  <2> QED BY <1>1, <2>1, <2>2, <2>3 DEF Watched
<1>4. ASSUME ResetOff PROVE ResetOff'
  <2>1. PICK r \in off : name[r] = Reset
    BY <1>4 DEF ResetOff
  <2>2. r \in Slots \ {s}
    BY <2>1 DEF TimerTypes
  <2> QED BY <1>1, <1>2, <2>1, <2>2 DEF ResetOff
<1> QED BY <1>3, <1>4

\* A slot found for another name is not the watchdog's, nor its reset's.
LEMMA FoundElse ==
  ASSUME TimerTypes, NEW n \in Names \ {WATCHDOG_TIMER, Reset}
  PROVE  Find(n) \in Slots /\ name[Find(n)] # WATCHDOG_TIMER /\ name[Find(n)] # Reset
<1>1. Blank # WATCHDOG_TIMER /\ Blank # Reset
  BY Clockwork DEF Names, Own
<1> QED BY <1>1, FindIs

\* The watchdog's own timer is set.
LEMMA ResetStaysOff ==
  ASSUME TimerTypes, ResetOff, NEW t, Add(WATCHDOG_TIMER, t)
  PROVE  ResetOff'
<1>1. PICK r \in off : name[r] = Reset
  BY DEF ResetOff
<1>2. r \in Slots /\ r # Find(WATCHDOG_TIMER)
  <2>1. name[Find(WATCHDOG_TIMER)] \in {WATCHDOG_TIMER, Blank} /\ r \in Slots
    BY OwnNames, FindIs DEF TimerTypes
  <2>2. Reset \notin {WATCHDOG_TIMER, Blank}
    BY OwnNames, Clockwork
  <2> QED BY <1>1, <2>1, <2>2
<1> QED BY <1>1, <1>2 DEF Add, ResetOff, TimerTypes

LEMMA WellDaemon ==
  ASSUME TimerTypes, SlotsKept, PairInv, StartInv, Well, Daemon
  PROVE  Well'
<1>n. WATCHDOG_TIMER \in Names /\ pid_timer \in Names \ {WATCHDOG_TIMER, Reset} /\ Reset \in Names
      /\ pid_timeout \in Nat /\ Reset # Blank /\ WATCHDOG_TIMER # Blank
  BY OwnNames, Clockwork
<1>r. ASSUME UNCHANGED <<tim, evt>>, Relief PROVE Well'
  BY <1>r DEF Well, Relief
<1>1. CASE Start
  <2>1. ~Watched
    BY <1>1 DEF Start, StartInv, Watched
  <2>2. UNCHANGED <<tim, evt>> /\ Add(WATCHDOG_TIMER, WATCHDOG_TIMEOUT)
    BY <1>1 DEF Start, fsm
  <2>3. ResetOff => ResetOff'
    BY <2>2, ResetStaysOff
  <2> QED BY <1>r, <2>1, <2>2, <2>3 DEF Well
<1>2. CASE FirstCheck \/ \E s \in Slots : PidsExpire(s)
  <2>1. UNCHANGED <<tim, evt, alarm>> /\ CheckPIDs
    BY <1>2 DEF FirstCheck, PidsExpire, fsm
  <2>2. CASE dead
    BY <1>r, <2>1, <2>2 DEF CheckPIDs, Well, Watched, ResetOff, queue
  <2>3. CASE ~dead
    <3>1. Add(pid_timer, pid_timeout)
      BY <2>1, <2>3 DEF CheckPIDs
    <3>2. (Watched => Watched') /\ (ResetOff => ResetOff')
      BY <1>n, <2>1, <3>1, FoundElse, WatchedElse
    <3> QED BY <1>r, <2>1, <3>2 DEF Well
  <2> QED BY <2>2, <2>3
<1>3. ASSUME NEW s \in Slots, WatchdogExpires(s) PROVE Well'
  <2>1. ~Watched
    <3>1. name[s] = WATCHDOG_TIMER /\ \A r \in queued : due[s] <= due[r]
      BY <1>3 DEF WatchdogExpires, Expired, First
    <3>2. SUFFICES ASSUME NEW r \in queued, NEW w \in queued, name[w] = WATCHDOG_TIMER,
                          due[r] + Margin <= due[w]
                   PROVE  FALSE
      BY DEF Watched
    <3>3. w = s
      BY <1>n, <3>1, <3>2 DEF TimerTypes, OneSlot
    <3>4. due[r] \in Int /\ due[w] \in Int /\ Margin \in Nat /\ Margin > 0 /\ due[w] <= due[r]
      BY <3>1, <3>3, OwnNames DEF TimerTypes
    <3> QED BY <3>2, <3>4
  <2>2. UNCHANGED <<tim, evt, name, off>>
    BY <1>3 DEF WatchdogExpires, Unlink, fsm
  <2> QED BY <1>r, <2>1, <2>2 DEF Well, ResetOff
<1>4. CASE Select \/ Wake \/ ReadAll
  BY <1>4, <1>r DEF Select, Wake, ReadAll, fsm, history, queue, Well, Watched, ResetOff
<1>5. ASSUME NEW s \in Slots, TimerExpires(s) PROVE Well'
  <2>1. /\ evt' = Append(evt, name[s]) /\ UNCHANGED <<tim, alarm, off, name>> /\ Unlink(s)
        /\ name[s] # WATCHDOG_TIMER /\ name[s] \in Events
    BY <1>5 DEF TimerExpires, Unlink, Events, TimerTypes
  <2>2. (Relief => Relief') /\ (name[s] = Reset => Relief')
    BY <2>1, ReliefSent
  <2>3. name[s] # Reset => (Watched => Watched') /\ (ResetOff => ResetOff')
    BY <2>1, <1>5, WatchedElse
  <2> QED BY <2>1, <2>2, <2>3 DEF Well
<1>6. CASE SetTimer
  <2> DEFINE n == Head(tim).name
  <2>1. n \in Names /\ Head(tim).ms \in Nat
    BY <1>6, LineTypes DEF SetTimer
  <2>2. /\ tim # <<>> /\ tim' = Tail(tim) /\ UNCHANGED <<evt, pending>> /\ Add(n, Head(tim).ms)
        /\ alarm' = IF n = WATCHDOG_TIMER THEN WATCHDOG_TIMEOUT ELSE alarm
    BY <1>6 DEF SetTimer, SetAlarm, Reading
  <2>3. 1 \in DOMAIN tim /\ tim[1] = Head(tim)
    BY <2>2, FirstRead
  <2>4. CASE n = WATCHDOG_TIMER
    <3>1. 1 + 1 \in DOMAIN tim /\ tim[1 + 1] = Set(Reset, WATCHDOG_RESET)
      BY <2>3, <2>4 DEF PairInv
    <3>2. Set(Reset, WATCHDOG_RESET).name = Reset
      BY DEF Set
    <3>3. tim[1 + 1] # Head(tim)
      BY <2>4, <3>1, <3>2, OwnNames
    <3>4. (1 + 1) - 1 \in DOMAIN tim' /\ tim'[(1 + 1) - 1] = tim[1 + 1]
      BY <2>2, <3>1, <3>3, ReadLine
    <3> QED BY <3>1, <3>2, <3>4 DEF Well, Relief
  <2>5. CASE n = Reset
    <3> DEFINE r == Find(Reset)
    <3>1. tim[1] = Set(Reset, WATCHDOG_RESET) /\ Fresh
      BY <2>3, <2>5 DEF PairInv
    <3>2. Head(tim).ms = WATCHDOG_RESET
      BY <2>3, <3>1 DEF Set
    <3>3. /\ r \in Slots /\ name[r] \in {Reset, Blank}
          /\ name' = [name EXCEPT ![r] = Reset] /\ queued' = queued \cup {r}
          /\ due' = [due EXCEPT ![r] = WATCHDOG_RESET] /\ left' = [left EXCEPT ![r] = WATCHDOG_RESET]
          /\ off' = IF pending THEN off \cup {r} ELSE off \ {r}
      BY <1>n, <2>2, <2>5, <3>2, FindIs DEF Add
    <3>4. name'[r] = Reset /\ due'[r] = WATCHDOG_RESET /\ left'[r] = WATCHDOG_RESET /\ r \in queued'
      BY <3>3 DEF TimerTypes
    <3> HIDE DEF r
    <3>5. CASE pending
      BY <3>3, <3>4, <3>5 DEF Well, ResetOff
    <3>6. CASE ~pending
      <4>1. PICK w \in queued : name[w] = WATCHDOG_TIMER /\ due[w] = WATCHDOG_TIMEOUT
        BY <3>1, <3>6 DEF Fresh
      <4>2. w \in Slots /\ w # r
        BY <1>n, <3>3, <4>1, OwnNames DEF TimerTypes
      <4>3. w \in queued' /\ name'[w] = WATCHDOG_TIMER /\ due'[w] = WATCHDOG_TIMEOUT
        BY <3>3, <4>1, <4>2 DEF TimerTypes
      <4>4. alarm' = WATCHDOG_TIMEOUT
        BY <2>2, <2>5, <3>1, <3>6, OwnNames DEF Fresh
      <4>5. WATCHDOG_RESET + Margin <= WATCHDOG_TIMEOUT /\ WATCHDOG_RESET <= WATCHDOG_RESET
        BY OwnNames DEF Margin
      <4>6. Watched'
        BY <3>4, <4>3, <4>4, <4>5 DEF Watched
      <4> QED BY <4>6 DEF Well
    <3> QED BY <3>5, <3>6
  <2>6. CASE n # WATCHDOG_TIMER /\ n # Reset
    <3>1. Relief => Relief'
      BY <2>2, <2>6, ReliefRead
    <3>2. (Watched => Watched') /\ (ResetOff => ResetOff')
      BY <2>1, <2>2, <2>6, FoundElse, WatchedElse
    <3> QED BY <3>1, <3>2 DEF Well
  <2> QED BY <2>4, <2>5, <2>6
<1>7. CASE DelTimer
  <2> DEFINE n == Head(tim).name
  <2>1. /\ tim # <<>> /\ tim' = Tail(tim) /\ UNCHANGED <<evt, alarm>>
        /\ n \in Names /\ Delete(Find(n)) /\ Head(tim).mode = "DEL"
    BY <1>7, LineTypes DEF DelTimer, Reading
  <2>2. n # WATCHDOG_TIMER /\ n # Reset
    <3>1. 1 \in DOMAIN tim /\ tim[1] = Head(tim)
      BY <2>1, FirstRead
    <3>2. \A m, t : Set(m, t).mode = "SET"
      BY DEF Set
    <3>3. \A m, t : Head(tim) # Set(m, t)
      BY <2>1, <3>2
    <3> QED BY <3>1, <3>3 DEF PairInv
  <2>3. Relief => Relief'
    BY <2>1, <2>2, ReliefRead
  <2>4. (Watched => Watched') /\ (ResetOff => ResetOff')
    BY <2>1, <2>2, FoundElse, WatchedElse
  <2> QED BY <2>3, <2>4 DEF Well
<1>8. CASE FixTime
  <2>1. /\ tim # <<>> /\ tim' = Tail(tim) /\ UNCHANGED <<evt, off, left, name>>
        /\ Head(tim) \in Commands /\ Head(tim).mode = "CHANGE"
    BY <1>8, HeadTailProperties DEF FixTime, Reading, TimerTypes, queue
  <2>2. Head(tim).name # Reset
    BY <2>1, OwnNames DEF Commands
  <2>3. Relief => Relief'
    BY <2>1, <2>2, ReliefRead
  <2>4. ASSUME Watched PROVE Watched'
    <3>1. CASE delta_t = 0
      BY <1>8, <2>1, <2>4, <3>1 DEF FixTime, queue, Watched
    <3>2. CASE delta_t # 0
      <4>1. /\ due' = [s \in Slots |-> IF s \in active THEN due[s] + delta_t ELSE due[s]]
            /\ alarm' = WATCHDOG_TIMEOUT /\ queued' = queued \cup active
        BY <1>8, <3>2 DEF FixTime, Shift
      <4>2. PICK r, w \in queued :
              /\ name[r] = Reset /\ name[w] = WATCHDOG_TIMER
              /\ due[r] + Margin <= due[w] /\ left[r] + Margin <= alarm /\ left[r] <= WATCHDOG_RESET
        BY <2>4 DEF Watched
      <4>3. due'[r] = due[r] + delta_t /\ due'[w] = due[w] + delta_t
        BY <4>1 DEF SlotsKept, TimerTypes
      <4>4. due[r] \in Int /\ due[w] \in Int /\ delta_t \in Int /\ left[r] \in Int
        BY DEF TimerTypes
      <4>5. due'[r] + Margin <= due'[w]
        BY <4>2, <4>3, <4>4, OwnNames
      <4>6. left[r] + Margin <= WATCHDOG_TIMEOUT
        BY <4>2, <4>4, OwnNames DEF Margin
      <4>7. r \in queued' /\ w \in queued'
        BY <4>1
      <4> QED BY <2>1, <4>1, <4>2, <4>5, <4>6, <4>7 DEF Watched
    <3> QED BY <3>1, <3>2
  <2> QED BY <2>1, <2>3, <2>4 DEF Well, ResetOff
<1> QED BY <1>1, <1>2, <1>3, <1>4, <1>5, <1>6, <1>7, <1>8 DEF Daemon

LEMMA HealthKept ==
  ASSUME TimerTypes, SlotsKept, PairInv, StartInv, HealthInv, [Next]_vars
  PROVE  HealthInv'
<1> SUFFICES ASSUME pc' # "reboot", ~stuck' PROVE Well'
  BY DEF HealthInv
<1>n. WATCHDOG_TIMER \in Names /\ Reset \in Names
  BY OwnNames
<1>1. CASE Daemon
  <2>1. pc # "reboot" /\ UNCHANGED stuck
    BY <1>1 DEF Daemon, Start, FirstCheck, WatchdogExpires, PidsExpire, Select, Wake,
       TimerExpires, Expired, SetTimer, DelTimer, FixTime, Reading, ReadAll, fsm
  <2> QED BY <1>1, <2>1, WellDaemon DEF HealthInv
<1>2. CASE ReadsEvent \/ SetsTimeout
  <2>1. UNCHANGED <<pc, stuck, queue, alarm, left, off>>
    BY <1>2 DEF ReadsEvent, SetsTimeout, Writes, history
  <2>2. Relief => Relief'
    BY <1>2, ReliefWritten
  <2> QED BY <2>1, <2>2 DEF HealthInv, Well, Watched, ResetOff, queue
<1>3. CASE SetClock
  <2>1. /\ UNCHANGED <<pc, stuck, tim, alarm, name, queued, left>> /\ evt' = Append(evt, ChangeTime)
        /\ off' = IF pending THEN Slots ELSE off
        /\ ChangeTime \in Events
    BY <1>3 DEF SetClock, Events
  <2>2. PICK d \in Jumps : due' = Later(d)
    BY <1>3 DEF SetClock
  <2>3. Relief => Relief'
    BY <2>1, ReliefSent
  <2>4. ASSUME Watched PROVE Watched'
    <3>0. d \in Int
      BY Clockwork
    <3>1. PICK r, w \in queued :
            /\ name[r] = Reset /\ name[w] = WATCHDOG_TIMER
            /\ due[r] + Margin <= due[w] /\ left[r] + Margin <= alarm /\ left[r] <= WATCHDOG_RESET
      BY <2>4 DEF Watched
    <3>2. due'[r] = due[r] - d /\ due'[w] = due[w] - d /\ due[r] \in Int /\ due[w] \in Int
      BY <2>2, <3>0, LaterIs DEF TimerTypes
    <3>3. due'[r] + Margin <= due'[w]
      BY <3>0, <3>1, <3>2, OwnNames
    <3> QED BY <2>1, <3>1, <3>3 DEF Watched
  <2>5. ResetOff => ResetOff'
    BY <2>1 DEF ResetOff, TimerTypes
  <2> QED BY <2>1, <2>3, <2>4, <2>5 DEF HealthInv, Well
<1>4. CASE ProcessDies \/ UNCHANGED vars
  BY <1>4 DEF ProcessDies, vars, fsm, queue, history, HealthInv, Well, Watched, ResetOff, Relief
<1>5. CASE GetsStuck \/ Alarm
  BY <1>5 DEF GetsStuck, Alarm, SigReboot
<1>6. CASE Tick
  <2>1. /\ UNCHANGED <<pc, stuck, tim, evt, name, queued, off>> /\ alarm' = alarm - 1
        /\ due' = Later(1)
        /\ left' = [s \in Slots |-> IF s \in queued THEN left[s] - 1 ELSE left[s]]
    BY <1>6 DEF Tick, fsm
  <2>2. ASSUME Watched PROVE Watched'
    <3>1. PICK r, w \in queued :
            /\ name[r] = Reset /\ name[w] = WATCHDOG_TIMER
            /\ due[r] + Margin <= due[w] /\ left[r] + Margin <= alarm /\ left[r] <= WATCHDOG_RESET
      BY <2>2 DEF Watched
    <3>2. /\ due'[r] = due[r] - 1 /\ due'[w] = due[w] - 1 /\ left'[r] = left[r] - 1
          /\ due[r] \in Int /\ due[w] \in Int /\ left[r] \in Int /\ alarm \in Int
      BY <2>1, LaterIs DEF TimerTypes
    <3>3. due'[r] + Margin <= due'[w] /\ left'[r] <= WATCHDOG_RESET /\ left'[r] + Margin <= alarm'
      BY <2>1, <3>1, <3>2, OwnNames
    <3> QED BY <2>1, <3>1, <3>3 DEF Watched
  <2> QED BY <2>1, <2>2 DEF HealthInv, Well, ResetOff, Relief
<1>7. CASE Restart
  <2>1. DOMAIN ResetWatchdog = 1 .. 2 /\ ResetWatchdog[2] = Set(Reset, WATCHDOG_RESET)
        /\ Set(Reset, WATCHDOG_RESET).name = Reset
    BY DEF ResetWatchdog, Set
  <2> QED BY <1>7, <2>1 DEF Restart, Well, Relief
<1> QED BY <1>1, <1>2, <1>3, <1>4, <1>5, <1>6, <1>7 DEF Next

\* The daemon calls for a restart when a process is gone; the alarm, when nothing is on
\* its way that would reset the watchdog.
LEMMA ReasonKept ==
  ASSUME TimerTypes, HeardInv, SelInv, HealthInv, NoFalseReboot, [Next]_vars
  PROVE  NoFalseReboot'
<1> SUFFICES ASSUME pc' = "reboot" PROVE stuck' \/ dead' \/ ResetOff'
  BY DEF NoFalseReboot, ResetOff
<1>1. CASE FirstCheck \/ \E s \in Slots : PidsExpire(s)
  BY <1>1 DEF FirstCheck, PidsExpire, CheckPIDs
<1>2. CASE Alarm
  <2>1. /\ pc = "wait" /\ tim = <<>> /\ (stuck \/ evt = <<>>) /\ sel # 0 /\ alarm = 0
        /\ UNCHANGED <<stuck, off, name>>
    BY <1>2 DEF Alarm, Quiet, fsm, history, queue
  <2>2. ASSUME ~stuck, ~ResetOff PROVE FALSE
    <3>1. DOMAIN tim = {} /\ DOMAIN evt = {}
      BY <2>1, <2>2
    <3>2. ~Relief /\ ~pending
      BY <3>1 DEF Relief, HeardInv, Unheard
    <3>3. Watched
      BY <2>1, <2>2, <3>2 DEF HealthInv, Well
    <3>4. PICK r \in queued : name[r] = Reset /\ left[r] + Margin <= 0
      BY <2>1, <3>3 DEF Watched
    <3>5. sel \in Nat /\ sel <= left[r]
      BY <2>1, <2>2, <3>2, <3>4 DEF SelInv, ResetOff
    <3>6. left[r] \in Int
      BY DEF TimerTypes
    <3> QED BY <3>4, <3>5, <3>6, OwnNames
  <2> QED BY <2>1, <2>2 DEF ResetOff
<1>3. CASE \/ Start \/ Select \/ Wake \/ SetTimer \/ DelTimer \/ FixTime \/ ReadAll
           \/ \E s \in Slots : WatchdogExpires(s) \/ TimerExpires(s)
  <2>1. pc' # "reboot"
    BY <1>3 DEF Start, WatchdogExpires, Select, Wake, TimerExpires, Expired, SetTimer, DelTimer, FixTime,
       Reading, ReadAll
  <2> QED BY <2>1
<1>4. CASE ReadsEvent \/ SetsTimeout \/ SetClock \/ GetsStuck \/ ProcessDies \/ Tick \/ Restart
  <2>1. pc' # "reboot"
    BY <1>4 DEF ReadsEvent, SetsTimeout, Writes, SetClock, GetsStuck, ProcessDies, Tick, Quiet, Restart
  <2> QED BY <2>1
<1>5. CASE UNCHANGED vars
  BY <1>5 DEF vars, fsm, queue, history, NoFalseReboot, ResetOff
<1> QED BY <1>1, <1>2, <1>3, <1>4, <1>5 DEF Next, Daemon

\* The kiosk is not restarted by the watchdog (sigReboot) while the state machine and the
\* processes are well, whatever the clock is set to, unless the watchdog's own reset was set
\* between a change of the clock and its correction, under the assumption of TimeSafe.
THEOREM WatchdogSafe ==
  ASSUME FlagsKept
  PROVE  SafeSpec => []NoFalseReboot
<1> DEFINE IInv == /\ TimerTypes /\ SlotsKept /\ KeptInv /\ PairInv /\ HealthInv
                   /\ SelInv /\ HeardInv /\ StartInv /\ NoFalseReboot
<1>1. Init => IInv
  <2> SUFFICES ASSUME Init PROVE IInv
    OBVIOUS
  <2>1. DOMAIN ResetWatchdog = 1 .. 2
        /\ ResetWatchdog[1] = Set(WATCHDOG_TIMER, WATCHDOG_TIMEOUT)
        /\ ResetWatchdog[2] = Set(Reset, WATCHDOG_RESET)
        /\ Set(WATCHDOG_TIMER, WATCHDOG_TIMEOUT).name = WATCHDOG_TIMER
        /\ Set(Reset, WATCHDOG_RESET).name = Reset
    BY DEF ResetWatchdog, Set
  <2>2. PairInv
    BY <2>1, OwnNames DEF Init, PairInv
  <2>3. Relief
    BY <2>1 DEF Init, Relief
  <2>4. KeptInv
    <3>1. ~Unheard
      BY NoChange DEF Init, Unheard
    <3> QED BY <3>1 DEF Init, KeptInv, InTime, StaleUnused
  <2> QED BY <2>2, <2>3, <2>4, TypesInit DEF Init, SlotsKept, HealthInv, Well, SelInv, HeardInv, StartInv,
          NoFalseReboot
<1>2. IInv /\ [Next]_vars => IInv'
  BY TypesKept, KnownKept, KeptKept, PairKept, HealthKept, SelKept, HeardKept, StartKept, ReasonKept
<1>3. IInv => NoFalseReboot
  OBVIOUS
<1> QED BY <1>1, <1>2, <1>3, PTL DEF SafeSpec
=============================================================================
