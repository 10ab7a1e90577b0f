------------------------ MODULE SmartIOBoard_proofs -------------------------
(***************************************************************************)
(* KeyIsThere, for any keys, cards and interrupts.  The key is erased      *)
(* after its line and before its flag is cleared, by a store of the whole  *)
(* register; so the proof needs to know when the flag stands for a key,    *)
(* and when a copy of the register on its way back does (KeyInv).          *)
(*                                                                         *)
(* TypeOK, for the same: a store of a whole register could put a flag      *)
(* where no one looks for it, and the discarding of the first tick could   *)
(* take a counter below 0.  The copy on its way back has only flags of     *)
(* the register it came from, and a tick that is flagged before the board  *)
(* is ready is one that both counters have (RegInv).                       *)
(***************************************************************************)
EXTENDS SmartIOBoard, TLAPS

\* The key's line was sent, and its flag is about to be cleared.
KeyDone == Flag = "KP" /\ step \in {"said", "loaded"}

\* A flag that is set, or will be when the register is stored, stands for a key.
KeyInv ==
  /\ DOMAIN reg = Registers /\ at \in 1 .. 18 /\ step \in Steps
  /\ (IsSet("KP") /\ ~KeyDone) => key \in Keys
  /\ (step = "loaded" /\ RegisterOf(Flag) = "DIO_STATUS" /\ Flag # "KP" /\ "KP" \in copy)
       => key \in Keys
  /\ KeyIsThere

(***************************************************************************)
(* Flags and registers.                                                    *)
(***************************************************************************)
LEMMA LoopFlags == Len(Loop) = 18 /\ \A i \in 1 .. 18 : Loop[i] \in Flags
  BY DEF Loop, Flags

\* Where the flags are.
LEMMA FlagRegisters == \A f \in Flags : RegisterOf(f) \in Registers
  BY DEF Registers

LEMMA KeyFlag == "KP" \in Flags /\ RegisterOf("KP") = "DIO_STATUS" /\ "DIO_STATUS" \in Registers
<1>1. Loop[2] = "KP" /\ 2 \in DOMAIN Loop
  BY DEF Loop
<1>2. RegisterOf("KP") = "DIO_STATUS"
  BY DEF RegisterOf, Counters, Queries, Outputs
<1> QED BY <1>1, <1>2 DEF Flags, Registers

\* A sensor's change is not the key's flag.
LEMMA SensorStates == \A s \in Sensors : StateOf(s) # "KP"
  BY DEF Sensors, StateOf

\* Setting another flag leaves the key's alone.
LEMMA SetOther ==
  ASSUME DOMAIN reg = Registers, NEW f, f # "KP", Set(f)
  PROVE  DOMAIN reg' = Registers /\ IsSet("KP")' = IsSet("KP")
BY KeyFlag DEF Set, IsSet

(***************************************************************************)
(* Interrupts.                                                             *)
(***************************************************************************)
\* A key goes with its flag; nothing else sets that.
LEMMA InterruptKeeps == KeyInv /\ Interrupt => KeyInv'
<1> SUFFICES ASSUME KeyInv, Interrupt PROVE KeyInv'
  OBVIOUS
<1>1. CASE KeyDown
  <2>1. key' \in Keys /\ UNCHANGED <<main, line>> /\ DOMAIN reg' = Registers
    BY <1>1 DEF KeyDown, Set, KeyInv
  <2> QED BY <2>1 DEF KeyInv, KeyIsThere, main
<1>2. CASE UNCHANGED <<main, line, key>> /\ DOMAIN reg' = Registers /\ IsSet("KP")' = IsSet("KP")
  BY <1>2 DEF KeyInv, KeyIsThere, KeyDone, Flag, main
<1>3. CASE Pulse \/ FlowTimer
  BY <1>2, <1>3, SetOther DEF Pulse, FlowTimer, IsSet, KeyInv
<1>4. ASSUME NEW s \in Sensors, Change(s) PROVE KeyInv'
  <2>1. s # "KP" /\ StateOf(s) # "KP"
    BY SensorStates DEF Sensors
  <2>2. \A bits : "KP" \in Flipped(s, bits) <=> "KP" \in bits
    BY <2>1 DEF Flipped
  <2>3. DOMAIN reg' = Registers /\ IsSet("KP")' = IsSet("KP")
    BY <1>4, <2>2, KeyFlag DEF Change, IsSet, KeyInv
  <2> QED BY <1>2, <1>4, <2>3 DEF Change
<1>5. ASSUME NEW c \in Counters, Number(c) \/ CounterEnd(c) PROVE KeyInv'
  <2>1. c # "KP"
    BY DEF Counters
  <2> QED BY <1>2, <1>5, <2>1, SetOther DEF Number, CounterEnd, IsSet, KeyInv
<1>6. ASSUME NEW o \in Outputs, Output(o) PROVE KeyInv'
  BY <1>2, <1>6 DEF Output, IsSet, KeyInv
<1>7. ASSUME NEW q \in Queries \cup {"VIN", "RESET"}, Query(q) PROVE KeyInv'
  <2>1. q # "KP"
    BY DEF Queries, Outputs
  <2> QED BY <1>2, <1>7, <2>1, SetOther DEF Query, KeyInv
<1>8. CASE CardReader
  BY <1>2, <1>8, SetOther DEF CardReader, Swipe, TrackStart, TrackEnd, IsSet, KeyInv, card
<1> QED BY <1>1, <1>3, <1>4, <1>5, <1>6, <1>7, <1>8 DEF Interrupt

(***************************************************************************)
(* The main loop.                                                          *)
(***************************************************************************)
\* The key is erased after it was said, and the flag does not come back.
LEMMA MainKeeps == KeyInv /\ Main => KeyInv'
<1> SUFFICES ASSUME KeyInv, Main PROVE KeyInv'
  OBVIOUS
<1>0. Turn(at) \in 1 .. 18
  BY LoopFlags DEF Turn, KeyInv
<1> USE DEF KeyInv, KeyDone, KeyIsThere, Flag, Steps
<1>1. CASE Boot
  BY <1>1, KeyFlag DEF Boot, IsSet, Says
<1>2. CASE Skip
  BY <1>0, <1>2 DEF Skip, IsSet
<1>3. CASE SayFlow
  BY <1>3 DEF SayFlow, Saying, Says, IsSet
<1>4. CASE SayKey
  BY <1>4 DEF SayKey, Saying, Says, IsSet, Due
<1>5. CASE SayState
  <2>1. Flag # "KP"
    BY <1>5 DEF SayState, Sensors, Queries, Outputs
  <2>2. line'.what = Flag
    BY <1>5 DEF SayState, Says
  <2> QED BY <1>5, <2>1, <2>2 DEF SayState, Saying, IsSet
<1>6. CASE SayCounter
  <2>1. Flag # "KP"
    BY <1>6 DEF SayCounter, Counters
  <2>2. line'.what = Flag
    BY <1>6 DEF SayCounter, Says
  <2> QED BY <1>6, <2>1, <2>2 DEF SayCounter, Saying, IsSet
<1>7. CASE SayTrack1
  BY <1>7 DEF SayTrack1, Says, IsSet
<1>8. CASE SayTrack2
  BY <1>8 DEF SayTrack2, Says, IsSet
<1>9. CASE Reset
  <2>1. ~IsSet("KP")' /\ DOMAIN reg' = Registers
    BY <1>9, KeyFlag DEF Reset, NoFlags, IsSet
  <2>2. line'.what # "KP"
    BY <1>9 DEF Reset, NoLine
  <2>3. at' = 1 /\ step' = "boot"
    BY <1>9 DEF Reset
  <2> QED BY <2>1, <2>2, <2>3
<1>10. CASE Load
  BY <1>10, KeyFlag DEF Load, IsSet
<1>11. CASE Store
  <2>1. DOMAIN reg' = Registers
    BY <1>11 DEF Store
  <2>2. IsSet("KP")' => key \in Keys
    <3>1. RegisterOf(Flag) \in Registers
      BY LoopFlags, FlagRegisters
    <3>2. CASE RegisterOf(Flag) = "DIO_STATUS"
      BY <1>11, <3>2, KeyFlag DEF Store, Cleared, IsSet
    <3>3. CASE RegisterOf(Flag) # "DIO_STATUS"
      BY <1>11, <3>1, <3>3, KeyFlag DEF Store, Cleared, IsSet
    <3> QED BY <3>2, <3>3
  <2> QED BY <1>0, <1>11, <2>1, <2>2 DEF Store
<1> QED BY <1>1, <1>2, <1>3, <1>4, <1>5, <1>6, <1>7, <1>8, <1>9, <1>10, <1>11 DEF Main

\* A step of nobody.
LEMMA StutterKeeps == KeyInv /\ UNCHANGED vars => KeyInv'
  BY DEF KeyInv, KeyDone, KeyIsThere, Flag, IsSet, vars, main

\* At power-on no flag is set.
LEMMA InitKeeps == Init => KeyInv
<1> SUFFICES ASSUME Init PROVE KeyInv
  OBVIOUS
<1>1. ~IsSet("KP") /\ DOMAIN reg = Registers
  BY KeyFlag DEF Init, NoFlags, IsSet
<1>2. line.what # "KP"
  BY DEF Init, NoLine
<1>3. at = 1 /\ step = "boot"
  BY DEF Init
<1> QED BY <1>1, <1>2, <1>3 DEF KeyInv, KeyIsThere, Steps

\* A KP line always has a key, though the key is erased before its flag is cleared and
\* keys, sensors and pulses come in between (main, doKP and the timer's interrupt).
THEOREM KeySafe == SafeSpec => []KeyIsThere
<1>1. KeyInv /\ [Next]_vars => KeyInv'
  BY InterruptKeeps, MainKeeps, StutterKeeps DEF Next
<1>2. KeyInv => KeyIsThere
  BY DEF KeyInv
<1> QED BY <1>1, <1>2, InitKeeps, PTL DEF SafeSpec

(***************************************************************************)
(* Types.                                                                  *)
(***************************************************************************)
\* Bounds are numbers.
LEMMA Numbers == MaxCount \in Nat /\ MaxInputs \in Nat /\ 0 \in 0 .. MaxCount /\ 0 \in 0 .. MaxInputs
<1>1. MaxCount \in Nat /\ MaxInputs \in Nat
  BY Board
<1> QED BY <1>1

\* TypeOK for the registers: flags are in theirs, and in a copy of one that is on its way
\* back; and the tick that will be discarded has been counted.
RegInv ==
  /\ reg \in [Registers -> SUBSET Bits]
  /\ \A f \in Flags, r \in Registers : f \in reg[r] => r = RegisterOf(f)
  /\ copy \subseteq Bits
  /\ step = "loaded" => \A f \in Flags \cap copy : RegisterOf(f) = RegisterOf(Flag)
  /\ at \in 1 .. 18 /\ step \in Steps
  /\ count \in [Counters -> 0 .. MaxCount]
  /\ (step = "boot" /\ IsSet("FLM")) => \A c \in Counters : count[c] > 0

\* TypeOK for the rest.
Readers == [card : Cards \cup {""}, todo : SUBSET {1, 2}, track : 0 .. 2, tracks : SUBSET {1, 2}]
HostTypes ==
  /\ key \in Keys \cup {""} /\ quiet \in BOOLEAN
  /\ number \in {NoNumber} \cup 0 .. MaxCount /\ command \in Counters \cup {""}
  /\ port \in [Outputs -> BOOLEAN] /\ msr \in [{1, 2} -> Cards \cup {""}]
  /\ reader \in Readers /\ inputs \in 0 .. MaxInputs

\* Where the flags and states are that the proof is about.
LEMMA Places ==
  /\ "FLM" \in Flags /\ RegisterOf("FLM") = "DIO_STATUS" /\ "ADC0" \in Registers
  /\ Flags \subseteq Bits /\ Sensors \subseteq Flags /\ \A s \in Sensors : StateOf(s) \in Bits \ Flags
  /\ Counters \subseteq Flags /\ "MSR" \in Flags
  /\ Queries \cup {"VIN", "RESET"} \subseteq Flags \ {"FLM"}
  /\ Sensors \subseteq Flags \ {"FLM"} /\ Counters \subseteq Flags \ {"FLM"}
<1> DEFINE All == {"FLM", "KP", "MTN", "DRSN", "VALRM", "PMP", "VIN", "FLM-CUR", "FLM-TOT", "MSR",
                   "AUX", "LCDBL", "RLY1", "LGHT", "STK", "MTN?", "DRSN?", "RESET"}
<1>1. \A i \in 1 .. 18 : Loop[i] \in All
  BY DEF Loop
<1>2. /\ Loop[1] = "FLM" /\ Loop[2] = "KP" /\ Loop[3] = "MTN" /\ Loop[4] = "DRSN" /\ Loop[5] = "VALRM"
      /\ Loop[6] = "PMP" /\ Loop[7] = "VIN" /\ Loop[8] = "FLM-CUR" /\ Loop[9] = "FLM-TOT"
      /\ Loop[10] = "MSR" /\ Loop[11] = "AUX" /\ Loop[12] = "LCDBL" /\ Loop[13] = "RLY1"
      /\ Loop[14] = "LGHT" /\ Loop[15] = "STK" /\ Loop[16] = "MTN?" /\ Loop[17] = "DRSN?"
      /\ Loop[18] = "RESET" /\ DOMAIN Loop = 1 .. 18
  BY DEF Loop
<1>3. Flags = All
  <2>1. Flags \subseteq All
    BY <1>1, <1>2 DEF Flags
  <2>2. \A i \in 1 .. 18 : Loop[i] \in Flags
    BY LoopFlags
  <2>3. All \subseteq Flags
    BY <1>2, <2>2
  <2> QED BY <2>1, <2>3
<1>4. RegisterOf("FLM") = "DIO_STATUS"
  BY DEF RegisterOf, Counters, Queries, Outputs
<1>5. "ADC0" \in Registers
  <2>1. RegisterOf("VIN") = "ADC0" /\ "VIN" \in Flags
    BY <1>3 DEF RegisterOf, Counters, Queries, Outputs
  <2> QED BY <2>1 DEF Registers
<1>6. \A s \in Sensors : StateOf(s) \notin All
  BY DEF Sensors, StateOf
<1>7. Flags \subseteq Bits /\ \A s \in Sensors : StateOf(s) \in Bits
  BY DEF Bits
<1>8. Sensors \subseteq All \ {"FLM"} /\ Counters \subseteq All \ {"FLM"}
      /\ Queries \cup {"VIN", "RESET"} \subseteq All \ {"FLM"}
  BY DEF Sensors, Counters, Queries, Outputs
<1> HIDE DEF All
<1>9. "FLM" \in All /\ "MSR" \in All
  BY DEF All
<1> QED BY <1>3, <1>4, <1>5, <1>6, <1>7, <1>8, <1>9

\* The registers at the start: no flag is set, and a low voltage is taken for granted.
LEMMA StartPlaces ==
  /\ NoFlags \in [Registers -> SUBSET Bits] /\ \A f \in Flags, r \in Registers : f \notin NoFlags[r]
  /\ [c \in Counters |-> 0] \in [Counters -> 0 .. MaxCount]
<1>1. StateOf("VALRM") \in Bits \ Flags
  BY Places DEF Sensors
<1>2. [c \in Counters |-> 0] \in [Counters -> 0 .. MaxCount]
  BY Numbers
<1> QED BY <1>1, <1>2 DEF NoFlags

\* Nor is there a tick of the flowmeter.
LEMMA NoTick == "FLM" \notin NoFlags[RegisterOf("FLM")]
BY StartPlaces, Places, FlagRegisters

\* Setting a flag in its register.
LEMMA SetPlaces ==
  ASSUME RegInv, NEW f \in Flags, Set(f), UNCHANGED main, count' \in [Counters -> 0 .. MaxCount],
         f = "FLM" => \A c \in Counters : count'[c] > 0,
         f # "FLM" => count' = count
  PROVE  RegInv'
<1>1. reg' = [reg EXCEPT ![RegisterOf(f)] = reg[RegisterOf(f)] \cup {f}]
  BY DEF Set
<1>2. RegisterOf(f) \in Registers /\ f \in Bits
  BY FlagRegisters, Places
<1>3. reg' \in [Registers -> SUBSET Bits]
  BY <1>1, <1>2 DEF RegInv
<1>4. ASSUME NEW g \in Flags, NEW r \in Registers, g \in reg'[r] PROVE r = RegisterOf(g)
  BY <1>1, <1>2, <1>4 DEF RegInv
<1>5. f # "FLM" => IsSet("FLM")' = IsSet("FLM")
  <2>1. "FLM" \in Flags
    BY Places
  <2>2. RegisterOf("FLM") \in Registers
    BY <2>1, FlagRegisters
  <2> QED BY <1>1, <1>2, <2>2 DEF IsSet, RegInv
<1> QED BY <1>3, <1>4, <1>5 DEF RegInv, main, Flag

\* Steps that leave registers and counters alone, or nearly.
LEMMA SamePlaces ==
  ASSUME RegInv, UNCHANGED <<reg, copy, count, at>>, step' \in Steps,
         step' = step \/ step' \notin {"boot", "loaded"}
  PROVE  RegInv'
BY DEF RegInv, IsSet, Flag

\* An interrupt sets flags in their registers.
LEMMA InterruptPlaces == RegInv /\ HostTypes /\ Interrupt => RegInv'
<1> SUFFICES ASSUME RegInv, HostTypes, Interrupt PROVE RegInv'
  OBVIOUS
<1> USE DEF main, flow, host, card
<1>0. step \in Steps /\ count \in [Counters -> 0 .. MaxCount]
  BY DEF RegInv
<1>1. CASE Pulse
  <2>1. count' \in [Counters -> 0 .. MaxCount] /\ \A c \in Counters : count'[c] > 0
    BY <1>0, <1>1, Numbers DEF Pulse
  <2> QED BY <1>1, <2>1, SetPlaces, Places DEF Pulse
<1>2. CASE FlowTimer
  BY <1>0, <1>2, SamePlaces DEF FlowTimer
<1>3. CASE KeyDown
  <2>1. "KP" \in Flags
    BY KeyFlag
  <2> QED BY <1>0, <1>3, <2>1, SetPlaces DEF KeyDown
<1>4. ASSUME NEW s \in Sensors, Change(s) PROVE RegInv'
  <2> DEFINE r0 == RegisterOf(s)
  <2>1. /\ r0 \in Registers /\ s \in Flags /\ s # "FLM" /\ s \in Bits /\ StateOf(s) \in Bits \ Flags
    BY FlagRegisters, Places
  <2>2. reg' = [reg EXCEPT ![r0] = Flipped(s, reg[r0])] /\ UNCHANGED <<main, count>>
    BY <1>4 DEF Change
  <2>3. /\ Flipped(s, reg[r0]) \in SUBSET Bits
        /\ \A f \in Flags : f \in Flipped(s, reg[r0]) <=> f \in reg[r0] \/ f = s
    BY <2>1 DEF Flipped, RegInv
  <2> DEFINE new == Flipped(s, reg[r0])
  <2> HIDE DEF new
  <2>4. reg' = [reg EXCEPT ![r0] = new] /\ new \in SUBSET Bits
        /\ \A f \in Flags : f \in new <=> f \in reg[r0] \/ f = s
    BY <2>2, <2>3 DEF new
  <2>5. reg' \in [Registers -> SUBSET Bits]
    BY <2>1, <2>4 DEF RegInv
  <2>6. ASSUME NEW f \in Flags, NEW r \in Registers, f \in reg'[r] PROVE r = RegisterOf(f)
    BY <2>1, <2>4, <2>6 DEF RegInv
  <2>7. IsSet("FLM")' = IsSet("FLM")
    <3>1. "FLM" \in Flags /\ RegisterOf("FLM") \in Registers
      BY Places, FlagRegisters
    <3> QED BY <2>1, <2>4, <3>1 DEF IsSet, RegInv
  <2> QED BY <2>2, <2>5, <2>6, <2>7 DEF RegInv, Flag
<1>5. ASSUME NEW c \in Counters, Number(c) \/ CounterEnd(c) PROVE RegInv'
  <2>1. c \in Flags /\ c # "FLM"
    BY Places
  <2>2. CASE Number(c)
    BY <1>0, <2>2, SamePlaces DEF Number
  <2>3. CASE CounterEnd(c)
    BY <1>0, <2>1, <2>3, SetPlaces DEF CounterEnd
  <2> QED BY <1>5, <2>2, <2>3
<1>6. ASSUME NEW o \in Outputs, Output(o) PROVE RegInv'
  BY <1>0, <1>6, SamePlaces DEF Output
<1>7. ASSUME NEW q \in Queries \cup {"VIN", "RESET"}, Query(q) PROVE RegInv'
  <2>1. q \in Flags /\ q # "FLM"
    BY Places
  <2> QED BY <1>0, <1>7, <2>1, SetPlaces DEF Query
<1>8. CASE CardReader
  <2>1. CASE UNCHANGED <<reg, main, count>>
    BY <1>0, <2>1, SamePlaces
  <2>2. CASE Set("MSR") /\ UNCHANGED <<main, count>>
    <3>1. "MSR" \in Flags
      BY Places
    <3> QED BY <1>0, <2>2, <3>1, SetPlaces
  <2> QED BY <1>8, <2>1, <2>2 DEF CardReader, Swipe, TrackStart, TrackEnd
<1> QED BY <1>1, <1>2, <1>3, <1>4, <1>5, <1>6, <1>7, <1>8 DEF Interrupt

\* The main loop stores what it loaded, less a flag.
LEMMA MainPlaces == RegInv /\ HostTypes /\ Main => RegInv'
<1> SUFFICES ASSUME RegInv, HostTypes, Main PROVE RegInv'
  OBVIOUS
<1> USE DEF main, flow, host, card
<1>0. Turn(at) \in 1 .. 18 /\ RegisterOf(Flag) \in Registers /\ Flag \in Flags
  BY LoopFlags, FlagRegisters DEF Turn, RegInv, Flag
<1>1. CASE Boot
  <2>1. UNCHANGED <<at, copy>> /\ step' = "look"
    BY <1>1 DEF Boot
  <2>2. CASE Ticked
    <3>1. reg' = [reg EXCEPT !["DIO_STATUS"] = reg["DIO_STATUS"] \ {"FLM"}]
          /\ count' = [c \in Counters |-> count[c] - 1]
      BY <1>1, <2>2 DEF Boot
    <3>2. \A c \in Counters : count[c] > 0 /\ count[c] \in 0 .. MaxCount
      BY <1>1, <2>2 DEF Boot, Ticked, RegInv
    <3>3. count' \in [Counters -> 0 .. MaxCount]
      BY <3>1, <3>2, Numbers
    <3>4. reg' \in [Registers -> SUBSET Bits] /\ \A r \in Registers : reg'[r] \subseteq reg[r]
      BY <3>1 DEF RegInv
    <3> QED BY <2>1, <3>3, <3>4 DEF RegInv, Steps
  <2>3. CASE ~Ticked
    <3>1. UNCHANGED <<reg, count>>
      BY <1>1, <2>3 DEF Boot
    <3> QED BY <2>1, <3>1, SamePlaces DEF Steps
  <2> QED BY <2>2, <2>3
<1>2. CASE Skip
  BY <1>0, <1>2 DEF Skip, RegInv, IsSet
<1>3. CASE SayFlow \/ SayKey \/ SayState
  <2>1. UNCHANGED <<reg, copy, at, count>> /\ step' = "said"
    BY <1>3 DEF SayFlow, SayKey, SayState, Saying
  <2> QED BY <2>1, SamePlaces DEF Steps
<1>4. CASE SayCounter
  <2>1. UNCHANGED <<reg, copy, at>> /\ step' = "said"
    BY <1>4 DEF SayCounter, Saying
  <2>2. count' \in [Counters -> 0 .. MaxCount]
    BY <1>4 DEF SayCounter, RegInv, HostTypes
  <2> QED BY <2>1, <2>2 DEF RegInv, Steps
<1>5. CASE SayTrack1 \/ SayTrack2
  <2>1. UNCHANGED <<reg, copy, at, count>> /\ step' \in {"half", "said"}
    BY <1>5 DEF SayTrack1, SayTrack2
  <2> QED BY <2>1, SamePlaces DEF Steps
<1>6. CASE Reset
  <2>1. reg' = NoFlags /\ copy' = {} /\ at' = 1 /\ step' = "boot" /\ count' = [c \in Counters |-> 0]
    BY <1>6 DEF Reset
  <2> QED BY <2>1, StartPlaces, NoTick DEF RegInv, IsSet, Steps
<1>7. CASE Load
  <2>1. UNCHANGED <<reg, at, count>> /\ step' = "loaded" /\ copy' = reg[RegisterOf(Flag)]
    BY <1>7 DEF Load
  <2>2. copy' \subseteq Bits /\ \A f \in Flags \cap copy' : RegisterOf(f) = RegisterOf(Flag)
    BY <1>0, <2>1 DEF RegInv
  <2> QED BY <2>1, <2>2 DEF RegInv, Steps, Flag
<1>8. CASE Store
  <2>1. reg' = [reg EXCEPT ![RegisterOf(Flag)] = copy \ {Flag}] /\ step = "loaded"
        /\ at' = Turn(at) /\ step' = "look" /\ copy' = {} /\ count' = count
    BY <1>8 DEF Store, Cleared
  <2>2. reg' \in [Registers -> SUBSET Bits]
    BY <1>0, <2>1 DEF RegInv
  <2>3. ASSUME NEW f \in Flags, NEW r \in Registers, f \in reg'[r] PROVE r = RegisterOf(f)
    <3>1. CASE r = RegisterOf(Flag)
      BY <1>0, <2>1, <2>3, <3>1 DEF RegInv
    <3>2. CASE r # RegisterOf(Flag)
      BY <1>0, <2>1, <2>3, <3>2 DEF RegInv
    <3> QED BY <3>1, <3>2
  <2> QED BY <1>0, <2>1, <2>2, <2>3 DEF RegInv, Steps
<1> QED BY <1>1, <1>2, <1>3, <1>4, <1>5, <1>6, <1>7, <1>8 DEF Main

\* Tracks.
LEMMA Tracks == 1 \in 0 .. 2 /\ 2 \in 0 .. 2 /\ 0 \in 0 .. 2 /\ \A t \in 0 .. 2 : t # 0 => t = 1 \/ t = 2
OBVIOUS

\* A swipe, put together from its parts and taken apart.
LEMMA MadeReader ==
  ASSUME NEW c \in Cards \cup {""}, NEW d \in SUBSET {1, 2}, NEW t \in 0 .. 2, NEW s \in SUBSET {1, 2}
  PROVE  [card |-> c, todo |-> d, track |-> t, tracks |-> s] \in Readers
BY DEF Readers

\* The card reader, field by field.
LEMMA ReaderParts ==
  ASSUME reader \in Readers
  PROVE  /\ reader.card \in Cards \cup {""} /\ reader.todo \in SUBSET {1, 2}
         /\ reader.track \in 0 .. 2 /\ reader.tracks \in SUBSET {1, 2}
         /\ reader = [card |-> reader.card, todo |-> reader.todo, track |-> reader.track,
                      tracks |-> reader.tracks]
BY DEF Readers

\* A swipe is counted, and so is a command.
LEMMA InputType == inputs \in 0 .. MaxInputs /\ Input => inputs' \in 0 .. MaxInputs
BY Numbers DEF Input

\* The rest keeps its types.
LEMMA NextHost == RegInv /\ HostTypes /\ [Next]_vars => HostTypes'
<1> SUFFICES ASSUME RegInv, HostTypes, [Next]_vars PROVE HostTypes'
  OBVIOUS
<1> USE DEF main, flow, host, card
<1>9. /\ reader.card \in Cards \cup {""} /\ reader.todo \in SUBSET {1, 2}
      /\ reader.track \in 0 .. 2 /\ reader.tracks \in SUBSET {1, 2}
      /\ reader = [card |-> reader.card, todo |-> reader.todo, track |-> reader.track,
                   tracks |-> reader.tracks]
  <2>1. reader \in Readers
    BY DEF HostTypes
  <2> QED BY <2>1, ReaderParts
<1>1. CASE UNCHANGED vars \/ Pulse \/ FlowTimer \/ KeyDown \/ Boot \/ Skip \/ Load \/ Store
           \/ \E s \in Sensors : Change(s)
  BY <1>1 DEF HostTypes, vars, Pulse, FlowTimer, KeyDown, Boot, Skip, Load, Store, Change
<1>2. ASSUME NEW c \in Counters, Number(c) \/ CounterEnd(c) PROVE HostTypes'
  <2>1. inputs' \in 0 .. MaxInputs
    BY <1>2, InputType DEF Number, CounterEnd, HostTypes
  <2>2. number' \in {NoNumber} \cup 0 .. MaxCount
    BY <1>2 DEF Number, CounterEnd, HostTypes
  <2>3. command' \in Counters \cup {""} /\ UNCHANGED <<key, quiet, port, msr, reader>>
    BY <1>2 DEF Number, CounterEnd
  <2> QED BY <2>1, <2>2, <2>3 DEF HostTypes
<1>3. ASSUME NEW o \in Outputs, Output(o) PROVE HostTypes'
  <2>1. inputs' \in 0 .. MaxInputs
    BY <1>3, InputType DEF Output, HostTypes
  <2>2. port' \in [Outputs -> BOOLEAN] /\ UNCHANGED <<key, quiet, number, command, msr, reader>>
    BY <1>3 DEF Output, HostTypes
  <2> QED BY <2>1, <2>2 DEF HostTypes
<1>4. ASSUME NEW q, Query(q) PROVE HostTypes'
  <2>1. inputs' \in 0 .. MaxInputs
    BY <1>4, InputType DEF Query, HostTypes
  <2>2. UNCHANGED <<key, quiet, number, command, port, msr, reader>>
    BY <1>4 DEF Query
  <2> QED BY <2>1, <2>2 DEF HostTypes
<1>5. CASE CardReader
  <2>1. ASSUME NEW c \in Cards, Swipe(c) PROVE HostTypes'
    <3>1. inputs' \in 0 .. MaxInputs
      BY <2>1, InputType DEF Swipe, HostTypes
    <3>2. reader' \in Readers
      <4>1. PICK d \in SUBSET {1, 2} \ {{}} : reader' = [reader EXCEPT !.card = c, !.todo = d]
        BY <2>1 DEF Swipe
      <4>2. reader' = [card |-> c, todo |-> d, track |-> reader.track, tracks |-> reader.tracks]
        BY <1>9, <4>1
      <4> QED BY <1>9, <4>2, MadeReader
    <3>3. UNCHANGED <<key, quiet, number, command, port, msr>>
      BY <2>1 DEF Swipe
    <3> QED BY <3>1, <3>2, <3>3 DEF HostTypes
  <2>2. ASSUME NEW t \in {1, 2}, TrackStart(t) PROVE HostTypes'
    <3>1. reader.todo \ {t} \in SUBSET {1, 2} /\ t \in 0 .. 2
      BY <1>9, Tracks
    <3>2. reader' \in Readers
      <4>1. reader' = [reader EXCEPT !.todo = reader.todo \ {t}, !.track = t]
        BY <2>2 DEF TrackStart
      <4>2. reader' = [card |-> reader.card, todo |-> reader.todo \ {t}, track |-> t,
                       tracks |-> reader.tracks]
        BY <1>9, <4>1
      <4> QED BY <1>9, <3>1, <4>2, MadeReader
    <3>3. msr' \in [{1, 2} -> Cards \cup {""}]
      BY <1>9, <2>2 DEF TrackStart, HostTypes
    <3>4. UNCHANGED <<key, quiet, number, command, port, inputs>>
      BY <2>2 DEF TrackStart
    <3> QED BY <3>2, <3>3, <3>4 DEF HostTypes
  <2>3. CASE TrackEnd
    <3> DEFINE kept == IF reader.tracks \cup {reader.track} = {1, 2} THEN {}
                       ELSE reader.tracks \cup {reader.track}
    <3>1. reader.track = 1 \/ reader.track = 2
      <4>1. reader.track # 0
        BY <2>3 DEF TrackEnd
      <4> QED BY <1>9, <4>1, Tracks
    <3>2. reader' \in Readers
      <4>1. kept \in SUBSET {1, 2} /\ 0 \in 0 .. 2
        BY <1>9, <3>1, Tracks
      <4>2. reader' = [reader EXCEPT !.track = 0, !.tracks = kept]
        BY <2>3 DEF TrackEnd
      <4> HIDE DEF kept
      <4>3. reader' = [card |-> reader.card, todo |-> reader.todo, track |-> 0, tracks |-> kept]
        BY <1>9, <4>2
      <4> QED BY <1>9, <4>1, <4>3, MadeReader
    <3>3. UNCHANGED <<key, quiet, number, command, port, msr, inputs>>
      BY <2>3 DEF TrackEnd
    <3> QED BY <3>2, <3>3 DEF HostTypes
  <2> QED BY <1>5, <2>1, <2>2, <2>3 DEF CardReader
<1>6. CASE SayFlow \/ SayKey \/ SayState \/ SayCounter
  BY <1>6 DEF HostTypes, SayFlow, SayKey, SayState, SayCounter, Saying
<1>7. CASE SayTrack1 \/ SayTrack2
  BY <1>7 DEF HostTypes, SayTrack1, SayTrack2
<1>8. CASE Reset
  <2>1. reader' \in Readers
    <3>1. reader' = [NoSwipe EXCEPT !.card = reader.card, !.todo = reader.todo]
      BY <1>8 DEF Reset
    <3>2. reader' = [card |-> reader.card, todo |-> reader.todo, track |-> 0, tracks |-> {}]
      BY <3>1 DEF NoSwipe
    <3>3. {} \in SUBSET {1, 2} /\ 0 \in 0 .. 2
      OBVIOUS
    <3> QED BY <1>9, <3>2, <3>3, MadeReader
  <2>2. inputs' \in 0 .. MaxInputs
    BY <1>8, Numbers DEF Reset
  <2>3. /\ key' = "" /\ quiet' = TRUE /\ number' = NoNumber /\ command' = ""
        /\ port' = [o \in Outputs |-> FALSE] /\ msr' = [t \in {1, 2} |-> ""]
    BY <1>8 DEF Reset
  <2> QED BY <2>1, <2>2, <2>3 DEF HostTypes
<1> QED BY <1>1, <1>2, <1>3, <1>4, <1>5, <1>6, <1>7, <1>8 DEF Next, Interrupt, Main

\* The main loop's stores of whole registers put no flag where it does not belong, and the
\* tick that the board discards when it starts has been counted, so that no counter goes
\* below nothing (main, initVars).
THEOREM BoardTypeCorrect == SafeSpec => []TypeOK
<1>1. Init => RegInv /\ HostTypes
  <2> SUFFICES ASSUME Init PROVE RegInv /\ HostTypes
    OBVIOUS
  <2>1. reg = NoFlags /\ copy = {} /\ at = 1 /\ step = "boot" /\ count = [c \in Counters |-> 0]
    BY DEF Init
  <2>2. RegInv
    BY <2>1, StartPlaces, NoTick DEF RegInv, IsSet, Steps
  <2>3. HostTypes
    <3>1. reader \in Readers
      <4>1. "" \in Cards \cup {""} /\ {} \in SUBSET {1, 2} /\ 0 \in 0 .. 2
        OBVIOUS
      <4>2. reader = [card |-> "", todo |-> {}, track |-> 0, tracks |-> {}]
        BY DEF Init, NoSwipe
      <4> QED BY <4>1, <4>2, MadeReader
    <3>2. inputs \in 0 .. MaxInputs
      BY Numbers DEF Init
    <3>3. /\ key = "" /\ quiet = TRUE /\ number = NoNumber /\ command = ""
          /\ port = [o \in Outputs |-> FALSE] /\ msr = [t \in {1, 2} |-> ""]
      BY DEF Init
    <3> QED BY <3>1, <3>2, <3>3 DEF HostTypes
  <2> QED BY <2>2, <2>3
<1>2. RegInv /\ HostTypes /\ [Next]_vars => (RegInv /\ HostTypes)'
  <2>1. RegInv /\ UNCHANGED vars => RegInv'
    BY DEF RegInv, vars, main, flow, IsSet, Flag
  <2> QED BY <2>1, InterruptPlaces, MainPlaces, NextHost DEF Next
<1>3. RegInv /\ HostTypes => TypeOK
  <2>1. DOMAIN Loop = 1 .. 18
    BY DEF Loop
  <2> QED BY <2>1 DEF RegInv, HostTypes, Readers, TypeOK
<1> QED BY <1>1, <1>2, <1>3, PTL DEF SafeSpec
=============================================================================
