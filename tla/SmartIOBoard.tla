---------------------------- MODULE SmartIOBoard ----------------------------
(***************************************************************************)
(* The firmware of the SmartIO board: a main loop that sends a line for    *)
(* every flag that is set, and interrupts that set flags: a timer (pulses  *)
(* of the flowmeter, keys, sensors), the kiosk's commands, the card        *)
(* reader.  The main loop clears a flag after its line was sent, by a load *)
(* and a store of the whole register; interrupts come in between, and what *)
(* they set there is gone.                                                 *)
(*                                                                         *)
(* Abstractions.  A change of an input is one that outlasted its debounce  *)
(* count, a level of the ADC one beyond a threshold.  A line is what it    *)
(* says; bytes, baud rates and the transmit buffer, which the main loop    *)
(* waits for, are left out.  Thresholds, calibration and times are not     *)
(* set, the display is not shown.  A count is read in one piece.           *)
(***************************************************************************)
EXTENDS Integers, Sequences, FiniteSets

CONSTANTS
  Keys,      \* of the keypad
  Cards,     \* that are swiped
  Happens,   \* what interrupts the main loop
  MaxCount,  \* bound: pulses, and values of FLM-CUR and FLM-TOT
  MaxInputs  \* bound: commands and swipes since the board was started

ASSUME Board ==
  /\ "" \notin Keys \cup Cards /\ MaxCount \in Nat /\ MaxInputs \in Nat

Sensors == {"MTN", "DRSN", "VALRM", "PMP"}
Outputs == {"AUX", "LCDBL", "RLY1", "LGHT", "STK"}
Counters == {"FLM-CUR", "FLM-TOT"}
Queries == Outputs \cup {"MTN?", "DRSN?"}

\* What the main loop looks at, in this order; VIN and PMP are alike.
Loop == <<"FLM", "KP", "MTN", "DRSN", "VALRM", "PMP", "VIN", "FLM-CUR", "FLM-TOT", "MSR",
          "AUX", "LCDBL", "RLY1", "LGHT", "STK", "MTN?", "DRSN?", "RESET">>
Flags == {Loop[i] : i \in DOMAIN Loop}

\* Where a flag is; the state of a sensor is a bit in the same register.
RegisterOf(f) ==
  CASE f \in {"FLM", "KP", "MTN", "DRSN"} -> "DIO_STATUS"
    [] f \in {"VALRM", "VIN"} -> "ADC0"
    [] f = "PMP" -> "ADC1"
    [] f \in Counters \cup {"MSR", "RESET"} -> "API_STATUS"
    [] f \in Queries -> "API_STATUS2"
Registers == {RegisterOf(f) : f \in Flags}

StateOf(s) ==
  CASE s = "MTN" -> "MTN_PRESENT" [] s = "DRSN" -> "DRSN_OPEN" [] s = "VALRM" -> "ALRM" [] s = "PMP" -> "ALRM1"
Bits == Flags \cup {StateOf(s) : s \in Sensors}

VARIABLES
  reg,     \* the bits that are set, by register
  at, step, copy,  \* the main loop: the flag it looks at, how far, the register it loaded
  line,    \* the last line it sent
  key,     \* KP_KEY
  count,   \* FLM_CURRENT and FLM_CUMULATIVE
  quiet,   \* FLM_EVT_TIMER is 0
  number,  \* the command's number, as int32 has it
  command, \* the counter whose number came in
  port,    \* the outputs
  msr,     \* MSR1 and MSR2: whose they are
  reader,  \* the swipe: whose, tracks to come, the one coming, tracks MSR_read has
  inputs

main == <<at, step, copy>>
flow == <<count, quiet>>
host == <<number, command, port, inputs>>
card == <<msr, reader>>
vars == <<reg, main, line, key, flow, host, card>>

NoLine == [what |-> "", says |-> ""]
NoNumber == -1

NoFlags == [r \in Registers |-> IF r = "ADC0" THEN {StateOf("VALRM")} ELSE {}]
NoSwipe == [card |-> "", todo |-> {}, track |-> 0, tracks |-> {}]

\* initVars, initADC, initDIO: a low voltage is taken for granted.
Init ==
  /\ reg = NoFlags /\ at = 1 /\ step = "boot" /\ copy = {} /\ line = NoLine
  /\ key = "" /\ count = [c \in Counters |-> 0] /\ quiet = TRUE
  /\ number = NoNumber /\ command = "" /\ port = [o \in Outputs |-> FALSE]
  /\ msr = [t \in {1, 2} |-> ""] /\ reader = NoSwipe /\ inputs = 0

IsSet(f) == f \in reg[RegisterOf(f)]
Set(f) == reg' = [reg EXCEPT ![RegisterOf(f)] = @ \cup {f}]

Input == inputs < MaxInputs /\ inputs' = inputs + 1

(***************************************************************************)
(* Interrupts.                                                             *)
(***************************************************************************)
\* An edge of the flowmeter that is steady.
Pulse ==
  /\ \A c \in Counters : count[c] < MaxCount
  /\ Set("FLM") /\ count' = [c \in Counters |-> count[c] + 1]
  /\ UNCHANGED <<main, line, key, quiet, host, card>>

FlowTimer == ~quiet /\ quiet' = TRUE
             /\ UNCHANGED <<reg, main, line, key, count, host, card>>

\* A key is not looked at while the last one is not sent.
KeyDown ==
  /\ ~IsSet("KP")
  /\ \E k \in Keys : key' = k
  /\ Set("KP")
  /\ UNCHANGED <<main, line, flow, host, card>>

\* What was too low or too high is beyond the other threshold: the state and its flag.
Flipped(s, bits) ==
  {s} \cup IF StateOf(s) \in bits THEN bits \ {StateOf(s)} ELSE bits \cup {StateOf(s)}

\* A sensor changes.
Change(s) ==
  /\ reg' = [reg EXCEPT ![RegisterOf(s)] = Flipped(s, @)]
  /\ UNCHANGED <<main, line, key, flow, host, card>>

\* A tab and a number, which is stored if the last one was taken.
Number(c) ==
  /\ command = "" /\ Input
  /\ \E n \in 0 .. MaxCount : number' = IF number = NoNumber THEN n ELSE number
  /\ command' = c
  /\ UNCHANGED <<reg, main, line, key, flow, port, card>>

\* The end of a line with a counter's name: after the number, or without one.
CounterEnd(c) ==
  /\ \/ command = c /\ UNCHANGED inputs
     \/ command = "" /\ Input
  /\ Set(c) /\ command' = ""
  /\ UNCHANGED <<main, line, key, flow, number, port, card>>

Output(o) ==
  /\ command = "" /\ Input
  /\ \E b \in BOOLEAN : port' = [port EXCEPT ![o] = b]
  /\ UNCHANGED <<reg, main, line, key, flow, number, command, card>>

Query(q) ==
  /\ command = "" /\ Input
  /\ Set(q)
  /\ UNCHANGED <<main, line, key, flow, number, command, port, card>>

\* The reader reads what it can of a card, in any order.
Swipe(c) ==
  /\ reader.track = 0 /\ reader.todo = {} /\ Input
  /\ \E t \in SUBSET {1, 2} \ {{}} :
       reader' = [reader EXCEPT !.card = c, !.todo = t]
  /\ UNCHANGED <<reg, main, line, key, flow, number, command, port, msr>>

\* A track's first characters: they are stored if the last was sent.
TrackStart(t) ==
  /\ reader.track = 0 /\ t \in reader.todo
  /\ reader' = [reader EXCEPT !.todo = @ \ {t}, !.track = t]
  /\ msr' = [msr EXCEPT ![t] = IF @ = "" THEN reader.card ELSE @]
  /\ UNCHANGED <<reg, main, line, key, flow, host>>

\* Its end, and the line's when both tracks are there, whenever they came.
TrackEnd ==
  LET tracks == reader.tracks \cup {reader.track} IN
  /\ reader.track # 0
  /\ reader' = [reader EXCEPT !.track = 0, !.tracks = IF tracks = {1, 2} THEN {} ELSE tracks]
  /\ IF tracks = {1, 2} THEN Set("MSR") ELSE UNCHANGED reg
  /\ UNCHANGED <<main, line, key, flow, host, msr>>

CardReader == TrackEnd \/ (\E c \in Cards : Swipe(c)) \/ \E t \in {1, 2} : TrackStart(t)

Interrupt ==
  \/ "flow" \in Happens /\ (Pulse \/ FlowTimer)
  \/ "keys" \in Happens /\ KeyDown
  \/ \E s \in Sensors \cap Happens : Change(s)
  \/ \E c \in Counters \cap Happens : Number(c) \/ CounterEnd(c)
  \/ \E o \in Outputs \cap Happens : Output(o)
  \/ \E q \in (Queries \cup {"VIN", "RESET"}) \cap Happens : Query(q)
  \/ "swipe" \in Happens /\ CardReader

(***************************************************************************)
(* The main loop.                                                          *)
(***************************************************************************)
Flag == Loop[at]

\* Mutant: the last one is never looked at.
TurnEarly(i) == IF i = Len(Loop) - 1 THEN 1 ELSE i + 1

Turn(i) == IF i = Len(Loop) THEN 1 ELSE i + 1

Says(what, says) == line' = [what |-> what, says |-> says]

\* Mutant: the tick is taken for granted.
TickedAlways == TRUE

Ticked == IsSet("FLM")

\* One tick of the flowmeter, which its wiring gives, is discarded.
Boot ==
  /\ step = "boot" /\ step' = "look"
  /\ IF Ticked
     THEN /\ reg' = [reg EXCEPT !["DIO_STATUS"] = @ \ {"FLM"}]
          /\ count' = [c \in Counters |-> count[c] - 1]
     ELSE UNCHANGED <<reg, count>>
  /\ Says("Ready", "")
  /\ UNCHANGED <<at, copy, key, quiet, host, card>>

Due == IsSet(Flag) /\ (Flag = "FLM" => quiet)

Skip ==
  /\ step = "look" /\ ~Due
  /\ at' = Turn(at)
  /\ UNCHANGED <<step, copy, reg, line, key, flow, host, card>>

Saying == step = "look" /\ Due /\ step' = "said" /\ UNCHANGED <<at, copy, reg, command, port, reader, inputs>>

SayFlow ==
  /\ Saying /\ Flag = "FLM"
  /\ Says("FLM", count["FLM-CUR"]) /\ quiet' = FALSE
  /\ UNCHANGED <<key, count, number, msr>>

SayKey ==
  /\ Saying /\ Flag = "KP"
  /\ Says("KP", key) /\ key' = ""
  /\ UNCHANGED <<flow, number, msr>>

\* What a sensor or an output is at this moment, or the voltage.
SayState ==
  /\ Saying /\ Flag \in Sensors \cup Queries \cup {"VIN"}
  /\ Says(Flag, CASE Flag \in Sensors -> StateOf(Flag) \in reg[RegisterOf(Flag)]
                  [] Flag = "MTN?" -> StateOf("MTN") \in reg["DIO_STATUS"]
                  [] Flag = "DRSN?" -> StateOf("DRSN") \in reg["DIO_STATUS"]
                  [] Flag \in Outputs -> port[Flag]
                  [] Flag = "VIN" -> "volts")
  /\ UNCHANGED <<key, flow, number, msr>>

\* do_GetSet_U32: any number that is there is the counter's.
SayCounter ==
  /\ Saying /\ Flag \in Counters
  /\ count' = [count EXCEPT ![Flag] = IF number = NoNumber THEN @ ELSE number]
  /\ number' = NoNumber
  /\ Says(Flag, count'[Flag])
  /\ UNCHANGED <<key, quiet, msr>>

\* do_MSR: each track is sent and erased.
SayTrack1 ==
  /\ step = "look" /\ Flag = "MSR" /\ Due
  /\ Says("MSR", <<msr[1], "">>) /\ msr' = [msr EXCEPT ![1] = ""]
  /\ step' = "half"
  /\ UNCHANGED <<at, copy, reg, key, flow, host, reader>>

SayTrack2 ==
  /\ step = "half"
  /\ Says("MSR", <<line.says[1], msr[2]>>) /\ msr' = [msr EXCEPT ![2] = ""]
  /\ step' = "said"
  /\ UNCHANGED <<at, copy, reg, key, flow, host, reader>>

\* The watchdog: all starts anew, but for a card in the reader.
Reset ==
  /\ step = "look" /\ Flag = "RESET" /\ Due
  /\ reg' = NoFlags /\ at' = 1 /\ step' = "boot" /\ copy' = {} /\ line' = NoLine
  /\ key' = "" /\ count' = [c \in Counters |-> 0] /\ quiet' = TRUE
  /\ number' = NoNumber /\ command' = "" /\ port' = [o \in Outputs |-> FALSE]
  /\ msr' = [t \in {1, 2} |-> ""]
  /\ reader' = [NoSwipe EXCEPT !.card = reader.card, !.todo = reader.todo]
  /\ inputs' = 0

\* Mutant: the flag stays.
ClearedNot(f) == copy

Cleared(f) == copy \ {f}

\* The flag is cleared.
Load ==
  /\ step = "said"
  /\ copy' = reg[RegisterOf(Flag)] /\ step' = "loaded"
  /\ UNCHANGED <<at, reg, line, key, flow, host, card>>

Store ==
  /\ step = "loaded"
  /\ reg' = [reg EXCEPT ![RegisterOf(Flag)] = Cleared(Flag)]
  /\ at' = Turn(at) /\ step' = "look" /\ copy' = {}
  /\ UNCHANGED <<line, key, flow, host, card>>

Main == Boot \/ Skip \/ SayFlow \/ SayKey \/ SayState \/ SayCounter \/ SayTrack1 \/ SayTrack2
        \/ Reset \/ Load \/ Store

Next == Interrupt \/ Main

\* The processor runs, and so does its timer.
Fairness == WF_vars(Main) /\ WF_vars(FlowTimer)

SafeSpec == Init /\ [][Next]_vars
Spec == SafeSpec /\ Fairness

(***************************************************************************)
(* Properties.                                                             *)
(***************************************************************************)
Steps == {"boot", "look", "half", "said", "loaded"}

\* Every variable has a value of its kind: flags are in their registers, and the
\* tick that is discarded when the board starts is one that was counted.
TypeOK ==
  /\ reg \in [Registers -> SUBSET Bits] /\ \A f \in Flags, r \in Registers : f \in reg[r] => r = RegisterOf(f)
  /\ at \in DOMAIN Loop /\ step \in Steps /\ copy \subseteq Bits
  /\ key \in Keys \cup {""} /\ count \in [Counters -> 0 .. MaxCount] /\ quiet \in BOOLEAN
  /\ number \in {NoNumber} \cup 0 .. MaxCount /\ command \in Counters \cup {""}
  /\ port \in [Outputs -> BOOLEAN] /\ msr \in [{1, 2} -> Cards \cup {""}]
  /\ reader \in [card : Cards \cup {""}, todo : SUBSET {1, 2}, track : 0 .. 2, tracks : SUBSET {1, 2}]
  /\ inputs \in 0 .. MaxInputs

\* A KP line has a key, whatever interrupt comes between the line, the erasing of
\* the key and the clearing of its flag.
KeyIsThere == line.what = "KP" => line.says \in Keys

\* A flag that is set is cleared some day, however often others are set (main).
NoFlagStarves == \A f \in Flags : IsSet(f) ~> ~IsSet(f)

\* The tracks of a MSR line are "read directly off of the card": off one card.
OneCard == (line.what = "MSR" /\ step # "half") => line.says[1] = line.says[2]
=============================================================================
