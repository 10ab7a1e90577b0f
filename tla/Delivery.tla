------------------------------ MODULE Delivery ------------------------------
(***************************************************************************)
(* What the kiosk's server daemon promises of the lines it keeps until the *)
(* server has them: they are entered at the server in the order in which   *)
(* they were accepted, each for a first time once, and nothing that was    *)
(* not accepted is.  Only a crash may take lines out of this order: of     *)
(* those that were not yet entered it keeps the earliest ones, and what    *)
(* becomes of the others, some of which may be under way, is open.         *)
(***************************************************************************)
EXTENDS Integers, SequencesExt

CONSTANT Lines

VARIABLES
  owed,   \* accepted, and to be entered
  log,    \* entered, in the order of their first time
  lost    \* dropped in a crash, not entered so far

Known == ToSet(owed) \cup ToSet(log) \cup lost

Init == owed = <<>> /\ log = <<>> /\ lost = {}

Accept ==
  /\ \E s \in SetToAllKPermutations(Lines \ Known) : owed' = owed \o s
  /\ UNCHANGED <<log, lost>>

\* A batch: the earliest of what is owed, and lines lost while it was under way.
Enter ==
  \E n \in 0 .. Len(owed), s \in SetToAllKPermutations(lost) :
    /\ log' = log \o SubSeq(owed, 1, n) \o s
    /\ owed' = SubSeq(owed, n + 1, Len(owed))
    /\ lost' = lost \ ToSet(s)

Crash ==
  \E n \in 0 .. Len(owed) :
    /\ owed' = SubSeq(owed, 1, n)
    /\ lost' = lost \cup ToSet(SubSeq(owed, n + 1, Len(owed)))
    /\ UNCHANGED log

Next == Accept \/ Enter \/ Crash

Spec == Init /\ [][Next]_<<owed, log, lost>>
=============================================================================
