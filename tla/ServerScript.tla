---------------------------- MODULE ServerScript ----------------------------
(***************************************************************************)
(* The server's side of a kiosk's request: do_request of BBD-kiosk.pl, and *)
(* the database transaction that BBD.pm wraps around it.                   *)
(*                                                                         *)
(* Abstractions.  A line is known by its kind; what entering it does to a  *)
(* member's account is in ServerLedger.  Encryption and signatures are     *)
(* taken to work, and so is the commit at the end of a request.            *)
(***************************************************************************)
EXTENDS Integers, SequencesExt

CONSTANTS
  Retained,    \* lines kept until the server has them: notices, new members
  NewMembers,  \* those among them that make a membership
  Volatile,    \* lines sent once: status, auth and GW
  NetLines,    \* commands to the daemon itself: net
  Plain,       \* messages of the server to the kiosk that are applied at once
  Patches,     \* messages that take one of the kiosk's places for patches
  BadPatches   \* messages that look like a patch and are not

Lines == Retained \cup Volatile \cup NetLines
Messages == Plain \cup Patches \cup BadPatches

ASSUME KindsDisjoint ==
  /\ NewMembers \subseteq Retained
  /\ Retained \cap Volatile = {} /\ Retained \cap NetLines = {}
  /\ Volatile \cap NetLines = {}
  /\ Plain \cap (Patches \cup BadPatches) = {} /\ Patches \cap BadPatches = {}

VARIABLES
  entered,  \* lines that are in the database
  log,      \* the retained ones, in the order of their first time
  mail,     \* messages waiting for the kiosk's acknowledgment
  mailed    \* messages there ever were

server == <<entered, log, mail, mailed>>

InitServer == entered = {} /\ log = <<>> /\ mail = {} /\ mailed = {}

Batch(c) == ToSet(c.ret \o c.vol)

\* More than 30 seconds off the server's clock, or no lines at all: nothing is
\* looked at, and the answer is resync.
Resync(c) == c.stamp = "stale" \/ (Batch(c) = {} /\ c.acks = {})

\* The lines of ls that are in S, in their order.
Kept(ls, S) == FoldLeft(LAMBDA kept, l : IF l \in S THEN Append(kept, l) ELSE kept, <<>>, ls)

FirstTimes(ls) == Kept(ls, Retained \ entered)

\* Mutant: what waits was sent, so it is deleted.
DeletedWhenSent(c) == mail

Deleted(c) == c.acks

\* Every line is entered, acknowledged messages are deleted.  A line that was
\* entered before is entered again: the digest that is to tell duplicates
\* covers the time stamp, and duplicates are only counted.
Enter(c) ==
  /\ entered' = entered \cup Batch(c)
  /\ log' = log \o FirstTimes(c.ret)
  /\ mail' = mail \ Deleted(c)
  /\ UNCHANGED mailed

\* The script dies, and its transaction is rolled back: as far as it goes, for a
\* new membership locks a table, and that commits what the request did before.
RollBack(c) ==
  /\ \E n \in 0 .. Len(c.ret) :
       LET done == SubSeq(c.ret, 1, n) IN
       /\ n = 0 \/ (n < Len(c.ret) /\ c.ret[n + 1] \in NewMembers)
       /\ entered' = entered \cup ToSet(done)
       /\ log' = log \o FirstTimes(done)
  /\ UNCHANGED <<mail, mailed>>

\* Somebody at the server leaves a message for the kiosk.
NewMessage ==
  /\ \E m \in Messages \ mailed : mail' = mail \cup {m} /\ mailed' = mailed \cup {m}
  /\ UNCHANGED <<entered, log>>
=============================================================================
