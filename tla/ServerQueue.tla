---------------------------- MODULE ServerQueue -----------------------------
(***************************************************************************)
(* The kiosk's server daemon (BBD9000server.c) and the server it reports   *)
(* to: a buffer of lines, sent as one batch, answered, timed out, sent     *)
(* again; messages of the server and their acknowledgments; the state file *)
(* that carries the buffer over a power failure.                           *)
(*                                                                         *)
(* Abstractions.  The one buffer of the code is known by its parts: ret    *)
(* (msg_size counts it), raw (read, or still to be sorted), vol and acks   *)
(* (beyond msg_size).  Its capacity counts lines.  The FIFO has from the   *)
(* start all that is ever written.  Time is known by what it does to a     *)
(* time stamp.                                                             *)
(* The events to the state machine are left out; KioskWorld has them.      *)
(***************************************************************************)
EXTENDS ServerScript

CONSTANTS
  MaxTries,     \* attempts of sendMessage at one batch
  PatchPlaces,  \* MAX_PATCHES
  BufCap,       \* bound: lines the buffer has room for
  Writes,       \* what may be written to the FIFO: sequences of different lines
  MaxStrays,    \* bound: given up requests the server is still working on
  MaxCrashes    \* bound: crashes of the kiosk

ASSUME Bounds ==
  /\ MaxTries \in Nat \ {0} /\ PatchPlaces \in Nat
  /\ BufCap \in Nat /\ MaxStrays \in Nat /\ MaxCrashes \in Nat
  /\ \A w \in Writes : w \in Seq(Lines) /\ IsInjective(w)

VARIABLES
  pc,         \* where the daemon is: see Places
  loaded,     \* the state file's name is known, and it was read
  firstMsg,   \* nothing was sent since startup but empty messages
  ret, raw, vol, acks,
  cut,        \* the last line of the buffer is not complete
  saved,      \* saved_state: the file is kept up to date
  file,       \* the state file
  restored,   \* the lines read from it
  skew,       \* the clock is off by more than the server takes
  cur, tries, \* the request under way, and the attempts left
  reply, news,\* the server's answer to it, the messages in that
  strays,     \* requests given up here, and not there
  unread, applied, places, crashes

buffer == <<ret, raw, vol, acks, cut>>
disk == <<saved, file, restored>>
wire == <<cur, tries, reply, news, strays>>
kiosk == <<applied, places>>
vars == <<pc, loaded, firstMsg, buffer, disk, skew, wire, unread, kiosk, crashes, server>>

Places == {"send", "sent", "load", "wait", "read", "sort", "down"}

NoFile == [lines |-> <<>>, cut |-> FALSE]
NoCopy == [ret |-> <<>>, vol |-> <<>>, acks |-> {}, stamp |-> "fresh"]

Init ==
  /\ pc = "send" /\ loaded = FALSE /\ firstMsg = TRUE
  /\ ret = <<>> /\ raw = <<>> /\ vol = <<>> /\ acks = {} /\ cut = FALSE
  /\ saved = FALSE /\ file = NoFile /\ restored = {}
  /\ skew \in BOOLEAN
  /\ cur = NoCopy /\ tries = 0 /\ reply = "none" /\ news = {} /\ strays = <<>>
  /\ unread \in Writes /\ applied = {} /\ places = 0 /\ crashes = 0
  /\ InitServer

(***************************************************************************)
(* Saving.  The file gets what msg_size counts; an empty one is removed.   *)
(***************************************************************************)
Save(lines, c) == file' = [lines |-> lines, cut |-> c]

\* Mutant: the file is not kept up to date.
UpdateSaveStateForgotten(lines) == UNCHANGED file

UpdateSaveState(lines) == IF saved /\ loaded THEN Save(lines, FALSE) ELSE UNCHANGED file

\* What msg_size counts: all that was read, until it is sorted anew.
Counted == IF pc = "sort" THEN ret ELSE ret \o raw

(***************************************************************************)
(* process_message and sendMessage.                                        *)
(***************************************************************************)
\* The batch failed: what is volatile is ditched.
Failed ==
  /\ vol' = <<>> /\ acks' = {}
  /\ pc' = IF loaded THEN "wait" ELSE "load"
  /\ reply' = "none" /\ cur' = NoCopy
  /\ UNCHANGED <<loaded, firstMsg, ret, raw, cut, disk, skew, tries, news, unread, kiosk,
                 crashes, server>>

Offline == pc = "send" /\ Failed /\ UNCHANGED strays

\* The time stamp is the kiosk's; the first message has nothing but that.
Send ==
  /\ pc = "send"
  /\ cur' = [IF firstMsg THEN NoCopy ELSE [NoCopy EXCEPT !.ret = ret, !.vol = vol, !.acks = acks]
              EXCEPT !.stamp = IF skew THEN "stale" ELSE "fresh"]
  /\ tries' = MaxTries /\ reply' = "none" /\ news' = {}
  /\ pc' = "sent"
  /\ UNCHANGED <<loaded, firstMsg, buffer, disk, skew, strays, unread, kiosk, crashes, server>>

\* Given up here; a server that has it goes on with it.
Abandon ==
  \/ UNCHANGED strays
  \/ /\ reply = "none" /\ ~Resync(cur) /\ Len(strays) < MaxStrays
     /\ strays' = Append(strays, cur)

\* The same bytes again after the network was started anew: 30 seconds
\* (network_timeout) after the first, unless no host was found to send them to.
Retry ==
  /\ pc = "sent" /\ tries > 1
  /\ tries' = tries - 1
  /\ \/ reply = "none" /\ UNCHANGED <<cur, strays>>
     \/ cur' = [cur EXCEPT !.stamp = "stale"] /\ Abandon
  /\ reply' = "none"
  /\ UNCHANGED <<pc, loaded, firstMsg, buffer, disk, skew, news, unread, kiosk, crashes, server>>

\* The last timeout, a network that cannot be started again, or any other error.
GiveUp == pc = "sent" /\ Abandon /\ Failed

(***************************************************************************)
(* process_resp.                                                           *)
(***************************************************************************)
\* Mutant: no test whether a place is left.
FreePlacesUnchecked == Cardinality(Patches \cup BadPatches)

FreePlaces == PatchPlaces - places

\* do_msg: a patch needs a place, and keeps it even when it is none; what was
\* applied is acknowledged with the next batch, beyond what msg_size counts.
ApplyMessages ==
  LET patches == news \cap (Patches \cup BadPatches)
      n == IF Cardinality(patches) < FreePlaces THEN Cardinality(patches) ELSE FreePlaces
  IN \E p \in {q \in SUBSET patches : Cardinality(q) = n} :
       /\ places' = places + n
       /\ acks' = (news \cap Plain) \cup (p \ BadPatches)
       /\ applied' = applied \cup acks'

\* The batch is with the server: the buffer is cleared, then the answer is read.
Accepted ==
  /\ pc = "sent" /\ reply = "ok"
  /\ ret' = <<>> /\ vol' = <<>> /\ ApplyMessages
  /\ UpdateSaveState(<<>>)
  /\ pc' = IF acks' # {} THEN "send" ELSE IF loaded THEN "wait" ELSE "load"
  /\ firstMsg' = FALSE /\ skew' = FALSE /\ reply' = "none" /\ cur' = NoCopy
  /\ UNCHANGED <<loaded, raw, cut, saved, restored, tries, news, strays, unread, crashes, server>>

\* resync: the clock is set, and everything is sent again.
Resynced ==
  /\ pc = "sent" /\ reply = "resync"
  /\ firstMsg' = FALSE /\ skew' = FALSE /\ reply' = "none" /\ cur' = NoCopy
  /\ UpdateSaveState(ret)
  /\ pc' = IF ret \o vol # <<>> \/ acks # {} THEN "send"
           ELSE IF loaded THEN "wait" ELSE "load"
  /\ UNCHANGED <<loaded, buffer, saved, restored, tries, news, strays, unread, kiosk, crashes,
                 server>>

(***************************************************************************)
(* main and reshuffle_message.                                             *)
(***************************************************************************)
\* The state file is read, all of it as what msg_size counts, and removed.
Load ==
  /\ pc = "load"
  /\ loaded' = TRUE /\ ret' = file.lines /\ cut' = file.cut
  /\ file' = NoFile /\ restored' = ToSet(file.lines)
  /\ pc' = IF ret' # <<>> /\ ~cut' THEN "send" ELSE "wait"
  /\ UNCHANGED <<firstMsg, raw, vol, acks, saved, skew, wire, unread, kiosk, crashes, server>>

\* Mutant: a timeout only for what is volatile.
OutstandingVolatile == vol # <<>> /\ ~cut

Outstanding == ret # <<>> /\ ~cut

\* Nothing to read for status_interval_no_net.
TryAgain ==
  /\ pc = "wait" /\ Outstanding
  /\ pc' = "send"
  /\ UNCHANGED <<loaded, firstMsg, buffer, disk, skew, wire, unread, kiosk, crashes, server>>

\* Lines are read as far as there is room.  With no newline at its end the
\* buffer is neither sorted nor sent, and with no room left nothing is read.
Read ==
  /\ pc = "wait" /\ ~cut
  /\ \E n \in 1 .. Len(unread) :
       LET room == BufCap - Len(ret) IN
       /\ n <= room + 1
       /\ raw' = SubSeq(unread, 1, n) /\ cut' = (n > room)
       /\ unread' = SubSeq(unread, n + 1, Len(unread))
  /\ pc' = IF cut' THEN "wait" ELSE "read"
  /\ UNCHANGED <<loaded, firstMsg, ret, vol, acks, disk, skew, wire, kiosk, crashes, server>>

\* Mutants: only what is new is sorted; what is new comes first.
UnsortedNew == raw
UnsortedFirst == raw \o ret

Unsorted == ret \o raw

\* The whole buffer is sorted, from its beginning; msg_size starts at 0.
BeginSort ==
  /\ pc = "read"
  /\ raw' = Unsorted /\ ret' = <<>>
  /\ pc' = "sort"
  /\ UNCHANGED <<loaded, firstMsg, vol, acks, cut, disk, skew, wire, unread, kiosk, crashes, server>>

\* One line: net lines are done at once, which takes its time.
SortLine ==
  /\ pc = "sort" /\ raw # <<>>
  /\ raw' = Tail(raw)
  /\ ret' = IF Head(raw) \in Retained THEN Append(ret, Head(raw)) ELSE ret
  /\ vol' = IF Head(raw) \in Volatile THEN Append(vol, Head(raw)) ELSE vol
  /\ UNCHANGED <<pc, loaded, firstMsg, acks, cut, disk, skew, wire, unread, kiosk, crashes, server>>

EndSort ==
  /\ pc = "sort" /\ raw = <<>>
  /\ UpdateSaveState(ret)
  /\ pc' = IF ret \o vol # <<>> THEN "send" ELSE "wait"
  /\ UNCHANGED <<loaded, firstMsg, buffer, saved, restored, skew, wire, unread, kiosk, crashes,
                 server>>

(***************************************************************************)
(* The server.                                                             *)
(***************************************************************************)
unserved == <<pc, loaded, firstMsg, buffer, disk, skew, cur, tries, strays, unread, kiosk, crashes>>
Waiting == pc = "sent" /\ reply = "none"

AnswerResync ==
  /\ Waiting /\ Resync(cur)
  /\ reply' = "resync"
  /\ UNCHANGED <<unserved, news, server>>

AnswerOk ==
  /\ Waiting /\ ~Resync(cur) /\ Enter(cur)
  /\ reply' = "ok" /\ news' = mail'
  /\ UNCHANGED unserved

AnswerError ==
  /\ Waiting /\ ~Resync(cur) /\ RollBack(cur)
  /\ reply' = "error"
  /\ UNCHANGED <<unserved, news>>

\* A request nobody waits for is done all the same.
ServeStray ==
  /\ \E i \in 1 .. Len(strays) :
       /\ strays' = RemoveAt(strays, i)
       /\ Enter(strays[i]) \/ RollBack(strays[i])
  /\ UNCHANGED <<pc, loaded, firstMsg, buffer, disk, skew, cur, tries, reply, news, unread, kiosk,
                 crashes>>

Post == NewMessage /\ UNCHANGED <<unserved, reply, news>>

\* The state machine hands the patches to the patch program, and their places are free.
TakePatches ==
  /\ pc # "down" /\ places > 0
  /\ places' = 0
  /\ UNCHANGED <<pc, loaded, firstMsg, buffer, disk, skew, wire, unread, applied, crashes, server>>

(***************************************************************************)
(* Signals, power failures and restarts.                                   *)
(***************************************************************************)
\* SIGPWRALRM and SIGPWROK of the shutdown command.
PowerAlarm ==
  /\ pc # "down" /\ ~saved
  /\ saved' = TRUE
  /\ IF loaded THEN Save(Counted, cut) ELSE UNCHANGED file
  /\ UNCHANGED <<pc, loaded, firstMsg, buffer, restored, skew, wire, unread, kiosk, crashes, server>>

PowerOK ==
  /\ pc # "down" /\ saved
  /\ saved' = FALSE
  /\ file' = IF loaded THEN NoFile ELSE file
  /\ UNCHANGED <<pc, loaded, firstMsg, buffer, restored, skew, wire, unread, kiosk, crashes, server>>

Dies ==
  /\ pc # "down" /\ crashes < MaxCrashes
  /\ crashes' = crashes + 1
  /\ pc' = "down" /\ loaded' = FALSE /\ firstMsg' = TRUE
  /\ ret' = <<>> /\ raw' = <<>> /\ vol' = <<>> /\ acks' = {} /\ cut' = FALSE
  /\ saved' = FALSE /\ restored' = {}
  /\ IF pc = "sent" THEN Abandon ELSE UNCHANGED strays
  /\ cur' = NoCopy /\ tries' = 0 /\ reply' = "none" /\ news' = {} /\ places' = 0
  /\ UNCHANGED <<skew, unread, applied, server>>

\* SIGTERM, SIGINT, SIGQUIT, SIGPIPE: what msg_size counts is saved.
Term == Dies /\ IF loaded THEN Save(Counted, cut) ELSE UNCHANGED file

\* The power is gone.
Kill == Dies /\ UNCHANGED file

\* The clock is wrong after a while without power.
Start ==
  /\ pc = "down"
  /\ pc' = "send" /\ skew' \in BOOLEAN
  /\ UNCHANGED <<loaded, firstMsg, buffer, disk, wire, unread, kiosk, crashes, server>>

(***************************************************************************)
(* Specification.  The daemon goes on; a network and a server that work    *)
(* again and again let a request through again and again.                  *)
(***************************************************************************)
Daemon == Load \/ TryAgain \/ BeginSort \/ SortLine \/ EndSort \/ Start
Exchange == Offline \/ Send \/ Retry \/ GiveUp \/ Accepted \/ Resynced
Server == AnswerResync \/ AnswerOk \/ AnswerError \/ ServeStray \/ Post
Faults == PowerAlarm \/ PowerOK \/ Term \/ Kill

Next == Daemon \/ Read \/ Exchange \/ Server \/ TakePatches \/ Faults

Fairness ==
  /\ WF_vars(Daemon) /\ WF_vars(Exchange)
  /\ SF_vars(Send) /\ SF_vars(AnswerResync) /\ SF_vars(AnswerOk)
  /\ SF_vars(Accepted) /\ SF_vars(Resynced)

SafeSpec == Init /\ [][Next]_vars
Spec == SafeSpec /\ Fairness

(***************************************************************************)
(* Properties.                                                             *)
(***************************************************************************)
Copies == [ret : Seq(Lines), vol : Seq(Volatile), acks : SUBSET Messages, stamp : {"fresh", "stale"}]

\* Every variable has a value of its kind; the queues hold lines, and a volatile
\* line only where the daemon has not yet sorted it out.
TypeOK ==
  /\ pc \in Places /\ loaded \in BOOLEAN /\ firstMsg \in BOOLEAN
  /\ ret \in Seq(Lines) /\ raw \in Seq(Lines) /\ vol \in Seq(Volatile)
  /\ acks \subseteq Messages /\ cut \in BOOLEAN
  /\ saved \in BOOLEAN /\ file \in [lines : Seq(Lines), cut : BOOLEAN] /\ restored \subseteq Lines
  /\ skew \in BOOLEAN /\ cur \in Copies /\ tries \in 0 .. MaxTries
  /\ reply \in {"none", "resync", "ok", "error"} /\ news \subseteq Messages
  /\ strays \in Seq(Copies) /\ unread \in Seq(Lines) /\ applied \subseteq Messages
  /\ places \in 0 .. PatchPlaces /\ crashes \in 0 .. MaxCrashes
  /\ entered \subseteq Lines /\ log \in Seq(Retained)
  /\ mail \subseteq mailed /\ mailed \subseteq Messages

\* What the kiosk has of what it must deliver: in memory, or on disk before it is loaded.
Held == IF loaded THEN ret \o raw ELSE file.lines

\* A notice or a new member that was read is kept until the server has entered
\* it: no retry, resync, failure, sort, alarm, restart or load drops one.  Only
\* the moment of a crash may (process_message, process_resp, reshuffle_message).
KeepsTillEntered ==
  [][pc' # "down" => (ToSet(Held) \cap Retained \subseteq ToSet(Held') \cup entered')]_vars

\* A message the server has deleted, because it was acknowledged, was applied:
\* the order that the comment on the acknowledgment in do_msg argues for.
AckedIsApplied == mailed \ mail \subseteq applied

\* While the power fails, what the kiosk holds is on disk, but for what it had just
\* loaded from there (updateSaveState after each change of the buffer).
SavedIsKept ==
  (saved /\ loaded /\ pc \in {"wait", "send", "sent"} /\ ~cut) =>
     ToSet(ret) \subseteq ToSet(file.lines) \cup restored

\* What the kiosk holds is entered some day, unless a crash takes it or the buffer
\* is full with half a line at its end.
EventuallyEntered ==
  \A l \in Retained :
    (l \in ToSet(Held)) ~> (l \in entered \/ l \notin ToSet(Held) \/ cut \/ file.cut)

(***************************************************************************)
(* The daemon and the server do what Delivery asks of them.                *)
(***************************************************************************)
Owed == FirstTimes(Held)
Lost == Retained \ (ToSet(unread) \cup entered \cup ToSet(Held))

D == INSTANCE Delivery WITH Lines <- Retained, owed <- Owed, log <- log, lost <- Lost

\* The retained lines are entered at the server in the order in which the daemon
\* read them, through timeouts, strays, resyncs, sorts and restarts.
InOrder == D!Spec
=============================================================================
