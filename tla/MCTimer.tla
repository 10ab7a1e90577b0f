------------------------------ MODULE MCTimer ------------------------------
(***************************************************************************)
(* Half a minute is a tick: the watchdog's reset, its 60 s and the 123 s   *)
(* of the processes' check, and a state's timeout.                         *)
(***************************************************************************)
EXTENDS TimerDaemon

MCJumps == {-1, 2}
=============================================================================
