SPECIFICATION Spec
CONSTANTS
  Others = {"Input"}
  Lengths = {1}
  nTIMERS = 4
  WATCHDOG_TIMEOUT = 2
  WATCHDOG_RESET = 1
  pid_timeout = 3
  Jumps <- MCJumps
  DelCalls = FALSE
  Past = 2
  MaxLines = 1
  MaxJumps = 2
INVARIANTS SlotsKept TimeKept NoFalseReboot
PROPERTIES WatchdogBites DeadNoticed
