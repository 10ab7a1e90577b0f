SPECIFICATION Spec
CONSTANTS
  h1 = h1
  none = none
  NoHold = none
  Holds <- MCHolds
  Offers <- MCOffers
  HasDRSN = TRUE
  CCThreshold = 1
  MaxBusyRetries = 1
  MaxCapRetries = 1
  MaxCount = 1
  MaxFuelPreAuth = 1
  EvtCap = 1
  ReqCap = 1
  Refusals = {}
  Happens = {"keys", "power"}
  KeysPressed = {"1","2","3","*", "#"}
  Typed = {"operator","spn"}
INVARIANTS OperatorTimed
