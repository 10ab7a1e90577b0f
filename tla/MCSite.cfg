SPECIFICATION Spec
CONSTANTS
  h1 = h1
  none = none
  NoHold = none
  Holds <- MCHolds
  Offers <- MCOffers
  HasDRSN = TRUE
  CCThreshold = 1
  MaxBusyRetries = 1
  MaxCapRetries = 1
  MaxCount = 1
  MaxFuelPreAuth = 1
  EvtCap = 1
  ReqCap = 1
  Refusals = {}
  Happens = {"swipe", "bad swipe", "keys", "door", "flow", "power"}
  KeysPressed = {"5", "#"}
  Typed = {"operator"}
INVARIANTS PumpSafe PreAuthRespected StrikeTimed PumpNeedsDoor
