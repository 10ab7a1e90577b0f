SPECIFICATION Spec
CONSTANTS
  h1 = h1
  h2 = h2
  none = none
  NoHold = none
  Holds <- OneHold
  Offers <- MCOffers
  HasDRSN = FALSE
  CCThreshold = 1
  MaxBusyRetries = 2
  MaxCapRetries = 1
  MaxCount = 1
  MaxFuelPreAuth = 1
  EvtCap = 1
  ReqCap = 1
  Refusals = {}
  Happens = {"swipe", "keys"}
  KeysPressed = {"5", "#"}
  Typed = {"operator", "spn"}
PROPERTIES OnlyCaptureClears
