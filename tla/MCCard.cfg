SPECIFICATION FairSpec
CONSTANTS
  h1 = h1
  h2 = h2
  none = none
  NoHold = none
  Holds <- MCHolds
  Offers <- MCOffers
  HasDRSN = FALSE
  CCThreshold = 2
  MaxBusyRetries = 2
  MaxCapRetries = 1
  MaxCount = 0
  MaxFuelPreAuth = 1
  EvtCap = 1
  ReqCap = 2
  Refusals = {"GW Busy"}
  Happens = {"swipe", "keys", "server lost"}
  KeysPressed = {"#"}
  Typed = {"spn"}
INVARIANTS TypeOK NoCrossCharge
PROPERTIES HoldsAreSettled EndsSettled
