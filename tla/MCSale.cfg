SPECIFICATION Spec
CONSTANTS
  h1 = h1
  none = none
  NoHold = none
  Holds <- MCHolds
  Offers <- MCOffers
  HasDRSN = FALSE
  CCThreshold = 1
  MaxBusyRetries = 2
  MaxCapRetries = 1
  MaxCount = 0
  MaxFuelPreAuth = 1
  EvtCap = 1
  ReqCap = 1
  Refusals = {"GW Declined", "GW CardExpired", "GW Error"}
  Happens = {"swipe","keys"}
  KeysPressed = {"1","2","*", "#"}
  Typed = {"spn"}
INVARIANTS WaitsAreTimed FuelIsCovered NoChargeUnregistered
PROPERTIES HoldsAreSettled
