SPECIFICATION Spec
CONSTANTS
  sale = sale
  member = member
  auth = auth
  Retained = {sale, member}
  NewMembers = {member}
  Volatile = {auth}
  NetLines = {}
  Writes <- MCWrites
  Plain = {}
  Patches = {patch}
  BadPatches = {}
  MaxTries = 2
  PatchPlaces = 1
  BufCap = 2
  MaxStrays = 1
  MaxCrashes = 1
INVARIANTS TypeOK AckedIsApplied SavedIsKept
PROPERTIES KeepsTillEntered InOrder EventuallyEntered
