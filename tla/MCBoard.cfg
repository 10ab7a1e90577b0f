SPECIFICATION Spec
CONSTANTS
  Keys = {"5"}
  Cards = {"mine"}
  Happens = {"flow", "keys", "DRSN", "FLM-CUR", "LGHT", "RESET", "swipe"}
  MaxCount = 1
  MaxInputs = 1
INVARIANTS TypeOK KeyIsThere
PROPERTIES NoFlagStarves
