SPECIFICATION SafeSpec
CONSTANTS
  Keys = {"5"}
  Cards = {"mine", "yours"}
  Happens = {"swipe"}
  MaxCount = 0
  MaxInputs = 2
INVARIANT OneCard
