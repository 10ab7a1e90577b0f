SPECIFICATION Spec
CONSTANTS
  h1 = h1
  h2 = h2
  Holds <- MCHolds
  Amounts = {2, 3}
  Fee = 2
  Members <- MCMembers
  Cards = {"unseen", "member"}
  SameWords = TRUE
  Year = 3
  Before = 1
  After = 1
  Ask = 1
  MaxSales = 3
  MaxRows = 2
  MaxTime = 2
INVARIANTS  DebtIsUncovered 
CHECK_DEADLOCK FALSE
SYMMETRY EitherHold
