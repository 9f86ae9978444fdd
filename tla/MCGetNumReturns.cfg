CONSTANTS
  Lanes = {l1, l2}
  Programs <- GetNumReturns
  Terminator = "terminator"
  Wrap = 3
SPECIFICATION VSpec
INVARIANTS ReturnsOwnValue
CHECK_DEADLOCK FALSE
