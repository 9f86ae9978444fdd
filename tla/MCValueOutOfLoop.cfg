CONSTANTS
  Lanes = {l1, l2}
  Programs <- ValueOutOfLoop
  Terminator = "terminator"
  Wrap = 3
SPECIFICATION VSpec
INVARIANTS UsesOwnValue
CHECK_DEADLOCK FALSE
