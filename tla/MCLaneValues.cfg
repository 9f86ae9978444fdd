CONSTANTS
  Lanes = {l1, l2}
  Programs <- TameFunctions
  Terminator = "terminator"
  Wrap = 3
SPECIFICATION VSpec
INVARIANTS UsesOwnValue ReturnsOwnValue
CHECK_DEADLOCK FALSE
