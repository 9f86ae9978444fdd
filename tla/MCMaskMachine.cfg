CONSTANTS
  Lanes = {l1, l2, l3}
  Programs <- MCPrograms
  Terminator = "terminator"
SPECIFICATION Spec
INVARIANTS
  TypeOK
  OneHome
  NoLaneLost
  NothingBehind
  ReturnsWithAllLanes
  Reconvergence
PROPERTY LanesRunAsScalars
CHECK_DEADLOCK FALSE
