CONSTANTS
  Capacity <- SmallPools
  MaxLive = 7
  Orderly = TRUE
SPECIFICATION Spec
INVARIANTS
  TypeOK
  CountsAreExact
  LiveIffNeeded
  NoUseAfterFree
  DescriptorSetsFit
CHECK_DEADLOCK FALSE
