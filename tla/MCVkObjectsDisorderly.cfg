CONSTANTS
  Capacity <- SmallPools
  MaxLive = 7
  Orderly = FALSE
SPECIFICATION Spec
INVARIANTS
  DescriptorSetsFit
CHECK_DEADLOCK FALSE
