CONSTANTS
  Programs <- Shaders
  Masks <- SomeMasks
  Data <- SomeData
  SubgroupSize = 4
  IntBits = 3
  NaN = NaN
  Undef = Undef
SPECIFICATION Spec
INVARIANTS TypeOK LayoutSound ChainsInPlace LanesAreScalar OperationsAgree
CHECK_DEADLOCK FALSE
