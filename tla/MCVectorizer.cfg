CONSTANTS
  Shaders <- MCShaders
  Lanes = {l1, l2}
SPECIFICATION VSpec
INVARIANTS
  ListIsLinear
  TestShadersCompile
  LoopReconvergence
PROPERTIES
  CompiledCodeFollowsSource
  NeverSpins
CHECK_DEADLOCK FALSE
