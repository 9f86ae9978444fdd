CONSTANT Shaders <- MCShaders
SPECIFICATION Spec
INVARIANTS
  TypeOK
  TopologicalOrder
  EveryLiveBlockPlaced
  LoopsContiguous
PROPERTY SortTerminates
CHECK_DEADLOCK FALSE
