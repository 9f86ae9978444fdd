CONSTANTS
  Null = Null
  Commands <- MCCommands
  Args <- MCArgs
  Bytes = {7, 8}
  NumBindings = 2
  NumConstants = 3
  c1 = c1
  c2 = c2
  CommandBuffers = {c1, c2}
  DataSize = 9
  Programs <- MCPrograms
  MaxSubmit = 2
SPECIFICATION FairSpec
INVARIANTS
  TypeOK
  DataIsLog
  RewoundWhenIdle
  DrawsUseOwnBindings
PROPERTIES
  ReplaysCommands
  SubmitReturns
CHECK_DEADLOCK FALSE
