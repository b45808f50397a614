SPECIFICATION Spec
CONSTANTS
  MaxTasks = 3
  MaxEpochs = 2
INVARIANTS
  NoDetachedTask
  OneTerminalPerRequest
  JoinedTerminalMeansStopped
PROPERTIES
  CancelWins
  CleanShutdownLeavesNothing
CHECK_DEADLOCK FALSE
