SPECIFICATION FairSessionSpec
CONSTANTS
  MaxTasks = 2
  MaxEpochs = 2
INVARIANTS
  SessionAgreesWithController
PROPERTIES
  CancelSettles
CHECK_DEADLOCK FALSE
