SPECIFICATION FairSpec
CONSTANTS
  MaxTicket = 3
  Asset <- Assets
  Needs <- Closure
  Meshes = {"mesh"}
  MaxTrouble = 1
  MaxOperations = 2
  MaxCompletions = 1
INVARIANTS RefCountsExact WorkIsCharged
PROPERTIES ImplementsSharedAssets StreamsSettle
CHECK_DEADLOCK FALSE
