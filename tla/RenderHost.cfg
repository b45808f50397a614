SPECIFICATION HostFairSpec
CONSTANTS
  CommandCapacity = 4
  FrameLimit = 2
  FenceLimit = 1
  MaxFrame = 3
  MaxFence = 3
  FrameIndexes <- MCFrameIndexes
  FenceTargets <- MCNoTarget
  CellBackend = TRUE
INVARIANTS
  NothingInFlightWhileOpen
  PreparationNeverWaits
PROPERTIES
  TickEnds
