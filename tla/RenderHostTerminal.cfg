SPECIFICATION HostSpec
CONSTANTS
  CommandCapacity = 4
  FrameLimit = 2
  FenceLimit = 1
  MaxFrame = 2
  MaxFence = 2
  FrameIndexes <- MCFrameIndexes
  FenceTargets <- MCNoTarget
  CellBackend = TRUE
INVARIANT TerminalTickNeverWaits
