SPECIFICATION ProducerFairSpec
CONSTANTS
  CommandCapacity = 1
  FrameLimit = 2
  FenceLimit = 1
  MaxFrame = 2
  MaxFence = 2
  FrameIndexes <- MCFrameIndexes
  FenceTargets <- MCFenceTargets
INVARIANTS
  AdmittedFramesAccounted
  CompletedFenceCoversFrames
  ReportMatchesResults
  EventBacklogBounded
  CleanStopLosesNothing
PROPERTIES
  ImplementsFrameService
  CallsReturn
  EveryFrameResolved
  ThreadReleased
