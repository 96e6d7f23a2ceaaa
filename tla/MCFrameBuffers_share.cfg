SPECIFICATION FairSpec
CONSTANTS
  NumBuffers = 2
  NumSubscribers = 2
  Clients = {r1}
  DeviceMayMiss = TRUE
  MaxFrames = 3
  Video = Video
  None = None
INVARIANT BuffersSafe
PROPERTIES ImplementsLatest CapturesOn ReachesSubscribers
CHECK_DEADLOCK FALSE
