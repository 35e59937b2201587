SPECIFICATION FairSpec
CONSTANTS
  FrameCount = 3
  Samples <- MCSamples
  Block = 2
  Destination <- MCDestination
  MaxThreads = 2
INVARIANTS TypeOK EachFrameOnce ErrorIsLowest PlansAgree
PROPERTIES PassEnds
