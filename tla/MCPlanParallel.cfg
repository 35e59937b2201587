SPECIFICATION PlanSpec
CONSTANTS
  FrameKinds <- MCKinds
  MaxFrames = 4
  MaxThreads = 4
  Block = 2
  Stride = 4
  JoinSamples = 3
  WavesPerGroup = 4
  Symbols = 2
  MaxLaneBytes = 40
INVARIANTS ParallelIsSequential FailsAsOneThread
