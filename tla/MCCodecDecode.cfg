SPECIFICATION Spec
CONSTANTS
  FrameKinds <- MCKinds
  MaxFrames = 3
  MaxElements = 14
  Limits <- MCLimits
  ElementBytes = 2
  Align = 4
  PayloadPadding = 4
  Word = 26
  MinBlock = 2
  Segment = 2
  ColumnsPerGroup = 2
  Block = 2
  Stride = 2
  JoinSamples = 4
  WavesPerGroup = 2
  Symbols = 1
  MaxLaneBytes = 24
INVARIANTS DecodedInOrder StagingHolds FailsForCause
