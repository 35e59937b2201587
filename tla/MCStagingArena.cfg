SPECIFICATION ArenaSpec
CONSTANTS
  SizeMax = 511
  Alignment = 4
  MinChunk = 16
  MaxChunks = 3
  PinLimits = {32, 511}
  Requests = {0, 1, 6, 12, 17, 300, 510}
  MaxBatches = 3
  MaxAllocs = 4
INVARIANTS
  AllocsSeparate
  LargestKept
  ReserveFailsOnce
