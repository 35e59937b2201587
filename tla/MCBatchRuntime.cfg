SPECIFICATION Spec
CONSTANTS
  b1 = b1
  b2 = b2
  m1 = m1
  m2 = m2
  Nobody = Nobody
  Batches = {b1, b2}
  Memories = {m1}
  Layouts <- MCLayouts
  Sizes = {4}
  SpareCount = 2
  SmallSpare = 2
  Pad = 4
  SizeMax = 15
  MaxBlocks = 3
  MaxFailures = 2
SYMMETRY Symmetry
INVARIANTS
  OneHolder
  NothingLeaks
  BlocksLargeEnough
  WorkKeepsItsBlocks
  ResultsAreTheCallers
PROPERTIES
