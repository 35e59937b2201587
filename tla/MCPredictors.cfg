SPECIFICATION Spec
CONSTANTS
  Modulus = 8
  Codecs <- AllCodecs
  Rasters <- MCRasters
  MaxPlanes = 4
  Builds <- MCBuilds
  Block = 5
  Weights <- MCWeights
  SampleBits = 3
  Corruptions <- MCCorruptions
INVARIANTS
  RoundTrip
  AllOrNothing
