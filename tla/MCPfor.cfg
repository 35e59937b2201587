SPECIFICATION Spec
CONSTANTS
  Sources <- MCSources
  Damage <- MCDamage
  WideBytes = 2
  MaxWidth = 2
INVARIANTS
  RoundTrips
  WithinBound
  ReadsAsSpecified
