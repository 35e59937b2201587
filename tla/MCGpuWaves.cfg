SPECIFICATION FairSpec
CONSTANTS
  s1 = s1
  s2 = s2
  Streams = {s1, s2}
  Plans <- MCPlans
  MaxCalls = 3
  PopMayFail = FALSE
INVARIANTS
  TypeOK
  NoUseAfterRelease
  OwnParameters
  OwnScratch
  FailedCallWaits
PROPERTIES
  KeepsContract
  CallReturns
