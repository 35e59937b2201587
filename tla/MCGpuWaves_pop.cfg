SPECIFICATION Spec
CONSTANTS
  s1 = s1
  s2 = s2
  Streams = {s1, s2}
  Plans <- MCPlans
  MaxCalls = 2
  PopMayFail = TRUE
INVARIANTS FailedCallWaits
