SPECIFICATION FairSpec
CONSTANTS
  k1 = k1
  k2 = k2
  Key = {k1, k2}
  NoKey = noKey
  MaxUnavailable = 1
  Scenarios <- AllScenarios
  MaxFaults = 2
CHECK_DEADLOCK FALSE
INVARIANTS
  ResultsTrue
  ExhaustedIsEarned
  TimeBounded
PROPERTIES
  
  DoReturns
