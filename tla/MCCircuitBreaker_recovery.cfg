CONSTANTS
  Callers <- FourCallers
  FailureThreshold = 3
  HalfOpenMaxCalls = 2
SPECIFICATION BreakerFairSpec
INVARIANTS
  RefusesJustly
PROPERTIES
  Recovers
