SPECIFICATION Spec
CONSTANTS
  Runs <- FourRuns
  Requested <- InPairs
  Mode <- Endpoints
  Home <- OneHome
  Workers <- TwoWorkers
  MaxConcurrentRuns = 2
  MaxRunsPerMinute = 2
  MaxParallel = 2
  Faults <- SilenceOnly
INVARIANTS
  CompletedByEngine
CHECK_DEADLOCK FALSE
