SPECIFICATION FairSpec
CONSTANTS
  Runs <- FourRuns
  Requested <- InPairs
  Mode <- Endpoints
  Home <- OneHome
  Workers <- TwoWorkers
  MaxConcurrentRuns = 1
  MaxRunsPerMinute = 1
  MaxParallel = 1
  Faults <- AllFaults
INVARIANTS
  GivenBack
  FinishedRunSettled
  HookTruthful
PROPERTIES
  RunsAnswered
CHECK_DEADLOCK FALSE
