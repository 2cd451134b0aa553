SPECIFICATION SchedulerFairSpec
CONSTANTS
  Processes <- TwoProcesses
  Workflows <- TwoWorkflows
  MaxConcurrent = 1
  Fires <- ThreeFires
  Mishaps <- StopAndDb
INVARIANTS
  LaunchedOnce
  OneWaiterAtMost
PROPERTIES
  FiresAreServed
CHECK_DEADLOCK FALSE
