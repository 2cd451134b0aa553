SPECIFICATION FairSpec
CONSTANTS
  MaxSteps = 3
  MaxAbandoned = 2
  Goals = {"report"}
  MaxConcurrency = 2
  MaxRounds = 3
  MaxInjects = 1
  Verify <- Both
  Faults <- AllFaults
  MaxFaults = 1
INVARIANTS
  BuiltOnFinished
PROPERTIES
  ProgressKept
  CascadesHaveCauses
  TurnEnds
CHECK_DEADLOCK FALSE
