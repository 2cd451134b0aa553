SPECIFICATION FairSpec
CONSTANTS
  Nodes <- MixedNodes
  Edges <- MixedEdges
  Source <- MixedSource
  Target <- MixedTarget
  Handle <- MixedHandle
  TopoOrder <- MixedOrder
  EndNodes <- MixedEnds
  HumanNodes <- MixedHumans
  Strategy <- MixedStrategy
  Retries <- MixedRetries
  Misconfigured <- MixedMisconfigured
  Fallible <- MixedFallible
  Choices <- MixedChoices
  MaxConcurrency = 1
  Disruptions <- AllDisruptions
INVARIANTS
  QuietAfterVerdict
  PathsRespected
  NeverStuck
  CompletedIsSound
PROPERTIES
  ImplementsDagRun
  StopHaltsLaunching
  RunEnds
