CONSTANTS
  Turns <- FourTurns
  Mode <- BothModes
  Conversations <- InPairs
  Beside <- Overlapping
  Finishing <- NativeFinishes
  MaxIterations <- Lengths
  MaxContinuations = 1
  Calls <- TwoCalls
  Endpoint <- SameHost
  Background <- InBackground
  Batches <- SomeBatches
  BlockAt = 2
  EndpointBlockAt = 3
  Messages = {"m1"}
  NoTurn = "none"
  Faults = {"model", "leave", "budget"}
SPECIFICATION FairSpec
INVARIANTS
  InterruptsAnswered
  RecallHolds
  VerificationInternal
  AnswerAwaitsTasks
  WithinLimits
PROPERTIES
  TurnEnds
CHECK_DEADLOCK FALSE
