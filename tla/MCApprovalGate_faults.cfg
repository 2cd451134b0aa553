SPECIFICATION GateFairSpec
CONSTANTS
  q1 = q1
  q2 = q2
  q3 = q3
  Requests <- ThreeRequests
  MaxAttempts = 2
  Contexts <- AnyContext
  Strikes <- AllFaults
INVARIANTS
  AnswerFinal
PROPERTIES
  KeepsHumanGate
  GateEnds
CHECK_DEADLOCK FALSE
