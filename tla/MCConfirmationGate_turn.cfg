SPECIFICATION FairSpec
CONSTANTS
  Calls <- TurnCalls
  Sensitive <- SensitiveCalls
  Replies <- TurnReplies
  Portal <- PortalReplies
  Settings <- AllSettings
  Faults <- AllFaults
PROPERTIES
  Implements
  CallsEnd
  RequestsClosed
CHECK_DEADLOCK FALSE
