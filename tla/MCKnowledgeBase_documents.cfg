CONSTANTS
  Docs <- TwoDocuments
  Initial <- AllOrNone
  Texts <- OneText
  ChunksOf <- Repeats
  Edited = "edited"
  Callers = {"c1", "c2"}
  Ingests = {"i1", "i2"}
  MaxRequests = 3
  Faults = {"ingest", "search", "vectors", "disk", "database", "crash"}
SPECIFICATION FairSpec
INVARIANTS
  ReadyIsStored
  DeletedIsForgotten
  CountersRight
PROPERTIES
  Settles
CHECK_DEADLOCK FALSE
