CONSTANTS
  Users <- OneUser
  Subs <- OneSub
  Owner <- OneEach
  Prices = {"pro", "team"}
  Listed = {"pro"}
  Workers = {"w1", "w2"}
  MaxEvents = 3
  MaxPeriods = 1
  Postures = {"off", "freemium"}
  Faults = {"fail"}
SPECIFICATION FairSpec
INVARIANTS
  AppliedOnce
  MirrorsProvider
PROPERTIES
  KeepsPaidWindow
  EndedIsDemoted
CHECK_DEADLOCK FALSE
