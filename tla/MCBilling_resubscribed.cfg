CONSTANTS
  Users <- OneUser
  Subs <- TwoSubs
  Owner <- BothHis
  Prices = {"pro"}
  Listed = {"pro"}
  Workers = {"w1"}
  MaxEvents = 3
  MaxPeriods = 1
  Postures = {"freemium", "paid_only"}
  Faults = {}
SPECIFICATION Spec
PROPERTIES PayingKeepsPlan
CHECK_DEADLOCK FALSE
