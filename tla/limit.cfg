SPECIFICATION Spec
CONSTANTS
  v1 = v1
  v2 = v2
  v3 = v3
  VMs = {v1, v2}
  Migrations = {1}
  Specs <- TwoVMs
  MaxInFlight = 1
  Faults = {}
  MaxFaults = 0
  SameSecond = FALSE
INVARIANT WithinLimit
CHECK_DEADLOCK FALSE
