SPECIFICATION Spec
CONSTANTS
  v1 = v1
  v2 = v2
  v3 = v3
  VMs = {v1, v2}
  Migrations = {1, 2}
  Specs <- TwoVMs
  MaxInFlight = 1
  Faults = {"import"}
  MaxFaults = 1
  SameSecond = FALSE
PROPERTY CompletedVMKept
CHECK_DEADLOCK FALSE
