SPECIFICATION Spec
CONSTANTS
  v1 = v1
  v2 = v2
  v3 = v3
  VMs = {v1, v2}
  Migrations = {1}
  Specs <- EditedSpecs
  MaxInFlight = 1
  Faults = {"import", "edit"}
  MaxFaults = 2
  SameSecond = FALSE
PROPERTY OneExecution
CHECK_DEADLOCK FALSE
