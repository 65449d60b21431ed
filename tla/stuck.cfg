SPECIFICATION FairSpec
CONSTANTS
  v1 = v1
  v2 = v2
  v3 = v3
  VMs = {v1}
  Migrations = {1, 2}
  Specs <- OneSpec
  MaxInFlight = 1
  Faults = {"import"}
  MaxFaults = 1
  SameSecond = FALSE
PROPERTY EveryMigrationIsExecuted
CHECK_DEADLOCK FALSE
