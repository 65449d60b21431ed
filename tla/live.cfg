SPECIFICATION LiveSpec
CONSTANTS
  v1 = v1
  v2 = v2
  v3 = v3
  VMs = {v1, v2}
  Migrations = {1, 2}
  Specs <- LiveSpecs
  MaxInFlight = 1
  Faults = {"api", "crash", "edit", "import", "importDeleted", "provider"}
  MaxFaults = 2
  SameSecond = FALSE
PROPERTY EveryMigrationEnds
CHECK_DEADLOCK FALSE
