SPECIFICATION Spec
CONSTANTS
  v1 = v1
  v2 = v2
  v3 = v3
  VMs = {v1}
  Migrations = {1, 2, 3}
  Specs <- HookedSpecs
  MaxInFlight = 1
  Faults = {"api", "crash", "delete", "edit", "import", "importDeleted", "provider"}
  MaxFaults = 1
  SameSecond = FALSE
INVARIANT SuccessIsReal
PROPERTY ImplementsLifecycle
CHECK_DEADLOCK FALSE
