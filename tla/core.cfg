SPECIFICATION Spec
ACTION_CONSTRAINT CoreSteps
CONSTANTS
  v1 = v1
  v2 = v2
  v3 = v3
  VMs = {v1, v2, v3}
  Migrations = {1, 2}
  Specs <- CoreSpecs
  MaxInFlight = 1
  Faults = {"api", "crash", "edit", "import", "provider"}
  MaxFaults = 1
  SameSecond = TRUE
INVARIANTS TypeOK ImportBacksPhase OutcomeAgrees MigrationOutcomeReal InFlightBound
PROPERTY EndedIsFrozen
CHECK_DEADLOCK FALSE
