SPECIFICATION MCSpec
CONSTANTS
  Specs = {"vsphere", "host"}
  Faults = {"api", "crash", "edit", "delete", "secret", "rotate", "outage"}
  MaxFaults = 2
  Kinds = {"Host", "NetworkMap", "StorageMap", "Plan", "Networks", "StorageClasses"}
  RefLists <- Refs
INVARIANTS DependentTypeOK ContainerIsCurrent FileIsTheContainers ReadyIsBacked ReadyIsEarned ReadyIsShared
PROPERTIES ReadyIsReached ReadyInTheEnd
CHECK_DEADLOCK FALSE
