SPECIFICATION RemoteSpec
CONSTANTS
  v1 = v1
  v2 = v2
  g1 = g1
  VMs = {v1, v2}
  Groups = {g1}
  MirrorFaults = {"db", "connection", "restart"}
  MaxMirrorFaults = 1
  MaxChanges = 1
  Plan <- MCPlan
  Rows <- MCRows
  Uses <- MCUses
  Entries <- MCEntries
  HostLists <- MCHostLists
  Provisioners <- MCProvisioners
  Suffix <- MCSuffix
  Faults = {"api", "crash", "delete", "move", "inventory", "classes"}
  MaxFaults = 1
INVARIANTS MirrorTypeOK MirrorAgrees LoadedWhenConsistent AnalysisIsDue
INVARIANTS ImportKeepsItsSecret ImportIsOurs MappedAsPlanned SecretFitsImport
PROPERTIES SourceIsMirrored ImportsEnd
CHECK_DEADLOCK FALSE
