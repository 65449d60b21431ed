SPECIFICATION LookupsSpec
CONSTANTS
  v1 = v1
  f1 = f1
  f2 = f2
  n1 = n1
  n2 = n2
  p1 = p1
  p2 = p2
  VMs = {v1}
  Folders = {f1, f2}
  MaxEvents = 2
  MaxDepth = 4
  VNICs = {n1, n2}
  PNICs = {p1, p2}
  Switches = {s1}
  PortGroups = {"group"}
  DPortGroups = {"dgroup", "late"}
  Mirrored = {"dgroup"}
  DSwitch = "dswitch"
  Uplinks <- OneOrBoth
  Speeds = {0, 1}
  MTUs = {1, 2}
  MaxHostChanges = 2
  MaxChanges = 3
  MaxFaults = 1
  PlanVMs = {"a", "b"}
  MaxEdits = 2
  MaxExecutions = 3
INVARIANTS TreeTypeOK HostTypeOK OcpTypeOK ReferencesTypeOK
INVARIANTS AnswerIsRegular AdaptersComplete FoundIsOwn SucceededMeansMigrated
PROPERTIES RequestsEnd NeverBackwards OcpConverges
CHECK_DEADLOCK FALSE
