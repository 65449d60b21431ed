SPECIFICATION MirrorSpec
CONSTANTS
  v1 = v1
  v2 = v2
  g1 = g1
  VMs = {v1, v2}
  Groups = {}
  MirrorFaults = {"connection"}
  MaxMirrorFaults = 1
  MaxChanges = 2
INVARIANT NoGhosts
CHECK_DEADLOCK FALSE
