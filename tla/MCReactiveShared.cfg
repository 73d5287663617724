SPECIFICATION CalmSpec
CONSTANTS
  Services = {"a", "b"}
  SvcObjs <- MCSvcShared
  Pods = {"p"}
  PodObjs <- MCPodObjs
  Nodes = {"n1"}
  NodeObjs <- MCNodeObjs
  LBs <- MCLBs
  LBNames <- MCLBs
  Ups = {"u"}
  IPs = {"i1", "i2"}
  Ports = {1}
  NoIP = NoIP
  NoNode = NoNode
  IPReplacement <- MCIdentity
  LBDefault <- MCDefault
  GlobalDefault = Absent
  AllowEmpty = {"lb"}
  Prune = {}
  Workers = {w1}
  Syncers = {}
  SyncLBs <- MCAllLBs
  GainLabels = FALSE
  Resync = TRUE
  MaxChanges = 3
  MaxFaults = 1
  Stragglers = FALSE
  MaxRestarts = 0
  Absent = Absent
INVARIANTS TypeOK RegistryAgrees QuietConverged QuietStateMatches
CHECK_DEADLOCK FALSE
