SPECIFICATION FairReactiveSpec
CONSTANTS
  Services = {"a", "b"}
  SvcObjs <- MCSvcMoving
  Pods = {}
  PodObjs <- MCPodFixed
  Nodes = {}
  NodeObjs <- MCNodeObjs
  LBs <- MCLBs
  LBNames <- MCNamesTypo
  Ups = {"u", "v"}
  IPs = {"i1"}
  Ports = {1}
  NoIP = NoIP
  NoNode = NoNode
  IPReplacement <- MCIdentity
  LBDefault <- MCNoDefault
  GlobalDefault = Absent
  AllowEmpty = {}
  Prune = {}
  Workers = {w1, w2}
  Syncers = {}
  SyncLBs <- MCAllLBs
  GainLabels = TRUE
  Resync = FALSE
  MaxChanges = 3
  MaxFaults = 1
  Stragglers = FALSE
  MaxRestarts = 1
  Absent = Absent
INVARIANTS OneWorkerPerKey RegistryAgrees
PROPERTIES EngineRefined EngineServes RetriesEnd
CHECK_DEADLOCK FALSE
