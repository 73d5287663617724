SPECIFICATION MCFairSpec
CONSTANTS
  Services = {"a", "b"}
  SvcObjs <- MCSvcPort
  Pods = {"p"}
  PodObjs <- MCPodFixed
  Nodes = {"n1"}
  NodeObjs <- MCNodeObjs
  LBs <- MCLBs
  LBNames <- MCLBs
  Ups = {"u"}
  IPs = {"i1"}
  Ports = {1}
  NoIP = NoIP
  NoNode = NoNode
  IPReplacement <- MCIdentity
  LBDefault <- MCNoDefault
  GlobalDefault = Absent
  AllowEmpty = {"lb"}
  Prune = {"lb"}
  Workers = {w1}
  Syncers = {r1}
  SyncLBs <- MCAllLBs
  GainLabels = FALSE
  Resync = FALSE
  MaxChanges = 2
  MaxFaults = 1
  Stragglers = TRUE
  MaxRestarts = 0
  Absent = Absent
PROPERTIES EventuallyConverged FailStatic RetriesEnd
