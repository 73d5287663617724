SPECIFICATION FairSpec
CONSTANTS
  Services = {"a"}
  SvcObjs <- MCSvcShared
  Pods = {"p"}
  PodObjs <- MCPodFixed
  Nodes = {"n1"}
  NodeObjs <- MCNodeObjs
  LBs <- MCLBs
  LBNames <- MCLBs
  Ups = {"u"}
  IPs = {"i1"}
  Ports = {1}
  NoIP = NoIP
  NoNode = NoNode
  IPReplacement <- MCIdentity
  LBDefault <- MCNoDefault
  GlobalDefault = Absent
  AllowEmpty = {"lb"}
  Prune = {}
  Workers = {w1}
  Syncers = {r1}
  SyncLBs <- MCAllLBs
  GainLabels = FALSE
  Resync = TRUE
  MaxChanges = 2
  MaxFaults = 0
  Stragglers = FALSE
  MaxRestarts = 0
  Absent = Absent
PROPERTY DeletedDrained
