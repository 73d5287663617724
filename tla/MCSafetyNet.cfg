SPECIFICATION CalmSpec
CONSTANTS
  Services = {"a", "b"}
  SvcObjs <- MCSvcShared
  Pods = {"p1", "p2"}
  PodObjs <- MCTwoPods
  Nodes = {"n1", "n2"}
  NodeObjs <- MCTwoNodes
  LBs <- MCLBs
  LBNames <- MCLBs
  Ups = {"u"}
  IPs = {"i1", "i2"}
  Ports = {1}
  NoIP = NoIP
  NoNode = NoNode
  IPReplacement <- MCIdentity
  LBDefault <- MCNoDefault
  GlobalDefault = Absent
  AllowEmpty = {}
  Prune = {}
  Workers = {w1}
  Syncers = {}
  SyncLBs <- MCAllLBs
  GainLabels = FALSE
  Resync = FALSE
  MaxChanges = 5
  MaxFaults = 0
  Stragglers = FALSE
  MaxRestarts = 0
  Absent = Absent
INVARIANT QuietConverged
PROPERTY PushKeepsSome
CHECK_DEADLOCK FALSE
