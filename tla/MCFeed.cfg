SPECIFICATION Spec
CONSTANTS
  s1 = s1
  p1 = p1
  n1 = n1
  Absent = Absent
  Services = {s1}
  Pods = {p1}
  Nodes = {n1}
  Objs <- MCObjs
  Cap = 1
  MaxChanges = 2
  MaxBreaks = 1
INVARIANT ReplicaFollows
PROPERTIES FeedSettles WatchRefined
CHECK_DEADLOCK FALSE
