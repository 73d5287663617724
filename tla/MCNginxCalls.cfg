SPECIFICATION FairSpec
CONSTANTS
  Clients = {"c1"}
  Calls = {k1, k2}
  Ups = {"u"}
  Addrs = {"x"}
  Inputs <- MCInputsSmall
  PoolSize = 1
  PruneOrphans = TRUE
  MaxCalls = 2
  Attempts = 2
  MaxFaults = 2
  MaxLate = 1
  None = None
INVARIANT PoolBound
PROPERTIES CallsReturn OnlyAsked PortRefined
CHECK_DEADLOCK FALSE
