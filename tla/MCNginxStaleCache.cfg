SPECIFICATION Spec
CONSTANTS
  Clients = {"c1"}
  Calls = {k1, k2}
  Ups = {"u", "v"}
  Addrs = {"x"}
  Inputs <- MCInputsSmall
  PoolSize = 2
  PruneOrphans = FALSE
  MaxCalls = 3
  Attempts = 3
  MaxFaults = 0
  MaxLate = 0
  None = None
PROPERTY SyncEnsures
CHECK_DEADLOCK FALSE
