SPECIFICATION Spec
CONSTANTS
  Clients = {"c1"}
  Calls = {k1}
  Ups = {"u", "v"}
  Addrs = {"x", "y"}
  Inputs <- MCInputs
  PoolSize = 1
  PruneOrphans = TRUE
  MaxCalls = 3
  Attempts = 2
  MaxFaults = 2
  MaxLate = 0
  None = None
INVARIANT TypeOK
PROPERTIES SyncEnsures KeepsServing
CHECK_DEADLOCK FALSE
