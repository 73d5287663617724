SPECIFICATION FairSpec
CONSTANTS
  Replicas = {r1, r2}
  Modes <- MCAllModes
  None = None
  Dead = Dead
  MaxFaults = 2
INVARIANTS OverlapOnlyAtRelease ReportsLeading
PROPERTIES SettlesOnLeader AllReady
CHECK_DEADLOCK FALSE
