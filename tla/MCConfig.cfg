SPECIFICATION Spec
CONSTANTS
  Width = 3
  TargetIPs <- MCTargetIPs
  Files <- MCFiles
  GlobalValues <- MCGlobalValues
  LBValues <- MCLBValues
  Contents <- MCContents
  MaxChanges = 2
INVARIANTS RunsSafely PairMatches RulesUnambiguous
PROPERTY SaneBoots
CHECK_DEADLOCK FALSE
