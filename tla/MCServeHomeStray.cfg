SPECIFICATION Spec
CONSTANTS
  c1 = c1
  Procs <- MCProcs
  PidOf <- MCPidOf
  MaxTries = 3
  MaxFaults = 0
  Overlap = FALSE
  Runners = {c1}
  Ids <- MCIds
  RunId <- MCRunId
  MaxTokens = 1
  MaxLost = 0
  Nobody = Nobody
  Strays = TRUE
CHECK_DEADLOCK FALSE
PROPERTIES
  RecoverySealsOnlyDead
