SPECIFICATION Spec
CONSTANTS
  c1 = c1
  Procs <- MCProcs
  PidOf <- MCPidOf
  MaxTries = 3
  MaxFaults = 0
  Overlap = TRUE
  Runners = {c1}
  Ids <- MCIds
  RunId <- MCRunId
  MaxTokens = 1
  MaxLost = 0
  Nobody = Nobody
  Strays = FALSE
CHECK_DEADLOCK FALSE
INVARIANTS
  OneOwner
