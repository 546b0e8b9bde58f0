SPECIFICATION FairSpec
CONSTANTS
  c1 = c1
  Procs <- MCProcs
  PidOf <- MCPidOf
  MaxTries = 3
  MaxFaults = 1
  Overlap = FALSE
  Runners = {c1}
  Ids <- MCIds
  RunId <- MCRunId
  MaxTokens = 1
  MaxLost = 1
  Nobody = Nobody
  Strays = FALSE
CHECK_DEADLOCK FALSE
INVARIANTS
  TypeOK
  OwnerOnDisk
  JournalsVerify
  OpenMeansHandled
PROPERTIES
  RefusedOnlyByLive
  RecoverySealsOnlyDead
  RecordSpec
  AcceptedIsSealed
