SPECIFICATION Spec
CONSTANTS
  Threads = {t1, t2, t3}
  Operations = {"complete", "load", "unload"}
  MaxCalls = 5
  MaxCrashes = 0
  MaxGeneration = 8
SYMMETRY Symmetric
CHECK_DEADLOCK FALSE
INVARIANTS
  UnloadCancelsNothing
