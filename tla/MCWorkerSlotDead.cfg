SPECIFICATION Spec
CONSTANTS
  Threads = {t1, t2}
  Operations = {"complete"}
  MaxCalls = 2
  MaxCrashes = 1
  MaxGeneration = 8
CHECK_DEADLOCK FALSE
PROPERTIES
  NextRequestStartsWorker
