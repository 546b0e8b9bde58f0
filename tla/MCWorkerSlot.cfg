SPECIFICATION FairSpec
CONSTANTS
  Threads = {t1, t2}
  Operations = {"complete", "load", "unload", "drain", "shutdown"}
  MaxCalls = 4
  MaxCrashes = 1
  MaxGeneration = 10
CHECK_DEADLOCK FALSE
INVARIANTS
  TypeOK
  OccupancyExact
  WaitersHaveReader
  StartingHasStarter
  NoOrphanWorker
PROPERTIES
  EveryCallReturns
