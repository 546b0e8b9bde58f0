SPECIFICATION FairSpec
CONSTANTS
  Threads = {t1, t2}
  Operations = {"load", "unload"}
  MaxCalls = 2
  MaxCrashes = 0
  MaxGeneration = 6
CHECK_DEADLOCK FALSE
PROPERTIES
  HealthStillAnswers
