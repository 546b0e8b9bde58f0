SPECIFICATION FairSpec
CONSTANTS
  Requests = {r1, r2}
  Streaming = {r1}
  Cancellers = {c1}
  MaxInflight = 2
  Budget <- MCBudget
  MaxCrashes = 1
CHECK_DEADLOCK FALSE
INVARIANTS
  TypeOK
  OneAnswer
  WaiterHasReply
  StreamNeverContradicts
  AckMeansCancelled
  AbandonedIsCancelled
PROPERTIES
  EveryWaiterAnswered
