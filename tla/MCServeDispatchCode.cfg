SPECIFICATION Spec
CONSTANTS
  Requests = {r1, r2}
  Streaming = {r1}
  Cancellers = {c1}
  MaxInflight = 2
  Budget <- MCBudget
  MaxCrashes = 0
CHECK_DEADLOCK FALSE
INVARIANTS
  AdmissionCode
