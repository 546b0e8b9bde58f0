SPECIFICATION FairSpec
CONSTANTS
  r1 = r1
  r2 = r2
  r3 = r3
  PageCount = 6
  BlockSize = 2
  Sequences <- MCSequences
  Requests <- MCRequests
  Shapes <- MCShapes
  MaxContext = 6
  PrefillChunk = 2
CHECK_DEADLOCK FALSE
INVARIANTS
  TypeOK
  ReservationExact
  AdmittedNeverOom
  StepNeverErrs
  PositionsAgree
  WaiterLead
PROPERTIES
  ImplementsFairLifecycle
