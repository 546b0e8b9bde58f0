SPECIFICATION FairSpec
CONSTANTS
  changing = changing
  other = other
  Ids <- MCIds
  Rows <- MCRows
  Size = 2
  MaxRemovals = 1
  MaxFaults = 3
INVARIANTS
  TypeOK
  KeepsACopy
PROPERTIES
  SuccessIsUsable
  RetriesRepair
