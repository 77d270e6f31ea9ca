SPECIFICATION FairSpec
CONSTANTS
  PageCount = 5
  Images <- MasterImages
  Requests <- MasterRequests
  Recursive = TRUE
  Answers = {"OK", "CANCELLED"}
  MaxFaults = 1
  MaxDepth = 6
INVARIANTS
  CheckingAccounted
  NoReentry
  RowsInOrder
  DamageIsLocal
PROPERTIES
  Terminates
