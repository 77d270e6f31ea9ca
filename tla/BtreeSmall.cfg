SPECIFICATION FairSpec
CONSTANTS
  PageCount = 3
  Images <- SmallImages
  Requests <- SmallRequests
  Recursive = FALSE
  Answers = {"OK", "CANCELLED", "DISCARD"}
  MaxFaults = 0
  MaxDepth = 4
INVARIANTS
  TypeOK
  CheckingAccounted
  CheckedLeafIsComplete
  NoReentry
PROPERTIES
  Terminates
CHECK_DEADLOCK FALSE
