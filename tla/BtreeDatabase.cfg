SPECIFICATION Spec
CONSTANTS
  PageCount = 10
  Images <- DatabaseImages
  Requests <- DatabaseRequests
  Recursive = FALSE
  Answers = {"OK", "CANCELLED", "DISCARD"}
  MaxFaults = 2
  MaxDepth = 11
INVARIANTS
  RowsInOrder
  DamageIsLocal
  TailsAreTrue
