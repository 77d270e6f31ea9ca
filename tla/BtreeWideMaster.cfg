SPECIFICATION Spec
CONSTANTS
  PageCount = 3
  Images <- WideMasterImages
  Requests <- MasterFirst
  Recursive = FALSE
  Answers = {"OK"}
  MaxFaults = 0
  MaxDepth = 5
INVARIANTS
  NoErrorLosesNoRow
