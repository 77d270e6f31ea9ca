SPECIFICATION Spec
CONSTANTS
  Leaves <- SomeLeaves
  Digits = 4
  MaxVarint = 4
  IntLimit = 32
  First = 2
  MaxLeaf = 6
  MinLocal = 2
  PerPage = 3
  Garbage = {0, 7}
  MaxBehind = 2
  MaxFaults = 1
  Columns = 3
  IpkColumn = 1
INVARIANTS
  ProvidedAreInserted
CHECK_DEADLOCK FALSE
