SPECIFICATION MasterSpec
CONSTANTS
  Paths = {"backup"}
  Schemas <- SomeSchemas
  Keys = {"none", "secret"}
  Filters <- SomeFilters
  InBuf = 2
  MaxFaults = 2
  Nothing = Nothing
  Junk = Junk
  Refused = Refused
INVARIANTS
  FilesAreSaves
  RefillAtStart
PROPERTIES
  ActsAsStore
