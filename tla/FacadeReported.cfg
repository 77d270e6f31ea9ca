SPECIFICATION FacadeSpec
CONSTANTS
  Paths = {"backup", "old"}
  Schemas <- Versions
  Keys = {"none", "secret"}
  Filters <- AllOnly
  Nothing = Nothing
  Junk = Junk
  Refused = Refused
  RowIds = {1, 2}
  Idents = {"v1"}
  Small <- SmallBackups
  MaxCalls = 3
  MaxFaults = 2
INVARIANTS
  ReportedBackupLoads
CHECK_DEADLOCK FALSE
