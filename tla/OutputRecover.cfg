SPECIFICATION OutSpec
CONSTANTS
  PageCount = 6
  Images <- ShopImages
  Requests <- MasterFirst
  Recursive = FALSE
  Answers = {"OK", "CANCELLED"}
  MaxFaults = 2
  MaxDepth = 7
  Names <- ShopNames
  Schema <- ShopSchema
  Masters <- AllMasters
  FlagSets <- AnyFlags
  Preset = {2}
  Callback = {"OK"}
  Batch = 2
  MaxSqlFaults = 0
INVARIANTS
  OutTypeOK
  ReadableIsRecovered
