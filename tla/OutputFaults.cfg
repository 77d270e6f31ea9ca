SPECIFICATION FairOutSpec
CONSTANTS
  PageCount = 6
  Images <- ShopImages
  Requests <- MasterFirst
  Recursive = FALSE
  Answers = {"OK", "CANCELLED", "DISCARD"}
  MaxFaults = 1
  MaxDepth = 7
  Names <- ShopNames
  Schema <- ShopSchema
  Masters <- NoMaster
  FlagSets <- NoFlags
  Preset = {2}
  Callback = {"OK", "IGNORE", "DISCARD"}
  Batch = 2
  MaxSqlFaults = 2
INVARIANTS
  TransactionOfOneTable
  LossIsOneBatch
  CancelIsReported
PROPERTIES
  PromiseIsKept
  OutputReturns
