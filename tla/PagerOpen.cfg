SPECIFICATION PagerSpec
CONSTANTS
  Disks <- AllDisks
  Confs <- AllConfs
  Default = 4096
  CodecSize = 4096
  Reserve = 48
  IntLimit = 2048
  MaxFaults = 1
INVARIANTS
  HeaderTrusted
  SaltFlagTrue
  PagerFitsFile
  BooksBalance
  AcquiredIsAsked
