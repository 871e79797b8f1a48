SPECIFICATION ISpec
CONSTANTS
  small = small
  large = large
  Data = {small, large}
  DataSize <- MCDataSize
  MaxFileSize = 6
  CacheBytes = 4
  FirstBlock = 0
  CallerRetries = TRUE
  Failing = {"append", "sync"}
  MaxHeight = 4
  MaxCrashes = 0
  MaxFailures = 1
INVARIANTS
  ReadsTheChain
  FailsOnlyWhenEmpty
PROPERTIES
  ReaderCatchesUp
  CloseWakesReader
CHECK_DEADLOCK FALSE
