SPECIFICATION RSpec
CONSTANTS
  small = small
  large = large
  Data = {small, large}
  DataSize <- MCDataSize
  MaxFileSize = 6
  CacheBytes = 5
  FirstBlock = 0
  CallerRetries = FALSE
  Failing = {"append", "sync", "saveInfo", "index"}
  MaxHeight = 4
  MaxCrashes = 2
  MaxFailures = 1
  BatchLimit = 2
  MaxCommands = 2
INVARIANTS
  OpenSucceeds
  RetrievesWhatWasAdded
  IdleIsInSync
  KeepsUpToTarget
PROPERTIES
  HeightStaysRecorded
  IsDurableLog
CHECK_DEADLOCK FALSE
