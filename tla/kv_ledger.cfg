SPECIFICATION FairSpec
CONSTANTS
  Keys = {k1}
  Values = {v1, v2}
  Deleted = Deleted
  Absent = Absent
  NoRead = NoRead
  None = None
  MaxBlocks = 2
  MaxCrashes = 1
  MaxRollbacks = 1
INVARIANTS
  ChainIsDeterministic
  DatabasesMatchChain
  PvtStoreCoversBlocks
  PvtMatchesHash
  CommittedDataIsReadable
PROPERTY CatchesUp
CHECK_DEADLOCK FALSE
