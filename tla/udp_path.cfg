SPECIFICATION UFairSpec
CONSTANTS
  client = client
  Creator <- MCCreator
  BufferBytes = 6
  DatagramBytes = 9
  StampBytes = 2
  Message <- MCAll
  QueueLimit = 1
  MaxLost = 1
  MaxDuplicated = 1
INVARIANTS
  CopiesAreConserved
PROPERTIES
  PathIsDrained
CHECK_DEADLOCK FALSE
