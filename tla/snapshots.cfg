SPECIFICATION SFairSpec
CONSTANTS
  MaxBlock = 3
  MaxPeerCrashes = 2
  MaxFailures = 2
INVARIANTS
  SnapshotIsConsistent
PROPERTIES
  CommitResumes
  RequestIsServed
CHECK_DEADLOCK FALSE
