SPECIFICATION Spec
CONSTANTS
  ConfigBlocks = {0, 1, 2}
  Listing = {0, 2}
  MaxNet = 3
  MaxJoins = 2
  MaxRemovals = 1
  MaxCrashes = 2
  MaxFailures = 2
INVARIANTS
  OneRole
  OnboardedBeforeActive
  JoinSurvives
PROPERTIES
  RemoveReturns
  JoinBecomesMember
CHECK_DEADLOCK FALSE
