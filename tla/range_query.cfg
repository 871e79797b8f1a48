CONSTANTS
  MaxDegree = 2
  MaxResults = 30
SPECIFICATION Spec
INVARIANT VerdictIsExact
CHECK_DEADLOCK FALSE
