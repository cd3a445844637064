CONSTANTS
  U64 = 5
  MaxExtents = 3
SPECIFICATION FairSpec
INVARIANTS
  WalkInvariant
  AcceptsOnlyTheFile
  RefusesOnlyOthers
PROPERTIES
  CheckReturns
CHECK_DEADLOCK FALSE
