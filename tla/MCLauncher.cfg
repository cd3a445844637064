CONSTANTS
  Instances = {a, b}
  Nobody = Nobody
SPECIFICATION FairSpec
INVARIANTS
  RestingStateRestored
  HeldByOne
  OwnFileUnlessOverlapped
PROPERTIES
  BorrowedIsReturned
CHECK_DEADLOCK FALSE
