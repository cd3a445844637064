CONSTANTS
  QUEUE_DEPTH = 3
  CID_SPACE = 4
  MAX_SPINS = 1
  MaxCommands = 6
SPECIFICATION FairSpec
INVARIANTS
  InductiveInvariant
  PhaseTagExact
  AcceptedIsOwn
  FetchesInOrder
  MismatchOnlyAfterTimeout
PROPERTIES
  CallReturns
  ImplementsChannel
CHECK_DEADLOCK FALSE
