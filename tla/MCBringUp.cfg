CONSTANTS
  MAX_POLLS = 3
  EntrySizes <- MCEntrySizes
  QueueLimits <- MCQueueLimits
SPECIFICATION FairSpec
INVARIANTS
  TypeOK
  ProgrammedWhileDisabled
  CommandsWhenReady
  NothingInherited
  OpenIsComplete
  NoDmaAfterUnmap
PROPERTIES
  OpenReturns
CHECK_DEADLOCK FALSE
