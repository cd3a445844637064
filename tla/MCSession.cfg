CONSTANTS
  DEVICE_BLOCKS = 3
  Contents = {v1}
  Blank = Blank
  IdentifyData = IdentifyData
  DATA_PAGES = 2
  BLOCKS_PER_PAGE = 1
  PRP_LIST_CAPACITY = 1
  CID_SPACE = 2
  LossThreshold = 1
  Slbas = {0, 1}
  Counts = {0, 1, 2}
  MaxIo = 2
  MaxAdmin = 1
  File = {0, 1}
SPECIFICATION SessionFairSpec
INVARIANTS
  ConfinedThroughout
  CommandsStayInFile
PROPERTIES
  BackAtPrompt
CHECK_DEADLOCK FALSE
