CONSTANTS
  DEVICE_BLOCKS = 3
  Contents = {v1}
  Blank = Blank
  IdentifyData = IdentifyData
  DATA_PAGES = 3
  BLOCKS_PER_PAGE = 1
  PRP_LIST_CAPACITY = 2
  CID_SPACE = 4
  LossThreshold = 1
  Slbas = {0, 2}
  Counts = {0, 1, 3, 4}
  MaxIo = 2
  MaxAdmin = 1
SPECIFICATION Spec
INVARIANTS
  OkWriteStored
CHECK_DEADLOCK FALSE
