CONSTANTS
  DEVICE_BLOCKS = 4
  LBA_SIZE = 2
  File = {1, 2}
  MapSizes = {0, 1, 2, 4}
  MAX_TRANSFER_BYTES = 4
  U16_MAX = 2
  Old = Old
  Zero = Zero
  Chars = {x}
  Lbas = {0, 1, 2}
  Counts = {0, 1, 2, 3}
  Offsets = {0, 1, 2}
  Lengths = {1, 2, 3, 5}
  MaxCommands = 2
SPECIFICATION Spec
INVARIANTS
  ConfinedWhenSizesAgree
  NoPanicWhenSizesAgree
  PokeKeepsRest
  WriteZeroesTail
CHECK_DEADLOCK FALSE
