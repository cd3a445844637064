CONSTANTS
  WORD_BYTES = 4
  Laps = 3
SPECIFICATION Spec
INVARIANTS
  TakenWhole
  TagInvariant
