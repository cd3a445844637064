CONSTANTS
  DWORD = 4
  USIZE_BITS = 29
  BASE = 2097152
  Namespaces <- MCNamespaces
  Bars <- MCBars
  Slbas = {6}
  Counts <- MCCounts
  Lengths <- MCLengths
  Slots = {0, 63}
SPECIFICATION Spec
INVARIANTS
  CommandIsTheCall
  OwnArea
  NoPanic
CHECK_DEADLOCK FALSE
