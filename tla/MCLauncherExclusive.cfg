CONSTANTS
  Instances = {a, b}
  Nobody = Nobody
SPECIFICATION Spec
INVARIANTS
  ReplExclusive
CHECK_DEADLOCK FALSE
