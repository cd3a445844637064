CONSTANTS
  U64 = 15
  MaxExtents = 2
  Maps <- MCMaps
SPECIFICATION MapSpec
INVARIANTS
  LoadsPrefix
  LoadsComplete
  AcceptsOnlyTheMapped
