SPECIFICATION Spec
CONSTANTS
  Queries <- MCQueries
  MaxInt = 3
  MaxExact = 4
  MaxDec = 6
INVARIANTS
  FramesExact
CHECK_DEADLOCK FALSE
