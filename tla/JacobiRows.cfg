SPECIFICATION JacobiSpec
CONSTANTS
  NP = 3
  ROWS = 6
  WIDTH = 2
  L = 2
  LINUX = FALSE
INVARIANT
  BordersFresh
CHECK_DEADLOCK FALSE
