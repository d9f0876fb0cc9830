SPECIFICATION DeleteSpec
CONSTANTS
  Node = {a, b, c, d}
  Key = {0, 1, 2, 3}
  MAXRANK = 5
  NULL = NULL
CHECK_DEADLOCK FALSE
INVARIANTS
  HoldsLive
