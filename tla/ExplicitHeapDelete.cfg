SPECIFICATION DeleteSpec
CONSTANTS
  Node = {a, b, c, d, e}
  Key = {0, 1}
  BRANCHING_FACTOR = 2
  NULL = NULL
INVARIANTS
  Linked
