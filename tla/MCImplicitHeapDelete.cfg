SPECIFICATION HistorySpec
CONSTANTS
  Node = {a, b, c, d, e, f}
  Key = {0, 1}
  BRANCHING_FACTOR = 2
  NULL = NULL
SYMMETRY NodeSymmetry
INVARIANTS
  FindMinCorrect
