SPECIFICATION HistorySpec
CONSTANTS
  Node = {a, b, c, d, e, f}
  Key = {0, 1, 2}
  BRANCHING_FACTOR = 2
  NULL = NULL
SYMMETRY NodeSymmetry
INVARIANTS
  TypeOK
  HoldsLive
  IndexCoherent
  OrderKept
  MinimumKept
  PushesLogarithmic
PROPERTIES
  ImplementsPQ
  DeletesThatNode
