SPECIFICATION Spec
CONSTANTS
  Kinds = {"Fibonacci", "grown Fibonacci", "binomial", "explicit 2",
           "explicit 4", "quake", "rank-pairing 1", "rank-pairing 2", "violation",
           "weak", "grown weak", "strict", "grown strict"}
  Node = {a, b, c, d, e, f, g, h, i}
  MoreNodes = {a, b, c, d, e, f, g, h}
  SomeNodes = {a, b, c, d, e}
  Key = {0, 1, 2, 3, 4, 5, 6, 7, 8, 9}
  FewKeys = {0, 1, 2}
  SomeKeys = {0, 1}
  DistinctKeys = {0, 1, 2, 3, 4}
  MaxLoss = 2
  Other = {p, q, r, s, t, u, v}
  MAXRANK = 5
  UINT32_MAX = 65535
  NULL = NULL
VIEW Shape
CHECK_DEADLOCK FALSE
INVARIANTS
  TypeOK
  HoldsLive
  Linked
  TreeShapes
  RootsTable
  HeapOrder
  FindMinCorrect
PROPERTIES
  ImplementsPQ
  DeletesThatNode
