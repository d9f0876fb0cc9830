SPECIFICATION Spec
CONSTANTS
  Node = {a, b, c, d, e, f}
  Key = {0, 1, 2}
  NULL = NULL
VIEW Shape
INVARIANTS
  TypeOK
  Linked
  HoldsLive
  HeapOrder
  FindMinCorrect
PROPERTIES
  ImplementsPQ
  DeletesThatNode
