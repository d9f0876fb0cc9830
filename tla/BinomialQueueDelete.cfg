SPECIFICATION DeleteSpec
CONSTANTS
  Node = {a, b, c}
  Key = {0, 1}
  MAXRANK = 2
  NULL = NULL
PROPERTIES
  DeletesThatNode
