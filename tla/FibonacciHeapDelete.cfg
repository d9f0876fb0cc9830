SPECIFICATION DeleteSpec
CONSTANTS
  Node = {a, b, c, d}
  Key = {0, 1}
  MAXRANK = 4
  UINT32_MAX = 65535
  NULL = NULL
INVARIANTS
  RankFitsTable
