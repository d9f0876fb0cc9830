SPECIFICATION GrownSpec
CONSTANTS
  Node = {a, b, c, d, e, f, g}
  Record = {p, q, r, s, t, u}
  Key = {0, 1, 2, 3}
  Low = {0, 1, 2, 3}
  MaxLoss = 2
  UINT32_MAX = 65535
  NULL = NULL
CHECK_DEADLOCK FALSE
INVARIANTS
  RankCounts
