SPECIFICATION SharedSpec
CONSTANTS
  Types = {n}
  NodeType = n
  Queue = {q1, q2}
  PQ_MEM_WIDTH = 2
  mm_sizes <- MCSizes
  Unwritten = Unwritten
INVARIANTS
  QueuesDisjoint
