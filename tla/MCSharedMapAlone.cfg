SPECIFICATION AloneSpec
CONSTANTS
  Types = {n}
  NodeType = n
  Queue = {q1, q2}
  PQ_MEM_WIDTH = 3
  mm_sizes <- MCSizes
  Unwritten = Unwritten
INVARIANTS
  TypeOK
  Partition
  FreeListInjective
  ChunksAllocated
  FreeFitsData
  QueuesDisjoint
  OwnedIsLive
PROPERTIES
  CarveOnlyWhenAllLive
  ImplementsPool
