SPECIFICATION Spec
CONSTANTS
  PQ_OP_BUFFER_LEN = 6
  pq_op_lengths <- MCLengths
  HeaderLength = 2
  Maxprio = 3
  NameSpan = 16
  Args <- MCArgs
  BRANCHING_FACTOR = 2
  CHUNK_SIZE = 4
  MinIterations = 2
  MaxIterations = 3
  NULL = NULL
CHECK_DEADLOCK FALSE
INVARIANTS
  TypeOK
  Intact
  BufferBounded
  HandlesLive
  PoolSuffices
  ReplaysRecorded
PROPERTIES
  ReplayEnds
