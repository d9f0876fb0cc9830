---------------------------- MODULE TraceReplay -----------------------------
(***************************************************************************)
(* trace_driver.c, which replays a trace over and over: it reads the       *)
(* operations in chunks and calls the queue it was built with.  Here that  *)
(* is either a queue with handles, which does what PriorityQueue promises, *)
(* on the eager pool, or, for a trace without pq_decrease_key, the         *)
(* implicit simple heap, with the array it allocates in an eager build.    *)
(*                                                                         *)
(* The trace is one RandomTrace has recorded with no call failing.         *)
(***************************************************************************)
EXTENDS RandomTrace, EagerMemory, ImplicitSimpleHeap

CONSTANTS CHUNK_SIZE,
          MinIterations,   \* 5 in the code, and then as many more as the clock asks for,
          MaxIterations,   \* of which this is a bound
          NULL

ASSUME DriverAssumption ==
  /\ CHUNK_SIZE \in Nat \ {0} /\ MinIterations \in Nat
  /\ MaxIterations \in Nat \ {0} /\ MinIterations <= MaxIterations

VARIABLES pc,           \* of the driver: "off", "read", "run", "done", or "invalid"
          read,         \* the header it has read
          offset, op_remaining, op_chunk, ops, iterations,
          simple,       \* whether it is built with the implicit simple heap
          map, queue,   \* the pool, and the queue: the keys by node, or the array
          pq_index, node_index,
          returned      \* history: what pq_delete_min has returned in this iteration

reading == <<read, offset, op_remaining, op_chunk, iterations>>
driver == <<pc, reading, ops, simple, map, queue, pq_index, node_index, returned>>
vars == <<generator, driver>>

\* A queue without a node.
Empty == IF simple THEN <<>> ELSE [n \in {} |-> 0]

ReplayInit ==
  /\ Init
  /\ pc = "off" /\ read = header /\ offset = 0 /\ op_remaining = 0 /\ op_chunk = 0 /\ ops = <<>>
  /\ iterations = 0 /\ simple = FALSE /\ map = mm_create(0) /\ queue = Empty
  /\ pq_index = NULL /\ node_index = <<>> /\ returned = <<>>

-----------------------------------------------------------------------------
(* The top of the outer loop: mm_clear, and the file is opened once more.  *)
Iterate(pool) ==
  /\ map' = mm_clear(pool) /\ iterations' = iterations + 1
  /\ read' = trace.file[1][1] /\ op_remaining' = read'.op_count
  /\ offset' = HeaderLength /\ returned' = <<>>

Start ==
  /\ pc = "off" /\ todo = <<>> /\ failures = 0
  /\ pc' = "run"
  /\ simple' \in {s \in BOOLEAN : s => \A i \in DOMAIN recorded : recorded[i].code # "decrease_key"}
  /\ Iterate(mm_create(trace.file[1][1].node_ids))
  /\ node_index' = [id \in 0 .. trace.file[1][1].node_ids - 1 |-> NULL]
  /\ UNCHANGED <<op_chunk, ops, queue, pq_index>>

\* Mutants: the last chunk is as long as the others, or counts as if it were.
StartChunk_full ==
  /\ pc = "run" /\ ops = <<>> /\ op_remaining > 0
  /\ pc' = "read" /\ op_chunk' = CHUNK_SIZE
  /\ op_remaining' = IF op_remaining < CHUNK_SIZE THEN 0 ELSE op_remaining - CHUNK_SIZE
  /\ UNCHANGED <<read, offset, iterations, ops, simple, map, queue, pq_index, node_index, returned>>

StartChunk_unclipped ==
  /\ pc = "run" /\ ops = <<>> /\ op_remaining > 0
  /\ pc' = "read" /\ op_chunk' = IF op_remaining < CHUNK_SIZE THEN op_remaining ELSE CHUNK_SIZE
  /\ op_remaining' = op_remaining - CHUNK_SIZE
  /\ UNCHANGED <<read, offset, iterations, ops, simple, map, queue, pq_index, node_index, returned>>

(* A chunk of operations is read into memory, and then they are executed.  *)
StartChunk ==
  LET length == IF op_remaining < CHUNK_SIZE THEN op_remaining ELSE CHUNK_SIZE
  IN  /\ pc = "run" /\ ops = <<>> /\ op_remaining > 0
      /\ pc' = "read" /\ op_chunk' = length /\ op_remaining' = op_remaining - length
      /\ UNCHANGED <<read, offset, iterations, ops, simple, map, queue, pq_index, node_index, returned>>

\* An operation that cannot be read ends the program.
ReadOp ==
  LET r == pq_trace_read_op(trace.file, offset)
  IN  /\ pc = "read"
      /\ IF r.ok
         THEN /\ ops' = Append(ops, r.op) /\ offset' = r.offset
              /\ op_chunk' = op_chunk - 1
              /\ pc' = IF op_chunk = 1 THEN "run" ELSE "read"
         ELSE pc' = "invalid" /\ UNCHANGED <<ops, offset, op_chunk>>
      /\ UNCHANGED <<read, op_remaining, iterations, simple, map, queue, pq_index, node_index, returned>>

-----------------------------------------------------------------------------
\* The switch: the next operation of the chunk has this code.
Case(code) ==
  /\ pc = "run" /\ ops # <<>> /\ Head(ops).code = code
  /\ ops' = Tail(ops)
  /\ UNCHANGED <<pc, reading, simple>>

Create ==
  /\ Case("create")
  /\ pq_index' = "queue" /\ queue' = Empty
  /\ UNCHANGED <<map, node_index, returned>>

\* pq_destroy and, by way of pq_clear, mm_clear.
Destroy ==
  /\ Case("destroy")
  /\ pq_index' = NULL /\ queue' = Empty /\ map' = mm_clear(map)
  /\ UNCHANGED <<node_index, returned>>

\* pq_insert returns the node, the implicit simple heap's returns 0.
Insert ==
  /\ Case("insert")
  /\ LET op == Head(ops)
         node == Allocated(map)
     IN  IF simple
         THEN /\ queue' = pq_insert(queue, op.key)
              /\ node_index' = [node_index EXCEPT ![op.node_id] = NULL]
              /\ UNCHANGED map
         ELSE /\ queue' = [n \in DOMAIN queue \cup {node} |-> IF n = node THEN op.key ELSE queue[n]]
              /\ node_index' = [node_index EXCEPT ![op.node_id] = node]
              /\ map' = pq_alloc_node(map)
  /\ UNCHANGED <<pq_index, returned>>

DecreaseKey ==
  /\ Case("decrease_key")
  /\ queue' = [queue EXCEPT ![node_index[Head(ops).node_id]] = Head(ops).key]
  /\ UNCHANGED <<map, pq_index, node_index, returned>>

\* Of pq_find_min the result is not used.
FindMin == Case("find_min") /\ UNCHANGED <<map, queue, pq_index, node_index, returned>>

DeleteMin ==
  /\ Case("delete_min")
  /\ IF simple
     THEN queue' = pq_delete_min(queue) /\ returned' = Append(returned, queue[1]) /\ UNCHANGED map
     ELSE \E node \in DOMAIN queue :
            /\ \A n \in DOMAIN queue : queue[node] <= queue[n]
            /\ queue' = [n \in DOMAIN queue \ {node} |-> queue[n]]
            /\ map' = pq_free_node(map, node)
            /\ returned' = Append(returned, queue[node])
  /\ UNCHANGED <<pq_index, node_index>>

(* Once the trace is at its end it is replayed again, until it has been    *)
(* often enough and long enough.                                           *)
Again ==
  /\ pc = "run" /\ ops = <<>> /\ op_remaining = 0
  /\ iterations < MaxIterations
  /\ Iterate(map)
  /\ UNCHANGED <<pc, op_chunk, ops, simple, queue, pq_index, node_index>>

\* A queue that is left is destroyed.
Finish ==
  /\ pc = "run" /\ ops = <<>> /\ op_remaining = 0
  /\ iterations >= MinIterations
  /\ pc' = "done"
  /\ IF pq_index # NULL THEN pq_index' = NULL /\ queue' = Empty /\ map' = mm_clear(map)
                        ELSE UNCHANGED <<pq_index, queue, map>>
  /\ UNCHANGED <<reading, ops, simple, node_index, returned>>

Replay ==
  \/ Start \/ StartChunk \/ ReadOp \/ Again \/ Finish
  \/ Create \/ Destroy \/ Insert \/ DecreaseKey \/ FindMin \/ DeleteMin

Next ==
  \/ Generate /\ UNCHANGED driver
  \/ Replay /\ UNCHANGED generator

(* Both programs run on, and the clock lets the driver stop at last.       *)
Spec == ReplayInit /\ [][Next]_vars /\ WF_vars(Next)

-----------------------------------------------------------------------------
(* What is in the trace, the heap of the generator, and the driver.        *)
TypeOK ==
  /\ trace.offset \in 0 .. Len(trace.file)
  /\ \A i \in 1 .. Len(data) : data[i] \in Nat
  /\ newname <= header.node_ids
  /\ pc \in {"off", "read", "run", "done", "invalid"} /\ pq_index \in {NULL, "queue"}
  /\ \A id \in DOMAIN node_index : node_index[id] \in Nat \cup {NULL}
  /\ op_remaining \in Nat /\ iterations \in 0 .. MaxIterations

(* A handle from the trace is one of the queue, at any iteration: the node *)
(* that pq_insert returned for the id still has its key, which names the   *)
(* id and is not less than the one it gets.                                *)
HandlesLive ==
  pc = "run" /\ ops # <<>> /\ Head(ops).code = "decrease_key" =>
    LET node == node_index[Head(ops).node_id]
    IN  /\ node \in DOMAIN queue /\ name(queue[node]) = Head(ops).node_id
        /\ Head(ops).key <= queue[node]

(* With one node for an insertion, as many as the header has ids are       *)
(* enough, for the pool as for the array of the implicit simple heap, and  *)
(* none is handed out while it is in the queue, in the iterations after    *)
(* the first as well.                                                      *)
PoolSuffices ==
  IF simple THEN Len(queue) <= map.capacity
  ELSE /\ map.index_data <= map.capacity
       /\ DOMAIN queue \cap ToSet(map.free) = {}
       /\ DOMAIN queue \cup ToSet(map.free) = 0 .. map.index_data - 1

(* Every iteration deletes the same keys in the same order as the program  *)
(* that recorded the trace.                                                *)
ReplaysRecorded ==
  /\ IsPrefix(returned, extracted)
  /\ pc = "run" /\ ops = <<>> /\ op_remaining = 0 => returned = extracted

(* A trace of which no call has failed is replayed to its end.             *)
ReplayEnds == (todo = <<>> /\ failures = 0) ~> (pc = "done")
=============================================================================
