----------------------------- MODULE LazyMemory -----------------------------
(***************************************************************************)
(* The chunked node pool of memory_management_lazy.c.  Each node type has  *)
(* a row of data chunks, carved from front to back, and a row of free      *)
(* chunks used as one long stack of returned nodes.  The chunk of number c *)
(* holds mm_sizes[c] entries in either row.  A counter pair (chunk, index) *)
(* is the next entry of its row; chunks are malloc'ed when first reached   *)
(* and kept until mm_destroy.                                              *)
(*                                                                         *)
(* Addresses are triples <<t, c, i>>: node i of data chunk c of type t.    *)
(* live is a history variable: the nodes clients hold since mm_clear.      *)
(***************************************************************************)
EXTENDS Integers, FiniteSets

CONSTANTS Types,          \* node types, 0 .. map->types - 1 in the code
          PQ_MEM_WIDTH,   \* number of chunks in each row
          mm_sizes,       \* capacity of each chunk: 1, 2, 4, ... in the code
          Unwritten       \* the value of an entry that was never written

Chunk == 0 .. PQ_MEM_WIDTH - 1

ASSUME WidthAssumption == PQ_MEM_WIDTH \in Nat \ {0}
ASSUME SizesAssumption == mm_sizes \in [Chunk -> Nat \ {0}]

VARIABLES chunk_data, index_data,   \* next unused entry of the data row
          chunk_free, index_free,   \* next entry of the free stack
          free,                     \* the entries of the free row
          data_chunks, free_chunks, \* the chunks that are not NULL
          live

counters == <<chunk_data, index_data, chunk_free, index_free>>
vars == <<counters, free, data_chunks, free_chunks, live>>

Slot == UNION {{c} \X (0 .. mm_sizes[c] - 1) : c \in Chunk}

\* The nodes of type t at a set of entries of its data row.
Nodes(t, S) == {<<t, s[1], s[2]>> : s \in S}
Addr == [t \in Types |-> Nodes(t, Slot)]
AllAddr == UNION {Addr[t] : t \in Types}

\* The entries of a row before the pair (c, i).
Before(c, i) == {s \in Slot : s[1] < c \/ (s[1] = c /\ s[2] < i)}

Carved(t) == Nodes(t, Before(chunk_data[t], index_data[t]))
Stack(t) == Before(chunk_free[t], index_free[t])
OnFreeList(t) == {free[t][s] : s \in Stack(t)}

-----------------------------------------------------------------------------
(* mm_create *)
Init ==
  /\ chunk_data = [t \in Types |-> 0] /\ index_data = [t \in Types |-> 0]
  /\ chunk_free = [t \in Types |-> 0] /\ index_free = [t \in Types |-> 0]
  /\ free = [t \in Types |-> [s \in Slot |-> Unwritten]]
  /\ data_chunks = [t \in Types |-> {0}]
  /\ free_chunks = [t \in Types |-> {0}]
  /\ live = [t \in Types |-> {}]

(* Mutant: the counters of the free stack survive the reset. *)
mm_clear_keeps_stack ==
  /\ chunk_data' = [t \in Types |-> 0] /\ index_data' = [t \in Types |-> 0]
  /\ live' = [t \in Types |-> {}]
  /\ UNCHANGED <<chunk_free, index_free, free, data_chunks, free_chunks>>

(* Mutant: the reset releases the data chunks as well. *)
mm_clear_releases ==
  /\ chunk_data' = [t \in Types |-> 0] /\ index_data' = [t \in Types |-> 0]
  /\ chunk_free' = [t \in Types |-> 0] /\ index_free' = [t \in Types |-> 0]
  /\ live' = [t \in Types |-> {}]
  /\ data_chunks' = [t \in Types |-> {}]
  /\ UNCHANGED <<free, free_chunks>>

mm_clear ==
  /\ chunk_data' = [t \in Types |-> 0] /\ index_data' = [t \in Types |-> 0]
  /\ chunk_free' = [t \in Types |-> 0] /\ index_free' = [t \in Types |-> 0]
  /\ live' = [t \in Types |-> {}]
  /\ UNCHANGED <<free, data_chunks, free_chunks>>

(* The node at entry (c, i) of the data row is carved and handed out. *)
Carve(t, c, i) ==
  /\ chunk_data' = [chunk_data EXCEPT ![t] = c]
  /\ index_data' = [index_data EXCEPT ![t] = i + 1]
  /\ data_chunks' = [data_chunks EXCEPT ![t] = @ \cup {c}]
  /\ live' = [live EXCEPT ![t] = @ \cup {<<t, c, i>>}]
  /\ UNCHANGED <<chunk_free, index_free, free, free_chunks>>

(* Mutant: a stack at the start of a later chunk is taken for empty. *)
FreeListEmpty_index_only(t) == index_free[t] = 0

FreeListEmpty(t) == chunk_free[t] = 0 /\ index_free[t] = 0
ChunkFull(t) == index_data[t] = mm_sizes[chunk_data[t]]

(* pq_alloc_node: the three ways through it.  A pool whose last data chunk *)
(* is full cannot grow: 2^PQ_MEM_WIDTH - 1 nodes is the bound of the code. *)
AllocFresh(t) ==
  /\ FreeListEmpty(t)
  /\ ~ ChunkFull(t)
  /\ Carve(t, chunk_data[t], index_data[t])

AllocGrow(t) ==
  /\ FreeListEmpty(t)
  /\ ChunkFull(t)
  /\ chunk_data[t] + 1 < PQ_MEM_WIDTH
  /\ Carve(t, chunk_data[t] + 1, 0)

(* The entry below the pair (chunk_free, index_free). *)
TopOfStack(t) ==
  IF index_free[t] = 0
  THEN <<chunk_free[t] - 1, mm_sizes[chunk_free[t] - 1] - 1>>
  ELSE <<chunk_free[t], index_free[t] - 1>>

(* Mutant: the top of the stack is read and not popped. *)
AllocRecycled_no_pop(t) ==
  /\ ~ FreeListEmpty(t)
  /\ live' = [live EXCEPT ![t] = @ \cup {free[t][TopOfStack(t)]}]
  /\ UNCHANGED <<counters, free, data_chunks, free_chunks>>

AllocRecycled(t) ==
  /\ ~ FreeListEmpty(t)
  /\ LET s == TopOfStack(t)
     IN  /\ chunk_free' = [chunk_free EXCEPT ![t] = s[1]]
         /\ index_free' = [index_free EXCEPT ![t] = s[2]]
         /\ live' = [live EXCEPT ![t] = @ \cup {free[t][s]}]
  /\ UNCHANGED <<chunk_data, index_data, free, data_chunks, free_chunks>>

pq_alloc_node(t) == AllocFresh(t) \/ AllocGrow(t) \/ AllocRecycled(t)

(* Mutants: the stack moves to the next chunk one entry late, or early. *)
PushSlot_late(t) ==
  IF index_free[t] > mm_sizes[chunk_free[t]]
  THEN <<chunk_free[t] + 1, 0>>
  ELSE <<chunk_free[t], index_free[t]>>

PushSlot_early(t) ==
  IF index_free[t] + 1 = mm_sizes[chunk_free[t]]
  THEN <<chunk_free[t] + 1, 0>>
  ELSE <<chunk_free[t], index_free[t]>>

(* pq_free_node with mm_grow_free: where the node is pushed.  Nothing in   *)
(* the code stops chunk_free from running past the row.                    *)
PushSlot(t) ==
  IF index_free[t] = mm_sizes[chunk_free[t]]
  THEN <<chunk_free[t] + 1, 0>>
  ELSE <<chunk_free[t], index_free[t]>>

(* A client returns a node; that it holds it is not looked at.             *)
pq_free_node(t, node) ==
  /\ LET s == PushSlot(t)
     IN  /\ chunk_free' = [chunk_free EXCEPT ![t] = s[1]]
         /\ index_free' = [index_free EXCEPT ![t] = s[2] + 1]
         /\ free_chunks' = [free_chunks EXCEPT ![t] = @ \cup {s[1]}]
         /\ free' = [free EXCEPT ![t][s] = node]
  /\ live' = [live EXCEPT ![t] = @ \ {node}]
  /\ UNCHANGED <<chunk_data, index_data, data_chunks>>

(* What the pool is made for: clients return only nodes they hold.         *)
Next ==
  \/ mm_clear
  \/ \E t \in Types : pq_alloc_node(t) \/ \E node \in live[t] : pq_free_node(t, node)

Spec == Init /\ [][Next]_vars

-----------------------------------------------------------------------------
(* Every counter stays inside its row and every entry inside its chunk, so *)
(* that no array of the map is ever indexed past PQ_MEM_WIDTH.             *)
TypeOK ==
  /\ chunk_data \in [Types -> Chunk] /\ index_data \in [Types -> Nat]
  /\ chunk_free \in [Types -> Chunk] /\ index_free \in [Types -> Nat]
  /\ \A t \in Types : /\ index_data[t] <= mm_sizes[chunk_data[t]]
                      /\ index_free[t] <= mm_sizes[chunk_free[t]]
  /\ free \in [Types -> [Slot -> AllAddr \cup {Unwritten}]]
  /\ data_chunks \in [Types -> SUBSET Chunk]
  /\ free_chunks \in [Types -> SUBSET Chunk]
  /\ live \in [Types -> SUBSET AllAddr]

(* A carved node is in the hands of a client or on the free list, never in *)
(* both places, never in neither: pq_alloc_node cannot hand out a node     *)
(* twice and no node leaks until mm_clear.                                 *)
Partition ==
  \A t \in Types : /\ live[t] \cap OnFreeList(t) = {}
                   /\ live[t] \cup OnFreeList(t) = Carved(t)

(* No node is on the free list twice: pops return distinct nodes, whatever *)
(* chunk boundaries the stack has crossed in between.                      *)
FreeListInjective ==
  \A t \in Types : \A s1, s2 \in Stack(t) :
    free[t][s1] = free[t][s2] => s1 = s2

(* Every entry a counter has passed, or stands in, is in memory that was   *)
(* malloc'ed, though mm_clear moves the counters back and the chunks stay: *)
(* neither a carved node nor a push on the stack goes through NULL.        *)
ChunksAllocated ==
  \A t \in Types : /\ 0 .. chunk_data[t] \subseteq data_chunks[t]
                   /\ 0 .. chunk_free[t] \subseteq free_chunks[t]

(* The free stack never needs a chunk the data row has not reached, so     *)
(* that mm_grow_free needs no bounds check of its own.                     *)
FreeFitsData == \A t \in Types : chunk_free[t] <= chunk_data[t]

(* The documented policy of pq_alloc_node: a new node is carved only when  *)
(* there is nothing to recycle, so that the pool grows only at a new high  *)
(* in the number of nodes in use.                                          *)
CarveOnlyWhenAllLive ==
  [][\A t \in Types :
       (Carved(t)' # Carved(t) /\ Carved(t)' # {}) => live[t] = Carved(t)]_vars
=============================================================================
