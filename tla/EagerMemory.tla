---------------------------- MODULE EagerMemory -----------------------------
(***************************************************************************)
(* The pool of memory_management_eager.c for one type of nodes: one block, *)
(* carved from front to back, and a stack of returned nodes.  Neither is   *)
(* ever compared with the capacity the pool was created with.              *)
(***************************************************************************)
EXTENDS Naturals, Sequences, SequencesExt

mm_create(capacity) == [capacity |-> capacity, index_data |-> 0, free |-> <<>>]

\* Mutant: the nodes carved stay carved.
mm_clear_keeps_data(map) == [map EXCEPT !.free = <<>>]

mm_clear(map) == [map EXCEPT !.index_data = 0, !.free = <<>>]

\* The node, its place in the block, that pq_alloc_node returns, and the map after it.
Allocated(map) == IF map.free = <<>> THEN map.index_data ELSE Last(map.free)

pq_alloc_node(map) ==
  IF map.free = <<>> THEN [map EXCEPT !.index_data = @ + 1]
  ELSE [map EXCEPT !.free = Front(@)]

pq_free_node(map, node) == [map EXCEPT !.free = Append(@, node)]
=============================================================================
