--------------------------- MODULE MCImplicitHeap ---------------------------
EXTENDS ImplicitHeapHistory, TLC

(* Nodes are interchangeable: no operation tells one address from another. *)
NodeSymmetry == Permutations(Node)
=============================================================================
