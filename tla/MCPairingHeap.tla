--------------------------- MODULE MCPairingHeap ----------------------------
EXTENDS PairingHeap, Canonical

(* A state by its shape, see Canonical. *)
Shape == ShapeOf(heap, live, <<heap.root>>, <<"child", "next">>)
=============================================================================
