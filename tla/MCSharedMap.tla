---------------------------- MODULE MCSharedMap -----------------------------
(* Two queues on a map of two or three chunks, of 1, 2 and 2 nodes.        *)
EXTENDS SharedMap

MCSizes == [c \in Chunk |-> IF c = 0 THEN 1 ELSE 2]
=============================================================================
