------------------------ MODULE ImplicitHeapHistory -------------------------
(***************************************************************************)
(* The implicit heap with history variables, which no step depends on.     *)
(* pq_delete of a node that is not the minimum can leave the one that      *)
(* replaces it below a greater node; misplaced says whether that has       *)
(* happened since the queue was last empty.  As long as it has not, the    *)
(* heap is a priority queue.                                               *)
(***************************************************************************)
EXTENDS ImplicitHeap

VARIABLES misplaced,
          level, width   \* of the level as many steps below the root as the call that is
                         \* running has pushed nodes: its first position and its length

history == <<misplaced, level, width>>

\* A deletion puts held into a subtree whose parent is greater.
Misplaces ==
  /\ size' < size /\ pc' = "down" /\ hole' > 0
  /\ key'[held'] < key[nodes[Parent(hole')]]

HistoryInit == Init /\ misplaced = FALSE /\ level = 0 /\ width = 1

HistoryNext ==
  /\ Next
  /\ misplaced' = (size' > 0 /\ (misplaced \/ Misplaces))
  /\ IF "idle" \in {pc, pc'} THEN level' = 0 /\ width' = 1
     ELSE level' = level + width /\ width' = BRANCHING_FACTOR * width

HistorySpec == HistoryInit /\ [][HistoryNext]_<<vars, history>>

-----------------------------------------------------------------------------
(* The order holds, during a sift as well, after any calls that have not   *)
(* misplaced a node, pq_delete of inner nodes among them.                  *)
OrderKept == misplaced \/ HeapOrder

(* And pq_find_min returns a node of least key between the calls.          *)
MinimumKept == misplaced \/ FindMinCorrect

(* A call pushes no more nodes than the heap has levels below its root, up *)
(* or down: it returns, and the running times the library is measured for  *)
(* rest on it.                                                             *)
PushesLogarithmic == size > 0 => level < size

(* The heap is a priority queue of the nodes its array reaches: every call *)
(* does what it says, but that pq_delete_min takes a least node only while *)
(* none is misplaced.                                                      *)
ImplementsPQ ==
  PQ!Init /\ [][\/ PQ!Next
                \/ (\E n \in Node : PQ!Delete(n)) /\ (pq_delete_min => misplaced)]_Contents
=============================================================================
