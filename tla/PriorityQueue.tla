--------------------------- MODULE PriorityQueue ----------------------------
(***************************************************************************)
(* What every queue of the library promises its clients: a mutable         *)
(* priority queue with handles.  contents maps each node that is in the    *)
(* queue to its key.  The trace driver and the programs that record traces *)
(* use these operations and no other knowledge of a queue.                 *)
(***************************************************************************)
EXTENDS Naturals

CONSTANTS Node,   \* handles: the addresses of nodes
          Key     \* key_type

VARIABLE contents

Init == contents = [n \in {} |-> 0]

With(c, n, k) == [m \in DOMAIN c \cup {n} |-> IF m = n THEN k ELSE c[m]]
Without(c, n) == [m \in DOMAIN c \ {n} |-> c[m]]

\* The nodes of least key.
Least(c) == {n \in DOMAIN c : \A m \in DOMAIN c : c[n] <= c[m]}

Insert(k) == \E n \in Node \ DOMAIN contents : contents' = With(contents, n, k)

Delete(n) ==
  /\ n \in DOMAIN contents
  /\ contents' = Without(contents, n)

DeleteMin == \E n \in Least(contents) : Delete(n)

DecreaseKey(n, k) ==
  /\ n \in DOMAIN contents
  /\ k <= contents[n]
  /\ contents' = With(contents, n, k)

Clear == contents' = [n \in {} |-> 0]

Next ==
  \/ DeleteMin
  \/ Clear
  \/ \E k \in Key : Insert(k) \/ \E n \in Node : DecreaseKey(n, k)

Spec == Init /\ [][Next]_contents
=============================================================================
