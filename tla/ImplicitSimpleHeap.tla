------------------------- MODULE ImplicitSimpleHeap -------------------------
(***************************************************************************)
(* The heap of implicit_simple_heap.c: the array holds the nodes           *)
(* themselves, here their keys, and no client has a handle of them.  Entry *)
(* i of nodes is position i - 1; what is beyond size is left out.          *)
(***************************************************************************)
EXTENDS Naturals, Sequences, SequencesExt

CONSTANT BRANCHING_FACTOR

ASSUME BranchingAssumption == BRANCHING_FACTOR \in Nat \ {0}

Parent(i) == ((i - 2) \div BRANCHING_FACTOR) + 1

(* heapify_up and heapify_down: neighbours are pushed over the hole i and  *)
(* saved is dumped in it in the end.                                       *)
heapify_up(nodes, i, saved) ==
  LET up[j \in DOMAIN nodes] ==
        IF j > 1 /\ saved < nodes[Parent(j)]
        THEN [up[Parent(j)] EXCEPT ![j] = nodes[Parent(j)]] ELSE [nodes EXCEPT ![j] = saved]
  IN  up[i]

LeastChild(nodes, i) ==
  LET children == {c \in 2 .. Len(nodes) : Parent(c) = i}
  IN  CHOOSE c \in children : \A d \in children : nodes[c] <= nodes[d]

heapify_down(nodes, i, saved) ==
  LET down[j \in DOMAIN nodes] ==
        IF BRANCHING_FACTOR * (j - 1) + 2 <= Len(nodes) /\ nodes[LeastChild(nodes, j)] < saved
        THEN [down[LeastChild(nodes, j)] EXCEPT ![j] = nodes[LeastChild(nodes, j)]]
        ELSE [nodes EXCEPT ![j] = saved]
  IN  down[i]

pq_insert(nodes, key) == heapify_up(Append(nodes, key), Len(nodes) + 1, key)

(* The last node comes to the front; it is sifted if another is left.      *)
pq_delete_min(nodes) ==
  LET rest == Front([nodes EXCEPT ![1] = Last(nodes)])
  IN  IF Len(rest) > 1 THEN heapify_down(rest, 1, rest[1]) ELSE rest
=============================================================================
