---------------------------- MODULE ImplicitHeap ----------------------------
(***************************************************************************)
(* The array-based d-ary heap of implicit_heap.c.  Position i of the array *)
(* has its children at d * i + 1 .. d * i + d.  Every node knows its       *)
(* position (index), which is how a handle finds its place.                *)
(*                                                                         *)
(* An operation first changes the array and then sifts one node, held,     *)
(* along a path: each iteration of heapify_up or heapify_down pushes a     *)
(* neighbour over the position hole, and the last one dumps held there.    *)
(* Between two iterations the array holds a node twice and held nowhere.   *)
(* A node has fields while it is allocated: the domain of index and key is *)
(* the set of nodes pq_alloc_node has handed out, live, and a read of a    *)
(* freed node is a read outside the domain.                                *)
(***************************************************************************)
EXTENDS Integers

CONSTANTS Node, Key, BRANCHING_FACTOR, NULL

ASSUME BranchingAssumption == BRANCHING_FACTOR \in Nat \ {0}
ASSUME KeyAssumption == Key \subseteq Nat
ASSUME NullAssumption == NULL \notin Node

VARIABLES nodes, size, capacity,   \* the fields of the queue
          index, key,              \* the fields of each allocated node
          pc, held, hole           \* the sift in progress: "up", "down", or "idle"

queue == <<nodes, size, capacity>>
sift == <<pc, held, hole>>
vars == <<queue, index, key, sift>>

live == DOMAIN key

Parent(i) == (i - 1) \div BRANCHING_FACTOR
Children(i) ==
  {c \in 0 .. size - 1 : /\ BRANCHING_FACTOR * i + 1 <= c
                         /\ c <= BRANCHING_FACTOR * i + BRANCHING_FACTOR}

-----------------------------------------------------------------------------
(* pq_create *)
Init ==
  /\ nodes = [i \in {0} |-> NULL] /\ size = 0 /\ capacity = 1
  /\ index = [n \in {} |-> 0] /\ key = [n \in {} |-> 0]
  /\ pc = "idle" /\ held = NULL /\ hole = 0

(* grow_heap: capacity doubles, realloc keeps the old entries. *)
Grown(array) ==
  [i \in 0 .. 2 * capacity - 1 |-> IF i < capacity THEN array[i] ELSE NULL]

StartSift(direction, n, i) ==
  /\ pc' = direction /\ held' = n /\ hole' = i

Rest == pc' = "idle" /\ held' = NULL /\ hole' = 0

\* A field when node n is allocated with value v, and when n is freed.
With(field, n, v) == [m \in DOMAIN field \cup {n} |-> IF m = n THEN v ELSE field[m]]
Without(field, n) == [m \in DOMAIN field \ {n} |-> field[m]]

(* Mutant: the array grows only once it has overflowed. *)
pq_insert_grows_late(n, k) ==
  /\ pc = "idle" /\ n \in Node \ live
  /\ key' = With(key, n, k)
  /\ index' = With(index, n, size)
  /\ size' = size + 1
  /\ IF size = capacity
     THEN capacity' = 2 * capacity /\ nodes' = [Grown(nodes) EXCEPT ![size] = n]
     ELSE capacity' = capacity /\ nodes' = [nodes EXCEPT ![size] = n]
  /\ StartSift("up", n, size)

pq_insert(n, k) ==
  /\ pc = "idle" /\ n \in Node \ live
  /\ key' = With(key, n, k)
  /\ index' = With(index, n, size)
  /\ size' = size + 1
  /\ IF size + 1 = capacity
     THEN capacity' = 2 * capacity /\ nodes' = [Grown(nodes) EXCEPT ![size] = n]
     ELSE capacity' = capacity /\ nodes' = [nodes EXCEPT ![size] = n]
  /\ StartSift("up", n, size)

(* Mutant: a pushed node keeps its old index. *)
Place_no_index(n, pos) ==
  /\ nodes' = [nodes EXCEPT ![pos] = n]
  /\ index' = [index EXCEPT ![held] = pos]

(* push, of the node at src over the one at dst, and dump.  Both leave the *)
(* node they place at pos; push returns early only for src = dst, where    *)
(* placing the node changes nothing either.                                *)
Place(n, pos) ==
  /\ nodes' = [nodes EXCEPT ![pos] = n]
  /\ index' = [index EXCEPT ![n] = pos]

(* Mutant: the node freed is the one that replaces n. *)
pq_delete_frees_last(n) ==
  /\ pc = "idle" /\ n \in live
  /\ size' = size - 1
  /\ LET last == nodes[size - 1]
     IN  /\ key' = Without(key, last)
         /\ index' = Without(index, last)
  /\ UNCHANGED <<nodes, capacity, sift>>

(* pq_delete: the last node replaces n and is sifted down, never up. *)
pq_delete(n) ==
  /\ pc = "idle" /\ n \in live
  /\ size' = size - 1
  /\ key' = Without(key, n)
  /\ LET last == nodes[size - 1]
     IN  IF n = last
         THEN index' = Without(index, n) /\ UNCHANGED <<nodes, sift>>
         ELSE /\ nodes' = [nodes EXCEPT ![index[n]] = last]
              /\ index' = Without([index EXCEPT ![last] = index[n]], n)
              /\ StartSift("down", last, index[n])
  /\ UNCHANGED capacity

pq_delete_min == size > 0 /\ pq_delete(nodes[0])

(* Mutant: the node is sifted in the wrong direction. *)
pq_decrease_key_down(n, k) ==
  /\ pc = "idle" /\ n \in live
  /\ k <= key[n]
  /\ key' = [key EXCEPT ![n] = k]
  /\ StartSift("down", n, index[n])
  /\ UNCHANGED <<queue, index>>

pq_decrease_key(n, k) ==
  /\ pc = "idle" /\ n \in live
  /\ k <= key[n]
  /\ key' = [key EXCEPT ![n] = k]
  /\ StartSift("up", n, index[n])
  /\ UNCHANGED <<queue, index>>

(* mm_clear takes the nodes back; the array keeps its pointers. *)
pq_clear ==
  /\ pc = "idle"
  /\ size' = 0
  /\ index' = [n \in {} |-> 0] /\ key' = [n \in {} |-> 0]
  /\ UNCHANGED <<nodes, capacity, sift>>

-----------------------------------------------------------------------------
(* heapify_up: one iteration, and the end of the loop. *)
AboveHole == hole > 0 /\ key[held] < key[nodes[Parent(hole)]]

(* Mutant: the loop does not move on to the parent. *)
UpStep_stays ==
  /\ pc = "up" /\ AboveHole
  /\ Place(nodes[Parent(hole)], hole)
  /\ UNCHANGED <<size, capacity, key, sift>>

UpStep ==
  /\ pc = "up" /\ AboveHole
  /\ Place(nodes[Parent(hole)], hole)
  /\ hole' = Parent(hole)
  /\ UNCHANGED <<size, capacity, key, pc, held>>

(* Mutant: the loop ends without the dump. *)
UpEnd_no_dump ==
  /\ pc = "up" /\ ~ AboveHole
  /\ Rest
  /\ UNCHANGED <<nodes, index, size, capacity, key>>

UpEnd ==
  /\ pc = "up" /\ ~ AboveHole
  /\ Place(held, hole) /\ Rest
  /\ UNCHANGED <<size, capacity, key>>

(* Mutants: any child will do; the last child is not looked at. *)
IsMinChild_any(c) == c \in Children(hole)

IsMinChild_not_last(c) ==
  /\ c \in Children(hole)
  /\ \A d \in Children(hole) : d + 1 \in Children(hole) => key[nodes[c]] <= key[nodes[d]]

(* heapify_down: the first of the children with the least key. *)
IsMinChild(c) ==
  /\ c \in Children(hole)
  /\ \A d \in Children(hole) :
       \/ key[nodes[c]] < key[nodes[d]]
       \/ key[nodes[c]] = key[nodes[d]] /\ c <= d

DownStep ==
  /\ pc = "down"
  /\ \E c \in Children(hole) :
       /\ IsMinChild(c)
       /\ key[nodes[c]] < key[held]
       /\ Place(nodes[c], hole)
       /\ hole' = c
  /\ UNCHANGED <<size, capacity, key, pc, held>>

DownEnd ==
  /\ pc = "down"
  /\ \A c \in Children(hole) : key[held] <= key[nodes[c]]
  /\ Place(held, hole) /\ Rest
  /\ UNCHANGED <<size, capacity, key>>

Heapify == UpStep \/ UpEnd \/ DownStep \/ DownEnd

Next ==
  \/ Heapify
  \/ pq_delete_min
  \/ pq_clear
  \/ \E n \in Node : pq_delete(n)
  \/ \E n \in Node, k \in Key : pq_insert(n, k) \/ pq_decrease_key(n, k)

Spec == Init /\ [][Next]_vars

-----------------------------------------------------------------------------
Position == 0 .. size - 1

\* The node that belongs at a position: the one held, at the hole.
At(i) == IF pc # "idle" /\ i = hole THEN held ELSE nodes[i]

(* The fields have their types, and there is room for one more insertion:  *)
(* pq_insert writes nodes[size - 1] before it could find the array full.   *)
TypeOK ==
  /\ size \in Nat /\ capacity \in Nat /\ size < capacity
  /\ nodes \in [0 .. capacity - 1 -> Node \cup {NULL}]
  /\ live \subseteq Node
  /\ index \in [live -> Nat] /\ key \in [live -> Key]
  /\ pc \in {"idle", "up", "down"}
  /\ IF pc = "idle" THEN held = NULL /\ hole = 0
                    ELSE held \in live /\ hole \in Position

(* The heap holds exactly the allocated nodes, each at one position: no    *)
(* chain of pushes loses a node or leaves one twice in the array.          *)
HoldsLive ==
  /\ \A i \in Position : At(i) \in live
  /\ \A n \in live : \E i \in Position : At(i) = n
  /\ \A i, j \in Position : At(i) = At(j) => i = j

(* A handle finds its node: index is the position of every node that is    *)
(* not being moved.                                                        *)
IndexCoherent ==
  \A i \in Position : (pc = "idle" \/ i # hole) => index[nodes[i]] = i

(* The heap order, and what is left of it while a node is on its way: held *)
(* may still belong above what is over the hole on its way up, and below   *)
(* what is under it on its way down, but the order holds across the hole.  *)
Loose(i) == (pc = "up" /\ i = hole) \/ (pc = "down" /\ Parent(i) = hole)

HeapOrder ==
  \A i \in Position \ {0} :
    /\ Loose(i) \/ key[At(Parent(i))] <= key[At(i)]
    /\ pc # "idle" /\ Parent(i) = hole /\ hole > 0 => key[At(Parent(hole))] <= key[At(i)]

(* pq_find_min returns a node of least key whenever no call is running.    *)
FindMinCorrect ==
  pc = "idle" => \A i \in Position : key[nodes[0]] <= key[nodes[i]]

(* The queue as its array reaches it: a call takes effect in its first     *)
(* step, and sifting changes nothing.                                      *)
Contents == [n \in {At(i) : i \in Position} |-> key[n]]
PQ == INSTANCE PriorityQueue WITH contents <- Contents

(* pq_delete takes away the node it is given and no other.                 *)
DeletesThatNode == [][\A n \in Node : pq_delete(n) => PQ!Delete(n)]_vars
=============================================================================
