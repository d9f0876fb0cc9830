---------------------------- MODULE ExplicitHeap ----------------------------
(***************************************************************************)
(* The d-ary heap of explicit_heap.c: a tree held by pointers in which the *)
(* node of number n is found along the digits of n - 1 to the base d; nodes *)
(* change places by having all their pointers exchanged.  The comments of  *)
(* the code describe the complete tree of an array heap; the digits give   *)
(* another one, see DigitTree.                                             *)
(***************************************************************************)
EXTENDS PointerStore, TLC

CONSTANT BRANCHING_FACTOR   \* d, 2 or 4 (8 and 16 are left out)

\* children[i] is the field Slot[i + 1].
Slot == SubSeq(<<"child0", "child1", "child2", "child3">>, 1, BRANCHING_FACTOR)

Zeroed == [f \in ToSet(Slot) \cup {"parent"} |-> NULL] @@ [key |-> 0]

Init ==
  /\ heap = [mem |-> [n \in Node |-> Zeroed], root |-> NULL, size |-> 0]
  /\ live = {}

-----------------------------------------------------------------------------
\* From n down along the lowest digits, the highest of them first, while there is a child.
RECURSIVE Descend(_, _, _, _)
Descend(mem, n, location, digits) ==
  LET path == (location \div BRANCHING_FACTOR ^ (digits - 1)) % BRANCHING_FACTOR
      next == mem[n][Slot[path + 1]]
  IN  IF digits = 0 \/ next = NULL THEN n ELSE Descend(mem, next, location, digits - 1)

\* The number of digits of a location, of which 0 has one.
Digits(location) ==
  CHOOSE k \in 1 .. location + 1 :
    /\ location < BRANCHING_FACTOR ^ k
    /\ k > 1 => location >= BRANCHING_FACTOR ^ (k - 1)

(* find_node: the node at a number, or the last one on the way there.      *)
find_node(s, number) ==
  IF number = 0 THEN s.root
  ELSE Descend(s.mem, s.root, number - 1, Digits(number - 1))

\* The first slot of the parent of n that holds one of two nodes gets n.
PointBack(s, n, both) ==
  LET p == s.mem[n].parent
      held == IF p = NULL THEN {} ELSE {i \in DOMAIN Slot : s.mem[p][Slot[i]] \in both}
      first == CHOOSE i \in held : \A j \in held : i <= j
  IN  IF held = {} THEN s ELSE Set(s, p, Slot[first], n)

\* The children of n get n as their parent.
Adopt(s, n) == FoldLeft(LAMBDA t, f : SetIf(t, t.mem[n][f], "parent", n), s, Slot)

fill_back_pointers(s, a, b) ==
  Adopt(Adopt(PointBack(PointBack(s, a, {a, b}), b, {a, b}), a), b)

swap_connected(s, parent, child) ==
  LET p == s.mem[parent]
      c == s.mem[child]
      lower == [f \in DOMAIN p |-> IF f = "key" THEN p.key ELSE IF f = "parent" THEN child ELSE c[f]]
      upper == [f \in DOMAIN c |-> IF f = "key" THEN c.key ELSE IF p[f] = child THEN parent ELSE p[f]]
  IN  fill_back_pointers([s EXCEPT !.mem[parent] = lower, !.mem[child] = upper], parent, child)

swap_disconnected(s, a, b) ==
  fill_back_pointers([s EXCEPT !.mem[a] = [s.mem[b] EXCEPT !.key = s.mem[a].key],
                               !.mem[b] = [s.mem[a] EXCEPT !.key = s.mem[b].key]], a, b)

Exchanged(s, a, b) ==
  IF s.mem[a].parent = b THEN swap_connected(s, b, a)
  ELSE IF s.mem[b].parent = a THEN swap_connected(s, a, b)
  ELSE swap_disconnected(s, a, b)

(* swap: two nodes change places, and the root pointer follows.            *)
swap(s, a, b) ==
  IF a = b THEN s
  ELSE [Exchanged(s, a, b) EXCEPT !.root = IF @ = a THEN b ELSE IF @ = b THEN a ELSE @]

RECURSIVE heapify_up(_, _)
heapify_up(s, n) ==
  LET p == s.mem[n].parent
  IN  IF p = NULL \/ s.mem[n].key >= s.mem[p].key THEN s
      ELSE heapify_up(swap(s, n, p), n)

\* The child of least key, of those in the slots before the first that is empty.
SmallestChild(mem, n) ==
  LET child(i) == mem[n][Slot[i]]
      first == {i \in DOMAIN Slot : \A j \in 1 .. i : child(j) # NULL}
  IN  child(CHOOSE i \in first :
              \A j \in first : \/ mem[child(i)].key < mem[child(j)].key
                               \/ mem[child(i)].key = mem[child(j)].key /\ i <= j)

RECURSIVE heapify_down(_, _)
heapify_down(s, n) ==
  LET c == SmallestChild(s.mem, n)
  IN  IF s.mem[n][Slot[1]] = NULL \/ s.mem[c].key >= s.mem[n].key THEN s
      ELSE heapify_down(swap(s, c, n), n)

-----------------------------------------------------------------------------
\* A new node hangs from the first empty slot of the insertion point.
Attach(s, n) ==
  LET parent == find_node(s, s.size)
      empty == {i \in DOMAIN Slot : s.mem[parent][Slot[i]] = NULL}
      first == CHOOSE i \in empty : \A j \in empty : i <= j
      slotted == IF empty = {} THEN s ELSE Set(s, parent, Slot[first], n)
  IN  IF s.root = NULL THEN [s EXCEPT !.root = n] ELSE Set(slotted, n, "parent", parent)

WithNode(s, n, k) ==
  heapify_up([Attach([s EXCEPT !.mem[n] = [Zeroed EXCEPT !.key = k]], n) EXCEPT !.size = @ + 1], n)

pq_insert(n, k) ==
  /\ n \in Node \ live
  /\ heap' = WithNode(heap, n, k) /\ live' = live \cup {n}

\* Every slot of the parent of n that holds n is emptied.
Detach(s, n) ==
  LET p == s.mem[n].parent
  IN  IF p = NULL THEN s
      ELSE [s EXCEPT !.mem[p] = [f \in DOMAIN @ |-> IF f \in ToSet(Slot) /\ @[f] = n THEN NULL ELSE @[f]]]

(* pq_delete: the last node takes the place of n and is pushed down.       *)
WithoutNode(s, n, last) ==
  LET rest == [Detach(swap(s, n, last), n) EXCEPT !.size = @ - 1]
  IN  IF rest.size = 0 THEN [rest EXCEPT !.root = NULL]
      ELSE IF n = last THEN rest ELSE heapify_down(rest, last)

pq_delete(n) ==
  /\ n \in live
  /\ heap' = WithoutNode(heap, n, find_node(heap, heap.size - 1)) /\ live' = live \ {n}

pq_delete_min == heap.size > 0 /\ pq_delete(heap.root)

pq_decrease_key(n, k) ==
  /\ n \in live /\ k <= heap.mem[n].key
  /\ heap' = heapify_up(Set(heap, n, "key", k), n)
  /\ UNCHANGED live

pq_clear ==
  /\ heap' = [heap EXCEPT !.root = NULL, !.size = 0]
  /\ live' = {}

Next ==
  \/ pq_delete_min
  \/ pq_clear
  \/ \E n \in Node, k \in Key : pq_insert(n, k) \/ pq_decrease_key(n, k)

Spec == Init /\ [][Next]_vars

(* With pq_delete of any node.                                             *)
DeleteNext == Next \/ \E n \in Node : pq_delete(n)
DeleteSpec == Init /\ [][DeleteNext]_vars

-----------------------------------------------------------------------------
FindMin == heap.root
Children(n) == SelectSeq([i \in DOMAIN Slot |-> heap.mem[n][Slot[i]]], LAMBDA c : c # NULL)
InHeap == ReachableFrom(heap.mem, ToSet(Slot), {heap.root} \cap Node)

(* The fields have their types, and size counts no more than there is.     *)
TypeOK ==
  /\ live \subseteq Node
  /\ heap.size \in 0 .. Cardinality(Node) /\ heap.root \in Node \cup {NULL}
  /\ \A n \in Node :
       /\ {heap.mem[n][f] : f \in DOMAIN Zeroed \ {"key"}} \subseteq Node \cup {NULL}
       /\ heap.mem[n].key \in Key \cup {0}

(* Every node but the root is in exactly one slot, and that of its parent: *)
(* however two nodes lie to one another, swap leaves each in the place of  *)
(* the other.                                                              *)
Linked ==
  /\ live # {} => heap.mem[heap.root].parent = NULL
  /\ \A n \in live \ {heap.root} :
       {<<p, i>> \in live \X DOMAIN Slot : heap.mem[p][Slot[i]] = n}
         \in {{<<heap.mem[n].parent, i>>} : i \in DOMAIN Slot}

\* The number of the child in slot i of the node of number n, if it has one: one
\* digit more than n - 1.  A number has no leading zero, so number 1 has no children.
HasChildren(n) == n # 1
ChildNumber(n, i) == IF n = 0 THEN i ELSE (n - 1) * BRANCHING_FACTOR + i

(* The shape of the tree, at every size and whatever nodes have changed    *)
(* places: its nodes are the ones find_node gives for the numbers below    *)
(* size, and the path to a child is the path to its parent and one digit   *)
(* more.  So pq_insert adds where pq_delete looks for the last node, no    *)
(* slot is filled twice, and the node of number n has as many ancestors as *)
(* n - 1 has digits.  It is not the shape the comments give.  "A           *)
(* level-order traversal of the tree" (explicit_heap.c:363) would have the *)
(* numbers n * d + 1, ... below number n, 0 and 1 included, and the first  *)
(* child of the root, a leaf here for good, would not leave a gap in "a    *)
(* single, complete d-ary tree" (explicit_heap.h:47).                      *)
DigitTree ==
  /\ {find_node(heap, n) : n \in 0 .. heap.size - 1} = live
  /\ \A n \in 0 .. heap.size - 1, i \in DOMAIN Slot :
       heap.mem[find_node(heap, n)][Slot[i]] =
         IF HasChildren(n) /\ ChildNumber(n, i) < heap.size
         THEN find_node(heap, ChildNumber(n, i))
         ELSE NULL
=============================================================================
