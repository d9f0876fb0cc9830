--------------------------- MODULE BinomialQueue ----------------------------
(***************************************************************************)
(* The binomial queue of binomial_queue.c: at most one tree of each rank,  *)
(* found in the table roots; registry has the bit of every occupied slot.  *)
(* A tree of rank r is stored as a binary tree: left is the first child    *)
(* and right the next sibling, of rank one less, so that the parent in the *)
(* heap order is the parent of the first left child on the way up.         *)
(***************************************************************************)
EXTENDS PointerStore

CONSTANT MAXRANK   \* length of the table of roots

Zeroed == [parent |-> NULL, left |-> NULL, right |-> NULL, rank |-> 0, key |-> 0]
NoRoots == [r \in 0 .. MAXRANK - 1 |-> NULL]

Init ==
  /\ heap = [mem |-> [n \in Node |-> Zeroed], minimum |-> NULL, size |-> 0,
             registry |-> {}, roots |-> NoRoots]
  /\ live = {}

-----------------------------------------------------------------------------
(* join: of two trees of one rank, the root of lesser key gets the other   *)
(* as its first child.                                                     *)
join(s, a, b) ==
  LET parent == IF s.mem[b].key < s.mem[a].key THEN b ELSE a
      child == IF parent = a THEN b ELSE a
      first == s.mem[parent].left
      s1 == SetIf(Set(s, child, "right", first), first, "parent", child)
  IN  [s |-> [Assign(s1, << <<child, "parent", parent>>, <<parent, "left", child>>,
                            <<parent, "rank", s.mem[parent].rank + 1>> >>)
                EXCEPT !.minimum = IF @ = child THEN parent ELSE @],
       tree |-> parent]

(* attempt_insert until it succeeds: like a carry in binary addition. *)
RECURSIVE InsertRoot(_, _)
InsertRoot(s, n) ==
  LET rank == s.mem[n].rank
  IN  IF rank \in s.registry
      THEN LET joined == join(s, s.roots[rank], n)
           IN  InsertRoot([joined.s EXCEPT !.roots[rank] = NULL, !.registry = @ \ {rank}],
                          joined.tree)
      ELSE [s EXCEPT !.roots[rank] = n, !.registry = @ \cup {rank}]

make_root(s, n) ==
  LET s1 == Assign(s, << <<n, "parent", NULL>>, <<n, "right", NULL>> >>)
      least == s.minimum = NULL \/ s.mem[n].key < s.mem[s.minimum].key
  IN  InsertRoot([s1 EXCEPT !.minimum = IF least THEN n ELSE @], n)

(* break_tree, from the child current on along the siblings. *)
RECURSIVE break_tree(_, _)
break_tree(s, current) ==
  IF current = NULL THEN s
  ELSE break_tree(make_root(s, current), s.mem[current].right)

(* cherry_pick_min: of the roots of least key the one of least rank.  With *)
(* no root left the leading bit is undefined, but every slot is NULL, and  *)
(* so is minimum either way.                                               *)
cherry_pick_min(s) ==
  LET key(r) == s.mem[s.roots[r]].key
      min == CHOOSE r \in s.registry :
               \A q \in s.registry : key(r) < key(q) \/ (key(r) = key(q) /\ r <= q)
  IN  IF s.registry = {} THEN s ELSE [s EXCEPT !.minimum = s.roots[min]]

\* The parent of n in the heap order: the first ancestor on whose left side n is.
RECURSIVE HeapParent(_, _)
HeapParent(s, n) ==
  LET parent == s.mem[n].parent
  IN  IF s.mem[parent].right = n THEN HeapParent(s, parent) ELSE parent

SwapRanks(s, n, p) ==
  Assign(s, << <<n, "rank", s.mem[p].rank>>, <<p, "rank", s.mem[n].rank>> >>)

(* swap_with_parent: n and its parent p in the heap order change places.   *)
swap_with_parent(s0, n, p) ==
  LET s == s0.mem[n].parent     \* the names of the code
      a == s0.mem[n].left
      b == s0.mem[n].right
      g == s0.mem[p].parent
      c == s0.mem[p].left
      d == s0.mem[p].right
      s1 == SetIf(Set(SwapRanks(s0, n, p), p, "left", a), a, "parent", p)
      s2 == SetIf(Set(s1, p, "right", b), b, "parent", p)
      s3 == SetIf(Set(s2, n, "right", d), d, "parent", n)
      s4 == IF s = p
            THEN Assign(s3, << <<n, "left", p>>, <<p, "parent", n>> >>)
            ELSE Assign(s3, << <<n, "left", c>>, <<c, "parent", n>>,
                               <<p, "parent", s>>, <<s, "right", p>> >>)
      s5 == Set(s4, n, "parent", g)
  IN  IF g = NULL THEN [s5 EXCEPT !.roots[s5.mem[n].rank] = n]
      ELSE Set(s5, g, IF s5.mem[g].left = p THEN "left" ELSE "right", n)

RECURSIVE SwapUp(_, _)
SwapUp(s, n) ==
  IF s.mem[n].parent = NULL \/ s.mem[n].key >= s.mem[HeapParent(s, n)].key THEN s
  ELSE SwapUp(swap_with_parent(s, n, HeapParent(s, n)), n)

-----------------------------------------------------------------------------
pq_insert(n, k) ==
  /\ n \in Node \ live
  /\ heap' = make_root([heap EXCEPT !.mem[n] = [Zeroed EXCEPT !.key = k], !.size = @ + 1], n)
  /\ live' = live \cup {n}

WithoutMinimum(s) ==
  LET rank == s.mem[s.minimum].rank
      s1 == [s EXCEPT !.registry = @ \ {rank}, !.roots[rank] = NULL, !.minimum = NULL]
      s2 == cherry_pick_min(break_tree(s1, s.mem[s.minimum].left))
  IN  [s2 EXCEPT !.size = @ - 1]

pq_delete_min ==
  /\ heap.size > 0
  /\ heap' = WithoutMinimum(heap) /\ live' = live \ {heap.minimum}

Decreased(s, n, k) ==
  LET s1 == SwapUp(Set(s, n, "key", k), n)
  IN  [s1 EXCEPT !.minimum = IF k < s1.mem[@].key THEN n ELSE @]

pq_decrease_key(n, k) ==
  /\ n \in live /\ k <= heap.mem[n].key
  /\ heap' = Decreased(heap, n, k)
  /\ UNCHANGED live

(* pq_delete makes the key of the node 0 and calls pq_delete_min. *)
pq_delete(n) ==
  /\ n \in live
  /\ LET s == Decreased(heap, n, 0)
     IN  heap' = WithoutMinimum(s) /\ live' = live \ {s.minimum}

pq_clear ==
  /\ heap' = [heap EXCEPT !.minimum = NULL, !.registry = {}, !.roots = NoRoots, !.size = 0]
  /\ live' = {}

Next ==
  \/ pq_delete_min
  \/ pq_clear
  \/ \E n \in Node, k \in Key : pq_insert(n, k) \/ pq_decrease_key(n, k)

Spec == Init /\ [][Next]_vars

(* With pq_delete of any node.                                             *)
DeleteNext == Next \/ \E n \in Node : pq_delete(n)
DeleteSpec == Init /\ [][DeleteNext]_vars

-----------------------------------------------------------------------------
FindMin == heap.minimum
Children(n) == Chain(heap.mem, heap.mem[n].left, "right")
Roots == {heap.roots[r] : r \in heap.registry}
InHeap == ReachableFrom(heap.mem, {"left", "right"}, Roots)
Tree(n) == {n} \cup ReachableFrom(heap.mem, {"left", "right"}, {heap.mem[n].left} \cap Node)

(* The fields have their types, and size counts no more than there is.     *)
TypeOK ==
  /\ live \subseteq Node
  /\ heap.size \in 0 .. Cardinality(Node) /\ heap.minimum \in Node \cup {NULL}
  /\ heap.registry \subseteq 0 .. MAXRANK - 1
  /\ heap.roots \in [0 .. MAXRANK - 1 -> Node \cup {NULL}]
  /\ \A n \in Node :
       /\ {heap.mem[n][f] : f \in {"parent", "left", "right"}} \subseteq Node \cup {NULL}
       /\ heap.mem[n].rank \in 0 .. MAXRANK - 1 /\ heap.mem[n].key \in Key

(* A pointer down has its pointer up, and "a root is denoted by a null     *)
(* parent", without which pq_decrease_key climbs out of its tree.          *)
Linked ==
  /\ \A n \in live : \A c \in {heap.mem[n].left, heap.mem[n].right} \cap Node :
       heap.mem[c].parent = n
  /\ \A n \in live : heap.mem[n].parent = NULL <=> n \in Roots

(* "A forest of uniquely-sized perfect binomial trees": the tree at slot r *)
(* has 2^r nodes, and so has every node of rank r under itself, with its   *)
(* children in the order of falling ranks, whichever nodes were swapped.   *)
PerfectTrees ==
  /\ \A r \in heap.registry : heap.mem[heap.roots[r]].rank = r
  /\ \A n \in live :
       LET rank == heap.mem[n].rank
       IN  /\ Cardinality(Tree(n)) = 2 ^ rank
           /\ [i \in DOMAIN Children(n) |-> heap.mem[Children(n)[i]].rank]
                = [i \in 1 .. rank |-> rank - i]

(* A slot of the table is set exactly if its bit in the registry is.       *)
RegistryCoherent == heap.registry = {r \in DOMAIN heap.roots : heap.roots[r] # NULL}

Contents == [n \in InHeap |-> heap.mem[n].key]
PQ == INSTANCE PriorityQueue WITH contents <- Contents

(* pq_delete takes away the node it is given and no other.                 *)
DeletesThatNode == [][\A n \in Node : pq_delete(n) => PQ!Delete(n)]_vars
=============================================================================
