------------------------ MODULE RankRelaxedWeakQueue ------------------------
(***************************************************************************)
(* The rank-relaxed weak queue of rank_relaxed_weak_queue.c: half-trees,   *)
(* at most one of each rank, found in the table nodes["ROOTS"].  The right *)
(* child of a node is its first child in the heap order and left goes to   *)
(* the next one, so that a node is no less than the first ancestor on      *)
(* whose right side it is, unless it is marked.  There is at most one      *)
(* marked node of each rank, in nodes["MARKS"].  registry has the bits of  *)
(* the occupied slots of both tables.                                      *)
(***************************************************************************)
EXTENDS PointerStore

CONSTANT MAXRANK   \* length of the tables of roots and marked nodes

Zeroed == [parent |-> NULL, left |-> NULL, right |-> NULL, rank |-> 0, marked |-> FALSE, key |-> 0]
Types == {"ROOTS", "MARKS"}
NoNodes == [type \in Types |-> [r \in 0 .. MAXRANK - 1 |-> NULL]]
NoBits == [type \in Types |-> {}]

Empty == [mem |-> [n \in Node |-> Zeroed], minimum |-> NULL, size |-> 0,
          nodes |-> NoNodes, registry |-> NoBits]

Init == heap = Empty /\ live = {}

-----------------------------------------------------------------------------
\* An occupied slot keeps the node it has.
register_node(s, type, n) ==
  LET rank == s.mem[n].rank
  IN  IF rank \in s.registry[type] THEN s
      ELSE [s EXCEPT !.registry[type] = @ \cup {rank}, !.nodes[type][rank] = n]

\* A node that is not in its slot changes nothing.
unregister_node(s, type, n) ==
  LET rank == s.mem[n].rank
  IN  IF s.nodes[type][rank] # n THEN s
      ELSE [s EXCEPT !.registry[type] = @ \ {rank}, !.nodes[type][rank] = NULL]

Unmarked(s, n) == Set(unregister_node(s, "MARKS", n), n, "marked", FALSE)

\* if( n->marked ) unregister_node( MARKS, n )
DropMark(s, n) == IF s.mem[n].marked THEN unregister_node(s, "MARKS", n) ELSE s

\* Where p had the child old it has n; old is on the right if not on the left.
ReplaceChild(s, p, old, n) ==
  SetIf(s, p, IF p # NULL /\ s.mem[p].left = old THEN "left" ELSE "right", n)

\* a and b change ranks, and slots in the table of roots; marks are left to the caller.
switch_node_ranks(s, a, b) ==
  LET rooted(n) == s.nodes["ROOTS"][s.mem[n].rank] = n
      root(t, n, old) == IF rooted(old) THEN register_node(t, "ROOTS", n) ELSE t
      ranks == << <<a, "rank", s.mem[b].rank>>, <<b, "rank", s.mem[a].rank>> >>
  IN  root(root(Assign(DropMark(DropMark(unregister_node(unregister_node(s, "ROOTS", a), "ROOTS", b),
                                         a), b), ranks), b, a), a, b)

(* swap_parent_with_right_child and swap_parent_with_left_child: the child *)
(* on the given side and its parent change places.                         *)
SwapWithChild(s, parent, child, side) ==
  LET other == IF side = "right" THEN "left" ELSE "right"
      p == s.mem[parent]
      c == s.mem[child]
      s1 == Assign(s, << <<parent, "parent", child>>, <<child, side, parent>>,
                         <<child, "parent", p.parent>> >>)
      s2 == Set(ReplaceChild(s1, p.parent, parent, child), child, other, p[other])
      s3 == Set(SetIf(s2, p[other], "parent", child), parent, "left", c.left)
      s4 == Set(SetIf(s3, c.left, "parent", parent), parent, "right", c.right)
  IN  switch_node_ranks(SetIf(s4, c.right, "parent", parent), parent, child)

\* a and b, neither the parent of the other, change places.
swap_disconnected(s, a, b) ==
  LET na == s.mem[a]
      nb == s.mem[b]
      s1 == ReplaceChild(Set(s, a, "parent", nb.parent), nb.parent, b, a)
      s2 == ReplaceChild(Set(s1, b, "parent", na.parent), na.parent, a, b)
      s3 == SetIf(Set(s2, a, "left", nb.left), nb.left, "parent", a)
      s4 == SetIf(Set(s3, b, "left", na.left), na.left, "parent", b)
      s5 == SetIf(Set(s4, a, "right", nb.right), nb.right, "parent", a)
      s6 == SetIf(Set(s5, b, "right", na.right), na.right, "parent", b)
  IN  switch_node_ranks(s6, a, b)

\* The children of a node other than a root change sides.
flip_subtree(s, n) ==
  IF s.mem[n].parent = NULL THEN s
  ELSE Assign(s, << <<n, "left", s.mem[n].right>>, <<n, "right", s.mem[n].left>> >>)

\* Mutant: the subtrees of the one that comes below stay on their sides.
Ordered_no_flip(s, parent, child) ==
  IF s.mem[child].key < s.mem[parent].key THEN SwapWithChild(s, parent, child, "right") ELSE s

\* A right child of lesser key than its parent changes places with it.
Ordered(s, parent, child) ==
  IF s.mem[child].key < s.mem[parent].key
  THEN flip_subtree(SwapWithChild(s, parent, child, "right"), parent) ELSE s

\* The subtrees a->fa and b->fb change places.
swap_subtrees(s, a, fa, b, fb) ==
  LET s1 == Assign(s, << <<a, fa, s.mem[b][fb]>>, <<b, fb, s.mem[a][fa]>> >>)
  IN  SetIf(SetIf(s1, s1.mem[a][fa], "parent", a), s1.mem[b][fb], "parent", b)

(* The transformations yield the new state, s, and the node they return,   *)
(* which is the one still marked.                                          *)

\* A marked left child becomes the right child.
transformation_cleaning(s, n) ==
  LET p == s.mem[n].parent
      sibling == s.mem[p].right
  IN  swap_subtrees(flip_subtree(s, p), n, "left", sibling, "left")

\* n is compared with its parent; the one that ends below loses its mark.
transformation_parent(s, n) ==
  LET p == s.mem[n].parent
      less == s.mem[n].key < s.mem[p].key
      result == IF less THEN n ELSE p
  IN  [s |-> Unmarked(Ordered(unregister_node(DropMark(s, p), "MARKS", n), p, n), IF less THEN p ELSE n),
       node |-> IF s.mem[result].marked THEN result ELSE NULL]

\* Two marked siblings: the left one moves up, the greater one loses its mark.
transformation_sibling(s, n) ==
  LET p == s.mem[n].parent
      sibling == s.mem[p].right
      less == s.mem[sibling].key < s.mem[n].key
  IN  [s |-> Unmarked(Ordered(swap_subtrees(SwapWithChild(unregister_node(s, "MARKS", sibling), p, n, "left"),
                                            p, "right", sibling, "left"), n, sibling),
                      IF less THEN n ELSE sibling),
       node |-> IF less THEN sibling ELSE n]

\* A marked left child under a marked parent, which is what stays marked.
transformation_zigzag(s, n) ==
  LET p == s.mem[n].parent
      grand == s.mem[p].parent
  IN  [s |-> unregister_node(IF s.mem[grand].key < s.mem[n].key THEN Set(s, n, "marked", FALSE)
                             ELSE flip_subtree(swap_disconnected(s, grand, n), grand), "MARKS", p),
       node |-> p]

(* Two marked nodes of one rank: they are made siblings in a tree of one   *)
(* rank more, whose root, the lesser of them, stays marked.                *)
transformation_pair(s, n) ==
  LET other == s.nodes["MARKS"][s.mem[n].rank]
      key(m) == s.mem[m].key
      primary == IF key(s.mem[other].parent) < key(s.mem[n].parent) THEN other ELSE n
      extra == IF primary = n THEN other ELSE n
      pp == s.mem[primary].parent
      ep == s.mem[extra].parent
      less == key(extra) < key(primary)
  IN  [s |-> Unmarked(
               Ordered(Ordered(swap_subtrees(swap_disconnected(unregister_node(s, "MARKS", extra), primary, ep),
                                             ep, "right", extra, "left"), pp, ep), primary, extra),
               IF less THEN primary ELSE extra),
       node |-> IF less THEN extra ELSE primary]

(* The loop of restore_invariants: the mark of a node goes up, by one of   *)
(* the transformations each time, until it can stay or is gone.            *)
RECURSIVE MoveMark(_)

\* The node has no marked sibling or is a right child; a left child was made one.
MoveRight(s, n) ==
  LET p == s.mem[n].parent
      right == s.mem[p].right = n
  IN  IF right /\ s.mem[p].marked THEN MoveMark(transformation_parent(s, n))
      ELSE IF right /\ s.mem[n].rank \in s.registry["MARKS"] THEN MoveMark(transformation_pair(s, n))
      ELSE IF s.mem[n].marked THEN register_node(s, "MARKS", n)
      ELSE s

EndMark(r) == IF r.node = NULL THEN r.s ELSE Unmarked(r.s, r.node)

MoveMark(r) ==
  LET s == r.s
      n == r.node
      p == s.mem[n].parent
      left == s.mem[p].left = n
      sibling == s.mem[p].right
  IN  IF n = NULL THEN s
      ELSE IF p = NULL THEN Unmarked(s, n)
      ELSE IF s.mem[p].parent = NULL THEN EndMark(transformation_parent(s, n))
      ELSE IF left /\ sibling # NULL /\ s.mem[sibling].marked THEN MoveMark(transformation_sibling(s, n))
      ELSE IF left /\ s.mem[p].marked THEN MoveMark(transformation_zigzag(s, n))
      ELSE MoveRight(IF left THEN transformation_cleaning(s, n) ELSE s, n)

restore_invariants(s, n) ==
  LET right == s.mem[n].right
      marked == Set(unregister_node(s, "MARKS", n), n, "marked", TRUE)
  IN  MoveMark(IF right # NULL /\ s.mem[right].marked THEN transformation_parent(marked, right)
               ELSE [s |-> marked, node |-> n])

\* Mutant: a mark stays on the left.
CleanChild_never(s, child) == s

\* A marked left child of the child that join has attached moves away from the left.
CleanChild(s, child) ==
  LET left == s.mem[child].left
      right == s.mem[child].right
  IN  IF left = NULL \/ ~s.mem[left].marked THEN s
      ELSE IF s.mem[right].marked THEN transformation_sibling(s, left).s
      ELSE transformation_cleaning(s, left)

HigherRank(s, parent, child) ==
  [Set(s, parent, "rank", s.mem[parent].rank + 1) EXCEPT !.minimum = IF @ = child THEN parent ELSE @]

(* join: of two trees of one rank, the root of lesser key gets the other   *)
(* as its right child, with its old right child on the left of that.       *)
join(s, a, b) ==
  LET parent == IF s.mem[a].key <= s.mem[b].key THEN a ELSE b
      child == IF parent = a THEN b ELSE a
      left == s.mem[parent].right
      Unroot(t, n) == unregister_node(unregister_node(t, "ROOTS", n), "MARKS", n)
      links == << <<child, "marked", FALSE>>, <<child, "left", left>>,
                  <<parent, "right", child>>, <<child, "parent", parent>> >>
      linked == SetIf(Assign(Unroot(Unroot(s, parent), child), links), left, "parent", child)
  IN  [s |-> HigherRank(CleanChild(linked, child), parent, child), tree |-> parent]

(* insert_root: like a carry in binary addition.                           *)
RECURSIVE InsertTree(_)
InsertTree(r) ==
  LET rank == r.s.mem[r.tree].rank
      root == r.s.nodes["ROOTS"][rank]
  IN  IF rank \in r.s.registry["ROOTS"] THEN InsertTree(join(r.s, r.tree, root))
      ELSE register_node(r.s, "ROOTS", r.tree)

insert_root(s, n) == InsertTree([s |-> s, tree |-> n])

\* The tree under n, cut off from what is above and beside it.
Severed(s, n) ==
  Assign(IF s.mem[n].marked THEN Unmarked(s, n) ELSE s, << <<n, "left", NULL>>, <<n, "parent", NULL>> >>)

(* sever_spine: the nodes from current on to the left become roots.        *)
RECURSIVE sever_spine(_, _)
sever_spine(s, current) ==
  IF current = NULL THEN s
  ELSE sever_spine(insert_root(Severed(s, current), current), s.mem[current].left)

(* replace_node: the subtrees on the right of n, from the leftmost leaf    *)
(* up, are joined with the replacement, and the result takes the place.    *)
RECURSIVE Rejoin(_, _, _)
Rejoin(r, current, n) ==
  IF current = n THEN r
  ELSE Rejoin(join(Severed(r.s, current), r.tree, current), r.s.mem[current].parent, n)

PutInPlace(s, n, result) ==
  LET p == s.mem[n].parent
      left == s.mem[n].left
      above == SetIf(Set(s, result, "parent", p), p, "right", result)
      put == SetIf(Set(above, result, "left", left), left, "parent", result)
  IN  restore_invariants(register_node(Set(put, result, "marked", TRUE), "MARKS", result), result)

Rooted(s, n) == IF s.mem[n].parent = NULL THEN register_node(s, "ROOTS", n) ELSE s

Replaced(r, n) == Rooted(PutInPlace(r.s, n, r.tree), r.tree)

replace_node(s, n, replacement) ==
  LET spine == Chain(s.mem, s.mem[n].right, "left")
  IN  Replaced(Rejoin([s |-> s, tree |-> replacement], IF spine = <<>> THEN n ELSE Last(spine), n), n)

(* fix_min: the last node of least key in the two tables.                  *)
fix_min(s) ==
  LET all == [i \in 1 .. MAXRANK |-> s.nodes["ROOTS"][i - 1]] \o
             [i \in 1 .. MAXRANK |-> s.nodes["MARKS"][i - 1]]
      less(m, n) == IF n = NULL THEN m
                    ELSE IF m = NULL THEN n
                    ELSE IF s.mem[n].key <= s.mem[m].key THEN n ELSE m
  IN  [s EXCEPT !.minimum = FoldLeft(less, NULL, all)]

-----------------------------------------------------------------------------
\* A bound: no two nodes have one key, see trace_tools.h.
Unused(n, k) == \A m \in live \ {n} : heap.mem[m].key # k

InsertedMinimum(s, n) ==
  [s EXCEPT !.minimum = IF @ = NULL \/ s.mem[n].key < s.mem[@].key THEN n ELSE @]

WithNode(s, n, k) ==
  InsertedMinimum(insert_root([s EXCEPT !.mem[n] = [Zeroed EXCEPT !.key = k], !.size = @ + 1], n), n)

pq_insert(n, k) ==
  /\ n \in Node \ live /\ Unused(n, k)
  /\ heap' = WithNode(heap, n, k)
  /\ live' = live \cup {n}

\* Mutant: the minimum stays.
DecreasedMinimum_never(s, n) == s

DecreasedMinimum(s, n) ==
  [s EXCEPT !.minimum = IF s.mem[n].key <= s.mem[@].key THEN n ELSE @]

Decreased(s, n, k) ==
  LET lower == Set(s, n, "key", k)
  IN  DecreasedMinimum(IF s.mem[n].parent = NULL THEN lower ELSE restore_invariants(lower, n), n)

pq_decrease_key(n, k) ==
  /\ n \in live /\ k <= heap.mem[n].key /\ Unused(n, k)
  /\ heap' = Decreased(heap, n, k)
  /\ UNCHANGED live

\* The node that takes the place of the minimum: the root of the smallest tree.
Replacement(s) ==
  IF s.mem[s.minimum].parent = NULL THEN s.minimum
  ELSE s.nodes["ROOTS"][CHOOSE r \in s.registry["ROOTS"] : \A q \in s.registry["ROOTS"] : r <= q]

Singleton(s, n) == [s EXCEPT !.mem[n] = [Zeroed EXCEPT !.key = s.mem[n].key]]

ReplaceMinimum(s, old, replacement) == IF old = replacement THEN s ELSE replace_node(s, old, replacement)

WithoutMinimum(s) ==
  LET old == s.minimum
      replacement == Replacement(s)
      Unregister(t, n) == unregister_node(unregister_node(t, "ROOTS", n), "MARKS", n)
      out == Set(Unregister(Unregister(s, old), replacement), replacement, "marked", FALSE)
      rest == Singleton(sever_spine(out, s.mem[replacement].right), replacement)
  IN  [fix_min(ReplaceMinimum(rest, old, replacement)) EXCEPT !.size = @ - 1]

pq_delete_min ==
  /\ heap.size > 0
  /\ live' = live \ {heap.minimum} /\ heap' = WithoutMinimum(heap)

(* pq_delete makes the key of the node 0 and calls pq_delete_min.          *)
pq_delete(n) ==
  /\ n \in live /\ Unused(n, 0)
  /\ live' = live \ {Decreased(heap, n, 0).minimum}
  /\ heap' = WithoutMinimum(Decreased(heap, n, 0))

pq_clear ==
  /\ heap' = [Empty EXCEPT !.mem = heap.mem] /\ live' = {}

\* The root over n.
RECURSIVE RootOver(_, _)
RootOver(mem, n) == IF mem[n].parent = NULL THEN n ELSE RootOver(mem, mem[n].parent)

\* The minimum is not in the tree that is taken apart to replace it.
Apart(s) ==
  s.minimum # NULL => Replacement(s) = s.minimum \/ Replacement(s) # RootOver(s.mem, s.minimum)

Next ==
  \/ Apart(heap) /\ pq_delete_min
  \/ pq_clear
  \/ \E n \in live : Unused(n, 0) /\ Apart(Decreased(heap, n, 0)) /\ pq_delete(n)
  \/ \E n \in Node, k \in Key : pq_insert(n, k) \/ pq_decrease_key(n, k)

Spec == Init /\ [][Next]_vars

(* With pq_delete_min and pq_delete of any node.                           *)
DeleteNext == Next \/ pq_delete_min \/ \E n \in Node : pq_delete(n)
DeleteSpec == Init /\ [][DeleteNext]_vars
-----------------------------------------------------------------------------
FindMin == heap.minimum
Roots == {heap.nodes["ROOTS"][r] : r \in heap.registry["ROOTS"]}
InHeap == ReachableFrom(heap.mem, {"left", "right"}, Roots)

(* What the tables and pointers reach is what is allocated: the nodes that *)
(* take the place of a deleted minimum are not lost with it.               *)
HoldsLive == InHeap = live /\ heap.size = Cardinality(live)

\* The children of n in the heap order that are held to it.
Children(n) ==
  SelectSeq(Chain(heap.mem, heap.mem[n].right, "left"), LAMBDA c : ~heap.mem[c].marked)

(* The fields have their types, and size counts no more than there is.     *)
TypeOK ==
  /\ live \subseteq Node
  /\ heap.size \in 0 .. Cardinality(Node) /\ heap.minimum \in Node \cup {NULL}
  /\ \A type \in Types :
       /\ heap.registry[type] \subseteq 0 .. MAXRANK - 1
       /\ heap.nodes[type] \in [0 .. MAXRANK - 1 -> Node \cup {NULL}]
  /\ \A n \in Node :
       /\ {heap.mem[n][f] : f \in {"parent", "left", "right"}} \subseteq Node \cup {NULL}
       /\ heap.mem[n].rank \in 0 .. MAXRANK - 1 /\ heap.mem[n].key \in Key
       /\ heap.mem[n].marked \in BOOLEAN

(* A pointer down has its pointer up, and a root is told by its parent.    *)
Linked ==
  /\ \A n \in live : \A c \in {heap.mem[n].left, heap.mem[n].right} \cap Node :
       heap.mem[c].parent = n
  /\ \A n \in live : heap.mem[n].parent = NULL <=> n \in Roots

(* Half-trees: below a node of rank r are two perfect trees of rank r - 1, *)
(* below a root only the right one of them.                                *)
HalfTrees ==
  \A n \in live :
    LET v == heap.mem[n]
    IN  /\ v.right = NULL <=> v.rank = 0
        /\ v.left = NULL <=> v.rank = 0 \/ v.parent = NULL
        /\ \A c \in {v.left, v.right} \cap Node : heap.mem[c].rank = v.rank - 1

(* "No two marked nodes of the same rank, no marked node with a parent     *)
(* which is also marked, and no marked node which is a left child": what   *)
(* fix_min does not find in a table is no less than something it finds.    *)
Marks ==
  \A n \in live : heap.mem[n].marked =>
    LET p == heap.mem[n].parent
    IN  /\ heap.nodes["MARKS"][heap.mem[n].rank] = n
        /\ p # NULL /\ ~heap.mem[p].marked /\ heap.mem[p].right = n

(* A slot is set exactly if its bit is, and to a root or marked node of    *)
(* its rank: no transformation leaves a node in the slot it moved from.    *)
TablesCoherent ==
  \A type \in Types :
    /\ heap.registry[type] = {r \in 0 .. MAXRANK - 1 : heap.nodes[type][r] # NULL}
    /\ \A r \in heap.registry[type] :
         LET n == heap.nodes[type][r]
         IN  heap.mem[n].rank = r /\ n \in live /\ (type = "MARKS" => heap.mem[n].marked)
=============================================================================
