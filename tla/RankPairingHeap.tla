--------------------------- MODULE RankPairingHeap --------------------------
(***************************************************************************)
(* The rank-pairing heap of rank_pairing_heap.c: a circular list of        *)
(* half-trees along the right pointers of their roots.  left is the first  *)
(* child of a node and right its next sibling, so that a parent pointer    *)
(* leads to the sibling before or, from a left child, to the parent in the *)
(* heap order.  pq_delete_min joins roots of equal rank once each.         *)
(***************************************************************************)
EXTENDS PointerStore

CONSTANTS MAXRANK,      \* length of the table of roots
          USE_TYPE_1    \* which of the two rank rules is built

Zeroed == [parent |-> NULL, left |-> NULL, right |-> NULL, rank |-> 0, key |-> 0]
NoRoots == [r \in 0 .. MAXRANK - 1 |-> NULL]

Init ==
  /\ heap = [mem |-> [n \in Node |-> Zeroed], minimum |-> NULL, size |-> 0,
             roots |-> NoRoots, largest_rank |-> 0]
  /\ live = {}

-----------------------------------------------------------------------------
\* merge_lists: two circular lists become one; or, of parts of one list, two.
merge_lists(s, a, b) ==
  IF NULL \in {a, b} \/ a = b THEN s
  ELSE Assign(s, << <<a, "right", s.mem[b].right>>, <<b, "right", s.mem[a].right>> >>)

pick_min(s, a, b) ==
  IF a = NULL THEN b
  ELSE IF b = NULL \/ s.mem[a].key <= s.mem[b].key THEN a ELSE b

merge_roots(s, a, b) == [merge_lists(s, a, b) EXCEPT !.minimum = pick_min(s, a, b)]

(* join: the root of lesser key gets the other as its first child.         *)
join(s, a, b) ==
  LET parent == IF s.mem[b].key < s.mem[a].key THEN b ELSE a
      child == IF parent = a THEN b ELSE a
      first == s.mem[parent].left
  IN  [s |-> Assign(SetIf(s, first, "parent", child),
                    << <<child, "right", first>>, <<parent, "left", child>>,
                       <<child, "parent", parent>>, <<parent, "rank", s.mem[parent].rank + 1>> >>),
       tree |-> parent]

(* The first loop of fix_roots: each root goes into the table, or is       *)
(* joined with the one of its rank there and is done.                      *)
RECURSIVE InsertRoots(_, _, _)
InsertRoots(s, current, output) ==
  LET rank == s.mem[current].rank
      next == s.mem[current].right
      joined == join(s, current, s.roots[rank])
  IN  IF current = NULL THEN [s |-> s, output |-> output]
      ELSE IF s.roots[rank] \in {NULL, current}
      THEN InsertRoots([s EXCEPT !.roots[rank] = current,
                                 !.largest_rank = IF rank > @ THEN rank ELSE @], next, output)
      ELSE InsertRoots([joined.s EXCEPT !.roots[rank] = NULL], next, Append(output, joined.tree))

\* The joined trees and then those left in the table become the circular list.
MakeList(s, output) ==
  LET rest == SelectSeq([i \in 1 .. s.largest_rank + 1 |-> s.roots[i - 1]], LAMBDA n : n # NULL)
      list == output \o rest
      next(i) == list[IF i = Len(list) THEN 1 ELSE i + 1]
  IN  [Assign(s, [i \in DOMAIN list |-> <<list[i], "right", next(i)>>])
         EXCEPT !.roots = [r \in DOMAIN @ |-> IF r <= s.largest_rank THEN NULL ELSE @[r]],
                !.minimum = FoldLeft(LAMBDA m, n : IF s.mem[n].key < s.mem[m].key THEN n ELSE m,
                                     list[1], list)]

fix_roots(s) ==
  LET broken == Set([s EXCEPT !.largest_rank = 0], s.minimum, "right", NULL)
      r == InsertRoots(broken, s.mem[s.minimum].right, <<>>)
  IN  IF s.minimum = NULL THEN s ELSE MakeList(r.s, r.output)

\* The rank of a child, -1 for none, and one more than that.
RankAbove(mem, n) == IF n = NULL THEN 0 ELSE mem[n].rank + 1

(* The rank the rule gives a node: of one with a parent and a left child   *)
(* that of the left child and one; else by both children, and type 2 lets  *)
(* their ranks differ by one.                                              *)
RankByRule(mem, n) ==
  LET u == RankAbove(mem, mem[n].left)
      v == RankAbove(mem, mem[n].right)
      greater == IF u >= v THEN u ELSE v
      balanced == IF USE_TYPE_1 THEN u = v ELSE u <= v + 1 /\ v <= u + 1
  IN  IF mem[n].parent # NULL /\ mem[n].left # NULL THEN u
      ELSE IF balanced THEN greater ELSE greater - 1

(* propagate_ranks_t1 and propagate_ranks_t2: ranks are lowered upwards    *)
(* as long as the rule gives less than they are.                           *)
RECURSIVE propagate_ranks(_, _)
propagate_ranks(s, n) ==
  IF n = NULL \/ s.mem[n].rank <= RankByRule(s.mem, n) THEN s
  ELSE propagate_ranks(Set(s, n, "rank", RankByRule(s.mem, n)), s.mem[n].parent)

\* n and its right spine as a circular list of roots.
sever_spine(s, n) ==
  LET spine == Chain(s.mem, n, "right")
      roots == Assign(s, [i \in DOMAIN spine |-> <<spine[i], "parent", NULL>>])
  IN  IF n = NULL THEN s ELSE Set(roots, Last(spine), "right", n)

-----------------------------------------------------------------------------
pq_insert(n, k) ==
  /\ n \in Node \ live
  /\ heap' = merge_roots([heap EXCEPT !.mem[n] = [Zeroed EXCEPT !.key = k, !.right = n],
                                      !.size = @ + 1], heap.minimum, n)
  /\ live' = live \cup {n}

\* The root before n.
Predecessor(mem, n) ==
  CHOOSE p \in ToSet(Chain(mem, n, "right")) : mem[p].right = n

\* n leaves its parent, with its right siblings, or the list of roots.
Detached(s, n) ==
  LET p == s.mem[n].parent
  IN  IF p = NULL THEN Set(s, Predecessor(s.mem, n), "right", s.mem[n].right)
      ELSE Set(s, p, IF s.mem[p].right = n THEN "right" ELSE "left", NULL)

\* The children of n, and the siblings it took along, as one list.
Released(s, n, left, right) ==
  merge_lists(sever_spine(sever_spine(s, left), right), left, right)

\* The roots from m on, the new minimum, and the list full are one list, and joined.
Rejoined(s, full, m) ==
  fix_roots([merge_lists(s, m, full) EXCEPT !.minimum = m])

WithoutNode(s, n) ==
  LET left == s.mem[n].left
      right == IF s.mem[n].parent # NULL THEN s.mem[n].right ELSE NULL
      detached == Detached(s, n)
      full == pick_min(s, left, right)
      m == IF s.minimum # n THEN s.minimum ELSE IF detached.mem[n].right = n THEN full ELSE detached.mem[n].right
  IN  [Rejoined(Released(detached, n, left, right), full, m) EXCEPT !.size = @ - 1]

pq_delete(n) ==
  /\ n \in live /\ live' = live \ {n}
  /\ heap' = WithoutNode(heap, n)

pq_delete_min == heap.size > 0 /\ pq_delete(heap.minimum)

\* n, which is not a root, leaves its place to its next sibling.
Replace(s, n) ==
  LET p == s.mem[n].parent
      right == s.mem[n].right
  IN  SetIf(Assign(s, << <<p, IF s.mem[p].right = n THEN "right" ELSE "left", right>>,
                         <<n, "right", NULL>> >>), right, "parent", p)

Cut(s, n) ==
  merge_roots(Assign(propagate_ranks(Replace(s, n), n), << <<n, "parent", NULL>>, <<n, "right", n>> >>),
              s.minimum, n)

pq_decrease_key(n, k) ==
  /\ n \in live /\ k <= heap.mem[n].key
  /\ LET s == Set(heap, n, "key", k)
     IN  heap' = IF s.mem[n].parent # NULL THEN Cut(s, n)
                 ELSE [s EXCEPT !.minimum = IF k < s.mem[@].key THEN n ELSE @]
  /\ UNCHANGED live

pq_clear ==
  /\ heap' = [heap EXCEPT !.minimum = NULL, !.roots = NoRoots, !.largest_rank = 0, !.size = 0]
  /\ live' = {}

Next ==
  \/ pq_delete_min
  \/ pq_clear
  \/ \E n \in Node : pq_delete(n)
  \/ \E n \in Node, k \in Key : pq_insert(n, k) \/ pq_decrease_key(n, k)

Spec == Init /\ [][Next]_vars

-----------------------------------------------------------------------------
FindMin == heap.minimum
Children(n) == Chain(heap.mem, heap.mem[n].left, "right")
Roots == ToSet(Chain(heap.mem, heap.minimum, "right"))
InHeap == ReachableFrom(heap.mem, {"left", "right"}, Roots)
Tree(n) == {n} \cup ReachableFrom(heap.mem, {"left", "right"}, {heap.mem[n].left} \cap Node)

(* The fields have their types, and size counts no more than there is.     *)
TypeOK ==
  /\ live \subseteq Node
  /\ heap.size \in 0 .. Cardinality(Node) /\ heap.minimum \in Node \cup {NULL}
  /\ heap.roots \in [0 .. MAXRANK - 1 -> Node \cup {NULL}] /\ heap.largest_rank \in 0 .. MAXRANK - 1
  /\ \A n \in Node :
       /\ {heap.mem[n][f] : f \in {"parent", "left", "right"}} \subseteq Node \cup {NULL}
       /\ heap.mem[n].rank \in 0 .. MAXRANK - 1 /\ heap.mem[n].key \in Key \cup {0}

(* A pointer down has its pointer up; a root has no parent, and that is    *)
(* how pq_decrease_key and pq_delete know one.                             *)
Linked ==
  \A n \in live :
    /\ n \in Roots <=> heap.mem[n].parent = NULL
    /\ n \in Roots => heap.mem[n].right \in Roots
    /\ \A c \in ({heap.mem[n].left} \cup (IF n \in Roots THEN {} ELSE {heap.mem[n].right})) \cap Node :
         heap.mem[c].parent = n

(* The table of roots is empty between calls. *)
RootsTableEmpty == heap.roots = NoRoots
=============================================================================
