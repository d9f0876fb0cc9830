---------------------------- MODULE FibonacciHeap ---------------------------
(***************************************************************************)
(* The Fibonacci heap of fibonacci_heap.c.  Trees hang from one circular   *)
(* list of roots, entered at minimum; the children of a node form such a   *)
(* list too, entered at first_child.  pq_delete_min links roots of equal   *)
(* rank until all ranks differ; a non-root that loses a second child is    *)
(* cut from its parent, and so on upwards.                                 *)
(***************************************************************************)
EXTENDS PointerStore

CONSTANTS MAXRANK,     \* length of the roots table
          UINT32_MAX   \* a bound: the greatest value of a rank

Zeroed == [parent |-> NULL, first_child |-> NULL, next |-> NULL, prev |-> NULL,
           rank |-> 0, marked |-> FALSE, key |-> 0]
NoRoots == [r \in 0 .. MAXRANK - 1 |-> NULL]

\* Ranks are uint32_t: zero less one wraps round.
Pred(rank) == IF rank = 0 THEN UINT32_MAX ELSE rank - 1

Empty == [mem |-> [n \in Node |-> Zeroed], minimum |-> NULL, size |-> 0,
          roots |-> NoRoots, largest_rank |-> 0]

Init == heap = Empty /\ live = {}

-----------------------------------------------------------------------------
(* append_lists: the list with b spliced in after the predecessor of a, or *)
(* the one that is not empty, and the head of lesser key.                  *)
append_lists(s, a, b) ==
  IF a = NULL THEN [s |-> s, list |-> b]
  ELSE IF b = NULL \/ a = b THEN [s |-> s, list |-> a]
  ELSE LET a_prev == s.mem[a].prev
           b_prev == s.mem[b].prev
       IN  [s |-> Assign(s, << <<a_prev, "next", b>>, <<b_prev, "next", a>>,
                               <<a, "prev", b_prev>>, <<b, "prev", a_prev>> >>),
            list |-> IF s.mem[a].key <= s.mem[b].key THEN a ELSE b]

(* link: the root of lesser key gets the other one as a child. *)
AddChild(s, parent, child) ==
  LET r == append_lists(s, s.mem[parent].first_child, child)
  IN  Assign(r.s, << <<parent, "first_child", r.list>>,
                     <<parent, "rank", s.mem[parent].rank + 1>> >>)

link(s, a, b) ==
  LET parent == IF s.mem[b].key < s.mem[a].key THEN b ELSE a
      child == IF parent = a THEN b ELSE a
      unmarked == Assign(s, << <<child, "marked", FALSE>>, <<child, "parent", parent>>,
                               <<child, "next", child>>, <<child, "prev", child>> >>)
  IN  [s |-> AddChild(unmarked, parent, child), list |-> parent]

\* Takes n out of the list of its siblings.
Unlink(s, n) ==
  Assign(s, << <<s.mem[n].next, "prev", s.mem[n].prev>>, <<s.mem[n].prev, "next", s.mem[n].next>> >>)

(* A parent loses the child n, next to which is the sibling next.          *)
WithoutChild(s, p, n, next) ==
  LET rank == Pred(s.mem[p].rank)
      first == IF rank = 0 THEN NULL ELSE next
  IN  Assign(s, << <<p, "rank", rank>>,
                   <<p, "first_child", IF s.mem[p].first_child = n THEN first
                                       ELSE s.mem[p].first_child>> >>)

(* The parent is marked for it, or cut if it was marked. *)
RECURSIVE cut_from_parent(_, _)
LoseChild(s, n, next) ==
  LET p == s.mem[n].parent
      s1 == WithoutChild(s, p, n, next)
  IN  IF s.mem[p].marked THEN cut_from_parent(s1, p) ELSE Set(s1, p, "marked", TRUE)

JoinRoots(s, n) ==
  LET r == append_lists(s, n, s.minimum)
  IN  Set([r.s EXCEPT !.minimum = r.list], n, "parent", NULL)

cut_from_parent(s, n) ==
  LET alone == Assign(Unlink(s, n), << <<n, "next", n>>, <<n, "prev", n>> >>)
  IN  IF s.mem[n].parent # NULL THEN JoinRoots(LoseChild(alone, n, s.mem[n].next), n)
      ELSE IF s.mem[n].key < s.mem[s.minimum].key THEN [s EXCEPT !.minimum = n]
      ELSE s

(* The inner loop of merge_and_fix_roots: attempt_insert, and link while   *)
(* the slot of the rank is taken.                                          *)
RECURSIVE InsertRoot(_, _)
InsertRoot(s, n) ==
  LET rank == s.mem[n].rank
      occupant == s.roots[rank]
      r == link(s, n, occupant)
  IN  IF occupant \in {NULL, n}
      THEN [s EXCEPT !.roots[rank] = n,
                     !.largest_rank = IF rank > @ THEN rank ELSE @]
      ELSE InsertRoot([r.s EXCEPT !.roots[rank] = NULL], r.list)

\* The outer loop: one root of the broken list after the other.
RECURSIVE InsertRoots(_, _)
InsertRoots(s, current) ==
  LET next == s.mem[current].next
      taken == Assign(SetIf(s, next, "prev", NULL),
                      << <<current, "next", NULL>>, <<current, "parent", NULL>> >>)
  IN  IF current = NULL THEN s
      ELSE InsertRoots(InsertRoot(taken, current), next)

(* Mutant: the keys of the roots are not compared. *)
RECURSIVE PullRoots_no_minimum(_, _, _)
PullRoots_no_minimum(s, current, i) ==
  LET root == s.roots[i]
      chained == Assign(s, << <<current, "prev", root>>, <<root, "next", current>> >>)
  IN  IF i < 0 THEN [s |-> s, list |-> current]
      ELSE IF root = NULL THEN PullRoots_no_minimum(s, current, i - 1)
      ELSE PullRoots_no_minimum([chained EXCEPT !.roots[i] = NULL], root, i - 1)

\* The roots are pulled out of the table from rank i down and chained in front of current.
RECURSIVE PullRoots(_, _, _)
PullRoots(s, current, i) ==
  LET root == s.roots[i]
      chained == Assign(s, << <<current, "prev", root>>, <<root, "next", current>> >>)
      least == IF s.mem[root].key < s.mem[s.minimum].key THEN root ELSE s.minimum
  IN  IF i < 0 THEN [s |-> s, list |-> current]
      ELSE IF root = NULL THEN PullRoots(s, current, i - 1)
      ELSE PullRoots([chained EXCEPT !.roots[i] = NULL, !.minimum = least], root, i - 1)

(* merge_and_fix_roots: the circular list of roots is broken before start, *)
(* which is the first in the table; the rest follows and is linked; then   *)
(* the roots make a list again.                                            *)
BreakList(s, start) ==
  [Assign(s, << <<s.mem[start].prev, "next", NULL>>,
                <<start, "prev", NULL>>, <<start, "parent", NULL>> >>)
     EXCEPT !.roots[s.mem[start].rank] = start, !.largest_rank = s.mem[start].rank]

FixRoots(s, start) == InsertRoots(s, s.mem[start].next)

MakeList(s) ==
  LET first == s.roots[s.largest_rank]
      r == PullRoots([s EXCEPT !.roots[s.largest_rank] = NULL, !.minimum = first],
                     first, s.largest_rank - 1)
  IN  [Assign(r.s, << <<r.list, "prev", first>>, <<first, "next", r.list>> >>)
         EXCEPT !.largest_rank = 0]

merge_and_fix_roots(s, a, b) ==
  LET joined == append_lists(s, a, b)
      start == joined.list
  IN  IF start = NULL THEN joined.s
      ELSE MakeList(FixRoots(BreakList(joined.s, start), start))

-----------------------------------------------------------------------------
WithNode(s, n, k) ==
  LET new == [Zeroed EXCEPT !.key = k, !.next = n, !.prev = n]
      r == append_lists([s EXCEPT !.mem[n] = new, !.size = @ + 1], s.minimum, n)
  IN  [r.s EXCEPT !.minimum = r.list]

WithoutMinimum(s) ==
  LET n == s.minimum
      child == s.mem[n].first_child
      new_min == IF s.mem[n].next # n THEN s.mem[n].next ELSE child
  IN  merge_and_fix_roots([Unlink(s, n) EXCEPT !.minimum = new_min, !.size = @ - 1],
                          new_min, child)

pq_insert(n, k) ==
  /\ n \in Node \ live
  /\ heap' = WithNode(heap, n, k) /\ live' = live \cup {n}

pq_delete_min ==
  /\ heap.size > 0
  /\ heap' = WithoutMinimum(heap) /\ live' = live \ {heap.minimum}

(* pq_delete: the children join the roots with their parent pointers as    *)
(* they are; minimum stays.                                                *)
WithoutOther(n) ==
  LET alone == Unlink(heap, n)
      s == IF heap.mem[n].parent = NULL THEN alone ELSE LoseChild(alone, n, heap.mem[n].next)
  IN  append_lists([s EXCEPT !.size = @ - 1], s.minimum, heap.mem[n].first_child).s

pq_delete(n) ==
  /\ n \in live
  /\ heap' = IF n = heap.minimum THEN WithoutMinimum(heap) ELSE WithoutOther(n)
  /\ live' = live \ {n}

pq_decrease_key(n, k) ==
  /\ n \in live /\ k <= heap.mem[n].key
  /\ heap' = cut_from_parent(Set(heap, n, "key", k), n)
  /\ UNCHANGED live

pq_clear ==
  /\ heap' = [heap EXCEPT !.minimum = NULL, !.roots = NoRoots, !.largest_rank = 0, !.size = 0]
  /\ live' = {}

Next ==
  \/ pq_delete_min
  \/ pq_clear
  \/ \E n \in Node, k \in Key : pq_insert(n, k) \/ pq_decrease_key(n, k)

Spec == Init /\ [][Next]_vars

(* With pq_delete of any node.                                             *)
DeleteNext == Next \/ \E n \in Node : pq_delete(n)
DeleteSpec == Init /\ [][DeleteNext]_vars

-----------------------------------------------------------------------------
FindMin == heap.minimum
List(n) == Chain(heap.mem, n, "next")
Roots == ToSet(List(heap.minimum))
Children(n) == List(heap.mem[n].first_child)
InHeap == ReachableFrom(heap.mem, {"first_child", "next"}, {heap.minimum} \cap Node)

(* The fields have their types; a rank is at most the length of the table. *)
TypeOK ==
  /\ live \subseteq Node
  /\ heap.size \in Nat /\ heap.minimum \in Node \cup {NULL}
  /\ heap.roots \in [0 .. MAXRANK - 1 -> Node \cup {NULL}]
  /\ \A n \in Node :
       /\ {heap.mem[n][f] : f \in {"parent", "first_child", "next", "prev"}} \subseteq Node \cup {NULL}
       /\ heap.mem[n].rank \in 0 .. MAXRANK
       /\ heap.mem[n].marked \in BOOLEAN /\ heap.mem[n].key \in Key \cup {0}

(* Every list is circular and doubly linked, and the parent pointer, the   *)
(* rank and the list of children say the same.                             *)
Linked ==
  \A n \in live :
    LET v == heap.mem[n]
    IN  /\ v.next \in live /\ heap.mem[v.next].prev = n
        /\ n \in Roots => v.parent = NULL
        /\ \A c \in ToSet(Children(n)) : heap.mem[c].parent = n
        /\ v.rank = Len(Children(n))

(* The table of roots is empty between calls, as merge_and_fix_roots       *)
(* assumes and says it leaves it.                                          *)
RootsTableEmpty == heap.roots = NoRoots /\ heap.largest_rank = 0

(* The ranks under a node grow with their number: at most m + 1 children   *)
(* have a rank below m.  It is what makes the tree of a node exponential   *)
(* in its rank and MAXRANK ranks enough, and it rests on the marks.        *)
RankGrowth ==
  \A n \in live, m \in 1 .. MAXRANK :
    Cardinality({c \in ToSet(Children(n)) : heap.mem[c].rank < m}) <= m + 1

(* merge_and_fix_roots finds a slot for every root: "bound on log of       *)
(* subtree size", the header says of rank.                                 *)
RankFitsTable == \A n \in live : heap.mem[n].rank < MAXRANK
=============================================================================
