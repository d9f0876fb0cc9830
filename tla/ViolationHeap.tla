---------------------------- MODULE ViolationHeap ---------------------------
(***************************************************************************)
(* The violation heap of violation_heap.c: a circular list of roots along  *)
(* next, and trees in which child is the last child of a node, prev leads  *)
(* to the sibling before and next to the one after or, from the last       *)
(* child, to the parent.  The last two children are active: they and only  *)
(* they count for the rank.  pq_delete_min joins trees of one rank by      *)
(* threes.                                                                 *)
(***************************************************************************)
EXTENDS PointerStore, Integers

CONSTANT MAXRANK   \* length of the table of roots

Zeroed == [child |-> NULL, next |-> NULL, prev |-> NULL, rank |-> 0, key |-> 0]
NoRoots == [r \in 0 .. MAXRANK - 1 |-> <<NULL, NULL>>]

Init ==
  /\ heap = [mem |-> [n \in Node |-> Zeroed], minimum |-> NULL, size |-> 0,
             roots |-> NoRoots, largest_rank |-> 0]
  /\ live = {}

-----------------------------------------------------------------------------
\* What the pointers of a node and its neighbours say of its place.
IsRoot(mem, n) ==
  /\ mem[n].prev = NULL /\ mem[mem[n].next].prev = NULL
  /\ mem[mem[n].next].child # n

IsActive(mem, n) ==
  \/ IsRoot(mem, n)
  \/ mem[mem[n].next].child = n
  \/ mem[mem[mem[n].next].next].child = mem[n].next

RECURSIVE ParentOf(_, _)
ParentOf(mem, n) ==
  LET next == mem[n].next
  IN  IF mem[next].child = n THEN next
      ELSE IF mem[n].prev = NULL /\ mem[next].prev = NULL THEN NULL
      ELSE ParentOf(mem, next)

\* Mutant: the second pointer is read when the first has been overwritten.
merge_into_roots_in_turn(s, list) ==
  IF s.minimum = NULL THEN [s EXCEPT !.minimum = list]
  ELSE IF list \in {NULL, s.minimum} THEN s
  ELSE [Set(s, s.minimum, "next", s.mem[list].next)
          EXCEPT !.minimum = IF s.mem[list].key < s.mem[@].key THEN list ELSE @]

merge_into_roots(s, list) ==
  IF s.minimum = NULL THEN [s EXCEPT !.minimum = list]
  ELSE IF list \in {NULL, s.minimum} THEN s
  ELSE [Assign(s, << <<s.minimum, "next", s.mem[list].next>>, <<list, "next", s.mem[s.minimum].next>> >>)
          EXCEPT !.minimum = IF s.mem[list].key < s.mem[@].key THEN list ELSE @]

\* The active children of parent change places if the last is the one of lesser rank.
OrderActive(s, parent) ==
  LET a == s.mem[parent].child
      b == s.mem[a].prev
      c == s.mem[b].prev
  IN  IF a = NULL \/ b = NULL \/ s.mem[a].rank >= s.mem[b].rank THEN s
      ELSE Assign(SetIf(s, c, "next", a),
                  << <<a, "prev", c>>, <<b, "next", parent>>, <<a, "next", b>>,
                     <<b, "prev", a>>, <<parent, "child", b>> >>)

\* child1 and child2 become the last two children of parent, child1 the last.
Append2(s, parent, child1, child2) ==
  LET last == s.mem[parent].child
  IN  Assign(SetIf(s, last, "next", child2),
             << <<child1, "next", parent>>, <<child1, "prev", child2>>,
                <<child2, "next", child1>>, <<child2, "prev", last>>,
                <<parent, "child", child1>>, <<parent, "rank", s.mem[parent].rank + 1>> >>)

join(s, parent, child1, child2) == Append2(OrderActive(s, parent), parent, child1, child2)

(* triple_join: a root of least key gets the other two.                    *)
triple_join(s, a, b, c) ==
  LET key(n) == s.mem[n].key
      ab == IF key(a) < key(b) THEN a ELSE b
      parent == IF key(ab) < key(c) THEN ab ELSE c
      rest == SelectSeq(<<a, b, c>>, LAMBDA n : n # parent)
      first == IF s.mem[rest[1]].rank >= s.mem[rest[2]].rank THEN 1 ELSE 2
  IN  [s |-> join(s, parent, rest[first], rest[3 - first]), tree |-> parent]

\* The slot of its rank in which a root is or can be put, 0 if there is none.
SlotFor(s, n) ==
  LET pair == s.roots[s.mem[n].rank]
  IN  IF pair[1] \in {NULL, n} THEN 1 ELSE IF pair[2] \in {NULL, n} THEN 2 ELSE 0

(* The first loop of fix_roots: a root goes into the table or is joined    *)
(* with the two of its rank there; the joined tree goes behind the end of  *)
(* the list, tail, and is walked as well.                                  *)
RECURSIVE InsertRoots(_, _, _)
InsertRoots(s, current, tail) ==
  LET rank == s.mem[current].rank
      next == s.mem[current].next
      alone == Set(s, current, "next", NULL)
      joined == triple_join(alone, current, s.roots[rank][1], s.roots[rank][2])
      behind == [Set(joined.s, tail, "next", joined.tree) EXCEPT !.roots[rank] = <<NULL, NULL>>]
  IN  IF current = NULL THEN s
      ELSE IF SlotFor(s, current) # 0
      THEN InsertRoots([alone EXCEPT !.roots[rank][SlotFor(s, current)] = current,
                                     !.largest_rank = IF rank > @ THEN rank ELSE @], next, tail)
      ELSE InsertRoots(behind, IF tail = current THEN behind.mem[tail].next ELSE next,
                       behind.mem[tail].next)

\* The trees in the table, from the lowest rank up, become the circular list.
MakeList(s) ==
  LET slots == [i \in 1 .. 2 * (s.largest_rank + 1) |-> s.roots[(i - 1) \div 2][1 + ((i - 1) % 2)]]
      list == SelectSeq(slots, LAMBDA n : n # NULL)
      next(i) == list[IF i = Len(list) THEN 1 ELSE i + 1]
  IN  [Assign(s, [i \in DOMAIN list |-> <<list[i], "next", next(i)>>])
         EXCEPT !.minimum = FoldLeft(LAMBDA m, n : IF s.mem[n].key < s.mem[m].key THEN n ELSE m,
                                     list[1], list)]

fix_roots(s) ==
  LET reset == [s EXCEPT !.roots = [r \in DOMAIN @ |-> IF r <= s.largest_rank THEN <<NULL, NULL>> ELSE @[r]]]
  IN  IF s.minimum = NULL THEN reset
      ELSE MakeList(InsertRoots(Set(reset, s.minimum, "next", NULL), s.mem[s.minimum].next, s.minimum))

\* The rank by the ranks r1 and r2 of the active children, -1 for none.
RankByRule(r1, r2) ==
  CASE r1 + r2 = -2 -> 0
    [] r1 + r2 = -1 -> 1
    [] OTHER -> ((r1 + r2) \div 2) + ((r1 + r2) % 2) + 1

(* propagate_ranks: the rank of n is computed again, and as long as one    *)
(* falls that of the parent it is an active child of.                      *)
RECURSIVE propagate_ranks(_, _)
propagate_ranks(s, n) ==
  LET child == s.mem[n].child
      r1 == IF child = NULL THEN -1 ELSE s.mem[child].rank
      r2 == IF child = NULL \/ s.mem[child].prev = NULL THEN -1 ELSE s.mem[s.mem[child].prev].rank
      s1 == Set(s, n, "rank", RankByRule(r1, r2))
      parent == ParentOf(s.mem, n)
  IN  IF RankByRule(r1, r2) < s.mem[n].rank /\ IsActive(s.mem, n) /\ parent # NULL
      THEN propagate_ranks(s1, parent) ELSE s1

\* The children, from the last on, as a circular list without prev pointers.
strip_list(s, last) ==
  LET list == Chain(s.mem, last, "prev")
  IN  Set(Assign(s, [i \in DOMAIN list |-> <<list[i], "prev", NULL>>]), last, "next", Last(list))

-----------------------------------------------------------------------------
pq_insert(n, k) ==
  /\ n \in Node \ live
  /\ heap' = merge_into_roots([heap EXCEPT !.mem[n] = [Zeroed EXCEPT !.key = k, !.next = n],
                                           !.size = @ + 1], n)
  /\ live' = live \cup {n}

\* What points down or left to n points to m: next's child or prev.
Relink(s, n, m) ==
  LET next == s.mem[n].next
  IN  Set(s, next, IF s.mem[next].child = n THEN "child" ELSE "prev", m)

\* n leaves the list of roots or of its siblings.
RECURSIVE PredecessorFrom(_, _, _)
PredecessorFrom(mem, current, n) ==
  IF mem[current].next = n THEN current ELSE PredecessorFrom(mem, mem[current].next, n)

Unlink(s, n) ==
  IF IsRoot(s.mem, n)
  THEN Set(s, PredecessorFrom(s.mem, s.mem[n].next, n), "next", s.mem[n].next)
  ELSE SetIf(Relink(s, n, s.mem[n].prev), s.mem[n].prev, "next", s.mem[n].next)

WithoutNode(s0, n) ==
  LET s == Unlink(s0, n)
      child == s.mem[n].child
      min == IF s.minimum # n THEN s.minimum ELSE IF s.mem[n].next # n THEN s.mem[n].next ELSE child
      freed == [s EXCEPT !.minimum = min, !.size = @ - 1]
  IN  fix_roots(IF child = NULL THEN freed ELSE merge_into_roots(strip_list(freed, child), child))

pq_delete(n) ==
  /\ n \in live /\ live' = live \ {n}
  /\ heap' = WithoutNode(heap, n)

pq_delete_min == heap.size > 0 /\ pq_delete(heap.minimum)

\* The active child of greater rank leaves the children of n.
TakeReplacement(s, n) ==
  LET first == s.mem[n].child
      second == s.mem[first].prev
      third == s.mem[second].prev
  IN  IF second = NULL THEN [s |-> Set(s, n, "child", NULL), tree |-> first]
      ELSE IF s.mem[second].rank > s.mem[first].rank
      THEN [s |-> Set(SetIf(s, third, "next", first), first, "prev", third), tree |-> second]
      ELSE [s |-> Assign(s, << <<n, "child", second>>, <<second, "next", n>> >>), tree |-> first]

\* r takes the place of n among its siblings.
Replace(s, n, r) ==
  LET placed == Assign(s, << <<r, "next", s.mem[n].next>>, <<r, "prev", s.mem[n].prev>> >>)
  IN  SetIf(Relink(placed, n, r), s.mem[n].prev, "next", r)

\* With children: one of them replaces n, and the parent's rank follows.
CutInner(s, n, parent) ==
  LET taken == TakeReplacement(s, n)
      s1 == Replace(taken.s, n, taken.tree)
  IN  IF parent # NULL /\ IsActive(s1.mem, parent) THEN propagate_ranks(s1, parent) ELSE s1

\* Without: n leaves, and the rank of what it pointed to follows.
CutLeaf(s, n) ==
  LET s1 == Unlink(s, n)
  IN  IF IsActive(s1.mem, s.mem[n].next) THEN propagate_ranks(s1, s.mem[n].next) ELSE s1

Decreased(s, n) ==
  LET parent == IF IsActive(s.mem, n) THEN ParentOf(s.mem, n) ELSE NULL
      s1 == IF s.mem[n].child = NULL THEN CutLeaf(s, n) ELSE CutInner(s, n, parent)
  IN  IF IsRoot(s.mem, n)
      THEN [s EXCEPT !.minimum = IF s.mem[n].key < s.mem[@].key THEN n ELSE @]
      ELSE IF parent # NULL /\ s.mem[n].key >= s.mem[parent].key THEN s
      ELSE merge_into_roots(Assign(s1, << <<n, "next", n>>, <<n, "prev", NULL>> >>), n)

pq_decrease_key(n, k) ==
  /\ n \in live /\ k <= heap.mem[n].key
  /\ heap' = Decreased(Set(heap, n, "key", k), n)
  /\ UNCHANGED live

pq_clear ==
  /\ heap' = [heap EXCEPT !.minimum = NULL, !.roots = NoRoots, !.largest_rank = 0, !.size = 0]
  /\ live' = {}

Next ==
  \/ pq_delete_min
  \/ pq_clear
  \/ \E n \in Node : pq_delete(n)
  \/ \E n \in Node, k \in Key : pq_insert(n, k) \/ pq_decrease_key(n, k)

Spec == Init /\ [][Next]_vars

-----------------------------------------------------------------------------
FindMin == heap.minimum
Children(n) == Chain(heap.mem, heap.mem[n].child, "prev")
Roots == ToSet(Chain(heap.mem, heap.minimum, "next"))
InHeap == ReachableFrom(heap.mem, {"child", "prev"}, Roots)

(* The fields have their types, and size counts no more than there is.     *)
TypeOK ==
  /\ live \subseteq Node
  /\ heap.size \in 0 .. Cardinality(Node) /\ heap.minimum \in Node \cup {NULL}
  /\ heap.roots \in [0 .. MAXRANK - 1 -> (Node \cup {NULL}) \X (Node \cup {NULL})]
  /\ heap.largest_rank \in 0 .. MAXRANK - 1
  /\ \A n \in Node :
       /\ {heap.mem[n][f] : f \in {"child", "next", "prev"}} \subseteq Node \cup {NULL}
       /\ heap.mem[n].rank \in 0 .. MAXRANK - 1 /\ heap.mem[n].key \in Key \cup {0}

(* is_root, is_active and get_parent, which see a node's neighbours only,  *)
(* tell the roots, the last two children and the parents as they are.      *)
Linked ==
  \A n \in live :
    LET list == Children(n)
    IN  /\ IsRoot(heap.mem, n) <=> n \in Roots
        /\ \A i \in DOMAIN list :
             /\ heap.mem[list[i]].next = IF i = 1 THEN n ELSE list[i - 1]
             /\ IsActive(heap.mem, list[i]) <=> i <= 2
             /\ ParentOf(heap.mem, list[i]) = n
=============================================================================
