------------------------------ MODULE QuakeHeap -----------------------------
(***************************************************************************)
(* The quake heap of quake_heap.c: a forest of tournament trees.  The      *)
(* winner of a match moves up, and a duplicate of it, a node of the pool   *)
(* that no client knows, takes its old place as its left child; right is   *)
(* the loser.  The roots are a circular list along parent.  When there     *)
(* come to be too many nodes of one height for the height below, every     *)
(* tree is cut off at that height.                                         *)
(***************************************************************************)
EXTENDS PointerStore

CONSTANTS MAXRANK,     \* length of the tables roots and nodes
          Duplicate    \* a bound: the addresses pq_alloc_node gives to duplicates

Address == Node \cup Duplicate
Zeroed == [parent |-> NULL, left |-> NULL, right |-> NULL, height |-> 0, key |-> 0]

Init ==
  /\ heap = [mem |-> [n \in Address |-> Zeroed], minimum |-> NULL, size |-> 0,
             roots |-> [h \in 0 .. MAXRANK - 1 |-> NULL],
             nodes |-> [h \in 0 .. MAXRANK - 1 |-> 0],
             highest_node |-> 0, violation |-> 0, duplicates |-> {}]
  /\ live = {}

-----------------------------------------------------------------------------
IsRoot(mem, n) == n \notin {mem[mem[n].parent].left, mem[mem[n].parent].right}

(* make_root: n joins the list after minimum. *)
make_root(s, n) ==
  IF n = NULL THEN s
  ELSE IF s.minimum = NULL THEN Set([s EXCEPT !.minimum = n], n, "parent", n)
  ELSE [Assign(s, << <<n, "parent", s.mem[s.minimum].parent>>, <<s.minimum, "parent", n>> >>)
          EXCEPT !.minimum = IF s.mem[n].key < s.mem[@].key THEN n ELSE @]

\* The root before n in the list.
RECURSIVE PredecessorFrom(_, _, _)
PredecessorFrom(mem, current, n) ==
  IF mem[current].parent = n THEN current ELSE PredecessorFrom(mem, mem[current].parent, n)

remove_from_roots(s, n) ==
  LET current == PredecessorFrom(s.mem, s.mem[n].parent, n)
  IN  IF current = n THEN [s EXCEPT !.minimum = NULL]
      ELSE [Set(s, current, "parent", s.mem[n].parent)
              EXCEPT !.minimum = IF @ = n THEN current ELSE @]

\* Takes n from its parent, on whichever side it is.
LeaveParent(s, n) ==
  LET p == s.mem[n].parent
  IN  Set(s, p, IF s.mem[p].left = n THEN "left" ELSE "right", NULL)

\* pq_free_node of one of the nodes at n's height, and the counter of it.
FreeNode(s, n, height) ==
  [s EXCEPT !.nodes[height] = @ - 1, !.duplicates = @ \ {n}]

(* cut: n and the duplicates of it below are freed; the losers of their    *)
(* matches become roots, the lowest first.                                 *)
RECURSIVE cut(_, _)
cut(s, n) ==
  LET apart == IF IsRoot(s.mem, n) THEN remove_from_roots(s, n) ELSE LeaveParent(s, n)
      s1 == cut(apart, s.mem[n].left)
  IN  IF n = NULL THEN s
      ELSE FreeNode(make_root(s1, s.mem[n].right), n, s.mem[n].height)

\* Mutant: the duplicate moves up, and the winner stays below it.
join_duplicate_up(s, a, b) ==
  LET below == IF s.mem[b].key < s.mem[a].key THEN b ELSE a
      child == IF below = a THEN b ELSE a
      d == CHOOSE n \in Duplicate : n \notin s.duplicates
      height == s.mem[below].height + 1
      up == [parent |-> NULL, left |-> below, right |-> child, height |-> height, key |-> s.mem[below].key]
  IN  [s |-> [Assign(s, << <<child, "parent", d>>, <<below, "parent", d>> >>)
                EXCEPT !.mem[d] = up, !.nodes[height] = @ + 1, !.duplicates = @ \cup {d}],
       tree |-> d]

(* join: the root of lesser key moves up over its duplicate and the other. *)
join(s, a, b) ==
  LET parent == IF s.mem[b].key < s.mem[a].key THEN b ELSE a
      child == IF parent = a THEN b ELSE a
      d == CHOOSE n \in Duplicate : n \notin s.duplicates
      copy == [s.mem[parent] EXCEPT !.parent = parent]
      s1 == SetIf(SetIf([s EXCEPT !.mem[d] = copy], copy.left, "parent", d), copy.right, "parent", d)
      height == copy.height + 1
  IN  [s |-> [Assign(s1, << <<child, "parent", parent>>, <<parent, "parent", NULL>>,
                            <<parent, "left", d>>, <<parent, "right", child>>,
                            <<parent, "height", height>> >>)
                EXCEPT !.nodes[height] = @ + 1, !.duplicates = @ \cup {d}],
       tree |-> parent]

(* fix_roots: the list of roots is walked from current to its end tail;    *)
(* the trees that had to be joined are put behind the end, to be walked    *)
(* as well.                                                                *)
RECURSIVE InsertRoots(_, _, _)
InsertRoots(s, current, tail) ==
  LET next == s.mem[current].parent
      height == s.mem[current].height
      alone == Set(s, current, "parent", NULL)
      inserted == [alone EXCEPT !.roots[height] = current,
                                !.highest_node = IF height > @ THEN height ELSE @]
      joined == join(alone, current, s.roots[height])
      behind == IF current = tail THEN joined.s ELSE Set(joined.s, tail, "parent", joined.tree)
  IN  IF current = NULL THEN s
      ELSE IF s.roots[height] \in {NULL, current} THEN InsertRoots(inserted, next, tail)
      ELSE InsertRoots([behind EXCEPT !.roots[height] = NULL],
                       IF current = tail THEN joined.tree ELSE next, joined.tree)

\* The trees in the table, from the lowest up, become the circular list.
MakeList(s) ==
  LET present == SelectSeq([i \in 1 .. s.highest_node + 1 |-> s.roots[i - 1]], LAMBDA n : n # NULL)
      next(i) == present[IF i = Len(present) THEN 1 ELSE i + 1]
  IN  [Assign(s, [i \in DOMAIN present |-> <<present[i], "parent", next(i)>>])
         EXCEPT !.minimum = FoldLeft(LAMBDA m, n : IF s.mem[n].key < s.mem[m].key THEN n ELSE m,
                                     present[1], present)]

fix_roots(s) ==
  LET reset == [s EXCEPT !.roots = [h \in DOMAIN @ |-> IF h <= s.highest_node THEN NULL ELSE @[h]],
                         !.highest_node = 0]
  IN  IF s.minimum = NULL THEN s
      ELSE MakeList(InsertRoots(Set(reset, s.minimum, "parent", NULL),
                                s.mem[s.minimum].parent, s.minimum))

\* The first height with more than ALPHA = 3/4 of the nodes below, or one past the last.
FirstViolation(s) ==
  LET violating == {i \in 1 .. s.highest_node : 4 * s.nodes[i] > 3 * s.nodes[i - 1]}
  IN  CHOOSE i \in violating \cup {s.highest_node + 1} : \A j \in violating : i <= j

\* Mutant: n takes over all of its duplicate, the key it had then as well.
Lowered_old_key(s, n) ==
  LET d == s.mem[n].left
      old == [s.mem[d] EXCEPT !.parent = s.mem[n].parent]
      s1 == SetIf(SetIf([s EXCEPT !.mem[n] = old], old.left, "parent", n), old.right, "parent", n)
  IN  FreeNode(s1, d, s.mem[n].height)

\* n is put back in the place of its duplicate.
Lowered(s, n) ==
  LET d == s.mem[n].left
      s1 == SetIf(Set(s, n, "left", s.mem[d].left), s.mem[d].left, "parent", n)
      s2 == SetIf(Set(s1, n, "right", s.mem[d].right), s.mem[d].right, "parent", n)
  IN  FreeNode(Set(s2, n, "height", s.mem[n].height - 1), d, s.mem[n].height)

(* prune: n is lowered until it is below the violation, the losers of its  *)
(* matches first, and becomes a root.                                      *)
RECURSIVE prune(_, _)
prune(s, n) ==
  IF n = NULL THEN s
  ELSE IF s.mem[n].height < s.violation
  THEN IF IsRoot(s.mem, n) THEN s ELSE make_root(s, n)
  ELSE prune(Lowered(prune(s, s.mem[n].right), n), n)

(* fix_decay: the trees in the table from the violation up are pruned.     *)
fix_decay(s0) ==
  LET s == [s0 EXCEPT !.violation = FirstViolation(s0)]
  IN  IF s.violation >= MAXRANK THEN s
      ELSE FoldLeft(LAMBDA t, i : prune(t, t.roots[i]), s,
                    [i \in 1 .. MAXRANK - s.violation |-> s.violation + i - 1])

-----------------------------------------------------------------------------
pq_insert(n, k) ==
  /\ n \in Node \ live
  /\ heap' = make_root([heap EXCEPT !.mem[n] = [Zeroed EXCEPT !.key = k, !.parent = n],
                                    !.size = @ + 1, !.nodes[0] = @ + 1], n)
  /\ live' = live \cup {n}

pq_delete(n) ==
  /\ n \in live /\ live' = live \ {n}
  /\ heap' = [fix_decay(fix_roots(cut(heap, n))) EXCEPT !.size = @ - 1]

pq_delete_min == heap.size > 0 /\ pq_delete(heap.minimum)

pq_decrease_key(n, k) ==
  /\ n \in live /\ k <= heap.mem[n].key
  /\ LET s == Set(heap, n, "key", k)
     IN  heap' = IF ~IsRoot(s.mem, n) THEN make_root(LeaveParent(s, n), n)
                 ELSE [s EXCEPT !.minimum = IF k < s.mem[@].key THEN n ELSE @]
  /\ UNCHANGED live

pq_clear ==
  /\ heap' = [heap EXCEPT !.minimum = NULL, !.size = 0, !.highest_node = 0, !.violation = 0,
                          !.roots = [h \in DOMAIN @ |-> NULL], !.nodes = [h \in DOMAIN @ |-> 0],
                          !.duplicates = {}]
  /\ live' = {}

Next ==
  \/ pq_delete_min
  \/ pq_clear
  \/ \E n \in Node : pq_delete(n)
  \/ \E n \in Node, k \in Key : pq_insert(n, k) \/ pq_decrease_key(n, k)

Spec == Init /\ [][Next]_vars

-----------------------------------------------------------------------------
FindMin == heap.minimum
Children(n) == SelectSeq(<<heap.mem[n].left, heap.mem[n].right>>, LAMBDA c : c # NULL)
Roots == ToSet(Chain(heap.mem, heap.minimum, "parent"))
Reached == ReachableFrom(heap.mem, {"left", "right"}, Roots)

(* What clients inserted: the duplicates are nodes of the queue only.      *)
InHeap == Reached \ Duplicate

(* The fields have their types, and the counters are what can be counted.  *)
TypeOK ==
  /\ live \subseteq Node /\ heap.duplicates \subseteq Duplicate
  /\ heap.size \in 0 .. Cardinality(Node) /\ heap.minimum \in Node \cup {NULL}
  /\ heap.highest_node \in 0 .. MAXRANK - 1 /\ heap.violation \in 0 .. MAXRANK
  /\ heap.roots \in [0 .. MAXRANK - 1 -> Node \cup {NULL}]
  /\ heap.nodes \in [0 .. MAXRANK - 1 -> 0 .. Cardinality(Address)]
  /\ \A n \in Address :
       /\ {heap.mem[n][f] : f \in {"parent", "left", "right"}} \subseteq Address \cup {NULL}
       /\ heap.mem[n].height \in 0 .. MAXRANK - 1 /\ heap.mem[n].key \in Key \cup {0}

(* A pointer down has its pointer up, the roots are a circle of their own, *)
(* and no duplicate is left behind in the pool's books or in a wrong       *)
(* place: duplicates are left children and nothing else is.                *)
Linked ==
  /\ Reached \cap Duplicate = heap.duplicates
  /\ \A n \in Reached : \A c \in ToSet(Children(n)) : heap.mem[c].parent = n
  /\ \A r \in Roots : heap.mem[r].parent \in Roots /\ IsRoot(heap.mem, r)
  /\ {heap.mem[n].left : n \in Reached} \ {NULL} = heap.duplicates

(* nodes counts the nodes of each height, which fall off exponentially:    *)
(* the height stays logarithmic, whatever pq_decrease_key cuts.            *)
Decay ==
  /\ \A h \in 0 .. MAXRANK - 1 :
       heap.nodes[h] = Cardinality({n \in live \cup heap.duplicates : heap.mem[n].height = h})
  /\ \A h \in 1 .. MAXRANK - 1 : 4 * heap.nodes[h] <= 3 * heap.nodes[h - 1]

\* A node of height h has its duplicate of height h - 1 below it and no higher child.
Heights ==
  \A n \in Reached :
    LET v == heap.mem[n]
    IN  /\ v.left = NULL <=> v.height = 0
        /\ \A c \in ToSet(Children(n)) : heap.mem[c].height = v.height - 1

(* Above highest_node the tables are empty, which fix_decay relies on when *)
(* there is no violation and it goes through them all the same.            *)
EmptyAbove ==
  \A h \in heap.highest_node + 1 .. MAXRANK - 1 : heap.roots[h] = NULL /\ heap.nodes[h] = 0
=============================================================================
