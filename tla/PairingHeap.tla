---------------------------- MODULE PairingHeap -----------------------------
(***************************************************************************)
(* The two-pass pairing heap of pairing_heap.c: one tree of any shape.     *)
(* The children of a node form a list along next; the prev of the first of *)
(* them is their parent, which is how a node finds where to be cut.        *)
(***************************************************************************)
EXTENDS PointerStore

Zeroed == [child |-> NULL, next |-> NULL, prev |-> NULL, key |-> 0]

Init ==
  /\ heap = [mem |-> [n \in Node |-> Zeroed], root |-> NULL, size |-> 0]
  /\ live = {}

-----------------------------------------------------------------------------
(* Mutant: the first of two roots becomes the parent, whatever their keys. *)
merge_first(s, a, b) ==
  IF a = NULL \/ b = NULL \/ a = b THEN [s |-> s, root |-> IF a = NULL THEN b ELSE a]
  ELSE LET first == s.mem[a].child
           s1 == SetIf(Set(s, b, "next", first), first, "prev", b)
       IN  [s |-> [s1 EXCEPT !.mem[b].prev = a, !.mem[a].child = b,
                             !.mem[a].next = NULL, !.mem[a].prev = NULL],
            root |-> a]

(* merge: the root of greater key becomes the first child of the other. *)
merge(s, a, b) ==
  IF a = NULL THEN [s |-> s, root |-> b]
  ELSE IF b = NULL \/ a = b THEN [s |-> s, root |-> a]
  ELSE LET parent == IF s.mem[b].key < s.mem[a].key THEN b ELSE a
           child == IF parent = a THEN b ELSE a
           first == s.mem[parent].child
           s1 == SetIf(Set(s, child, "next", first), first, "prev", child)
       IN  [s |-> [s1 EXCEPT !.mem[child].prev = parent, !.mem[parent].child = child,
                             !.mem[parent].next = NULL, !.mem[parent].prev = NULL],
            root |-> parent]

(* Mutant: an odd node at the end is left out. *)
PairUp_even(p) ==
  IF p.next = NULL \/ p.s.mem[p.next].next = NULL THEN p
  ELSE LET b == p.s.mem[p.next].next
           r == merge(p.s, p.next, b)
       IN  [s |-> Set(r.s, r.root, "prev", p.tail), next |-> p.s.mem[b].next, tail |-> r.root]

(* One iteration of the first loop of collapse: the next two nodes of the  *)
(* list are merged, and the result points back to the one before it.       *)
PairUp(p) ==
  LET a == p.next
      b == p.s.mem[a].next
      r == merge(p.s, a, b)
  IN  IF a = NULL THEN p
      ELSE IF b = NULL THEN [s |-> Set(p.s, a, "prev", p.tail), next |-> NULL, tail |-> a]
      ELSE [s |-> Set(r.s, r.root, "prev", p.tail), next |-> p.s.mem[b].next, tail |-> r.root]

(* Mutant: the first of the results is left out. *)
MergeBack_but_first(p) ==
  IF p.tail = NULL \/ p.s.mem[p.tail].prev = NULL THEN p
  ELSE LET r == merge(p.s, p.root, p.tail)
       IN  [s |-> r.s, tail |-> p.s.mem[p.tail].prev, root |-> r.root]

\* One iteration of the second loop: back along the results, into one tree.
MergeBack(p) ==
  LET r == merge(p.s, p.root, p.tail)
  IN  IF p.tail = NULL THEN p
      ELSE [s |-> r.s, tail |-> p.s.mem[p.tail].prev, root |-> r.root]

(* Both loops stand still once they have come to their end, which no loop  *)
(* over distinct nodes can be further away from than there are nodes.      *)
Paired(s, n) ==
  LET after[i \in 0 .. Cardinality(Node)] ==
        IF i = 0 THEN [s |-> s, next |-> n, tail |-> NULL] ELSE PairUp(after[i - 1])
  IN  after[Cardinality(Node)]

Merged(s, tail) ==
  LET after[i \in 0 .. Cardinality(Node)] ==
        IF i = 0 THEN [s |-> s, tail |-> tail, root |-> NULL] ELSE MergeBack(after[i - 1])
  IN  after[Cardinality(Node)]

collapse(s, n) ==
  LET paired == Paired(s, n)
      merged == Merged(paired.s, paired.tail)
  IN  [s |-> merged.s, root |-> merged.root]

\* Mutant: the next sibling still points back to n.
Cut_one_way(s, n) ==
  LET prev == s.mem[n].prev
  IN  Set(s, prev, IF s.mem[prev].child = n THEN "child" ELSE "next", s.mem[n].next)

\* Takes n, which is not the root, out of the list of its siblings.
Cut(s, n) ==
  LET prev == s.mem[n].prev
      next == s.mem[n].next
      s1 == Set(s, prev, IF s.mem[prev].child = n THEN "child" ELSE "next", next)
  IN  SetIf(s1, next, "prev", s1.mem[n].prev)

-----------------------------------------------------------------------------
pq_insert(n, k) ==
  /\ n \in Node \ live
  /\ LET s == [heap EXCEPT !.mem[n] = [Zeroed EXCEPT !.key = k], !.size = @ + 1]
         r == merge(s, s.root, n)
     IN  heap' = [r.s EXCEPT !.root = r.root]
  /\ live' = live \cup {n}

(* Mutant: the children of a node that is not the root go with it. *)
pq_delete_subtree(n) ==
  /\ n \in live /\ live' = live \ {n}
  /\ LET cut == Cut(heap, n)
         r == IF n = heap.root THEN collapse(heap, heap.mem[n].child)
              ELSE [s |-> cut, root |-> cut.root]
     IN  heap' = [r.s EXCEPT !.root = r.root, !.size = @ - 1]

pq_delete(n) ==
  /\ n \in live /\ live' = live \ {n}
  /\ LET cut == Cut(heap, n)
         rest == collapse(cut, cut.mem[n].child)
         r == IF n = heap.root THEN collapse(heap, heap.mem[n].child)
              ELSE merge(rest.s, rest.s.root, rest.root)
     IN  heap' = [r.s EXCEPT !.root = r.root, !.size = @ - 1]

pq_delete_min == heap.size > 0 /\ pq_delete(heap.root)

(* Mutant: a node stays where it is. *)
pq_decrease_key_in_place(n, k) ==
  /\ n \in live /\ k <= heap.mem[n].key
  /\ heap' = Set(heap, n, "key", k)
  /\ UNCHANGED live

pq_decrease_key(n, k) ==
  /\ n \in live /\ k <= heap.mem[n].key
  /\ LET s == Set(heap, n, "key", k)
         r == merge(Cut(s, n), s.root, n)
     IN  heap' = IF n = heap.root THEN s ELSE [r.s EXCEPT !.root = r.root]
  /\ UNCHANGED live

(* Mutant: size stays. *)
pq_clear_keeps_size ==
  /\ heap' = [heap EXCEPT !.root = NULL]
  /\ live' = {}

pq_clear ==
  /\ heap' = [heap EXCEPT !.root = NULL, !.size = 0]
  /\ live' = {}

Next ==
  \/ pq_delete_min
  \/ pq_clear
  \/ \E n \in Node : pq_delete(n)
  \/ \E n \in Node, k \in Key : pq_insert(n, k) \/ pq_decrease_key(n, k)

Spec == Init /\ [][Next]_vars

-----------------------------------------------------------------------------
FindMin == heap.root
Children(n) == Chain(heap.mem, heap.mem[n].child, "next")
InHeap == ReachableFrom(heap.mem, {"child", "next"}, {heap.root} \cap Node)

(* The fields have their types, and size counts no more than there is.    *)
TypeOK ==
  /\ live \subseteq Node
  /\ heap.size \in 0 .. Cardinality(Node) /\ heap.root \in Node \cup {NULL}
  /\ \A n \in Node :
       /\ {heap.mem[n][f] : f \in {"child", "next", "prev"}} \subseteq Node \cup {NULL}
       /\ heap.mem[n].key \in Key \cup {0}

(* "If a node is the first of its siblings, then its prev pointer points   *)
(* to their collective parent", the others' to the sibling before them,    *)
(* and the root has no siblings: what the next cut relies on, though       *)
(* collapse uses prev for its own list of results in between.              *)
Linked ==
  /\ live # {} => heap.mem[heap.root].next = NULL /\ heap.mem[heap.root].prev = NULL
  /\ \A n \in live :
       LET list == Children(n)
       IN  \A i \in DOMAIN list :
             heap.mem[list[i]].prev = IF i = 1 THEN n ELSE list[i - 1]

(* From the root, along child and next, every node allocated is reached    *)
(* and no other, and size counts them: no cut, merge or collapse loses a   *)
(* subtree, and none leaves a pointer to a node that is freed.             *)
HoldsLive == InHeap = live /\ heap.size = Cardinality(live)

(* No child in the list of a node has a lesser key than the node, whatever *)
(* was cut, decreased, merged and paired before.                           *)
HeapOrder ==
  \A n \in live : \A c \in ToSet(Children(n)) : heap.mem[n].key <= heap.mem[c].key

(* pq_find_min, which returns the root, returns a node of least key of all *)
(* that pq_insert has made and no pq_delete, pq_delete_min or pq_clear has *)
(* taken back.                                                             *)
FindMinCorrect == \A n \in live : heap.mem[FindMin].key <= heap.mem[n].key

\* The nodes that the pointers of the heap reach, and their keys.
Contents == [n \in InHeap |-> heap.mem[n].key]
PQ == INSTANCE PriorityQueue WITH contents <- Contents

(* The pairing heap is a priority queue of the nodes inserted into it:     *)
(* what pq_delete_min takes out is a least one, pq_delete takes out one    *)
(* node, no call but pq_clear takes out all of them, and none changes      *)
(* another.  (It is PriorityQueue's Next, and pq_delete, with Clear and    *)
(* Delete left to the calls that may do so.)                               *)
ImplementsPQ ==
  /\ PQ!Init
  /\ [][\/ PQ!DeleteMin
        \/ PQ!Clear /\ pq_clear
        \/ (\E n \in Node : PQ!Delete(n)) /\ ~ pq_delete_min
        \/ \E k \in Key : PQ!Insert(k) \/ \E n \in Node : PQ!DecreaseKey(n, k)]_Contents

(* pq_delete takes the node it is given out of the tree, none of those     *)
(* below it or beside it, whether it was the root or not.                  *)
DeletesThatNode == [][\A n \in Node : pq_delete(n) => PQ!Delete(n)]_vars
=============================================================================
