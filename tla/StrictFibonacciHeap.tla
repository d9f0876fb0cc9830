------------------------- MODULE StrictFibonacciHeap ------------------------
(***************************************************************************)
(* The strict Fibonacci heap of strict_fibonacci_heap.c: one tree, whose   *)
(* nodes but the root are also in a circular queue (q_prev, q_next).  An   *)
(* active node has a rank, one of a circular list of records that count    *)
(* the nodes pointing to them (inc, dec).  Active nodes below a passive    *)
(* one, and those that have lost a child, have a fix node in one of two    *)
(* circular lists, grouped by rank, the ranks with something to be reduced *)
(* first.  Without pq_meld the flag of the active record is always 1; the  *)
(* queue has a record while active, its count, is not 0.                   *)
(***************************************************************************)
EXTENDS PointerStore

CONSTANTS UINT32_MAX,
          Record, MaxLoss,   \* bounds: the addresses of rank records; losses
          Low                \* a bound: the keys to which a grown heap's are decreased

FixType == {"ROOT", "LOSS"}
NoLists == [ROOT |-> NULL, LOSS |-> NULL]
Zeroed == [key |-> 0, parent |-> NULL, left |-> NULL, right |-> NULL, left_child |-> NULL,
           q_prev |-> NULL, q_next |-> NULL, type |-> "PASSIVE", active |-> FALSE, rank |-> NULL,
           loss |-> 0, fix |-> FALSE, fix_left |-> NULL, fix_right |-> NULL]
ZeroedRecord == [rank |-> 0, inc |-> NULL, dec |-> NULL, ref_count |-> 0,
                 transformable |-> [ROOT |-> FALSE, LOSS |-> FALSE],
                 head |-> NoLists, tail |-> NoLists]

Empty ==
  [mem |-> [n \in Node |-> Zeroed], records |-> [r \in Record |-> ZeroedRecord], root |-> NULL,
   size |-> 0, q_head |-> NULL, active |-> 0, rank_list |-> NULL, fix_list |-> NoLists]

Init == heap = Empty /\ live = {}

-----------------------------------------------------------------------------
\* r->f = v for a rank record r.
SetRecord(s, r, f, v) == [s EXCEPT !.records[r][f] = v]

is_active(s, n) == s.mem[n].active

\* Of two nodes, the one that becomes the parent and the one below it.
ParentOf(s, a, b) == IF s.mem[a].key <= s.mem[b].key THEN a ELSE b
ChildOf(s, a, b) == IF s.mem[a].key <= s.mem[b].key THEN b ELSE a

remove_from_siblings(s, n) ==
  LET p == s.mem[n].parent
      next == s.mem[n].right
      prev == s.mem[n].left
      alone == Set(s, p, "left_child", NULL)
      between == Assign(s, << <<next, "left", prev>>, <<prev, "right", next>> >>)
      moved == IF s.mem[p].left_child = n THEN Set(between, p, "left_child", next) ELSE between
  IN  IF p = NULL THEN s
      ELSE Assign(IF next = n THEN alone ELSE moved,
                  << <<n, "right", n>>, <<n, "left", n>>, <<n, "parent", NULL>> >>)

\* An active child becomes the leftmost one, a passive child the rightmost.
Attach(s, parent, child) ==
  LET next == s.mem[parent].left_child
      prev == s.mem[next].left
      beside == << <<child, "right", next>>, <<child, "left", prev>>,
                   <<prev, "right", child>>, <<next, "left", child>> >>
      first == << <<parent, "left_child", child>> >>
      up == << <<child, "parent", parent>> >>
  IN  Assign(s, (IF next = NULL THEN first
                 ELSE beside \o (IF is_active(s, child) THEN first ELSE <<>>)) \o up)

link(s, parent, child) ==
  IF s.mem[child].parent = parent THEN s
  ELSE Attach(remove_from_siblings(s, IF child = s.root THEN parent ELSE child), parent, child)

Siblings(mem, first) == Chain(mem, first, "right")

\* The first of the children of the root with the least key.
select_new_root(s) ==
  LET children == Siblings(s.mem, s.mem[s.root].left_child)
  IN  FoldLeft(LAMBDA m, n : IF s.mem[n].key < s.mem[m].key THEN n ELSE m, Head(children), children)

enqueue_node(s, n) ==
  LET next == s.q_head
      prev == s.mem[next].q_prev
      s1 == IF next = NULL THEN s
            ELSE Assign(s, << <<n, "q_next", next>>, <<n, "q_prev", prev>>,
                              <<next, "q_prev", n>>, <<prev, "q_next", n>> >>)
  IN  [s1 EXCEPT !.q_head = s1.mem[n].q_next]

\* Mutant: the successor keeps its pointer back.
dequeue_node_one_way(s, n) ==
  LET next == s.mem[n].q_next
      prev == s.mem[n].q_prev
  IN  IF next = n THEN [s EXCEPT !.q_head = NULL]
      ELSE [Assign(s, << <<prev, "q_next", next>>, <<n, "q_next", n>>, <<n, "q_prev", n>> >>)
              EXCEPT !.q_head = next]

\* The head becomes the successor of n, whichever node it was.
dequeue_node(s, n) ==
  LET next == s.mem[n].q_next
      prev == s.mem[n].q_prev
  IN  IF next = n THEN [s EXCEPT !.q_head = NULL]
      ELSE [Assign(s, << <<next, "q_prev", prev>>, <<prev, "q_next", next>>,
                         <<n, "q_next", n>>, <<n, "q_prev", n>> >>) EXCEPT !.q_head = next]

-----------------------------------------------------------------------------
\* The records of rank: a new one goes before succ in the list.
create_rank_record(s, r, rank, succ) ==
  LET new == [ZeroedRecord EXCEPT !.rank = rank, !.inc = r, !.dec = r]
      pred == s.records[succ].dec
  IN  IF succ = NULL THEN [s EXCEPT !.records[r] = new, !.rank_list = r]
      ELSE [SetRecord(SetRecord(s, succ, "dec", r), pred, "inc", r)
              EXCEPT !.records[r] = [new EXCEPT !.inc = succ, !.dec = pred]]

FreeRecord(s) == CHOOSE r \in Record : s.records[r].ref_count = 0

release_rank_record(s, n) ==
  LET r == s.mem[n].rank
      inc == s.records[r].inc
      dec == s.records[r].dec
      s1 == Set([s EXCEPT !.records[r].ref_count = @ - 1], n, "rank", NULL)
      last == s.records[r].ref_count = 1
      s2 == [s1 EXCEPT !.rank_list = IF @ # r THEN @ ELSE IF inc = r THEN NULL ELSE inc]
  IN  IF ~last THEN s1
      ELSE IF inc = r THEN s2
      ELSE SetRecord(SetRecord(s2, inc, "dec", dec), dec, "inc", inc)

release_active_record(s, n) == [Set(s, n, "active", FALSE) EXCEPT !.active = @ - 1]

\* The fix nodes from head to tail are taken out of their list, and put in before at.
TakeOut(s, t, head, tail) ==
  LET pred == s.mem[head].fix_left
      succ == s.mem[tail].fix_right
  IN  [Assign(s, << <<pred, "fix_right", succ>>, <<succ, "fix_left", pred>> >>)
         EXCEPT !.fix_list[t] = IF @ = head THEN succ ELSE @]
PutBefore(s, at, head, tail) ==
  LET before == s.mem[at].fix_left
  IN  Assign(s, << <<at, "fix_left", tail>>, <<before, "fix_right", head>>,
                   <<head, "fix_left", before>>, <<tail, "fix_right", at>> >>)
MoveToEnd(s, t, head, tail) == PutBefore(s, s.fix_list[t], head, tail)

\* The fix nodes of a rank go to the front of their list, or to its end.
move_rank(s, r, t, promote) ==
  LET head == s.records[r].head[t]
      tail == s.records[r].tail[t]
      pred == s.mem[head].fix_left
      succ == s.mem[tail].fix_right
      list == s.fix_list[t]
      front(u) == IF promote THEN [u EXCEPT !.fix_list[t] = head] ELSE u
  IN  IF pred = tail \/ (promote /\ list = head) \/ (~promote /\ list = succ) THEN s
      ELSE front(IF promote /\ list = succ THEN s
                 ELSE MoveToEnd(TakeOut(s, t, head, tail), t, head, tail))

\* A rank can be reduced with two fix nodes, or one whose loss is more than 1.
Transformable(s, r, t) ==
  \/ s.records[r].head[t] # s.records[r].tail[t]
  \/ s.mem[s.records[r].head[t]].loss > 1

check_rank(s, r, t) ==
  LET now == Transformable(s, r, t)
  IN  IF s.records[r].head[t] = NULL \/ s.records[r].transformable[t] = now THEN s
      ELSE move_rank([s EXCEPT !.records[r].transformable[t] = now], r, t, now)

insert_fix_node(s, n, t) ==
  LET r == s.mem[n].rank
      head == s.records[r].head[t]
      list == s.fix_list[t]
      new == [s EXCEPT !.records[r].head[t] = n,
                       !.records[r].tail[t] = IF head = NULL THEN n ELSE @]
  IN  IF head = NULL /\ list = NULL
      THEN [Assign(new, << <<n, "fix_right", n>>, <<n, "fix_left", n>> >>) EXCEPT !.fix_list[t] = n]
      ELSE check_rank([PutBefore(new, IF head = NULL THEN list ELSE head, n, n)
                         EXCEPT !.fix_list[t] = IF @ = head THEN n ELSE @], r, t)

remove_fix_node(s, n, t) ==
  LET r == s.mem[n].rank
      next == s.mem[n].fix_right
      prev == s.mem[n].fix_left
      head == s.records[r].head[t]
      tail == s.records[r].tail[t]
      out == [s EXCEPT !.fix_list[t] = IF @ # n THEN @ ELSE IF next = n THEN NULL ELSE next,
                       !.records[r].head[t] = IF @ # n THEN @ ELSE IF tail = n THEN NULL ELSE next,
                       !.records[r].tail[t] = IF @ # n THEN @ ELSE IF head = n THEN NULL ELSE prev]
  IN  check_rank(Assign(out, << <<next, "fix_left", prev>>, <<prev, "fix_right", next>> >>), r, t)

FixTypeOf(s, n) == IF s.mem[n].type = "ROOT" THEN "ROOT" ELSE "LOSS"

WithRank(s, n, r) == [Set(s, n, "rank", r) EXCEPT !.records[r].ref_count = @ + 1]

\* Mutant: the fix node stays where those of the old rank are.
switch_node_rank_in_place(s, n, r) == WithRank(release_rank_record(s, n), n, r)

switch_node_rank(s, n, r) ==
  LET t == FixTypeOf(s, n)
  IN  IF s.mem[n].fix
      THEN insert_fix_node(WithRank(release_rank_record(remove_fix_node(s, n, t), n), n, r), n, t)
      ELSE WithRank(release_rank_record(s, n), n, r)

\* The record of rank target beside the one of n, or a new one before succ.
ToRank(s, n, beside, target, succ) ==
  LET there == s.records[beside].rank = target
      r == IF there THEN beside ELSE FreeRecord(s)
  IN  switch_node_rank(IF there THEN s ELSE create_rank_record(s, r, target, succ), n, r)

increase_rank(s, n) ==
  LET r == s.records[s.mem[n].rank]
  IN  ToRank(s, n, r.inc, (r.rank + 1) % (UINT32_MAX + 1), r.inc)

\* Below rank 0 comes the greatest one.
decrease_rank(s, n) ==
  LET r == s.records[s.mem[n].rank]
  IN  ToRank(s, n, r.dec, (r.rank + UINT32_MAX) % (UINT32_MAX + 1), s.mem[n].rank)

-----------------------------------------------------------------------------
\* The fix node of n is freed, or one is made for it.
ToActive(s, n, t) ==
  Assign(remove_fix_node(s, n, t), << <<n, "fix", FALSE>>, <<n, "type", "ACTIVE">> >>)
ToFix(s, n, t) ==
  insert_fix_node(Assign(s, << <<n, "fix", TRUE>>, <<n, "type", t>> >>), n, t)

convert_active_to_root(s, n) ==
  ToFix(IF s.mem[n].type = "LOSS" THEN ToActive(s, n, "LOSS") ELSE s, n, "ROOT")

increase_loss(s, n) ==
  LET more == Set(s, n, "loss", s.mem[n].loss + 1)
  IN  IF s.mem[n].loss = 0 THEN ToFix(more, n, "LOSS") ELSE more

decrease_loss(s, n) == ToActive(Set(s, n, "loss", 0), n, "LOSS")

\* A rank of 0 is shared only if it is the first of the list.
convert_passive_to_active(s, n) ==
  LET shared == s.rank_list # NULL /\ s.records[s.rank_list].rank = 0
      r == IF shared THEN s.rank_list ELSE FreeRecord(s)
      active == << <<n, "active", TRUE>>, <<n, "rank", r>>, <<n, "type", "ACTIVE">>,
                   <<s.mem[n].parent, "left_child", n>> >>
  IN  [Assign(IF shared THEN s ELSE create_rank_record(s, r, 0, s.rank_list), active)
         EXCEPT !.active = @ + 1, !.records[r].ref_count = @ + 1]

\* The active children of n become active roots, unless they have a loss.
ConvertChildren(s, n) ==
  FoldLeft(LAMBDA t, c : IF t.mem[c].type = "ACTIVE" THEN convert_active_to_root(t, c) ELSE t,
           s, Siblings(s.mem, s.mem[n].left_child))

convert_to_passive(s, n) ==
  LET unfixed == IF s.mem[n].fix THEN Set(remove_fix_node(s, n, FixTypeOf(s, n)), n, "fix", FALSE) ELSE s
  IN  ConvertChildren(
        Set(release_active_record(release_rank_record(unfixed, n), n), n, "type", "PASSIVE"), n)

-----------------------------------------------------------------------------
\* Two active roots of one rank: the lesser gets the other as a child.
RootsToReduce(s) ==
  LET head == s.fix_list["ROOT"]
  IN  head # NULL /\ head # s.records[s.mem[head].rank].tail["ROOT"]

\* The rightmost child of parent, if passive, becomes a child of the root.
GiveRightmost(s, parent) ==
  LET extra == s.mem[s.mem[parent].left_child].left
  IN  IF is_active(s, extra) THEN s ELSE link(s, s.root, extra)

reduce_active_roots(s) ==
  LET head == s.fix_list["ROOT"]
      next == s.mem[head].fix_right
      parent == ParentOf(s, head, next)
      child == ChildOf(s, head, next)
  IN  GiveRightmost(increase_rank(ToActive(link(s, parent, child), child, "ROOT"), parent), parent)

\* The three rightmost children of the root, if all are passive and none is its first.
RightmostChildren(s) ==
  LET children == Siblings(s.mem, s.mem[s.root].left_child)
  IN  IF Len(children) < 4 THEN <<>>
      ELSE [i \in 1 .. 3 |-> children[Len(children) + 1 - i]]
DegreeToReduce(s) ==
  /\ s.root # NULL /\ RightmostChildren(s) # <<>>
  /\ \A i \in 1 .. 3 : ~is_active(s, RightmostChildren(s)[i])

\* An active node below a root that is passive is an active root.
BelowRoot(s, n) == IF is_active(s, s.root) THEN s ELSE convert_active_to_root(s, n)

\* By ascending keys.
choose_order_triple(s, a, b, c) ==
  LET lesser == IF s.mem[a].key < s.mem[b].key THEN a ELSE b
      greater == IF lesser = a THEN b ELSE a
  IN  IF s.mem[greater].key < s.mem[c].key THEN <<lesser, greater, c>>
      ELSE IF s.mem[lesser].key < s.mem[c].key THEN <<lesser, c, greater>>
      ELSE <<c, lesser, greater>>

\* The first of three becomes the parent of the second, that one of the third.
MakePath(s, grand, parent, child) ==
  link(link(BelowRoot(increase_rank(convert_passive_to_active(convert_passive_to_active(s, parent), grand),
                                    grand), grand), parent, child), grand, parent)

PathOfThree(s, x) == MakePath(s, x[1], x[2], x[3])
reduce_root_degree(s) ==
  LET x == RightmostChildren(s) IN PathOfThree(s, choose_order_triple(s, x[1], x[2], x[3]))

\* A node with a loss of at least 2, or two nodes of one rank with a loss.
LossToReduce(s) ==
  LET head == s.fix_list["LOSS"]
  IN  head # NULL /\ (head # s.records[s.mem[head].rank].tail["LOSS"] \/ s.mem[head].loss >= 2)

\* A loss of a node with a parent that is active.
Loses(s, p) == IF s.mem[p].type # "ROOT" THEN increase_loss(s, p) ELSE s

\* The old parent of a node that was moved has a child less.
LessForOldParent(s, p) == IF p = NULL \/ ~is_active(s, p) THEN s ELSE Loses(decrease_rank(s, p), p)

one_node_loss_reduction(s, single) ==
  LessForOldParent(
    BelowRoot(decrease_loss(IF single = s.root THEN s ELSE link(s, s.root, single), single), single),
    s.mem[single].parent)

two_node_loss_reduction(s, a, b) ==
  LET parent == ParentOf(s, a, b)
      child == ChildOf(s, a, b)
  IN  LessForOldParent(
        increase_rank(decrease_loss(decrease_loss(link(s, parent, child), child), parent), parent),
        s.mem[child].parent)

reduce_loss(s) ==
  LET head == s.fix_list["LOSS"]
      next == s.mem[head].fix_right
  IN  IF ~LossToReduce(s) THEN s
      ELSE IF s.mem[head].loss > 1 THEN one_node_loss_reduction(s, head)
      ELSE IF s.mem[next].loss > 1 THEN one_node_loss_reduction(s, next)
      ELSE two_node_loss_reduction(s, head, next)

\* Reductions of roots, and of the degree if there are none, up to so many of each.
RECURSIVE Reduce(_, _, _)
Reduce(s, roots, degrees) ==
  IF roots = 0 \/ degrees = 0 THEN s
  ELSE IF RootsToReduce(s) THEN Reduce(reduce_active_roots(s), roots - 1, degrees)
  ELSE IF DegreeToReduce(s) THEN Reduce(reduce_root_degree(s), roots, degrees - 1)
  ELSE s

post_meld_reduction(s) == Reduce(reduce_loss(s), 1, 1)
post_decrease_key_reduction(s) == Reduce(reduce_loss(s), 6, 4)

RECURSIVE post_delete_min_reduction(_)
post_delete_min_reduction(s) ==
  IF RootsToReduce(s) THEN post_delete_min_reduction(reduce_active_roots(s))
  ELSE IF DegreeToReduce(s) THEN post_delete_min_reduction(reduce_root_degree(s))
  ELSE s

-----------------------------------------------------------------------------
\* A bound: no two nodes have one key, see trace_tools.h.
Unused(n, k) == \A m \in live \ {n} : heap.mem[m].key # k

\* The root and n, one below the other.
UnderRoot(s, n) ==
  [link(s, ParentOf(s, n, s.root), ChildOf(s, n, s.root)) EXCEPT !.root = ParentOf(s, n, @)]

WithNode(s, n, k) ==
  LET new == [Zeroed EXCEPT !.key = k, !.left = n, !.right = n, !.q_prev = n, !.q_next = n]
      added == [s EXCEPT !.mem[n] = new, !.size = @ + 1]
  IN  IF s.root = NULL THEN [added EXCEPT !.root = n]
      ELSE post_meld_reduction(enqueue_node(UnderRoot(added, n), ChildOf(added, n, s.root)))

pq_insert(n, k) ==
  /\ n \in Node \ live /\ Unused(n, k)
  /\ heap' = WithNode(heap, n, k)
  /\ live' = live \cup {n}

Passive(s, n) == IF is_active(s, n) THEN convert_to_passive(s, n) ELSE s

\* The children of the old root become children of the new one.
RECURSIVE LinkChildren(_, _, _)
LinkChildren(s, new, old) ==
  IF s.mem[old].left_child = NULL THEN s
  ELSE LinkChildren(link(s, new, s.mem[old].left_child), new, old)

\* The next node of the queue gives its two rightmost children, if passive, to the root.
GivePassive(s, n) ==
  LET first == s.mem[n].left_child
      last == s.mem[first].left
  IN  IF first # NULL /\ ~is_active(s, last) THEN link(s, s.root, last) ELSE s
Consumed(s) ==
  LET target == s.q_head
  IN  IF target = NULL THEN s
      ELSE GivePassive(GivePassive([s EXCEPT !.q_head = s.mem[target].q_next], target), target)

ReplaceRoot(s, old, new) ==
  LET out == [dequeue_node(remove_from_siblings(s, new), new) EXCEPT !.root = new]
  IN  Consumed(Consumed(LinkChildren(Passive(Passive(out, new), old), new, old)))

WithoutMinimum(s) ==
  LET old == s.root
      rest == IF s.mem[old].left_child = NULL THEN [Passive(s, old) EXCEPT !.root = NULL]
              ELSE ReplaceRoot(s, old, select_new_root(s))
  IN  [post_delete_min_reduction(rest) EXCEPT !.size = @ - 1]

pq_delete_min ==
  /\ heap.size > 0
  /\ live' = live \ {heap.root} /\ heap' = WithoutMinimum(heap)

\* The root, if n has taken its place, goes to where n was in the queue.
Requeued(s, n, root) == IF s.root = n THEN enqueue_node(dequeue_node(s, n), root) ELSE s

\* What n was and its old parent lost, when n came to be at the root or above it.
LeftParent(s, n, old) ==
  LET less == IF is_active(s, old) THEN decrease_rank(s, old) ELSE s
      moved == IF s.mem[n].type # "ROOT" THEN convert_active_to_root(less, n) ELSE less
  IN  IF is_active(s, n) THEN moved ELSE s
LosesActive(s, p) == IF is_active(s, p) THEN Loses(s, p) ELSE s

Decreased(s, n, k) ==
  LET old == s.mem[n].parent
      lower == Set(s, n, "key", k)
      up == UnderRoot(lower, n)
      top == Set(up, up.root, "parent", NULL)
  IN  IF old = NULL \/ k > s.mem[old].key THEN lower
      ELSE post_decrease_key_reduction(
             LosesActive(LeftParent(Requeued(top, n, s.root), n, old), old))

pq_decrease_key(n, k) ==
  /\ n \in live /\ k <= heap.mem[n].key /\ Unused(n, k)
  /\ heap' = Decreased(heap, n, k)
  /\ UNCHANGED live

(* pq_delete makes the key of the node 0 and calls pq_delete_min.          *)
pq_delete(n) ==
  /\ n \in live /\ Unused(n, 0)
  /\ live' = live \ {Decreased(heap, n, 0).root}
  /\ heap' = WithoutMinimum(Decreased(heap, n, 0))

pq_clear ==
  /\ heap' = [Empty EXCEPT !.mem = heap.mem] /\ live' = {}

\* A bound: no node has lost more children than this.
LossBound == \A n \in live : heap.mem[n].loss <= MaxLoss

Next ==
  /\ LossBound
  /\ \/ pq_delete_min
     \/ pq_clear
     \/ \E n \in Node : pq_delete(n)
     \/ \E n \in Node, k \in Key : pq_insert(n, k) \/ pq_decrease_key(n, k)

Spec == Init /\ [][Next]_vars

(* A heap that pq_insert of every node has built, with ascending keys      *)
(* above those in Low, and what pq_delete_min and pq_decrease_key to keys  *)
(* in Low make of it.                                                      *)
GrownInit ==
  /\ heap = FoldSet(LAMBDA n, s : WithNode(s, n, Cardinality(Low) + s.size), Empty, Node)
  /\ live = Node

GrownNext ==
  \/ heap.size + 3 > Cardinality(Node) /\ pq_delete_min   \* a bound: three deletions
  \/ \E n \in live, k \in Low : heap.mem[n].key \notin Low /\ pq_decrease_key(n, k)

GrownSpec == GrownInit /\ [][GrownNext]_vars
-----------------------------------------------------------------------------
FindMin == heap.root
InHeap == ReachableFrom(heap.mem, {"left_child", "right"}, {heap.root} \ {NULL})
Children(n) == Siblings(heap.mem, heap.mem[n].left_child)

(* The fields have their types, and a node is active, has a fix node and   *)
(* has a rank as its type says.                                            *)
TypeOK ==
  /\ live \subseteq Node
  /\ heap.size \in 0 .. Cardinality(Node) /\ heap.active \in 0 .. Cardinality(Node)
  /\ {heap.root, heap.q_head} \cup {heap.fix_list[t] : t \in FixType} \subseteq Node \cup {NULL}
  /\ heap.rank_list \in Record \cup {NULL}
  /\ \A r \in Record : heap.records[r].rank \in 0 .. UINT32_MAX
  /\ \A n \in live :
       LET v == heap.mem[n]
       IN  /\ v.type \in {"PASSIVE", "ACTIVE"} \cup FixType /\ v.key \in Key /\ v.loss \in Nat
           /\ v.active <=> v.type # "PASSIVE"
           /\ v.fix <=> v.type \in FixType
           /\ v.rank \in (IF v.active THEN Record ELSE {NULL})

(* Siblings are a circular list and know their parent, and the queue has   *)
(* every node but the root.                                                *)
Linked ==
  /\ \A n \in live :
       /\ heap.mem[heap.mem[n].right].left = n /\ heap.mem[heap.mem[n].q_next].q_prev = n
       /\ \A c \in ToSet(Children(n)) : heap.mem[c].parent = n
  /\ ToSet(Chain(heap.mem, heap.q_head, "q_next")) = live \ {heap.root}

(* The active children of a node are to the left of the passive ones, so   *)
(* that the reductions find a passive one by looking at the last.          *)
ActiveLeft ==
  \A n \in live : LET c == Children(n)
                  IN  \A i, j \in DOMAIN c : i < j /\ is_active(heap, c[j]) => is_active(heap, c[i])

(* The records in the list are those in use, with the count of their uses, *)
(* and the active record counts the active nodes.                          *)
RecordsCounted ==
  LET list == Chain(heap.records, heap.rank_list, "inc")
      users(r) == {n \in live : heap.mem[n].rank = r}
  IN  /\ heap.active = Cardinality({n \in live : heap.mem[n].active})
      /\ ToSet(list) = {r \in Record : users(r) # {}}
      /\ \A r \in Record : heap.records[r].ref_count = Cardinality(users(r))
      /\ \A r \in ToSet(list) : heap.records[heap.records[r].inc].dec = r

(* Each fix list has the nodes of its type, those of one record in a row   *)
(* from its head to its tail.                                              *)
FixListsGrouped ==
  \A t \in FixType :
    LET list == Chain(heap.mem, heap.fix_list[t], "fix_right")
        rank(i) == heap.mem[list[i]].rank
    IN  /\ ToSet(list) = {n \in live : heap.mem[n].type = t}
        /\ \A i, j, k \in DOMAIN list : i < j /\ j < k /\ rank(i) = rank(k) => rank(j) = rank(i)
        /\ \A i \in DOMAIN list :
             /\ heap.mem[heap.mem[list[i]].fix_right].fix_left = list[i]
             /\ i = 1 \/ rank(i - 1) # rank(i) => heap.records[rank(i)].head[t] = list[i]
             /\ i = Len(list) \/ rank(i + 1) # rank(i) => heap.records[rank(i)].tail[t] = list[i]

(* A rank counts children: no node has a rank as great as the number of    *)
(* nodes there are.                                                        *)
RankCounts ==
  \A n \in live : heap.mem[n].active => heap.records[heap.mem[n].rank].rank < Cardinality(Node)
=============================================================================
