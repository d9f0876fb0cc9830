------------------------------- MODULE Queues -------------------------------
(***************************************************************************)
(* The pointer-based queues side by side.  Every program of the library is *)
(* built with one of them (kind), behind the common interface of           *)
(* queue_common.h, and holds all of them to the same promises, which are   *)
(* stated here once.                                                       *)
(***************************************************************************)
EXTENDS PointerStore

CONSTANTS Kinds,                \* the queues, and builds of them, to be looked at
          MAXRANK, UINT32_MAX,
          FewKeys,              \* a bound for the queues with the fewest shapes
          SomeNodes, SomeKeys,  \* bounds for the queues with the most shapes
          MoreNodes,            \* a bound for queues that have grown before
          DistinctKeys,         \* a bound for the queues that take each key once
          MaxLoss,              \* a bound: the losses of a node of a strict Fibonacci heap
          Other                 \* a bound: the addresses of what is allocated beside the nodes

ASSUME BoundAssumption ==
  /\ MAXRANK \in Nat \ {0} /\ UINT32_MAX \in Nat /\ MAXRANK <= UINT32_MAX
  /\ SomeNodes \subseteq MoreNodes /\ MoreNodes \subseteq Node
  /\ SomeKeys \subseteq FewKeys /\ FewKeys \subseteq Key /\ 0 \in SomeKeys
  /\ DistinctKeys \subseteq Key /\ MaxLoss \in Nat
  /\ Other \cap Node = {} /\ NULL \notin Other

VARIABLE kind

Fibonacci == INSTANCE FibonacciHeap WITH Node <- SomeNodes, Key <- SomeKeys
Grown == INSTANCE FibonacciHeap WITH Key <- SomeKeys
Binomial == INSTANCE BinomialQueue WITH Key <- FewKeys
Explicit == INSTANCE ExplicitHeap WITH Key <- FewKeys, BRANCHING_FACTOR <- 2
WideExplicit == INSTANCE ExplicitHeap WITH Key <- FewKeys, BRANCHING_FACTOR <- 4
Quake == INSTANCE QuakeHeap WITH Node <- SomeNodes, Key <- SomeKeys, Duplicate <- Other
Weak == INSTANCE RankRelaxedWeakQueue WITH Node <- SomeNodes, Key <- DistinctKeys
GrownWeak == INSTANCE RankRelaxedWeakQueue WITH Node <- MoreNodes
Strict == INSTANCE StrictFibonacciHeap
  WITH Node <- SomeNodes, Key <- DistinctKeys, Record <- Other, Low <- SomeKeys
GrownStrict == INSTANCE StrictFibonacciHeap
  WITH Node <- MoreNodes, Record <- Other, Low <- SomeKeys
RankPairing1 == INSTANCE RankPairingHeap
  WITH Node <- SomeNodes, Key <- SomeKeys, USE_TYPE_1 <- TRUE
RankPairing2 == INSTANCE RankPairingHeap
  WITH Node <- SomeNodes, Key <- SomeKeys, USE_TYPE_1 <- FALSE
Violation == INSTANCE ViolationHeap WITH Node <- SomeNodes, Key <- SomeKeys

(* A Fibonacci heap that pq_insert of every node, with the greatest key,   *)
(* and one pq_delete_min have built, and the ways in which it shrinks.     *)
(* With 2^k + 1 nodes it is one tree of rank k.                            *)
GrownHeap ==
  LET greatest == CHOOSE k \in SomeKeys : \A l \in SomeKeys : l <= k
  IN  Grown!WithoutMinimum(
        FoldSet(LAMBDA n, s : Grown!WithNode(s, n, greatest), Grown!Empty, Node))

GrownInit ==
  /\ heap = GrownHeap
  /\ live = ReachableFrom(heap.mem, {"first_child", "next"}, {heap.minimum})

GrownNext ==
  \/ heap.size + 2 > Cardinality(Node) /\ Grown!pq_delete_min   \* a bound: one more deletion
  \/ \E n \in live, k \in SomeKeys : k < heap.mem[n].key /\ Grown!pq_decrease_key(n, k)

(* Likewise a weak queue, with ascending keys above those in SomeKeys, to  *)
(* which they are then decreased.                                          *)
GrownWeakInit ==
  /\ heap = FoldSet(LAMBDA n, s : GrownWeak!WithNode(s, n, Cardinality(SomeKeys) + s.size),
                    GrownWeak!Empty, MoreNodes)
  /\ live = MoreNodes

GrownWeakNext ==
  \/ heap.size + 3 > Cardinality(MoreNodes)   \* a bound: three deletions
     /\ GrownWeak!Apart(heap) /\ GrownWeak!pq_delete_min
  \/ \E n \in live, k \in SomeKeys :
       heap.mem[n].key \notin SomeKeys /\ GrownWeak!pq_decrease_key(n, k)

Init ==
  /\ kind \in Kinds
  /\ \/ kind = "Fibonacci" /\ Fibonacci!Init
     \/ kind = "grown Fibonacci" /\ GrownInit
     \/ kind = "binomial" /\ Binomial!Init
     \/ kind = "explicit 2" /\ Explicit!Init
     \/ kind = "explicit 4" /\ WideExplicit!Init
     \/ kind = "quake" /\ Quake!Init
     \/ kind = "rank-pairing 1" /\ RankPairing1!Init
     \/ kind = "rank-pairing 2" /\ RankPairing2!Init
     \/ kind = "violation" /\ Violation!Init
     \/ kind = "weak" /\ Weak!Init
     \/ kind = "grown weak" /\ GrownWeakInit
     \/ kind = "strict" /\ Strict!Init
     \/ kind = "grown strict" /\ GrownStrict!GrownInit

Next ==
  /\ UNCHANGED kind
  /\ \/ kind = "Fibonacci" /\ Fibonacci!Next
     \/ kind = "grown Fibonacci" /\ GrownNext
     \/ kind = "binomial" /\ Binomial!Next
     \/ kind = "explicit 2" /\ Explicit!Next
     \/ kind = "explicit 4" /\ WideExplicit!Next
     \/ kind = "quake" /\ Quake!Next
     \/ kind = "rank-pairing 1" /\ RankPairing1!Next
     \/ kind = "rank-pairing 2" /\ RankPairing2!Next
     \/ kind = "violation" /\ Violation!Next
     \/ kind = "weak" /\ Weak!Next
     \/ kind = "grown weak" /\ GrownWeakNext
     \/ kind = "strict" /\ Strict!Next
     \/ kind = "grown strict" /\ GrownStrict!GrownNext

Spec == Init /\ [][Next]_<<vars, kind>>

-----------------------------------------------------------------------------
IsFibonacci == kind \in {"Fibonacci", "grown Fibonacci"}
IsWeak == kind \in {"weak", "grown weak"}
IsStrict == kind \in {"strict", "grown strict"}
IsRankPairing == kind \in {"rank-pairing 1", "rank-pairing 2"}

InHeap ==
  CASE IsFibonacci -> Grown!InHeap
    [] kind = "binomial" -> Binomial!InHeap
    [] kind = "explicit 2" -> Explicit!InHeap
    [] kind = "explicit 4" -> WideExplicit!InHeap
    [] kind = "quake" -> Quake!InHeap
    [] IsRankPairing -> RankPairing1!InHeap
    [] kind = "violation" -> Violation!InHeap
    [] IsWeak -> GrownWeak!InHeap
    [] IsStrict -> GrownStrict!InHeap

Children(n) ==
  CASE IsFibonacci -> Grown!Children(n)
    [] kind = "binomial" -> Binomial!Children(n)
    [] kind = "explicit 2" -> Explicit!Children(n)
    [] kind = "explicit 4" -> WideExplicit!Children(n)
    [] kind = "quake" -> Quake!Children(n)
    [] IsRankPairing -> RankPairing1!Children(n)
    [] kind = "violation" -> Violation!Children(n)
    [] IsWeak -> GrownWeak!Children(n)
    [] IsStrict -> GrownStrict!Children(n)

\* pq_find_min: the queue's minimum or, of a queue that is one tree, its root.
FindMin == IF "root" \in DOMAIN heap THEN heap.root ELSE heap.minimum

(* The fields of the queue and of its nodes have their types. *)
TypeOK ==
  CASE kind = "Fibonacci" -> Fibonacci!TypeOK
    [] kind = "grown Fibonacci" -> Grown!TypeOK
    [] kind = "binomial" -> Binomial!TypeOK
    [] kind = "explicit 2" -> Explicit!TypeOK
    [] kind = "explicit 4" -> WideExplicit!TypeOK
    [] kind = "quake" -> Quake!TypeOK
    [] IsRankPairing -> RankPairing1!TypeOK
    [] kind = "violation" -> Violation!TypeOK
    [] kind = "weak" -> Weak!TypeOK
    [] kind = "grown weak" -> GrownWeak!TypeOK
    [] kind = "strict" -> Strict!TypeOK
    [] kind = "grown strict" -> GrownStrict!TypeOK

(* What the pointers of the queue reach is what is allocated, as many      *)
(* nodes as size says: no cut, splice, link, carry or swap loses a tree.   *)
HoldsLive == InHeap = live /\ heap.size = Cardinality(live)

(* The pointers of a node and of its relatives agree, see the modules.     *)
Linked ==
  CASE IsFibonacci -> Grown!Linked
    [] kind = "binomial" -> Binomial!Linked
    [] kind = "explicit 2" -> Explicit!Linked
    [] kind = "explicit 4" -> WideExplicit!Linked
    [] kind = "quake" -> Quake!Linked
    [] IsRankPairing -> RankPairing1!Linked
    [] kind = "violation" -> Violation!Linked
    [] IsWeak -> GrownWeak!Linked
    [] IsStrict -> GrownStrict!Linked

(* The trees have the shape the bounds on ranks, heights and paths rest on. *)
TreeShapes ==
  /\ IsFibonacci => Grown!RankGrowth
  /\ kind = "binomial" => Binomial!PerfectTrees
  /\ kind = "explicit 2" => Explicit!DigitTree
  /\ kind = "explicit 4" => WideExplicit!DigitTree
  /\ kind = "quake" => Quake!Decay /\ Quake!Heights
  /\ IsWeak => GrownWeak!HalfTrees /\ GrownWeak!Marks
  /\ IsStrict => GrownStrict!ActiveLeft

(* The table of roots says what is there: nothing between the calls of a   *)
(* Fibonacci or rank-pairing heap, the roots and their registry for a      *)
(* binomial queue, nothing above the highest tree for a quake heap, roots  *)
(* and marked nodes for a weak queue.  The fix lists of a strict Fibonacci *)
(* heap group the nodes by records that count their uses.                  *)
RootsTable ==
  /\ IsFibonacci => Grown!RootsTableEmpty
  /\ kind = "binomial" => Binomial!RegistryCoherent
  /\ kind = "quake" => Quake!EmptyAbove
  /\ IsWeak => GrownWeak!TablesCoherent
  /\ IsStrict => GrownStrict!RecordsCounted /\ GrownStrict!FixListsGrouped
  /\ IsRankPairing => RankPairing1!RootsTableEmpty

(* No child is smaller than its parent. *)
HeapOrder ==
  \A n \in live : \A c \in ToSet(Children(n)) : heap.mem[n].key <= heap.mem[c].key

(* pq_find_min returns a node of least key. *)
FindMinCorrect == \A n \in live : heap.mem[FindMin].key <= heap.mem[n].key

(* What clients have inserted and not deleted, by the nodes they know it   *)
(* by; that the pointers of the queue reach it all is HoldsLive.           *)
Contents == [n \in live |-> heap.mem[n].key]
PQ == INSTANCE PriorityQueue WITH contents <- Contents

\* A queue whose pq_delete, of any node, is among the steps modelled here.
Deletes ==
  kind \in {"quake", "violation", "weak", "strict"} \/ IsRankPairing

\* The step is a call of pq_delete_min.
DeleteMinCall ==
  \/ kind = "quake" /\ Quake!pq_delete_min
  \/ kind = "rank-pairing 1" /\ RankPairing1!pq_delete_min
  \/ kind = "rank-pairing 2" /\ RankPairing2!pq_delete_min
  \/ kind = "violation" /\ Violation!pq_delete_min
  \/ kind = "weak" /\ Weak!pq_delete_min
  \/ kind = "strict" /\ Strict!pq_delete_min

(* Each queue is a priority queue of the nodes inserted into it: what      *)
(* pq_delete_min frees is a least one, pq_delete frees one node, and no    *)
(* call touches another key.                                               *)
ImplementsPQ ==
  /\ kind \notin {"grown Fibonacci", "grown weak", "grown strict"} => PQ!Init
  /\ [][\/ PQ!Next
        \/ Deletes /\ (\E n \in Node : PQ!Delete(n)) /\ ~DeleteMinCall]_Contents

(* pq_delete of a weak queue or a strict Fibonacci heap makes the key of   *)
(* the node 0 and deletes the minimum: that is the node it was given.      *)
DeletesThatNode ==
  [][\A n \in live :
       /\ kind = "weak" /\ Weak!pq_delete(n) => PQ!Delete(n)
       /\ kind = "strict" /\ Strict!pq_delete(n) => PQ!Delete(n)]_<<vars, kind>>
=============================================================================
