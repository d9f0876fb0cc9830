# Verification of priority-queue-testing

TLA+ models of the priority queues and node pools of this repository, the TLC
runs that check them and the TLAPS proofs about them. `PROJECT.json` lists, for
every definition, the lines of code it stands for, and for every run, property,
hazard, finding and theorem what it is about.

## The system

The repository compares priority queues on recorded workloads. A program that
needs a priority queue (Dijkstra, a minimum cut, a random generator) runs on a
heap of its own and records what it asks of it in a trace; the driver replays
the trace on one queue after the other, each a program of its own built from
the driver, one `queues/*.c` and one memory manager.

| part | state | operations |
|---|---|---|
| node pools (`memory_management_{lazy,eager,dumb}.c`) | per node type: chunks of nodes, chunks of returned nodes, four counters | `mm_create`, `mm_clear`, `mm_destroy`, `pq_alloc_node`, `pq_free_node` |
| queues (`queues/*.c`) | one structure per queue, one record per node | `pq_create`, `pq_insert`, `pq_find_min`, `pq_delete_min`, `pq_delete`, `pq_decrease_key`, `pq_clear`, `pq_destroy`, for some of them `pq_meld` |
| trace files (`trace_tools.c`) | a file descriptor and a write buffer | write an operation, flush, write and read the header, read an operation |
| random generator (`tests/pq_random/`) | a binary heap of keys, the header, the trace being written | one random operation of each kind |
| driver (`driver/trace_driver.c`) | tables of queues and of nodes by their number in the trace, the chunk read, operations remaining | replays a trace several times over one memory map |
| other trace programs (`tests/`) | a reference heap each | run an algorithm and record it |

Calls go from the driver to a queue and from a queue to the pool. Nothing runs
concurrently and nothing is persisted but the trace. What is hard is therefore

* long sequences of legal calls over linked structures, where one pointer left
  behind by a call shows many calls later, after the memory it points to was
  freed and handed out again;
* handles: a node stays valid until it is deleted, whatever moves around it;
* tables that must be empty, or must agree with the trees, when a call begins;
* boundaries: of arrays that grow, chunks, counters, ranks and heights;
* one memory map for all queues of a program, which clearing any of them resets;
* writes to the trace that fail or fall short, and headers written last.

What makes each part correct:

| part | correct if |
|---|---|
| pool | no node is handed out twice or lost, no array is indexed past its end, a node is carved only if there is nothing to recycle |
| pool with several queues | no node is in two queues, and what is allocated is in some queue |
| every queue | its pointers reach exactly what is allocated; every pointer agrees with its counterpart; no child is less than its parent; `pq_find_min` is a least node; `pq_delete` removes the node it is given; each call does to keys and membership what a priority queue does |
| each queue besides | the shape its bounds rest on: ranks of a Fibonacci heap, perfect trees and a registry of a binomial queue, the tree of the digits of a d-ary heap, decay of heights of a quake heap, half-trees and at most one marked node per rank of a weak queue, active children first, counted rank records and grouped fix lists of a strict Fibonacci heap |
| trace files and generator | the file holds every operation once and in order, under a header that counts them; after a write that failed the buffer stays within its array |
| driver | a replay refers only to queues and nodes that exist, asks the eager pool for no more nodes than the header has ids, and deletes the keys the generator deleted, in every iteration |

## Modules

| module | models | extends or instantiates |
|---|---|---|
| `LazyMemory` | `memory_management_lazy.c` | |
| `LazyMemory_proofs` | theorems about it | `LazyMemory` |
| `SharedMap` | several queues over one map, as the driver and `pq_meld` use it | `LazyMemory` |
| `SharedMap_proofs` | theorems about them | `SharedMap`, `LazyMemory_proofs` |
| `PriorityQueue` | the abstract queue: nodes and their keys | |
| `ImplicitHeap` | `implicit_heap.c`, one iteration of a sift at a time | |
| `ImplicitHeapHistory` | what a deletion has misplaced and how far a sift has gone, as history variables | `ImplicitHeap`; implements `PriorityQueue` |
| `ImplicitHeap_proofs` | theorems about both | `ImplicitHeapHistory` |
| `PointerStore` | memory of the pointer-based queues and assignments to it | |
| `FibonacciHeap`, `PairingHeap`, `BinomialQueue`, `ExplicitHeap`, `QuakeHeap`, `RankPairingHeap`, `ViolationHeap`, `RankRelaxedWeakQueue`, `StrictFibonacciHeap` | the file of that name | `PointerStore` |
| `PairingHeap_proofs` | theorems about the pairing heap | `PairingHeap`, `SequenceLemmas`; implements `PriorityQueue` |
| `Queues` | the eight besides the pairing heap behind the common interface, and the promises they share | the eight; implements `PriorityQueue` |
| `Canonical` | a view for TLC: states up to a renaming of nodes | |
| `TraceFile` | `trace_tools.c`, with writes that fall short | |
| `RandomTrace` | `PQ_Random.c` and its heap, `pq.c` | `TraceFile` |
| `SequenceLemmas` | lemmas about concatenations, heaps in a sequence and stacks | |
| `RandomTrace_proofs` | theorems about the generator, its heap and its file | `RandomTrace`, `SequenceLemmas` |
| `EagerMemory` | `memory_management_eager.c` | |
| `ImplicitSimpleHeap` | `implicit_simple_heap.c` as the eager build has it | |
| `ImplicitSimpleHeap_proofs` | theorems about its operations | `ImplicitSimpleHeap`, `SequenceLemmas` |
| `TraceReplay` | `trace_driver.c`, after the generator has written a trace | `RandomTrace`, `EagerMemory`, `ImplicitSimpleHeap` |
| `TraceReplay_proofs` | theorems about generator and driver together, and the keys of a replay | `TraceReplay`, the proofs of the two before |
| `MC*` | constants, symmetries and views for TLC | |

**The pool.** A row of chunks is a set of pairs (chunk, entry), and the counter
pairs of the code delimit a part of it: what is before (`chunk_data`,
`index_data`) has been carved, what is before (`chunk_free`, `index_free`) is
the stack of returned nodes. `live`, the nodes clients hold, is a history
variable. The three ways through `pq_alloc_node` are three actions.

**The array heap.** One iteration of the loops in `heapify_up` and
`heapify_down` is one action (`UpStep`, `DownStep`), and their end, with the
dump of the node that was held, another: between them a node is twice in the
array and another nowhere, and `HeapOrder` and `IndexCoherent` say what holds
even then.

**The pointer heaps.** A call is one action, since nothing can come between its
steps. Inside, the state of queue and nodes is one record that is passed
from one helper to the next, in the order of the code; a loop or a recursion of
the code is a recursive operator. In the modules that are proved about (the
pairing heap, and the heaps in arrays of `TraceReplay`) it is a recursive function
instead: a loop of the pairing heap is the function from a number of iterations to
the values of its variables after them, up to as many as there are nodes; that it
has come to its end by then is proved (`PairedEnds`, `CollapseForest`).
`heap.mem[n]` is the record of node n. A freed node keeps
its content, as it does in the pool, so that a pointer left to it reads what
the program would read. `live` is the set of nodes the pool has handed out.
Keys are small numbers with 0 among them, which several queues treat as the
least key there is. Items, which are copied and never looked at, are left out.
The rank records of a strict Fibonacci heap have a memory of their own
(`heap.records`), and so have the duplicates of a quake heap.

**Traces.** The words of a file are pairs of an operation and a position, so
that a file can hold part of one. Each operator of `TraceFile` gives the set of
outcomes of a call, of which one is success; the others are writes of a prefix,
as many of them as the trace has `faults` left. The generator takes no notice
of a call that fails, and neither does the model: `failures` counts them for
the properties. A key has the priority in its high part and the name of the
item in its low part, as in the code, so that no two keys are equal.

**The replay.** `TraceReplay` lets the generator run to its end and then the
driver on the file it has left: read a header, read a chunk, execute it, and so
on over several iterations with one pool. Its queue is either one with handles,
which does what `PriorityQueue` promises, or the implicit simple heap, which
serves only traces that decrease no key.

Parts are composed three times: `SharedMap` runs several queues over the pool,
with a queue reduced to the set of its nodes; `Queues` holds eight heaps to one
abstract specification, as `PairingHeap` does itself; `TraceReplay` joins the generator, the file, the driver,
the eager pool and a queue. That each queue allocates and frees through the pool
exactly what enters and leaves `live` is what `HoldsLive` says, and is why queues
and pools can be checked apart.

## Runs

| run | instance | shows |
|---|---|---|
| `memory_map` | 2 queues on one map of 3 chunks with 1, 2 and 2 nodes | the free list and the nodes in use partition what was carved, no counter leaves its row, and the queues stay apart, over every order of calls in which a queue is cleared or destroyed only when it is alone; each such call is a legal call of the pool |
| `shared_map` (violation) | 2 queues | otherwise they do not |
| `implicit_heap` | d = 2, 6 nodes, 3 keys | array, handles and pool stay in step whatever node is deleted; every iteration keeps the order, and the heap is a priority queue, until a deletion misplaces a node; no call pushes more nodes than the heap has levels |
| `implicit_heap_delete` (violation) | d = 2, 6 nodes, 2 keys | then the minimum can be wrong |
| `pairing_heap` | 6 nodes, 3 keys | linking, reachability, order, minimum and the abstract queue, for the very definitions the proofs are about |
| `queues` | 13 kinds, see below | the same, and tables and shapes, for the eight other heaps of pointers |
| `fibonacci_heap_delete` (violation) | 4 nodes | a rank can wrap below zero |
| `binomial_queue_delete` (violation) | 3 nodes | the wrong node can be removed |
| `explicit_heap_delete` (violation) | 5 nodes | a node can end in two slots |
| `rank_relaxed_weak_queue_delete` (violation) | 4 nodes | a root can be lost and a freed node stay registered |
| `strict_fibonacci_heap_rank` (violation) | 7 nodes | a rank can wrap below zero |
| `traces` | 6 command lines | the file holds what was recorded, and every replay does what was recorded, with live handles and in the room the header asks for, to its end |

**Bounds of the pool and the array heap.** Three chunks give the stack two
boundaries to cross in both directions, and the data row a chunk that is neither
first nor last. Six nodes make three levels of the array heap at d = 2, and
growth from the initial capacity happens on the way. Its nodes are
interchangeable, which is the symmetry the run uses.

**Bounds of `pairing_heap`.** With six nodes the root has up to five children, an odd
and an even number of pairs with and without a node left over, and cuts take first,
middle and last siblings at two levels. Three keys give ties and strict orders.

**Bounds of `queues`.** The kinds differ in how many shapes they have, and so in
the nodes and keys they get:

| kinds | nodes | keys |
|---|---|---|
| Fibonacci, quake, rank-pairing of both rank rules, violation | 5 (`SomeNodes`) | 0, 1 (`SomeKeys`) |
| weak, strict | 5 | 0..4, each at one node at most (`DistinctKeys`) |
| binomial, explicit with d = 2 and 4 | 9 (`Node`) | 0..2 |
| grown Fibonacci | 9 | 0, 1 |
| grown weak, grown strict | 8 (`MoreNodes`) | ascending from 2 (`Key`), decreased to 0 or 1 |

Five nodes are enough for a linking of linked trees, cuts from inner nodes,
cascading ones, odd and even numbers of siblings and three-way joins after
deletions. The binomial and explicit heaps have far fewer shapes: with 9 nodes
the binomial queue carries through three ranks and the explicit heap has three
levels at d = 4 and four at d = 2. What needs more nodes in the others is
reached from a heap that is grown already, where sequences from the empty heap
would need more steps than can be enumerated: `grown Fibonacci` starts with a
tree of rank 3, from where chains of marked nodes are cut, `grown weak` with a
perfect half-tree of rank 3, and `grown strict` with the tree that 8 insertions
and their reductions make. They may only shrink, by one deletion for the first
and three for the others. The keys of the weak and the strict heap are distinct
(`Unused`), as they are in every trace: the generators put the number of the
item in the low half. `MAXRANK` is 5, more than the rank any tree of so few
nodes may have, so that a rank too large shows as a wrong type. `UINT32_MAX`,
65535, is only the value below zero. Five nodes of the quake heap may have 3, 2
and 1 nodes at the heights above 0, that is 6 duplicates: with 5 the run fails,
and the 7 in `Other` leave one to spare; they also suffice for the rank records
of the strict Fibonacci heap. `MaxLoss` bounds the children an active node has
lost; a step from a state above the bound is not taken.

**Bounds of `traces`.** `MCArgs` has the command lines of the scripts of
`tests/pq_random` with their counts scaled down to at most a dozen operations on
the heap, one more for a generator whose heap has nothing to decrease, and one in
which up to two writes fall short; the first of those may have one. A buffer of
6 words and operations of 1 to 3 make it flush several times with operations
left over; chunks of 4 operations make a full one, a shorter last one, and an
end of the trace between chunks; 2 or 3 iterations make a first one, one that
finds the pool as the one before has left it, and one more. `NameSpan` 16 is
above every name, as 2^32 is.

**The view** of `queues` and `pairing_heap`. The kinds of `queues` are initial states
of one specification. The addresses of nodes are interchangeable and the memory of a free node is zeroed
by `pq_alloc_node` before anything reads it, so that TLC counts a state by
`Shape`: the nodes numbered in the order of a walk along their pointers,
in which every pointer of theirs and of the queue is written. Two states of one
shape differ by a renaming of nodes and in what freed nodes hold, and the
properties depend on neither. That no pointer a call follows leads to a freed
node is part of `HoldsLive` and `Linked`, which the same runs check; the shape also
says whether the walk met nodes that are not live, and a pointer to a node it
did not meet keeps its address. `fibonacci_heap_delete`, where memory of freed
nodes is read, does not use the view.

**Deadlock.** `queues` and the violation runs of the weak and the strict heap
switch the check off because the bounds on deletions and losses let a heap
end; `traces` does because programs end. The others check it.

**Fairness.** There is one assumption: `WF_vars(Next)` in `TraceReplay`. The
generator and the driver are programs that wait for nothing, one after the
other, so that while either can go on it does; that the driver's clock runs out
is `MaxIterations`. With it `ReplayEnds` says that a trace no call of which has
failed is replayed to its end, and never rejected as invalid. The calls of
clients of a queue are not assumed to come. That a call of the array heap
returns is not left to fairness: `PushesLogarithmic` bounds its iterations, by
the level that the history variables `level` and `width` delimit in the array.

**Deletions.** No trace program records `pq_delete`; the driver replays it. The
specifications of the array heap and of the pairing, quake, rank-pairing,
violation, weak and strict heaps include it. For the Fibonacci, binomial and
explicit heaps `Spec` has the operations that work and `DeleteSpec` adds
`pq_delete` of any node, which breaks each of them in its own way (below); for
the weak queue it adds deletions, `pq_delete_min` among them, of a minimum in
the tree its replacement is taken from, which `Spec` excludes by `Apart`. For
the array heap `ImplicitHeapHistory` marks, with `misplaced`, that a deletion has
put a node below a greater one; until then the order holds.

**Refinement.** `ImplementsPQ` maps a queue to the nodes inserted and not
deleted and their keys (for the array heap: the nodes in its array; for the pairing
heap: the nodes its pointers reach), and shows
each step to be one of `PriorityQueue` or to leave that alone; `pq_delete_min`
takes a least node out, of those with that key any. Together with `HoldsLive`,
which ties the nodes to what the pointers reach, it is what a client relies on,
and what `TraceReplay` takes for its queue with handles.

Each property of a passing run has a mutant, a definition changed the way a
plausible bug would change the code, under which TLC finds it violated. They
stand before the definition they change and say in a comment what they do.

## What the runs found

* **Shared maps.** `pq_clear` and `pq_destroy` reset the whole map. Of two
  queues on one map, which the header offers for melding, the other one's nodes
  are then handed out again (`shared_map`). No program recorded here does it:
  each trace has one queue.
* **The tree of the explicit heap** is not a complete tree in level order, as the
  comments of `find_node` and of the header have it. The path to the node of number
  n > 0 is n - 1 written in digits to the base d, and a number has no leading zeros:
  the first child of the root has number 1 and path 0 and stays a leaf, and with
  d = 2 node 3 (path 10) hangs from the second child.
  The shape the heap has at every size is `DigitTree`, part of `TreeShapes` in
  `queues`: a tree of four nodes that satisfies it is not complete. Insertion and
  deletion use the same paths, so that nothing else depends on it, and no path is
  longer than one link more than in a complete tree.
* **`pq_delete` of the implicit heap** pushes the replacement down and never up;
  a later `pq_find_min` is wrong (`implicit_heap_delete`). The explicit
  heap does the same.
* **`pq_delete` of the explicit heap** leaves a node in two slots if the deleted
  node is a sibling of the last one: `fill_back_pointers` takes the first slot
  holding either (`explicit_heap_delete`).
* **`pq_delete` of the Fibonacci heap** leaves the children of the deleted node
  pointing to it. Once its memory is a node again, a cut takes a child it does
  not have from its rank, which wraps (`fibonacci_heap_delete`).
* **`pq_delete` of the binomial queue** removes another node if the minimum has
  key 0 already (`binomial_queue_delete`).
* **`pq_delete_min` of the weak queue** replaces a minimum that is not a root by
  the root of the smallest tree, also if the minimum is in that very tree. The
  replacement is then not entered in the table of roots, and the node that is
  freed stays there (`rank_relaxed_weak_queue_delete`).
* **`pq_decrease_key` of the strict Fibonacci heap** takes one from the rank of
  the old parent whenever both nodes are active. A rank of 0 wraps, and records
  of that rank join the list of ranks (`strict_fibonacci_heap_rank`). The heap
  stays a heap; ranks are what its bounds rest on.

The rank rule of the rank-pairing heap is not among the properties, since
`pq_decrease_key` does not keep it: `propagate_ranks` starts at the node that was
cut and not at the parent it was cut from, so that a root can keep rank 1 when it has
lost its only child. What is checked does not rest on the rule.

## Proofs

All theorems hold for every value of the constants that satisfies the
assumptions of the modules. Each assumption says no more than the code does:

| assumption | says |
|---|---|
| `WidthAssumption`, `SizesAssumption` | there is a chunk, and none has size 0; that they double is not needed |
| `BranchingAssumption` | `BRANCHING_FACTOR` is positive |
| `NodesAssumption` | there are finitely many addresses |
| `KeyAssumption`, `NullAssumption` | keys are natural numbers, `NULL` is no node |
| `NodeTypeAssumption` | the nodes the queues ask for are of a type the map has |
| `LengthAssumption` | an operation and the header have a length, and an operation fits in the buffer |
| `PrioAssumption`, `OpCodeAssumption` | there is a priority and a name; every operation recorded has a length |
| `NamesAssumption` | a command line asks for fewer insertions than there are names, 2^32 in the code |
| `ArgsAssumption` | a command line asks for no more deletions than insertions, as in the scripts |
| `DriverAssumption` | a chunk has an operation, and the bounds on iterations leave one |

**The pool** (`LazyMemory_proofs`): `TypeCorrect`, `NoDoubleIssue` (`Partition`),
`StackedOnce` (`FreeListInjective`), `RowsSuffice` (`FreeFitsData`),
`NoNullChunk` (`ChunksAllocated`) and `GrowsOnlyWhenAllLive`. None of the
properties is inductive alone. `mm_grow_free` has no bounds check, so that
`TypeOK` needs to know that the stack cannot outgrow the data row; that is so
because the entries of the stack are distinct nodes (`FreeListInjective`) that
were carved and are not in use (`Partition`). `IInv` is the conjunction of all
five parts. The one step that is not local is `StackNotFull`: if the stack fills
every entry of the chunks the data row has reached, it holds as many nodes as
there are entries, by injectivity, so all of them, and then there is no live node
to push. It is the only use of cardinalities.

**Queues on one map** (`SharedMap_proofs`), of the disciplined clients of
`AloneSpec`. `AloneDisjoint` and `AloneOwnsLive` follow from an invariant that adds to
those two properties that only queues that exist own nodes (`SharedIInv`).
`AloneImplementsPool`: each call of a queue is a call of the pool, so that the theorems
above hold for it. This rests on the invariant as well: `pq_delete` takes any node of
its queue and looks nowhere whether the pool still counts it as in use. Without the
discipline neither holds. A queue that goes on after another one has cleared the map
shares nodes with that one (`shared_map`), and a `pq_delete` of what it has lost puts on
the stack a node that is not in use; `SharedSpec` includes such steps.

**The array heap** (`ImplicitHeap_proofs`). The first invariant, `IInv`, is
`TypeOK /\ HoldsLive /\ IndexCoherent`: every step of a sift pushes a node over
the hole, so that the positions outside it and the nodes allocated, without the one
that is held, stay in bijection. It gives `Typed`, `HeapHoldsLive`,
`HandlesFindNodes` and `DeletionIsExact`, for any deletion. On it rests
`OrderIInv`, the order as long as nothing is misplaced. `HeapOrder` says what is
left of it during a sift (`Loose`) and what bridges the gap: the parent of the hole
is not greater than the hole's children. In this form it is inductive.
`OrderIsKept`, `MinimumIsKept` and the refinement `HeapImplementsPQ` follow. That the
root is a least node (`RootIsLeast`) is an induction along the path to the root; it
is proved with the first position, if any, that is less than the root, whose parent
is an earlier one. `PushIInv` ties the hole to the level that the history variables
delimit (`PushesAreLogarithmic`).

**The generator and its file** (`RandomTrace_proofs`). `BufferStaysBounded` and
`TraceIsIntact` are for any command line, any lengths of operations, any size of
the buffer and any outcome of each write. `GeneratorIInv` describes file and
buffer by what has been recorded: as long as no call has failed, their
concatenation behind the header is `RecordedWords`, whichever part a flush has
moved; once one has, only the buffer is described, as whole operations that leave
room for one more. What happens in which order (header first, header last) is the
list `todo` of calls, of which the invariant keeps the shape.

**The driver** (`TraceReplay_proofs`). `RecordsAsBefore` is a refinement: up to steps
of the driver, the composed system is the generator, so that
`BufferBoundedInReplay` and `IntactInReplay` carry over. `Position` says which
operations have been read and executed, by `op_remaining`, `op_chunk` and `ops`
alone, that the ones in memory are those recorded, and that `offset` is the length of
the words before. With `Intact` it follows that every operation is read back where
it was written (`ReadBack`), which is `NeverInvalid`: for any chunk size and any
number of iterations the driver rejects no trace of which no call has failed. `Pool` bounds the nodes carved by
the names of the insertions executed so far in this iteration, and `Room` says
that those still to come have greater names (`RecordedInOrder`, an invariant of
the generator); at the top of an iteration nothing is carved. Hence
`PoolAlwaysSuffices`: the pool and the array of the simple heap, neither of which
checks its bound, are never indexed past the capacity taken from the header.
`DriverTypeCorrect` is the type invariant of the composed system.

**The keys of a trace** (`RandomTrace_proofs`, `TraceReplay_proofs`). `GeneratorHeapIsHeap`: the sifts of
`pq.c` keep the order and permute the keys, the key a decrease draws has the same
name and is not greater, and names are distinct as long as there are fewer
insertions than names, which `NamesLeft` counts in the calls still to come. With
that there is for each operation recorded the set of keys before it and the number
of deletions before it, two sequences `K` and `D` that satisfy `Along`: each step
of `K` is what a priority queue does (`Effect`), and a deletion takes a least key,
the one in `extracted`. They are found step by step as the generator records
(`KeysRecorded`), and do not change afterwards. `Follows` says that the driver, having
executed k operations of an iteration, has the keys `K[k]` in its queue, that the
handle stored for the name of each is its node, and that it has returned the first
`D[k]` of the keys in `extracted`; every operation keeps it, for both queues, since the
least key of a set is one only. `HandlesStayLive` and `ReplaysAsRecorded` follow.

**The simple heap** (`ImplicitSimpleHeap_proofs`). `InsertAddsKey` and
`DeleteMinRemovesLeast` state what the two operations do to the order and to the
set of keys, for any branching factor and any length of the array.

**The pairing heap** (`PairingHeap_proofs`), for any finite set of nodes and any
keys: `PairingTypeCorrect`, `PairingPointersAgree` (`Linked`), `PairingHeapOrder`,
`PairingMinimumIsRoot`, `PairingReachesLive` (`HoldsLive`), `PairingImplementsPQ` and
`PairingDeletesThatNode`, the properties of the run `pairing_heap`.

The invariant is `IInv`: the heap is one tree of the allocated nodes. A forest
(`Forest`) is described by two ghost functions. `up[x]` is the node that points to
x, through `child` or through `next`, and NULL for a root; `par[x]` is the parent
of x. `Down` says what they are of the node a pointer leads to, `Back` that `prev` is
`up`, `KeysAscend` is the order, and `NoCycle` that no set of nodes is closed under
`up`: it is what induction from the root would be about, without a recursive
definition. The lemmas follow the code: what `merge` and `Cut` write (`MergeWrites`,
`CutWrites`), and what a write does to a forest (`JoinForest`, `SeverForest`,
`DetachForest`, `DropForest`, `AddForest`), each with new ghosts. `Roots` names the
roots of a forest in the middle of `collapse`: the results so far, and where the list
still to be paired begins, or the tree built; `others` are roots that collapse does
not touch. Both loops keep it (`PairUpStep`, `MergeBackStep`) although `prev` of a
root leads along the results (`Results`); as the results are distinct nodes, the first
loop ends within as many iterations as there are nodes (`FewResults`, by the
pigeonhole principle) and the second needs no more than the first has left results.

The root is a least node (`RootIsLeast`) since the nodes below a lesser parent would
be a set closed under `up`. `Chain` and `ReachableFrom`, in which `Linked`, `HeapOrder`
and `HoldsLive` are stated, are recursive functions: the first yields nodes each of
which follows the one before it (`ChainFollows`), the second, which has added a node
in every iteration or is closed, is closed in the end (`ReachableCloses`), so that
what it has not reached would again be closed under `up`.

**Recursion.** The sifts of the heaps in arrays and `FlattenSeq` are recursive
functions. That such a function exists with the equation that defines it is
`RecursionExists`; what it computes for every index is proved by taking the first
index, in the order of the recursion, at which the claim fails
(`SmallestElement`, `RankInduction`). `SequenceLemmas` has the results:
a concatenation of appended sequences (`FlattenAppend`, `FlattenPrefix`), that a
sift permutes the cells of an array (`SiftPermutes`) along a path (`SiftPath`) and
what it leaves in order (`UpKeepsOrder`, `DownKeepsOrder`). `Pushes`, `Lowers` and
`Pops` gather what a sift has to satisfy for the conclusions in `PushedHeap`,
`LoweredHeap` and `PoppedHeap`.

**Only model-checked.** The eight heaps of `queues`: their loops are recursive
operators, which leave the prover without its arithmetic. The violations are for
TLC to find. `ReplayEnds` is liveness, which is out of the prover's reach;
`NeverInvalid` is its safety part.

## Not modelled

* **Dumb pool.** It calls `calloc` and `free` per node and keeps no state.
  `mm_create` does not even store the node sizes, so that no build can use it as
  it is.
* **Sequence heap** (`knheap.*`, with its copy of the driver,
  `trace_driver.cpp`). A third-party C++ template, with insertions and
  `pq_delete_min` only.
* **Trace statistics, generators of graphs, analysis and scripts.** They count,
  print or make inputs, and hold no logic of the queues.
* **Shortest-path and minimum-cut programs.** Third-party algorithms with
  recording added; what they record goes through the functions of `TraceFile`.

Modelled in part:

* **Quake and strict Fibonacci heap** without `pq_meld`. The driver's call of it
  is commented out and no program records it. Its effect on the memory map is in
  `SharedMap`. The list of garbage fix nodes of the strict heap, which only
  `pq_meld` fills, is left out with it.
* **Implicit simple heap**: the eager build, with `pq_insert`, `pq_delete_min` and
  `pq_clear`. `grow_heap`, of the lazy build, allocates too little at its first
  growth whatever the calls (a hazard without a property). `pq_insert` returns no
  node, so that `pq_decrease_key` and `pq_delete`, which does nothing, have no
  caller.
* **Driver**: the operations the random generator writes. What clearing, deleting
  and melding do to a map that is common to queues is in `SharedMap`. The pool has
  one type of nodes; in an eager build, the fixed capacities the driver gives the
  three types of the strict Fibonacci heap, and the four nodes for each name it gives
  the quake heap, which takes its duplicates from the pool as well, are not compared
  with the needs of these heaps: `PoolSuffices` is about a queue that takes one node for
  an insertion.

## Plan

1. `pq_meld` of the quake heap and of the strict Fibonacci heap, on two queues.
2. The sequence heap on small constants, insertions and `pq_delete_min`.
