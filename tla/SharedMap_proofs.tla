-------------------------- MODULE SharedMap_proofs --------------------------
(***************************************************************************)
(* Proofs about several queues on one map: for any number of queues and    *)
(* any sizes of the chunks, the queues of a program that clears a queue    *)
(* only when it is alone never share a node, and lose none.                *)
(***************************************************************************)
EXTENDS SharedMap, LazyMemory_proofs

-----------------------------------------------------------------------------
(* What else the queues keep: those that do not exist have no nodes.       *)
QueueTypeOK ==
  /\ created \subseteq Queue
  /\ owned \in [Queue -> SUBSET live[NodeType]]
  /\ \A q \in Queue \ created : owned[q] = {}

SharedIInv == IInv /\ QueueTypeOK /\ QueuesDisjoint /\ OwnedIsLive

(* The node pq_insert gets from the pool is one no queue has.              *)
LEMMA InsertedIsNew ==
  ASSUME IInv, NEW q \in Queue, pq_insert(q)
  PROVE  \E node : /\ node \notin live[NodeType]
                   /\ live'[NodeType] = live[NodeType] \cup {node}
                   /\ owned' = [owned EXCEPT ![q] = @ \cup {node}]
<1> DEFINE t == NodeType
<1>0. t \in Types
  BY NodeTypeAssumption
<1>1. \A u \in Types : /\ live[u] \subseteq Carved(u)
                       /\ live[u] \cap OnFreeList(u) = {}
  BY DEF IInv, Partition
<1>2. ASSUME NEW c \in Chunk, NEW i \in 0 .. mm_sizes[c] - 1, Carve(t, c, i),
             Before(c, i) = Before(chunk_data[t], index_data[t]), FreeListEmpty(t)
      PROVE  /\ <<t, c, i>> \notin live[t]
             /\ live'[t] = live[t] \cup {<<t, c, i>>}
             /\ owned' = [owned EXCEPT ![q] = @ \cup {<<t, c, i>>}]
  <2>1. <<c, i>> \notin Before(chunk_data[t], index_data[t])
    BY <1>2, BeforeAdvance
  <2>2. <<t, c, i>> \notin Carved(t)
    BY <2>1, SlotElement DEF Carved, Nodes, Before
  <2>3. chunk_data'[t] = c /\ index_data'[t] = i + 1 /\ live'[t] = live[t] \cup {<<t, c, i>>}
    BY <1>0, <1>2 DEF IInv, TypeOK, Carve
  <2>4. i + 1 - 1 = i
    BY SizesAssumption
  <2>5. owned' = [owned EXCEPT ![q] = @ \cup {<<t, c, index_data'[t] - 1>>}]
    BY <1>2, <2>3 DEF pq_insert
  <2>6. owned' = [owned EXCEPT ![q] = @ \cup {<<t, c, i>>}]
    BY <2>3, <2>4, <2>5
  <2> QED BY <1>0, <1>1, <2>2, <2>3, <2>6
<1>3. CASE AllocFresh(t)
  <2> DEFINE c == chunk_data[t]
             i == index_data[t]
  <2>1. c \in Chunk /\ i \in 0 .. mm_sizes[c] - 1
    <3>1. c \in Chunk /\ i \in Nat /\ i <= mm_sizes[c]
      BY <1>0 DEF IInv, TypeOK
    <3>2. mm_sizes[c] \in Nat /\ i # mm_sizes[c]
      BY <1>3, <3>1, SizesAssumption DEF AllocFresh, ChunkFull
    <3> QED BY <3>1, <3>2
  <2> QED BY <1>2, <1>3, <2>1 DEF AllocFresh
<1>4. CASE AllocGrow(t)
  <2> DEFINE c == chunk_data[t] + 1
  <2>1. chunk_data[t] \in Chunk /\ c \in Chunk
    BY <1>0, <1>4, WidthAssumption DEF IInv, TypeOK, AllocGrow, Chunk
  <2>2. 0 \in 0 .. mm_sizes[c] - 1
    BY <2>1, SizesAssumption
  <2>3. Before(c, 0) = Before(chunk_data[t], index_data[t])
    BY <1>4, <2>1, BeforeNextChunk DEF AllocGrow, ChunkFull
  <2> QED BY <1>2, <1>4, <2>1, <2>2, <2>3 DEF AllocGrow
<1>5. CASE AllocRecycled(t)
  <2> DEFINE s == TopOfStack(t)
  <2>1. ~ FreeListEmpty(t)
    BY <1>5 DEF AllocRecycled
  <2>2. s \in Stack(t)
    BY <1>0, <2>1, TopIsLast
  <2>3. free[t][s] \notin live[t]
    BY <1>0, <1>1, <2>2 DEF OnFreeList
  <2>4. live'[t] = live[t] \cup {free[t][s]}
    BY <1>0, <1>5 DEF IInv, TypeOK, AllocRecycled
  <2>5. owned' = [owned EXCEPT ![q] = @ \cup {free[t][s]}]
    BY <2>1 DEF pq_insert
  <2> QED BY <2>3, <2>4, <2>5
<1> QED BY <1>3, <1>4, <1>5 DEF pq_insert, pq_alloc_node

-----------------------------------------------------------------------------
LEMMA InsertKeeps ==
  ASSUME SharedIInv, NEW q \in Queue, pq_insert(q)
  PROVE  (QueueTypeOK /\ QueuesDisjoint /\ OwnedIsLive)'
<1>1. PICK node : /\ node \notin live[NodeType]
                  /\ live'[NodeType] = live[NodeType] \cup {node}
                  /\ owned' = [owned EXCEPT ![q] = @ \cup {node}]
  BY InsertedIsNew DEF SharedIInv
<1>2. q \in created /\ created' = created
  BY DEF pq_insert
<1>3. /\ owned'[q] = owned[q] \cup {node}
      /\ \A r \in Queue \ {q} : owned'[r] = owned[r]
      /\ \A r \in Queue : owned[r] \subseteq live[NodeType]
  BY <1>1 DEF SharedIInv, QueueTypeOK
<1>4. QueueTypeOK'
  BY <1>1, <1>2, <1>3 DEF SharedIInv, QueueTypeOK
<1>5. QueuesDisjoint'
  BY <1>1, <1>3 DEF SharedIInv, QueuesDisjoint
<1>6. OwnedIsLive'
  BY <1>1, <1>3 DEF SharedIInv, OwnedIsLive
<1> QED BY <1>4, <1>5, <1>6

LEMMA DeleteKeeps ==
  ASSUME SharedIInv, NEW q \in Queue, NEW node \in owned[q], pq_delete(q, node)
  PROVE  (QueueTypeOK /\ QueuesDisjoint /\ OwnedIsLive)'
<1>1. live'[NodeType] = live[NodeType] \ {node}
  BY NodeTypeAssumption DEF SharedIInv, IInv, TypeOK, pq_delete, pq_free_node
<1>2. q \in created /\ created' = created /\ node \in owned[q]
  BY DEF pq_delete
<1>3. /\ owned' \in [Queue -> SUBSET live[NodeType]]
      /\ owned'[q] = owned[q] \ {node}
      /\ \A r \in Queue \ {q} : owned'[r] = owned[r] /\ node \notin owned[r]
  BY <1>2 DEF SharedIInv, QueueTypeOK, QueuesDisjoint, pq_delete
<1>4. QueueTypeOK'
  BY <1>1, <1>2, <1>3 DEF SharedIInv, QueueTypeOK
<1>5. QueuesDisjoint'
  BY <1>3 DEF SharedIInv, QueuesDisjoint
<1>6. OwnedIsLive'
  BY <1>1, <1>3 DEF SharedIInv, OwnedIsLive
<1> QED BY <1>4, <1>5, <1>6

LEMMA MeldKeeps ==
  ASSUME SharedIInv, NEW q \in Queue, NEW r \in Queue, pq_meld(q, r)
  PROVE  (QueueTypeOK /\ QueuesDisjoint /\ OwnedIsLive)'
<1>1. live' = live /\ created' = created \ {r} /\ q # r
  BY DEF pq_meld, vars
<1>2. /\ owned'[q] = owned[q] \cup owned[r] /\ owned'[r] = {}
      /\ \A p \in Queue \ {q, r} : owned'[p] = owned[p]
      /\ owned' \in [Queue -> SUBSET live[NodeType]]
  BY <1>1 DEF SharedIInv, QueueTypeOK, pq_meld
<1>3. QueueTypeOK'
  BY <1>1, <1>2 DEF SharedIInv, QueueTypeOK, pq_meld
<1>4. QueuesDisjoint'
  BY <1>2 DEF SharedIInv, QueuesDisjoint
<1>5. OwnedIsLive'
  BY <1>1, <1>2 DEF SharedIInv, OwnedIsLive
<1> QED BY <1>3, <1>4, <1>5

LEMMA DestroyRemainingKeeps ==
  ASSUME SharedIInv, DestroyRemaining
  PROVE  (QueueTypeOK /\ QueuesDisjoint /\ OwnedIsLive)'
<1>1. live'[NodeType] = {}
  BY NodeTypeAssumption DEF DestroyRemaining, mm_clear
<1> QED BY <1>1 DEF DestroyRemaining, QueueTypeOK, QueuesDisjoint, OwnedIsLive

(* Here it matters that the queue is alone: the reset takes every node.    *)
LEMMA ClearKeeps ==
  ASSUME SharedIInv, NEW q \in Queue, Alone(q), pq_clear(q) \/ pq_destroy(q)
  PROVE  (QueueTypeOK /\ QueuesDisjoint /\ OwnedIsLive)'
<1>1. live'[NodeType] = {}
  BY NodeTypeAssumption DEF pq_clear, pq_destroy, mm_clear
<1>2. owned' = [r \in Queue |-> {}]
  <2>1. \A r \in Queue \ {q} : owned[r] = {}
    BY DEF SharedIInv, QueueTypeOK, Alone
  <2> QED BY <2>1 DEF SharedIInv, QueueTypeOK, pq_clear, pq_destroy
<1>3. created' \subseteq Queue
  BY DEF SharedIInv, QueueTypeOK, pq_clear, pq_destroy
<1> QED BY <1>1, <1>2, <1>3 DEF QueueTypeOK, QueuesDisjoint, OwnedIsLive

(* A call of a queue is a call of the pool or leaves the pool alone.  For  *)
(* pq_delete it takes the invariant: the node is still allocated.          *)
LEMMA CallsPool == SharedIInv /\ [AloneNext]_sharedVars => [Next]_vars
<1> SUFFICES ASSUME SharedIInv, AloneNext PROVE [Next]_vars
  BY DEF sharedVars
<1>1. ASSUME NEW q \in Queue, pq_insert(q) PROVE Next
  BY <1>1, NodeTypeAssumption DEF pq_insert, Next
<1>2. ASSUME NEW q \in Queue, NEW node \in owned[q], pq_delete(q, node) PROVE Next
  <2>1. node \in live[NodeType]
    BY <1>2 DEF SharedIInv, QueueTypeOK
  <2> QED BY <1>2, <2>1, NodeTypeAssumption DEF pq_delete, Next
<1> QED BY <1>1, <1>2 DEF AloneNext, CommonNext, DestroyRemaining, pq_create, pq_meld,
        pq_clear, pq_destroy, Next

LEMMA AloneStep == SharedIInv /\ [AloneNext]_sharedVars => SharedIInv'
<1> SUFFICES ASSUME SharedIInv, [AloneNext]_sharedVars PROVE SharedIInv'
  OBVIOUS
<1>1. IInv'
  BY StepIInv, CallsPool DEF SharedIInv
<1>2. ASSUME NEW q \in Queue, pq_create(q)
      PROVE  (QueueTypeOK /\ QueuesDisjoint /\ OwnedIsLive)'
  <2>1. owned' = owned /\ live' = live /\ created' = created \cup {q}
    BY <1>2 DEF SharedIInv, QueueTypeOK, pq_create, vars
  <2> QED BY <2>1 DEF SharedIInv, QueueTypeOK, QueuesDisjoint, OwnedIsLive
<1>3. CASE UNCHANGED sharedVars
  BY <1>1, <1>3 DEF SharedIInv, sharedVars, vars, QueueTypeOK, QueuesDisjoint, OwnedIsLive
<1> QED BY <1>1, <1>2, <1>3, InsertKeeps, DeleteKeeps, MeldKeeps, ClearKeeps, DestroyRemainingKeeps
        DEF AloneNext, CommonNext, SharedIInv

LEMMA AloneInit == SharedInit => SharedIInv
<1> SUFFICES ASSUME SharedInit PROVE SharedIInv
  OBVIOUS
<1>1. IInv /\ live[NodeType] = {}
  BY InitIInv, NodeTypeAssumption DEF SharedInit, Init
<1> QED BY <1>1 DEF SharedInit, SharedIInv, QueueTypeOK, QueuesDisjoint, OwnedIsLive

LEMMA AloneInvariant == AloneSpec => []SharedIInv
BY AloneInit, AloneStep, PTL DEF AloneSpec

(* The queues of a program that clears or destroys a queue only once the   *)
(* others are gone use the pool as it is meant to be used: they return no  *)
(* node twice and none that was taken from them, so that all that is       *)
(* proved of the pool holds under them.                                    *)
THEOREM AloneImplementsPool == AloneSpec => ImplementsPool
<1>1. SharedInit => Init
  BY DEF SharedInit
<1> QED BY <1>1, CallsPool, AloneInvariant, PTL DEF AloneSpec, Spec, ImplementsPool

(* Two queues on one map never have a node in common, if each of them is   *)
(* cleared or destroyed only once the others are gone.                     *)
THEOREM AloneDisjoint == AloneSpec => []QueuesDisjoint
<1>1. SharedIInv => QueuesDisjoint
  BY DEF SharedIInv
<1> QED BY <1>1, AloneInvariant, PTL

(* Then, too, every node that is allocated is in a queue and conversely.   *)
THEOREM AloneOwnsLive == AloneSpec => []OwnedIsLive
<1>1. SharedIInv => OwnedIsLive
  BY DEF SharedIInv
<1> QED BY <1>1, AloneInvariant, PTL
=============================================================================
