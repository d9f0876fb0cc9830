----------------------------- MODULE SharedMap ------------------------------
(***************************************************************************)
(* Several queues on one memory map, the way the trace driver and every    *)
(* pq_meld use it: pq_create takes the map as an argument, pq_insert and   *)
(* the deletions allocate and free in it, and pq_clear, which pq_destroy   *)
(* calls too, resets the whole map with mm_clear.  What a queue does with  *)
(* its nodes is left out: owned[q] is the set of nodes reachable in it.    *)
(***************************************************************************)
EXTENDS LazyMemory

CONSTANTS Queue,      \* the indexes of the driver's pq_index array
          NodeType    \* the type every node of these queues has

ASSUME NodeTypeAssumption == NodeType \in Types

VARIABLES created,    \* the queues that exist
          owned       \* the nodes of each queue

sharedVars == <<vars, created, owned>>

SharedInit == Init /\ created = {} /\ owned = [q \in Queue |-> {}]

pq_create(q) ==
  /\ q \notin created
  /\ created' = created \cup {q}
  /\ owned' = [owned EXCEPT ![q] = {}]
  /\ UNCHANGED vars

pq_insert(q) ==
  /\ q \in created
  /\ pq_alloc_node(NodeType)
  /\ owned' = [owned EXCEPT ![q] = @ \cup
       IF FreeListEmpty(NodeType)
       THEN {<<NodeType, chunk_data'[NodeType], index_data'[NodeType] - 1>>}
       ELSE {free[NodeType][TopOfStack(NodeType)]}]
  /\ UNCHANGED created

\* pq_delete and pq_delete_min, of a node the queue has, whether or not it is
\* still allocated: mm_clear does not tell the queues.
pq_delete(q, node) ==
  /\ q \in created /\ node \in owned[q]
  /\ pq_free_node(NodeType, node)
  /\ owned' = [owned EXCEPT ![q] = @ \ {node}]
  /\ UNCHANGED created

pq_clear(q) ==
  /\ q \in created
  /\ mm_clear
  /\ owned' = [owned EXCEPT ![q] = {}]
  /\ UNCHANGED created

(* Mutant: destroying the last queue leaves its nodes allocated. *)
pq_destroy_no_clear(q) ==
  /\ q \in created
  /\ owned' = [owned EXCEPT ![q] = {}]
  /\ created' = created \ {q}
  /\ UNCHANGED vars

pq_destroy(q) ==
  /\ q \in created
  /\ mm_clear
  /\ owned' = [owned EXCEPT ![q] = {}]
  /\ created' = created \ {q}

\* The second queue disappears, its nodes stay in the map.
pq_meld(q, r) ==
  /\ q \in created /\ r \in created /\ q # r
  /\ owned' = [owned EXCEPT ![q] = @ \cup owned[r], ![r] = {}]
  /\ created' = created \ {r}
  /\ UNCHANGED vars

(* The end of the driver: one queue after the other is destroyed, with no  *)
(* other call in between.                                                  *)
DestroyRemaining ==
  /\ created # {}
  /\ mm_clear
  /\ owned' = [q \in Queue |-> {}]
  /\ created' = {}

CommonNext ==
  \/ DestroyRemaining
  \/ \E q \in Queue :
       \/ pq_create(q)
       \/ pq_insert(q)
       \/ \E node \in owned[q] : pq_delete(q, node)
       \/ \E r \in Queue : pq_meld(q, r)

(* Mutant: the trace does not wait for the other queues to go. *)
Alone_not_checked(q) == q \in created

(* What the library allows: any queue may be cleared at any time, and go   *)
(* on with nodes it has lost.  The model ends where a stack that was given *)
(* nodes twice would leave its row, which nothing in the code prevents.    *)
SharedNext ==
  /\ CommonNext \/ \E q \in Queue : pq_clear(q) \/ pq_destroy(q)
  /\ chunk_free'[NodeType] \in Chunk
SharedSpec == SharedInit /\ [][SharedNext]_sharedVars

(* A discipline of the clients: a queue is cleared or destroyed only when  *)
(* no other exists.  The recorded traces keep it, as each of them has one  *)
(* queue, created first and destroyed last; melds of several are covered   *)
(* too, the queue that remains being alone in the end.                     *)
Alone(q) == created = {q}
AloneNext ==
  \/ CommonNext
  \/ \E q \in Queue : Alone(q) /\ (pq_clear(q) \/ pq_destroy(q))
AloneSpec == SharedInit /\ [][AloneNext]_sharedVars

-----------------------------------------------------------------------------
(* No node is in two queues: "memory maps can be shared between multiple   *)
(* queues" (memory_management_lazy.h).                                     *)
QueuesDisjoint ==
  \A q, r \in Queue : q # r => owned[q] \cap owned[r] = {}

(* Every node of every queue is allocated and every allocated node is in   *)
(* some queue: clearing leaves nothing dangling and nothing leaked.        *)
OwnedIsLive == UNION {owned[q] : q \in Queue} = live[NodeType]

(* The queues use the pool as it is meant to be used: no call returns a    *)
(* node that is not in use, as pq_delete does after the clear of a queue   *)
(* that was not alone, and every other is a call of the pool too.          *)
ImplementsPool == Spec
=============================================================================
