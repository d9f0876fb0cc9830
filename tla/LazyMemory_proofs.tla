------------------------- MODULE LazyMemory_proofs --------------------------
(***************************************************************************)
(* Proofs about the node pool, for any number of types, any number of      *)
(* chunks and any chunk sizes.  The invariants of LazyMemory are inductive *)
(* only together: that the counters stay in their rows (TypeOK) needs that *)
(* the free stack is no longer than the data row (FreeFitsData), which is  *)
(* a counting argument from Partition and FreeListInjective.               *)
(***************************************************************************)
EXTENDS LazyMemory, FiniteSetTheorems, TLAPS

-----------------------------------------------------------------------------
(* A slot is a chunk of the row and an index inside the chunk.             *)
LEMMA SlotElement ==
  \A s : s \in Slot <=> \E c \in Chunk : \E i \in 0 .. mm_sizes[c] - 1 : s = <<c, i>>
BY DEF Slot

LEMMA SlotPair ==
  ASSUME NEW c, NEW i
  PROVE  <<c, i>> \in Slot <=> c \in Chunk /\ i \in 0 .. mm_sizes[c] - 1
BY SlotElement

(* A row has finitely many entries.                                        *)
LEMMA SlotFinite == IsFiniteSet(Slot)
<1> DEFINE Row == {{c} \X (0 .. mm_sizes[c] - 1) : c \in Chunk}
           f == [c \in Chunk |-> {c} \X (0 .. mm_sizes[c] - 1)]
<1>1. IsFiniteSet(Chunk)
  BY WidthAssumption, FS_Interval DEF Chunk
<1>2. f \in Surjection(Chunk, Row)
  BY DEF Surjection
<1>3. IsFiniteSet(Row)
  BY <1>1, <1>2, FS_Surjection
<1>4. ASSUME NEW c \in Chunk PROVE IsFiniteSet({c} \X (0 .. mm_sizes[c] - 1))
  <2>1. mm_sizes[c] - 1 \in Int
    BY SizesAssumption
  <2>2. IsFiniteSet(0 .. mm_sizes[c] - 1)
    BY <2>1, FS_Interval
  <2>3. IsFiniteSet({c})
    BY FS_Singleton
  <2> QED BY <2>2, <2>3, FS_Product
<1>5. \A T \in Row : IsFiniteSet(T)
  BY <1>4
<1> QED BY <1>3, <1>5, FS_UNION DEF Slot

(* The entries before the end of a chunk are those before the next chunk.  *)
LEMMA BeforeNextChunk ==
  ASSUME NEW c \in Chunk
  PROVE  Before(c, mm_sizes[c]) = Before(c + 1, 0)
BY SlotElement, SizesAssumption DEF Before, Chunk

(* Moving a counter pair by one entry adds that entry.                     *)
LEMMA BeforeAdvance ==
  ASSUME NEW c \in Chunk, NEW i \in 0 .. mm_sizes[c] - 1
  PROVE  /\ <<c, i>> \in Slot
         /\ <<c, i>> \notin Before(c, i)
         /\ Before(c, i + 1) = Before(c, i) \cup {<<c, i>>}
<1>1. <<c, i>> \in Slot BY SlotPair
<1>2. <<c, i>> \notin Before(c, i) BY SizesAssumption DEF Before, Chunk
<1>3. ASSUME NEW s \in Slot
      PROVE  s \in Before(c, i + 1) <=> s \in Before(c, i) \cup {<<c, i>>}
  BY SlotElement, SizesAssumption DEF Before, Chunk
<1>4. Before(c, i + 1) \subseteq Slot /\ Before(c, i) \subseteq Slot
  BY DEF Before
<1> QED BY <1>1, <1>2, <1>3, <1>4

LEMMA BeforeFirst == Before(0, 0) = {}
BY SlotElement DEF Before, Chunk

-----------------------------------------------------------------------------
(* The strengthening under which every step keeps every part.              *)
IInv ==
  /\ TypeOK
  /\ Partition
  /\ FreeListInjective
  /\ ChunksAllocated
  /\ FreeFitsData

LEMMA AddrElement ==
  ASSUME NEW t \in Types, NEW s \in Slot
  PROVE  <<t, s[1], s[2]>> \in Addr[t] /\ <<t, s[1], s[2]>> \in AllAddr
BY DEF Addr, AllAddr, Nodes

(* No entries, no nodes.                                                   *)
LEMMA NodesEmpty == \A t : Nodes(t, {}) = {}
BY DEF Nodes

LEMMA CarvedIsAddr ==
  ASSUME NEW t \in Types
  PROVE  Carved(t) \subseteq AllAddr
BY AddrElement DEF Carved, Nodes, Before

(* The counting argument.  The nodes on the free list and one more in the  *)
(* hands of a client were all carved, so the stack cannot fill every chunk *)
(* the data row has reached.                                               *)
LEMMA StackNotFull ==
  ASSUME IInv, NEW t \in Types, NEW node \in live[t],
         index_free[t] = mm_sizes[chunk_free[t]]
  PROVE  chunk_free[t] < chunk_data[t]
<1> SUFFICES ASSUME chunk_free[t] = chunk_data[t] PROVE FALSE
  <2>1. chunk_free[t] \in Int /\ chunk_data[t] \in Int
    BY WidthAssumption DEF IInv, TypeOK, Chunk
  <2> QED BY <2>1 DEF IInv, FreeFitsData
<1> DEFINE S == Stack(t)
           slot(a) == <<a[2], a[3]>>
           f == [s \in S |-> slot(free[t][s])]
<1>1. IsFiniteSet(S)
  BY SlotFinite, FS_Subset DEF Stack, Before
<1>2. \A a \in Carved(t) : slot(a) \in S /\ a = <<t, slot(a)[1], slot(a)[2]>>
  BY SlotElement DEF Carved, Nodes, Stack, Before, IInv, TypeOK, Chunk
<1>3. \A s \in S : free[t][s] \in Carved(t) /\ free[t][s] # node
  BY DEF IInv, Partition, OnFreeList
<1>4. f \in [S -> S]
  BY <1>2, <1>3
<1>5. \A a, b \in S : f[a] = f[b] => a = b
  <2> TAKE a, b \in S
  <2> HAVE f[a] = f[b]
  <2>1. free[t][a] = free[t][b]
    BY <1>2, <1>3
  <2> QED BY <2>1 DEF IInv, FreeListInjective
<1>6. f \in Injection(S, S)
  BY <1>4, <1>5 DEF Injection, IsInjective
<1>7. f \in Surjection(S, S)
  BY <1>1, <1>6, FS_Injection
<1>8. node \in Carved(t)
  BY DEF IInv, Partition
<1>9. PICK s \in S : f[s] = slot(node)
  BY <1>2, <1>7, <1>8 DEF Surjection
<1>10. free[t][s] = node
  BY <1>2, <1>3, <1>8, <1>9
<1> QED BY <1>3, <1>10

-----------------------------------------------------------------------------
LEMMA InitIInv == Init => IInv
<1> SUFFICES ASSUME Init PROVE IInv
  OBVIOUS
<1>1. 0 \in Chunk /\ mm_sizes[0] \in Nat
  BY WidthAssumption, SizesAssumption DEF Chunk
<1>2. TypeOK
  BY <1>1 DEF Init, TypeOK
<1>3. \A t \in Types : Carved(t) = {} /\ Stack(t) = {} /\ OnFreeList(t) = {}
  BY BeforeFirst, NodesEmpty DEF Init, Carved, Stack, OnFreeList
<1>4. Partition /\ FreeListInjective
  BY <1>3 DEF Init, Partition, FreeListInjective
<1>5. ChunksAllocated /\ FreeFitsData
  BY DEF Init, ChunksAllocated, FreeFitsData
<1> QED BY <1>2, <1>4, <1>5 DEF IInv

LEMMA ClearIInv == IInv /\ mm_clear => IInv'
<1> SUFFICES ASSUME IInv, mm_clear PROVE IInv'
  OBVIOUS
<1>1. 0 \in Chunk /\ mm_sizes[0] \in Nat
  BY WidthAssumption, SizesAssumption DEF Chunk
<1>2. TypeOK'
  BY <1>1 DEF IInv, mm_clear, TypeOK
<1>3. \A t \in Types : Carved(t)' = {} /\ Stack(t)' = {} /\ OnFreeList(t)' = {}
  BY BeforeFirst, NodesEmpty DEF mm_clear, Carved, Stack, OnFreeList
<1>4. Partition' /\ FreeListInjective'
  BY <1>3 DEF mm_clear, Partition, FreeListInjective
<1>5. ChunksAllocated'
  <2> SUFFICES ASSUME NEW t \in Types
               PROVE  0 \in data_chunks[t] /\ 0 \in free_chunks[t]
    BY DEF mm_clear, ChunksAllocated
  <2>1. 0 \in 0 .. chunk_data[t] /\ 0 \in 0 .. chunk_free[t]
    BY WidthAssumption DEF IInv, TypeOK, Chunk
  <2> QED BY <2>1 DEF IInv, ChunksAllocated
<1>6. FreeFitsData'
  BY DEF mm_clear, FreeFitsData
<1> QED BY <1>2, <1>4, <1>5, <1>6 DEF IInv

(* Carving the entry the data counters stand at, in the same chunk or as   *)
(* the first one of the next chunk.                                        *)
LEMMA CarveIInv ==
  ASSUME IInv, NEW t \in Types, NEW c \in Chunk, NEW i \in 0 .. mm_sizes[c] - 1,
         c = chunk_data[t] \/ c = chunk_data[t] + 1,
         Before(c, i) = Before(chunk_data[t], index_data[t]),
         Carve(t, c, i)
  PROVE  IInv'
<1> DEFINE new == <<t, c, i>>
<1>1. c \in Nat /\ chunk_data[t] \in Nat /\ chunk_free[t] \in Nat /\ i + 1 \in Nat
      /\ i + 1 <= mm_sizes[c]
  BY WidthAssumption, SizesAssumption DEF IInv, TypeOK, Chunk
<1>2. new \in AllAddr
  BY BeforeAdvance, AddrElement
<1>3. TypeOK'
  <2>1. chunk_data' \in [Types -> Chunk] /\ index_data' \in [Types -> Nat]
    BY <1>1 DEF IInv, TypeOK, Carve
  <2>2. \A u \in Types : index_data'[u] <= mm_sizes[chunk_data'[u]]
    BY <1>1 DEF IInv, TypeOK, Carve
  <2>3. data_chunks' \in [Types -> SUBSET Chunk] /\ live' \in [Types -> SUBSET AllAddr]
    BY <1>2 DEF IInv, TypeOK, Carve
  <2> QED BY <2>1, <2>2, <2>3 DEF IInv, TypeOK, Carve
<1>4. ASSUME NEW u \in Types PROVE Stack(u)' = Stack(u) /\ OnFreeList(u)' = OnFreeList(u)
  BY DEF Carve, Stack, OnFreeList
<1>5. ASSUME NEW u \in Types, u # t PROVE Carved(u)' = Carved(u) /\ live'[u] = live[u]
  <2>1. chunk_data'[u] = chunk_data[u] /\ index_data'[u] = index_data[u]
        /\ live'[u] = live[u]
    BY <1>5 DEF IInv, TypeOK, Carve
  <2> QED BY <2>1 DEF Carved
<1>6. live'[t] = live[t] \cup {new}
  BY DEF IInv, TypeOK, Carve
<1>7. new \notin Carved(t) /\ Carved(t)' = Carved(t) \cup {new}
  <2>1. chunk_data'[t] = c /\ index_data'[t] = i + 1
    BY DEF IInv, TypeOK, Carve
  <2>2. Carved(t)' = Nodes(t, Before(c, i + 1))
    BY <2>1 DEF Carved
  <2>3. Carved(t) = Nodes(t, Before(c, i))
    BY DEF Carved
  <2>4. new \notin Nodes(t, Before(c, i))
    BY BeforeAdvance, SlotElement DEF Nodes, Before
  <2>5. Before(c, i + 1) = Before(c, i) \cup {<<c, i>>}
    BY BeforeAdvance
  <2>6. Nodes(t, Before(c, i + 1)) = Nodes(t, Before(c, i)) \cup {new}
    <3> DEFINE node(s) == <<t, s[1], s[2]>>
    <3>1. node(<<c, i>>) = new
      OBVIOUS
    <3> HIDE DEF node
    <3>2. {node(s) : s \in Before(c, i + 1)} = {node(s) : s \in Before(c, i)} \cup {new}
      BY <2>5, <3>1
    <3> QED BY <3>2 DEF node, Nodes
  <2> QED BY <2>2, <2>3, <2>4, <2>6
<1>8. Partition'
  <2> SUFFICES ASSUME NEW u \in Types
               PROVE  /\ live'[u] \cap OnFreeList(u)' = {}
                      /\ live'[u] \cup OnFreeList(u)' = Carved(u)'
    BY DEF Partition
  <2>1. CASE u = t
    BY <2>1, <1>4, <1>6, <1>7 DEF IInv, Partition
  <2>2. CASE u # t
    BY <2>2, <1>4, <1>5 DEF IInv, Partition
  <2> QED BY <2>1, <2>2
<1>9. FreeListInjective'
  BY <1>4 DEF IInv, FreeListInjective, Carve
<1>10. ChunksAllocated'
  <2> SUFFICES ASSUME NEW u \in Types
               PROVE  0 .. chunk_data'[u] \subseteq data_chunks'[u]
    BY DEF IInv, ChunksAllocated, Carve
  <2>1. CASE u # t
    BY <2>1 DEF IInv, TypeOK, ChunksAllocated, Carve
  <2>2. CASE u = t
    <3>1. chunk_data'[t] = c /\ data_chunks'[t] = data_chunks[t] \cup {c}
      BY DEF IInv, TypeOK, Carve
    <3>2. 0 .. c \subseteq (0 .. chunk_data[t]) \cup {c}
      BY <1>1
    <3> QED BY <2>2, <3>1, <3>2 DEF IInv, ChunksAllocated
  <2> QED BY <2>1, <2>2
<1>11. FreeFitsData'
  <2> SUFFICES ASSUME NEW u \in Types PROVE chunk_free'[u] <= chunk_data'[u]
    BY DEF FreeFitsData
  <2>1. CASE u # t
    BY <2>1 DEF IInv, TypeOK, FreeFitsData, Carve
  <2>2. CASE u = t
    BY <2>2, <1>1 DEF IInv, TypeOK, FreeFitsData, Carve
  <2> QED BY <2>1, <2>2
<1> QED BY <1>3, <1>8, <1>9, <1>10, <1>11 DEF IInv

LEMMA AllocFreshIInv ==
  ASSUME IInv, NEW t \in Types, AllocFresh(t)
  PROVE  IInv'
<1> DEFINE c == chunk_data[t]
           i == index_data[t]
<1>1. c \in Chunk /\ i \in 0 .. mm_sizes[c] - 1
  <2>1. c \in Chunk /\ i \in Nat /\ i <= mm_sizes[c]
    BY DEF IInv, TypeOK
  <2>2. mm_sizes[c] \in Nat /\ i # mm_sizes[c]
    BY <2>1, SizesAssumption DEF AllocFresh, ChunkFull
  <2> QED BY <2>1, <2>2
<1> QED BY <1>1, CarveIInv DEF AllocFresh

LEMMA AllocGrowIInv ==
  ASSUME IInv, NEW t \in Types, AllocGrow(t)
  PROVE  IInv'
<1> DEFINE c == chunk_data[t] + 1
<1>1. chunk_data[t] \in Chunk /\ c \in Chunk
  BY WidthAssumption DEF IInv, TypeOK, AllocGrow, Chunk
<1>2. 0 \in 0 .. mm_sizes[c] - 1
  BY <1>1, SizesAssumption
<1>3. Before(c, 0) = Before(chunk_data[t], index_data[t])
  BY <1>1, BeforeNextChunk DEF AllocGrow, ChunkFull
<1> QED BY <1>1, <1>2, <1>3, CarveIInv DEF AllocGrow

(* The entry a pop takes is the last of the stack.                         *)
LEMMA TopIsLast ==
  ASSUME IInv, NEW t \in Types, ~ FreeListEmpty(t), NEW s, s = TopOfStack(t)
  PROVE  /\ s = <<s[1], s[2]>>
         /\ s[1] \in Chunk /\ s[1] <= chunk_free[t]
         /\ s[2] \in 0 .. mm_sizes[s[1]] - 1
         /\ s \notin Before(s[1], s[2])
         /\ Stack(t) = Before(s[1], s[2]) \cup {s}
<1>1. chunk_free[t] \in Chunk /\ index_free[t] \in Nat
      /\ index_free[t] <= mm_sizes[chunk_free[t]]
  BY DEF IInv, TypeOK
<1>2. CASE index_free[t] = 0
  <2> DEFINE c == chunk_free[t] - 1
             i == mm_sizes[c] - 1
  <2>1. c \in Chunk /\ c + 1 = chunk_free[t] /\ c <= chunk_free[t]
    BY <1>1, <1>2, WidthAssumption DEF FreeListEmpty, Chunk
  <2>2. i \in 0 .. mm_sizes[c] - 1 /\ i + 1 = mm_sizes[c]
    BY <2>1, SizesAssumption
  <2>3. s = <<c, i>>
    BY <1>2 DEF TopOfStack
  <2>4. Stack(t) = Before(c, i + 1)
    BY <1>2, <2>1, <2>2, BeforeNextChunk DEF Stack
  <2> QED BY <2>1, <2>2, <2>3, <2>4, BeforeAdvance
<1>3. CASE index_free[t] # 0
  <2> DEFINE c == chunk_free[t]
             i == index_free[t] - 1
  <2>1. mm_sizes[c] \in Nat
    BY <1>1, SizesAssumption
  <2>2. c \in Chunk /\ c <= c /\ i \in 0 .. mm_sizes[c] - 1 /\ i + 1 = index_free[t]
    BY <1>1, <1>3, <2>1, WidthAssumption DEF Chunk
  <2>3. s = <<c, i>>
    BY <1>3 DEF TopOfStack
  <2>4. Stack(t) = Before(c, i + 1)
    BY <2>2 DEF Stack
  <2> QED BY <2>2, <2>3, <2>4, BeforeAdvance
<1> QED BY <1>2, <1>3

LEMMA AllocRecycledIInv ==
  ASSUME IInv, NEW t \in Types, AllocRecycled(t)
  PROVE  IInv'
<1> DEFINE s == TopOfStack(t)
           node == free[t][s]
<1>0. ~ FreeListEmpty(t)
  BY DEF AllocRecycled
<1>1. /\ s[1] \in Chunk /\ s[1] <= chunk_free[t]
      /\ s[2] \in 0 .. mm_sizes[s[1]] - 1
      /\ s \notin Before(s[1], s[2])
      /\ Stack(t) = Before(s[1], s[2]) \cup {s}
  BY <1>0, TopIsLast
<1>2. /\ chunk_free' = [chunk_free EXCEPT ![t] = s[1]]
      /\ index_free' = [index_free EXCEPT ![t] = s[2]]
      /\ live' = [live EXCEPT ![t] = @ \cup {node}]
      /\ UNCHANGED <<chunk_data, index_data, free, data_chunks, free_chunks>>
  BY DEF AllocRecycled
<1> HIDE DEF s
<1>3. node \in OnFreeList(t) /\ node \in Carved(t) /\ node \in AllAddr
  BY <1>1, CarvedIsAddr DEF OnFreeList, IInv, Partition
<1>4. s[2] \in Nat /\ s[2] <= mm_sizes[s[1]] /\ s[1] \in Nat
  BY <1>1, SizesAssumption, WidthAssumption DEF Chunk
<1>5. TypeOK'
  <2>1. chunk_free' \in [Types -> Chunk] /\ index_free' \in [Types -> Nat]
    BY <1>1, <1>2, <1>4 DEF IInv, TypeOK
  <2>2. \A u \in Types : index_free'[u] <= mm_sizes[chunk_free'[u]]
    BY <1>2, <1>4 DEF IInv, TypeOK
  <2>3. live' \in [Types -> SUBSET AllAddr]
    BY <1>2, <1>3 DEF IInv, TypeOK
  <2> QED BY <1>2, <2>1, <2>2, <2>3 DEF IInv, TypeOK
<1>6. Stack(t)' = Before(s[1], s[2])
  <2>1. chunk_free'[t] = s[1] /\ index_free'[t] = s[2]
    BY <1>2 DEF IInv, TypeOK
  <2> QED BY <2>1 DEF Stack
<1>7. ASSUME NEW u \in Types, u # t
      PROVE  Stack(u)' = Stack(u) /\ live'[u] = live[u]
  <2>1. chunk_free'[u] = chunk_free[u] /\ index_free'[u] = index_free[u]
        /\ live'[u] = live[u]
    BY <1>2, <1>7 DEF IInv, TypeOK
  <2> QED BY <2>1 DEF Stack
<1>8. ASSUME NEW u \in Types PROVE Carved(u)' = Carved(u) /\ Stack(u)' \subseteq Stack(u)
  <2>1. Carved(u)' = Carved(u)
    BY <1>2 DEF Carved
  <2> QED BY <1>1, <1>6, <1>7, <2>1
<1>9. OnFreeList(t)' = OnFreeList(t) \ {node}
  <2>1. OnFreeList(t)' = {free[t][r] : r \in Before(s[1], s[2])}
    BY <1>2, <1>6 DEF OnFreeList
  <2>2. OnFreeList(t) = {free[t][r] : r \in Before(s[1], s[2])} \cup {node}
    BY <1>1 DEF OnFreeList
  <2>3. \A r \in Before(s[1], s[2]) : free[t][r] # node
    BY <1>1 DEF IInv, FreeListInjective
  <2> QED BY <2>1, <2>2, <2>3
<1>10. Partition'
  <2> SUFFICES ASSUME NEW u \in Types
               PROVE  /\ live'[u] \cap OnFreeList(u)' = {}
                      /\ live'[u] \cup OnFreeList(u)' = Carved(u)'
    BY DEF Partition
  <2>1. CASE u = t
    <3>1. live'[t] = live[t] \cup {node}
      BY <1>2 DEF IInv, TypeOK
    <3> QED BY <2>1, <3>1, <1>3, <1>8, <1>9 DEF IInv, Partition
  <2>2. CASE u # t
    <3>1. OnFreeList(u)' = OnFreeList(u)
      BY <2>2, <1>2, <1>7 DEF OnFreeList
    <3> QED BY <2>2, <3>1, <1>7, <1>8 DEF IInv, Partition
  <2> QED BY <2>1, <2>2
<1>11. FreeListInjective'
  BY <1>2, <1>8 DEF IInv, FreeListInjective
<1>12. ASSUME NEW u \in Types
       PROVE  chunk_free'[u] <= chunk_free[u]
  BY <1>1, <1>2, WidthAssumption DEF IInv, TypeOK, Chunk
<1>13. ASSUME NEW u \in Types
       PROVE  chunk_free'[u] \in Nat /\ chunk_free[u] \in Nat /\ chunk_data[u] \in Nat
  BY <1>5, WidthAssumption DEF IInv, TypeOK, Chunk
<1>14. ChunksAllocated'
  <2> SUFFICES ASSUME NEW u \in Types
               PROVE  0 .. chunk_free'[u] \subseteq free_chunks[u]
    BY <1>2 DEF IInv, ChunksAllocated
  <2>1. 0 .. chunk_free'[u] \subseteq 0 .. chunk_free[u]
    BY <1>12, <1>13
  <2> QED BY <2>1 DEF IInv, ChunksAllocated
<1>15. FreeFitsData'
  <2> SUFFICES ASSUME NEW u \in Types PROVE chunk_free'[u] <= chunk_data[u]
    BY <1>2 DEF FreeFitsData
  <2>1. chunk_free[u] <= chunk_data[u]
    BY DEF IInv, FreeFitsData
  <2> QED BY <2>1, <1>12, <1>13
<1> QED BY <1>5, <1>10, <1>11, <1>14, <1>15 DEF IInv

(* The entry a push writes is the one after the stack, and the row has it. *)
LEMMA PushIsNext ==
  ASSUME IInv, NEW t \in Types, NEW node \in live[t], NEW s, s = PushSlot(t)
  PROVE  /\ s = <<s[1], s[2]>>
         /\ s[1] \in Chunk /\ s[1] <= chunk_data[t]
         /\ s[1] = chunk_free[t] \/ s[1] = chunk_free[t] + 1
         /\ s[2] \in 0 .. mm_sizes[s[1]] - 1
         /\ s \in Slot /\ s \notin Stack(t)
         /\ Before(s[1], s[2] + 1) = Stack(t) \cup {s}
<1>1. /\ chunk_free[t] \in Chunk /\ index_free[t] \in Nat
      /\ index_free[t] <= mm_sizes[chunk_free[t]]
      /\ chunk_data[t] \in Chunk /\ chunk_free[t] <= chunk_data[t]
  BY DEF IInv, TypeOK, FreeFitsData
<1>2. CASE index_free[t] = mm_sizes[chunk_free[t]]
  <2> DEFINE c == chunk_free[t] + 1
  <2>1. chunk_free[t] < chunk_data[t]
    BY <1>2, StackNotFull
  <2>2. c \in Chunk /\ c <= chunk_data[t]
    BY <1>1, <2>1, WidthAssumption DEF Chunk
  <2>3. 0 \in 0 .. mm_sizes[c] - 1
    BY <2>2, SizesAssumption
  <2>4. s = <<c, 0>>
    BY <1>2 DEF PushSlot
  <2>5. Stack(t) = Before(c, 0)
    BY <1>1, <1>2, BeforeNextChunk DEF Stack
  <2> QED BY <2>2, <2>3, <2>4, <2>5, BeforeAdvance
<1>3. CASE index_free[t] # mm_sizes[chunk_free[t]]
  <2>1. mm_sizes[chunk_free[t]] \in Nat
    BY <1>1, SizesAssumption
  <2>2. index_free[t] \in 0 .. mm_sizes[chunk_free[t]] - 1
    BY <1>1, <1>3, <2>1
  <2>3. s = <<chunk_free[t], index_free[t]>>
    BY <1>3 DEF PushSlot
  <2> QED BY <1>1, <2>2, <2>3, BeforeAdvance DEF Stack
<1> QED BY <1>2, <1>3

LEMMA FreeIInv ==
  ASSUME IInv, NEW t \in Types, NEW node \in live[t], pq_free_node(t, node)
  PROVE  IInv'
<1> DEFINE s == PushSlot(t)
<1>1. /\ s[1] \in Chunk /\ s[1] <= chunk_data[t]
      /\ s[1] = chunk_free[t] \/ s[1] = chunk_free[t] + 1
      /\ s[2] \in 0 .. mm_sizes[s[1]] - 1
      /\ s \in Slot /\ s \notin Stack(t)
      /\ Before(s[1], s[2] + 1) = Stack(t) \cup {s}
  BY PushIsNext
<1>2. /\ chunk_free' = [chunk_free EXCEPT ![t] = s[1]]
      /\ index_free' = [index_free EXCEPT ![t] = s[2] + 1]
      /\ free_chunks' = [free_chunks EXCEPT ![t] = @ \cup {s[1]}]
      /\ free' = [free EXCEPT ![t][s] = node]
      /\ live' = [live EXCEPT ![t] = @ \ {node}]
      /\ UNCHANGED <<chunk_data, index_data, data_chunks>>
  BY DEF pq_free_node
<1> HIDE DEF s
<1>3. node \in AllAddr
  BY DEF IInv, TypeOK
<1>4. s[2] + 1 \in Nat /\ s[2] + 1 <= mm_sizes[s[1]] /\ s[1] \in Nat
  BY <1>1, SizesAssumption, WidthAssumption DEF Chunk
<1>5. TypeOK'
  <2>1. chunk_free' \in [Types -> Chunk] /\ index_free' \in [Types -> Nat]
    BY <1>1, <1>2, <1>4 DEF IInv, TypeOK
  <2>2. \A u \in Types : index_free'[u] <= mm_sizes[chunk_free'[u]]
    BY <1>2, <1>4 DEF IInv, TypeOK
  <2>3. live' \in [Types -> SUBSET AllAddr] /\ free_chunks' \in [Types -> SUBSET Chunk]
    BY <1>1, <1>2 DEF IInv, TypeOK
  <2>4. free' \in [Types -> [Slot -> AllAddr \cup {Unwritten}]]
    BY <1>1, <1>2, <1>3 DEF IInv, TypeOK
  <2> QED BY <1>2, <2>1, <2>2, <2>3, <2>4 DEF IInv, TypeOK
<1>6. Stack(t)' = Stack(t) \cup {s}
  <2>1. chunk_free'[t] = s[1] /\ index_free'[t] = s[2] + 1
    BY <1>2 DEF IInv, TypeOK
  <2> QED BY <1>1, <2>1 DEF Stack
<1>7. Stack(t) \subseteq Slot
  BY DEF Stack, Before
<1>8. free'[t][s] = node /\ \A r \in Stack(t) : free'[t][r] = free[t][r]
  BY <1>1, <1>2, <1>7 DEF IInv, TypeOK
<1>9. ASSUME NEW u \in Types, u # t
      PROVE  Stack(u)' = Stack(u) /\ live'[u] = live[u] /\ free'[u] = free[u]
  <2>1. chunk_free'[u] = chunk_free[u] /\ index_free'[u] = index_free[u]
        /\ live'[u] = live[u] /\ free'[u] = free[u]
    BY <1>2, <1>9 DEF IInv, TypeOK
  <2> QED BY <2>1 DEF Stack
<1>10. \A u \in Types : Carved(u)' = Carved(u)
  BY <1>2 DEF Carved
<1>11. OnFreeList(t)' = OnFreeList(t) \cup {node}
  <2>1. OnFreeList(t)' = {free'[t][r] : r \in Stack(t) \cup {s}}
    BY <1>6 DEF OnFreeList
  <2> QED BY <2>1, <1>8 DEF OnFreeList
<1>12. node \notin OnFreeList(t)
  BY DEF IInv, Partition
<1>13. Partition'
  <2> SUFFICES ASSUME NEW u \in Types
               PROVE  /\ live'[u] \cap OnFreeList(u)' = {}
                      /\ live'[u] \cup OnFreeList(u)' = Carved(u)'
    BY DEF Partition
  <2>1. CASE u = t
    <3>1. live'[t] = live[t] \ {node}
      BY <1>2 DEF IInv, TypeOK
    <3> QED BY <2>1, <3>1, <1>10, <1>11 DEF IInv, Partition
  <2>2. CASE u # t
    <3>1. OnFreeList(u)' = OnFreeList(u)
      BY <2>2, <1>9 DEF OnFreeList
    <3> QED BY <2>2, <3>1, <1>9, <1>10 DEF IInv, Partition
  <2> QED BY <2>1, <2>2
<1>14. FreeListInjective'
  <2> SUFFICES ASSUME NEW u \in Types, NEW r1 \in Stack(u)', NEW r2 \in Stack(u)',
                      free'[u][r1] = free'[u][r2]
               PROVE  r1 = r2
    BY DEF FreeListInjective
  <2>1. CASE u # t
    BY <2>1, <1>9 DEF IInv, FreeListInjective
  <2>2. CASE u = t
    <3>1. \A r \in Stack(t) : free[t][r] # node
      BY <1>12 DEF OnFreeList
    <3> QED BY <2>2, <3>1, <1>6, <1>8 DEF IInv, FreeListInjective
  <2> QED BY <2>1, <2>2
<1>15. ASSUME NEW u \in Types PROVE chunk_free[u] \in Nat /\ chunk_data[u] \in Nat
  BY WidthAssumption DEF IInv, TypeOK, Chunk
<1>16. ChunksAllocated'
  <2> SUFFICES ASSUME NEW u \in Types
               PROVE  0 .. chunk_free'[u] \subseteq free_chunks'[u]
    BY <1>2 DEF IInv, ChunksAllocated
  <2>1. CASE u # t
    BY <2>1, <1>2 DEF IInv, TypeOK, ChunksAllocated
  <2>2. CASE u = t
    <3>1. chunk_free'[t] = s[1] /\ free_chunks'[t] = free_chunks[t] \cup {s[1]}
      BY <1>2 DEF IInv, TypeOK
    <3>2. 0 .. s[1] \subseteq (0 .. chunk_free[t]) \cup {s[1]}
      BY <1>1, <1>4, <1>15
    <3> QED BY <2>2, <3>1, <3>2 DEF IInv, ChunksAllocated
  <2> QED BY <2>1, <2>2
<1>17. FreeFitsData'
  <2> SUFFICES ASSUME NEW u \in Types PROVE chunk_free'[u] <= chunk_data[u]
    BY <1>2 DEF FreeFitsData
  <2>1. CASE u # t
    BY <2>1, <1>2 DEF IInv, TypeOK, FreeFitsData
  <2>2. CASE u = t
    BY <2>2, <1>1, <1>2 DEF IInv, TypeOK
  <2> QED BY <2>1, <2>2
<1> QED BY <1>5, <1>13, <1>14, <1>16, <1>17 DEF IInv

LEMMA StepIInv == IInv /\ [Next]_vars => IInv'
<1> SUFFICES ASSUME IInv, [Next]_vars PROVE IInv'
  OBVIOUS
<1>1. CASE mm_clear
  BY <1>1, ClearIInv
<1>2. ASSUME NEW t \in Types, pq_alloc_node(t) PROVE IInv'
  BY <1>2, AllocFreshIInv, AllocGrowIInv, AllocRecycledIInv DEF pq_alloc_node
<1>3. ASSUME NEW t \in Types, NEW node \in live[t], pq_free_node(t, node) PROVE IInv'
  BY <1>3, FreeIInv
<1>4. CASE UNCHANGED vars
  BY <1>4 DEF vars, counters, IInv, TypeOK, Partition, FreeListInjective,
     ChunksAllocated, FreeFitsData, Carved, Stack, OnFreeList
<1> QED BY <1>1, <1>2, <1>3, <1>4 DEF Next

-----------------------------------------------------------------------------
(* The strengthening is an invariant of the node pool.                     *)
THEOREM Invariant == Spec => []IInv
BY InitIInv, StepIInv, PTL DEF Spec

(* No counter of the pool ever leaves its row: neither pq_alloc_node nor   *)
(* pq_free_node indexes an array of the map out of bounds.                 *)
THEOREM TypeCorrect == Spec => []TypeOK
<1>1. IInv => TypeOK
  BY DEF IInv
<1> QED BY <1>1, Invariant, PTL

(* pq_alloc_node never hands out a node a client still holds, and no node  *)
(* is lost between the clients and the free list.                          *)
THEOREM NoDoubleIssue == Spec => []Partition
<1>1. IInv => Partition
  BY DEF IInv
<1> QED BY <1>1, Invariant, PTL

(* No pq_free_node puts a node on the stack that is there already, and no  *)
(* pop leaves it there, across the boundaries of chunks as well.           *)
THEOREM StackedOnce == Spec => []FreeListInjective
<1>1. IInv => FreeListInjective
  BY DEF IInv
<1> QED BY <1>1, Invariant, PTL

(* The stack of mm_grow_free stays within the chunks of the data row, so   *)
(* that it needs no bound of its own.                                      *)
THEOREM RowsSuffice == Spec => []FreeFitsData
<1>1. IInv => FreeFitsData
  BY DEF IInv
<1> QED BY <1>1, Invariant, PTL

(* No counter stands in a chunk that was not allocated, after mm_clear too. *)
THEOREM NoNullChunk == Spec => []ChunksAllocated
<1>1. IInv => ChunksAllocated
  BY DEF IInv
<1> QED BY <1>1, Invariant, PTL

(* A step carves a new node only when every carved node is in use.         *)
LEMMA CarveStep ==
  ASSUME IInv, [Next]_vars, NEW t \in Types, Carved(t)' # Carved(t), Carved(t)' # {}
  PROVE  live[t] = Carved(t)
<1>1. CASE mm_clear
  BY <1>1, BeforeFirst, NodesEmpty DEF mm_clear, Carved
<1>2. ASSUME NEW u \in Types, NEW c, NEW i, Carve(u, c, i), FreeListEmpty(u)
      PROVE  live[t] = Carved(t)
  <2>1. CASE u # t
    <3>1. chunk_data'[t] = chunk_data[t] /\ index_data'[t] = index_data[t]
      BY <1>2, <2>1 DEF IInv, TypeOK, Carve
    <3> QED BY <3>1 DEF Carved
  <2>2. CASE u = t
    <3>1. OnFreeList(t) = {}
      BY <1>2, <2>2, BeforeFirst DEF FreeListEmpty, OnFreeList, Stack
    <3> QED BY <3>1 DEF IInv, Partition
  <2> QED BY <2>1, <2>2
<1>3. ASSUME UNCHANGED <<chunk_data, index_data>> PROVE FALSE
  BY <1>3 DEF Carved
<1>4. ASSUME NEW u \in Types, pq_alloc_node(u) PROVE live[t] = Carved(t)
  BY <1>2, <1>3, <1>4 DEF pq_alloc_node, AllocFresh, AllocGrow, AllocRecycled
<1>5. ASSUME NEW u \in Types, NEW node \in live[u], pq_free_node(u, node)
      PROVE  live[t] = Carved(t)
  BY <1>3, <1>5 DEF pq_free_node
<1>6. CASE UNCHANGED vars
  BY <1>3, <1>6 DEF vars, counters
<1> QED BY <1>1, <1>4, <1>5, <1>6 DEF Next

(* The pool grows only at a new high in the number of nodes in use.        *)
THEOREM GrowsOnlyWhenAllLive == Spec => CarveOnlyWhenAllLive
<1>1. IInv /\ [Next]_vars =>
        [\A t \in Types :
           (Carved(t)' # Carved(t) /\ Carved(t)' # {}) => live[t] = Carved(t)]_vars
  BY CarveStep
<1> QED BY <1>1, Invariant, PTL DEF Spec, CarveOnlyWhenAllLive
=============================================================================
