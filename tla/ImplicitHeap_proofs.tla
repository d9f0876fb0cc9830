------------------------- MODULE ImplicitHeap_proofs -------------------------
(***************************************************************************)
(* Proofs about the implicit heap, for any set of nodes and of keys and    *)
(* any branching factor.                                                   *)
(***************************************************************************)
EXTENDS ImplicitHeapHistory, WellFoundedInduction, TLAPS

-----------------------------------------------------------------------------
(* Where the parent of a position is.                                      *)
LEMMA ParentIsBefore ==
  ASSUME NEW i \in Nat, i > 0
  PROVE  /\ Parent(i) \in Nat /\ Parent(i) < i
         /\ BRANCHING_FACTOR * Parent(i) + 1 <= i
         /\ i <= BRANCHING_FACTOR * Parent(i) + BRANCHING_FACTOR
<1> DEFINE d == BRANCHING_FACTOR
           p == (i - 1) \div d
<1>1. d \in Nat /\ d > 0
  BY BranchingAssumption
<1>2. p \in Int /\ d * p <= i - 1 /\ i - 1 < d * p + d
  BY <1>1, Z3
<1> HIDE DEF p, d
<1>3. p >= 0 
  BY <1>1, <1>2, Z3
<1>4. p <= d * p
  BY <1>1, <1>3, <1>2, Z3
<1>5. d * p \in Int
  BY <1>1, <1>2
<1>6. p < i /\ d * p + 1 <= i /\ i <= d * p + d
  BY <1>1, <1>2, <1>4, <1>5
<1> QED BY <1>2, <1>3, <1>6 DEF Parent, p, d

(* The children of a position are those it is the parent of.               *)
LEMMA ChildHasParent ==
  ASSUME NEW i \in Nat, NEW c \in Nat,
         BRANCHING_FACTOR * i + 1 <= c, c <= BRANCHING_FACTOR * i + BRANCHING_FACTOR
  PROVE  c > i /\ Parent(c) = i
<1> DEFINE d == BRANCHING_FACTOR
           p == Parent(c)
<1>1. d \in Nat /\ d > 0
  BY BranchingAssumption
<1>2. d * i \in Nat /\ d * i >= i
  BY <1>1, Z3
<1>3. c > i
  BY <1>1, <1>2
<1>4. p \in Nat /\ d * p + 1 <= c /\ c <= d * p + d
  BY <1>3, ParentIsBefore
<1> HIDE DEF d, p
<1>5. ASSUME NEW a \in Nat, NEW b \in Nat, a < b PROVE d * a + d <= d * b
  <2>1. d * (a + 1) <= d * b
    BY <1>1, <1>5, Z3
  <2> QED BY <1>1, <2>1, Z3
<1>6. ~ (p < i) /\ ~ (i < p)
  <2>1. d * p \in Nat /\ d * i \in Nat
    BY <1>1, <1>4
  <2> QED BY <1>1, <1>4, <1>5, <2>1 DEF d
<1> QED BY <1>3, <1>4, <1>6 DEF p

LEMMA ParentOfPosition ==
  ASSUME size \in Nat, NEW i \in Position, i > 0
  PROVE  Parent(i) \in Position /\ Parent(i) < i /\ i \in Children(Parent(i))
BY ParentIsBefore DEF Position, Children

LEMMA ChildOfPosition ==
  ASSUME size \in Nat, NEW i \in Position, NEW c
  PROVE  c \in Children(i) <=> c \in Position /\ c > 0 /\ Parent(c) = i
<1> DEFINE d == BRANCHING_FACTOR
<1>1. d * i \in Nat
  BY BranchingAssumption, Z3 DEF Position
<1>2. ASSUME c \in Children(i) PROVE c \in Position /\ c > 0 /\ Parent(c) = i
  BY <1>1, <1>2, ChildHasParent DEF Position, Children
<1>3. ASSUME c \in Position, c > 0, Parent(c) = i PROVE c \in Children(i)
  BY <1>3, ParentIsBefore DEF Position, Children
<1> QED BY <1>2, <1>3

LEMMA SmallestElement ==
  ASSUME NEW S \in SUBSET Nat, S # {}
  PROVE  \E m \in S : \A n \in S : m <= n
<1>1. PICK m \in S : \A n \in S : <<n, m>> \notin OpToRel(<, Nat)
  BY NatLessThanWellFounded, WFMin
<1>2. \A n \in S : ~ (n < m)
  BY <1>1 DEF OpToRel
<1> QED BY <1>2

-----------------------------------------------------------------------------
(* The invariant of the array: with the node held counted at the hole, the *)
(* positions and the nodes allocated correspond one to one.                *)
IInv == TypeOK /\ HoldsLive /\ IndexCoherent

USE DEF Position, live

LEMMA IdleAt ==
  ASSUME IInv, pc = "idle"
  PROVE  /\ \A i \in Position : /\ nodes[i] \in live /\ At(i) = nodes[i]
                                /\ index[nodes[i]] = i
         /\ \A n \in live : index[n] \in Position /\ nodes[index[n]] = n
         /\ \A i, j \in Position : nodes[i] = nodes[j] => i = j
BY DEF IInv, HoldsLive, IndexCoherent, At

LEMMA InitIInv == Init => IInv
BY DEF Init, IInv, TypeOK, HoldsLive, IndexCoherent

LEMMA InsertIInv ==
  ASSUME IInv, NEW n \in Node, NEW k \in Key, pq_insert(n, k)
  PROVE  /\ IInv'
         /\ \A i \in Position' : At(i)' = IF i = size THEN n ELSE At(i)
<1>1. /\ pc = "idle" /\ n \in Node \ live
      /\ size \in Nat /\ capacity \in Nat /\ size < capacity
      /\ nodes \in [0 .. capacity - 1 -> Node \cup {NULL}] /\ live \subseteq Node
      /\ index \in [live -> Nat] /\ key \in [live -> Key]
  BY DEF IInv, TypeOK, pq_insert
<1>2. /\ key' = With(key, n, k) /\ index' = With(index, n, size) /\ size' = size + 1
      /\ pc' = "up" /\ held' = n /\ hole' = size
  BY DEF pq_insert, StartSift
<1>3. /\ capacity' \in Nat /\ size' < capacity'
      /\ nodes' \in [0 .. capacity' - 1 -> Node \cup {NULL}]
      /\ nodes'[size] = n /\ \A i \in Position : nodes'[i] = nodes[i]
  <2>1. CASE size + 1 = capacity
    <3>1. nodes' = [Grown(nodes) EXCEPT ![size] = n] /\ capacity' = 2 * capacity
      BY <2>1 DEF pq_insert
    <3>2. /\ Grown(nodes) \in [0 .. 2 * capacity - 1 -> Node \cup {NULL}]
          /\ \A i \in 0 .. capacity - 1 : Grown(nodes)[i] = nodes[i]
      BY <1>1 DEF Grown
    <3> QED BY <1>1, <1>2, <3>1, <3>2
  <2>2. CASE size + 1 # capacity
    BY <1>1, <2>2 DEF pq_insert
  <2> QED BY <2>1, <2>2
<1>4. /\ live' = live \cup {n}
      /\ index' \in [live' -> Nat] /\ key' \in [live' -> Key]
      /\ index'[n] = size /\ \A m \in live : index'[m] = index[m]
  BY <1>1, <1>2 DEF With
<1>5. \A i \in Position : /\ nodes[i] \in live /\ At(i) = nodes[i]
                          /\ index[nodes[i]] = i
  BY <1>1, IdleAt
<1>6. \A i \in Position' : At(i)' = IF i = size THEN n ELSE nodes[i]
  BY <1>1, <1>2, <1>3 DEF At
<1>7. TypeOK'
  BY <1>1, <1>2, <1>3, <1>4 DEF TypeOK
<1>8. HoldsLive'
  <2>1. \A m \in live : \E i \in Position : nodes[i] = m
    BY <1>1, IdleAt
  <2>2. \A i, j \in Position : nodes[i] = nodes[j] => i = j
    BY <1>1, IdleAt
  <2>3. Position' = Position \cup {size} /\ size \notin Position
    BY <1>1, <1>2
  <2>4. \A i \in Position' : At(i)' \in live'
    BY <1>4, <1>5, <1>6, <2>3
  <2>5. \A m \in live' : \E i \in Position' : At(i)' = m
    <3>1. \A m \in live : \E i \in Position : At(i)' = m
      BY <1>6, <2>1, <2>3
    <3>2. \E i \in Position' : At(i)' = n
      BY <1>6, <2>3
    <3> QED BY <1>4, <2>3, <3>1, <3>2
  <2>6. \A i, j \in Position' : At(i)' = At(j)' => i = j
    BY <1>1, <1>5, <1>6, <2>2, <2>3
  <2> QED BY <2>4, <2>5, <2>6 DEF HoldsLive
<1>9. IndexCoherent'
  BY <1>1, <1>2, <1>3, <1>4, <1>5 DEF IndexCoherent
<1>10. \A i \in Position' : i # size => At(i)' = At(i)
  BY <1>1, <1>2, <1>5, <1>6
<1> QED BY <1>6, <1>7, <1>8, <1>9, <1>10 DEF IInv

(* The last node takes the place of the one deleted, unless it is that.    *)
LEMMA DeleteIInv ==
  ASSUME IInv, NEW n, pq_delete(n)
  PROVE  /\ IInv'
         /\ pc' \in {"idle", "down"} /\ size' = size - 1 /\ size > 0
         /\ key' = Without(key, n)
         /\ pc' = "idle" => \A i \in Position' : At(i)' = At(i)
         /\ pc' = "down" => /\ hole' \in Position /\ hole' = index[n] /\ At(index[n]) = n
                            /\ held' = At(size - 1)
                            /\ \A i \in Position' : i # hole' => At(i)' = At(i)
<1> DEFINE last == nodes[size - 1]
           p == index[n]
<1>1. /\ pc = "idle" /\ n \in live
      /\ size \in Nat /\ capacity \in Nat /\ size < capacity
      /\ nodes \in [0 .. capacity - 1 -> Node \cup {NULL}] /\ live \subseteq Node
      /\ index \in [live -> Nat] /\ key \in [live -> Key]
      /\ held = NULL /\ hole = 0
  BY DEF IInv, TypeOK, pq_delete
<1>2. /\ \A i \in Position : /\ nodes[i] \in live /\ At(i) = nodes[i]
                             /\ index[nodes[i]] = i
      /\ \A m \in live : index[m] \in Position /\ nodes[index[m]] = m
      /\ \A i, j \in Position : nodes[i] = nodes[j] => i = j
  BY <1>1, IdleAt
<1>3. p \in Position /\ nodes[p] = n /\ size > 0 /\ size - 1 \in Position /\ last \in live
      /\ At(size - 1) = last
  BY <1>1, <1>2
<1>4. /\ size' = size - 1 /\ capacity' = capacity /\ key' = Without(key, n)
      /\ size' \in Nat /\ size' < capacity'
      /\ live' = live \ {n} /\ key' \in [live' -> Key]
      /\ Position' \subseteq Position /\ size - 1 \notin Position'
      /\ Position = Position' \cup {size - 1}
  BY <1>1, <1>3 DEF pq_delete, Without
<1>5. CASE n = last
  <2>1. p = size - 1
    BY <1>2, <1>3, <1>5
  <2>2. index' = Without(index, n) /\ UNCHANGED <<nodes, sift>>
    BY <1>5 DEF pq_delete
  <2>3. index' \in [live' -> Nat] /\ \A m \in live' : index'[m] = index[m]
    BY <1>1, <1>4, <2>2 DEF Without
  <2>4. pc' = "idle" /\ \A i \in Position' : At(i)' = nodes[i] /\ nodes[i] # n
    BY <1>1, <1>2, <1>3, <1>4, <2>1, <2>2 DEF At, sift
  <2>5. TypeOK'
    BY <1>1, <1>4, <2>2, <2>3 DEF TypeOK, sift
  <2>6. HoldsLive'
    <3>1. \A i \in Position' : At(i)' \in live'
      BY <1>2, <1>4, <2>4
    <3>2. \A m \in live' : \E i \in Position' : At(i)' = m
      BY <1>2, <1>4, <1>5, <2>4
    <3>3. \A i, j \in Position' : At(i)' = At(j)' => i = j
      BY <1>2, <1>4, <2>4
    <3> QED BY <3>1, <3>2, <3>3 DEF HoldsLive
  <2>7. IndexCoherent'
    BY <1>2, <1>4, <2>2, <2>3, <2>4 DEF IndexCoherent, sift
  <2> QED BY <1>2, <1>3, <1>4, <2>4, <2>5, <2>6, <2>7 DEF IInv
<1>6. CASE n # last
  <2>1. p # size - 1 /\ p \in Position'
    BY <1>2, <1>3, <1>4, <1>6
  <2>2. /\ nodes' = [nodes EXCEPT ![p] = last]
        /\ index' = Without([index EXCEPT ![last] = p], n)
        /\ pc' = "down" /\ held' = last /\ hole' = p
    BY <1>6 DEF pq_delete, StartSift
  <2>3. index' \in [live' -> Nat] /\ \A m \in live' \ {last} : index'[m] = index[m]
    BY <1>1, <1>3, <1>4, <1>6, <2>2 DEF Without
  <2>4. \A i \in Position' : At(i)' = IF i = p THEN last ELSE nodes[i]
    BY <1>1, <1>4, <2>2 DEF At
  <2>5. \A i \in Position' : i # p => nodes'[i] = nodes[i] /\ nodes[i] # n /\ nodes[i] # last
    BY <1>1, <1>2, <1>3, <1>4, <2>2
  <2>6. TypeOK'
    <3>1. nodes' \in [0 .. capacity' - 1 -> Node \cup {NULL}]
      BY <1>1, <1>3, <1>4, <2>2
    <3> QED BY <1>1, <1>3, <1>4, <1>6, <2>1, <2>2, <2>3, <3>1 DEF TypeOK
  <2>7. HoldsLive'
    <3>1. \A i \in Position' : At(i)' \in live'
      BY <1>2, <1>3, <1>4, <1>6, <2>4, <2>5
    <3>2. ASSUME NEW m \in live' PROVE \E i \in Position' : At(i)' = m
      <4>1. CASE m = last
        BY <2>1, <2>4, <4>1
      <4>2. CASE m # last
        <5>1. index[m] \in Position /\ nodes[index[m]] = m /\ m # n
          BY <1>2, <1>4
        <5>2. index[m] # size - 1 /\ index[m] # p
          BY <1>3, <4>2, <5>1
        <5> QED BY <1>4, <2>4, <5>1, <5>2
      <4> QED BY <4>1, <4>2
    <3>3. \A i, j \in Position' : At(i)' = At(j)' => i = j
      BY <1>2, <1>4, <2>4, <2>5
    <3> QED BY <3>1, <3>2, <3>3 DEF HoldsLive
  <2>8. IndexCoherent'
    <3>1. ASSUME NEW i \in Position', i # p PROVE index'[nodes'[i]] = i
      <4>1. nodes'[i] = nodes[i] /\ nodes[i] \in live' \ {last}
        BY <1>2, <1>4, <2>5, <3>1
      <4> QED BY <1>2, <1>4, <2>3, <4>1
    <3> QED BY <2>2, <3>1 DEF IndexCoherent
  <2>9. \A i \in Position' : i # p => At(i)' = At(i)
    BY <1>2, <1>4, <2>4
  <2> QED BY <1>2, <1>3, <1>4, <2>1, <2>2, <2>6, <2>7, <2>8, <2>9 DEF IInv
<1> QED BY <1>5, <1>6

LEMMA DecreaseIInv ==
  ASSUME IInv, NEW n, NEW k \in Key, pq_decrease_key(n, k)
  PROVE  IInv' /\ \A i \in Position' : At(i)' = At(i)
<1>1. /\ pc = "idle" /\ n \in live /\ k <= key[n]
      /\ key' = [key EXCEPT ![n] = k]
      /\ pc' = "up" /\ held' = n /\ hole' = index[n]
      /\ UNCHANGED <<nodes, size, capacity, index>>
  BY DEF pq_decrease_key, StartSift, queue
<1>2. /\ \A i \in Position : nodes[i] \in live /\ At(i) = nodes[i] /\ index[nodes[i]] = i
      /\ index[n] \in Position /\ nodes[index[n]] = n
  BY <1>1, IdleAt
<1>3. live' = live /\ TypeOK'
  BY <1>1, <1>2 DEF IInv, TypeOK
<1>4. Position' = Position /\ \A i \in Position : At(i)' = At(i)
  BY <1>1, <1>2 DEF At
<1>5. HoldsLive'
  <2>1. /\ \A i \in Position : At(i) \in live
        /\ \A m \in live : \E i \in Position : At(i) = m
        /\ \A i, j \in Position : At(i) = At(j) => i = j
    BY DEF IInv, HoldsLive
  <2>2. /\ \A i \in Position' : At(i)' \in live'
        /\ \A m \in live' : \E i \in Position' : At(i)' = m
        /\ \A i, j \in Position' : At(i)' = At(j)' => i = j
    BY <1>1, <1>3, <1>4, <2>1
  <2> QED BY <2>2 DEF HoldsLive
<1>6. IndexCoherent'
  BY <1>1, <1>2, <1>4 DEF IndexCoherent
<1> QED BY <1>3, <1>4, <1>5, <1>6 DEF IInv

LEMMA ClearIInv == IInv /\ pq_clear => IInv' /\ size' = 0 /\ pc' = "idle"
<1> SUFFICES ASSUME IInv, pq_clear PROVE IInv' /\ size' = 0 /\ pc' = "idle"
  OBVIOUS
<1>1. size' = 0 /\ live' = {} /\ Position' = {} /\ pc' = "idle"
  BY DEF pq_clear, sift
<1>2. TypeOK'
  BY <1>1 DEF IInv, TypeOK, pq_clear, sift
<1> QED BY <1>1, <1>2 DEF IInv, HoldsLive, IndexCoherent

-----------------------------------------------------------------------------
(* An iteration of a sift exchanges held and the node at q, and the end of *)
(* one moves nothing.                                                      *)
LEMMA MoveIInv ==
  ASSUME IInv, pc # "idle", NEW q \in Position, q # hole,
         Place(nodes[q], hole), hole' = q, UNCHANGED <<size, capacity, key, pc, held>>
  PROVE  /\ IInv'
         /\ \A i \in Position' :
              At(i)' = IF i = q THEN held ELSE IF i = hole THEN At(q) ELSE At(i)
<1>1. /\ size \in Nat /\ capacity \in Nat /\ size < capacity
      /\ nodes \in [0 .. capacity - 1 -> Node \cup {NULL}] /\ live \subseteq Node
      /\ index \in [live -> Nat] /\ key \in [live -> Key] /\ pc \in {"idle", "up", "down"}
      /\ held \in live /\ hole \in Position
  BY DEF IInv, TypeOK
<1>2. /\ nodes' = [nodes EXCEPT ![hole] = nodes[q]]
      /\ index' = [index EXCEPT ![nodes[q]] = hole]
      /\ Position' = Position /\ live' = live
  BY DEF Place
<1>3. /\ At(hole) = held /\ \A i \in Position : i # hole => At(i) = nodes[i]
      /\ \A i \in Position : At(i) \in live
      /\ \A i, j \in Position : At(i) = At(j) => i = j
      /\ \A i \in Position : i # hole => index[nodes[i]] = i
  BY DEF IInv, HoldsLive, IndexCoherent, At
<1>4. /\ nodes'[hole] = nodes[q] /\ index'[nodes[q]] = hole
      /\ \A i \in Position : i # hole => nodes'[i] = nodes[i]
      /\ \A n \in live : n # nodes[q] => index'[n] = index[n]
      /\ nodes[q] \in live
  BY <1>1, <1>2, <1>3
<1>5. \A i \in Position :
        At(i)' = IF i = q THEN held ELSE IF i = hole THEN At(q) ELSE At(i)
  BY <1>2, <1>3, <1>4 DEF At
<1>6. TypeOK'
  BY <1>1, <1>2, <1>3, <1>4 DEF TypeOK
<1>7. HoldsLive'
  <2>1. \A i \in Position' : At(i)' \in live'
    BY <1>1, <1>2, <1>3, <1>5
  <2>2. \A n \in live' : \E i \in Position' : At(i)' = n
    <3>1. \A n \in live : \E i \in Position : At(i) = n
      BY DEF IInv, HoldsLive
    <3> QED BY <1>1, <1>2, <1>3, <1>5, <3>1
  <2>3. \A i, j \in Position' : At(i)' = At(j)' => i = j
    BY <1>1, <1>2, <1>3, <1>5
  <2> QED BY <2>1, <2>2, <2>3 DEF HoldsLive
<1>8. IndexCoherent'
  BY <1>1, <1>2, <1>3, <1>4 DEF IndexCoherent
<1> QED BY <1>2, <1>5, <1>6, <1>7, <1>8 DEF IInv

LEMMA DumpIInv ==
  ASSUME IInv, pc # "idle", Place(held, hole), Rest, UNCHANGED <<size, capacity, key>>
  PROVE  IInv' /\ \A i \in Position' : At(i)' = At(i)
<1>1. /\ size \in Nat /\ capacity \in Nat /\ size < capacity
      /\ nodes \in [0 .. capacity - 1 -> Node \cup {NULL}] /\ live \subseteq Node
      /\ index \in [live -> Nat] /\ key \in [live -> Key]
      /\ held \in live /\ hole \in Position
  BY DEF IInv, TypeOK
<1>2. /\ nodes' = [nodes EXCEPT ![hole] = held] /\ index' = [index EXCEPT ![held] = hole]
      /\ pc' = "idle" /\ held' = NULL /\ hole' = 0
      /\ Position' = Position /\ live' = live
  BY DEF Place, Rest
<1>3. /\ At(hole) = held /\ \A i \in Position : i # hole => At(i) = nodes[i]
      /\ \A i \in Position : At(i) \in live
      /\ \A i, j \in Position : At(i) = At(j) => i = j
      /\ \A i \in Position : i # hole => index[nodes[i]] = i
  BY DEF IInv, HoldsLive, IndexCoherent, At
<1>4. \A i \in Position : nodes'[i] = At(i) /\ At(i)' = At(i)
  BY <1>1, <1>2, <1>3 DEF At
<1>5. TypeOK'
  BY <1>1, <1>2 DEF TypeOK
<1>6. HoldsLive'
  BY <1>2, <1>4 DEF IInv, HoldsLive
<1>7. IndexCoherent'
  BY <1>1, <1>2, <1>3, <1>4 DEF IndexCoherent
<1> QED BY <1>2, <1>4, <1>5, <1>6, <1>7 DEF IInv

LEMMA SiftType ==
  ASSUME IInv, pc # "idle"
  PROVE  size \in Nat /\ hole \in Position /\ held \in live /\ pc \in {"up", "down"}
BY DEF IInv, TypeOK

(* The steps of a sift, as exchanges.                                      *)
LEMMA UpStepMoves ==
  ASSUME IInv, UpStep
  PROVE  LET q == Parent(hole)
         IN  /\ IInv' /\ q \in Position /\ q < hole /\ hole' = q /\ key[held] < key[At(q)]
             /\ \A i \in Position' :
                  At(i)' = IF i = q THEN held ELSE IF i = hole THEN At(q) ELSE At(i)
<1> DEFINE q == Parent(hole)
<1>1. pc # "idle" /\ size \in Nat /\ hole \in Position /\ hole > 0
  BY SiftType DEF UpStep, AboveHole
<1>2. q \in Position /\ q < hole
  BY <1>1, ParentOfPosition
<1>3. At(q) = nodes[q] /\ q # hole
  BY <1>1, <1>2 DEF At
<1> QED BY <1>1, <1>2, <1>3, MoveIInv DEF UpStep, AboveHole

LEMMA DownStepMoves ==
  ASSUME IInv, DownStep
  PROVE  \E c \in Position :
           /\ IInv' /\ c > 0 /\ c > hole /\ Parent(c) = hole /\ hole' = c
           /\ key[At(c)] < key[held]
           /\ \A e \in Children(hole) : key[At(c)] <= key[At(e)]
           /\ \A i \in Position' :
                At(i)' = IF i = c THEN held ELSE IF i = hole THEN At(c) ELSE At(i)
<1>1. pc # "idle" /\ size \in Nat /\ hole \in Position
  BY SiftType DEF DownStep
<1>2. PICK c \in Children(hole) :
        /\ IsMinChild(c) /\ key[nodes[c]] < key[held]
        /\ Place(nodes[c], hole) /\ hole' = c
  BY DEF DownStep
<1>3. \A e \in Children(hole) : e \in Position /\ e > 0 /\ Parent(e) = hole
  BY <1>1, ChildOfPosition
<1>4. \A e \in Children(hole) : e > hole
  BY <1>1, <1>3, ParentOfPosition
<1>5. \A e \in Children(hole) : At(e) = nodes[e]
  BY <1>1, <1>3, <1>4 DEF At
<1>6. \A e \in Children(hole) : key[At(c)] <= key[At(e)]
  <2>1. \A e \in Children(hole) : nodes[e] \in live
    BY <1>3, <1>5 DEF IInv, HoldsLive
  <2>2. \A n \in live : key[n] \in Nat
    BY KeyAssumption DEF IInv, TypeOK
  <2> QED BY <1>2, <1>5, <2>1, <2>2 DEF IsMinChild
<1>7. c \in Position /\ c # hole /\ UNCHANGED <<size, capacity, key, pc, held>>
  BY <1>1, <1>3, <1>4 DEF DownStep
<1>8. /\ IInv'
      /\ \A i \in Position' :
           At(i)' = IF i = c THEN held ELSE IF i = hole THEN At(c) ELSE At(i)
  BY <1>1, <1>2, <1>7, MoveIInv
<1> QED BY <1>2, <1>3, <1>4, <1>5, <1>6, <1>7, <1>8

LEMMA EndDumps ==
  ASSUME IInv, UpEnd \/ DownEnd
  PROVE  IInv' /\ \A i \in Position' : At(i)' = At(i)
BY DumpIInv DEF UpEnd, DownEnd

LEMMA StepIInv == IInv /\ [Next]_vars => IInv'
<1> SUFFICES ASSUME IInv, [Next]_vars PROVE IInv'
  OBVIOUS
<1>1. CASE UNCHANGED vars
  BY <1>1 DEF vars, queue, sift, IInv, TypeOK, HoldsLive, IndexCoherent, At
<1>2. CASE Heapify
  BY <1>2, UpStepMoves, DownStepMoves, EndDumps DEF Heapify
<1> QED BY <1>1, <1>2, InsertIInv, DeleteIInv, DecreaseIInv, ClearIInv DEF Next, pq_delete_min

LEMMA Invariant == Spec => []IInv
BY InitIInv, StepIInv, PTL DEF Spec

(* There is always room for the next insertion: pq_insert never writes     *)
(* past the array it grew.                                                 *)
THEOREM Typed == Spec => []TypeOK
BY Invariant, PTL DEF IInv

(* No chain of pushes loses a node or leaves it in the array twice.        *)
THEOREM HeapHoldsLive == Spec => []HoldsLive
BY Invariant, PTL DEF IInv

(* The handle a client keeps finds its node, wherever the pushes of other  *)
(* calls have put it.                                                      *)
THEOREM HandlesFindNodes == Spec => []IndexCoherent
BY Invariant, PTL DEF IInv

-----------------------------------------------------------------------------
(* The heap order of a state, in the keys of the positions.                *)
KeyAt(i) == key[At(i)]

FineAt(i) ==
  /\ Loose(i) \/ KeyAt(Parent(i)) <= KeyAt(i)
  /\ pc # "idle" /\ Parent(i) = hole /\ hole > 0 => KeyAt(Parent(hole)) <= KeyAt(i)

LEMMA HeapOrderByKeys == HeapOrder <=> \A i \in Position \ {0} : FineAt(i)
BY DEF HeapOrder, FineAt, KeyAt

LEMMA KeysAreNumbers ==
  ASSUME IInv
  PROVE  size \in Nat /\ \A i \in Position : KeyAt(i) \in Nat /\ At(i) \in live
BY KeyAssumption DEF IInv, TypeOK, HoldsLive, KeyAt

(* The root is least: of the positions with lesser keys the first one      *)
(* would have a parent with a lesser key still.                            *)
LEMMA RootIsLeast ==
  ASSUME IInv, HeapOrder
  PROVE  FindMinCorrect
<1> SUFFICES ASSUME pc = "idle", NEW j \in Position, ~ (key[nodes[0]] <= key[nodes[j]])
             PROVE  FALSE
  BY DEF FindMinCorrect
<1>1. /\ size \in Nat /\ 0 \in Position
      /\ \A i \in Position : KeyAt(i) \in Nat /\ KeyAt(i) = key[nodes[i]]
  BY KeysAreNumbers DEF At, KeyAt
<1> DEFINE Lesser == {i \in Position : KeyAt(i) < KeyAt(0)}
<1>2. j \in Lesser /\ Lesser \subseteq Nat
  BY <1>1
<1>3. PICK m \in Lesser : \A i \in Lesser : m <= i
  BY <1>2, SmallestElement
<1>4. m \in Position /\ m > 0
  BY <1>1, <1>3
<1>5. Parent(m) \in Position /\ Parent(m) < m
  BY <1>1, <1>4, ParentOfPosition
<1>6. KeyAt(Parent(m)) <= KeyAt(m)
  BY <1>4, HeapOrderByKeys DEF FineAt, Loose
<1>7. Parent(m) \in Lesser
  BY <1>1, <1>3, <1>4, <1>5, <1>6
<1> QED BY <1>1, <1>3, <1>4, <1>5, <1>7

(* A new leaf, about to be sifted up.                                      *)
LEMMA InsertHeapOrder ==
  ASSUME IInv, HeapOrder, NEW n \in Node, NEW k \in Key, pq_insert(n, k)
  PROVE  HeapOrder'
<1>1. /\ IInv' /\ \A i \in Position' : At(i)' = IF i = size THEN n ELSE At(i)
      /\ pc = "idle" /\ pc' = "up" /\ hole' = size /\ size' = size + 1 /\ size \in Nat
      /\ \A m \in live : key'[m] = key[m]
  BY InsertIInv, KeysAreNumbers DEF pq_insert, StartSift, With, IInv, TypeOK
<1>2. \A i \in Position' : i # size => KeyAt(i)' = KeyAt(i)
  BY <1>1, KeysAreNumbers DEF KeyAt
<1>3. ASSUME NEW i \in Position' \ {0} PROVE FineAt(i)'
  <2>1. CASE i = size
    <3>1. Parent(i) < i
      BY <1>1, <2>1, ParentIsBefore
    <3> QED BY <1>1, <2>1, <3>1 DEF FineAt, Loose
  <2>2. CASE i # size
    <3>1. /\ i \in Position \ {0} /\ i < size
          /\ Parent(i) \in Position /\ Parent(i) < i /\ Parent(i) \in Position'
      BY <1>1, <2>2, ParentOfPosition
    <3>2. FineAt(i)
      BY <3>1, HeapOrderByKeys
    <3>3. KeyAt(Parent(i))' = KeyAt(Parent(i)) /\ KeyAt(i)' = KeyAt(i)
      BY <1>1, <1>2, <3>1
    <3> QED BY <1>1, <3>1, <3>2, <3>3 DEF FineAt, Loose
  <2> QED BY <2>1, <2>2
<1> QED BY <1>3, HeapOrderByKeys DEF HeapOrder, FineAt, KeyAt

(* A lesser key, about to be sifted up.                                    *)
LEMMA DecreaseHeapOrder ==
  ASSUME IInv, HeapOrder, NEW n, NEW k \in Key, pq_decrease_key(n, k)
  PROVE  HeapOrder'
<1>1. /\ pc = "idle" /\ n \in live /\ k <= key[n] /\ pc' = "up" /\ hole' = index[n]
      /\ key' = [key EXCEPT ![n] = k] /\ size' = size /\ size \in Nat
      /\ \A i \in Position' : At(i)' = At(i)
      /\ k \in Nat
  BY DecreaseIInv, KeysAreNumbers, KeyAssumption DEF pq_decrease_key, StartSift, queue
<1>2. PICK h \in Position : /\ h = hole' /\ At(h) = n
                            /\ \A i \in Position : i # h => At(i) # n
  BY <1>1, IdleAt
<1>3. \A i \in Position : /\ i # h => KeyAt(i)' = KeyAt(i)
                          /\ i = h => KeyAt(i)' = k /\ k <= KeyAt(i)
                          /\ KeyAt(i) \in Nat
  BY <1>1, <1>2, KeysAreNumbers DEF KeyAt, IInv, TypeOK
<1>4. ASSUME NEW i \in Position' \ {0} PROVE FineAt(i)'
  <2>1. i \in Position \ {0} /\ Parent(i) \in Position /\ Parent(i) < i
    BY <1>1, ParentOfPosition
  <2>2. KeyAt(Parent(i)) <= KeyAt(i)
    BY <1>1, <2>1, HeapOrderByKeys DEF FineAt, Loose
  <2>3. h > 0 => /\ Parent(h) \in Position /\ Parent(h) < h
                 /\ KeyAt(Parent(h)) <= KeyAt(h)
    BY <1>1, <1>2, ParentOfPosition, HeapOrderByKeys DEF FineAt, Loose
  <2>4. CASE i = h
    BY <1>1, <1>2, <2>1, <2>4 DEF FineAt, Loose
  <2>5. CASE i # h /\ Parent(i) = h
    <3>1. k <= KeyAt(i)' /\ KeyAt(Parent(i))' = k
      BY <1>1, <1>3, <2>1, <2>2, <2>5
    <3>2. h > 0 => KeyAt(Parent(h))' <= KeyAt(i)'
      BY <1>2, <1>3, <2>1, <2>2, <2>3, <2>5
    <3> QED BY <1>1, <1>2, <2>5, <3>1, <3>2 DEF FineAt
  <2>6. CASE i # h /\ Parent(i) # h
    <3>1. KeyAt(Parent(i))' = KeyAt(Parent(i)) /\ KeyAt(i)' = KeyAt(i)
      BY <1>3, <2>1, <2>6
    <3> QED BY <1>1, <1>2, <2>2, <2>6, <3>1 DEF FineAt
  <2> QED BY <2>4, <2>5, <2>6
<1> QED BY <1>4, HeapOrderByKeys DEF HeapOrder, FineAt, KeyAt

(* An iteration upwards: what was under the hole keeps its order with the  *)
(* parent pushed down to it.                                               *)
LEMMA UpStepHeapOrder ==
  ASSUME IInv, HeapOrder, UpStep
  PROVE  HeapOrder'
<1>1. PICK h \in Position, q \in Position :
      /\ h = hole /\ q = Parent(h)
      /\ pc = "up" /\ pc' = "up" /\ hole' = q /\ size' = size /\ key' = key
      /\ h > 0 /\ size \in Nat
      /\ q < h /\ key[held] < KeyAt(q)
  BY UpStepMoves, SiftType DEF UpStep, AboveHole, KeyAt
<1>2. KeyAt(h) = key[held]
  BY <1>1 DEF KeyAt, At
<1>3. \A i \in Position :
        /\ KeyAt(i)' = IF i = q THEN KeyAt(h) ELSE IF i = h THEN KeyAt(q) ELSE KeyAt(i)
        /\ KeyAt(i) \in Nat
  BY <1>1, <1>2, UpStepMoves, KeysAreNumbers DEF KeyAt
<1>4. ASSUME NEW i \in Position \ {0} 
      PROVE  /\ Parent(i) \in Position /\ Parent(i) < i
             /\ i # h => KeyAt(Parent(i)) <= KeyAt(i)
             /\ Parent(i) = h => KeyAt(q) <= KeyAt(i)
  BY <1>1, <1>4, ParentOfPosition, HeapOrderByKeys DEF FineAt, Loose
<1>5. q > 0 => /\ Parent(q) \in Position /\ Parent(q) < q /\ KeyAt(Parent(q)) <= KeyAt(q)
               /\ KeyAt(Parent(q))' = KeyAt(Parent(q))
  BY <1>1, <1>3, <1>4
<1>6. ASSUME NEW i \in Position' \ {0} PROVE FineAt(i)'
  <2>1. i \in Position \ {0}
    BY <1>1
  <2>2. i # q => KeyAt(Parent(i))' <= KeyAt(i)'
    <3>1. CASE Parent(i) = q
      BY <1>1, <1>2, <1>3, <1>4, <2>1, <3>1
    <3>2. CASE Parent(i) = h
      BY <1>1, <1>3, <1>4, <2>1, <3>2
    <3>3. CASE Parent(i) # q /\ Parent(i) # h
      BY <1>1, <1>3, <1>4, <2>1, <3>3
    <3> QED BY <3>1, <3>2, <3>3
  <2>3. Parent(i) = q /\ q > 0 => KeyAt(Parent(q))' <= KeyAt(i)'
    BY <1>1, <1>2, <1>3, <1>4, <1>5, <2>1
  <2> QED BY <1>1, <2>2, <2>3 DEF FineAt, Loose
<1> QED BY <1>1, <1>6, HeapOrderByKeys DEF HeapOrder, FineAt, KeyAt

(* An iteration downwards: the least child is in order with the others.    *)
LEMMA DownStepHeapOrder ==
  ASSUME IInv, HeapOrder, DownStep
  PROVE  HeapOrder'
<1> DEFINE h == hole
<1>1. PICK c \in Position :
        /\ c > 0 /\ c > h /\ Parent(c) = h /\ hole' = c /\ KeyAt(c) < key[held]
        /\ \A e \in Children(h) : KeyAt(c) <= KeyAt(e)
        /\ \A i \in Position' :
             At(i)' = IF i = c THEN held ELSE IF i = h THEN At(c) ELSE At(i)
  BY DownStepMoves DEF KeyAt
<1>2. /\ pc = "down" /\ pc' = "down" /\ size' = size /\ key' = key
      /\ h \in Position /\ size \in Nat
  BY SiftType DEF DownStep
<1>3. KeyAt(h) = key[held]
  BY <1>2 DEF KeyAt, At
<1>4. \A i \in Position :
        /\ KeyAt(i)' = IF i = c THEN KeyAt(h) ELSE IF i = h THEN KeyAt(c) ELSE KeyAt(i)
        /\ KeyAt(i) \in Nat
  BY <1>1, <1>2, <1>3, KeysAreNumbers DEF KeyAt
<1>5. ASSUME NEW i \in Position \ {0}
      PROVE  /\ Parent(i) \in Position /\ Parent(i) < i
             /\ Parent(i) # h => KeyAt(Parent(i)) <= KeyAt(i)
             /\ Parent(i) = h => KeyAt(c) <= KeyAt(i)
             /\ Parent(i) = h /\ h > 0 => KeyAt(Parent(h)) <= KeyAt(i)
  <2>1. Parent(i) = h => i \in Children(h)
    BY <1>2, ParentOfPosition
  <2> QED BY <1>1, <1>2, <2>1, ParentOfPosition, HeapOrderByKeys DEF FineAt, Loose
<1>6. ASSUME NEW i \in Position' \ {0} PROVE FineAt(i)'
  <2>1. i \in Position \ {0}
    BY <1>2
  <2>2. Parent(i) # c => KeyAt(Parent(i))' <= KeyAt(i)'
    <3>1. CASE i = c
      BY <1>1, <1>2, <1>3, <1>4, <3>1
    <3>2. CASE i = h
      <4>1. KeyAt(Parent(h)) <= KeyAt(c)
        BY <1>1, <1>5, <2>1, <3>2
      <4> QED BY <1>1, <1>4, <1>5, <2>1, <3>2, <4>1
    <3>3. CASE i # c /\ i # h /\ Parent(i) = h
      BY <1>1, <1>4, <1>5, <2>1, <3>3
    <3>4. CASE i # c /\ i # h /\ Parent(i) # h
      BY <1>1, <1>4, <1>5, <2>1, <3>4
    <3> QED BY <3>1, <3>2, <3>3, <3>4
  <2>3. Parent(i) = c => KeyAt(Parent(c))' <= KeyAt(i)'
    BY <1>1, <1>2, <1>4, <1>5, <2>1
  <2> QED BY <1>1, <1>2, <2>2, <2>3 DEF FineAt, Loose
<1> QED BY <1>2, <1>6, HeapOrderByKeys DEF HeapOrder, FineAt, KeyAt

LEMMA EndHeapOrder ==
  ASSUME IInv, HeapOrder, UpEnd \/ DownEnd
  PROVE  HeapOrder'
<1>1. /\ pc \in {"up", "down"} /\ pc' = "idle" /\ size' = size /\ key' = key
      /\ hole \in Position /\ size \in Nat
  BY SiftType DEF UpEnd, DownEnd, Rest
<1>2. \A i \in Position : KeyAt(i)' = KeyAt(i) /\ KeyAt(i) \in Nat
  BY <1>1, EndDumps, KeysAreNumbers DEF KeyAt
<1>3. ASSUME NEW i \in Position' \ {0} PROVE FineAt(i)'
  <2>1. i \in Position \ {0} /\ Parent(i) \in Position /\ Parent(i) < i
    BY <1>1, ParentOfPosition
  <2>2. KeyAt(Parent(i)) <= KeyAt(i)
    <3>1. ASSUME pc = "up", i = hole PROVE KeyAt(Parent(i)) <= KeyAt(i)
      <4>1. At(i) = held /\ At(Parent(i)) = nodes[Parent(i)]
        BY <2>1, <3>1 DEF At
      <4>2. ~ (key[held] < key[nodes[Parent(hole)]])
        BY <1>1, <2>1, <3>1 DEF UpEnd, DownEnd, AboveHole
      <4> QED BY <1>2, <2>1, <3>1, <4>1, <4>2 DEF KeyAt
    <3>2. ASSUME pc = "down", Parent(i) = hole PROVE KeyAt(Parent(i)) <= KeyAt(i)
      <4>1. At(i) = nodes[i] /\ At(Parent(i)) = held
        BY <2>1, <3>2 DEF At
      <4>2. i \in Children(hole)
        BY <1>1, <2>1, <3>2, ParentOfPosition
      <4> QED BY <3>2, <4>1, <4>2 DEF UpEnd, DownEnd, KeyAt
    <3> QED BY <2>1, <3>1, <3>2, HeapOrderByKeys DEF FineAt, Loose
  <2>3. KeyAt(Parent(i))' <= KeyAt(i)'
    BY <1>2, <2>1, <2>2
  <2> QED BY <1>1, <2>3 DEF FineAt
<1> QED BY <1>1, <1>3, HeapOrderByKeys DEF HeapOrder, FineAt, KeyAt

(* The last node replaces the one deleted: in order with what is above it, *)
(* unless it is misplaced, and about to be sifted down.                    *)
LEMMA DeleteHeapOrder ==
  ASSUME IInv, HeapOrder, NEW n, pq_delete(n), ~ Misplaces
  PROVE  HeapOrder'
<1>1. /\ pc = "idle" /\ pc' \in {"idle", "down"} /\ size' = size - 1 /\ size > 0
      /\ key' = Without(key, n) /\ IInv' /\ size \in Nat /\ size' \in Nat
      /\ Position' \subseteq Position
  BY DeleteIInv, KeysAreNumbers DEF pq_delete
<1>2. /\ \A i \in Position : KeyAt(i) \in Nat
      /\ \A i \in Position' : At(i)' \in live' /\ KeyAt(i)' \in Nat
      /\ \A m \in live' : key'[m] = key[m]
  <2>1. \A i \in Position' : At(i)' \in live' /\ KeyAt(i)' \in Nat
    BY <1>1, KeyAssumption DEF IInv, TypeOK, HoldsLive, KeyAt
  <2> QED BY <1>1, <2>1, KeysAreNumbers DEF Without
<1>3. ASSUME NEW i \in Position \ {0} 
      PROVE  /\ Parent(i) \in Position /\ Parent(i) < i
             /\ KeyAt(Parent(i)) <= KeyAt(i)
  BY <1>1, ParentOfPosition, HeapOrderByKeys DEF FineAt, Loose
<1>4. CASE pc' = "idle"
  <2>1. \A i \in Position' : KeyAt(i)' = KeyAt(i)
    BY <1>2, <1>4, DeleteIInv DEF KeyAt
  <2>2. ASSUME NEW i \in Position' \ {0} PROVE FineAt(i)'
    <3>1. i \in Position \ {0} /\ Parent(i) \in Position'
      BY <1>1, <1>3
    <3> QED BY <1>3, <1>4, <2>1, <3>1 DEF FineAt
  <2> QED BY <2>2, HeapOrderByKeys DEF HeapOrder, FineAt, KeyAt
<1>5. CASE pc' = "down"
  <2>1. PICK h \in Position :
          /\ hole' = h
          /\ \A i \in Position' : i # h => At(i)' = At(i)
    BY <1>5, DeleteIInv
  <2>2. \A i \in Position' : i # h => KeyAt(i)' = KeyAt(i)
    BY <1>2, <2>1 DEF KeyAt
  <2>3. h \in Position' /\ KeyAt(h)' = key'[held']
    <3>1. hole' \in Position'
      BY <1>1, <1>5 DEF IInv, TypeOK
    <3> QED BY <1>5, <2>1, <3>1 DEF KeyAt, At
  <2>4. h > 0 => /\ Parent(h) \in Position' /\ Parent(h) < h
                 /\ KeyAt(Parent(h)) <= KeyAt(h) /\ KeyAt(Parent(h)) <= KeyAt(h)'
    <3> SUFFICES ASSUME h > 0
                 PROVE  /\ Parent(h) \in Position' /\ Parent(h) < h
                        /\ KeyAt(Parent(h)) <= KeyAt(h) /\ KeyAt(Parent(h)) <= KeyAt(h)'
      OBVIOUS
    <3>1. Parent(h) \in Position' /\ Parent(h) < h /\ KeyAt(Parent(h)) <= KeyAt(h)
      BY <1>1, <1>3, <2>1, <2>3
    <3>2. At(Parent(h)) = nodes[Parent(h)] /\ At(Parent(h)) \in live'
      BY <1>1, <1>2, <2>1, <3>1, IdleAt
    <3>3. ~ (key'[held'] < key[nodes[Parent(h)]])
      BY <1>1, <1>5, <2>1 DEF Misplaces
    <3>4. KeyAt(Parent(h)) = key'[nodes[Parent(h)]] /\ KeyAt(Parent(h)) = key[nodes[Parent(h)]]
      BY <1>2, <3>2 DEF KeyAt
    <3> QED BY <1>1, <1>2, <2>3, <3>1, <3>3, <3>4
  <2>5. ASSUME NEW i \in Position' \ {0} PROVE FineAt(i)'
    <3>1. /\ i \in Position \ {0} /\ Parent(i) \in Position' /\ Parent(i) < i
          /\ KeyAt(Parent(i)) <= KeyAt(i)
      BY <1>1, <1>3
    <3>2. CASE i = h
      BY <1>5, <2>1, <2>2, <2>4, <3>1, <3>2 DEF FineAt
    <3>3. CASE i # h /\ Parent(i) = h
      BY <1>2, <1>5, <2>1, <2>2, <2>3, <2>4, <3>1, <3>3 DEF FineAt, Loose
    <3>4. CASE i # h /\ Parent(i) # h
      BY <1>5, <2>1, <2>2, <3>1, <3>4 DEF FineAt
    <3> QED BY <3>2, <3>3, <3>4
  <2> QED BY <2>5, HeapOrderByKeys DEF HeapOrder, FineAt, KeyAt
<1> QED BY <1>1, <1>4, <1>5

-----------------------------------------------------------------------------
(* The order, as long as no deletion has misplaced a node.                 *)
OrderIInv == IInv /\ misplaced \in BOOLEAN /\ OrderKept

LEMMA StepHeapOrder ==
  ASSUME IInv, HeapOrder, Next, ~ (size' > 0 /\ Misplaces)
  PROVE  HeapOrder'
<1>1. CASE Heapify
  BY <1>1, UpStepHeapOrder, DownStepHeapOrder, EndHeapOrder DEF Heapify
<1>2. ASSUME size' = 0 PROVE HeapOrder'
  BY <1>2 DEF HeapOrder
<1>3. CASE pq_clear
  BY <1>2, <1>3 DEF pq_clear
<1>4. ASSUME NEW n, pq_delete(n) PROVE HeapOrder'
  <2>1. size' \in Nat
    BY <1>4, DeleteIInv DEF IInv, TypeOK
  <2> QED BY <1>2, <1>4, <2>1, DeleteHeapOrder
<1> QED BY <1>1, <1>3, <1>4, InsertHeapOrder, DecreaseHeapOrder DEF Next, pq_delete_min

LEMMA HistoryRefines == HistorySpec => Spec
<1>1. HistoryInit => Init
  BY DEF HistoryInit
<1>2. [HistoryNext]_<<vars, history>> => [Next]_vars
  BY DEF HistoryNext
<1> QED BY <1>1, <1>2, PTL DEF HistorySpec, Spec

LEMMA StepOrderIInv == OrderIInv /\ [HistoryNext]_<<vars, history>> => OrderIInv'
<1> SUFFICES ASSUME OrderIInv, [HistoryNext]_<<vars, history>> PROVE OrderIInv'
  OBVIOUS
<1>1. IInv'
  BY StepIInv DEF OrderIInv, HistoryNext
<1>2. CASE UNCHANGED <<vars, history>>
  <2>1. misplaced' = misplaced /\ (HeapOrder <=> HeapOrder')
    BY <1>2 DEF history, vars, queue, sift, HeapOrder, Loose, At
  <2> QED BY <1>1, <2>1 DEF OrderIInv, OrderKept
<1>3. CASE HistoryNext
  <2>1. misplaced' = (size' > 0 /\ (misplaced \/ Misplaces)) /\ Next
    BY <1>3 DEF HistoryNext
  <2>2. misplaced' \in BOOLEAN
    BY <2>1
  <2>3. CASE misplaced'
    BY <1>1, <2>2, <2>3 DEF OrderIInv, OrderKept
  <2>4. CASE ~ misplaced' /\ size' > 0
    <3>1. ~ misplaced /\ ~ (size' > 0 /\ Misplaces)
      BY <2>1, <2>4, Zenon
    <3>2. HeapOrder
      BY <3>1 DEF OrderIInv, OrderKept
    <3>3. HeapOrder'
      BY <2>1, <3>1, <3>2, StepHeapOrder DEF OrderIInv
    <3> QED BY <1>1, <2>2, <3>3 DEF OrderIInv, OrderKept
  <2>5. CASE ~ (size' > 0)
    <3>1. Position' = {} /\ HeapOrder'
      BY <1>1, <2>5 DEF IInv, TypeOK, HeapOrder
    <3> QED BY <1>1, <2>2, <3>1 DEF OrderIInv, OrderKept
  <2> QED BY <2>3, <2>4, <2>5
<1> QED BY <1>2, <1>3

LEMMA OrderInvariant == HistorySpec => []OrderIInv
<1>1. HistoryInit => OrderIInv
  BY InitIInv DEF HistoryInit, OrderIInv, OrderKept, HeapOrder, Init
<1> QED BY <1>1, StepOrderIInv, PTL DEF HistorySpec

(* However the calls of a client are interleaved with deletions of inner   *)
(* nodes, the array is in heap order, in the middle of a sift too, until   *)
(* pq_delete has put a node below a greater one.                           *)
THEOREM OrderIsKept == HistorySpec => []OrderKept
BY OrderInvariant, PTL DEF OrderIInv

(* And until then pq_find_min returns a node of least key.                 *)
THEOREM MinimumIsKept == HistorySpec => []MinimumKept
<1>1. OrderIInv => MinimumKept
  BY RootIsLeast DEF OrderIInv, OrderKept, MinimumKept
<1> QED BY <1>1, OrderInvariant, PTL

-----------------------------------------------------------------------------
(* How far a sift has come: the hole is level with the pushes, counted     *)
(* from the root on the way down, and from where the call began on the way *)
(* up.                                                                     *)
PushIInv ==
  /\ level \in Nat /\ width \in Nat \ {0}
  /\ BRANCHING_FACTOR * level + 1 = level + width
  /\ pc = "idle" => level = 0
  /\ pc = "up" => width * hole + level <= size - 1
  /\ pc = "down" => level <= hole

(* The first position of the next level, and its length.                   *)
LEMMA NextLevel ==
  ASSUME NEW d \in Nat \ {0}, NEW l \in Nat, NEW w \in Nat \ {0}, d * l + 1 = l + w
  PROVE  /\ l + w \in Nat /\ d * w \in Nat \ {0}
         /\ d * (l + w) + 1 = (l + w) + d * w
         /\ \A i \in Nat : l <= i => l + w <= d * i + 1
         /\ \A i \in Nat, c \in Nat : d * i + 1 <= c => d * w * i + (l + w) <= w * c + l
<1>1. d * w \in Nat /\ d * l \in Nat /\ d * (l + w) = d * l + d * w
  BY Z3
<1>2. d * w > 0
  BY Z3
<1>3. ASSUME NEW i \in Nat, l <= i PROVE l + w <= d * i + 1
  <2>1. d * l <= d * i /\ d * i \in Nat
    BY <1>3, Z3
  <2> QED BY <2>1, <1>1
<1>4. ASSUME NEW i \in Nat, NEW c \in Nat, d * i + 1 <= c
      PROVE  d * w * i + (l + w) <= w * c + l
  <2>1. w * (d * i + 1) <= w * c
    <3>1. d * i + 1 \in Nat
      BY Z3
    <3> QED BY <1>4, <3>1, Z3
  <2>2. w * (d * i + 1) = d * w * i + w
    BY Z3
  <2>3. d * w * i \in Nat /\ w * c \in Nat
    BY <1>1, Z3
  <2> QED BY <2>1, <2>2, <2>3
<1> QED BY <1>1, <1>2, <1>3, <1>4

LEMMA StepPushIInv ==
  ASSUME IInv, PushIInv, [HistoryNext]_<<vars, history>>
  PROVE  PushIInv'
<1> DEFINE d == BRANCHING_FACTOR
<1>1. IInv' /\ d \in Nat \ {0} /\ d * 0 + 1 = 0 + 1
  BY StepIInv, BranchingAssumption DEF HistoryNext
<1>2. CASE UNCHANGED <<vars, history>>
  BY <1>2 DEF PushIInv, history, vars, queue, sift
<1>3. CASE Next /\ pc' = "idle" /\ level' = 0 /\ width' = 1
  BY <1>1, <1>3 DEF PushIInv
<1>4. CASE pc = "idle" /\ pc' # "idle" /\ level' = 0 /\ width' = 1
  BY <1>1, <1>4 DEF PushIInv, IInv, TypeOK
<1>5. CASE UpStep /\ level' = level + width /\ width' = d * width
  <2>1. /\ pc = "up" /\ pc' = "up" /\ hole' = Parent(hole) /\ size' = size
        /\ hole \in Nat /\ hole > 0 /\ size \in Nat
    BY <1>5, SiftType DEF UpStep, AboveHole
  <2>2. Parent(hole) \in Nat /\ d * Parent(hole) + 1 <= hole
    BY <2>1, ParentIsBefore
  <2>3. d * width * Parent(hole) + (level + width) <= width * hole + level
    BY <1>1, <2>1, <2>2, NextLevel DEF PushIInv
  <2>4. width' * hole' + level' <= size' - 1
    BY <1>1, <1>5, <2>1, <2>2, <2>3 DEF PushIInv
  <2> QED BY <1>1, <1>5, <2>1, <2>4, NextLevel DEF PushIInv
<1>6. CASE DownStep /\ level' = level + width /\ width' = d * width
  <2>1. /\ pc = "down" /\ pc' = "down" /\ hole \in Nat /\ hole' \in Nat
        /\ hole' > 0 /\ Parent(hole') = hole
    BY <1>6, SiftType, DownStepMoves DEF DownStep
  <2>2. d * hole + 1 <= hole'
    BY <2>1, ParentIsBefore
  <2>3. level + width <= d * hole + 1
    BY <1>1, <2>1, NextLevel DEF PushIInv
  <2>4. level' <= hole'
    BY <1>1, <1>6, <2>1, <2>2, <2>3 DEF PushIInv
  <2> QED BY <1>1, <1>6, <2>1, <2>4, NextLevel DEF PushIInv
<1>7. ASSUME HistoryNext, pc # "idle", pc' # "idle"
      PROVE  (UpStep \/ DownStep) /\ level' = level + width /\ width' = d * width
  BY <1>7 DEF HistoryNext, Next, Heapify, UpEnd, DownEnd, Rest, pq_delete_min, pq_delete,
              pq_clear, pq_insert, pq_decrease_key
<1> QED BY <1>2, <1>3, <1>4, <1>5, <1>6, <1>7 DEF HistoryNext

(* A call that pushes k nodes needs a heap that reaches k levels below its *)
(* root: the loops of heapify_up and heapify_down are logarithmic.         *)
THEOREM PushesAreLogarithmic == HistorySpec => []PushesLogarithmic
<1>1. HistoryInit => IInv /\ PushIInv
  BY InitIInv, BranchingAssumption DEF HistoryInit, PushIInv, Init
<1>2. IInv /\ [HistoryNext]_<<vars, history>> => IInv'
  BY StepIInv DEF HistoryNext
<1>3. IInv /\ PushIInv => PushesLogarithmic
  <2> SUFFICES ASSUME IInv, PushIInv, size > 0 PROVE level < size
    BY DEF PushesLogarithmic
  <2>1. size \in Nat /\ pc \in {"idle", "up", "down"}
    BY DEF IInv, TypeOK
  <2>2. CASE pc = "idle"
    BY <2>1, <2>2 DEF PushIInv
  <2>3. CASE pc = "up"
    <3>1. hole \in Nat
      BY <2>3, SiftType
    <3>2. width * hole \in Nat
      BY <3>1, Z3 DEF PushIInv
    <3> QED BY <2>1, <2>3, <3>2 DEF PushIInv
  <2>4. CASE pc = "down"
    BY <2>1, <2>4, SiftType DEF PushIInv
  <2> QED BY <2>1, <2>2, <2>3, <2>4
<1> QED BY <1>1, <1>2, <1>3, StepPushIInv, PTL DEF HistorySpec

-----------------------------------------------------------------------------
(* What a client sees of the array is the key of every allocated node, in  *)
(* the middle of a sift as well.                                           *)
LEMMA ContentsAreKeys == IInv => Contents = key
<1> SUFFICES ASSUME IInv PROVE Contents = key
  OBVIOUS
<1>1. live = {At(i) : i \in Position}
  BY DEF IInv, HoldsLive
<1>2. key = [n \in live |-> key[n]]
  BY DEF IInv, TypeOK
<1> QED BY <1>1, <1>2 DEF Contents

LEMMA ContentsAreKeysNext == IInv' => Contents' = key'
<1> SUFFICES ASSUME IInv' PROVE Contents' = key'
  OBVIOUS
<1>1. live' = {At(i)' : i \in Position'}
  BY DEF IInv, HoldsLive
<1>2. key' = [n \in live' |-> key'[n]]
  BY DEF IInv, TypeOK
<1> QED BY <1>1, <1>2 DEF Contents

(* A deletion takes the node it is given.                                  *)
LEMMA DeleteRefines ==
  ASSUME IInv, NEW n, pq_delete(n)
  PROVE  n \in Node /\ PQ!Delete(n)
<1>1. n \in live /\ live \subseteq Node /\ key' = Without(key, n)
  BY DEF pq_delete, IInv, TypeOK
<1>2. Contents = key /\ Contents' = key'
  BY DeleteIInv, ContentsAreKeys, ContentsAreKeysNext
<1> QED BY <1>1, <1>2 DEF PQ!Delete, PQ!Without, Without

LEMMA DeleteMinRefines ==
  ASSUME OrderIInv, ~ misplaced, pq_delete_min
  PROVE  PQ!DeleteMin
<1>1. IInv /\ FindMinCorrect /\ pc = "idle" /\ size > 0 /\ size \in Nat /\ pq_delete(nodes[0])
  BY RootIsLeast DEF OrderIInv, OrderKept, pq_delete_min, pq_delete, IInv, TypeOK
<1>2. Contents = key
  BY <1>1, ContentsAreKeys
<1>3. nodes[0] \in PQ!Least(Contents)
  <2>1. \A n \in live : \E i \in Position : nodes[i] = n
    BY <1>1, IdleAt
  <2>2. \A n \in live : key[nodes[0]] <= key[n]
    BY <1>1, <2>1 DEF FindMinCorrect
  <2>3. nodes[0] \in live
    BY <1>1, IdleAt
  <2> QED BY <1>2, <2>2, <2>3 DEF PQ!Least
<1>4. PQ!Delete(nodes[0])
  BY <1>1, DeleteRefines
<1> QED BY <1>3, <1>4 DEF PQ!DeleteMin

Promised ==
  \/ PQ!Next
  \/ (\E n \in Node : PQ!Delete(n)) /\ (pq_delete_min => misplaced)

LEMMA StepRefines ==
  ASSUME OrderIInv, Next
  PROVE  [Promised]_Contents
<1>1. IInv /\ Contents = key
  BY ContentsAreKeys DEF OrderIInv
<1>2. Contents' = key'
  BY <1>1, StepIInv, ContentsAreKeysNext
<1>3. CASE Heapify
  BY <1>1, <1>2, <1>3 DEF Heapify, UpStep, UpEnd, DownStep, DownEnd
<1>4. CASE pq_clear
  BY <1>2, <1>4 DEF pq_clear, PQ!Clear, PQ!Next, Promised
<1>5. ASSUME NEW n, pq_delete(n) PROVE Promised
  <2>1. CASE pq_delete_min /\ ~ misplaced
    BY <2>1, DeleteMinRefines DEF PQ!Next, Promised
  <2>2. CASE pq_delete_min => misplaced
    BY <1>1, <1>5, <2>2, DeleteRefines DEF Promised
  <2> QED BY <2>1, <2>2
<1>6. ASSUME NEW n \in Node, NEW k \in Key, pq_insert(n, k) PROVE PQ!Insert(k)
  BY <1>1, <1>2, <1>6 DEF pq_insert, With, PQ!Insert, PQ!With
<1>7. ASSUME NEW n \in Node, NEW k \in Key, pq_decrease_key(n, k)
      PROVE  PQ!DecreaseKey(n, k)
  <2>1. n \in live /\ k <= key[n] /\ key' = [key EXCEPT ![n] = k]
    BY <1>7 DEF pq_decrease_key
  <2>2. key' = PQ!With(key, n, k)
    <3>1. key = [m \in live |-> key[m]]
      BY <1>1 DEF IInv, TypeOK
    <3> QED BY <2>1, <3>1 DEF PQ!With
  <2> QED BY <1>1, <1>2, <2>1, <2>2 DEF PQ!DecreaseKey
<1>8. CASE \E n \in Node, k \in Key : pq_insert(n, k) \/ pq_decrease_key(n, k)
  <2>1. PQ!Next
    BY <1>6, <1>7, <1>8 DEF PQ!Next
  <2> QED BY <2>1 DEF Promised
<1> QED BY <1>3, <1>4, <1>5, <1>8 DEF Next, pq_delete_min

(* Nothing but what the operations of a priority queue do ever happens to  *)
(* the nodes and keys a client sees, and pq_delete_min takes a least node  *)
(* as long as pq_delete has misplaced none.                                *)
THEOREM HeapImplementsPQ == HistorySpec => ImplementsPQ
<1>1. HistoryInit => PQ!Init
  <2> SUFFICES ASSUME HistoryInit PROVE PQ!Init
    OBVIOUS
  <2>1. Contents = key
    BY InitIInv, ContentsAreKeys DEF HistoryInit
  <2> QED BY <2>1 DEF HistoryInit, Init, PQ!Init
<1>2. OrderIInv /\ [HistoryNext]_<<vars, history>> => [Promised]_Contents
  <2>1. UNCHANGED <<vars, history>> => UNCHANGED Contents
    BY DEF vars, queue, sift, Contents, At
  <2> QED BY <2>1, StepRefines DEF HistoryNext
<1>3. HistorySpec => [][Promised]_Contents
  BY <1>2, OrderInvariant, PTL DEF HistorySpec
<1>4. [][Promised]_Contents
      <=> [][\/ PQ!Next
             \/ (\E n \in Node : PQ!Delete(n)) /\ (pq_delete_min => misplaced)]_Contents
  BY DEF Promised
<1> QED BY <1>1, <1>3, <1>4, PTL DEF HistorySpec, ImplementsPQ

(* pq_delete takes away the node it is given and no other.                 *)
THEOREM DeletionIsExact == Spec => DeletesThatNode
<1>1. IInv => [\A n \in Node : pq_delete(n) => PQ!Delete(n)]_vars
  BY DeleteRefines
<1> QED BY <1>1, Invariant, PTL DEF DeletesThatNode
=============================================================================
