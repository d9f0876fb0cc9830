---------------------- MODULE ImplicitSimpleHeap_proofs ----------------------
(***************************************************************************)
(* Of the implicit simple heap, for every branching factor: what insertion *)
(* and deletion do to the array.                                           *)
(***************************************************************************)
EXTENDS ImplicitSimpleHeap, SequenceLemmas

ParentOf == [c \in Nat |-> Parent(c)]

\* The array is a heap.
IsHeap(d) == d \in Seq(Nat) /\ Ordered(d, Len(d), ParentOf)

LEMMA ParentBounds ==
  ASSUME NEW c \in Nat, c > 1
  PROVE  /\ Parent(c) \in Nat \ {0} /\ Parent(c) < c
         /\ BRANCHING_FACTOR * (Parent(c) - 1) + 2 <= c
         /\ c <= BRANCHING_FACTOR * (Parent(c) - 1) + BRANCHING_FACTOR + 1
<1> DEFINE b == BRANCHING_FACTOR
           q == (c - 2) \div b
<1>1. b \in Nat /\ b > 0
  BY BranchingAssumption
<1>2. q \in Int /\ b * q <= c - 2 /\ c - 2 < b * q + b
  BY <1>1, Z3
<1>3. Parent(c) = q + 1
  BY DEF Parent
<1> HIDE DEF q, b
<1>4. q >= 0
  BY <1>1, <1>2, Z3
<1>5. q <= b * q /\ b * q \in Int
  BY <1>1, <1>2, <1>4, Z3
<1>6. q + 1 - 1 = q
  BY <1>2
<1>7. Parent(c) \in Nat \ {0} /\ Parent(c) < c
  BY <1>2, <1>3, <1>4, <1>5
<1>8. b * q + 2 <= c /\ c <= b * q + b + 1
  BY <1>1, <1>2, <1>5
<1>9. Parent(c) - 1 = q
  BY <1>2, <1>3, <1>6
<1> HIDE DEF b
<1>10. b * (Parent(c) - 1) + 2 <= c /\ c <= b * (Parent(c) - 1) + b + 1
  BY ONLY <1>8, <1>9, Zenon
<1> QED BY <1>7, <1>10 DEF b

\* The first of the cells below j.
LEMMA FirstChild ==
  ASSUME NEW j \in Nat \ {0}, NEW c, c = BRANCHING_FACTOR * (j - 1) + 2
  PROVE  c \in Nat /\ c > j /\ Parent(c) = j
<1> DEFINE b == BRANCHING_FACTOR
<1>1. b \in Nat /\ b > 0 /\ j - 1 \in Nat
  BY BranchingAssumption
<1>2. PICK i \in Nat : i = j - 1
  BY <1>1
<1> HIDE DEF b
<1>3. b * i \in Nat /\ i <= b * i
  BY <1>1, Z3
<1>4. c = b * i + 2
  BY <1>2 DEF b
<1>5. c \in Nat /\ c > j
  BY <1>2, <1>3, <1>4
<1>6. (b * i) \div b = i
  BY <1>1, Z3
<1>7. c - 2 = b * i
  BY <1>3, <1>4
<1> QED BY <1>2, <1>5, <1>6, <1>7 DEF Parent, b

LEMMA ParentTree ==
  ASSUME NEW n \in Nat
  PROVE  Tree(ParentOf, n)
BY ParentBounds DEF Tree, ParentOf

(* heapify_up, from any cell, is the recursion that ends above what is not *)
(* greater than the key.                                                   *)
LEMMA UpSifts ==
  ASSUME NEW d \in Seq(Nat), NEW key \in Nat, NEW n, n = Len(d)
  PROVE  \E f : /\ Sifts(f, n, d, key, ParentOf, Above(d, ParentOf, key, n))
                /\ \A i \in 1 .. n : heapify_up(d, i, key) = f[i]
<1> DEFINE Stop == Above(d, ParentOf, key, n)
           F(f) == f = [j \in DOMAIN d |->
                          IF j > 1 /\ key < d[Parent(j)]
                          THEN [f[Parent(j)] EXCEPT ![j] = d[Parent(j)]]
                          ELSE [d EXCEPT ![j] = key]]
           up == CHOOSE f : F(f)
<1>1. n \in Nat /\ DOMAIN d = 1 .. n /\ d \in [1 .. n -> Nat]
  OBVIOUS
<1>2. \A j \in 1 .. n : j > 1 => Parent(j) \in 1 .. n /\ Parent(j) < j /\ ParentOf[j] = Parent(j)
  BY <1>1, ParentBounds DEF ParentOf
<1>3. \A j \in 1 .. n : j \notin Stop <=> (j > 1 /\ key < d[Parent(j)])
  BY <1>1, <1>2 DEF Above
<1>4. PICK rank \in [1 .. n -> Nat] : rank = [j \in 1 .. n |-> j]
  <2>1. [j \in 1 .. n |-> j] \in [1 .. n -> Nat]
    OBVIOUS
  <2> QED BY <2>1
<1> HIDE DEF Stop
<1>5. \A j \in (1 .. n) \ Stop :
        ParentOf[j] \in 1 .. n /\ rank[ParentOf[j]] < rank[j] /\ rank[j] <= n
  BY <1>1, <1>2, <1>3, <1>4
<1>6. PICK g \in [1 .. n -> [1 .. n -> Nat]] : Sifts(g, n, d, key, ParentOf, Stop)
  BY <1>1, <1>5, SiftsExists
<1>7. F(g)
  <2>1. \A j \in 1 .. n : g[j] = IF j > 1 /\ key < d[Parent(j)]
                                 THEN [g[Parent(j)] EXCEPT ![j] = d[Parent(j)]]
                                 ELSE [d EXCEPT ![j] = key]
    BY <1>2, <1>3, <1>6 DEF Sifts
  <2> QED BY <1>1, <1>6, <2>1
<1>8. \A f : F(f) => Sifts(f, n, d, key, ParentOf, Stop)
  BY <1>1, <1>2, <1>3 DEF Sifts
<1> HIDE DEF F
<1>9. F(up)
  BY <1>7
<1> HIDE DEF up
<1>10. \A i : heapify_up(d, i, key) = up[i]
  BY DEF heapify_up, up, F
<1> QED BY <1>8, <1>9, <1>10 DEF Stop

LEMMA LeastChildFound ==
  ASSUME NEW d \in Seq(Nat), NEW j \in 1 .. Len(d), BRANCHING_FACTOR * (j - 1) + 2 <= Len(d)
  PROVE  /\ LeastChild(d, j) \in 2 .. Len(d) /\ Parent(LeastChild(d, j)) = j
         /\ \A c \in 2 .. Len(d) : Parent(c) = j => d[LeastChild(d, j)] <= d[c]
<1> DEFINE children == {c \in 2 .. Len(d) : Parent(c) = j}
           keys == {d[c] : c \in children}
<1>1. PICK c : c = BRANCHING_FACTOR * (j - 1) + 2
  OBVIOUS
<1>2. c \in Nat /\ c > j /\ Parent(c) = j /\ c <= Len(d)
  <2>1. j \in Nat \ {0}
    OBVIOUS
  <2>2. c \in Nat /\ c > j /\ Parent(c) = j
    BY <1>1, <2>1, FirstChild, Zenon
  <2> QED BY <1>1, <2>2
<1>3. c \in children
  BY <1>2
<1>4. keys # {} /\ keys \in SUBSET Nat
  BY <1>3
<1>5. PICK m \in keys : \A k \in keys : m <= k
  <2> HIDE DEF keys
  <2> QED BY <1>4, SmallestElement
<1>6. PICK e \in children : m = d[e]
  OBVIOUS
<1>7. \A x \in children : d[e] <= d[x]
  BY <1>5, <1>6
<1>8. LeastChild(d, j) = CHOOSE x \in children : \A y \in children : d[x] <= d[y]
  BY DEF LeastChild
<1> HIDE DEF children, keys
<1>9. LeastChild(d, j) \in children /\ \A y \in children : d[LeastChild(d, j)] <= d[y]
  BY <1>6, <1>7, <1>8
<1> QED BY <1>9 DEF children

\* The cells at which a key that comes down stays.
Rest(d, key) ==
  {j \in 1 .. Len(d) : ~ (BRANCHING_FACTOR * (j - 1) + 2 <= Len(d) /\ d[LeastChild(d, j)] < key)}

LeastOf(d) == [j \in 1 .. Len(d) |-> LeastChild(d, j)]

LEMMA DownSifts ==
  ASSUME NEW d \in Seq(Nat), NEW key \in Nat
  PROVE  /\ \A j \in (1 .. Len(d)) \ Rest(d, key) :
              LeastOf(d)[j] \in 2 .. Len(d) /\ ParentOf[LeastOf(d)[j]] = j /\ d[LeastOf(d)[j]] < key
         /\ \E f : /\ Sifts(f, Len(d), d, key, LeastOf(d), Rest(d, key))
                   /\ \A i \in 1 .. Len(d) : heapify_down(d, i, key) = f[i]
<1>0. PICK n, next : n = Len(d) /\ next = LeastOf(d)
  OBVIOUS
<1> DEFINE Stop == Rest(d, key)
           F(f) == f = [j \in DOMAIN d |->
                          IF BRANCHING_FACTOR * (j - 1) + 2 <= Len(d) /\ d[LeastChild(d, j)] < key
                          THEN [f[LeastChild(d, j)] EXCEPT ![j] = d[LeastChild(d, j)]]
                          ELSE [d EXCEPT ![j] = key]]
           down == CHOOSE f : F(f)
<1>1. n \in Nat /\ n = Len(d) /\ DOMAIN d = 1 .. n /\ d \in [1 .. n -> Nat]
  BY <1>0
<1>2. \A j \in 1 .. n : /\ next[j] = LeastChild(d, j)
                        /\ j \notin Stop <=> /\ BRANCHING_FACTOR * (j - 1) + 2 <= Len(d)
                                             /\ d[LeastChild(d, j)] < key
  BY <1>0 DEF Rest, LeastOf
<1> HIDE DEF Stop
<1>3. \A j \in (1 .. n) \ Stop :
        /\ next[j] \in 2 .. n /\ Parent(next[j]) = j /\ next[j] > j
        /\ ParentOf[next[j]] = j /\ d[next[j]] < key
  <2> SUFFICES ASSUME NEW j \in (1 .. n) \ Stop
               PROVE  /\ next[j] \in 2 .. n /\ Parent(next[j]) = j /\ next[j] > j
                      /\ ParentOf[next[j]] = j /\ d[next[j]] < key
    OBVIOUS
  <2>1. BRANCHING_FACTOR * (j - 1) + 2 <= Len(d) /\ d[next[j]] < key /\ next[j] = LeastChild(d, j)
    BY <1>2
  <2>2. next[j] \in 2 .. n /\ Parent(next[j]) = j
    BY <1>1, <2>1, LeastChildFound
  <2>3. next[j] > j
    BY <1>1, <2>2, ParentBounds
  <2> QED BY <1>1, <2>1, <2>2, <2>3 DEF ParentOf
<1>4. PICK rank \in [1 .. n -> Nat] : rank = [j \in 1 .. n |-> n - j]
  <2>1. [j \in 1 .. n |-> n - j] \in [1 .. n -> Nat]
    BY <1>1
  <2> QED BY <2>1
<1>5. \A j \in (1 .. n) \ Stop :
        next[j] \in 1 .. n /\ rank[next[j]] < rank[j] /\ rank[j] <= n
  <2> SUFFICES ASSUME NEW j \in (1 .. n) \ Stop
               PROVE  next[j] \in 1 .. n /\ rank[next[j]] < rank[j] /\ rank[j] <= n
    OBVIOUS
  <2>1. PICK c \in 1 .. n : c = next[j] /\ c > j
    BY <1>3
  <2>2. rank[c] = n - c /\ rank[j] = n - j
    BY <1>4
  <2> QED BY <1>1, <2>1, <2>2
<1>6. PICK g \in [1 .. n -> [1 .. n -> Nat]] : Sifts(g, n, d, key, next, Stop)
  <2> HIDE DEF Sifts
  <2> QED BY <1>1, <1>5, SiftsExists
<1>7. F(g)
  <2> DEFINE E(j) == IF BRANCHING_FACTOR * (j - 1) + 2 <= Len(d) /\ d[LeastChild(d, j)] < key
                     THEN [g[LeastChild(d, j)] EXCEPT ![j] = d[LeastChild(d, j)]]
                     ELSE [d EXCEPT ![j] = key]
  <2>1. \A j \in 1 .. n : g[j] = E(j)
    BY <1>2, <1>6 DEF Sifts
  <2>2. g = [j \in 1 .. n |-> g[j]]
    BY <1>6
  <2> HIDE DEF E
  <2>3. g = [j \in 1 .. n |-> E(j)]
    BY <2>1, <2>2
  <2> QED BY <1>1, <2>3 DEF E
<1>8. ASSUME NEW f, F(f) PROVE Sifts(f, n, d, key, next, Stop)
  <2> SUFFICES ASSUME NEW j \in 1 .. n
               PROVE  f[j] = IF j \in Stop THEN [d EXCEPT ![j] = key]
                             ELSE [f[next[j]] EXCEPT ![j] = d[next[j]]]
    BY DEF Sifts
  <2> DEFINE E(k) == IF BRANCHING_FACTOR * (k - 1) + 2 <= Len(d) /\ d[LeastChild(d, k)] < key
                     THEN [f[LeastChild(d, k)] EXCEPT ![k] = d[LeastChild(d, k)]]
                     ELSE [d EXCEPT ![k] = key]
  <2>1. f = [k \in 1 .. n |-> E(k)]
    BY <1>1, <1>8
  <2> HIDE DEF E
  <2>2. f[j] = E(j)
    BY <2>1
  <2> QED BY <1>2, <2>2 DEF E
<1> HIDE DEF F
<1>9. F(down)
  BY <1>7
<1> HIDE DEF down
<1>10. \A i : heapify_down(d, i, key) = down[i]
  BY DEF heapify_down, down, F
<1>11. Sifts(down, n, d, key, next, Stop)
  BY <1>8, <1>9
<1> QED BY <1>0, <1>3, <1>10, <1>11 DEF Stop

(* What is inserted is added to the keys of the heap.                      *)
THEOREM InsertAddsKey ==
  ASSUME NEW d, IsHeap(d), NEW key \in Nat
  PROVE  /\ IsHeap(pq_insert(d, key)) /\ Len(pq_insert(d, key)) = Len(d) + 1
         /\ Values(pq_insert(d, key)) = Values(d) \cup {key}
         /\ Distinct(d) /\ key \notin Values(d) => Distinct(pq_insert(d, key))
<1>1. d \in Seq(Nat) /\ Len(d) \in Nat /\ Ordered(d, Len(d), ParentOf)
  BY DEF IsHeap
<1>2. PICK n \in Nat : n = Len(d) + 1 /\ n - 1 = Len(d) /\ n \in 1 .. n
  BY <1>1
<1>3. PICK e \in Seq(Nat) : e = Append(d, key) /\ Len(e) = n
  BY <1>1, <1>2, AppendProperties
<1>4. PICK f : /\ Sifts(f, n, e, key, ParentOf, Above(e, ParentOf, key, n))
               /\ \A i \in 1 .. n : heapify_up(e, i, key) = f[i]
  <2>1. e \in Seq(Nat) /\ key \in Nat /\ n = Len(e)
    BY <1>3
  <2> QED BY ONLY <2>1, UpSifts
<1>5. Tree(ParentOf, n) /\ Ordered(d, n - 1, ParentOf)
  BY <1>1, <1>2, ParentTree
<1>6. /\ f[n] \in Seq(Nat) /\ Len(f[n]) = n /\ Ordered(f[n], n, ParentOf)
      /\ Values(f[n]) = Values(d) \cup {key}
      /\ Distinct(d) /\ key \notin Values(d) => Distinct(f[n])
  <2> HIDE DEF Sifts, Above, Tree, Ordered, Values, Distinct
  <2>1. Pushes(f, d, key, ParentOf, n, e)
    BY <1>1, <1>2, <1>3, <1>4, <1>5 DEF Pushes
  <2> QED BY ONLY <2>1, PushedHeap
<1>7. pq_insert(d, key) = f[n]
  BY <1>2, <1>3, <1>4 DEF pq_insert
<1> QED BY <1>2, <1>6, <1>7 DEF IsHeap

(* The first entry, which is the least, is taken away and nothing else.    *)
THEOREM DeleteMinRemovesLeast ==
  ASSUME NEW d, IsHeap(d), d # <<>>
  PROVE  /\ IsHeap(pq_delete_min(d)) /\ Len(pq_delete_min(d)) = Len(d) - 1
         /\ \A v \in Values(d) : d[1] <= v
         /\ Distinct(d) =>
              Values(pq_delete_min(d)) = Values(d) \ {d[1]} /\ Distinct(pq_delete_min(d))
<1>1. d \in Seq(Nat) /\ Len(d) \in Nat \ {0} /\ Ordered(d, Len(d), ParentOf)
  BY DEF IsHeap
<1>2. PICK n \in Nat : n = Len(d) - 1 /\ n + 1 = Len(d) /\ 1 \in 1 .. n + 1
  BY <1>1
<1>3. PICK rest : rest = Front([d EXCEPT ![1] = Last(d)])
  OBVIOUS
<1>4. /\ rest \in Seq(Nat) /\ Len(rest) = n
      /\ \A k \in 1 .. n : rest[k] = IF k = 1 THEN d[n + 1] ELSE d[k]
  <2>1. PICK last \in Nat : last = Last(d) /\ last = d[n + 1]
    BY <1>1, <1>2, ElementOfSeq DEF Last
  <2>2. PICK e \in Seq(Nat) : /\ e = [d EXCEPT ![1] = last] /\ Len(e) = n + 1
                              /\ \A k \in 1 .. n + 1 : e[k] = IF k = 1 THEN last ELSE d[k]
    <3>1. [d EXCEPT ![1] = last] \in Seq(Nat) /\ Len([d EXCEPT ![1] = last]) = Len(d)
      BY <1>1, <1>2, ExceptSeq
    <3>2. \A k \in 1 .. n + 1 : [d EXCEPT ![1] = last][k] = IF k = 1 THEN last ELSE d[k]
      BY <1>1, <1>2
    <3> QED BY <1>2, <3>1, <3>2
  <2>3. rest = SubSeq(e, 1, n)
    <3>1. Len(e) - 1 = n
      BY <1>2, <2>2
    <3> QED BY <1>3, <2>1, <2>2, <3>1 DEF Front
  <2>4. /\ SubSeq(e, 1, n) \in Seq(Nat) /\ Len(SubSeq(e, 1, n)) = n
        /\ \A k \in 1 .. n : SubSeq(e, 1, n)[k] = e[k]
    BY <2>2
  <2> QED BY <2>1, <2>2, <2>3, <2>4
<1>5. pq_delete_min(d) = IF n > 1 THEN heapify_down(rest, 1, rest[1]) ELSE rest
  BY <1>3, <1>4 DEF pq_delete_min
<1>6. \A v \in Values(d) : d[1] <= v
  <2>1. d \in [1 .. Len(d) -> Nat] /\ Len(d) \in Nat /\ Tree(ParentOf, Len(d))
    BY <1>1, ParentTree
  <2>2. \A c \in 1 .. Len(d) : d[1] <= d[c]
    BY <1>1, <2>1, RootLeast
  <2> QED BY <2>2 DEF Values
<1>7. CASE n <= 1
  <2>1. pq_delete_min(d) = rest
    BY <1>5, <1>7
  <2>2. IsHeap(rest)
    BY <1>4, <1>7 DEF IsHeap, Ordered
  <2>3. ASSUME Distinct(d) PROVE Values(rest) = Values(d) \ {d[1]} /\ Distinct(rest)
    <3>1. Distinct(rest)
      BY <1>4, <1>7 DEF Distinct
    <3>2. CASE n = 0
      <4>1. Values(rest) = {} /\ Values(d) = {d[1]}
        BY <1>2, <1>4, <3>2 DEF Values
      <4> QED BY <3>1, <4>1
    <3>3. CASE n = 1
      <4>1. Values(rest) = {d[2]} /\ Values(d) = {d[1], d[2]}
        BY <1>2, <1>4, <3>3 DEF Values
      <4>2. d[1] # d[2]
        BY <1>2, <2>3, <3>3 DEF Distinct
      <4> QED BY <3>1, <4>1, <4>2
    <3> QED BY <1>7, <3>2, <3>3
  <2> QED BY <1>2, <1>4, <1>6, <2>1, <2>2, <2>3
<1>8. CASE n > 1
  <2>1. PICK e \in [1 .. n -> Nat] : e = rest /\ e \in Seq(Nat) /\ Len(e) = n
    BY <1>4
  <2>2. PICK key \in Nat : key = e[1]
    BY <1>8
  <2>3. PICK next : next = LeastOf(e)
    OBVIOUS
  <2>4. /\ \A j \in (1 .. n) \ Rest(e, key) :
             next[j] \in 2 .. n /\ ParentOf[next[j]] = j /\ e[next[j]] < key
        /\ \E f : /\ Sifts(f, n, e, key, next, Rest(e, key))
                  /\ \A i \in 1 .. n : heapify_down(e, i, key) = f[i]
    <3>1. e \in Seq(Nat) /\ key \in Nat /\ n = Len(e)
      BY <2>1
    <3>2. /\ \A j \in (1 .. Len(e)) \ Rest(e, key) :
                 LeastOf(e)[j] \in 2 .. Len(e) /\ ParentOf[LeastOf(e)[j]] = j /\ e[LeastOf(e)[j]] < key
          /\ \E f : /\ Sifts(f, Len(e), e, key, LeastOf(e), Rest(e, key))
                    /\ \A i \in 1 .. Len(e) : heapify_down(e, i, key) = f[i]
      BY <3>1, DownSifts, Zenon
    <3>3. Len(e) = n /\ LeastOf(e) = next
      BY <2>3, <3>1
    <3> QED BY ONLY <3>2, <3>3
  <2>5. PICK f : /\ Sifts(f, n, e, key, next, Rest(e, key))
                 /\ \A i \in 1 .. n : heapify_down(e, i, key) = f[i]
    BY <2>4
  <2>6. \A j \in (1 .. n) \ Rest(e, key) :
          next[j] \in 2 .. n /\ ParentOf[next[j]] = j /\ e[next[j]] <= key
    <3> SUFFICES ASSUME NEW j \in (1 .. n) \ Rest(e, key)
                 PROVE  next[j] \in 2 .. n /\ ParentOf[next[j]] = j /\ e[next[j]] <= key
      OBVIOUS
    <3>1. next[j] \in 2 .. n /\ ParentOf[next[j]] = j /\ e[next[j]] < key
      BY <2>4
    <3>2. e[next[j]] \in Nat
      BY <3>1
    <3> QED BY <3>1, <3>2
  <2>7. \A c \in 2 .. n : IF ParentOf[c] \in Rest(e, key) THEN key <= e[c]
                          ELSE e[next[ParentOf[c]]] <= e[c]
    <3> SUFFICES ASSUME NEW c \in 2 .. n
                 PROVE  IF ParentOf[c] \in Rest(e, key) THEN key <= e[c]
                        ELSE e[next[ParentOf[c]]] <= e[c]
      OBVIOUS
    <3>1. PICK j \in 1 .. n : /\ j = Parent(c) /\ j = ParentOf[c] /\ j < c
                              /\ BRANCHING_FACTOR * (j - 1) + 2 <= c
      <4>1. c \in Nat /\ c > 1 /\ ParentOf[c] = Parent(c)
        BY DEF ParentOf
      <4>2. /\ Parent(c) \in Nat \ {0} /\ Parent(c) < c
            /\ BRANCHING_FACTOR * (Parent(c) - 1) + 2 <= c
        BY <4>1, ParentBounds, Zenon
      <4>3. Parent(c) \in 1 .. n
        BY <4>2
      <4> QED BY <4>1, <4>2, <4>3
    <3>2. BRANCHING_FACTOR * (j - 1) + 2 <= n
      <4>1. BRANCHING_FACTOR * (j - 1) \in Int
        BY BranchingAssumption
      <4> QED BY <3>1, <4>1
    <3>3. LeastChild(e, j) \in 2 .. n /\ e[LeastChild(e, j)] <= e[c]
      <4>1. j \in 1 .. Len(e) /\ BRANCHING_FACTOR * (j - 1) + 2 <= Len(e) /\ c \in 2 .. Len(e)
        BY <2>1, <3>2
      <4> QED BY <2>1, <3>1, <4>1, LeastChildFound
    <3>4. next[j] = LeastChild(e, j)
      BY <2>1, <2>3 DEF LeastOf
    <3>5. CASE j \in Rest(e, key)
      <4>1. ~ (e[LeastChild(e, j)] < key)
        BY <2>1, <3>2, <3>5 DEF Rest
      <4>2. e[LeastChild(e, j)] \in Nat /\ e[c] \in Nat
        BY <3>3
      <4>3. key <= e[c]
        BY <3>3, <4>1, <4>2
      <4> QED BY <3>1, <3>5, <4>3
    <3>6. CASE j \notin Rest(e, key)
      BY <3>1, <3>3, <3>4, <3>6
    <3> QED BY <3>5, <3>6
  <2>8. /\ e[1] = d[n + 1] /\ \A k \in 2 .. n : e[k] = d[k]
    BY <1>4, <1>8, <2>1
  <2>9. /\ f[1] \in Seq(Nat) /\ Len(f[1]) = n /\ Ordered(f[1], n, ParentOf)
        /\ Distinct(d) => Values(f[1]) = Values(d) \ {d[1]} /\ Distinct(f[1])
    <3> HIDE DEF Sifts, Tree, Ordered, Values, Distinct
    <3>1. n \in Nat \ {0} /\ Len(d) = n + 1 /\ d \in Seq(Nat)
      BY <1>1, <1>2, <1>8
    <3>2. Tree(ParentOf, n + 1) /\ Ordered(d, n + 1, ParentOf)
      BY <1>1, <1>2, ParentTree
    <3> DEFINE Stop == Rest(e, key)
    <3>3. /\ Sifts(f, n, e, e[1], next, Stop)
          /\ \A j \in (1 .. n) \ Stop : next[j] \in 2 .. n /\ ParentOf[next[j]] = j /\ e[next[j]] <= e[1]
          /\ \A c \in 2 .. n : IF ParentOf[c] \in Stop THEN e[1] <= e[c]
                               ELSE e[next[ParentOf[c]]] <= e[c]
      BY <2>2, <2>5, <2>6, <2>7, Zenon
    <3> HIDE DEF Stop
    <3>4. Pops(f, d, ParentOf, n, e, next, Stop)
      BY <2>8, <3>1, <3>2, <3>3 DEF Pops
    <3> QED BY ONLY <3>4, PoppedHeap
  <2>10. pq_delete_min(d) = f[1]
    BY <1>5, <1>8, <2>1, <2>2, <2>5
  <2> QED BY <1>2, <1>6, <2>9, <2>10 DEF IsHeap
<1> QED BY <1>7, <1>8

\* Of an empty heap nothing is taken.
LEMMA DeleteMinOfEmpty == pq_delete_min(<<>>) = <<>>
<1>1. [<<>> EXCEPT ![1] = Last(<<>>)] = <<>> /\ Len(<<>>) = 0
  OBVIOUS
<1>2. Front(<<>>) = <<>>
  BY DEF Front
<1>3. Front([<<>> EXCEPT ![1] = Last(<<>>)]) = <<>>
  BY <1>1, <1>2
<1>4. ~ (Len(<<>>) > 1)
  OBVIOUS
<1> QED BY <1>3, <1>4 DEF pq_delete_min

LEMMA EmptyHeap ==
  ASSUME NEW d, d \in [{} -> Nat]
  PROVE  IsHeap(d) /\ Len(d) = 0
<1>1. 1 .. 0 = {} /\ 0 \in Nat
  OBVIOUS
<1>2. d \in Seq(Nat) /\ Len(d) = 0
  BY <1>1, SeqOfFunction
<1> QED BY <1>2 DEF IsHeap, Ordered
=============================================================================
