--------------------------- MODULE SequenceLemmas ---------------------------
(***************************************************************************)
(* What the proofs need to know of natural numbers, recursive functions on *)
(* them, FlattenSeq, heaps kept in a sequence, and stacks.                 *)
(***************************************************************************)
EXTENDS Integers, SequencesExt, SequenceTheorems, WellFoundedInduction, TLAPS

(* A set of numbers has a smallest one, from which a proof can go on to    *)
(* one that is smaller.                                                    *)
LEMMA SmallestElement ==
  ASSUME NEW N \in SUBSET Nat, N # {}
  PROVE  \E m \in N : \A n \in N : m <= n
<1>1. PICK m \in N : \A n \in N : <<n, m>> \notin OpToRel(<, Nat)
  BY NatLessThanWellFounded, WFMin
<1>2. \A n \in N : ~ (n < m)
  BY <1>1 DEF OpToRel
<1> QED BY <1>2

(* Induction on a rank.                                                    *)
LEMMA RankInduction ==
  ASSUME NEW D, NEW P, NEW rank \in [D -> Nat],
         \A j \in D : (\A i \in D : rank[i] < rank[j] => i \in P) => j \in P
  PROVE  D \subseteq P
<1> DEFINE Ranks == {rank[j] : j \in D \ P}
<1> SUFFICES ASSUME D \ P # {} PROVE FALSE
  OBVIOUS
<1>1. Ranks # {} /\ Ranks \in SUBSET Nat
  OBVIOUS
<1>2. PICK r \in Ranks : \A q \in Ranks : r <= q
  <2> HIDE DEF Ranks
  <2> QED BY <1>1, SmallestElement
<1>3. PICK j \in D \ P : r = rank[j]
  BY <1>2
<1>4. PICK i \in D \ P : rank[i] < rank[j]
  BY <1>3
<1>5. rank[i] \in Ranks /\ rank[i] \in Nat /\ rank[j] \in Nat
  OBVIOUS
<1> HIDE DEF Ranks
<1>6. r <= rank[i]
  BY <1>2, <1>5
<1> QED BY <1>3, <1>4, <1>5, <1>6

(* A recursive definition over 1 .. n: f[j] is base[j], or depends on      *)
(* f[next[j]].  There is such a function if the rank falls all the way.    *)
Recurs(f, n, base, step, next, Stop) ==
  \A j \in 1 .. n : f[j] = IF j \in Stop THEN base[j] ELSE step[j][f[next[j]]]

LEMMA RecursionExists ==
  ASSUME NEW n \in Nat, NEW V, NEW base \in [1 .. n -> V], NEW step,
         NEW next, NEW Stop, NEW rank \in [1 .. n -> Nat],
         \A j \in (1 .. n) \ Stop : step[j] \in [V -> V],
         \A j \in (1 .. n) \ Stop : next[j] \in 1 .. n /\ rank[next[j]] < rank[j] /\ rank[j] <= n
  PROVE  \E f \in [1 .. n -> V] : Recurs(f, n, base, step, next, Stop)
<1> DEFINE Value(f, j) == IF j \in Stop THEN base[j] ELSE step[j][f[next[j]]]
           Upto(f, k) == \A j \in 1 .. n : (rank[j] < k \/ j \in Stop) => f[j] = Value(f, j)
           Has(k) == \E f \in [1 .. n -> V] : Upto(f, k)
           Bad == {k \in 0 .. n + 1 : ~ Has(k)}
<1>1. ASSUME NEW f \in [1 .. n -> V], NEW j \in 1 .. n PROVE Value(f, j) \in V
  OBVIOUS
<1>2. Has(0)
  BY DEF Upto
<1>3. ASSUME NEW k \in 0 .. n, Has(k) PROVE Has(k + 1)
  <2>1. PICK f \in [1 .. n -> V] : Upto(f, k)
    BY <1>3
  <2> DEFINE g == [j \in 1 .. n |-> Value(f, j)]
  <2>2. g \in [1 .. n -> V]
    BY <1>1
  <2>3. ASSUME NEW j \in 1 .. n, rank[j] < k + 1 \/ j \in Stop PROVE g[j] = Value(g, j)
    <3>1. CASE j \in Stop
      BY <3>1
    <3>2. CASE j \notin Stop
      <4>1. next[j] \in 1 .. n /\ rank[next[j]] < k
        BY <2>3, <3>2
      <4>2. f[next[j]] = Value(f, next[j])
        BY <2>1, <4>1
      <4>3. g[next[j]] = f[next[j]]
        BY <4>1, <4>2
      <4> QED BY <3>2, <4>3
    <3> QED BY <3>1, <3>2
  <2> QED BY <2>2, <2>3
<1> HIDE DEF Has
<1>4. Bad = {}
  <2> SUFFICES ASSUME Bad # {} PROVE FALSE
    OBVIOUS
  <2>1. PICK k \in Bad : \A j \in Bad : k <= j
    <3>1. Bad \in SUBSET Nat
      OBVIOUS
    <3> HIDE DEF Bad
    <3> QED BY <3>1, SmallestElement
  <2>2. k # 0 /\ k - 1 \in 0 .. n /\ k - 1 \notin Bad /\ (k - 1) + 1 = k
    BY <1>2, <2>1
  <2>3. Has(k - 1)
    BY <2>2
  <2> QED BY <1>3, <2>1, <2>2, <2>3
<1>5. Has(n + 1)
  BY <1>4
<1>6. PICK f \in [1 .. n -> V] : Upto(f, n + 1)
  BY <1>5 DEF Has
<1>7. ASSUME NEW j \in 1 .. n PROVE f[j] = Value(f, j)
  <2>1. rank[j] < n + 1 \/ j \in Stop
    OBVIOUS
  <2> QED BY <1>6, <2>1
<1> QED BY <1>6, <1>7 DEF Recurs

-----------------------------------------------------------------------------
(* f[i] is the concatenation of the first i of seqs, up to n.              *)
Flattens(f, seqs, n) ==
  \A i \in 1 .. n : f[i] = IF i = 1 THEN seqs[i] ELSE f[i - 1] \o seqs[i]

LEMMA FlattensExists ==
  ASSUME NEW S, NEW seqs \in Seq(Seq(S)), NEW n \in 0 .. Len(seqs)
  PROVE  \E f \in [1 .. n -> Seq(S)] : Flattens(f, seqs, n)
<1> DEFINE Has(k) == \E f \in [1 .. k -> Seq(S)] : Flattens(f, seqs, k)
           Bad == {k \in 0 .. Len(seqs) : ~ Has(k)}
<1>0. Len(seqs) \in Nat /\ \A i \in 1 .. Len(seqs) : seqs[i] \in Seq(S)
  BY LenProperties, ElementOfSeq
<1>1. SUFFICES ASSUME Bad # {} PROVE FALSE
  OBVIOUS
<1>2. PICK k \in Bad : \A j \in Bad : k <= j
  <2>1. Bad \in SUBSET Nat
    BY <1>0
  <2> HIDE DEF Bad
  <2> QED BY <1>1, <2>1, SmallestElement
<1>3. k # 0
  <2> DEFINE f == [i \in 1 .. 0 |-> <<>>]
  <2>1. f \in [1 .. 0 -> Seq(S)] /\ Flattens(f, seqs, 0)
    BY DEF Flattens
  <2>2. Has(0)
    BY <2>1
  <2> QED BY <2>2
<1>4. k \in 1 .. Len(seqs) /\ k - 1 \in 0 .. Len(seqs) /\ ~ Has(k) /\ Has(k - 1)
  <2>1. k \in 1 .. Len(seqs) /\ k - 1 \in 0 .. Len(seqs) /\ ~ Has(k)
    BY <1>0, <1>2, <1>3
  <2> HIDE DEF Has
  <2>2. k - 1 \notin Bad
    BY <1>2, <2>1
  <2> QED BY <2>1, <2>2
<1>5. PICK f \in [1 .. k - 1 -> Seq(S)] : Flattens(f, seqs, k - 1)
  BY <1>4
<1> DEFINE last == IF k = 1 THEN seqs[k] ELSE f[k - 1] \o seqs[k]
           g == [i \in 1 .. k |-> IF i = k THEN last ELSE f[i]]
<1>6. last \in Seq(S)
  <2>1. seqs[k] \in Seq(S) /\ (k # 1 => f[k - 1] \in Seq(S))
    BY <1>0, <1>4, <1>5
  <2> QED BY <2>1, ConcatProperties
<1> HIDE DEF last
<1>7. g \in [1 .. k -> Seq(S)]
  BY <1>4, <1>5, <1>6
<1>8. Flattens(g, seqs, k)
  <2> SUFFICES ASSUME NEW i \in 1 .. k
               PROVE  g[i] = IF i = 1 THEN seqs[i] ELSE g[i - 1] \o seqs[i]
    BY DEF Flattens
  <2>1. i # 1 => g[i - 1] = f[i - 1]
    BY <1>4
  <2>2. CASE i = k
    <3>1. g[i] = last
      BY <2>2
    <3> QED BY <2>1, <2>2, <3>1 DEF last
  <2>3. CASE i # k
    <3>1. g[i] = f[i] /\ i \in 1 .. k - 1
      BY <1>4, <2>3
    <3> QED BY <1>5, <2>1, <3>1 DEF Flattens
  <2> QED BY <2>2, <2>3
<1> QED BY <1>4, <1>7, <1>8

LEMMA FlattenSeqValue ==
  ASSUME NEW S, NEW seqs \in Seq(Seq(S)), Len(seqs) > 0
  PROVE  \E f \in [1 .. Len(seqs) -> Seq(S)] :
           Flattens(f, seqs, Len(seqs)) /\ FlattenSeq(seqs) = f[Len(seqs)]
<1> DEFINE F(f) == f = [i \in 1 .. Len(seqs) |->
                          IF i = 1 THEN seqs[i] ELSE f[i - 1] \o seqs[i]]
           h == CHOOSE f : F(f)
<1>1. Len(seqs) \in Nat
  OBVIOUS
<1>2. PICK g \in [1 .. Len(seqs) -> Seq(S)] : Flattens(g, seqs, Len(seqs))
  <2>1. Len(seqs) \in 0 .. Len(seqs)
    BY <1>1
  <2> QED BY <2>1, FlattensExists, Zenon
<1>3. F(g)
  BY <1>2 DEF Flattens
<1>4. FlattenSeq(seqs) = h[Len(seqs)]
  BY <1>1 DEF FlattenSeq
<1>5. F(h)
  <2> HIDE DEF F
  <2> QED BY <1>3
<1>6. \A i \in 1 .. Len(seqs) :
        h[i] = IF i = 1 THEN seqs[i] ELSE h[i - 1] \o seqs[i]
  BY <1>5
<1> HIDE DEF F, h
<1>7. \A i \in 1 .. Len(seqs) : h[i] = g[i]
  <2> DEFINE Bad == {i \in 1 .. Len(seqs) : h[i] # g[i]}
  <2> SUFFICES ASSUME Bad # {} PROVE FALSE
    OBVIOUS
  <2>1. PICK k \in Bad : \A j \in Bad : k <= j
    <3>1. Bad \in SUBSET Nat
      BY <1>1
    <3> HIDE DEF Bad
    <3> QED BY <3>1, SmallestElement
  <2>2. /\ h[k] = IF k = 1 THEN seqs[k] ELSE h[k - 1] \o seqs[k]
        /\ g[k] = IF k = 1 THEN seqs[k] ELSE g[k - 1] \o seqs[k]
    BY <1>2, <1>6 DEF Flattens
  <2>3. k # 1 => h[k - 1] = g[k - 1]
    BY <2>1
  <2> QED BY <2>1, <2>2, <2>3
<1>8. FlattenSeq(seqs) = g[Len(seqs)]
  BY <1>1, <1>4, <1>7
<1> QED BY <1>2, <1>8

(* What FlattenSeq makes of one more sequence.                             *)
LEMMA FlattenAppend ==
  ASSUME NEW S, NEW seqs \in Seq(Seq(S)), NEW w \in Seq(S)
  PROVE  /\ FlattenSeq(seqs) \in Seq(S)
         /\ FlattenSeq(Append(seqs, w)) = FlattenSeq(seqs) \o w
<1> DEFINE n == Len(seqs)
           more == Append(seqs, w)
<1>1. /\ n \in Nat /\ more \in Seq(Seq(S)) /\ Len(more) = n + 1 /\ more[n + 1] = w
      /\ \A i \in 1 .. n : seqs[i] = more[i]
  BY AppendProperties
<1>2. PICK g \in [1 .. n + 1 -> Seq(S)] : Flattens(g, more, n + 1) /\ FlattenSeq(more) = g[n + 1]
  <2> HIDE DEF more
  <2> QED BY <1>1, FlattenSeqValue
<1> HIDE DEF more
<1> HIDE DEF n
<1>3. g[n + 1] = IF n = 0 THEN w ELSE g[n] \o w
  <2>1. \A i \in 1 .. n + 1 : g[i] = IF i = 1 THEN more[i] ELSE g[i - 1] \o more[i]
    BY <1>2 DEF Flattens
  <2>2. n + 1 \in 1 .. n + 1 /\ (n + 1) - 1 = n /\ (n + 1 = 1 <=> n = 0)
    BY <1>1
  <2>3. g[n + 1] = IF n + 1 = 1 THEN more[n + 1] ELSE g[(n + 1) - 1] \o more[n + 1]
    BY <2>1, <2>2
  <2> QED BY <1>1, <2>2, <2>3
<1>4. CASE n = 0
  <2>1. seqs = <<>> /\ FlattenSeq(seqs) = <<>>
    BY <1>4, EmptySeq DEF FlattenSeq, n
  <2>2. FlattenSeq(more) = w /\ <<>> \o w = w /\ <<>> \in Seq(S)
    BY <1>2, <1>3, <1>4, ConcatEmptySeq
  <2> QED BY <2>1, <2>2 DEF more
<1>5. CASE n > 0
  <2>1. PICK f \in [1 .. n -> Seq(S)] : Flattens(f, seqs, n) /\ FlattenSeq(seqs) = f[n]
    BY <1>5, FlattenSeqValue DEF n
  <2>2. f[n] = g[n]
    <3> DEFINE Bad == {i \in 1 .. n : f[i] # g[i]}
    <3> SUFFICES ASSUME Bad # {} PROVE FALSE
      BY <1>1, <1>5
    <3>1. PICK k \in Bad : \A j \in Bad : k <= j
      <4>1. Bad \in SUBSET Nat
        BY <1>1
      <4> HIDE DEF Bad
      <4> QED BY <4>1, SmallestElement
    <3>2. k \in 1 .. n /\ f[k] # g[k] /\ (k # 1 => f[k - 1] = g[k - 1])
      BY <1>1, <3>1
    <3>3. f[k] = IF k = 1 THEN seqs[k] ELSE f[k - 1] \o seqs[k]
      BY <2>1, <3>2 DEF Flattens
    <3>4. g[k] = IF k = 1 THEN more[k] ELSE g[k - 1] \o more[k]
      <4>1. k \in 1 .. n + 1
        BY <1>1, <3>2
      <4> QED BY <1>2, <4>1 DEF Flattens
    <3> QED BY <1>1, <3>2, <3>3, <3>4
  <2>3. f[n] \in Seq(S) /\ n # 0
    BY <1>1, <1>5, <2>1
  <2> QED BY <1>2, <1>3, <2>1, <2>2, <2>3 DEF more
<1> QED BY <1>1, <1>4, <1>5

(* The sequences lie one after the other in what FlattenSeq makes of them. *)
LEMMA FlattenPrefix ==
  ASSUME NEW S, NEW seqs \in Seq(Seq(S)), NEW k \in 1 .. Len(seqs)
  PROVE  \E rest \in Seq(S) :
           FlattenSeq(seqs) = (FlattenSeq(SubSeq(seqs, 1, k - 1)) \o seqs[k]) \o rest
<1> DEFINE Part(m) == FlattenSeq(SubSeq(seqs, 1, m))
           Extends(m) == \E rest \in Seq(S) : Part(m) = Part(k) \o rest
           Bad == {m \in k .. Len(seqs) : ~ Extends(m)}
<1>1. Len(seqs) \in Nat /\ \A i \in 1 .. Len(seqs) : seqs[i] \in Seq(S)
  BY LenProperties, ElementOfSeq
<1>2. ASSUME NEW m \in 0 .. Len(seqs) PROVE SubSeq(seqs, 1, m) \in Seq(Seq(S))
  BY <1>1, SubSeqProperties
<1>3. ASSUME NEW m \in 1 .. Len(seqs)
      PROVE  /\ Part(m) \in Seq(S) /\ Part(m - 1) \in Seq(S)
             /\ Part(m) = Part(m - 1) \o seqs[m]
  <2>1. SubSeq(seqs, 1, m) = Append(SubSeq(seqs, 1, m - 1), seqs[m])
    <3>1. SubSeq(seqs, 1, m) = SubSeq(seqs, 1, m - 1) \o << seqs[m] >>
      BY <1>1, SubSeqRecursiveSecond
    <3> QED BY <1>1, <1>2, <3>1, AppendIsConcat
  <2>2. /\ SubSeq(seqs, 1, m - 1) \in Seq(Seq(S)) /\ SubSeq(seqs, 1, m) \in Seq(Seq(S))
        /\ seqs[m] \in Seq(S)
    BY <1>1, <1>2
  <2> DEFINE before == SubSeq(seqs, 1, m - 1)
             upTo == SubSeq(seqs, 1, m)
  <2> HIDE DEF before, upTo
  <2>3. FlattenSeq(upTo) \in Seq(S) /\ FlattenSeq(before) \in Seq(S)
    BY <2>2, FlattenAppend DEF before, upTo
  <2>4. FlattenSeq(Append(before, seqs[m])) = FlattenSeq(before) \o seqs[m]
    BY <2>2, FlattenAppend DEF before
  <2> QED BY <2>1, <2>3, <2>4 DEF before, upTo
<1> HIDE DEF Part
<1>4. Bad = {}
  <2> SUFFICES ASSUME Bad # {} PROVE FALSE
    OBVIOUS
  <2>1. PICK m \in Bad : \A j \in Bad : m <= j
    <3>1. Bad \in SUBSET Nat
      BY <1>1
    <3> HIDE DEF Bad
    <3> QED BY <3>1, SmallestElement
  <2>2. m # k
    <3>1. Part(k) = Part(k) \o <<>> /\ <<>> \in Seq(S)
      BY <1>3, ConcatEmptySeq
    <3> QED BY <3>1
  <2>3. Extends(m - 1)
    <3> HIDE DEF Extends
    <3> QED BY <1>1, <2>1, <2>2
  <2>4. PICK rest \in Seq(S) : Part(m - 1) = Part(k) \o rest
    BY <2>3
  <2>5. Part(m) = Part(k) \o (rest \o seqs[m]) /\ rest \o seqs[m] \in Seq(S)
    <3>1. m \in 1 .. Len(seqs)
      BY <1>1
    <3>2. /\ Part(m) = (Part(k) \o rest) \o seqs[m] /\ seqs[m] \in Seq(S)
          /\ Part(k) \in Seq(S)
      BY <1>1, <1>3, <2>4, <3>1
    <3> HIDE DEF Bad, Extends
    <3>3. PICK p \in Seq(S), w \in Seq(S) : p = Part(k) /\ w = seqs[m]
      BY <3>2
    <3>4. (p \o rest) \o w = p \o (rest \o w)
      BY ConcatAssociative, SMTT(20)
    <3>5. rest \o w \in Seq(S)
      BY ConcatProperties
    <3> QED BY <3>2, <3>3, <3>4, <3>5
  <2> QED BY <2>5
<1>5. Extends(Len(seqs))
  <2> HIDE DEF Extends
  <2>1. Len(seqs) \in k .. Len(seqs)
    BY <1>1
  <2> QED BY <1>4, <2>1
<1>6. Part(Len(seqs)) = FlattenSeq(seqs)
  BY SubSeqFull DEF Part
<1> QED BY <1>3, <1>5, <1>6 DEF Part

-----------------------------------------------------------------------------
(* A key is sifted through cells 1 .. n of an array d: from cell j it goes *)
(* on to next[j], whose content takes its place, until it is in a cell of  *)
(* Stop.  f[j] is the array if it sets out from j.                         *)
Sifts(f, n, d, key, next, Stop) ==
  \A j \in 1 .. n : f[j] = IF j \in Stop THEN [d EXCEPT ![j] = key]
                           ELSE [f[next[j]] EXCEPT ![j] = d[next[j]]]

(* The array g is d but for the cells of a path from i to s.               *)
Path(g, n, d, key, next, Stop, rank, i, s, M) ==
  /\ g \in [1 .. n -> Nat] /\ M \subseteq 1 .. n /\ i \in M /\ s \in M /\ s \in Stop
  /\ g[s] = key
  /\ \A c \in M \ {s} : c \notin Stop /\ next[c] \in M /\ g[c] = d[next[c]]
  /\ \A c \in M \ {i} : \E b \in M \ {s} : next[b] = c
  /\ \A c \in M : rank[s] <= rank[c] /\ rank[c] <= rank[i]
  /\ \A c \in (1 .. n) \ M : g[c] = d[c]

LEMMA SiftPath ==
  ASSUME NEW n \in Nat, NEW d \in [1 .. n -> Nat], NEW key \in Nat, NEW next, NEW Stop, NEW f,
         NEW rank \in [1 .. n -> Nat], Sifts(f, n, d, key, next, Stop),
         \A j \in (1 .. n) \ Stop : next[j] \in 1 .. n /\ rank[next[j]] < rank[j],
         NEW i \in 1 .. n
  PROVE  \E s, M : Path(f[i], n, d, key, next, Stop, rank, i, s, M)
<1> DEFINE Has(j) == \E s, M : Path(f[j], n, d, key, next, Stop, rank, j, s, M)
           P == {j \in 1 .. n : Has(j)}
<1>1. ASSUME NEW j \in 1 .. n, \A k \in 1 .. n : rank[k] < rank[j] => k \in P
      PROVE  Has(j)
  <2>1. CASE j \in Stop
    <3>1. f[j] = [d EXCEPT ![j] = key]
      BY <2>1 DEF Sifts
    <3>2. Path(f[j], n, d, key, next, Stop, rank, j, j, {j})
      BY <2>1, <3>1 DEF Path
    <3> QED BY <3>2
  <2>2. CASE j \notin Stop
    <3>1. next[j] \in 1 .. n /\ rank[next[j]] < rank[j]
      BY <2>2
    <3>2. PICK l \in 1 .. n : l = next[j] /\ rank[l] < rank[j]
      BY <3>1
    <3>3. f[j] = [f[l] EXCEPT ![j] = d[l]]
      BY <2>2, <3>2 DEF Sifts
    <3>4. Has(l)
      BY <1>1, <3>2
    <3>5. PICK s, M : Path(f[l], n, d, key, next, Stop, rank, l, s, M)
      BY <3>4
    <3>6. /\ f[l] \in [1 .. n -> Nat] /\ M \subseteq 1 .. n /\ l \in M /\ s \in M /\ s \in Stop
          /\ f[l][s] = key
          /\ \A c \in M \ {s} : c \notin Stop /\ next[c] \in M /\ f[l][c] = d[next[c]]
          /\ \A c \in M \ {l} : \E b \in M \ {s} : next[b] = c
          /\ \A c \in M : rank[s] <= rank[c] /\ rank[c] <= rank[l]
          /\ \A c \in (1 .. n) \ M : f[l][c] = d[c]
      BY <3>5 DEF Path
    <3>7. \A c \in M : rank[c] < rank[j] /\ c # j /\ rank[c] \in Nat
      <4> SUFFICES ASSUME NEW c \in M PROVE rank[c] < rank[j] /\ c # j /\ rank[c] \in Nat
        OBVIOUS
      <4>1. c \in 1 .. n /\ rank[c] \in Nat /\ rank[l] \in Nat /\ rank[j] \in Nat
        BY <3>6
      <4>2. rank[c] <= rank[l]
        BY <3>6
      <4>3. rank[c] < rank[j]
        BY <3>2, <4>1, <4>2
      <4> QED BY <4>1, <4>3
    <3> DEFINE N == M \cup {j}
               g == f[j]
    <3>8. g \in [1 .. n -> Nat] /\ g[j] = d[l] /\ \A c \in 1 .. n : c # j => g[c] = f[l][c]
      <4>1. PICK h \in [1 .. n -> Nat] : h = f[l]
        BY <3>6
      <4>2. g = [h EXCEPT ![j] = d[l]]
        BY <3>3, <4>1
      <4> HIDE DEF g
      <4> QED BY <4>1, <4>2
    <3> HIDE DEF g
    <3>9. N \subseteq 1 .. n /\ j \in N /\ s \in N /\ s \in Stop /\ s # j /\ g[s] = key
      BY <3>6, <3>7, <3>8
    <3>10. \A c \in N \ {s} : c \notin Stop /\ next[c] \in N /\ g[c] = d[next[c]]
      BY <2>2, <3>2, <3>6, <3>7, <3>8
    <3>11. \A c \in N \ {j} : \E b \in N \ {s} : next[b] = c
      BY <3>2, <3>6, <3>7, <3>9
    <3>12. \A c \in N : rank[s] <= rank[c] /\ rank[c] <= rank[j]
      <4>1. rank[s] <= rank[j] /\ rank[j] <= rank[j]
        <5>1. rank[s] < rank[j] /\ rank[s] \in Nat /\ rank[j] \in Nat
          BY <3>6, <3>7
        <5> QED BY <5>1
      <4>2. ASSUME NEW c \in M PROVE rank[s] <= rank[c] /\ rank[c] <= rank[j]
        <5>1. rank[s] <= rank[c] /\ rank[c] < rank[j] /\ rank[c] \in Nat /\ rank[j] \in Nat
          BY <3>6, <3>7
        <5> QED BY <5>1
      <4> QED BY <4>1, <4>2
    <3>13. \A c \in (1 .. n) \ N : g[c] = d[c]
      BY <3>6, <3>8
    <3>14. Path(g, n, d, key, next, Stop, rank, j, s, N)
      BY <3>8, <3>9, <3>10, <3>11, <3>12, <3>13 DEF Path
    <3> QED BY <3>14 DEF g
  <2> QED BY <2>1, <2>2
<1> HIDE DEF Has
<1>2. \A j \in 1 .. n : (\A k \in 1 .. n : rank[k] < rank[j] => k \in P) => j \in P
  BY <1>1
<1> HIDE DEF P
<1>3. PICK D : D = 1 .. n
  OBVIOUS
<1>4. rank \in [D -> Nat] /\ \A j \in D : (\A k \in D : rank[k] < rank[j] => k \in P) => j \in P
  BY <1>2, <1>3
<1>5. D \subseteq P
  BY <1>4, RankInduction
<1>6. Has(i)
  BY <1>3, <1>5 DEF P
<1> QED BY <1>6 DEF Has

(* The recursion has a solution, if the way comes closer to an end with    *)
(* every step.                                                             *)
LEMMA SiftsExists ==
  ASSUME NEW n \in Nat, NEW d \in [1 .. n -> Nat], NEW key \in Nat, NEW next, NEW Stop,
         NEW rank \in [1 .. n -> Nat],
         \A j \in (1 .. n) \ Stop :
           next[j] \in 1 .. n /\ rank[next[j]] < rank[j] /\ rank[j] <= n
  PROVE  \E f \in [1 .. n -> [1 .. n -> Nat]] : Sifts(f, n, d, key, next, Stop)
<1> DEFINE V == [1 .. n -> Nat]
           base == [j \in 1 .. n |-> [d EXCEPT ![j] = key]]
           step == [j \in (1 .. n) \ Stop |-> [v \in V |-> [v EXCEPT ![j] = d[next[j]]]]]
<1>1. base \in [1 .. n -> V] /\ \A j \in 1 .. n : base[j] = [d EXCEPT ![j] = key]
  OBVIOUS
<1>2. \A j \in (1 .. n) \ Stop :
        step[j] \in [V -> V] /\ \A v \in V : step[j][v] = [v EXCEPT ![j] = d[next[j]]]
  OBVIOUS
<1> HIDE DEF V, step, base
<1>3. PICK f \in [1 .. n -> V] : Recurs(f, n, base, step, next, Stop)
  BY <1>1, <1>2, RecursionExists
<1>4. Sifts(f, n, d, key, next, Stop)
  <2> SUFFICES ASSUME NEW j \in 1 .. n
               PROVE  f[j] = IF j \in Stop THEN [d EXCEPT ![j] = key]
                             ELSE [f[next[j]] EXCEPT ![j] = d[next[j]]]
    BY DEF Sifts
  <2>1. f[j] = IF j \in Stop THEN base[j] ELSE step[j][f[next[j]]]
    BY <1>3 DEF Recurs
  <2>2. CASE j \in Stop
    BY <1>1, <2>1, <2>2
  <2>3. CASE j \notin Stop
    <3>1. f[next[j]] \in V
      BY <1>3, <2>3
    <3> QED BY <1>2, <2>1, <2>3, <3>1
  <2> QED BY <2>2, <2>3
<1> QED BY <1>3, <1>4 DEF V

(* What is in the array is only put into another order.                    *)
Permutes(g, e, n, p, q) ==
  /\ p \in [1 .. n -> 1 .. n] /\ q \in [1 .. n -> 1 .. n]
  /\ \A k \in 1 .. n : q[p[k]] = k /\ p[q[k]] = k /\ g[k] = e[p[k]]

LEMMA SiftPermutes ==
  ASSUME NEW n \in Nat, NEW d \in [1 .. n -> Nat], NEW key \in Nat, NEW next, NEW Stop, NEW f,
         NEW rank \in [1 .. n -> Nat], Sifts(f, n, d, key, next, Stop),
         \A j \in (1 .. n) \ Stop : next[j] \in 1 .. n /\ rank[next[j]] < rank[j],
         NEW i \in 1 .. n
  PROVE  f[i] \in [1 .. n -> Nat] /\ \E p, q : Permutes(f[i], [d EXCEPT ![i] = key], n, p, q)
<1> DEFINE Has(j) == \E p, q : /\ f[j] \in [1 .. n -> Nat]
                               /\ Permutes(f[j], [d EXCEPT ![j] = key], n, p, q)
                               /\ \A k \in 1 .. n : rank[k] > rank[j] => p[k] = k
           P == {j \in 1 .. n : Has(j)}
<1>1. ASSUME NEW j \in 1 .. n, \A k \in 1 .. n : rank[k] < rank[j] => k \in P
      PROVE  Has(j)
  <2>1. CASE j \in Stop
    <3> DEFINE p == [k \in 1 .. n |-> k]
    <3>1. f[j] = [d EXCEPT ![j] = key]
      BY <2>1 DEF Sifts
    <3>2. Permutes(f[j], [d EXCEPT ![j] = key], n, p, p) /\ \A k \in 1 .. n : p[k] = k
      BY <3>1 DEF Permutes
    <3> HIDE DEF p
    <3> QED BY <3>1, <3>2
  <2>2. CASE j \notin Stop
    <3>1. next[j] \in 1 .. n /\ rank[next[j]] < rank[j]
      BY <2>2
    <3>2. PICK l \in 1 .. n : l = next[j] /\ rank[l] < rank[j]
      BY <3>1
    <3>3. f[j] = [f[l] EXCEPT ![j] = d[l]]
      BY <2>2, <3>2 DEF Sifts
    <3>4. Has(l)
      BY <1>1, <3>2
    <3>5. PICK p, q : /\ f[l] \in [1 .. n -> Nat]
                      /\ Permutes(f[l], [d EXCEPT ![l] = key], n, p, q)
                      /\ \A k \in 1 .. n : rank[k] > rank[l] => p[k] = k
      BY <3>4
    <3>6. PICK e \in [1 .. n -> Nat] : e = [d EXCEPT ![l] = key]
      OBVIOUS
    <3>7. /\ p \in [1 .. n -> 1 .. n] /\ q \in [1 .. n -> 1 .. n]
          /\ \A k \in 1 .. n : q[p[k]] = k /\ p[q[k]] = k /\ f[l][k] = e[p[k]]
      BY <3>5, <3>6 DEF Permutes
    <3> DEFINE tau == [k \in 1 .. n |-> IF k = j THEN l ELSE IF k = l THEN j ELSE k]
               p2 == [k \in 1 .. n |-> tau[p[k]]]
               q2 == [k \in 1 .. n |-> q[tau[k]]]
    <3>8. j # l /\ p[j] = j
      BY <3>2, <3>5
    <3>9. tau \in [1 .. n -> 1 .. n] /\ \A k \in 1 .. n : tau[tau[k]] = k
      BY <3>8
    <3>10. p2 \in [1 .. n -> 1 .. n] /\ q2 \in [1 .. n -> 1 .. n]
      BY <3>7, <3>9
    <3>11. \A k \in 1 .. n : q2[p2[k]] = k /\ p2[q2[k]] = k
      <4> HIDE DEF tau
      <4>1. \A k \in 1 .. n : p2[k] = tau[p[k]] /\ q2[k] = q[tau[k]]
        OBVIOUS
      <4> HIDE DEF p2, q2
      <4> SUFFICES ASSUME NEW k \in 1 .. n PROVE q2[p2[k]] = k /\ p2[q2[k]] = k
        OBVIOUS
      <4>2. p2[k] \in 1 .. n /\ q2[k] \in 1 .. n /\ p[k] \in 1 .. n /\ tau[k] \in 1 .. n
        BY <3>7, <3>9, <3>10
      <4>3. q2[p2[k]] = q[tau[tau[p[k]]]] /\ tau[tau[p[k]]] = p[k]
        BY <3>9, <4>1, <4>2
      <4>4. p2[q2[k]] = tau[p[q[tau[k]]]] /\ p[q[tau[k]]] = tau[k]
        BY <3>7, <4>1, <4>2
      <4> QED BY <3>7, <3>9, <4>3, <4>4
    <3>12. f[j] \in [1 .. n -> Nat] /\ \A k \in 1 .. n : f[j][k] = IF k = j THEN d[l] ELSE f[l][k]
      BY ONLY <3>3, <3>5, j \in 1 .. n, l \in 1 .. n, key \in Nat, d \in [1 .. n -> Nat]
    <3>13. \A k \in 1 .. n : f[j][k] = [d EXCEPT ![j] = key][p2[k]]
      <4> SUFFICES ASSUME NEW k \in 1 .. n PROVE f[j][k] = [d EXCEPT ![j] = key][p2[k]]
        OBVIOUS
      <4>1. p2[k] = IF p[k] = j THEN l ELSE IF p[k] = l THEN j ELSE p[k]
        BY <3>7
      <4> HIDE DEF p2, tau
      <4>2. CASE k = j
        BY <3>8, <3>12, <4>1, <4>2
      <4>3. CASE k # j
        <5>1. p[k] # j /\ p[k] \in 1 .. n
          <6>1. q[p[k]] = k /\ q[p[j]] = j /\ p[k] \in 1 .. n
            BY <3>7
          <6> QED BY <3>8, <4>3, <6>1
        <5>2. f[j][k] = e[p[k]]
          BY <3>7, <3>12, <4>3
        <5> QED BY <3>6, <3>8, <4>1, <5>1, <5>2
      <4> QED BY <4>2, <4>3
    <3>14. \A k \in 1 .. n : rank[k] > rank[j] => p2[k] = k
      <4> SUFFICES ASSUME NEW k \in 1 .. n, rank[k] > rank[j] PROVE p2[k] = k
        OBVIOUS
      <4>1. rank[k] \in Nat /\ rank[j] \in Nat /\ rank[l] \in Nat
        OBVIOUS
      <4>2. k # j /\ k # l /\ rank[k] > rank[l]
        BY <3>2, <4>1
      <4>3. p[k] = k
        BY <3>5, <4>2
      <4>4. tau[k] = k
        BY <4>2
      <4> HIDE DEF tau
      <4> QED BY <4>3, <4>4
    <3> HIDE DEF p2, q2, tau
    <3>15. Permutes(f[j], [d EXCEPT ![j] = key], n, p2, q2)
      BY <3>10, <3>11, <3>13 DEF Permutes
    <3> QED BY <3>12, <3>14, <3>15
  <2> QED BY <2>1, <2>2
<1> HIDE DEF Has
<1>2. \A j \in 1 .. n : (\A k \in 1 .. n : rank[k] < rank[j] => k \in P) => j \in P
  BY <1>1
<1> HIDE DEF P
<1>3. PICK D : D = 1 .. n
  OBVIOUS
<1>4. rank \in [D -> Nat] /\ \A j \in D : (\A k \in D : rank[k] < rank[j] => k \in P) => j \in P
  BY <1>2, <1>3
<1>5. D \subseteq P
  BY <1>4, RankInduction
<1>6. Has(i)
  BY <1>3, <1>5 DEF P
<1> QED BY <1>6 DEF Has

(* Heap order, for cells 1 .. n where par[c] is the cell above c.          *)
Tree(par, n) == \A c \in 2 .. n : par[c] \in 1 .. n /\ par[c] < c
Ordered(g, n, par) == \A c \in 2 .. n : g[par[c]] <= g[c]

LEMMA RootLeast ==
  ASSUME NEW n \in Nat, NEW g \in [1 .. n -> Nat], NEW par, Tree(par, n), Ordered(g, n, par),
         NEW c \in 1 .. n
  PROVE  g[1] <= g[c]
<1> DEFINE Bad == {b \in 1 .. n : ~ (g[1] <= g[b])}
<1> SUFFICES ASSUME Bad # {} PROVE FALSE
  OBVIOUS
<1>1. PICK m \in Bad : \A b \in Bad : m <= b
  <2>1. Bad \in SUBSET Nat
    OBVIOUS
  <2> HIDE DEF Bad
  <2> QED BY <2>1, SmallestElement
<1>2. m \in 2 .. n /\ par[m] \in 1 .. n /\ par[m] < m
  BY <1>1 DEF Tree
<1>3. par[m] \notin Bad
  <2> HIDE DEF Bad
  <2> QED BY <1>1, <1>2
<1>4. g[1] \in Nat /\ g[m] \in Nat /\ g[par[m]] \in Nat /\ g[1] <= g[par[m]] /\ g[par[m]] <= g[m]
  BY <1>2, <1>3 DEF Ordered
<1>5. ~ (g[1] <= g[m])
  BY <1>1
<1> HIDE DEF Bad
<1> QED BY <1>4, <1>5

(* A key that is sifted up passes what is greater, and is not greater than *)
(* what was below the cell it comes from.                                  *)
LEMMA UpKeepsOrder ==
  ASSUME NEW n \in Nat, NEW d \in [1 .. n -> Nat], NEW key \in Nat, NEW par, Tree(par, n),
         NEW i \in 1 .. n, NEW g, NEW s, NEW M, NEW rank, rank = [j \in 1 .. n |-> j],
         NEW Stop, Stop = {j \in 1 .. n : ~ (j > 1 /\ d[par[j]] > key)},
         Path(g, n, d, key, par, Stop, rank, i, s, M),
         \A c \in 2 .. n : c # i => d[par[c]] <= d[c],
         \A c \in 2 .. n : par[c] = i => key <= d[c] /\ (i > 1 => d[par[i]] <= d[c])
  PROVE  Ordered(g, n, par)
<1>1. /\ g \in [1 .. n -> Nat] /\ M \subseteq 1 .. n /\ i \in M /\ s \in M /\ s \in Stop
      /\ g[s] = key
      /\ \A c \in M \ {s} : c \notin Stop /\ par[c] \in M /\ g[c] = d[par[c]]
      /\ \A c \in (1 .. n) \ M : g[c] = d[c]
  BY DEF Path
<1>2. \A c \in M \ {i} : \E b \in M \ {s} : par[b] = c
  BY DEF Path
<1>3. \A c \in M : s <= c /\ c <= i /\ c \in Nat
  <2>1. \A c \in M : rank[s] <= rank[c] /\ rank[c] <= rank[i]
    BY DEF Path
  <2>2. \A c \in 1 .. n : rank[c] = c
    OBVIOUS
  <2>3. s \in 1 .. n /\ \A c \in M : c \in 1 .. n /\ c \in Nat
    BY <1>1
  <2> QED BY <2>1, <2>2, <2>3
<1> SUFFICES ASSUME NEW c \in 2 .. n PROVE g[par[c]] <= g[c]
  BY DEF Ordered
<1>4. PICK p \in 1 .. n : p = par[c] /\ p < c
  BY DEF Tree
<1>5. d[c] \in Nat /\ d[p] \in Nat /\ g[c] \in Nat /\ g[p] \in Nat
  BY <1>1
<1>6. s # i => key <= d[s] /\ d[s] \in Nat
  <2> SUFFICES ASSUME s # i PROVE key <= d[s] /\ d[s] \in Nat
    OBVIOUS
  <2>1. PICK b \in M \ {s} : par[b] = s
    BY <1>1, <1>2
  <2>2. b \in 1 .. n /\ b \notin Stop /\ s \in 1 .. n
    BY <1>1
  <2> QED BY <2>1, <2>2
<1>7. CASE c \notin M /\ p \notin M
  <2>1. c # i /\ g[c] = d[c] /\ g[p] = d[p]
    BY <1>1, <1>7
  <2> QED BY <1>4, <2>1
<1>8. CASE c \notin M /\ p \in M
  <2>1. c # i /\ g[c] = d[c] /\ d[p] <= d[c]
    BY <1>1, <1>4, <1>8
  <2>2. CASE p = s
    <3>1. key <= d[c]
      <4>1. CASE s = i
        BY <1>4, <2>2, <4>1
      <4>2. CASE s # i
        <5>1. key <= d[p]
          BY <1>6, <2>2, <4>2
        <5> QED BY <1>5, <2>1, <5>1
      <4> QED BY <4>1, <4>2
    <3>2. g[p] = key
      BY <1>1, <2>2
    <3> QED BY <1>4, <2>1, <3>1, <3>2
  <2>3. CASE p # s
    <3>1. p \notin Stop /\ g[p] = d[par[p]]
      BY <1>1, <1>8, <2>3
    <3>2. p \in 2 .. n /\ par[p] \in 1 .. n
      BY <3>1 DEF Tree
    <3>3. d[par[p]] <= d[c]
      <4>1. CASE p = i
        <5>1. par[c] = i /\ i > 1
          BY <1>4, <3>2, <4>1
        <5> QED BY <4>1, <5>1
      <4>2. CASE p # i
        <5>1. d[par[p]] <= d[p] /\ d[par[p]] \in Nat
          BY <3>2, <4>2
        <5> QED BY <1>5, <2>1, <5>1
      <4> QED BY <4>1, <4>2
    <3> QED BY <1>4, <2>1, <3>1, <3>3
  <2> QED BY <2>2, <2>3
<1>9. CASE c \in M /\ c = s
  <2>1. d[p] <= key
    BY <1>1, <1>4, <1>5, <1>9
  <2>2. p \notin M
    BY <1>3, <1>4, <1>9
  <2> QED BY <1>1, <1>4, <1>9, <2>1, <2>2
<1>10. CASE c \in M /\ c # s
  <2>1. p \in M /\ g[c] = d[p] /\ d[p] > key
    BY <1>1, <1>4, <1>10
  <2>2. CASE p = s
    BY <1>1, <1>4, <1>5, <2>1, <2>2
  <2>3. CASE p # s
    <3>1. p \notin Stop /\ g[p] = d[par[p]]
      BY <1>1, <2>1, <2>3
    <3>2. p \in 2 .. n /\ p # i
      <4>1. p < c /\ c <= i /\ i \in Nat /\ c \in Nat
        BY <1>3, <1>4, <1>10
      <4> QED BY <3>1, <4>1
    <3> QED BY <1>4, <2>1, <3>1, <3>2
  <2> QED BY <2>2, <2>3
<1> QED BY <1>7, <1>8, <1>9, <1>10

(* A key that is sifted down from the root changes places with a least     *)
(* cell below as long as that one is smaller.                              *)
LEMMA DownKeepsOrder ==
  ASSUME NEW n \in Nat \ {0}, NEW d \in [1 .. n -> Nat], NEW key \in Nat, NEW par, Tree(par, n),
         NEW g, NEW s, NEW M, NEW rank, NEW next, NEW Stop,
         Path(g, n, d, key, next, Stop, rank, 1, s, M),
         \A j \in (1 .. n) \ Stop :
           next[j] \in 2 .. n /\ par[next[j]] = j /\ d[next[j]] <= key,
         \A c \in 2 .. n : IF par[c] \in Stop THEN key <= d[c] ELSE d[next[par[c]]] <= d[c],
         \A c \in 2 .. n : par[c] # 1 => d[par[c]] <= d[c]
  PROVE  Ordered(g, n, par)
<1>1. /\ g \in [1 .. n -> Nat] /\ M \subseteq 1 .. n /\ 1 \in M /\ s \in M /\ s \in Stop
      /\ g[s] = key
      /\ \A c \in M \ {s} : c \notin Stop /\ next[c] \in M /\ g[c] = d[next[c]]
      /\ \A c \in (1 .. n) \ M : g[c] = d[c]
  BY DEF Path
<1>2. \A c \in M \ {1} : \E b \in M \ {s} : next[b] = c
  BY DEF Path
<1> SUFFICES ASSUME NEW c \in 2 .. n PROVE g[par[c]] <= g[c]
  BY DEF Ordered
<1>3. PICK p \in 1 .. n : p = par[c] /\ p < c
  BY DEF Tree
<1>4. c \in M => p \in M \ {s} /\ next[p] = c
  <2> SUFFICES ASSUME c \in M PROVE p \in M \ {s} /\ next[p] = c
    OBVIOUS
  <2>1. PICK b \in M \ {s} : next[b] = c
    BY <1>2
  <2>2. par[c] = b
    BY <1>1, <2>1
  <2> QED BY <1>3, <2>1, <2>2
<1>5. CASE p \notin M
  <2>1. c \notin M /\ p # 1
    BY <1>1, <1>4, <1>5
  <2>2. g[c] = d[c] /\ g[p] = d[p]
    BY <1>1, <1>5, <2>1
  <2> QED BY <1>3, <2>1, <2>2
<1>6. CASE p = s
  <2>1. c \notin M /\ g[c] = d[c]
    BY <1>1, <1>4, <1>6
  <2>2. key <= d[c]
    <3>1. par[c] \in Stop
      BY <1>1, <1>3, <1>6
    <3> QED BY <3>1
  <2> QED BY <1>1, <1>3, <1>6, <2>1, <2>2
<1>7. CASE p \in M /\ p # s
  <2>1. p \notin Stop /\ g[p] = d[next[p]] /\ d[next[p]] <= key /\ d[next[p]] <= d[c]
    BY <1>1, <1>3, <1>7
  <2>2. CASE c \notin M
    BY <1>1, <1>3, <2>1, <2>2
  <2>3. CASE c = s
    BY <1>1, <1>3, <2>1, <2>3
  <2>4. CASE c \in M /\ c # s
    <3>1. next[p] = c /\ c \notin Stop /\ g[c] = d[next[c]]
      BY <1>1, <1>4, <2>4
    <3>2. next[c] \in 2 .. n /\ par[next[c]] = c /\ c # 1
      BY <3>1
    <3>3. d[c] <= d[next[c]]
      BY <3>2
    <3> QED BY <1>3, <2>1, <3>1, <3>3
  <2> QED BY <2>2, <2>3, <2>4
<1> QED BY <1>5, <1>6, <1>7

-----------------------------------------------------------------------------
(* Heaps in a sequence.                                                    *)
Values(s) == {s[k] : k \in 1 .. Len(s)}
Distinct(s) == \A j, k \in 1 .. Len(s) : s[j] = s[k] => j = k

LEMMA SeqOfFunction ==
  ASSUME NEW S, NEW n \in Nat, NEW f \in [1 .. n -> S]
  PROVE  f \in Seq(S) /\ Len(f) = n
OBVIOUS

LEMMA PermutedValues ==
  ASSUME NEW n \in Nat, NEW g \in [1 .. n -> Nat], NEW e \in [1 .. n -> Nat],
         \E p, q : Permutes(g, e, n, p, q)
  PROVE  /\ g \in Seq(Nat) /\ Len(g) = n /\ Values(g) = {e[k] : k \in 1 .. n}
         /\ (\A j, k \in 1 .. n : e[j] = e[k] => j = k) => Distinct(g)
<1>1. PICK p, q : Permutes(g, e, n, p, q)
  OBVIOUS
<1>2. /\ p \in [1 .. n -> 1 .. n] /\ q \in [1 .. n -> 1 .. n]
      /\ \A k \in 1 .. n : q[p[k]] = k /\ p[q[k]] = k /\ g[k] = e[p[k]]
  BY <1>1 DEF Permutes
<1>3. g \in Seq(Nat) /\ Len(g) = n
  BY SeqOfFunction
<1>4. Values(g) = {g[k] : k \in 1 .. n}
  BY <1>3 DEF Values
<1>5. \A k \in 1 .. n : p[k] \in 1 .. n /\ q[k] \in 1 .. n /\ g[k] = e[p[k]] /\ e[k] = g[q[k]]
  BY <1>2
<1>6. {g[k] : k \in 1 .. n} = {e[k] : k \in 1 .. n}
  <2>1. \A k \in 1 .. n : g[k] \in {e[j] : j \in 1 .. n}
    BY <1>5
  <2>2. \A k \in 1 .. n : e[k] \in {g[j] : j \in 1 .. n}
    BY <1>5
  <2> QED BY <2>1, <2>2
<1>7. ASSUME \A j, k \in 1 .. n : e[j] = e[k] => j = k
      PROVE  Distinct(g)
  <2> SUFFICES ASSUME NEW j \in 1 .. n, NEW k \in 1 .. n, g[j] = g[k] PROVE j = k
    BY <1>3 DEF Distinct
  <2>1. p[j] = p[k]
    BY <1>5, <1>7
  <2> QED BY <1>2, <2>1
<1> QED BY <1>3, <1>4, <1>6, <1>7

(* A stack of different numbers, popped and pushed.                        *)
LEMMA StackPop ==
  ASSUME NEW s \in Seq(Nat), s # <<>>, Distinct(s)
  PROVE  /\ Front(s) \in Seq(Nat) /\ Distinct(Front(s)) /\ Last(s) \in Nat
         /\ Last(s) \in ToSet(s) /\ ToSet(Front(s)) = ToSet(s) \ {Last(s)}
<1>1. PICK n \in Nat : n + 1 = Len(s)
  <2>1. Len(s) \in Nat \ {0} /\ Len(s) - 1 \in Nat /\ (Len(s) - 1) + 1 = Len(s)
    OBVIOUS
  <2> QED BY <2>1
<1>2. Len(s) - 1 = n
  BY <1>1
<1>3. PICK f : f = Front(s)
  OBVIOUS
<1>4. f = SubSeq(s, 1, n)
  BY <1>2, <1>3 DEF Front
<1>5. f \in Seq(Nat) /\ Len(f) = n /\ \A k \in 1 .. n : f[k] = s[k]
  BY <1>1, <1>4
<1>6. Last(s) = s[n + 1] /\ s[n + 1] \in Nat
  BY <1>1, ElementOfSeq DEF Last
<1>7. \A j, k \in 1 .. n + 1 : s[j] = s[k] => j = k
  BY <1>1 DEF Distinct
<1>8. Distinct(f)
  BY <1>5, <1>7 DEF Distinct
<1>9. ToSet(s) = {s[k] : k \in 1 .. n + 1} /\ ToSet(f) = {f[k] : k \in 1 .. n}
  <2>1. DOMAIN s = 1 .. n + 1 /\ DOMAIN f = 1 .. n
    BY <1>1, <1>5
  <2> QED BY <2>1 DEF ToSet
<1>10. ToSet(f) = ToSet(s) \ {s[n + 1]} /\ s[n + 1] \in ToSet(s)
  <2>1. \A k \in 1 .. n : f[k] = s[k] /\ s[k] # s[n + 1] /\ k \in 1 .. n + 1
    BY <1>5, <1>7
  <2>2. \A k \in 1 .. n + 1 : k = n + 1 \/ k \in 1 .. n
    OBVIOUS
  <2> QED BY <1>9, <2>1, <2>2
<1> QED BY <1>3, <1>5, <1>6, <1>8, <1>10

LEMMA StackPush ==
  ASSUME NEW s \in Seq(Nat), NEW x \in Nat, x \notin ToSet(s), Distinct(s)
  PROVE  /\ Append(s, x) \in Seq(Nat) /\ Distinct(Append(s, x))
         /\ ToSet(Append(s, x)) = ToSet(s) \cup {x}
<1>1. PICK n \in Nat : n = Len(s)
  OBVIOUS
<1>2. PICK t \in Seq(Nat) : t = Append(s, x)
  BY AppendProperties
<1>3. Len(t) = n + 1 /\ t[n + 1] = x /\ \A k \in 1 .. n : t[k] = s[k]
  BY <1>1, <1>2, AppendProperties
<1>4. ToSet(s) = {s[k] : k \in 1 .. n} /\ ToSet(t) = {t[k] : k \in 1 .. n + 1}
  <2>1. DOMAIN s = 1 .. n /\ DOMAIN t = 1 .. n + 1
    BY <1>1, <1>3
  <2> QED BY <2>1 DEF ToSet
<1>5. \A k \in 1 .. n + 1 : k = n + 1 \/ k \in 1 .. n
  OBVIOUS
<1>6. \A k \in 1 .. n : t[k] # x /\ k \in 1 .. n + 1
  BY <1>3, <1>4
<1>7. \A j, k \in 1 .. n : s[j] = s[k] => j = k
  BY <1>1 DEF Distinct
<1>8. Distinct(t)
  <2> SUFFICES ASSUME NEW j \in 1 .. n + 1, NEW k \in 1 .. n + 1, t[j] = t[k] PROVE j = k
    BY <1>3 DEF Distinct
  <2> QED BY <1>3, <1>5, <1>6, <1>7
<1>9. ToSet(t) = ToSet(s) \cup {x}
  BY <1>3, <1>4, <1>5, <1>6
<1> QED BY <1>2, <1>8, <1>9

Above(e, par, key, n) == {j \in 1 .. n : ~ (j > 1 /\ e[par[j]] > key)}

LEMMA SiftedUp ==
  ASSUME NEW n \in Nat, NEW e \in [1 .. n -> Nat], NEW key \in Nat, NEW par, Tree(par, n),
         NEW f, Sifts(f, n, e, key, par, Above(e, par, key, n)), NEW i \in 1 .. n,
         \A c \in 2 .. n : c # i => e[par[c]] <= e[c],
         \A c \in 2 .. n : par[c] = i => key <= e[c] /\ (i > 1 => e[par[i]] <= e[c])
  PROVE  /\ f[i] \in [1 .. n -> Nat] /\ Ordered(f[i], n, par)
         /\ \E p, q : Permutes(f[i], [e EXCEPT ![i] = key], n, p, q)
<1> DEFINE Stop == Above(e, par, key, n)
<1>1. PICK rank \in [1 .. n -> Nat] : rank = [j \in 1 .. n |-> j]
  <2>1. [j \in 1 .. n |-> j] \in [1 .. n -> Nat]
    OBVIOUS
  <2> QED BY <2>1
<1>2. \A j \in (1 .. n) \ Stop : par[j] \in 1 .. n /\ rank[par[j]] < rank[j]
  <2> SUFFICES ASSUME NEW j \in (1 .. n) \ Stop PROVE par[j] \in 1 .. n /\ rank[par[j]] < rank[j]
    OBVIOUS
  <2>1. j \in 2 .. n
    BY DEF Above
  <2> QED BY <1>1, <2>1 DEF Tree
<1>3. Stop = {j \in 1 .. n : ~ (j > 1 /\ e[par[j]] > key)}
  BY DEF Above
<1> HIDE DEF Stop
<1>4. f[i] \in [1 .. n -> Nat] /\ \E p, q : Permutes(f[i], [e EXCEPT ![i] = key], n, p, q)
  <2>1. Sifts(f, n, e, key, par, Stop)
    BY DEF Stop
  <2> QED BY <1>2, <2>1, SiftPermutes
<1>5. \E s, M : Path(f[i], n, e, key, par, Stop, rank, i, s, M)
  <2>1. Sifts(f, n, e, key, par, Stop)
    BY DEF Stop
  <2> QED BY <1>2, <2>1, SiftPath
<1>6. PICK s, M : Path(f[i], n, e, key, par, Stop, rank, i, s, M)
  BY <1>5
<1>7. Ordered(f[i], n, par)
  BY <1>1, <1>3, <1>6, UpKeepsOrder
<1> QED BY <1>4, <1>7

\* What is inserted is put at the end and sifted up.
Pushes(f, d, key, par, n, e) ==
  /\ d \in Seq(Nat) /\ key \in Nat /\ n = Len(d) + 1 /\ e = Append(d, key)
  /\ Tree(par, n) /\ Ordered(d, n - 1, par)
  /\ Sifts(f, n, e, key, par, Above(e, par, key, n))

LEMMA PushedHeap ==
  ASSUME NEW f, NEW d, NEW key, NEW par, NEW n, NEW e, Pushes(f, d, key, par, n, e)
  PROVE  /\ f[n] \in Seq(Nat) /\ Len(f[n]) = n /\ Ordered(f[n], n, par)
         /\ Values(f[n]) = Values(d) \cup {key}
         /\ Distinct(d) /\ key \notin Values(d) => Distinct(f[n])
<1> USE DEF Pushes
<1>1. n \in Nat \ {0} /\ n \in 1 .. n /\ Len(d) = n - 1
  OBVIOUS
<1>2. e \in [1 .. n -> Nat] /\ e[n] = key /\ \A k \in 1 .. n - 1 : e[k] = d[k]
  <2>1. e \in Seq(Nat) /\ Len(e) = n
    BY AppendProperties
  <2>2. e[n] = key
    BY AppendProperties
  <2>3. \A k \in 1 .. n - 1 : e[k] = d[k]
    BY <1>1, AppendProperties
  <2>4. e \in [1 .. n -> Nat]
    <3> HIDE <2>2, <2>3
    <3>1. PICK r \in Seq(Nat) : r = e /\ Len(r) = n
      BY <2>1
    <3> QED BY ONLY <3>1
  <2> QED BY <2>2, <2>3, <2>4
<1>3. \A c \in 2 .. n : c # n => e[par[c]] <= e[c]
  <2> SUFFICES ASSUME NEW c \in 2 .. n, c # n PROVE e[par[c]] <= e[c]
    OBVIOUS
  <2>a. c \in 2 .. n - 1
    BY <1>1
  <2>1. c \in 1 .. n - 1 /\ par[c] \in 1 .. n - 1
    BY <1>1, <2>a DEF Tree
  <2> QED BY <1>2, <2>a, <2>1 DEF Ordered
<1>4. \A c \in 2 .. n : par[c] # n
  BY <1>1 DEF Tree
<1>5. f[n] \in [1 .. n -> Nat] /\ Ordered(f[n], n, par)
      /\ \E p, q : Permutes(f[n], [e EXCEPT ![n] = key], n, p, q)
  <2>1. n \in Nat /\ n \in 1 .. n /\ e \in [1 .. n -> Nat]
    BY <1>1, <1>2
  <2>2. \A c \in 2 .. n : par[c] = n => key <= e[c] /\ (n > 1 => e[par[n]] <= e[c])
    BY <1>4
  <2>3. Sifts(f, n, e, key, par, Above(e, par, key, n)) /\ Tree(par, n) /\ key \in Nat
    OBVIOUS
  <2> HIDE DEF Above, Tree, Sifts
  <2> QED BY ONLY <1>3, <2>1, <2>2, <2>3, SiftedUp
<1>6. [e EXCEPT ![n] = key] = e
  BY <1>2
<1>7. /\ f[n] \in Seq(Nat) /\ Len(f[n]) = n /\ Values(f[n]) = {e[k] : k \in 1 .. n}
      /\ (\A j, k \in 1 .. n : e[j] = e[k] => j = k) => Distinct(f[n])
  <2>1. PICK g \in [1 .. n -> Nat] : g = f[n]
    BY <1>5
  <2>2. \E p, q : Permutes(g, e, n, p, q)
    <3>1. \E p, q : Permutes(f[n], [e EXCEPT ![n] = key], n, p, q)
      BY <1>5
    <3> QED BY ONLY <1>6, <2>1, <3>1
  <2>3. /\ g \in Seq(Nat) /\ Len(g) = n /\ Values(g) = {e[k] : k \in 1 .. n}
        /\ (\A j, k \in 1 .. n : e[j] = e[k] => j = k) => Distinct(g)
    BY <1>1, <1>2, <2>2, PermutedValues
  <2> QED BY <2>1, <2>3
<1>8. {e[k] : k \in 1 .. n} = Values(d) \cup {key}
  <2>1. \A k \in 1 .. n : k = n \/ k \in 1 .. n - 1
    BY <1>1
  <2>2. \A k \in 1 .. n - 1 : k \in 1 .. n
    BY <1>1
  <2> QED BY <1>1, <1>2, <2>1, <2>2 DEF Values
<1>9. ASSUME Distinct(d), key \notin Values(d), NEW j \in 1 .. n, NEW k \in 1 .. n, e[j] = e[k]
      PROVE  j = k
  <2>1. \A l \in 1 .. n : l # n => l \in 1 .. Len(d) /\ e[l] = d[l] /\ e[l] # key
    BY <1>1, <1>2, <1>9 DEF Values
  <2> QED BY <1>2, <1>9, <2>1 DEF Distinct
<1> QED BY <1>5, <1>7, <1>8, <1>9

\* What is decreased is sifted up from where it is.
Lowers(f, d, i, key, par, n) ==
  /\ d \in Seq(Nat) /\ key \in Nat /\ n = Len(d) /\ i \in 1 .. n /\ key <= d[i]
  /\ Tree(par, n) /\ Ordered(d, n, par)
  /\ Sifts(f, n, d, key, par, Above(d, par, key, n))

LEMMA LoweredHeap ==
  ASSUME NEW f, NEW d, NEW i, NEW key, NEW par, NEW n, Lowers(f, d, i, key, par, n)
  PROVE  /\ f[i] \in Seq(Nat) /\ Len(f[i]) = n /\ Ordered(f[i], n, par)
         /\ Distinct(d) => Values(f[i]) = (Values(d) \ {d[i]}) \cup {key}
         /\ Distinct(d) /\ key \notin Values(d) \ {d[i]} => Distinct(f[i])
<1> USE DEF Lowers
<1>1. n \in Nat /\ d \in [1 .. n -> Nat] /\ 1 .. n = 1 .. Len(d)
  OBVIOUS
<1>2. \A c \in 2 .. n : d[par[c]] <= d[c] /\ par[c] \in 1 .. n /\ d[c] \in Nat /\ d[par[c]] \in Nat
  BY <1>1 DEF Ordered, Tree
<1>3. \A c \in 2 .. n : par[c] = i => key <= d[c] /\ (i > 1 => d[par[i]] <= d[c])
  <2> SUFFICES ASSUME NEW c \in 2 .. n, par[c] = i
               PROVE  key <= d[c] /\ (i > 1 => d[par[i]] <= d[c])
    OBVIOUS
  <2>1. d[i] <= d[c] /\ d[i] \in Nat /\ d[c] \in Nat
    BY <1>1, <1>2
  <2>2. i > 1 => d[par[i]] <= d[i] /\ d[par[i]] \in Nat
    BY <1>1, <1>2
  <2> QED BY <2>1, <2>2
<1>4. f[i] \in [1 .. n -> Nat] /\ Ordered(f[i], n, par)
      /\ \E p, q : Permutes(f[i], [d EXCEPT ![i] = key], n, p, q)
  BY <1>1, <1>2, <1>3, SiftedUp
<1>5. PICK e \in [1 .. n -> Nat] : e = [d EXCEPT ![i] = key]
  BY <1>1
<1>6. /\ f[i] \in Seq(Nat) /\ Len(f[i]) = n /\ Values(f[i]) = {e[k] : k \in 1 .. n}
      /\ (\A j, k \in 1 .. n : e[j] = e[k] => j = k) => Distinct(f[i])
  <2>1. PICK g \in [1 .. n -> Nat] : g = f[i]
    BY <1>4
  <2>2. \E p, q : Permutes(g, e, n, p, q)
    BY <1>4, <1>5, <2>1
  <2>3. /\ g \in Seq(Nat) /\ Len(g) = n /\ Values(g) = {e[k] : k \in 1 .. n}
        /\ (\A j, k \in 1 .. n : e[j] = e[k] => j = k) => Distinct(g)
    <3>1. PICK p, q : Permutes(g, e, n, p, q)
      BY <2>2
    <3>2. n \in Nat
      BY <1>1
    <3> QED BY ONLY <3>1, <3>2, g \in [1 .. n -> Nat], e \in [1 .. n -> Nat], PermutedValues
  <2> QED BY <2>1, <2>3
<1>7. \A k \in 1 .. n : e[k] = IF k = i THEN key ELSE d[k]
  BY <1>1, <1>5
<1>8. ASSUME Distinct(d)
      PROVE  {e[k] : k \in 1 .. n} = (Values(d) \ {d[i]}) \cup {key}
  <2>1. \A k \in 1 .. n : k # i => d[k] # d[i]
    BY <1>8 DEF Distinct
  <2> QED BY <1>7, <2>1 DEF Values
<1>9. ASSUME Distinct(d), key \notin Values(d) \ {d[i]}, NEW j \in 1 .. n, NEW k \in 1 .. n, e[j] = e[k]
      PROVE  j = k
  <2>1. \A l \in 1 .. n : l # i => e[l] # key
    BY <1>7, <1>9 DEF Values, Distinct
  <2> QED BY <1>7, <1>9, <2>1 DEF Distinct
<1> QED BY <1>4, <1>6, <1>8, <1>9

\* The last cell is emptied into the first, and sifted down from there.
Pops(f, d, par, n, e, next, Stop) ==
  /\ d \in Seq(Nat) /\ n \in Nat \ {0} /\ Len(d) = n + 1
  /\ Tree(par, n + 1) /\ Ordered(d, n + 1, par)
  /\ e \in [1 .. n -> Nat] /\ e[1] = d[n + 1] /\ \A k \in 2 .. n : e[k] = d[k]
  /\ Sifts(f, n, e, e[1], next, Stop)
  /\ \A j \in (1 .. n) \ Stop : next[j] \in 2 .. n /\ par[next[j]] = j /\ e[next[j]] <= e[1]
  /\ \A c \in 2 .. n : IF par[c] \in Stop THEN e[1] <= e[c] ELSE e[next[par[c]]] <= e[c]

LEMMA PoppedHeap ==
  ASSUME NEW f, NEW d, NEW par, NEW n, NEW e, NEW next, NEW Stop, Pops(f, d, par, n, e, next, Stop)
  PROVE  /\ f[1] \in Seq(Nat) /\ Len(f[1]) = n /\ Ordered(f[1], n, par)
         /\ Distinct(d) => Values(f[1]) = Values(d) \ {d[1]} /\ Distinct(f[1])
<1> USE DEF Pops
<1>1. PICK rank \in [1 .. n -> Nat] : rank = [j \in 1 .. n |-> n - j]
  <2>1. [j \in 1 .. n |-> n - j] \in [1 .. n -> Nat]
    OBVIOUS
  <2> QED BY <2>1
<1>2. n \in Nat /\ 1 \in 1 .. n /\ Tree(par, n)
  BY DEF Tree
<1>3. \A j \in (1 .. n) \ Stop : next[j] \in 1 .. n /\ rank[next[j]] < rank[j]
  <2> SUFFICES ASSUME NEW j \in (1 .. n) \ Stop PROVE next[j] \in 1 .. n /\ rank[next[j]] < rank[j]
    OBVIOUS
  <2>1. PICK c \in 2 .. n : c = next[j] /\ par[c] = j
    OBVIOUS
  <2>2. j < c
    BY <1>2, <2>1 DEF Tree
  <2>3. rank[c] = n - c /\ rank[j] = n - j
    BY <1>1
  <2>4. n - c < n - j /\ c \in 1 .. n
    BY <1>2, <2>2
  <2> QED BY ONLY <2>1, <2>3, <2>4
<1>4. \A c \in 2 .. n : par[c] # 1 => e[par[c]] <= e[c]
  <2> SUFFICES ASSUME NEW c \in 2 .. n, par[c] # 1 PROVE e[par[c]] <= e[c]
    OBVIOUS
  <2>1. c \in 2 .. n + 1 /\ par[c] \in 2 .. n
    BY <1>2 DEF Tree
  <2>2. d[par[c]] <= d[c]
    BY <2>1 DEF Ordered
  <2> QED BY <2>1, <2>2
<1>5. e[1] \in Nat
  BY <1>2
<1>6. f[1] \in [1 .. n -> Nat] /\ \E p, q : Permutes(f[1], [e EXCEPT ![1] = e[1]], n, p, q)
  <2> HIDE DEF Sifts
  <2> QED BY <1>2, <1>3, <1>5, SiftPermutes
<1>7. \E s, M : Path(f[1], n, e, e[1], next, Stop, rank, 1, s, M)
  <2> HIDE DEF Sifts, Path
  <2> QED BY <1>2, <1>3, <1>5, SiftPath
<1>8. PICK s, M : Path(f[1], n, e, e[1], next, Stop, rank, 1, s, M)
  BY <1>7
<1>9. Ordered(f[1], n, par)
  <2> HIDE DEF Ordered, Path, Tree
  <2> QED BY <1>2, <1>4, <1>5, <1>8, DownKeepsOrder
<1>10. [e EXCEPT ![1] = e[1]] = e
  OBVIOUS
<1>11. /\ f[1] \in Seq(Nat) /\ Len(f[1]) = n /\ Values(f[1]) = {e[k] : k \in 1 .. n}
       /\ (\A j, k \in 1 .. n : e[j] = e[k] => j = k) => Distinct(f[1])
  <2>1. PICK g \in [1 .. n -> Nat] : g = f[1]
    BY <1>6
  <2>2. \E p, q : Permutes(g, e, n, p, q)
    <3>1. PICK p, q : Permutes(f[1], [e EXCEPT ![1] = e[1]], n, p, q)
      BY <1>6
    <3>2. Permutes(g, e, n, p, q)
      BY <1>10, <2>1, <3>1 DEF Permutes
    <3> QED BY <3>2
  <2>3. /\ g \in Seq(Nat) /\ Len(g) = n /\ Values(g) = {e[k] : k \in 1 .. n}
        /\ (\A j, k \in 1 .. n : e[j] = e[k] => j = k) => Distinct(g)
    BY <1>2, <2>2, PermutedValues
  <2> QED BY <2>1, <2>3
<1>12. ASSUME Distinct(d)
       PROVE  /\ {e[k] : k \in 1 .. n} = Values(d) \ {d[1]}
              /\ \A j, k \in 1 .. n : e[j] = e[k] => j = k
  <2>1. \A j, k \in 1 .. n + 1 : d[j] = d[k] => j = k
    BY <1>12 DEF Distinct
  <2>2. \A k \in 1 .. n : e[k] = IF k = 1 THEN d[n + 1] ELSE d[k]
    OBVIOUS
  <2>3. Values(d) = {d[k] : k \in 1 .. n + 1}
    BY DEF Values
  <2>4. \A k \in 1 .. n : e[k] \in Values(d) \ {d[1]}
    BY <2>1, <2>2, <2>3
  <2>5. \A k \in 1 .. n + 1 : d[k] # d[1] => \E j \in 1 .. n : e[j] = d[k]
    <3> SUFFICES ASSUME NEW k \in 1 .. n + 1, d[k] # d[1] PROVE \E j \in 1 .. n : e[j] = d[k]
      OBVIOUS
    <3>1. CASE k = n + 1
      BY <1>2, <2>2, <3>1
    <3>2. CASE k # n + 1
      BY <2>2, <3>2
    <3> QED BY <3>1, <3>2
  <2>6. \A j, k \in 1 .. n : e[j] = e[k] => j = k
    BY <2>1, <2>2
  <2>7. {e[k] : k \in 1 .. n} = Values(d) \ {d[1]}
    <3>1. PICK W : W = Values(d) \ {d[1]}
      OBVIOUS
    <3>2. \A v \in W : \E j \in 1 .. n : e[j] = v
      BY <2>3, <2>5, <3>1
    <3>3. \A k \in 1 .. n : e[k] \in W
      BY <2>4, <3>1
    <3>4. {e[k] : k \in 1 .. n} = W
      BY ONLY <3>2, <3>3
    <3> QED BY <3>1, <3>4
  <2> QED BY <2>6, <2>7
<1> QED BY <1>9, <1>11, <1>12
=============================================================================
