------------------------- MODULE PairingHeap_proofs -------------------------
(***************************************************************************)
(* Of the pairing heap, for any finite set of nodes and any keys: it is    *)
(* one tree in heap order of all nodes allocated, and its pointers agree.  *)
(***************************************************************************)
EXTENDS PairingHeap, SequenceLemmas, FiniteSetTheorems

Pointer == Node \cup {NULL}
Cell == [child : Pointer, next : Pointer, prev : Pointer, key : Key]
Memory == [Node -> Cell]
State == [mem : Memory, root : Pointer, size : Int]

-----------------------------------------------------------------------------
(* Loops.                                                                  *)

(* Induction along a loop.                                                 *)
LEMMA LoopInduction ==
  ASSUME NEW n \in Nat, NEW I, 0 \in I,
         \A i \in 1 .. n : i - 1 \in I => i \in I
  PROVE  \A i \in 0 .. n : i \in I
<1> DEFINE Bad == {i \in 0 .. n : i \notin I}
<1> SUFFICES ASSUME Bad # {} PROVE FALSE
  OBVIOUS
<1>1. PICK i \in Bad : \A j \in Bad : i <= j
  <2>1. Bad \in SUBSET Nat
    OBVIOUS
  <2> HIDE DEF Bad
  <2> QED BY <2>1, SmallestElement
<1>2. i \in 1 .. n /\ i - 1 \notin Bad /\ i - 1 \in 0 .. n
  BY <1>1
<1> QED BY <1>1, <1>2

(* The loop goes on from each value to the next.                           *)
Iterates(f, n, V, start, step) ==
  f \in [0 .. n -> V] /\ f[0] = start /\ \A i \in 1 .. n : f[i] = step[f[i - 1]]

(* A loop whose iterations stay among the values V has a value after each  *)
(* of them.                                                                *)
LEMMA LoopExists ==
  ASSUME NEW n \in Nat, NEW V, NEW start \in V, NEW step \in [V -> V]
  PROVE  \E f : Iterates(f, n, V, start, step)
<1> DEFINE Upto(f, k) == \A i \in 0 .. n : i <= k => f[i] = IF i = 0 THEN start ELSE step[f[i - 1]]
           I == {k \in 0 .. n : \E f \in [0 .. n -> V] : Upto(f, k)}
<1>1. 0 \in I
  <2>1. [i \in 0 .. n |-> start] \in [0 .. n -> V] /\ Upto([i \in 0 .. n |-> start], 0)
    OBVIOUS
  <2> QED BY <2>1
<1>2. ASSUME NEW k \in 1 .. n, k - 1 \in I PROVE k \in I
  <2>1. PICK f \in [0 .. n -> V] : Upto(f, k - 1)
    BY <1>2
  <2> DEFINE g == [f EXCEPT ![k] = step[f[k - 1]]]
  <2>2. g \in [0 .. n -> V]
    OBVIOUS
  <2>3. Upto(g, k)
    BY <2>1
  <2> HIDE DEF g, Upto
  <2>4. \E f2 \in [0 .. n -> V] : Upto(f2, k)
    BY <2>2, <2>3
  <2> QED BY <2>4
<1>3. n \in I
  <2> HIDE DEF I
  <2> QED BY <1>1, <1>2, LoopInduction
<1>4. PICK f \in [0 .. n -> V] : Upto(f, n)
  BY <1>3
<1>5. Iterates(f, n, V, start, step)
  BY <1>4 DEF Iterates
<1> QED BY <1>5

-----------------------------------------------------------------------------
(* What the assignments do to the fields.                                  *)

LEMMA SetChild ==
  ASSUME NEW s \in State, NEW n \in Node, NEW v \in Pointer
  PROVE  LET t == Set(s, n, "child", v)
         IN  /\ t \in State /\ t.root = s.root /\ t.size = s.size
             /\ \A x \in Node : /\ t.mem[x].child = IF x = n THEN v ELSE s.mem[x].child
                                /\ t.mem[x].next = s.mem[x].next
                                /\ t.mem[x].prev = s.mem[x].prev
                                /\ t.mem[x].key = s.mem[x].key
BY DEF Set, State, Memory, Cell

LEMMA SetNext ==
  ASSUME NEW s \in State, NEW n \in Node, NEW v \in Pointer
  PROVE  LET t == Set(s, n, "next", v)
         IN  /\ t \in State /\ t.root = s.root /\ t.size = s.size
             /\ \A x \in Node : /\ t.mem[x].child = s.mem[x].child
                                /\ t.mem[x].next = IF x = n THEN v ELSE s.mem[x].next
                                /\ t.mem[x].prev = s.mem[x].prev
                                /\ t.mem[x].key = s.mem[x].key
BY DEF Set, State, Memory, Cell

LEMMA SetPrev ==
  ASSUME NEW s \in State, NEW n \in Node, NEW v \in Pointer
  PROVE  LET t == Set(s, n, "prev", v)
         IN  /\ t \in State /\ t.root = s.root /\ t.size = s.size
             /\ \A x \in Node : /\ t.mem[x].child = s.mem[x].child
                                /\ t.mem[x].next = s.mem[x].next
                                /\ t.mem[x].prev = IF x = n THEN v ELSE s.mem[x].prev
                                /\ t.mem[x].key = s.mem[x].key
BY DEF Set, State, Memory, Cell

(* n->prev->child or n->prev->next, and n->next->prev.                     *)
CutOut(m, t, n) ==
  LET q == m[n].prev
  IN  \A x \in Node :
        /\ t[x].child = IF x = q /\ m[q].child = n THEN m[n].next ELSE m[x].child
        /\ t[x].next = IF x = q /\ m[q].child # n THEN m[n].next ELSE m[x].next
        /\ t[x].prev = IF x = m[n].next THEN q ELSE m[x].prev
        /\ t[x].key = m[x].key

LEMMA CutWrites ==
  ASSUME NEW s \in State, NEW n \in Node, s.mem[n].prev \in Node
  PROVE  LET t == Cut(s, n)
         IN  t \in State /\ t.root = s.root /\ t.size = s.size /\ CutOut(s.mem, t.mem, n)
<1> DEFINE q == s.mem[n].prev
           next == s.mem[n].next
           s1 == Set(s, q, IF s.mem[q].child = n THEN "child" ELSE "next", next)
<1>1. next \in Pointer /\ q \in Node /\ q \in Pointer
  BY DEF State, Memory, Cell, Pointer
<1>2. /\ s1 \in State /\ s1.root = s.root /\ s1.size = s.size
      /\ \A x \in Node :
           /\ s1.mem[x].child = IF x = q /\ s.mem[q].child = n THEN next ELSE s.mem[x].child
           /\ s1.mem[x].next = IF x = q /\ s.mem[q].child # n THEN next ELSE s.mem[x].next
           /\ s1.mem[x].prev = s.mem[x].prev
           /\ s1.mem[x].key = s.mem[x].key
  <2> HIDE DEF q, next
  <2>1. CASE s.mem[q].child = n
    <3>1. s1 = Set(s, q, "child", next)
      BY <2>1 DEF s1
    <3> QED BY <1>1, <2>1, <3>1, SetChild
  <2>2. CASE s.mem[q].child # n
    <3>1. s1 = Set(s, q, "next", next)
      BY <2>2 DEF s1
    <3> QED BY <1>1, <2>2, <3>1, SetNext
  <2> QED BY <2>1, <2>2
<1>3. Cut(s, n) = IF next \in DOMAIN s1.mem THEN Set(s1, next, "prev", s1.mem[n].prev) ELSE s1
  BY DEF Cut, SetIf
<1>4. DOMAIN s1.mem = Node /\ s1.mem[n].prev = q
  BY <1>2 DEF State, Memory
<1> HIDE DEF q, next, s1
<1>5. CASE next \in Node
  <2>1. Cut(s, n) = Set(s1, next, "prev", q)
    BY <1>3, <1>4, <1>5
  <2> DEFINE t == Set(s1, next, "prev", q)
  <2>2. /\ t \in State /\ t.root = s1.root /\ t.size = s1.size
        /\ \A x \in Node : /\ t.mem[x].child = s1.mem[x].child
                           /\ t.mem[x].next = s1.mem[x].next
                           /\ t.mem[x].prev = IF x = next THEN q ELSE s1.mem[x].prev
                           /\ t.mem[x].key = s1.mem[x].key
    BY <1>1, <1>2, <1>5, SetPrev
  <2> HIDE DEF t
  <2>3. t \in State /\ t.root = s.root /\ t.size = s.size /\ CutOut(s.mem, t.mem, n)
    BY <1>2, <2>2 DEF CutOut, q, next
  <2> QED BY <2>1, <2>3 DEF t
<1>6. CASE next = NULL
  <2>1. Cut(s, n) = s1
    BY <1>3, <1>4, <1>6, NullAssumption
  <2> QED BY <1>1, <1>2, <1>6, <2>1, NullAssumption DEF CutOut, q, next
<1> QED BY <1>1, <1>5, <1>6 DEF Pointer

(* The node c becomes the first child of p.                                *)
Joined(m, t, p, c) ==
  \A x \in Node :
    /\ t[x].child = IF x = p THEN c ELSE m[x].child
    /\ t[x].next = IF x = p THEN NULL ELSE IF x = c THEN m[p].child ELSE m[x].next
    /\ t[x].prev = IF x = p THEN NULL ELSE IF x = c THEN p
                   ELSE IF x = m[p].child THEN c ELSE m[x].prev
    /\ t[x].key = m[x].key

LEMMA MergeWrites ==
  ASSUME NEW s \in State, NEW a \in Node, NEW b \in Node, a # b
  PROVE  LET r == merge(s, a, b)
         IN  /\ r.s \in State /\ r.s.root = s.root /\ r.s.size = s.size
             /\ \E p, c \in {a, b} : /\ r.root = p /\ p # c /\ s.mem[p].key <= s.mem[c].key
                                     /\ Joined(s.mem, r.s.mem, p, c)
<1> DEFINE p == IF s.mem[b].key < s.mem[a].key THEN b ELSE a
           c == IF p = a THEN b ELSE a
           first == s.mem[p].child
           s0 == Set(s, c, "next", first)
           s1 == SetIf(s0, first, "prev", c)
           s2 == [s1 EXCEPT !.mem[c].prev = p, !.mem[p].child = c,
                            !.mem[p].next = NULL, !.mem[p].prev = NULL]
<1>1. merge(s, a, b) = [s |-> s2, root |-> p]
  BY NullAssumption DEF merge
<1>2. p \in Node /\ c \in Node /\ p # c /\ s.mem[p].key <= s.mem[c].key /\ p \in {a, b} /\ c \in {a, b}
  <2>1. s.mem[a].key \in Nat /\ s.mem[b].key \in Nat
    BY KeyAssumption DEF State, Memory, Cell
  <2>2. CASE s.mem[b].key < s.mem[a].key
    <3>1. p = b /\ c = a
      BY <2>2
    <3> QED BY <2>1, <2>2, <3>1
  <2>3. CASE ~ (s.mem[b].key < s.mem[a].key)
    <3>1. p = a /\ c = b
      BY <2>3
    <3> QED BY <2>1, <2>3, <3>1
  <2> QED BY <2>2, <2>3
<1> HIDE DEF p, c
<1>3. first \in Pointer
  BY <1>2 DEF State, Memory, Cell
<1>4. /\ s0 \in State /\ s0.root = s.root /\ s0.size = s.size
      /\ \A x \in Node : /\ s0.mem[x].child = s.mem[x].child
                         /\ s0.mem[x].next = IF x = c THEN first ELSE s.mem[x].next
                         /\ s0.mem[x].prev = s.mem[x].prev
                         /\ s0.mem[x].key = s.mem[x].key
  <2> HIDE DEF first
  <2>1. s \in State /\ c \in Node /\ first \in Pointer
    BY <1>2, <1>3
  <2> QED BY ONLY <2>1, SetNext
<1>5. /\ s1 \in State /\ s1.root = s.root /\ s1.size = s.size
      /\ \A x \in Node : /\ s1.mem[x].child = s.mem[x].child
                         /\ s1.mem[x].next = IF x = c THEN first ELSE s.mem[x].next
                         /\ s1.mem[x].prev = IF x = first THEN c ELSE s.mem[x].prev
                         /\ s1.mem[x].key = s.mem[x].key
  <2> HIDE DEF s0, first
  <2>1. DOMAIN s0.mem = Node
    BY <1>4 DEF State, Memory
  <2>2. CASE first \in Node
    <3>1. s1 = Set(s0, first, "prev", c) /\ c \in Pointer
      BY <1>2, <2>1, <2>2 DEF SetIf, Pointer
    <3> QED BY <1>4, <2>2, <3>1, SetPrev
  <2>3. CASE first \notin Node
    <3>1. s1 = s0
      BY <2>1, <2>3 DEF SetIf
    <3> QED BY <1>4, <2>3, <3>1
  <2> QED BY <2>2, <2>3
<1> HIDE DEF s0, s1, first
<1>6. s2 = Set(Set(Set(Set(s1, c, "prev", p), p, "child", c), p, "next", NULL), p, "prev", NULL)
  BY DEF Set
<1>7. /\ s2 \in State /\ s2.root = s1.root /\ s2.size = s1.size
      /\ \A x \in Node :
           /\ s2.mem[x].child = IF x = p THEN c ELSE s1.mem[x].child
           /\ s2.mem[x].next = IF x = p THEN NULL ELSE s1.mem[x].next
           /\ s2.mem[x].prev = IF x = p THEN NULL ELSE IF x = c THEN p ELSE s1.mem[x].prev
           /\ s2.mem[x].key = s1.mem[x].key
  <2> DEFINE t1 == Set(s1, c, "prev", p)
             t2 == Set(t1, p, "child", c)
             t3 == Set(t2, p, "next", NULL)
             t4 == Set(t3, p, "prev", NULL)
  <2>0. p \in Pointer /\ c \in Pointer /\ NULL \in Pointer
    BY <1>2 DEF Pointer
  <2>1. /\ t1 \in State /\ t1.root = s1.root /\ t1.size = s1.size
        /\ \A x \in Node : /\ t1.mem[x].child = s1.mem[x].child
                           /\ t1.mem[x].next = s1.mem[x].next
                           /\ t1.mem[x].prev = IF x = c THEN p ELSE s1.mem[x].prev
                           /\ t1.mem[x].key = s1.mem[x].key
    BY <1>2, <1>5, <2>0, SetPrev
  <2> HIDE DEF t1
  <2>2. /\ t2 \in State /\ t2.root = t1.root /\ t2.size = t1.size
        /\ \A x \in Node : /\ t2.mem[x].child = IF x = p THEN c ELSE t1.mem[x].child
                           /\ t2.mem[x].next = t1.mem[x].next
                           /\ t2.mem[x].prev = t1.mem[x].prev
                           /\ t2.mem[x].key = t1.mem[x].key
    BY <1>2, <2>0, <2>1, SetChild
  <2> HIDE DEF t2
  <2>3. /\ t3 \in State /\ t3.root = t2.root /\ t3.size = t2.size
        /\ \A x \in Node : /\ t3.mem[x].child = t2.mem[x].child
                           /\ t3.mem[x].next = IF x = p THEN NULL ELSE t2.mem[x].next
                           /\ t3.mem[x].prev = t2.mem[x].prev
                           /\ t3.mem[x].key = t2.mem[x].key
    BY <1>2, <2>0, <2>2, SetNext
  <2> HIDE DEF t3
  <2>4. /\ t4 \in State /\ t4.root = t3.root /\ t4.size = t3.size
        /\ \A x \in Node : /\ t4.mem[x].child = t3.mem[x].child
                           /\ t4.mem[x].next = t3.mem[x].next
                           /\ t4.mem[x].prev = IF x = p THEN NULL ELSE t3.mem[x].prev
                           /\ t4.mem[x].key = t3.mem[x].key
    BY <1>2, <2>0, <2>3, SetPrev
  <2>5. s2 = t4
    BY <1>6 DEF t1, t2, t3
  <2> HIDE DEF t4, s2
  <2>6. s2 \in State /\ s2.root = s1.root /\ s2.size = s1.size
    BY <2>1, <2>2, <2>3, <2>4, <2>5
  <2>7. ASSUME NEW x \in Node
        PROVE  /\ s2.mem[x].child = IF x = p THEN c ELSE s1.mem[x].child
               /\ s2.mem[x].next = IF x = p THEN NULL ELSE s1.mem[x].next
               /\ s2.mem[x].prev = IF x = p THEN NULL ELSE IF x = c THEN p ELSE s1.mem[x].prev
               /\ s2.mem[x].key = s1.mem[x].key
    BY <2>1, <2>2, <2>3, <2>4, <2>5
  <2> QED BY <2>6, <2>7
<1> HIDE DEF s2
<1>8. Joined(s.mem, s2.mem, p, c)
  BY <1>2, <1>5, <1>7 DEF Joined, first
<1>9. \E p2, c2 \in {a, b} : /\ p = p2 /\ p2 # c2 /\ s.mem[p2].key <= s.mem[c2].key
                             /\ Joined(s.mem, s2.mem, p2, c2)
  BY <1>2, <1>8
<1> QED BY <1>1, <1>5, <1>7, <1>9

-----------------------------------------------------------------------------
(* Trees.  Seen through child and next the nodes L are the vertices of     *)
(* binary trees: up[x] is the node that points to x, NULL for the roots of *)
(* these trees; par[x] is the node in whose list of children x is, NULL    *)
(* for the trees of the heap.  The next of a root is part of its tree, its *)
(* prev may be anything.                                                   *)

NoCycle(L, up) == \A S \in SUBSET L : S # {} => \E x \in S : up[x] \notin S

Down(m, L, up, par) ==
  \A x \in L :
    /\ m[x].child \in L \cup {NULL} /\ m[x].next \in L \cup {NULL}
    /\ m[x].child # NULL => up[m[x].child] = x /\ par[m[x].child] = x
    /\ m[x].next # NULL => up[m[x].next] = x /\ par[m[x].next] = par[x] /\ m[x].next # m[x].child

Back(m, L, up, par) ==
  \A x \in L : IF up[x] = NULL THEN par[x] = NULL
               ELSE m[x].prev = up[x] /\ x \in {m[up[x]].child, m[up[x]].next}

KeysAscend(m, L, par) == \A x \in L : par[x] # NULL => m[par[x]].key <= m[x].key

Forest(m, L, up, par) ==
  /\ m \in Memory /\ L \in SUBSET Node
  /\ up \in [L -> L \cup {NULL}] /\ par \in [L -> L \cup {NULL}]
  /\ Down(m, L, up, par) /\ Back(m, L, up, par)
  /\ KeysAscend(m, L, par)
  /\ NoCycle(L, up)

LEMMA KeyIsNat ==
  ASSUME NEW m \in Memory, NEW x \in Node
  PROVE  m[x].key \in Nat
BY KeyAssumption DEF Memory, Cell

(* The next of a root is taken off, which makes it another root.           *)
Detached(m, t, L, up, a) ==
  \A x \in L :
    /\ t[x].child = m[x].child /\ t[x].key = m[x].key
    /\ t[x].next = IF x = a THEN NULL ELSE m[x].next
    /\ up[x] # NULL /\ x # m[a].next => t[x].prev = m[x].prev

LEMMA DetachForest ==
  ASSUME NEW m, NEW L, NEW up, NEW par, Forest(m, L, up, par),
         NEW a \in L, up[a] = NULL, NEW t \in Memory, Detached(m, t, L, up, a)
  PROVE  \E up2 : /\ Forest(t, L, up2, par)
                  /\ \A x \in L : up2[x] = NULL <=> up[x] = NULL \/ x = m[a].next
<1> DEFINE b == m[a].next
           up2 == [x \in L |-> IF x = b THEN NULL ELSE up[x]]
<1>1. /\ up2 \in [L -> L \cup {NULL}] /\ NULL \notin L
      /\ \A x \in L : up2[x] = IF x = b THEN NULL ELSE up[x]
  BY NullAssumption DEF Forest
<1> HIDE DEF up2, b
<1>2. Down(t, L, up2, par)
  BY <1>1 DEF Forest, Down, Detached, b
<1>3. Back(t, L, up2, par)
  BY <1>1 DEF Forest, Down, Back, Detached, b
<1>4. KeysAscend(t, L, par)
  BY DEF Forest, KeysAscend, Detached
<1>5. NoCycle(L, up2)
  BY <1>1 DEF Forest, NoCycle
<1>6. Forest(t, L, up2, par)
  BY <1>1, <1>2, <1>3, <1>4, <1>5 DEF Forest
<1>7. \A x \in L : up2[x] = NULL <=> up[x] = NULL \/ x = b
  BY <1>1
<1> QED BY <1>6, <1>7 DEF b

(* Two trees become one.                                                   *)
LEMMA JoinForest ==
  ASSUME NEW m, NEW L, NEW up, NEW par, Forest(m, L, up, par),
         NEW p \in L, NEW c \in L, p # c, up[p] = NULL, up[c] = NULL,
         m[p].next = NULL, m[c].next = NULL, m[p].key <= m[c].key,
         NEW t \in Memory, Joined(m, t, p, c)
  PROVE  \E up2, par2 : /\ Forest(t, L, up2, par2)
                        /\ \A x \in L : up2[x] = NULL <=> up[x] = NULL /\ x # c
<1> DEFINE first == m[p].child
           up2 == [x \in L |-> IF x = c THEN p ELSE IF x = first THEN c ELSE up[x]]
           par2 == [x \in L |-> IF x = c THEN p ELSE par[x]]
<1>1. /\ up2 \in [L -> L \cup {NULL}] /\ NULL \notin L
      /\ par2 \in [L -> L \cup {NULL}]
      /\ \A x \in L : up2[x] = IF x = c THEN p ELSE IF x = first THEN c ELSE up[x]
      /\ \A x \in L : par2[x] = IF x = c THEN p ELSE par[x]
  BY NullAssumption DEF Forest
<1>2. first \in L \cup {NULL} /\ (first # NULL => up[first] = p /\ par[first] = p)
  BY DEF Forest, Down
<1> HIDE DEF up2, par2
<1>3. /\ L \in SUBSET Node
      /\ \A x \in L : /\ t[x].child = IF x = p THEN c ELSE m[x].child
                      /\ t[x].next = IF x = p THEN NULL ELSE IF x = c THEN first ELSE m[x].next
                      /\ t[x].prev = IF x = p THEN NULL ELSE IF x = c THEN p
                                     ELSE IF x = first THEN c ELSE m[x].prev
                      /\ t[x].key = m[x].key
  BY DEF Forest, Joined
<1> HIDE DEF first
<1>4. Down(t, L, up2, par2)
  <2> SUFFICES ASSUME NEW x \in L
               PROVE  /\ t[x].child \in L \cup {NULL} /\ t[x].next \in L \cup {NULL}
                      /\ t[x].child # NULL => up2[t[x].child] = x /\ par2[t[x].child] = x
                      /\ t[x].next # NULL => /\ up2[t[x].next] = x /\ par2[t[x].next] = par2[x]
                                             /\ t[x].next # t[x].child
    BY DEF Down
  <2>1. /\ m[x].child \in L \cup {NULL} /\ m[x].next \in L \cup {NULL}
        /\ m[x].child # NULL => up[m[x].child] = x /\ par[m[x].child] = x
        /\ m[x].next # NULL => up[m[x].next] = x /\ par[m[x].next] = par[x] /\ m[x].next # m[x].child
    BY DEF Forest, Down
  <2>2. CASE x = p
    BY <1>1, <1>3, <2>2
  <2>3. CASE x = c
    <3>1. t[x].child = m[c].child /\ t[x].next = first
      BY <1>3, <2>3
    <3>2. m[c].child # NULL => m[c].child # c /\ m[c].child # first
      BY <1>1, <1>2, <2>1, <2>3
    <3> QED BY <1>1, <1>2, <2>1, <2>3, <3>1, <3>2
  <2>4. CASE x # p /\ x # c
    <3>1. t[x].child = m[x].child /\ t[x].next = m[x].next
      BY <1>3, <2>4
    <3>2. /\ m[x].child # NULL => m[x].child # c /\ m[x].child # first
          /\ m[x].next # NULL => m[x].next # c /\ m[x].next # first
      BY <1>1, <1>2, <2>1, <2>4
    <3> QED BY <1>1, <2>1, <2>4, <3>1, <3>2
  <2> QED BY <2>2, <2>3, <2>4
<1>5. Back(t, L, up2, par2)
  <2> SUFFICES ASSUME NEW x \in L
               PROVE  IF up2[x] = NULL THEN par2[x] = NULL
                      ELSE t[x].prev = up2[x] /\ x \in {t[up2[x]].child, t[up2[x]].next}
    BY DEF Back
  <2>1. /\ up[x] \in L \cup {NULL}
        /\ IF up[x] = NULL THEN par[x] = NULL
           ELSE m[x].prev = up[x] /\ x \in {m[up[x]].child, m[up[x]].next}
    BY DEF Forest, Back
  <2>2. CASE x = c
    BY <1>1, <1>3, <2>2
  <2>3. CASE x # c /\ x = first
    <3>1. x # p /\ up2[x] = c /\ t[x].prev = c /\ t[c].next = x
      BY <1>1, <1>2, <1>3, <2>3
    <3> QED BY <1>1, <3>1
  <2>4. CASE x # c /\ x # first
    <3>1. up2[x] = up[x] /\ par2[x] = par[x]
      BY <1>1, <2>4
    <3>2. CASE up[x] = NULL
      BY <2>1, <3>1, <3>2
    <3>3. CASE up[x] # NULL
      <4>1. x # p /\ t[x].prev = m[x].prev /\ up[x] \in L
        BY <1>3, <2>1, <2>4, <3>3
      <4>2. up[x] # p
        BY <2>1, <2>4, <3>3, <1>1 DEF first
      <4>3. t[up[x]].child = m[up[x]].child /\ (up[x] # c => t[up[x]].next = m[up[x]].next)
        BY <1>3, <4>1, <4>2
      <4>4. up[x] = c => x = m[c].child
        BY <2>1, <3>3, <1>1
      <4> QED BY <2>1, <3>1, <3>3, <4>1, <4>3, <4>4
    <3> QED BY <3>2, <3>3
  <2> QED BY <2>2, <2>3, <2>4
<1>6. KeysAscend(t, L, par2)
  BY <1>1, <1>3 DEF Forest, KeysAscend
<1>7. NoCycle(L, up2)
  <2> SUFFICES ASSUME NEW S \in SUBSET L, S # {}, \A x \in S : up2[x] \in S PROVE FALSE
    BY DEF NoCycle
  <2>1. p \notin S
    BY <1>1, <1>2 
  <2>2. c \notin S
    BY <1>1, <2>1
  <2>3. \A x \in S : up[x] \in S
    BY <1>1, <2>2
  <2> QED BY <2>3 DEF Forest, NoCycle
<1>8. Forest(t, L, up2, par2)
  BY <1>1, <1>4, <1>5, <1>6, <1>7 DEF Forest
<1>9. \A x \in L : up2[x] = NULL <=> up[x] = NULL /\ x # c
  BY <1>1, <1>2
<1> QED BY <1>8, <1>9

LEMMA NotOwnParent ==
  ASSUME NEW L, NEW up, NoCycle(L, up), NEW x \in L
  PROVE  up[x] # x
<1>1. {x} \in SUBSET L /\ {x} # {}
  OBVIOUS
<1>2. \E y \in {x} : up[y] \notin {x}
  BY <1>1 DEF NoCycle
<1> QED BY <1>2

(* A node is taken out of its list and becomes a root; its key may fall.   *)
Severed(m, t, n) ==
  LET q == m[n].prev
  IN  \A x \in Node :
        /\ t[x].child = IF x = q /\ m[q].child = n THEN m[n].next ELSE m[x].child
        /\ t[x].next = IF x = n THEN NULL
                       ELSE IF x = q /\ m[q].child # n THEN m[n].next ELSE m[x].next
        /\ x # n => t[x].prev = IF x = m[n].next THEN q ELSE m[x].prev
        /\ IF x = n THEN t[x].key <= m[x].key ELSE t[x].key = m[x].key

LEMMA SeverForest ==
  ASSUME NEW m, NEW L, NEW up, NEW par, Forest(m, L, up, par),
         NEW n \in L, up[n] # NULL, NEW t \in Memory, Severed(m, t, n)
  PROVE  \E up2, par2 : /\ Forest(t, L, up2, par2)
                        /\ \A x \in L : up2[x] = NULL <=> up[x] = NULL \/ x = n
<1> DEFINE q == up[n]
           next == m[n].next
           up2 == [x \in L |-> IF x = n THEN NULL ELSE IF x = next THEN q ELSE up[x]]
           par2 == [x \in L |-> IF x = n THEN NULL ELSE par[x]]
<1>1. /\ q \in L /\ q # n /\ m[n].prev = q /\ n \in {m[q].child, m[q].next}
      /\ next \in L \cup {NULL} /\ next # n
      /\ next # NULL => up[next] = n /\ par[next] = par[n] /\ next # m[n].child
      /\ NULL \notin L /\ L \in SUBSET Node
  <2>1. q \in L /\ m[n].prev = q /\ n \in {m[q].child, m[q].next} /\ NULL \notin L /\ L \in SUBSET Node
    BY NullAssumption DEF Forest, Back
  <2>2. /\ next \in L \cup {NULL}
        /\ next # NULL => up[next] = n /\ par[next] = par[n] /\ next # m[n].child
    BY DEF Forest, Down
  <2>3. \A x \in L : up[x] # x
    BY NotOwnParent DEF Forest
  <2> QED BY <2>1, <2>2, <2>3
<1>2. /\ up2 \in [L -> L \cup {NULL}] /\ par2 \in [L -> L \cup {NULL}]
      /\ \A x \in L : up2[x] = IF x = n THEN NULL ELSE IF x = next THEN q ELSE up[x]
      /\ \A x \in L : par2[x] = IF x = n THEN NULL ELSE par[x]
  BY <1>1 DEF Forest
<1>3. \A x \in L :
        /\ t[x].child = IF x = q /\ m[q].child = n THEN next ELSE m[x].child
        /\ t[x].next = IF x = n THEN NULL
                       ELSE IF x = q /\ m[q].child # n THEN next ELSE m[x].next
        /\ x # n => t[x].prev = IF x = next THEN q ELSE m[x].prev
        /\ IF x = n THEN t[x].key <= m[x].key ELSE t[x].key = m[x].key
  BY <1>1 DEF Severed
<1>4. \A x \in L : /\ m[x].child \in L \cup {NULL} /\ m[x].next \in L \cup {NULL}
                   /\ m[x].child # NULL => up[m[x].child] = x /\ par[m[x].child] = x
                   /\ m[x].next # NULL => /\ up[m[x].next] = x /\ par[m[x].next] = par[x]
                                          /\ m[x].next # m[x].child
  BY DEF Forest, Down
<1>5. \A x \in L : up[x] \in L \cup {NULL} /\ par[x] \in L \cup {NULL}
  BY DEF Forest
<1> HIDE DEF up2, par2, q, next
<1>6. Down(t, L, up2, par2)
  <2> SUFFICES ASSUME NEW x \in L
               PROVE  /\ t[x].child \in L \cup {NULL} /\ t[x].next \in L \cup {NULL}
                      /\ t[x].child # NULL => up2[t[x].child] = x /\ par2[t[x].child] = x
                      /\ t[x].next # NULL => /\ up2[t[x].next] = x /\ par2[t[x].next] = par2[x]
                                             /\ t[x].next # t[x].child
    BY DEF Down
  <2>1. CASE x = n
    <3>1. t[x].child = m[n].child /\ t[x].next = NULL
      BY <1>1, <1>3, <2>1
    <3>2. m[n].child # NULL => m[n].child # n /\ m[n].child # next
      BY <1>1, <1>4, <1>5
    <3> QED BY <1>2, <1>4, <2>1, <3>1, <3>2
  <2>2. CASE x = q /\ m[q].child = n
    <3>1. t[x].child = next /\ t[x].next = m[q].next
      BY <1>1, <1>3, <2>2
    <3>2. m[q].next # NULL => m[q].next # n /\ m[q].next # next
      BY <1>1, <1>4, <2>2
    <3>3. par[n] = q
      BY <1>1, <1>4, <2>2
    <3> QED BY <1>1, <1>2, <1>4, <2>2, <3>1, <3>2, <3>3
  <2>3. CASE x = q /\ m[q].child # n
    <3>1. t[x].child = m[q].child /\ t[x].next = next /\ m[q].next = n
      BY <1>1, <1>3, <2>3
    <3>2. m[q].child # NULL => m[q].child # n /\ m[q].child # next
      BY <1>1, <1>4, <2>3
    <3>3. par[n] = par[q]
      BY <1>1, <1>4, <3>1
    <3> QED BY <1>1, <1>2, <1>4, <2>3, <3>1, <3>2, <3>3
  <2>4. CASE x # n /\ x # q
    <3>1. t[x].child = m[x].child /\ t[x].next = m[x].next
      BY <1>3, <2>4
    <3>2. /\ m[x].child # NULL => m[x].child # n /\ m[x].child # next
          /\ m[x].next # NULL => m[x].next # n /\ m[x].next # next
      BY <1>1, <1>4, <2>4 DEF q
    <3> QED BY <1>2, <1>4, <2>4, <3>1, <3>2
  <2> QED BY <2>1, <2>2, <2>3, <2>4
<1>7. Back(t, L, up2, par2)
  <2> SUFFICES ASSUME NEW x \in L
               PROVE  IF up2[x] = NULL THEN par2[x] = NULL
                      ELSE t[x].prev = up2[x] /\ x \in {t[up2[x]].child, t[up2[x]].next}
    BY DEF Back
  <2>1. IF up[x] = NULL THEN par[x] = NULL
        ELSE m[x].prev = up[x] /\ x \in {m[up[x]].child, m[up[x]].next}
    BY DEF Forest, Back
  <2>2. CASE x = n
    BY <1>2, <2>2
  <2>3. CASE x # n /\ x = next
    <3>1. up2[x] = q /\ t[x].prev = q /\ x \in {t[q].child, t[q].next}
      BY <1>1, <1>2, <1>3, <2>3
    <3> QED BY <1>1, <3>1
  <2>4. CASE x # n /\ x # next
    <3>1. up2[x] = up[x] /\ par2[x] = par[x] /\ t[x].prev = m[x].prev
      BY <1>2, <1>3, <2>4
    <3>2. CASE up[x] = NULL
      BY <2>1, <3>1, <3>2
    <3>3. CASE up[x] # NULL
      <4>1. up[x] \in L /\ x \in {m[up[x]].child, m[up[x]].next} /\ m[x].prev = up[x]
        BY <1>5, <2>1, <3>3
      <4>2. CASE up[x] = n
        <5>1. x = m[n].child /\ t[n].child = m[n].child
          BY <1>1, <1>3, <2>4, <4>1, <4>2 DEF next
        <5> QED BY <1>1, <3>1, <3>3, <4>1, <4>2, <5>1
      <4>3. CASE up[x] = q
        <5>1. x \in {t[q].child, t[q].next}
          BY <1>1, <1>3, <2>4, <4>1, <4>3
        <5> QED BY <3>1, <3>3, <4>1, <4>3, <5>1
      <4>4. CASE up[x] # n /\ up[x] # q
        <5>1. t[up[x]].child = m[up[x]].child /\ t[up[x]].next = m[up[x]].next
          BY <1>3, <4>1, <4>4
        <5> QED BY <3>1, <3>3, <4>1, <5>1
      <4> QED BY <4>2, <4>3, <4>4
    <3> QED BY <3>2, <3>3
  <2> QED BY <2>2, <2>3, <2>4
<1>8. KeysAscend(t, L, par2)
  <2> SUFFICES ASSUME NEW x \in L, par2[x] # NULL PROVE t[par2[x]].key <= t[x].key
    BY DEF KeysAscend
  <2>1. x # n /\ par2[x] = par[x] /\ par[x] \in L /\ m[par[x]].key <= m[x].key
    BY <1>2, <1>5 DEF Forest, KeysAscend
  <2>2. t[x].key = m[x].key /\ t[par[x]].key <= m[par[x]].key
    <3>1. m[par[x]].key \in Nat
      BY <1>1, <2>1, KeyIsNat DEF Forest
    <3> QED BY <1>3, <2>1, <3>1
  <2>3. m[par[x]].key \in Nat /\ m[x].key \in Nat /\ t[par[x]].key \in Nat
    BY <1>1, <2>1, KeyIsNat DEF Forest
  <2> QED BY <2>1, <2>2, <2>3
<1>9. NoCycle(L, up2)
  <2> SUFFICES ASSUME NEW S \in SUBSET L, S # {}, \A x \in S : up2[x] \in S PROVE FALSE
    BY DEF NoCycle
  <2>1. n \notin S
    BY <1>1, <1>2
  <2> DEFINE S2 == IF next \in S THEN S \cup {n} ELSE S
  <2>2. S2 \in SUBSET L /\ S2 # {}
    OBVIOUS
  <2>3. \A x \in S2 : up[x] \in S2
    <3>1. CASE next \in S
      <4>1. q \in S
        BY <1>1, <1>2, <2>1, <3>1
      <4> QED BY <1>1, <1>2, <2>1, <3>1, <4>1 DEF q
    <3>2. CASE next \notin S
      BY <1>2, <2>1, <3>2
    <3> QED BY <3>1, <3>2
  <2> HIDE DEF S2
  <2> QED BY <2>2, <2>3 DEF Forest, NoCycle
<1>10. Forest(t, L, up2, par2)
  BY <1>1, <1>2, <1>6, <1>7, <1>8, <1>9 DEF Forest
<1>11. \A x \in L : up2[x] = NULL <=> up[x] = NULL \/ x = n
  BY <1>1, <1>2
<1> QED BY <1>10, <1>11

(* A root without siblings is freed, and its first child becomes a root.   *)
Dropped(m, K, up, n) ==
  \E up2, par2 : /\ Forest(m, K, up2, par2)
                 /\ \A x \in K : up2[x] = NULL <=> up[x] = NULL \/ x = m[n].child

LEMMA DropForest ==
  ASSUME NEW m, NEW L, NEW up, NEW par, Forest(m, L, up, par),
         NEW n \in L, up[n] = NULL, m[n].next = NULL
  PROVE  Dropped(m, L \ {n}, up, n)
<1> DEFINE K == L \ {n}
           up2 == [x \in K |-> IF up[x] = n THEN NULL ELSE up[x]]
           par2 == [x \in K |-> IF par[x] = n THEN NULL ELSE par[x]]
<1>1. /\ K \in SUBSET Node /\ n \notin K /\ NULL \notin L /\ n # NULL
      /\ \A x \in K : x \in L /\ x # n
      /\ \A x \in L : x # n => x \in K
  BY NullAssumption DEF Forest
<1>2. /\ up2 \in [K -> K \cup {NULL}] /\ par2 \in [K -> K \cup {NULL}]
      /\ \A x \in K : up2[x] = IF up[x] = n THEN NULL ELSE up[x]
      /\ \A x \in K : par2[x] = IF par[x] = n THEN NULL ELSE par[x]
  BY DEF Forest
<1> HIDE DEF K, up2, par2
<1>3. \A x \in L : /\ m[x].child \in L \cup {NULL} /\ m[x].next \in L \cup {NULL}
                   /\ m[x].child # NULL => up[m[x].child] = x /\ par[m[x].child] = x
                   /\ m[x].next # NULL => /\ up[m[x].next] = x /\ par[m[x].next] = par[x]
                                          /\ m[x].next # m[x].child
  BY DEF Forest, Down
<1>4. \A x \in L : IF up[x] = NULL THEN par[x] = NULL
                   ELSE m[x].prev = up[x] /\ x \in {m[up[x]].child, m[up[x]].next}
  BY DEF Forest, Back
<1>5. \A x \in K : up[x] = n <=> x = m[n].child
  BY <1>1, <1>3, <1>4
<1>6. Down(m, K, up2, par2)
  <2> SUFFICES ASSUME NEW x \in K
               PROVE  /\ m[x].child \in K \cup {NULL} /\ m[x].next \in K \cup {NULL}
                      /\ m[x].child # NULL => up2[m[x].child] = x /\ par2[m[x].child] = x
                      /\ m[x].next # NULL => /\ up2[m[x].next] = x /\ par2[m[x].next] = par2[x]
                                             /\ m[x].next # m[x].child
    BY DEF Down
  <2>1. m[x].child \in K \cup {NULL} /\ m[x].next \in K \cup {NULL}
    BY <1>1, <1>3
  <2> QED BY <1>1, <1>2, <1>3, <2>1
<1>7. Back(m, K, up2, par2)
  <2> SUFFICES ASSUME NEW x \in K
               PROVE  IF up2[x] = NULL THEN par2[x] = NULL
                      ELSE m[x].prev = up2[x] /\ x \in {m[up2[x]].child, m[up2[x]].next}
    BY DEF Back
  <2>1. CASE up[x] = n
    <3>1. x = m[n].child /\ par[x] = n
      BY <1>1, <1>3, <1>5, <2>1
    <3> QED BY <1>2, <2>1, <3>1
  <2>2. CASE up[x] # n
    BY <1>1, <1>2, <1>4, <2>2
  <2> QED BY <2>1, <2>2
<1>8. KeysAscend(m, K, par2)
  BY <1>1, <1>2 DEF Forest, KeysAscend
<1>9. NoCycle(K, up2)
  <2> SUFFICES ASSUME NEW S \in SUBSET K, S # {}, \A x \in S : up2[x] \in S PROVE FALSE
    BY DEF NoCycle
  <2>1. S \in SUBSET L /\ NULL \notin S
    BY <1>1
  <2>2. \A x \in S : up[x] \in S
    BY <1>2, <2>1
  <2> QED BY <2>1, <2>2 DEF Forest, NoCycle
<1>10. Forest(m, K, up2, par2)
  BY <1>1, <1>2, <1>6, <1>7, <1>8, <1>9 DEF Forest
<1>11. \A x \in K : up2[x] = NULL <=> up[x] = NULL \/ x = m[n].child
  BY <1>1, <1>2, <1>5
<1> QED BY <1>10, <1>11 DEF K, Dropped

(* A new node is a tree of its own.                                        *)
LEMMA AddForest ==
  ASSUME NEW m, NEW L, NEW up, NEW par, Forest(m, L, up, par),
         NEW n \in Node \ L, NEW t \in Memory, \A x \in L : t[x] = m[x],
         t[n].child = NULL, t[n].next = NULL
  PROVE  \E up2, par2 : /\ Forest(t, L \cup {n}, up2, par2)
                        /\ \A x \in L \cup {n} : up2[x] = NULL <=> x = n \/ up[x] = NULL
<1> DEFINE K == L \cup {n}
           up2 == [x \in K |-> IF x = n THEN NULL ELSE up[x]]
           par2 == [x \in K |-> IF x = n THEN NULL ELSE par[x]]
<1>1. /\ K \in SUBSET Node /\ NULL \notin L /\ n # NULL /\ n \in K
      /\ \A x \in K : x # n <=> x \in L
      /\ \A x \in L : x \in K
  BY NullAssumption DEF Forest
<1>2. /\ up2 \in [K -> K \cup {NULL}] /\ par2 \in [K -> K \cup {NULL}]
      /\ \A x \in K : up2[x] = IF x = n THEN NULL ELSE up[x]
      /\ \A x \in K : par2[x] = IF x = n THEN NULL ELSE par[x]
  BY DEF Forest
<1> HIDE DEF K, up2, par2
<1>3. \A x \in L : /\ m[x].child \in L \cup {NULL} /\ m[x].next \in L \cup {NULL}
                   /\ m[x].child # NULL => up[m[x].child] = x /\ par[m[x].child] = x
                   /\ m[x].next # NULL => /\ up[m[x].next] = x /\ par[m[x].next] = par[x]
                                          /\ m[x].next # m[x].child
  BY DEF Forest, Down
<1>4. \A x \in L : /\ up[x] \in L \cup {NULL} /\ par[x] \in L \cup {NULL}
                   /\ IF up[x] = NULL THEN par[x] = NULL
                      ELSE m[x].prev = up[x] /\ x \in {m[up[x]].child, m[up[x]].next}
  BY DEF Forest, Back
<1>5. Down(t, K, up2, par2)
  BY <1>1, <1>2, <1>3 DEF Down
<1>6. Back(t, K, up2, par2)
  BY <1>1, <1>2, <1>4 DEF Back
<1>7. KeysAscend(t, K, par2)
  BY <1>1, <1>2, <1>4 DEF Forest, KeysAscend
<1>8. NoCycle(K, up2)
  <2> SUFFICES ASSUME NEW S \in SUBSET K, S # {}, \A x \in S : up2[x] \in S PROVE FALSE
    BY DEF NoCycle
  <2>1. n \notin S /\ S \in SUBSET L
    <3>1. NULL \notin S
      BY <1>1
    <3> QED BY <1>1, <1>2, <3>1
  <2> QED BY <1>2, <1>1, <2>1 DEF Forest, NoCycle
<1>9. Forest(t, K, up2, par2)
  BY <1>1, <1>2, <1>5, <1>6, <1>7, <1>8 DEF Forest
<1>10. \A x \in K : up2[x] = NULL <=> x = n \/ up[x] = NULL
  BY <1>1, <1>2
<1> QED BY <1>9, <1>10 DEF K

(* The roots that are not joined keep their pointers.                      *)
LEMMA JoinedElsewhere ==
  ASSUME NEW m, NEW L, NEW up, NEW par, Forest(m, L, up, par),
         NEW p \in L, NEW c, NEW t, Joined(m, t, p, c)
  PROVE  \A x \in L : up[x] = NULL /\ x # p /\ x # c =>
           t[x].next = m[x].next /\ t[x].prev = m[x].prev
<1>1. /\ L \in SUBSET Node /\ NULL \notin L
      /\ m[p].child # NULL => up[m[p].child] = p
  BY NullAssumption DEF Forest, Down
<1> QED BY <1>1 DEF Joined

(* The first two nodes of a list of trees become one.                      *)
LEMMA PairForest ==
  ASSUME NEW m, NEW L, NEW up, NEW par, Forest(m, L, up, par),
         NEW a \in L, up[a] = NULL, NEW b \in L, b = m[a].next,
         NEW p \in {a, b}, NEW c \in {a, b}, p # c, m[p].key <= m[c].key,
         NEW t \in Memory, Joined(m, t, p, c)
  PROVE  \E up2, par2 :
           /\ Forest(t, L, up2, par2)
           /\ \A x \in L : up2[x] = NULL <=> (up[x] = NULL \/ x = b \/ x = m[b].next) /\ x # c
<1>1. /\ m \in Memory /\ L \in SUBSET Node /\ NULL \notin L /\ a # b /\ up[b] = a
      /\ a \in Node /\ b \in Node
  BY NullAssumption DEF Forest, Down
<1> DEFINE m1 == [x \in Node |-> [m[x] EXCEPT !.next = IF x = a THEN NULL ELSE @]]
           m2 == [x \in Node |-> [m1[x] EXCEPT !.next = IF x = b THEN NULL ELSE @]]
<1>2. /\ m1 \in Memory
      /\ \A x \in Node : /\ m1[x].child = m[x].child /\ m1[x].prev = m[x].prev /\ m1[x].key = m[x].key
                         /\ m1[x].next = IF x = a THEN NULL ELSE m[x].next
  BY <1>1 DEF Memory, Cell, Pointer
<1> HIDE DEF m1
<1>3. /\ m2 \in Memory
      /\ \A x \in Node : /\ m2[x].child = m1[x].child /\ m2[x].prev = m1[x].prev /\ m2[x].key = m1[x].key
                         /\ m2[x].next = IF x = b THEN NULL ELSE m1[x].next
  BY <1>2 DEF Memory, Cell, Pointer
<1> HIDE DEF m2
<1>4. Detached(m, m1, L, up, a)
  BY <1>1, <1>2 DEF Detached
<1>5. PICK up1 : /\ Forest(m1, L, up1, par)
                 /\ \A x \in L : up1[x] = NULL <=> up[x] = NULL \/ x = b
  BY <1>2, <1>4, DetachForest
<1>6. up1[b] = NULL /\ m1[b].next = m[b].next
  BY <1>1, <1>2, <1>5
<1>7. Detached(m1, m2, L, up1, b)
  BY <1>1, <1>3 DEF Detached
<1>8. PICK up2 : /\ Forest(m2, L, up2, par)
                 /\ \A x \in L : up2[x] = NULL <=> up1[x] = NULL \/ x = m1[b].next
  BY <1>3, <1>5, <1>6, <1>7, DetachForest
<1>9. /\ p \in L /\ c \in L /\ up2[p] = NULL /\ up2[c] = NULL
      /\ m2[p].next = NULL /\ m2[c].next = NULL /\ m2[p].key <= m2[c].key
  BY <1>1, <1>2, <1>3, <1>5, <1>8
<1>10. Joined(m2, t, p, c)
  BY <1>1, <1>2, <1>3 DEF Joined
<1>11. PICK up3, par3 : /\ Forest(t, L, up3, par3)
                        /\ \A x \in L : up3[x] = NULL <=> up2[x] = NULL /\ x # c
  BY <1>8, <1>9, <1>10, JoinForest
<1>12. \A x \in L : up3[x] = NULL <=> (up[x] = NULL \/ x = b \/ x = m[b].next) /\ x # c
  BY <1>5, <1>6, <1>8, <1>11
<1> QED BY <1>11, <1>12

-----------------------------------------------------------------------------
(* collapse: the first loop.                                               *)
Pass1 == [s : State, next : Pointer, tail : Pointer]
Pass2 == [s : State, tail : Pointer, root : Pointer]

LEMMA MergeType ==
  ASSUME NEW s \in State, NEW a \in Pointer, NEW b \in Pointer
  PROVE  merge(s, a, b).s \in State /\ merge(s, a, b).root \in Pointer
<1>1. CASE a = NULL
  BY <1>1 DEF merge
<1>2. CASE a # NULL /\ (b = NULL \/ a = b)
  BY <1>2 DEF merge
<1>3. CASE a # NULL /\ b # NULL /\ a # b
  <2>1. a \in Node /\ b \in Node
    BY <1>3 DEF Pointer
  <2>2. merge(s, a, b).s \in State /\ merge(s, a, b).root \in {a, b}
    BY <1>3, <2>1, MergeWrites
  <2> QED BY <2>2
<1> QED BY <1>1, <1>2, <1>3

LEMMA PairUpType ==
  ASSUME NEW v \in Pass1
  PROVE  PairUp(v) \in Pass1
<1> DEFINE a == v.next
           b == v.s.mem[a].next
           r == merge(v.s, a, b)
<1>1. v.s \in State /\ a \in Pointer /\ v.tail \in Pointer /\ NULL \in Pointer
  BY DEF Pass1, Pointer
<1>2. CASE a = NULL
  BY <1>2 DEF PairUp
<1>3. CASE a # NULL
  <2>1. a \in Node /\ b \in Pointer
    BY <1>1, <1>3 DEF State, Memory, Cell, Pointer
  <2> HIDE DEF b
  <2>2. CASE b = NULL
    <3>1. PairUp(v) = [s |-> Set(v.s, a, "prev", v.tail), next |-> NULL, tail |-> a]
      BY <1>3, <2>2 DEF PairUp, b
    <3>2. Set(v.s, a, "prev", v.tail) \in State
      BY <1>1, <2>1, SetPrev
    <3> QED BY <1>1, <3>1, <3>2 DEF Pass1
  <2>3. CASE b # NULL
    <3>1. PairUp(v) = [s |-> Set(r.s, r.root, "prev", v.tail), next |-> v.s.mem[b].next, tail |-> r.root]
      BY <1>3, <2>3 DEF PairUp, b
    <3>2. a # NULL /\ b \in Node /\ v.s.mem[b].next \in Pointer
      BY <1>1, <1>3, <2>1, <2>3 DEF State, Memory, Cell, Pointer
    <3>3. r.s \in State /\ r.root \in Pointer /\ r.root # NULL
      <4>1. CASE a = b
        BY <1>1, <1>3, <2>3, <4>1 DEF merge
      <4>2. CASE a # b
        <5>1. r.s \in State /\ r.root \in {a, b}
          BY <1>1, <2>1, <3>2, <4>2, MergeWrites
        <5> HIDE DEF r
        <5>2. b # NULL /\ b \in Pointer
          BY <2>3, <3>2 DEF Pointer
        <5> QED BY <1>1, <1>3, <5>1, <5>2
      <4> QED BY <4>1, <4>2
    <3> HIDE DEF r
    <3>4. Set(r.s, r.root, "prev", v.tail) \in State
      BY <1>1, <3>3, SetPrev DEF Pointer
    <3> QED BY <3>1, <3>2, <3>3, <3>4 DEF Pass1
  <2> QED BY <2>2, <2>3
<1> QED BY <1>2, <1>3

LEMMA MergeBackType ==
  ASSUME NEW v \in Pass2
  PROVE  MergeBack(v) \in Pass2
<1>1. v.s \in State /\ v.tail \in Pointer /\ v.root \in Pointer
  BY DEF Pass2
<1>2. merge(v.s, v.root, v.tail).s \in State /\ merge(v.s, v.root, v.tail).root \in Pointer
  BY <1>1, MergeType
<1>3. CASE v.tail = NULL
  BY <1>3 DEF MergeBack
<1>4. CASE v.tail # NULL
  <2>1. v.s.mem[v.tail].prev \in Pointer
    BY <1>1, <1>4 DEF State, Memory, Cell, Pointer
  <2> QED BY <1>2, <1>4, <2>1 DEF MergeBack, Pass2
<1> QED BY <1>3, <1>4

SameKeys(m, t) == \A x \in Node : t[x].key = m[x].key

(* The roots are the nodes others, the results res[1 .. k] and last, where *)
(* the list of the trees yet to be paired begins in the first loop and the *)
(* tree that is built in the second.                                       *)
Roots(m, L, up, others, res, k, last) ==
  /\ \A x \in L : up[x] = NULL <=> x \in others \/ x = last \/ \E j \in 1 .. k : x = res[j]
  /\ \A j \in 1 .. k : res[j] \in L \ others /\ res[j] # last /\ m[res[j]].next = NULL
  /\ \A i, j \in 1 .. k : res[i] = res[j] => i = j
  /\ last \in (L \ others) \cup {NULL}
  /\ \A x \in others : x \in L /\ m[x].next = NULL /\ m[x].prev = NULL

(* From tail on, prev leads from each result to the one before it.         *)
Results(m, res, k, tail) ==
  /\ tail = IF k = 0 THEN NULL ELSE res[k]
  /\ \A j \in 1 .. k : m[res[j]].prev = IF j = 1 THEN NULL ELSE res[j - 1]

Pairing(v, s, L, others, res, k) ==
  /\ v \in Pass1 /\ v.s.root = s.root /\ v.s.size = s.size /\ SameKeys(s.mem, v.s.mem)
  /\ \E up, par : /\ Forest(v.s.mem, L, up, par)
                  /\ Roots(v.s.mem, L, up, others, res, k, v.next)
  /\ Results(v.s.mem, res, k, v.tail)

Longer(res, k, x) == [j \in 1 .. k + 1 |-> IF j = k + 1 THEN x ELSE res[j]]

(* A new result w is linked to those before it.                            *)
Appends(m, t, L, up, par, others, res, k, tail, w, next) ==
  /\ Forest(m, L, up, par) /\ t \in Memory /\ k \in Nat
  /\ \A x \in L : up[x] = NULL <=> x \in others \/ x = w \/ x = next \/ \E j \in 1 .. k : x = res[j]
  /\ \A j \in 1 .. k : res[j] \in L \ others /\ res[j] # w /\ res[j] # next /\ m[res[j]].next = NULL
  /\ \A i, j \in 1 .. k : res[i] = res[j] => i = j
  /\ w \in L \ others /\ m[w].next = NULL
  /\ next \in (L \ others) \cup {NULL} /\ next # w
  /\ \A x \in others : x \in L /\ m[x].next = NULL /\ m[x].prev = NULL
  /\ Results(m, res, k, tail)
  /\ \A x \in Node : /\ t[x].child = m[x].child /\ t[x].next = m[x].next /\ t[x].key = m[x].key
                     /\ t[x].prev = IF x = w THEN tail ELSE m[x].prev

LEMMA OneMoreResult ==
  ASSUME NEW m, NEW t, NEW L, NEW up, NEW par, NEW others, NEW res, NEW k, NEW tail, NEW w, NEW next,
         Appends(m, t, L, up, par, others, res, k, tail, w, next)
  PROVE  /\ \E up2, par2 : /\ Forest(t, L, up2, par2)
                           /\ Roots(t, L, up2, others, Longer(res, k, w), k + 1, next)
         /\ Results(t, Longer(res, k, w), k + 1, w)
<1> USE DEF Appends
<1> DEFINE res2 == Longer(res, k, w)
<1>1. /\ L \in SUBSET Node /\ NULL \notin L /\ up[w] = NULL
  BY NullAssumption DEF Forest
<1>2. Detached(m, t, L, up, w)
  BY <1>1 DEF Detached
<1>3. PICK up2 : /\ Forest(t, L, up2, par)
                 /\ \A x \in L : up2[x] = NULL <=> up[x] = NULL \/ x = m[w].next
  BY <1>1, <1>2, DetachForest
<1>4. /\ \A j \in 1 .. k : res2[j] = res[j]
      /\ res2[k + 1] = w
      /\ \A j \in 1 .. k + 1 : j \in 1 .. k \/ j = k + 1
      /\ k + 1 \in 1 .. k + 1 /\ \A j \in 1 .. k : j \in 1 .. k + 1
  BY DEF Longer
<1> HIDE DEF res2
<1>5. Roots(t, L, up2, others, res2, k + 1, next)
  <2>1. \A x \in L : up2[x] = NULL <=> x \in others \/ x = next \/ \E j \in 1 .. k + 1 : x = res2[j]
    BY <1>1, <1>3, <1>4
  <2>2. \A j \in 1 .. k + 1 : res2[j] \in L \ others /\ res2[j] # next /\ t[res2[j]].next = NULL
    BY <1>1, <1>4
  <2>3. \A i, j \in 1 .. k + 1 : res2[i] = res2[j] => i = j
    BY <1>4
  <2>4. \A x \in others : x \in L /\ t[x].next = NULL /\ t[x].prev = NULL
    BY <1>1
  <2> QED BY <2>1, <2>2, <2>3, <2>4 DEF Roots
<1>6. Results(t, res2, k + 1, w)
  <2>1. \A j \in 1 .. k : t[res2[j]].prev = IF j = 1 THEN NULL ELSE res2[j - 1]
    <3> SUFFICES ASSUME NEW j \in 1 .. k
                 PROVE  t[res2[j]].prev = IF j = 1 THEN NULL ELSE res2[j - 1]
      OBVIOUS
    <3>1. t[res2[j]].prev = m[res[j]].prev
      BY <1>1, <1>4
    <3>2. j # 1 => j - 1 \in 1 .. k
      OBVIOUS
    <3> QED BY <1>4, <3>1, <3>2 DEF Results
  <2>2. t[res2[k + 1]].prev = tail
    BY <1>1, <1>4
  <2>3. tail = IF k + 1 = 1 THEN NULL ELSE res2[k]
    <3>1. k # 0 => k \in 1 .. k
      OBVIOUS
    <3> QED BY <1>4, <3>1 DEF Results
  <2>4. k + 1 # 0 /\ (k + 1) - 1 = k
    OBVIOUS
  <2> QED BY <1>4, <2>1, <2>2, <2>3, <2>4 DEF Results
<1>7. \E up3, par3 : Forest(t, L, up3, par3) /\ Roots(t, L, up3, others, res2, k + 1, next)
  BY <1>3, <1>5
<1> QED BY <1>6, <1>7 DEF res2

LEMMA PairUpStep ==
  ASSUME NEW v, NEW s, NEW L, NEW others, NEW res, NEW k \in Nat,
         Pairing(v, s, L, others, res, k), v.next # NULL
  PROVE  \E res2 : Pairing(PairUp(v), s, L, others, res2, k + 1)
<1> DEFINE a == v.next
           b == v.s.mem[a].next
           m == v.s.mem
           tail == v.tail
<1>1. PICK up, par : Forest(m, L, up, par) /\ Roots(m, L, up, others, res, k, a)
  BY DEF Pairing
<1>2. /\ v.s \in State /\ m \in Memory /\ tail \in Pointer /\ v \in Pass1
      /\ v.s.root = s.root /\ v.s.size = s.size /\ SameKeys(s.mem, m)
      /\ Results(m, res, k, tail)
  BY DEF Pairing, Pass1, State
<1>3. /\ L \in SUBSET Node /\ NULL \notin L /\ a \in L \ others /\ up[a] = NULL /\ a # NULL
      /\ b \in L \cup {NULL} /\ (b # NULL => up[b] = a)
      /\ \A x \in L : up[x] = NULL <=> x \in others \/ x = a \/ \E j \in 1 .. k : x = res[j]
      /\ \A j \in 1 .. k : res[j] \in L \ others /\ res[j] # a /\ m[res[j]].next = NULL
      /\ \A i, j \in 1 .. k : res[i] = res[j] => i = j
      /\ \A x \in others : x \in L /\ m[x].next = NULL /\ m[x].prev = NULL
  BY <1>1, NullAssumption DEF Roots, Forest, Down
<1>4. PairUp(v) \in Pass1
  BY <1>2, PairUpType
<1> HIDE DEF a, b, m, tail
<1>5. CASE b = NULL
  <2> DEFINE t == Set(v.s, a, "prev", tail)
  <2>1. PairUp(v) = [s |-> t, next |-> NULL, tail |-> a]
    BY <1>3, <1>5 DEF PairUp, a, b, m, tail
  <2>2. /\ t \in State /\ t.root = s.root /\ t.size = s.size
        /\ \A x \in Node : /\ t.mem[x].child = m[x].child /\ t.mem[x].next = m[x].next
                           /\ t.mem[x].prev = IF x = a THEN tail ELSE m[x].prev
                           /\ t.mem[x].key = m[x].key
    BY <1>2, <1>3, SetPrev DEF m
  <2> HIDE DEF t
  <2>3. t.mem \in Memory /\ SameKeys(s.mem, t.mem)
    BY <1>2, <2>2 DEF State, SameKeys
  <2>4. /\ \E up2, par2 : /\ Forest(t.mem, L, up2, par2)
                          /\ Roots(t.mem, L, up2, others, Longer(res, k, a), k + 1, NULL)
        /\ Results(t.mem, Longer(res, k, a), k + 1, a)
    <3>1. /\ \A x \in L : up[x] = NULL <=> x \in others \/ x = a \/ x = NULL \/ \E j \in 1 .. k : x = res[j]
          /\ \A j \in 1 .. k : /\ res[j] \in L \ others /\ res[j] # a /\ res[j] # NULL
                               /\ m[res[j]].next = NULL
      BY <1>3
    <3>2. m[a].next = NULL
      BY <1>5 DEF b, m
    <3>3. Appends(m, t.mem, L, up, par, others, res, k, tail, a, NULL)
      BY <1>1, <1>2, <1>3, <2>2, <2>3, <3>1, <3>2 DEF Appends
    <3> QED BY <3>3, OneMoreResult
  <2>5. Pairing(PairUp(v), s, L, others, Longer(res, k, a), k + 1)
    BY <1>4, <2>1, <2>2, <2>3, <2>4 DEF Pairing
  <2> QED BY <2>5
<1>6. CASE b # NULL
  <2> DEFINE r == merge(v.s, a, b)
             n == r.s.mem
             w == r.root
             t == Set(r.s, w, "prev", tail)
             next == m[b].next
  <2>1. PairUp(v) = [s |-> t, next |-> next, tail |-> w]
    BY <1>3, <1>6 DEF PairUp, a, b, m, tail
  <2>2. b \in L /\ up[b] = a /\ a # b /\ b = m[a].next
    BY <1>3, <1>6 DEF b, m
  <2>3. /\ r.s \in State /\ r.s.root = s.root /\ r.s.size = s.size
        /\ \E p, c \in {a, b} : w = p /\ p # c /\ m[p].key <= m[c].key /\ Joined(m, n, p, c)
    BY <1>2, <1>3, <2>2, MergeWrites DEF m
  <2> HIDE DEF r
  <2>4. PICK c \in {a, b} : w \in {a, b} /\ w # c /\ m[w].key <= m[c].key /\ Joined(m, n, w, c)
    BY <2>3
  <2>5. n \in Memory /\ w \in L /\ c \in L
    BY <1>3, <2>2, <2>3, <2>4 DEF State
  <2>6. PICK up2, par2 :
          /\ Forest(n, L, up2, par2)
          /\ \A x \in L : up2[x] = NULL <=> (up[x] = NULL \/ x = b \/ x = next) /\ x # c
    BY <1>1, <1>3, <2>2, <2>4, <2>5, PairForest
  <2>7. /\ t \in State /\ t.root = s.root /\ t.size = s.size
        /\ \A x \in Node : /\ t.mem[x].child = n[x].child /\ t.mem[x].next = n[x].next
                           /\ t.mem[x].prev = IF x = w THEN tail ELSE n[x].prev
                           /\ t.mem[x].key = n[x].key
    BY <1>2, <1>3, <2>3, <2>5, SetPrev
  <2> HIDE DEF n, w, t
  <2>8. t.mem \in Memory /\ SameKeys(s.mem, t.mem)
    BY <1>2, <2>4, <2>7 DEF State, SameKeys, Joined
  <2>9. /\ next \in (L \ others) \cup {NULL} /\ next # a /\ next # b
        /\ \A j \in 1 .. k : res[j] # next
    <3>1. next \in L \cup {NULL} /\ (next # NULL => up[next] = b)
      BY <1>1, <2>2 DEF Forest, Down
    <3> QED BY <1>3, <2>2, <3>1
  <2>10. w \notin others /\ c \notin others /\ \A j \in 1 .. k : res[j] # w /\ res[j] # c
    BY <1>3, <2>2, <2>4
  <2>11. \A x \in L : up[x] = NULL /\ x # w /\ x # c => n[x].next = m[x].next /\ n[x].prev = m[x].prev
    BY <1>1, <2>4, <2>5, JoinedElsewhere
  <2> HIDE DEF next
  <2>12. /\ \E up3, par3 : /\ Forest(t.mem, L, up3, par3)
                           /\ Roots(t.mem, L, up3, others, Longer(res, k, w), k + 1, next)
         /\ Results(t.mem, Longer(res, k, w), k + 1, w)
    <3>1. \A x \in L : up2[x] = NULL <=> x \in others \/ x = w \/ x = next \/ \E j \in 1 .. k : x = res[j]
      <4> SUFFICES ASSUME NEW x \in L
                   PROVE  up2[x] = NULL <=> x \in others \/ x = w \/ x = next \/ \E j \in 1 .. k : x = res[j]
        OBVIOUS
      <4>1. up2[x] = NULL <=> (up[x] = NULL \/ x = b \/ x = next) /\ x # c
        BY <2>6
      <4>2. up[x] = NULL <=> x \in others \/ x = a \/ \E j \in 1 .. k : x = res[j]
        BY <1>3
      <4>3. {a, b} = {w, c}
        BY <2>4
      <4>4. CASE x = c
        BY <2>4, <2>9, <2>10, <4>1, <4>4
      <4>5. CASE x # c
        BY <4>1, <4>2, <4>3, <4>5
      <4> QED BY <4>4, <4>5
    <3>2. \A j \in 1 .. k : /\ res[j] \in L \ others /\ res[j] # w /\ res[j] # next
                            /\ n[res[j]].next = NULL
      BY <1>3, <2>9, <2>10, <2>11
    <3>3. n[w].next = NULL /\ next # w /\ w \in L \ others
      BY <1>3, <2>4, <2>5, <2>9, <2>10 DEF Joined
    <3>4. \A x \in others : x \in L /\ n[x].next = NULL /\ n[x].prev = NULL
      BY <1>3, <2>10, <2>11
    <3>5. Results(n, res, k, tail)
      <4>1. \A j \in 1 .. k : n[res[j]].prev = m[res[j]].prev
        BY <1>3, <2>10, <2>11
      <4> QED BY <1>2, <4>1 DEF Results
    <3>6. Appends(n, t.mem, L, up2, par2, others, res, k, tail, w, next)
      BY <1>3, <2>6, <2>7, <2>8, <2>9, <3>1, <3>2, <3>3, <3>4, <3>5 DEF Appends
    <3> QED BY <3>6, OneMoreResult
  <2>13. Pairing(PairUp(v), s, L, others, Longer(res, k, w), k + 1)
    BY <1>4, <2>1, <2>7, <2>8, <2>12 DEF Pairing
  <2> QED BY <2>13
<1> QED BY <1>5, <1>6

LEMMA PairedIterates ==
  ASSUME NEW s \in State, NEW n \in Pointer
  PROVE  \E f : /\ Iterates(f, Cardinality(Node), Pass1, [s |-> s, next |-> n, tail |-> NULL],
                            [v \in Pass1 |-> PairUp(v)])
                /\ Paired(s, n) = f[Cardinality(Node)]
<1> DEFINE N == Cardinality(Node)
           start == [s |-> s, next |-> n, tail |-> NULL]
           step == [v \in Pass1 |-> PairUp(v)]
           F(f) == f = [i \in 0 .. N |-> IF i = 0 THEN start ELSE PairUp(f[i - 1])]
           after == CHOOSE f : F(f)
<1>1. N \in Nat /\ start \in Pass1
  BY NodesAssumption, FS_CardinalityType DEF Pass1, Pointer
<1>2. /\ step \in [Pass1 -> Pass1]
      /\ \A v \in Pass1 : step[v] = PairUp(v)
  BY PairUpType
<1> HIDE DEF step, start, N
<1>3. PICK g : Iterates(g, N, Pass1, start, step)
  <2> HIDE DEF Pass1
  <2>1. N \in Nat /\ start \in Pass1 /\ step \in [Pass1 -> Pass1]
    BY <1>1, <1>2
  <2> QED BY ONLY <2>1, LoopExists
<1>4. F(g)
  <2>1. ASSUME NEW i \in 0 .. N, i # 0 PROVE g[i - 1] \in Pass1
    <3> HIDE DEF Pass1
    <3>1. i - 1 \in 0 .. N
      BY <1>1, <2>1
    <3> QED BY <1>3, <3>1 DEF Iterates
  <2>2. \A i \in 0 .. N : g[i] = IF i = 0 THEN start ELSE PairUp(g[i - 1])
    BY <1>2, <1>3, <2>1 DEF Iterates
  <2> DEFINE E(i) == IF i = 0 THEN start ELSE PairUp(g[i - 1])
  <2>3. \A i \in 0 .. N : g[i] = E(i)
    BY <2>2
  <2>4. g = [i \in 0 .. N |-> g[i]]
    BY <1>3 DEF Iterates
  <2> HIDE DEF E
  <2>5. g = [i \in 0 .. N |-> E(i)]
    BY <2>3, <2>4
  <2> QED BY <2>5 DEF E
<1> HIDE DEF F
<1>5. F(after)
  BY <1>4
<1>6. Paired(s, n) = after[N]
  BY DEF Paired, after, F, N, start
<1> HIDE DEF after
<1>7. /\ DOMAIN after = 0 .. N /\ after = [i \in 0 .. N |-> after[i]]
      /\ after[0] = start
      /\ \A i \in 1 .. N : after[i] = PairUp(after[i - 1])
  <2> DEFINE E(i) == IF i = 0 THEN start ELSE PairUp(after[i - 1])
  <2>1. after = [i \in 0 .. N |-> E(i)]
    BY <1>5 DEF F
  <2> HIDE DEF E
  <2>2. DOMAIN after = 0 .. N /\ after = [i \in 0 .. N |-> after[i]] /\ \A i \in 0 .. N : after[i] = E(i)
    BY <2>1
  <2>3. \A i \in 1 .. N : i \in 0 .. N /\ i # 0
    OBVIOUS
  <2>4. after[0] = start
    BY <1>1, <2>2 DEF E
  <2>5. \A i \in 1 .. N : after[i] = PairUp(after[i - 1])
    BY <2>2, <2>3 DEF E
  <2> QED BY <2>2, <2>4, <2>5
<1>8. \A i \in 0 .. N : after[i] \in Pass1
  <2> DEFINE I == {i \in 0 .. N : after[i] \in Pass1}
  <2>1. 0 \in I
    BY <1>1, <1>7
  <2>2. ASSUME NEW i \in 1 .. N, i - 1 \in I PROVE i \in I
    <3> HIDE DEF Pass1
    <3>1. after[i - 1] \in Pass1
      BY <2>2
    <3>2. after[i] = PairUp(after[i - 1])
      BY <1>7
    <3>3. i \in 0 .. N /\ after[i] \in Pass1
      BY <3>1, <3>2, PairUpType
    <3> QED BY <3>3
  <2> HIDE DEF I
  <2>3. \A i \in 0 .. N : i \in I
    BY <1>1, <2>1, <2>2, LoopInduction
  <2> QED BY <2>3 DEF I
<1>9. after \in [0 .. N -> Pass1]
  BY <1>7, <1>8
<1>10. \A i \in 1 .. N : after[i] = step[after[i - 1]]
  <2>1. \A i \in 1 .. N : i - 1 \in 0 .. N
    BY <1>1
  <2> QED BY <1>2, <1>7, <1>8, <2>1
<1>11. Iterates(after, N, Pass1, start, step)
  BY <1>7, <1>9, <1>10 DEF Iterates
<1>12. \E f : Iterates(f, N, Pass1, start, step) /\ Paired(s, n) = f[N]
  BY <1>6, <1>11
<1> QED BY <1>12 DEF N, start, step

LEMMA MergedIterates ==
  ASSUME NEW s \in State, NEW tail \in Pointer
  PROVE  \E f : /\ Iterates(f, Cardinality(Node), Pass2, [s |-> s, tail |-> tail, root |-> NULL],
                            [v \in Pass2 |-> MergeBack(v)])
                /\ Merged(s, tail) = f[Cardinality(Node)]
<1> DEFINE N == Cardinality(Node)
           start == [s |-> s, tail |-> tail, root |-> NULL]
           step == [v \in Pass2 |-> MergeBack(v)]
           F(f) == f = [i \in 0 .. N |-> IF i = 0 THEN start ELSE MergeBack(f[i - 1])]
           after == CHOOSE f : F(f)
<1>1. N \in Nat /\ start \in Pass2
  BY NodesAssumption, FS_CardinalityType DEF Pass2, Pointer
<1>2. /\ step \in [Pass2 -> Pass2]
      /\ \A v \in Pass2 : step[v] = MergeBack(v)
  BY MergeBackType
<1> HIDE DEF step, start, N
<1>3. PICK g : Iterates(g, N, Pass2, start, step)
  <2> HIDE DEF Pass2
  <2>1. N \in Nat /\ start \in Pass2 /\ step \in [Pass2 -> Pass2]
    BY <1>1, <1>2
  <2> QED BY ONLY <2>1, LoopExists
<1>4. F(g)
  <2>1. ASSUME NEW i \in 0 .. N, i # 0 PROVE g[i - 1] \in Pass2
    <3> HIDE DEF Pass2
    <3>1. i - 1 \in 0 .. N
      BY <1>1, <2>1
    <3> QED BY <1>3, <3>1 DEF Iterates
  <2>2. \A i \in 0 .. N : g[i] = IF i = 0 THEN start ELSE MergeBack(g[i - 1])
    BY <1>2, <1>3, <2>1 DEF Iterates
  <2> DEFINE E(i) == IF i = 0 THEN start ELSE MergeBack(g[i - 1])
  <2>3. \A i \in 0 .. N : g[i] = E(i)
    BY <2>2
  <2>4. g = [i \in 0 .. N |-> g[i]]
    BY <1>3 DEF Iterates
  <2> HIDE DEF E
  <2>5. g = [i \in 0 .. N |-> E(i)]
    BY <2>3, <2>4
  <2> QED BY <2>5 DEF E
<1> HIDE DEF F
<1>5. F(after)
  BY <1>4
<1>6. Merged(s, tail) = after[N]
  BY DEF Merged, after, F, N, start
<1> HIDE DEF after
<1>7. /\ DOMAIN after = 0 .. N /\ after = [i \in 0 .. N |-> after[i]]
      /\ after[0] = start
      /\ \A i \in 1 .. N : after[i] = MergeBack(after[i - 1])
  <2> DEFINE E(i) == IF i = 0 THEN start ELSE MergeBack(after[i - 1])
  <2>1. after = [i \in 0 .. N |-> E(i)]
    BY <1>5 DEF F
  <2> HIDE DEF E
  <2>2. DOMAIN after = 0 .. N /\ after = [i \in 0 .. N |-> after[i]] /\ \A i \in 0 .. N : after[i] = E(i)
    BY <2>1
  <2>3. \A i \in 1 .. N : i \in 0 .. N /\ i # 0
    OBVIOUS
  <2>4. after[0] = start
    BY <1>1, <2>2 DEF E
  <2>5. \A i \in 1 .. N : after[i] = MergeBack(after[i - 1])
    BY <2>2, <2>3 DEF E
  <2> QED BY <2>2, <2>4, <2>5
<1>8. \A i \in 0 .. N : after[i] \in Pass2
  <2> DEFINE I == {i \in 0 .. N : after[i] \in Pass2}
  <2>1. 0 \in I
    BY <1>1, <1>7
  <2>2. ASSUME NEW i \in 1 .. N, i - 1 \in I PROVE i \in I
    <3> HIDE DEF Pass2
    <3>1. after[i - 1] \in Pass2
      BY <2>2
    <3>2. after[i] = MergeBack(after[i - 1])
      BY <1>7
    <3>3. i \in 0 .. N /\ after[i] \in Pass2
      BY <3>1, <3>2, MergeBackType
    <3> QED BY <3>3
  <2> HIDE DEF I
  <2>3. \A i \in 0 .. N : i \in I
    BY <1>1, <2>1, <2>2, LoopInduction
  <2> QED BY <2>3 DEF I
<1>9. after \in [0 .. N -> Pass2]
  BY <1>7, <1>8
<1>10. \A i \in 1 .. N : after[i] = step[after[i - 1]]
  <2>1. \A i \in 1 .. N : i - 1 \in 0 .. N
    BY <1>1
  <2> QED BY <1>2, <1>7, <1>8, <2>1
<1>11. Iterates(after, N, Pass2, start, step)
  BY <1>7, <1>9, <1>10 DEF Iterates
<1>12. \E f : Iterates(f, N, Pass2, start, step) /\ Merged(s, tail) = f[N]
  BY <1>6, <1>11
<1> QED BY <1>12 DEF N, start, step

(* There are fewer results than nodes while the list goes on.              *)
LEMMA FewResults ==
  ASSUME NEW m, NEW L, NEW up, NEW par, NEW others, NEW res, NEW k \in Nat, NEW last,
         Forest(m, L, up, par), Roots(m, L, up, others, res, k, last), last # NULL
  PROVE  k < Cardinality(Node)
<1>1. Cardinality(Node) \in Nat /\ IsFiniteSet(Node)
  BY NodesAssumption, FS_CardinalityType
<1> SUFFICES ASSUME Cardinality(Node) < k + 1 PROVE FALSE
  BY <1>1
<1>2. IsFiniteSet(1 .. k + 1) /\ Cardinality(1 .. k + 1) = k + 1
  BY FS_Interval
<1> DEFINE g == Longer(res, k, last)
<1>3. /\ \A j \in 1 .. k : res[j] \in Node /\ res[j] # last
      /\ \A i, j \in 1 .. k : res[i] = res[j] => i = j
      /\ last \in Node
  BY DEF Forest, Roots
<1>4. /\ g \in [1 .. k + 1 -> Node]
      /\ \A j \in 1 .. k + 1 : g[j] = IF j = k + 1 THEN last ELSE res[j]
      /\ \A j \in 1 .. k + 1 : j \in 1 .. k \/ j = k + 1
  BY <1>3 DEF Longer
<1> HIDE DEF g
<1>5. \E i, j \in 1 .. k + 1 : i # j /\ g[i] = g[j]
  BY <1>1, <1>2, <1>4, FS_PigeonHole
<1> QED BY <1>3, <1>4, <1>5

(* The first loop comes to its end and leaves a list of all the results.   *)
LEMMA PairedEnds ==
  ASSUME NEW s \in State, NEW L, NEW others, NEW n \in Pointer, NEW up, NEW par,
         Forest(s.mem, L, up, par), Roots(s.mem, L, up, others, <<>>, 0, n)
  PROVE  /\ Paired(s, n).next = NULL
         /\ \E k \in 0 .. Cardinality(Node) : \E res : Pairing(Paired(s, n), s, L, others, res, k)
<1> DEFINE N == Cardinality(Node)
           start == [s |-> s, next |-> n, tail |-> NULL]
           step == [v \in Pass1 |-> PairUp(v)]
<1>1. PICK f : Iterates(f, N, Pass1, start, step) /\ Paired(s, n) = f[N]
  BY PairedIterates
<1>2. N \in Nat
  BY NodesAssumption, FS_CardinalityType
<1> DEFINE I == {i \in 0 .. N : \E k \in 0 .. i : /\ f[i].next # NULL => k = i
                                                  /\ \E res : Pairing(f[i], s, L, others, res, k)}
<1> HIDE DEF N
<1>3. 0 \in I
  <2>1. f[0] = start /\ start \in Pass1
    BY <1>1, <1>2 DEF Iterates, Pass1, Pointer
  <2>2. Results(s.mem, <<>>, 0, NULL) /\ SameKeys(s.mem, s.mem)
    BY DEF Results, SameKeys
  <2>3. Pairing(start, s, L, others, <<>>, 0)
    BY <2>1, <2>2 DEF Pairing
  <2> HIDE DEF start
  <2>4. 0 \in 0 .. N /\ 0 \in 0 .. 0
    BY <1>2
  <2> QED BY <2>1, <2>3, <2>4
<1>4. ASSUME NEW i \in 1 .. N, i - 1 \in I PROVE i \in I
  <2>1. PICK k \in 0 .. i - 1 : /\ f[i - 1].next # NULL => k = i - 1
                                /\ \E res : Pairing(f[i - 1], s, L, others, res, k)
    BY <1>4
  <2>2. PICK res : Pairing(f[i - 1], s, L, others, res, k)
    BY <2>1
  <2>3. f[i] = PairUp(f[i - 1])
    <3>1. f[i - 1] \in Pass1
      BY <2>2 DEF Pairing
    <3> QED BY <1>1, <3>1 DEF Iterates
  <2>4. CASE f[i - 1].next = NULL
    <3>1. f[i] = f[i - 1]
      BY <2>3, <2>4 DEF PairUp
    <3> QED BY <2>2, <2>4, <3>1
  <2>5. CASE f[i - 1].next # NULL
    <3>1. k = i - 1 /\ k \in Nat /\ k + 1 = i /\ i \in 0 .. i /\ i \in 0 .. N
      BY <2>1, <2>5
    <3>2. \E res2 : Pairing(f[i], s, L, others, res2, i)
      BY <2>2, <2>3, <2>5, <3>1, PairUpStep
    <3> QED BY <3>1, <3>2
  <2> QED BY <2>4, <2>5
<1>5. N \in I
  <2> HIDE DEF I
  <2> QED BY <1>2, <1>3, <1>4, LoopInduction
<1>6. PICK k \in 0 .. N : /\ f[N].next # NULL => k = N
                          /\ \E res : Pairing(f[N], s, L, others, res, k)
  BY <1>5
<1>7. f[N].next = NULL
  <2> SUFFICES ASSUME f[N].next # NULL PROVE FALSE
    OBVIOUS
  <2>1. PICK res : Pairing(f[N], s, L, others, res, N)
    BY <1>6
  <2>2. N < Cardinality(Node)
    BY <1>2, <2>1, FewResults DEF Pairing
  <2> QED BY <1>2, <2>2 DEF N
<1> QED BY <1>1, <1>6, <1>7 DEF N

-----------------------------------------------------------------------------
(* collapse: the second loop.                                              *)
Alone(m, n, more) == n # NULL => m[n].next = NULL /\ (~ more => m[n].prev = NULL)

Merging(v, s, L, others, res, k) ==
  /\ v \in Pass2 /\ v.s.root = s.root /\ v.s.size = s.size /\ SameKeys(s.mem, v.s.mem)
  /\ \E up, par : /\ Forest(v.s.mem, L, up, par)
                  /\ Roots(v.s.mem, L, up, others, res, k, v.root)
  /\ Results(v.s.mem, res, k, v.tail)
  /\ Alone(v.s.mem, v.root, k > 0)

LEMMA MergeBackStep ==
  ASSUME NEW v, NEW s, NEW L, NEW others, NEW res, NEW k \in Nat, k > 0,
         Merging(v, s, L, others, res, k)
  PROVE  Merging(MergeBack(v), s, L, others, res, k - 1)
<1> DEFINE m == v.s.mem
           w == v.tail
           last == v.root
           r == merge(v.s, last, w)
           rest == m[w].prev
<1>1. PICK up, par : Forest(m, L, up, par) /\ Roots(m, L, up, others, res, k, last)
  BY DEF Merging
<1>2. /\ v.s \in State /\ m \in Memory /\ v \in Pass2
      /\ v.s.root = s.root /\ v.s.size = s.size /\ SameKeys(s.mem, m)
      /\ Results(m, res, k, w) /\ Alone(m, last, TRUE)
  BY DEF Merging, Pass2, State
<1>3. /\ L \in SUBSET Node /\ NULL \notin L
      /\ \A x \in L : up[x] = NULL <=> x \in others \/ x = last \/ \E j \in 1 .. k : x = res[j]
      /\ \A j \in 1 .. k : res[j] \in L \ others /\ res[j] # last /\ m[res[j]].next = NULL
      /\ \A i, j \in 1 .. k : res[i] = res[j] => i = j
      /\ last \in (L \ others) \cup {NULL}
      /\ \A x \in others : x \in L /\ m[x].next = NULL /\ m[x].prev = NULL
  BY <1>1, NullAssumption DEF Roots, Forest
<1>4. /\ k \in 1 .. k /\ k # 0
      /\ \A j \in 1 .. k : j \in 1 .. k - 1 \/ j = k
      /\ \A j \in 1 .. k - 1 : j \in 1 .. k /\ j # k
      /\ k - 1 = 0 <=> k = 1
      /\ k - 1 > 0 <=> k # 1
  OBVIOUS
<1>5. w = res[k] /\ w \in L \ others /\ w # last /\ w # NULL /\ m[w].next = NULL /\ up[w] = NULL
  BY <1>2, <1>3, <1>4 DEF Results
<1>6. rest = IF k = 1 THEN NULL ELSE res[k - 1]
  BY <1>2, <1>4, <1>5 DEF Results
<1>7. MergeBack(v) = [s |-> r.s, tail |-> rest, root |-> r.root] /\ MergeBack(v) \in Pass2
  BY <1>2, <1>5, MergeBackType DEF MergeBack
<1>8. \A x \in L : /\ x \in others \/ x = last \/ (\E j \in 1 .. k : x = res[j])
                      <=> x \in others \/ x = last \/ x = w \/ \E j \in 1 .. k - 1 : x = res[j]
  BY <1>4, <1>5
<1>9. \A j \in 1 .. k - 1 : res[j] # w
  BY <1>3, <1>4, <1>5
<1> HIDE DEF m, w, last, rest
<1>10. CASE last = NULL
  <2>1. r = [s |-> v.s, root |-> w]
    BY <1>10 DEF merge
  <2>2. Roots(m, L, up, others, res, k - 1, w)
    <3>1. \A x \in L : up[x] = NULL <=> x \in others \/ x = w \/ \E j \in 1 .. k - 1 : x = res[j]
      BY <1>3, <1>8, <1>10
    <3> QED BY <1>3, <1>4, <1>5, <1>9, <3>1 DEF Roots
  <2>3. Results(m, res, k - 1, rest)
    BY <1>2, <1>4, <1>6 DEF Results
  <2>4. Alone(m, w, k - 1 > 0)
    BY <1>4, <1>5, <1>6 DEF Alone, rest
  <2>5. r.s = v.s /\ r.root = w
    BY <2>1
  <2> HIDE DEF r
  <2> QED BY <1>1, <1>2, <1>7, <2>2, <2>3, <2>4, <2>5 DEF Merging, m
<1>11. CASE last # NULL
  <2> DEFINE n == r.s.mem
             p == r.root
  <2>1. last \in L /\ last \notin others /\ up[last] = NULL /\ m[last].next = NULL
    BY <1>2, <1>3, <1>11 DEF Alone
  <2>2. /\ r.s \in State /\ r.s.root = s.root /\ r.s.size = s.size
        /\ \E q, c \in {last, w} : p = q /\ q # c /\ m[q].key <= m[c].key /\ Joined(m, n, q, c)
    BY <1>2, <1>3, <1>5, <2>1, MergeWrites DEF m
  <2> HIDE DEF r
  <2>3. PICK c \in {last, w} : p \in {last, w} /\ p # c /\ m[p].key <= m[c].key /\ Joined(m, n, p, c)
    BY <2>2
  <2>4. /\ n \in Memory /\ p \in L /\ c \in L /\ up[p] = NULL /\ up[c] = NULL
        /\ m[p].next = NULL /\ m[c].next = NULL
        /\ \A x \in {p, c} : x \notin others /\ \A j \in 1 .. k - 1 : res[j] # x
    BY <1>3, <1>4, <1>5, <1>9, <2>1, <2>2, <2>3 DEF State
  <2>5. PICK up2, par2 : /\ Forest(n, L, up2, par2)
                         /\ \A x \in L : up2[x] = NULL <=> up[x] = NULL /\ x # c
    BY <1>1, <2>3, <2>4, JoinForest
  <2>6. \A x \in L : up[x] = NULL /\ x # p /\ x # c => n[x].next = m[x].next /\ n[x].prev = m[x].prev
    BY <1>1, <2>3, <2>4, JoinedElsewhere
  <2>7. n[p].next = NULL /\ n[p].prev = NULL /\ SameKeys(s.mem, n)
    BY <1>2, <1>3, <2>3, <2>4 DEF Joined, SameKeys
  <2>8. \A j \in 1 .. k - 1 : /\ n[res[j]].next = NULL /\ n[res[j]].prev = m[res[j]].prev
                              /\ res[j] \in L \ others /\ res[j] # p
    BY <1>3, <1>4, <2>4, <2>6
  <2>9. \A x \in others : x \in L /\ n[x].next = NULL /\ n[x].prev = NULL
    BY <1>3, <2>4, <2>6
  <2>10. Roots(n, L, up2, others, res, k - 1, p)
    <3>1. \A x \in L : up2[x] = NULL <=> x \in others \/ x = p \/ \E j \in 1 .. k - 1 : x = res[j]
      <4> SUFFICES ASSUME NEW x \in L
                   PROVE  up2[x] = NULL <=> x \in others \/ x = p \/ \E j \in 1 .. k - 1 : x = res[j]
        OBVIOUS
      <4>1. up[x] = NULL <=> x \in others \/ x = last \/ x = w \/ \E j \in 1 .. k - 1 : x = res[j]
        BY <1>3, <1>8
      <4>2. {last, w} = {p, c}
        BY <2>3
      <4>3. CASE x = c
        BY <2>3, <2>4, <2>5, <4>3
      <4>4. CASE x # c
        BY <2>5, <4>1, <4>2, <4>4
      <4> QED BY <4>3, <4>4
    <3>2. \A i, j \in 1 .. k - 1 : res[i] = res[j] => i = j
      BY <1>3, <1>4
    <3> QED BY <2>4, <2>8, <2>9, <3>1, <3>2 DEF Roots
  <2>11. Results(n, res, k - 1, rest)
    <3>1. \A j \in 1 .. k - 1 : n[res[j]].prev = IF j = 1 THEN NULL ELSE res[j - 1]
      BY <1>2, <1>4, <2>8 DEF Results
    <3> QED BY <1>4, <1>6, <3>1 DEF Results
  <2>12. Alone(n, p, k - 1 > 0)
    BY <2>7 DEF Alone
  <2> HIDE DEF n, p
  <2>13. MergeBack(v).s.mem = n /\ MergeBack(v).root = p /\ MergeBack(v).tail = rest /\ MergeBack(v).s = r.s
    BY <1>7 DEF n, p
  <2>14. \E up3, par3 : Forest(n, L, up3, par3) /\ Roots(n, L, up3, others, res, k - 1, p)
    BY <2>5, <2>10
  <2> QED BY <1>7, <2>2, <2>7, <2>11, <2>12, <2>13, <2>14 DEF Merging
<1> QED BY <1>10, <1>11

(* What collapse does to the trees of a list: they become one.             *)
Collapsed(s, r, L, others) ==
  /\ r.s \in State /\ r.root \in Pointer
  /\ r.s.root = s.root /\ r.s.size = s.size /\ SameKeys(s.mem, r.s.mem)
  /\ \E up, par : /\ Forest(r.s.mem, L, up, par)
                  /\ Roots(r.s.mem, L, up, others, <<>>, 0, r.root)
  /\ Alone(r.s.mem, r.root, FALSE)

LEMMA CollapseForest ==
  ASSUME NEW s \in State, NEW L, NEW others, NEW n \in Pointer, NEW up, NEW par,
         Forest(s.mem, L, up, par), Roots(s.mem, L, up, others, <<>>, 0, n)
  PROVE  Collapsed(s, collapse(s, n), L, others)
<1> DEFINE N == Cardinality(Node)
           v1 == Paired(s, n)
<1>1. N \in Nat
  BY NodesAssumption, FS_CardinalityType
<1>2. v1.next = NULL /\ \E k \in 0 .. N : \E res : Pairing(v1, s, L, others, res, k)
  BY PairedEnds
<1>3. PICK k \in 0 .. N : \E res : Pairing(v1, s, L, others, res, k)
  BY <1>2
<1>4. PICK res : Pairing(v1, s, L, others, res, k)
  BY <1>3
<1>5. v1.s \in State /\ v1.tail \in Pointer
  BY <1>4 DEF Pairing, Pass1
<1> DEFINE start == [s |-> v1.s, tail |-> v1.tail, root |-> NULL]
           step == [v \in Pass2 |-> MergeBack(v)]
           v2 == Merged(v1.s, v1.tail)
<1>6. PICK f : Iterates(f, N, Pass2, start, step) /\ v2 = f[N]
  BY <1>5, MergedIterates
<1> HIDE DEF N, v1
<1> DEFINE I == {i \in 0 .. N : \E j \in 0 .. N - i : Merging(f[i], s, L, others, res, j)}
<1>7. 0 \in I
  <2>1. f[0] = start /\ start \in Pass2
    BY <1>1, <1>5, <1>6 DEF Iterates, Pass2, Pointer
  <2>2. Merging(start, s, L, others, res, k)
    BY <1>2, <1>4, <2>1 DEF Pairing, Merging, Alone
  <2> HIDE DEF start
  <2>3. 0 \in 0 .. N /\ k \in 0 .. N - 0
    BY <1>1
  <2> QED BY <2>1, <2>2, <2>3
<1>8. ASSUME NEW i \in 1 .. N, i - 1 \in I PROVE i \in I
  <2>1. PICK j \in 0 .. N - (i - 1) : Merging(f[i - 1], s, L, others, res, j)
    BY <1>8
  <2>2. f[i] = MergeBack(f[i - 1])
    <3>1. f[i - 1] \in Pass2
      BY <2>1 DEF Merging
    <3> QED BY <1>6, <3>1 DEF Iterates
  <2>3. CASE j = 0
    <3>1. f[i - 1].tail = NULL
      BY <2>1, <2>3 DEF Merging, Results
    <3>2. f[i] = f[i - 1]
      BY <2>2, <3>1 DEF MergeBack
    <3>3. 0 \in 0 .. N - i /\ i \in 0 .. N
      BY <1>1
    <3> QED BY <2>1, <2>3, <3>2, <3>3
  <2>4. CASE j # 0
    <3>1. j \in Nat /\ j > 0 /\ j - 1 \in 0 .. N - i /\ i \in 0 .. N
      BY <1>1, <2>4
    <3>2. Merging(f[i], s, L, others, res, j - 1)
      BY <2>1, <2>2, <3>1, MergeBackStep
    <3> QED BY <3>1, <3>2
  <2> QED BY <2>3, <2>4
<1>9. N \in I
  <2> HIDE DEF I
  <2> QED BY <1>1, <1>7, <1>8, LoopInduction
<1>10. Merging(v2, s, L, others, res, 0)
  <2>1. PICK j \in 0 .. N - N : Merging(f[N], s, L, others, res, j)
    BY <1>9
  <2>2. j = 0
    BY <1>1
  <2> QED BY <1>6, <2>1, <2>2
<1>11. collapse(s, n).s = v2.s /\ collapse(s, n).root = v2.root
  BY DEF collapse, v1
<1> HIDE DEF v2
<1>12. PICK up2, par2 : /\ Forest(v2.s.mem, L, up2, par2)
                        /\ Roots(v2.s.mem, L, up2, others, res, 0, v2.root)
  BY <1>10 DEF Merging
<1>13. Roots(v2.s.mem, L, up2, others, <<>>, 0, v2.root)
  <2>1. ~ \E j : j \in 1 .. 0
    OBVIOUS
  <2> QED BY <1>12, <2>1 DEF Roots
<1>14. Alone(v2.s.mem, v2.root, FALSE)
  BY <1>10 DEF Merging, Alone
<1> QED BY <1>10, <1>11, <1>12, <1>13, <1>14 DEF Merging, Collapsed, Pass2

-----------------------------------------------------------------------------
(* The heap is one tree of the nodes allocated.                            *)
OneTree(m, L, r) ==
  /\ \E up, par : Forest(m, L, up, par) /\ Roots(m, L, up, {}, <<>>, 0, r)
  /\ Alone(m, r, FALSE)

IInv ==
  /\ heap \in State /\ live \in SUBSET Node
  /\ OneTree(heap.mem, live, heap.root)
  /\ heap.size = Cardinality(live)

LEMMA RootsOfTree ==
  ASSUME NEW m, NEW L, NEW up, NEW r
  PROVE  Roots(m, L, up, {}, <<>>, 0, r) <=>
           r \in L \cup {NULL} /\ \A x \in L : up[x] = NULL <=> x = r
<1>1. ~ \E j : j \in 1 .. 0
  OBVIOUS
<1> QED BY <1>1 DEF Roots

(* What freed nodes hold does not matter.                                  *)
LEMMA ForestElsewhere ==
  ASSUME NEW m, NEW L, NEW up, NEW par, Forest(m, L, up, par),
         NEW t \in Memory,
         \A x \in L : /\ t[x].child = m[x].child /\ t[x].next = m[x].next
                      /\ t[x].prev = m[x].prev /\ t[x].key = m[x].key
  PROVE  Forest(t, L, up, par)
<1>1. Down(t, L, up, par)
  BY DEF Forest, Down
<1>2. Back(t, L, up, par)
  BY DEF Forest, Back
<1>3. KeysAscend(t, L, par)
  BY DEF Forest, KeysAscend
<1> QED BY <1>1, <1>2, <1>3 DEF Forest

(* The merge of the only two trees, whose roots may still have the next    *)
(* and prev they had elsewhere.                                            *)
LEMMA UniteRoots ==
  ASSUME NEW s \in State, NEW m, NEW L, NEW up, NEW par, Forest(m, L, up, par),
         NEW a \in L, NEW b \in L, a # b,
         \A x \in L : up[x] = NULL <=> x = a \/ x = b,
         m[a].next = NULL, m[b].next = NULL,
         \A x \in Node : /\ s.mem[x].child = m[x].child /\ s.mem[x].key = m[x].key
                         /\ x # a /\ x # b => s.mem[x].next = m[x].next /\ s.mem[x].prev = m[x].prev
  PROVE  LET r == merge(s, a, b)
         IN  /\ r.s \in State /\ r.root \in Node /\ r.s.size = s.size
             /\ OneTree(r.s.mem, L, r.root) /\ SameKeys(s.mem, r.s.mem)
<1> DEFINE r == merge(s, a, b)
           n == r.s.mem
<1>1. L \in SUBSET Node /\ NULL \notin L /\ a \in Node /\ b \in Node
  BY NullAssumption DEF Forest
<1>2. /\ r.s \in State /\ r.s.root = s.root /\ r.s.size = s.size
      /\ \E p, c \in {a, b} : r.root = p /\ p # c /\ s.mem[p].key <= s.mem[c].key /\ Joined(s.mem, n, p, c)
  BY <1>1, MergeWrites
<1> HIDE DEF r
<1>3. PICK p, c \in {a, b} : r.root = p /\ p # c /\ s.mem[p].key <= s.mem[c].key /\ Joined(s.mem, n, p, c)
  BY <1>2
<1>4. /\ n \in Memory /\ p \in L /\ c \in L /\ up[p] = NULL /\ up[c] = NULL
      /\ m[p].next = NULL /\ m[c].next = NULL /\ m[p].key <= m[c].key
  BY <1>1, <1>2, <1>3 DEF State
<1>5. Joined(m, n, p, c)
  BY <1>1, <1>3 DEF Joined
<1>6. PICK up2, par2 : /\ Forest(n, L, up2, par2)
                       /\ \A x \in L : up2[x] = NULL <=> up[x] = NULL /\ x # c
  BY <1>3, <1>4, <1>5, JoinForest
<1>7. Roots(n, L, up2, {}, <<>>, 0, p)
  BY <1>3, <1>4, <1>6, RootsOfTree
<1>8. Alone(n, p, FALSE) /\ SameKeys(s.mem, n)
  BY <1>1, <1>3, <1>4 DEF Joined, Alone, SameKeys
<1>9. OneTree(n, L, r.root)
  BY <1>3, <1>6, <1>7, <1>8 DEF OneTree
<1> QED BY <1>1, <1>2, <1>3, <1>8, <1>9 DEF r

LEMMA InitIInv == Init => IInv
<1> SUFFICES ASSUME Init PROVE IInv
  OBVIOUS
<1>1. Zeroed \in Cell
  BY KeyAssumption DEF Zeroed, Cell, Pointer
<1>2. heap \in State /\ live = {} /\ heap.root = NULL /\ heap.size = 0 /\ heap.mem \in Memory
  BY <1>1 DEF Init, State, Memory, Pointer
<1> DEFINE none == [x \in {} |-> NULL]
<1>3. Forest(heap.mem, {}, none, none)
  BY <1>2 DEF Forest, Down, Back, KeysAscend, NoCycle
<1>4. Roots(heap.mem, {}, none, {}, <<>>, 0, NULL)
  BY RootsOfTree
<1>5. OneTree(heap.mem, {}, NULL)
  BY <1>3, <1>4 DEF OneTree, Alone
<1> QED BY <1>2, <1>5, FS_EmptySet DEF IInv

LEMMA ClearStep ==
  ASSUME IInv, pq_clear
  PROVE  IInv' /\ live' = {}
<1>1. /\ heap' \in State /\ heap'.root = NULL /\ heap'.size = 0 /\ heap'.mem \in Memory /\ live' = {}
  <2>1. heap \in State /\ heap' = [heap EXCEPT !.root = NULL, !.size = 0] /\ live' = {}
    BY DEF IInv, pq_clear
  <2>2. NULL \in Pointer /\ 0 \in Int
    BY DEF Pointer
  <2> QED BY <2>1, <2>2 DEF State
<1> DEFINE none == [x \in {} |-> NULL]
<1>2. Forest(heap'.mem, {}, none, none)
  BY <1>1 DEF Forest, Down, Back, KeysAscend, NoCycle
<1>3. Roots(heap'.mem, {}, none, {}, <<>>, 0, NULL)
  BY RootsOfTree
<1>4. OneTree(heap'.mem, {}, NULL)
  BY <1>2, <1>3 DEF OneTree, Alone
<1> QED BY <1>1, <1>4, FS_EmptySet DEF IInv

LEMMA InsertStep ==
  ASSUME IInv, NEW n \in Node, NEW k \in Key, pq_insert(n, k)
  PROVE  /\ IInv' /\ n \notin live /\ live' = live \cup {n}
         /\ heap'.mem[n].key = k
         /\ \A x \in live : heap'.mem[x].key = heap.mem[x].key
<1> DEFINE s == [heap EXCEPT !.mem[n] = [Zeroed EXCEPT !.key = k], !.size = @ + 1]
           r == merge(s, s.root, n)
           L == live \cup {n}
<1>1. /\ n \in Node \ live /\ heap' = [r.s EXCEPT !.root = r.root] /\ live' = L
  BY DEF pq_insert
<1>2. /\ heap \in State /\ heap.mem \in Memory /\ live \in SUBSET Node /\ heap.size = Cardinality(live)
      /\ OneTree(heap.mem, live, heap.root) /\ heap.root \in Pointer
  BY DEF IInv, State
<1>3. [Zeroed EXCEPT !.key = k] \in Cell /\ [Zeroed EXCEPT !.key = k].key = k
      /\ [Zeroed EXCEPT !.key = k].child = NULL /\ [Zeroed EXCEPT !.key = k].next = NULL
      /\ [Zeroed EXCEPT !.key = k].prev = NULL
  BY DEF Zeroed, Cell, Pointer
<1>4. /\ s \in State /\ s.mem \in Memory /\ s.root = heap.root /\ s.size = heap.size + 1
      /\ s.mem[n].key = k /\ s.mem[n].child = NULL /\ s.mem[n].next = NULL /\ s.mem[n].prev = NULL
      /\ \A x \in live : s.mem[x] = heap.mem[x]
  <2> DEFINE cell == [Zeroed EXCEPT !.key = k]
             mem == [heap.mem EXCEPT ![n] = cell]
  <2>1. /\ cell \in Cell /\ cell.key = k /\ cell.child = NULL /\ cell.next = NULL /\ cell.prev = NULL
    BY <1>3
  <2> HIDE DEF cell
  <2>2. mem \in Memory /\ mem[n] = cell /\ \A x \in live : mem[x] = heap.mem[x]
    BY <1>1, <1>2, <2>1 DEF Memory
  <2>3. s = [heap EXCEPT !.mem = mem, !.size = heap.size + 1]
    BY <1>2 DEF State, cell
  <2> HIDE DEF mem, s
  <2>4. s \in State /\ s.mem = mem /\ s.root = heap.root /\ s.size = heap.size + 1
    <3>1. heap \in State /\ mem \in Memory /\ heap.size + 1 \in Int
      BY <1>2, <2>2 DEF State
    <3> QED BY <2>3, <3>1 DEF State
  <2> QED BY <2>1, <2>2, <2>4
<1> HIDE DEF s
<1>5. PICK up, par : Forest(heap.mem, live, up, par) /\ Roots(heap.mem, live, up, {}, <<>>, 0, heap.root)
  BY <1>2 DEF OneTree
<1>6. PICK up2, par2 : /\ Forest(s.mem, L, up2, par2)
                       /\ \A x \in L : up2[x] = NULL <=> x = n \/ up[x] = NULL
  <2>1. /\ n \in Node \ live /\ s.mem \in Memory /\ \A x \in live : s.mem[x] = heap.mem[x]
        /\ s.mem[n].child = NULL /\ s.mem[n].next = NULL
        /\ Forest(heap.mem, live, up, par)
    BY <1>1, <1>4, <1>5
  <2> QED BY ONLY <2>1, AddForest
<1>7. /\ heap.root \in live \cup {NULL} /\ \A x \in live : up[x] = NULL <=> x = heap.root
  BY <1>5, RootsOfTree
<1>8. NULL \notin Node /\ n # NULL /\ n \in L /\ NULL \notin live
  BY <1>2, NullAssumption
<1>9. /\ r.s \in State /\ r.root \in Node /\ r.s.size = s.size
      /\ OneTree(r.s.mem, L, r.root) /\ SameKeys(s.mem, r.s.mem)
  <2>1. CASE heap.root = NULL
    <3>1. r = [s |-> s, root |-> n]
      BY <1>4, <2>1 DEF merge
    <3>2. r.s = s /\ r.root = n
      BY <3>1
    <3> HIDE DEF r
    <3>3. Roots(s.mem, L, up2, {}, <<>>, 0, n)
      BY <1>6, <1>7, <1>8, <2>1, RootsOfTree
    <3>4. Alone(s.mem, n, FALSE) /\ SameKeys(s.mem, s.mem)
      BY <1>4 DEF Alone, SameKeys
    <3>5. OneTree(s.mem, L, n)
      BY <1>6, <3>3, <3>4 DEF OneTree
    <3> QED BY <1>4, <3>2, <3>4, <3>5
  <2>2. CASE heap.root # NULL
    <3>1. heap.root \in L /\ heap.root # n /\ heap.root \in live
      BY <1>1, <1>7, <2>2
    <3>2. \A x \in L : up2[x] = NULL <=> x = heap.root \/ x = n
      BY <1>6, <1>7
    <3>3. s.mem[heap.root].next = NULL
      BY <1>2, <1>4, <2>2, <3>1 DEF OneTree, Alone
    <3> HIDE DEF L
    <3>4. r = merge(s, heap.root, n)
      BY <1>4
    <3> HIDE DEF r
    <3>5. /\ s \in State /\ heap.root \in L /\ n \in L /\ heap.root # n
          /\ s.mem[n].next = NULL /\ Forest(s.mem, L, up2, par2)
      BY <1>4, <1>6, <1>8, <3>1
    <3> QED BY ONLY <3>2, <3>3, <3>4, <3>5, UniteRoots
  <2> QED BY <2>1, <2>2
<1> HIDE DEF r
<1>10. heap' \in State /\ heap'.root = r.root /\ heap'.size = s.size /\ heap'.mem = r.s.mem
  BY <1>1, <1>9 DEF State, Pointer
<1>11. Cardinality(L) = Cardinality(live) + 1
  BY <1>1, <1>2, NodesAssumption, FS_Subset, FS_AddElement
<1>12. IInv'
  BY <1>1, <1>2, <1>4, <1>9, <1>10, <1>11 DEF IInv
<1> QED BY <1>1, <1>2, <1>4, <1>9, <1>10, <1>12 DEF SameKeys

(* The memory after a cut, with the next of the node cut out forgotten.    *)
LEMMA CutForest ==
  ASSUME NEW s \in State, NEW L, NEW up, NEW par, NEW m, Forest(m, L, up, par),
         NEW n \in L, up[n] # NULL,
         \A x \in Node : /\ s.mem[x].child = m[x].child /\ s.mem[x].next = m[x].next
                         /\ s.mem[x].prev = m[x].prev
                         /\ IF x = n THEN s.mem[x].key <= m[x].key ELSE s.mem[x].key = m[x].key
  PROVE  /\ Cut(s, n) \in State /\ Cut(s, n).root = s.root /\ Cut(s, n).size = s.size
         /\ SameKeys(s.mem, Cut(s, n).mem)
         /\ \E t, up2, par2 :
              /\ t \in Memory
              /\ Forest(t, L, up2, par2)
              /\ \A x \in L : up2[x] = NULL <=> up[x] = NULL \/ x = n
              /\ t[n].next = NULL /\ t[n].child = m[n].child
              /\ \A x \in Node : /\ t[x].child = Cut(s, n).mem[x].child
                                 /\ t[x].prev = Cut(s, n).mem[x].prev
                                 /\ t[x].key = Cut(s, n).mem[x].key
                                 /\ x # n => t[x].next = Cut(s, n).mem[x].next
              /\ \A r \in L : up[r] = NULL =>
                   /\ m[r].next = NULL => t[r].next = NULL
                   /\ t[r].prev = m[r].prev
<1> DEFINE c == Cut(s, n)
           t == [x \in Node |-> [c.mem[x] EXCEPT !.next = IF x = n THEN NULL ELSE @]]
           q == m[n].prev
<1>1. /\ L \in SUBSET Node /\ NULL \notin L /\ n \in Node /\ q = up[n] /\ q \in L /\ q \in Node
      /\ n \in {m[q].child, m[q].next} /\ n # q
  <2>1. L \in SUBSET Node /\ NULL \notin L /\ q = up[n] /\ q \in L /\ n \in {m[q].child, m[q].next}
    BY NullAssumption DEF Forest, Back
  <2>2. n # q
    BY <2>1, NotOwnParent DEF Forest
  <2> QED BY <2>1, <2>2
<1>2. s.mem[n].prev = q /\ q \in Node
  BY <1>1
<1> HIDE DEF q
<1>3. c \in State /\ c.root = s.root /\ c.size = s.size /\ CutOut(s.mem, c.mem, n)
  BY <1>1, <1>2, CutWrites
<1> HIDE DEF c
<1>4. \A x \in Node :
        /\ c.mem[x].child = IF x = q /\ m[q].child = n THEN m[n].next ELSE m[x].child
        /\ c.mem[x].next = IF x = q /\ m[q].child # n THEN m[n].next ELSE m[x].next
        /\ c.mem[x].prev = IF x = m[n].next THEN q ELSE m[x].prev
        /\ c.mem[x].key = s.mem[x].key
  BY <1>1, <1>2, <1>3 DEF CutOut
<1>5. /\ t \in Memory
      /\ \A x \in Node : /\ t[x].child = c.mem[x].child /\ t[x].prev = c.mem[x].prev
                         /\ t[x].key = c.mem[x].key
                         /\ t[x].next = IF x = n THEN NULL ELSE c.mem[x].next
  <2>1. c.mem \in Memory
    BY <1>3 DEF State
  <2> QED BY <2>1 DEF Memory, Cell, Pointer
<1> HIDE DEF t
<1>6. Severed(m, t, n)
  BY <1>1, <1>4, <1>5 DEF Severed, q
<1>7. PICK up2, par2 : /\ Forest(t, L, up2, par2)
                       /\ \A x \in L : up2[x] = NULL <=> up[x] = NULL \/ x = n
  BY <1>5, <1>6, SeverForest
<1>8. t[n].next = NULL /\ t[n].child = m[n].child
  BY <1>1, <1>4, <1>5
<1>9. ASSUME NEW r \in L, up[r] = NULL
      PROVE  (m[r].next = NULL => t[r].next = NULL) /\ t[r].prev = m[r].prev
  <2>1. r # m[n].next /\ r # n /\ r \in Node
    BY <1>1, <1>9 DEF Forest, Down
  <2>2. t[r].prev = m[r].prev
    BY <1>4, <1>5, <2>1
  <2>3. ASSUME m[r].next = NULL PROVE t[r].next = NULL
    <3>1. r = q => m[q].child = n
      BY <1>1, <2>3
    <3> QED BY <1>4, <1>5, <2>1, <2>3, <3>1
  <2> QED BY <2>2, <2>3
<1>10. SameKeys(s.mem, c.mem)
  BY <1>4 DEF SameKeys
<1>11. \E t2, up3, par3 :
         /\ t2 \in Memory
         /\ Forest(t2, L, up3, par3)
         /\ \A x \in L : up3[x] = NULL <=> up[x] = NULL \/ x = n
         /\ t2[n].next = NULL /\ t2[n].child = m[n].child
         /\ \A x \in Node : /\ t2[x].child = c.mem[x].child
                            /\ t2[x].prev = c.mem[x].prev
                            /\ t2[x].key = c.mem[x].key
                            /\ x # n => t2[x].next = c.mem[x].next
         /\ \A r \in L : up[r] = NULL =>
              /\ m[r].next = NULL => t2[r].next = NULL
              /\ t2[r].prev = m[r].prev
  <2>1. \A x \in Node : /\ t[x].child = c.mem[x].child
                        /\ t[x].prev = c.mem[x].prev
                        /\ t[x].key = c.mem[x].key
                        /\ x # n => t[x].next = c.mem[x].next
    BY <1>5
  <2> QED BY <1>5, <1>7, <1>8, <1>9, <2>1
<1> QED BY <1>3, <1>10, <1>11 DEF c

LEMMA SetKey ==
  ASSUME NEW s \in State, NEW n \in Node, NEW k \in Key
  PROVE  LET t == Set(s, n, "key", k)
         IN  /\ t \in State /\ t.root = s.root /\ t.size = s.size
             /\ \A x \in Node : /\ t.mem[x].child = s.mem[x].child
                                /\ t.mem[x].next = s.mem[x].next
                                /\ t.mem[x].prev = s.mem[x].prev
                                /\ t.mem[x].key = IF x = n THEN k ELSE s.mem[x].key
BY DEF Set, State, Memory, Cell

LEMMA DecreaseKeyStep ==
  ASSUME IInv, NEW n \in Node, NEW k \in Key, pq_decrease_key(n, k)
  PROVE  /\ IInv' /\ n \in live /\ live' = live /\ k <= heap.mem[n].key
         /\ \A x \in live : heap'.mem[x].key = IF x = n THEN k ELSE heap.mem[x].key
<1> DEFINE s == Set(heap, n, "key", k)
           c == Cut(s, n)
           m == heap.mem
           r == merge(c, s.root, n)
<1>1. /\ n \in live /\ k <= m[n].key /\ live' = live
      /\ heap' = IF n = heap.root THEN s ELSE [r.s EXCEPT !.root = r.root]
  BY DEF pq_decrease_key
<1>2. /\ heap \in State /\ m \in Memory /\ live \in SUBSET Node /\ heap.size = Cardinality(live)
      /\ OneTree(m, live, heap.root) /\ heap.root \in Pointer
  BY DEF IInv, State
<1>3. PICK up, par : Forest(m, live, up, par) /\ Roots(m, live, up, {}, <<>>, 0, heap.root)
  BY <1>2 DEF OneTree
<1>4. heap.root \in live \cup {NULL} /\ \A x \in live : up[x] = NULL <=> x = heap.root
  BY <1>3, RootsOfTree
<1>5. /\ s \in State /\ s.mem \in Memory /\ s.root = heap.root /\ s.size = heap.size
      /\ \A x \in Node : /\ s.mem[x].child = m[x].child
                         /\ s.mem[x].next = m[x].next
                         /\ s.mem[x].prev = m[x].prev
                         /\ s.mem[x].key = IF x = n THEN k ELSE m[x].key
  <2>1. s \in State => s.mem \in Memory
    BY DEF State
  <2> QED BY <1>2, <2>1, SetKey
<1> HIDE DEF s, m
<1>6. CASE n = heap.root
  <2>1. heap' = s
    BY <1>1, <1>6
  <2>2. Forest(s.mem, live, up, par)
    <3>1. Down(s.mem, live, up, par)
      BY <1>2, <1>3, <1>5 DEF Forest, Down
    <3>2. Back(s.mem, live, up, par)
      BY <1>2, <1>3, <1>5 DEF Forest, Back
    <3>3. KeysAscend(s.mem, live, par)
      <4> SUFFICES ASSUME NEW x \in live, par[x] # NULL PROVE s.mem[par[x]].key <= s.mem[x].key
        BY DEF KeysAscend
      <4>1. x # n
        BY <1>1, <1>3, <1>4, <1>6 DEF Forest, Back
      <4>2. par[x] \in live /\ m[par[x]].key <= m[x].key
        BY <1>3 DEF Forest, KeysAscend
      <4>3. s.mem[x].key = m[x].key /\ s.mem[par[x]].key \in {k, m[par[x]].key} 
            /\ (s.mem[par[x]].key = k => par[x] = n \/ m[par[x]].key = k)
        BY <1>2, <1>5, <4>1, <4>2
      <4>4. m[x].key \in Nat /\ m[par[x]].key \in Nat /\ m[n].key \in Nat /\ k \in Nat
        BY <1>1, <1>2, <4>2, KeyIsNat, KeyAssumption
      <4> QED BY <1>1, <4>2, <4>3, <4>4
    <3> QED BY <1>3, <1>5, <3>1, <3>2, <3>3 DEF Forest
  <2>3. Roots(s.mem, live, up, {}, <<>>, 0, heap.root)
    BY <1>4, RootsOfTree
  <2>4. Alone(s.mem, heap.root, FALSE)
    <3>1. Alone(m, heap.root, FALSE) /\ n \in Node
      BY <1>2 DEF OneTree
    <3> QED BY <1>5, <1>6, <3>1 DEF Alone
  <2>5. OneTree(s.mem, live, heap.root)
    BY <2>2, <2>3, <2>4 DEF OneTree
  <2>6. IInv'
    BY <1>1, <1>2, <1>5, <2>1, <2>5 DEF IInv
  <2> QED BY <1>1, <1>2, <1>5, <2>1, <2>6 DEF m
<1>7. CASE n # heap.root
  <2>1. heap' = [r.s EXCEPT !.root = r.root]
    BY <1>1, <1>7
  <2>2. up[n] # NULL /\ heap.root \in live /\ up[heap.root] = NULL
    <3>1. up[n] # NULL
      BY <1>1, <1>4, <1>7
    <3>2. \E x \in live : up[x] \notin live
      BY <1>1, <1>3 DEF Forest, NoCycle
    <3>3. \E x \in live : up[x] = NULL
      BY <1>3, <3>2 DEF Forest
    <3> QED BY <1>4, <3>1, <3>3
  <2>3. \A x \in Node : /\ s.mem[x].child = m[x].child /\ s.mem[x].next = m[x].next
                        /\ s.mem[x].prev = m[x].prev
                        /\ IF x = n THEN s.mem[x].key <= m[x].key ELSE s.mem[x].key = m[x].key
    BY <1>1, <1>5
  <2>4. /\ c \in State /\ c.root = s.root /\ c.size = s.size /\ SameKeys(s.mem, c.mem)
        /\ \E t, up2, par2 :
             /\ t \in Memory
             /\ Forest(t, live, up2, par2)
             /\ \A x \in live : up2[x] = NULL <=> up[x] = NULL \/ x = n
             /\ t[n].next = NULL /\ t[n].child = m[n].child
             /\ \A x \in Node : /\ t[x].child = c.mem[x].child
                                /\ t[x].prev = c.mem[x].prev
                                /\ t[x].key = c.mem[x].key
                                /\ x # n => t[x].next = c.mem[x].next
             /\ \A y \in live : up[y] = NULL =>
                  /\ m[y].next = NULL => t[y].next = NULL
                  /\ t[y].prev = m[y].prev
    <3> HIDE DEF c
    <3>1. c = Cut(s, n)
      BY DEF c
    <3>2. s \in State /\ n \in live /\ up[n] # NULL /\ Forest(m, live, up, par)
      BY <1>1, <1>3, <1>5, <2>2
    <3> QED BY ONLY <2>3, <3>1, <3>2, CutForest
  <2> HIDE DEF c
  <2>5. PICK t, up2, par2 :
             /\ t \in Memory
             /\ Forest(t, live, up2, par2)
             /\ \A x \in live : up2[x] = NULL <=> up[x] = NULL \/ x = n
             /\ t[n].next = NULL /\ t[n].child = m[n].child
             /\ \A x \in Node : /\ t[x].child = c.mem[x].child
                                /\ t[x].prev = c.mem[x].prev
                                /\ t[x].key = c.mem[x].key
                                /\ x # n => t[x].next = c.mem[x].next
             /\ \A y \in live : up[y] = NULL =>
                  /\ m[y].next = NULL => t[y].next = NULL
                  /\ t[y].prev = m[y].prev
    BY <2>4
  <2>6. \A x \in live : up2[x] = NULL <=> x = heap.root \/ x = n
    BY <1>4, <2>5
  <2>7. t[heap.root].next = NULL
    <3>1. m[heap.root].next = NULL
      BY <1>2, <2>2, <1>7, NullAssumption DEF OneTree, Alone
    <3> QED BY <2>2, <2>5, <3>1
  <2>8. \A x \in Node : /\ c.mem[x].child = t[x].child /\ c.mem[x].key = t[x].key
                        /\ x # heap.root /\ x # n => c.mem[x].next = t[x].next /\ c.mem[x].prev = t[x].prev
    BY <2>5
  <2>9. r = merge(c, heap.root, n)
    BY <1>5
  <2> HIDE DEF r
  <2>10. /\ r.s \in State /\ r.root \in Node /\ r.s.size = c.size
         /\ OneTree(r.s.mem, live, r.root) /\ SameKeys(c.mem, r.s.mem)
    <3>1. /\ c \in State /\ heap.root \in live /\ n \in live /\ heap.root # n
          /\ t[n].next = NULL /\ Forest(t, live, up2, par2)
      BY <1>1, <1>7, <2>2, <2>4, <2>5
    <3> QED BY ONLY <2>6, <2>7, <2>8, <2>9, <3>1, UniteRoots
  <2>11. heap' \in State /\ heap'.root = r.root /\ heap'.size = c.size /\ heap'.mem = r.s.mem
    BY <2>1, <2>10 DEF State, Pointer
  <2>12. IInv'
    BY <1>1, <1>2, <1>5, <2>4, <2>10, <2>11 DEF IInv
  <2>13. \A x \in live : heap'.mem[x].key = s.mem[x].key
    BY <1>2, <2>4, <2>10, <2>11 DEF SameKeys
  <2> QED BY <1>1, <1>2, <1>5, <2>12, <2>13 DEF m
<1> QED BY <1>6, <1>7

LEMMA DeleteStep ==
  ASSUME IInv, NEW n, pq_delete(n)
  PROVE  /\ IInv' /\ n \in live /\ live' = live \ {n}
         /\ \A x \in live' : heap'.mem[x].key = heap.mem[x].key
<1> DEFINE m == heap.mem
           K == live \ {n}
           c == Cut(heap, n)
           rest == collapse(c, c.mem[n].child)
           whole == collapse(heap, m[n].child)
           both == merge(rest.s, rest.s.root, rest.root)
           r == IF n = heap.root THEN whole ELSE both
<1>1. n \in live /\ live' = K /\ heap' = [r.s EXCEPT !.root = r.root, !.size = @ - 1]
  BY DEF pq_delete
<1>2. /\ heap \in State /\ m \in Memory /\ live \in SUBSET Node /\ heap.size = Cardinality(live)
      /\ OneTree(m, live, heap.root) /\ heap.root \in Pointer /\ n \in Node /\ NULL \notin live
  BY <1>1, NullAssumption DEF IInv, State
<1>3. PICK up, par : Forest(m, live, up, par) /\ Roots(m, live, up, {}, <<>>, 0, heap.root)
  BY <1>2 DEF OneTree
<1>4. heap.root \in live \cup {NULL} /\ \A x \in live : up[x] = NULL <=> x = heap.root
  BY <1>3, RootsOfTree
<1>5. heap.root # NULL => m[heap.root].next = NULL /\ m[heap.root].prev = NULL
  BY <1>2 DEF OneTree, Alone
<1>6. Cardinality(K) = Cardinality(live) - 1
  BY <1>1, <1>2, NodesAssumption, FS_Subset, FS_RemoveElement
<1> HIDE DEF m, K
<1>7. /\ r.s \in State /\ r.root \in Pointer /\ r.s.size = heap.size
      /\ OneTree(r.s.mem, K, r.root) /\ SameKeys(m, r.s.mem)
  <2>1. CASE n = heap.root
    <3>1. up[n] = NULL /\ m[n].next = NULL
      BY <1>1, <1>2, <1>4, <1>5, <2>1
    <3>2. PICK up2, par2 : /\ Forest(m, K, up2, par2)
                           /\ \A x \in K : up2[x] = NULL <=> up[x] = NULL \/ x = m[n].child
      <4>1. n \in live /\ up[n] = NULL /\ m[n].next = NULL /\ Forest(m, live, up, par)
        BY <1>1, <1>3, <3>1
      <4>2. Dropped(m, K, up, n)
        BY ONLY <4>1, DropForest DEF K
      <4> QED BY ONLY <4>2 DEF Dropped
    <3>3. m[n].child \in K \cup {NULL}
      BY <1>1, <1>2, <1>3, <3>1 DEF Forest, Down, K
    <3>4. Roots(m, K, up2, {}, <<>>, 0, m[n].child)
      <4>1. \A x \in K : up2[x] = NULL <=> x = m[n].child
        BY <1>4, <2>1, <3>2 DEF K
      <4> QED BY <3>3, <4>1, RootsOfTree
    <3>5. m[n].child \in Pointer
      BY <1>2, <3>3 DEF K, Pointer
    <3>6. Collapsed(heap, whole, K, {})
      BY <1>2, <3>2, <3>4, <3>5, CollapseForest DEF m
    <3> HIDE DEF whole
    <3>7. r = whole
      BY <2>1
    <3> QED BY <3>6, <3>7 DEF Collapsed, OneTree, m
  <2>2. CASE n # heap.root
    <3>1. up[n] # NULL /\ heap.root \in live /\ up[heap.root] = NULL /\ heap.root # NULL
      <4>1. up[n] # NULL
        BY <1>1, <1>4, <2>2
      <4>2. \E x \in live : up[x] \notin live
        BY <1>1, <1>3 DEF Forest, NoCycle
      <4>3. \E x \in live : up[x] = NULL
        BY <1>3, <4>2 DEF Forest
      <4> QED BY <1>2, <1>4, <4>1, <4>3
    <3>2. \A x \in Node : /\ heap.mem[x].child = m[x].child /\ heap.mem[x].next = m[x].next
                          /\ heap.mem[x].prev = m[x].prev
                          /\ IF x = n THEN heap.mem[x].key <= m[x].key ELSE heap.mem[x].key = m[x].key
      <4>1. m[n].key \in Nat /\ m[n].key <= m[n].key
        BY <1>2, KeyIsNat
      <4> QED BY <4>1 DEF m
    <3>3. /\ c \in State /\ c.root = heap.root /\ c.size = heap.size /\ SameKeys(heap.mem, c.mem)
          /\ \E t, up2, par2 :
               /\ t \in Memory
               /\ Forest(t, live, up2, par2)
               /\ \A x \in live : up2[x] = NULL <=> up[x] = NULL \/ x = n
               /\ t[n].next = NULL /\ t[n].child = m[n].child
               /\ \A x \in Node : /\ t[x].child = c.mem[x].child
                                  /\ t[x].prev = c.mem[x].prev
                                  /\ t[x].key = c.mem[x].key
                                  /\ x # n => t[x].next = c.mem[x].next
               /\ \A y \in live : up[y] = NULL =>
                    /\ m[y].next = NULL => t[y].next = NULL
                    /\ t[y].prev = m[y].prev
      <4> HIDE DEF c
      <4>1. c = Cut(heap, n)
        BY DEF c
      <4>2. heap \in State /\ n \in live /\ up[n] # NULL /\ Forest(m, live, up, par)
        BY <1>1, <1>2, <1>3, <3>1
      <4> QED BY ONLY <3>2, <4>1, <4>2, CutForest
    <3> HIDE DEF c
    <3>4. PICK t, up2, par2 :
               /\ t \in Memory
               /\ Forest(t, live, up2, par2)
               /\ \A x \in live : up2[x] = NULL <=> up[x] = NULL \/ x = n
               /\ t[n].next = NULL /\ t[n].child = m[n].child
               /\ \A x \in Node : /\ t[x].child = c.mem[x].child
                                  /\ t[x].prev = c.mem[x].prev
                                  /\ t[x].key = c.mem[x].key
                                  /\ x # n => t[x].next = c.mem[x].next
               /\ \A y \in live : up[y] = NULL =>
                    /\ m[y].next = NULL => t[y].next = NULL
                    /\ t[y].prev = m[y].prev
      BY <3>3
    <3> DEFINE child == c.mem[n].child
    <3>5. child = t[n].child /\ up2[n] = NULL
      BY <1>1, <1>2, <3>4
    <3>6. PICK up3, par3 : /\ Forest(t, K, up3, par3)
                           /\ \A x \in K : up3[x] = NULL <=> up2[x] = NULL \/ x = t[n].child
      <4>1. n \in live /\ up2[n] = NULL /\ t[n].next = NULL /\ Forest(t, live, up2, par2)
        BY <1>1, <3>4, <3>5
      <4>2. Dropped(t, K, up2, n)
        BY ONLY <4>1, DropForest DEF K
      <4> QED BY ONLY <4>2 DEF Dropped
    <3> HIDE DEF child
    <3>7. c.mem \in Memory
      BY <3>3 DEF State
    <3>8. Forest(c.mem, K, up3, par3)
      <4>1. \A x \in K : /\ c.mem[x].child = t[x].child /\ c.mem[x].next = t[x].next
                         /\ c.mem[x].prev = t[x].prev /\ c.mem[x].key = t[x].key
        BY <1>2, <3>4 DEF K
      <4> QED BY <3>6, <3>7, <4>1, ForestElsewhere
    <3>9. child \in K \cup {NULL} /\ (child # NULL => up2[child] = n)
      BY <1>1, <1>2, <3>4, <3>5 DEF Forest, Down, K
    <3>10. heap.root \in K /\ child # heap.root
      BY <1>1, <1>2, <2>2, <3>1, <3>4, <3>9 DEF K
    <3>11. /\ t[heap.root].next = NULL /\ t[heap.root].prev = NULL
           /\ c.mem[heap.root].next = NULL /\ c.mem[heap.root].prev = NULL
      BY <1>2, <1>5, <2>2, <3>1, <3>4
    <3>12. Roots(c.mem, K, up3, {heap.root}, <<>>, 0, child)
      <4>1. \A x \in K : up3[x] = NULL <=> x = heap.root \/ x = child
        BY <1>4, <3>4, <3>5, <3>6 DEF K
      <4>2. ~ \E j : j \in 1 .. 0
        OBVIOUS
      <4> QED BY <3>9, <3>10, <3>11, <4>1, <4>2 DEF Roots
    <3>13. child \in Pointer
      BY <1>2, <3>9 DEF K, Pointer
    <3>14. Collapsed(c, rest, K, {heap.root})
      BY <3>3, <3>8, <3>12, <3>13, CollapseForest DEF child
    <3> HIDE DEF rest
    <3> DEFINE e == rest.s
               b == rest.root
    <3>15. /\ e \in State /\ e.root = heap.root /\ e.size = heap.size /\ SameKeys(c.mem, e.mem)
           /\ b \in Pointer /\ Alone(e.mem, b, FALSE)
      BY <3>3, <3>14 DEF Collapsed
    <3>16. PICK up4, par4 : /\ Forest(e.mem, K, up4, par4)
                            /\ Roots(e.mem, K, up4, {heap.root}, <<>>, 0, b)
      BY <3>14 DEF Collapsed
    <3>17. r = merge(e, heap.root, b)
      BY <2>2, <3>15
    <3>18. SameKeys(m, e.mem)
      BY <3>3, <3>15 DEF SameKeys, m
    <3> HIDE DEF e, b, r
    <3>19. /\ e.mem[heap.root].next = NULL /\ e.mem[heap.root].prev = NULL
           /\ b \in (K \ {heap.root}) \cup {NULL}
           /\ \A x \in K : up4[x] = NULL <=> x = heap.root \/ x = b
      <4>1. ~ \E j : j \in 1 .. 0
        OBVIOUS
      <4> QED BY <3>16, <4>1 DEF Roots
    <3>20. CASE b = NULL
      <4>1. r = [s |-> e, root |-> heap.root]
        BY <3>1, <3>17, <3>20 DEF merge
      <4>2. r.s = e /\ r.root = heap.root
        BY <4>1
      <4>3. Roots(e.mem, K, up4, {}, <<>>, 0, heap.root)
        <5>1. \A x \in K : up4[x] = NULL <=> x = heap.root
          BY <1>2, <3>19, <3>20 DEF K
        <5> QED BY <3>10, <5>1, RootsOfTree
      <4>4. OneTree(e.mem, K, heap.root)
        BY <3>16, <3>19, <4>3 DEF OneTree, Alone
      <4> QED BY <1>2, <3>15, <3>18, <4>2, <4>4
    <3>21. CASE b # NULL
      <4>1. b \in K /\ b # heap.root /\ e.mem[b].next = NULL
        BY <3>15, <3>19, <3>21 DEF Alone
      <4>2. /\ r.s \in State /\ r.root \in Node /\ r.s.size = e.size
            /\ OneTree(r.s.mem, K, r.root) /\ SameKeys(e.mem, r.s.mem)
        BY <3>10, <3>15, <3>16, <3>17, <3>19, <4>1, UniteRoots
      <4> QED BY <3>15, <3>18, <4>2 DEF SameKeys, Pointer
    <3> QED BY <3>20, <3>21
  <2> QED BY <2>1, <2>2
<1> HIDE DEF r
<1>8. heap' \in State /\ heap'.root = r.root /\ heap'.size = heap.size - 1 /\ heap'.mem = r.s.mem
  <2>1. r.s \in [mem : Memory, root : Pointer, size : Int] /\ r.s.size - 1 \in Int
    BY <1>7 DEF State
  <2>2. heap' \in [mem : Memory, root : Pointer, size : Int]
    BY <1>1, <1>7, <2>1
  <2> QED BY <1>1, <1>7, <2>1, <2>2 DEF State
<1>9. IInv'
  BY <1>1, <1>2, <1>6, <1>7, <1>8 DEF IInv, K
<1>10. \A x \in live' : heap'.mem[x].key = heap.mem[x].key
  BY <1>1, <1>2, <1>7, <1>8 DEF SameKeys, K, m
<1> QED BY <1>1, <1>9, <1>10 DEF K

-----------------------------------------------------------------------------
(* What a client and the next call find.                                   *)

LEMMA NextIInv == IInv /\ [Next]_vars => IInv'
<1> SUFFICES ASSUME IInv, [Next]_vars PROVE IInv'
  OBVIOUS
<1>1. CASE UNCHANGED vars
  BY <1>1 DEF vars, IInv
<1>2. CASE pq_clear
  BY <1>2, ClearStep
<1>3. ASSUME NEW n, pq_delete(n) PROVE IInv'
  BY <1>3, DeleteStep
<1>4. ASSUME NEW n \in Node, NEW k \in Key, pq_insert(n, k) PROVE IInv'
  BY <1>4, InsertStep
<1>5. ASSUME NEW n \in Node, NEW k \in Key, pq_decrease_key(n, k) PROVE IInv'
  BY <1>5, DecreaseKeyStep
<1> QED BY <1>1, <1>2, <1>3, <1>4, <1>5 DEF Next, pq_delete_min

LEMMA Invariant == Spec => []IInv
BY InitIInv, NextIInv, PTL DEF Spec

(* The state of the queue and the fields of its nodes are of their types,  *)
(* whatever calls pairing_heap.c gets, and size never passes the number of *)
(* nodes there are.                                                        *)
THEOREM PairingTypeCorrect == Spec => []TypeOK
<1>1. IInv => TypeOK
  <2> SUFFICES ASSUME IInv PROVE TypeOK
    OBVIOUS
  <2>1. /\ heap \in State /\ heap.mem \in Memory /\ heap.root \in Node \cup {NULL}
        /\ live \subseteq Node /\ heap.size = Cardinality(live)
    BY DEF IInv, State, Pointer
  <2>2. heap.size \in 0 .. Cardinality(Node)
    BY <2>1, NodesAssumption, FS_Subset, FS_CardinalityType
  <2>3. ASSUME NEW n \in Node
        PROVE  /\ {heap.mem[n][f] : f \in {"child", "next", "prev"}} \subseteq Node \cup {NULL}
               /\ heap.mem[n].key \in Key \cup {0}
    <3>1. heap.mem[n] \in Cell
      BY <2>1 DEF Memory
    <3>2. \A f \in {"child", "next", "prev"} : heap.mem[n][f] \in Node \cup {NULL}
      BY <3>1 DEF Cell, Pointer
    <3>3. heap.mem[n].key \in Key
      BY <3>1 DEF Cell
    <3> QED BY <3>2, <3>3
  <2> QED BY <2>1, <2>2, <2>3 DEF TypeOK
<1> QED BY <1>1, Invariant, PTL

(* The keys ascend along up from any node to the root.                     *)
LEMMA RootIsLeast ==
  ASSUME IInv, NEW n \in live
  PROVE  heap.root \in live /\ heap.mem[heap.root].key <= heap.mem[n].key
<1> DEFINE m == heap.mem
<1>1. PICK up, par : Forest(m, live, up, par) /\ Roots(m, live, up, {}, <<>>, 0, heap.root)
  BY DEF IInv, OneTree
<1>2. heap.root \in live \cup {NULL} /\ \A x \in live : up[x] = NULL <=> x = heap.root
  BY <1>1, RootsOfTree
<1>3. /\ \A x \in live : up[x] \in live \cup {NULL} /\ par[x] \in live \cup {NULL}
      /\ NULL \notin live /\ m \in Memory
      /\ \A x \in live : x \in Node
  BY <1>1, NullAssumption DEF Forest
<1>4. heap.root \in live
  <2>1. \E x \in live : up[x] \notin live
    BY <1>1 DEF Forest, NoCycle
  <2> QED BY <1>2, <1>3, <2>1
<1> HIDE DEF m
<1>5. \A x \in live : m[x].key \in Nat
  BY <1>3, KeyIsNat
<1>6. m[heap.root].next = NULL
  BY <1>3, <1>4 DEF IInv, OneTree, Alone, m
<1> DEFINE S == {x \in live : x # heap.root /\ (par[x] # NULL => m[par[x]].key < m[heap.root].key)}
<1>7. ASSUME NEW x \in S PROVE up[x] \in S
  <2> DEFINE u == up[x]
  <2>1. x \in live /\ x # heap.root /\ (par[x] # NULL => m[par[x]].key < m[heap.root].key)
    OBVIOUS
  <2>2. u \in live /\ x \in {m[u].child, m[u].next} /\ x # NULL
    BY <1>1, <1>2, <1>3, <2>1 DEF Forest, Back
  <2> HIDE DEF S, u
  <2>3. CASE x = m[u].child
    <3>1. par[x] = u /\ u # NULL
      BY <1>1, <1>3, <2>2, <2>3 DEF Forest, Down
    <3>2. m[u].key < m[heap.root].key
      BY <2>1, <3>1
    <3>3. u # heap.root
      BY <1>4, <1>5, <3>2
    <3>4. par[u] # NULL => par[u] \in live /\ m[par[u]].key <= m[u].key
      BY <1>1, <1>3, <2>2 DEF Forest, KeysAscend
    <3>5. par[u] # NULL => m[par[u]].key < m[heap.root].key
      BY <1>4, <1>5, <2>2, <3>2, <3>4
    <3> QED BY <2>2, <3>3, <3>5 DEF S, u
  <2>4. CASE x = m[u].next
    <3>1. par[x] = par[u]
      BY <1>1, <2>2, <2>4 DEF Forest, Down
    <3>2. u # heap.root
      BY <1>6, <2>2, <2>4
    <3> QED BY <2>1, <2>2, <3>1, <3>2 DEF S, u
  <2> QED BY <2>2, <2>3, <2>4
<1>8. S = {}
  <2>1. S \in SUBSET live
    OBVIOUS
  <2> HIDE DEF S
  <2> QED BY <1>1, <1>7, <2>1 DEF Forest, NoCycle
<1>9. CASE n # heap.root
  <2>1. par[n] # NULL /\ ~ (m[par[n]].key < m[heap.root].key)
    BY <1>8, <1>9
  <2>2. par[n] \in live /\ m[par[n]].key <= m[n].key
    BY <1>1, <1>3, <2>1 DEF Forest, KeysAscend
  <2> QED BY <1>4, <1>5, <2>1, <2>2 DEF m
<1>10. CASE n = heap.root
  BY <1>4, <1>5, <1>10 DEF m
<1> QED BY <1>9, <1>10

(* pq_find_min, which returns the root, returns a node of least key of all *)
(* that pq_insert has made and no pq_delete, pq_delete_min or pq_clear has *)
(* taken back.                                                             *)
THEOREM PairingMinimumIsRoot == Spec => []FindMinCorrect
<1>1. IInv => FindMinCorrect
  BY RootIsLeast DEF FindMinCorrect, FindMin
<1> QED BY <1>1, Invariant, PTL

-----------------------------------------------------------------------------
(* The lists of children.                                                  *)

LongerChain(m, n, list) ==
  LET next == IF list = <<>> THEN n ELSE m[Last(list)]["next"]
  IN  IF next \in DOMAIN m \ ToSet(list) THEN Append(list, next) ELSE list

(* The list begins with n and goes on along next.                          *)
Follows(m, n, list) ==
  /\ list \in Seq(Node)
  /\ \A i \in 1 .. Len(list) : list[i] = IF i = 1 THEN n ELSE m[list[i - 1]].next

LEMMA LongerFollows ==
  ASSUME NEW m \in Memory, NEW n, NEW list, Follows(m, n, list)
  PROVE  Follows(m, n, LongerChain(m, n, list))
<1> DEFINE next == IF list = <<>> THEN n ELSE m[Last(list)]["next"]
<1>1. list \in Seq(Node) /\ DOMAIN m = Node
  BY DEF Follows, Memory
<1>2. CASE next \in DOMAIN m \ ToSet(list)
  <2>1. LongerChain(m, n, list) = Append(list, next) /\ next \in Node
    BY <1>1, <1>2 DEF LongerChain
  <2>2. next = IF Len(list) = 0 THEN n ELSE m[list[Len(list)]].next
    <3>1. list = <<>> <=> Len(list) = 0
      BY <1>1
    <3>2. Len(list) # 0 => list[Len(list)] \in Node /\ Last(list) = list[Len(list)]
      BY <1>1 DEF Last
    <3>3. \A x \in Node : m[x]["next"] = m[x].next
      OBVIOUS
    <3> QED BY <3>1, <3>2, <3>3
  <2> HIDE DEF next
  <2> DEFINE longer == Append(list, next)
  <2>3. /\ longer \in Seq(Node) /\ Len(longer) = Len(list) + 1 /\ Len(list) \in Nat
        /\ \A i \in 1 .. Len(list) : longer[i] = list[i]
        /\ longer[Len(list) + 1] = next
    BY <1>1, <2>1
  <2> HIDE DEF longer
  <2>4. ASSUME NEW i \in 1 .. Len(longer)
        PROVE  longer[i] = IF i = 1 THEN n ELSE m[longer[i - 1]].next
    <3>1. CASE i = Len(list) + 1
      <4>1. Len(list) # 0 => longer[i - 1] = list[Len(list)]
        BY <2>3, <3>1
      <4> QED BY <2>2, <2>3, <3>1, <4>1
    <3>2. CASE i \in 1 .. Len(list)
      <4>1. i # 1 => longer[i - 1] = list[i - 1]
        BY <2>3, <3>2
      <4> QED BY <2>3, <3>2, <4>1 DEF Follows
    <3> QED BY <2>3, <3>1, <3>2
  <2>5. Follows(m, n, longer)
    BY <2>3, <2>4 DEF Follows
  <2> QED BY <2>1, <2>5 DEF longer
<1>3. CASE next \notin DOMAIN m \ ToSet(list)
  BY <1>3 DEF LongerChain
<1> QED BY <1>2, <1>3

(* The recursion of Chain has a solution, and its last value is a list     *)
(* along next.                                                             *)
LEMMA ChainFollows ==
  ASSUME NEW m \in Memory, NEW n
  PROVE  Follows(m, n, Chain(m, n, "next"))
<1> DEFINE N == Cardinality(DOMAIN m)
           V == {list \in Seq(Node) : Follows(m, n, list)}
           step == [list \in V |-> LongerChain(m, n, list)]
           F(f) == f = [i \in 0 .. N |-> IF i = 0 THEN <<>> ELSE LongerChain(m, n, f[i - 1])]
           first == CHOOSE f : F(f)
<1>1. N \in Nat
  <2>1. DOMAIN m = Node
    BY DEF Memory
  <2> QED BY <2>1, NodesAssumption, FS_CardinalityType
<1>2. <<>> \in V
  <2>1. <<>> \in Seq(Node) /\ ~ \E i : i \in 1 .. Len(<<>>)
    OBVIOUS
  <2> QED BY <2>1 DEF Follows
<1>3. step \in [V -> V] /\ \A list \in V : step[list] = LongerChain(m, n, list)
  <2>1. \A list \in V : LongerChain(m, n, list) \in V
    <3> SUFFICES ASSUME NEW list, Follows(m, n, list) PROVE LongerChain(m, n, list) \in V
      OBVIOUS
    <3>1. Follows(m, n, LongerChain(m, n, list))
      BY LongerFollows
    <3> QED BY <3>1 DEF Follows
  <2> QED BY <2>1
<1> HIDE DEF step, N, V
<1>4. PICK g : Iterates(g, N, V, <<>>, step)
  BY <1>1, <1>2, <1>3, LoopExists
<1>5. F(g)
  <2> DEFINE E(i) == IF i = 0 THEN <<>> ELSE LongerChain(m, n, g[i - 1])
  <2>1. ASSUME NEW i \in 0 .. N PROVE g[i] = E(i)
    <3>1. CASE i = 0
      BY <1>4, <3>1 DEF Iterates
    <3>2. CASE i # 0
      <4>1. i \in 1 .. N /\ i - 1 \in 0 .. N
        BY <1>1, <3>2
      <4> QED BY <1>3, <1>4, <3>2, <4>1 DEF Iterates
    <3> QED BY <3>1, <3>2
  <2>2. g = [i \in 0 .. N |-> g[i]]
    BY <1>4 DEF Iterates
  <2> HIDE DEF E
  <2>3. g = [i \in 0 .. N |-> E(i)]
    BY <2>1, <2>2
  <2> QED BY <2>3 DEF E
<1> HIDE DEF F
<1>6. F(first)
  BY <1>5
<1>7. Chain(m, n, "next") = first[N]
  BY DEF Chain, first, F, N, LongerChain
<1> HIDE DEF first
<1> DEFINE I == {i \in 0 .. N : first[i] \in V}
<1>8. 0 \in I
  BY <1>1, <1>2, <1>6 DEF F
<1>9. ASSUME NEW i \in 1 .. N, i - 1 \in I PROVE i \in I
  <2>1. first[i - 1] \in V /\ i \in 0 .. N /\ i # 0
    BY <1>9
  <2>2. first[i] = LongerChain(m, n, first[i - 1])
    BY <1>6, <2>1 DEF F
  <2>3. first[i] \in V
    BY <1>3, <2>1, <2>2
  <2> QED BY <2>1, <2>3
<1>10. N \in I
  <2> HIDE DEF I
  <2>1. N \in 0 .. N
    BY <1>1
  <2> QED BY <1>1, <1>8, <1>9, <2>1, LoopInduction
<1> QED BY <1>7, <1>10 DEF V

(* Every node of the list of children of n is a node of the heap with the  *)
(* parent n, and its prev is n or the sibling before it.                   *)
LEMMA ChildrenAgree ==
  ASSUME NEW up, NEW par, Forest(heap.mem, live, up, par), NEW n \in live,
         NEW i \in 1 .. Len(Children(n))
  PROVE  LET list == Children(n)
         IN  /\ list \in Seq(Node) /\ list[i] \in live /\ par[list[i]] = n
             /\ heap.mem[list[i]].prev = IF i = 1 THEN n ELSE list[i - 1]
<1> DEFINE m == heap.mem
           list == Children(n)
<1>1. /\ m \in Memory /\ NULL \notin live /\ live \in SUBSET Node
      /\ \A x \in live : x # NULL
  BY NullAssumption DEF Forest
<1>2. Follows(m, m[n].child, list)
  BY <1>1, ChainFollows DEF Children
<1> HIDE DEF list
<1>3. list \in Seq(Node) /\ Len(list) \in Nat /\ i \in 1 .. Len(list)
  BY <1>2 DEF Follows, list
<1> DEFINE I == {j \in 0 .. Len(list) : j # 0 =>
                   /\ list[j] \in live /\ par[list[j]] = n
                   /\ up[list[j]] = IF j = 1 THEN n ELSE list[j - 1]}
<1> HIDE DEF m
<1>4. 0 \in I
  BY <1>3
<1>5. ASSUME NEW j \in 1 .. Len(list), j - 1 \in I PROVE j \in I
  <2>1. list[j] \in Node /\ list[j] # NULL /\ j \in 0 .. Len(list)
    BY <1>3, NullAssumption
  <2>2. CASE j = 1
    <3>1. list[j] = m[n].child
      BY <1>2, <2>2 DEF Follows
    <3>2. list[j] \in live /\ par[list[j]] = n /\ up[list[j]] = n
      BY <2>1, <3>1 DEF Forest, Down, m
    <3> QED BY <2>1, <2>2, <3>2
  <2>3. CASE j # 1
    <3>1. list[j] = m[list[j - 1]].next
      BY <1>2, <2>3 DEF Follows
    <3>2. list[j - 1] \in live /\ par[list[j - 1]] = n
      BY <1>5, <2>3
    <3>3. list[j] \in live /\ par[list[j]] = n /\ up[list[j]] = list[j - 1]
      BY <2>1, <3>1, <3>2 DEF Forest, Down, m
    <3> QED BY <2>1, <2>3, <3>3
  <2> QED BY <2>2, <2>3
<1>6. i \in I
  <2> HIDE DEF I
  <2>1. \A j \in 0 .. Len(list) : j \in I
    BY <1>3, <1>4, <1>5, LoopInduction
  <2> QED BY <1>3, <2>1
<1>7. list[i] \in live /\ par[list[i]] = n /\ up[list[i]] = IF i = 1 THEN n ELSE list[i - 1]
  BY <1>3, <1>6
<1>8. up[list[i]] # NULL
  BY <1>1, <1>3, <1>7, NullAssumption
<1>9. m[list[i]].prev = up[list[i]]
  BY <1>7, <1>8 DEF Forest, Back, m
<1> QED BY <1>3, <1>7, <1>9 DEF list, m

(* Between two calls the root has no siblings, the prev of a first child   *)
(* is its parent and the prev of another the sibling before it, however    *)
(* collapse has used prev in between: the next cut writes to the right     *)
(* node.                                                                   *)
THEOREM PairingPointersAgree == Spec => []Linked
<1>1. IInv => Linked
  <2> SUFFICES ASSUME IInv PROVE Linked
    OBVIOUS
  <2>1. PICK up, par : Forest(heap.mem, live, up, par)
    BY DEF IInv, OneTree
  <2>2. live # {} => heap.mem[heap.root].next = NULL /\ heap.mem[heap.root].prev = NULL
    <3>1. live # {} => heap.root \in live
      BY RootIsLeast
    <3>2. NULL \notin live
      BY NullAssumption DEF IInv
    <3> QED BY <3>1, <3>2 DEF IInv, OneTree, Alone
  <2>3. ASSUME NEW n \in live, NEW i \in DOMAIN Children(n)
        PROVE  heap.mem[Children(n)[i]].prev = IF i = 1 THEN n ELSE Children(n)[i - 1]
    <3>1. Children(n) \in Seq(Node)
      BY <2>1, ChainFollows DEF Forest, Children, Follows
    <3>2. i \in 1 .. Len(Children(n))
      BY <3>1
    <3> QED BY <2>1, <3>2, ChildrenAgree
  <2> QED BY <2>2, <2>3 DEF Linked
<1> QED BY <1>1, Invariant, PTL

(* No child in the list of a node has a lesser key than the node, whatever *)
(* was cut, decreased, merged and paired before.                           *)
THEOREM PairingHeapOrder == Spec => []HeapOrder
<1>1. IInv => HeapOrder
  <2> SUFFICES ASSUME IInv, NEW n \in live, NEW c \in ToSet(Children(n))
               PROVE  heap.mem[n].key <= heap.mem[c].key
    BY DEF HeapOrder
  <2>1. PICK up, par : Forest(heap.mem, live, up, par)
    BY DEF IInv, OneTree
  <2>2. Children(n) \in Seq(Node)
    BY <2>1, ChainFollows DEF Forest, Children, Follows
  <2>3. PICK i \in 1 .. Len(Children(n)) : c = Children(n)[i]
    BY <2>2 DEF ToSet
  <2>4. c \in live /\ par[c] = n
    BY <2>1, <2>3, ChildrenAgree
  <2>5. n # NULL
    BY NullAssumption DEF IInv
  <2> QED BY <2>1, <2>4, <2>5 DEF Forest, KeysAscend
<1> QED BY <1>1, Invariant, PTL

-----------------------------------------------------------------------------
(* What can be reached.                                                    *)

Further(m, fields, nodes) == nodes \cup ({m[n][f] : n \in nodes, f \in fields} \ {NULL})

(* The recursion of ReachableFrom has a solution.                          *)
LEMMA ReachedIterates ==
  ASSUME NEW m \in Memory, NEW from \in SUBSET Node
  PROVE  \E f : /\ Iterates(f, Cardinality(Node), SUBSET Node, from,
                            [S \in SUBSET Node |-> Further(m, {"child", "next"}, S)])
                /\ ReachableFrom(m, {"child", "next"}, from) = f[Cardinality(Node)]
<1> DEFINE N == Cardinality(DOMAIN m)
           V == SUBSET Node
           fields == {"child", "next"}
           step == [S \in V |-> Further(m, fields, S)]
           F(f) == f = [i \in 0 .. N |-> IF i = 0 THEN from ELSE Further(m, fields, f[i - 1])]
           reached == CHOOSE f : F(f)
<1>1. DOMAIN m = Node /\ N = Cardinality(Node) /\ N \in Nat
  <2>1. DOMAIN m = Node
    BY DEF Memory
  <2> QED BY <2>1, NodesAssumption, FS_CardinalityType
<1>2. step \in [V -> V] /\ \A S \in V : step[S] = Further(m, fields, S)
  <2>1. \A n \in Node : \A f \in fields : m[n][f] \in Node \cup {NULL}
    BY DEF Memory, Cell, Pointer
  <2>2. \A S \in V : Further(m, fields, S) \in V
    BY <2>1 DEF Further
  <2> QED BY <2>2
<1>3. from \in V
  OBVIOUS
<1> HIDE DEF step, N, V, fields
<1>4. PICK g : Iterates(g, N, V, from, step)
  BY <1>1, <1>2, <1>3, LoopExists
<1>5. F(g)
  <2> DEFINE E(i) == IF i = 0 THEN from ELSE Further(m, fields, g[i - 1])
  <2>1. ASSUME NEW i \in 0 .. N PROVE g[i] = E(i)
    <3>1. CASE i = 0
      BY <1>4, <3>1 DEF Iterates
    <3>2. CASE i # 0
      <4>1. i \in 1 .. N /\ i - 1 \in 0 .. N
        BY <1>1, <3>2
      <4> QED BY <1>2, <1>4, <3>2, <4>1 DEF Iterates
    <3> QED BY <3>1, <3>2
  <2>2. g = [i \in 0 .. N |-> g[i]]
    BY <1>4 DEF Iterates
  <2> HIDE DEF E
  <2>3. g = [i \in 0 .. N |-> E(i)]
    BY <2>1, <2>2
  <2> QED BY <2>3 DEF E
<1> HIDE DEF F
<1>6. F(reached)
  BY <1>5
<1>7. ReachableFrom(m, fields, from) = reached[N]
  BY DEF ReachableFrom, reached, F, N, Further
<1> HIDE DEF reached
<1> DEFINE I == {i \in 0 .. N : reached[i] \in V}
<1>8. 0 \in I
  BY <1>1, <1>3, <1>6 DEF F
<1>9. ASSUME NEW i \in 1 .. N, i - 1 \in I PROVE i \in I
  <2>1. reached[i - 1] \in V /\ i \in 0 .. N /\ i # 0
    BY <1>9
  <2>2. reached[i] = Further(m, fields, reached[i - 1])
    BY <1>6, <2>1 DEF F
  <2>3. reached[i] \in V
    BY <1>2, <2>1, <2>2
  <2> QED BY <2>1, <2>3
<1>10. \A i \in 0 .. N : reached[i] \in V
  <2> HIDE DEF I
  <2>1. \A i \in 0 .. N : i \in I
    BY <1>1, <1>8, <1>9, LoopInduction
  <2> QED BY <2>1 DEF I
<1>11. Iterates(reached, N, V, from, step)
  <2>1. reached \in [0 .. N -> V] /\ reached[0] = from
    BY <1>1, <1>6, <1>10 DEF F
  <2>2. ASSUME NEW i \in 1 .. N PROVE reached[i] = step[reached[i - 1]]
    <3>1. i \in 0 .. N /\ i # 0 /\ i - 1 \in 0 .. N
      BY <1>1
    <3>2. reached[i] = Further(m, fields, reached[i - 1])
      BY <1>6, <3>1 DEF F
    <3> QED BY <1>2, <1>10, <3>1, <3>2
  <2> QED BY <2>1, <2>2 DEF Iterates
<1>12. \E f : Iterates(f, N, V, from, step) /\ ReachableFrom(m, fields, from) = f[N]
  BY <1>7, <1>11
<1> QED BY <1>1, <1>12 DEF V, step, fields

(* What is reached in the end is closed: every iteration before it has     *)
(* added a node, or none could be added any more.                          *)
LEMMA ReachableCloses ==
  ASSUME NEW m \in Memory, NEW from \in SUBSET Node,
         NEW L \in SUBSET Node, from \subseteq L,
         \A x \in L : /\ m[x].child \in L \cup {NULL} /\ m[x].next \in L \cup {NULL}
  PROVE  LET S == ReachableFrom(m, {"child", "next"}, from)
         IN  /\ from \subseteq S /\ S \subseteq L
             /\ \A x \in S : /\ m[x].child \in S \cup {NULL} /\ m[x].next \in S \cup {NULL}
<1> DEFINE N == Cardinality(Node)
           V == SUBSET Node
           fields == {"child", "next"}
           step == [S \in V |-> Further(m, fields, S)]
<1>1. PICK f : Iterates(f, N, V, from, step) /\ ReachableFrom(m, fields, from) = f[N]
  BY ReachedIterates
<1>2. N \in Nat /\ \A S \in V : IsFiniteSet(S) /\ Cardinality(S) \in 0 .. N
  BY NodesAssumption, FS_CardinalityType, FS_Subset
<1>3. \A S \in V : step[S] = Further(m, fields, S)
  OBVIOUS
<1>4. ASSUME NEW S \in V
      PROVE  /\ S \subseteq Further(m, fields, S)
             /\ S \subseteq L => Further(m, fields, S) \subseteq L
             /\ Further(m, fields, S) = S =>
                  \A x \in S : m[x].child \in S \cup {NULL} /\ m[x].next \in S \cup {NULL}
  <2>1. Further(m, fields, S) = S \cup ({m[n][g] : n \in S, g \in fields} \ {NULL})
    BY DEF Further
  <2>2. \A x \in Node : m[x]["child"] = m[x].child /\ m[x]["next"] = m[x].next
    OBVIOUS
  <2>3. \A x \in S : m[x].child \in {m[n][g] : n \in S, g \in fields}
                   /\ m[x].next \in {m[n][g] : n \in S, g \in fields}
    BY <2>2
  <2>4. \A y \in {m[n][g] : n \in S, g \in fields} :
          \E x \in S : y = m[x].child \/ y = m[x].next
    BY <2>2
  <2> DEFINE T == {m[n][g] : n \in S, g \in fields}
  <2>5. /\ Further(m, fields, S) = S \cup (T \ {NULL})
        /\ \A x \in S : m[x].child \in T /\ m[x].next \in T
        /\ \A y \in T : \E x \in S : y = m[x].child \/ y = m[x].next
    BY <2>1, <2>3, <2>4
  <2> HIDE DEF T, fields
  <2>6. S \subseteq L => T \subseteq L \cup {NULL}
    BY <2>5
  <2>7. Further(m, fields, S) = S => T \subseteq S \cup {NULL}
    BY <2>5
  <2> QED BY <2>5, <2>6, <2>7
<1> HIDE DEF N, V, step, fields
<1> DEFINE I == {i \in 0 .. N : /\ from \subseteq f[i] /\ f[i] \subseteq L
                                /\ f[i] = Further(m, fields, f[i]) \/ i < Cardinality(f[i])}
<1>5. \A i \in 0 .. N : f[i] \in V
  BY <1>1 DEF Iterates
<1>6. 0 \in I
  <2>1. f[0] = from /\ 0 \in 0 .. N
    BY <1>1, <1>2 DEF Iterates
  <2>2. from # {} => 0 < Cardinality(from)
    BY NodesAssumption, FS_Subset, FS_CardinalityType, FS_EmptySet
  <2>3. from = {} => from = Further(m, fields, from)
    BY DEF Further
  <2> QED BY <2>1, <2>2, <2>3
<1>7. ASSUME NEW i \in 1 .. N, i - 1 \in I PROVE i \in I
  <2> DEFINE S == f[i - 1]
             T == f[i]
  <2>1. /\ i \in 0 .. N /\ i - 1 \in 0 .. N /\ from \subseteq S /\ S \subseteq L
        /\ S = Further(m, fields, S) \/ i - 1 < Cardinality(S)
    BY <1>2, <1>7
  <2>2. S \in V /\ T \in V /\ T = Further(m, fields, S)
    BY <1>1, <1>3, <1>5, <2>1 DEF Iterates
  <2>3. S \subseteq T /\ T \subseteq L
    BY <1>4, <2>1, <2>2
  <2> HIDE DEF S, T
  <2>4. CASE S = T
    <3>1. T = Further(m, fields, T)
      BY <2>2, <2>4
    <3> QED BY <2>1, <2>3, <3>1 DEF T
  <2>5. CASE S # T
    <3>1. Cardinality(S) < Cardinality(T)
      <4>1. IsFiniteSet(T) /\ S \in SUBSET T /\ Cardinality(S) \in Nat /\ Cardinality(T) \in Nat
        BY <1>2, <2>2, <2>3
      <4> QED BY <2>5, <4>1, FS_Subset
    <3>2. S # Further(m, fields, S)
      BY <2>2, <2>5
    <3>3. i < Cardinality(T)
      BY <1>2, <2>1, <2>2, <3>1, <3>2
    <3> QED BY <2>1, <2>3, <3>3 DEF T
  <2> QED BY <2>4, <2>5
<1>8. N \in I
  <2> HIDE DEF I
  <2>1. N \in 0 .. N
    BY <1>2
  <2> QED BY <1>2, <1>6, <1>7, <2>1, LoopInduction
<1>9. f[N] \in V /\ f[N] = Further(m, fields, f[N])
  BY <1>2, <1>5, <1>8
<1>10. from \subseteq f[N] /\ f[N] \subseteq L
  BY <1>8
<1> QED BY <1>1, <1>4, <1>9, <1>10 DEF fields

LEMMA LiveReached == IInv => HoldsLive
<1> SUFFICES ASSUME IInv PROVE HoldsLive
  OBVIOUS
<1> DEFINE m == heap.mem
           from == {heap.root} \cap Node
<1>1. PICK up, par : Forest(m, live, up, par) /\ Roots(m, live, up, {}, <<>>, 0, heap.root)
  BY DEF IInv, OneTree
<1>2. heap.root \in live \cup {NULL} /\ \A x \in live : up[x] = NULL <=> x = heap.root
  BY <1>1, RootsOfTree
<1>3. m \in Memory /\ live \in SUBSET Node /\ NULL \notin live
  BY <1>1, NullAssumption DEF Forest
<1>4. from \in SUBSET Node /\ from \subseteq live /\ (live # {} => heap.root \in from)
  BY <1>2, <1>3, NullAssumption, RootIsLeast
<1>5. \A x \in live : m[x].child \in live \cup {NULL} /\ m[x].next \in live \cup {NULL}
  BY <1>1 DEF Forest, Down
<1>6. /\ from \subseteq InHeap /\ InHeap \subseteq live
      /\ \A x \in InHeap : m[x].child \in InHeap \cup {NULL} /\ m[x].next \in InHeap \cup {NULL}
  <2> HIDE DEF m, from
  <2>1. InHeap = ReachableFrom(m, {"child", "next"}, from)
    BY DEF InHeap, m, from
  <2> QED BY ONLY <1>3, <1>4, <1>5, <2>1, ReachableCloses
<1> DEFINE U == live \ InHeap
<1>7. ASSUME NEW x \in U PROVE up[x] \in U
  <2>1. x \in live /\ x \notin InHeap /\ x # heap.root /\ x # NULL
    BY <1>3, <1>4, <1>6
  <2>2. up[x] \in live /\ x \in {m[up[x]].child, m[up[x]].next}
    BY <1>1, <1>2, <2>1 DEF Forest, Back
  <2>3. up[x] \notin InHeap
    BY <1>6, <2>1, <2>2
  <2> QED BY <2>2, <2>3
<1>8. U = {}
  <2>1. U \in SUBSET live
    OBVIOUS
  <2> HIDE DEF U
  <2> QED BY <1>1, <1>7, <2>1 DEF Forest, NoCycle
<1> QED BY <1>6, <1>8 DEF IInv, HoldsLive

(* From the root, along child and next, every node allocated is reached    *)
(* and no other, and size counts them: no cut, merge or collapse loses a   *)
(* subtree, and none leaves a pointer to a node that is freed.             *)
THEOREM PairingReachesLive == Spec => []HoldsLive
BY LiveReached, Invariant, PTL

-----------------------------------------------------------------------------
(* What the queue promises.                                                *)

Promised ==
  \/ PQ!DeleteMin
  \/ PQ!Clear /\ pq_clear
  \/ (\E n \in Node : PQ!Delete(n)) /\ ~ pq_delete_min
  \/ \E k \in Key : PQ!Insert(k) \/ \E n \in Node : PQ!DecreaseKey(n, k)

(* What is reached is what is allocated, before a call and after it.       *)
LEMMA ReachedBeforeAndAfter == (IInv => InHeap = live) /\ (IInv' => InHeap' = live')
<1>1. IInv => InHeap = live
  BY LiveReached DEF HoldsLive
<1>2. (IInv => HoldsLive)'
  BY LiveReached, PTL
<1>3. IInv' => InHeap' = live'
  BY <1>2 DEF HoldsLive
<1> QED BY <1>1, <1>3

LEMMA ContentsKept ==
  ASSUME IInv, IInv'
  PROVE  /\ Contents = [n \in live |-> heap.mem[n].key]
         /\ Contents' = [n \in live' |-> heap'.mem[n].key]
BY ReachedBeforeAndAfter DEF Contents

LEMMA DeleteRefines ==
  ASSUME IInv, NEW n, pq_delete(n)
  PROVE  PQ!Delete(n) /\ n \in Node
<1>1. /\ n \in live /\ live' = live \ {n} /\ live \in SUBSET Node
      /\ \A x \in live' : heap'.mem[x].key = heap.mem[x].key
  BY DeleteStep DEF IInv
<1>2. Contents = [x \in live |-> heap.mem[x].key] /\ Contents' = [x \in live' |-> heap'.mem[x].key]
  BY DeleteStep, ContentsKept
<1> HIDE DEF Contents
<1>3. Contents' = [x \in live \ {n} |-> heap.mem[x].key]
  BY <1>1, <1>2
<1>4. PQ!Without(Contents, n) = [x \in live \ {n} |-> heap.mem[x].key]
  BY <1>2 DEF PQ!Without
<1> QED BY <1>1, <1>2, <1>3, <1>4 DEF PQ!Delete

LEMMA DeleteMinRefines ==
  ASSUME IInv, pq_delete_min
  PROVE  PQ!DeleteMin
<1>1. PQ!Delete(heap.root) /\ heap.root \in live
  BY DeleteRefines, DeleteStep DEF pq_delete_min
<1>2. heap.root \in PQ!Least(Contents)
  <2>1. Contents = [x \in live |-> heap.mem[x].key]
    BY DeleteStep, ContentsKept DEF pq_delete_min
  <2> QED BY <1>1, <2>1, RootIsLeast DEF PQ!Least
<1> QED BY <1>1, <1>2 DEF PQ!DeleteMin

LEMMA ClearRefines ==
  ASSUME IInv, pq_clear
  PROVE  PQ!Clear
<1>1. live' = {}
  BY ClearStep
<1>2. Contents' = [n \in {} |-> heap'.mem[n].key]
  BY <1>1, ClearStep, ContentsKept
<1>3. [n \in {} |-> heap'.mem[n].key] = [n \in {} |-> 0]
  OBVIOUS
<1> QED BY <1>2, <1>3 DEF PQ!Clear

LEMMA InsertRefines ==
  ASSUME IInv, NEW n \in Node, NEW k \in Key, pq_insert(n, k)
  PROVE  PQ!Insert(k)
<1>1. /\ n \notin live /\ live' = live \cup {n} /\ heap'.mem[n].key = k
      /\ \A x \in live : heap'.mem[x].key = heap.mem[x].key
  BY InsertStep
<1> DEFINE more == [x \in live \cup {n} |-> IF x = n THEN k ELSE heap.mem[x].key]
<1>2. Contents = [x \in live |-> heap.mem[x].key] /\ Contents' = [x \in live' |-> heap'.mem[x].key]
  BY InsertStep, ContentsKept
<1>3. Contents' = more
  BY <1>1, <1>2
<1>4. PQ!With(Contents, n, k) = more
  BY <1>2 DEF PQ!With
<1>5. n \in Node \ DOMAIN Contents
  BY <1>1, <1>2
<1> QED BY <1>3, <1>4, <1>5 DEF PQ!Insert

LEMMA DecreaseKeyRefines ==
  ASSUME IInv, NEW n \in Node, NEW k \in Key, pq_decrease_key(n, k)
  PROVE  PQ!DecreaseKey(n, k)
<1>1. /\ n \in live /\ live' = live /\ k <= heap.mem[n].key
      /\ \A x \in live : heap'.mem[x].key = IF x = n THEN k ELSE heap.mem[x].key
  BY DecreaseKeyStep
<1> DEFINE less == [x \in live |-> IF x = n THEN k ELSE heap.mem[x].key]
<1>2. Contents = [x \in live |-> heap.mem[x].key] /\ Contents' = [x \in live' |-> heap'.mem[x].key]
  BY DecreaseKeyStep, ContentsKept
<1>3. Contents' = less
  BY <1>1, <1>2
<1>4. PQ!With(Contents, n, k) = less
  <2>1. live \cup {n} = live
    BY <1>1
  <2> QED BY <1>2, <2>1 DEF PQ!With
<1> QED BY <1>1, <1>2, <1>3, <1>4 DEF PQ!DecreaseKey

(* The pairing heap is a priority queue of the nodes inserted into it:     *)
(* what pq_delete_min takes out is a least one, pq_delete takes out one    *)
(* node, no call but pq_clear takes out all of them, and none changes      *)
(* another.                                                                *)
THEOREM PairingImplementsPQ == Spec => ImplementsPQ
<1>1. Init => PQ!Init
  <2>1. Init => live = {} /\ InHeap = live
    BY InitIInv, ReachedBeforeAndAfter DEF Init
  <2> QED BY <2>1 DEF PQ!Init, Contents
<1>2. IInv /\ [Next]_vars => [Promised]_Contents
  <2> SUFFICES ASSUME IInv, [Next]_vars PROVE [Promised]_Contents
    OBVIOUS
  <2>1. CASE UNCHANGED vars
    BY <2>1 DEF vars, Contents, InHeap
  <2>2. CASE pq_delete_min
    BY <2>2, DeleteMinRefines DEF Promised
  <2>3. CASE pq_clear
    BY <2>3, ClearRefines DEF Promised
  <2>4. ASSUME NEW n \in Node, pq_delete(n), ~ pq_delete_min PROVE Promised
    BY <2>4, DeleteRefines DEF Promised
  <2>5. ASSUME NEW n \in Node, NEW k \in Key, pq_insert(n, k) PROVE Promised
    BY <2>5, InsertRefines DEF Promised
  <2>6. ASSUME NEW n \in Node, NEW k \in Key, pq_decrease_key(n, k) PROVE Promised
    BY <2>6, DecreaseKeyRefines DEF Promised
  <2> QED BY <2>1, <2>2, <2>3, <2>4, <2>5, <2>6 DEF Next
<1>3. Spec => [][Promised]_Contents
  BY <1>2, Invariant, PTL DEF Spec
<1>4. [][Promised]_Contents
      <=> [][\/ PQ!DeleteMin
             \/ PQ!Clear /\ pq_clear
             \/ (\E n \in Node : PQ!Delete(n)) /\ ~ pq_delete_min
             \/ \E k \in Key : PQ!Insert(k) \/ \E n \in Node : PQ!DecreaseKey(n, k)]_Contents
  BY DEF Promised
<1> QED BY <1>1, <1>3, <1>4, PTL DEF Spec, ImplementsPQ

(* pq_delete takes the node it is given out of the tree, none of those     *)
(* below it or beside it, whether it was the root or not.                  *)
THEOREM PairingDeletesThatNode == Spec => DeletesThatNode
<1>1. IInv => [\A n \in Node : pq_delete(n) => PQ!Delete(n)]_vars
  BY DeleteRefines
<1> QED BY <1>1, Invariant, PTL DEF DeletesThatNode
=============================================================================
