------------------------- MODULE RandomTrace_proofs -------------------------
(***************************************************************************)
(* Of the program that records a trace, whatever its command line: the     *)
(* buffer stays within its array, no operation is lost unless a call has   *)
(* failed, and its heap has the keys that the operations recorded put into *)
(* a queue.                                                                *)
(***************************************************************************)
EXTENDS RandomTrace, SequenceLemmas, FiniteSetTheorems

Op == [code : {"create", "destroy", "find_min", "delete_min"}]
        \cup [code : {"insert", "decrease_key"}, node_id : Nat, key : Nat]
Header == [op_count : Nat, pq_ids : Nat, node_ids : Nat]
Word == (Op \cup Header) \X Nat
Trace == [file : Seq(Word), offset : Nat, buffer : Seq(Word), faults : Nat]

WellFormed(t) == t \in Trace /\ t.offset <= Len(t.file)

Bounded(t) ==
  /\ Len(t.buffer) < PQ_OP_BUFFER_LEN
  /\ t.buffer # <<>> => t.buffer[1][2] = 1

\* The words of the operations that are in the file, and then in the buffer.
Body(file) == SubSeq(file, HeaderLength + 1, Len(file))
Contents(t) == Body(t.file) \o t.buffer

-----------------------------------------------------------------------------
(* The operators of TraceFile.                                             *)

LEMMA OpWordsType ==
  ASSUME NEW op \in Op
  PROVE  /\ OpWords(op) \in Seq(Word) /\ Len(OpWords(op)) \in 1 .. PQ_OP_BUFFER_LEN - 1
         /\ OpWords(op)[1] = <<op, 1>>
<1> DEFINE n == pq_op_lengths[op.code]
<1>1. n \in 1 .. PQ_OP_BUFFER_LEN - 1 /\ PQ_OP_BUFFER_LEN \in Nat
  <2>1. op.code \in OpCode
    BY DEF Op, OpCode
  <2> QED BY <2>1, OpCodeAssumption, LengthAssumption
<1> HIDE DEF n
<1>2. OpWords(op) = [i \in 1 .. n |-> <<op, i>>]
  BY DEF OpWords, n
<1>3. n \in Nat /\ 1 \in 1 .. n /\ \A i \in 1 .. n : <<op, i>> \in Word
  BY <1>1 DEF Word
<1>4. OpWords(op) \in Seq(Word) /\ Len(OpWords(op)) = n
  BY <1>2, <1>3
<1> QED BY <1>1, <1>2, <1>3, <1>4

LEMMA HeaderWordsType ==
  ASSUME NEW h \in Header
  PROVE  HeaderWords(h) \in Seq(Word) /\ Len(HeaderWords(h)) = HeaderLength
<1>1. HeaderLength \in Nat /\ \A i \in 1 .. HeaderLength : <<h, i>> \in Word
  BY LengthAssumption DEF Word
<1> QED BY <1>1 DEF HeaderWords

LEMMA WrittenType ==
  ASSUME NEW t, WellFormed(t), NEW words \in Seq(Word)
  PROVE  /\ WellFormed(Written(t, words))
         /\ Written(t, words).buffer = t.buffer
         /\ Written(t, words).faults = t.faults
<1> DEFINE before == SubSeq(t.file, 1, t.offset)
           after == SubSeq(t.file, t.offset + Len(words) + 1, Len(t.file))
<1>1. /\ t \in Trace /\ t.file \in Seq(Word) /\ t.offset \in 0 .. Len(t.file)
      /\ Len(t.file) \in Nat /\ Len(words) \in Nat
  BY DEF WellFormed, Trace
<1>2. before \in Seq(Word) /\ Len(before) = t.offset
  BY <1>1, SubSeqProperties
<1>3. after \in Seq(Word) /\ Len(after) \in Nat
  BY <1>1, SubSeqProperties
<1> HIDE DEF before, after
<1>4. /\ before \o words \o after \in Seq(Word)
      /\ Len(before \o words \o after) = t.offset + Len(words) + Len(after)
  <2>1. PICK b \in Seq(Word), a \in Seq(Word) : b = before /\ a = after
    BY <1>2, <1>3
  <2>2. b \o words \in Seq(Word) /\ Len(b \o words) = Len(b) + Len(words)
    BY ConcatProperties
  <2>3. (b \o words) \o a \in Seq(Word) /\ Len((b \o words) \o a) = Len(b \o words) + Len(a)
    BY <2>2, ConcatProperties
  <2> QED BY <1>2, <2>1, <2>2, <2>3
<1>5. Written(t, words) = [t EXCEPT !.file = before \o words \o after, !.offset = @ + Len(words)]
  BY DEF Written, before, after
<1>6. PICK file \in Seq(Word) : file = before \o words \o after
  BY <1>4
<1>7. Written(t, words) = [t EXCEPT !.file = file, !.offset = t.offset + Len(words)]
  BY <1>5, <1>6
<1>8. t.offset + Len(words) \in Nat /\ t.offset + Len(words) <= Len(file)
  BY <1>1, <1>3, <1>4, <1>6
<1> QED BY <1>1, <1>7, <1>8 DEF WellFormed, Trace

LEMMA BodyType ==
  ASSUME NEW f \in Seq(Word)
  PROVE  /\ Body(f) \in Seq(Word)
         /\ Len(Body(f)) = IF HeaderLength < Len(f) THEN Len(f) - HeaderLength ELSE 0
         /\ \A i \in 1 .. Len(f) - HeaderLength : Body(f)[i] = f[HeaderLength + i]
<1>1. PICK m \in Int : m = HeaderLength + 1 /\ HeaderLength \in Nat
  BY LengthAssumption
<1>2. PICK n \in Int : n = Len(f) /\ Len(f) \in Nat
  OBVIOUS
<1>3. \A i \in m .. n : f[i] \in Word
  BY <1>1, <1>2, ElementOfSeq
<1>4. /\ SubSeq(f, m, n) \in Seq(Word)
      /\ Len(SubSeq(f, m, n)) = IF m <= n THEN n - m + 1 ELSE 0
      /\ \A i \in 1 .. n - m + 1 : SubSeq(f, m, n)[i] = f[m + i - 1]
  BY <1>3, SubSeqProperties
<1> HIDE <1>3
<1>5. Body(f) = SubSeq(f, m, n)
  BY <1>1, <1>2 DEF Body
<1>6. PICK b \in Seq(Word) : b = SubSeq(f, m, n)
  BY <1>4
<1>7. /\ Len(b) = IF m <= n THEN n - m + 1 ELSE 0
      /\ \A i \in 1 .. n - m + 1 : b[i] = f[m + i - 1]
  BY <1>4, <1>6
<1> HIDE <1>4
<1>8. /\ Len(b) = IF HeaderLength < Len(f) THEN Len(f) - HeaderLength ELSE 0
      /\ \A i \in 1 .. Len(f) - HeaderLength : b[i] = f[HeaderLength + i]
  BY <1>1, <1>2, <1>7
<1> QED BY <1>5, <1>6, <1>8

(* With the offset at the end of the file the words follow what is there,  *)
(* and with the offset at its beginning they replace the first of it.      *)
LEMMA WrittenAtEnd ==
  ASSUME NEW t, WellFormed(t), NEW words \in Seq(Word), t.offset = Len(t.file)
  PROVE  /\ Written(t, words).file = t.file \o words
         /\ Written(t, words).offset = Len(t.file \o words)
<1>1. PICK f \in Seq(Word) : f = t.file
  BY DEF WellFormed, Trace
<1>2. Len(f) \in Nat /\ Len(words) \in Nat /\ f \o words \in Seq(Word)
      /\ Len(f \o words) = Len(f) + Len(words)
  BY ConcatProperties
<1>3. SubSeq(f, 1, Len(f)) = f
  BY <1>2
<1>4. SubSeq(f, Len(f) + Len(words) + 1, Len(f)) = <<>>
  BY <1>2
<1>5. (f \o words) \o <<>> = f \o words
  BY <1>2, ConcatEmptySeq
<1>6. t = [t EXCEPT !.file = f]
  BY <1>1 DEF WellFormed, Trace
<1>7. /\ Written(t, words).file = SubSeq(f, 1, Len(f)) \o words \o SubSeq(f, Len(f) + Len(words) + 1, Len(f))
      /\ Written(t, words).offset = Len(f) + Len(words)
  BY <1>1 DEF Written, WellFormed, Trace
<1> QED BY <1>1, <1>2, <1>3, <1>4, <1>5, <1>7

LEMMA WrittenAtBeginning ==
  ASSUME NEW t, WellFormed(t), NEW words \in Seq(Word), t.offset = 0,
         Len(words) = HeaderLength, NEW file, file = Written(t, words).file
  PROVE  /\ file \in Seq(Word) /\ Len(file) >= HeaderLength
         /\ Len(t.file) <= HeaderLength => Len(file) = HeaderLength
         /\ Written(t, words).offset = HeaderLength
         /\ SubSeq(file, 1, HeaderLength) = words
         /\ Body(file) = Body(t.file)
<1>1. PICK f \in Seq(Word) : f = t.file
  BY DEF WellFormed, Trace
<1>2. Len(f) \in Nat /\ HeaderLength \in Nat \ {0}
  BY LengthAssumption
<1>3. PICK rest \in Seq(Word) : rest = Body(f)
  BY BodyType
<1>4. /\ Len(rest) = (IF HeaderLength < Len(f) THEN Len(f) - HeaderLength ELSE 0)
      /\ \A i \in 1 .. Len(rest) : rest[i] = f[HeaderLength + i]
  <2>1. /\ Len(rest) = IF HeaderLength < Len(f) THEN Len(f) - HeaderLength ELSE 0
        /\ \A i \in 1 .. Len(f) - HeaderLength : rest[i] = f[HeaderLength + i]
    BY <1>3, BodyType
  <2> QED BY <1>2, <2>1
<1>5. PICK g \in Seq(Word) : g = words \o rest
  BY ConcatProperties
<1>6. /\ Len(g) = HeaderLength + Len(rest)
      /\ \A i \in 1 .. HeaderLength : g[i] = words[i]
      /\ \A i \in 1 .. Len(rest) : g[HeaderLength + i] = rest[i]
  <2>1. /\ Len(g) = Len(words) + Len(rest)
        /\ \A i \in 1 .. Len(words) + Len(rest) :
             g[i] = IF i <= Len(words) THEN words[i] ELSE rest[i - Len(words)]
    BY <1>5, ConcatProperties
  <2>2. Len(words) = HeaderLength /\ Len(rest) \in Nat
    OBVIOUS
  <2> QED BY <1>2, <2>1, <2>2
<1>7. Written(t, words).file = g /\ Written(t, words).offset = HeaderLength
  <2>1. SubSeq(f, 1, 0) = <<>> /\ <<>> \o words = words
    BY <1>2, ConcatEmptySeq
  <2>2. /\ Written(t, words).file = SubSeq(f, 1, 0) \o words \o SubSeq(f, 0 + HeaderLength + 1, Len(f))
        /\ Written(t, words).offset = 0 + HeaderLength
    BY <1>1 DEF Written, WellFormed, Trace
  <2>3. 0 + HeaderLength = HeaderLength
    BY <1>2
  <2> QED BY <1>3, <1>5, <2>1, <2>2, <2>3 DEF Body
<1>8. SubSeq(g, 1, HeaderLength) = words
  <2>1. Len(SubSeq(g, 1, HeaderLength)) = HeaderLength
    BY <1>2, <1>4, <1>6, SubSeqProperties
  <2> QED BY <1>2, <1>4, <1>6, <2>1
<1>9. Body(g) = rest
  <2>1. PICK b \in Seq(Word) : b = Body(g)
    BY BodyType
  <2>2. /\ Len(b) = IF HeaderLength < Len(g) THEN Len(g) - HeaderLength ELSE 0
        /\ \A i \in 1 .. Len(g) - HeaderLength : b[i] = g[HeaderLength + i]
    BY <2>1, BodyType
  <2>3. Len(b) = Len(rest) /\ \A i \in 1 .. Len(b) : b[i] = rest[i]
    BY <1>2, <1>4, <1>6, <2>2
  <2>4. b = rest
    BY <2>3, SeqEqual
  <2> QED BY <2>1, <2>4
<1> QED BY <1>1, <1>2, <1>3, <1>4, <1>6, <1>7, <1>8, <1>9

LEMMA WriteOutcome ==
  ASSUME NEW t, WellFormed(t), NEW words \in Seq(Word), NEW o \in write(t, words)
  PROVE  /\ WellFormed(o.t) /\ o.t.buffer = t.buffer
         /\ o.ok \in BOOLEAN /\ (o.ok => o.t = Written(t, words))
<1>1. CASE o = [t |-> Written(t, words), ok |-> TRUE]
  BY <1>1, WrittenType
<1>2. ASSUME t.faults # 0, NEW n \in 0 .. Len(words) - 1,
             o = [t |-> [Written(t, SubSeq(words, 1, n)) EXCEPT !.faults = @ - 1], ok |-> FALSE]
      PROVE  WellFormed(o.t) /\ o.t.buffer = t.buffer /\ o.ok = FALSE
  <2>1. SubSeq(words, 1, n) \in Seq(Word)
    BY <1>2
  <2>2. PICK u : u = Written(t, SubSeq(words, 1, n))
    OBVIOUS
  <2>3. WellFormed(u) /\ u.buffer = t.buffer /\ u.faults = t.faults /\ t.faults \in Nat
    BY <2>1, <2>2, WrittenType DEF WellFormed, Trace
  <2>4. u.faults - 1 \in Nat
    BY <1>2, <2>3
  <2>5. o = [t |-> [u EXCEPT !.faults = u.faults - 1], ok |-> FALSE]
    BY <1>2, <2>2
  <2> QED BY <2>3, <2>4, <2>5 DEF WellFormed, Trace
<1>3. t.faults = 0 => o = [t |-> Written(t, words), ok |-> TRUE]
  BY DEF write
<1>4. t.faults # 0 /\ o # [t |-> Written(t, words), ok |-> TRUE] =>
        \E n \in 0 .. Len(words) - 1 :
          o = [t |-> [Written(t, SubSeq(words, 1, n)) EXCEPT !.faults = @ - 1], ok |-> FALSE]
  BY DEF write
<1> QED BY <1>1, <1>2, <1>3, <1>4

LEMMA FlushOutcome ==
  ASSUME NEW t, WellFormed(t), NEW o \in pq_trace_flush_buffer(t)
  PROVE  /\ WellFormed(o.t) /\ o.ok \in BOOLEAN
         /\ o.t.buffer = IF o.ok THEN <<>> ELSE t.buffer
         /\ o.ok => /\ o.t.file = Written(t, t.buffer).file
                    /\ o.t.offset = Written(t, t.buffer).offset
<1>1. t.buffer \in Seq(Word)
  BY DEF WellFormed, Trace
<1>2. PICK p \in write(t, t.buffer) : o = IF p.ok THEN [p EXCEPT !.t.buffer = <<>>] ELSE p
  BY DEF pq_trace_flush_buffer
<1>3. /\ WellFormed(p.t) /\ p.t.buffer = t.buffer
      /\ p.ok \in BOOLEAN /\ (p.ok => p.t = Written(t, t.buffer))
  BY <1>1, WriteOutcome
<1>4. p = [t |-> p.t, ok |-> p.ok]
  BY DEF write
<1>5. CASE p.ok
  <2>1. o.t = [p.t EXCEPT !.buffer = <<>>] /\ o.ok = p.ok
    BY <1>2, <1>4, <1>5
  <2>2. <<>> \in Seq(Word)
    OBVIOUS
  <2> QED BY <1>3, <1>5, <2>1, <2>2 DEF WellFormed, Trace
<1>6. CASE ~ p.ok
  BY <1>2, <1>3, <1>6
<1> QED BY <1>3, <1>5, <1>6

\* f is what it is up to k and what it is after that.
LEMMA SplitAt ==
  ASSUME NEW f \in Seq(Word), NEW k \in 0 .. Len(f)
  PROVE  SubSeq(f, 1, k) \o <<>> \o SubSeq(f, k + 1, Len(f)) = f
<1>1. PICK m \in 1 .. Len(f) + 1 : m = 1 /\ k \in m - 1 .. Len(f)
  OBVIOUS
<1>2. PICK n \in k .. Len(f) : n = Len(f)
  OBVIOUS
<1>3. SubSeq(f, m, k) \o SubSeq(f, k + 1, n) = SubSeq(f, m, n)
  BY <1>1, ConcatAdjacentSubSeq
<1>4. PICK p \in Seq(Word) : p = SubSeq(f, m, k)
  <2>1. \A i \in m .. k : f[i] \in Word
    BY <1>1, ElementOfSeq
  <2>2. m \in Int /\ k \in Int
    OBVIOUS
  <2>3. SubSeq(f, m, k) \in Seq(Word)
    BY <2>1, <2>2, SubSeqProperties
  <2> QED BY <2>3
<1>5. p \o <<>> = p
  BY ConcatEmptySeq
<1> QED BY <1>1, <1>2, <1>3, <1>4, <1>5, SubSeqFull

(* From an index in f on, f \o b is what there is of f, and b.             *)
LEMMA ConcatBeyond ==
  ASSUME NEW f \in Seq(Word), NEW b \in Seq(Word), Len(f) >= HeaderLength
  PROVE  Body(f \o b) = Body(f) \o b
<1>0. HeaderLength \in Nat /\ Len(f) \in Nat /\ Len(b) \in Nat
  BY LengthAssumption
<1>1. PICK g \in Seq(Word) : g = f \o b
  BY ConcatProperties
<1>2. /\ Len(g) = Len(f) + Len(b)
      /\ \A i \in 1 .. Len(f) + Len(b) : g[i] = IF i <= Len(f) THEN f[i] ELSE b[i - Len(f)]
  BY <1>1, ConcatProperties
<1>3. PICK r \in Seq(Word) : r = Body(f)
  BY BodyType
<1>4. Len(r) = Len(f) - HeaderLength /\ \A i \in 1 .. Len(r) : r[i] = f[HeaderLength + i]
  <2>1. /\ Len(r) = IF HeaderLength < Len(f) THEN Len(f) - HeaderLength ELSE 0
        /\ \A i \in 1 .. Len(f) - HeaderLength : r[i] = f[HeaderLength + i]
    BY <1>3, BodyType
  <2> QED BY <1>0, <2>1
<1>5. PICK s \in Seq(Word) : s = r \o b
  BY ConcatProperties
<1>6. /\ Len(s) = Len(r) + Len(b)
      /\ \A i \in 1 .. Len(r) + Len(b) : s[i] = IF i <= Len(r) THEN r[i] ELSE b[i - Len(r)]
  BY <1>5, ConcatProperties
<1>7. PICK u \in Seq(Word) : u = Body(g)
  BY BodyType
<1>8. Len(u) = Len(g) - HeaderLength /\ \A i \in 1 .. Len(u) : u[i] = g[HeaderLength + i]
  <2>1. /\ Len(u) = IF HeaderLength < Len(g) THEN Len(g) - HeaderLength ELSE 0
        /\ \A i \in 1 .. Len(g) - HeaderLength : u[i] = g[HeaderLength + i]
    BY <1>7, BodyType
  <2>2. Len(g) \in Nat /\ Len(g) >= HeaderLength
    BY <1>0, <1>2
  <2> QED BY <1>0, <2>1, <2>2
<1>9. Len(u) = Len(s)
  BY <1>0, <1>2, <1>4, <1>6, <1>8
<1>10. \A i \in 1 .. Len(u) : u[i] = s[i]
  <2> SUFFICES ASSUME NEW i \in 1 .. Len(u) PROVE u[i] = s[i]
    OBVIOUS
  <2>1. PICK h \in Nat, k \in Nat, l \in Nat :
          h = HeaderLength /\ k = Len(f) - h /\ Len(f) = h + k /\ l = Len(b)
    <3>1. PICK h \in Nat, m \in Nat, l \in Nat : h = HeaderLength /\ m = Len(f) /\ l = Len(b) /\ m >= h
      BY <1>0
    <3>2. PICK k \in Nat : k = m - h /\ m = h + k
      <4>1. m - h \in Nat /\ m = h + (m - h)
        BY <3>1
      <4> QED BY <4>1
    <3> QED BY <3>1, <3>2
  <2>2. /\ Len(g) = h + k + l /\ Len(u) = k + l /\ Len(r) = k
        /\ i \in 1 .. k + l /\ h + i \in 1 .. h + k + l
    BY <1>2, <1>4, <1>8, <2>1
  <2>3. u[i] = g[h + i] /\ g[h + i] = IF h + i <= h + k THEN f[h + i] ELSE b[h + i - (h + k)]
    BY <1>2, <1>8, <2>1, <2>2
  <2>4. s[i] = IF i <= k THEN r[i] ELSE b[i - k]
    BY <1>6, <2>1, <2>2
  <2>5. CASE i <= k
    BY <1>4, <2>1, <2>2, <2>3, <2>4, <2>5
  <2>6. CASE i > k
    <3>1. h + i - (h + k) = i - k /\ ~ (h + i <= h + k) /\ ~ (i <= k)
      BY <2>2, <2>6
    <3> QED BY <2>3, <2>4, <3>1
  <2> QED BY <2>2, <2>5, <2>6
<1>11. u = s
  BY <1>9, <1>10, SeqEqual
<1> QED BY <1>1, <1>3, <1>5, <1>7, <1>11

(* An operation is passed on to the buffer, after a flush if it must be,   *)
(* or is lost, and then the call says so.                                  *)
LEMMA WriteOpOutcome ==
  ASSUME NEW t, WellFormed(t), Bounded(t), NEW op \in Op, NEW o \in pq_trace_write_op(t, op)
  PROVE  /\ WellFormed(o.t) /\ Bounded(o.t) /\ o.ok \in BOOLEAN
         /\ o.ok /\ t.offset = Len(t.file) /\ Len(t.file) >= HeaderLength =>
              /\ o.t.offset = Len(o.t.file) /\ Len(o.t.file) >= HeaderLength
              /\ Contents(o.t) = Contents(t) \o OpWords(op)
<1>1. PICK w \in Seq(Word) : w = OpWords(op)
  BY OpWordsType
<1>2. Len(w) \in 1 .. PQ_OP_BUFFER_LEN - 1 /\ w[1] = <<op, 1>> /\ PQ_OP_BUFFER_LEN \in Nat
  BY <1>1, OpWordsType, LengthAssumption
<1>3. PICK b \in Seq(Word) : b = t.buffer
  BY DEF WellFormed, Trace
<1>4. PICK f \in Seq(Word) : f = t.file
  BY DEF WellFormed, Trace
<1>5. Len(b) \in Nat /\ Len(b) < PQ_OP_BUFFER_LEN /\ (b # <<>> => b[1][2] = 1)
  BY <1>3 DEF Bounded
<1>6. CASE ~ (PQ_OP_BUFFER_LEN - Len(t.buffer) - 1 < Len(OpWords(op)))
  <2>1. o.t = [t EXCEPT !.buffer = b \o w] /\ o.ok = TRUE
    <3>1. PICK q \in {[t |-> t, ok |-> TRUE]} :
            o = IF q.ok THEN [q EXCEPT !.t.buffer = @ \o OpWords(op)] ELSE q
      BY <1>6 DEF pq_trace_write_op, buffered_write
    <3>2. q.t = t /\ q.ok = TRUE /\ q = [t |-> q.t, ok |-> q.ok]
      BY <3>1
    <3>3. PICK c : c = b \o w
      OBVIOUS
    <3>4. o = [q EXCEPT !.t.buffer = c]
      BY <1>1, <1>3, <3>1, <3>2, <3>3
    <3>5. o.t = [t EXCEPT !.buffer = c] /\ o.ok = TRUE
      BY <3>2, <3>4
    <3> QED BY <3>3, <3>5
  <2>2. PICK c \in Seq(Word) : c = b \o w
    BY ConcatProperties
  <2>3. /\ Len(c) = Len(b) + Len(w)
        /\ c[1] = IF 1 <= Len(b) THEN b[1] ELSE w[1 - Len(b)]
    BY <1>2, <1>5, <2>2, ConcatProperties
  <2>4. Len(c) < PQ_OP_BUFFER_LEN /\ c[1][2] = 1
    BY <1>1, <1>2, <1>3, <1>5, <1>6, <2>3
  <2>5. /\ o.t.buffer = c /\ o.t.file = f /\ o.t.offset = t.offset
        /\ WellFormed(o.t) /\ Bounded(o.t)
    BY <1>4, <2>1, <2>2, <2>4 DEF WellFormed, Bounded, Trace
  <2>6. Contents(o.t) = Contents(t) \o w
    <3>1. PICK r \in Seq(Word) : r = Body(f)
      BY BodyType
    <3>2. (r \o b) \o w = r \o (b \o w)
      BY ConcatAssociative, SMTT(20)
    <3> QED BY <1>3, <1>4, <2>2, <2>5, <3>1, <3>2 DEF Contents
  <2> QED BY <1>1, <1>4, <2>1, <2>5, <2>6
<1>7. CASE PQ_OP_BUFFER_LEN - Len(t.buffer) - 1 < Len(OpWords(op))
  <2>1. PICK p \in pq_trace_flush_buffer(t) :
          o = IF p.ok THEN [p EXCEPT !.t.buffer = @ \o OpWords(op)] ELSE p
    BY <1>7 DEF pq_trace_write_op, buffered_write
  <2>2. /\ WellFormed(p.t) /\ p.ok \in BOOLEAN
        /\ p.t.buffer = IF p.ok THEN <<>> ELSE t.buffer
        /\ p.ok => /\ p.t.file = Written(t, t.buffer).file
                   /\ p.t.offset = Written(t, t.buffer).offset
    BY FlushOutcome
  <2>3. CASE ~ p.ok
    BY <1>3, <1>5, <2>1, <2>2, <2>3 DEF Bounded
  <2>4. CASE p.ok
    <3>1. p = [t |-> p.t, ok |-> p.ok]
      BY DEF pq_trace_flush_buffer, write
    <3>2. <<>> \o w = w
      BY ConcatEmptySeq
    <3>3. o.t = [p.t EXCEPT !.buffer = w] /\ o.ok = TRUE
      BY <1>1, <2>1, <2>2, <2>4, <3>1, <3>2
    <3>4. /\ o.t.buffer = w /\ o.t.file = p.t.file /\ o.t.offset = p.t.offset
          /\ WellFormed(o.t)
      BY <2>2, <3>3 DEF WellFormed, Trace
    <3>5. Bounded(o.t)
      BY <1>2, <3>4 DEF Bounded
    <3>6. ASSUME t.offset = Len(t.file), Len(t.file) >= HeaderLength
          PROVE  /\ o.t.offset = Len(o.t.file) /\ Len(o.t.file) >= HeaderLength
                 /\ Contents(o.t) = Contents(t) \o w
      <4>1. o.t.file = f \o b /\ o.t.offset = Len(f \o b)
        BY <1>3, <1>4, <2>2, <2>4, <3>4, <3>6, WrittenAtEnd
      <4>2. Body(f \o b) = Body(f) \o b
        BY <1>4, <3>6, ConcatBeyond
      <4>3. Len(f \o b) >= HeaderLength
        BY <1>4, <1>5, <3>6, LengthAssumption, ConcatProperties
      <4> QED BY <1>3, <1>4, <3>4, <4>1, <4>2, <4>3 DEF Contents
    <3> QED BY <1>1, <3>3, <3>4, <3>5, <3>6
  <2> QED BY <2>2, <2>3, <2>4
<1> QED BY <1>6, <1>7

(* The header is written once the buffer is in the file: over the header   *)
(* that is there, or as the first of the file.                             *)
LEMMA WriteHeaderOutcome ==
  ASSUME NEW t, WellFormed(t), Bounded(t), NEW h \in Header, NEW o \in pq_trace_write_header(t, h)
  PROVE  /\ WellFormed(o.t) /\ Bounded(o.t) /\ o.ok \in BOOLEAN
         /\ o.ok => /\ o.t.buffer = <<>> /\ o.t.offset = HeaderLength
                    /\ SubSeq(o.t.file, 1, HeaderLength) = HeaderWords(h)
                    /\ Len(o.t.file) >= HeaderLength
                    /\ t.offset = Len(t.file) /\ Len(t.file) >= HeaderLength =>
                         Contents(o.t) = Contents(t)
                    /\ t.file = <<>> /\ t.offset = 0 /\ t.buffer = <<>> =>
                         Len(o.t.file) = HeaderLength
<1>1. PICK p \in pq_trace_flush_buffer(t) :
        o \in IF p.ok THEN write([p.t EXCEPT !.offset = 0], HeaderWords(h)) ELSE {p}
  BY DEF pq_trace_write_header
<1>2. /\ WellFormed(p.t) /\ p.ok \in BOOLEAN
      /\ p.t.buffer = IF p.ok THEN <<>> ELSE t.buffer
      /\ p.ok => /\ p.t.file = Written(t, t.buffer).file
                 /\ p.t.offset = Written(t, t.buffer).offset
  BY FlushOutcome
<1>3. CASE ~ p.ok
  BY <1>1, <1>2, <1>3 DEF Bounded
<1>4. CASE p.ok
  <2>1. PICK u : u = [p.t EXCEPT !.offset = 0]
    OBVIOUS
  <2>2. WellFormed(u) /\ u.buffer = <<>> /\ u.offset = 0 /\ u.file = p.t.file
    BY <1>2, <1>4, <2>1 DEF WellFormed, Trace
  <2>3. PICK w \in Seq(Word) : w = HeaderWords(h) /\ Len(w) = HeaderLength
    BY HeaderWordsType
  <2>4. /\ WellFormed(o.t) /\ o.t.buffer = <<>> /\ o.ok \in BOOLEAN
        /\ o.ok => o.t = Written(u, w)
    BY <1>1, <1>4, <2>1, <2>2, <2>3, WriteOutcome
  <2>5. Bounded(o.t)
    BY <2>4, LengthAssumption DEF Bounded
  <2>6. ASSUME o.ok
        PROVE  /\ o.t.offset = HeaderLength /\ Len(o.t.file) >= HeaderLength
               /\ SubSeq(o.t.file, 1, HeaderLength) = w
               /\ Len(u.file) <= HeaderLength => Len(o.t.file) = HeaderLength
               /\ Body(o.t.file) = Body(u.file)
    <3>1. PICK file \in Seq(Word) : file = Written(u, w).file
      BY <2>2, <2>3, WrittenAtBeginning
    <3>2. Len(file) >= HeaderLength /\ Written(u, w).offset = HeaderLength
      BY <2>2, <2>3, <3>1, WrittenAtBeginning
    <3>3. Len(u.file) <= HeaderLength => Len(file) = HeaderLength
      BY <2>2, <2>3, <3>1, WrittenAtBeginning
    <3>4. SubSeq(file, 1, HeaderLength) = w
      BY <2>2, <2>3, <3>1, WrittenAtBeginning
    <3>5. Body(file) = Body(u.file)
      BY <2>2, <2>3, <3>1, WrittenAtBeginning
    <3> QED BY <2>4, <2>6, <3>1, <3>2, <3>3, <3>4, <3>5
  <2>7. PICK b \in Seq(Word), f \in Seq(Word) : b = t.buffer /\ f = t.file
    BY DEF WellFormed, Trace
  <2>8. ASSUME o.ok, t.offset = Len(t.file), Len(t.file) >= HeaderLength
        PROVE  Contents(o.t) = Contents(t)
    <3>1. u.file = f \o b
      BY <1>2, <1>4, <2>2, <2>7, <2>8, WrittenAtEnd
    <3>2. Body(f \o b) = Body(f) \o b
      BY <2>7, <2>8, ConcatBeyond
    <3>3. PICK r \in Seq(Word) : r = Body(f) \o b
      <4>1. PICK q \in Seq(Word) : q = Body(f)
        BY <2>7, BodyType
      <4> QED BY <4>1, ConcatProperties
    <3>4. r \o <<>> = r
      BY ConcatEmptySeq
    <3> QED BY <2>4, <2>6, <2>7, <2>8, <3>1, <3>2, <3>3, <3>4 DEF Contents
  <2>9. ASSUME o.ok, t.file = <<>>, t.offset = 0, t.buffer = <<>>
        PROVE  Len(o.t.file) = HeaderLength
    <3>1. u.file = f \o b
      BY <1>2, <1>4, <2>2, <2>7, <2>9, WrittenAtEnd
    <3>2. u.file = <<>>
      BY <2>7, <2>9, <3>1, ConcatEmptySeq
    <3> QED BY <2>6, <2>9, <3>2, LengthAssumption
  <2> QED BY <2>3, <2>4, <2>5, <2>6, <2>8, <2>9
<1> QED BY <1>2, <1>3, <1>4

-----------------------------------------------------------------------------
(* The operators of the heap.                                              *)

(* What MoveUp does, one level at a time.                                  *)
LEMMA MoveUpStep ==
  ASSUME NEW d \in Seq(Nat), NEW key \in Nat, NEW j \in 1 .. Len(d)
  PROVE  /\ MoveUp(d, j, key) \in [1 .. Len(d) -> Nat]
         /\ j > 1 => j \div 2 \in 1 .. Len(d)
         /\ MoveUp(d, j, key) = IF j > 1 /\ d[j \div 2] > key
                                THEN [MoveUp(d, j \div 2, key) EXCEPT ![j] = d[j \div 2]]
                                ELSE [d EXCEPT ![j] = key]
<1> DEFINE n == Len(d)
           V == [1 .. n -> Nat]
           next == [i \in 1 .. n |-> i \div 2]
           Stop == {i \in 1 .. n : ~ (i > 1 /\ d[i \div 2] > key)}
           base == [i \in 1 .. n |-> [d EXCEPT ![i] = key]]
           step == [i \in (1 .. n) \ Stop |-> [v \in V |-> [v EXCEPT ![i] = d[i \div 2]]]]
           rank == [i \in 1 .. n |-> i]
           F(f) == f = [i \in DOMAIN d |->
                          IF i > 1 /\ d[i \div 2] > key
                          THEN [f[i \div 2] EXCEPT ![i] = d[i \div 2]]
                          ELSE [d EXCEPT ![i] = key]]
           up == CHOOSE f : F(f)
<1>1. n \in Nat /\ DOMAIN d = 1 .. n /\ d \in V
  OBVIOUS
<1>2. \A i \in 1 .. n : i > 1 => i \div 2 \in 1 .. n /\ i \div 2 < i
  BY <1>1
<1>3. \A i \in (1 .. n) \ Stop : i > 1 /\ d[i \div 2] > key /\ next[i] = i \div 2
                                   /\ next[i] \in 1 .. n /\ rank[next[i]] < rank[i] /\ rank[i] <= n
  BY <1>1, <1>2
<1>4. base \in [1 .. n -> V] /\ rank \in [1 .. n -> Nat]
  BY <1>1
<1>5. \A i \in (1 .. n) \ Stop :
        step[i] \in [V -> V] /\ \A v \in V : step[i][v] = [v EXCEPT ![i] = d[i \div 2]]
  BY <1>1, <1>3
<1> HIDE DEF V, step
<1>6. PICK g \in [1 .. n -> V] : Recurs(g, n, base, step, next, Stop)
  <2> HIDE DEF next, Stop, base, rank
  <2> QED BY <1>1, <1>3, <1>4, <1>5, RecursionExists
<1>7. \A i \in 1 .. n : g[i] = IF i > 1 /\ d[i \div 2] > key
                               THEN [g[i \div 2] EXCEPT ![i] = d[i \div 2]]
                               ELSE [d EXCEPT ![i] = key]
  <2> SUFFICES ASSUME NEW i \in 1 .. n
               PROVE  g[i] = IF i > 1 /\ d[i \div 2] > key
                             THEN [g[i \div 2] EXCEPT ![i] = d[i \div 2]]
                             ELSE [d EXCEPT ![i] = key]
    OBVIOUS
  <2>1. g[i] = IF i \in Stop THEN base[i] ELSE step[i][g[next[i]]]
    BY <1>6 DEF Recurs
  <2>2. CASE i \in Stop
    BY <2>1, <2>2
  <2>3. CASE i \notin Stop
    <3>1. next[i] = i \div 2 /\ g[i \div 2] \in V /\ i > 1 /\ d[i \div 2] > key
      BY <1>3, <1>6, <2>3
    <3> QED BY <1>5, <2>1, <2>3, <3>1
  <2> QED BY <2>2, <2>3
<1>8. F(g)
  BY <1>1, <1>6, <1>7
<1>9. \A f : F(f) => DOMAIN f = 1 .. n /\ \A i \in 1 .. n :
        f[i] = IF i > 1 /\ d[i \div 2] > key
               THEN [f[i \div 2] EXCEPT ![i] = d[i \div 2]]
               ELSE [d EXCEPT ![i] = key]
  BY <1>1
<1> HIDE DEF F
<1>10. F(up)
  BY <1>8
<1> HIDE DEF up
<1>11. \A i \in 1 .. n : up[i] \in V
  <2> DEFINE P == {i \in 1 .. n : up[i] \in V}
  <2>1. \A i \in 1 .. n : (\A k \in 1 .. n : rank[k] < rank[i] => k \in P) => i \in P
    <3> SUFFICES ASSUME NEW i \in 1 .. n, \A k \in 1 .. n : rank[k] < rank[i] => k \in P
                 PROVE  up[i] \in V
      OBVIOUS
    <3>1. i > 1 => up[i \div 2] \in V
      BY <1>1, <1>2
    <3>2. i > 1 => d[i \div 2] \in Nat
      BY <1>1, <1>2 DEF V
    <3>3. [d EXCEPT ![i] = key] \in V
      BY <1>1 DEF V
    <3>4. up[i] = IF i > 1 /\ d[i \div 2] > key
                  THEN [up[i \div 2] EXCEPT ![i] = d[i \div 2]]
                  ELSE [d EXCEPT ![i] = key]
      BY <1>9, <1>10
    <3> QED BY <3>1, <3>2, <3>3, <3>4 DEF V
  <2> HIDE DEF P, rank
  <2>2. 1 .. n \subseteq P
    <3>1. PICK D : D = 1 .. n
      OBVIOUS
    <3>2. rank \in [D -> Nat] /\ \A i \in D : (\A k \in D : rank[k] < rank[i] => k \in P) => i \in P
      BY <1>4, <2>1, <3>1
    <3>3. D \subseteq P
      BY <3>2, RankInduction
    <3> QED BY <3>1, <3>3
  <2> QED BY <2>2 DEF P
<1>12. \A i : MoveUp(d, i, key) = up[i]
  BY DEF MoveUp, up, F
<1> QED BY <1>1, <1>2, <1>9, <1>10, <1>11, <1>12 DEF V

LEMMA MoveUpType ==
  ASSUME NEW d \in Seq(Nat), NEW key \in Nat, NEW j \in 1 .. Len(d)
  PROVE  MoveUp(d, j, key) \in [1 .. Len(d) -> Nat]
BY MoveUpStep, Zenon

LEMMA SmallestFound ==
  ASSUME NEW d \in Seq(Nat), NEW key \in Nat, NEW j \in 1 .. Len(d)
  PROVE  LET Held(c) == IF c = j THEN key ELSE d[c]
         IN  /\ Smallest(d, j, key) \in {j, 2 * j, 2 * j + 1} \cap (1 .. Len(d))
             /\ \A e \in {j, 2 * j, 2 * j + 1} \cap (1 .. Len(d)) :
                  Held(Smallest(d, j, key)) <= Held(e)
<1> DEFINE Held(c) == IF c = j THEN key ELSE d[c]
           family == {c \in {j, 2 * j, 2 * j + 1} : c <= Len(d)}
           HeldKeys == {Held(c) : c \in family}
<1>1. /\ Len(d) \in Nat /\ family \subseteq 1 .. Len(d) /\ j \in family
      /\ family = {j, 2 * j, 2 * j + 1} \cap (1 .. Len(d))
  OBVIOUS
<1>2. \A c \in family : Held(c) \in Nat
  BY <1>1, ElementOfSeq
<1>3. Smallest(d, j, key) = CHOOSE c \in family : \A e \in family : Held(c) <= Held(e)
  BY DEF Smallest
<1> HIDE DEF family, Held
<1>4. PICK m \in HeldKeys : \A v \in HeldKeys : m <= v
  <2>1. HeldKeys # {} /\ HeldKeys \in SUBSET Nat
    BY <1>1, <1>2
  <2> HIDE DEF HeldKeys
  <2> QED BY <2>1, SmallestElement
<1>5. \E c \in family : \A e \in family : Held(c) <= Held(e)
  BY <1>4
<1>6. Smallest(d, j, key) \in family /\ \A e \in family : Held(Smallest(d, j, key)) <= Held(e)
  BY <1>3, <1>5
<1> QED BY <1>1, <1>6 DEF Held

(* What Heapify does, one level at a time: down[j] is the heap once key is *)
(* in it, at j or below.                                                   *)
Heapifies(down, d, i, key) ==
  /\ Heapify(d, i) = down[i]
  /\ \A j \in 1 .. Len(d) :
       /\ down[j] \in [1 .. Len(d) -> Nat]
       /\ down[j] = IF Smallest(d, j, key) = j THEN [d EXCEPT ![j] = key]
                    ELSE [down[Smallest(d, j, key)] EXCEPT ![j] = d[Smallest(d, j, key)]]

LEMMA HeapifyStep ==
  ASSUME NEW d \in Seq(Nat), NEW i \in 1 .. Len(d), NEW key, key = d[i]
  PROVE  \E down : Heapifies(down, d, i, key)
<1> DEFINE n == Len(d)
           V == [1 .. n -> Nat]
           next == [j \in 1 .. n |-> Smallest(d, j, key)]
           Stop == {j \in 1 .. n : next[j] = j}
           base == [j \in 1 .. n |-> [d EXCEPT ![j] = key]]
           step == [j \in (1 .. n) \ Stop |-> [v \in V |-> [v EXCEPT ![j] = d[next[j]]]]]
           rank == [j \in 1 .. n |-> n - j]
           Eq(f) == \A j \in 1 .. n : f[j] = IF next[j] = j THEN [d EXCEPT ![j] = key]
                                             ELSE [f[next[j]] EXCEPT ![j] = d[next[j]]]
           F(f) == f = [j \in DOMAIN d |->
                          LET c == Smallest(d, j, key)
                          IN  IF c = j THEN [d EXCEPT ![j] = key] ELSE [f[c] EXCEPT ![j] = d[c]]]
           down == CHOOSE f : F(f)
<1>1. n \in Nat /\ DOMAIN d = 1 .. n /\ d \in V /\ key \in Nat /\ d # <<>>
  OBVIOUS
<1>2. \A j \in 1 .. n : next[j] \in 1 .. n /\ next[j] >= j /\ d[next[j]] \in Nat
  <2> SUFFICES ASSUME NEW j \in 1 .. n PROVE next[j] \in 1 .. n /\ next[j] >= j
    BY <1>1
  <2>1. next[j] \in {j, 2 * j, 2 * j + 1} \cap (1 .. n)
    BY <1>1, SmallestFound
  <2> QED BY <2>1
<1>3. /\ base \in [1 .. n -> V] /\ rank \in [1 .. n -> Nat]
      /\ \A j \in 1 .. n : base[j] = [d EXCEPT ![j] = key]
  BY <1>1
<1> HIDE DEF next
<1>4. \A j \in (1 .. n) \ Stop : next[j] \in 1 .. n /\ rank[next[j]] < rank[j] /\ rank[j] <= n
  BY <1>1, <1>2
<1>5. \A j \in (1 .. n) \ Stop :
        step[j] \in [V -> V] /\ \A v \in V : step[j][v] = [v EXCEPT ![j] = d[next[j]]]
  BY <1>1, <1>2
<1> HIDE DEF V, step
<1>6. PICK g \in [1 .. n -> V] : Recurs(g, n, base, step, next, Stop)
  <2> HIDE DEF Stop, base, rank
  <2> QED BY <1>1, <1>3, <1>4, <1>5, RecursionExists
<1>7. Eq(g)
  <2> SUFFICES ASSUME NEW j \in 1 .. n
               PROVE  g[j] = IF next[j] = j THEN [d EXCEPT ![j] = key]
                             ELSE [g[next[j]] EXCEPT ![j] = d[next[j]]]
    OBVIOUS
  <2>1. g[j] = IF j \in Stop THEN base[j] ELSE step[j][g[next[j]]]
    BY <1>6 DEF Recurs
  <2>2. CASE j \in Stop
    BY <1>3, <2>1, <2>2
  <2>3. CASE j \notin Stop
    <3>1. g[next[j]] \in V
      BY <1>2, <1>6
    <3> QED BY <1>5, <2>1, <2>3, <3>1
  <2> QED BY <2>2, <2>3
<1>8. \A j \in 1 .. n : next[j] = Smallest(d, j, key)
  BY DEF next
<1>9. F(down)
  <2>1. F(g)
    <3> DEFINE E(j) == LET c == Smallest(d, j, key)
                       IN  IF c = j THEN [d EXCEPT ![j] = key] ELSE [g[c] EXCEPT ![j] = d[c]]
    <3>1. \A j \in 1 .. n : g[j] = E(j)
      BY <1>7, <1>8
    <3>2. g = [j \in 1 .. n |-> g[j]]
      BY <1>6
    <3> HIDE DEF E
    <3>3. g = [j \in 1 .. n |-> E(j)]
      BY <3>1, <3>2
    <3> QED BY <1>1, <3>3 DEF E, F
  <2> QED BY <2>1
<1> HIDE DEF down
<1>10. Eq(down)
  <2> SUFFICES ASSUME NEW j \in 1 .. n
               PROVE  down[j] = IF next[j] = j THEN [d EXCEPT ![j] = key]
                                ELSE [down[next[j]] EXCEPT ![j] = d[next[j]]]
    OBVIOUS
  <2> DEFINE E(k) == LET c == Smallest(d, k, key)
                     IN  IF c = k THEN [d EXCEPT ![k] = key] ELSE [down[c] EXCEPT ![k] = d[c]]
  <2>1. down = [k \in 1 .. n |-> E(k)]
    BY <1>1, <1>9 DEF F
  <2> HIDE DEF E
  <2>2. down[j] = E(j)
    BY <2>1
  <2> QED BY <1>8, <2>2 DEF E
<1>11. \A j \in 1 .. n : down[j] \in V
  <2> DEFINE P == {j \in 1 .. n : down[j] \in V}
  <2>1. \A j \in 1 .. n : (\A k \in 1 .. n : rank[k] < rank[j] => k \in P) => j \in P
    <3> SUFFICES ASSUME NEW j \in 1 .. n, \A k \in 1 .. n : rank[k] < rank[j] => k \in P
                 PROVE  down[j] \in V
      OBVIOUS
    <3>1. next[j] # j => down[next[j]] \in V
      BY <1>1, <1>2
    <3>2. down[j] = IF next[j] = j THEN [d EXCEPT ![j] = key]
                    ELSE [down[next[j]] EXCEPT ![j] = d[next[j]]]
      BY <1>10
    <3> QED BY <1>1, <1>2, <3>1, <3>2 DEF V
  <2> HIDE DEF P, rank
  <2>2. 1 .. n \subseteq P
    <3>1. PICK D : D = 1 .. n
      OBVIOUS
    <3>2. rank \in [D -> Nat] /\ \A j \in D : (\A k \in D : rank[k] < rank[j] => k \in P) => j \in P
      BY <1>3, <2>1, <3>1
    <3>3. D \subseteq P
      BY <3>2, RankInduction
    <3> QED BY <3>1, <3>3
  <2> QED BY <2>2 DEF P
<1>12. Heapify(d, i) = down[i]
  BY <1>1 DEF Heapify, down, F
<1>13. \A j \in 1 .. n :
         /\ down[j] \in V
         /\ down[j] = IF Smallest(d, j, key) = j THEN [d EXCEPT ![j] = key]
                      ELSE [down[Smallest(d, j, key)] EXCEPT ![j] = d[Smallest(d, j, key)]]
  BY <1>8, <1>10, <1>11
<1>14. WITNESS down
<1> QED BY <1>12, <1>13 DEF V, Heapifies

LEMMA HeapifyType ==
  ASSUME NEW d \in Seq(Nat), NEW i \in 1 .. Len(d)
  PROVE  Heapify(d, i) \in [1 .. Len(d) -> Nat]
<1>1. PICK key : key = d[i]
  OBVIOUS
<1>2. PICK down : Heapify(d, i) = down[i] /\ \A j \in 1 .. Len(d) : down[j] \in [1 .. Len(d) -> Nat]
  BY <1>1, HeapifyStep, Zenon DEF Heapifies
<1> QED BY <1>2

(* The operators of the heap keep its cells natural numbers.               *)
LEMMA HeapTypes ==
  ASSUME NEW d \in Seq(Nat), NEW key \in Nat
  PROVE  /\ HeapInsert(d, key) \in Seq(Nat) /\ Len(HeapInsert(d, key)) = Len(d) + 1
         /\ d = <<>> => HeapExtractMin(d) = <<>>
         /\ d # <<>> => /\ HeapExtractMin(d) \in Seq(Nat)
                        /\ Len(HeapExtractMin(d)) = Len(d) - 1
         /\ \A i \in 1 .. Len(d) : /\ HeapDecreaseKey(d, i, key) \in Seq(Nat)
                                   /\ Len(HeapDecreaseKey(d, i, key)) = Len(d)
<1>1. HeapInsert(d, key) \in Seq(Nat) /\ Len(HeapInsert(d, key)) = Len(d) + 1
  <2>1. PICK e \in Seq(Nat) : e = Append(d, key) /\ Len(e) = Len(d) + 1
    BY AppendProperties
  <2>2. PICK m \in 1 .. Len(e) : m = Len(d) + 1
    BY <2>1
  <2>3. MoveUp(e, m, key) \in [1 .. Len(e) -> Nat]
    BY MoveUpType, Zenon
  <2>4. HeapInsert(d, key) = MoveUp(e, m, key)
    BY <2>1, <2>2 DEF HeapInsert
  <2>5. Len(e) \in Nat
    OBVIOUS
  <2>6. PICK n \in Nat : n = Len(e)
    BY <2>5
  <2>7. PICK h \in [1 .. n -> Nat] : h = MoveUp(e, m, key)
    BY <2>3, <2>6
  <2>8. h \in Seq(Nat) /\ Len(h) = n
    BY ONLY n \in Nat, h \in [1 .. n -> Nat], SeqOfFunction
  <2> QED BY <2>1, <2>4, <2>6, <2>7, <2>8
<1>2. ASSUME d = <<>> PROVE HeapExtractMin(d) = <<>>
  <2>1. Front([d EXCEPT ![1] = Last(d)]) = <<>>
    BY <1>2 DEF Front
  <2> QED BY <2>1 DEF HeapExtractMin, Heapify
<1>3. ASSUME d # <<>>
      PROVE  HeapExtractMin(d) \in Seq(Nat) /\ Len(HeapExtractMin(d)) = Len(d) - 1
  <2>1. Len(d) \in Nat \ {0} /\ Last(d) \in Nat
    BY <1>3, ElementOfSeq DEF Last
  <2>2. PICK e \in Seq(Nat) : e = [d EXCEPT ![1] = Last(d)] /\ Len(e) = Len(d)
    <3>1. PICK last \in Nat : last = Last(d)
      BY <2>1
    <3>2. 1 \in 1 .. Len(d)
      BY <2>1
    <3>3. [d EXCEPT ![1] = last] \in Seq(Nat) /\ Len([d EXCEPT ![1] = last]) = Len(d)
      BY <3>2, ExceptSeq
    <3> QED BY <3>1, <3>3
  <2>3. PICK f \in Seq(Nat) : f = Front(e) /\ Len(f) = Len(d) - 1
    <3>1. PICK m \in Nat : m = Len(e) - 1 /\ m < Len(e)
      <4>1. Len(e) \in Nat \ {0}
        BY <2>1, <2>2
      <4>2. Len(e) - 1 \in Nat /\ Len(e) - 1 < Len(e)
        BY <4>1
      <4> QED BY <4>2
    <3>2. SubSeq(e, 1, m) \in Seq(Nat) /\ Len(SubSeq(e, 1, m)) = m
      BY <3>1
    <3> QED BY <2>2, <3>1, <3>2 DEF Front
  <2>4. HeapExtractMin(d) = Heapify(f, 1)
    BY <2>2, <2>3 DEF HeapExtractMin
  <2>5. CASE f = <<>>
    BY <2>3, <2>4, <2>5 DEF Heapify
  <2>6. CASE f # <<>>
    <3>1. 1 \in 1 .. Len(f) /\ Len(f) \in Nat
      BY <2>6
    <3>2. Heapify(f, 1) \in [1 .. Len(f) -> Nat]
      BY <3>1, HeapifyType
    <3>3. Heapify(f, 1) \in Seq(Nat) /\ Len(Heapify(f, 1)) = Len(f)
      BY <3>1, <3>2, SeqOfFunction
    <3> QED BY <2>3, <2>4, <3>3
  <2> QED BY <2>5, <2>6
<1>4. ASSUME NEW i \in 1 .. Len(d)
      PROVE  HeapDecreaseKey(d, i, key) \in Seq(Nat) /\ Len(HeapDecreaseKey(d, i, key)) = Len(d)
  <2>1. MoveUp(d, i, key) \in [1 .. Len(d) -> Nat]
    BY MoveUpType, Zenon
  <2>2. Len(d) \in Nat
    OBVIOUS
  <2> QED BY <2>1, <2>2, SeqOfFunction DEF HeapDecreaseKey
<1> QED BY <1>1, <1>2, <1>3, <1>4

-----------------------------------------------------------------------------
(* The inductive invariant.                                                *)
Commands == Cmd \cup {"header", "create", "destroy", "close"}

\* The header is written first, the buffer is flushed last.
TodoInOrder ==
  /\ todo \in Seq(Commands)
  /\ \A i \in 1 .. Len(todo) : (todo[i] = "close" <=> i = Len(todo)) /\ (todo[i] = "header" => i = 1)

Fresh == todo # <<>> /\ Head(todo) = "header"

RecorderTypes ==
  /\ WellFormed(trace) /\ Bounded(trace)
  /\ header \in Header /\ recorded \in Seq(Op) /\ failures \in Nat

\* What is in the file as long as no call has failed.
FileCoherent ==
  /\ header.op_count = Len(recorded)
  /\ Fresh => trace.file = <<>> /\ trace.offset = 0 /\ trace.buffer = <<>> /\ recorded = <<>>
  /\ failures = 0 /\ ~ Fresh =>
       /\ Len(trace.file) >= HeaderLength /\ Contents(trace) = RecordedWords
       /\ todo # <<>> => trace.offset = Len(trace.file)
       /\ todo = <<>> => /\ trace.buffer = <<>>
                         /\ SubSeq(trace.file, 1, HeaderLength) = HeaderWords(header)

HeapTyped == data \in Seq(Nat) /\ newname \in Nat

GeneratorIInv == RecorderTypes /\ TodoInOrder /\ FileCoherent /\ HeapTyped

LEMMA TimesType ==
  ASSUME NEW S, NEW n \in Nat, NEW calls \in Seq(S)
  PROVE  Times(n, calls) \in Seq(S)
<1>1. [i \in 1 .. n |-> calls] \in Seq(Seq(S)) /\ <<>> \in Seq(S)
  OBVIOUS
<1> QED BY <1>1, FlattenAppend DEF Times

(* Between the placeholder and pq_create, and pq_destroy and the close,    *)
(* there are operations of the command line only.                          *)
LEMMA CallsShape ==
  ASSUME NEW a \in Args
  PROVE  \E middle \in Seq(Cmd) : Calls(a) = <<"header", "create">> \o middle \o <<"destroy", "close">>
<1>1. /\ a.init \in Nat /\ a.reps \in Nat /\ \A c \in Cmd : a.with[c] \in Nat
      /\ \A c \in Cmd : <<c>> \in Seq(Cmd)
      /\ "ins" \in Cmd
  BY ArgsAssumption DEF Cmd
<1> DEFINE part(i) == LET c == <<"ins", "dcr", "dcr_min", "fmn", "dmn">>[i]
                          once == i > 3 /\ a.with[c] > 0
                      IN  Times(IF once THEN 1 ELSE a.with[c], <<c>>)
           parts == [i \in 1 .. 5 |-> part(i)]
<1>2. \A i \in 1 .. 5 : part(i) \in Seq(Cmd)
  <2> SUFFICES ASSUME NEW i \in 1 .. 5 PROVE part(i) \in Seq(Cmd)
    OBVIOUS
  <2>1. PICK c \in Cmd : c = <<"ins", "dcr", "dcr_min", "fmn", "dmn">>[i]
    BY DEF Cmd
  <2>2. PICK n \in Nat : n = IF i > 3 /\ a.with[c] > 0 THEN 1 ELSE a.with[c]
    BY <1>1
  <2>3. Times(n, <<c>>) \in Seq(Cmd)
    BY <1>1, TimesType
  <2> QED BY <2>1, <2>2, <2>3
<1> HIDE DEF part
<1>3. PICK once \in Seq(Cmd) : once = FlattenSeq(parts)
  <2>1. parts \in Seq(Seq(Cmd)) /\ <<>> \in Seq(Cmd)
    BY <1>2
  <2> HIDE DEF parts
  <2> QED BY <2>1, FlattenAppend
<1>4. PICK insertions \in Seq(Cmd) : insertions = Times(a.init, <<"ins">>)
  BY <1>1, TimesType
<1>5. PICK rest \in Seq(Cmd) : rest = Times(a.reps, once)
  BY <1>1, TimesType
<1>6. Calls(a) = ((<<"header", "create">> \o insertions) \o rest) \o <<"destroy", "close">>
  BY <1>3, <1>4, <1>5 DEF Calls, part
<1>7. (<<"header", "create">> \o insertions) \o rest = <<"header", "create">> \o (insertions \o rest)
  <2>1. <<"header", "create">> \in Seq(Commands) /\ insertions \in Seq(Commands) /\ rest \in Seq(Commands)
    BY SeqMonotonic DEF Commands
  <2> QED BY <2>1, ConcatAssociative
<1>8. insertions \o rest \in Seq(Cmd)
  BY ConcatProperties
<1> QED BY <1>6, <1>7, <1>8

LEMMA CallsInOrder ==
  ASSUME NEW a \in Args, todo = Calls(a)
  PROVE  TodoInOrder /\ Fresh
<1>1. PICK middle \in Seq(Cmd) : todo = <<"header", "create">> \o middle \o <<"destroy", "close">>
  BY CallsShape
<1> DEFINE first == <<"header", "create">>
           last == <<"destroy", "close">>
<1>2. /\ first \in Seq(Commands) /\ middle \in Seq(Commands) /\ last \in Seq(Commands)
      /\ Len(first) = 2 /\ first[1] = "header" /\ first[2] = "create"
      /\ Len(last) = 2 /\ last[1] = "destroy" /\ last[2] = "close"
      /\ \A i \in 1 .. Len(middle) : middle[i] \in Cmd
      /\ Len(middle) \in Nat
  BY ElementOfSeq DEF Commands
<1> HIDE DEF first, last
<1>3. PICK s \in Seq(Commands) : s = first \o middle
  BY <1>2, ConcatProperties
<1>4. /\ Len(s) = 2 + Len(middle)
      /\ \A i \in 1 .. 2 + Len(middle) : s[i] = IF i <= 2 THEN first[i] ELSE middle[i - 2]
  <2>1. PICK p \in Seq(Commands), m \in Seq(Commands) : p = first /\ m = middle
    BY <1>2
  <2>2. /\ Len(p \o m) = Len(p) + Len(m)
        /\ \A i \in 1 .. Len(p) + Len(m) : (p \o m)[i] = IF i <= Len(p) THEN p[i] ELSE m[i - Len(p)]
    BY ConcatProperties
  <2> QED BY <1>2, <1>3, <2>1, <2>2
<1>5. todo = s \o last
  BY <1>1, <1>3 DEF first, last
<1>6. /\ todo \in Seq(Commands) /\ Len(todo) = Len(s) + 2
      /\ \A i \in 1 .. Len(s) + 2 : todo[i] = IF i <= Len(s) THEN s[i] ELSE last[i - Len(s)]
  <2>1. PICK l \in Seq(Commands) : l = last
    BY <1>2
  <2>2. /\ s \o l \in Seq(Commands) /\ Len(s \o l) = Len(s) + Len(l)
        /\ \A i \in 1 .. Len(s) + Len(l) : (s \o l)[i] = IF i <= Len(s) THEN s[i] ELSE l[i - Len(s)]
    BY ConcatProperties
  <2> QED BY <1>2, <1>5, <2>1, <2>2
<1>7. "close" \notin Cmd /\ "header" \notin Cmd
  BY DEF Cmd
<1>8. ASSUME NEW i \in 1 .. Len(todo)
      PROVE  (todo[i] = "close" <=> i = Len(todo)) /\ (todo[i] = "header" => i = 1)
  <2>1. CASE i <= 2
    BY <1>2, <1>4, <1>6, <2>1
  <2>2. CASE i > 2 /\ i <= Len(s)
    <3>1. todo[i] = middle[i - 2] /\ i - 2 \in 1 .. Len(middle)
      BY <1>2, <1>4, <1>6, <2>2
    <3> QED BY <1>2, <1>4, <1>6, <1>7, <2>2, <3>1
  <2>3. CASE i > Len(s)
    <3>1. todo[i] = last[i - Len(s)] /\ i - Len(s) \in 1 .. 2
      BY <1>2, <1>4, <1>6, <2>3
    <3> QED BY <1>2, <1>4, <1>6, <2>3, <3>1
  <2> QED BY <1>2, <1>4, <1>6, <2>1, <2>2, <2>3
<1>9. todo # <<>> /\ todo[1] = "header"
  BY <1>2, <1>4, <1>6
<1> QED BY <1>6, <1>8, <1>9 DEF TodoInOrder, Fresh

LEMMA InitGenerator == Init => GeneratorIInv
<1> SUFFICES ASSUME Init PROVE GeneratorIInv
  OBVIOUS
<1>1. PICK a \in Args : todo = Calls(a) /\ trace = NoTrace(a.faults)
  BY DEF Init
<1>2. a.faults \in Nat
  BY ArgsAssumption
<1>3. TodoInOrder /\ Fresh
  BY <1>1, CallsInOrder
<1>4. WellFormed(trace) /\ Bounded(trace)
  <2>1. trace = [file |-> <<>>, offset |-> 0, buffer |-> <<>>, faults |-> a.faults]
    BY <1>1 DEF NoTrace
  <2>2. <<>> \in Seq(Word) /\ Len(<<>>) = 0
    OBVIOUS
  <2>3. PQ_OP_BUFFER_LEN > 0
    <3>1. "create" \in DOMAIN pq_op_lengths
      BY OpCodeAssumption DEF OpCode
    <3> QED BY <3>1, LengthAssumption
  <2> QED BY <1>2, <2>1, <2>2, <2>3 DEF WellFormed, Trace, Bounded
<1>5. RecorderTypes
  BY <1>4 DEF Init, RecorderTypes, Header
<1>6. FileCoherent
  BY <1>1, <1>3 DEF Init, FileCoherent, NoTrace
<1> QED BY <1>3, <1>5, <1>6 DEF Init, GeneratorIInv, HeapTyped

LEMMA CallStep ==
  ASSUME TodoInOrder, NEW c, Call(c)
  PROVE  /\ TodoInOrder' /\ ~ Fresh' /\ todo # <<>>
         /\ Fresh <=> c = "header"
         /\ todo' = <<>> <=> c = "close"
<1>1. PICK t \in Seq(Commands) : t = todo
  BY DEF TodoInOrder
<1>2. t # <<>> /\ t[1] = c /\ todo' = Tail(t)
  BY <1>1 DEF Call
<1>3. PICK u \in Seq(Commands) : u = Tail(t)
  BY <1>2
<1>4. /\ Len(t) \in Nat \ {0} /\ Len(u) = Len(t) - 1
      /\ \A i \in 1 .. Len(u) : u[i] = t[i + 1] /\ i + 1 \in 1 .. Len(t)
  BY <1>2, <1>3
<1>5. \A i \in 1 .. Len(t) : (t[i] = "close" <=> i = Len(t)) /\ (t[i] = "header" => i = 1)
  BY <1>1 DEF TodoInOrder
<1>6. \A i \in 1 .. Len(u) : (u[i] = "close" <=> i = Len(u)) /\ u[i] # "header"
  BY <1>4, <1>5
<1>7. TodoInOrder'
  BY <1>2, <1>3, <1>6 DEF TodoInOrder
<1>8. ~ Fresh'
  <2>1. u = <<>> \/ (1 \in 1 .. Len(u) /\ Head(u) = u[1])
    OBVIOUS
  <2> QED BY <1>2, <1>3, <1>6, <2>1 DEF Fresh
<1>9. u = <<>> <=> c = "close"
  <2>1. u = <<>> <=> Len(t) = 1
    BY <1>4
  <2>2. t[1] = "close" <=> 1 = Len(t)
    BY <1>4, <1>5
  <2> QED BY <1>2, <2>1, <2>2
<1> QED BY <1>1, <1>2, <1>3, <1>7, <1>8, <1>9 DEF Fresh

LEMMA RecordedAppend ==
  ASSUME recorded \in Seq(Op), NEW op \in Op, recorded' = Append(recorded, op)
  PROVE  /\ RecordedWords \in Seq(Word)
         /\ RecordedWords' = RecordedWords \o OpWords(op)
         /\ recorded' \in Seq(Op) /\ Len(recorded') = Len(recorded) + 1
<1>1. PICK r \in Seq(Op), s \in Seq(Op) : r = recorded /\ s = Append(r, op) /\ s = recorded'
  BY AppendProperties
<1>2. /\ Len(r) \in Nat /\ Len(s) = Len(r) + 1 /\ s[Len(r) + 1] = op
      /\ \A i \in 1 .. Len(r) : s[i] = r[i] /\ r[i] \in Op
  BY <1>1, AppendProperties, ElementOfSeq
<1> DEFINE ws == [i \in 1 .. Len(r) |-> OpWords(r[i])]
           vs == [i \in 1 .. Len(r) + 1 |-> OpWords(s[i])]
<1>3. PICK w \in Seq(Word) : w = OpWords(op)
  BY OpWordsType
<1>4. \A i \in 1 .. Len(r) : OpWords(r[i]) \in Seq(Word)
  BY <1>2, OpWordsType
<1>5. ws \in Seq(Seq(Word)) /\ vs = Append(ws, w)
  <2>1. ws \in [1 .. Len(r) -> Seq(Word)] /\ Len(r) \in Nat
    BY <1>2, <1>4
  <2>2. ws \in Seq(Seq(Word)) /\ Len(ws) = Len(r)
    <3>1. PICK n \in Nat : n = Len(r)
      BY <2>1
    <3>2. ws \in [1 .. n -> Seq(Word)]
      BY <2>1, <3>1
    <3> HIDE DEF ws
    <3> QED BY ONLY <3>1, <3>2, SeqOfFunction
  <2>3. PICK a : a = Append(ws, w)
    OBVIOUS
  <2>4. /\ a \in Seq(Seq(Word)) /\ Len(a) = Len(r) + 1 /\ a[Len(r) + 1] = w
        /\ \A i \in 1 .. Len(r) : a[i] = ws[i]
    BY <2>2, <2>3, AppendProperties
  <2>5. vs \in Seq(Seq(Word)) /\ Len(vs) = Len(r) + 1
    <3>1. vs \in [1 .. Len(r) + 1 -> Seq(Word)] /\ Len(r) + 1 \in Nat
      BY <1>2, <1>3, <1>4
    <3> HIDE DEF vs
    <3> QED BY <3>1, SeqOfFunction
  <2>6. \A i \in 1 .. Len(r) + 1 : vs[i] = a[i]
    <3> SUFFICES ASSUME NEW i \in 1 .. Len(r) + 1 PROVE OpWords(s[i]) = a[i]
      OBVIOUS
    <3>1. CASE i = Len(r) + 1
      BY <1>2, <1>3, <2>4, <3>1
    <3>2. CASE i # Len(r) + 1
      <4>1. i \in 1 .. Len(r)
        BY <1>2, <3>2
      <4>2. a[i] = ws[i] /\ s[i] = r[i]
        BY <1>2, <2>4, <4>1
      <4> QED BY <4>1, <4>2
    <3> QED BY <3>1, <3>2
  <2> HIDE DEF ws, vs
  <2>7. vs = a
    BY <2>4, <2>5, <2>6, SeqEqual
  <2> QED BY <2>2, <2>3, <2>7
<1>6. RecordedWords = FlattenSeq(ws) /\ RecordedWords' = FlattenSeq(vs)
  <2>1. DOMAIN r = 1 .. Len(r) /\ DOMAIN s = 1 .. Len(r) + 1
    BY <1>2
  <2> QED BY <1>1, <2>1 DEF RecordedWords
<1> HIDE DEF ws, vs
<1>7. FlattenSeq(ws) \in Seq(Word) /\ FlattenSeq(Append(ws, w)) = FlattenSeq(ws) \o w
  BY <1>5, FlattenAppend
<1> QED BY <1>1, <1>2, <1>3, <1>5, <1>6, <1>7

(* An operation is recorded.                                               *)
LEMMA RecordStep ==
  ASSUME RecorderTypes, TodoInOrder, FileCoherent,
         NEW c, Call(c), c # "header", c # "close", NEW op \in Op, Record(op)
  PROVE  (RecorderTypes /\ TodoInOrder /\ FileCoherent)'
<1>1. TodoInOrder' /\ ~ Fresh' /\ ~ Fresh /\ todo # <<>> /\ todo' # <<>>
  BY CallStep
<1>2. PICK o \in pq_trace_write_op(trace, op) :
        trace' = o.t /\ failures' = IF o.ok THEN failures ELSE failures + 1
  BY DEF Record, Outcome
<1>3. recorded' = Append(recorded, op) /\ header' = [header EXCEPT
        !.op_count = @ + 1, !.node_ids = @ + IF op.code = "insert" THEN 1 ELSE 0]
  BY DEF Record
<1>4. /\ WellFormed(trace) /\ Bounded(trace) /\ failures \in Nat /\ header \in Header
      /\ recorded \in Seq(Op)
  BY DEF RecorderTypes
<1>5. /\ WellFormed(o.t) /\ Bounded(o.t) /\ o.ok \in BOOLEAN
      /\ o.ok /\ trace.offset = Len(trace.file) /\ Len(trace.file) >= HeaderLength =>
           /\ o.t.offset = Len(o.t.file) /\ Len(o.t.file) >= HeaderLength
           /\ Contents(o.t) = Contents(trace) \o OpWords(op)
  BY <1>4, WriteOpOutcome
<1>6. /\ RecordedWords' = RecordedWords \o OpWords(op)
      /\ recorded' \in Seq(Op) /\ Len(recorded') = Len(recorded) + 1
  BY <1>3, <1>4, RecordedAppend
<1>7. header' \in Header /\ header'.op_count = header.op_count + 1
  <2>1. PICK k \in Nat : k = IF op.code = "insert" THEN 1 ELSE 0
    OBVIOUS
  <2>2. header' = [header EXCEPT !.op_count = header.op_count + 1, !.node_ids = header.node_ids + k]
    BY <1>3, <2>1
  <2>3. header.op_count + 1 \in Nat /\ header.node_ids + k \in Nat
    BY <1>4 DEF Header
  <2> QED BY <1>4, <2>2, <2>3 DEF Header
<1>8. RecorderTypes'
  <2>1. failures' \in Nat
    BY <1>2, <1>4, <1>5
  <2> QED BY <1>2, <1>5, <1>6, <1>7, <2>1 DEF RecorderTypes, WellFormed, Bounded
<1>9. FileCoherent'
  <2>1. header'.op_count = Len(recorded')
    BY <1>6, <1>7 DEF FileCoherent
  <2>2. ASSUME failures' = 0
        PROVE  /\ Len(trace'.file) >= HeaderLength /\ Contents(o.t) = RecordedWords'
               /\ trace'.offset = Len(trace'.file)
    <3>1. o.ok /\ failures = 0
      BY <1>2, <1>4, <1>5, <2>2
    <3>2. /\ Len(trace.file) >= HeaderLength /\ Contents(trace) = RecordedWords
          /\ trace.offset = Len(trace.file)
      BY <1>1, <3>1 DEF FileCoherent
    <3> QED BY <1>2, <1>5, <1>6, <3>1, <3>2
  <2>3. Contents(trace)' = Contents(o.t)
    BY <1>2 DEF Contents, Body
  <2> QED BY <1>1, <2>1, <2>2, <2>3 DEF FileCoherent
<1> QED BY <1>1, <1>8, <1>9

LEMMA KeyTypes ==
  ASSUME HeapTyped
  PROVE  /\ \A p \in 0 .. Maxprio - 1 : p * NameSpan + newname \in Nat
         /\ \A item \in DOMAIN data :
              /\ name(data[item]) \in Nat
              /\ \A key \in dcr_amnt(data[item]) \cup dcr_min_amnt(data[item]) : key \in Nat
<1>1. NameSpan \in Nat \ {0} /\ Maxprio \in Nat /\ newname \in Nat
  BY PrioAssumption DEF HeapTyped
<1>2. \A p \in Nat : \A n \in Nat : p * NameSpan + n \in Nat
  BY <1>1
<1>3. \A p \in 0 .. Maxprio - 1 : p * NameSpan + newname \in Nat
  BY <1>1, <1>2
<1>4. ASSUME NEW item \in DOMAIN data, NEW key \in dcr_amnt(data[item]) \cup dcr_min_amnt(data[item])
      PROVE  key \in Nat /\ name(data[item]) \in Nat
  <2>1. PICK x \in Nat, m \in Nat : x = data[item] /\ m = data[1]
    BY DEF HeapTyped
  <2>2. x % NameSpan \in Nat /\ x \div NameSpan \in Nat /\ m \div NameSpan \in Nat
    BY <1>1, <2>1
  <2>3. name(data[item]) = x % NameSpan /\ prio(data[item]) = x \div NameSpan
        /\ prio(data[1]) = m \div NameSpan
    BY <2>1 DEF name, prio
  <2>4. PICK new \in Nat : key = new * NameSpan + name(data[item])
    <3>1. CASE key \in dcr_amnt(data[item])
      <4>1. PICK new \in prio(data[1]) .. IF prio(data[item]) = prio(data[1]) THEN prio(data[1])
                                          ELSE prio(data[item]) - 1 :
              key = new * NameSpan + name(data[item])
        BY <3>1 DEF dcr_amnt
      <4>2. new \in Nat
        BY <2>2, <2>3, <4>1
      <4> QED BY <4>1, <4>2
    <3>2. CASE key \in dcr_min_amnt(data[item])
      <4>1. PICK new : /\ new = IF prio(data[1]) > 0 THEN prio(data[1]) - 1 ELSE 0
                       /\ key = new * NameSpan + name(data[item])
        BY <3>2 DEF dcr_min_amnt
      <4>2. new \in Nat
        BY <2>2, <2>3, <4>1
      <4> QED BY <4>1, <4>2
    <3> QED BY <3>1, <3>2
  <2> QED BY <1>2, <2>2, <2>3, <2>4
<1>5. ASSUME NEW item \in DOMAIN data PROVE name(data[item]) \in Nat
  <2>1. PICK x \in Nat : x = data[item]
    BY DEF HeapTyped
  <2>2. x % NameSpan \in Nat
    BY <1>1
  <2> QED BY <2>1, <2>2 DEF name
<1> QED BY <1>3, <1>4, <1>5

LEMMA HeapStep ==
  ASSUME HeapTyped, NEW key \in Nat
  PROVE  /\ HeapInsert(data, key) \in Seq(Nat) /\ HeapExtractMin(data) \in Seq(Nat)
         /\ \A item \in DOMAIN data : HeapDecreaseKey(data, item, key) \in Seq(Nat)
<1>1. PICK d \in Seq(Nat) : d = data
  BY DEF HeapTyped
<1>2. /\ HeapInsert(d, key) \in Seq(Nat)
      /\ d = <<>> => HeapExtractMin(d) = <<>>
      /\ d # <<>> => HeapExtractMin(d) \in Seq(Nat)
      /\ \A i \in 1 .. Len(d) : HeapDecreaseKey(d, i, key) \in Seq(Nat)
  BY HeapTypes
<1>3. DOMAIN d = 1 .. Len(d) /\ <<>> \in Seq(Nat)
  OBVIOUS
<1> QED BY <1>1, <1>2, <1>3

\* The header is written where there is nothing yet.
LEMMA PlaceholderStep ==
  ASSUME GeneratorIInv, Placeholder
  PROVE  GeneratorIInv'
<1> USE DEF GeneratorIInv
<1>1. TodoInOrder' /\ ~ Fresh' /\ Fresh /\ todo' # <<>>
  BY CallStep DEF Placeholder
<1>2. PICK o \in pq_trace_write_header(trace, header) :
        trace' = o.t /\ failures' = IF o.ok THEN failures ELSE failures + 1
  BY DEF Placeholder, Outcome
<1>3. data' = data /\ newname' = newname /\ header' = header /\ recorded' = recorded
  BY DEF Placeholder
<1>4. /\ WellFormed(trace) /\ Bounded(trace) /\ failures \in Nat /\ header \in Header
      /\ recorded \in Seq(Op)
  BY DEF RecorderTypes
<1>5. /\ trace.file = <<>> /\ trace.offset = 0 /\ trace.buffer = <<>> /\ recorded = <<>>
      /\ header.op_count = Len(recorded)
  BY <1>1 DEF FileCoherent
<1>6. /\ WellFormed(o.t) /\ Bounded(o.t) /\ o.ok \in BOOLEAN
      /\ o.ok => /\ o.t.buffer = <<>> /\ o.t.offset = HeaderLength
                 /\ Len(o.t.file) = HeaderLength /\ Len(o.t.file) >= HeaderLength
  BY <1>4, <1>5, WriteHeaderOutcome
<1>7. RecorderTypes'
  <2>1. failures' \in Nat
    BY <1>2, <1>4, <1>6
  <2> QED BY <1>2, <1>3, <1>4, <1>6, <2>1 DEF RecorderTypes, WellFormed, Bounded
<1>8. o.ok => Contents(o.t) = <<>>
  <2> SUFFICES ASSUME o.ok PROVE Contents(o.t) = <<>>
    OBVIOUS
  <2>1. PICK f \in Seq(Word) : f = o.t.file
    BY <1>6 DEF WellFormed, Trace
  <2>2. PICK b \in Seq(Word) : b = Body(f)
    BY BodyType
  <2>3. Len(b) = IF HeaderLength < Len(f) THEN Len(f) - HeaderLength ELSE 0
    BY <2>2, BodyType
  <2>4. Len(b) = 0
    BY <1>6, <2>1, <2>3, LengthAssumption
  <2>5. b = <<>> /\ <<>> \o <<>> = <<>>
    BY <2>4, EmptySeq
  <2> QED BY <1>6, <2>1, <2>2, <2>5 DEF Contents
<1>9. RecordedWords' = <<>>
  BY <1>3, <1>5 DEF RecordedWords, FlattenSeq
<1>10. Contents(trace)' = Contents(o.t)
  BY <1>2 DEF Contents, Body
<1>11. FileCoherent'
  <2>1. failures' = 0 => o.ok
    BY <1>2, <1>4, <1>6
  <2> QED BY <1>1, <1>2, <1>3, <1>5, <1>6, <1>8, <1>9, <1>10, <2>1 DEF FileCoherent
<1> QED BY <1>1, <1>3, <1>7, <1>11 DEF HeapTyped

\* The header is written over the placeholder, and the buffer is left empty.
LEMMA CloseStep ==
  ASSUME GeneratorIInv, Close
  PROVE  GeneratorIInv'
<1> USE DEF GeneratorIInv
<1>1. TodoInOrder' /\ ~ Fresh' /\ ~ Fresh /\ todo' = <<>> /\ todo # <<>>
  BY CallStep DEF Close
<1>a. PICK o \in pq_trace_write_header(trace, header) : \E p \in pq_trace_flush_buffer(o.t) :
        /\ trace' = p.t
        /\ failures' = failures + (IF o.ok THEN 0 ELSE 1) + (IF p.ok THEN 0 ELSE 1)
  BY DEF Close
<1>2. PICK p \in pq_trace_flush_buffer(o.t) :
        /\ trace' = p.t
        /\ failures' = failures + (IF o.ok THEN 0 ELSE 1) + (IF p.ok THEN 0 ELSE 1)
  BY <1>a
<1>3. data' = data /\ newname' = newname /\ header' = header /\ recorded' = recorded
  BY DEF Close
<1>4. /\ WellFormed(trace) /\ Bounded(trace) /\ failures \in Nat /\ header \in Header
      /\ recorded \in Seq(Op)
  BY DEF RecorderTypes
<1>5. /\ WellFormed(o.t) /\ Bounded(o.t) /\ o.ok \in BOOLEAN
      /\ o.ok => /\ o.t.buffer = <<>> /\ o.t.offset = HeaderLength
                 /\ SubSeq(o.t.file, 1, HeaderLength) = HeaderWords(header)
                 /\ Len(o.t.file) >= HeaderLength
                 /\ trace.offset = Len(trace.file) /\ Len(trace.file) >= HeaderLength =>
                      Contents(o.t) = Contents(trace)
  BY <1>4, WriteHeaderOutcome
<1>6. /\ WellFormed(p.t) /\ p.ok \in BOOLEAN
      /\ p.t.buffer = IF p.ok THEN <<>> ELSE o.t.buffer
      /\ p.ok => p.t.file = Written(o.t, o.t.buffer).file
  BY <1>5, FlushOutcome
<1>7. Bounded(p.t)
  <2>1. Len(<<>>) = 0 /\ Len(o.t.buffer) < PQ_OP_BUFFER_LEN /\ Len(o.t.buffer) \in Nat
    BY <1>5 DEF Bounded, WellFormed, Trace
  <2> QED BY <1>5, <1>6, <2>1, LengthAssumption DEF Bounded
<1>8. RecorderTypes'
  <2>1. failures' \in Nat
    BY <1>2, <1>4, <1>5, <1>6
  <2> QED BY <1>2, <1>3, <1>4, <1>6, <1>7, <2>1 DEF RecorderTypes, WellFormed, Bounded
<1>9. ASSUME o.ok, p.ok PROVE p.t.file = o.t.file /\ Contents(p.t) = Contents(o.t)
  <2>1. PICK f \in Seq(Word) : f = o.t.file /\ o.t.offset \in 0 .. Len(f)
    BY <1>5 DEF WellFormed, Trace
  <2>2. PICK k \in 0 .. Len(f) : k = o.t.offset
    BY <2>1
  <2>3. p.t.file = SubSeq(f, 1, k) \o <<>> \o SubSeq(f, k + Len(<<>>) + 1, Len(f))
    BY <1>5, <1>6, <1>9, <2>1, <2>2 DEF Written, WellFormed, Trace
  <2>4. k + Len(<<>>) + 1 = k + 1
    OBVIOUS
  <2>5. p.t.file = f
    BY <2>3, <2>4, SplitAt
  <2> QED BY <1>5, <1>6, <1>9, <2>1, <2>5 DEF Contents
<1>10. Contents(trace)' = Contents(p.t) /\ RecordedWords' = RecordedWords
  BY <1>2, <1>3 DEF Contents, Body, RecordedWords
<1>11. FileCoherent'
  <2>1. failures' = 0 => o.ok /\ p.ok /\ failures = 0
    BY <1>2, <1>4, <1>5, <1>6
  <2>2. HeaderWords(header)' = HeaderWords(header)
    BY <1>3 DEF HeaderWords
  <2>3. failures = 0 => /\ Len(trace.file) >= HeaderLength /\ Contents(trace) = RecordedWords
                        /\ trace.offset = Len(trace.file)
    BY <1>1 DEF FileCoherent
  <2>4. header'.op_count = Len(recorded')
    BY <1>3 DEF FileCoherent
  <2>5. ASSUME failures' = 0
        PROVE  /\ Len(trace'.file) >= HeaderLength /\ Contents(trace)' = RecordedWords'
               /\ trace'.buffer = <<>>
               /\ SubSeq(trace'.file, 1, HeaderLength) = HeaderWords(header)
    BY <1>2, <1>5, <1>6, <1>9, <1>10, <2>1, <2>3, <2>5
  <2> QED BY <1>1, <2>2, <2>4, <2>5 DEF FileCoherent
<1> QED BY <1>1, <1>3, <1>8, <1>11 DEF HeapTyped

\* A decrease of an item there is not leaves everything as it was.
LEMMA SkipStep ==
  ASSUME GeneratorIInv, NEW c, Call(c), c # "header", c # "close",
         UNCHANGED <<trace, data, newname, header, recorded, failures>>
  PROVE  GeneratorIInv'
<1> USE DEF GeneratorIInv
<1>1. TodoInOrder' /\ ~ Fresh' /\ ~ Fresh /\ todo # <<>> /\ todo' # <<>>
  BY CallStep
<1>2. RecorderTypes' /\ HeapTyped'
  BY DEF RecorderTypes, HeapTyped, WellFormed, Bounded
<1>3. FileCoherent'
  <2>1. Contents(trace)' = Contents(trace) /\ RecordedWords' = RecordedWords
    BY DEF Contents, Body, RecordedWords
  <2> QED BY <1>1, <2>1 DEF FileCoherent
<1> QED BY <1>1, <1>2, <1>3

LEMMA DecreaseStep ==
  ASSUME GeneratorIInv, NEW c, Call(c), c # "header", c # "close",
         NEW item \in DOMAIN data, NEW key \in dcr_amnt(data[item]) \cup dcr_min_amnt(data[item]),
         Decrease(item, key), UNCHANGED newname
  PROVE  GeneratorIInv'
<1> USE DEF GeneratorIInv
<1>1. key \in Nat /\ name(data[item]) \in Nat
  BY KeyTypes
<1>2. PICK op : op = [code |-> "decrease_key", node_id |-> name(data[item]), key |-> key]
  OBVIOUS
<1>3. op \in Op /\ Record(op) /\ data' = HeapDecreaseKey(data, item, key)
  BY <1>1, <1>2 DEF Op, Decrease
<1>4. (RecorderTypes /\ TodoInOrder /\ FileCoherent)'
  BY <1>3, RecordStep
<1>5. HeapTyped'
  BY <1>1, <1>3, HeapStep DEF HeapTyped
<1> QED BY <1>4, <1>5

LEMMA GenerateStep ==
  ASSUME GeneratorIInv, Generate
  PROVE  GeneratorIInv'
<1> USE DEF GeneratorIInv
<1>1. CASE Placeholder
  BY <1>1, PlaceholderStep
<1>2. CASE CreateOrDestroy
  <2>1. PICK c \in {"create", "destroy"} : Call(c) /\ Record([code |-> c]) /\ UNCHANGED <<data, newname>>
    BY <1>2 DEF CreateOrDestroy
  <2>2. [code |-> c] \in Op /\ c # "header" /\ c # "close"
    BY <2>1 DEF Op
  <2>3. (RecorderTypes /\ TodoInOrder /\ FileCoherent)'
    BY <2>1, <2>2, RecordStep
  <2> QED BY <2>1, <2>3 DEF HeapTyped
<1>3. CASE DoInsert
  <2>1. PICK p \in 0 .. Maxprio - 1 :
          /\ data' = HeapInsert(data, p * NameSpan + newname)
          /\ Record([code |-> "insert", node_id |-> newname, key |-> p * NameSpan + newname])
    BY <1>3 DEF DoInsert
  <2>2. PICK key \in Nat : key = p * NameSpan + newname
    BY KeyTypes
  <2>3. PICK op : op = [code |-> "insert", node_id |-> newname, key |-> key]
    OBVIOUS
  <2>4. op \in Op /\ Record(op)
    BY <2>1, <2>2, <2>3 DEF Op, HeapTyped
  <2>5. (RecorderTypes /\ TodoInOrder /\ FileCoherent)'
    BY <1>3, <2>4, RecordStep DEF DoInsert
  <2>6. HeapInsert(data, key) \in Seq(Nat)
    BY HeapStep
  <2>7. newname' \in Nat
    BY <1>3 DEF DoInsert, HeapTyped
  <2> QED BY <2>1, <2>2, <2>5, <2>6, <2>7 DEF HeapTyped
<1>4. CASE DoDecrease
  <2>1. Call("dcr") /\ UNCHANGED newname
    BY <1>4 DEF DoDecrease
  <2>2. ASSUME NEW item \in DOMAIN data, NEW key \in dcr_amnt(data[item]), Decrease(item, key)
        PROVE  GeneratorIInv'
    BY <2>1, <2>2, DecreaseStep
  <2>3. CASE UNCHANGED <<trace, data, header, recorded, failures>>
    BY <2>1, <2>3, SkipStep
  <2> QED BY <1>4, <2>2, <2>3 DEF DoDecrease
<1>5. CASE DoDecreaseMin
  <2>1. Call("dcr_min") /\ UNCHANGED newname
    BY <1>5 DEF DoDecreaseMin
  <2>2. ASSUME NEW item \in DOMAIN data, NEW key \in dcr_min_amnt(data[item]), Decrease(item, key)
        PROVE  GeneratorIInv'
    BY <2>1, <2>2, DecreaseStep
  <2>3. CASE UNCHANGED <<trace, data, header, recorded, failures>>
    BY <2>1, <2>3, SkipStep
  <2> QED BY <1>5, <2>2, <2>3 DEF DoDecreaseMin
<1>6. CASE DoFindMin
  <2>1. [code |-> "find_min"] \in Op
    BY DEF Op
  <2>2. (RecorderTypes /\ TodoInOrder /\ FileCoherent)'
    BY <1>6, <2>1, RecordStep DEF DoFindMin
  <2> QED BY <1>6, <2>2 DEF DoFindMin, HeapTyped
<1>7. CASE DoDeleteMin
  <2>1. [code |-> "delete_min"] \in Op
    BY DEF Op
  <2>2. (RecorderTypes /\ TodoInOrder /\ FileCoherent)'
    BY <1>7, <2>1, RecordStep DEF DoDeleteMin
  <2>3. HeapExtractMin(data) \in Seq(Nat)
    BY HeapStep
  <2> QED BY <1>7, <2>2, <2>3 DEF DoDeleteMin, HeapTyped
<1>8. CASE Close
  BY <1>8, CloseStep
<1> QED BY <1>1, <1>2, <1>3, <1>4, <1>5, <1>6, <1>7, <1>8 DEF Generate

LEMMA UnchangedGenerator ==
  ASSUME GeneratorIInv, UNCHANGED generator
  PROVE  GeneratorIInv'
<1>1. Contents(trace)' = Contents(trace) /\ RecordedWords' = RecordedWords /\ Fresh' = Fresh
      /\ HeaderWords(header)' = HeaderWords(header)
  BY DEF generator, Contents, Body, RecordedWords, Fresh, HeaderWords
<1> QED BY <1>1 DEF generator, GeneratorIInv, RecorderTypes, TodoInOrder, FileCoherent, HeapTyped,
                    WellFormed, Bounded

LEMMA GeneratorInvariant == GeneratorSpec => []GeneratorIInv
<1>1. GeneratorIInv /\ [Generate]_generator => GeneratorIInv'
  BY GenerateStep, UnchangedGenerator
<1> QED BY InitGenerator, <1>1, PTL DEF GeneratorSpec

LEMMA IntactFollows == GeneratorIInv => Intact /\ BufferBounded
<1> SUFFICES ASSUME GeneratorIInv PROVE Intact /\ BufferBounded
  OBVIOUS
<1>1. BufferBounded
  BY DEF GeneratorIInv, RecorderTypes, Bounded, BufferBounded
<1>2. Intact
  <2>1. Contents(trace) = SubSeq(trace.file, HeaderLength + 1, Len(trace.file)) \o trace.buffer
    BY DEF Contents, Body
  <2> QED BY <2>1 DEF GeneratorIInv, FileCoherent, Intact, Fresh
<1> QED BY <1>1, <1>2

-----------------------------------------------------------------------------
(* Whatever the command line asks for and whichever calls of write fall    *)
(* short, the buffer of trace_tools.c does not outgrow its array and       *)
(* starts with a whole operation.                                          *)
THEOREM BufferStaysBounded == GeneratorSpec => []BufferBounded
BY GeneratorInvariant, IntactFollows, PTL

(* As long as no call has failed no operation is lost, doubled or out of   *)
(* order on its way through the buffer to the file, and at the end the     *)
(* file has the header with the counts of what was recorded.               *)
THEOREM TraceIsIntact == GeneratorSpec => []Intact
BY GeneratorInvariant, IntactFollows, PTL

-----------------------------------------------------------------------------
(* What the reader of a trace may rely on: it begins with pq_create and    *)
(* ends with pq_destroy, and the names of the items inserted rise, up to   *)
(* what the header says.                                                   *)
NamesRise ==
  /\ newname \in Nat \ {0} /\ newname <= header.node_ids
  /\ \A j \in 1 .. Len(recorded) :
       recorded[j].code = "insert" =>
         /\ 1 <= recorded[j].node_id /\ recorded[j].node_id < newname
         /\ \A k \in 1 .. j - 1 :
              recorded[k].code = "insert" => recorded[k].node_id < recorded[j].node_id

CreatedFirst ==
  /\ \A j \in 1 .. Len(recorded) : recorded[j].code = "create" => j = 1
  /\ \A i \in 1 .. Len(todo) :
       todo[i] = "create" => recorded = <<>> /\ (i = 1 \/ (i = 2 /\ todo[1] = "header"))

DestroyedLast ==
  /\ \A i \in 1 .. Len(todo) : todo[i] = "destroy" <=> i = Len(todo) - 1
  /\ Len(todo) <= 1 => recorded # <<>> /\ recorded[Len(recorded)].code = "destroy"

RecordedInOrder == NamesRise /\ CreatedFirst /\ DestroyedLast

LEMMA InitRecordedInOrder == Init => RecordedInOrder
<1> SUFFICES ASSUME Init PROVE RecordedInOrder
  OBVIOUS
<1>1. PICK a \in Args : todo = Calls(a)
  BY DEF Init
<1>2. PICK middle \in Seq(Cmd) : todo = <<"header", "create">> \o middle \o <<"destroy", "close">>
  BY <1>1, CallsShape
<1> DEFINE first == <<"header", "create">>
           last == <<"destroy", "close">>
<1>3. /\ first \in Seq(Commands) /\ middle \in Seq(Commands) /\ last \in Seq(Commands)
      /\ Len(first) = 2 /\ first[1] = "header" /\ first[2] = "create"
      /\ Len(last) = 2 /\ last[1] = "destroy" /\ last[2] = "close"
      /\ \A i \in 1 .. Len(middle) : middle[i] \in Cmd
      /\ Len(middle) \in Nat
  BY ElementOfSeq DEF Commands
<1> HIDE DEF first, last
<1>4. PICK s \in Seq(Commands) : s = first \o middle
  BY <1>3, ConcatProperties
<1>5. /\ Len(s) = 2 + Len(middle)
      /\ \A i \in 1 .. 2 + Len(middle) : s[i] = IF i <= 2 THEN first[i] ELSE middle[i - 2]
  <2>1. PICK p \in Seq(Commands), m \in Seq(Commands) : p = first /\ m = middle
    BY <1>3
  <2>2. /\ Len(p \o m) = Len(p) + Len(m)
        /\ \A i \in 1 .. Len(p) + Len(m) : (p \o m)[i] = IF i <= Len(p) THEN p[i] ELSE m[i - Len(p)]
    BY ConcatProperties
  <2> QED BY <1>3, <1>4, <2>1, <2>2
<1>6. todo = s \o last
  BY <1>2, <1>4 DEF first, last
<1>7. /\ Len(todo) = Len(s) + 2
      /\ \A i \in 1 .. Len(s) + 2 : todo[i] = IF i <= Len(s) THEN s[i] ELSE last[i - Len(s)]
  <2>1. PICK l \in Seq(Commands) : l = last
    BY <1>3
  <2>2. /\ Len(s \o l) = Len(s) + Len(l)
        /\ \A i \in 1 .. Len(s) + Len(l) : (s \o l)[i] = IF i <= Len(s) THEN s[i] ELSE l[i - Len(s)]
    BY ConcatProperties
  <2> QED BY <1>3, <1>6, <2>1, <2>2
<1>8. "create" \notin Cmd /\ "destroy" \notin Cmd
  BY DEF Cmd
<1>9. recorded = <<>> /\ Len(recorded) = 0 /\ todo[1] = "header"
  BY <1>3, <1>5, <1>7 DEF Init
<1>10. ASSUME NEW i \in 1 .. Len(todo)
       PROVE  (todo[i] = "destroy" <=> i = Len(todo) - 1) /\ (todo[i] = "create" => i = 2)
  <2>1. CASE i <= 2
    <3>1. todo[i] = first[i] /\ i # Len(todo) - 1
      BY <1>3, <1>5, <1>7, <2>1
    <3> QED BY <1>3, <2>1, <3>1
  <2>2. CASE i > 2 /\ i <= Len(s)
    <3>1. todo[i] = middle[i - 2] /\ i - 2 \in 1 .. Len(middle)
      BY <1>3, <1>5, <1>7, <2>2
    <3> QED BY <1>3, <1>5, <1>7, <1>8, <2>2, <3>1
  <2>3. CASE i > Len(s)
    <3>1. todo[i] = last[i - Len(s)] /\ i - Len(s) \in 1 .. 2
      BY <1>3, <1>5, <1>7, <2>3
    <3> QED BY <1>3, <1>5, <1>7, <2>3, <3>1
  <2> QED BY <1>3, <1>5, <1>7, <2>1, <2>2, <2>3
<1>11. Len(todo) > 1
  BY <1>3, <1>5, <1>7
<1>12. NamesRise
  BY <1>9 DEF Init, NamesRise
<1> QED BY <1>9, <1>10, <1>11, <1>12 DEF RecordedInOrder, CreatedFirst, DestroyedLast

\* The calls that are left once the first is made.
LEMMA CallsLeft ==
  ASSUME TodoInOrder, NEW c, Call(c)
  PROVE  /\ Len(todo) \in Nat \ {0} /\ Len(todo') = Len(todo) - 1 /\ todo[1] = c
         /\ \A i \in 1 .. Len(todo') : todo'[i] = todo[i + 1] /\ i + 1 \in 1 .. Len(todo)
<1>1. PICK t \in Seq(Commands) : t = todo
  BY DEF TodoInOrder
<1>2. t # <<>> /\ t[1] = c /\ todo' = Tail(t)
  BY <1>1 DEF Call
<1>3. PICK u \in Seq(Commands) : u = Tail(t)
  BY <1>2
<1>4. /\ Len(t) \in Nat \ {0} /\ Len(u) = Len(t) - 1
      /\ \A i \in 1 .. Len(u) : u[i] = t[i + 1] /\ i + 1 \in 1 .. Len(t)
  BY <1>2, <1>3
<1> QED BY <1>1, <1>2, <1>3, <1>4

LEMMA Appended ==
  ASSUME NEW S, NEW r \in Seq(S), NEW e \in S, NEW s, s = Append(r, e)
  PROVE  /\ Len(r) \in Nat /\ Len(s) = Len(r) + 1 /\ s[Len(r) + 1] = e
         /\ \A i \in 1 .. Len(r) : s[i] = r[i]
BY AppendProperties

LEMMA BracketSkip ==
  ASSUME TodoInOrder, CreatedFirst, DestroyedLast, NEW c, Call(c),
         recorded' = recorded, c \notin {"create", "destroy"}
  PROVE  CreatedFirst' /\ DestroyedLast'
<1>1. /\ Len(todo) \in Nat \ {0} /\ Len(todo') = Len(todo) - 1 /\ todo[1] = c
      /\ \A i \in 1 .. Len(todo') : todo'[i] = todo[i + 1] /\ i + 1 \in 1 .. Len(todo)
  BY CallsLeft
<1>2. \A i \in 1 .. Len(todo) : (todo[i] = "close" <=> i = Len(todo)) /\ (todo[i] = "header" => i = 1)
  BY DEF TodoInOrder
<1>3. /\ \A j \in 1 .. Len(recorded) : recorded[j].code = "create" => j = 1
      /\ \A i \in 1 .. Len(todo) :
           todo[i] = "create" => recorded = <<>> /\ (i = 1 \/ (i = 2 /\ todo[1] = "header"))
  BY DEF CreatedFirst
<1>4. /\ \A i \in 1 .. Len(todo) : todo[i] = "destroy" <=> i = Len(todo) - 1
      /\ Len(todo) <= 1 => recorded # <<>> /\ recorded[Len(recorded)].code = "destroy"
  BY DEF DestroyedLast
<1>5. \A i \in 1 .. Len(todo') : todo'[i] = "destroy" <=> i = Len(todo') - 1
  BY <1>1, <1>4
<1>6. \A i \in 1 .. Len(todo') : todo'[i] = "create" => recorded = <<>> /\ i = 1 /\ c = "header"
  BY <1>1, <1>3
<1>7. Len(todo) # 2
  BY <1>1, <1>4
<1>8. Len(todo') <= 1 => Len(todo) <= 1
  BY <1>1, <1>7
<1>9. CreatedFirst'
  <2>1. \A i \in 1 .. Len(todo') : todo'[i] = "create" => recorded' = <<>> /\ i = 1
    BY <1>6
  <2>2. \A j \in 1 .. Len(recorded') : recorded'[j].code = "create" => j = 1
    BY <1>3
  <2> QED BY <2>1, <2>2 DEF CreatedFirst
<1>10. DestroyedLast'
  <2>1. Len(todo') <= 1 => recorded' # <<>> /\ recorded'[Len(recorded')].code = "destroy"
    BY <1>4, <1>8
  <2> QED BY <1>5, <2>1 DEF DestroyedLast
<1> QED BY <1>9, <1>10

LEMMA BracketRecord ==
  ASSUME TodoInOrder, recorded \in Seq(Op), CreatedFirst, DestroyedLast, NEW c, Call(c),
         NEW op \in Op, recorded' = Append(recorded, op),
         op.code = "create" <=> c = "create", c = "destroy" => op.code = "destroy",
         c \notin {"header", "close"}
  PROVE  CreatedFirst' /\ DestroyedLast'
<1>1. /\ Len(todo) \in Nat \ {0} /\ Len(todo') = Len(todo) - 1 /\ todo[1] = c
      /\ \A i \in 1 .. Len(todo') : todo'[i] = todo[i + 1] /\ i + 1 \in 1 .. Len(todo)
  BY CallsLeft
<1>2. \A i \in 1 .. Len(todo) : (todo[i] = "close" <=> i = Len(todo)) /\ (todo[i] = "header" => i = 1)
  BY DEF TodoInOrder
<1>3. /\ \A j \in 1 .. Len(recorded) : recorded[j].code = "create" => j = 1
      /\ \A i \in 1 .. Len(todo) :
           todo[i] = "create" => recorded = <<>> /\ (i = 1 \/ (i = 2 /\ todo[1] = "header"))
  BY DEF CreatedFirst
<1>4. /\ \A i \in 1 .. Len(todo) : todo[i] = "destroy" <=> i = Len(todo) - 1
      /\ Len(todo) <= 1 => recorded # <<>> /\ recorded[Len(recorded)].code = "destroy"
  BY DEF DestroyedLast
<1>5. \A i \in 1 .. Len(todo') : todo'[i] = "destroy" <=> i = Len(todo') - 1
  BY <1>1, <1>4
<1>6. \A i \in 1 .. Len(todo') : todo'[i] = "create" => recorded = <<>> /\ i = 1 /\ c = "header"
  BY <1>1, <1>3
<1>7. PICK r \in Seq(Op), s \in Seq(Op) : r = recorded /\ s = Append(r, op) /\ s = recorded'
  BY AppendProperties
<1>8. /\ Len(r) \in Nat /\ Len(s) = Len(r) + 1 /\ s[Len(r) + 1] = op
      /\ \A i \in 1 .. Len(r) : s[i] = r[i]
  BY <1>7, Appended
<1>9. c = "create" => Len(r) = 0
  <2>1. c = "create" => recorded = <<>>
    BY <1>1, <1>3
  <2> QED BY <1>7, <2>1
<1>10. \A j \in 1 .. Len(s) : s[j].code = "create" => j = 1
  BY <1>3, <1>7, <1>8, <1>9
<1>11. \A i \in 1 .. Len(todo') : todo'[i] # "create"
  BY <1>6
<1>12. Len(todo') <= 1 => c = "destroy"
  <2>1. Len(todo) # 1
    BY <1>1, <1>2
  <2>2. Len(todo) = 2 => todo[1] = "destroy"
    BY <1>1, <1>4
  <2> QED BY <1>1, <2>1, <2>2
<1>13. CreatedFirst'
  BY <1>7, <1>10, <1>11 DEF CreatedFirst
<1>14. DestroyedLast'
  <2>1. s # <<>> /\ s[Len(s)] = op
    BY <1>8
  <2> QED BY <1>5, <1>7, <1>12, <2>1 DEF DestroyedLast
<1> QED BY <1>13, <1>14

LEMMA NamesStep ==
  ASSUME recorded \in Seq(Op), header \in Header, NamesRise, NEW op \in Op, Record(op),
         IF op.code = "insert" THEN op.node_id = newname /\ newname' = newname + 1
                               ELSE newname' = newname
  PROVE  NamesRise'
<1>1. PICK r \in Seq(Op), s \in Seq(Op) : r = recorded /\ s = Append(r, op) /\ s = recorded'
  BY AppendProperties DEF Record
<1>2. /\ Len(r) \in Nat /\ Len(s) = Len(r) + 1 /\ s[Len(r) + 1] = op
      /\ \A i \in 1 .. Len(r) : s[i] = r[i]
  <2>1. s = Append(r, op)
    BY <1>1
  <2>2. Len(r) \in Nat /\ Len(s) = Len(r) + 1
    BY ONLY <2>1, r \in Seq(Op), op \in Op, AppendProperties
  <2>3. s[Len(r) + 1] = op /\ \A i \in 1 .. Len(r) : s[i] = r[i]
    BY ONLY <2>1, r \in Seq(Op), op \in Op, AppendProperties
  <2> QED BY <2>2, <2>3
<1> DEFINE Id(q, j) == q[j].node_id
           Ins(q, j) == q[j].code = "insert"
           Rise(q, bound) ==
             \A j \in 1 .. Len(q) :
               Ins(q, j) => /\ 1 <= Id(q, j) /\ Id(q, j) < bound
                            /\ \A k \in 1 .. j - 1 : Ins(q, k) => Id(q, k) < Id(q, j)
<1>3. \A j \in 1 .. Len(s) : Ins(s, j) => Id(s, j) \in Nat
  <2>1. \A j \in 1 .. Len(s) : s[j] \in Op
    BY <1>1, ElementOfSeq
  <2> QED BY <2>1 DEF Op
<1>4. newname \in Nat \ {0} /\ newname' \in Nat \ {0} /\ newname' >= newname
  BY DEF NamesRise
<1>5. Rise(r, newname)
  BY <1>1 DEF NamesRise
<1>6. Rise(s, newname')
  <2> SUFFICES ASSUME NEW j \in 1 .. Len(s), Ins(s, j)
               PROVE  /\ 1 <= Id(s, j) /\ Id(s, j) < newname'
                      /\ \A k \in 1 .. j - 1 : Ins(s, k) => Id(s, k) < Id(s, j)
    OBVIOUS
  <2>1. CASE j <= Len(r)
    <3>1. \A k \in 1 .. j : k \in 1 .. Len(r) /\ Ins(s, k) = Ins(r, k) /\ Id(s, k) = Id(r, k)
      BY <1>2, <2>1
    <3> HIDE DEF Ins, Id
    <3>2. j \in 1 .. Len(r) /\ Ins(r, j)
      BY <1>2, <2>1, <3>1
    <3>3. /\ 1 <= Id(r, j) /\ Id(r, j) < newname
          /\ \A k \in 1 .. j - 1 : Ins(r, k) => Id(r, k) < Id(r, j)
      BY <1>5, <3>2
    <3> QED BY <1>2, <1>3, <1>4, <3>1, <3>2, <3>3
  <2>2. CASE j > Len(r)
    <3>1. j = Len(r) + 1 /\ Id(s, j) = newname /\ newname' = newname + 1
      BY <1>2, <2>2
    <3>2. \A k \in 1 .. j - 1 : k \in 1 .. Len(r) /\ Ins(s, k) = Ins(r, k) /\ Id(s, k) = Id(r, k)
      BY <1>2, <3>1
    <3> HIDE DEF Ins, Id
    <3> QED BY <1>4, <1>5, <3>1, <3>2
  <2> QED BY <1>2, <2>1, <2>2
<1>7. newname' <= header'.node_ids
  <2>1. PICK k \in Nat : k = IF op.code = "insert" THEN 1 ELSE 0
    OBVIOUS
  <2>2. header' = [header EXCEPT !.op_count = header.op_count + 1, !.node_ids = header.node_ids + k]
    BY <2>1 DEF Record
  <2>3. header'.node_ids = header.node_ids + k /\ header.node_ids \in Nat
    BY <2>2 DEF Header
  <2>4. newname' = newname + k
    BY <1>4, <2>1
  <2> QED BY <1>4, <2>3, <2>4 DEF NamesRise
<1> QED BY <1>1, <1>4, <1>6, <1>7 DEF NamesRise

LEMMA RecordedInOrderStep ==
  ASSUME GeneratorIInv, RecordedInOrder, Generate
  PROVE  RecordedInOrder'
<1> USE DEF RecordedInOrder
<1>0. TodoInOrder /\ recorded \in Seq(Op) /\ header \in Header /\ HeapTyped
  BY DEF GeneratorIInv, RecorderTypes
<1>1. ASSUME NEW c, Call(c), c \notin {"create", "destroy"},
             recorded' = recorded, header' = header, newname' = newname
      PROVE  RecordedInOrder'
  <2>1. CreatedFirst' /\ DestroyedLast'
    BY <1>0, <1>1, BracketSkip
  <2> QED BY <1>1, <2>1 DEF NamesRise
<1>2. ASSUME NEW c, Call(c), c \notin {"header", "close"}, NEW op \in Op, Record(op),
             op.code = "create" <=> c = "create", c = "destroy" => op.code = "destroy",
             IF op.code = "insert" THEN op.node_id = newname /\ newname' = newname + 1
                                   ELSE newname' = newname
      PROVE  RecordedInOrder'
  <2>1. recorded' = Append(recorded, op)
    BY <1>2 DEF Record
  <2>2. CreatedFirst' /\ DestroyedLast'
    BY <1>0, <1>2, <2>1, BracketRecord
  <2>3. NamesRise'
    BY <1>0, <1>2, NamesStep
  <2> QED BY <2>2, <2>3
<1>3. CASE Placeholder
  BY <1>1, <1>3 DEF Placeholder
<1>4. CASE CreateOrDestroy
  <2>1. PICK c \in {"create", "destroy"} : Call(c) /\ Record([code |-> c]) /\ newname' = newname
    BY <1>4 DEF CreateOrDestroy
  <2>2. PICK op : op = [code |-> c]
    OBVIOUS
  <2>3. op \in Op /\ op.code = c
    BY <2>2 DEF Op
  <2> QED BY <1>2, <2>1, <2>2, <2>3
<1>5. CASE DoInsert
  <2>1. PICK p \in 0 .. Maxprio - 1 :
          Record([code |-> "insert", node_id |-> newname, key |-> p * NameSpan + newname])
    BY <1>5 DEF DoInsert
  <2>2. PICK key \in Nat : key = p * NameSpan + newname
    BY <1>0, KeyTypes
  <2>3. PICK op : op = [code |-> "insert", node_id |-> newname, key |-> key]
    OBVIOUS
  <2>4. op \in Op /\ op.code = "insert" /\ op.node_id = newname /\ Record(op)
    BY <1>0, <2>1, <2>2, <2>3 DEF Op, HeapTyped
  <2>5. Call("ins") /\ newname' = newname + 1
    BY <1>5 DEF DoInsert
  <2> QED BY <1>2, <2>4, <2>5
<1>6. ASSUME NEW c \in {"dcr", "dcr_min"}, Call(c), newname' = newname, NEW item \in DOMAIN data,
             NEW key \in dcr_amnt(data[item]) \cup dcr_min_amnt(data[item]), Decrease(item, key)
      PROVE  RecordedInOrder'
  <2>1. key \in Nat /\ name(data[item]) \in Nat
    BY <1>0, KeyTypes
  <2>2. PICK op : op = [code |-> "decrease_key", node_id |-> name(data[item]), key |-> key]
    OBVIOUS
  <2>3. op \in Op /\ op.code = "decrease_key" /\ Record(op)
    BY <1>6, <2>1, <2>2 DEF Op, Decrease
  <2> QED BY <1>2, <1>6, <2>3
<1>7. CASE DoDecrease
  BY <1>1, <1>6, <1>7 DEF DoDecrease
<1>8. CASE DoDecreaseMin
  BY <1>1, <1>6, <1>8 DEF DoDecreaseMin
<1>9. CASE DoFindMin
  <2>1. PICK op : op = [code |-> "find_min"]
    OBVIOUS
  <2>2. op \in Op /\ op.code = "find_min"
    BY <2>1 DEF Op
  <2> QED BY <1>2, <1>9, <2>1, <2>2 DEF DoFindMin
<1>10. CASE DoDeleteMin
  <2>1. PICK op : op = [code |-> "delete_min"]
    OBVIOUS
  <2>2. op \in Op /\ op.code = "delete_min"
    BY <2>1 DEF Op
  <2> QED BY <1>2, <1>10, <2>1, <2>2 DEF DoDeleteMin
<1>11. CASE Close
  BY <1>1, <1>11 DEF Close
<1> QED BY <1>3, <1>4, <1>5, <1>7, <1>8, <1>9, <1>10, <1>11 DEF Generate

LEMMA RecordedStaysInOrder == GeneratorSpec => []RecordedInOrder
<1>1. GeneratorIInv /\ RecordedInOrder /\ [Generate]_generator => RecordedInOrder'
  <2> SUFFICES ASSUME GeneratorIInv, RecordedInOrder, [Generate]_generator PROVE RecordedInOrder'
    OBVIOUS
  <2>1. CASE Generate
    BY <2>1, RecordedInOrderStep
  <2>2. CASE UNCHANGED generator
    BY <2>2 DEF generator, RecordedInOrder, NamesRise, CreatedFirst, DestroyedLast
  <2> QED BY <2>1, <2>2
<1> QED BY InitRecordedInOrder, GeneratorInvariant, <1>1, PTL DEF GeneratorSpec

-----------------------------------------------------------------------------
(* Keys.                                                                   *)

LEMMA KeyParts ==
  ASSUME NEW p \in Nat, NEW b \in 0 .. NameSpan - 1
  PROVE  prio(p * NameSpan + b) = p /\ name(p * NameSpan + b) = b /\ p * NameSpan + b \in Nat
BY PrioAssumption, Z3 DEF prio, name

LEMMA KeyWhole ==
  ASSUME NEW v \in Nat
  PROVE  /\ v = prio(v) * NameSpan + name(v)
         /\ prio(v) \in Nat /\ name(v) \in 0 .. NameSpan - 1 /\ name(v) \in Nat
BY PrioAssumption, Z3 DEF prio, name

\* A key of the same name with no greater a priority is no greater.
LEMMA KeyLowered ==
  ASSUME NEW v \in Nat, NEW new \in Nat, new <= prio(v)
  PROVE  /\ new * NameSpan + name(v) \in Nat /\ new * NameSpan + name(v) <= v
         /\ name(new * NameSpan + name(v)) = name(v)
<1>1. PICK p \in Nat, b \in 0 .. NameSpan - 1 : p = prio(v) /\ b = name(v) /\ v = p * NameSpan + b
  BY KeyWhole
<1>2. name(new * NameSpan + b) = b /\ new * NameSpan + b \in Nat
  BY KeyParts
<1>3. new * NameSpan <= p * NameSpan
  <2>1. new <= p
    BY <1>1
  <2> QED BY <2>1, PrioAssumption, Z3
<1>4. new * NameSpan \in Nat /\ p * NameSpan \in Nat
  BY PrioAssumption
<1> QED BY <1>1, <1>2, <1>3, <1>4

LEMMA PrioOrder ==
  ASSUME NEW v \in Nat, NEW w \in Nat, v <= w
  PROVE  prio(v) <= prio(w)
BY PrioAssumption, Z3 DEF prio

-----------------------------------------------------------------------------
(* The heap of the generator.                                              *)

Halves == [c \in Nat |-> c \div 2]

IsBinaryHeap(d) == d \in Seq(Nat) /\ Ordered(d, Len(d), Halves)

LEMMA HalvesTree ==
  ASSUME NEW n \in Nat
  PROVE  Tree(Halves, n)
<1>1. ASSUME NEW c \in 2 .. n PROVE c \div 2 \in 1 .. n /\ c \div 2 < c
  BY Z3
<1> QED BY <1>1 DEF Tree, Halves

(* The first cell has a least key.                                         *)
LEMMA LeastFirst ==
  ASSUME NEW d, IsBinaryHeap(d), NEW v \in Values(d)
  PROVE  d # <<>> /\ d[1] \in Nat /\ v \in Nat /\ d[1] <= v
<1>1. d \in Seq(Nat) /\ Len(d) \in Nat /\ Ordered(d, Len(d), Halves) /\ Tree(Halves, Len(d))
  BY HalvesTree DEF IsBinaryHeap
<1>2. PICK c \in 1 .. Len(d) : v = d[c]
  BY DEF Values
<1>3. d \in [1 .. Len(d) -> Nat]
  BY <1>1
<1>4. d[1] <= d[c]
  BY <1>1, <1>3, RootLeast
<1>5. 1 \in 1 .. Len(d)
  BY <1>1
<1> QED BY <1>1, <1>2, <1>3, <1>4, <1>5

LEMMA MoveUpSifts ==
  ASSUME NEW d \in Seq(Nat), NEW key \in Nat
  PROVE  Sifts([j \in 1 .. Len(d) |-> MoveUp(d, j, key)], Len(d), d, key, Halves,
               Above(d, Halves, key, Len(d)))
<1>1. PICK n \in Nat : n = Len(d)
  OBVIOUS
<1> DEFINE f == [j \in 1 .. n |-> MoveUp(d, j, key)]
<1>2. SUFFICES ASSUME NEW j \in 1 .. n
               PROVE  f[j] = IF j \in Above(d, Halves, key, n) THEN [d EXCEPT ![j] = key]
                             ELSE [f[Halves[j]] EXCEPT ![j] = d[Halves[j]]]
  BY <1>1 DEF Sifts
<1>3. /\ j > 1 => j \div 2 \in 1 .. n
      /\ MoveUp(d, j, key) = IF j > 1 /\ d[j \div 2] > key
                             THEN [MoveUp(d, j \div 2, key) EXCEPT ![j] = d[j \div 2]]
                             ELSE [d EXCEPT ![j] = key]
  BY <1>1, MoveUpStep, Zenon
<1>4. Halves[j] = j \div 2
  BY DEF Halves
<1>5. j \in Above(d, Halves, key, n) <=> ~ (j > 1 /\ d[j \div 2] > key)
  BY <1>4 DEF Above
<1>6. f[j] = MoveUp(d, j, key)
  OBVIOUS
<1>7. j > 1 => f[j \div 2] = MoveUp(d, j \div 2, key)
  BY <1>3
<1> HIDE DEF f
<1> QED BY <1>3, <1>4, <1>5, <1>6, <1>7

LEMMA HeapInsertKeys ==
  ASSUME NEW d, IsBinaryHeap(d), NEW key \in Nat
  PROVE  /\ IsBinaryHeap(HeapInsert(d, key))
         /\ Values(HeapInsert(d, key)) = Values(d) \cup {key}
         /\ Distinct(d) /\ key \notin Values(d) => Distinct(HeapInsert(d, key))
<1>1. d \in Seq(Nat) /\ Len(d) \in Nat /\ Ordered(d, Len(d), Halves)
  BY DEF IsBinaryHeap
<1>2. PICK n \in Nat : n = Len(d) + 1 /\ n - 1 = Len(d) /\ n \in 1 .. n
  BY <1>1
<1>3. PICK e \in Seq(Nat) : e = Append(d, key) /\ Len(e) = n
  BY <1>1, <1>2, AppendProperties
<1>4. PICK f : f = [j \in 1 .. n |-> MoveUp(e, j, key)]
  OBVIOUS
<1>5. Sifts(f, n, e, key, Halves, Above(e, Halves, key, n))
  BY <1>3, <1>4, MoveUpSifts
<1>6. Pushes(f, d, key, Halves, n, e)
  <2>1. Tree(Halves, n) /\ Ordered(d, n - 1, Halves)
    BY <1>1, <1>2, HalvesTree
  <2> QED BY <1>1, <1>2, <1>3, <1>5, <2>1 DEF Pushes
<1>7. /\ f[n] \in Seq(Nat) /\ Len(f[n]) = n /\ Ordered(f[n], n, Halves)
      /\ Values(f[n]) = Values(d) \cup {key}
      /\ Distinct(d) /\ key \notin Values(d) => Distinct(f[n])
  BY ONLY <1>6, PushedHeap
<1>8. HeapInsert(d, key) = f[n]
  BY <1>2, <1>3, <1>4 DEF HeapInsert
<1> QED BY <1>7, <1>8 DEF IsBinaryHeap

LEMMA HeapDecreaseKeys ==
  ASSUME NEW d, IsBinaryHeap(d), NEW item \in 1 .. Len(d), NEW key \in Nat, key <= d[item]
  PROVE  /\ IsBinaryHeap(HeapDecreaseKey(d, item, key))
         /\ Distinct(d) => Values(HeapDecreaseKey(d, item, key)) = (Values(d) \ {d[item]}) \cup {key}
         /\ Distinct(d) /\ key \notin Values(d) \ {d[item]} => Distinct(HeapDecreaseKey(d, item, key))
<1>1. PICK n \in Nat : n = Len(d) /\ d \in Seq(Nat) /\ Ordered(d, n, Halves) /\ item \in 1 .. n
  BY DEF IsBinaryHeap
<1>2. PICK f : f = [j \in 1 .. n |-> MoveUp(d, j, key)]
  OBVIOUS
<1>3. Sifts(f, n, d, key, Halves, Above(d, Halves, key, n))
  BY <1>1, <1>2, MoveUpSifts
<1>4. Lowers(f, d, item, key, Halves, n)
  <2>1. Tree(Halves, n)
    BY HalvesTree
  <2> QED BY <1>1, <1>3, <2>1 DEF Lowers
<1>5. /\ f[item] \in Seq(Nat) /\ Len(f[item]) = n /\ Ordered(f[item], n, Halves)
      /\ Distinct(d) => Values(f[item]) = (Values(d) \ {d[item]}) \cup {key}
      /\ Distinct(d) /\ key \notin Values(d) \ {d[item]} => Distinct(f[item])
  BY ONLY <1>4, LoweredHeap
<1>6. HeapDecreaseKey(d, item, key) = f[item]
  <2>1. ~ (d[item] < key)
    <3>1. d[item] \in Nat
      BY <1>1, ElementOfSeq
    <3> QED BY <3>1
  <2> QED BY <1>1, <1>2, <2>1 DEF HeapDecreaseKey
<1> QED BY <1>5, <1>6 DEF IsBinaryHeap

LEMMA HeapifyPops ==
  ASSUME NEW d, IsBinaryHeap(d), NEW n \in Nat \ {0}, Len(d) = n + 1,
         NEW e \in [1 .. n -> Nat], e[1] = d[n + 1], \A k \in 2 .. n : e[k] = d[k]
  PROVE  /\ IsBinaryHeap(Heapify(e, 1))
         /\ Distinct(d) => Values(Heapify(e, 1)) = Values(d) \ {d[1]} /\ Distinct(Heapify(e, 1))
<1>1. /\ e \in Seq(Nat) /\ Len(e) = n /\ 1 \in 1 .. n /\ 1 \in 1 .. Len(e)
      /\ d \in Seq(Nat) /\ Ordered(d, n + 1, Halves)
  BY SeqOfFunction DEF IsBinaryHeap
<1>2. PICK key \in Nat : key = e[1]
  BY <1>1
<1>3. PICK f : Heapifies(f, e, 1, key)
  <2>1. PICK a, i : a \in Seq(Nat) /\ i \in 1 .. Len(a) /\ a = e /\ i = 1 /\ key = a[i]
    BY <1>1, <1>2
  <2>2. \E f : Heapifies(f, a, i, key)
    BY <2>1, HeapifyStep, Zenon
  <2> QED BY <2>1, <2>2
<1>4. PICK next : next = [j \in 1 .. n |-> Smallest(e, j, key)]
  OBVIOUS
<1>5. PICK Stop : Stop = {j \in 1 .. n : next[j] = j}
  OBVIOUS
<1>6. \A j \in 1 .. n : next[j] = Smallest(e, j, key)
  BY <1>4
<1>7. Sifts(f, n, e, e[1], next, Stop)
  <2> SUFFICES ASSUME NEW j \in 1 .. n
               PROVE  f[j] = IF j \in Stop THEN [e EXCEPT ![j] = key]
                             ELSE [f[next[j]] EXCEPT ![j] = e[next[j]]]
    BY <1>2 DEF Sifts
  <2>1. f[j] = IF Smallest(e, j, key) = j THEN [e EXCEPT ![j] = key]
               ELSE [f[Smallest(e, j, key)] EXCEPT ![j] = e[Smallest(e, j, key)]]
    BY <1>1, <1>3 DEF Heapifies
  <2>2. next[j] = Smallest(e, j, key) /\ (j \in Stop <=> next[j] = j)
    BY <1>5, <1>6
  <2> QED BY <2>1, <2>2
<1> DEFINE Held(j, c) == IF c = j THEN key ELSE e[c]
<1>8. \A j \in 1 .. n : /\ next[j] \in {j, 2 * j, 2 * j + 1} \cap (1 .. n)
                        /\ \A c \in {j, 2 * j, 2 * j + 1} \cap (1 .. n) : Held(j, next[j]) <= Held(j, c)
  <2> SUFFICES ASSUME NEW j \in 1 .. n
               PROVE  /\ next[j] \in {j, 2 * j, 2 * j + 1} \cap (1 .. n)
                      /\ \A c \in {j, 2 * j, 2 * j + 1} \cap (1 .. n) : Held(j, next[j]) <= Held(j, c)
    OBVIOUS
  <2>1. j \in 1 .. Len(e)
    BY <1>1
  <2>2. LET H(c) == IF c = j THEN key ELSE e[c]
        IN  /\ Smallest(e, j, key) \in {j, 2 * j, 2 * j + 1} \cap (1 .. Len(e))
            /\ \A x \in {j, 2 * j, 2 * j + 1} \cap (1 .. Len(e)) : H(Smallest(e, j, key)) <= H(x)
    BY <1>1, <2>1, SmallestFound, Zenon
  <2> QED BY <1>1, <1>6, <2>2
<1>9. \A j \in (1 .. n) \ Stop : next[j] \in 2 .. n /\ Halves[next[j]] = j /\ e[next[j]] <= e[1]
  <2> SUFFICES ASSUME NEW j \in (1 .. n) \ Stop
               PROVE  next[j] \in 2 .. n /\ Halves[next[j]] = j /\ e[next[j]] <= e[1]
    OBVIOUS
  <2>1. next[j] # j /\ next[j] \in {2 * j, 2 * j + 1} /\ next[j] \in 1 .. n
    BY <1>5, <1>8
  <2>2. next[j] \div 2 = j
    <3> HIDE DEF Held
    <3>1. (2 * j) \div 2 = j /\ (2 * j + 1) \div 2 = j
      BY Z3
    <3> QED BY <2>1, <3>1
  <2>3. Held(j, next[j]) <= Held(j, j)
    <3> HIDE DEF Held
    <3>1. j \in {j, 2 * j, 2 * j + 1} \cap (1 .. n)
      OBVIOUS
    <3> QED BY <1>8, <3>1, Zenon
  <2>4. next[j] \in 2 .. n
    BY <2>1
  <2> QED BY <1>2, <2>1, <2>2, <2>3, <2>4 DEF Halves
<1>10. \A c \in 2 .. n : IF Halves[c] \in Stop THEN e[1] <= e[c] ELSE e[next[Halves[c]]] <= e[c]
  <2> SUFFICES ASSUME NEW c \in 2 .. n
               PROVE  IF Halves[c] \in Stop THEN e[1] <= e[c] ELSE e[next[Halves[c]]] <= e[c]
    OBVIOUS
  <2>1. PICK j \in 1 .. n : j = Halves[c] /\ c \in {2 * j, 2 * j + 1} /\ c # j
    <3>1. PICK h : h = c \div 2 /\ h \in 1 .. n /\ c \in {2 * h, 2 * h + 1} /\ c # h
      <4>1. c \div 2 \in 1 .. n /\ c \in {2 * (c \div 2), 2 * (c \div 2) + 1} /\ c # c \div 2
        BY Z3
      <4> QED BY <4>1
    <3>2. Halves[c] = c \div 2
      BY DEF Halves
    <3> QED BY <3>1, <3>2
  <2>2. Held(j, next[j]) <= Held(j, c)
    <3> HIDE DEF Held
    <3>1. c \in {j, 2 * j, 2 * j + 1} \cap (1 .. n)
      BY <2>1
    <3> QED BY <1>8, <3>1, Zenon
  <2>3. j \in Stop <=> next[j] = j
    BY <1>5
  <2> QED BY <1>2, <2>1, <2>2, <2>3
<1>11. Pops(f, d, Halves, n, e, next, Stop)
  <2>1. Tree(Halves, n + 1)
    BY HalvesTree
  <2> QED BY <1>1, <1>7, <1>9, <1>10, <2>1 DEF Pops
<1>12. /\ f[1] \in Seq(Nat) /\ Len(f[1]) = n /\ Ordered(f[1], n, Halves)
       /\ Distinct(d) => Values(f[1]) = Values(d) \ {d[1]} /\ Distinct(f[1])
  BY ONLY <1>11, PoppedHeap
<1> QED BY <1>3, <1>12 DEF IsBinaryHeap, Heapifies

LEMMA HeapExtractKeys ==
  ASSUME NEW d, IsBinaryHeap(d), d # <<>>, Distinct(d)
  PROVE  /\ IsBinaryHeap(HeapExtractMin(d)) /\ Distinct(HeapExtractMin(d))
         /\ Values(HeapExtractMin(d)) = Values(d) \ {d[1]}
<1>1. d \in Seq(Nat) /\ Len(d) \in Nat \ {0} /\ Ordered(d, Len(d), Halves)
  BY DEF IsBinaryHeap
<1>2. PICK n \in Nat : n = Len(d) - 1 /\ n + 1 = Len(d) /\ 1 \in 1 .. n + 1
  BY <1>1
<1>3. PICK rest : rest = Front([d EXCEPT ![1] = Last(d)])
  OBVIOUS
<1>4. /\ rest \in Seq(Nat) /\ Len(rest) = n
      /\ \A k \in 1 .. n : rest[k] = IF k = 1 THEN d[n + 1] ELSE d[k]
  <2>1. PICK last \in Nat : last = Last(d) /\ last = d[n + 1]
    BY <1>1, <1>2, ElementOfSeq DEF Last
  <2>2. PICK e \in Seq(Nat) : /\ e = [d EXCEPT ![1] = last] /\ Len(e) = n + 1
                              /\ \A k \in 1 .. n + 1 : e[k] = IF k = 1 THEN last ELSE d[k]
    <3>1. [d EXCEPT ![1] = last] \in Seq(Nat) /\ Len([d EXCEPT ![1] = last]) = Len(d)
      BY <1>1, <1>2, ExceptSeq
    <3>2. \A k \in 1 .. n + 1 : [d EXCEPT ![1] = last][k] = IF k = 1 THEN last ELSE d[k]
      BY <1>1, <1>2
    <3> QED BY <1>2, <3>1, <3>2
  <2>3. rest = SubSeq(e, 1, n)
    <3>1. Len(e) - 1 = n
      BY <1>2, <2>2
    <3> QED BY <1>3, <2>1, <2>2, <3>1 DEF Front
  <2>4. /\ SubSeq(e, 1, n) \in Seq(Nat) /\ Len(SubSeq(e, 1, n)) = n
        /\ \A k \in 1 .. n : SubSeq(e, 1, n)[k] = e[k]
    BY <2>2
  <2> QED BY <2>1, <2>2, <2>3, <2>4
<1>5. HeapExtractMin(d) = Heapify(rest, 1)
  BY <1>3 DEF HeapExtractMin
<1>6. CASE n = 0
  <2>1. rest = <<>> /\ Heapify(rest, 1) = <<>>
    BY <1>4, <1>6, EmptySeq DEF Heapify
  <2>2. Values(d) = {d[1]}
    BY <1>2, <1>6 DEF Values
  <2>3. PICK none : none = <<>> /\ none \in Seq(Nat) /\ Len(none) = 0
    <3>1. <<>> \in Seq(Nat) /\ Len(<<>>) = 0
      OBVIOUS
    <3> QED BY <3>1
  <2>4. IsBinaryHeap(none) /\ Values(none) = {} /\ Distinct(none)
    BY <2>3 DEF IsBinaryHeap, Ordered, Values, Distinct
  <2> QED BY <1>5, <2>1, <2>2, <2>3, <2>4
<1>7. CASE n # 0
  <2>1. PICK e \in [1 .. n -> Nat] : e = rest /\ e[1] = d[n + 1] /\ \A k \in 2 .. n : e[k] = d[k]
    BY <1>4, <1>7
  <2>2. /\ IsBinaryHeap(Heapify(e, 1))
        /\ Distinct(d) => Values(Heapify(e, 1)) = Values(d) \ {d[1]} /\ Distinct(Heapify(e, 1))
    BY <1>2, <1>7, <2>1, HeapifyPops
  <2> QED BY <1>5, <2>1, <2>2
<1> QED BY <1>6, <1>7

(* A key that DoDecrease or DoDecreaseMin gives an item is no greater than *)
(* the one it has, and has its name.                                       *)
LEMMA KeysLowered ==
  ASSUME IsBinaryHeap(data), NEW item \in DOMAIN data,
         NEW key \in dcr_amnt(data[item]) \cup dcr_min_amnt(data[item])
  PROVE  /\ data[item] \in Values(data) /\ data[item] \in Nat /\ item \in 1 .. Len(data)
         /\ key \in Nat /\ key <= data[item] /\ name(key) = name(data[item])
<1>1. data[item] \in Values(data) /\ item \in 1 .. Len(data)
  BY DEF IsBinaryHeap, Values
<1>2. PICK v \in Nat, least \in Nat : v = data[item] /\ least = data[1] /\ least <= v
  BY <1>1, LeastFirst
<1>3. prio(least) \in Nat /\ prio(v) \in Nat /\ prio(least) <= prio(v)
  <2>1. prio(least) <= prio(v)
    BY <1>2, PrioOrder, Zenon
  <2> QED BY <2>1, KeyWhole
<1>4. PICK new \in Nat : new <= prio(v) /\ key = new * NameSpan + name(v)
  <2>1. CASE key \in dcr_amnt(data[item])
    <3>1. PICK new \in prio(least) .. IF prio(v) = prio(least) THEN prio(least) ELSE prio(v) - 1 :
            key = new * NameSpan + name(v)
      BY <1>2, <2>1 DEF dcr_amnt
    <3> QED BY <1>3, <3>1
  <2>2. CASE key \in dcr_min_amnt(data[item])
    <3>1. PICK new : /\ new = IF prio(least) > 0 THEN prio(least) - 1 ELSE 0
                     /\ key = new * NameSpan + name(v)
      BY <1>2, <2>2 DEF dcr_min_amnt
    <3> QED BY <1>3, <3>1
  <2> QED BY <2>1, <2>2
<1>5. /\ new * NameSpan + name(v) \in Nat /\ new * NameSpan + name(v) <= v
      /\ name(new * NameSpan + name(v)) = name(v)
  BY <1>4, KeyLowered
<1> QED BY <1>1, <1>2, <1>4, <1>5

-----------------------------------------------------------------------------
(* The names there are.  Of the calls of main m are made, and of these the *)
(* insertions took a name each.                                            *)
Insertions(calls, m) == {i \in 1 .. m : calls[i] = "ins"}

CallsMade(calls, m) ==
  /\ m <= Len(calls) /\ Len(todo) = Len(calls) - m
  /\ \A i \in 1 .. Len(todo) : todo[i] = calls[m + i]
  /\ newname = 1 + Cardinality(Insertions(calls, m))

NamesLeft == \E a \in Args : \E m \in Nat : CallsMade(Calls(a), m)

LEMMA CallsType ==
  ASSUME NEW a \in Args
  PROVE  Calls(a) \in Seq(Commands)
<1>1. PICK middle \in Seq(Cmd) : Calls(a) = (<<"header", "create">> \o middle) \o <<"destroy", "close">>
  BY CallsShape
<1>2. /\ <<"header", "create">> \in Seq(Commands) /\ <<"destroy", "close">> \in Seq(Commands)
      /\ middle \in Seq(Commands)
  BY SeqMonotonic DEF Commands
<1>3. PICK s \in Seq(Commands) : s = <<"header", "create">> \o middle
  BY <1>2, ConcatProperties
<1> QED BY <1>1, <1>2, <1>3, ConcatProperties

LEMMA InsertionsFinite ==
  ASSUME NEW calls, NEW m \in Nat
  PROVE  /\ IsFiniteSet(Insertions(calls, m)) /\ Cardinality(Insertions(calls, m)) \in Nat
         /\ Cardinality(Insertions(calls, m + 1)) =
              Cardinality(Insertions(calls, m)) + IF calls[m + 1] = "ins" THEN 1 ELSE 0
<1>1. IsFiniteSet(1 .. m)
  BY FS_Interval
<1>2. Insertions(calls, m) \subseteq 1 .. m
  BY DEF Insertions
<1>3. IsFiniteSet(Insertions(calls, m))
  BY <1>1, <1>2, FS_Subset
<1>4. Cardinality(Insertions(calls, m)) \in Nat
  BY <1>3, FS_CardinalityType
<1>5. m + 1 \notin Insertions(calls, m)
  BY DEF Insertions
<1>6. Insertions(calls, m + 1) =
        IF calls[m + 1] = "ins" THEN Insertions(calls, m) \cup {m + 1} ELSE Insertions(calls, m)
  BY DEF Insertions
<1>7. Cardinality(Insertions(calls, m) \cup {m + 1}) = Cardinality(Insertions(calls, m)) + 1
  BY <1>3, <1>5, FS_AddElement
<1> QED BY <1>3, <1>4, <1>6, <1>7

LEMMA InitNames == Init => NamesLeft
<1> SUFFICES ASSUME Init PROVE NamesLeft
  OBVIOUS
<1>1. PICK a \in Args : todo = Calls(a)
  BY DEF Init
<1>2. PICK calls \in Seq(Commands) : calls = Calls(a)
  BY <1>1, CallsType
<1>3. Insertions(calls, 0) = {}
  BY DEF Insertions
<1>4. Cardinality(Insertions(calls, 0)) = 0
  BY <1>3, FS_EmptySet
<1>5. CallsMade(calls, 0)
  <2>1. Len(calls) \in Nat
    OBVIOUS
  <2> QED BY <1>1, <1>2, <1>4, <2>1 DEF CallsMade, Init
<1> QED BY <1>2, <1>5 DEF NamesLeft

LEMMA NamesCall ==
  ASSUME TodoInOrder, NamesLeft, NEW c, Call(c),
         newname' = newname + IF c = "ins" THEN 1 ELSE 0
  PROVE  NamesLeft' /\ (c = "ins" => newname \in 1 .. NameSpan - 1)
<1>1. PICK a \in Args, m \in Nat : CallsMade(Calls(a), m)
  BY DEF NamesLeft
<1>2. PICK calls \in Seq(Commands) : calls = Calls(a)
  BY CallsType
<1>3. /\ m <= Len(calls) /\ Len(todo) = Len(calls) - m
      /\ \A i \in 1 .. Len(todo) : todo[i] = calls[m + i]
      /\ newname = 1 + Cardinality(Insertions(calls, m))
  BY <1>1, <1>2 DEF CallsMade
<1>4. /\ Len(todo) \in Nat \ {0} /\ Len(todo') = Len(todo) - 1 /\ todo[1] = c
      /\ \A i \in 1 .. Len(todo') : todo'[i] = todo[i + 1] /\ i + 1 \in 1 .. Len(todo)
  BY CallsLeft
<1>5. calls[m + 1] = c /\ m + 1 <= Len(calls)
  BY <1>3, <1>4
<1>6. /\ Cardinality(Insertions(calls, m)) \in Nat
      /\ Cardinality(Insertions(calls, m + 1)) =
           Cardinality(Insertions(calls, m)) + IF c = "ins" THEN 1 ELSE 0
  BY <1>5, InsertionsFinite
<1>7. CallsMade(calls, m + 1)'
  <2>1. \A i \in 1 .. Len(todo') : todo'[i] = calls[(m + 1) + i]
    <3> SUFFICES ASSUME NEW i \in 1 .. Len(todo') PROVE todo'[i] = calls[(m + 1) + i]
      OBVIOUS
    <3>1. todo'[i] = calls[m + (i + 1)]
      BY <1>3, <1>4
    <3>2. m + (i + 1) = (m + 1) + i
      BY <1>4
    <3> QED BY <3>1, <3>2
  <2>2. Len(todo') = Len(calls) - (m + 1)
    BY <1>3, <1>4
  <2>3. newname' = 1 + Cardinality(Insertions(calls, m + 1))
    BY <1>3, <1>6
  <2> QED BY <1>5, <2>1, <2>2, <2>3 DEF CallsMade
<1>8. NamesLeft'
  <2>1. m + 1 \in Nat
    OBVIOUS
  <2> QED BY <1>2, <1>7, <2>1 DEF NamesLeft
<1>9. c = "ins" => newname \in 1 .. NameSpan - 1
  <2> SUFFICES ASSUME c = "ins" PROVE newname \in 1 .. NameSpan - 1
    OBVIOUS
  <2>1. PICK n \in Nat : n = Len(calls)
    OBVIOUS
  <2>2. /\ IsFiniteSet(Insertions(calls, n)) /\ Cardinality(Insertions(calls, n)) \in Nat
        /\ Insertions(calls, m + 1) \subseteq Insertions(calls, n)
    <3>1. IsFiniteSet(Insertions(calls, n)) /\ Cardinality(Insertions(calls, n)) \in Nat
      BY InsertionsFinite, Zenon
    <3>2. m + 1 <= n
      BY <1>5, <2>1
    <3>3. Insertions(calls, m + 1) \subseteq Insertions(calls, n)
      BY <3>2 DEF Insertions
    <3> QED BY <3>1, <3>3
  <2>3. Cardinality(Insertions(calls, m + 1)) <= Cardinality(Insertions(calls, n))
    BY <2>2, FS_Subset
  <2>4. Cardinality(Insertions(calls, n)) < NameSpan
    <3>1. Insertions(calls, n) = {i \in DOMAIN calls : calls[i] = "ins"}
      BY <2>1 DEF Insertions
    <3> QED BY <1>2, <3>1, NamesAssumption
  <2> QED BY <1>3, <1>6, <2>2, <2>3, <2>4, PrioAssumption
<1> QED BY <1>8, <1>9

-----------------------------------------------------------------------------
(* The keys along a trace.  Before operation k + 1 of the operations r the *)
(* keys in the queue are K[k], and the first D[k] of the keys x have been  *)
(* deleted.                                                                *)
Nothing == (<<>>)[1]

NamesDiffer(keys) == \A v, w \in keys : name(v) = name(w) => v = w

Deleted(before, after, key) ==
  IF before = {} THEN after = {} /\ key = Nothing
  ELSE key \in before /\ (\A v \in before : key <= v) /\ after = before \ {key}

Effect(op, before, after, key) ==
  /\ op.code = "create" => before = {} /\ after = {}
  /\ op.code = "destroy" => after = {}
  /\ op.code = "find_min" => after = before
  /\ op.code = "insert" => /\ name(op.key) = op.node_id /\ \A v \in before : name(v) # op.node_id
                           /\ after = before \cup {op.key}
  /\ op.code = "decrease_key" => /\ name(op.key) = op.node_id
                                 /\ \E v \in before : /\ name(v) = op.node_id /\ op.key <= v
                                                      /\ after = (before \ {v}) \cup {op.key}
  /\ op.code = "delete_min" => Deleted(before, after, key)

DeletesOne(op) == IF op.code = "delete_min" THEN 1 ELSE 0

Along(K, D, r, x) ==
  /\ r \in Seq(Op) /\ x \in Seq(Nat \cup {Nothing})
  /\ K \in [0 .. Len(r) -> SUBSET Nat] /\ D \in [0 .. Len(r) -> 0 .. Len(x)]
  /\ K[0] = {} /\ D[0] = 0 /\ D[Len(r)] = Len(x)
  /\ \A k \in 0 .. Len(r) : NamesDiffer(K[k])
  /\ \A k \in 0 .. Len(r) - 1 : /\ D[k + 1] = D[k] + DeletesOne(r[k + 1])
                                /\ Effect(r[k + 1], K[k], K[k + 1], x[D[k + 1]])

\* One more operation op that leaves the keys after, and deletes keys.
OneMore(K, D, r, x, op, after, s, y) ==
  /\ Along(K, D, r, x) /\ op \in Op /\ s = Append(r, op)
  /\ after \in SUBSET Nat /\ NamesDiffer(after) /\ Effect(op, K[Len(r)], after, y[Len(y)])
  /\ IF op.code = "delete_min" THEN \E key \in Nat \cup {Nothing} : y = Append(x, key) ELSE y = x

LEMMA AlongOneMore ==
  ASSUME NEW K, NEW D, NEW r, NEW x, NEW op, NEW after, NEW s, NEW y,
         OneMore(K, D, r, x, op, after, s, y)
  PROVE  \E L, E : Along(L, E, s, y) /\ L[Len(s)] = after
<1>1. /\ Along(K, D, r, x) /\ op \in Op /\ s = Append(r, op)
      /\ after \in SUBSET Nat /\ NamesDiffer(after) /\ Effect(op, K[Len(r)], after, y[Len(y)])
  BY DEF OneMore
<1>2. /\ r \in Seq(Op) /\ x \in Seq(Nat \cup {Nothing})
      /\ K \in [0 .. Len(r) -> SUBSET Nat] /\ D \in [0 .. Len(r) -> 0 .. Len(x)]
      /\ K[0] = {} /\ D[0] = 0 /\ D[Len(r)] = Len(x)
      /\ \A k \in 0 .. Len(r) : NamesDiffer(K[k])
      /\ \A k \in 0 .. Len(r) - 1 : /\ D[k + 1] = D[k] + DeletesOne(r[k + 1])
                                    /\ Effect(r[k + 1], K[k], K[k + 1], x[D[k + 1]])
  BY <1>1 DEF Along
<1>3. PICK n \in Nat, m \in Nat : n = Len(r) /\ m = Len(x)
  BY <1>2
<1>4. s \in Seq(Op) /\ Len(s) = n + 1 /\ s[n + 1] = op /\ \A k \in 1 .. n : s[k] = r[k]
  BY <1>1, <1>2, <1>3, AppendProperties
<1>5. /\ y \in Seq(Nat \cup {Nothing}) /\ Len(y) = m + DeletesOne(op)
      /\ \A k \in 1 .. m : y[k] = x[k]
  <2>1. CASE op.code = "delete_min"
    <3>1. PICK key \in Nat \cup {Nothing} : y = Append(x, key)
      BY <2>1 DEF OneMore
    <3> QED BY <1>2, <1>3, <2>1, <3>1, AppendProperties DEF DeletesOne
  <2>2. CASE op.code # "delete_min"
    BY <1>2, <1>3, <2>2 DEF OneMore, DeletesOne
  <2> QED BY <2>1, <2>2
<1>6. PICK p \in Nat : p = Len(y) /\ m <= p
  BY <1>5 DEF DeletesOne
<1>7. PICK L : L = [k \in 0 .. n + 1 |-> IF k <= n THEN K[k] ELSE after]
  OBVIOUS
<1>8. PICK E : E = [k \in 0 .. n + 1 |-> IF k <= n THEN D[k] ELSE p]
  OBVIOUS
<1>9. \A k \in 0 .. n : k \in 0 .. n + 1 /\ L[k] = K[k] /\ E[k] = D[k] /\ E[k] \in 0 .. m
  <2>1. \A k \in 0 .. n : k \in 0 .. n + 1 /\ k <= n
    OBVIOUS
  <2>2. \A k \in 0 .. n : L[k] = K[k] /\ E[k] = D[k]
    BY <1>7, <1>8, <2>1
  <2>3. \A k \in 0 .. n : D[k] \in 0 .. m
    BY <1>2, <1>3
  <2> QED BY <2>1, <2>2, <2>3
<1>10. L[n + 1] = after /\ E[n + 1] = p
  BY <1>7, <1>8
<1>11. L \in [0 .. n + 1 -> SUBSET Nat]
  <2>1. \A k \in 0 .. n : K[k] \in SUBSET Nat
    BY <1>2, <1>3
  <2>2. \A k \in 0 .. n + 1 : L[k] \in SUBSET Nat
    BY <1>1, <1>7, <2>1
  <2> QED BY <1>7, <2>2
<1>12. E \in [0 .. n + 1 -> 0 .. p]
  <2>1. \A k \in 0 .. n + 1 : E[k] \in 0 .. p
    BY <1>6, <1>9, <1>10
  <2> QED BY <1>8, <2>1
<1>13. \A k \in 0 .. n + 1 : NamesDiffer(L[k])
  <2> SUFFICES ASSUME NEW k \in 0 .. n + 1 PROVE NamesDiffer(L[k])
    OBVIOUS
  <2>1. CASE k <= n
    BY <1>2, <1>3, <1>9, <2>1
  <2>2. CASE k = n + 1
    BY <1>1, <1>10, <2>2
  <2> QED BY <2>1, <2>2
<1>14. ASSUME NEW k \in 0 .. n
       PROVE  E[k + 1] = E[k] + DeletesOne(s[k + 1]) /\ Effect(s[k + 1], L[k], L[k + 1], y[E[k + 1]])
  <2>1. CASE k < n
    <3>1. k + 1 \in 1 .. n /\ k \in 0 .. n - 1 /\ k + 1 \in 0 .. n
      BY <2>1
    <3>2. /\ L[k] = K[k] /\ L[k + 1] = K[k + 1] /\ E[k] = D[k] /\ E[k + 1] = D[k + 1]
          /\ s[k + 1] = r[k + 1]
      BY <1>4, <1>9, <3>1
    <3>3. /\ D[k + 1] = D[k] + DeletesOne(r[k + 1])
          /\ Effect(r[k + 1], K[k], K[k + 1], x[D[k + 1]])
      BY <1>2, <1>3, <3>1
    <3>4. r[k + 1].code = "delete_min" => y[D[k + 1]] = x[D[k + 1]]
      <4>1. D[k] \in 0 .. m /\ D[k + 1] \in 0 .. m
        BY <1>9, <3>1, <3>2
      <4>2. r[k + 1].code = "delete_min" => D[k + 1] \in 1 .. m
        BY <3>3, <4>1 DEF DeletesOne
      <4> QED BY <1>5, <4>2
    <3>5. Effect(r[k + 1], K[k], K[k + 1], y[D[k + 1]])
      BY <3>3, <3>4 DEF Effect
    <3> QED BY <3>2, <3>3, <3>5
  <2>2. CASE k = n
    <3>1. E[k + 1] = p /\ L[k + 1] = after /\ L[k] = K[n] /\ E[k] = m /\ s[k + 1] = op
      BY <1>2, <1>3, <1>4, <1>9, <1>10, <2>2
    <3>2. p = m + DeletesOne(op)
      BY <1>5, <1>6
    <3>3. Effect(op, K[n], after, y[p])
      BY <1>1, <1>3, <1>6
    <3> QED BY <3>1, <3>2, <3>3
  <2> QED BY <2>1, <2>2
<1>15. L[0] = {} /\ E[0] = 0
  BY <1>2, <1>9
<1>16. Along(L, E, s, y)
  <2>1. \A k \in 0 .. Len(s) - 1 :
          E[k + 1] = E[k] + DeletesOne(s[k + 1]) /\ Effect(s[k + 1], L[k], L[k + 1], y[E[k + 1]])
    BY <1>4, <1>14
  <2> QED BY <1>4, <1>5, <1>6, <1>10, <1>11, <1>12, <1>13, <1>15, <2>1 DEF Along
<1> QED BY <1>4, <1>10, <1>16

-----------------------------------------------------------------------------
(* The generator: its heap has the keys that are in the queue, by the      *)
(* operations it has recorded, until the queue is destroyed.               *)
HeapKeys ==
  /\ IsBinaryHeap(data) /\ Distinct(data) /\ NamesDiffer(Values(data))
  /\ \A v \in Values(data) : name(v) < newname

KeysRecorded(K, D) ==
  /\ Along(K, D, recorded, extracted)
  /\ Len(todo) > 1 => K[Len(recorded)] = Values(data)

GeneratorKeys == NamesLeft /\ HeapKeys /\ \E K, D : KeysRecorded(K, D)

LEMMA InitKeys == Init => GeneratorKeys
<1> SUFFICES ASSUME Init PROVE GeneratorKeys
  OBVIOUS
<1>1. data = <<>> /\ newname = 1 /\ recorded = <<>> /\ extracted = <<>>
  BY DEF Init
<1>2. PICK none : none = <<>> /\ none \in Seq(Nat) /\ none \in Seq(Op)
                  /\ none \in Seq(Nat \cup {Nothing}) /\ Len(none) = 0
  <2>1. <<>> \in Seq(Nat) /\ <<>> \in Seq(Op) /\ <<>> \in Seq(Nat \cup {Nothing}) /\ Len(<<>>) = 0
    OBVIOUS
  <2> QED BY <2>1
<1>3. Values(none) = {} /\ IsBinaryHeap(none) /\ Distinct(none)
  BY <1>2 DEF Values, IsBinaryHeap, Ordered, Distinct
<1>4. HeapKeys
  BY <1>1, <1>2, <1>3 DEF HeapKeys, NamesDiffer
<1>5. PICK K : K = [k \in 0 .. 0 |-> {}]
  OBVIOUS
<1>6. PICK D : D = [k \in 0 .. 0 |-> 0]
  OBVIOUS
<1>7. Along(K, D, none, none)
  <2>1. 0 .. 0 = {0} /\ 0 .. 0 - 1 = {}
    OBVIOUS
  <2> QED BY <1>2, <1>5, <1>6, <2>1 DEF Along, NamesDiffer
<1>8. KeysRecorded(K, D)
  <2>1. K[0] = {}
    BY <1>5
  <2> QED BY <1>1, <1>2, <1>3, <1>7, <2>1 DEF KeysRecorded
<1> QED BY <1>4, <1>8, InitNames DEF GeneratorKeys

\* An operation that leaves the keys after is recorded.
Records(c, op, after) ==
  /\ TodoInOrder /\ DestroyedLast /\ Call(c) /\ c \notin {"header", "close"}
  /\ op \in Op /\ recorded' = Append(recorded, op)
  /\ after \in SUBSET Nat /\ NamesDiffer(after)
  /\ Effect(op, Values(data), after, extracted'[Len(extracted')])
  /\ IF op.code = "delete_min" THEN \E key \in Nat \cup {Nothing} : extracted' = Append(extracted, key)
     ELSE extracted' = extracted
  /\ c # "destroy" => after = Values(data')

LEMMA RecordKeys ==
  ASSUME NEW c, NEW op, NEW after, Records(c, op, after), \E K, D : KeysRecorded(K, D)
  PROVE  (\E K, D : KeysRecorded(K, D))'
<1>0. PICK K, D : KeysRecorded(K, D)
  OBVIOUS
<1>1. /\ Len(todo) \in Nat \ {0} /\ Len(todo') = Len(todo) - 1 /\ todo[1] = c
  BY CallsLeft DEF Records
<1>2. Len(todo) > 1 /\ (c = "destroy" => Len(todo') = 1)
  <2>1. todo[1] = "close" <=> 1 = Len(todo)
    BY <1>1 DEF Records, TodoInOrder
  <2>2. todo[1] = "destroy" <=> 1 = Len(todo) - 1
    BY <1>1 DEF Records, DestroyedLast
  <2> QED BY <1>1, <2>1, <2>2 DEF Records
<1>3. OneMore(K, D, recorded, extracted, op, after, recorded', extracted')
  BY <1>0, <1>2 DEF Records, OneMore, KeysRecorded
<1>4. PICK L, E : Along(L, E, recorded', extracted') /\ L[Len(recorded')] = after
  BY ONLY <1>3, AlongOneMore
<1>5. KeysRecorded(L, E)'
  BY <1>1, <1>2, <1>4 DEF KeysRecorded, Records
<1> QED BY <1>5

\* The keys of the heap are natural numbers.
LEMMA HeapKeysType ==
  ASSUME HeapKeys
  PROVE  Values(data) \in SUBSET Nat /\ data \in Seq(Nat)
BY ElementOfSeq DEF HeapKeys, IsBinaryHeap, Values

LEMMA InsertKeys ==
  ASSUME GeneratorIInv, RecordedInOrder, GeneratorKeys, DoInsert
  PROVE  GeneratorKeys'
<1>0. PICK p \in 0 .. Maxprio - 1 :
        /\ data' = HeapInsert(data, p * NameSpan + newname)
        /\ Record([code |-> "insert", node_id |-> newname, key |-> p * NameSpan + newname])
  BY DEF DoInsert
<1>1. PICK key :
        /\ p \in Nat /\ key = p * NameSpan + newname /\ data' = HeapInsert(data, key)
        /\ Record([code |-> "insert", node_id |-> newname, key |-> key])
  BY <1>0, PrioAssumption
<1>2. /\ Call("ins") /\ newname' = newname + 1 /\ extracted' = extracted
      /\ TodoInOrder /\ DestroyedLast /\ newname \in Nat
  BY DEF DoInsert, GeneratorIInv, RecordedInOrder, HeapTyped
<1>3. NamesLeft' /\ newname \in 1 .. NameSpan - 1
  BY <1>2, NamesCall DEF GeneratorKeys
<1>4. key \in Nat /\ name(key) = newname
  BY <1>1, <1>3, KeyParts
<1>5. PICK before : /\ before = Values(data) /\ before \in SUBSET Nat /\ NamesDiffer(before)
                    /\ \A v \in before : name(v) < newname
  BY HeapKeysType DEF GeneratorKeys, HeapKeys
<1>6. \A v \in before : name(v) # newname
  BY <1>2, <1>5
<1>7. key \notin before
  BY <1>4, <1>6
<1>8. /\ IsBinaryHeap(data') /\ Values(data') = before \cup {key} /\ Distinct(data')
  BY <1>1, <1>4, <1>5, <1>7, HeapInsertKeys DEF GeneratorKeys, HeapKeys
<1>9. /\ NamesDiffer(before \cup {key}) /\ before \cup {key} \in SUBSET Nat
      /\ \A v \in before \cup {key} : name(v) < newname'
  <2>1. \A v \in before : name(v) \in Nat
    BY <1>5, KeyWhole
  <2> QED BY <1>2, <1>4, <1>5, <1>6, <2>1 DEF NamesDiffer
<1>10. PICK op : op = [code |-> "insert", node_id |-> newname, key |-> key]
  OBVIOUS
<1>11. op \in Op /\ recorded' = Append(recorded, op)
  BY <1>1, <1>2, <1>4, <1>10 DEF Op, Record
<1>12. Effect(op, before, before \cup {key}, extracted'[Len(extracted')])
  BY <1>4, <1>6, <1>10 DEF Effect
<1>13. Records("ins", op, before \cup {key})
  BY <1>2, <1>5, <1>8, <1>9, <1>10, <1>11, <1>12 DEF Records
<1>14. (\E K, D : KeysRecorded(K, D))'
  BY <1>13, RecordKeys DEF GeneratorKeys
<1> QED BY <1>3, <1>8, <1>9, <1>14 DEF GeneratorKeys, HeapKeys

LEMMA DecreaseKeys ==
  ASSUME GeneratorIInv, RecordedInOrder, GeneratorKeys,
         NEW c, Call(c), c \in {"dcr", "dcr_min"}, NEW item \in DOMAIN data,
         NEW key \in dcr_amnt(data[item]) \cup dcr_min_amnt(data[item]),
         Decrease(item, key), UNCHANGED <<newname, extracted>>
  PROVE  GeneratorKeys'
<1>1. /\ TodoInOrder /\ DestroyedLast /\ IsBinaryHeap(data) /\ Distinct(data) /\ newname \in Nat
  BY DEF GeneratorIInv, RecordedInOrder, GeneratorKeys, HeapKeys, HeapTyped
<1>2. PICK before : /\ before = Values(data) /\ before \in SUBSET Nat /\ NamesDiffer(before)
                    /\ \A v \in before : name(v) < newname
  BY HeapKeysType DEF GeneratorKeys, HeapKeys
<1>3. PICK old : old = data[item]
  OBVIOUS
<1>4. /\ old \in before /\ old \in Nat /\ item \in 1 .. Len(data)
      /\ key \in Nat /\ key <= old /\ name(key) = name(old)
  BY <1>1, <1>2, <1>3, KeysLowered
<1>5. PICK after : after = (before \ {old}) \cup {key}
  OBVIOUS
<1>6. NamesDiffer(after) /\ after \in SUBSET Nat /\ \A v \in after : name(v) < newname
  BY <1>2, <1>4, <1>5 DEF NamesDiffer
<1>7. key \notin before \ {old}
  BY <1>2, <1>4 DEF NamesDiffer
<1>8. data' = HeapDecreaseKey(data, item, key)
  BY DEF Decrease
<1>9. /\ IsBinaryHeap(data') /\ Values(data') = after /\ Distinct(data')
  BY <1>1, <1>2, <1>3, <1>4, <1>5, <1>7, <1>8, HeapDecreaseKeys
<1>10. PICK op : op = [code |-> "decrease_key", node_id |-> name(old), key |-> key]
  OBVIOUS
<1>11. op \in Op /\ recorded' = Append(recorded, op)
  <2>1. name(old) \in Nat
    BY <1>4, KeyWhole
  <2> QED BY <1>3, <1>4, <1>10, <2>1 DEF Op, Decrease, Record
<1>12. Effect(op, before, after, extracted'[Len(extracted')])
  BY <1>4, <1>5, <1>10 DEF Effect
<1>13. Records(c, op, after)
  BY <1>1, <1>2, <1>6, <1>9, <1>10, <1>11, <1>12 DEF Records
<1>14. (\E K, D : KeysRecorded(K, D))'
  BY <1>13, RecordKeys DEF GeneratorKeys
<1>15. NamesLeft'
  BY <1>1, NamesCall DEF GeneratorKeys
<1> QED BY <1>6, <1>9, <1>14, <1>15 DEF GeneratorKeys, HeapKeys

LEMMA DeleteMinKeys ==
  ASSUME GeneratorIInv, RecordedInOrder, GeneratorKeys, DoDeleteMin
  PROVE  GeneratorKeys'
<1>1. /\ TodoInOrder /\ DestroyedLast /\ IsBinaryHeap(data) /\ Distinct(data) /\ newname \in Nat
      /\ Call("dmn") /\ newname' = newname
      /\ data' = HeapExtractMin(data) /\ extracted' = Append(extracted, data[1])
  BY DEF GeneratorIInv, RecordedInOrder, GeneratorKeys, HeapKeys, HeapTyped, DoDeleteMin
<1>2. PICK before : /\ before = Values(data) /\ before \in SUBSET Nat /\ NamesDiffer(before)
                    /\ \A v \in before : name(v) < newname
  BY HeapKeysType DEF GeneratorKeys, HeapKeys
<1>3. PICK key : key = data[1]
  OBVIOUS
<1>4. PICK after : /\ IsBinaryHeap(data') /\ Values(data') = after /\ Distinct(data')
                   /\ Deleted(before, after, key) /\ key \in Nat \cup {Nothing}
  <2>1. CASE data = <<>>
    <3>1. HeapExtractMin(data) = <<>>
      <4>1. data \in Seq(Nat) /\ 0 \in Nat
        BY <1>1 DEF IsBinaryHeap
      <4> QED BY <2>1, <4>1, HeapTypes
    <3>2. before = {} /\ key = Nothing
      <4>1. Len(data) = 0
        BY <2>1
      <4> QED BY <1>2, <1>3, <2>1, <4>1 DEF Values, Nothing
    <3>3. data' = data
      BY <1>1, <2>1, <3>1
    <3> QED BY <1>1, <1>2, <3>2, <3>3 DEF Deleted
  <2>2. CASE data # <<>>
    <3>1. /\ IsBinaryHeap(data') /\ Distinct(data') /\ Values(data') = before \ {key}
      BY <1>1, <1>2, <1>3, <2>2, HeapExtractKeys
    <3>2. key \in before
      <4>1. data \in Seq(Nat)
        BY <1>1 DEF IsBinaryHeap
      <4>2. 1 \in 1 .. Len(data)
        BY <2>2, <4>1
      <4> QED BY <1>2, <1>3, <4>2 DEF Values
    <3>3. \A v \in before : key <= v
      BY <1>1, <1>2, <1>3, LeastFirst
    <3>4. Deleted(before, before \ {key}, key) /\ key \in Nat
      BY <1>2, <3>2, <3>3 DEF Deleted
    <3> QED BY <3>1, <3>4
  <2> QED BY <2>1, <2>2
<1>5. after \subseteq before
  BY <1>4 DEF Deleted
<1>6. NamesDiffer(after) /\ after \in SUBSET Nat /\ \A v \in after : name(v) < newname
  BY <1>2, <1>5 DEF NamesDiffer
<1>7. PICK op : op = [code |-> "delete_min"]
  OBVIOUS
<1>8. op \in Op /\ recorded' = Append(recorded, op)
  BY <1>7 DEF Op, DoDeleteMin, Record
<1>9. extracted'[Len(extracted')] = key
  <2>1. PICK K, D : Along(K, D, recorded, extracted)
    BY DEF GeneratorKeys, KeysRecorded
  <2>2. PICK x \in Seq(Nat \cup {Nothing}) : x = extracted
    BY <2>1 DEF Along
  <2>3. PICK y : y = Append(x, key)
    OBVIOUS
  <2>4. Len(x) \in Nat /\ Len(y) = Len(x) + 1 /\ y[Len(x) + 1] = key
    BY <1>4, <2>3, AppendProperties
  <2> QED BY <1>1, <1>3, <2>2, <2>3, <2>4
<1>10. Effect(op, before, after, key)
  BY <1>4, <1>7 DEF Effect
<1>11. Records("dmn", op, after)
  BY <1>1, <1>2, <1>3, <1>4, <1>6, <1>7, <1>8, <1>9, <1>10 DEF Records
<1>12. (\E K, D : KeysRecorded(K, D))'
  BY <1>11, RecordKeys DEF GeneratorKeys
<1>13. NamesLeft'
  BY <1>1, NamesCall DEF GeneratorKeys
<1> QED BY <1>1, <1>4, <1>6, <1>12, <1>13 DEF GeneratorKeys, HeapKeys

\* An operation is recorded that leaves the heap as it is.
LEMMA KeepKeys ==
  ASSUME GeneratorIInv, RecordedInOrder, GeneratorKeys, NEW c \in {"create", "destroy", "fmn"}, Call(c),
         NEW code, code = IF c = "fmn" THEN "find_min" ELSE c, Record([code |-> code]),
         UNCHANGED <<data, newname, extracted>>
  PROVE  GeneratorKeys'
<1>1. /\ TodoInOrder /\ DestroyedLast /\ CreatedFirst /\ newname \in Nat
  BY DEF GeneratorIInv, RecordedInOrder, HeapTyped
<1>2. PICK before : /\ before = Values(data) /\ before \in SUBSET Nat /\ NamesDiffer(before)
  BY HeapKeysType DEF GeneratorKeys, HeapKeys
<1>3. PICK op : op = [code |-> code]
  OBVIOUS
<1>4. op \in Op /\ recorded' = Append(recorded, op)
  BY <1>3 DEF Op, Record
<1>5. PICK K, D : KeysRecorded(K, D)
  BY DEF GeneratorKeys
<1>6. c = "create" => before = {}
  <2> SUFFICES ASSUME c = "create" PROVE before = {}
    OBVIOUS
  <2>1. Len(todo) \in Nat \ {0} /\ todo[1] = "create"
    BY <1>1, CallsLeft
  <2>2. recorded = <<>> /\ Len(todo) # 1
    BY <1>1, <2>1 DEF CreatedFirst, TodoInOrder
  <2>3. K[0] = Values(data) /\ K[0] = {}
    <3>1. Len(recorded) = 0
      BY <2>2
    <3> QED BY <1>5, <2>1, <2>2, <3>1 DEF KeysRecorded, Along
  <2> QED BY <1>2, <2>3
<1>7. PICK after : after = IF c = "destroy" THEN {} ELSE before
  OBVIOUS
<1>8. NamesDiffer(after) /\ after \in SUBSET Nat
  BY <1>2, <1>7 DEF NamesDiffer
<1>9. Effect(op, before, after, extracted'[Len(extracted')])
  BY <1>3, <1>6, <1>7 DEF Effect
<1>10. Records(c, op, after)
  BY <1>1, <1>2, <1>3, <1>4, <1>7, <1>8, <1>9 DEF Records
<1>11. (\E L, E : KeysRecorded(L, E))'
  BY <1>10, RecordKeys DEF GeneratorKeys
<1>12. NamesLeft'
  BY <1>1, NamesCall DEF GeneratorKeys
<1>13. HeapKeys'
  BY DEF GeneratorKeys, HeapKeys
<1> QED BY <1>11, <1>12, <1>13 DEF GeneratorKeys

\* Nothing is recorded.
LEMMA SkipKeys ==
  ASSUME GeneratorIInv, GeneratorKeys, NEW c, Call(c), c # "ins",
         UNCHANGED <<data, newname, recorded, extracted>>
  PROVE  GeneratorKeys'
<1>1. TodoInOrder /\ newname \in Nat
  BY DEF GeneratorIInv, HeapTyped
<1>2. Len(todo) \in Nat /\ Len(todo') = Len(todo) - 1
  BY <1>1, CallsLeft
<1>3. PICK K, D : KeysRecorded(K, D)
  BY DEF GeneratorKeys
<1>4. KeysRecorded(K, D)'
  <2>1. Len(todo') > 1 => Len(todo) > 1
    BY <1>2
  <2> QED BY <1>3, <2>1 DEF KeysRecorded
<1>5. NamesLeft'
  BY <1>1, NamesCall DEF GeneratorKeys
<1>6. HeapKeys'
  BY DEF GeneratorKeys, HeapKeys
<1> QED BY <1>4, <1>5, <1>6 DEF GeneratorKeys

LEMMA GeneratorKeysStep ==
  ASSUME GeneratorIInv, RecordedInOrder, GeneratorKeys, Generate
  PROVE  GeneratorKeys'
<1>1. CASE Placeholder
  <2>1. Call("header") /\ UNCHANGED <<data, newname, recorded, extracted>>
    BY <1>1 DEF Placeholder
  <2> QED BY <2>1, SkipKeys
<1>2. CASE Close
  <2>1. Call("close") /\ UNCHANGED <<data, newname, recorded, extracted>>
    BY <1>2 DEF Close
  <2> QED BY <2>1, SkipKeys
<1>3. CASE CreateOrDestroy
  <2>1. UNCHANGED <<data, newname, extracted>>
    BY <1>3 DEF CreateOrDestroy
  <2>2. CASE Call("create") /\ Record([code |-> "create"])
    BY <2>1, <2>2, KeepKeys
  <2>3. CASE Call("destroy") /\ Record([code |-> "destroy"])
    BY <2>1, <2>3, KeepKeys
  <2> QED BY <1>3, <2>2, <2>3 DEF CreateOrDestroy
<1>4. CASE DoFindMin
  <2>1. /\ UNCHANGED <<data, newname, extracted>>
        /\ Call("fmn") /\ Record([code |-> "find_min"])
    BY <1>4 DEF DoFindMin
  <2> QED BY <2>1, KeepKeys
<1>5. ASSUME NEW c \in {"dcr", "dcr_min"}, Call(c), UNCHANGED <<newname, extracted>>,
             data = <<>>, UNCHANGED <<data, recorded>>
      PROVE  GeneratorKeys'
  BY <1>5, SkipKeys
<1>6. CASE DoDecrease
  <2>1. Call("dcr") /\ UNCHANGED <<newname, extracted>>
    BY <1>6 DEF DoDecrease
  <2>2. ASSUME NEW item \in DOMAIN data, NEW key \in dcr_amnt(data[item]), Decrease(item, key)
        PROVE  GeneratorKeys'
    BY <2>1, <2>2, DecreaseKeys
  <2> QED BY <1>5, <1>6, <2>1, <2>2 DEF DoDecrease
<1>7. CASE DoDecreaseMin
  <2>1. Call("dcr_min") /\ UNCHANGED <<newname, extracted>>
    BY <1>7 DEF DoDecreaseMin
  <2>2. ASSUME NEW item \in DOMAIN data, NEW key \in dcr_min_amnt(data[item]), Decrease(item, key)
        PROVE  GeneratorKeys'
    BY <2>1, <2>2, DecreaseKeys
  <2> QED BY <1>5, <1>7, <2>1, <2>2 DEF DoDecreaseMin
<1> QED BY <1>1, <1>2, <1>3, <1>4, <1>6, <1>7, InsertKeys, DeleteMinKeys DEF Generate

LEMMA GeneratorKeysStay ==
  ASSUME UNCHANGED generator
  PROVE  /\ NamesLeft /\ HeapKeys => NamesLeft' /\ HeapKeys'
         /\ \A K, D : KeysRecorded(K, D) => KeysRecorded(K, D)'
<1>1. UNCHANGED <<data, newname, todo, recorded, extracted>>
  BY DEF generator
<1>2. HeapKeys => HeapKeys'
  BY <1>1 DEF HeapKeys
<1>3. NamesLeft => NamesLeft'
  BY <1>1 DEF NamesLeft, CallsMade
<1>4. \A K, D : KeysRecorded(K, D) => KeysRecorded(K, D)'
  BY <1>1 DEF KeysRecorded
<1> QED BY <1>2, <1>3, <1>4

(* The heap of the generator is one after every call, whatever priorities  *)
(* it draws: no cell is less than the one above it, no two keys are equal  *)
(* or have the same name, and the next name is a new one.                  *)
THEOREM GeneratorHeapIsHeap == GeneratorSpec => []HeapKeys
<1>1. GeneratorIInv /\ RecordedInOrder /\ GeneratorKeys /\ [Generate]_generator => GeneratorKeys'
  BY GeneratorKeysStep, GeneratorKeysStay DEF GeneratorKeys
<1>2. GeneratorKeys => HeapKeys
  BY DEF GeneratorKeys
<1> QED BY GeneratorInvariant, RecordedStaysInOrder, InitKeys, <1>1, <1>2, PTL DEF GeneratorSpec
=============================================================================
