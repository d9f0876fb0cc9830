------------------------- MODULE TraceReplay_proofs -------------------------
(***************************************************************************)
(* Of the driver, whatever the trace, the chunks and the iterations: it    *)
(* reads back what was recorded, the pool and the array of the queue never *)
(* outgrow what the header of the trace asks for, handles are good, and    *)
(* every iteration deletes the recorded keys in the recorded order.        *)
(***************************************************************************)
EXTENDS TraceReplay, RandomTrace_proofs, ImplicitSimpleHeap_proofs

(* The driver moves only after the generator has come to its end, so that  *)
(* together they record a trace as the generator does alone.               *)
THEOREM RecordsAsBefore == Spec => GeneratorSpec
<1>1. ReplayInit => Init
  BY DEF ReplayInit
<1>2. [Next]_vars => [Generate]_generator
  BY DEF Next, vars, generator
<1> QED BY <1>1, <1>2, PTL DEF Spec, GeneratorSpec

(* What is proved of the generator holds while its trace is replayed.      *)
THEOREM BufferBoundedInReplay == Spec => []BufferBounded
BY RecordsAsBefore, BufferStaysBounded, PTL

THEOREM IntactInReplay == Spec => []Intact
BY RecordsAsBefore, TraceIsIntact, PTL

-----------------------------------------------------------------------------
(* Where the driver is in the trace: Read operations of it are in memory   *)
(* or have been, and Executed of them are done.                            *)
Read == Len(recorded) - op_remaining - op_chunk
Executed == Read - Len(ops)

OpSeqs == [i \in 1 .. Len(recorded) |-> OpWords(recorded[i])]
WordsTo(k) == FlattenSeq(SubSeq(OpSeqs, 1, k))

Position ==
  /\ op_remaining \in Nat /\ op_chunk \in Nat /\ (pc = "read" <=> op_chunk > 0)
  /\ ops \in Seq(Op)
  /\ pc # "off" =>
       /\ todo = <<>> /\ failures = 0 /\ read = header
       /\ 0 <= Executed /\ Read <= Len(recorded)
       /\ \A i \in 1 .. Len(ops) : ops[i] = recorded[Executed + i]
       /\ pc # "done" => offset = HeaderLength + Len(WordsTo(Read))
  /\ pc = "off" => op_chunk = 0 /\ ops = <<>>
  /\ pc \in {"off", "read", "run", "done"}

LEMMA FinishedTrace ==
  ASSUME GeneratorIInv, todo = <<>>, failures = 0
  PROVE  /\ trace.file \in Seq(Word) /\ trace.file[1][1] = header
         /\ Len(trace.file) = HeaderLength + Len(RecordedWords)
         /\ RecordedWords \in Seq(Word)
         /\ \A i \in 1 .. Len(RecordedWords) : trace.file[HeaderLength + i] = RecordedWords[i]
<1>1. /\ trace \in Trace /\ trace.file \in Seq(Word) /\ header \in Header
  BY DEF GeneratorIInv, RecorderTypes, WellFormed, Trace
<1>2. /\ Len(trace.file) >= HeaderLength /\ Contents(trace) = RecordedWords
      /\ trace.buffer = <<>>
      /\ SubSeq(trace.file, 1, HeaderLength) = HeaderWords(header)
  BY DEF GeneratorIInv, FileCoherent, Fresh
<1>3. PICK f \in Seq(Word) : f = trace.file
  BY <1>1
<1>4. HeaderLength \in Nat \ {0} /\ Len(f) \in Nat
  BY LengthAssumption
<1>5. /\ Body(f) \in Seq(Word)
      /\ Len(Body(f)) = IF HeaderLength < Len(f) THEN Len(f) - HeaderLength ELSE 0
      /\ \A i \in 1 .. Len(f) - HeaderLength : Body(f)[i] = f[HeaderLength + i]
  BY BodyType
<1>6. RecordedWords = Body(f)
  <2>1. RecordedWords = Body(f) \o <<>>
    BY <1>2, <1>3 DEF Contents
  <2> QED BY <1>5, <2>1, ConcatEmptySeq
<1>7. f[1][1] = header
  <2>1. SubSeq(f, 1, HeaderLength)[1] = f[1]
    <3>1. \A i \in 1 .. HeaderLength : f[i] \in Word
      BY <1>2, <1>3, <1>4, ElementOfSeq
    <3>2. \A i \in 1 .. HeaderLength - 1 + 1 : SubSeq(f, 1, HeaderLength)[i] = f[1 + i - 1]
      BY <1>4, <3>1, SubSeqProperties
    <3> QED BY <1>4, <3>2
  <2>2. HeaderWords(header)[1] = <<header, 1>>
    BY <1>4 DEF HeaderWords
  <2>3. f[1] = <<header, 1>>
    BY <1>2, <1>3, <2>1, <2>2
  <2> QED BY <2>3
<1>8. Len(Body(f)) = Len(f) - HeaderLength
  BY <1>2, <1>3, <1>4, <1>5
<1> QED BY <1>3, <1>4, <1>5, <1>6, <1>7, <1>8

LEMMA OpSeqsType ==
  ASSUME recorded \in Seq(Op)
  PROVE  /\ OpSeqs \in Seq(Seq(Word)) /\ Len(OpSeqs) = Len(recorded)
         /\ RecordedWords = FlattenSeq(OpSeqs)
         /\ \A i \in 1 .. Len(recorded) : recorded[i] \in Op /\ OpSeqs[i] = OpWords(recorded[i])
<1>1. Len(recorded) \in Nat /\ \A i \in 1 .. Len(recorded) : recorded[i] \in Op
  BY ElementOfSeq
<1>2. \A i \in 1 .. Len(recorded) : OpWords(recorded[i]) \in Seq(Word)
  BY <1>1, OpWordsType
<1>3. OpSeqs \in [1 .. Len(recorded) -> Seq(Word)]
  BY <1>2 DEF OpSeqs
<1>4. OpSeqs \in Seq(Seq(Word)) /\ Len(OpSeqs) = Len(recorded)
  BY <1>1, <1>3, SeqOfFunction
<1>5. DOMAIN recorded = 1 .. Len(recorded)
  OBVIOUS
<1>6. RecordedWords = FlattenSeq(OpSeqs)
  BY <1>5 DEF RecordedWords, OpSeqs
<1> QED BY <1>1, <1>4, <1>6 DEF OpSeqs

LEMMA WordsOneMore ==
  ASSUME recorded \in Seq(Op), NEW k \in 0 .. Len(recorded) - 1
  PROVE  /\ WordsTo(k) \in Seq(Word)
         /\ WordsTo(k + 1) = WordsTo(k) \o OpWords(recorded[k + 1])
<1>1. PICK s \in Seq(Seq(Word)) : s = OpSeqs
  BY OpSeqsType
<1>2. /\ Len(s) \in Nat /\ k + 1 \in 1 .. Len(s) /\ s[k + 1] = OpWords(recorded[k + 1])
      /\ \A i \in 1 .. Len(s) : s[i] \in Seq(Word)
  <2>1. Len(s) = Len(recorded) /\ Len(s) \in Nat
    BY <1>1, OpSeqsType
  <2>2. \A i \in 1 .. Len(recorded) : s[i] = OpWords(recorded[i])
    BY <1>1, OpSeqsType
  <2>3. \A i \in 1 .. Len(s) : s[i] \in Seq(Word)
    BY ElementOfSeq
  <2> QED BY <2>1, <2>2, <2>3
<1>3. PICK t \in Seq(Seq(Word)) : t = SubSeq(s, 1, k)
  <2>1. k \in Int /\ 1 \in Int /\ \A i \in 1 .. k : s[i] \in Seq(Word)
    BY <1>2
  <2> QED BY <2>1, SubSeqProperties
<1>4. PICK w \in Seq(Word) : w = s[k + 1]
  BY <1>2
<1>5. SubSeq(s, 1, k + 1) = Append(t, w)
  <2>1. SubSeq(s, 1, k + 1) = SubSeq(s, 1, (k + 1) - 1) \o << s[k + 1] >>
    BY <1>2, SubSeqRecursiveSecond
  <2>2. (k + 1) - 1 = k
    OBVIOUS
  <2>3. Append(t, w) = t \o <<w>>
    BY AppendIsConcat
  <2> QED BY <1>3, <1>4, <2>1, <2>2, <2>3
<1>6. FlattenSeq(t) \in Seq(Word) /\ FlattenSeq(Append(t, w)) = FlattenSeq(t) \o w
  BY FlattenAppend
<1> QED BY <1>1, <1>2, <1>3, <1>4, <1>5, <1>6 DEF WordsTo

(* The next operation is read where it was written.                        *)
LEMMA ReadBack ==
  ASSUME GeneratorIInv, todo = <<>>, failures = 0, NEW k \in 0 .. Len(recorded) - 1
  PROVE  pq_trace_read_op(trace.file, HeaderLength + Len(WordsTo(k)))
           = [ok |-> TRUE, op |-> recorded[k + 1], offset |-> HeaderLength + Len(WordsTo(k + 1))]
<1>0. recorded \in Seq(Op) /\ HeaderLength \in Nat
  BY LengthAssumption DEF GeneratorIInv, RecorderTypes
<1>1. PICK op \in Op : op = recorded[k + 1]
  BY <1>0, ElementOfSeq
<1>2. PICK w \in Seq(Word) : w = OpWords(op) /\ Len(w) >= 1 /\ w[1] = <<op, 1>>
  BY OpWordsType
<1>3. PICK b \in Seq(Word) : b = WordsTo(k)
  BY <1>0, WordsOneMore
<1>4. WordsTo(k + 1) = b \o w
  BY <1>0, <1>1, <1>2, <1>3, WordsOneMore
<1>5. PICK rest \in Seq(Word) : RecordedWords = (b \o w) \o rest
  <2>1. /\ OpSeqs \in Seq(Seq(Word)) /\ k + 1 \in 1 .. Len(OpSeqs)
        /\ OpSeqs[k + 1] = w /\ RecordedWords = FlattenSeq(OpSeqs)
    BY <1>0, <1>1, <1>2, OpSeqsType
  <2>2. \E rest \in Seq(Word) :
          FlattenSeq(OpSeqs) = (FlattenSeq(SubSeq(OpSeqs, 1, (k + 1) - 1)) \o OpSeqs[k + 1]) \o rest
    BY <2>1, FlattenPrefix
  <2>3. (k + 1) - 1 = k
    OBVIOUS
  <2> QED BY <1>3, <2>1, <2>2, <2>3 DEF WordsTo
<1>6. PICK a \in Seq(Word), all \in Seq(Word) : a = b \o w /\ all = a \o rest
  BY ConcatProperties
<1>7. /\ Len(b) \in Nat /\ Len(w) \in Nat /\ Len(rest) \in Nat
      /\ Len(a) = Len(b) + Len(w) /\ Len(all) = Len(a) + Len(rest)
  BY <1>6, ConcatProperties
<1>8. \A i \in 1 .. Len(w) : all[Len(b) + i] = w[i]
  <2>1. \A i \in 1 .. Len(b) + Len(w) : a[i] = IF i <= Len(b) THEN b[i] ELSE w[i - Len(b)]
    BY <1>6, ConcatProperties
  <2>2. \A i \in 1 .. Len(a) + Len(rest) : all[i] = IF i <= Len(a) THEN a[i] ELSE rest[i - Len(a)]
    BY <1>6, ConcatProperties
  <2> QED BY <1>7, <2>1, <2>2
<1>9. PICK f \in Seq(Word) : f = trace.file
  BY FinishedTrace
<1>10. /\ Len(f) = HeaderLength + Len(all)
       /\ \A i \in 1 .. Len(all) : f[HeaderLength + i] = all[i]
  BY <1>5, <1>6, <1>9, FinishedTrace
<1>11. PICK m \in Nat : m = HeaderLength + Len(b)
  BY <1>0, <1>7
<1>12. Len(f) \in Nat /\ m + Len(w) <= Len(f) /\ \A i \in 1 .. Len(w) : f[m + i] = w[i]
  <2>1. Len(f) \in Nat /\ m + Len(w) <= Len(f)
    BY <1>0, <1>7, <1>10, <1>11
  <2>2. ASSUME NEW i \in 1 .. Len(w) PROVE f[m + i] = w[i]
    <3>1. Len(b) + i \in 1 .. Len(all)
      BY <1>7
    <3>2. f[HeaderLength + (Len(b) + i)] = all[Len(b) + i]
      BY <1>10, <3>1
    <3>3. HeaderLength + (Len(b) + i) = m + i
      BY <1>0, <1>7, <1>11
    <3> QED BY <1>8, <3>2, <3>3
  <2> QED BY <2>1, <2>2
<1>13. f[m + 1][1] = op
  <2>1. f[m + 1] = <<op, 1>>
    <3>1. 1 \in 1 .. Len(w)
      BY <1>2, <1>7
    <3>2. f[m + 1] = w[1]
      BY <1>12, <3>1
    <3> QED BY <1>2, <3>2
  <2> QED BY <2>1
<1>14. pq_op_lengths[op.code] = Len(w)
  <2>1. op.code \in OpCode
    BY DEF Op, OpCode
  <2>2. pq_op_lengths[op.code] \in Nat
    BY <2>1, OpCodeAssumption, LengthAssumption
  <2> QED BY <1>2, <2>2 DEF OpWords
<1>15. SubSeq(f, m + 1, m + Len(w)) = w
  <2>1. \A i \in m + 1 .. m + Len(w) : f[i] \in Word
    BY <1>7, <1>12, ElementOfSeq
  <2>2. PICK s : s = SubSeq(f, m + 1, m + Len(w))
    OBVIOUS
  <2>3. /\ s \in Seq(Word)
        /\ Len(s) = IF m + 1 <= m + Len(w) THEN m + Len(w) - (m + 1) + 1 ELSE 0
        /\ \A i \in 1 .. m + Len(w) - (m + 1) + 1 : s[i] = f[m + 1 + i - 1]
    BY <1>7, <2>1, <2>2, SubSeqProperties
  <2>4. Len(s) = Len(w) /\ \A i \in 1 .. Len(w) : s[i] = w[i]
    BY <1>7, <1>12, <2>3
  <2> QED BY <2>2, <2>3, <2>4, SeqEqual
<1>16. ~ (m >= Len(f) \/ m + Len(w) > Len(f))
  BY <1>2, <1>7, <1>12
<1>17. pq_trace_read_op(f, m) = [ok |-> TRUE, op |-> op, offset |-> m + Len(w)]
  BY <1>2, <1>13, <1>14, <1>15, <1>16 DEF pq_trace_read_op
<1>18. m + Len(w) = HeaderLength + Len(WordsTo(k + 1))
  <2>1. Len(WordsTo(k + 1)) = Len(b) + Len(w)
    BY <1>4, <1>6, <1>7
  <2>2. PICK n : n = Len(WordsTo(k + 1))
    OBVIOUS
  <2>3. m + Len(w) = HeaderLength + n
    <3>1. n = Len(b) + Len(w)
      BY <2>1, <2>2
    <3> HIDE <2>1, <2>2
    <3> QED BY <1>0, <1>7, <1>11, <3>1
  <2> QED BY <2>2, <2>3
<1> QED BY <1>1, <1>3, <1>9, <1>11, <1>17, <1>18

LEMMA NoWords == WordsTo(0) = <<>>
<1>1. SubSeq(OpSeqs, 1, 0) = <<>>
  <2>1. PICK s : s = SubSeq(OpSeqs, 1, 0)
    OBVIOUS
  <2>2. s \in Seq(Word) /\ Len(s) = 0
    <3>1. \A i \in 1 .. 0 : OpSeqs[i] \in Word
      OBVIOUS
    <3> QED BY <2>1, <3>1, SubSeqProperties
  <2> QED BY <2>1, <2>2, EmptySeq
<1> QED BY <1>1, EmptySeq DEF WordsTo, FlattenSeq

\* While the driver runs the trace stays as it is.
LEMMA WordsStay ==
  ASSUME UNCHANGED generator, NEW k, Read' = k
  PROVE  WordsTo(Read)' = WordsTo(k)
<1>1. recorded' = recorded
  BY DEF generator
<1>2. OpSeqs' = OpSeqs
  BY <1>1 DEF OpSeqs
<1> QED BY <1>2 DEF WordsTo

LEMMA GeneratorRuns ==
  ASSUME Generate
  PROVE  todo # <<>>
BY DEF Generate, Placeholder, CreateOrDestroy, DoInsert, DoDecrease, DoDecreaseMin, DoFindMin,
       DoDeleteMin, Close, Call

LEMMA AppendedOp ==
  \A r \in Seq(Op), op \in Op :
    /\ Len(r) \in Nat /\ Len(Append(r, op)) = Len(r) + 1
    /\ Append(r, op)[Len(r) + 1] = op
    /\ \A i \in 1 .. Len(r) : Append(r, op)[i] = r[i]
BY AppendProperties

LEMMA InitPosition == ReplayInit => Position
<1>1. <<>> \in Seq(Op)
  OBVIOUS
<1> QED BY <1>1 DEF ReplayInit, Position

LEMMA IteratePosition ==
  ASSUME GeneratorIInv, Position, UNCHANGED generator, todo = <<>>, failures = 0,
         ops = <<>>, op_chunk = 0, UNCHANGED <<ops, op_chunk>>, pc' = "run",
         NEW pool, Iterate(pool)
  PROVE  Position' /\ Executed' = 0
<1>1. /\ todo' = <<>> /\ failures' = 0 /\ recorded' = recorded /\ header' = header
  BY DEF generator
<1>2. read' = header /\ op_remaining' = Len(recorded) /\ offset' = HeaderLength
  BY FinishedTrace DEF Iterate, GeneratorIInv, FileCoherent
<1>3. Len(recorded) \in Nat /\ HeaderLength \in Nat
  BY LengthAssumption DEF GeneratorIInv, RecorderTypes
<1>4. Read' = 0 /\ Executed' = 0 /\ Len(ops') = 0
  <2>1. Len(ops') = 0 /\ op_chunk' = 0
    OBVIOUS
  <2>2. PICK n \in Nat : n = Len(recorded) /\ n = Len(recorded')
    BY <1>1, <1>3
  <2>3. op_remaining' = n
    BY <1>2, <2>2
  <2>4. Read' = n - n - 0
    BY <2>1, <2>2, <2>3 DEF Read
  <2>5. Read' = 0
    BY <2>4
  <2>6. Executed' = Read' - Len(ops')
    BY DEF Executed
  <2> QED BY <2>1, <2>5, <2>6
<1>5. offset' = HeaderLength + Len(WordsTo(Read)')
  <2>1. WordsTo(Read)' = <<>>
    BY <1>4, WordsStay, NoWords
  <2> QED BY <1>2, <1>3, <2>1
<1>6. ops' \in Seq(Op)
  BY DEF Position
<1> QED BY <1>1, <1>2, <1>3, <1>4, <1>5, <1>6 DEF Position

LEMMA ReadOpPosition ==
  ASSUME GeneratorIInv, Position, UNCHANGED generator, ReadOp
  PROVE  Position' /\ Executed' = Executed
<1>1. /\ recorded' = recorded /\ header' = header /\ todo' = todo /\ failures' = failures
      /\ Len(recorded) \in Nat /\ recorded \in Seq(Op)
  BY DEF generator, GeneratorIInv, RecorderTypes
<1>2. /\ pc = "read" /\ todo = <<>> /\ failures = 0 /\ read = header
      /\ op_remaining \in Nat /\ op_chunk \in Nat \ {0} /\ ops \in Seq(Op)
      /\ offset = HeaderLength + Len(WordsTo(Read))
      /\ 0 <= Executed /\ Read <= Len(recorded)
      /\ \A i \in 1 .. Len(ops) : ops[i] = recorded[Executed + i]
  BY DEF Position, ReadOp
<1>3. PICK k \in 0 .. Len(recorded) - 1 : k = Read
  <2>1. PICK n \in Nat, l \in Nat : n = Len(ops) /\ l = Len(recorded)
    BY <1>1, <1>2
  <2>2. l - op_remaining - op_chunk - n >= 0
    BY <1>2, <2>1 DEF Read, Executed
  <2>3. l - op_remaining - op_chunk \in 0 .. l - 1
    BY <1>2, <2>1, <2>2
  <2> QED BY <2>1, <2>3 DEF Read
<1>4. pq_trace_read_op(trace.file, offset)
        = [ok |-> TRUE, op |-> recorded[k + 1], offset |-> HeaderLength + Len(WordsTo(k + 1))]
  BY <1>2, <1>3, ReadBack
<1>5. /\ ops' = Append(ops, recorded[k + 1]) /\ offset' = HeaderLength + Len(WordsTo(k + 1))
      /\ op_chunk' = op_chunk - 1 /\ pc' = IF op_chunk = 1 THEN "run" ELSE "read"
      /\ read' = read /\ op_remaining' = op_remaining
  BY <1>4 DEF ReadOp
<1>6. PICK r \in Seq(Op), op \in Op : r = ops /\ op = recorded[k + 1]
  BY <1>1, <1>2, <1>3, ElementOfSeq
<1>7. PICK s \in Seq(Op) : s = Append(r, op) /\ s = ops'
  BY <1>5, <1>6, AppendProperties
<1>8. Len(r) \in Nat /\ Len(s) = Len(r) + 1
  BY <1>7, AppendedOp, Zenon
<1>9. s[Len(r) + 1] = op /\ \A i \in 1 .. Len(r) : s[i] = r[i]
  <2>1. /\ Append(r, op)[Len(r) + 1] = op
        /\ \A i \in 1 .. Len(r) : Append(r, op)[i] = r[i]
    BY AppendedOp, Zenon
  <2> QED BY <1>7, <2>1
<1>10. Read' = k + 1 /\ Executed' = Executed
  <2>1. PICK n \in Nat, l \in Nat : n = Len(ops) /\ n + 1 = Len(ops') /\ l = Len(recorded) /\ l = Len(recorded')
    BY <1>1, <1>6, <1>7, <1>8
  <2>2. /\ k = l - op_remaining - op_chunk /\ Executed = k - n
        /\ Read' = l - op_remaining - (op_chunk - 1) /\ Executed' = Read' - (n + 1)
    BY <1>3, <1>5, <2>1 DEF Read, Executed
  <2>3. op_remaining \in Nat /\ op_chunk \in Nat
    BY <1>2
  <2> QED BY ONLY <2>2, <2>3, n \in Nat, l \in Nat, k \in 0 .. Len(recorded) - 1
<1>11. WordsTo(Read)' = WordsTo(k + 1)
  BY <1>10, WordsStay
<1>12. Executed \in Int /\ Executed + Len(r) = k
  BY <1>1, <1>2, <1>3, <1>6, <1>8 DEF Read, Executed
<1>13. \A i \in 1 .. Len(s) : s[i] = recorded[Executed + i]
  <2> HIDE DEF Executed
  <2> SUFFICES ASSUME NEW i \in 1 .. Len(s) PROVE s[i] = recorded[Executed + i]
    OBVIOUS
  <2>1. CASE i = Len(r) + 1
    <3>1. Executed + i = k + 1
      BY <1>8, <1>12, <2>1
    <3> QED BY <1>6, <1>9, <2>1, <3>1
  <2>2. CASE i # Len(r) + 1
    <3>1. i \in 1 .. Len(r)
      BY <1>8, <2>2
    <3> QED BY <1>2, <1>6, <1>9, <3>1
  <2> QED BY <2>1, <2>2
<1>14. Read' <= Len(recorded)' /\ 0 <= Executed'
  BY <1>1, <1>2, <1>3, <1>10
<1> HIDE DEF Executed, Read
<1>15. \A i \in 1 .. Len(ops') : ops'[i] = recorded'[Executed' + i]
  BY <1>1, <1>7, <1>10, <1>13
<1>16. op_chunk' \in Nat /\ (pc' = "read" <=> op_chunk' > 0) /\ pc' \in {"read", "run"}
  BY <1>2, <1>5
<1>17. offset' = HeaderLength + Len(WordsTo(Read)')
  BY <1>5, <1>11
<1>18. op_remaining' \in Nat /\ ops' \in Seq(Op) /\ todo' = <<>> /\ failures' = 0 /\ read' = header'
  BY <1>1, <1>2, <1>5, <1>7
<1> QED BY <1>10, <1>14, <1>15, <1>16, <1>17, <1>18 DEF Position

(* An operation that is executed is the next of the trace.                 *)
LEMMA CasePosition ==
  ASSUME GeneratorIInv, Position, UNCHANGED generator, NEW code, Case(code)
  PROVE  /\ Position' /\ Executed \in 0 .. Len(recorded) - 1 /\ Executed' = Executed + 1
         /\ Head(ops) = recorded[Executed + 1] /\ Head(ops) \in Op /\ Head(ops).code = code
<1>1. /\ recorded' = recorded /\ header' = header /\ todo' = todo /\ failures' = failures
      /\ Len(recorded) \in Nat
  BY DEF generator, GeneratorIInv, RecorderTypes
<1>2. /\ pc = "run" /\ pc' = pc /\ read' = read /\ offset' = offset
      /\ op_remaining' = op_remaining /\ op_chunk' = op_chunk
      /\ ops # <<>> /\ ops' = Tail(ops) /\ Head(ops).code = code
  BY DEF Case, reading
<1>3. /\ todo = <<>> /\ failures = 0 /\ read = header
      /\ op_remaining \in Nat /\ op_chunk = 0 /\ op_chunk \in Nat /\ ops \in Seq(Op)
      /\ offset = HeaderLength + Len(WordsTo(Read))
      /\ 0 <= Executed /\ Read <= Len(recorded)
      /\ \A i \in 1 .. Len(ops) : ops[i] = recorded[Executed + i]
  BY <1>2 DEF Position
<1>4. PICK r \in Seq(Op), s \in Seq(Op) : r = ops /\ s = Tail(r) /\ s = ops'
  BY <1>2, <1>3, HeadTailProperties
<1>5. /\ Len(r) \in Nat \ {0} /\ Len(s) = Len(r) - 1
      /\ \A i \in 1 .. Len(s) : s[i] = r[i + 1]
  BY <1>2, <1>4, HeadTailProperties
<1>6. Head(r) = r[1] /\ r[1] \in Op
  BY <1>4, <1>5, ElementOfSeq
<1>7. PICK l \in Nat, n \in Nat : l = Len(recorded) /\ l = Len(recorded') /\ n + 1 = Len(ops) /\ n = Len(ops')
  <2>1. PICK n \in Nat : n = Len(r) - 1
    BY <1>5
  <2>2. n + 1 = Len(r) /\ n = Len(s)
    BY <1>5, <2>1
  <2> QED BY <1>1, <1>4, <2>2
<1>8. Read = l - op_remaining /\ Read' = l - op_remaining
  BY <1>2, <1>3, <1>7 DEF Read
<1>9. Executed = Read - (n + 1) /\ Executed' = Read' - n
  BY <1>7 DEF Executed
<1>10. Read \in Int /\ Read' = Read /\ Executed' = Executed + 1 /\ Executed \in 0 .. Len(recorded) - 1
  <2> HIDE DEF Executed, Read
  <2> QED BY <1>3, <1>7, <1>8, <1>9
<1> HIDE DEF Executed, Read
<1>11. WordsTo(Read)' = WordsTo(Read)
  BY <1>10, WordsStay
<1>12. \A i \in 1 .. Len(ops') : ops'[i] = recorded'[Executed' + i]
  <2> SUFFICES ASSUME NEW i \in 1 .. Len(s) PROVE s[i] = recorded[Executed' + i]
    BY <1>1, <1>4
  <2>1. s[i] = r[i + 1] /\ i + 1 \in 1 .. Len(r)
    <3>1. PICK m \in Nat, k \in Nat : m = Len(r) /\ k = Len(s) /\ k = m - 1 /\ i \in 1 .. k
      BY <1>5, <1>7, <1>4
    <3>2. i + 1 \in 1 .. m
      BY <3>1
    <3> QED BY <1>5, <3>1, <3>2
  <2>2. r[i + 1] = recorded[Executed + (i + 1)]
    BY <1>3, <1>4, <2>1
  <2>3. Executed + (i + 1) = Executed' + i
    BY <1>10
  <2> QED BY <2>1, <2>2, <2>3
<1>13. Head(ops) = recorded[Executed + 1]
  BY <1>3, <1>4, <1>5, <1>6
<1>14. 0 <= Executed' /\ Read' <= Len(recorded)'
  BY <1>1, <1>3, <1>10
<1>15. ops' \in Seq(Op)
  BY <1>4
<1>16. Position'
  BY <1>1, <1>2, <1>3, <1>11, <1>12, <1>14, <1>15 DEF Position
<1> QED BY <1>2, <1>4, <1>6, <1>10, <1>13, <1>16

\* Between two iterations all of the trace has been executed.
LEMMA AtEnd ==
  ASSUME GeneratorIInv, Position, pc = "run", ops = <<>>, op_remaining = 0
  PROVE  Executed = Len(recorded) /\ op_chunk = 0
<1>1. op_chunk = 0 /\ Len(ops) = 0
  BY DEF Position
<1>2. Len(recorded) \in Nat
  BY DEF GeneratorIInv, RecorderTypes
<1>3. Read = Len(recorded)
  BY <1>1, <1>2 DEF Read
<1>4. Executed = Read - Len(ops)
  BY DEF Executed
<1> QED BY <1>1, <1>2, <1>3, <1>4

LEMMA FinishPosition ==
  ASSUME GeneratorIInv, Position, UNCHANGED generator, Finish
  PROVE  Position' /\ Executed' = Executed
<1>1. UNCHANGED <<read, op_remaining, op_chunk, ops, recorded, header, todo, failures>>
  BY DEF Finish, reading, generator
<1>2. Read' = Read /\ Executed' = Executed
  BY <1>1 DEF Read, Executed
<1>3. pc = "run" /\ pc' = "done"
  BY DEF Finish
<1> HIDE DEF Read, Executed
<1> QED BY <1>1, <1>2, <1>3 DEF Position

LEMMA StartChunkPosition ==
  ASSUME GeneratorIInv, Position, UNCHANGED generator, StartChunk
  PROVE  Position' /\ Executed' = Executed
<1>1. PICK length : /\ length = IF op_remaining < CHUNK_SIZE THEN op_remaining ELSE CHUNK_SIZE
                    /\ op_chunk' = length /\ op_remaining' = op_remaining - length
  BY DEF StartChunk
<1>2. /\ pc = "run" /\ pc' = "read" /\ op_remaining > 0 /\ ops = <<>>
      /\ UNCHANGED <<read, offset, ops, recorded, header, todo, failures>>
  BY DEF StartChunk, generator
<1>3. op_remaining \in Nat /\ op_chunk = 0
  BY <1>2 DEF Position
<1>4. length \in Nat \ {0} /\ length <= op_remaining
  BY <1>1, <1>2, <1>3, DriverAssumption
<1>5. PICK l \in Nat : l = Len(recorded) /\ l = Len(recorded')
  BY <1>2 DEF GeneratorIInv, RecorderTypes
<1>6. Read = l - op_remaining - op_chunk /\ Read' = l - op_remaining' - op_chunk'
  BY <1>5 DEF Read
<1>7. Read' = Read
  <2> HIDE DEF Read
  <2> QED BY <1>1, <1>3, <1>4, <1>6
<1>8. Executed' = Executed
  <2> HIDE DEF Read
  <2> QED BY <1>2, <1>7 DEF Executed
<1>9. WordsTo(Read)' = WordsTo(Read)
  BY <1>7, WordsStay
<1> HIDE DEF Read, Executed
<1>10. op_chunk' \in Nat /\ op_chunk' > 0 /\ op_remaining' \in Nat
  BY <1>1, <1>3, <1>4
<1> QED BY <1>2, <1>7, <1>8, <1>9, <1>10 DEF Position

LEMMA PositionStep ==
  ASSUME GeneratorIInv, Position, Next
  PROVE  Position'
<1>1. CASE Generate /\ UNCHANGED driver
  <2>1. pc = "off" /\ op_chunk = 0 /\ ops = <<>>
    BY <1>1, GeneratorRuns DEF Position
  <2> QED BY <1>1, <2>1 DEF Position, driver, reading
<1>2. CASE Replay /\ UNCHANGED generator
  <2>1. CASE Start
    <3>1. /\ todo = <<>> /\ failures = 0 /\ ops = <<>> /\ op_chunk = 0 /\ pc' = "run"
          /\ UNCHANGED <<ops, op_chunk>>
          /\ Iterate(mm_create(trace.file[1][1].node_ids))
      BY <2>1 DEF Start, Position
    <3> QED BY <1>2, <3>1, IteratePosition
  <2>2. CASE Again
    <3>1. /\ todo = <<>> /\ failures = 0 /\ ops = <<>> /\ op_chunk = 0 /\ pc' = "run"
          /\ UNCHANGED <<ops, op_chunk>> /\ Iterate(map)
      BY <2>2, AtEnd DEF Again, Position
    <3> QED BY <1>2, <3>1, IteratePosition
  <2>3. ASSUME NEW code, Case(code) PROVE Position'
    BY <1>2, <2>3, CasePosition
  <2> QED BY <1>2, <2>1, <2>2, <2>3, StartChunkPosition, ReadOpPosition, FinishPosition
             DEF Replay, Create, Destroy, Insert, DecreaseKey, FindMin, DeleteMin
<1> QED BY <1>1, <1>2 DEF Next

LEMMA PositionKept == Spec => [](GeneratorIInv /\ RecordedInOrder /\ Position)
<1>1. GeneratorIInv /\ Position /\ [Next]_vars => Position'
  <2> SUFFICES ASSUME GeneratorIInv, Position, UNCHANGED vars PROVE Position'
    BY PositionStep
  <2>1. UNCHANGED generator /\ UNCHANGED <<pc, read, offset, op_remaining, op_chunk, ops>>
    BY DEF vars, driver, reading
  <2>2. UNCHANGED <<recorded, header, todo, failures>>
    BY <2>1 DEF generator
  <2>3. Read' = Read /\ Executed' = Executed
    BY <2>1, <2>2 DEF Read, Executed
  <2>4. WordsTo(Read)' = WordsTo(Read)
    BY <2>1, <2>3, WordsStay
  <2> HIDE DEF Read, Executed
  <2> QED BY <2>1, <2>2, <2>3, <2>4 DEF Position
<1> QED BY RecordsAsBefore, GeneratorInvariant, RecordedStaysInOrder, InitPosition, <1>1, PTL DEF Spec

(* A trace that no call has failed on is never rejected: every operation   *)
(* is read back where the driver looks for it.                             *)
THEOREM NeverInvalid == Spec => [](pc # "invalid")
<1>1. Position => pc # "invalid"
  BY DEF Position
<1> QED BY <1>1, PositionKept, PTL

-----------------------------------------------------------------------------
(* The room that is left: Used nodes have been carved, or entries are in   *)
(* use, and an insertion that is still to come has a greater id.           *)
Used == IF simple THEN Len(queue) ELSE map.index_data

Room(used, done) ==
  /\ used \in Nat /\ used < header.node_ids
  /\ \A j \in 1 .. Len(recorded) :
       j > done /\ recorded[j].code = "insert" => used < recorded[j].node_id

Nodes(pool, q) ==
  /\ q \in [DOMAIN q -> Nat]
  /\ DOMAIN q \cap ToSet(pool.free) = {}
  /\ DOMAIN q \cup ToSet(pool.free) = 0 .. pool.index_data - 1

PoolType == [capacity : Nat, index_data : Nat, free : Seq(Nat)]

Pool ==
  /\ map \in PoolType /\ Distinct(map.free)
  /\ IF simple THEN IsHeap(queue) ELSE Nodes(map, queue)
  /\ simple => \A i \in 1 .. Len(recorded) : recorded[i].code # "decrease_key"
  /\ pc = "off" => ~ simple /\ DOMAIN queue = {} /\ map = mm_create(0)
  /\ pc # "off" => /\ map.capacity = header.node_ids /\ Room(Used, Executed)
                   /\ Executed \in {0, Len(recorded)} => DOMAIN queue = {}
                   /\ Executed = 0 => map.index_data = 0 /\ map.free = <<>>

\* A node is carved or taken from the stack, and comes back.
TakesNode(pool, q, key, node, r) ==
  /\ pool \in PoolType /\ Distinct(pool.free) /\ Nodes(pool, q) /\ key \in Nat
  /\ node = Allocated(pool)
  /\ r = [n \in DOMAIN q \cup {node} |-> IF n = node THEN key ELSE q[n]]

LEMMA Allocates ==
  ASSUME NEW pool, NEW q, NEW key, NEW node, NEW r, TakesNode(pool, q, key, node, r)
  PROVE  /\ node \in Nat /\ node \notin DOMAIN q
         /\ pq_alloc_node(pool) \in PoolType /\ Distinct(pq_alloc_node(pool).free)
         /\ pq_alloc_node(pool).capacity = pool.capacity
         /\ pq_alloc_node(pool).index_data <= pool.index_data + 1
         /\ Nodes(pq_alloc_node(pool), r)
<1> USE DEF TakesNode
<1>1. /\ q \in [DOMAIN q -> Nat] /\ DOMAIN q \cap ToSet(pool.free) = {}
      /\ DOMAIN q \cup ToSet(pool.free) = 0 .. pool.index_data - 1
      /\ pool.index_data \in Nat /\ pool.free \in Seq(Nat)
  BY DEF Nodes, PoolType
<1>2. CASE pool.free = <<>>
  <2>1. node = pool.index_data
    BY <1>2 DEF Allocated
  <2>2. ToSet(pool.free) = {}
    BY <1>2 DEF ToSet
  <2>3. PICK p : p = pq_alloc_node(pool)
    OBVIOUS
  <2>4. p = [pool EXCEPT !.index_data = pool.index_data + 1]
    BY <1>2, <2>3 DEF pq_alloc_node
  <2>5. /\ p \in PoolType /\ p.free = pool.free /\ p.capacity = pool.capacity
        /\ p.index_data = pool.index_data + 1
    <3>1. pool.index_data + 1 \in Nat /\ pool \in [capacity : Nat, index_data : Nat, free : Seq(Nat)]
      BY <1>1 DEF PoolType
    <3>2. p \in PoolType
      BY <2>4, <3>1 DEF PoolType
    <3> QED BY <2>4, <3>1, <3>2
  <2>6. DOMAIN q = 0 .. node - 1 /\ node \in Nat
    BY <1>1, <2>1, <2>2
  <2>7. node \notin DOMAIN q /\ DOMAIN q \cup {node} = 0 .. p.index_data - 1
    BY <2>1, <2>5, <2>6
  <2>8. DOMAIN r = DOMAIN q \cup {node} /\ r \in [DOMAIN r -> Nat]
    BY <1>1
  <2>9. Nodes(p, r)
    BY <2>2, <2>5, <2>7, <2>8 DEF Nodes
  <2> QED BY <1>1, <2>3, <2>5, <2>6, <2>7, <2>9
<1>3. CASE pool.free # <<>>
  <2>1. node = Last(pool.free)
    BY <1>3 DEF Allocated
  <2>2. /\ Front(pool.free) \in Seq(Nat) /\ Distinct(Front(pool.free)) /\ node \in Nat
        /\ node \in ToSet(pool.free) /\ ToSet(Front(pool.free)) = ToSet(pool.free) \ {node}
    BY <1>1, <1>3, <2>1, StackPop
  <2>3. PICK p : p = pq_alloc_node(pool)
    OBVIOUS
  <2>4. PICK f \in Seq(Nat) : f = Front(pool.free)
    BY <2>2
  <2>5. p = [pool EXCEPT !.free = f]
    BY <1>3, <2>3, <2>4 DEF pq_alloc_node
  <2>6. p \in PoolType /\ p.free = f /\ p.capacity = pool.capacity /\ p.index_data = pool.index_data
    BY <1>1, <2>5 DEF PoolType
  <2>7. node \notin DOMAIN q
    BY <1>1, <2>2
  <2>8. DOMAIN r = DOMAIN q \cup {node} /\ r \in [DOMAIN r -> Nat]
    BY <1>1
  <2>9. /\ DOMAIN r \cap ToSet(p.free) = {}
        /\ DOMAIN r \cup ToSet(p.free) = 0 .. p.index_data - 1
    BY <1>1, <2>2, <2>4, <2>6, <2>8
  <2>10. Nodes(p, r)
    BY <2>8, <2>9 DEF Nodes
  <2>11. p.index_data <= pool.index_data + 1
    BY <1>1, <2>6
  <2> QED BY <2>2, <2>3, <2>4, <2>6, <2>7, <2>10, <2>11
<1> QED BY <1>2, <1>3

LEMMA Frees ==
  ASSUME NEW pool \in PoolType, Distinct(pool.free), NEW q, Nodes(pool, q), NEW node \in DOMAIN q,
         NEW r, r = [n \in DOMAIN q \ {node} |-> q[n]]
  PROVE  /\ pq_free_node(pool, node) \in PoolType /\ Distinct(pq_free_node(pool, node).free)
         /\ pq_free_node(pool, node).capacity = pool.capacity
         /\ pq_free_node(pool, node).index_data = pool.index_data
         /\ Nodes(pq_free_node(pool, node), r)
<1>1. /\ q \in [DOMAIN q -> Nat] /\ DOMAIN q \cap ToSet(pool.free) = {}
      /\ DOMAIN q \cup ToSet(pool.free) = 0 .. pool.index_data - 1
      /\ pool.index_data \in Nat /\ pool.free \in Seq(Nat)
  BY DEF Nodes, PoolType
<1>2. node \in Nat /\ node \notin ToSet(pool.free)
  BY <1>1
<1>3. /\ Append(pool.free, node) \in Seq(Nat) /\ Distinct(Append(pool.free, node))
      /\ ToSet(Append(pool.free, node)) = ToSet(pool.free) \cup {node}
  BY <1>1, <1>2, StackPush
<1>4. PICK f \in Seq(Nat) : f = Append(pool.free, node)
  BY <1>3
<1>5. PICK p : p = pq_free_node(pool, node)
  OBVIOUS
<1>6. p = [pool EXCEPT !.free = f]
  BY <1>4, <1>5 DEF pq_free_node
<1>7. p \in PoolType /\ p.free = f /\ p.capacity = pool.capacity /\ p.index_data = pool.index_data
  BY <1>6 DEF PoolType
<1>8. DOMAIN r = DOMAIN q \ {node} /\ r \in [DOMAIN r -> Nat]
  BY <1>1
<1>9. /\ DOMAIN r \cap ToSet(p.free) = {}
      /\ DOMAIN r \cup ToSet(p.free) = 0 .. p.index_data - 1
  BY <1>1, <1>3, <1>4, <1>7, <1>8
<1>10. Nodes(p, r)
  BY <1>8, <1>9 DEF Nodes
<1> QED BY <1>3, <1>4, <1>5, <1>7, <1>10

\* In an empty pool there is room, and without a node it is as it should be.
LEMMA ClearedPool ==
  ASSUME NEW pool \in PoolType, NEW q, DOMAIN q = {}, q \in [{} -> Nat]
  PROVE  /\ mm_clear(pool) \in PoolType /\ mm_clear(pool).capacity = pool.capacity
         /\ mm_clear(pool).index_data = 0 /\ mm_clear(pool).free = <<>>
         /\ Distinct(mm_clear(pool).free) /\ Nodes(mm_clear(pool), q)
<1>1. PICK none \in Seq(Nat) : none = <<>> /\ Len(none) = 0
  <2>1. <<>> \in Seq(Nat) /\ Len(<<>>) = 0
    OBVIOUS
  <2> QED BY <2>1
<1>2. PICK p : p = mm_clear(pool)
  OBVIOUS
<1>3. p = [pool EXCEPT !.index_data = 0, !.free = none]
  BY <1>1, <1>2 DEF mm_clear
<1>4. p \in PoolType /\ p.capacity = pool.capacity /\ p.index_data = 0 /\ p.free = none
  BY <1>3 DEF PoolType
<1>5. ToSet(none) = {} /\ Distinct(none)
  BY <1>1 DEF ToSet, Distinct
<1>6. Nodes(p, q)
  BY <1>4, <1>5 DEF Nodes
<1> QED BY <1>1, <1>2, <1>4, <1>5, <1>6

LEMMA IdsAreNat ==
  ASSUME GeneratorIInv, NEW j \in 1 .. Len(recorded), recorded[j].code = "insert"
  PROVE  recorded[j].node_id \in Nat
<1>1. recorded[j] \in Op
  BY ElementOfSeq DEF GeneratorIInv, RecorderTypes
<1> QED BY <1>1 DEF Op

LEMMA RoomKept ==
  ASSUME GeneratorIInv, NEW u, NEW k \in Nat, Room(u, k), NEW v \in Nat, v <= u,
         NEW m \in Nat, k <= m
  PROVE  Room(v, m)
<1>1. header.node_ids \in Nat
  BY DEF GeneratorIInv, RecorderTypes, Header
<1>2. ASSUME NEW j \in 1 .. Len(recorded), j > m, recorded[j].code = "insert"
      PROVE  v < recorded[j].node_id
  <2>1. j > k /\ recorded[j].node_id \in Nat
    BY <1>2, IdsAreNat
  <2>2. u \in Nat /\ u < recorded[j].node_id
    BY <1>2, <2>1 DEF Room
  <2> QED BY <2>1, <2>2
<1> QED BY <1>1, <1>2 DEF Room

LEMMA RoomTaken ==
  ASSUME GeneratorIInv, RecordedInOrder, NEW k \in 0 .. Len(recorded) - 1, NEW u, Room(u, k),
         recorded[k + 1].code = "insert", NEW v \in Nat, v <= u + 1
  PROVE  Room(v, k + 1)
<1>1. header.node_ids \in Nat /\ Len(recorded) \in Nat /\ u \in Nat
  BY DEF GeneratorIInv, RecorderTypes, Header, Room
<1>2. k + 1 \in 1 .. Len(recorded) /\ k + 1 > k
  BY <1>1
<1>3. PICK id \in Nat : id = recorded[k + 1].node_id /\ u < id
  BY <1>2, IdsAreNat DEF Room
<1>4. newname \in Nat /\ newname <= header.node_ids /\ id < newname
  BY <1>2, <1>3 DEF RecordedInOrder, NamesRise
<1>5. ASSUME NEW j \in 1 .. Len(recorded), j > k + 1, recorded[j].code = "insert"
      PROVE  v < recorded[j].node_id
  <2>1. recorded[j].node_id \in Nat
    BY <1>5, IdsAreNat
  <2>2. k + 1 \in 1 .. j - 1
    BY <1>1, <1>5
  <2>3. id < recorded[j].node_id
    BY <1>3, <1>5, <2>2 DEF RecordedInOrder, NamesRise
  <2> QED BY <1>1, <1>3, <2>1, <2>3
<1>6. v < header.node_ids
  BY <1>1, <1>3, <1>4
<1> QED BY <1>5, <1>6 DEF Room

LEMMA RoomAtStart ==
  ASSUME GeneratorIInv, RecordedInOrder
  PROVE  Room(0, 0)
<1>1. header.node_ids \in Nat
  BY DEF GeneratorIInv, RecorderTypes, Header
<1>2. newname \in Nat \ {0} /\ newname <= header.node_ids
  BY DEF RecordedInOrder, NamesRise
<1>3. ASSUME NEW j \in 1 .. Len(recorded), recorded[j].code = "insert"
      PROVE  0 < recorded[j].node_id
  <2>1. 1 <= recorded[j].node_id /\ recorded[j].node_id \in Nat
    BY <1>3, IdsAreNat DEF RecordedInOrder, NamesRise
  <2> QED BY <2>1
<1> QED BY <1>1, <1>2, <1>3 DEF Room

\* What an operation has to see to.
LEMMA PoolCase ==
  ASSUME GeneratorIInv, RecordedInOrder, Position, Pool, UNCHANGED generator,
         NEW code, Case(code),
         map' \in PoolType, Distinct(map'.free), map'.capacity = map.capacity,
         IF simple THEN IsHeap(queue') ELSE Nodes(map', queue'),
         Used' \in Nat, Used' <= IF code = "insert" THEN Used + 1 ELSE Used,
         code = "destroy" => DOMAIN queue' = {}
  PROVE  Pool'
<1>1. PICK k \in 0 .. Len(recorded) - 1 :
        k = Executed /\ Executed' = k + 1 /\ recorded[k + 1].code = code
  BY CasePosition
<1>2. /\ recorded' = recorded /\ header' = header /\ todo' = todo /\ simple' = simple
      /\ pc = "run" /\ pc' = "run" /\ Len(recorded) \in Nat
  BY DEF generator, Case, GeneratorIInv, RecorderTypes
<1>3. Room(Used, k) /\ map.capacity = header.node_ids
  BY <1>1, <1>2 DEF Pool
<1>4. Room(Used', k + 1)
  <2> HIDE DEF Used
  <2>1. Used \in Nat /\ k \in Nat /\ k + 1 \in Nat /\ k <= k + 1
    BY <1>3 DEF Room
  <2>2. CASE code = "insert"
    BY <1>1, <1>3, <2>2, RoomTaken
  <2>3. CASE code # "insert"
    <3>1. Used' <= Used
      BY <2>3
    <3> QED BY <1>3, <2>1, <3>1, RoomKept
  <2> QED BY <2>2, <2>3
<1>5. Room(Used, Executed)'
  <2> HIDE DEF Used, Executed
  <2>1. Executed' = k + 1
    BY <1>1
  <2> QED BY <1>2, <1>4, <2>1 DEF Room
<1>6. Executed' \in {0, Len(recorded)'} => DOMAIN queue' = {}
  <2> HIDE DEF Executed
  <2> SUFFICES ASSUME Executed' \in {0, Len(recorded)'} PROVE code = "destroy"
    OBVIOUS
  <2>1. k + 1 = Len(recorded)
    BY <1>1, <1>2
  <2>2. todo = <<>>
    BY <1>2 DEF Position
  <2>3. recorded[Len(recorded)].code = "destroy"
    BY <2>2 DEF RecordedInOrder, DestroyedLast
  <2> QED BY <1>1, <2>1, <2>3
<1>7. Executed' # 0
  <2> HIDE DEF Executed
  <2> QED BY <1>1
<1>8. simple' => \A i \in 1 .. Len(recorded') : recorded'[i].code # "decrease_key"
  BY <1>2 DEF Pool
<1> HIDE DEF Used, Executed
<1> QED BY <1>2, <1>3, <1>5, <1>6, <1>7, <1>8 DEF Pool, IsHeap, Nodes, Distinct

LEMMA UsedIsNat ==
  ASSUME Pool
  PROVE  Used \in Nat /\ map.index_data \in Nat
<1>1. map.index_data \in Nat
  BY DEF Pool, PoolType
<1>2. simple => Len(queue) \in Nat
  BY DEF Pool, IsHeap
<1> QED BY <1>1, <1>2 DEF Used

LEMMA EmptyQueue ==
  /\ DOMAIN Empty = {}
  /\ IF simple THEN IsHeap(Empty) /\ Len(Empty) = 0 ELSE Empty \in [{} -> Nat]
<1>1. CASE simple
  <2>1. <<>> \in [{} -> Nat] /\ DOMAIN <<>> = {}
    OBVIOUS
  <2> QED BY <1>1, <2>1, EmptyHeap DEF Empty
<1>2. CASE ~ simple
  BY <1>2 DEF Empty
<1> QED BY <1>1, <1>2

LEMMA CreatePool ==
  ASSUME GeneratorIInv, RecordedInOrder, Position, Pool, UNCHANGED generator, Create
  PROVE  Pool'
<1>1. /\ Case("create") /\ simple' = simple /\ map' = map /\ queue' = Empty
  BY DEF Create, Case
<1>2. /\ Executed \in 0 .. Len(recorded) - 1 /\ recorded[Executed + 1].code = "create"
      /\ Len(recorded) \in Nat /\ pc = "run"
  BY <1>1, CasePosition DEF GeneratorIInv, RecorderTypes, Case
<1>3. Executed = 0
  <2> HIDE DEF Executed
  <2>1. Executed + 1 \in 1 .. Len(recorded)
    BY <1>2
  <2> QED BY <1>2, <2>1 DEF RecordedInOrder, CreatedFirst
<1>4. map.index_data = 0 /\ map.free = <<>> /\ map \in PoolType /\ Distinct(map.free)
  BY <1>2, <1>3 DEF Pool
<1>5. IF simple THEN IsHeap(queue') ELSE Nodes(map, queue')
  <2>1. ~ simple => Nodes(map, queue')
    <3>1. ToSet(map.free) = {}
      BY <1>4 DEF ToSet
    <3> QED BY <1>1, <1>4, <3>1, EmptyQueue DEF Nodes
  <2> QED BY <1>1, <2>1, EmptyQueue
<1>6. Used' = 0 /\ Used \in Nat
  BY <1>1, <1>4, UsedIsNat, EmptyQueue DEF Used
<1>7. Used' \in Nat /\ Used' <= Used
  <2> HIDE DEF Used
  <2> QED BY <1>6
<1> HIDE DEF Used
<1> QED BY <1>1, <1>4, <1>5, <1>7, PoolCase

LEMMA DestroyPool ==
  ASSUME GeneratorIInv, RecordedInOrder, Position, Pool, UNCHANGED generator, Destroy
  PROVE  Pool'
<1>1. Case("destroy") /\ simple' = simple /\ map' = mm_clear(map) /\ queue' = Empty
  BY DEF Destroy, Case
<1>2. map \in PoolType /\ Used \in Nat
  BY UsedIsNat DEF Pool
<1>3. PICK none : DOMAIN none = {} /\ none \in [{} -> Nat]
  <2>1. [x \in {} |-> 0] \in [{} -> Nat]
    OBVIOUS
  <2> QED BY <2>1
<1>4. /\ map' \in PoolType /\ map'.capacity = map.capacity
      /\ map'.index_data = 0 /\ Distinct(map'.free)
      /\ ~ simple => Nodes(map', Empty)
  BY <1>1, <1>2, <1>3, EmptyQueue, ClearedPool
<1>5. IF simple THEN IsHeap(queue') ELSE Nodes(map', queue')
  BY <1>1, <1>4, EmptyQueue
<1>6. Used' = 0
  BY <1>1, <1>4, EmptyQueue DEF Used
<1>7. Used' \in Nat /\ Used' <= Used /\ DOMAIN queue' = {}
  <2> HIDE DEF Used
  <2> QED BY <1>1, <1>2, <1>6, EmptyQueue
<1> HIDE DEF Used
<1> QED BY <1>1, <1>4, <1>5, <1>7, PoolCase

LEMMA InsertPool ==
  ASSUME GeneratorIInv, RecordedInOrder, Position, Pool, UNCHANGED generator, Insert
  PROVE  Pool'
<1>1. Case("insert") /\ simple' = simple
  BY DEF Insert, Case
<1>2. PICK key \in Nat : key = Head(ops).key
  <2>1. Head(ops) \in Op /\ Head(ops).code = "insert"
    BY <1>1, CasePosition
  <2> QED BY <2>1 DEF Op
<1>3. map \in PoolType /\ Distinct(map.free) /\ Used \in Nat
  BY UsedIsNat DEF Pool
<1>4. CASE simple
  <2>1. queue' = pq_insert(queue, key) /\ map' = map /\ IsHeap(queue)
    BY <1>2, <1>4 DEF Insert, Pool
  <2>2. IsHeap(queue') /\ Len(queue') = Len(queue) + 1
    BY <2>1, InsertAddsKey, Zenon
  <2>3. Used = Len(queue) /\ Used' = Len(queue')
    BY <1>1, <1>4 DEF Used
  <2>4. Used' = Used + 1
    BY <2>2, <2>3
  <2>5. Used' \in Nat /\ Used' <= Used + 1
    <3> HIDE DEF Used
    <3> QED BY <1>3, <2>4
  <2> HIDE DEF Used
  <2> QED BY <1>1, <1>3, <1>4, <2>1, <2>2, <2>5, PoolCase
<1>5. CASE ~ simple
  <2>1. PICK node : node = Allocated(map)
    OBVIOUS
  <2>2. /\ queue' = [n \in DOMAIN queue \cup {node} |-> IF n = node THEN key ELSE queue[n]]
        /\ map' = pq_alloc_node(map) /\ Nodes(map, queue)
    BY <1>2, <1>5, <2>1 DEF Insert, Pool
  <2>3. /\ map' \in PoolType /\ Distinct(map'.free) /\ map'.capacity = map.capacity
        /\ map'.index_data <= map.index_data + 1 /\ Nodes(map', queue')
    <3>1. /\ pq_alloc_node(map) \in PoolType /\ Distinct(pq_alloc_node(map).free)
          /\ pq_alloc_node(map).capacity = map.capacity
          /\ pq_alloc_node(map).index_data <= map.index_data + 1
          /\ Nodes(pq_alloc_node(map), queue')
      <4>1. TakesNode(map, queue, key, node, queue')
        BY <1>2, <1>3, <2>1, <2>2 DEF TakesNode
      <4> QED BY ONLY <4>1, Allocates
    <3> QED BY <2>2, <3>1
  <2>4. Used = map.index_data /\ Used' = map'.index_data
    BY <1>1, <1>5 DEF Used
  <2>5. Used' \in Nat /\ Used' <= Used + 1
    <3>1. map'.index_data \in Nat
      BY <2>3 DEF PoolType
    <3> QED BY <2>3, <2>4, <3>1
  <2> HIDE DEF Used
  <2> QED BY <1>1, <1>5, <2>3, <2>5, PoolCase
<1> QED BY <1>4, <1>5

LEMMA DecreaseKeyPool ==
  ASSUME GeneratorIInv, RecordedInOrder, Position, Pool, UNCHANGED generator, DecreaseKey
  PROVE  Pool'
<1>1. /\ Case("decrease_key") /\ simple' = simple /\ map' = map
      /\ queue' = [queue EXCEPT ![node_index[Head(ops).node_id]] = Head(ops).key]
  BY DEF DecreaseKey, Case
<1>2. PICK key \in Nat : key = Head(ops).key
  <2>1. Head(ops) \in Op /\ Head(ops).code = "decrease_key"
    BY <1>1, CasePosition
  <2> QED BY <2>1 DEF Op
<1>3. ~ simple
  <2>1. /\ Executed \in 0 .. Len(recorded) - 1 /\ Len(recorded) \in Nat
        /\ recorded[Executed + 1].code = "decrease_key"
    BY <1>1, CasePosition DEF GeneratorIInv, RecorderTypes
  <2>2. Executed + 1 \in 1 .. Len(recorded)
    <3> HIDE DEF Executed
    <3> QED BY <2>1
  <2> QED BY <2>1, <2>2 DEF Pool
<1>4. map \in PoolType /\ Distinct(map.free) /\ Used \in Nat /\ Nodes(map, queue)
  BY <1>3, UsedIsNat DEF Pool
<1>5. DOMAIN queue' = DOMAIN queue /\ queue' \in [DOMAIN queue' -> Nat]
  BY <1>1, <1>2, <1>4 DEF Nodes
<1>6. Nodes(map, queue')
  BY <1>4, <1>5 DEF Nodes
<1>7. Used' = Used
  BY <1>1, <1>3 DEF Used
<1>8. Used' \in Nat /\ Used' <= Used
  <2> HIDE DEF Used
  <2> QED BY <1>4, <1>7
<1> HIDE DEF Used
<1> QED BY <1>1, <1>3, <1>4, <1>6, <1>8, PoolCase

LEMMA FindMinPool ==
  ASSUME GeneratorIInv, RecordedInOrder, Position, Pool, UNCHANGED generator, FindMin
  PROVE  Pool'
<1>1. Case("find_min") /\ simple' = simple /\ map' = map /\ queue' = queue
  BY DEF FindMin, Case
<1>2. /\ map \in PoolType /\ Distinct(map.free) /\ Used \in Nat
      /\ IF simple THEN IsHeap(queue) ELSE Nodes(map, queue)
  BY UsedIsNat DEF Pool
<1>3. Used' = Used
  BY <1>1 DEF Used
<1>4. Used' \in Nat /\ Used' <= Used
  <2> HIDE DEF Used
  <2> QED BY <1>2, <1>3
<1> HIDE DEF Used
<1> QED BY <1>1, <1>2, <1>4, PoolCase

LEMMA DeleteMinPool ==
  ASSUME GeneratorIInv, RecordedInOrder, Position, Pool, UNCHANGED generator, DeleteMin
  PROVE  Pool'
<1>1. Case("delete_min") /\ simple' = simple
  BY DEF DeleteMin, Case
<1>2. map \in PoolType /\ Distinct(map.free) /\ Used \in Nat
  BY UsedIsNat DEF Pool
<1>3. CASE simple
  <2>1. queue' = pq_delete_min(queue) /\ map' = map /\ IsHeap(queue)
    BY <1>3 DEF DeleteMin, Pool
  <2>2. IsHeap(queue') /\ Len(queue') <= Len(queue) /\ Len(queue') \in Nat
    <3>1. CASE queue = <<>>
      <4>1. queue' = queue /\ Len(queue) \in Nat
        BY <2>1, <3>1, DeleteMinOfEmpty DEF IsHeap
      <4> QED BY <2>1, <4>1
    <3>2. CASE queue # <<>>
      <4>1. IsHeap(queue') /\ Len(queue') = Len(queue) - 1
        BY <2>1, <3>2, DeleteMinRemovesLeast, Zenon
      <4>2. Len(queue) \in Nat /\ Len(queue') \in Nat
        BY <2>1, <4>1 DEF IsHeap
      <4> QED BY <4>1, <4>2
    <3> QED BY <3>1, <3>2
  <2>3. Used = Len(queue) /\ Used' = Len(queue')
    BY <1>1, <1>3 DEF Used
  <2>4. Used' \in Nat /\ Used' <= Used
    BY <2>2, <2>3
  <2> HIDE DEF Used
  <2> QED BY <1>1, <1>2, <1>3, <2>1, <2>2, <2>4, PoolCase
<1>4. CASE ~ simple
  <2>1. PICK node \in DOMAIN queue : /\ queue' = [n \in DOMAIN queue \ {node} |-> queue[n]]
                                     /\ map' = pq_free_node(map, node)
    BY <1>4 DEF DeleteMin
  <2>2. Nodes(map, queue)
    BY <1>4 DEF Pool
  <2>3. /\ map' \in PoolType /\ Distinct(map'.free) /\ map'.capacity = map.capacity
        /\ map'.index_data = map.index_data /\ Nodes(map', queue')
    <3>1. /\ pq_free_node(map, node) \in PoolType /\ Distinct(pq_free_node(map, node).free)
          /\ pq_free_node(map, node).capacity = map.capacity
          /\ pq_free_node(map, node).index_data = map.index_data
          /\ Nodes(pq_free_node(map, node), queue')
      BY <1>2, <2>1, <2>2, Frees, Zenon
    <3> QED BY <2>1, <3>1
  <2>4. Used = map.index_data /\ Used' = map'.index_data
    BY <1>1, <1>4 DEF Used
  <2>5. Used' \in Nat /\ Used' <= Used
    <3>1. map.index_data \in Nat
      BY <1>2 DEF PoolType
    <3> QED BY <2>3, <2>4, <3>1
  <2> HIDE DEF Used
  <2> QED BY <1>1, <1>4, <2>3, <2>5, PoolCase
<1> QED BY <1>3, <1>4

\* Between two iterations the queue is without a node.
LEMMA IteratePool ==
  ASSUME GeneratorIInv, RecordedInOrder, UNCHANGED generator, pc' = "run", Executed' = 0,
         NEW pool \in PoolType, map' = mm_clear(pool), pool.capacity = header.node_ids,
         DOMAIN queue = {}, queue' = queue,
         simple' => \A i \in 1 .. Len(recorded) : recorded[i].code # "decrease_key",
         queue \in [{} -> Nat]
  PROVE  Pool'
<1>1. recorded' = recorded /\ header' = header
  BY DEF generator
<1>2. /\ map' \in PoolType /\ map'.capacity = header.node_ids
      /\ map'.index_data = 0 /\ map'.free = <<>>
      /\ Distinct(map'.free) /\ Nodes(map', queue')
  BY ClearedPool
<1>3. IsHeap(queue') /\ Len(queue') = 0
  BY EmptyHeap
<1>4. Used' = 0
  BY <1>2, <1>3 DEF Used
<1>5. Room(Used, Executed)'
  <2> HIDE DEF Used, Executed
  <2>1. Room(0, 0)
    BY RoomAtStart
  <2> QED BY <1>1, <1>4, <2>1 DEF Room
<1> HIDE DEF Used, Executed
<1> QED BY <1>1, <1>2, <1>3, <1>5 DEF Pool, IsHeap, Nodes, Distinct

LEMMA AgainPool ==
  ASSUME GeneratorIInv, RecordedInOrder, Position, Pool, UNCHANGED generator, Again
  PROVE  Pool'
<1>1. /\ pc = "run" /\ pc' = "run" /\ ops = <<>> /\ op_remaining = 0 /\ Iterate(map)
      /\ UNCHANGED <<ops, op_chunk>> /\ queue' = queue /\ simple' = simple
  BY DEF Again
<1>2. Executed = Len(recorded) /\ op_chunk = 0
  BY <1>1, AtEnd
<1>3. Executed' = 0
  <2>1. todo = <<>> /\ failures = 0
    BY <1>1 DEF Position
  <2> QED BY <1>1, <1>2, <2>1, IteratePosition
<1>4. /\ map \in PoolType /\ map.capacity = header.node_ids /\ DOMAIN queue = {}
      /\ simple => \A i \in 1 .. Len(recorded) : recorded[i].code # "decrease_key"
      /\ IF simple THEN IsHeap(queue) ELSE Nodes(map, queue)
  BY <1>1, <1>2 DEF Pool
<1>5. queue \in [{} -> Nat]
  <2>1. CASE simple
    <3>1. queue \in Seq(Nat)
      BY <1>4, <2>1 DEF IsHeap
    <3>2. queue \in [DOMAIN queue -> Nat]
      BY <3>1
    <3> QED BY <1>4, <3>2
  <2>2. CASE ~ simple
    BY <1>4, <2>2 DEF Nodes
  <2> QED BY <2>1, <2>2
<1>6. map' = mm_clear(map)
  BY <1>1 DEF Iterate
<1> HIDE DEF Executed
<1> QED BY <1>1, <1>3, <1>4, <1>5, <1>6, IteratePool

LEMMA StartPool ==
  ASSUME GeneratorIInv, RecordedInOrder, Position, Pool, UNCHANGED generator, Start
  PROVE  Pool'
<1>1. PICK pool : pool = mm_create(trace.file[1][1].node_ids)
  OBVIOUS
<1>2. /\ pc = "off" /\ pc' = "run" /\ todo = <<>> /\ failures = 0 /\ Iterate(pool)
      /\ UNCHANGED <<ops, op_chunk>> /\ queue' = queue
      /\ simple' => \A i \in DOMAIN recorded : recorded[i].code # "decrease_key"
  BY <1>1 DEF Start
<1>3. ops = <<>> /\ op_chunk = 0
  BY <1>2 DEF Position
<1>4. Executed' = 0
  BY <1>2, <1>3, IteratePosition
<1>5. pool \in PoolType /\ pool.capacity = header.node_ids
  <2>1. pool = mm_create(header.node_ids) /\ header.node_ids \in Nat
    BY <1>1, <1>2, FinishedTrace DEF GeneratorIInv, RecorderTypes, Header
  <2>2. <<>> \in Seq(Nat)
    OBVIOUS
  <2> QED BY <2>1, <2>2 DEF mm_create, PoolType
<1>6. DOMAIN queue = {} /\ queue \in [{} -> Nat]
  BY <1>2 DEF Pool, Nodes
<1>7. DOMAIN recorded = 1 .. Len(recorded)
  BY DEF GeneratorIInv, RecorderTypes
<1>8. map' = mm_clear(pool)
  BY <1>2 DEF Iterate
<1> HIDE DEF Executed
<1> QED BY <1>2, <1>4, <1>5, <1>6, <1>7, <1>8, IteratePool

\* Nothing of it changes.
LEMMA SamePool ==
  ASSUME GeneratorIInv, Pool, UNCHANGED <<recorded, header, simple, map, queue>>,
         Executed' = Executed, pc = "off" <=> pc' = "off"
  PROVE  Pool'
<1>1. Used' = Used
  BY DEF Used
<1>2. Room(Used, Executed) => Room(Used, Executed)'
  <2> HIDE DEF Used, Executed
  <2> QED BY <1>1 DEF Room
<1> HIDE DEF Used, Executed
<1> QED BY <1>1, <1>2 DEF Pool, IsHeap, Nodes, Distinct

LEMMA FinishPool ==
  ASSUME GeneratorIInv, RecordedInOrder, Position, Pool, UNCHANGED generator, Finish
  PROVE  Pool'
<1>1. /\ pc = "run" /\ pc' = "done" /\ ops = <<>> /\ op_remaining = 0 /\ simple' = simple
      /\ recorded' = recorded /\ header' = header
  BY DEF Finish, generator
<1>2. Executed' = Executed /\ Executed = Len(recorded)
  BY <1>1, FinishPosition, AtEnd
<1>3. CASE pq_index = NULL
  <2>1. map' = map /\ queue' = queue
    BY <1>3 DEF Finish
  <2> HIDE DEF Executed
  <2> QED BY <1>1, <1>2, <2>1, SamePool
<1>4. CASE pq_index # NULL
  <2>1. map' = mm_clear(map) /\ queue' = Empty /\ map \in PoolType /\ Used \in Nat
    BY <1>4, UsedIsNat DEF Finish, Pool
  <2>2. PICK none : DOMAIN none = {} /\ none \in [{} -> Nat]
    <3>1. [x \in {} |-> 0] \in [{} -> Nat]
      OBVIOUS
    <3> QED BY <3>1
  <2>3. /\ map' \in PoolType /\ map'.capacity = map.capacity
        /\ map'.index_data = 0 /\ map'.free = <<>> /\ Distinct(map'.free)
        /\ ~ simple => Nodes(map', Empty)
    BY <2>1, <2>2, EmptyQueue, ClearedPool
  <2>4. Used' = 0
    BY <1>1, <2>1, <2>3, EmptyQueue DEF Used
  <2>5. IF simple THEN IsHeap(queue') ELSE Nodes(map', queue')
    BY <2>1, <2>3, EmptyQueue
  <2>6. Room(Used', Executed)
    <3> HIDE DEF Used
    <3>1. Room(Used, Executed) /\ Executed \in Nat /\ Used' \in Nat /\ Used' <= Used
      <4>1. Len(recorded) \in Nat
        BY DEF GeneratorIInv, RecorderTypes
      <4>2. Room(Used, Executed)
        BY <1>1 DEF Pool
      <4> HIDE DEF Executed
      <4> QED BY <1>2, <2>1, <2>4, <4>1, <4>2
    <3> HIDE DEF Executed
    <3> QED BY <3>1, RoomKept
  <2>7. Room(Used, Executed)'
    <3> HIDE DEF Used, Executed
    <3> QED BY <1>1, <1>2, <2>6 DEF Room
  <2>8. DOMAIN queue' = {}
    BY <2>1, EmptyQueue
  <2>9. simple => \A i \in 1 .. Len(recorded) : recorded[i].code # "decrease_key"
    BY DEF Pool
  <2>10. map.capacity = header.node_ids
    BY <1>1 DEF Pool
  <2> HIDE DEF Used, Executed
  <2> QED BY <1>1, <2>3, <2>5, <2>7, <2>8, <2>9, <2>10 DEF Pool, IsHeap, Nodes, Distinct
<1> QED BY <1>3, <1>4

LEMMA InitPool == ReplayInit => Pool
<1> SUFFICES ASSUME ReplayInit PROVE Pool
  OBVIOUS
<1>1. pc = "off" /\ simple = FALSE /\ map = mm_create(0) /\ queue = Empty /\ recorded = <<>>
  BY DEF ReplayInit, Init
<1>2. PICK none \in Seq(Nat) : none = <<>> /\ Len(none) = 0
  <2>1. <<>> \in Seq(Nat) /\ Len(<<>>) = 0
    OBVIOUS
  <2> QED BY <2>1
<1>3. map = [capacity |-> 0, index_data |-> 0, free |-> none]
  BY <1>1, <1>2 DEF mm_create
<1>4. map \in PoolType /\ map.free = none /\ map.index_data = 0
  BY <1>3 DEF PoolType
<1>5. ToSet(none) = {} /\ Distinct(none)
  BY <1>2 DEF ToSet, Distinct
<1>6. DOMAIN queue = {} /\ queue \in [{} -> Nat]
  BY <1>1, EmptyQueue
<1>7. Nodes(map, queue)
  BY <1>4, <1>5, <1>6 DEF Nodes
<1> QED BY <1>1, <1>4, <1>5, <1>6, <1>7 DEF Pool

LEMMA PoolStep ==
  ASSUME GeneratorIInv, RecordedInOrder, Position, Pool, [Next]_vars
  PROVE  Pool'
<1>1. CASE Generate /\ UNCHANGED driver
  <2>1. pc = "off" /\ pc' = "off" /\ UNCHANGED <<simple, map, queue>>
    BY <1>1, GeneratorRuns DEF Position, driver
  <2> QED BY <2>1 DEF Pool, Nodes, Distinct
<1>2. CASE Replay /\ UNCHANGED generator
  <2>1. CASE StartChunk
    <3>1. UNCHANGED <<recorded, header, simple, map, queue>> /\ (pc = "off" <=> pc' = "off")
      BY <1>2, <2>1 DEF StartChunk, generator
    <3>2. Executed' = Executed
      BY <1>2, <2>1, StartChunkPosition
    <3> HIDE DEF Executed
    <3> QED BY <3>1, <3>2, SamePool
  <2>2. CASE ReadOp
    <3>1. Executed' = Executed /\ Position'
      BY <1>2, <2>2, ReadOpPosition
    <3>2. pc = "read" /\ pc' # "off"
      BY <2>2 DEF ReadOp
    <3>3. UNCHANGED <<recorded, header, simple, map, queue>>
      BY <1>2, <2>2 DEF ReadOp, generator
    <3> HIDE DEF Executed
    <3> QED BY <3>1, <3>2, <3>3, SamePool
  <2> QED BY <1>2, <2>1, <2>2, StartPool, AgainPool, FinishPool, CreatePool, DestroyPool,
             InsertPool, DecreaseKeyPool, FindMinPool, DeleteMinPool DEF Replay
<1>3. CASE UNCHANGED vars
  <2>1. UNCHANGED <<recorded, header, simple, map, queue, pc>>
    BY <1>3 DEF vars, driver, generator
  <2>2. UNCHANGED <<op_remaining, op_chunk, ops>>
    BY <1>3 DEF vars, driver, reading
  <2>3. Executed' = Executed
    BY <2>1, <2>2 DEF Executed, Read
  <2> HIDE DEF Executed
  <2> QED BY <2>1, <2>3, SamePool
<1> QED BY <1>1, <1>2, <1>3 DEF Next

LEMMA PoolKept == Spec => [](GeneratorIInv /\ RecordedInOrder /\ Position /\ Pool)
<1>1. GeneratorIInv /\ RecordedInOrder /\ Position /\ Pool /\ [Next]_vars => Pool'
  BY PoolStep
<1> QED BY PositionKept, InitPool, <1>1, PTL DEF Spec

(* As many nodes as the header of the trace has ids are enough, for the    *)
(* pool of a queue with handles and for the array of the implicit simple   *)
(* heap, and no node is handed out that is still in the queue, neither in  *)
(* the first iteration nor in a later one.                                 *)
THEOREM PoolAlwaysSuffices == Spec => []PoolSuffices
<1>1. ASSUME GeneratorIInv, Position, Pool PROVE PoolSuffices
  <2>1. CASE pc = "off"
    <3>1. ~ simple /\ map = mm_create(0) /\ Nodes(map, queue)
      BY <1>1, <2>1 DEF Pool
    <3> QED BY <3>1 DEF PoolSuffices, Nodes, mm_create
  <2>2. CASE pc # "off"
    <3>1. Used <= map.capacity
      <4>1. map.capacity = header.node_ids /\ Used \in Nat /\ Used < header.node_ids
        BY <1>1, <2>2 DEF Pool, Room
      <4>2. header.node_ids \in Nat
        BY <1>1 DEF GeneratorIInv, RecorderTypes, Header
      <4> HIDE DEF Used
      <4> QED BY <4>1, <4>2
    <3>2. CASE simple
      BY <3>1, <3>2 DEF PoolSuffices, Used
    <3>3. CASE ~ simple
      BY <1>1, <3>1, <3>3 DEF PoolSuffices, Used, Pool, Nodes
    <3> QED BY <3>2, <3>3
  <2> QED BY <2>1, <2>2
<1> QED BY PoolKept, <1>1, PTL

-----------------------------------------------------------------------------
(* The variables of the driver that the rest does not depend on.           *)
DriverTypes ==
  /\ pq_index \in {NULL, "queue"} /\ iterations \in 0 .. MaxIterations
  /\ \A id \in DOMAIN node_index : node_index[id] \in Nat \cup {NULL}
  /\ pc = "off" => iterations = 0

LEMMA DriverStep ==
  ASSUME GeneratorIInv, RecordedInOrder, Position, Pool, DriverTypes, [Next]_vars
  PROVE  DriverTypes'
<1> USE DEF DriverTypes
<1>1. CASE Generate /\ UNCHANGED driver
  BY <1>1 DEF driver, reading
<1>2. CASE UNCHANGED vars
  BY <1>2 DEF vars, driver, reading
<1>3. ASSUME NEW pool, Iterate(pool), iterations < MaxIterations, pc' = "run", pq_index' = pq_index,
             \A id \in DOMAIN node_index' : node_index'[id] \in Nat \cup {NULL}
      PROVE  DriverTypes'
  BY <1>3, DriverAssumption DEF Iterate
<1>4. ASSUME NEW code, Case(code) PROVE iterations' = iterations /\ pc' = "run"
  BY <1>4 DEF Case, reading
<1>5. CASE Start
  <2>1. iterations = 0 /\ pc' = "run" /\ pq_index' = pq_index
    BY <1>5 DEF Start
  <2>2. \A id \in DOMAIN node_index' : node_index'[id] \in Nat \cup {NULL}
    BY <1>5 DEF Start
  <2>3. iterations < MaxIterations
    BY <2>1, DriverAssumption
  <2> QED BY <1>3, <1>5, <2>1, <2>2, <2>3 DEF Start
<1>6. CASE Again
  BY <1>3, <1>6 DEF Again
<1>7. CASE StartChunk \/ ReadOp \/ Finish
  <2>1. UNCHANGED <<iterations, node_index>> /\ pc # "off" /\ pc' # "off"
    BY <1>7 DEF StartChunk, ReadOp, Finish, reading
  <2>2. pq_index' \in {NULL, "queue"}
    BY <1>7 DEF StartChunk, ReadOp, Finish
  <2> QED BY <2>1, <2>2
<1>8. CASE Create \/ Destroy \/ DecreaseKey \/ FindMin \/ DeleteMin
  <2>1. iterations' = iterations /\ pc' = "run"
    BY <1>4, <1>8 DEF Create, Destroy, DecreaseKey, FindMin, DeleteMin
  <2>2. pq_index' \in {NULL, "queue"} /\ node_index' = node_index
    BY <1>8 DEF Create, Destroy, DecreaseKey, FindMin, DeleteMin
  <2> QED BY <2>1, <2>2
<1>9. CASE Insert
  <2>1. iterations' = iterations /\ pc' = "run" /\ pq_index' = pq_index
    BY <1>4, <1>9 DEF Insert
  <2>2. PICK node \in Nat \cup {NULL} : node_index' = [node_index EXCEPT ![Head(ops).node_id] = node]
    <3>1. CASE simple
      BY <1>9, <3>1 DEF Insert
    <3>2. CASE ~ simple
      <4>1. Allocated(map) \in Nat
        <5>1. map \in PoolType /\ Distinct(map.free) /\ map.free # <<>> => Last(map.free) \in Nat
          BY StackPop DEF PoolType
        <5> QED BY <5>1 DEF Pool, PoolType, Allocated
      <4> QED BY <1>9, <3>2, <4>1 DEF Insert
    <3> QED BY <3>1, <3>2
  <2>3. \A id \in DOMAIN node_index' : node_index'[id] \in Nat \cup {NULL}
    BY <2>2
  <2> QED BY <2>1, <2>3
<1> QED BY <1>1, <1>2, <1>5, <1>6, <1>7, <1>8, <1>9 DEF Next, Replay

(* What is in the trace, the heap of the generator and the driver is what  *)
(* it should be, and the driver stops within the bound of its iterations.  *)
THEOREM DriverTypeCorrect == Spec => []TypeOK
<1>1. ReplayInit => DriverTypes
  BY DriverAssumption DEF ReplayInit, DriverTypes
<1>2. GeneratorIInv /\ RecordedInOrder /\ Position /\ Pool /\ DriverTypes /\ [Next]_vars => DriverTypes'
  BY DriverStep
<1>3. ASSUME GeneratorIInv, RecordedInOrder, Position, DriverTypes PROVE TypeOK
  <2>1. trace.offset \in 0 .. Len(trace.file)
    BY <1>3 DEF GeneratorIInv, RecorderTypes, WellFormed, Trace
  <2>2. \A i \in 1 .. Len(data) : data[i] \in Nat
    BY <1>3, ElementOfSeq DEF GeneratorIInv, HeapTyped
  <2>3. newname <= header.node_ids
    BY <1>3 DEF RecordedInOrder, NamesRise
  <2> QED BY <1>3, <2>1, <2>2, <2>3 DEF TypeOK, DriverTypes, Position
<1> QED BY PoolKept, <1>1, <1>2, <1>3, PTL DEF Spec

-----------------------------------------------------------------------------
(* The driver: what is in its queue, and what it has deleted, is what the  *)
(* keys along the trace say of the operations it has executed, and the     *)
(* handle of an id is the node with the key of that name.                  *)
Holds(keys) ==
  IF simple THEN Values(queue) = keys /\ Distinct(queue)
  ELSE /\ keys = {queue[n] : n \in DOMAIN queue}
       /\ \A n \in DOMAIN queue : name(queue[n]) \in DOMAIN node_index /\ node_index[name(queue[n])] = n

Follows(K, D) ==
  /\ pc = "off" => returned = <<>>
  /\ pc # "off" =>
       /\ returned \in Seq(Nat \cup {Nothing}) /\ Len(returned) = D[Executed]
       /\ \A i \in 1 .. Len(returned) : returned[i] = extracted[i]
       /\ DOMAIN node_index = 0 .. header.node_ids - 1
       /\ pc # "done" => Holds(K[Executed])

\* Operation k + 1 of the trace, op, is the one that is executed.
Executes(K, D, k, op) ==
  /\ Executed = k /\ Executed' = k + 1 /\ Head(ops) = op /\ op = recorded[k + 1]
  /\ k \in 0 .. Len(recorded) - 1 /\ k + 1 \in 1 .. Len(recorded)
  /\ pc = "run" /\ pc' = "run" /\ simple' = simple /\ recorded' = recorded
  /\ K[k] \in SUBSET Nat /\ NamesDiffer(K[k]) /\ Holds(K[k])
  /\ DOMAIN node_index = 0 .. header.node_ids - 1 /\ header \in Header
  /\ returned \in Seq(Nat \cup {Nothing}) /\ Len(returned) = D[k]
  /\ \A i \in 1 .. Len(returned) : returned[i] = extracted[i]
  /\ D[k + 1] \in Nat /\ D[k + 1] <= Len(extracted) /\ D[k + 1] = D[k] + DeletesOne(op)
  /\ extracted \in Seq(Nat \cup {Nothing})
  /\ Effect(op, K[k], K[k + 1], extracted[D[k + 1]])

LEMMA NextOp ==
  ASSUME GeneratorIInv, Position, UNCHANGED generator, NEW K, NEW D,
         KeysRecorded(K, D), Follows(K, D), NEW code, Case(code)
  PROVE  \E k \in Nat : \E op \in Op : Executes(K, D, k, op) /\ op.code = code
<1>1. PICK n \in Nat : n = Len(recorded) /\ header \in Header /\ recorded' = recorded
  BY DEF GeneratorIInv, RecorderTypes, generator
<1>2. PICK k \in 0 .. n - 1 : k = Executed /\ Executed' = k + 1
  BY <1>1, CasePosition
<1>3. PICK op \in Op : op = Head(ops) /\ op = recorded[k + 1] /\ op.code = code
  BY <1>2, CasePosition
<1>4. pc = "run" /\ pc' = "run" /\ simple' = simple
  BY DEF Case
<1>5. /\ returned \in Seq(Nat \cup {Nothing}) /\ Len(returned) = D[k]
      /\ \A i \in 1 .. Len(returned) : returned[i] = extracted[i]
      /\ DOMAIN node_index = 0 .. header.node_ids - 1 /\ Holds(K[k])
  <2> HIDE DEF Executed, Holds
  <2> QED BY <1>2, <1>4 DEF Follows
<1>6. k \in 0 .. n /\ k + 1 \in 0 .. n /\ k + 1 \in 1 .. n
  BY <1>1
<1>7. PICK r, x : r = recorded /\ x = extracted /\ Along(K, D, r, x)
  BY DEF KeysRecorded
<1>8. /\ x \in Seq(Nat \cup {Nothing}) /\ K[k] \in SUBSET Nat /\ NamesDiffer(K[k])
      /\ D[k + 1] \in 0 .. Len(x) /\ D[k + 1] = D[k] + DeletesOne(r[k + 1])
      /\ Effect(r[k + 1], K[k], K[k + 1], x[D[k + 1]])
  <2>1. Len(r) = n
    BY <1>1, <1>7
  <2> QED BY <1>6, <1>7, <2>1 DEF Along
<1>9. D[k + 1] \in Nat /\ D[k + 1] <= Len(x)
  BY <1>8
<1>10. Executes(K, D, k, op)
  <2> HIDE DEF Executed, Holds
  <2> QED BY <1>1, <1>2, <1>3, <1>4, <1>5, <1>6, <1>7, <1>8, <1>9 DEF Executes
<1> QED BY <1>3, <1>10

\* What an operation has to see to.
LEMMA OpFollows ==
  ASSUME UNCHANGED generator, NEW K, NEW D, NEW k \in Nat, NEW op \in Op, Executes(K, D, k, op),
         DOMAIN node_index' = DOMAIN node_index, Holds(K[k + 1])',
         returned' = IF op.code = "delete_min" THEN Append(returned, extracted[D[k + 1]]) ELSE returned
  PROVE  Follows(K, D)'
<1>1. /\ Executed' = k + 1 /\ pc' = "run" /\ DOMAIN node_index' = 0 .. header'.node_ids - 1
      /\ extracted' = extracted
  BY DEF Executes, generator
<1>2. PICK m \in Nat, l \in Nat : /\ m = Len(returned) /\ l = Len(extracted)
                                  /\ D[k] = m /\ D[k + 1] = m + DeletesOne(op) /\ D[k + 1] <= l
  BY DEF Executes
<1>3. PICK r \in Seq(Nat \cup {Nothing}), x \in Seq(Nat \cup {Nothing}) :
        r = returned /\ x = extracted /\ \A i \in 1 .. m : r[i] = x[i]
  BY <1>2 DEF Executes
<1>4. /\ returned' \in Seq(Nat \cup {Nothing}) /\ Len(returned') = D[k + 1]
      /\ \A i \in 1 .. Len(returned') : returned'[i] = x[i]
  <2>1. CASE op.code = "delete_min"
    <3>1. D[k + 1] = m + 1 /\ m + 1 \in 1 .. l
      BY <1>2, <2>1 DEF DeletesOne
    <3>2. PICK key \in Nat \cup {Nothing} : key = x[m + 1]
      BY <1>2, <1>3, <3>1, ElementOfSeq
    <3>3. returned' = Append(r, key)
      BY <1>3, <2>1, <3>1, <3>2
    <3>4. /\ Append(r, key) \in Seq(Nat \cup {Nothing}) /\ Len(Append(r, key)) = m + 1
          /\ Append(r, key)[m + 1] = key /\ \A i \in 1 .. m : Append(r, key)[i] = r[i]
      BY <1>2, <1>3, AppendProperties
    <3> QED BY <1>3, <3>1, <3>2, <3>3, <3>4
  <2>2. CASE op.code # "delete_min"
    BY <1>2, <1>3, <2>2 DEF DeletesOne
  <2> QED BY <2>1, <2>2
<1> HIDE DEF Executed, Holds
<1> QED BY <1>1, <1>3, <1>4 DEF Follows

LEMMA NothingHeld ==
  ASSUME NEW q, DOMAIN q = {}, q \in [{} -> Nat], queue' = q
  PROVE  Holds({})'
<1>1. IsHeap(q) /\ Len(q) = 0
  BY EmptyHeap
<1>2. Values(q) = {} /\ Distinct(q)
  BY <1>1 DEF Values, Distinct
<1> QED BY <1>2 DEF Holds

LEMMA EmptyHolds ==
  ASSUME queue' = Empty
  PROVE  Holds({})'
<1>1. DOMAIN Empty = {} /\ Empty \in [{} -> Nat]
  BY EmptyQueue DEF IsHeap
<1> QED BY <1>1, NothingHeld

LEMMA EmptiedFollows ==
  ASSUME GeneratorIInv, Position, UNCHANGED generator, NEW K, NEW D,
         KeysRecorded(K, D), Follows(K, D), Create \/ Destroy
  PROVE  Follows(K, D)'
<1>1. PICK code : /\ code \in {"create", "destroy"} /\ Case(code) /\ queue' = Empty
                  /\ node_index' = node_index /\ returned' = returned
  BY DEF Create, Destroy
<1>2. PICK k \in Nat, op \in Op : Executes(K, D, k, op) /\ op.code = code
  BY <1>1, NextOp
<1>3. K[k + 1] = {}
  BY <1>1, <1>2 DEF Executes, Effect
<1>4. Holds(K[k + 1])'
  BY <1>1, <1>3, EmptyHolds
<1> QED BY <1>1, <1>2, <1>4, OpFollows

LEMMA FindMinFollows ==
  ASSUME GeneratorIInv, Position, UNCHANGED generator, NEW K, NEW D,
         KeysRecorded(K, D), Follows(K, D), FindMin
  PROVE  Follows(K, D)'
<1>1. Case("find_min") /\ UNCHANGED <<queue, node_index, returned>>
  BY DEF FindMin
<1>2. PICK k \in Nat, op \in Op : Executes(K, D, k, op) /\ op.code = "find_min"
  BY <1>1, NextOp
<1>3. K[k + 1] = K[k] /\ simple' = simple /\ Holds(K[k])
  BY <1>2 DEF Executes, Effect
<1>4. Holds(K[k + 1])'
  BY <1>1, <1>3 DEF Holds
<1> QED BY <1>1, <1>2, <1>4, OpFollows

LEMMA InsertFollows ==
  ASSUME GeneratorIInv, RecordedInOrder, Position, Pool, UNCHANGED generator, NEW K, NEW D,
         KeysRecorded(K, D), Follows(K, D), Insert
  PROVE  Follows(K, D)'
<1>1. Case("insert") /\ returned' = returned
  BY DEF Insert
<1>2. PICK k \in Nat, op \in Op : Executes(K, D, k, op) /\ op.code = "insert"
  BY <1>1, NextOp
<1>3. PICK key \in Nat, id \in Nat : key = op.key /\ id = op.node_id
  BY <1>2 DEF Op
<1>4. PICK before, after :
        /\ before = K[k] /\ after = K[k + 1] /\ before \in SUBSET Nat /\ Holds(before)
        /\ name(key) = id /\ (\A v \in before : name(v) # id) /\ after = before \cup {key}
  BY <1>2, <1>3 DEF Executes, Effect
<1>5. Head(ops) = op /\ simple' = simple /\ key \notin before
  BY <1>2, <1>4 DEF Executes
<1>6. id \in DOMAIN node_index
  <2>1. /\ recorded[k + 1] = op /\ k + 1 \in 1 .. Len(recorded)
        /\ DOMAIN node_index = 0 .. header.node_ids - 1 /\ header.node_ids \in Nat
    BY <1>2 DEF Executes, Header
  <2>2. newname \in Nat /\ newname <= header.node_ids /\ 1 <= id /\ id < newname
    BY <1>2, <1>3, <2>1 DEF RecordedInOrder, NamesRise
  <2> QED BY <2>1, <2>2
<1>7. CASE simple
  <2>1. queue' = pq_insert(queue, key) /\ IsHeap(queue)
    BY <1>3, <1>5, <1>7 DEF Insert, Pool
  <2>2. Values(queue) = before /\ Distinct(queue)
    BY <1>4, <1>7 DEF Holds
  <2>3. Values(queue') = after /\ Distinct(queue')
    BY <1>4, <1>5, <2>1, <2>2, InsertAddsKey
  <2>4. Holds(after)' /\ DOMAIN node_index' = DOMAIN node_index
    BY <1>5, <1>7, <2>3 DEF Holds, Insert
  <2> QED BY <1>1, <1>2, <1>4, <2>4, OpFollows
<1>8. CASE ~ simple
  <2>1. PICK node : /\ node = Allocated(map)
                    /\ queue' = [n \in DOMAIN queue \cup {node} |-> IF n = node THEN key ELSE queue[n]]
                    /\ node_index' = [node_index EXCEPT ![id] = node]
    BY <1>3, <1>5, <1>8 DEF Insert
  <2>2. node \notin DOMAIN queue
    <3>1. TakesNode(map, queue, key, node, queue')
      BY <1>8, <2>1 DEF TakesNode, Pool
    <3> QED BY ONLY <3>1, Allocates
  <2>3. /\ before = {queue[n] : n \in DOMAIN queue}
        /\ \A n \in DOMAIN queue : name(queue[n]) \in DOMAIN node_index /\ node_index[name(queue[n])] = n
    BY <1>4, <1>8 DEF Holds
  <2>4. /\ DOMAIN queue' = DOMAIN queue \cup {node} /\ queue'[node] = key
        /\ \A n \in DOMAIN queue : queue'[n] = queue[n]
    BY <2>1, <2>2
  <2>5. after = {queue'[n] : n \in DOMAIN queue'}
    BY <1>4, <2>3, <2>4
  <2>6. DOMAIN node_index' = DOMAIN node_index
    BY <2>1
  <2>7. ASSUME NEW n \in DOMAIN queue'
        PROVE  name(queue'[n]) \in DOMAIN node_index' /\ node_index'[name(queue'[n])] = n
    <3>1. CASE n = node
      BY <1>4, <1>6, <2>1, <2>4, <2>6, <3>1
    <3>2. CASE n # node
      <4>1. n \in DOMAIN queue /\ queue'[n] = queue[n]
        BY <2>4, <3>2
      <4>2. name(queue[n]) # id /\ name(queue[n]) \in DOMAIN node_index /\ node_index[name(queue[n])] = n
        BY <1>4, <2>3, <4>1
      <4> QED BY <2>1, <2>6, <4>1, <4>2
    <3> QED BY <3>1, <3>2
  <2>8. Holds(after)'
    BY <1>5, <1>8, <2>5, <2>7 DEF Holds
  <2> QED BY <1>1, <1>2, <1>4, <2>6, <2>8, OpFollows
<1> QED BY <1>7, <1>8

LEMMA DecreaseKeyFollows ==
  ASSUME GeneratorIInv, Position, Pool, UNCHANGED generator, NEW K, NEW D,
         KeysRecorded(K, D), Follows(K, D), DecreaseKey
  PROVE  Follows(K, D)'
<1>1. Case("decrease_key") /\ node_index' = node_index /\ returned' = returned
  BY DEF DecreaseKey
<1>2. PICK k \in Nat, op \in Op : Executes(K, D, k, op) /\ op.code = "decrease_key"
  BY <1>1, NextOp
<1>3. PICK key \in Nat, id \in Nat : key = op.key /\ id = op.node_id
  BY <1>2 DEF Op
<1>4. PICK before, after :
        /\ before = K[k] /\ after = K[k + 1] /\ before \in SUBSET Nat /\ Holds(before)
        /\ name(key) = id
        /\ \E v \in before : name(v) = id /\ after = (before \ {v}) \cup {key}
  BY <1>2, <1>3 DEF Executes, Effect
<1>5. PICK v \in before : name(v) = id /\ after = (before \ {v}) \cup {key}
  BY <1>4
<1>6. Head(ops) = op /\ simple' = simple /\ ~ simple
  <2>1. recorded[k + 1] = op /\ k + 1 \in 1 .. Len(recorded) /\ Head(ops) = op /\ simple' = simple
    BY <1>2 DEF Executes
  <2> QED BY <1>2, <2>1 DEF Pool
<1>7. /\ before = {queue[n] : n \in DOMAIN queue}
      /\ \A n \in DOMAIN queue : name(queue[n]) \in DOMAIN node_index /\ node_index[name(queue[n])] = n
  BY <1>4, <1>6 DEF Holds
<1>8. PICK node \in DOMAIN queue : queue[node] = v /\ node_index[id] = node
  BY <1>5, <1>7
<1>9. queue' = [queue EXCEPT ![node] = key]
  BY <1>3, <1>6, <1>8 DEF DecreaseKey
<1>10. /\ DOMAIN queue' = DOMAIN queue /\ queue'[node] = key
       /\ \A n \in DOMAIN queue : n # node => queue'[n] = queue[n]
  BY <1>9
<1>11. \A n \in DOMAIN queue : queue[n] = v => n = node
  BY <1>5, <1>7, <1>8
<1>12. after = {queue'[n] : n \in DOMAIN queue'}
  <2>1. before \ {v} = {queue[n] : n \in DOMAIN queue \ {node}}
    BY <1>7, <1>8, <1>11
  <2> QED BY <1>5, <1>10, <2>1
<1>13. ASSUME NEW n \in DOMAIN queue'
       PROVE  name(queue'[n]) \in DOMAIN node_index' /\ node_index'[name(queue'[n])] = n
  BY <1>1, <1>4, <1>5, <1>7, <1>8, <1>10
<1>14. Holds(after)'
  BY <1>6, <1>12, <1>13 DEF Holds
<1> QED BY <1>1, <1>2, <1>4, <1>14, OpFollows

LEMMA DeleteMinFollows ==
  ASSUME GeneratorIInv, Position, Pool, UNCHANGED generator, NEW K, NEW D,
         KeysRecorded(K, D), Follows(K, D), DeleteMin
  PROVE  Follows(K, D)'
<1>1. Case("delete_min") /\ node_index' = node_index
  BY DEF DeleteMin
<1>2. PICK k \in Nat, op \in Op : Executes(K, D, k, op) /\ op.code = "delete_min"
  BY <1>1, NextOp
<1>3. PICK before, after, key :
        /\ before = K[k] /\ after = K[k + 1] /\ before \in SUBSET Nat /\ Holds(before)
        /\ key = extracted[D[k + 1]] /\ Deleted(before, after, key)
  BY <1>2 DEF Executes, Effect
<1>4. simple' = simple
  BY <1>2 DEF Executes
<1>5. CASE simple
  <2>1. /\ queue' = pq_delete_min(queue) /\ returned' = Append(returned, queue[1])
        /\ IsHeap(queue) /\ queue \in Seq(Nat)
    BY <1>5 DEF DeleteMin, Pool, IsHeap
  <2>2. Values(queue) = before /\ Distinct(queue)
    BY <1>3, <1>5 DEF Holds
  <2>3. queue[1] = key /\ Values(queue') = after /\ Distinct(queue')
    <3>1. CASE queue = <<>>
      <4>1. Len(queue) = 0
        BY <3>1
      <4>2. before = {}
        BY <2>2, <4>1 DEF Values
      <4> QED BY <1>3, <2>1, <2>2, <3>1, <4>2, DeleteMinOfEmpty DEF Deleted, Nothing
    <3>2. CASE queue # <<>>
      <4>1. 1 \in 1 .. Len(queue)
        BY <2>1, <3>2
      <4>2. queue[1] \in before
        BY <2>2, <4>1 DEF Values
      <4>3. key \in before /\ (\A v \in before : key <= v) /\ after = before \ {key}
        BY <1>3, <4>2 DEF Deleted
      <4>4. \A v \in before : queue[1] <= v
        BY <2>1, <2>2, <3>2, DeleteMinRemovesLeast, Zenon
      <4>5. queue[1] = key
        <5>1. queue[1] \in Nat /\ key \in Nat /\ queue[1] <= key /\ key <= queue[1]
          BY <1>3, <4>2, <4>3, <4>4
        <5> QED BY <5>1
      <4>6. Values(queue') = before \ {queue[1]} /\ Distinct(queue')
        BY <2>1, <2>2, <3>2, DeleteMinRemovesLeast, Zenon
      <4> QED BY <4>3, <4>5, <4>6
    <3> QED BY <3>1, <3>2
  <2>4. Holds(after)'
    BY <1>4, <1>5, <2>3 DEF Holds
  <2> QED BY <1>1, <1>2, <1>3, <2>1, <2>3, <2>4, OpFollows
<1>6. CASE ~ simple
  <2>1. PICK node \in DOMAIN queue :
          /\ \A n \in DOMAIN queue : queue[node] <= queue[n]
          /\ queue' = [n \in DOMAIN queue \ {node} |-> queue[n]]
          /\ returned' = Append(returned, queue[node])
    BY <1>6 DEF DeleteMin
  <2>2. /\ before = {queue[n] : n \in DOMAIN queue}
        /\ \A n \in DOMAIN queue : name(queue[n]) \in DOMAIN node_index /\ node_index[name(queue[n])] = n
    BY <1>3, <1>6 DEF Holds
  <2>3. key \in before /\ (\A v \in before : key <= v) /\ after = before \ {key}
    BY <1>3, <2>1, <2>2 DEF Deleted
  <2>4. queue[node] = key
    <3>1. queue[node] \in before
      BY <2>2
    <3>2. \A v \in before : queue[node] <= v
      BY <2>1, <2>2
    <3>3. queue[node] \in Nat /\ key \in Nat /\ queue[node] <= key /\ key <= queue[node]
      BY <1>3, <2>3, <3>1, <3>2
    <3> QED BY <3>3
  <2>5. \A n \in DOMAIN queue : queue[n] = key => n = node
    BY <2>2, <2>4
  <2>6. DOMAIN queue' = DOMAIN queue \ {node} /\ \A n \in DOMAIN queue' : queue'[n] = queue[n]
    BY <2>1
  <2>7. after = {queue'[n] : n \in DOMAIN queue'}
    BY <2>2, <2>3, <2>4, <2>5, <2>6
  <2>8. \A n \in DOMAIN queue' : name(queue'[n]) \in DOMAIN node_index' /\ node_index'[name(queue'[n])] = n
    BY <1>1, <2>2, <2>6
  <2>9. Holds(after)'
    BY <1>4, <1>6, <2>7, <2>8 DEF Holds
  <2> QED BY <1>1, <1>2, <1>3, <2>1, <2>4, <2>9, OpFollows
<1> QED BY <1>5, <1>6

-----------------------------------------------------------------------------
\* An iteration begins, without a key in the queue.
LEMMA IterateFollows ==
  ASSUME GeneratorIInv, UNCHANGED generator, NEW K, NEW D, KeysRecorded(K, D),
         pc' = "run", Executed' = 0, returned' = <<>>,
         DOMAIN node_index' = 0 .. header.node_ids - 1,
         DOMAIN queue = {}, queue \in [{} -> Nat], queue' = queue
  PROVE  Follows(K, D)'
<1>1. K[0] = {} /\ D[0] = 0
  BY DEF KeysRecorded, Along
<1>2. Holds({})'
  BY NothingHeld
<1>3. <<>> \in Seq(Nat \cup {Nothing}) /\ Len(<<>>) = 0
  OBVIOUS
<1>4. header' = header
  BY DEF generator
<1> HIDE DEF Executed, Holds
<1> QED BY <1>1, <1>2, <1>3, <1>4 DEF Follows

\* Nothing the driver has done changes.
LEMMA SameFollows ==
  ASSUME UNCHANGED generator, NEW K, NEW D, Follows(K, D), Executed' = Executed,
         UNCHANGED <<node_index, returned>>, pc # "off",
         pc' # "done" => pc # "done" /\ UNCHANGED <<simple, queue>>, pc' # "off"
  PROVE  Follows(K, D)'
<1>1. extracted' = extracted /\ header' = header
  BY DEF generator
<1>2. pc' # "done" => pc # "done" /\ (Holds(K[Executed]) => Holds(K[Executed])')
  <2>1. pc' # "done" => \A keys : Holds(keys) => Holds(keys)'
    BY DEF Holds
  <2> HIDE DEF Executed, Holds
  <2>2. PICK k : k = Executed /\ k = Executed'
    OBVIOUS
  <2>3. Holds(K[k])' => Holds(K[Executed])'
    BY <2>2 DEF Holds
  <2> QED BY <2>1, <2>2, <2>3
<1> HIDE DEF Executed, Holds
<1> QED BY <1>1, <1>2 DEF Follows

LEMMA StartFollows ==
  ASSUME GeneratorIInv, Position, Pool, UNCHANGED generator, NEW K, NEW D, KeysRecorded(K, D), Start
  PROVE  Follows(K, D)'
<1>1. PICK pool : pool = mm_create(trace.file[1][1].node_ids)
  OBVIOUS
<1>2. /\ pc = "off" /\ pc' = "run" /\ todo = <<>> /\ failures = 0 /\ Iterate(pool)
      /\ UNCHANGED <<ops, op_chunk>> /\ queue' = queue
      /\ DOMAIN node_index' = 0 .. trace.file[1][1].node_ids - 1
  BY <1>1 DEF Start
<1>3. ops = <<>> /\ op_chunk = 0
  BY <1>2 DEF Position
<1>4. Executed' = 0
  BY <1>2, <1>3, IteratePosition
<1>5. DOMAIN queue = {} /\ queue \in [{} -> Nat]
  BY <1>2 DEF Pool, Nodes
<1>6. trace.file[1][1] = header
  BY <1>2, FinishedTrace
<1>7. returned' = <<>>
  BY <1>2 DEF Iterate
<1> HIDE DEF Executed
<1> QED BY <1>2, <1>4, <1>5, <1>6, <1>7, IterateFollows

LEMMA AgainFollows ==
  ASSUME GeneratorIInv, Position, Pool, UNCHANGED generator, NEW K, NEW D,
         KeysRecorded(K, D), Follows(K, D), Again
  PROVE  Follows(K, D)'
<1>1. /\ pc = "run" /\ pc' = "run" /\ ops = <<>> /\ op_remaining = 0 /\ Iterate(map)
      /\ UNCHANGED <<ops, op_chunk>> /\ queue' = queue /\ node_index' = node_index
  BY DEF Again
<1>2. Executed = Len(recorded) /\ op_chunk = 0
  BY <1>1, AtEnd
<1>3. Executed' = 0
  <2>1. todo = <<>> /\ failures = 0
    BY <1>1 DEF Position
  <2> QED BY <1>1, <1>2, <2>1, IteratePosition
<1>4. DOMAIN queue = {} /\ IF simple THEN IsHeap(queue) ELSE Nodes(map, queue)
  BY <1>1, <1>2 DEF Pool
<1>5. queue \in [{} -> Nat]
  <2>1. CASE simple
    <3>1. queue \in Seq(Nat)
      BY <1>4, <2>1 DEF IsHeap
    <3>2. queue \in [DOMAIN queue -> Nat]
      BY <3>1
    <3> QED BY <1>4, <3>2
  <2>2. CASE ~ simple
    BY <1>4, <2>2 DEF Nodes
  <2> QED BY <2>1, <2>2
<1>6. DOMAIN node_index' = 0 .. header.node_ids - 1
  BY <1>1 DEF Follows
<1>7. returned' = <<>>
  BY <1>1 DEF Iterate
<1> HIDE DEF Executed
<1> QED BY <1>1, <1>3, <1>4, <1>5, <1>6, <1>7, IterateFollows

LEMMA ReplayFollows ==
  ASSUME GeneratorIInv, RecordedInOrder, Position, Pool, UNCHANGED generator, NEW K, NEW D,
         KeysRecorded(K, D), Follows(K, D), Replay
  PROVE  Follows(K, D)'
<1>1. CASE StartChunk
  <2>1. /\ pc = "run" /\ pc' = "read" /\ UNCHANGED <<node_index, returned, simple, queue>>
    BY <1>1 DEF StartChunk
  <2>2. Executed' = Executed
    BY <1>1, StartChunkPosition
  <2> HIDE DEF Executed
  <2> QED BY <2>1, <2>2, SameFollows
<1>2. CASE ReadOp
  <2>1. /\ pc = "read" /\ pc' # "off" /\ UNCHANGED <<node_index, returned, simple, queue>>
    BY <1>2 DEF ReadOp
  <2>2. Executed' = Executed
    BY <1>2, ReadOpPosition
  <2> HIDE DEF Executed
  <2> QED BY <2>1, <2>2, SameFollows
<1>3. CASE Finish
  <2>1. pc = "run" /\ pc' = "done" /\ UNCHANGED <<node_index, returned>>
    BY <1>3 DEF Finish
  <2>2. Executed' = Executed
    BY <1>3, FinishPosition
  <2> HIDE DEF Executed
  <2> QED BY <2>1, <2>2, SameFollows
<1> QED BY <1>1, <1>2, <1>3, StartFollows, AgainFollows, EmptiedFollows, FindMinFollows,
           InsertFollows, DecreaseKeyFollows, DeleteMinFollows DEF Replay

(* What the driver has in its queue at each step of the trace.             *)
Replayed == NamesLeft /\ HeapKeys /\ \E K, D : KeysRecorded(K, D) /\ Follows(K, D)

LEMMA InitReplayed == ReplayInit => Replayed
<1> SUFFICES ASSUME ReplayInit PROVE Replayed
  OBVIOUS
<1>1. GeneratorKeys
  BY InitKeys DEF ReplayInit
<1>2. \A K, D : Follows(K, D)
  BY DEF ReplayInit, Follows
<1> QED BY <1>1, <1>2 DEF GeneratorKeys, Replayed

LEMMA ReplayedStep ==
  ASSUME GeneratorIInv, RecordedInOrder, Position, Pool, Replayed, [Next]_vars
  PROVE  Replayed'
<1>1. PICK K, D : KeysRecorded(K, D) /\ Follows(K, D)
  BY DEF Replayed
<1>2. NamesLeft /\ HeapKeys
  BY DEF Replayed
<1>3. CASE Generate /\ UNCHANGED driver
  <2>1. pc = "off" /\ pc' = "off" /\ returned' = returned
    BY <1>3, GeneratorRuns DEF Position, driver
  <2>2. GeneratorKeys'
    BY <1>1, <1>2, <1>3, GeneratorKeysStep DEF GeneratorKeys
  <2>3. \A L, E : Follows(L, E)'
    BY <1>1, <2>1 DEF Follows
  <2> QED BY <2>2, <2>3 DEF GeneratorKeys, Replayed
<1>4. CASE Replay /\ UNCHANGED generator
  <2>1. Follows(K, D)'
    BY <1>1, <1>4, ReplayFollows
  <2>2. NamesLeft' /\ HeapKeys' /\ KeysRecorded(K, D)'
    BY <1>1, <1>2, <1>4, GeneratorKeysStay
  <2> QED BY <2>1, <2>2 DEF Replayed
<1>5. CASE UNCHANGED vars
  <2>1. UNCHANGED generator /\ UNCHANGED <<pc, op_remaining, op_chunk, ops, simple, queue, node_index, returned>>
    BY <1>5 DEF vars, driver, reading
  <2>2. NamesLeft' /\ HeapKeys' /\ KeysRecorded(K, D)'
    BY <1>1, <1>2, <2>1, GeneratorKeysStay
  <2>3. Follows(K, D)'
    <3>1. UNCHANGED <<recorded, extracted, header>>
      BY <2>1 DEF generator
    <3>2. Executed' = Executed
      BY <2>1, <3>1 DEF Executed, Read
    <3>3. CASE pc = "off"
      BY <1>1, <2>1, <3>3 DEF Follows
    <3>4. CASE pc # "off"
      <4> HIDE DEF Executed
      <4>1. CASE pc = "done"
        BY <1>1, <2>1, <3>2, <3>4, <4>1, SameFollows
      <4>2. CASE pc # "done"
        BY <1>1, <2>1, <3>2, <3>4, <4>2, SameFollows
      <4> QED BY <4>1, <4>2
    <3> QED BY <3>3, <3>4
  <2> QED BY <2>2, <2>3 DEF Replayed
<1> QED BY <1>3, <1>4, <1>5 DEF Next

LEMMA ReplayedAlways == Spec => [](GeneratorIInv /\ RecordedInOrder /\ Position /\ Pool /\ Replayed)
<1>1. GeneratorIInv /\ RecordedInOrder /\ Position /\ Pool /\ Replayed /\ [Next]_vars => Replayed'
  BY ReplayedStep
<1> QED BY PoolKept, InitReplayed, <1>1, PTL DEF Spec

-----------------------------------------------------------------------------
(* A pq_decrease_key of the trace is one of a node that is in the queue,   *)
(* the one the last pq_insert of the id returned, and the key it sets is   *)
(* not greater: whatever was recorded, and in every iteration, although    *)
(* the table of the nodes is never cleared and the pool reuses them.       *)
THEOREM HandlesStayLive == Spec => []HandlesLive
<1>1. ASSUME GeneratorIInv, Position, Pool, Replayed PROVE HandlesLive
  <2> SUFFICES ASSUME pc = "run", ops # <<>>, Head(ops).code = "decrease_key"
               PROVE  LET node == node_index[Head(ops).node_id]
                      IN  /\ node \in DOMAIN queue /\ name(queue[node]) = Head(ops).node_id
                          /\ Head(ops).key <= queue[node]
    BY DEF HandlesLive
  <2>1. PICK K, D : KeysRecorded(K, D) /\ Follows(K, D)
    BY <1>1 DEF Replayed
  <2>2. PICK n \in Nat : n = Len(recorded)
    BY <1>1 DEF GeneratorIInv, RecorderTypes
  <2>3. PICK k \in 0 .. n - 1 : k = Executed /\ Head(ops) = recorded[k + 1]
    <3>1. /\ op_remaining \in Nat /\ op_chunk \in Nat /\ ops \in Seq(Op) /\ 0 <= Executed /\ Read <= n
          /\ \A i \in 1 .. Len(ops) : ops[i] = recorded[Executed + i]
      BY <1>1, <2>2 DEF Position
    <3>2. PICK m \in Nat \ {0} : m = Len(ops) /\ Head(ops) = ops[1]
      BY <3>1
    <3>3. Read = n - op_remaining - op_chunk /\ Executed = Read - m
      BY <2>2, <3>2 DEF Read, Executed
    <3>4. Executed \in 0 .. n - 1
      <4> HIDE DEF Read, Executed
      <4> QED BY <3>1, <3>2, <3>3
    <3>5. ops[1] = recorded[Executed + 1]
      BY <3>1, <3>2
    <3> QED BY <3>2, <3>4, <3>5
  <2>4. PICK op : op = Head(ops) /\ op = recorded[k + 1] /\ op.code = "decrease_key"
    BY <2>3
  <2>5. k + 1 \in 1 .. n
    OBVIOUS
  <2>6. ~ simple
    BY <1>1, <2>2, <2>4, <2>5 DEF Pool
  <2>7. Holds(K[k])
    <3> HIDE DEF Executed, Holds
    <3> QED BY <2>1, <2>3 DEF Follows
  <2>8. PICK v \in K[k] : name(v) = op.node_id /\ op.key <= v
    <3>1. PICK r, x : r = recorded /\ x = extracted /\ Along(K, D, r, x)
      BY <2>1 DEF KeysRecorded
    <3>2. Effect(r[k + 1], K[k], K[k + 1], x[D[k + 1]])
      BY <2>2, <3>1 DEF Along
    <3> QED BY <2>4, <3>1, <3>2 DEF Effect
  <2>9. PICK node \in DOMAIN queue : queue[node] = v /\ node_index[name(v)] = node
    BY <2>6, <2>7 DEF Holds
  <2> QED BY <2>4, <2>8, <2>9
<1> QED BY ReplayedAlways, <1>1, PTL

(* Every iteration deletes the keys that the program which recorded the    *)
(* trace deleted, in the same order, and at its end all of them.           *)
THEOREM ReplaysAsRecorded == Spec => []ReplaysRecorded
<1>1. ASSUME GeneratorIInv, Position, Replayed PROVE ReplaysRecorded
  <2>1. PICK K, D : KeysRecorded(K, D) /\ Follows(K, D)
    BY <1>1 DEF Replayed
  <2>2. PICK n \in Nat : n = Len(recorded)
    BY <1>1 DEF GeneratorIInv, RecorderTypes
  <2>3. PICK x : x = extracted /\ Along(K, D, recorded, x)
    BY <2>1 DEF KeysRecorded
  <2>4. PICK l \in Nat : l = Len(x) /\ x \in Seq(Nat \cup {Nothing})
    BY <2>3 DEF Along
  <2>5. PICK r \in Seq(Nat \cup {Nothing}) :
          r = returned /\ Len(r) <= l /\ \A i \in 1 .. Len(r) : r[i] = x[i]
    <3>1. CASE pc = "off"
      <4>1. returned = <<>>
        BY <2>1, <3>1 DEF Follows
      <4>2. PICK none \in Seq(Nat \cup {Nothing}) : none = <<>> /\ Len(none) = 0
        <5>1. <<>> \in Seq(Nat \cup {Nothing}) /\ Len(<<>>) = 0
          OBVIOUS
        <5> QED BY <5>1
      <4>3. Len(none) <= l /\ \A i \in 1 .. Len(none) : none[i] = x[i]
        BY <4>2
      <4> QED BY <4>1, <4>2, <4>3
    <3>2. CASE pc # "off"
      <4>1. Executed \in 0 .. n
        <5>1. /\ op_remaining \in Nat /\ op_chunk \in Nat /\ ops \in Seq(Op) /\ 0 <= Executed /\ Read <= n
          BY <1>1, <2>2, <3>2 DEF Position
        <5>2. PICK m \in Nat : m = Len(ops)
          BY <5>1
        <5>3. Read = n - op_remaining - op_chunk /\ Executed = Read - m
          BY <2>2, <5>2 DEF Read, Executed
        <5> HIDE DEF Read, Executed
        <5> QED BY <5>1, <5>2, <5>3
      <4>2. PICK k \in 0 .. n : k = Executed
        BY <4>1
      <4>3. D[k] \in 0 .. l
        BY <2>2, <2>3, <2>4 DEF Along
      <4> HIDE DEF Executed, Holds
      <4>4. /\ returned \in Seq(Nat \cup {Nothing}) /\ Len(returned) = D[k]
            /\ \A i \in 1 .. Len(returned) : returned[i] = x[i]
        BY <2>1, <2>3, <3>2, <4>2 DEF Follows
      <4> QED BY <4>3, <4>4
    <3> QED BY <3>1, <3>2
  <2>6. PICK m \in Nat : m = Len(r)
    OBVIOUS
  <2>7. SubSeq(r, 1, m) = SubSeq(x, 1, m)
    <3>1. \A i \in 1 .. m : r[i] \in Nat \cup {Nothing} /\ x[i] \in Nat \cup {Nothing}
      BY <2>5, <2>6, ElementOfSeq
    <3>2. PICK s, t : s = SubSeq(r, 1, m) /\ t = SubSeq(x, 1, m)
      OBVIOUS
    <3>3. /\ s \in Seq(Nat \cup {Nothing}) /\ Len(s) = IF 1 <= m THEN m - 1 + 1 ELSE 0
          /\ \A i \in 1 .. m - 1 + 1 : s[i] = r[1 + i - 1]
      BY <3>1, <3>2, SubSeqProperties
    <3>4. /\ t \in Seq(Nat \cup {Nothing}) /\ Len(t) = IF 1 <= m THEN m - 1 + 1 ELSE 0
          /\ \A i \in 1 .. m - 1 + 1 : t[i] = x[1 + i - 1]
      BY <3>1, <3>2, SubSeqProperties
    <3>5. Len(s) = m /\ Len(t) = m /\ \A i \in 1 .. m : s[i] = r[i] /\ t[i] = x[i]
      BY <3>3, <3>4
    <3>6. s = t
      BY <2>5, <2>6, <3>3, <3>4, <3>5, SeqEqual
    <3> QED BY <3>2, <3>6
  <2>8. IsPrefix(returned, extracted)
    BY <2>3, <2>4, <2>5, <2>6, <2>7 DEF IsPrefix
  <2>9. ASSUME pc = "run", ops = <<>>, op_remaining = 0 PROVE returned = extracted
    <3>1. Executed = n
      BY <1>1, <2>2, <2>9, AtEnd
    <3>2. D[n] = l
      BY <2>2, <2>3, <2>4 DEF Along
    <3>3. m = D[Executed]
      <4> HIDE DEF Executed, Holds
      <4> QED BY <2>1, <2>5, <2>6, <2>9 DEF Follows
    <3>4. m = l
      <4> HIDE DEF Executed
      <4> QED BY <3>1, <3>2, <3>3
    <3> QED BY <2>3, <2>4, <2>5, <2>6, <3>4, SeqEqual
  <2> QED BY <2>8, <2>9 DEF ReplaysRecorded
<1> QED BY ReplayedAlways, <1>1, PTL

=============================================================================
