---------------------------- MODULE RandomTrace -----------------------------
(***************************************************************************)
(* PQ_Random.c, which records a trace of random operations, with the       *)
(* binary heap of pq.c that tells it which operations make sense.  A key   *)
(* is a priority in the high half and the name of the item in the low one, *)
(* so that no two are equal.  The calls of the trace functions may fail,   *)
(* and the program takes no notice.                                        *)
(***************************************************************************)
EXTENDS TraceFile

CONSTANTS Maxprio,
          NameSpan,   \* 2^32 in the code: keys are prio * NameSpan + name
          Args        \* the command lines: init, reps, and with; and a bound, faults

ASSUME PrioAssumption == Maxprio \in Nat \ {0} /\ NameSpan \in Nat \ {0}

Cmd == {"ins", "dcr", "dcr_min", "fmn", "dmn"}
OpCode == {"create", "destroy", "insert", "find_min", "delete_min", "decrease_key"}

ASSUME OpCodeAssumption == OpCode \subseteq DOMAIN pq_op_lengths

(* The scripts ask for as many deletions as there are items to delete.     *)
ASSUME ArgsAssumption ==
  /\ Args \subseteq [init : Nat, reps : Nat, with : [Cmd -> Nat], faults : Nat]
  /\ \A a \in Args : a.with["dmn"] <= a.with["ins"] \/ a.reps * a.with["dmn"] <= a.init

VARIABLES data,      \* the cells of the heap, from data[1] on: data[0] has key 0
          newname, header,
          todo,      \* the calls main has yet to make
          recorded,  \* history: the operations it has passed to pq_trace_write_op,
          extracted, \* the keys HeapExtractMin has returned,
          failures   \* and, of the calls of trace functions, how many returned -1

generator == <<trace, data, newname, header, todo, recorded, extracted, failures>>

Times(n, calls) == FlattenSeq([i \in 1 .. n |-> calls])

(* main: the placeholder of the header, pq_create, init insertions, reps   *)
(* times the operations asked for, fmn and dmn once at most, pq_destroy,   *)
(* and the header.                                                         *)
Calls(a) ==
  <<"header", "create">> \o Times(a.init, <<"ins">>)
  \o Times(a.reps, FlattenSeq([i \in 1 .. 5 |->
       LET c == <<"ins", "dcr", "dcr_min", "fmn", "dmn">>[i]
           once == i > 3 /\ a.with[c] > 0
       IN  Times(IF once THEN 1 ELSE a.with[c], <<c>>)]))
  \o <<"destroy", "close">>

(* The scripts insert fewer items than there are names.                    *)
ASSUME NamesAssumption ==
  \A a \in Args : Cardinality({i \in DOMAIN Calls(a) : Calls(a)[i] = "ins"}) < NameSpan

Init ==
  /\ data = <<>> /\ newname = 1
  /\ header = [op_count |-> 0, pq_ids |-> 1, node_ids |-> 1]
  /\ recorded = <<>> /\ extracted = <<>> /\ failures = 0
  /\ \E a \in Args : todo = Calls(a) /\ trace = NoTrace(a.faults)

-----------------------------------------------------------------------------
prio(key) == key \div NameSpan   \* MASK_PRIO
name(key) == key % NameSpan      \* MASK_NAME

(* The cells above i move down, as long as they are greater, to make room  *)
(* for key.                                                                *)
MoveUp(d, i, key) ==
  LET up[j \in DOMAIN d] ==
        IF j > 1 /\ d[j \div 2] > key
        THEN [up[j \div 2] EXCEPT ![j] = d[j \div 2]] ELSE [d EXCEPT ![j] = key]
  IN  up[i]

HeapInsert(d, key) == MoveUp(Append(d, key), Len(d) + 1, key)

\* Of cell j with key in it and the two below it, one with the smallest key.
Smallest(d, j, key) ==
  LET Held(c) == IF c = j THEN key ELSE d[c]
      family == {c \in {j, 2 * j, 2 * j + 1} : c <= Len(d)}
  IN  CHOOSE c \in family : \A e \in family : Held(c) <= Held(e)

(* What is in cell i changes places with a smaller cell below it, and so   *)
(* on.                                                                     *)
Heapify(d, i) ==
  LET key == d[i]
      down[j \in DOMAIN d] ==
        LET c == Smallest(d, j, key)
        IN  IF c = j THEN [d EXCEPT ![j] = key] ELSE [down[c] EXCEPT ![j] = d[c]]
  IN  IF d = <<>> THEN d ELSE down[i]

HeapExtractMin(d) == Heapify(Front([d EXCEPT ![1] = Last(d)]), 1)

\* Mutant: the key is changed where it is.
HeapDecreaseKey_in_place(d, item, key) == [d EXCEPT ![item] = key]

HeapDecreaseKey(d, item, key) == IF d[item] < key THEN d ELSE MoveUp(d, item, key)

\* Mutant: any priority will do.
dcr_amnt_any(key) == {new * NameSpan + name(key) : new \in 0 .. Maxprio - 1}

(* The keys dcr_amnt may return: my_rand(range) is below range, and 0 if   *)
(* that is 0.                                                              *)
dcr_amnt(key) ==
  LET min == prio(data[1])
  IN  {new * NameSpan + name(key) : new \in min .. IF prio(key) = min THEN min ELSE prio(key) - 1}

dcr_min_amnt(key) ==
  LET min == prio(data[1]) IN {(IF min > 0 THEN min - 1 ELSE 0) * NameSpan + name(key)}

-----------------------------------------------------------------------------
\* The next call of main.
Call(c) == todo # <<>> /\ Head(todo) = c /\ todo' = Tail(todo)

\* The outcome of a call of trace_tools.c, which main ignores.
Outcome(o) == trace' = o.t /\ failures' = IF o.ok THEN failures ELSE failures + 1

\* pq_trace_write_op( trace_file, &op ), and op_count++
Record(op) ==
  /\ \E o \in pq_trace_write_op(trace, op) : Outcome(o)
  /\ recorded' = Append(recorded, op)
  /\ header' = [header EXCEPT !.op_count = @ + 1, !.node_ids = @ + IF op.code = "insert" THEN 1 ELSE 0]

Placeholder ==
  /\ Call("header")
  /\ \E o \in pq_trace_write_header(trace, header) : Outcome(o)
  /\ UNCHANGED <<data, newname, header, recorded, extracted>>

CreateOrDestroy ==
  /\ \/ Call("create") /\ Record([code |-> "create"])
     \/ Call("destroy") /\ Record([code |-> "destroy"])
  /\ UNCHANGED <<data, newname, extracted>>

DoInsert ==
  /\ Call("ins")
  /\ \E p \in 0 .. Maxprio - 1 :
       LET key == p * NameSpan + newname
       IN  /\ data' = HeapInsert(data, key)
           /\ Record([code |-> "insert", node_id |-> newname, key |-> key])
  /\ newname' = newname + 1
  /\ UNCHANGED extracted

\* DoDecrease and DoDecreaseMin: of any item, if there is one.
Decrease(item, key) ==
  /\ data' = HeapDecreaseKey(data, item, key)
  /\ Record([code |-> "decrease_key", node_id |-> name(data[item]), key |-> key])

DoDecrease ==
  /\ Call("dcr")
  /\ \/ \E item \in DOMAIN data : \E key \in dcr_amnt(data[item]) : Decrease(item, key)
     \/ data = <<>> /\ UNCHANGED <<trace, data, header, recorded, failures>>
  /\ UNCHANGED <<newname, extracted>>

DoDecreaseMin ==
  /\ Call("dcr_min")
  /\ \/ \E item \in DOMAIN data : \E key \in dcr_min_amnt(data[item]) : Decrease(item, key)
     \/ data = <<>> /\ UNCHANGED <<trace, data, header, recorded, failures>>
  /\ UNCHANGED <<newname, extracted>>

DoFindMin ==
  /\ Call("fmn") /\ Record([code |-> "find_min"])
  /\ UNCHANGED <<data, newname, extracted>>

DoDeleteMin ==
  /\ Call("dmn") /\ Record([code |-> "delete_min"])
  /\ data' = HeapExtractMin(data) /\ extracted' = Append(extracted, data[1])
  /\ UNCHANGED newname

\* The header once more, now with its counts, and a flush.
Close ==
  /\ Call("close")
  /\ \E o \in pq_trace_write_header(trace, header) : \E p \in pq_trace_flush_buffer(o.t) :
       /\ trace' = p.t
       /\ failures' = failures + (IF o.ok THEN 0 ELSE 1) + (IF p.ok THEN 0 ELSE 1)
  /\ UNCHANGED <<data, newname, header, recorded, extracted>>

Generate ==
  \/ Placeholder \/ CreateOrDestroy \/ DoInsert \/ DoDecrease
  \/ DoDecreaseMin \/ DoFindMin \/ DoDeleteMin \/ Close

GeneratorSpec == Init /\ [][Generate]_generator

-----------------------------------------------------------------------------
RecordedWords == FlattenSeq([i \in DOMAIN recorded |-> OpWords(recorded[i])])

(* No operation is lost, doubled or out of order: as long as no call has   *)
(* failed, what is in the file and then in the buffer is what was          *)
(* recorded, and once main is done the file is the header, with its        *)
(* counts, and the operations.                                             *)
Intact ==
  failures = 0 =>
    /\ trace.file # <<>> => SubSeq(trace.file, HeaderLength + 1, Len(trace.file)) \o trace.buffer
                              = RecordedWords
    /\ todo = <<>> => /\ trace.buffer = <<>>
                      /\ SubSeq(trace.file, 1, HeaderLength) = HeaderWords(header)
                      /\ header.op_count = Len(recorded)

(* After a call has failed the buffer never outgrows its array, and what   *)
(* is there is whole operations, although the program goes on regardless.  *)
BufferBounded ==
  /\ Len(trace.buffer) < PQ_OP_BUFFER_LEN
  /\ trace.buffer # <<>> => trace.buffer[1][2] = 1
=============================================================================
