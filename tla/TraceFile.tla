----------------------------- MODULE TraceFile ------------------------------
(***************************************************************************)
(* Trace files, as trace_tools.c writes them: operations go through a      *)
(* buffer that is written to the file when the next one might not fit, and *)
(* the header is written over the beginning of the file.  The unit is the  *)
(* word of four bytes; word i of an operation or a header x is <<x, i>>.   *)
(*                                                                         *)
(* A call may write less than it was asked to (a full disk, a signal): a   *)
(* prefix of the words is in the file then, and the functions return -1.   *)
(* The operators give the set of outcomes of a call: t is the trace after  *)
(* it, ok that it did not return -1.                                       *)
(***************************************************************************)
EXTENDS Naturals, Sequences, SequencesExt

CONSTANTS PQ_OP_BUFFER_LEN,
          pq_op_lengths,      \* the words of an operation, by its code
          HeaderLength        \* the words of a pq_trace_header

ASSUME LengthAssumption ==
  /\ PQ_OP_BUFFER_LEN \in Nat /\ HeaderLength \in Nat \ {0}
  /\ \A code \in DOMAIN pq_op_lengths : pq_op_lengths[code] \in 1 .. PQ_OP_BUFFER_LEN - 1

VARIABLE trace   \* the file, the offset in it, the buffer, and the faults still to come

NoTrace(faults) == [file |-> <<>>, offset |-> 0, buffer |-> <<>>, faults |-> faults]

OpWords(op) == [i \in 1 .. pq_op_lengths[op.code] |-> <<op, i>>]
HeaderWords(header) == [i \in 1 .. HeaderLength |-> <<header, i>>]

\* The words overwrite what is at the offset.
Written(t, words) ==
  [t EXCEPT !.file = SubSeq(@, 1, t.offset) \o words \o SubSeq(@, t.offset + Len(words) + 1, Len(@)),
            !.offset = @ + Len(words)]

write(t, words) ==
  {[t |-> Written(t, words), ok |-> TRUE]} \cup
  {[t |-> [Written(t, SubSeq(words, 1, n)) EXCEPT !.faults = @ - 1], ok |-> FALSE] :
     n \in IF t.faults = 0 THEN {} ELSE 0 .. Len(words) - 1}

(* The buffer is emptied only when all of it has been written.             *)
pq_trace_flush_buffer(t) ==
  {IF o.ok THEN [o EXCEPT !.t.buffer = <<>>] ELSE o : o \in write(t, t.buffer)}

\* Mutant: the buffer is appended to although the flush has failed.
buffered_write_regardless(t, words) ==
  {[o EXCEPT !.t.buffer = @ \o words] :
     o \in IF PQ_OP_BUFFER_LEN - Len(t.buffer) - 1 < Len(words)
           THEN pq_trace_flush_buffer(t) ELSE {[t |-> t, ok |-> TRUE]}}

(* An operation that does not find room is lost if the flush fails.        *)
buffered_write(t, words) ==
  {IF o.ok THEN [o EXCEPT !.t.buffer = @ \o words] ELSE o :
     o \in IF PQ_OP_BUFFER_LEN - Len(t.buffer) - 1 < Len(words)
           THEN pq_trace_flush_buffer(t) ELSE {[t |-> t, ok |-> TRUE]}}

pq_trace_write_op(t, op) == buffered_write(t, OpWords(op))

\* Mutant: the operations that are still in the buffer are written last.
pq_trace_write_header_first(t, header) ==
  write([t EXCEPT !.offset = 0], HeaderWords(header))

pq_trace_write_header(t, header) ==
  UNION {IF o.ok THEN write([o.t EXCEPT !.offset = 0], HeaderWords(header)) ELSE {o} :
           o \in pq_trace_flush_buffer(t)}

(* Reading back: the operation at an offset, of which the first word, the  *)
(* code, tells the length; ok if all its words are there.                  *)
pq_trace_read_op(file, offset) ==
  LET op == file[offset + 1][1]
      end == offset + pq_op_lengths[op.code]
  IN  IF offset >= Len(file) \/ end > Len(file) THEN [ok |-> FALSE]
      ELSE [ok |-> SubSeq(file, offset + 1, end) = OpWords(op), op |-> op, offset |-> end]
=============================================================================
