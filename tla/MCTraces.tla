------------------------------ MODULE MCTraces ------------------------------
(* The command lines of the scripts of pq_random, with counts scaled down. *)
EXTENDS TraceReplay

With(ins, dcr, dcr_min, fmn, dmn) ==
  [c \in {"ins", "dcr", "dcr_min", "fmn", "dmn"} |->
     CASE c = "ins" -> ins [] c = "dcr" -> dcr [] c = "dcr_min" -> dcr_min
       [] c = "fmn" -> fmn [] c = "dmn" -> dmn]

Run(init, reps, with, faults) == [init |-> init, reps |-> reps, with |-> with, faults |-> faults]

MCArgs ==
  {Run(4, 4, With(0, 0, 0, 1, 1), 0),    \* pq_sort, and pq_find_min
   Run(2, 2, With(1, 0, 0, 0, 1), 0),    \* pq_id
   Run(3, 2, With(1, 1, 0, 0, 1), 0),    \* pq_dcr
   Run(3, 2, With(1, 0, 1, 0, 1), 0),    \* pq_dcr_min
   Run(0, 1, With(0, 1, 1, 1, 0), 1),    \* nothing to decrease
   Run(1, 1, With(1, 1, 0, 1, 1), 2)}    \* with up to two short writes

MCLengths ==
  [c \in {"create", "destroy", "insert", "find_min", "delete_min", "decrease_key"} |->
     CASE c = "insert" -> 3 [] c = "decrease_key" -> 2 [] OTHER -> 1]
=============================================================================
