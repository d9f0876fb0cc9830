------------------------------ MODULE Canonical -----------------------------
(***************************************************************************)
(* A view for model checking the pointer-based queues.  The addresses of   *)
(* nodes are interchangeable and the memory of a freed node is unobserved, *)
(* so that a state counts by its shape: the nodes are numbered in the      *)
(* order a walk along their pointers meets them, and every pointer to a    *)
(* node that was met is written as its number.                             *)
(***************************************************************************)
EXTENDS Naturals, Sequences, SequencesExt, FiniteSets

\* The nodes met from a list of starting points, depth first, along fields.
RECURSIVE Walk(_, _, _, _)
Walk(mem, fields, todo, met) ==
  IF todo = <<>> THEN met
  ELSE LET n == Head(todo)
       IN  IF n \notin DOMAIN mem \/ Contains(met, n)
           THEN Walk(mem, fields, Tail(todo), met)
           ELSE Walk(mem, fields, [i \in DOMAIN fields |-> mem[n][fields[i]]] \o Tail(todo),
                     Append(met, n))

Number(met, v) == IF Contains(met, v) THEN CHOOSE i \in DOMAIN met : met[i] = v ELSE v

Numbered(met, record) == [f \in DOMAIN record |-> Number(met, record[f])]

(* The shape of the queue s, entered at starts and walked along fields.    *)
(* What no pointer reaches counts by its number.                           *)
ShapeOf(s, live, starts, fields) ==
  LET met == Walk(s.mem, fields, starts, <<>>)
  IN  <<[i \in DOMAIN met |-> Numbered(met, s.mem[met[i]])],
        [f \in DOMAIN s \ {"mem"} |-> IF f = "roots" THEN Numbered(met, s.roots) ELSE Number(met, s[f])],
        Cardinality(live \ ToSet(met)), ToSet(met) \subseteq live>>
=============================================================================
