------------------------------ MODULE MCQueues ------------------------------
EXTENDS Queues, Canonical

\* The table of a violation heap in one row.
FlatRoots(s) ==
  [s EXCEPT !.roots = [i \in 1 .. 2 * MAXRANK |-> s.roots[(i - 1) \div 2][1 + ((i - 1) % 2)]]]

\* The tables of a weak queue in one row.
FlatTables(s) ==
  [f \in (DOMAIN s \ {"nodes"}) \cup {"roots"} |->
     IF f # "roots" THEN s[f]
     ELSE [i \in 1 .. MAXRANK |-> s.nodes["ROOTS"][i - 1]] \o [i \in 1 .. MAXRANK |-> s.nodes["MARKS"][i - 1]]]

\* The nodes, with the fix nodes they have, and the rank records of a strict
\* Fibonacci heap in one memory.
FlatRecords(s) ==
  LET flat(r) == [rank |-> r.rank, inc |-> r.inc, dec |-> r.dec, key |-> r.ref_count,
                  type |-> r.transformable, left |-> r.head["ROOT"], right |-> r.tail["ROOT"],
                  fix_left |-> r.head["LOSS"], fix_right |-> r.tail["LOSS"]]
      node(v) == IF v.fix THEN v ELSE [v EXCEPT !.fix_left = NULL, !.fix_right = NULL]
      fields == DOMAIN GrownStrict!Zeroed \cup {"inc", "dec"}
      row(v) == [f \in fields |-> IF f \in DOMAIN v THEN v[f] ELSE NULL]
  IN  [f \in (DOMAIN s \ {"records", "fix_list"}) \cup {"roots"} |->
         CASE f = "mem" -> [a \in DOMAIN s.mem \cup Other |->
                              row(IF a \in DOMAIN s.mem THEN node(s.mem[a]) ELSE flat(s.records[a]))]
           [] f = "roots" -> <<s.fix_list["ROOT"], s.fix_list["LOSS"]>>
           [] OTHER -> s[f]]

(* A state by its shape, see Canonical. *)
Shape ==
  <<kind,
    CASE IsFibonacci -> ShapeOf(heap, live, <<heap.minimum>>, <<"first_child", "next">>)
      [] kind = "binomial" ->
           ShapeOf(heap, live, [i \in 1 .. MAXRANK |-> heap.roots[i - 1]], <<"left", "right">>)
      [] kind = "explicit 2" -> ShapeOf(heap, live, <<heap.root>>, Explicit!Slot)
      [] kind = "explicit 4" -> ShapeOf(heap, live, <<heap.root>>, WideExplicit!Slot)
      [] kind = "quake" ->
           ShapeOf([heap EXCEPT !.duplicates = Cardinality(@)], live, <<heap.minimum>>,
                   <<"left", "right", "parent">>)
      [] IsRankPairing -> ShapeOf(heap, live, <<heap.minimum>>, <<"left", "right", "parent">>)
      [] kind = "violation" ->
           ShapeOf(FlatRoots(heap), live, <<heap.minimum>>, <<"child", "prev", "next">>)
      [] IsWeak ->
           ShapeOf(FlatTables(heap), live, FlatTables(heap).roots, <<"left", "right">>)
      [] IsStrict ->
           ShapeOf(FlatRecords(heap), live, <<heap.root, heap.rank_list>>,
                   <<"left_child", "right", "rank", "inc">>)>>
=============================================================================
