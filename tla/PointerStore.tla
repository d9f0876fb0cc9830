---------------------------- MODULE PointerStore ----------------------------
(***************************************************************************)
(* What the models of the pointer-based queues share.  A call is one       *)
(* action; inside it the state of the queue and of its nodes is one        *)
(* record s, and s.mem[n].f is the field f of node n.  The memory of a     *)
(* freed node keeps its content until pq_alloc_node zeroes it, so that a   *)
(* pointer to a freed node reads what the program would read.              *)
(***************************************************************************)
EXTENDS Naturals, Sequences, SequencesExt, FiniteSets

CONSTANTS Node,   \* the addresses of nodes
          Key,    \* key_type
          NULL

ASSUME NodesAssumption == IsFiniteSet(Node)
ASSUME KeyAssumption == Key \subseteq Nat /\ 0 \in Key
ASSUME NullAssumption == NULL \notin Node

VARIABLES heap,   \* the queue and the memory of its nodes, mem
          live    \* the nodes pq_alloc_node has handed out

vars == <<heap, live>>

\* One assignment n->f = v, and several of them in program order.
Set(s, n, f, v) == [s EXCEPT !.mem[n][f] = v]
Assign(s, writes) ==
  LET after[i \in 0 .. Len(writes)] ==
        IF i = 0 THEN s
        ELSE LET w == writes[i] IN Set(after[i - 1], w[1], w[2], w[3])
  IN  after[Len(writes)]

\* if( n != NULL ) n->f = v
SetIf(s, n, f, v) == IF n \in DOMAIN s.mem THEN Set(s, n, f, v) ELSE s

\* The nodes from n on along the pointers next[n], up to the end or back to one of them.
Chain(mem, n, f) ==
  LET Longer(list) ==
        LET next == IF list = <<>> THEN n ELSE mem[Last(list)][f]
        IN  IF next \in DOMAIN mem \ ToSet(list) THEN Append(list, next) ELSE list
      first[i \in 0 .. Cardinality(DOMAIN mem)] ==
        IF i = 0 THEN <<>> ELSE Longer(first[i - 1])
  IN  first[Cardinality(DOMAIN mem)]

\* The nodes that can be reached from a set of nodes along the given fields.
ReachableFrom(mem, fields, from) ==
  LET Further(nodes) == nodes \cup ({mem[n][f] : n \in nodes, f \in fields} \ {NULL})
      reached[i \in 0 .. Cardinality(DOMAIN mem)] ==
        IF i = 0 THEN from ELSE Further(reached[i - 1])
  IN  reached[Cardinality(DOMAIN mem)]
=============================================================================
