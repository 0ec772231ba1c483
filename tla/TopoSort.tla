------------------------------- MODULE TopoSort -------------------------------
(***************************************************************************)
(* topological of project3 (P3/main.cpp), on the circuit that readBLIF     *)
(* has left.  Every node enters topo when it enters one of the vectors V1  *)
(* and V2, so that the nodes still to be visited, V1 from "it" on and then *)
(* V2, are the rest of topo: order is topo, and order[head] is *it.        *)
(***************************************************************************)
EXTENDS BlifReader, FiniteSetsExt

VARIABLES
  order,     \* topo, which becomes seq
  head,      \* the position in order of the node being visited
  edge       \* the position in its fanout of the node to mark next

sortVars == <<order, head, edge>>
topoVars == <<readerVars, sortVars>>

Inputs == {n \in DOMAIN nodes : nodes[n].type = "input"}

SortInit == order = <<>> /\ head = 1 /\ edge = 1

\* getPIs walks nodeMap in the order of the names.
SeedInput ==
  /\ phase = "seed" /\ Inputs \ Range(order) # {}
  /\ order' = Append(order, Min(Inputs \ Range(order)))
  /\ UNCHANGED <<readerVars, head, edge>>

StartSort ==
  /\ phase = "seed" /\ Inputs \subseteq Range(order)
  /\ phase' = "sort"
  /\ UNCHANGED <<nodes, gate, left, driven, twice, sortVars>>

Fanout == nodes[order[head]].fanout

\* fanin_sat.  Mutants: one fanin too early; again at every visit after the last.
SatisfiedEarly(count) == count <= 1
SatisfiedAgain(count) == count <= 0
Satisfied(count) == count = 0

\* One node of the fanout is marked; with its last fanin it enters the order.
MarkFanout ==
  /\ phase = "sort" /\ head <= Len(order) /\ edge <= Len(Fanout)
  /\ LET n == Fanout[edge]
     IN /\ nodes' = [nodes EXCEPT ![n].faninNum = nodes[n].faninNum - 1]
        /\ order' = IF Satisfied(nodes[n].faninNum - 1) THEN Append(order, n) ELSE order
  /\ edge' = edge + 1
  /\ UNCHANGED <<phase, gate, left, driven, twice, head>>

NextVisit ==
  /\ phase = "sort" /\ head <= Len(order) /\ edge > Len(Fanout)
  /\ head' = head + 1 /\ edge' = 1
  /\ UNCHANGED <<readerVars, order>>

EndSort ==
  /\ phase = "sort" /\ head > Len(order)
  /\ phase' = "sorted"
  /\ UNCHANGED <<nodes, gate, left, driven, twice, sortVars>>

Sort == SeedInput \/ StartSort \/ MarkFanout \/ NextVisit \/ EndSort

\* -topoSort: read, sort, print the order.
TopoInit == ReaderInit /\ SortInit
TopoNext == \/ Read /\ UNCHANGED sortVars
            \/ Sort
            \/ phase = "sorted" /\ UNCHANGED topoVars
TopoSpec == TopoInit /\ [][TopoNext]_topoVars

----------------------------------------------------------------------------
\* No gate drives a primary input, as in every legal BLIF file.
InputsUndriven == Inputs \cap driven = {}

\* Every variable has its type; in the absence of driven inputs no fanin_num
\* is ever negative, which is what lets the test for zero catch every node
\* (node.h:89-96).
TopoTypeOK ==
  /\ nodes \in [DOMAIN nodes -> Node] /\ DOMAIN nodes \subseteq Names
  /\ driven \subseteq Names /\ twice \subseteq driven /\ left \in 0 .. MaxNames
  /\ order \in Seq(DOMAIN nodes) /\ head \in 1 .. (Len(order) + 1) /\ edge \in Nat
  /\ InputsUndriven => \A n \in DOMAIN nodes : nodes[n].faninNum >= 0

\* In the order every node comes after all its fanins, whatever else is wrong
\* with the file: forward references, nodes defined twice, nodes that have a
\* fanin twice, cycles (main.cpp:133-181).
AfterFanins ==
  InputsUndriven =>
    \A i \in DOMAIN order : \A f \in Range(nodes[order[i]].fanin) :
      \E j \in 1 .. (i - 1) : order[j] = f

\* No node is in the order twice.
OnceOnly == InputsUndriven => IsInjective(order)

\* The search ends, on cycles and driven inputs too: a node enters the order
\* once as an input and at most once by its fanins (main.cpp:146-168).
OrderBounded == Len(order) <= Cardinality(DOMAIN nodes) + Cardinality(Inputs)

\* The order ends only when it can get no longer: every node whose fanins are
\* in it is in it (main.cpp:146-168).
Maximal ==
  (phase = "sorted" /\ InputsUndriven /\ twice = {}) =>
    \A n \in DOMAIN nodes :
      (nodes[n].fanin # <<>> /\ Range(nodes[n].fanin) \subseteq Range(order))
        => n \in Range(order)

----------------------------------------------------------------------------
\* main.cpp:125: -topoSort prints an ordering of the circuit, hence of all its
\* gates (if it has one, every name is defined, and none more than once).
Acyclic ==
  LET Below[k \in Nat] ==
        IF k = 0 THEN {}
        ELSE LET lower == Below[k - 1]
             IN {n \in DOMAIN nodes : Range(nodes[n].fanin) \subseteq lower}
  IN Below[Cardinality(Names)] = DOMAIN nodes
Complete ==
  (phase = "sorted" /\ InputsUndriven /\ twice = {} /\ DOMAIN nodes = Inputs \cup driven /\ Acyclic)
    => \A n \in DOMAIN nodes : nodes[n].fanin # <<>> => n \in Range(order)
=============================================================================
