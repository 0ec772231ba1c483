------------------------------ MODULE BlifReader ------------------------------
(***************************************************************************)
(* readBLIF of project3 (P3/circuit.cpp) and the nodes it builds           *)
(* (P3/node.h).  A file is read statement by statement: the .inputs and    *)
(* .outputs, which come first in every BLIF file of the repository, then   *)
(* any .names statements.  Nodes are known by their name.                  *)
(***************************************************************************)
EXTENDS Integers, Sequences, FiniteSets, Functions

CONSTANTS
  Names,        \* node names, as numbers in the order of nodeMap
  Headers,      \* the [inputs, outputs] a file may declare, two sets of names
  FaninLists,   \* the lists of fanins a .names statement may have
  Tables,       \* the truth tables it may have: sequences of rows
  MaxNames      \* bound: the .names statements of a file

ASSUME NamesAssumption  == Names \subseteq Nat
ASSUME HeaderAssumption == Headers \subseteq [inputs : SUBSET Names, outputs : SUBSET Names]
ASSUME FiniteAssumption == \A h \in Headers : IsFiniteSet(h.inputs) /\ IsFiniteSet(h.outputs)
ASSUME FaninAssumption  == FaninLists \subseteq Seq(Names) \ {<<>>}
ASSUME TableAssumption  == Tables \subseteq Seq(Seq({0, 1, 2}))   \* 2 is don't care
ASSUME MaxNamesAssumption == MaxNames \in Nat

VARIABLES
  phase,     \* "start", "names", "fanins", then those of TopoSort and Simulation
  nodes,     \* nodeMap: name -> Node
  gate,      \* the .names statement being read: [out, left, table]
  left,      \* .names statements the file may still have
  driven,    \* history: names some .names statement has defined
  twice      \* history: names defined by more than one

readerVars == <<phase, nodes, gate, left, driven, twice>>

Type == {"input", "output", "internal", "zero", "one"}
Node == [type : Type, fanin : Seq(Names), fanout : Seq(Names), faninNum : Int,
         numVars : Nat, rows : Seq(Seq({0, 1, 2}))]
NoGate == [out |-> -1, left |-> <<>>, table |-> <<>>]

\* The constructor.
NewNode == [type |-> "internal", fanin |-> <<>>, fanout |-> <<>>, faninNum |-> 0,
            numVars |-> 0, rows |-> <<>>]

\* createNode: a node of that name that is there already stays as it is.
NodeOf(n) == IF n \in DOMAIN nodes THEN nodes[n] ELSE NewNode
WithNode(n, node) == [m \in DOMAIN nodes \cup {n} |-> IF m = n THEN node ELSE nodes[m]]

\* A .names statement for n starts over with its fanin and its table, but not
\* with its fanin_num, nor with the fanout of its former fanins.
\* Mutant: the count starts over too, and the stale fanouts bring it below zero.
RedefinedReset(n) == [NodeOf(n) EXCEPT !.fanin = <<>>, !.rows = <<>>, !.faninNum = 0]
Redefined(n) == [NodeOf(n) EXCEPT !.fanin = <<>>, !.rows = <<>>]
Define(n) == driven' = driven \cup {n} /\ twice' = twice \cup ({n} \cap driven)

ReaderInit ==
  /\ phase = "start"
  /\ nodes = [n \in {} |-> NewNode]
  /\ gate = NoGate
  /\ left = MaxNames
  /\ driven = {} /\ twice = {}

\* .inputs and .outputs, any number of each and in any order: a name declared
\* as both is what it was declared as last.
ReadHeader ==
  /\ phase = "start"
  /\ \E h \in Headers :
       \E last \in [h.inputs \cap h.outputs -> {"input", "output"}] :
         nodes' = [n \in h.inputs \cup h.outputs |->
                     [NewNode EXCEPT !.type = IF n \in DOMAIN last THEN last[n]
                                              ELSE IF n \in h.inputs THEN "input" ELSE "output"]]
  /\ phase' = "names"
  /\ UNCHANGED <<gate, left, driven, twice>>

\* .names with no fanin: a constant, whatever the node was declared as.
ReadConstant(n, type) ==
  /\ phase = "names" /\ left > 0
  /\ nodes' = WithNode(n, [Redefined(n) EXCEPT !.type = type])
  /\ Define(n) /\ left' = left - 1
  /\ UNCHANGED <<phase, gate>>

\* .names with fanins: the output node comes first ...
ReadNames(n) ==
  /\ phase = "names" /\ left > 0
  /\ \E ins \in FaninLists, t \in Tables :
       /\ \A i \in DOMAIN t : Len(t[i]) = Len(ins)
       /\ gate' = [out |-> n, left |-> ins, table |-> t]
  /\ nodes' = WithNode(n, Redefined(n))
  /\ Define(n) /\ left' = left - 1 /\ phase' = "fanins"

\* ... then one fanin after the other.  A node may be its own fanin.
\* Mutant of Linked: a node enters the fanout of its fanin only once.
LinkedOnce(ins, n) == IF n \in Range(ins) THEN ins ELSE Append(ins, n)
Linked(ins, n) == Append(ins, n)

AddFanin ==
  /\ phase = "fanins" /\ gate.left # <<>>
  /\ LET v == Head(gate.left)
         n == gate.out
         counted == WithNode(n, [nodes[n] EXCEPT !.fanin = Append(nodes[n].fanin, v),
                                                 !.faninNum = nodes[n].faninNum + 1])
         input == IF v = n THEN counted[n] ELSE NodeOf(v)
     IN nodes' = [m \in DOMAIN nodes \cup {v} |->
                    IF m = v THEN [input EXCEPT !.fanout = Linked(input.fanout, n)]
                    ELSE counted[m]]
  /\ gate' = [gate EXCEPT !.left = Tail(gate.left)]
  /\ UNCHANGED <<phase, left, driven, twice>>

Filled(rows) ==
  /\ phase = "fanins" /\ gate.left = <<>>
  /\ nodes' = WithNode(gate.out, [nodes[gate.out] EXCEPT !.rows = rows,
                                    !.numVars = Len(nodes[gate.out].fanin)])
  /\ gate' = NoGate
  /\ UNCHANGED <<driven, twice>>

\* The rows of the table ...
ReadTable == Filled(gate.table) /\ phase' = "names" /\ left' = left

\* ... or the first k of them and then a wrong one.  readBLIF returns -1, the
\* constructor of Circuit prints a message, and main goes on with what there is.
ReadBadRow ==
  /\ \E k \in 0 .. Len(gate.table) : Filled(SubSeq(gate.table, 1, k))
  /\ phase' = "seed" /\ left' = 0

\* .end, the end of the file, a line that is not understood, or (before there
\* is any node) a file that cannot be opened.
EndFile ==
  /\ phase \in {"start", "names"}
  /\ phase' = "seed" /\ left' = 0
  /\ UNCHANGED <<nodes, gate, driven, twice>>

Read ==
  \/ ReadHeader
  \/ \E n \in Names : ReadNames(n) \/ \E type \in {"zero", "one"} : ReadConstant(n, type)
  \/ AddFanin
  \/ ReadTable
  \/ ReadBadRow
  \/ EndFile
=============================================================================
