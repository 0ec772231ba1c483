------------------------------- MODULE Netlist -------------------------------
(***************************************************************************)
(* The circuit of project2 (P2/EECS478P2_chengfu: circuit.cpp, node.h) and *)
(* its gate library (library.cpp).  A data structure module: operators on  *)
(* a circuit, which maps names to nodes; the program is in Generators.     *)
(*                                                                         *)
(* A name is a prefix, a sequence of the strings the code concatenates,    *)
(* and a bit number: <<<<"s", "_c">>, 2>> is s_c[2], <<<<"cin">>, NoBit>>  *)
(* is cin.  Next to what the code keeps, a node has its value (val): what  *)
(* the gates made so far give for the inputs of this run.                  *)
(***************************************************************************)
EXTENDS Integers, Sequences, FiniteSets, SequencesExt

NoBit == -1
Bit(prefix, i) == <<prefix, i>>
Wire(name) == <<<<name>>, NoBit>>

Types == {"input", "output", "internal", "zero", "one"}
Gates == {"buf1", "or2", "and2", "xor3", "mux4"}
NoGate == "none"

----------------------------------------------------------------------------
(* library.cpp: every gate as the rows of its table, DC being a don't care *)

DC == 2
\* Mutant of Rows: "001" is missing from the exclusive or.
RowsNo001 == [buf1 |-> {<<1>>}, or2 |-> {<<DC, 1>>, <<1, DC>>}, and2 |-> {<<1, 1>>},
              xor3 |-> {<<0, 1, 0>>, <<1, 0, 0>>, <<1, 1, 1>>}, mux4 |-> {}]
Rows ==
  [buf1 |-> {<<1>>},
   or2  |-> {<<DC, 1>>, <<1, DC>>},
   and2 |-> {<<1, 1>>},
   xor3 |-> {<<0, 0, 1>>, <<0, 1, 0>>, <<1, 0, 0>>, <<1, 1, 1>>},
   mux4 |-> {<<0, 0, DC, DC, DC, 1>>, <<0, 1, DC, DC, 1, DC>>,
             <<1, 0, DC, 1, DC, DC>>, <<1, 1, 1, DC, DC, DC>>}]

\* What a table makes of its inputs: 1 if some row fits them.
Value(gate, bits) ==
  IF \E row \in Rows[gate] : \A j \in DOMAIN bits : row[j] \in {bits[j], DC} THEN 1 ELSE 0

ValuesOf(c, ins) == [j \in DOMAIN ins |-> c[ins[j]].val]

\* createBUF1Node, ...: fanin and table are replaced, the type is not.
\* Mutant: fanins are added to those the node has.
SetGateAdding(c, out, gate, ins) ==
  [c EXCEPT ![out] = [c[out] EXCEPT !.fanin = @ \o ins, !.gate = gate,
                        !.val = Value(gate, ValuesOf(c, ins))]]
SetGate(c, out, gate, ins) ==
  [c EXCEPT ![out] = [c[out] EXCEPT !.fanin = ins, !.gate = gate,
                        !.val = Value(gate, ValuesOf(c, ins))]]

\* createMUX4Node: the caller's order of selects and inputs is turned round.
Mux4(c, select1, select2, in1, in2, in3, in4, out) ==
  SetGate(c, out, "mux4", <<select2, select1, in4, in3, in2, in1>>)

\* createZERONode and createONENode.
ConstantNode(type) ==
  [type |-> type, fanin |-> <<>>, gate |-> NoGate, val |-> IF type = "one" THEN 1 ELSE 0]

----------------------------------------------------------------------------
(* circuit.cpp *)

NewNode(v) == [type |-> "internal", fanin |-> <<>>, gate |-> NoGate, val |-> v]

\* createNode for every name of a set: a node that is there is left as it is.
CreateNodes(c, names, given) ==
  [n \in DOMAIN c \cup names |->
     IF n \in DOMAIN c THEN c[n] ELSE NewNode(IF n \in DOMAIN given THEN given[n] ELSE 0)]

\* setPIs and setPOs: the types of two sets of nodes.
SetPorts(c, ins, outs) ==
  [n \in DOMAIN c |-> [c[n] EXCEPT !.type = IF n \in ins THEN "input" ELSE IF n \in outs THEN "output" ELSE @]]

OfType(c, type) == {n \in DOMAIN c : c[n].type = type}

\* writeBLIF: the ports, and a .names statement for every node but the inputs:
\* a constant for the types "zero" and "one", its table for any other.
Written(c) ==
  [inputs  |-> OfType(c, "input"),
   outputs |-> OfType(c, "output"),
   names   |-> [n \in DOMAIN c \ OfType(c, "input") |->
                  IF c[n].type \in {"zero", "one"}
                  THEN [fanin |-> <<>>, gate |-> c[n].type]
                  ELSE [fanin |-> c[n].fanin, gate |-> c[n].gate]]]
=============================================================================
