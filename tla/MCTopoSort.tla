------------------------------ MODULE MCTopoSort ------------------------------
(***************************************************************************)
(* Values of the constants of BlifReader and TopoSort for TLC.             *)
(***************************************************************************)
EXTENDS TopoSort

\* Two primary inputs and an output; and a file whose only output is an input.
MCHeaders == {[inputs |-> {1, 2}, outputs |-> {4}], [inputs |-> {1}, outputs |-> {1, 3}]}
MCPlainHeaders == {[inputs |-> {1, 2}, outputs |-> {4}]}

\* Gates that depend on a name which is no input.
MCThirdFanins == {<<3>>, <<1, 3>>}

\* The sort never looks at the tables.
MCNoTables == {<<>>}
=============================================================================
