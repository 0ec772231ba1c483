------------------------------ MODULE Simulation ------------------------------
(***************************************************************************)
(* -simulate of project3 (P3/main.cpp): the input file, simulation, and    *)
(* the report of the primary outputs.  Nothing gives a node's value before *)
(* set_value: until then it is whatever its memory holds.                  *)
(***************************************************************************)
EXTENDS TopoSort, SequencesExt

CONSTANTS
  Stimuli,      \* the (name, value) pairs an input file may hold, in sequences
  Junk          \* what uninitialized memory may hold

ASSUME StimuliAssumption == Stimuli \subseteq Seq(Names \X {0, 1})
ASSUME JunkAssumption    == Junk \subseteq Int

VARIABLES
  value,     \* the value of each node
  given,     \* history: the pairs in the input file
  stim,      \* PIs and PIs_value
  pos,       \* the position in seq the loops have reached
  shown      \* the primary outputs printed, as (name, value) pairs

simVars == <<value, given, stim, pos, shown>>
vars == <<topoVars, simVars>>

SimInit == value = [n \in {} |-> 0] /\ given = <<>> /\ stim = <<>> /\ pos = 1 /\ shown = <<>>

\* The loop stops at the end of file before it keeps the pair it has read:
\* without a newline after it the last pair is lost.
OpenStimulus ==
  /\ phase = "sorted"
  /\ \E s \in Stimuli, newline \in BOOLEAN :
       given' = s /\ stim' = IF newline \/ s = <<>> THEN s ELSE Front(s)
  /\ value' \in [DOMAIN nodes -> Junk]
  /\ phase' = "inputs"
  /\ UNCHANGED <<nodes, gate, left, driven, twice, sortVars, pos, shown>>

\* A file that cannot be opened, or a value that is no number: the stream
\* fails, the end of the file never comes, and the loop does not end.
ReadForever ==
  /\ phase = "sorted"
  /\ phase' = "endless"
  /\ UNCHANGED <<nodes, gate, left, driven, twice, sortVars, simVars>>

\* Every pair for the node at i is assigned, the last one stays.
LastFor(n) == Max({j \in DOMAIN stim : stim[j][1] = n})
SetInput ==
  /\ phase = "inputs" /\ pos <= Len(stim) /\ pos <= Len(order)
  /\ value' = IF \E j \in DOMAIN stim : stim[j][1] = order[pos]
              THEN [value EXCEPT ![order[pos]] = stim[LastFor(order[pos])][2]]
              ELSE value
  /\ pos' = pos + 1
  /\ UNCHANGED <<readerVars, sortVars, given, stim, shown>>

\* More pairs than nodes in the order: seq[i] is read beyond its end.
InputBeyondEnd ==
  /\ phase = "inputs" /\ pos <= Len(stim) /\ pos > Len(order)
  /\ phase' = "crashed"
  /\ UNCHANGED <<nodes, gate, left, driven, twice, sortVars, simVars>>

\* get_type looks at the size of the table only.
\* Mutant: an "or" is taken to have a row for every assignment.
GateTypeLoose(n) ==
  LET rows == Len(nodes[n].rows)
      vs == nodes[n].numVars
  IN IF vs = 1 THEN "not"
     ELSE IF rows = 1 THEN "and"
     ELSE IF rows = 2 ^ vs THEN "or"
     ELSE IF 2 * rows = 2 ^ vs THEN "xor" ELSE "unknown"
GateType(n) ==
  LET rows == Len(nodes[n].rows)
      vs == nodes[n].numVars
  IN IF vs = 1 THEN "not"
     ELSE IF rows = 1 THEN "and"
     ELSE IF rows = 2 ^ vs - 1 THEN "or"
     ELSE IF 2 * rows = 2 ^ vs THEN "xor" ELSE "unknown"

\* The switch of simulation.  No fanin at all counts as an "or".
Evaluated(n) ==
  LET in == [i \in DOMAIN nodes[n].fanin |-> value[nodes[n].fanin[i]]]
      bit(b) == IF b THEN 1 ELSE 0
  IN CASE GateType(n) = "and" -> bit(0 \notin Range(in))
       [] GateType(n) = "or"  -> bit(1 \in Range(in))
       [] GateType(n) = "xor" -> FoldLeft(LAMBDA k, b : bit(k # b), Head(in), Tail(in))
       [] GateType(n) = "not" -> bit(in[1] # 1)
       [] GateType(n) = "unknown" -> value[n]

\* A node redefined as a constant keeps the numVars of its former table.
NoOperand(n) == GateType(n) = "not" /\ nodes[n].fanin = <<>>

Evaluate ==
  /\ phase = "inputs" /\ pos > Len(stim) /\ pos <= Len(order)
  /\ ~NoOperand(order[pos])
  /\ value' = [value EXCEPT ![order[pos]] = Evaluated(order[pos])]
  /\ pos' = pos + 1
  /\ UNCHANGED <<readerVars, sortVars, given, stim, shown>>

\* getFanin()[0] of an empty vector.
EvaluateBare ==
  /\ phase = "inputs" /\ pos > Len(stim) /\ pos <= Len(order)
  /\ NoOperand(order[pos])
  /\ phase' = "crashed"
  /\ UNCHANGED <<nodes, gate, left, driven, twice, sortVars, simVars>>

Outputs == {n \in DOMAIN nodes : nodes[n].type = "output"}

\* The outputs in the order of their names.
Report ==
  /\ phase = "inputs" /\ pos > Len(stim) /\ pos > Len(order) /\ Outputs # {}
  /\ shown' = [i \in 1 .. Cardinality(Outputs) |->
                 LET n == SetToSortSeq(Outputs, <)[i] IN <<n, value[n]>>]
  /\ phase' = "reported"
  /\ UNCHANGED <<nodes, gate, left, driven, twice, sortVars, value, given, stim, pos>>

\* POs[0] of an empty vector.
ReportNothing ==
  /\ phase = "inputs" /\ pos > Len(stim) /\ pos > Len(order) /\ Outputs = {}
  /\ phase' = "crashed"
  /\ UNCHANGED <<nodes, gate, left, driven, twice, sortVars, simVars>>

Simulate == \/ OpenStimulus \/ ReadForever \/ SetInput \/ InputBeyondEnd
            \/ Evaluate \/ EvaluateBare \/ Report \/ ReportNothing

\* -simulate: read, sort, simulate.
Init == TopoInit /\ SimInit
Next == \/ (Read /\ UNCHANGED <<sortVars, simVars>>)
        \/ (Sort /\ UNCHANGED simVars)
        \/ Simulate
        \/ (phase \in {"reported", "crashed", "endless"} /\ UNCHANGED vars)
Spec == Init /\ [][Next]_vars

----------------------------------------------------------------------------
\* The pairs give every primary input once.
Exact(pairs) ==
  Len(pairs) = Cardinality(Inputs) /\ {pairs[j][1] : j \in DOMAIN pairs} = Inputs

\* The four gates the simulator knows, as a set of rows over its n fanins.
Minterms(n, P(_)) == {r \in [1 .. n -> {0, 1}] : P(r)}
AndRows(n) == Minterms(n, LAMBDA r : 0 \notin Range(r))
OrRows(n)  == Minterms(n, LAMBDA r : 1 \in Range(r))
XorRows(n) == Minterms(n, LAMBDA r : Cardinality({i \in 1 .. n : r[i] = 1}) % 2 = 1)
NotRows    == {<<0>>}
KnownGate(n) ==
  LET rows == nodes[n].rows
      k == Len(nodes[n].fanin)
  IN /\ IsInjective(rows)
     /\ \/ k = 1 /\ Range(rows) = NotRows
        \/ k > 1 /\ Range(rows) \in {AndRows(k), OrRows(k), XorRows(k)}

\* What the table of n says: one iff some row agrees with the fanins.
TableValue(n) ==
  IF \E i \in DOMAIN nodes[n].rows : \A k \in DOMAIN nodes[n].fanin :
       nodes[n].rows[i][k] \in {2, value[nodes[n].fanin[k]]}
  THEN 1 ELSE 0

\* When every gate it reaches is one it knows, the simulator gives every node
\* in the order the value of its table over the primary inputs: no value is
\* read before it is set, and every set value stays (main.cpp:187-264).
SimulationRight ==
  (phase = "reported" /\ InputsUndriven /\ Exact(stim)
     /\ \A n \in Range(order) \ Inputs : KnownGate(n)) =>
    \A n \in Range(order) :
      IF n \in Inputs THEN <<n, value[n]>> \in Range(stim) ELSE value[n] = TableValue(n)

----------------------------------------------------------------------------
\* main.cpp:126: -simulate simulates the circuit in the file, i.e. an output
\* whose gates are all in the order shows what its table says.
SimulatesTable ==
  (phase = "reported" /\ InputsUndriven /\ Exact(stim) /\ twice = {}
     /\ Range(order) = DOMAIN nodes) =>
    \A i \in DOMAIN shown : shown[i][1] \in driven => shown[i][2] = TableValue(shown[i][1])

\* main.cpp:126: ... with the inputs in the input file, whichever way it ends.
HeedsInputs ==
  (phase = "reported" /\ InputsUndriven /\ Exact(given)) =>
    \A n \in Inputs : <<n, value[n]>> \in Range(given)
=============================================================================
