# TLA+ models of the EECS 478 programs

The repository holds three course programs on Boolean functions and circuits:

- `P1` — **project1**, an interactive BDD calculator. It reads an expression, builds its
  binary decision diagram with a recursive `apply` over a *unique table* and a
  *computed table*, and offers cofactors, Boolean difference, a second operand and a sort
  of the variables by influence. Nodes are reference counted and their ids recycled.
- `P2/EECS478P2_chengfu` — **project2**, which generates netlists (adder, subtractor, shifter,
  abs(min(5x,3y))) and writes them in BLIF.
- `P3` — **project3**, which reads BLIF, sorts the circuit topologically and simulates it.

All three are modelled, and with them the expression parser `P1/Bool_expr*` that project1
brings along. `P2/abc70930`, a vendored release of ABC and nearly all of the repository's lines, is not;
`P2/sim` is a simulator binary and `Hw4` data.

## 1. Inventory

| component | state | operations | interacts with |
|---|---|---|---|
| nodes, `P1/bdd_node.*` | `id_ctr`, `free_ids`, per node `var`, `neg_cf`, `pos_cf`, `probability`, `id` | constructor, destructor, `has_var`, `find_next_var`, `print` | created by the tables, deleted by the last `bdd_ptr` |
| counted pointers, `P1/smart_pointer.h` | `ref_count` per node, the pointers, destructors in progress | construct, copy, assign, destroy | every function; a deletion deletes children in turn |
| tables, `P1/bdd_tables.*` | `unique_table`, `computed_table` | find, insert, create, clear, print | `apply`, the cofactors, `bdd_from_expr`, `main` |
| operations, `P1/operation.*` | the current operation | `set_operation`, `operator()`, prompt | called by `apply` for terminal cases |
| functions, `P1/project1.cpp` | the C++ stack | `apply`, two cofactors, `boolean_difference`, `sort_by_influence` | each other, tables, operations |
| session, `P1/main.cpp` | `expr1`, the stack of `bdd_from_expr` | read expression, menu, shutdown | all of the above |
| dialogue, `P1/main.cpp`, `operation.cpp` | what is left of the input line, the state of `cin` | prompts, flush loops, `getline`, error loop | user, parser, session |
| parser, `P1/Bool_expr*` | position in the text, tree | parse, `BE_error` | hands a syntax tree to `bdd_from_expr` |
| netlist, `P2/…/circuit.*, node.h, truthTable.*, library.cpp` | name → node map: type, fanin, truth table | create, gates, set PI/PO, write BLIF | module generators |
| generators, `P2/…/modules.cpp, datapaths.cpp, main.cpp` | the netlist under construction, loop counters | ADD, SUB, SHIFT, ABSMIN5X3Y, options | netlist |
| BLIF reader, `P3/circuit.*, node.h` | netlist with fanout and `fanin_num` | read | sort |
| sort and simulation, `P3/main.cpp` | `fanin_num`, order, node values | `topological`, `simulation`, report | netlist |

**What is hard in project1.** It runs in one thread, but its steps interleave in ways no test
covers: both arguments of one call are recursive calls whose order the compiler chooses; every
returning pointer may delete nodes and free ids while activations further up still rely on them; the
computed table remembers ids of nodes it does not keep alive; a created node overwrites the one
the unique table had; a discarded node stays behind in the table with no probability; a batch of ids
is added exactly when the last is in use; and the `var` byte of a terminal is read though nothing
writes it. `operator=` releases what the left-hand side pointed to, a deletion that may run
through any number of destructors, before it reads the right-hand side. The dialogue mixes `>>`, which leaves
the rest of a line, with `getline` and loops that drop it, and each of them meets the end of the
input differently.

**What is hard in project2.** One `Circuit` serves every option of the command line and is never
cleared. `createNode` returns the node that is there already, and the datapath *relies* on that to
chain its modules by names; so a later module may build over the nodes of an earlier one, whose
type, ports and values stay where nothing replaces them. Bits are linked by names put together from `i-1` and
`numBits-1` in unsigned arithmetic, and the datapath's result is right only if no intermediate value
outgrows its width.

**What is hard in project3.** The sort relies on a count per node, `fanin_num`, that the reader builds
edge by edge. A node defined twice keeps its old count and its place in the fanout of its old
fanins; a cycle or a driven input visits a node again after its count has reached zero. The simulator
guesses gates from the size of their tables, takes the first entries of the order for the
inputs, and computes on values that nothing initializes.

Each of these is a row of `hazards` in `PROJECT.json`, with the properties aimed at it.

**What makes each component correct.** Nodes: ids partition into free and live, live nodes never
change shape, nothing dangles, nothing leaks. Pointers: a count is the number of pointers, and an object
lives exactly as long as a pointer reaches it. Tables: a unique key describes its node, a computed key
identifies its result. Functions: every call returns the function it is asked for, ordered, with its
probability, and ends. Session: answers are those of a calculator for Boolean functions. Dialogue:
every prompt reads its own line, and the end of the input is noticed. Parser: the tree is the one
the grammar gives, or the first fault is reported. Generators: every saved file is a combinational circuit
for the function its option names, with its ports. Reader: fanin, fanout and `fanin_num`
agree. Sort: fanins first, no node twice, nothing left out that could follow. Simulation: every node gets the
value of its table.

## 2. Modules

```
BddTables   nodes, ids, reachability, both tables            (P1/bdd_node.*, bdd_tables.*)
  BddApply    operations and apply on an explicit stack        (P1/operation.*, project1.cpp:17-71)
    BddCofactor  cofactors, difference, influence sort           (P1/project1.cpp:73-168)
      BddSession   bdd_from_expr, menu, shutdown; the program      (P1/main.cpp)
        BddInvariants   properties of the store, tables, pointers
          BddMeaning       properties about the functions denoted
            BddRefinement    BddSession implements BoolCalc        BoolCalc: the abstract calculator
              MCBdd            constants for TLC
          BddProof         proofs: the invariants of BddInvariants
            OrderProof       of Ordered
              MeaningProof     of ReturnsMeaning, ImplementsCalculator, probabilities and the ranking

SmartPointer   counts, destructors, operator=                (P1/smart_pointer.h)
               implements CollectedHeap: a heap without garbage or counts
  PointerProof   proofs

BoolExprParser  the recursive descent, and two references     (P1/Bool_expr_parser.cpp)
  Console         prompts, flush loops, end of input            (P1/main.cpp, operation.cpp:76-90)
    MCConsole       constants for TLC
    ConsoleProof    proofs: the prompts, and the parser against both references

Netlist     nodes, gates, ports, the file written            (P2/…/circuit.cpp, node.h, library.cpp)
  Generators  the four modules, bit by bit; options            (P2/…/modules.cpp, datapaths.cpp, main.cpp)
    MCGenerators      constants for TLC
    GeneratorsProof   proofs

BlifReader  nodes and readBLIF                               (P3/node.h, circuit.cpp, truthTable.cpp)
  TopoSort    topological; the option -topoSort                (P3/main.cpp:34-62, 133-181)
    Simulation  input file, simulation, report; -simulate        (P3/main.cpp:63-114, 184-264)
    MCTopoSort, MCSimulation   constants for TLC
    TopoProof                  proofs of the sort
      SimulationProof            of SimulationRight
```

**BddTables.** A `bdd_ptr` is the id of its node. `heap` maps live ids to their `var`, `neg`, `pos` and
`prob`; `freeIds`, `idCtr`, `unique` and `computed` are the code's statics and members. Probabilities are
numbers in units of 1/`Unit`, exact because every one is a multiple of 2^-(number of variables), as
the floats of the code are. `Unset` stands for a float nothing has assigned. Reference counts are
modelled by what they achieve: at the end of an action the nodes that no pointer reaches are
deleted and their ids free (`Collect`, `Live`). That this *is* what they achieve is the subject of
`SmartPointer`, whose theorem `CollectsReachable` needs that members are set once, when their object is made,
and so never form a cycle; `NodesImmutable` and `Acyclic` say so of the nodes. The delay is sound because ids are
taken only by `new`, which comes after the
releases of earlier statements and before those of its own. Two history variables say when
a result may be wrong: `doomed` holds the computed keys one of whose operands has been deleted, and
`tainted` that a lookup has returned the entry of such a key. The program never reads them.

**BddApply.** `stack` is the C++ stack: a frame holds the activation's pointers and the point it has
reached. An action is the code from one call or return to the next: the computed-table hit, the
terminal case, the first of the two recursive calls (either one), the second, and the construction
(node, unique table, redundancy test, computed table, probability). `crashed` records the
dereference of a null `bdd_ptr`, which happens when `one->var` equals a variable (`OneVarBytes`
lists what that unassigned byte may hold).

**BddCofactor.** The two cofactors are one set of actions told apart by the frame's `op`; their
texts are identical but for the child taken. `sort_by_influence` sweeps the variables in the order of
`var_all` (`SweepRank`), collects (probability, variable) pairs in `vecList` and sorts them with
`Greater` into `ranking`.

**BddSession.** `bdd_from_expr` is a post-order walk of a tree, read here as a postfix sequence of
tokens with operand stack `vals`, the pointers its pending activations hold. In the menu `vals[1]` is
`expr1`. `Deliver` is the return into `main` or `bdd_from_expr`; `Quit` releases `expr1` and clears the
tables. The statement order of the code is kept: for example 'a' reads its expression before it
asks for the operation. Which characters lead to these commands is left to `Console`. A *budget* is how many
tokens the first expression has and how many commands follow.

**BddMeaning, BoolCalc, BddRefinement.** `Den(n)` is the set of assignments that satisfy node `n`;
reference definitions of the operations, the cofactors, the difference and the probability
are stated on such sets. `BoolCalc` is the abstract specification: a calculator with operands,
requests and replies and no nodes at all. The refinement maps each pointer held outside `apply` to its
function; the promise ends (`ok = FALSE`) when a stale entry has been returned.

**SmartPointer, CollectedHeap.** `members` are the objects in memory and the pointers inside them, `count`
their `ref_count`; every other pointer (local, temporary, map entry) is a slot. The two statements of
`operator=` are two actions, `Release` and `Retarget`, and in between `dying` is the stack of
destructors: `DestroyMember` gives up one member and starts the destructor of what it was the
last pointer to, `Free` returns the memory. `misread` records that `Retarget` found its source
in freed memory, after which the C++ program means nothing and the model stops. `CollectedHeap` is what the class promises: pointers
that can be copied and assigned, over a heap in which exactly the reachable objects exist. It has
one gap, `Break`: assigning from inside what only the left-hand side keeps alive.

**BoolExprParser, Console.** The parse functions are those of the source; they call each other through
the function `p`, the table `Parses` of what each of them returns from each position. A result is a tree and the position after it, or an
error with its column. Two references are written by other means: `Derivations`, all trees that the parts of a text have in
the grammar, and `ScanFault`, a left-to-right scan for the first character that fits no
more. `Console` is who reads which character: `at` is the prompt that reads next, `flushing` a loop
that drops the rest of the line first, `closed` the end of the input, and `reader` (history) who has
taken something from the current line already. Its `bddVars`, which decide what `get_var` accepts, are any
subset of the variables typed so far, since a stale computed entry may
yield another operand's BDD.

**Netlist, Generators.** A node name is a prefix and a bit number, put together as the code
concatenates them. `circuit` is the node map; besides type, fanin and gate a node has the
value the gates give it for the inputs of this run (`given`), computed when its gate is made. A module is a sequence
of calls: one for adder, subtractor and shifter, twelve for the datapath, each creating its nodes
(`CreateAll`) and then its gates, one action per loop iteration. The program stops early where memory
ends (`Exhaust`) or the shifter does not find a node (`AssertFails`). `tally` (history) adds up the bits that a
ripple has passed. `Written` is what `writeBLIF` puts into the file, by node *type*.

**BlifReader.** `nodes` is `nodeMap`; a node keeps its type, fanin, fanout, `fanin_num` and table. A file is
its `.inputs` and `.outputs` (a node may be in both, and is then what it was declared last) and then `.names` statements, one action for its output node and one per fanin, as
the code creates them. `Redefined` is what the code clears when a node is defined again, and what it
does not. `ReadBadRow` and `EndFile` are the ways to stop reading: the caller prints a message and goes
on with the nodes there are, as the program does. `driven` and `twice` are history: names
a `.names` has defined, and those more than one has. The program never reads them.

**TopoSort.** A node enters `topo` when it enters one of the two vectors of the breadth-first search, and
the vectors are visited in the order they are filled. So `order` is `topo`, and what follows `head` is
what is left of the current vector and then the next one. One action marks one edge; `phase` is the
place in the program.

**Simulation.** Memory a node's `value` occupies holds any member of `Junk` until `set_value`. The input file
is chosen with or without a final newline (`given` is what it says, `stim` what the loop keeps).
Reads beyond the end of `seq`, `getFanin()[0]` of a node without fanins and `POs[0]` of no outputs end in
phase "crashed"; an input file that cannot be read in "endless". Properties of this program
speak of the runs that reach the report, and assume `InputsUndriven`, i.e. that no gate drives a
primary input, as BLIF requires; redefinitions and cycles are allowed everywhere else.

## 3. Runs

`FirstIds` is 4 instead of 100, so that ids run out and the batch is doubled several times in
every run of `MCBdd`.

| run | bounds | checks |
|---|---|---|
| `two_vars` (`MCBdd`) | 2 variables; expressions of 7 tokens, or of 2 and then 2 commands (second expressions of 3); `one->var` free to be no variable or the lower one; fairness | `TypeOK`, `IdsPartition`, `NoDangling`, `UniqueKeyFaithful`, `UnassignedUnreached`, `Acyclic`, `NoLeak`, `CrashesByByteOnly`, `NodesImmutable`, `Answered`, `ImplementsCalculator` |
| `three_vars` (`MCBdd`) | 3 variables; expressions of 7 tokens, or of 5 and then a command (second expression of 2) | `Ordered`, `ProbabilityRight`, `ConstantsAreTerminal`, `LiteralInUnique`, `RankingRight`, `ReturnsMeaning` |
| `pointers` (`SmartPointer`) | 3 objects of 2 members, 3 pointers outside objects, any statements | `PointerTypeOK`, `CountsPointers`, `NoneDangling`, `CollectsExactly`, `MisreadsOwnOnly`, `ImplementsCollected` |
| `console` (`MCConsole`) | first lines of up to 5 of 8 characters, of 6 and 7 over fewer; shorter ones for `a`; 8 keys, 4 words; any dialogue and end of input; fairness | `ExpressionsFromLineStart`, `CommandsFromOwnLine`, `TreeDerived`, `FaultReported`, `EndNoticed` |
| `generators` (`MCGenerators`) | up to 2 options out of 9 (adders and subtractors of up to 3 bits, a shifter by 1 and one by `UINT_MAX`, the datapath with 3-bit inputs), all values of the inputs, 400 nodes of memory | `GenTypeOK`, `RippleRight`, `ModuleComputes`, `FileDetermines`, `Combinational`, `OnlyWrapsFail` |
| `simulation` (`MCSimulation`) | 4 names, 2 headers, 2 `.names` statements with lists of up to 3 fanins (repeated ones too), 9 tables, 6 input files | `TopoTypeOK`, `AfterFanins`, `OnceOnly`, `OrderBounded`, `Maximal`, `SimulationRight` |

What they show:

- `IdsPartition`, `NodesImmutable`: through growth and recycling no id is lost, shared, or freed and
  handed out again within a step. `NoDangling`: nothing points to a deleted node. `Acyclic`, `NoLeak`: no
  node keeps itself alive, and in the end all are gone.
- `UniqueKeyFaithful`: a key is never left behind describing a node with a recycled id.
- `UnassignedUnreached`: the redundant node that `apply` abandons in the unique table, its
  probability never assigned, is never found again by anything that would read it.
- `CrashesByByteOnly`: the byte of `one->var` that nothing writes, "irrelevant" in `bdd_node.h:68`, is the only
  way to a null dereference; and it is one, which is why `Answered` allows for it.
- `LiteralInUnique`: the unchecked lookup of the cofactors never fails.
- `Ordered`, `ProbabilityRight`, `ConstantsAreTerminal`, `ReturnsMeaning`, `RankingRight`: until a stale
  entry is returned, diagrams are ordered and every call computes its function, although the
  unique table does not make nodes unique (a node is replaced in it and lives on below others). Duplicates cost space, not correctness:
  a constant function is still always the terminal.
- `Answered`: every request is answered, i.e. the recursions end. `ImplementsCalculator`: sessions are
  those of `BoolCalc`.
- `CountsPointers`, `NoneDangling`, `CollectsExactly`: at every statement, in the middle of a cascade of
  destructors too, counts are right and what a pointer holds exists. `MisreadsOwnOnly`: the one order
  of statements in `operator=` that could be called wrong does harm exactly if the source is kept alive by the target
  alone; in project1 every source is a local or a table entry. `ImplementsCollected`: otherwise a client cannot tell the class from
  a garbage collector.
- `ExpressionsFromLineStart`, `CommandsFromOwnLine`: the mixture of `>>` and `getline` never gives
  an expression the rest of another line; a command may get what `get_var` or the prompt for an operation has
  left, and nothing else. `TreeDerived`, `FaultReported`: of a line with one derivation the parser builds it, and of any
  other it reports the first fault and its column. `EndNoticed`: once the input has ended, the
  program ends or is in a loop that waits for ever.
- `RippleRight`: after every bit, sum and carry (difference and borrow) amount to the
  inputs. `ModuleComputes`: so do the outputs of every saved module, whatever was built before it. `FileDetermines`: the file alone
  gives those values, i.e. no gate hides behind the type of a former constant or port. `Combinational`: rebuilding never closes a
  cycle. `OnlyWrapsFail`: unsigned wrap-around is
  the only thing that stops the program, `numBits-1` for the empty adder, which exhausts memory, and `numBits+numShift` for a shifter
  by nearly `UINT_MAX`, which then fails an assert; no option does either because of what an earlier one left.
- `AfterFanins`, `OnceOnly`, `Maximal`: whatever the file redefines, repeats or closes into a cycle, the order has
  fanins first and no node twice, and stops only where it must. It is a surprise for
  redefinitions: the old count and the old fanout entries are both kept, and balance.
  `Maximal` alone needs `twice = {}`: a node redefined with fewer fanins still waits for the old ones.
- `OrderBounded`: the search ends, even when primary inputs are driven.
- `SimulationRight`: with the gates the simulator knows, no value is read before it is set.

Six runs find what the documentation says and the code does not do (`findings` in `PROJECT.json`):

- `stale_entry` (`ComputedIdentifies`): a recycled id finds another node's result; `!(!b&1) & !c` prints 0. The properties of
  the passing runs that depend on this say so with `~tainted`.
- `partial_order` (`Complete`): a gate that depends on a constant is in no order, which is the case of project2's own `sub16`.
- `buffer` (`SimulatesTable`): a buffer is simulated as an inverter.
- `last_pair` (`HeedsInputs`): without a final newline the last input is lost.
- `own_ports` (`OwnPorts`): a second option on the command line saves the ports of the first as well.
- `prompts_again` (`PromptsAgain`): a command that cannot be read since the input has ended is never asked for again.

A comment without a run of its own: `circuit.h:55` says that `createNode` returns NULL for a name that is taken, but
it returns the node (`circuit.cpp:85`). The model follows the code, and the datapath would not work otherwise.

**Why the bounds are enough.** Two variables and seven tokens give every shape of operand pair
(both roots equal, left higher, right higher, one terminal), garbage in the middle of an expression,
reuse of ids and two doublings of the batch; a stale entry needs five tokens, so that runs go on
well past it. Three variables are the least with a cofactor below the root on both sides
(`CofactorRootBar` with two non-terminal children), and five tokens over them the least that gives
variables of different influence to rank (`a | b & c`). Two commands
make results of commands the operands of others. Three objects make a cascade of two destructors with a third
object that outlives it, and an assignment from inside what is released. Lines of five characters have every pair of
operators, nested parentheses, blanks in any place and every error of the
parser; seven characters, two operators with a parenthesis around either. A module of two bits is the least with a bit that is neither
first nor only, three bits one with a middle; the datapath has six bits then, and any pair of options leaves nodes of the first
to the second. For the sort, two statements over four
names give a chain of two gates, one of them redefined, a repeated fanin, a self-loop and a cycle of
two, and for the simulator gates of every type it tells apart and one whose fanin is missing from the order. What grows beyond the bounds (nodes, ids,
objects, bits, statements) is what the invariants proved below cover for all sizes.

**Deadlock** is checked in every run: a program always can go on until it has ended or crashed
(`Stopped`; in project3 the phases "sorted", or "reported", "crashed" and "endless"; `misread` of
`SmartPointer`; `Spin` of `Console`, a loop that waits for ever). `CofactorRootBar` has the successful lookup as a guard, so
a failed lookup would be a deadlock.

**Fairness.** project1's `FairSpec` adds `WF_vars(Compute)`: one thread runs the program, and inside a request
it waits for nothing. Nothing is assumed of the user: no fairness on `Typed`. `Console`'s adds
`WF_consoleVars(Runs)` for the same reason, `Runs` being the steps for which the program needs no character; the user may
stop typing, or end the input anywhere, after which it stays ended, as on a terminal that is gone
or a file that is read through.

## 4. Proofs

`BddProof`, `OrderProof` and `MeaningProof` prove, for every finite set of
variables, every batch size above 2, any number of tokens and commands, and every value of
`one->var` (including those that crash):

| theorem | of `Spec` |
|---|---|
| `Invariance` | `[]IInv` |
| `TypeCorrect` | `[]TypeOK` |
| `IdsArePartitioned` | `[]IdsPartition` |
| `NothingDangles` | `[]NoDangling` |
| `UniqueKeysFaithful` | `[]UniqueKeyFaithful` |
| `LiteralsInUnique` | `[]LiteralInUnique` |
| `UnassignedNeverReached` | `[]UnassignedUnreached` |
| `NothingLeaks` | `[]NoLeak` |
| `NodesAcyclic` | `[]Acyclic` |
| `CrashNeedsByte` | `[]CrashesByByteOnly` |
| `NodesStayImmutable` | `NodesImmutable` |
| `PathsAreOrdered` | `[]Ordered` |
| `FunctionsAreRight` | `ReturnsMeaning` |
| `CalculatorImplemented` | `ImplementsCalculator` |
| `ConstantsStayTerminal` | `[]ConstantsAreTerminal` |
| `ProbabilitiesRight` | `[]ProbabilityRight` |
| `RankingIsRight` | `[]RankingRight` |

`PointerProof` proves, for any finite sets of objects and pointers and any number of members:

| theorem | of `SmartPointer!Spec` |
|---|---|
| `PointerInvariance` | `[]PInv` |
| `PointerTypeCorrect` | `[]PointerTypeOK` |
| `CountsAreRight` | `[]CountsPointers` |
| `NoPointerDangles` | `[]NoneDangling` |
| `CollectsReachable` | `[]CollectsExactly` |
| `MisreadsAreOwn` | `[]MisreadsOwnOnly` |
| `HeapImplemented` | `ImplementsCollected` |

`GeneratorsProof` proves, for every width below `UintMod`, any command line and any values of the inputs:

| theorem | of `Generators!Spec` |
|---|---|
| `RippleIsRight` | `[]RippleRight` |
| `NetlistTypeCorrect` | `[]GenTypeOK` |
| `FileIsRight` | `[]FileDetermines` |
| `NetlistIsCombinational` | `[]Combinational` |
| `ModulesCompute` | `[]ModuleComputes` |
| `OnlyWrapsStop` | `Roomy => []OnlyWrapsFail` |

`TopoProof` proves, for every set of names and headers, every list of fanins and any number of
`.names` statements:

| theorem | of `TopoSpec` |
|---|---|
| `TopoInvariance` | `[]TopoInv` |
| `TopoTypeCorrect` | `[]TopoTypeOK` |
| `FaninsFirst` | `[]AfterFanins` |
| `EachNodeOnce` | `[]OnceOnly` |
| `NoGateForgotten` | `[]Maximal` |
| `SearchEnds` | `[]OrderBounded` |

On top of it `SimulationProof` proves `SimulationIsRight`, `Simulation!Spec => []SimulationRight`, for any input file as well.

`ConsoleProof` proves, for lines of any length over any characters, any keys and words, and any set of name characters:

| theorem | of `Console!Spec` |
|---|---|
| `ExpressionsStartLines` | `[]ExpressionsFromLineStart` |
| `CommandsHaveLines` | `[]CommandsFromOwnLine` |
| `ParserRight` | `[]TreeDerived` |
| `FaultsRight` | `[]FaultReported` |

So every safety property of the passing runs is a theorem for all sizes.

The assumptions are the named ones of the modules. project1: `VarsAssumption`, `IdsAssumption`,
`UnitAssumption`, `BytesAssumption`, `SweepAssumption`, `BoundsAssumption`, and for the last five rows
`DivisibleAssumption`: `Unit` is a multiple of the number of assignments, i.e. every probability is a whole number of
units. It stands for floats being exact: theirs have 24 binary digits, and `project1.cpp:125-126` assumes at most 20 variables. `SmartPointer`: `ObjectsAssumption`,
`SlotsAssumption`, `MembersAssumption`. `Generators`: `OptionsAssumption`, `SizesAssumption` (the datapath's `inputNumBits` is small enough for an `unsigned int`), `StimuliAssumption`,
`PortsAssumption` (every input has a value), `MemoryAssumption`: no 2^32 nodes fit into memory, several hundred gigabytes; if they did, the adder
of no bits would get its carries, and be saved with a carry out that nothing drives. project3: `NamesAssumption`,
`HeaderAssumption`, `FiniteAssumption`, `FaninAssumption`, `TableAssumption`, `MaxNamesAssumption`, `StimuliAssumption`
(`JunkAssumption` concerns TLC's runs only). The dialogue: `LinesAssumption`, a line is a finite sequence of characters, and
`StringCharsAssumption`, no blank, quote, operator or parenthesis is a character of names, as `isalnum` and `_` have it.

**The inductive invariant** `IInv` (`BddProof`) has four parts. `StoreInv`: nodes have live children,
only the terminals have none, ids partition, unique keys describe their nodes and every variable in use
has its literal, computed entries point to nodes with a probability. `LocalsInv`: every local is
*usable*, live and with an assigned probability. `StackInv`: every activation holds the pointers its
remaining code needs; in particular the operands `apply` has split are still not
terminals when it makes its second call (`SplitOperands`), without which the second call could
pass a null child. `SessionInv`: control variables, among them that `expr1` exists in the menu and that
nothing is left in the end. None of the checked properties is inductive alone: that no local points to a
node without a probability needs that no computed entry does, which needs that `apply` inserts
only after its redundancy test, and so on round.

**The argument** of `BddProof`. Deleting what is not reachable keeps a store good
(`ReleaseKeepsGood`), and so do a new node (`NewNodeKeepsGood`), a written probability and an entry. These
become rules for steps that call, return and release (`CallEffect`,
`ReturnEffect`, `ReleaseStep`, `QuietCall`, `QuietReturn`), then there is one lemma
per action, and `StepGood` collects them. Every step lemma also
proves that the heap before and after agree, which is `NodesStayImmutable`. `NodesAcyclic` then needs only
that a step adds at most one node, on top of nodes that are there (`StepGrows`), and `CrashNeedsByte` that an operand is
split on its own variable or is a terminal whose byte names one (`NullChildNeedsByte`).

**The order of variables** is proved on top of `IInv`, by `tainted \/ OInv` (`OrderProof`). `Ordered` is not inductive, for a
function pushes its arguments and holds its results a while before a node joins them. Hence *room*: the
variables that may be tested above a node. Every function returns a node with at least the room
its arguments have in common, and `OInv` says so of whatever is under way: of every remembered entry whose
operands live (`OrderedEntries`), of what each activation holds, and of what it has passed on or
is handed back (`OrderedStack`). `apply` splits on the smaller of two variables, so that it has room above
the cofactors of both operands. The entry of a dead operand says nothing once its id names another node; only
`doomed` separates it from the rest, and once a lookup meets one (`tainted`) a result may be wrong, as `stale_entry` shows.

**Every call returns its function** (`MeaningProof`), by `tainted \/ (OInv /\ Right)`. First, `Den` means something: the function
`Denotation` chooses exists, since the least set of nodes closed under the recursive rules defines one
(`DenotationExists`), and a step changes no surviving node's function (`DenotationKept`), for a least counterexample
would have children that are none. `Right` then is partial correctness of recursive code with its stack in view:
each remembered entry of live operands has the function its key says (`EntriesRight`), each activation
*wants* a function of the call it waits for, has got those it asked for, and what is returned is what was wanted
(`Wants`, `FrameRight`, `StackRight`). `CallRight` and `ReturnRight` are the rules for calls and
returns, and each action then needs a fact about Boolean functions: that an operation distributes over cofactors for the smaller of two
variables (`SubCallMeans`, which is where the order is needed), that a cofactor of a child is
the child of a cofactor (`CofactorOfChild`), that a node without a variable does not depend on it (`NotHasIndependent`).

**The calculator** (end of `MeaningProof`): under the mapping every step of `apply` stutters, reading an operand, asking and delivering map to
`BoolCalc`'s actions (`ReadRefines`, `AskRefines`, `DeliverRefines`, `TurnRefines`), and `MeaningInv` gives the reply. A step that returns a stale
entry maps to the end of the promise.

**Probabilities and the ranking** (also `MeaningProof`). A node's assignments are half of each child's
(`Halves`, `CardinalityOfNode`, by the bijection that drops the variable), so that `Average` of right weights is right
(`WeightOfNode`); this needs `DivisibleAssumption`, as rounding would show otherwise. `ConstantTerminal` is by a least counterexample again.
For the ranking, `SortInv` says that only the outermost activation sorts, `Swept` that every pair it has
collected so far is right, and `Ranked` that the list in the end has all its variables and is sorted. That `Sorted` yields a sorted permutation is `SortedRight`: `Greater` is total, and
the rank of an entry is the number of those above it.

**The invariant of the pointers** `PInv`: types, right counts, soundness (what holds something holds
an object in memory) and no cycle among members. The last is what makes `CollectsReachable` true: counting alone keeps what
has a pointer, and a set of unreachable objects without cycles has one to which none of them points. Counts
are cardinalities of sets of places (`Pointers`), so that each statement is the arrival or departure of one place.

**The collected heap** (`HeapImplemented`). A statement of the client maps to a step of `CollectedHeap` and everything else stutters, but an
assignment is many steps, and which of them is the one a client sees? Its first, `Release`: the mapping
shows the assignment done and the garbage gone at once, while destructors still run. So every step of theirs has to keep what the mapping shows:
the living pointers reach the same objects before and after `Free` (`FreeReaches`), and nothing else. Over at `Retarget`, the
object that the source names is in memory just if the source was outside of what has been released
(`AssignInv`), which is `MisreadsAreOwn` as well; inside, the mapped step is `Break`.

**The invariant of the ripple** `GInv`: while an adder or subtractor works, its nodes exist, its constants have
their values, and the equation of `RippleRight` holds. Its weight lies in the names: that a gate
written for one bit is not an operand still to be read, nor the carry of another, follows from `SuffixApart`, `WiresApart` and
the calls being `Proper`, for the datapath's calls as for those of the options. `FullAdder` and
`FullSubtractor` are the truth tables of one bit's five and six gates.

**The types of the netlist** `TInv`: what is left to do is always the rest of the option's calls, and what the calls before it
create is there (`Progress`). So the loops of the datapath that create nothing, and use the nodes of up to eleven calls, find them.

**The file determines the circuit**, by `FInv`. A value is computed when a gate is made, so making one again could leave those
stale that read it. It does not: every name has *one* gate it can ever have (`Canon`, from the words it is put together from), the
same whichever option asks for it, except for sinks (the sum `s`, the outputs, the last carries), which no gate reads.
So a step makes a gate that is there already, or one that nothing reads (`MakeGate`). For that it may read only what is *firm*: a constant, an
input, or a name that has its gate; which is the case by the order of the calls (`MadeTo`, `DatapathFirm`). Creating nodes again
changes no value (`CreateAllKeeps`), for a constant had that value before. In the end nothing is *loose*: each name the calls of an option create is
an input, a constant, or driven at some bit of some call (`CreatedKinds`).

**What a module computes** (`ModulesCompute`), by `MInv`: on top of `FInv`, the last call of an option has driven its outputs with *its own*
gates (`OwnTo`), for an output is a sink, and an earlier subtractor may have made `s[0]` otherwise. From there on it is a statement about one finished circuit:
its gates read what their names say (`Settled`, `CanonReads`), so each bit is a full adder or subtractor, and the whole word adds up. `Number` is a fold; that
it takes its terms one after the other (`NumberStep`) is proved by counting units, as `2^n` counts subsets, because no induction theorem can be cited; `AllNumbers` is
induction over the bits by a least counterexample. With that, `RippleSum` and `RippleDifference` are the ripple loops of any width,
`NumberMoved` is the shifter, and `DatapathScaled` follows the datapath modulo 2^19: with *h* the weight of the sign bit of x and y, 5x and 3y
lie in [-5h, 5h), their difference lies in [-8h, 8h), and the words have 16h values, just enough
(`Wraps`): two extra bits would not do. The top bits of 5x, 3y and 5x-3y are then their signs (`WordTop`), `sel1` and `sel2` are the sign of the lesser and which one it is, and
the word the multiplexers choose is its absolute value (`DatapathChoices`, `MuxChooses`).

That no gate depends on itself (`CInv`) is an argument about names. Every name an option creates has a *place*: the unit of the
datapath it belongs to (`Stage`) and its position in the ripple chain (`Place`); a canonical gate's fanins are all at smaller places (`CanonNearer`),
whichever call made it. So a set of nodes that contains every node fed from it is all of the circuit (`CircuitFounded`, a least place outside it).
`Levels` is a fold; it climbs a ladder of sets each of which is fed by the one below (`LevelsAreLadder`), and a rung that
is not the whole circuit has at least one node more than the last (`LadderFull`), so as many rungs as nodes are enough.
`OnlyWrapsStop` adds that the circuit stays within `ModuleNodes`, the names that modules with bits create. Its premise `Roomy` says these fit into memory;
the names were counted by TLC for `generators` and are fewer than its 400 nodes. For the assert it adds that a shifter whose sum does not wrap has
created every output its loops look for (`LoopBounds`, `AssertWraps`). In the other theorems a shifter that wraps has to be followed too: its first loop
would only end with an output node for each of its `numShift` bits, more than there can be (`WrapNeverSaved`, from the bound on the circuit's size and
`MemoryAssumption`), so it is never saved.

**The invariant of the sort** `TopoInv`. An *edge* into a node is a position in some node's fanout, *marked*
once the sort has passed it, else *pending*. `CountInv`: `fanin_num` is the number of pending edges, which
redefinitions do not disturb, since they touch neither. `OrderInv`: nodes in the order have no pending
edge, and nodes that have edges and none pending are in the order; so a node enters just once, when its last edge is
marked. `GraphInv`: every fanin is linked back, so that a node with no pending edge has all its
fanins visited, hence before it. `InputsUndriven` is needed because inputs enter the order without
waiting for any edge. The work of the proof is `MarkFanout`: the step removes exactly one
pending edge. `SearchEnds` follows from the order having no node twice.

**The simulation** `SimInv` (`SimulationProof`). Two arguments meet. One is about gates: the simulator knows a gate by the number of
its rows, and that number tells *and*, *or* and *xor* apart at any number of fanins (`CountsDiffer`: all rows are as many as the subsets of the
fanins, and flipping the first bit pairs the rows of odd with those of even parity); its fold is then the parity of its
operands (`FoldIsParity`, by a closed form for the fold's existence and a least counterexample for its uniqueness). So a gate
whose operands are right gets the value of its table (`KnownGateRight`). The other is about the order. `TableInv`: once its line is
read, a node knows the number of its fanins, whatever it was before. `InputsFirst`: the inputs are exactly the first of the order.
With `AfterFanins` and `OnceOnly` from the sort, `ValueInv` is inductive: what the simulator has passed has its value, and
setting the next changes no operand of those (`SetOne`). `Simulable` is the premise of `SimulationRight`: no table for an input, a file that gives
each input once, gates of the known kinds; `simulation` has states with and without it, and a gate
of another kind is the violation of `buffer`.

**The prompts** are inductive as they stand, with what the program knows of its line (`ConsoleInv`): the outcome is `Parse` of the
text. The other two properties then say something about `Parse` for every text, and the dialogue plays no part in them.

**The parser has the grammar's tree** (`ParseDerived`). A call is a function and a position. `Weight` orders them: later in the text is
lighter, and at one position an operand is lighter than what it begins. A call reads only the results of lighter calls (`CallLocal`), which needs that a call
that returns has advanced; so the table of results exists (`TablesRight`) and is what the functions say (`ParsesRight`), and
`CallInduction` is induction over calls by a least counterexample. The derivations of shorter parts give a table in the same way (`DerivationsRight`). There are two directions.
*Complete* (`AllComplete`): if a part has a derivation as an `f`, and what follows may follow an `f`, then `f` called at its
start returns that tree and stops at its end. This is where the grammar is unambiguous: the first operator of a
level is the one at which the descent splits, since the text before a later one would end where no operand may.
*Sound* (`AllSound`): what a call returns is a derivation of the part it has read, with any blanks after it. Together the tree is the
only one, and a refused line has none.

**The first fault is reported** (`ParseReported`). The scan knows what it wants next and which parentheses are open; the descent knows that by where it is. So
`Expecting` says what the scan knows when a function is called, `Ready` what it knows when the function has returned, together with what never follows a
result of its kind (an expression is not followed by an operator, a term not by `&`), and `AllReported`, by induction over calls, that
each function leads from the one to the other or fails with the error of the scan. It needs that the scan does not move over
characters that tell it nothing new, blanks and the rest of a name (`Stationary`), and that its first fault stays (`FaultStays`). What the parser finds at the
end of a call (a missing parenthesis, reported where it was opened) the scan finds from its stack.

**Only model-checked.** `Answered` and `EndNoticed`: liveness under fairness is out of the provers' reach. Induction theorems that take an
operator cannot be cited; where a proof above needs induction it goes by least counterexamples, in finite sets (`Acyclic`,
`WellFoundedInduction`) or numbers (`AllNumbers`), and where it needs a recursive function to exist, by the least fixed point or by tables over ever heavier
arguments. That the six runs of section 3 end in a violation is shown by a trace and needs no proof.

## 5. Not modelled

- ABC, the vendored synthesis system that users run by hand on project2's files: third-party code, not part of
  these programs. The homework sheet, its logic files and the generated circuits: data.
- Of the vendored `Bool_expr*`, the functions for normal forms and simplification, which project1 never calls.
- Printing of diagrams, tables and circuits, and the choice of the verbose mode: they change nothing.
- Variables whose first character is not in `var_all` (letters, digits 1–9 and `_`): the sweep
  of `sort_by_influence` would miss them.
- `float` rounding: exact for up to about twenty variables.
- project2: `print` and `clear` of the circuit, which nothing calls; the wording of its messages.
- project3: `writeBLIF`, `print`, `setPI` and `setPO`, which no option calls; a `.inputs` or `.outputs` after the first
  `.names` (before it they come in any number and order, the last one deciding a node's type); inputs with values other than 0 and 1; several options on one command line, which share nothing.

## 6. What is left

Every safety and action property that a passing run checks, and both refinements, are proved. What could still be proved:

1. The bounds of the sizes: `Roomy` from the names `Generators` creates (now counted by TLC), and how many names an option
   creates at every width.
2. What bounds the recursions of project1: how deep the stack of `apply` gets, in the number of variables while nothing is
   tainted. `Answered` itself, which needs fairness, stays with TLC.
