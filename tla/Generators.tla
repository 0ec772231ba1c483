------------------------------ MODULE Generators ------------------------------
(***************************************************************************)
(* project2 (P2/EECS478P2_chengfu: main.cpp, modules.cpp, datapaths.cpp):  *)
(* one Circuit, into which every option of the command line builds its     *)
(* module, one loop iteration after the other, before it writes the file.  *)
(*                                                                         *)
(* A module is a sequence of calls (todo): one for an adder, a subtractor  *)
(* or a shifter, twelve for abs(min(5x,3y)).  A call first creates its     *)
(* nodes, then its gates bit by bit.                                       *)
(***************************************************************************)
EXTENDS Netlist, Folds

CONSTANTS
  Options,      \* what the command line may ask for: [op, bits, shift]
  MaxOptions,   \* bound: the options of one command line
  InBits,       \* the width of x and y (16 in the code, and 19 = 16 + 3 inside)
  UintMod,      \* unsigned int counts modulo this (2^32)
  Memory,       \* the nodes that fit into memory
  Stimuli       \* values for the input bits: what the circuits are tried on

Option == [op : {"add", "sub", "shift", "absmin"}, bits : 0 .. (UintMod - 1), shift : 0 .. (UintMod - 1)]

ASSUME OptionsAssumption == Options \subseteq Option
ASSUME SizesAssumption ==
  /\ MaxOptions \in Nat /\ InBits \in Nat \ {0} /\ Memory \in Nat
  /\ UintMod \in Nat /\ InBits + 5 < UintMod
ASSUME StimuliAssumption == \A v \in Stimuli : v \in [DOMAIN v -> {0, 1}]
\* Fewer nodes fit into memory than an unsigned int can count.
ASSUME MemoryAssumption == Memory + 1 < UintMod

VARIABLES
  circuit,    \* nodeMap
  phase,      \* "options", "build", "exhausted" (no memory for a node),
              \* "aborted" (by an assert), "done"
  left,       \* bound: options the command line may still have
  option,     \* the option being worked on, or the last one
  todo,       \* the calls its module still consists of, the first one running
  bit,        \* the bit that call is at, or NoBit while it creates its nodes
  tally,      \* history: the numbers that the bits passed so far amount to
  given,      \* history: the values chosen for the inputs
  saved       \* the circuit as it is has been written to a file

control == <<phase, left, option, todo, bit>>
vars == <<control, circuit, tally, given, saved>>

\* Mutant of Less: one less than one is already wrapped.
LessTwo(n) == (n - 2) % UintMod
Less(n) == (n - 1) % UintMod
Bits(prefix, n) == {Bit(prefix, i) : i \in 0 .. (n - 1)}

----------------------------------------------------------------------------
(* The calls *)

NoCall == [op |-> "none", a |-> <<>>, b |-> <<>>, out |-> <<>>, cin |-> Wire("cin"),
           cout |-> Wire("cout"), bits |-> 0, shift |-> 0]
AddCall(a, b, cin, out, cout, n) ==
  [NoCall EXCEPT !.op = "add", !.a = a, !.b = b, !.cin = cin, !.out = out, !.cout = cout, !.bits = n]
SubCall(a, b, out, n) == [NoCall EXCEPT !.op = "sub", !.a = a, !.b = b, !.out = out, !.bits = n]
ShiftCall(a, out, n, s) == [NoCall EXCEPT !.op = "shift", !.a = a, !.out = out, !.bits = n, !.shift = s]
Plain(op) == [NoCall EXCEPT !.op = op]

Width == InBits + 3
x == <<"x">>
y == <<"y">>
z == <<"z">>
fiveX  == <<"x", "_5X">>
threeY == <<"y", "_3Y">>
minus5X == <<"x", "_-5X">>
minus3Y == <<"y", "_-3Y">>
diff    == <<"z", "_5X-3Y">>
zeros   == <<"ZERO_19">>

\* createABSMIN5X3YModule, from its ports to its multiplexers.
AbsMinCalls ==
  <<Plain("ports"), Plain("extend"), Plain("zero"),
    ShiftCall(x, <<"x", "_4X">>, Width, 2),
    AddCall(x, <<"x", "_4X">>, Wire("ZERO"), fiveX, Wire("x_cout"), Width),
    ShiftCall(y, <<"y", "_2Y">>, Width, 1),
    AddCall(y, <<"y", "_2Y">>, Wire("ZERO"), threeY, Wire("y_cout"), Width),
    SubCall(zeros, fiveX, minus5X, Width),
    SubCall(zeros, threeY, minus3Y, Width),
    SubCall(fiveX, threeY, diff, Width),
    Plain("select"), Plain("mux")>>

Calls(o) ==
  CASE o.op = "add"    -> <<AddCall(<<"a">>, <<"b">>, Wire("cin"), <<"s">>, Wire("cout"), o.bits)>>
    [] o.op = "sub"    -> <<SubCall(<<"a">>, <<"b">>, <<"s">>, o.bits)>>
    [] o.op = "shift"  -> <<ShiftCall(<<"orig">>, <<"out">>, o.bits, o.shift)>>
    [] o.op = "absmin" -> AbsMinCalls

call == Head(todo)

\* The output bits of a shifter: numBits + numShift, in unsigned arithmetic.
Outputs(k) == (k.bits + k.shift) % UintMod

\* The nodes a call creates; numBits - 1 of the carries, in unsigned arithmetic.
Created(k) ==
  LET all(prefixes, n) == UNION {Bits(p, n) : p \in prefixes}
  IN CASE k.op = "add" ->
            all({k.a, k.b, k.out, k.out \o <<"_AB">>, k.out \o <<"_AxorB">>, k.out \o <<"_ciAxorB">>}, k.bits)
              \cup Bits(k.out \o <<"_c">>, Less(k.bits)) \cup {k.cin, k.cout, Wire("zero")}
       [] k.op = "sub" ->
            all({k.a, k.b, k.out, k.out \o <<"_Bo">>, k.out \o <<"_AxorB">>, k.out \o <<"_notAxorB">>,
                 k.out \o <<"_temp1">>, k.out \o <<"_notA">>, k.out \o <<"_temp2">>}, k.bits)
              \cup {Wire("zero"), Wire("one")}
       [] k.op = "shift" -> Bits(k.a, k.bits) \cup Bits(k.out, Outputs(k)) \cup {Wire("ZERO")}
       [] k.op = "ports" -> all({x, y, z, zeros}, Width)
       [] k.op = "zero"  -> {Wire("ZERO")}
       [] k.op = "select" -> {Wire("sel1"), Wire("sel2")}
       [] OTHER -> {}

ZeroNodes(k) ==
  CASE k.op \in {"add", "sub"} -> {Wire("zero")}
    [] k.op \in {"shift", "zero"} -> {Wire("ZERO")}
    [] k.op = "ports" -> Bits(zeros, Width)
    [] OTHER -> {}
OneNodes(k) == IF k.op = "sub" THEN {Wire("one")} ELSE {}

\* The bits its loop runs over: from First up to, but not including, End.  A
\* shifter has two loops, of which the second may have nothing left to do.
First(k) == IF k.op = "extend" THEN InBits ELSE 0
End(k) ==
  CASE k.op \in {"add", "sub"} -> k.bits
    [] k.op = "shift" -> IF Outputs(k) < k.shift THEN k.shift ELSE Outputs(k)
    [] k.op \in {"extend", "mux"} -> Width
    [] k.op = "select" -> 1
    [] OTHER -> 0

----------------------------------------------------------------------------
(* The steps of a call *)

NoTally == [a |-> 0, b |-> 0, out |-> 0, weight |-> 1]
Bump(a, b, out) ==
  tally' = [a |-> tally.a + tally.weight * circuit[a].val,
            b |-> tally.b + tally.weight * circuit[b].val,
            out |-> tally.out + tally.weight * circuit'[out].val,
            weight |-> 2 * tally.weight]

Building == phase = "build" /\ todo # <<>>

\* The loops at the head of a module that create its nodes.
CreateAll ==
  /\ Building /\ bit = NoBit
  /\ Cardinality(DOMAIN circuit \cup Created(call)) <= Memory
  /\ LET c == CreateNodes(circuit, Created(call), given)
     IN circuit' = [n \in DOMAIN c |->
                      IF n \in ZeroNodes(call) THEN ConstantNode("zero")
                      ELSE IF n \in OneNodes(call) THEN ConstantNode("one")
                      ELSE c[n]]
  /\ bit' = First(call) /\ tally' = NoTally
  /\ UNCHANGED <<phase, left, option, todo, given, saved>>

\* operator new fails, which nothing catches.
Exhaust ==
  /\ Building /\ bit = NoBit
  /\ Cardinality(DOMAIN circuit \cup Created(call)) > Memory
  /\ phase' = "exhausted"
  /\ UNCHANGED <<left, option, todo, bit, circuit, tally, given, saved>>

At(op) == Building /\ bit # NoBit /\ bit < End(call) /\ call.op = op
Advance == bit' = bit + 1 /\ UNCHANGED <<phase, left, option, todo, given, saved>>

CarryIn(k, i) == IF i = 0 THEN k.cin ELSE Bit(k.out \o <<"_c">>, i - 1)
CarryOut(k, i) == IF i = Less(k.bits) THEN k.cout ELSE Bit(k.out \o <<"_c">>, i)

\* s = a xor b xor ci;  co = a and b, or ci and (a xor b).
AddBit ==
  /\ At("add")
  /\ LET a  == Bit(call.a, bit)
         b  == Bit(call.b, bit)
         ci == CarryIn(call, bit)
         s  == Bit(call.out, bit)
         ab   == Bit(call.out \o <<"_AB">>, bit)
         axb  == Bit(call.out \o <<"_AxorB">>, bit)
         caxb == Bit(call.out \o <<"_ciAxorB">>, bit)
         c1 == SetGate(circuit, s, "xor3", <<a, b, ci>>)
         c2 == SetGate(c1, ab, "and2", <<a, b>>)
         c3 == SetGate(c2, axb, "xor3", <<Wire("zero"), a, b>>)
         c4 == SetGate(c3, caxb, "and2", <<ci, axb>>)
     IN /\ circuit' = SetGate(c4, CarryOut(call, bit), "or2", <<ab, caxb>>)
        /\ Bump(a, b, s)
  /\ Advance

\* Mutant: the borrow is that of this bit.
BorrowInSame(k, i) == Bit(k.out \o <<"_Bo">>, i)
BorrowIn(k, i) == IF i = 0 THEN Wire("zero") ELSE Bit(k.out \o <<"_Bo">>, i - 1)

\* s = a xor b xor bi;  bo = bi and not (a xor b), or not a and b.
SubBit ==
  /\ At("sub")
  /\ LET a  == Bit(call.a, bit)
         b  == Bit(call.b, bit)
         bi == BorrowIn(call, bit)
         s  == Bit(call.out, bit)
         axb  == Bit(call.out \o <<"_AxorB">>, bit)
         naxb == Bit(call.out \o <<"_notAxorB">>, bit)
         t1   == Bit(call.out \o <<"_temp1">>, bit)
         na   == Bit(call.out \o <<"_notA">>, bit)
         t2   == Bit(call.out \o <<"_temp2">>, bit)
         c1 == SetGate(circuit, s, "xor3", <<a, b, bi>>)
         c2 == SetGate(c1, axb, "xor3", <<Wire("zero"), a, b>>)
         c3 == SetGate(c2, naxb, "xor3", <<Wire("zero"), axb, Wire("one")>>)
         c4 == SetGate(c3, t1, "and2", <<bi, naxb>>)
         c5 == SetGate(c4, na, "xor3", <<Wire("zero"), a, Wire("one")>>)
         c6 == SetGate(c5, t2, "and2", <<na, b>>)
     IN /\ circuit' = SetGate(c6, Bit(call.out \o <<"_Bo">>, bit), "or2", <<t1, t2>>)
        /\ Bump(a, b, s)
  /\ Advance

\* Zeros below, then the input moved up by numShift.
ShiftBit ==
  /\ At("shift") /\ Bit(call.out, bit) \in DOMAIN circuit
  /\ circuit' = SetGate(circuit, Bit(call.out, bit), "buf1",
                        <<IF bit < call.shift THEN Wire("ZERO") ELSE Bit(call.a, bit - call.shift)>>)
  /\ UNCHANGED tally /\ Advance

\* assert(outNode != NULL): numBits + numShift wrapped, and too few were created.
AssertFails ==
  /\ At("shift") /\ Bit(call.out, bit) \notin DOMAIN circuit
  /\ phase' = "aborted" /\ bit' = NoBit
  /\ UNCHANGED <<left, option, todo, circuit, tally, given, saved>>

\* x and y are extended with their sign.
ExtendBit ==
  /\ At("extend")
  /\ LET c == SetGate(circuit, Bit(x, bit), "buf1", <<Bit(x, InBits - 1)>>)
     IN circuit' = SetGate(c, Bit(y, bit), "buf1", <<Bit(y, InBits - 1)>>)
  /\ UNCHANGED tally /\ Advance

\* The sign of the minimum, and which of the two it is.
\* Mutant: the sign of 5x alone.
SignOfFirst(c) == SetGate(c, Wire("sel1"), "buf1", <<Bit(fiveX, Width - 1)>>)
SignOfEither(c) == SetGate(c, Wire("sel1"), "or2", <<Bit(fiveX, Width - 1), Bit(threeY, Width - 1)>>)
Select ==
  /\ At("select")
  /\ circuit' = SetGate(SignOfEither(circuit), Wire("sel2"), "buf1", <<Bit(diff, Width - 1)>>)
  /\ UNCHANGED tally /\ Advance

MuxBit ==
  /\ At("mux")
  /\ circuit' = Mux4(circuit, Wire("sel2"), Wire("sel1"), Bit(threeY, bit), Bit(fiveX, bit),
                     Bit(minus3Y, bit), Bit(minus5X, bit), Bit(z, bit))
  /\ UNCHANGED tally /\ Advance

\* Mutant: the loop counter keeps its value.
EndCallCounting ==
  /\ Building /\ bit # NoBit /\ bit >= End(call)
  /\ todo' = Tail(todo)
  /\ UNCHANGED <<phase, left, option, bit, circuit, tally, given, saved>>
EndCall ==
  /\ Building /\ bit # NoBit /\ bit >= End(call)
  /\ todo' = Tail(todo) /\ bit' = NoBit
  /\ UNCHANGED <<phase, left, option, circuit, tally, given, saved>>

----------------------------------------------------------------------------
(* main *)

NoOption == [op |-> "add", bits |-> 0, shift |-> 0]

Init ==
  /\ circuit = <<>> /\ phase = "options" /\ left = MaxOptions /\ option = NoOption
  /\ todo = <<>> /\ bit = NoBit /\ tally = NoTally /\ saved = FALSE
  /\ given \in Stimuli

ReadOption(o) ==
  /\ phase = "options" /\ left > 0
  /\ left' = left - 1 /\ option' = o /\ phase' = "build" /\ todo' = Calls(o)
  /\ saved' = FALSE
  /\ UNCHANGED <<bit, circuit, tally, given>>

\* What main makes the ports of the circuit after each option.
PortsOf(o) ==
  CASE o.op = "add" -> [ins  |-> Bits(<<"a">>, o.bits) \cup Bits(<<"b">>, o.bits) \cup {Wire("cin")},
                        outs |-> Bits(<<"s">>, o.bits) \cup {Wire("cout")}]
    [] o.op = "sub" -> [ins |-> Bits(<<"a">>, o.bits) \cup Bits(<<"b">>, o.bits), outs |-> Bits(<<"s">>, o.bits)]
    [] o.op = "shift"  -> [ins |-> Bits(<<"orig">>, o.bits), outs |-> Bits(<<"out">>, Outputs(o))]
    [] o.op = "absmin" -> [ins |-> Bits(x, InBits) \cup Bits(y, InBits), outs |-> Bits(z, Width)]

\* Every input has a value.
ASSUME PortsAssumption == \A v \in Stimuli, o \in Options : PortsOf(o).ins \subseteq DOMAIN v

\* The ports are set and the file is written; if it cannot be opened nothing
\* is, and main goes on with the next option as if it had been.
Save ==
  /\ phase = "build" /\ todo = <<>>
  /\ circuit' = SetPorts(circuit, PortsOf(option).ins, PortsOf(option).outs)
  /\ saved' \in BOOLEAN
  /\ phase' = "options"
  /\ UNCHANGED <<left, option, todo, bit, tally, given>>

\* No option is left, or an unknown one prints the usage text and exits.
Finish ==
  /\ phase = "options" /\ phase' = "done"
  /\ UNCHANGED <<left, option, todo, bit, circuit, tally, given, saved>>

Stopped == phase \in {"exhausted", "aborted", "done"} /\ UNCHANGED vars

Build == AddBit \/ SubBit \/ ShiftBit \/ ExtendBit \/ Select \/ MuxBit

Next == \/ \E o \in Options : ReadOption(o)
        \/ CreateAll \/ Exhaust \/ Build \/ AssertFails \/ EndCall
        \/ Save \/ Finish
        \/ Stopped

Spec == Init /\ [][Next]_vars

----------------------------------------------------------------------------
(* Properties *)

val(n) == circuit[n].val

\* Every variable has its type, and what a running call has created is there.
GenTypeOK ==
  /\ circuit \in [DOMAIN circuit -> [type : Types, fanin : Seq(DOMAIN circuit),
                                    gate : Gates \cup {NoGate}, val : {0, 1}]]
  /\ phase \in {"options", "build", "exhausted", "aborted", "done"} /\ left \in 0 .. MaxOptions
  /\ option \in Options \cup {NoOption} /\ given \in Stimuli /\ saved \in BOOLEAN
  /\ bit # NoBit => Building /\ bit \in First(call) .. End(call) /\ Created(call) \subseteq DOMAIN circuit

\* The carry into bit i; behind the last bit it is the carry out.
Carry(k, i) == IF i = 0 THEN k.cin ELSE IF i = k.bits THEN k.cout ELSE Bit(k.out \o <<"_c">>, i - 1)

\* modules.cpp:46-100, 150-212: after every iteration of the ripple loop the
\* numbers met so far and the carry (the borrow) still in the chain add up:
\* a + b + cin = s + 2^i carry, and a - b = s - 2^i borrow.
RippleRight ==
  Building /\ bit # NoBit =>
    /\ call.op = "add" =>
         tally.a + tally.b + val(call.cin) = tally.out + tally.weight * val(Carry(call, bit))
    /\ call.op = "sub" =>
         tally.a - tally.b = tally.out - tally.weight * val(BorrowIn(call, bit))

\* The number that bits 0 .. n-1 of a name make up, and the same in two's complement.
Number(prefix, n) == FoldFunction(+, 0, [i \in 0 .. (n - 1) |-> 2 ^ i * val(Bit(prefix, i))])
Signed(prefix, n) == Number(prefix, n) - 2 ^ n * val(Bit(prefix, n - 1))
Lesser(m, n) == IF m <= n THEN m ELSE n

\* main.cpp:150-153: the outputs of a saved module are the function of its
\* inputs that its option names, whatever modules were built before it.
ModuleComputes ==
  saved =>
    LET n == option.bits
    IN CASE option.op = "add" ->
              Number(<<"s">>, n) + 2 ^ n * val(Wire("cout"))
                = Number(<<"a">>, n) + Number(<<"b">>, n) + val(Wire("cin"))
         [] option.op = "sub" -> Number(<<"s">>, n) = (Number(<<"a">>, n) - Number(<<"b">>, n)) % 2 ^ n
         [] option.op = "shift" -> Number(<<"out">>, n + option.shift) = 2 ^ option.shift * Number(<<"orig">>, n)
         [] option.op = "absmin" ->
              LET least == Lesser(5 * Signed(x, InBits), 3 * Signed(y, InBits))
              IN Number(z, Width) = IF least < 0 THEN -least ELSE least

\* circuit.cpp:119-196: the file alone determines those values.  No gate is
\* hidden behind a constant or an input port, none has lost or gathered fanins,
\* and what it does not drive are its inputs, which have the values given.
FileDetermines ==
  saved =>
    LET f == Written(circuit)
    IN /\ \A n \in f.inputs : val(n) = given[n]
       /\ \A n \in DOMAIN f.names :
            LET s == f.names[n]
            IN CASE s.gate = "zero" -> val(n) = 0
                 [] s.gate = "one"  -> val(n) = 1
                 [] s.gate \in Gates ->
                      /\ \A row \in Rows[s.gate] : Len(row) = Len(s.fanin)
                      /\ val(n) = Value(s.gate, ValuesOf(circuit, s.fanin))
                 [] OTHER -> FALSE

\* The nodes with a level below k: in the end all of them, unless there is a cycle.
Levels(k) ==
  LET ready(s) == {n \in DOMAIN circuit : Range(circuit[n].fanin) \subseteq s}
  IN FoldLeft(LAMBDA s, i : IF s = DOMAIN circuit THEN s ELSE ready(s), {}, [i \in 1 .. k |-> i])

\* A netlist is combinational: however often nodes are built over, no gate
\* comes to depend on itself.  (The gates do not depend on the values of the
\* inputs: they are only looked at where those are all zero.)
Combinational ==
  saved /\ Range(given) = {0} => Levels(Cardinality(DOMAIN circuit)) = DOMAIN circuit

\* The nodes of an option's module, and of all the modules that can be built:
\* every option's but the adder of no bits.
CreatedFor(o) == UNION {Created(Calls(o)[i]) : i \in 1 .. Len(Calls(o))}
NoBits(o) == o.op = "add" /\ o.bits = 0
ModuleNodes == UNION {CreatedFor(o) : o \in {p \in Options : ~NoBits(p)}}
\* The widths are small enough: all of that fits into memory together.
Roomy == IsFiniteSet(ModuleNodes) /\ Cardinality(ModuleNodes) <= Memory

\* modules.cpp:32, 249: with small enough widths memory runs out only for the
\* empty adder, whose numBits - 1 carries are UINT_MAX, and an assert fails only
\* where numBits + numShift is more than an unsigned int holds.
OnlyWrapsFail ==
  /\ phase = "exhausted" => NoBits(option)
  /\ phase = "aborted" => option.op = "shift" /\ option.bits + option.shift >= UintMod

\* main.cpp:150-153 "Save <uint>-bit adder module": a saved file has the ports
\* of its module and no others.
OwnPorts ==
  saved => LET f == Written(circuit)
           IN f.inputs = PortsOf(option).ins /\ f.outputs = PortsOf(option).outs
=============================================================================
