---------------------------- MODULE MCGenerators ----------------------------
(* Small widths of every module, on every value of the inputs: a, x and orig *)
(* have the same value, and so have b and y; the carry in is set where one   *)
(* of the top bits is.  The sum of the widths of the last shifter wraps.      *)
EXTENDS Generators

O(op, bits, shift) == [op |-> op, bits |-> bits, shift |-> shift]
SmallOptions ==
  {O("add", n, 0) : n \in {0, 1, 3}} \cup {O("sub", n, 0) : n \in {0, 2, 3}}
    \cup {O("shift", 2, 1), O("absmin", 0, 0), O("shift", 2, UintMod - 1)}

InputNames == UNION {Bits(<<p>>, 3) : p \in {"a", "x", "orig", "b", "y"}} \cup {Wire("cin")}

Numbers == [0 .. 2 -> {0, 1}]
StimulusOf(u, v) ==
  [n \in InputNames |-> IF n = Wire("cin") THEN (u[2] + v[2]) % 2
                        ELSE IF n[1][1] \in {"a", "x", "orig"} THEN u[n[2]] ELSE v[n[2]]]
AllStimuli == {StimulusOf(u, v) : u \in Numbers, v \in Numbers}
=============================================================================
