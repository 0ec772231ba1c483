------------------------------- MODULE BoolCalc -------------------------------
(***************************************************************************)
(* What project1 promises its user: a calculator for Boolean functions.    *)
(* Expressions are evaluated, then one function at a time is transformed   *)
(* by the commands of the menu; every answer is the function asked for     *)
(* (P1/main.cpp with the comments over project1.cpp's functions).          *)
(*                                                                         *)
(* There are no nodes, ids or tables here.  BddSession implements this     *)
(* specification (BddRefinement), with ok false from the moment a lookup   *)
(* has met a stale computed-table entry: nothing is promised after that.   *)
(***************************************************************************)
EXTENDS Integers, Sequences

CONSTANT Vars      \* the variables

VARIABLES
  stage,     \* "expr", "menu", "expr2" or "done"
  fvals,     \* the operands of the expression being read; in the menu, expr1
  asked,     \* the operation asked for and not yet answered
  ok         \* answers can still be relied on

calcVars == <<stage, fvals, asked, ok>>

Assignments == SUBSET Vars
Functions == SUBSET Assignments
Nothing == [op |-> "none", var |-> 0]
Binary == {"and", "or", "xor"}
OnVariable == {"neg", "pos", "diff"}

Restricted(f, v, value) ==
  {s \in Assignments : (IF value THEN s \cup {v} ELSE s \ {v}) \in f}
Xor(f, g) == (f \ g) \cup (g \ f)

\* The function that answers request r about f, or about g and f.
Answer(r, g, f) ==
  CASE r.op = "not"  -> Assignments \ f
    [] r.op = "and"  -> g \cap f
    [] r.op = "or"   -> g \cup f
    [] r.op = "xor"  -> Xor(g, f)
    [] r.op = "neg"  -> Restricted(f, r.var, FALSE)
    [] r.op = "pos"  -> Restricted(f, r.var, TRUE)
    [] r.op = "diff" -> Xor(Restricted(f, r.var, TRUE), Restricted(f, r.var, FALSE))
    [] r.op = "sort" -> f

Init == stage = "expr" /\ fvals = <<>> /\ asked = Nothing /\ ok = TRUE

\* A variable or a constant is read.
Push ==
  /\ stage \in {"expr", "expr2"} /\ asked = Nothing
  /\ \E f \in {{}, Assignments} \cup {{s \in Assignments : v \in s} : v \in Vars} :
       fvals' = Append(fvals, f)
  /\ UNCHANGED <<stage, asked, ok>>

\* An operator is read, or a command given.
Ask ==
  /\ asked = Nothing
  /\ \/ stage \in {"expr", "expr2"} /\ stage' = stage
        /\ asked' \in [op : {"not", "and", "or"}, var : {0}]
     \/ stage = "menu" /\ stage' = stage
        /\ asked' \in [op : OnVariable, var : Vars] \cup [op : {"sort"}, var : {0}]
     \/ stage = "expr2" /\ stage' = "menu" /\ Len(fvals) = 2
        /\ asked' \in [op : Binary, var : {0}]
  /\ UNCHANGED <<fvals, ok>>

Reply ==
  /\ asked # Nothing
  /\ LET n == Len(fvals)
         used == IF asked.op \in Binary THEN 2 ELSE 1
     IN /\ n >= used /\ Len(fvals') = n - used + 1
        /\ SubSeq(fvals', 1, n - used) = SubSeq(fvals, 1, n - used)
        /\ ok => fvals'[n - used + 1] = Answer(asked, fvals[n - used + 1], fvals[n])
  /\ asked' = Nothing
  /\ UNCHANGED <<stage, ok>>

\* The first expression is complete; 'a' asks for a second one; 'q'.
Turn ==
  /\ asked = Nothing
  /\ \/ stage = "expr" /\ stage' = "menu" /\ Len(fvals) = 1 /\ fvals' = fvals
     \/ stage = "menu" /\ stage' = "expr2" /\ fvals' = fvals
     \/ stage = "menu" /\ stage' = "done" /\ fvals' = <<>>
  /\ UNCHANGED <<asked, ok>>

Spoil == ok' = FALSE /\ UNCHANGED <<stage, fvals, asked>>

Next == Push \/ Ask \/ Reply \/ Turn \/ Spoil
Spec == Init /\ [][Next]_calcVars
=============================================================================
