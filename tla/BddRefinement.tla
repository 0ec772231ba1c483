---------------------------- MODULE BddRefinement ----------------------------
(***************************************************************************)
(* project1 implements BoolCalc: a pointer main or bdd_from_expr holds     *)
(* stands for the function of its node, and the promise lasts as long as   *)
(* no stale computed-table entry has been returned.                        *)
(***************************************************************************)
EXTENDS BddMeaning

Calc == INSTANCE BoolCalc
          WITH stage <- phase, asked <- req, ok <- ~tainted,
               fvals <- [i \in DOMAIN vals |-> Den(vals[i])]

\* Every behaviour of the program, seen through the meaning of the pointers
\* held outside apply, is one of the calculator: every answer is the function
\* asked for, operands not yet used keep their meaning while nodes are made,
\* duplicated, deleted and their ids recycled around them.
ImplementsCalculator == Calc!Spec
=============================================================================
