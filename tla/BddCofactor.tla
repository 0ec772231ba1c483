----------------------------- MODULE BddCofactor -----------------------------
(***************************************************************************)
(* negative_cofactor, positive_cofactor, boolean_difference and            *)
(* sort_by_influence (P1/project1.cpp): functions that call apply, and     *)
(* each other, on the machine of BddApply.                                 *)
(***************************************************************************)
EXTENDS BddApply

CONSTANT
  SweepRank     \* the place of each variable in var_all, the order of the sweep

ASSUME SweepAssumption == SweepRank \in [Vars -> Nat]

VARIABLES
  vecList,      \* the (prob, var) pairs of the sort_by_influence in progress
  ranking       \* what the last sort_by_influence printed

sortVars == <<vecList, ranking>>

CofactorCall(polarity, np, v) == Activation("cofactor", polarity, v, np, Null)
DifferenceCall(np, v)         == Activation("difference", "none", v, np, Null)
SortCall(np)                  == Activation("sort", "none", NoVar, np, Null)

CallUnchanged == UNCHANGED <<idCtr, unique, computed, tainted, vals, crashed, sortVars>>

----------------------------------------------------------------------------
(* negative_cofactor and positive_cofactor, told apart by the frame's op *)

CofactorIsRoot == ~IsTerminal(Top.l) /\ heap[Top.l].var = Top.var
CofactorBelow  == ~IsTerminal(Top.l) /\ heap[Top.l].var # Top.var /\ HasVar(Top.l, Top.var)

\* project1.cpp:81-83, the three early returns.
CofactorTrivial ==
  /\ Entering("cofactor")
  /\ ~CofactorBelow
  /\ Return(IF CofactorIsRoot THEN Child(Top.l, Top.op) ELSE Top.l)
  /\ CallUnchanged
  /\ ReleaseOnly

\* root is the literal of np's variable, taken from the unique table, and
\* root_bar its complement.
CofactorRootBar ==
  /\ Entering("cofactor")
  /\ CofactorBelow
  /\ LET root == FindUnique(heap[Top.l].var, Zero, One)
     IN /\ root # Null
        /\ Call([Top EXCEPT !.at = "bar", !.r = root], ApplyCall("xor", root, One))
  /\ CallUnchanged
  /\ ReleaseOnly

CofactorLow ==
  /\ Resumed("cofactor", "bar")
  /\ Call([Top EXCEPT !.at = "low", !.a = ret],
          CofactorCall(Top.op, heap[Top.l].neg, Top.var))
  /\ CallUnchanged
  /\ ReleaseOnly

CofactorLeft ==
  /\ Resumed("cofactor", "low")
  /\ Call([Top EXCEPT !.at = "left"], ApplyCall("and", Top.a, ret))
  /\ CallUnchanged
  /\ ReleaseOnly

CofactorHigh ==
  /\ Resumed("cofactor", "left")
  /\ Call([Top EXCEPT !.at = "high", !.b = ret],
          CofactorCall(Top.op, heap[Top.l].pos, Top.var))
  /\ CallUnchanged
  /\ ReleaseOnly

CofactorRight ==
  /\ Resumed("cofactor", "high")
  /\ Call([Top EXCEPT !.at = "right"], ApplyCall("and", Top.r, ret))
  /\ CallUnchanged
  /\ ReleaseOnly

CofactorJoin ==
  /\ Resumed("cofactor", "right")
  /\ Call([Top EXCEPT !.at = "join"], ApplyCall("or", Top.b, ret))
  /\ CallUnchanged
  /\ ReleaseOnly

----------------------------------------------------------------------------
(* boolean_difference: again the two arguments may be evaluated either way *)

DifferenceFirst(first) ==
  /\ Entering("difference")
  /\ Call([Top EXCEPT !.at = IF first = "neg" THEN "negFirst" ELSE "posFirst"],
          CofactorCall(first, Top.l, Top.var))
  /\ CallUnchanged
  /\ ReleaseOnly

DifferenceSecond(first) ==
  /\ Resumed("difference", IF first = "neg" THEN "negFirst" ELSE "posFirst")
  /\ LET other == IF first = "neg" THEN "pos" ELSE "neg"
         got == IF first = "neg" THEN [Top EXCEPT !.at = "second", !.a = ret]
                                 ELSE [Top EXCEPT !.at = "second", !.b = ret]
     IN Call(got, CofactorCall(other, Top.l, Top.var))
  /\ CallUnchanged
  /\ ReleaseOnly

DifferenceXor ==
  /\ Resumed("difference", "second")
  /\ LET neg == IF Top.a = Null THEN ret ELSE Top.a
         pos == IF Top.a = Null THEN Top.b ELSE ret
     IN Call([Top EXCEPT !.at = "join"], ApplyCall("xor", pos, neg))
  /\ CallUnchanged
  /\ ReleaseOnly

\* Either function returns what its last apply returned.
ReturnJoined ==
  /\ Resumed("cofactor", "join") \/ Resumed("difference", "join")
  /\ Return(ret)
  /\ CallUnchanged
  /\ ReleaseOnly

----------------------------------------------------------------------------
(* sort_by_influence *)

\* Greater, the order of the printed list.  Mutant: ascending.
Smaller(x, y) == IF x.prob = y.prob THEN x.var < y.var ELSE x.prob < y.prob
Greater(x, y) == IF x.prob = y.prob THEN x.var < y.var ELSE x.prob > y.prob

\* The elements of S in that order, which leaves none of two different ones open.
Sorted(S) ==
  CHOOSE s \in [1 .. Cardinality(S) -> S] : \A i, j \in DOMAIN s : i < j => Greater(s[i], s[j])

Sorting == Entering("sort") \/ Resumed("sort", "swept")
Collected ==
  IF Top.at = "enter" THEN {}
  ELSE vecList \cup {[var |-> Top.var, prob |-> heap[ret].prob]}
\* The variables np has that the sweep has not come to.  Mutant: it starts over.
UnsweptAgain == {v \in Vars : HasVar(Top.l, v)}
Unswept == {v \in Vars : HasVar(Top.l, v)} \ {e.var : e \in Collected}

\* The next variable np has: its difference is built and its probability noted.
SortSweep ==
  /\ Sorting
  /\ Unswept # {}
  /\ LET v == CHOOSE w \in Unswept : \A u \in Unswept : SweepRank[w] <= SweepRank[u]
     IN Call([Top EXCEPT !.at = "swept", !.var = v], DifferenceCall(Top.l, v))
  /\ vecList' = Collected
  /\ UNCHANGED <<idCtr, unique, computed, tainted, vals, crashed, ranking>>
  /\ ReleaseOnly

SortFinish ==
  /\ Sorting
  /\ Unswept = {}
  /\ ranking' = Sorted(Collected)
  /\ vecList' = {}
  /\ Return(Top.l)
  /\ UNCHANGED <<idCtr, unique, computed, tainted, vals, crashed>>
  /\ ReleaseOnly

CofactorStep ==
  \/ CofactorTrivial \/ CofactorRootBar \/ CofactorLow \/ CofactorLeft
  \/ CofactorHigh \/ CofactorRight \/ CofactorJoin
  \/ \E first \in {"neg", "pos"} : DifferenceFirst(first) \/ DifferenceSecond(first)
  \/ DifferenceXor
  \/ ReturnJoined
  \/ SortSweep
  \/ SortFinish
=============================================================================
