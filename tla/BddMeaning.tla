----------------------------- MODULE BddMeaning -----------------------------
(***************************************************************************)
(* What BDDs mean, and that the package computes with them correctly as    *)
(* long as no lookup has met a computed-table entry whose key outlived one *)
(* of its operands (~tainted).                                             *)
(*                                                                         *)
(* A Boolean function is the set of its satisfying assignments, and an     *)
(* assignment the set of the variables it makes true.                      *)
(***************************************************************************)
EXTENDS BddInvariants

Assignments == SUBSET Vars

\* The function of node n of h.
Denotation(h) ==
  LET den[m \in DOMAIN h] ==
        IF m = One THEN Assignments
        ELSE IF m = Zero THEN {}
        ELSE LET neg == den[h[m].neg]
                 pos == den[h[m].pos]
             IN {s \in Assignments : s \in IF h[m].var \in s THEN pos ELSE neg}
  IN den
Den(n) == Denotation(heap)[n]

\* The reference definitions of the operations.
FunctionOf(op, f, g) ==
  CASE op = "and" -> f \cap g
    [] op = "or"  -> f \cup g
    [] op = "xor" -> (f \ g) \cup (g \ f)
FunctionCofactor(polarity, f, v) ==
  {s \in Assignments : (IF polarity = "pos" THEN s \cup {v} ELSE s \ {v}) \in f}
FunctionDifference(f, v) ==
  FunctionOf("xor", FunctionCofactor("pos", f, v), FunctionCofactor("neg", f, v))
Support(f) == {v \in Vars : FunctionDifference(f, v) # {}}

\* Unit times the share of the assignments that satisfy f.
Weight(f) == (Unit * Cardinality(f)) \div Cardinality(Assignments)

\* Every such share is a whole number of units: the code's floats, with their
\* 24 binary digits, hold those of up to 24 variables without rounding.
UnitDivisible == Unit % Cardinality(Assignments) = 0
ASSUME DivisibleAssumption == UnitDivisible

\* What the activation of a frame is to return.
Meaning(f) ==
  CASE f.fn = "apply"      -> FunctionOf(f.op, Den(f.l), Den(f.r))
    [] f.fn = "cofactor"   -> FunctionCofactor(f.op, Den(f.l), f.var)
    [] f.fn = "difference" -> FunctionDifference(Den(f.l), f.var)
    [] f.fn = "sort"       -> Den(f.l)

----------------------------------------------------------------------------
\* Every activation of apply, a cofactor, boolean_difference or
\* sort_by_influence returns a BDD of the function it is asked for, through
\* any reuse of nodes, ids and computed results, in either argument order.
ReturnsMeaning ==
  [][(Len(stack') < Len(stack) /\ ~tainted') => Den(ret)' = Meaning(Top)]_vars

\* Variables increase along every path (has_var and find_next_var rely on it).
Ordered ==
  ~tainted => \A n \in DOMAIN heap \ {Zero, One} :
    \A c \in {heap[n].neg, heap[n].pos} \ {Zero, One} : heap[n].var < heap[c].var

\* A probability that has been assigned is the share of the assignments that
\* satisfy the node (project1.cpp:48-51, 68; main.cpp:310).
ProbabilityRight ==
  ~tainted => \A n \in DOMAIN heap : heap[n].prob # Unset => heap[n].prob = Weight(Den(n))

\* Although equal nodes are duplicated, a function that is constant is always
\* the terminal itself: what get_var's is_terminal test, the terminal cases
\* and a user who looks for a tautology rely on.
ConstantsAreTerminal ==
  ~tainted => \A n \in DOMAIN heap \ {Zero, One} :
    heap[n].prob # Unset => Den(n) \notin {{}, Assignments}

\* sort_by_influence lists the variables of its argument, every variable its
\* function depends on among them, each with the probability of its
\* difference, in descending order.
RankingRight ==
  (~tainted /\ stack = <<>> /\ ret # Null /\ req.op = "sort") =>
    LET f == Den(vals[1])
    IN /\ Support(f) \subseteq {e.var : e \in Range(ranking)}
       /\ \A e \in Range(ranking) :
            /\ HasVar(vals[1], e.var)
            /\ e.prob = Weight(FunctionDifference(f, e.var))
       /\ \A i, j \in DOMAIN ranking :
            i < j => \/ ranking[i].prob > ranking[j].prob
                     \/ ranking[i].prob = ranking[j].prob /\ ranking[i].var < ranking[j].var

\* Every request is answered, the recursions end: or apply has met a terminal
\* whose unassigned variable sent it to a null child (CrashesByByteOnly).
Answered == (req # NoRequest) ~> (req = NoRequest \/ crashed)

----------------------------------------------------------------------------
\* bdd_tables.h:22-23: an entry of the computed table is identified by the
\* operation and the ids of the nodes it was performed on, so that whoever
\* looks two nodes up finds the result for these nodes.
ComputedIdentifies ==
  \A k \in DOMAIN computed :
    {k.lhs, k.rhs} \subseteq DOMAIN heap =>
      Den(computed[k]) = FunctionOf(k.op, Den(k.lhs), Den(k.rhs))
=============================================================================
