------------------------------ MODULE BddApply ------------------------------
(***************************************************************************)
(* operation::operator() (P1/operation.cpp) and the recursive apply of     *)
(* P1/project1.cpp, one action per stretch of code between two calls.      *)
(*                                                                         *)
(* The C++ stack is explicit.  A frame is one activation: the bdd_ptrs it  *)
(* holds, and the point it has reached.  When ret is Null the top frame    *)
(* runs from its start ("enter"); otherwise it takes ret, the result of    *)
(* the call it made, and goes on from the point "at" names.                *)
(***************************************************************************)
EXTENDS BddTables, SequencesExt

VARIABLES
  stack,     \* the activations of apply and of the functions built on it
  ret,       \* the result of the call that has just returned, or Null
  vals,      \* the bdd_ptrs main and bdd_from_expr hold while they call
  crashed    \* a null bdd_ptr has been dereferenced

machineVars == <<stack, ret, vals, crashed>>

Frame == [fn  : {"apply", "cofactor", "difference", "sort"},
          op  : Ops \cup {"neg", "pos", "none"},
          at  : {"enter", "negFirst", "posFirst", "second",
                 "bar", "low", "left", "high", "right", "join", "swept"},
          var : Vars \cup {NoVar},
          l : Ref, r : Ref, a : Ref, b : Ref]

Activation(fn, op, v, l, r) ==
  [fn |-> fn, op |-> op, at |-> "enter", var |-> v,
   l |-> l, r |-> r, a |-> Null, b |-> Null]
ApplyCall(op, l, r) == Activation("apply", op, NoVar, l, r)

Idle == stack = <<>> /\ ret = Null
Top  == stack[Len(stack)]

Entering(fn)    == ~crashed /\ stack # <<>> /\ ret = Null /\ Top.fn = fn /\ Top.at = "enter"
Resumed(fn, at) == ~crashed /\ stack # <<>> /\ ret # Null /\ Top.fn = fn /\ Top.at = at

\* The top frame, now f, calls; or it returns n.
Call(f, callee) == stack' = Append(Append(Front(stack), f), callee) /\ ret' = Null
Return(n)       == stack' = Front(stack) /\ ret' = n

\* Every pointer the program holds: statics, tables, frames, the result in
\* flight and the callers' locals.
Held(f) == {f.l, f.r, f.a, f.b} \ {Null}
Locals  == (UNION {Held(stack[i]) : i \in DOMAIN stack}) \cup ({ret} \ {Null}) \cup Range(vals)
\* Mutant of Roots: the computed table stores plain pointers.
RootsUncounted == {Zero, One} \cup Range(unique) \cup Locals
Roots   == {Zero, One} \cup Range(unique) \cup Range(computed) \cup Locals

\* The end of every action: pointers that went out of scope release their nodes.
Release(h, ids, stale) == Collect(h, ids, stale, Roots')
ReleaseOnly == Release(heap, freeIds, doomed)

----------------------------------------------------------------------------
(* operation *)

\* The result when the operation can tell it without looking below the roots.
AndOp(l, r) ==
  IF l = r THEN l
  ELSE IF IsTerminal(l) THEN (IF l = One THEN r ELSE l)
  ELSE IF IsTerminal(r) THEN (IF r = One THEN l ELSE r)
  ELSE Null

OrOp(l, r) ==
  IF l = r THEN l
  ELSE IF IsTerminal(l) THEN (IF l = One THEN l ELSE r)
  ELSE IF IsTerminal(r) THEN (IF r = One THEN r ELSE l)
  ELSE Null

XorOp(l, r) ==
  IF l = Zero THEN r
  ELSE IF r = Zero THEN l
  ELSE IF l = One /\ r = One THEN Zero
  ELSE Null

Operation(op, l, r) ==
  CASE op = "and" -> AndOp(l, r) [] op = "or" -> OrOp(l, r) [] op = "xor" -> XorOp(l, r)

----------------------------------------------------------------------------
(* apply *)

CallKey == KeyOf(Top.op, Top.l, Top.r)

\* project1.cpp:42: the operands' ids are in the computed table.
ApplyHit ==
  /\ Entering("apply")
  /\ CallKey \in DOMAIN computed
  /\ Return(computed[CallKey])
  /\ tainted' = (tainted \/ CallKey \in doomed)
  /\ UNCHANGED <<idCtr, unique, computed, vals, crashed>>
  /\ ReleaseOnly

\* project1.cpp:46: a terminal case, whose probability is written again.
ApplyTerminal ==
  /\ Entering("apply")
  /\ CallKey \notin DOMAIN computed
  /\ LET res  == Operation(Top.op, Top.l, Top.r)
         prob == IF res = Zero THEN 0
                 ELSE IF res = One THEN Unit
                 ELSE IF IsTerminal(Top.l) THEN heap[Top.r].prob
                 ELSE heap[Top.l].prob
     IN /\ res # Null
        /\ Return(res)
        /\ UNCHANGED <<idCtr, unique, computed, tainted, vals, crashed>>
        /\ Release([heap EXCEPT ![res].prob = prob], freeIds, doomed)

Recurses ==
  /\ Entering("apply")
  /\ CallKey \notin DOMAIN computed
  /\ Operation(Top.op, Top.l, Top.r) = Null

\* The operands of the two calls: project1.cpp:58-63 compares var bytes only.
\* Mutant of Child: the cofactors are mixed up.
ChildOther(n, branch) == IF branch = "pos" THEN heap[n].neg ELSE heap[n].pos
Child(n, branch) == IF branch = "neg" THEN heap[n].neg ELSE heap[n].pos
SubCall(op, v, l, r, branch) ==
  ApplyCall(op, IF heap[l].var = v THEN Child(l, branch) ELSE l,
                IF heap[l].var = v /\ heap[r].var # v THEN r ELSE Child(r, branch))

\* C++ leaves open which of the two calls, arguments of one function, is first.
ApplySplit(first) ==
  /\ Recurses
  /\ LET v == NextVar(Top.l, Top.r)
         sub == SubCall(Top.op, v, Top.l, Top.r, first)
     IN /\ Null \notin {sub.l, sub.r}
        /\ Call([Top EXCEPT !.at = IF first = "neg" THEN "negFirst" ELSE "posFirst",
                            !.var = v], sub)
  /\ UNCHANGED <<idCtr, unique, computed, tainted, vals, crashed>>
  /\ ReleaseOnly

\* one->var happens to equal the variable: apply(child, null) and a crash.
ApplyNullChild ==
  /\ Recurses
  /\ LET sub == SubCall(Top.op, NextVar(Top.l, Top.r), Top.l, Top.r, "neg")
     IN Null \in {sub.l, sub.r}
  /\ crashed' = TRUE
  /\ UNCHANGED <<tableVars, stack, ret, vals>>

\* The first of the two calls has returned, the other is made.
ApplySecond(first) ==
  /\ Resumed("apply", IF first = "neg" THEN "negFirst" ELSE "posFirst")
  /\ LET other == IF first = "neg" THEN "pos" ELSE "neg"
         got == IF first = "neg" THEN [Top EXCEPT !.at = "second", !.a = ret]
                                 ELSE [Top EXCEPT !.at = "second", !.b = ret]
     IN Call(got, SubCall(Top.op, Top.var, Top.l, Top.r, other))
  /\ UNCHANGED <<idCtr, unique, computed, tainted, vals, crashed>>
  /\ ReleaseOnly

\* Both have returned.  A new node enters the unique table whatever the table
\* has; when its children are one node that child is the result and the new
\* node stays behind in the table, its probability never assigned.
\* Mutants of Average: the halves are not taken; one child is forgotten.
AverageUnhalved(n, p) == heap[n].prob + heap[p].prob
AverageOfOne(n, p)    == heap[n].prob \div 2
Average(n, p) == (heap[n].prob + heap[p].prob) \div 2

\* project1.cpp:65.  Mutant: the test is forgotten.
RedundantNever(neg, pos) == FALSE
Redundant(neg, pos) == neg = pos

\* project1.cpp:67.  Mutant: the entry is made before the test of line 65.
RememberAlways(neg, pos) == Put(computed, CallKey, FreshId)
Remember(neg, pos) ==
  IF Redundant(neg, pos) THEN computed ELSE Put(computed, CallKey, FreshId)

ApplyBuild ==
  /\ Resumed("apply", "second")
  /\ LET neg == IF Top.a = Null THEN ret ELSE Top.a
         pos == IF Top.a = Null THEN Top.b ELSE ret
         redundant == Redundant(neg, pos)
         prob == IF redundant THEN Unset ELSE Average(neg, pos)
     IN /\ idCtr' = PoolCtr
        /\ unique' = AddUnique(Top.var, neg, pos)
        /\ computed' = Remember(neg, pos)
        /\ Return(IF redundant THEN neg ELSE FreshId)
        /\ UNCHANGED <<tainted, vals, crashed>>
        /\ Release(NewNode(Top.var, neg, pos, prob), Pool \ {FreshId},
                   IF redundant THEN doomed ELSE doomed \ {CallKey})

ApplyStep ==
  \/ ApplyHit
  \/ ApplyTerminal
  \/ \E first \in {"neg", "pos"} : ApplySplit(first) \/ ApplySecond(first)
  \/ ApplyNullChild
  \/ ApplyBuild
=============================================================================
