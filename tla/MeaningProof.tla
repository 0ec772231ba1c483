----------------------------- MODULE MeaningProof -----------------------------
(***************************************************************************)
(* apply, the cofactors, boolean_difference and sort_by_influence return   *)
(* BDDs of the functions they are asked for, in runs of any length over    *)
(* any variables, until a lookup returns a doomed entry.                   *)
(*                                                                         *)
(* The argument is partial correctness of recursive code with an explicit  *)
(* stack: every activation wants a function of the call it waits for, and  *)
(* has got the functions it has asked for so far (Wants, FrameRight); a    *)
(* call is made for what its caller wants, and returns what it means.      *)
(* That a step changes no node's function, although it makes, duplicates   *)
(* and deletes nodes, is by induction over the nodes that live on, which   *)
(* Acyclic allows.                                                         *)
(*                                                                         *)
(* Hence project1 implements BoolCalc, the calculator; and the             *)
(* probabilities and the ranking are right (last parts).                   *)
(***************************************************************************)
EXTENDS OrderProof, BddRefinement

\* What Denotation chooses: d solves the recursive equation.
DenotationEq(h, d) ==
  d = [m \in DOMAIN h |->
        IF m = One THEN Assignments
        ELSE IF m = Zero THEN {}
        ELSE {s \in Assignments : s \in IF h[m].var \in s THEN d[h[m].pos] ELSE d[h[m].neg]}]

\* The nodes of T that s leads to are in T as well.
Follows(h, s, T) ==
  \A m \in T \cap (DOMAIN h \ {Zero, One}) :
    (IF h[m].var \in s THEN h[m].pos ELSE h[m].neg) \in T

\* It has a solution, its least one: s satisfies a node when every set of nodes
\* that holds it and is closed under the way s goes holds One.
LEMMA DenotationExists ==
  ASSUME NEW h, GoodHeap(h)
  PROVE  DenotationEq(h, Denotation(h))
<1>. DEFINE d == [m \in DOMAIN h |->
                    {s \in Assignments : \A T \in SUBSET DOMAIN h :
                       m \in T /\ Follows(h, s, T) => One \in T}]
<1>1. /\ {Zero, One} \subseteq DOMAIN h /\ Zero # One
      /\ \A m \in DOMAIN h \ {Zero, One} : h[m].neg \in DOMAIN h /\ h[m].pos \in DOMAIN h
  BY DEF GoodHeap, Usable, Zero, One
<1>2. d[One] = Assignments
  BY <1>1
<1>3. d[Zero] = {}
  <2>1. ASSUME NEW s \in Assignments
        PROVE  {Zero} \in SUBSET DOMAIN h /\ Zero \in {Zero} /\ Follows(h, s, {Zero}) /\ One \notin {Zero}
    BY <1>1 DEF Follows
  <2>. QED
    BY <1>1, <2>1
<1>4. ASSUME NEW m \in DOMAIN h \ {Zero, One}, NEW s \in Assignments
      PROVE  s \in d[m] <=> s \in d[IF h[m].var \in s THEN h[m].pos ELSE h[m].neg]
  <2>. DEFINE c == IF h[m].var \in s THEN h[m].pos ELSE h[m].neg
  <2>1. c \in DOMAIN h
    BY <1>1
  <2>2. ASSUME s \in d[c], NEW T \in SUBSET DOMAIN h, m \in T, Follows(h, s, T)
        PROVE  One \in T
    <3>1. c \in T
      BY <2>2 DEF Follows
    <3>. HIDE DEF c
    <3>. QED
      BY <2>1, <2>2, <3>1
  <2>3. ASSUME s \in d[m], NEW T \in SUBSET DOMAIN h, c \in T, Follows(h, s, T)
        PROVE  One \in T
    <3>1. Follows(h, s, T \cup {m})
      BY <2>3 DEF Follows
    <3>2. One \in T \cup {m}
      <4>1. T \cup {m} \in SUBSET DOMAIN h /\ m \in T \cup {m}
        BY <2>3
      <4>. QED
        BY <2>3, <3>1, <4>1
    <3>. QED
      BY <3>2
  <2>. HIDE DEF c
  <2>4. s \in d[m] <=> s \in d[c]
    BY <2>1, <2>2, <2>3
  <2>. QED
    BY <2>4 DEF c
<1>5. DenotationEq(h, d)
  <2>1. d = [m \in DOMAIN h |-> d[m]] /\ \A m \in DOMAIN h : d[m] \subseteq Assignments
    OBVIOUS
  <2>. HIDE DEF d
  <2>2. ASSUME NEW m \in DOMAIN h \ {Zero, One}
        PROVE  d[m] = {s \in Assignments : s \in IF h[m].var \in s THEN d[h[m].pos] ELSE d[h[m].neg]}
    BY <1>4, <2>1
  <2>. QED
    BY <1>2, <1>3, <2>1, <2>2 DEF DenotationEq
<1>. HIDE DEF d
<1>6. Denotation(h) = CHOOSE x : DenotationEq(h, x)
  BY DEF Denotation, DenotationEq
<1>. QED
  BY <1>5, <1>6

\* The function of a node, in terms of those of its children.
LEMMA NodeDenotes ==
  ASSUME NEW h, GoodHeap(h)
  PROVE  /\ Denotation(h)[One] = Assignments /\ Denotation(h)[Zero] = {}
         /\ \A n \in DOMAIN h : Denotation(h)[n] \subseteq Assignments
         /\ \A n \in DOMAIN h \ {Zero, One}, s \in Assignments :
              s \in Denotation(h)[n] <=> s \in Denotation(h)[IF h[n].var \in s THEN h[n].pos ELSE h[n].neg]
<1>. DEFINE d == Denotation(h)
<1>1. DenotationEq(h, d)
  BY DenotationExists
<1>. HIDE DEF d
<1>2. /\ {Zero, One} \subseteq DOMAIN h /\ Zero # One
  BY DEF GoodHeap, Usable, Zero, One
<1>3. d[One] = Assignments /\ d[Zero] = {}
  BY <1>1, <1>2 DEF DenotationEq
<1>4. \A n \in DOMAIN h \ {Zero, One} :
        d[n] = {s \in Assignments : s \in IF h[n].var \in s THEN d[h[n].pos] ELSE d[h[n].neg]}
  BY <1>1 DEF DenotationEq
<1>5. \A n \in DOMAIN h : d[n] \subseteq Assignments
  BY <1>3, <1>4
<1>. QED
  BY <1>3, <1>4, <1>5 DEF d

\* The nodes that live on mean what they meant: a step that makes, duplicates
\* and deletes nodes around them changes no function.
LEMMA DenotationKept ==
  ASSUME Steps, Acyclic, NEW n \in DOMAIN heap, n \in DOMAIN heap'
  PROVE  Denotation(heap')[n] = Denotation(heap)[n]
<1>. DEFINE d == Denotation(heap)
            e == Denotation(heap')
            S == {m \in (DOMAIN heap \cap DOMAIN heap') \ {Zero, One} : d[m] # e[m]}
<1>1. GoodHeap(heap) /\ GoodHeap(heap') /\ Agree(heap, heap')
  BY DEF Steps, MachineInv, StoreInv
<1>2. /\ d[One] = e[One] /\ d[Zero] = e[Zero]
      /\ \A m \in DOMAIN heap : d[m] \subseteq Assignments
      /\ \A m \in DOMAIN heap' : e[m] \subseteq Assignments
      /\ \A m \in DOMAIN heap \ {Zero, One}, s \in Assignments :
           s \in d[m] <=> s \in d[IF heap[m].var \in s THEN heap[m].pos ELSE heap[m].neg]
      /\ \A m \in DOMAIN heap' \ {Zero, One}, s \in Assignments :
           s \in e[m] <=> s \in e[IF heap'[m].var \in s THEN heap'[m].pos ELSE heap'[m].neg]
  BY <1>1, NodeDenotes
<1>. HIDE DEF d, e
<1>3. ASSUME S # {} PROVE FALSE
  <2>1. PICK m \in S : {heap[m].neg, heap[m].pos} \cap S = {}
    <3>1. S \in SUBSET (DOMAIN heap \ {Zero, One})
      OBVIOUS
    <3>. QED
      BY <1>3, <3>1 DEF Acyclic
  <2>2. /\ m \in DOMAIN heap \ {Zero, One} /\ m \in DOMAIN heap' \ {Zero, One} /\ d[m] # e[m]
        /\ heap'[m].var = heap[m].var /\ heap'[m].neg = heap[m].neg /\ heap'[m].pos = heap[m].pos
    BY <1>1 DEF Agree
  <2>3. {heap[m].neg, heap[m].pos} \subseteq DOMAIN heap \cap DOMAIN heap'
    BY <1>1, <2>2 DEF GoodHeap, Usable
  <2>4. d[heap[m].neg] = e[heap[m].neg] /\ d[heap[m].pos] = e[heap[m].pos]
    BY <1>2, <2>1, <2>3
  <2>5. \A s \in Assignments : s \in d[m] <=> s \in e[m]
    <3>1. ASSUME NEW s \in Assignments PROVE s \in d[m] <=> s \in e[m]
      <4>1. s \in d[m] <=> s \in d[IF heap[m].var \in s THEN heap[m].pos ELSE heap[m].neg]
        BY <1>2, <2>2
      <4>2. s \in e[m] <=> s \in e[IF heap[m].var \in s THEN heap[m].pos ELSE heap[m].neg]
        BY <1>2, <2>2
      <4>. QED
        BY <2>4, <4>1, <4>2
    <3>. QED
      BY <3>1
  <2>. QED
    BY <1>2, <2>2, <2>5
<1>4. n \in {Zero, One} \/ n \notin S
  BY <1>3
<1>. QED
  BY <1>2, <1>4 DEF d, e

----------------------------------------------------------------------------
\* f does not depend on v.
Independent(f, v) ==
  \A s \in Assignments : (s \cup {v} \in f <=> s \in f) /\ (s \ {v} \in f <=> s \in f)

\* The cofactors of a function that does not depend on v are the function.
LEMMA CofactorOfIndependent ==
  ASSUME NEW v \in Vars, NEW f \in SUBSET Assignments, Independent(f, v), NEW polarity
  PROVE  FunctionCofactor(polarity, f, v) = f
BY DEF FunctionCofactor, Independent

\* A node whose children do not depend on v tests another variable.
LEMMA IndependentNode ==
  ASSUME MachineInv, NEW n \in DOMAIN heap \ {Zero, One}, NEW v \in Vars, heap[n].var # v,
         Independent(Den(heap[n].neg), v), Independent(Den(heap[n].pos), v)
  PROVE  Independent(Den(n), v)
<1>1. GoodHeap(heap)
  BY DEF MachineInv, StoreInv
<1>2. \A s \in Assignments : s \in Den(n) <=> s \in Den(IF heap[n].var \in s THEN heap[n].pos ELSE heap[n].neg)
  BY <1>1, NodeDenotes DEF Den
<1>3. ASSUME NEW s \in Assignments
      PROVE  (s \cup {v} \in Den(n) <=> s \in Den(n)) /\ (s \ {v} \in Den(n) <=> s \in Den(n))
  <2>. DEFINE c == IF heap[n].var \in s THEN heap[n].pos ELSE heap[n].neg
  <2>1. s \cup {v} \in Assignments /\ s \ {v} \in Assignments
    BY DEF Assignments
  <2>2. (heap[n].var \in s <=> heap[n].var \in s \cup {v}) /\ (heap[n].var \in s <=> heap[n].var \in s \ {v})
    OBVIOUS
  <2>3. /\ s \in Den(n) <=> s \in Den(c)
        /\ s \cup {v} \in Den(n) <=> s \cup {v} \in Den(c)
        /\ s \ {v} \in Den(n) <=> s \ {v} \in Den(c)
    BY <1>2, <2>1, <2>2
  <2>4. Independent(Den(c), v)
    OBVIOUS
  <2>. HIDE DEF c
  <2>. QED
    BY <2>3, <2>4 DEF Independent
<1>. QED
  BY <1>3 DEF Independent

\* The terminals depend on nothing.
LEMMA TerminalMeans ==
  ASSUME MachineInv
  PROVE  /\ Den(One) = Assignments /\ Den(Zero) = {}
         /\ \A v \in Vars : Independent(Den(One), v) /\ Independent(Den(Zero), v)
         /\ \A n \in DOMAIN heap : Den(n) \in SUBSET Assignments
<1>1. GoodHeap(heap)
  BY DEF MachineInv, StoreInv
<1>2. Den(One) = Assignments /\ Den(Zero) = {} /\ \A n \in DOMAIN heap : Den(n) \in SUBSET Assignments
  BY <1>1, NodeDenotes DEF Den
<1>. QED
  BY <1>2 DEF Independent, Assignments

\* No function depends on a variable that may be tested above its node.
LEMMA RoomIndependent ==
  ASSUME MachineInv, Acyclic, OrderedHeap, NEW v \in Vars,
         NEW n \in DOMAIN heap, v \in Room(heap, n)
  PROVE  Independent(Den(n), v)
<1>. DEFINE S == {m \in DOMAIN heap \ {Zero, One} : v \in Room(heap, m) /\ ~Independent(Den(m), v)}
<1>1. ASSUME S # {} PROVE FALSE
  <2>1. PICK m \in S : {heap[m].neg, heap[m].pos} \cap S = {}
    <3>1. S \in SUBSET (DOMAIN heap \ {Zero, One})
      OBVIOUS
    <3>. QED
      BY <1>1, <3>1 DEF Acyclic
  <2>2. m \in DOMAIN heap \ {Zero, One} /\ v \in Nat /\ v < heap[m].var
    BY DEF Room
  <2>3. heap[m].var \in Nat /\ {heap[m].neg, heap[m].pos} \subseteq DOMAIN heap
    BY <2>2, VarsAssumption DEF MachineInv, StoreInv, GoodHeap, Usable
  <2>4. ASSUME NEW c \in {heap[m].neg, heap[m].pos} PROVE Independent(Den(c), v)
    <3>1. CASE c \in {Zero, One}
      BY <3>1, TerminalMeans
    <3>2. CASE c \notin {Zero, One}
      <4>1. c \in DOMAIN heap /\ heap[m].var < heap[c].var
        BY <2>2, <2>3, <3>2 DEF OrderedHeap, OrderedNode, Room
      <4>2. heap[c].var \in Nat
        BY <3>2, <4>1, VarsAssumption DEF MachineInv, StoreInv, GoodHeap
      <4>3. v \in Room(heap, c)
        BY <2>2, <2>3, <4>1, <4>2 DEF Room
      <4>. QED
        BY <2>1, <3>2, <4>1, <4>3
    <3>. QED
      BY <3>1, <3>2
  <2>5. heap[m].var # v
    BY <2>2, <2>3
  <2>6. Independent(Den(m), v)
    BY <2>2, <2>4, <2>5, IndependentNode
  <2>. QED
    BY <2>6
<1>. QED
  BY <1>1, TerminalMeans

----------------------------------------------------------------------------
\* The equation has_var satisfies, as a function from nodes to Booleans.
HasVarEq(has, v) ==
  has = [m \in DOMAIN heap |->
          /\ ~IsTerminal(m)
          /\ heap[m].var <= v
          /\ heap[m].var = v \/ has[heap[m].pos] \/ has[heap[m].neg]]

\* T has every node that has_var finds v in if it finds v in the nodes of T.
Finds(T, v) ==
  \A m \in DOMAIN heap :
    ~IsTerminal(m) /\ heap[m].var <= v /\ (heap[m].var = v \/ heap[m].pos \in T \/ heap[m].neg \in T) => m \in T

\* It has a solution, the least one again.
LEMMA HasVarExists ==
  ASSUME MachineInv, NEW v \in Vars
  PROVE  \E has : HasVarEq(has, v)
<1>. DEFINE L == {m \in DOMAIN heap : \A T \in SUBSET DOMAIN heap : Finds(T, v) => m \in T}
            F == {m \in DOMAIN heap : /\ ~IsTerminal(m) /\ heap[m].var <= v
                                      /\ heap[m].var = v \/ heap[m].pos \in L \/ heap[m].neg \in L}
            has == [m \in DOMAIN heap |-> m \in L]
<1>1. ASSUME NEW m \in F, NEW T \in SUBSET DOMAIN heap, Finds(T, v) PROVE m \in T
  <2>1. L \subseteq T
    BY <1>1
  <2>. QED
    BY <1>1, <2>1 DEF Finds
<1>2. F \subseteq L
  BY <1>1
<1>3. Finds(F, v)
  BY <1>2 DEF Finds
<1>4. L = F
  BY <1>2, <1>3
<1>5. \A m \in DOMAIN heap : ~IsTerminal(m) => heap[m].pos \in DOMAIN heap /\ heap[m].neg \in DOMAIN heap
  BY DEF MachineInv, StoreInv, GoodHeap, Usable, IsTerminal
<1>. HIDE DEF L
<1>6. ASSUME NEW m \in DOMAIN heap
      PROVE  (m \in L) = (/\ ~IsTerminal(m) /\ heap[m].var <= v
                          /\ heap[m].var = v \/ has[heap[m].pos] \/ has[heap[m].neg])
  <2>1. (m \in L) <=> (/\ ~IsTerminal(m) /\ heap[m].var <= v
                       /\ heap[m].var = v \/ heap[m].pos \in L \/ heap[m].neg \in L)
    BY <1>4
  <2>2. ~IsTerminal(m) => has[heap[m].pos] = (heap[m].pos \in L) /\ has[heap[m].neg] = (heap[m].neg \in L)
    BY <1>5
  <2>. HIDE DEF has
  <2>3. (m \in L) <=> (/\ ~IsTerminal(m) /\ heap[m].var <= v
                       /\ heap[m].var = v \/ has[heap[m].pos] \/ has[heap[m].neg])
    <3>1. CASE IsTerminal(m)
      BY <2>1, <3>1
    <3>2. CASE ~IsTerminal(m)
      BY <2>1, <2>2, <3>2
    <3>. QED
      BY <3>1, <3>2
  <2>. DEFINE p == has[heap[m].pos]
              q == has[heap[m].neg]
              x == heap[m].var
  <2>4. (m \in L) <=> (heap[m].neg # Null /\ x <= v /\ (x = v \/ p \/ q))
    BY <2>3 DEF IsTerminal
  <2>. HIDE DEF p, q, x
  <2>5. (m \in L) = (heap[m].neg # Null /\ x <= v /\ (x = v \/ p \/ q))
    BY <2>4
  <2>. QED
    BY <2>5 DEF IsTerminal, p, q, x
<1>7. HasVarEq(has, v)
  BY <1>6 DEF HasVarEq
<1>. QED
  BY <1>7

\* One step of has_var (project1.cpp).
LEMMA HasVarMeans ==
  ASSUME MachineInv, NEW v \in Vars, NEW n \in DOMAIN heap
  PROVE  HasVar(n, v) <=> /\ ~IsTerminal(n) /\ heap[n].var <= v
                          /\ heap[n].var = v \/ HasVar(heap[n].pos, v) \/ HasVar(heap[n].neg, v)
<1>. DEFINE has == CHOOSE x : HasVarEq(x, v)
<1>1. HasVarEq(has, v)
  BY HasVarExists
<1>2. \A m : HasVar(m, v) = has[m]
  BY DEF HasVar, HasVarEq
<1>. HIDE DEF has
<1>3. has[n] = (/\ ~IsTerminal(n) /\ heap[n].var <= v
                /\ heap[n].var = v \/ has[heap[n].pos] \/ has[heap[n].neg])
  BY <1>1 DEF HasVarEq
<1>. QED
  BY <1>2, <1>3

\* A function depends on no variable that has_var does not find.
LEMMA NotHasIndependent ==
  ASSUME MachineInv, Acyclic, OrderedHeap, NEW v \in Vars, NEW n \in DOMAIN heap, ~HasVar(n, v)
  PROVE  Independent(Den(n), v)
<1>. DEFINE S == {m \in DOMAIN heap \ {Zero, One} : ~HasVar(m, v) /\ ~Independent(Den(m), v)}
<1>1. ASSUME S # {} PROVE FALSE
  <2>1. PICK m \in S : {heap[m].neg, heap[m].pos} \cap S = {}
    <3>1. S \in SUBSET (DOMAIN heap \ {Zero, One})
      OBVIOUS
    <3>. QED
      BY <1>1, <3>1 DEF Acyclic
  <2>2. m \in DOMAIN heap \ {Zero, One} /\ ~HasVar(m, v) /\ ~Independent(Den(m), v)
    OBVIOUS
  <2>3. /\ heap[m].var \in Nat /\ v \in Nat /\ ~IsTerminal(m)
        /\ {heap[m].neg, heap[m].pos} \subseteq DOMAIN heap
    BY <2>2, VarsAssumption DEF MachineInv, StoreInv, GoodHeap, Usable, IsTerminal, Null
  <2>4. CASE heap[m].var > v
    <3>1. v \in Room(heap, m)
      BY <2>3, <2>4 DEF Room
    <3>. QED
      BY <2>2, <3>1, RoomIndependent
  <2>5. CASE heap[m].var <= v
    <3>1. heap[m].var # v /\ ~HasVar(heap[m].pos, v) /\ ~HasVar(heap[m].neg, v)
      BY <2>2, <2>3, <2>5, HasVarMeans
    <3>2. ASSUME NEW c \in {heap[m].neg, heap[m].pos} PROVE Independent(Den(c), v)
      <4>1. CASE c \in {Zero, One}
        BY <4>1, TerminalMeans
      <4>2. CASE c \notin {Zero, One}
        <5>1. c \in DOMAIN heap \ {Zero, One} /\ ~HasVar(c, v) /\ c \notin S
          BY <2>1, <2>3, <3>1, <4>2
        <5>. QED
          BY <5>1
      <4>. QED
        BY <4>1, <4>2
    <3>3. Independent(Den(m), v)
      BY <2>2, <3>1, <3>2, IndependentNode
    <3>. QED
      BY <2>2, <3>3
  <2>. QED
    BY <2>3, <2>4, <2>5
<1>. QED
  BY <1>1, TerminalMeans

----------------------------------------------------------------------------
\* The assignments that make v true, or false.
With(v)    == {s \in Assignments : v \in s}
Without(v) == Assignments \ With(v)
Side(branch, v) == IF branch = "pos" THEN With(v) ELSE Without(v)

\* BddMeaning!Meaning in any heap.
MeaningIn(h, f) ==
  CASE f.fn = "apply"      -> FunctionOf(f.op, Denotation(h)[f.l], Denotation(h)[f.r])
    [] f.fn = "cofactor"   -> FunctionCofactor(f.op, Denotation(h)[f.l], f.var)
    [] f.fn = "difference" -> FunctionDifference(Denotation(h)[f.l], f.var)
    [] f.fn = "sort"       -> Denotation(h)[f.l]

\* Of two calls, the one an activation of apply or boolean_difference is
\* waiting for, the other one, and the result of that.
Missing(f) == IF f.at = "negFirst" \/ (f.at = "second" /\ f.a = Null) THEN "neg" ELSE "pos"
Other(f)   == IF Missing(f) = "neg" THEN "pos" ELSE "neg"
Got(f)     == IF f.a = Null THEN f.b ELSE f.a

\* X is what an activation needs of the call it is waiting for.
Wants(h, f, X) ==
  /\ f.fn = "apply" =>
       X \cap Side(Missing(f), f.var) = MeaningIn(h, f) \cap Side(Missing(f), f.var)
  /\ f.fn = "cofactor" =>
       LET M == MeaningIn(h, f)
           w == h[f.l].var
       IN /\ f.at = "bar"   => X = Without(w)
          /\ f.at = "low"   => X \cap Without(w) = M \cap Without(w)
          /\ f.at = "left"  => X = M \cap Without(w)
          /\ f.at = "high"  => X \cap With(w) = M \cap With(w)
          /\ f.at = "right" => X = M \cap With(w)
          /\ f.at = "join"  => X = M
  /\ f.fn = "difference" =>
       X = IF f.at = "join" THEN MeaningIn(h, f)
           ELSE FunctionCofactor(Missing(f), Denotation(h)[f.l], f.var)
  /\ f.fn = "sort" => X = FunctionDifference(Denotation(h)[f.l], f.var)

\* What an activation has obtained so far is right.
FrameRight(h, f) ==
  /\ f.fn \in {"cofactor", "difference"} => f.var \in Vars
  /\ f.fn \in {"apply", "difference"} /\ f.at \in {"enter", "negFirst", "posFirst"} => f.a = Null
  /\ f.fn = "apply" /\ f.at = "second" =>
       Denotation(h)[Got(f)] \cap Side(Other(f), f.var) = MeaningIn(h, f) \cap Side(Other(f), f.var)
  /\ f.fn = "difference" /\ f.at = "second" =>
       Denotation(h)[Got(f)] = FunctionCofactor(Other(f), Denotation(h)[f.l], f.var)
  /\ f.fn = "cofactor" /\ f.at # "enter" =>
       LET w == h[f.l].var
       IN /\ w # f.var /\ Denotation(h)[f.r] = With(w)
          /\ f.at = "low" => Denotation(h)[f.a] = Without(w)
          /\ f.at \in {"high", "right"} => Denotation(h)[f.b] = MeaningIn(h, f) \cap Without(w)

\* The answer to the request, about the operands it was made for.
AnswerDue(h) ==
  LET n == Len(vals)
      used == IF req.op \in Ops THEN 2 ELSE 1
  IN Calc!Answer(req, Denotation(h)[vals[n - used + 1]], Denotation(h)[vals[n]])

\* A remembered result is that of its operands, while they live.
EntriesRight ==
  \A k \in DOMAIN computed \ doomed :
    /\ {k.lhs, k.rhs} \subseteq DOMAIN heap
    /\ Den(computed[k]) = FunctionOf(k.op, Den(k.lhs), Den(k.rhs))

\* Every activation has what is right, gets what it wants, and the one main
\* waits for is to return what is due.
StackRight ==
  /\ \A i \in DOMAIN stack : FrameRight(heap, stack[i])
  /\ \A i \in DOMAIN stack : i + 1 \in DOMAIN stack =>
       Wants(heap, stack[i], MeaningIn(heap, stack[i + 1]))
  /\ ret # Null /\ stack # <<>> => Wants(heap, Top, Den(ret))
  /\ stack # <<>> => MeaningIn(heap, stack[1]) = AnswerDue(heap)
  /\ ret # Null /\ stack = <<>> => Den(ret) = AnswerDue(heap)

Right == EntriesRight /\ StackRight

----------------------------------------------------------------------------
\* The functions of the nodes both stores have are the same.
Kept(g, h) ==
  \A n \in DOMAIN g \cap DOMAIN h : Denotation(h)[n] = Denotation(g)[n] /\ h[n].var = g[n].var

\* No step changes a function.
LEMMA StepKeeps ==
  ASSUME Steps, Acyclic
  PROVE  Kept(heap, heap')
BY DenotationKept DEF Kept, Steps, Agree

\* A frame means, wants and has what it did while what it holds lives.
LEMMA RightFrameKept ==
  ASSUME NEW g, NEW h, Kept(g, h), NEW e, NEW u, NEW f, GoodFrame(e, u, f),
         Held(f) \subseteq DOMAIN g, Held(f) \subseteq DOMAIN h
  PROVE  /\ MeaningIn(h, f) = MeaningIn(g, f)
         /\ \A X : Wants(g, f, X) => Wants(h, f, X)
         /\ FrameRight(g, f) => FrameRight(h, f)
<1>1. f.l # Null /\ f.l \in DOMAIN g /\ f.l \in DOMAIN h
  BY DEF GoodFrame, Held
<1>2. Denotation(h)[f.l] = Denotation(g)[f.l] /\ h[f.l].var = g[f.l].var
  BY <1>1 DEF Kept
<1>3. f.fn = "apply" \/ f.r # Null => Denotation(h)[f.r] = Denotation(g)[f.r]
  BY DEF GoodFrame, ApplyFrame, Held, Kept
<1>4. MeaningIn(h, f) = MeaningIn(g, f)
  <2>1. f.fn \in {"apply", "cofactor", "difference", "sort"}
    BY DEF GoodFrame, Frame
  <2>. QED
    BY <1>2, <1>3, <2>1 DEF MeaningIn
<1>5. \A X : Wants(g, f, X) => Wants(h, f, X)
  BY <1>2, <1>4 DEF Wants
<1>6. \A n \in {f.r, f.a, f.b} : n # Null => Denotation(h)[n] = Denotation(g)[n]
  BY DEF Held, Kept
<1>7. ASSUME FrameRight(g, f) PROVE FrameRight(h, f)
  <2>1. f.fn \in {"apply", "difference"} /\ f.at = "second" =>
          Got(f) # Null /\ Denotation(h)[Got(f)] = Denotation(g)[Got(f)]
    BY <1>6 DEF GoodFrame, ApplyFrame, Got
  <2>2. f.fn = "cofactor" /\ f.at # "enter" => f.r # Null
    BY DEF GoodFrame, CofactorFrame
  <2>3. f.fn = "cofactor" /\ f.at = "low" => f.a # Null
    BY DEF GoodFrame, CofactorFrame
  <2>4. f.fn = "cofactor" /\ f.at \in {"high", "right"} => f.b # Null
    BY DEF GoodFrame, CofactorFrame
  <2>. QED
    BY <1>2, <1>4, <1>6, <1>7, <2>1, <2>2, <2>3, <2>4 DEF FrameRight
<1>. QED
  BY <1>4, <1>5, <1>7

\* The pointers an answer takes the place of.
Uses == IF req.op \in Ops THEN 2 ELSE 1

\* main and bdd_from_expr hold what the request they wait for was made with,
\* and expr1 below the operands of a second expression.
SessionShape ==
  /\ req = NoRequest <=> Idle
  /\ Len(vals) >= (IF phase = "expr2" THEN 1 ELSE 0) + (IF req = NoRequest THEN 0 ELSE Uses)
  /\ phase = "menu" => Len(vals) = Uses
  /\ phase = "done" => vals = <<>>

\* What is due does not change while it is computed.
LEMMA DueKept ==
  ASSUME Steps, Acyclic, SessionShape, ~Idle, UNCHANGED <<vals, req>>
  PROVE  AnswerDue(heap)' = AnswerDue(heap)
<1>. DEFINE n == Len(vals)
<1>1. vals \in Seq(Nat) /\ n \in Nat /\ n >= Uses /\ Range(vals) \subseteq DOMAIN heap \cap DOMAIN heap'
  BY DEF SessionShape, Uses, Steps, MachineInv, StackInv, LocalsInv, Locals, Usable
<1>2. \A i \in 1 .. n : vals[i] \in DOMAIN heap \cap DOMAIN heap'
  BY <1>1 DEF Range
<1>3. \A i \in 1 .. n : Denotation(heap')[vals[i]] = Denotation(heap)[vals[i]]
  BY <1>2, DenotationKept
<1>4. n \in 1 .. n /\ n - Uses + 1 \in 1 .. n
  BY <1>1 DEF Uses
<1>. HIDE DEF n
<1>5. /\ Denotation(heap')[vals[n]] = Denotation(heap)[vals[n]]
      /\ Denotation(heap')[vals[n - Uses + 1]] = Denotation(heap)[vals[n - Uses + 1]]
  BY <1>3, <1>4
<1>. QED
  BY <1>5 DEF AnswerDue, Uses, n

\* A frame a step leaves on the stack.
LEMMA FrameStays ==
  ASSUME Steps, Acyclic, StackRight, NEW i \in DOMAIN stack, NEW j \in DOMAIN stack', stack'[j] = stack[i]
  PROVE  /\ MeaningIn(heap', stack'[j]) = MeaningIn(heap, stack[i])
         /\ FrameRight(heap', stack'[j])
         /\ \A X : Wants(heap, stack[i], X) => Wants(heap', stack'[j], X)
<1>. DEFINE f == stack[i]
<1>1. GoodFrame(heap, unique, f) /\ Held(f) \subseteq DOMAIN heap /\ FrameRight(heap, f)
  BY FrameHolds DEF Steps, MachineInv, StackInv, StackRight
<1>2. Held(f) \subseteq DOMAIN heap'
  BY FrameHoldsNext DEF Steps
<1>3. Kept(heap, heap')
  BY StepKeeps
<1>. HIDE DEF f
<1>4. /\ MeaningIn(heap', f) = MeaningIn(heap, f)
      /\ \A X : Wants(heap, f, X) => Wants(heap', f, X)
      /\ FrameRight(heap, f) => FrameRight(heap', f)
  BY <1>1, <1>2, <1>3, RightFrameKept
<1>. QED
  BY <1>1, <1>4 DEF f

\* A call from a frame that goes on meaning the same, for what the frame needs.
LEMMA CallRight ==
  ASSUME Steps, Acyclic, StackRight, SessionShape, stack # <<>>, UNCHANGED <<vals, req>>,
         NEW f, NEW callee, Call(f, callee), Held(f) \cup Held(callee) \subseteq DOMAIN heap,
         MeaningIn(heap, f) = MeaningIn(heap, Top),
         FrameRight(heap, f), FrameRight(heap, callee), Wants(heap, f, MeaningIn(heap, callee))
  PROVE  StackRight'
<1>1. /\ MachineInv /\ MachineInv' /\ stack \in Seq(Frame)
  BY DEF Steps, MachineInv, StackInv
<1>. DEFINE len == Len(stack)
<1>2. /\ len \in Nat \ {0} /\ DOMAIN stack = 1 .. len
      /\ DOMAIN stack' = 1 .. (len + 1) /\ ret' = Null
      /\ \A i \in 1 .. (len - 1) : stack'[i] = stack[i]
      /\ stack'[len] = f /\ stack'[len + 1] = callee
  BY <1>1, CallPushes
<1>3. Top = stack[len]
  BY DEF Top
<1>. HIDE DEF len
<1>4. /\ MeaningIn(heap', f) = MeaningIn(heap, f) /\ FrameRight(heap', f)
      /\ \A X : Wants(heap, f, X) => Wants(heap', f, X)
      /\ MeaningIn(heap', callee) = MeaningIn(heap, callee) /\ FrameRight(heap', callee)
  <2>1. len \in DOMAIN stack' /\ len + 1 \in DOMAIN stack'
    BY <1>2
  <2>2. GoodFrame(heap', unique', f) /\ GoodFrame(heap', unique', callee)
    BY <1>1, <1>2, <2>1 DEF MachineInv, StackInv
  <2>3. Held(f) \cup Held(callee) \subseteq DOMAIN heap'
    BY <1>1, <1>2, <2>1, FrameHoldsNext
  <2>. QED
    BY <2>2, <2>3, StepKeeps, RightFrameKept
<1>5. ASSUME NEW i \in 1 .. (len - 1)
      PROVE  /\ i \in DOMAIN stack /\ i \in DOMAIN stack'
             /\ MeaningIn(heap', stack'[i]) = MeaningIn(heap, stack[i])
             /\ FrameRight(heap', stack'[i])
             /\ \A X : Wants(heap, stack[i], X) => Wants(heap', stack'[i], X)
  <2>1. i \in DOMAIN stack /\ i \in DOMAIN stack' /\ stack'[i] = stack[i]
    BY <1>2
  <2>. QED
    BY <2>1, FrameStays
<1>6. ASSUME NEW i \in DOMAIN stack' PROVE FrameRight(heap', stack'[i])
  <2>1. i \in 1 .. (len - 1) \/ i = len \/ i = len + 1
    BY <1>2
  <2>. QED
    BY <1>2, <1>4, <1>5, <2>1
<1>7. ASSUME NEW i \in DOMAIN stack', i + 1 \in DOMAIN stack'
      PROVE  Wants(heap', stack'[i], MeaningIn(heap', stack'[i + 1]))
  <2>1. CASE i = len
    BY <1>2, <1>4, <2>1
  <2>2. CASE i # len
    <3>1. i \in 1 .. (len - 1) /\ i + 1 \in DOMAIN stack
      BY <1>2, <1>7, <2>2
    <3>2. Wants(heap, stack[i], MeaningIn(heap, stack[i + 1]))
      BY <1>5, <3>1 DEF StackRight
    <3>3. MeaningIn(heap', stack'[i + 1]) = MeaningIn(heap, stack[i + 1])
      <4>1. CASE i + 1 = len
        BY <1>2, <1>3, <1>4, <4>1
      <4>2. CASE i + 1 # len
        <5>1. i + 1 \in 1 .. (len - 1)
          BY <1>2, <3>1, <4>2
        <5>. QED
          BY <1>5, <5>1
      <4>. QED
        BY <4>1, <4>2
    <3>. QED
      BY <1>5, <3>1, <3>2, <3>3
  <2>. QED
    BY <2>1, <2>2
<1>8. MeaningIn(heap', stack'[1]) = AnswerDue(heap)'
  <2>1. MeaningIn(heap, stack[1]) = AnswerDue(heap)
    BY DEF StackRight
  <2>2. MeaningIn(heap', stack'[1]) = MeaningIn(heap, stack[1])
    <3>1. CASE len = 1
      BY <1>2, <1>3, <1>4, <3>1
    <3>2. CASE len # 1
      <4>1. 1 \in 1 .. (len - 1)
        BY <1>2, <3>2
      <4>. QED
        BY <1>5, <4>1
    <3>. QED
      BY <3>1, <3>2
  <2>. QED
    BY <2>1, <2>2, DueKept DEF Idle
<1>. QED
  BY <1>2, <1>6, <1>7, <1>8 DEF StackRight

\* A return of what the top activation is to return.
LEMMA ReturnRight ==
  ASSUME Steps, Acyclic, StackRight, SessionShape, stack # <<>>, UNCHANGED <<vals, req>>,
         NEW n, Return(n), Denotation(heap')[n] = MeaningIn(heap, Top)
  PROVE  StackRight'
<1>1. /\ MachineInv /\ MachineInv' /\ stack \in Seq(Frame) /\ Len(stack) \in Nat \ {0}
      /\ DOMAIN stack = 1 .. Len(stack)
  BY EmptySeq, LenProperties DEF Steps, MachineInv, StackInv
<1>. DEFINE len == Len(stack)
<1>2. stack' = Front(stack) /\ ret' = n
  BY DEF Return
<1>3. /\ Len(stack') = len - 1 /\ DOMAIN stack' = 1 .. (len - 1)
      /\ \A i \in 1 .. (len - 1) : stack'[i] = stack[i]
  BY <1>1, <1>2, SubSeqProperties DEF Front
<1>4. Top = stack[len]
  BY DEF Top
<1>5. Top' = stack'[len - 1]
  BY <1>3 DEF Top
<1>. HIDE DEF len
<1>6. len \in Nat \ {0} /\ DOMAIN stack = 1 .. len
  BY <1>1 DEF len
<1>7. ASSUME NEW i \in DOMAIN stack'
      PROVE  /\ i \in DOMAIN stack
             /\ MeaningIn(heap', stack'[i]) = MeaningIn(heap, stack[i])
             /\ FrameRight(heap', stack'[i])
             /\ \A X : Wants(heap, stack[i], X) => Wants(heap', stack'[i], X)
  <2>1. i \in DOMAIN stack /\ stack'[i] = stack[i]
    BY <1>3, <1>6
  <2>. QED
    BY <2>1, FrameStays
<1>8. ASSUME NEW i \in DOMAIN stack', i + 1 \in DOMAIN stack'
      PROVE  Wants(heap', stack'[i], MeaningIn(heap', stack'[i + 1]))
  <2>1. Wants(heap, stack[i], MeaningIn(heap, stack[i + 1]))
    BY <1>7, <1>8 DEF StackRight
  <2>. QED
    BY <1>7, <1>8, <2>1
<1>9. ASSUME stack' # <<>> PROVE Wants(heap', Top', Denotation(heap')[n])
  <2>1. PICK i : i = len - 1
    OBVIOUS
  <2>2. i \in DOMAIN stack' /\ i \in DOMAIN stack /\ i + 1 \in DOMAIN stack /\ i + 1 = len
    <3>1. len # 1
      BY <1>2, <1>9, <1>1 DEF Front, len
    <3>. QED
      BY <1>3, <1>6, <2>1, <3>1
  <2>3. Wants(heap, stack[i], MeaningIn(heap, stack[i + 1]))
    BY <2>2 DEF StackRight
  <2>. QED
    BY <1>4, <1>5, <1>7, <2>1, <2>2, <2>3
<1>10. AnswerDue(heap)' = AnswerDue(heap) /\ MeaningIn(heap, stack[1]) = AnswerDue(heap)
  BY DueKept DEF StackRight, Idle
<1>11. stack' # <<>> => MeaningIn(heap', stack'[1]) = AnswerDue(heap)'
  <2>1. ASSUME stack' # <<>> PROVE 1 \in DOMAIN stack'
    <3>1. len # 1
      BY <1>2, <2>1, <1>1 DEF Front, len
    <3>. QED
      BY <1>3, <1>6, <3>1
  <2>. QED
    BY <1>7, <1>10, <2>1
<1>12. stack' = <<>> => Denotation(heap')[n] = AnswerDue(heap)'
  <2>1. ASSUME stack' = <<>> PROVE len = 1
    BY <1>3, <1>6, <2>1
  <2>. QED
    BY <1>4, <1>10, <2>1
<1>13. Den(ret)' = Denotation(heap')[n]
  BY <1>2 DEF Den
<1>. QED
  BY <1>2, <1>7, <1>8, <1>9, <1>11, <1>12, <1>13 DEF StackRight

----------------------------------------------------------------------------
\* What is remembered stays right when what a step adds to it is.
LEMMA EntriesStayRight ==
  ASSUME Steps, Acyclic, EntriesRight,
         NEW h, NEW ids, NEW stale, Release(h, ids, stale), DOMAIN heap \subseteq DOMAIN h,
         \A k \in DOMAIN computed' \ stale :
           \/ k \in DOMAIN computed \ doomed /\ computed'[k] = computed[k]
           \/ /\ {k.lhs, k.rhs} \subseteq DOMAIN heap
              /\ Denotation(heap')[computed'[k]] = FunctionOf(k.op, Den(k.lhs), Den(k.rhs))
  PROVE  EntriesRight'
<1>1. ASSUME NEW k \in DOMAIN computed' \ doomed'
      PROVE  /\ {k.lhs, k.rhs} \subseteq DOMAIN heap'
             /\ Denotation(heap')[computed'[k]]
                  = FunctionOf(k.op, Denotation(heap')[k.lhs], Denotation(heap')[k.rhs])
  <2>1. k \notin stale /\ {k.lhs, k.rhs} \cap DOMAIN h \subseteq DOMAIN heap'
    <3>1. /\ doomed' = {j \in DOMAIN computed' :
                          j \in stale \/ {j.lhs, j.rhs} \cap (DOMAIN h \ Live(h, Roots')) # {}}
          /\ heap' = Restrict(h, Live(h, Roots'))
      BY DEF Release, Collect
    <3>2. DOMAIN heap' = Live(h, Roots')
      BY <3>1 DEF Restrict
    <3>. QED
      BY <1>1, <3>1, <3>2
  <2>2. computed'[k] \in DOMAIN heap'
    BY <1>1 DEF Steps, MachineInv, StoreInv, GoodComputed, Usable
  <2>3. /\ {k.lhs, k.rhs} \subseteq DOMAIN heap
        /\ Denotation(heap')[computed'[k]] = FunctionOf(k.op, Den(k.lhs), Den(k.rhs))
    <3>1. CASE k \in DOMAIN computed \ doomed /\ computed'[k] = computed[k]
      <4>1. computed[k] \in DOMAIN heap
        BY <3>1 DEF Steps, MachineInv, StoreInv, GoodComputed, Usable
      <4>2. Denotation(heap')[computed[k]] = Den(computed[k])
        BY <2>2, <3>1, <4>1, DenotationKept DEF Den
      <4>. QED
        BY <3>1, <4>2 DEF EntriesRight
    <3>. QED
      BY <1>1, <2>1, <3>1
  <2>4. {k.lhs, k.rhs} \subseteq DOMAIN heap'
    BY <2>1, <2>3
  <2>5. Denotation(heap')[k.lhs] = Den(k.lhs) /\ Denotation(heap')[k.rhs] = Den(k.rhs)
    BY <2>3, <2>4, DenotationKept DEF Den
  <2>. QED
    BY <2>3, <2>4, <2>5
<1>. QED
  BY <1>1 DEF EntriesRight, Den

\* A step that remembers nothing keeps the entries right.
LEMMA QuietEntriesRight ==
  ASSUME Steps, Acyclic, EntriesRight, computed' = computed,
         NEW h, NEW ids, Release(h, ids, doomed), DOMAIN heap \subseteq DOMAIN h
  PROVE  EntriesRight'
BY EntriesStayRight

\* The program between two steps, as the lemmas about one step take it.
Now == Steps /\ Acyclic /\ OInv /\ Right /\ SessionShape

\* An activation that ends with a step returns what it is to return.
Returned == Len(stack') < Len(stack) => Den(ret)' = MeaningIn(heap, Top)

\* A step that only calls.
LEMMA CallIsRight ==
  ASSUME Now, stack # <<>>, UNCHANGED <<vals, req, computed>>, ReleaseOnly,
         NEW f, NEW callee, Call(f, callee), Held(f) \cup Held(callee) \subseteq DOMAIN heap,
         MeaningIn(heap, f) = MeaningIn(heap, Top),
         FrameRight(heap, f), FrameRight(heap, callee), Wants(heap, f, MeaningIn(heap, callee))
  PROVE  Right' /\ Returned
<1>1. Right'
  BY CallRight, QuietEntriesRight DEF Now, Right, ReleaseOnly
<1>2. DOMAIN stack' = 1 .. (Len(stack) + 1) /\ Len(stack) \in Nat
  BY CallPushes DEF Now, Steps, MachineInv, StackInv
<1>3. stack' \in Seq(Frame)
  BY DEF Now, Steps, MachineInv, StackInv
<1>4. Len(stack') = Len(stack) + 1
  BY <1>2, <1>3, LenProperties
<1>. QED
  BY <1>1, <1>2, <1>4 DEF Returned

\* A step that only returns a node there was.
LEMMA ReturnIsRight ==
  ASSUME Now, stack # <<>>, UNCHANGED <<vals, req, computed>>,
         NEW h, Release(h, freeIds, doomed), DOMAIN h = DOMAIN heap,
         NEW n \in DOMAIN heap, Return(n), Den(n) = MeaningIn(heap, Top)
  PROVE  Right' /\ Returned
<1>1. n \in DOMAIN heap'
  <2>1. n \in Locals'
    BY DEF Return, Locals, Now, Steps, MachineInv, StoreInv, GoodHeap, Null
  <2>. QED
    BY <2>1 DEF Now, Steps, MachineInv, LocalsInv, Usable
<1>2. Denotation(heap')[n] = MeaningIn(heap, Top)
  BY <1>1, DenotationKept DEF Now, Den
<1>3. Right'
  BY <1>2, ReturnRight, QuietEntriesRight DEF Now, Right
<1>4. Returned
  BY <1>2 DEF Return, Returned, Den
<1>. QED
  BY <1>3, <1>4

----------------------------------------------------------------------------
\* The calls the package makes, as they start.
LEMMA NewCallRight ==
  ASSUME NEW fn, NEW op, NEW v, NEW l, NEW r, NEW h, fn \in {"cofactor", "difference"} => v \in Vars
  PROVE  FrameRight(h, Activation(fn, op, v, l, r))
BY DEF FrameRight, Activation

\* What a new activation is to return.
LEMMA NewCallMeans ==
  ASSUME NEW op, NEW v, NEW l, NEW r, NEW h
  PROVE  /\ MeaningIn(h, ApplyCall(op, l, r)) = FunctionOf(op, Denotation(h)[l], Denotation(h)[r])
         /\ MeaningIn(h, CofactorCall(op, l, v)) = FunctionCofactor(op, Denotation(h)[l], v)
         /\ MeaningIn(h, DifferenceCall(l, v)) = FunctionDifference(Denotation(h)[l], v)
         /\ MeaningIn(h, SortCall(l)) = Denotation(h)[l]
BY DEF MeaningIn, Activation, ApplyCall, CofactorCall, DifferenceCall, SortCall

\* What a running activation may rely on.
LEMMA TopRight ==
  ASSUME Now, stack # <<>>
  PROVE  /\ Top \in Frame /\ Held(Top) \subseteq DOMAIN heap /\ Top.l \in DOMAIN heap
         /\ FrameRight(heap, Top)
         /\ ret # Null => ret \in DOMAIN heap /\ Wants(heap, Top, Den(ret))
         /\ GoodHeap(heap) /\ MachineInv /\ Acyclic /\ OrderedHeap
<1>1. Top \in Frame /\ Held(Top) \subseteq DOMAIN heap /\ Top.l \in DOMAIN heap
  BY TopFrame DEF Now, Steps, Usable
<1>2. Len(stack) \in DOMAIN stack
  BY EmptySeq, LenProperties DEF Now, Steps, MachineInv, StackInv
<1>3. ret # Null => ret \in DOMAIN heap
  BY RetUsable DEF Now, Steps, Usable
<1>. QED
  BY <1>1, <1>2, <1>3 DEF Now, Steps, Right, StackRight, Top, OInv, MachineInv, StoreInv

\* A remembered result that is not doomed.
LEMMA ApplyHitRight ==
  ASSUME Now, ApplyHit, ~tainted', UNCHANGED sessionVars
  PROVE  Right' /\ Returned
<1>1. /\ stack # <<>> /\ Top.fn = "apply" /\ UNCHANGED <<vals, req, computed>>
      /\ Release(heap, freeIds, doomed)
      /\ CallKey \in DOMAIN computed \ doomed /\ Return(computed[CallKey])
  BY DEF ApplyHit, Entering, ReleaseOnly, sessionVars
<1>2. Den(computed[CallKey]) = FunctionOf(Top.op, Den(Top.l), Den(Top.r))
  BY <1>1 DEF Now, Right, EntriesRight, CallKey, KeyOf
<1>3. computed[CallKey] \in DOMAIN heap
  BY <1>1 DEF Now, Steps, MachineInv, StoreInv, GoodComputed, Usable
<1>4. MeaningIn(heap, Top) = FunctionOf(Top.op, Den(Top.l), Den(Top.r))
  BY <1>1 DEF MeaningIn, Den
<1>. QED
  BY <1>1, <1>2, <1>3, <1>4, ReturnIsRight

\* The cases operation decides by itself (operation.cpp).
LEMMA OperationMeans ==
  ASSUME MachineInv, NEW op \in Ops, NEW l \in DOMAIN heap, NEW r \in DOMAIN heap,
         NEW res, res = Operation(op, l, r), res # Null
  PROVE  res \in DOMAIN heap /\ Den(res) = FunctionOf(op, Den(l), Den(r))
<1>1. /\ Den(One) = Assignments /\ Den(Zero) = {}
      /\ \A n \in DOMAIN heap : Den(n) \subseteq Assignments
      /\ {Zero, One} \subseteq DOMAIN heap
  BY TerminalMeans, TerminalsUsable DEF Usable
<1>2. \A n \in DOMAIN heap : IsTerminal(n) => n \in {Zero, One}
  BY DEF MachineInv, StoreInv, GoodHeap, Usable, IsTerminal, Null
<1>3. CASE op = "and"
  BY <1>1, <1>2, <1>3 DEF Operation, AndOp, FunctionOf
<1>4. CASE op = "or"
  BY <1>1, <1>2, <1>4 DEF Operation, OrOp, FunctionOf
<1>5. CASE op = "xor"
  BY <1>1, <1>2, <1>5 DEF Operation, XorOp, FunctionOf
<1>. QED
  BY <1>3, <1>4, <1>5 DEF Ops

\* A terminal case returns the right operand or constant (project1.cpp:46-52).
LEMMA ApplyTerminalRight ==
  ASSUME Now, ApplyTerminal, UNCHANGED sessionVars
  PROVE  Right' /\ Returned
<1>. DEFINE res == Operation(Top.op, Top.l, Top.r)
<1>1. stack # <<>> /\ Top.fn = "apply" /\ UNCHANGED <<vals, req, computed>> /\ Return(res) /\ res # Null
  BY DEF ApplyTerminal, Entering, sessionVars
<1>2. PICK h : Release(h, freeIds, doomed) /\ DOMAIN h = DOMAIN heap
  BY DEF ApplyTerminal
<1>3. Top.l \in DOMAIN heap /\ Top.r \in DOMAIN heap /\ Top.op \in Ops /\ MachineInv
  BY <1>1, ApplyServes, ApplyFrameFacts DEF Usable, Now, Steps
<1>. HIDE DEF res
<1>4. res \in DOMAIN heap /\ Den(res) = FunctionOf(Top.op, Den(Top.l), Den(Top.r))
  BY <1>1, <1>3, OperationMeans DEF res
<1>5. MeaningIn(heap, Top) = FunctionOf(Top.op, Den(Top.l), Den(Top.r))
  BY <1>1 DEF MeaningIn, Den
<1>. QED
  BY <1>1, <1>2, <1>4, <1>5, ReturnIsRight

\* A function, and those of the children, where the variable has one value.
LEMMA SideOfChild ==
  ASSUME MachineInv, NEW n \in DOMAIN heap \ {Zero, One}, NEW branch \in {"neg", "pos"}
  PROVE  /\ Child(n, branch) \in DOMAIN heap
         /\ Den(n) \cap Side(branch, heap[n].var) = Den(Child(n, branch)) \cap Side(branch, heap[n].var)
<1>1. GoodHeap(heap)
  BY DEF MachineInv, StoreInv
<1>2. \A s \in Assignments : s \in Den(n) <=> s \in Den(IF heap[n].var \in s THEN heap[n].pos ELSE heap[n].neg)
  BY <1>1, NodeDenotes DEF Den
<1>3. Child(n, branch) = IF branch = "pos" THEN heap[n].pos ELSE heap[n].neg
  BY DEF Child
<1>4. Child(n, branch) \in DOMAIN heap
  BY <1>1, <1>3 DEF GoodHeap, Usable
<1>5. \A s \in Side(branch, heap[n].var) : s \in Assignments /\ (heap[n].var \in s <=> branch = "pos")
  BY DEF Side, With, Without
<1>6. \A s \in Side(branch, heap[n].var) : s \in Den(n) <=> s \in Den(Child(n, branch))
  BY <1>2, <1>3, <1>5
<1>. QED
  BY <1>4, <1>6

\* Where the variable split by has one value, the operands of the call for that
\* value mean what those of the activation do.
LEMMA SubCallMeans ==
  ASSUME MachineInv, NEW f, f.fn = "apply", f.op \in Ops, f.l \in DOMAIN heap, f.r \in DOMAIN heap,
         Splits(heap, f), SplitOperands(heap, f), NEW branch \in {"neg", "pos"},
         NEW callee, callee = SubCall(f.op, f.var, f.l, f.r, branch)
  PROVE  /\ MeaningIn(heap, callee) \cap Side(branch, f.var) = MeaningIn(heap, f) \cap Side(branch, f.var)
         /\ FrameRight(heap, callee)
<1>. DEFINE l == IF heap[f.l].var = f.var THEN Child(f.l, branch) ELSE f.l
            r == IF heap[f.l].var = f.var /\ heap[f.r].var # f.var THEN f.r
                 ELSE Child(f.r, branch)
            S == Side(branch, f.var)
<1>1. callee = ApplyCall(f.op, l, r)
  BY DEF SubCall
<1>2. Den(l) \cap S = Den(f.l) \cap S
  BY SideOfChild DEF SplitOperands
<1>3. Den(r) \cap S = Den(f.r) \cap S
  <2>1. CASE heap[f.l].var = f.var /\ heap[f.r].var # f.var
    BY <2>1
  <2>2. CASE ~(heap[f.l].var = f.var /\ heap[f.r].var # f.var)
    <3>1. heap[f.r].var = f.var /\ f.r \notin {Zero, One} /\ r = Child(f.r, branch)
      BY <2>2 DEF Splits, SplitOperands
    <3>. QED
      BY <3>1, SideOfChild
  <2>. QED
    BY <2>1, <2>2
<1>4. /\ MeaningIn(heap, callee) = FunctionOf(f.op, Den(l), Den(r))
      /\ MeaningIn(heap, f) = FunctionOf(f.op, Den(f.l), Den(f.r))
      /\ FrameRight(heap, callee)
  <2>. HIDE DEF l, r
  <2>1. MeaningIn(heap, callee) = FunctionOf(f.op, Den(l), Den(r))
    BY <1>1, NewCallMeans DEF Den
  <2>2. FrameRight(heap, callee)
    BY <1>1, NewCallRight DEF ApplyCall
  <2>. QED
    BY <2>1, <2>2 DEF MeaningIn, Den
<1>. HIDE DEF l, r, S
<1>5. FunctionOf(f.op, Den(l), Den(r)) \cap S = FunctionOf(f.op, Den(f.l), Den(f.r)) \cap S
  <2>1. f.op = "and" \/ f.op = "or" \/ f.op = "xor"
    BY DEF Ops
  <2>. DEFINE a == Den(l)
              b == Den(r)
              c == Den(f.l)
              d == Den(f.r)
  <2>2. a \cap S = c \cap S /\ b \cap S = d \cap S
    BY <1>2, <1>3
  <2>. HIDE DEF a, b, c, d
  <2>3. /\ (a \cap b) \cap S = (c \cap d) \cap S
        /\ (a \cup b) \cap S = (c \cup d) \cap S
        /\ ((a \ b) \cup (b \ a)) \cap S = ((c \ d) \cup (d \ c)) \cap S
    BY <2>2
  <2>4. FunctionOf(f.op, a, b) \cap S = FunctionOf(f.op, c, d) \cap S
    BY <2>1, <2>3 DEF FunctionOf
  <2>. QED
    BY <2>4 DEF a, b, c, d
<1>. QED
  BY <1>4, <1>5 DEF S

\* What a call from apply starts, given that the frame is to go on being right.
LEMMA SubCallRight ==
  ASSUME Now, stack # <<>>, Top.fn = "apply", UNCHANGED <<vals, req, computed>>, ReleaseOnly,
         NEW f, f.fn = "apply", f.op = Top.op, f.l = Top.l, f.r = Top.r,
         Held(f) \subseteq DOMAIN heap, FrameRight(heap, f), Splits(heap, f), SplitOperands(heap, f),
         Call(f, SubCall(f.op, f.var, f.l, f.r, Missing(f)))
  PROVE  Right' /\ Returned
<1>. DEFINE sub == SubCall(f.op, f.var, f.l, f.r, Missing(f))
<1>1. /\ Top.l \in Usable(heap) /\ Top.r \in Usable(heap) /\ Top.op \in Ops
      /\ Top.l \in DOMAIN heap /\ Top.r \in DOMAIN heap /\ MachineInv /\ OrderedHeap
  BY ApplyServes, ApplyFrameFacts DEF Usable, Now, Steps, OInv
<1>2. MeaningIn(heap, f) = MeaningIn(heap, Top)
  BY DEF MeaningIn
<1>3. Missing(f) \in {"neg", "pos"}
  BY DEF Missing
<1>4. sub = SubCall(f.op, f.var, f.l, f.r, Missing(f)) /\ Call(f, sub)
  OBVIOUS
<1>. HIDE DEF sub
<1>5. /\ MeaningIn(heap, sub) \cap Side(Missing(f), f.var) = MeaningIn(heap, f) \cap Side(Missing(f), f.var)
      /\ FrameRight(heap, sub)
  BY <1>1, <1>3, <1>4, SubCallMeans
<1>6. Held(sub) \subseteq DOMAIN heap
  BY <1>1, <1>4, SubCallServes
<1>7. Wants(heap, f, MeaningIn(heap, sub))
  BY <1>5 DEF Wants
<1>. QED
  BY <1>2, <1>4, <1>5, <1>6, <1>7, CallIsRight

\* The first of the two calls of apply ...
LEMMA ApplySplitRight ==
  ASSUME Now, NEW first \in {"neg", "pos"}, ApplySplit(first), UNCHANGED sessionVars
  PROVE  Right' /\ Returned
<1>. DEFINE v == NextVar(Top.l, Top.r)
            sub == SubCall(Top.op, v, Top.l, Top.r, first)
            f == [Top EXCEPT !.at = IF first = "neg" THEN "negFirst" ELSE "posFirst", !.var = v]
<1>1. stack # <<>> /\ Top.fn = "apply" /\ Top.at = "enter" /\ Operation(Top.op, Top.l, Top.r) = Null
      /\ UNCHANGED <<vals, req, computed>> /\ ReleaseOnly
  BY DEF ApplySplit, Recurses, Entering, sessionVars
<1>2. Null \notin {sub.l, sub.r} /\ Call(f, sub)
  BY DEF ApplySplit
<1>3. /\ Top \in Frame /\ Top.op \in Ops /\ FrameRight(heap, Top) /\ Held(Top) \subseteq DOMAIN heap
      /\ Top.l \in Usable(heap) /\ Top.r \in Usable(heap) /\ MachineInv
  BY <1>1, ApplyServes, ApplyFrameFacts, TopRight DEF Now, Steps
<1>4. Top.l \notin {Zero, One} \/ Top.r \notin {Zero, One}
  BY <1>1, <1>3, RecursesOnNode
<1>5. /\ f.fn = "apply" /\ f.op = Top.op /\ f.l = Top.l /\ f.r = Top.r /\ f.var = v
      /\ f.at = IF first = "neg" THEN "negFirst" ELSE "posFirst"
      /\ f.a = Top.a /\ f.b = Top.b
  BY <1>1, <1>3 DEF Frame
<1>6. SplitOperands(heap, f)
  <2>1. \A n \in {Zero, One} : Child(n, first) = Null
    BY <1>3 DEF MachineInv, StoreInv, GoodHeap, Child
  <2>2. /\ sub.l = IF heap[Top.l].var = v THEN Child(Top.l, first) ELSE Top.l
        /\ sub.r = IF heap[Top.l].var = v /\ heap[Top.r].var # v THEN Top.r
                   ELSE Child(Top.r, first)
    BY DEF SubCall, ApplyCall, Activation
  <2>. HIDE DEF sub, f
  <2>. QED
    BY <1>2, <1>5, <2>1, <2>2 DEF SplitOperands
<1>. HIDE DEF f, v
<1>7. Splits(heap, f)
  BY <1>3, <1>4, <1>5, NextVarSplits DEF v
<1>8. Missing(f) = first /\ FrameRight(heap, f)
  <2>1. Top.a = Null
    BY <1>1, <1>3 DEF FrameRight
  <2>. QED
    BY <1>5, <2>1 DEF Missing, FrameRight
<1>9. Call(f, SubCall(f.op, f.var, f.l, f.r, Missing(f)))
  BY <1>2, <1>5, <1>8
<1>10. Held(f) \subseteq DOMAIN heap
  BY <1>3, <1>5 DEF Held
<1>. QED
  BY <1>1, <1>5, <1>6, <1>7, <1>8, <1>9, <1>10, SubCallRight

\* ... and the second, in either order (project1.cpp:58-63).
LEMMA ApplySecondRight ==
  ASSUME Now, NEW first \in {"neg", "pos"}, ApplySecond(first), UNCHANGED sessionVars
  PROVE  Right' /\ Returned
<1>1. stack # <<>> /\ Top.fn = "apply" /\ ret # Null
      /\ Top.at = (IF first = "neg" THEN "negFirst" ELSE "posFirst")
      /\ UNCHANGED <<vals, req, computed>> /\ ReleaseOnly
  BY DEF ApplySecond, Resumed, sessionVars
<1>2. PICK f : /\ Call(f, SubCall(Top.op, Top.var, Top.l, Top.r, IF first = "neg" THEN "pos" ELSE "neg"))
               /\ f = IF first = "neg" THEN [Top EXCEPT !.at = "second", !.a = ret]
                      ELSE [Top EXCEPT !.at = "second", !.b = ret]
  BY DEF ApplySecond
<1>3. /\ Top \in Frame /\ Splits(heap, Top) /\ FrameRight(heap, Top) /\ Held(Top) \subseteq DOMAIN heap
      /\ ret \in DOMAIN heap /\ Wants(heap, Top, Den(ret))
  BY <1>1, ApplyServes, TopRight DEF Now, Steps
<1>4. SplitOperands(heap, Top) /\ Top.a = Null
  BY <1>1, <1>3, ApplyFrameFacts DEF ApplyFrame, Now, Steps, FrameRight
<1>5. /\ f.fn = "apply" /\ f.op = Top.op /\ f.l = Top.l /\ f.r = Top.r /\ f.var = Top.var
      /\ f.at = "second"
      /\ IF first = "neg" THEN f.a = ret /\ f.b = Top.b ELSE f.a = Null /\ f.b = ret
  BY <1>1, <1>2, <1>3, <1>4 DEF Frame
<1>6. /\ Missing(f) = (IF first = "neg" THEN "pos" ELSE "neg")
      /\ Other(f) = Missing(Top) /\ Got(f) = ret
  BY <1>1, <1>5 DEF Missing, Other, Got
<1>7. MeaningIn(heap, f) = MeaningIn(heap, Top)
  BY <1>1, <1>5 DEF MeaningIn
<1>8. FrameRight(heap, f)
  <2>1. Den(ret) \cap Side(Missing(Top), Top.var) = MeaningIn(heap, Top) \cap Side(Missing(Top), Top.var)
    BY <1>1, <1>3 DEF Wants
  <2>. QED
    BY <1>5, <1>6, <1>7, <2>1 DEF FrameRight, Den
<1>9. Splits(heap, f) /\ SplitOperands(heap, f)
  BY <1>3, <1>4, <1>5 DEF Splits, SplitOperands
<1>10. Call(f, SubCall(f.op, f.var, f.l, f.r, Missing(f)))
  BY <1>2, <1>5, <1>6
<1>11. Held(f) \subseteq DOMAIN heap
  BY <1>3, <1>5 DEF Held
<1>. QED
  BY <1>1, <1>5, <1>8, <1>9, <1>10, <1>11, SubCallRight

\* The node made has the function that apply is to return: it has the one half
\* of it from the one child and the other half from the other.
LEMMA ApplyBuildRight ==
  ASSUME Now, ApplyBuild, UNCHANGED sessionVars
  PROVE  Right' /\ Returned
<1>. DEFINE neg == IF Top.a = Null THEN ret ELSE Top.a
            pos == IF Top.a = Null THEN Top.b ELSE ret
            prob == IF Redundant(neg, pos) THEN Unset ELSE Average(neg, pos)
            h == NewNode(Top.var, neg, pos, prob)
            result == IF Redundant(neg, pos) THEN neg ELSE FreshId
            stale == IF Redundant(neg, pos) THEN doomed ELSE doomed \ {CallKey}
            x == FreshId
            v == Top.var
            M == MeaningIn(heap, Top)
<1>1. stack # <<>> /\ Top.fn = "apply" /\ ret # Null /\ Top.at = "second" /\ UNCHANGED <<vals, req>>
  BY DEF ApplyBuild, Resumed, sessionVars
<1>2. /\ computed' = Remember(neg, pos) /\ Return(result)
      /\ Release(h, Pool \ {x}, stale)
  BY DEF ApplyBuild
<1>3. /\ FrameRight(heap, Top) /\ Held(Top) \subseteq DOMAIN heap /\ Wants(heap, Top, Den(ret))
      /\ Top.l \in DOMAIN heap /\ Top.r \in DOMAIN heap /\ Top.op \in Ops /\ MachineInv
      /\ ret \in Usable(heap) /\ Held(Top) \subseteq Usable(heap)
  BY <1>1, TopRight, ApplyServes, ApplyFrameFacts, TopFrame DEF Now, Steps, Usable
<1>4. v \in Vars /\ (Top.a # Null \/ Top.b # Null)
  BY <1>1, <1>3, ApplyFrameFacts DEF ApplyFrame
<1>5. neg \in Usable(heap) /\ pos \in Usable(heap)
  BY <1>3, <1>4 DEF Held
<1>6. M = FunctionOf(Top.op, Den(Top.l), Den(Top.r)) /\ M \subseteq Assignments
  <2>1. M = FunctionOf(Top.op, Den(Top.l), Den(Top.r))
    BY <1>1 DEF MeaningIn, Den
  <2>2. Den(Top.l) \subseteq Assignments /\ Den(Top.r) \subseteq Assignments
    BY <1>3, TerminalMeans
  <2>3. Top.op = "and" \/ Top.op = "or" \/ Top.op = "xor"
    BY <1>3 DEF Ops
  <2>. HIDE DEF M
  <2>. QED
    BY <2>1, <2>2, <2>3 DEF FunctionOf
<1>7. Den(neg) \cap Without(v) = M \cap Without(v) /\ Den(pos) \cap With(v) = M \cap With(v)
  <2>1. Den(ret) \cap Side(Missing(Top), v) = M \cap Side(Missing(Top), v)
    BY <1>1, <1>3 DEF Wants
  <2>2. Den(Got(Top)) \cap Side(Other(Top), v) = M \cap Side(Other(Top), v)
    BY <1>1, <1>3 DEF FrameRight, Den
  <2>3. CASE Top.a = Null
    <3>1. Missing(Top) = "neg" /\ Other(Top) = "pos" /\ neg = ret /\ pos = Got(Top)
      BY <1>1, <2>3 DEF Missing, Other, Got
    <3>. QED
      BY <2>1, <2>2, <3>1 DEF Side
  <2>4. CASE Top.a # Null
    <3>1. Missing(Top) = "pos" /\ Other(Top) = "neg" /\ pos = ret /\ neg = Got(Top)
      BY <1>1, <2>4 DEF Missing, Other, Got
    <3>. QED
      BY <2>1, <2>2, <3>1 DEF Side
  <2>. QED
    BY <2>3, <2>4
<1>. HIDE DEF neg, pos, prob, M
<1>8. x \in Nat /\ x \notin DOMAIN heap /\ x \notin {Zero, One}
  BY FreshIdIsFree DEF Now, Steps, MachineInv, StoreInv, GoodHeap, Usable
<1>9. /\ DOMAIN h = DOMAIN heap \cup {x}
      /\ h[x] = [var |-> v, neg |-> neg, pos |-> pos, prob |-> prob]
  BY DEF NewNode, Put
<1>. HIDE DEF h, x
<1>10. DOMAIN heap' \subseteq DOMAIN h /\ \A n \in DOMAIN heap' : heap'[n] = h[n]
  BY <1>2, ReleaseShrinks
<1>11. result \in DOMAIN heap'
  <2>1. result # Null
    BY <1>5, <1>8, UsableNode DEF Null, x, Now, Steps
  <2>2. ret' = result
    BY <1>2 DEF Return
  <2>3. result \in Locals'
    BY <2>1, <2>2 DEF Locals
  <2>. QED
    BY <2>3 DEF Now, Steps, MachineInv, LocalsInv, Usable
<1>12. Denotation(heap')[result] = M
  <2>1. CASE Redundant(neg, pos)
    <3>1. result = neg /\ neg = pos /\ neg \in DOMAIN heap
      BY <1>5, <2>1 DEF Redundant, Usable
    <3>2. Denotation(heap')[neg] = Den(neg)
      BY <1>11, <3>1, DenotationKept DEF Den, Now
    <3>3. Den(neg) \subseteq Assignments
      BY <1>3, <3>1, TerminalMeans
    <3>4. Den(neg) = M
      BY <1>6, <1>7, <3>1, <3>3 DEF Without
    <3>. QED
      BY <3>1, <3>2, <3>4
  <2>2. CASE ~Redundant(neg, pos)
    <3>1. result = x
      BY <2>2 DEF x
    <3>2. /\ x \in DOMAIN heap' \ {Zero, One}
          /\ heap'[x].var = v /\ heap'[x].neg = neg /\ heap'[x].pos = pos
      BY <1>8, <1>9, <1>10, <1>11, <3>1
    <3>3. GoodHeap(heap')
      BY DEF Now, Steps, MachineInv, StoreInv
    <3>4. {neg, pos} \subseteq DOMAIN heap /\ {neg, pos} \subseteq DOMAIN heap'
      BY <1>5, <3>2, <3>3 DEF GoodHeap, Usable
    <3>5. Denotation(heap')[neg] = Den(neg) /\ Denotation(heap')[pos] = Den(pos)
      BY <3>4, DenotationKept DEF Den, Now
    <3>6. /\ Denotation(heap')[x] \subseteq Assignments
          /\ \A s \in Assignments :
               s \in Denotation(heap')[x] <=> s \in IF v \in s THEN Den(pos) ELSE Den(neg)
      BY <3>2, <3>3, <3>5, NodeDenotes
    <3>7. \A s \in Assignments : s \in M <=> s \in IF v \in s THEN Den(pos) ELSE Den(neg)
      BY <1>7 DEF With, Without
    <3>. QED
      BY <1>6, <3>1, <3>6, <3>7
  <2>. QED
    BY <2>1, <2>2
<1>13. ASSUME NEW k \in DOMAIN computed' \ stale
       PROVE  \/ k \in DOMAIN computed \ doomed /\ computed'[k] = computed[k]
              \/ /\ {k.lhs, k.rhs} \subseteq DOMAIN heap
                 /\ Denotation(heap')[computed'[k]] = FunctionOf(k.op, Den(k.lhs), Den(k.rhs))
  <2>1. CASE Redundant(neg, pos)
    BY <1>2, <1>13, <2>1 DEF Remember
  <2>2. CASE ~Redundant(neg, pos)
    <3>1. computed' = Put(computed, CallKey, x)
      BY <1>2, <2>2 DEF Remember, x
    <3>2. CASE k = CallKey
      <4>1. computed'[k] = result /\ k.op = Top.op /\ k.lhs = Top.l /\ k.rhs = Top.r
        BY <2>2, <3>1, <3>2 DEF Put, CallKey, KeyOf, x
      <4>. QED
        BY <1>3, <1>6, <1>12, <4>1
    <3>3. CASE k # CallKey
      BY <1>13, <2>2, <3>1, <3>3 DEF Put
    <3>. QED
      BY <3>2, <3>3
  <2>. QED
    BY <2>1, <2>2
<1>14. EntriesRight'
  <2>1. DOMAIN heap \subseteq DOMAIN h
    BY <1>9
  <2>. HIDE DEF stale
  <2>. QED
    BY <1>2, <1>13, <2>1, EntriesStayRight DEF Now, Right
<1>. HIDE DEF result
<1>15. StackRight'
  BY <1>1, <1>2, <1>12, ReturnRight DEF M, Now, Right
<1>16. Returned
  BY <1>2, <1>12 DEF Return, Returned, Den, M
<1>. QED
  BY <1>14, <1>15, <1>16 DEF Right

----------------------------------------------------------------------------
\* At the root the cofactor is the child on that side.
LEMMA ChildIsCofactor ==
  ASSUME MachineInv, Acyclic, OrderedHeap, NEW n \in DOMAIN heap \ {Zero, One}, NEW branch \in {"neg", "pos"}
  PROVE  Den(Child(n, branch)) = FunctionCofactor(branch, Den(n), heap[n].var)
<1>. DEFINE c == Child(n, branch)
            v == heap[n].var
<1>1. c \in DOMAIN heap /\ v \in Vars /\ v \in Room(heap, c)
  BY ChildRoom DEF MachineInv, StoreInv, GoodHeap, Usable, Child, OrderedHeap, OrderedNode
<1>2. Independent(Den(c), v) /\ Den(c) \subseteq Assignments
  BY <1>1, RoomIndependent, TerminalMeans
<1>3. Den(n) \cap Side(branch, v) = Den(c) \cap Side(branch, v)
  BY SideOfChild
<1>. HIDE DEF c, v
<1>4. ASSUME NEW s \in Assignments
      PROVE  s \in Den(c) <=> (IF branch = "pos" THEN s \cup {v} ELSE s \ {v}) \in Den(n)
  <2>. DEFINE t == IF branch = "pos" THEN s \cup {v} ELSE s \ {v}
  <2>1. t \in Side(branch, v)
    BY <1>1 DEF Side, With, Without, Assignments
  <2>2. s \in Den(c) <=> t \in Den(c)
    BY <1>2 DEF Independent
  <2>. HIDE DEF t
  <2>3. t \in Den(c) <=> t \in Den(n)
    BY <1>3, <2>1
  <2>. QED
    BY <2>2, <2>3 DEF t
<1>5. Den(c) = FunctionCofactor(branch, Den(n), v)
  BY <1>2, <1>4 DEF FunctionCofactor
<1>. QED
  BY <1>5 DEF c, v

\* Below the root, the cofactor has on each side of the root's variable that of
\* the child there.
LEMMA CofactorOfChild ==
  ASSUME MachineInv, NEW n \in DOMAIN heap \ {Zero, One}, NEW branch \in {"neg", "pos"},
         NEW v \in Vars, v # heap[n].var, NEW op
  PROVE  FunctionCofactor(op, Den(Child(n, branch)), v) \cap Side(branch, heap[n].var)
           = FunctionCofactor(op, Den(n), v) \cap Side(branch, heap[n].var)
<1>. DEFINE c == Child(n, branch)
            w == heap[n].var
<1>1. Den(n) \cap Side(branch, w) = Den(c) \cap Side(branch, w)
  BY SideOfChild
<1>2. ASSUME NEW s \in Side(branch, w)
      PROVE  /\ s \in Assignments
             /\ (IF op = "pos" THEN s \cup {v} ELSE s \ {v}) \in Side(branch, w)
  BY DEF Side, With, Without, Assignments
<1>. HIDE DEF c, w
<1>3. ASSUME NEW s \in Side(branch, w)
      PROVE  s \in FunctionCofactor(op, Den(c), v) <=> s \in FunctionCofactor(op, Den(n), v)
  <2>. DEFINE t == IF op = "pos" THEN s \cup {v} ELSE s \ {v}
  <2>1. t \in Side(branch, w)
    BY <1>2
  <2>. HIDE DEF t
  <2>2. t \in Den(c) <=> t \in Den(n)
    BY <1>1, <2>1
  <2>. QED
    BY <1>2, <2>2 DEF FunctionCofactor, t
<1>4. FunctionCofactor(op, Den(c), v) \cap Side(branch, w) = FunctionCofactor(op, Den(n), v) \cap Side(branch, w)
  BY <1>3
<1>. QED
  BY <1>4 DEF c, w

\* What a cofactor that is past its early returns works with.
LEMMA CofactorFacts ==
  ASSUME Now, stack # <<>>, Top.fn = "cofactor", Top.at # "enter"
  PROVE  /\ Top.op \in {"neg", "pos"} /\ Top.l \in DOMAIN heap \ {Zero, One} /\ Top.r \in DOMAIN heap
         /\ Top.var \in Vars
         /\ heap[Top.l].var # Top.var /\ Den(Top.r) = With(heap[Top.l].var)
         /\ MeaningIn(heap, Top) = FunctionCofactor(Top.op, Den(Top.l), Top.var)
         /\ MeaningIn(heap, Top) \subseteq Assignments
         /\ Top.at = "low" => Top.a \in DOMAIN heap
         /\ Top.at \in {"high", "right"} => Top.b \in DOMAIN heap
<1>1. CofactorFrame(Top) /\ FrameRight(heap, Top) /\ Top.l \in DOMAIN heap /\ Held(Top) \subseteq DOMAIN heap
  BY CofactorFrameFacts, TopRight DEF Now, Steps
<1>2. MeaningIn(heap, Top) = FunctionCofactor(Top.op, Den(Top.l), Top.var)
  BY DEF MeaningIn, Den
<1>. QED
  BY <1>1, <1>2 DEF CofactorFrame, FrameRight, Den, Held, FunctionCofactor

\* The early returns (project1.cpp:81-83, 100-102).
LEMMA CofactorTrivialRight ==
  ASSUME Now, CofactorTrivial, UNCHANGED sessionVars
  PROVE  Right' /\ Returned
<1>1. /\ stack # <<>> /\ Top.fn = "cofactor" /\ UNCHANGED <<vals, req, computed>>
      /\ Release(heap, freeIds, doomed) /\ ~CofactorBelow
  BY DEF CofactorTrivial, Entering, CallUnchanged, ReleaseOnly, sessionVars
<1>2. PICK n : n = (IF CofactorIsRoot THEN Child(Top.l, Top.op) ELSE Top.l) /\ Return(n)
  BY DEF CofactorTrivial
<1>3. /\ Top.op \in {"neg", "pos"} /\ Top.l \in DOMAIN heap /\ Top.l \in Usable(heap)
      /\ MachineInv /\ Acyclic /\ OrderedHeap /\ Top.var \in Vars
  BY <1>1, TopRight, TopFrame, CofactorFrameFacts DEF CofactorFrame, FrameRight, Now, Steps
<1>4. MeaningIn(heap, Top) = FunctionCofactor(Top.op, Den(Top.l), Top.var)
  BY <1>1 DEF MeaningIn, Den
<1>5. n \in DOMAIN heap /\ Den(n) = MeaningIn(heap, Top)
  <2>1. CASE CofactorIsRoot
    <3>1. Top.l \in DOMAIN heap \ {Zero, One} /\ heap[Top.l].var = Top.var
      BY <1>3, <2>1, UsableNode DEF CofactorIsRoot
    <3>2. n = Child(Top.l, Top.op)
      BY <1>2, <2>1
    <3>3. n \in DOMAIN heap
      BY <1>3, <3>1, <3>2, SideOfChild
    <3>4. Den(n) = FunctionCofactor(Top.op, Den(Top.l), Top.var)
      BY <1>3, <3>1, <3>2, ChildIsCofactor
    <3>. QED
      BY <1>4, <3>3, <3>4
  <2>2. CASE ~CofactorIsRoot
    <3>1. Independent(Den(Top.l), Top.var)
      <4>1. CASE IsTerminal(Top.l)
        <5>1. Top.l \in {Zero, One}
          BY <1>3, <4>1, UsableNode
        <5>. QED
          BY <1>3, <5>1, TerminalMeans
      <4>2. CASE ~HasVar(Top.l, Top.var)
        BY <1>3, <4>2, NotHasIndependent
      <4>. QED
        BY <1>1, <2>2, <4>1, <4>2 DEF CofactorIsRoot, CofactorBelow
    <3>2. Den(Top.l) \in SUBSET Assignments
      BY <1>3, TerminalMeans
    <3>3. FunctionCofactor(Top.op, Den(Top.l), Top.var) = Den(Top.l)
      BY <1>3, <3>1, <3>2, CofactorOfIndependent
    <3>4. n = Top.l
      BY <1>2, <2>2
    <3>. QED
      BY <1>3, <1>4, <3>3, <3>4
  <2>. QED
    BY <2>1, <2>2
<1>. QED
  BY <1>1, <1>2, <1>5, ReturnIsRight

\* The literal of the node's variable, which is in the unique table, and what
\* makes its complement.
LEMMA CofactorRootBarRight ==
  ASSUME Now, CofactorRootBar, UNCHANGED sessionVars
  PROVE  Right' /\ Returned
<1>. DEFINE root == FindUnique(heap[Top.l].var, Zero, One)
            f == [Top EXCEPT !.at = "bar", !.r = root]
            callee == ApplyCall("xor", root, One)
            w == heap[Top.l].var
<1>1. stack # <<>> /\ Top.fn = "cofactor" /\ Top.at = "enter" /\ UNCHANGED <<vals, req, computed>>
      /\ ReleaseOnly /\ root # Null /\ Call(f, callee) /\ w # Top.var
  BY DEF CofactorRootBar, Entering, CofactorBelow, CallUnchanged, sessionVars
<1>2. /\ root \in DOMAIN heap /\ heap[root].var = w /\ heap[root].neg = Zero /\ heap[root].pos = One
  BY <1>1 DEF FindUnique, Triple, Now, Steps, MachineInv, StoreInv, GoodUnique
<1>3. root \notin {Zero, One}
  BY <1>2 DEF Now, Steps, MachineInv, StoreInv, GoodHeap, Zero, Null
<1>4. /\ Top \in Frame /\ Held(Top) \subseteq DOMAIN heap /\ FrameRight(heap, Top)
      /\ GoodHeap(heap) /\ MachineInv
  BY <1>1, TopRight
<1>. HIDE DEF root, w
<1>5. Den(root) = With(w)
  <2>1. Den(root) \subseteq Assignments /\ Den(One) = Assignments /\ Den(Zero) = {}
    BY <1>2, <1>4, TerminalMeans
  <2>2. \A s \in Assignments : s \in Den(root) <=> s \in Den(IF w \in s THEN One ELSE Zero)
    BY <1>2, <1>3, <1>4, NodeDenotes DEF Den
  <2>. QED
    BY <2>1, <2>2 DEF With
<1>6. /\ f.fn = "cofactor" /\ f.op = Top.op /\ f.l = Top.l /\ f.var = Top.var /\ f.at = "bar"
      /\ f.r = root /\ f.a = Top.a /\ f.b = Top.b
  BY <1>1, <1>4 DEF Frame
<1>7. MeaningIn(heap, callee) = Without(w)
  <2>1. MeaningIn(heap, callee) = FunctionOf("xor", Den(root), Den(One))
    BY NewCallMeans DEF Den
  <2>2. Den(One) = Assignments
    BY <1>4, TerminalMeans
  <2>. HIDE DEF callee
  <2>. QED
    BY <1>5, <2>1, <2>2 DEF FunctionOf, With, Without
<1>8. FrameRight(heap, callee) /\ Held(callee) \subseteq {root, One}
  BY NewCallRight, NewApply DEF ApplyCall
<1>9. One \in DOMAIN heap
  BY <1>4, TerminalsUsable DEF Usable
<1>. HIDE DEF f, callee
<1>10. FrameRight(heap, f)
  BY <1>1, <1>4, <1>5, <1>6 DEF FrameRight, Den, w
<1>11. Wants(heap, f, MeaningIn(heap, callee))
  BY <1>6, <1>7 DEF Wants, w
<1>12. MeaningIn(heap, f) = MeaningIn(heap, Top)
  BY <1>1, <1>6 DEF MeaningIn
<1>13. Held(f) \cup Held(callee) \subseteq DOMAIN heap
  BY <1>2, <1>4, <1>6, <1>8, <1>9 DEF Held
<1>. QED
  BY <1>1, <1>8, <1>10, <1>11, <1>12, <1>13, CallIsRight

\* The recursive calls, for the side of the root's variable they are for.
LEMMA CofactorChildRight ==
  ASSUME Now, CofactorLow \/ CofactorHigh, UNCHANGED sessionVars
  PROVE  Right' /\ Returned
<1>. DEFINE w == heap[Top.l].var
            M == MeaningIn(heap, Top)
<1>1. stack # <<>> /\ Top.fn = "cofactor" /\ Top.at # "enter" /\ ret # Null
      /\ UNCHANGED <<vals, req, computed>> /\ ReleaseOnly
  BY DEF CofactorLow, CofactorHigh, Resumed, CallUnchanged, sessionVars
<1>2. /\ Top \in Frame /\ Held(Top) \subseteq DOMAIN heap /\ FrameRight(heap, Top) /\ MachineInv
      /\ ret \in DOMAIN heap /\ Wants(heap, Top, Den(ret))
  BY <1>1, TopRight
<1>3. /\ Top.op \in {"neg", "pos"} /\ Top.l \in DOMAIN heap \ {Zero, One} /\ Top.var \in Vars
      /\ w # Top.var /\ Den(Top.r) = With(w)
      /\ M = FunctionCofactor(Top.op, Den(Top.l), Top.var)
  BY <1>1, CofactorFacts
<1>4. PICK f, branch :
        /\ branch \in {"neg", "pos"}
        /\ Call(f, CofactorCall(Top.op, Child(Top.l, branch), Top.var))
        /\ \/ Top.at = "bar" /\ branch = "neg" /\ f = [Top EXCEPT !.at = "low", !.a = ret]
           \/ Top.at = "left" /\ branch = "pos" /\ f = [Top EXCEPT !.at = "high", !.b = ret]
  <2>1. CASE CofactorLow
    <3>1. Child(Top.l, "neg") = heap[Top.l].neg
      BY DEF Child
    <3>. QED
      BY <2>1, <3>1 DEF CofactorLow, Resumed
  <2>2. CASE CofactorHigh
    <3>1. Child(Top.l, "pos") = heap[Top.l].pos
      BY DEF Child
    <3>. QED
      BY <2>2, <3>1 DEF CofactorHigh, Resumed
  <2>. QED
    BY <2>1, <2>2
<1>. DEFINE c == Child(Top.l, branch)
            callee == CofactorCall(Top.op, c, Top.var)
<1>5. c \in DOMAIN heap
  BY <1>2, <1>3, <1>4, SideOfChild
<1>6. MeaningIn(heap, callee) = FunctionCofactor(Top.op, Den(c), Top.var)
  BY NewCallMeans DEF Den
<1>7. FrameRight(heap, callee) /\ Held(callee) \subseteq {c}
  BY <1>3, NewCallRight, NewHelper DEF CofactorCall
<1>8. Call(f, callee)
  BY <1>4
<1>9. MeaningIn(heap, callee) \cap Side(branch, w) = M \cap Side(branch, w)
  <2>1. FunctionCofactor(Top.op, Den(c), Top.var) \cap Side(branch, w)
          = FunctionCofactor(Top.op, Den(Top.l), Top.var) \cap Side(branch, w)
    BY <1>2, <1>3, <1>4, CofactorOfChild
  <2>. HIDE DEF callee, M
  <2>. QED
    BY <1>3, <1>6, <2>1
<1>. HIDE DEF c, callee
<1>10. /\ f.fn = "cofactor" /\ f.op = Top.op /\ f.l = Top.l /\ f.var = Top.var /\ f.r = Top.r
       /\ \/ Top.at = "bar" /\ branch = "neg" /\ f.at = "low" /\ f.a = ret /\ f.b = Top.b
          \/ Top.at = "left" /\ branch = "pos" /\ f.at = "high" /\ f.b = ret /\ f.a = Top.a
  BY <1>1, <1>2, <1>4 DEF Frame
<1>11. MeaningIn(heap, f) = M
  BY <1>1, <1>10 DEF MeaningIn
<1>12. FrameRight(heap, f)
  <2>1. Top.at = "bar" => Den(ret) = Without(w)
    BY <1>1, <1>2 DEF Wants
  <2>2. Top.at = "left" => Den(ret) = M \cap Without(w)
    BY <1>1, <1>2 DEF Wants
  <2>. HIDE DEF M
  <2>. QED
    BY <1>3, <1>10, <1>11, <2>1, <2>2 DEF FrameRight, Den
<1>13. Wants(heap, f, MeaningIn(heap, callee))
  <2>1. branch = "neg" => Side(branch, w) = Without(w)
    BY DEF Side
  <2>2. branch = "pos" => Side(branch, w) = With(w)
    BY DEF Side
  <2>. HIDE DEF M
  <2>. QED
    BY <1>9, <1>10, <1>11, <2>1, <2>2 DEF Wants
<1>14. Held(f) \cup Held(callee) \subseteq DOMAIN heap
  BY <1>2, <1>5, <1>7, <1>10 DEF Held
<1>. QED
  BY <1>1, <1>7, <1>8, <1>11, <1>12, <1>13, <1>14, CallIsRight DEF M

\* The two halves, and their union.
LEMMA CofactorApplyRight ==
  ASSUME Now, CofactorLeft \/ CofactorRight \/ CofactorJoin, UNCHANGED sessionVars
  PROVE  Right' /\ Returned
<1>. DEFINE w == heap[Top.l].var
            M == MeaningIn(heap, Top)
<1>1. stack # <<>> /\ Top.fn = "cofactor" /\ Top.at # "enter" /\ ret # Null
      /\ UNCHANGED <<vals, req, computed>> /\ ReleaseOnly
  BY DEF CofactorLeft, CofactorRight, CofactorJoin, Resumed, CallUnchanged, sessionVars
<1>2. /\ Top \in Frame /\ Held(Top) \subseteq DOMAIN heap /\ FrameRight(heap, Top) /\ MachineInv
      /\ ret \in DOMAIN heap /\ Wants(heap, Top, Den(ret))
  BY <1>1, TopRight
<1>3. /\ Top.r \in DOMAIN heap /\ Den(Top.r) = With(w) /\ M \subseteq Assignments
      /\ Top.at = "low" => Top.a \in DOMAIN heap
      /\ Top.at \in {"high", "right"} => Top.b \in DOMAIN heap
  BY <1>1, CofactorFacts
<1>4. /\ Top.at = "low" => Den(Top.a) = Without(w) /\ Den(ret) \cap Without(w) = M \cap Without(w)
      /\ Top.at = "high" => Den(ret) \cap With(w) = M \cap With(w)
      /\ Top.at \in {"high", "right"} => Den(Top.b) = M \cap Without(w)
      /\ Top.at = "right" => Den(ret) = M \cap With(w)
  BY <1>1, <1>2 DEF FrameRight, Wants, Den
<1>5. PICK at, op, n :
        /\ Call([Top EXCEPT !.at = at], ApplyCall(op, n, ret))
        /\ \/ Top.at = "low" /\ at = "left" /\ op = "and" /\ n = Top.a
           \/ Top.at = "high" /\ at = "right" /\ op = "and" /\ n = Top.r
           \/ Top.at = "right" /\ at = "join" /\ op = "or" /\ n = Top.b
  BY DEF CofactorLeft, CofactorRight, CofactorJoin, Resumed
<1>. DEFINE f == [Top EXCEPT !.at = at]
            callee == ApplyCall(op, n, ret)
<1>6. /\ f.fn = "cofactor" /\ f.op = Top.op /\ f.l = Top.l /\ f.var = Top.var /\ f.r = Top.r
      /\ f.a = Top.a /\ f.b = Top.b /\ f.at = at
  BY <1>1, <1>2 DEF Frame
<1>7. n \in DOMAIN heap
  BY <1>3, <1>5
<1>8. MeaningIn(heap, callee) = FunctionOf(op, Den(n), Den(ret))
  BY NewCallMeans DEF Den
<1>9. FrameRight(heap, callee) /\ Held(callee) \subseteq {n, ret}
  BY NewCallRight, NewApply DEF ApplyCall
<1>10. Call(f, callee)
  BY <1>5
<1>. HIDE DEF f, callee
<1>11. MeaningIn(heap, f) = M
  BY <1>1, <1>6 DEF MeaningIn
<1>. HIDE DEF M
<1>12. FrameRight(heap, f)
  <2>1. Top.var \in Vars /\ w # Top.var
    BY <1>1, CofactorFacts
  <2>. QED
    BY <1>3, <1>4, <1>5, <1>6, <1>11, <2>1 DEF FrameRight, Den
<1>13. Wants(heap, f, MeaningIn(heap, callee))
  <2>1. CASE Top.at = "low"
    <3>1. at = "left" /\ op = "and" /\ Den(n) = Without(w) /\ Den(ret) \cap Without(w) = M \cap Without(w)
      BY <1>4, <1>5, <2>1
    <3>2. MeaningIn(heap, callee) = M \cap Without(w)
      BY <1>8, <3>1 DEF FunctionOf
    <3>. QED
      BY <1>6, <1>11, <3>1, <3>2 DEF Wants
  <2>2. CASE Top.at = "high"
    <3>1. at = "right" /\ op = "and" /\ Den(n) = With(w) /\ Den(ret) \cap With(w) = M \cap With(w)
      BY <1>3, <1>4, <1>5, <2>2
    <3>2. MeaningIn(heap, callee) = M \cap With(w)
      BY <1>8, <3>1 DEF FunctionOf
    <3>. QED
      BY <1>6, <1>11, <3>1, <3>2 DEF Wants
  <2>3. CASE Top.at = "right"
    <3>1. at = "join" /\ op = "or" /\ Den(n) = M \cap Without(w) /\ Den(ret) = M \cap With(w)
      BY <1>4, <1>5, <2>3
    <3>2. MeaningIn(heap, callee) = M
      BY <1>3, <1>8, <3>1 DEF FunctionOf, Without
    <3>. QED
      BY <1>6, <1>11, <3>1, <3>2 DEF Wants
  <2>. QED
    BY <1>5, <2>1, <2>2, <2>3
<1>14. Held(f) \cup Held(callee) \subseteq DOMAIN heap
  BY <1>2, <1>6, <1>7, <1>9 DEF Held
<1>. QED
  BY <1>1, <1>9, <1>10, <1>11, <1>12, <1>13, <1>14, CallIsRight DEF M

\* The two cofactors of boolean_difference, in either order.
LEMMA DifferenceCofactorRight ==
  ASSUME Now, NEW first \in {"neg", "pos"}, DifferenceFirst(first) \/ DifferenceSecond(first),
         UNCHANGED sessionVars
  PROVE  Right' /\ Returned
<1>1. stack # <<>> /\ Top.fn = "difference" /\ UNCHANGED <<vals, req, computed>> /\ ReleaseOnly
  BY DEF DifferenceFirst, DifferenceSecond, Entering, Resumed, CallUnchanged, sessionVars
<1>2. /\ Top \in Frame /\ Held(Top) \subseteq DOMAIN heap /\ FrameRight(heap, Top) /\ MachineInv
      /\ Top.l \in DOMAIN heap
      /\ ret # Null => ret \in DOMAIN heap /\ Wants(heap, Top, Den(ret))
  BY <1>1, TopRight
<1>3. /\ Top.var \in Vars
      /\ Top.at \in {"enter", "negFirst", "posFirst"} => Top.a = Null
  BY <1>1, <1>2 DEF FrameRight
<1>4. PICK f : \/ /\ DifferenceFirst(first)
                  /\ f = [Top EXCEPT !.at = IF first = "neg" THEN "negFirst" ELSE "posFirst"]
                  /\ Call(f, CofactorCall(first, Top.l, Top.var))
               \/ /\ DifferenceSecond(first)
                  /\ f = IF first = "neg" THEN [Top EXCEPT !.at = "second", !.a = ret]
                         ELSE [Top EXCEPT !.at = "second", !.b = ret]
                  /\ Call(f, CofactorCall(IF first = "neg" THEN "pos" ELSE "neg", Top.l, Top.var))
  BY DEF DifferenceFirst, DifferenceSecond
<1>5. /\ f.fn = "difference" /\ f.op = Top.op /\ f.l = Top.l /\ f.var = Top.var /\ f.r = Top.r
      /\ {f.a, f.b} \subseteq {Top.a, Top.b, ret}
  BY <1>1, <1>2, <1>4 DEF Frame
<1>6. /\ FrameRight(heap, f) /\ f.at # "join" /\ Call(f, CofactorCall(Missing(f), Top.l, Top.var))
      /\ Held(f) \subseteq DOMAIN heap
  <2>1. CASE DifferenceFirst(first)
    <3>1. Top.at = "enter"
      BY <2>1 DEF DifferenceFirst, Entering
    <3>2. /\ f.at = (IF first = "neg" THEN "negFirst" ELSE "posFirst") /\ f.a = Null /\ f.b = Top.b
          /\ Call(f, CofactorCall(first, Top.l, Top.var))
      BY <1>1, <1>2, <1>3, <1>4, <2>1, <3>1 DEF DifferenceSecond, Resumed, Frame
    <3>3. Missing(f) = first
      BY <3>2 DEF Missing
    <3>. QED
      BY <1>2, <1>3, <1>5, <3>2, <3>3 DEF FrameRight, Held
  <2>2. CASE DifferenceSecond(first)
    <3>1. Top.at = (IF first = "neg" THEN "negFirst" ELSE "posFirst") /\ ret # Null
      BY <2>2 DEF DifferenceSecond, Resumed
    <3>2. /\ f.at = "second"
          /\ IF first = "neg" THEN f.a = ret /\ f.b = Top.b ELSE f.a = Null /\ f.b = ret
          /\ Call(f, CofactorCall(IF first = "neg" THEN "pos" ELSE "neg", Top.l, Top.var))
      BY <1>1, <1>2, <1>3, <1>4, <2>2, <3>1 DEF DifferenceFirst, Entering, Frame
    <3>3. Missing(f) = (IF first = "neg" THEN "pos" ELSE "neg") /\ Got(f) = ret /\ Other(f) = Missing(Top)
      BY <3>1, <3>2 DEF Missing, Other, Got
    <3>4. Den(ret) = FunctionCofactor(Missing(Top), Denotation(heap)[Top.l], Top.var)
      BY <1>1, <1>2, <3>1 DEF Wants
    <3>. QED
      BY <1>2, <1>3, <1>5, <3>1, <3>2, <3>3, <3>4 DEF FrameRight, Held, Den
  <2>. QED
    BY <1>4, <2>1, <2>2
<1>. DEFINE callee == CofactorCall(Missing(f), Top.l, Top.var)
<1>7. MeaningIn(heap, callee) = FunctionCofactor(Missing(f), Denotation(heap)[Top.l], Top.var)
  BY NewCallMeans
<1>8. FrameRight(heap, callee) /\ Held(callee) \subseteq {Top.l}
  BY <1>3, NewCallRight, NewHelper DEF CofactorCall
<1>9. Call(f, callee)
  BY <1>6
<1>. HIDE DEF callee
<1>10. Wants(heap, f, MeaningIn(heap, callee))
  BY <1>5, <1>6, <1>7 DEF Wants
<1>11. MeaningIn(heap, f) = MeaningIn(heap, Top)
  BY <1>1, <1>5 DEF MeaningIn
<1>. QED
  BY <1>1, <1>2, <1>6, <1>8, <1>9, <1>10, <1>11, CallIsRight

\* The exclusive or of the two.
LEMMA DifferenceXorRight ==
  ASSUME Now, DifferenceXor, UNCHANGED sessionVars
  PROVE  Right' /\ Returned
<1>. DEFINE neg == IF Top.a = Null THEN ret ELSE Top.a
            pos == IF Top.a = Null THEN Top.b ELSE ret
            f == [Top EXCEPT !.at = "join"]
            callee == ApplyCall("xor", pos, neg)
            F == Denotation(heap)[Top.l]
<1>1. stack # <<>> /\ Top.fn = "difference" /\ Top.at = "second" /\ ret # Null
      /\ UNCHANGED <<vals, req, computed>> /\ ReleaseOnly /\ Call(f, callee)
  BY DEF DifferenceXor, Resumed, CallUnchanged, sessionVars
<1>2. /\ Top \in Frame /\ Held(Top) \subseteq DOMAIN heap /\ FrameRight(heap, Top)
      /\ ret \in DOMAIN heap /\ Wants(heap, Top, Den(ret))
  BY <1>1, TopRight
<1>3. Top.a # Null \/ Top.b # Null
  BY <1>1, TopFrame DEF GoodFrame, Now, Steps
<1>4. {neg, pos} \subseteq DOMAIN heap
  BY <1>2, <1>3 DEF Held
<1>5. Den(neg) = FunctionCofactor("neg", F, Top.var) /\ Den(pos) = FunctionCofactor("pos", F, Top.var)
  <2>1. Den(ret) = FunctionCofactor(Missing(Top), F, Top.var)
    BY <1>1, <1>2 DEF Wants
  <2>2. Den(Got(Top)) = FunctionCofactor(Other(Top), F, Top.var)
    BY <1>1, <1>2 DEF FrameRight, Den
  <2>3. CASE Top.a = Null
    <3>1. Missing(Top) = "neg" /\ Other(Top) = "pos" /\ neg = ret /\ pos = Got(Top)
      BY <1>1, <2>3 DEF Missing, Other, Got
    <3>. QED
      BY <2>1, <2>2, <3>1
  <2>4. CASE Top.a # Null
    <3>1. Missing(Top) = "pos" /\ Other(Top) = "neg" /\ pos = ret /\ neg = Got(Top)
      BY <1>1, <2>4 DEF Missing, Other, Got
    <3>. QED
      BY <2>1, <2>2, <3>1
  <2>. QED
    BY <2>3, <2>4
<1>. HIDE DEF neg, pos
<1>6. /\ f.fn = "difference" /\ f.l = Top.l /\ f.var = Top.var /\ f.at = "join" /\ f.r = Top.r
      /\ f.a = Top.a /\ f.b = Top.b
  BY <1>1, <1>2 DEF Frame
<1>7. MeaningIn(heap, callee) = FunctionOf("xor", Den(pos), Den(neg))
  BY NewCallMeans DEF Den
<1>8. FrameRight(heap, callee) /\ Held(callee) \subseteq {pos, neg}
  BY NewCallRight, NewApply DEF ApplyCall
<1>. HIDE DEF f, callee
<1>9. MeaningIn(heap, f) = FunctionDifference(F, Top.var)
      /\ MeaningIn(heap, Top) = FunctionDifference(F, Top.var)
  BY <1>1, <1>6 DEF MeaningIn
<1>. HIDE DEF F
<1>10. MeaningIn(heap, callee) = FunctionDifference(F, Top.var)
  BY <1>5, <1>7 DEF FunctionDifference
<1>11. FrameRight(heap, f)
  BY <1>1, <1>2, <1>6 DEF FrameRight
<1>12. Wants(heap, f, MeaningIn(heap, callee))
  BY <1>6, <1>9, <1>10 DEF Wants
<1>13. Held(f) \cup Held(callee) \subseteq DOMAIN heap
  BY <1>2, <1>4, <1>6, <1>8 DEF Held
<1>. QED
  BY <1>1, <1>8, <1>9, <1>11, <1>12, <1>13, CallIsRight

\* What the last apply returned is what either function is to return.
LEMMA ReturnJoinedRight ==
  ASSUME Now, ReturnJoined, UNCHANGED sessionVars
  PROVE  Right' /\ Returned
<1>1. stack # <<>> /\ ret # Null /\ UNCHANGED <<vals, req, computed>> /\ Release(heap, freeIds, doomed)
      /\ Return(ret) /\ Top.fn \in {"cofactor", "difference"} /\ Top.at = "join"
  BY DEF ReturnJoined, Resumed, CallUnchanged, ReleaseOnly, sessionVars
<1>2. ret \in DOMAIN heap /\ Wants(heap, Top, Den(ret))
  BY <1>1, TopRight
<1>3. Den(ret) = MeaningIn(heap, Top)
  BY <1>1, <1>2 DEF Wants
<1>. QED
  BY <1>1, <1>2, <1>3, ReturnIsRight

\* sort_by_influence asks for differences, and returns its argument.
LEMMA SortRight ==
  ASSUME Now, SortSweep \/ SortFinish, UNCHANGED sessionVars
  PROVE  Right' /\ Returned
<1>1. stack # <<>> /\ Top.fn = "sort" /\ UNCHANGED <<vals, req, computed>> /\ Release(heap, freeIds, doomed)
  BY DEF SortSweep, SortFinish, Sorting, Entering, Resumed, ReleaseOnly, sessionVars
<1>2. /\ Top \in Frame /\ Held(Top) \subseteq DOMAIN heap /\ FrameRight(heap, Top)
      /\ Top.l \in DOMAIN heap
  BY <1>1, TopRight
<1>3. MeaningIn(heap, Top) = Den(Top.l)
  BY <1>1 DEF MeaningIn, Den
<1>4. CASE SortSweep
  <2>1. Sorting /\ Unswept # {}
    BY <1>4 DEF SortSweep
  <2>2. PICK v \in Vars : Call([Top EXCEPT !.at = "swept", !.var = v], DifferenceCall(Top.l, v))
    <3>. DEFINE w == CHOOSE x \in Unswept : \A u \in Unswept : SweepRank[x] <= SweepRank[u]
    <3>1. w \in Vars
      BY <2>1, NextSwept
    <3>2. Call([Top EXCEPT !.at = "swept", !.var = w], DifferenceCall(Top.l, w))
      BY <1>4 DEF SortSweep
    <3>. QED
      BY <3>1, <3>2
  <2>. DEFINE f == [Top EXCEPT !.at = "swept", !.var = v]
              callee == DifferenceCall(Top.l, v)
  <2>3. f.fn = "sort" /\ f.l = Top.l /\ f.at = "swept" /\ f.var = v /\ f.r = Top.r /\ f.a = Top.a /\ f.b = Top.b
    BY <1>1, <1>2 DEF Frame
  <2>4. FrameRight(heap, callee) /\ Held(callee) \subseteq {Top.l}
    BY NewCallRight, NewHelper DEF DifferenceCall
  <2>5. MeaningIn(heap, callee) = FunctionDifference(Denotation(heap)[Top.l], v)
    BY NewCallMeans
  <2>6. Call(f, callee)
    BY <2>2
  <2>. HIDE DEF f, callee
  <2>7. FrameRight(heap, f) /\ Wants(heap, f, MeaningIn(heap, callee)) /\ MeaningIn(heap, f) = Den(Top.l)
    BY <2>3, <2>5 DEF FrameRight, Wants, MeaningIn, Den
  <2>8. Held(f) \cup Held(callee) \subseteq DOMAIN heap
    BY <1>2, <2>3, <2>4 DEF Held
  <2>9. ReleaseOnly
    BY <1>1 DEF ReleaseOnly
  <2>. QED
    BY <1>1, <1>3, <2>4, <2>6, <2>7, <2>8, <2>9, CallIsRight
<1>5. CASE SortFinish
  <2>1. Return(Top.l)
    BY <1>5 DEF SortFinish
  <2>. QED
    BY <1>1, <1>2, <1>3, <2>1, ReturnIsRight
<1>. QED
  BY <1>4, <1>5

----------------------------------------------------------------------------
\* The calculator asks for the functions that the package's are to return.
LEMMA AnswerMeans ==
  ASSUME NEW F \in SUBSET Assignments, NEW G \in SUBSET Assignments
  PROVE  /\ Calc!Answer([op |-> "not", var |-> NoVar], G, F) = FunctionOf("xor", F, Assignments)
         /\ \A op \in Ops : Calc!Answer([op |-> op, var |-> NoVar], G, F) = FunctionOf(op, G, F)
         /\ \A op \in {"neg", "pos"}, v \in Vars :
              Calc!Answer([op |-> op, var |-> v], G, F) = FunctionCofactor(op, F, v)
         /\ \A v \in Vars : Calc!Answer([op |-> "diff", var |-> v], G, F) = FunctionDifference(F, v)
         /\ Calc!Answer([op |-> "sort", var |-> NoVar], G, F) = F
<1>1. Calc!Answer([op |-> "not", var |-> NoVar], G, F) = FunctionOf("xor", F, Assignments)
  BY DEF Calc!Answer, FunctionOf, Assignments, Calc!Assignments
<1>2. ASSUME NEW op \in Ops
      PROVE  Calc!Answer([op |-> op, var |-> NoVar], G, F) = FunctionOf(op, G, F)
  BY DEF Calc!Answer, Calc!Xor, FunctionOf, Ops
<1>3. \A v : /\ Calc!Restricted(F, v, TRUE) = FunctionCofactor("pos", F, v)
             /\ Calc!Restricted(F, v, FALSE) = FunctionCofactor("neg", F, v)
  BY DEF Calc!Restricted, FunctionCofactor, Assignments, Calc!Assignments
<1>4. ASSUME NEW op \in {"neg", "pos"}, NEW v \in Vars
      PROVE  Calc!Answer([op |-> op, var |-> v], G, F) = FunctionCofactor(op, F, v)
  BY <1>3 DEF Calc!Answer
<1>5. ASSUME NEW v \in Vars
      PROVE  Calc!Answer([op |-> "diff", var |-> v], G, F) = FunctionDifference(F, v)
  BY <1>3 DEF Calc!Answer, Calc!Xor, FunctionDifference, FunctionOf
<1>6. Calc!Answer([op |-> "sort", var |-> NoVar], G, F) = F
  BY DEF Calc!Answer
<1>. QED
  BY <1>1, <1>2, <1>4, <1>5, <1>6

\* Between the calls of main nothing is due.
LEMMA IdleRight ==
  ASSUME Now, stack' = <<>>, ret' = Null, computed' = computed,
         NEW h, NEW ids, Release(h, ids, doomed), DOMAIN heap \subseteq DOMAIN h
  PROVE  Right'
BY QuietEntriesRight DEF StackRight, Now, Right

\* A call main makes, for the function that answers its request.
LEMMA InvokeRight ==
  ASSUME Now, computed' = computed, ReleaseOnly, NEW f, NEW r, Invoke(f, r), FrameRight(heap', f),
         MeaningIn(heap', f) = AnswerDue(heap)'
  PROVE  Right'
<1>1. EntriesRight'
  BY QuietEntriesRight DEF ReleaseOnly, Now, Right
<1>2. stack' = <<f>> /\ ret' = Null
  BY DEF Invoke
<1>3. DOMAIN stack' = {1} /\ stack'[1] = f
  BY <1>2
<1>. QED
  BY <1>1, <1>2, <1>3 DEF StackRight, Right

\* What the operands on top mean goes on when the call is made.
LEMMA OperandsMean ==
  ASSUME Now, vals' = vals
  PROVE  \A i \in DOMAIN vals : /\ vals[i] \in DOMAIN heap'
                                /\ Denotation(heap')[vals[i]] \in SUBSET Assignments
<1>1. ASSUME NEW i \in DOMAIN vals
      PROVE  vals[i] \in DOMAIN heap'
  <2>1. vals'[i] \in Locals'
    BY DEF Locals, Range
  <2>. QED
    BY <2>1 DEF Now, Steps, MachineInv, LocalsInv, Usable
<1>2. GoodHeap(heap')
  BY DEF Now, Steps, MachineInv, StoreInv
<1>. QED
  BY <1>1, <1>2, NodeDenotes

\* The operators of an expression.
LEMMA ReadOperatorRight ==
  ASSUME Now, ReadNot \/ \E op \in {"and", "or"} : ReadBinary(op)
  PROVE  Right'
<1>. DEFINE n == Len(vals)
            F == Denotation(heap')[vals[n]]
            G == Denotation(heap')[vals[n - 1]]
<1>1. vals' = vals /\ computed' = computed /\ ReleaseOnly /\ vals \in Seq(Nat) /\ n \in Nat
  BY DEF ReadNot, ReadBinary, Now, Steps, MachineInv, StackInv
<1>2. n >= 1 /\ (~ReadNot => n >= 2)
  BY <1>1 DEF ReadNot, ReadBinary, Operands
<1>3. Last(vals) = vals[n]
  BY DEF Last
<1>4. F \in SUBSET Assignments /\ (~ReadNot => G \in SUBSET Assignments)
  <2>1. n \in DOMAIN vals /\ (~ReadNot => n - 1 \in DOMAIN vals)
    BY <1>1, <1>2
  <2>. QED
    BY <1>1, <2>1, OperandsMean
<1>5. CASE ReadNot
  <2>. DEFINE f == ApplyCall("xor", Last(vals), One)
              r == [op |-> "not", var |-> NoVar]
  <2>1. Invoke(f, r)
    BY <1>5 DEF ReadNot
  <2>2. FrameRight(heap', f)
    BY NewCallRight DEF ApplyCall
  <2>3. MeaningIn(heap', f) = FunctionOf("xor", F, Denotation(heap')[One])
    BY <1>3, NewCallMeans
  <2>4. Denotation(heap')[One] = Assignments
    BY NodeDenotes DEF Now, Steps, MachineInv, StoreInv
  <2>5. AnswerDue(heap)' = Calc!Answer(r, F, F)
    <3>1. req' = r /\ r.op \notin Ops
      BY <2>1 DEF Invoke, Ops
    <3>2. n - 1 + 1 = n
      BY <1>1
    <3>. HIDE DEF n
    <3>. QED
      BY <1>1, <3>1, <3>2 DEF AnswerDue, n
  <2>6. Calc!Answer(r, F, F) = FunctionOf("xor", F, Assignments)
    BY <1>4, AnswerMeans
  <2>. HIDE DEF f, r, F
  <2>. QED
    BY <1>1, <2>1, <2>2, <2>3, <2>4, <2>5, <2>6, InvokeRight
<1>6. ASSUME NEW op \in {"and", "or"}, ReadBinary(op), ~ReadNot PROVE Right'
  <2>. DEFINE f == ApplyCall(op, vals[n - 1], Last(vals))
              r == [op |-> op, var |-> NoVar]
  <2>1. Invoke(f, r)
    BY <1>6 DEF ReadBinary
  <2>2. FrameRight(heap', f)
    BY NewCallRight DEF ApplyCall
  <2>3. MeaningIn(heap', f) = FunctionOf(op, G, F)
    BY <1>3, NewCallMeans
  <2>4. AnswerDue(heap)' = Calc!Answer(r, G, F)
    <3>1. req' = r /\ r.op \in Ops
      BY <2>1 DEF Invoke, Ops
    <3>2. n - 2 + 1 = n - 1
      BY <1>1
    <3>. HIDE DEF n
    <3>. QED
      BY <1>1, <3>1, <3>2 DEF AnswerDue, n
  <2>5. Calc!Answer(r, G, F) = FunctionOf(op, G, F)
    <3>1. op \in Ops
      BY <1>6 DEF Ops
    <3>2. F \in SUBSET Assignments /\ G \in SUBSET Assignments
      BY <1>4, <1>6
    <3>. HIDE DEF F, G
    <3>. QED
      BY <3>1, <3>2, AnswerMeans
  <2>. HIDE DEF f, r, F, G
  <2>. QED
    BY <1>1, <2>1, <2>2, <2>3, <2>4, <2>5, InvokeRight
<1>. QED
  BY <1>5, <1>6

\* The commands that work on expr1, which is the only operand then.
LEMMA MenuRight ==
  ASSUME Now, NEW op \in {"neg", "pos", "diff", "sort"}, NEW v,
         op # "sort" => v \in Vars, op = "sort" => v = NoVar,
         NEW f, f = (IF op = "diff" THEN DifferenceCall(vals[1], v)
                     ELSE IF op = "sort" THEN SortCall(vals[1])
                     ELSE CofactorCall(op, vals[1], v)),
         Menu, Invoke(f, [op |-> op, var |-> v]), UNCHANGED <<vals, computed>>, ReleaseOnly
  PROVE  Right'
<1>. DEFINE F == Denotation(heap')[vals[1]]
            r == [op |-> op, var |-> v]
<1>1. vals \in Seq(Nat) /\ Len(vals) = 1
  BY DEF Menu, Ready, Idle, SessionShape, Now, Steps, MachineInv, StackInv, Uses, NoRequest, Ops
<1>2. F \in SUBSET Assignments
  BY <1>1, OperandsMean
<1>3. AnswerDue(heap)' = Calc!Answer(r, F, F)
  <2>1. req' = r /\ r.op \notin Ops /\ 1 - 1 + 1 = 1
    BY DEF Invoke, Ops
  <2>. QED
    BY <1>1, <2>1 DEF AnswerDue
<1>4. FrameRight(heap', f)
  BY NewCallRight DEF DifferenceCall, CofactorCall, SortCall
<1>5. MeaningIn(heap', f) = Calc!Answer(r, F, F)
  <2>1. CASE op = "diff"
    BY <1>2, <2>1, NewCallMeans, AnswerMeans
  <2>2. CASE op = "sort"
    <3>1. MeaningIn(heap', f) = F
      BY <2>2, NewCallMeans
    <3>2. r = [op |-> "sort", var |-> NoVar]
      BY <2>2
    <3>. HIDE DEF F, r
    <3>3. Calc!Answer(r, F, F) = F
      BY <1>2, <3>2, AnswerMeans
    <3>. QED
      BY <3>1, <3>3
  <2>3. CASE op \in {"neg", "pos"}
    <3>1. MeaningIn(heap', f) = FunctionCofactor(op, F, v)
      BY <2>3, NewCallMeans
    <3>. HIDE DEF F
    <3>2. Calc!Answer(r, F, F) = FunctionCofactor(op, F, v)
      BY <1>2, <2>3, AnswerMeans
    <3>. QED
      BY <3>1, <3>2
  <2>. QED
    BY <2>1, <2>2, <2>3
<1>. HIDE DEF F
<1>. QED
  BY <1>3, <1>4, <1>5, InvokeRight

\* The operation on expr1 and a second expression.
LEMMA ApplyToSecondRight ==
  ASSUME Now, NEW op \in Ops, ApplyToSecond(op)
  PROVE  Right'
<1>. DEFINE F == Denotation(heap')[vals[2]]
            G == Denotation(heap')[vals[1]]
            f == ApplyCall(op, vals[1], vals[2])
            r == [op |-> op, var |-> NoVar]
<1>1. vals \in Seq(Nat) /\ Len(vals) = 2
  BY DEF ApplyToSecond, Ready, Operands, Now, Steps, MachineInv, StackInv
<1>2. UNCHANGED <<vals, computed>> /\ ReleaseOnly /\ Invoke(f, r)
  BY DEF ApplyToSecond
<1>3. F \in SUBSET Assignments /\ G \in SUBSET Assignments
  BY <1>1, <1>2, OperandsMean
<1>4. AnswerDue(heap)' = Calc!Answer(r, G, F)
  <2>1. req' = r /\ r.op \in Ops /\ 2 - 2 + 1 = 1
    BY <1>2 DEF Invoke
  <2>. QED
    BY <1>1, <1>2, <2>1 DEF AnswerDue
<1>5. FrameRight(heap', f) /\ MeaningIn(heap', f) = FunctionOf(op, G, F)
  <2>1. FrameRight(heap', f)
    BY NewCallRight DEF ApplyCall
  <2>. QED
    BY <2>1, NewCallMeans
<1>6. Calc!Answer(r, G, F) = FunctionOf(op, G, F)
  BY <1>3, AnswerMeans
<1>. HIDE DEF F, G, f, r
<1>. QED
  BY <1>2, <1>4, <1>5, <1>6, InvokeRight

\* Every token of an expression.
LEMMA ReadRight ==
  ASSUME Now, ReadToken
  PROVE  Right'
<1>1. CASE ReadConstant
  BY <1>1, IdleRight DEF ReadConstant, Reading, Ready, Idle, ReleaseOnly
<1>2. ASSUME NEW v \in Vars, ReadKnown(v) \/ ReadNew(v) PROVE Right'
  <2>1. PICK h, ids : Release(h, ids, doomed) /\ DOMAIN heap \subseteq DOMAIN h
    <3>1. CASE ReadKnown(v)
      BY <3>1 DEF ReadKnown
    <3>2. CASE ReadNew(v)
      <4>1. DOMAIN heap \subseteq DOMAIN NewNode(v, Zero, One, Average(Zero, One))
        BY DEF NewNode, Put
      <4>. QED
        BY <3>2, <4>1 DEF ReadNew
    <3>. QED
      BY <1>2, <3>1, <3>2
  <2>2. computed' = computed /\ stack' = <<>> /\ ret' = Null
    BY <1>2 DEF ReadKnown, ReadNew, Reading, Ready, Idle
  <2>. QED
    BY <2>1, <2>2, IdleRight
<1>. QED
  BY <1>1, <1>2, ReadOperatorRight DEF ReadToken

\* Every command of the menu.
LEMMA CommandRight ==
  ASSUME Now, Command
  PROVE  Right'
<1>1. CASE MenuApply
  <2>1. UNCHANGED <<heap, computed, doomed, stack, ret>> /\ stack = <<>> /\ ret = Null
    BY <1>1 DEF MenuApply, Menu, Ready, Idle, tableVars, machineVars
  <2>. QED
    BY <2>1 DEF Now, Right, EntriesRight, StackRight, Den
<1>2. ASSUME NEW v \in Vars, NEW op \in {"neg", "pos"}, MenuCofactor(op, v) PROVE Right'
  <2>. DEFINE f == CofactorCall(op, vals[1], v)
  <2>1. Menu /\ Invoke(f, [op |-> op, var |-> v]) /\ UNCHANGED <<vals, computed>> /\ ReleaseOnly
    BY <1>2 DEF MenuCofactor
  <2>2. f = (IF op = "diff" THEN DifferenceCall(vals[1], v)
             ELSE IF op = "sort" THEN SortCall(vals[1]) ELSE CofactorCall(op, vals[1], v))
    BY <1>2
  <2>. HIDE DEF f
  <2>. QED
    BY <1>2, <2>1, <2>2, MenuRight
<1>3. ASSUME NEW v \in Vars, MenuDifference(v) PROVE Right'
  <2>. DEFINE f == DifferenceCall(vals[1], v)
  <2>1. Menu /\ Invoke(f, [op |-> "diff", var |-> v]) /\ UNCHANGED <<vals, computed>> /\ ReleaseOnly
    BY <1>3 DEF MenuDifference
  <2>. HIDE DEF f
  <2>. QED
    BY <1>3, <2>1, MenuRight DEF f
<1>4. CASE MenuSort
  <2>. DEFINE f == SortCall(vals[1])
  <2>1. Menu /\ Invoke(f, [op |-> "sort", var |-> NoVar]) /\ UNCHANGED <<vals, computed>> /\ ReleaseOnly
    BY <1>4 DEF MenuSort
  <2>. HIDE DEF f
  <2>. QED
    BY <2>1, MenuRight DEF f
<1>. QED
  BY <1>1, <1>2, <1>3, <1>4, ApplyToSecondRight DEF Command

\* Every step of apply and of the functions that call it.
LEMMA ComputeRight ==
  ASSUME Now, Compute, ~tainted'
  PROVE  Right' /\ Returned
<1>1. CASE ApplyStep /\ UNCHANGED <<sortVars, sessionVars>>
  <2>1. CASE ApplyNullChild
    <3>1. UNCHANGED <<heap, computed, doomed, stack, ret, vals, req>>
      BY <1>1, <2>1 DEF ApplyNullChild, tableVars, sessionVars
    <3>2. stack \in Seq(Frame) /\ Len(stack) \in Nat
      BY DEF Now, Steps, MachineInv, StackInv
    <3>. QED
      BY <3>1, <3>2 DEF Now, Right, EntriesRight, StackRight, Den, Top, AnswerDue, Returned
  <2>2. UNCHANGED sessionVars
    BY <1>1
  <2>. QED
    BY <1>1, <2>1, <2>2, ApplyHitRight, ApplyTerminalRight, ApplySplitRight, ApplySecondRight, ApplyBuildRight
       DEF ApplyStep
<1>2. CASE CofactorStep /\ UNCHANGED sessionVars
  BY <1>2, CofactorTrivialRight, CofactorRootBarRight, CofactorChildRight, CofactorApplyRight,
     DifferenceCofactorRight, DifferenceXorRight, ReturnJoinedRight, SortRight DEF CofactorStep
<1>3. CASE Deliver
  <2>1. stack' = <<>> /\ stack = <<>>
    BY <1>3 DEF Deliver
  <2>. QED
    BY <1>3, <2>1, IdleRight DEF Deliver, ReleaseOnly, Returned
<1>. QED
  BY <1>1, <1>2, <1>3 DEF Compute

\* The other steps leave the tables alone or empty them, between calls.
LEMMA QuitRight ==
  ASSUME Now, EndExpression \/ Quit
  PROVE  Right'
<1>1. CASE EndExpression
  <2>1. UNCHANGED <<heap, computed, doomed, stack, ret>> /\ stack = <<>> /\ ret = Null
    BY <1>1 DEF EndExpression, Ready, Idle, tableVars, machineVars
  <2>. QED
    BY <2>1 DEF Now, Right, EntriesRight, StackRight, Den
<1>2. CASE Quit
  <2>1. DOMAIN computed' = {} /\ stack' = <<>> /\ ret' = Null
    BY <1>2 DEF Quit, Ready, Idle, Clear, NoEntries
  <2>. QED
    BY <2>1 DEF Right, EntriesRight, StackRight
<1>. QED
  BY <1>1, <1>2

----------------------------------------------------------------------------
\* An activation ends in a result, not in a null pointer.
LEMMA StillAtWork ==
  ASSUME MachineInv, ApplyStep \/ CofactorStep
  PROVE  ~Idle' /\ ~Idle
<1>1. stack # <<>>
  BY DEF ApplyStep, ApplyHit, ApplyTerminal, ApplySplit, ApplySecond, ApplyNullChild, ApplyBuild, Recurses,
       CofactorStep, CofactorTrivial, CofactorRootBar, CofactorLow, CofactorLeft, CofactorHigh,
       CofactorRight, CofactorJoin, DifferenceFirst, DifferenceSecond, DifferenceXor, ReturnJoined,
       SortSweep, SortFinish, Sorting, Entering, Resumed
<1>2. ASSUME NEW f, NEW callee, Call(f, callee) PROVE stack' # <<>>
  <2>1. DOMAIN stack' = 1 .. (Len(stack) + 1) /\ Len(stack) \in Nat
    BY <1>1, <1>2, CallPushes DEF MachineInv, StackInv
  <2>. QED
    BY <2>1
<1>3. ASSUME NEW n, Return(n), n # Null PROVE ret' # Null
  BY <1>3 DEF Return
<1>4. Null \notin Usable(heap)
  BY UsableNode DEF Null
<1>5. CASE ApplyStep
  <2>1. CASE ApplyHit
    <3>1. computed[CallKey] \in Usable(heap) /\ Return(computed[CallKey])
      BY <2>1 DEF ApplyHit, MachineInv, StoreInv, GoodComputed
    <3>. QED
      BY <1>1, <1>3, <1>4, <3>1 DEF Idle
  <2>2. CASE ApplyTerminal
    BY <1>1, <1>3, <2>2 DEF ApplyTerminal, Idle
  <2>3. CASE ApplyNullChild
    BY <1>1, <2>3 DEF ApplyNullChild, Idle
  <2>4. CASE \E first \in {"neg", "pos"} : ApplySplit(first) \/ ApplySecond(first)
    BY <1>1, <1>2, <2>4 DEF ApplySplit, ApplySecond, Idle
  <2>5. CASE ApplyBuild
    <3>. DEFINE neg == IF Top.a = Null THEN ret ELSE Top.a
                pos == IF Top.a = Null THEN Top.b ELSE ret
                n == IF Redundant(neg, pos) THEN neg ELSE FreshId
    <3>1. Return(n) /\ ret # Null
      BY <2>5 DEF ApplyBuild, Resumed
    <3>2. FreshId # Null
      BY FreshIdIsFree DEF MachineInv, StoreInv, Null
    <3>3. n # Null
      BY <3>1, <3>2
    <3>. HIDE DEF n
    <3>. QED
      BY <1>1, <1>3, <3>1, <3>3 DEF Idle
  <2>. QED
    BY <1>5, <2>1, <2>2, <2>3, <2>4, <2>5 DEF ApplyStep
<1>6. CASE CofactorStep
  <2>1. CASE CofactorTrivial
    <3>1. PICK n : n = (IF CofactorIsRoot THEN Child(Top.l, Top.op) ELSE Top.l) /\ Return(n)
      BY <2>1 DEF CofactorTrivial
    <3>2. Top.l \in Usable(heap)
      BY <1>1, TopFrame
    <3>3. n # Null
      BY <1>4, <3>1, <3>2, UsableNode DEF CofactorIsRoot, IsTerminal
    <3>. QED
      BY <1>1, <1>3, <3>1, <3>3 DEF Idle
  <2>2. CASE ReturnJoined
    BY <1>1, <1>3, <2>2 DEF ReturnJoined, Resumed, Idle
  <2>3. CASE SortFinish
    <3>1. Top.l # Null /\ Return(Top.l)
      BY <1>1, <1>4, <2>3, TopFrame DEF SortFinish
    <3>. QED
      BY <1>1, <1>3, <3>1 DEF Idle
  <2>4. CASE \/ CofactorRootBar \/ CofactorLow \/ CofactorLeft \/ CofactorHigh \/ CofactorRight \/ CofactorJoin
             \/ DifferenceXor \/ SortSweep
             \/ \E first \in {"neg", "pos"} : DifferenceFirst(first) \/ DifferenceSecond(first)
    <3>1. \E f, callee : Call(f, callee)
      BY <2>4 DEF CofactorRootBar, CofactorLow, CofactorLeft, CofactorHigh, CofactorRight, CofactorJoin,
           DifferenceXor, SortSweep, DifferenceFirst, DifferenceSecond
    <3>. QED
      BY <1>1, <1>2, <3>1 DEF Idle
  <2>. QED
    BY <1>6, <2>1, <2>2, <2>3, <2>4 DEF CofactorStep
<1>. QED
  BY <1>5, <1>6

\* What main holds fits what it waits for, after every step.
LEMMA ShapeKept ==
  ASSUME IInv, SessionShape, [Next]_vars
  PROVE  SessionShape'
<1>. DEFINE n == Len(vals)
<1>1. MachineInv /\ vals \in Seq(Nat) /\ n \in Nat
  BY DEF IInv, MachineInv, StackInv
<1>2. CASE (ApplyStep /\ UNCHANGED <<sortVars, sessionVars>>) \/ (CofactorStep /\ UNCHANGED sessionVars)
  <2>1. UNCHANGED <<vals, phase, req>>
    BY <1>2 DEF ApplyStep, ApplyHit, ApplyTerminal, ApplySplit, ApplySecond, ApplyNullChild, ApplyBuild,
         CofactorStep, CofactorTrivial, CofactorRootBar, CofactorLow, CofactorLeft,
         CofactorHigh, CofactorRight, CofactorJoin, DifferenceFirst, DifferenceSecond, DifferenceXor,
         ReturnJoined, SortSweep, SortFinish, CallUnchanged, sessionVars
  <2>2. ~Idle' /\ ~Idle
    BY <1>1, <1>2, StillAtWork
  <2>. QED
    BY <2>1, <2>2 DEF SessionShape, Uses
<1>3. CASE Deliver
  <2>1. /\ ~Idle /\ n >= Uses /\ stack = <<>> /\ ret # Null
        /\ vals' = Append(SubSeq(vals, 1, n - Uses), ret)
        /\ ret' = Null /\ stack' = <<>> /\ req' = NoRequest /\ phase' = phase
    BY <1>3 DEF Deliver, SessionShape, Idle, Uses
  <2>2. ret \in Nat
    BY <1>1, <2>1 DEF MachineInv, StackInv, Ref
  <2>3. vals' \in Seq(Nat) /\ Len(vals') = n - Uses + 1
    <3>1. n - Uses \in 0 .. n
      BY <1>1, <2>1 DEF Uses
    <3>. DEFINE m == n - Uses
    <3>2. SubSeq(vals, 1, m) \in Seq(Nat) /\ Len(SubSeq(vals, 1, m)) = m
      BY <1>1, <3>1, SubSeqProperties
    <3>. HIDE DEF m
    <3>3. m \in Nat
      BY <3>1 DEF m
    <3>4. vals' = Append(SubSeq(vals, 1, m), ret)
      BY <2>1 DEF m
    <3>5. vals' \in Seq(Nat) /\ Len(vals') = m + 1
      BY <2>2, <3>2, <3>3, <3>4
    <3>. QED
      BY <3>5 DEF m
  <2>4. phase # "done" /\ req # NoRequest
    BY <1>1, <2>1 DEF SessionShape, Uses
  <2>5. n >= (IF phase = "expr2" THEN 1 ELSE 0) + Uses /\ (phase = "menu" => n = Uses)
    BY <2>4 DEF SessionShape
  <2>6. Idle' /\ Uses' = 1
    BY <2>1 DEF Idle, Uses, NoRequest, Ops
  <2>. HIDE DEF n
  <2>7. Uses \in Nat
    BY DEF Uses
  <2>. QED
    BY <1>1, <2>1, <2>3, <2>4, <2>5, <2>6, <2>7 DEF SessionShape, n
<1>4. CASE EndExpression \/ MenuApply \/ Quit
  <2>1. /\ Idle /\ Idle' /\ req' = req
        /\ \/ phase' = "menu" /\ vals' = vals /\ n = 1
           \/ phase = "menu" /\ phase' = "expr2" /\ vals' = vals
           \/ phase' = "done" /\ vals' = <<>>
    BY <1>4 DEF EndExpression, MenuApply, Menu, Quit, Ready, Idle, tableVars, machineVars
  <2>2. req = NoRequest /\ Uses = 1 /\ Uses' = 1
    BY <2>1 DEF SessionShape, Uses, NoRequest, Ops
  <2>. QED
    BY <2>1, <2>2 DEF SessionShape
<1>5. CASE Stopped \/ UNCHANGED vars
  BY <1>5 DEF Stopped, vars, sessionVars, machineVars, SessionShape, Uses, Idle
<1>6. CASE ReadConstant \/ \E v \in Vars : ReadKnown(v) \/ ReadNew(v)
  <2>1. PICK x : /\ Idle /\ vals' = Append(vals, x) /\ UNCHANGED <<stack, ret, req, phase>>
                 /\ phase \in {"expr", "expr2"}
    BY <1>6 DEF ReadConstant, ReadKnown, ReadNew, Reading, Ready, Token
  <2>2. Len(vals') = n + 1
    BY <1>1, <2>1
  <2>3. Idle' /\ req = NoRequest
    BY <2>1 DEF Idle, SessionShape
  <2>. QED
    BY <1>1, <2>1, <2>2, <2>3 DEF SessionShape
<1>7. ASSUME NEW f, NEW q, Invoke(f, q), q # NoRequest, vals' = vals,
             n >= (IF phase' = "expr2" THEN 1 ELSE 0) + (IF q.op \in Ops THEN 2 ELSE 1),
             phase' = "menu" => n = (IF q.op \in Ops THEN 2 ELSE 1),
             phase' # "done"
      PROVE  SessionShape'
  <2>1. stack' # <<>> /\ req' = q
    BY <1>7 DEF Invoke
  <2>. QED
    BY <1>7, <2>1 DEF SessionShape, Uses, Idle
<1>8. CASE ReadNot \/ \E op \in {"and", "or"} : ReadBinary(op)
  <2>1. /\ vals' = vals /\ phase' = phase /\ phase \in {"expr", "expr2"}
        /\ Operands = IF phase = "expr2" THEN n - 1 ELSE n
    BY <1>8 DEF ReadNot, ReadBinary, Token, Reading, Ready, Operands
  <2>2. CASE ReadNot
    BY <1>1, <1>7, <2>1, <2>2 DEF ReadNot, NoRequest, Ops
  <2>3. ASSUME NEW op \in {"and", "or"}, ReadBinary(op) PROVE SessionShape'
    BY <1>1, <1>7, <2>1, <2>3 DEF ReadBinary, NoRequest, Ops
  <2>. QED
    BY <1>8, <2>2, <2>3
<1>9. CASE Command /\ ~MenuApply
  <2>1. CASE \E op \in Ops : ApplyToSecond(op)
    <3>1. n = 2 /\ phase' = "menu" /\ vals' = vals
      BY <1>1, <2>1 DEF ApplyToSecond, Operands, Ready
    <3>2. PICK op, f : op \in Ops /\ Invoke(f, [op |-> op, var |-> NoVar])
      BY <2>1 DEF ApplyToSecond
    <3>. QED
      BY <1>7, <3>1, <3>2 DEF NoRequest, Ops
  <2>2. CASE ~\E op \in Ops : ApplyToSecond(op)
    <3>1. phase = "menu" /\ phase' = phase /\ vals' = vals /\ Idle
      BY <1>9, <2>2 DEF Command, MenuCofactor, MenuDifference, MenuSort, Menu, Ready
    <3>2. n = 1
      BY <3>1 DEF SessionShape, Uses, NoRequest, Ops
    <3>3. \E f, q : Invoke(f, q) /\ q # NoRequest /\ q.op \notin Ops
      <4>1. CASE \E v \in Vars : \E op \in {"neg", "pos"} : MenuCofactor(op, v)
        BY <4>1 DEF MenuCofactor, NoRequest, Ops
      <4>2. CASE \E v \in Vars : MenuDifference(v)
        BY <4>2 DEF MenuDifference, NoRequest, Ops
      <4>3. CASE MenuSort
        BY <4>3 DEF MenuSort, NoRequest, Ops
      <4>. QED
        BY <1>9, <2>2, <4>1, <4>2, <4>3 DEF Command
    <3>. QED
      BY <1>7, <3>1, <3>2, <3>3
  <2>. QED
    BY <2>1, <2>2
<1>. QED
  BY <1>2, <1>3, <1>4, <1>5, <1>6, <1>8, <1>9 DEF Next, Compute, Typed, ReadToken, Command

----------------------------------------------------------------------------
\* Every step, as long as no stale entry is returned.
LEMMA StepRight ==
  ASSUME IInv, Acyclic, SessionShape, tainted \/ (OInv /\ Right), [Next]_vars, ~tainted'
  PROVE  Right' /\ Returned
<1>1. Steps /\ ~tainted
  BY StepGood, TaintStays DEF Steps, IInv
<1>2. Now
  BY <1>1 DEF Now
<1>3. CASE Compute
  BY <1>2, <1>3, ComputeRight
<1>4. CASE Typed
  <2>1. Right'
    BY <1>2, <1>4, ReadRight, CommandRight, QuitRight DEF Typed
  <2>2. stack = <<>> /\ Len(stack') \in Nat
    <3>1. stack' \in Seq(Frame)
      BY <1>1 DEF Steps, MachineInv, StackInv
    <3>2. stack = <<>>
      BY <1>4 DEF Typed, ReadToken, ReadConstant, ReadKnown, ReadNew, ReadNot, ReadBinary, Reading, Ready, Idle,
           EndExpression, Command, MenuCofactor, MenuDifference, MenuSort, MenuApply, ApplyToSecond, Menu, Quit
    <3>. QED
      BY <3>1, <3>2
  <2>. QED
    BY <2>1, <2>2 DEF Returned
<1>5. CASE Stopped \/ UNCHANGED vars
  <2>1. UNCHANGED <<heap, computed, doomed, stack, ret, vals, req>>
    BY <1>5 DEF Stopped, vars, tableVars, machineVars, sessionVars
  <2>2. stack \in Seq(Frame) /\ Len(stack) \in Nat
    BY <1>1 DEF Steps, MachineInv, StackInv
  <2>. QED
    BY <1>2, <2>1, <2>2 DEF Now, Right, EntriesRight, StackRight, Den, Top, AnswerDue, Returned
<1>. QED
  BY <1>3, <1>4, <1>5 DEF Next

\* The invariant of the theorems below.
MeaningInv == SessionShape /\ (tainted \/ (OInv /\ Right))

\* It holds of every run: with IInv and Acyclic it is inductive.
LEMMA MeaningInvariant == Spec => [](IInv /\ Acyclic /\ MeaningInv)
<1>1. Init => MeaningInv
  <2>. SUFFICES ASSUME Init PROVE MeaningInv
    OBVIOUS
  <2>1. OInv
    BY DEF Init, TablesInit, OInv, OrderedHeap, OrderedEntries, OrderedStack, NoEntries
  <2>2. Right
    BY DEF Init, TablesInit, Right, EntriesRight, StackRight, NoEntries
  <2>3. SessionShape
    BY DEF Init, SessionShape, Uses, Idle, NoRequest, Ops
  <2>. QED
    BY <2>1, <2>2, <2>3 DEF MeaningInv
<1>2. IInv /\ Acyclic /\ MeaningInv /\ [Next]_vars => MeaningInv'
  BY StepRight, StepOrdered, ShapeKept DEF MeaningInv
<1>. QED
  BY <1>1, <1>2, Invariance, NodesAcyclic, PTL DEF Spec

\* apply, the cofactors, boolean_difference and sort_by_influence
\* (project1.cpp:37-166) return BDDs of the functions they are asked for,
\* whatever is reused, duplicated or deleted on the way.
THEOREM FunctionsAreRight == Spec => ReturnsMeaning
<1>1. IInv /\ Acyclic /\ MeaningInv /\ [Next]_vars
        => [(Len(stack') < Len(stack) /\ ~tainted') => Den(ret)' = Meaning(Top)]_vars
  <2>1. \A f : Meaning(f) = MeaningIn(heap, f)
    BY DEF Meaning, MeaningIn, Den
  <2>. QED
    BY <2>1, StepRight DEF MeaningInv, Returned
<1>. QED
  BY <1>1, MeaningInvariant, PTL DEF Spec, ReturnsMeaning

----------------------------------------------------------------------------
(* The calculator *)

\* project1 implements BoolCalc: the pointers main and bdd_from_expr hold stand
\* for the functions the calculator holds, and every step is one of its steps or
\* a stutter, until a lookup returns a doomed entry.

\* The functions of the pointers held outside apply, as Calc sees them.
FVals == [i \in DOMAIN vals |-> Den(vals[i])]

\* A sequence of pointers, seen as one of functions.
LEMMA FunctionsHeld ==
  ASSUME NEW s \in Seq(Nat), NEW d, NEW F, F = [i \in DOMAIN s |-> d[s[i]]],
         NEW S, \A n \in Nat : d[n] \in S
  PROVE  /\ F \in Seq(S) /\ Len(F) = Len(s)
         /\ \A j \in 1 .. Len(s) : F[j] = d[s[j]]
<1>1. Len(s) \in Nat /\ DOMAIN s = 1 .. Len(s) /\ \A i \in 1 .. Len(s) : s[i] \in Nat
  BY LenProperties, ElementOfSeq
<1>2. F \in [1 .. Len(s) -> S]
  BY <1>1
<1>3. \A j \in 1 .. Len(s) : F[j] = d[s[j]]
  BY <1>1
<1>4. F \in Seq(S)
  BY <1>1, <1>2, SeqDef
<1>5. DOMAIN F = 1 .. Len(s)
  BY <1>2
<1>6. Len(F) = Len(s)
  BY <1>1, <1>4, <1>5, LenProperties
<1>. QED
  BY <1>3, <1>4, <1>6

\* The same of what is held before and after a step.
LEMMA HeldTyped ==
  ASSUME MachineInv, NEW S, \A n \in Nat : Den(n) \in S
  PROVE  /\ vals \in Seq(Nat) /\ FVals \in Seq(S) /\ Len(FVals) = Len(vals)
         /\ Len(vals) \in Nat
         /\ \A j \in 1 .. Len(vals) : FVals[j] = Den(vals[j])
<1>. DEFINE d == Denotation(heap)
<1>1. vals \in Seq(Nat) /\ Len(vals) \in Nat
  BY LenProperties DEF MachineInv, StackInv
<1>2. FVals = [i \in DOMAIN vals |-> d[vals[i]]]
  BY DEF FVals, Den
<1>. HIDE DEF d
<1>3. \A n \in Nat : d[n] \in S
  BY DEF d, Den
<1>4. FVals \in Seq(S) /\ Len(FVals) = Len(vals) /\ \A j \in 1 .. Len(vals) : FVals[j] = d[vals[j]]
  BY <1>1, <1>2, <1>3, FunctionsHeld
<1>. QED
  BY <1>1, <1>4 DEF d, Den

\* The same after a step.
LEMMA HeldTypedNext ==
  ASSUME MachineInv', NEW S, \A n \in Nat : Denotation(heap')[n] \in S
  PROVE  /\ vals' \in Seq(Nat) /\ FVals' \in Seq(S) /\ Len(FVals') = Len(vals')
         /\ Len(vals') \in Nat
         /\ \A j \in 1 .. Len(vals') : FVals'[j] = Denotation(heap')[vals'[j]]
<1>. DEFINE d == Denotation(heap')
<1>1. vals' \in Seq(Nat) /\ Len(vals') \in Nat
  BY LenProperties DEF MachineInv, StackInv
<1>2. FVals' = [i \in DOMAIN vals' |-> d[vals'[i]]]
  BY DEF FVals, Den
<1>. HIDE DEF d
<1>3. FVals' \in Seq(S) /\ Len(FVals') = Len(vals') /\ \A j \in 1 .. Len(vals') : FVals'[j] = d[vals'[j]]
  BY <1>1, <1>2, FunctionsHeld DEF d
<1>. QED
  BY <1>1, <1>3 DEF d

\* The pointers a step leaves in place mean what they meant.
LEMMA HeldMean ==
  ASSUME Steps, Acyclic
  PROVE  /\ \A i \in 1 .. Len(vals), j \in 1 .. Len(vals') :
              vals'[j] = vals[i] => FVals'[j] = FVals[i]
         /\ \A i \in 1 .. Len(vals) : vals[i] \in DOMAIN heap
         /\ \A j \in 1 .. Len(vals') : vals'[j] \in DOMAIN heap'
<1>. DEFINE S == {Den(n) : n \in Nat} \cup {Denotation(heap')[n] : n \in Nat}
<1>0. \A n \in Nat : Den(n) \in S /\ Denotation(heap')[n] \in S
  OBVIOUS
<1>. HIDE DEF S
<1>1. /\ vals \in Seq(Nat) /\ vals' \in Seq(Nat)
      /\ \A j \in 1 .. Len(vals) : FVals[j] = Den(vals[j])
      /\ \A j \in 1 .. Len(vals') : FVals'[j] = Denotation(heap')[vals'[j]]
  BY <1>0, HeldTyped, HeldTypedNext DEF Steps
<1>2. \A i \in 1 .. Len(vals) : vals[i] \in DOMAIN heap
  BY <1>1 DEF Steps, MachineInv, LocalsInv, Locals, Usable, Range
<1>3. ASSUME NEW j \in 1 .. Len(vals') PROVE vals'[j] \in DOMAIN heap'
  <2>1. vals'[j] \in Locals'
    BY <1>1 DEF Locals, Range
  <2>. QED
    BY <2>1 DEF Steps, MachineInv, LocalsInv, Usable
<1>4. ASSUME NEW i \in 1 .. Len(vals), NEW j \in 1 .. Len(vals'), vals'[j] = vals[i]
      PROVE  FVals'[j] = FVals[i]
  <2>1. vals[i] \in DOMAIN heap /\ vals[i] \in DOMAIN heap'
    BY <1>2, <1>3, <1>4
  <2>2. Denotation(heap')[vals[i]] = Den(vals[i])
    BY <2>1, DenotationKept DEF Den
  <2>. QED
    BY <1>1, <1>4, <2>2
<1>. QED
  BY <1>2, <1>3, <1>4

\* While the pointers stay, so do their functions.
LEMMA HeldStay ==
  ASSUME Steps, Acyclic, vals' = vals
  PROVE  FVals' = FVals
<1>. DEFINE S == {Den(n) : n \in Nat} \cup {Denotation(heap')[n] : n \in Nat}
<1>0. \A n \in Nat : Den(n) \in S /\ Denotation(heap')[n] \in S
  OBVIOUS
<1>. HIDE DEF S
<1>1. /\ FVals \in Seq(S) /\ FVals' \in Seq(S) /\ Len(FVals) = Len(vals) /\ Len(FVals') = Len(vals)
  BY <1>0, HeldTyped, HeldTypedNext DEF Steps
<1>2. \A j \in 1 .. Len(vals) : FVals'[j] = FVals[j]
  BY HeldMean
<1>. QED
  BY <1>1, <1>2, SeqEqual

\* One pointer more, in the place of those above the first k.
LEMMA HeldReplaced ==
  ASSUME Steps, Acyclic, NEW k \in 0 .. Len(vals), NEW n \in Nat,
         vals' = Append(SubSeq(vals, 1, k), n)
  PROVE  /\ Len(FVals) = Len(vals) /\ Len(FVals') = k + 1
         /\ FVals'[k + 1] = Denotation(heap')[n]
         /\ SubSeq(FVals', 1, k) = SubSeq(FVals, 1, k)
         /\ k = Len(vals) => FVals' = Append(FVals, Denotation(heap')[n])
<1>. DEFINE S == {Den(m) : m \in Nat} \cup {Denotation(heap')[m] : m \in Nat}
            d == Denotation(heap')
            x == d[n]
<1>1. (\A m \in Nat : Den(m) \in S /\ Denotation(heap')[m] \in S) /\ x \in S
  OBVIOUS
<1>. HIDE DEF S
<1>2. /\ vals \in Seq(Nat) /\ FVals \in Seq(S) /\ Len(FVals) = Len(vals) /\ Len(vals) \in Nat
      /\ vals' \in Seq(Nat) /\ FVals' \in Seq(S) /\ Len(FVals') = Len(vals')
      /\ \A j \in 1 .. Len(vals') : FVals'[j] = d[vals'[j]]
  BY <1>1, HeldTyped, HeldTypedNext DEF Steps
<1>3. k \in Nat /\ k <= Len(vals)
  BY <1>2
<1>. DEFINE t == SubSeq(vals, 1, k)
<1>4. t \in Seq(Nat) /\ Len(t) = k /\ \A j \in 1 .. k : t[j] = vals[j]
  BY <1>2, <1>3, SubSeqProperties
<1>5. vals' = Append(t, n)
  OBVIOUS
<1>. HIDE DEF t, d
<1>6. Len(vals') = k + 1 /\ vals'[k + 1] = n /\ \A j \in 1 .. k : vals'[j] = t[j]
  BY <1>3, <1>4, <1>5, AppendProperties
<1>7. Len(FVals') = k + 1 /\ FVals'[k + 1] = x
  BY <1>2, <1>3, <1>6
<1>8. \A j \in 1 .. k : FVals'[j] = FVals[j]
  <2>1. \A j \in 1 .. k : j \in 1 .. Len(vals) /\ j \in 1 .. Len(vals') /\ vals'[j] = vals[j]
    BY <1>2, <1>3, <1>4, <1>6
  <2>. QED
    BY <2>1, HeldMean
<1>. HIDE DEF x
<1>9. SubSeq(FVals', 1, k) = SubSeq(FVals, 1, k)
  <2>. DEFINE p == SubSeq(FVals', 1, k)
              q == SubSeq(FVals, 1, k)
  <2>1. p \in Seq(S) /\ Len(p) = k /\ \A j \in 1 .. k : p[j] = FVals'[j]
    BY <1>2, <1>3, <1>7, SubSeqProperties
  <2>2. q \in Seq(S) /\ Len(q) = k /\ \A j \in 1 .. k : q[j] = FVals[j]
    BY <1>2, <1>3, SubSeqProperties
  <2>. HIDE DEF p, q
  <2>3. p = q
    BY <1>8, <2>1, <2>2, SeqEqual
  <2>. QED
    BY <2>3 DEF p, q
<1>10. ASSUME k = Len(vals) PROVE FVals' = Append(FVals, x)
  <2>. DEFINE q == Append(FVals, x)
  <2>1. q \in Seq(S) /\ Len(q) = k + 1 /\ q[k + 1] = x /\ \A j \in 1 .. k : q[j] = FVals[j]
    BY <1>1, <1>2, <1>3, <1>10, AppendProperties
  <2>. HIDE DEF q
  <2>2. \A j \in 1 .. k + 1 : FVals'[j] = q[j]
    BY <1>3, <1>7, <1>8, <2>1
  <2>3. FVals' = q
    BY <1>2, <1>7, <2>1, <2>2, SeqEqual
  <2>. QED
    BY <2>3 DEF q
<1>. QED
  BY <1>2, <1>7, <1>9, <1>10 DEF x, d

\* The literal a variable is read as.
LEMMA LiteralRead ==
  ASSUME Steps, NEW v \in Vars, ReadKnown(v) \/ ReadNew(v)
  PROVE  \E n \in Nat \ {Zero, One} :
           /\ vals' = Append(vals, n)
           /\ n \in DOMAIN heap' => heap'[n].var = v /\ heap'[n].neg = Zero /\ heap'[n].pos = One
<1>1. GoodHeap(heap) /\ GoodIds(heap, freeIds, idCtr) /\ GoodUnique(heap, unique)
  BY DEF Steps, MachineInv, StoreInv
<1>2. CASE ReadKnown(v)
  <2>. DEFINE n == FindUnique(v, Zero, One)
  <2>1. n # Null /\ vals' = Append(vals, n)
    BY <1>2 DEF ReadKnown
  <2>2. n \in DOMAIN heap /\ heap[n].var = v /\ heap[n].neg = Zero /\ heap[n].pos = One
    BY <1>1, <2>1 DEF FindUnique, Triple, GoodUnique
  <2>3. n \in Nat \ {Zero, One}
    BY <1>1, <2>2 DEF GoodHeap, Zero, Null
  <2>. HIDE DEF n
  <2>. QED
    BY <2>1, <2>2, <2>3 DEF Steps, Agree
<1>3. CASE ReadNew(v)
  <2>. DEFINE h == NewNode(v, Zero, One, Average(Zero, One))
              n == FreshId
  <2>1. vals' = Append(vals, n) /\ Release(h, Pool \ {FreshId}, doomed)
    BY <1>3 DEF ReadNew
  <2>2. h[n].var = v /\ h[n].neg = Zero /\ h[n].pos = One
    BY DEF NewNode, Put
  <2>3. n \in Nat \ {Zero, One}
    BY <1>1, FreshIdIsFree DEF GoodHeap, Usable
  <2>. HIDE DEF h, n
  <2>4. \A m \in DOMAIN heap' : heap'[m] = h[m]
    BY <2>1, ReleaseShrinks
  <2>. QED
    BY <2>1, <2>2, <2>3, <2>4
<1>. QED
  BY <1>2, <1>3

\* A variable or a constant.
LEMMA ReadRefines ==
  ASSUME Steps, Acyclic, SessionShape,
         ReadConstant \/ \E v \in Vars : ReadKnown(v) \/ ReadNew(v)
  PROVE  Calc!Push
<1>. DEFINE d == Denotation(heap')
            Read == {{}, Assignments} \cup {With(v) : v \in Vars}
            k == Len(vals)
<1>1. GoodHeap(heap') /\ d[Zero] = {} /\ d[One] = Assignments
  BY NodeDenotes DEF Steps, MachineInv, StoreInv
<1>2. vals \in Seq(Nat) /\ k \in Nat /\ SubSeq(vals, 1, k) = vals
  <2>1. vals \in Seq(Nat)
    BY DEF Steps, MachineInv, StackInv
  <2>. QED
    BY <2>1, LenProperties
<1>3. ASSUME NEW n \in Nat, vals' = Append(vals, n)
      PROVE  n \in DOMAIN heap' /\ FVals' = Append(FVals, d[n])
  <2>1. Len(vals') = k + 1 /\ vals'[k + 1] = n /\ k + 1 \in 1 .. Len(vals')
    BY <1>2, <1>3, AppendProperties
  <2>2. n \in DOMAIN heap'
    BY <2>1, HeldMean
  <2>3. vals' = Append(SubSeq(vals, 1, k), n) /\ k \in 0 .. Len(vals)
    BY <1>2, <1>3
  <2>. HIDE DEF k, d
  <2>4. k = Len(vals) => FVals' = Append(FVals, Denotation(heap')[n])
    BY <2>3, HeldReplaced
  <2>. QED
    BY <2>2, <2>4 DEF k, d
<1>. HIDE DEF k, d
<1>4. \E F \in Read : FVals' = Append(FVals, F)
  <2>1. CASE ReadConstant
    <3>1. PICK n \in {Zero, One} : vals' = Append(vals, n)
      BY <2>1 DEF ReadConstant
    <3>2. n \in Nat /\ d[n] \in Read
      BY <1>1 DEF Zero, One
    <3>. QED
      BY <1>3, <3>1, <3>2
  <2>2. ASSUME NEW v \in Vars, ReadKnown(v) \/ ReadNew(v)
        PROVE  \E F \in Read : FVals' = Append(FVals, F)
    <3>1. PICK n \in Nat \ {Zero, One} :
            /\ vals' = Append(vals, n)
            /\ n \in DOMAIN heap' => heap'[n].var = v /\ heap'[n].neg = Zero /\ heap'[n].pos = One
      BY <2>2, LiteralRead
    <3>2. n \in DOMAIN heap' /\ FVals' = Append(FVals, d[n])
      BY <1>3, <3>1
    <3>3. d[n] = With(v)
      <4>1. d[n] \subseteq Assignments
        BY <1>1, <3>2, NodeDenotes DEF d
      <4>2. ASSUME NEW s \in Assignments PROVE s \in d[n] <=> v \in s
        <5>1. s \in d[n] <=> s \in d[IF v \in s THEN One ELSE Zero]
          BY <1>1, <3>1, <3>2, NodeDenotes DEF d
        <5>. QED
          BY <1>1, <5>1
      <4>. QED
        BY <4>1, <4>2 DEF With
    <3>. QED
      BY <3>2, <3>3
  <2>. QED
    BY <2>1, <2>2
<1>5. /\ phase \in {"expr", "expr2"} /\ Idle /\ UNCHANGED <<phase, req, tainted>>
  BY DEF ReadConstant, ReadKnown, ReadNew, Reading, Ready, Token
<1>6. req = NoRequest
  BY <1>5 DEF SessionShape
<1>7. Read = {{}, Calc!Assignments} \cup {{s \in Calc!Assignments : v \in s} : v \in Vars}
  BY DEF Assignments, Calc!Assignments, With
<1>. HIDE DEF Read
<1>. QED
  BY <1>4, <1>5, <1>6, <1>7 DEF Calc!Push, Calc!Nothing, NoRequest, NoVar, FVals

\* An operator of an expression, or a command that calls.
LEMMA AskRefines ==
  ASSUME Steps, Acyclic, SessionShape,
         ReadNot \/ (\E op \in {"and", "or"} : ReadBinary(op)) \/ (Command /\ ~MenuApply)
  PROVE  Calc!Ask
<1>1. /\ Idle /\ vals' = vals /\ tainted' = tainted
      /\ \/ phase \in {"expr", "expr2"} /\ phase' = phase
            /\ req' \in [op : {"not", "and", "or"}, var : {0}]
         \/ phase = "menu" /\ phase' = phase
            /\ req' \in [op : {"neg", "pos", "diff"}, var : Vars] \cup [op : {"sort"}, var : {0}]
         \/ phase = "expr2" /\ phase' = "menu" /\ Operands = 1 /\ req' \in [op : Ops, var : {0}]
  <2>1. CASE ReadNot
    BY <2>1 DEF ReadNot, Reading, Ready, Token, Invoke, NoVar
  <2>2. ASSUME NEW op \in {"and", "or"}, ReadBinary(op)
        PROVE  /\ Idle /\ vals' = vals /\ tainted' = tainted
               /\ phase \in {"expr", "expr2"} /\ phase' = phase
               /\ req' \in [op : {"not", "and", "or"}, var : {0}]
    BY <2>2 DEF ReadBinary, Reading, Ready, Token, Invoke, NoVar
  <2>3. ASSUME NEW op \in Ops, ApplyToSecond(op)
        PROVE  /\ Idle /\ vals' = vals /\ tainted' = tainted
               /\ phase = "expr2" /\ phase' = "menu" /\ Operands = 1 /\ req' \in [op : Ops, var : {0}]
    BY <2>3 DEF ApplyToSecond, Ready, Invoke, NoVar
  <2>4. ASSUME NEW v \in Vars, NEW op \in {"neg", "pos"}, MenuCofactor(op, v)
        PROVE  /\ Idle /\ vals' = vals /\ tainted' = tainted /\ phase = "menu" /\ phase' = phase
               /\ req' \in [op : {"neg", "pos", "diff"}, var : Vars]
    BY <2>4 DEF MenuCofactor, Menu, Ready, Invoke
  <2>5. ASSUME NEW v \in Vars, MenuDifference(v)
        PROVE  /\ Idle /\ vals' = vals /\ tainted' = tainted /\ phase = "menu" /\ phase' = phase
               /\ req' \in [op : {"neg", "pos", "diff"}, var : Vars]
    BY <2>5 DEF MenuDifference, Menu, Ready, Invoke
  <2>6. CASE MenuSort
    BY <2>6 DEF MenuSort, Menu, Ready, Invoke, NoVar
  <2>. QED
    BY <2>1, <2>2, <2>3, <2>4, <2>5, <2>6 DEF Command
<1>2. req = NoRequest /\ FVals' = FVals
  BY <1>1, HeldStay DEF SessionShape
<1>3. phase = "expr2" /\ Operands = 1 => Len(FVals) = 2
  <2>1. vals \in Seq(Nat) /\ Len(vals) \in Nat
    BY DEF Steps, MachineInv, StackInv
  <2>2. \A n \in Nat : Den(n) \in {Den(m) : m \in Nat}
    OBVIOUS
  <2>3. Len(FVals) = Len(vals)
    BY <2>2, HeldTyped DEF Steps
  <2>4. ASSUME phase = "expr2", Operands = 1 PROVE Len(vals) = 2
    BY <2>1, <2>4 DEF Operands
  <2>. QED
    BY <2>3, <2>4
<1>. QED
  BY <1>1, <1>2, <1>3 DEF Calc!Ask, Calc!Nothing, Calc!OnVariable, Calc!Binary, NoRequest, NoVar, Ops, FVals

\* The result of a call: the function that was asked for.
LEMMA DeliverRefines ==
  ASSUME Steps, Acyclic, SessionShape, tainted \/ Right, Deliver
  PROVE  Calc!Reply
<1>. DEFINE k == Len(vals) - Uses
            n == Len(FVals)
<1>1. /\ stack = <<>> /\ ret # Null /\ req' = NoRequest /\ UNCHANGED <<phase, tainted>>
      /\ vals' = Append(SubSeq(vals, 1, k), ret)
  BY DEF Deliver, Uses
<1>2. ~Idle /\ req # NoRequest /\ Len(vals) >= Uses
  <2>1. ~Idle
    BY <1>1 DEF Idle
  <2>2. vals \in Seq(Nat) /\ Len(vals) \in Nat
    BY DEF Steps, MachineInv, StackInv
  <2>. QED
    BY <2>1, <2>2 DEF SessionShape, Uses
<1>3. Uses \in {1, 2} /\ Len(vals) \in Nat /\ k \in 0 .. Len(vals) /\ vals \in Seq(Nat)
  <2>1. vals \in Seq(Nat) /\ Len(vals) \in Nat
    BY DEF Steps, MachineInv, StackInv
  <2>. QED
    BY <1>2, <2>1 DEF Uses
<1>4. ret \in Nat /\ ret \in DOMAIN heap
  <2>1. ret \in Ref /\ ret \in Locals
    BY <1>1 DEF Steps, MachineInv, StackInv, Locals
  <2>. QED
    BY <1>1, <2>1 DEF Ref, Steps, MachineInv, LocalsInv, Usable
<1>. HIDE DEF k
<1>5. /\ Len(FVals) = Len(vals) /\ Len(FVals') = k + 1
      /\ FVals'[k + 1] = Denotation(heap')[ret]
      /\ SubSeq(FVals', 1, k) = SubSeq(FVals, 1, k)
  BY <1>1, <1>3, <1>4, HeldReplaced
<1>6. ~tainted => FVals'[k + 1] = Calc!Answer(req, FVals[k + 1], FVals[n])
  <2>. SUFFICES ASSUME ~tainted PROVE FVals'[k + 1] = Calc!Answer(req, FVals[k + 1], FVals[n])
    OBVIOUS
  <2>1. Den(ret) = AnswerDue(heap)
    BY <1>1 DEF Right, StackRight
  <2>2. /\ k + 1 \in 1 .. Len(vals) /\ Len(vals) \in 1 .. Len(vals) /\ k + 1 = Len(vals) - Uses + 1
    BY <1>2, <1>3 DEF k
  <2>3. AnswerDue(heap) = Calc!Answer(req, Den(vals[k + 1]), Den(vals[Len(vals)]))
    BY <2>2 DEF AnswerDue, Uses, Den
  <2>4. FVals[k + 1] = Den(vals[k + 1]) /\ FVals[n] = Den(vals[Len(vals)])
    <3>1. \A m \in Nat : Den(m) \in {Den(l) : l \in Nat}
      OBVIOUS
    <3>. QED
      BY <1>5, <2>2, <3>1, HeldTyped DEF Steps
  <2>5. Denotation(heap')[ret] = Den(ret)
    <3>1. k + 1 \in 1 .. Len(vals') /\ vals'[k + 1] = ret
      <4>1. SubSeq(vals, 1, k) \in Seq(Nat) /\ Len(SubSeq(vals, 1, k)) = k
        BY <1>3, SubSeqProperties
      <4>. QED
        BY <1>1, <1>3, <1>4, <4>1, AppendProperties
    <3>2. ret \in DOMAIN heap'
      BY <3>1, HeldMean
    <3>. QED
      BY <1>4, <3>2, DenotationKept DEF Den
  <2>. QED
    BY <1>5, <2>1, <2>3, <2>4, <2>5
<1>7. k = n - Uses /\ n >= Uses /\ n \in Nat
  BY <1>2, <1>3, <1>5 DEF k
<1>8. Uses = IF req.op \in Calc!Binary THEN 2 ELSE 1
  BY DEF Uses, Ops, Calc!Binary
<1>9. Calc!Reply <=>
        /\ req # NoRequest
        /\ n >= Uses /\ Len(FVals') = n - Uses + 1
        /\ SubSeq(FVals', 1, n - Uses) = SubSeq(FVals, 1, n - Uses)
        /\ ~tainted => FVals'[n - Uses + 1] = Calc!Answer(req, FVals[n - Uses + 1], FVals[n])
        /\ req' = NoRequest /\ UNCHANGED <<phase, ~tainted>>
  BY <1>8 DEF Calc!Reply, Calc!Nothing, NoRequest, NoVar, FVals
<1>. HIDE DEF n
<1>. QED
  BY <1>1, <1>2, <1>5, <1>6, <1>7, <1>9

\* The end of an expression, the command 'a' and the command 'q'.
LEMMA TurnRefines ==
  ASSUME Steps, Acyclic, SessionShape, EndExpression \/ MenuApply \/ Quit
  PROVE  Calc!Turn
<1>1. /\ Idle /\ UNCHANGED <<req, tainted>>
      /\ \/ phase = "expr" /\ phase' = "menu" /\ Len(vals) = 1 /\ vals' = vals
         \/ phase = "menu" /\ phase' = "expr2" /\ vals' = vals
         \/ phase = "menu" /\ phase' = "done" /\ vals' = <<>>
  BY DEF EndExpression, MenuApply, Menu, Quit, Ready, tableVars, machineVars
<1>2. req = NoRequest
  BY <1>1 DEF SessionShape
<1>3. vals' = vals => FVals' = FVals
  BY HeldStay
<1>4. Len(FVals) = Len(vals)
  <2>1. \A n \in Nat : Den(n) \in {Den(m) : m \in Nat}
    OBVIOUS
  <2>. QED
    BY <2>1, HeldTyped DEF Steps
<1>5. vals' = <<>> => FVals' = <<>>
  <2>. SUFFICES ASSUME vals' = <<>> PROVE FVals' = <<>>
    OBVIOUS
  <2>. DEFINE S == {Denotation(heap')[m] : m \in Nat}
  <2>1. \A n \in Nat : Denotation(heap')[n] \in S
    OBVIOUS
  <2>. HIDE DEF S
  <2>2. FVals' \in Seq(S) /\ Len(FVals') = 0
    BY <2>1, HeldTypedNext DEF Steps
  <2>. QED
    BY <2>2, EmptySeq
<1>. QED
  BY <1>1, <1>2, <1>3, <1>4, <1>5 DEF Calc!Turn, Calc!Nothing, NoRequest, NoVar, FVals

\* Every step is one of the calculator, or invisible to it.
LEMMA StepRefines ==
  ASSUME IInv, Acyclic, MeaningInv, [Next]_vars
  PROVE  [Calc!Next]_Calc!calcVars
<1>1. Steps /\ SessionShape /\ (tainted \/ Right)
  BY StepGood DEF Steps, IInv, MeaningInv
<1>2. ASSUME UNCHANGED <<phase, req, vals>> PROVE [Calc!Next]_Calc!calcVars
  <2>1. FVals' = FVals
    BY <1>1, <1>2, HeldStay
  <2>2. tainted \in BOOLEAN /\ tainted' \in BOOLEAN
    BY StepGood DEF IInv, SessionInv
  <2>3. CASE tainted'
    BY <1>2, <2>1, <2>3 DEF Calc!Next, Calc!Spoil, FVals
  <2>4. CASE ~tainted'
    <3>1. ~tainted
      BY <2>4, TaintStays
    <3>. QED
      BY <1>2, <2>1, <2>4, <3>1 DEF Calc!calcVars, FVals
  <2>. QED
    BY <2>3, <2>4
<1>3. CASE Deliver
  BY <1>1, <1>3, DeliverRefines DEF Calc!Next
<1>4. CASE (ApplyStep /\ UNCHANGED <<sortVars, sessionVars>>) \/ (CofactorStep /\ UNCHANGED sessionVars)
  <2>1. UNCHANGED <<vals, phase, req>>
    BY <1>4 DEF ApplyStep, ApplyHit, ApplyTerminal, ApplySplit, ApplySecond, ApplyNullChild, ApplyBuild,
         CofactorStep, CofactorTrivial, CofactorRootBar, CofactorLow, CofactorLeft,
         CofactorHigh, CofactorRight, CofactorJoin, DifferenceFirst, DifferenceSecond, DifferenceXor,
         ReturnJoined, SortSweep, SortFinish, CallUnchanged, sessionVars
  <2>. QED
    BY <1>2, <2>1
<1>5. CASE ReadToken
  BY <1>1, <1>5, ReadRefines, AskRefines DEF ReadToken, Calc!Next
<1>6. CASE Command \/ EndExpression \/ Quit
  BY <1>1, <1>6, AskRefines, TurnRefines DEF Calc!Next
<1>7. CASE Stopped \/ UNCHANGED vars
  BY <1>2, <1>7 DEF Stopped, vars, machineVars, sessionVars
<1>. QED
  BY <1>3, <1>4, <1>5, <1>6, <1>7 DEF Next, Compute, Typed

\* project1 implements the calculator: whatever its user types, every answer is
\* the function asked for, and what is held meanwhile keeps its meaning, until a
\* lookup meets a stale entry of the computed table.
THEOREM CalculatorImplemented == Spec => ImplementsCalculator
<1>1. Init => Calc!Init
  <2>. SUFFICES ASSUME Init PROVE Calc!Init
    OBVIOUS
  <2>1. vals = <<>> /\ phase = "expr" /\ req = NoRequest /\ tainted = FALSE
    BY DEF Init, TablesInit
  <2>2. [i \in DOMAIN vals |-> Den(vals[i])] = <<>>
    BY <2>1
  <2>. QED
    BY <2>1, <2>2 DEF Calc!Init, Calc!Nothing, NoRequest, NoVar
<1>. QED
  BY <1>1, StepRefines, MeaningInvariant, PTL DEF Spec, ImplementsCalculator, Calc!Spec

----------------------------------------------------------------------------
(* Probabilities are the shares of the satisfying assignments, constant     *)
(* functions are the terminals, and sort_by_influence ranks the variables   *)
(* of its argument by the probabilities of their differences.               *)
(*                                                                          *)
(* The argument counts: the assignments that satisfy a node are, by the     *)
(* order along paths, half of those that satisfy either child.              *)

\* A child of a node does not depend on the variable of the node.
LEMMA ChildrenIndependent ==
  ASSUME MachineInv, Acyclic, OrderedHeap, NEW n \in DOMAIN heap \ {Zero, One}
  PROVE  /\ heap[n].var \in Vars
         /\ Independent(Den(heap[n].neg), heap[n].var) /\ Independent(Den(heap[n].pos), heap[n].var)
<1>1. heap[n].var \in Vars /\ heap[n].neg \in DOMAIN heap /\ heap[n].pos \in DOMAIN heap
  BY DEF MachineInv, StoreInv, GoodHeap, Usable
<1>2. heap[n].var \in Room(heap, heap[n].neg) /\ heap[n].var \in Room(heap, heap[n].pos)
  BY DEF OrderedHeap, OrderedNode
<1>. QED
  BY <1>1, <1>2, RoomIndependent

\* A usable node that is not a terminal is not constant.
LEMMA ConstantTerminal ==
  ASSUME MachineInv, Acyclic, OrderedHeap, NEW n \in Usable(heap) \ {Zero, One}
  PROVE  Den(n) \notin {{}, Assignments}
<1>. DEFINE S == {m \in Usable(heap) \ {Zero, One} : Den(m) \in {{}, Assignments}}
<1>1. ASSUME S # {} PROVE FALSE
  <2>1. PICK m \in S : {heap[m].neg, heap[m].pos} \cap S = {}
    <3>1. S \in SUBSET (DOMAIN heap \ {Zero, One})
      BY DEF Usable
    <3>. QED
      BY <1>1, <3>1 DEF Acyclic
  <2>2. m \in DOMAIN heap \ {Zero, One} /\ m \in Usable(heap) /\ Den(m) \in {{}, Assignments}
    BY DEF Usable
  <2>3. GoodHeap(heap)
    BY DEF MachineInv, StoreInv
  <2>4. heap[m].neg # heap[m].pos /\ {heap[m].neg, heap[m].pos} \subseteq Usable(heap)
    BY <2>2, <2>3 DEF GoodHeap, Usable
  <2>5. Den(One) = Assignments /\ Den(Zero) = {} /\ {} \in Assignments
    BY TerminalMeans DEF Assignments
  <2>6. ASSUME NEW c \in {heap[m].neg, heap[m].pos} PROVE Den(c) = Den(m)
    <3>. DEFINE v == heap[m].var
    <3>1. v \in Vars /\ Independent(Den(c), v)
      BY <2>2, ChildrenIndependent
    <3>2. Den(c) \in SUBSET Assignments
      BY <2>4, <2>6, TerminalMeans DEF Usable
    <3>3. ASSUME NEW s \in Assignments PROVE s \in Den(c) <=> s \in Den(m)
      <4>. DEFINE t == IF c = heap[m].pos THEN s \cup {v} ELSE s \ {v}
      <4>1. t \in Assignments /\ (v \in t <=> c = heap[m].pos)
        BY <3>1 DEF Assignments
      <4>2. t \in Den(m) <=> t \in Den(IF v \in t THEN heap[m].pos ELSE heap[m].neg)
        BY <2>2, <2>3, <4>1, NodeDenotes DEF Den
      <4>3. s \in Den(c) <=> t \in Den(c)
        BY <3>1 DEF Independent
      <4>4. s \in Den(m) <=> t \in Den(m)
        BY <2>2, <4>1
      <4>. HIDE DEF t
      <4>. QED
        BY <2>6, <4>1, <4>2, <4>3, <4>4
    <3>. QED
      BY <2>2, <3>2, <3>3
  <2>7. ASSUME NEW c \in {heap[m].neg, heap[m].pos} PROVE c = IF Den(m) = {} THEN Zero ELSE One
    <3>1. c \in {Zero, One}
      BY <2>1, <2>2, <2>4, <2>6, <2>7
    <3>. QED
      BY <2>2, <2>5, <2>6, <3>1
  <2>. QED
    BY <2>4, <2>7
<1>. QED
  BY <1>1

----------------------------------------------------------------------------
\* The probabilities.

\* There are finitely many assignments, and functions have finitely many.
LEMMA FunctionsFinite ==
  /\ IsFiniteSet(Assignments) /\ Cardinality(Assignments) \in Nat \ {0}
  /\ \A f \in SUBSET Assignments : IsFiniteSet(f) /\ Cardinality(f) \in Nat
<1>1. IsFiniteSet(Assignments)
  BY FS_SUBSET, VarsAssumption DEF Assignments
<1>2. \A f \in SUBSET Assignments : IsFiniteSet(f) /\ Cardinality(f) \in Nat
  BY <1>1, FS_Subset, FS_CardinalityType
<1>3. Cardinality(Assignments) # 0
  <2>1. {} \in Assignments
    BY DEF Assignments
  <2>. QED
    BY <1>1, <2>1, FS_EmptySet
<1>. QED
  BY <1>1, <1>2, <1>3

\* Half of the assignments that satisfy a function make a variable true that it
\* does not depend on.
LEMMA Halves ==
  ASSUME NEW v \in Vars, NEW f \in SUBSET Assignments, Independent(f, v)
  PROVE  /\ Cardinality(f \cap With(v)) = Cardinality(f \cap Without(v))
         /\ Cardinality(f) = 2 * Cardinality(f \cap With(v))
<1>. DEFINE A == f \cap With(v)
            B == f \cap Without(v)
            g == [s \in A |-> s \ {v}]
<1>1. A \in SUBSET Assignments /\ B \in SUBSET Assignments /\ A \cap B = {} /\ A \cup B = f
  BY DEF With, Without
<1>2. IsFiniteSet(A) /\ IsFiniteSet(B) /\ Cardinality(A) \in Nat /\ Cardinality(B) \in Nat
  BY <1>1, FunctionsFinite
<1>3. ExistsBijection(A, B)
  <2>1. g \in [A -> B]
    BY DEF Independent, With, Without, Assignments
  <2>2. \A s, t \in A : g[s] = g[t] => s = t
    BY DEF With
  <2>3. ASSUME NEW t \in B PROVE \E s \in A : g[s] = t
    <3>1. t \cup {v} \in A /\ (t \cup {v}) \ {v} = t
      BY <2>3 DEF Independent, With, Without, Assignments
    <3>. QED
      BY <3>1
  <2>. HIDE DEF g, A, B
  <2>. QED
    BY <2>1, <2>2, <2>3 DEF ExistsBijection, Bijection, Injection, Surjection, IsInjective
<1>4. Cardinality(A) = Cardinality(B)
  BY <1>2, <1>3, FS_Bijection
<1>. HIDE DEF A, B
<1>5. Cardinality(f) = Cardinality(A) + Cardinality(B)
  <2>1. Cardinality(A \cap B) = 0
    BY <1>1, FS_EmptySet
  <2>2. Cardinality(A \cup B) = Cardinality(A) + Cardinality(B) - Cardinality(A \cap B)
    BY <1>2, FS_Union
  <2>. QED
    BY <1>1, <1>2, <2>1, <2>2
<1>. QED
  BY <1>2, <1>4, <1>5 DEF A, B

\* The function of a node in two halves: what probability_computation averages
\* are the cardinalities of the children's functions.
LEMMA CardinalityOfNode ==
  ASSUME MachineInv, Acyclic, OrderedHeap, NEW n \in DOMAIN heap \ {Zero, One}
  PROVE  2 * Cardinality(Den(n)) = Cardinality(Den(heap[n].neg)) + Cardinality(Den(heap[n].pos))
<1>. DEFINE v == heap[n].var
            N == Den(heap[n].neg)
            P == Den(heap[n].pos)
            F == Den(n)
<1>1. v \in Vars /\ Independent(N, v) /\ Independent(P, v)
  BY ChildrenIndependent
<1>2. GoodHeap(heap)
  BY DEF MachineInv, StoreInv
<1>3. N \in SUBSET Assignments /\ P \in SUBSET Assignments /\ F \in SUBSET Assignments
  BY <1>2, TerminalMeans DEF GoodHeap, Usable
<1>4. \A s \in Assignments : s \in F <=> s \in IF v \in s THEN P ELSE N
  BY <1>2, NodeDenotes DEF Den
<1>. HIDE DEF N, P, F, v
<1>. DEFINE A == P \cap With(v)
            B == N \cap Without(v)
<1>5. A \cap B = {} /\ A \cup B = F /\ A \in SUBSET Assignments /\ B \in SUBSET Assignments
  BY <1>3, <1>4 DEF With, Without
<1>6. 2 * Cardinality(A) = Cardinality(P) /\ 2 * Cardinality(B) = Cardinality(N)
  BY <1>1, <1>3, Halves
<1>. HIDE DEF A, B
<1>7. IsFiniteSet(A) /\ IsFiniteSet(B) /\ Cardinality(A) \in Nat /\ Cardinality(B) \in Nat
  BY <1>5, FunctionsFinite
<1>8. Cardinality(F) = Cardinality(A) + Cardinality(B)
  <2>1. Cardinality(A \cap B) = 0
    BY <1>5, FS_EmptySet
  <2>2. Cardinality(A \cup B) = Cardinality(A) + Cardinality(B) - Cardinality(A \cap B)
    BY <1>7, FS_Union
  <2>3. Cardinality(A \cup B) = Cardinality(A) + Cardinality(B)
    BY <1>7, <2>1, <2>2
  <2>. QED
    BY <1>5, <2>3
<1>9. 2 * Cardinality(F) = Cardinality(N) + Cardinality(P)
  BY <1>6, <1>7, <1>8
<1>. QED
  BY <1>9 DEF N, P, F

\* With a unit that all of them divide, weights are exact.
LEMMA WeightExact ==
  ASSUME UnitDivisible
  PROVE  \E K \in Nat : /\ Unit = K * Cardinality(Assignments)
                        /\ \A f \in SUBSET Assignments : Weight(f) = K * Cardinality(f)
<1>. DEFINE N == Cardinality(Assignments)
            K == Unit \div N
<1>1. N \in Nat \ {0} /\ Unit \in Nat /\ Unit % N = 0
  BY FunctionsFinite, UnitAssumption DEF UnitDivisible
<1>. HIDE DEF N
<1>2. K \in Nat /\ Unit = K * N
  BY <1>1
<1>. HIDE DEF K
<1>3. ASSUME NEW f \in SUBSET Assignments PROVE Weight(f) = K * Cardinality(f)
  <2>. DEFINE c == Cardinality(f)
  <2>1. c \in Nat
    BY FunctionsFinite
  <2>2. Weight(f) = (Unit * c) \div N
    BY DEF Weight, N
  <2>. HIDE DEF c
  <2>3. Unit * c = (K * c) * N
    BY <1>1, <1>2, <2>1
  <2>4. \A k \in Nat : (k * N) \div N = k
    BY <1>1
  <2>5. K * c \in Nat
    BY <1>2, <2>1
  <2>6. Weight(f) = K * c
    BY <2>2, <2>3, <2>4, <2>5
  <2>. QED
    BY <2>6 DEF c
<1>. QED
  BY <1>2, <1>3 DEF N

\* The terminals have the weights they are created with.
LEMMA WeightOfConstants ==
  ASSUME UnitDivisible
  PROVE  Weight({}) = 0 /\ Weight(Assignments) = Unit
<1>1. PICK K \in Nat : /\ Unit = K * Cardinality(Assignments)
                       /\ \A f \in SUBSET Assignments : Weight(f) = K * Cardinality(f)
  BY WeightExact
<1>2. Cardinality({}) = 0
  BY FS_EmptySet
<1>. QED
  BY <1>1, <1>2

\* So the average of the probabilities of its children is that of a node.
LEMMA WeightOfNode ==
  ASSUME UnitDivisible, MachineInv, Acyclic, OrderedHeap, NEW n \in DOMAIN heap \ {Zero, One}
  PROVE  Weight(Den(n)) = (Weight(Den(heap[n].neg)) + Weight(Den(heap[n].pos))) \div 2
<1>. DEFINE a == Cardinality(Den(heap[n].neg))
            b == Cardinality(Den(heap[n].pos))
            c == Cardinality(Den(n))
<1>1. PICK K \in Nat : \A f \in SUBSET Assignments : Weight(f) = K * Cardinality(f)
  BY WeightExact
<1>2. /\ Den(heap[n].neg) \in SUBSET Assignments /\ Den(heap[n].pos) \in SUBSET Assignments
      /\ Den(n) \in SUBSET Assignments
  BY TerminalMeans DEF MachineInv, StoreInv, GoodHeap, Usable
<1>3. a \in Nat /\ b \in Nat /\ c \in Nat
  BY <1>2, FunctionsFinite
<1>4. 2 * c = a + b
  BY CardinalityOfNode
<1>5. /\ Weight(Den(n)) = K * c
      /\ Weight(Den(heap[n].neg)) = K * a /\ Weight(Den(heap[n].pos)) = K * b
  BY <1>1, <1>2
<1>. HIDE DEF a, b, c
<1>6. K * a + K * b = 2 * (K * c)
  <2>1. K * a + K * b = K * (a + b)
    BY <1>3
  <2>2. K * (2 * c) = 2 * (K * c)
    BY <1>3
  <2>. QED
    BY <1>3, <1>4, <2>1, <2>2
<1>7. K * c \in Nat
  BY <1>3
<1>8. (2 * (K * c)) \div 2 = K * c
  BY <1>7
<1>. QED
  BY <1>5, <1>6, <1>8

----------------------------------------------------------------------------
\* The probabilities that have been assigned are right.
Probable == \A n \in Usable(heap) : heap[n].prob = Weight(Den(n))

\* They stay right when those a step assigns are.
LEMMA ProbabilitiesKept ==
  ASSUME UnitDivisible, Steps, Acyclic, Probable,
         \A n \in DOMAIN heap' \ {Zero, One} :
           Weight(Denotation(heap')[n])
             = (Weight(Denotation(heap')[heap'[n].neg]) + Weight(Denotation(heap')[heap'[n].pos])) \div 2,
         NEW h, NEW ids, NEW stale, Release(h, ids, stale),
         \A n \in Usable(h) :
           \/ n \in Usable(heap) /\ h[n].prob \in {heap[n].prob, Weight(Den(n))}
           \/ /\ n \notin {Zero, One} /\ {h[n].neg, h[n].pos} \subseteq Usable(heap)
              /\ h[n].prob = Average(h[n].neg, h[n].pos)
  PROVE  Probable'
<1>1. \A n \in DOMAIN heap' : n \in DOMAIN h /\ heap'[n] = h[n]
  BY ReleaseShrinks
<1>2. \A n \in Usable(heap) \cap DOMAIN heap' : Weight(Denotation(heap')[n]) = heap[n].prob
  BY DenotationKept DEF Probable, Usable, Den
<1>3. GoodHeap(heap')
  BY DEF Steps, MachineInv, StoreInv
<1>4. ASSUME NEW n \in Usable(heap')
      PROVE  heap'[n].prob = Weight(Denotation(heap')[n])
  <2>1. n \in DOMAIN heap' /\ n \in Usable(h) /\ heap'[n] = h[n]
    BY <1>1 DEF Usable
  <2>2. CASE n \in Usable(heap) /\ h[n].prob \in {heap[n].prob, Weight(Den(n))}
    BY <1>2, <2>1, <2>2 DEF Probable
  <2>3. CASE /\ n \notin {Zero, One} /\ {h[n].neg, h[n].pos} \subseteq Usable(heap)
             /\ h[n].prob = Average(h[n].neg, h[n].pos)
    <3>1. {h[n].neg, h[n].pos} \subseteq DOMAIN heap'
      BY <1>3, <2>1, <2>3 DEF GoodHeap, Usable
    <3>. QED
      BY <1>2, <2>1, <2>3, <3>1 DEF Average
  <2>. QED
    BY <2>1, <2>2, <2>3
<1>. QED
  BY <1>4 DEF Probable, Den

\* Every step assigns the right probability, if any.
LEMMA StepProbable ==
  ASSUME UnitDivisible, IInv, Acyclic, OrderedHeap, Probable, [Next]_vars,
         \A n \in DOMAIN heap' \ {Zero, One} :
           Weight(Denotation(heap')[n])
             = (Weight(Denotation(heap')[heap'[n].neg]) + Weight(Denotation(heap')[heap'[n].pos])) \div 2
  PROVE  Probable'
<1>. DEFINE Quiet == ReleaseOnly \/ UNCHANGED heap
<1>1. Steps /\ GoodHeap(heap)
  BY StepGood DEF Steps, IInv, MachineInv, StoreInv
<1>2. CASE ReleaseOnly
  <2>1. Release(heap, freeIds, doomed)
    BY <1>2 DEF ReleaseOnly
  <2>. QED
    BY <1>1, <2>1, ProbabilitiesKept
<1>3. CASE UNCHANGED heap
  BY <1>3 DEF Probable, Den
<1>4. ASSUME NEW n \in Usable(heap), NEW h, NEW ids, NEW stale, NEW prob,
             h = [heap EXCEPT ![n].prob = prob], prob = Weight(Den(n)), Release(h, ids, stale)
      PROVE  Probable'
  <2>1. \A m \in DOMAIN heap : heap[m] \in Node
    BY <1>1 DEF GoodHeap
  <2>2. /\ DOMAIN h = DOMAIN heap
        /\ \A m \in DOMAIN heap : m = n \/ h[m] = heap[m]
        /\ h[n].prob = prob
    BY <1>4, <2>1 DEF Node, Usable
  <2>3. ASSUME NEW m \in Usable(h)
        PROVE  m \in Usable(heap) /\ h[m].prob \in {heap[m].prob, Weight(Den(m))}
    BY <1>4, <2>2, <2>3 DEF Usable
  <2>. QED
    BY <1>1, <1>4, <2>3, ProbabilitiesKept
<1>5. ASSUME NEW v, NEW n \in Usable(heap), NEW p \in Usable(heap), NEW ids, NEW stale, NEW prob,
             prob # Unset => prob = Average(n, p),
             Release(NewNode(v, n, p, prob), ids, stale)
      PROVE  Probable'
  <2>. DEFINE h == NewNode(v, n, p, prob)
  <2>1. FreshId \notin DOMAIN heap /\ {Zero, One} \subseteq DOMAIN heap
    BY <1>1, FreshIdIsFree DEF Steps, MachineInv, StoreInv, GoodHeap, Usable
  <2>2. /\ DOMAIN h = DOMAIN heap \cup {FreshId}
        /\ \A m \in DOMAIN heap : h[m] = heap[m]
        /\ h[FreshId] = [var |-> v, neg |-> n, pos |-> p, prob |-> prob]
    BY <2>1 DEF NewNode, Put
  <2>3. Release(h, ids, stale)
    BY <1>5
  <2>. HIDE DEF h
  <2>4. ASSUME NEW m \in Usable(h)
        PROVE  \/ m \in Usable(heap) /\ h[m].prob \in {heap[m].prob, Weight(Den(m))}
               \/ /\ m \notin {Zero, One} /\ {h[m].neg, h[m].pos} \subseteq Usable(heap)
                  /\ h[m].prob = Average(h[m].neg, h[m].pos)
    <3>1. CASE m = FreshId
      BY <1>5, <2>1, <2>2, <2>4, <3>1 DEF Usable
    <3>2. CASE m # FreshId
      BY <2>2, <2>4, <3>2 DEF Usable
    <3>. QED
      BY <3>1, <3>2
  <2>. QED
    BY <1>1, <2>3, <2>4, ProbabilitiesKept
<1>. SUFFICES ASSUME ~Quiet PROVE Probable'
  BY <1>2, <1>3
<1>6. CASE ApplyTerminal
  <2>. DEFINE res == Operation(Top.op, Top.l, Top.r)
              prob == IF res = Zero THEN 0
                      ELSE IF res = One THEN Unit
                      ELSE IF IsTerminal(Top.l) THEN heap[Top.r].prob
                      ELSE heap[Top.l].prob
  <2>1. /\ stack # <<>> /\ Top.fn = "apply" /\ res # Null
        /\ Release([heap EXCEPT ![res].prob = prob], freeIds, doomed)
    BY <1>6 DEF ApplyTerminal, Entering
  <2>2. Top.l \in Usable(heap) /\ Top.r \in Usable(heap) /\ Top.op \in Ops
    BY <2>1, ApplyFrameFacts, TopFrame DEF IInv, ApplyFrame, Held
  <2>3. /\ res \in {Zero, One, Top.l, Top.r}
        /\ res \in {Zero, One} \/ res = (IF IsTerminal(Top.l) THEN Top.r ELSE Top.l)
    <3>1. (IsTerminal(Top.l) <=> Top.l \in {Zero, One}) /\ (IsTerminal(Top.r) <=> Top.r \in {Zero, One})
      BY <2>2, UsableNode DEF IInv
    <3>. QED
      BY <2>1, <2>2, <3>1 DEF Operation, AndOp, OrOp, XorOp, Ops
  <2>4. res \in Usable(heap)
    BY <2>2, <2>3, TerminalsUsable DEF IInv
  <2>5. prob = Weight(Den(res))
    <3>1. Den(Zero) = {} /\ Den(One) = Assignments
      BY TerminalMeans DEF IInv
    <3>2. Weight({}) = 0 /\ Weight(Assignments) = Unit
      BY WeightOfConstants
    <3>. QED
      BY <2>2, <2>3, <3>1, <3>2 DEF Probable
  <2>. HIDE DEF res, prob
  <2>. QED
    BY <1>4, <2>1, <2>4, <2>5
<1>7. CASE ApplyBuild
  <2>1. stack # <<>> /\ Top.fn = "apply" /\ ret # Null /\ Top.at = "second"
    BY <1>7 DEF ApplyBuild, Resumed
  <2>2. PICK n, p, prob, ids, stale :
          /\ n = (IF Top.a = Null THEN ret ELSE Top.a) /\ p = (IF Top.a = Null THEN Top.b ELSE ret)
          /\ prob = IF Redundant(n, p) THEN Unset ELSE Average(n, p)
          /\ Release(NewNode(Top.var, n, p, prob), ids, stale)
    BY <1>7 DEF ApplyBuild
  <2>3. n \in Usable(heap) /\ p \in Usable(heap)
    BY <2>1, <2>2, ApplyFrameFacts, TopFrame, RetUsable DEF IInv, ApplyFrame, Held
  <2>. QED
    BY <1>5, <2>2, <2>3
<1>8. ASSUME NEW v \in Vars, ReadNew(v) PROVE Probable'
  BY <1>5, <1>8, TerminalsUsable DEF ReadNew, IInv
<1>9. ASSUME NEW v \in Vars, ReadKnown(v) PROVE Probable'
  <2>. DEFINE n == FindUnique(v, Zero, One)
              prob == Average(Zero, One)
  <2>1. n # Null /\ Release([heap EXCEPT ![n].prob = prob], freeIds, doomed)
    BY <1>9 DEF ReadKnown
  <2>2. n \in Usable(heap)
    BY <2>1, LiteralUsable DEF IInv
  <2>3. n \in DOMAIN heap \ {Zero, One} /\ heap[n].neg = Zero /\ heap[n].pos = One
    BY <1>1, <2>1 DEF FindUnique, Triple, IInv, MachineInv, StoreInv, GoodUnique, GoodHeap, Zero, Null
  <2>4. Weight(Den(n)) = (Weight(Den(Zero)) + Weight(Den(One))) \div 2
    BY <2>3, WeightOfNode DEF IInv
  <2>5. prob = Weight(Den(n))
    BY <2>4, TerminalsUsable DEF Probable, Average, IInv
  <2>. HIDE DEF n, prob
  <2>. QED
    BY <1>4, <2>1, <2>2, <2>5
<1>10. CASE ApplyStep
  BY <1>6, <1>7, <1>10 DEF ApplyStep, ApplyHit, ApplySplit, ApplySecond, ApplyNullChild, tableVars
<1>11. CASE CofactorStep
  BY <1>11 DEF CofactorStep, CofactorTrivial, CofactorRootBar, CofactorLow, CofactorLeft, CofactorHigh,
       CofactorRight, CofactorJoin, DifferenceFirst, DifferenceSecond, DifferenceXor, ReturnJoined,
       SortSweep, SortFinish
<1>12. CASE ReadToken
  BY <1>8, <1>9, <1>12 DEF ReadToken, ReadConstant, ReadNot, ReadBinary
<1>13. CASE Command \/ Deliver \/ EndExpression \/ Quit \/ Stopped
  BY <1>13 DEF Command, MenuCofactor, MenuDifference, MenuSort, MenuApply, ApplyToSecond, Deliver,
       EndExpression, Quit, Stopped, vars, tableVars
<1>. QED
  BY <1>10, <1>11, <1>12, <1>13 DEF Next, Compute, Typed, vars, tableVars

\* The probability of a node is the average of those its children have.
NodesWeigh ==
  \A n \in DOMAIN heap \ {Zero, One} :
    Weight(Den(n)) = (Weight(Den(heap[n].neg)) + Weight(Den(heap[n].pos))) \div 2

\* What the properties about constants and probabilities follow from.
LEMMA WeighingInvariant == Spec => [](IInv /\ Acyclic /\ (tainted \/ (OrderedHeap /\ NodesWeigh)))
<1>1. IInv /\ Acyclic /\ MeaningInv => IInv /\ Acyclic /\ (tainted \/ (OrderedHeap /\ NodesWeigh))
  BY WeightOfNode, DivisibleAssumption DEF MeaningInv, OInv, NodesWeigh, IInv
<1>. QED
  BY <1>1, MeaningInvariant, PTL

\* A function that is constant is always the terminal itself, although equal
\* nodes are duplicated (project1.cpp:58-70): a node is discarded when its two
\* children are one node, and children that are constant are terminals.
THEOREM ConstantsStayTerminal == Spec => []ConstantsAreTerminal
<1>1. IInv /\ Acyclic /\ (tainted \/ (OrderedHeap /\ NodesWeigh)) => ConstantsAreTerminal
  BY ConstantTerminal DEF ConstantsAreTerminal, IInv, Usable
<1>. QED
  BY <1>1, WeighingInvariant, PTL

\* Every node that can be reached has the right probability.
LEMMA ProbabilitiesAssigned == Spec => [](tainted \/ Probable)
<1>. DEFINE J == IInv /\ Acyclic /\ (tainted \/ (OrderedHeap /\ NodesWeigh))
            P == tainted \/ Probable
<1>1. Init /\ J => P
  <2>. SUFFICES ASSUME Init, J PROVE Probable
    OBVIOUS
  <2>1. Den(Zero) = {} /\ Den(One) = Assignments
    BY TerminalMeans DEF IInv
  <2>2. /\ DOMAIN heap = {Zero, One} /\ heap[Zero].prob = 0 /\ heap[One].prob = Unit
    BY DEF Init, TablesInit, Zero, One
  <2>3. Weight({}) = 0 /\ Weight(Assignments) = Unit
    BY WeightOfConstants, DivisibleAssumption
  <2>. QED
    BY <2>1, <2>2, <2>3 DEF Probable, Usable
<1>2. J /\ J' /\ P /\ [Next]_vars => P'
  <2>. SUFFICES ASSUME J, J', P, [Next]_vars, ~tainted' PROVE Probable'
    OBVIOUS
  <2>1. ~tainted
    BY TaintStays
  <2>2. \A n \in DOMAIN heap' \ {Zero, One} :
          Weight(Denotation(heap')[n])
            = (Weight(Denotation(heap')[heap'[n].neg]) + Weight(Denotation(heap')[heap'[n].pos])) \div 2
    BY DEF NodesWeigh, Den
  <2>. QED
    BY <2>1, <2>2, StepProbable, DivisibleAssumption
<1>. QED
  BY <1>1, <1>2, WeighingInvariant, PTL DEF Spec

\* A probability that has been assigned is the share of the assignments that
\* satisfy the node, however often it is written again (project1.cpp:46-51, 68;
\* main.cpp:310).
THEOREM ProbabilitiesRight == Spec => []ProbabilityRight
<1>1. tainted \/ Probable => ProbabilityRight
  BY DEF ProbabilityRight, Probable, Usable
<1>. QED
  BY <1>1, ProbabilitiesAssigned, PTL

----------------------------------------------------------------------------
\* The pairs sort_by_influence collects.
Entries == [var : Vars, prob : Unset .. Unit]

\* A list of all elements of a finite set without repetitions has them all.
LEMMA ListsAll ==
  ASSUME NEW S, IsFiniteSet(S), NEW s \in [1 .. Cardinality(S) -> S],
         \A i, j \in 1 .. Cardinality(S) : s[i] = s[j] => i = j
  PROVE  Range(s) = S
<1>1. s \in Injection(1 .. Cardinality(S), S)
  BY DEF Injection, IsInjective
<1>2. Cardinality(1 .. Cardinality(S)) = Cardinality(S)
  BY FS_CardinalityType, FS_Interval
<1>3. s \in Surjection(1 .. Cardinality(S), S)
  BY <1>1, <1>2, FS_Injection
<1>. QED
  BY <1>3 DEF Surjection, Range

\* Greater is a strict order that leaves no two entries open.
LEMMA GreaterOrders ==
  ASSUME NEW x \in Entries, NEW y \in Entries, NEW z \in Entries
  PROVE  /\ ~Greater(x, x) /\ ~(Greater(x, y) /\ Greater(y, x))
         /\ Greater(x, y) /\ Greater(y, z) => Greater(x, z)
         /\ x = y \/ Greater(x, y) \/ Greater(y, x)
<1>1. /\ x.var \in Nat /\ y.var \in Nat /\ z.var \in Nat
      /\ x.prob \in Int /\ y.prob \in Int /\ z.prob \in Int
  <2>1. Vars \subseteq Nat /\ Unset .. Unit \subseteq Int
    BY VarsAssumption
  <2>2. \A e \in Entries : e.var \in Vars /\ e.prob \in Unset .. Unit
    BY DEF Entries
  <2>. QED
    BY <2>1, <2>2
<1>2. x.var = y.var /\ x.prob = y.prob => x = y
  BY DEF Entries
<1>. QED
  BY <1>1, <1>2 DEF Greater

\* std::sort leaves one list, with the greatest entry first.
LEMMA SortedRight ==
  ASSUME NEW S \in SUBSET Entries, IsFiniteSet(S)
  PROVE  /\ Sorted(S) \in [1 .. Cardinality(S) -> S] /\ Range(Sorted(S)) = S
         /\ \A i, j \in 1 .. Cardinality(S) : i < j => Greater(Sorted(S)[i], Sorted(S)[j])
<1>. DEFINE n == Cardinality(S)
            Above(x) == {y \in S : Greater(y, x)}
            rank == [x \in S |-> Cardinality(Above(x)) + 1]
            Descends(s) == s \in [1 .. n -> S] /\ \A i, j \in DOMAIN s : i < j => Greater(s[i], s[j])
<1>1. n \in Nat /\ IsFiniteSet(1 .. n) /\ Cardinality(1 .. n) = n
  BY FS_CardinalityType, FS_Interval
<1>2. ASSUME NEW x \in S
      PROVE  /\ IsFiniteSet(Above(x)) /\ Cardinality(Above(x)) \in Nat /\ Cardinality(Above(x)) < n
             /\ rank[x] \in 1 .. n
  <2>1. Above(x) \in SUBSET S /\ x \notin Above(x)
    BY <1>2, GreaterOrders
  <2>2. IsFiniteSet(Above(x)) /\ Cardinality(Above(x)) <= n /\ Cardinality(Above(x)) # n
    BY <1>2, <2>1, FS_Subset
  <2>3. Cardinality(Above(x)) \in Nat
    BY <2>2, FS_CardinalityType
  <2>. QED
    BY <1>1, <1>2, <2>2, <2>3
<1>3. ASSUME NEW x \in S, NEW y \in S, Greater(x, y) PROVE rank[x] < rank[y]
  <2>1. Above(x) \subseteq Above(y) /\ x \in Above(y) /\ x \notin Above(x)
    BY <1>3, GreaterOrders
  <2>2. Cardinality(Above(x)) <= Cardinality(Above(y)) /\ Cardinality(Above(x)) # Cardinality(Above(y))
    BY <1>2, <1>3, <2>1, FS_Subset
  <2>3. Cardinality(Above(x)) \in Nat /\ Cardinality(Above(y)) \in Nat
    BY <1>2, <1>3
  <2>4. rank[x] = Cardinality(Above(x)) + 1 /\ rank[y] = Cardinality(Above(y)) + 1
    BY <1>3
  <2>. QED
    BY <2>2, <2>3, <2>4
<1>4. rank \in [S -> 1 .. n]
  BY <1>2
<1>. HIDE DEF rank, n
<1>5. \A x, y \in S : rank[x] = rank[y] => x = y
  <2>1. \A x \in S : rank[x] \in Int
    BY <1>1, <1>4
  <2>. QED
    BY <1>3, <2>1, GreaterOrders
<1>6. Range(rank) = 1 .. n
  <2>1. rank \in Injection(S, 1 .. n)
    BY <1>4, <1>5 DEF Injection, IsInjective
  <2>2. rank \in Surjection(S, 1 .. n)
    BY <1>1, <2>1, FS_Injection DEF n
  <2>. QED
    BY <2>2 DEF Surjection, Range
<1>7. \E s : Descends(s)
  <2>. DEFINE s == [i \in 1 .. n |-> CHOOSE x \in S : rank[x] = i]
  <2>1. ASSUME NEW i \in 1 .. n PROVE s[i] \in S /\ rank[s[i]] = i
    <3>1. \E x \in S : rank[x] = i
      BY <1>4, <1>6 DEF Range
    <3>. QED
      BY <3>1
  <2>2. s \in [1 .. n -> S]
    BY <2>1
  <2>. HIDE DEF s
  <2>3. ASSUME NEW i \in 1 .. n, NEW j \in 1 .. n, i < j PROVE Greater(s[i], s[j])
    <3>1. s[i] \in S /\ s[j] \in S /\ rank[s[i]] = i /\ rank[s[j]] = j /\ i \in Int /\ j \in Int
      BY <1>1, <2>1
    <3>2. s[i] # s[j]
      BY <2>3, <3>1
    <3>3. ~Greater(s[j], s[i])
      BY <1>3, <2>3, <3>1
    <3>. QED
      BY <3>1, <3>2, <3>3, GreaterOrders
  <2>4. Descends(s)
    BY <2>2, <2>3
  <2>. QED
    BY <2>4
<1>8. Descends(Sorted(S))
  BY <1>7 DEF Sorted, n
<1>. DEFINE t == Sorted(S)
<1>. HIDE DEF t
<1>9. t \in [1 .. n -> S] /\ \A i, j \in 1 .. n : i < j => Greater(t[i], t[j])
  BY <1>8 DEF t
<1>10. \A i, j \in 1 .. n : t[i] = t[j] => i = j
  <2>1. \A i, j \in 1 .. n : i \in Int /\ j \in Int /\ (i < j \/ j < i \/ i = j)
    BY <1>1
  <2>2. \A x \in S : ~Greater(x, x)
    BY GreaterOrders
  <2>. QED
    BY <1>9, <2>1, <2>2
<1>11. Range(t) = S
  BY <1>9, <1>10, ListsAll DEF n
<1>. QED
  BY <1>9, <1>11 DEF t, n

----------------------------------------------------------------------------
\* What has_var finds, as a function from nodes to Booleans.
Finder(v) == CHOOSE has : HasVarEq(has, v)
\* That this is has_var: one step of it, in every node.
HasVarSteps ==
  \A v \in Vars :
    /\ \A n : HasVar(n, v) = Finder(v)[n]
    /\ \A n \in DOMAIN heap :
         Finder(v)[n] <=> /\ heap[n].neg # Null /\ heap[n].var <= v
                          /\ heap[n].var = v \/ Finder(v)[heap[n].pos] \/ Finder(v)[heap[n].neg]

\* It is so in every store of the machine.
LEMMA HasVarOneStep ==
  ASSUME MachineInv
  PROVE  HasVarSteps
<1>1. ASSUME NEW v \in Vars
      PROVE  /\ \A n : HasVar(n, v) = Finder(v)[n]
             /\ \A n \in DOMAIN heap :
                  Finder(v)[n] <=> /\ heap[n].neg # Null /\ heap[n].var <= v
                                   /\ heap[n].var = v \/ Finder(v)[heap[n].pos] \/ Finder(v)[heap[n].neg]
  <2>1. HasVarEq(Finder(v), v)
    BY HasVarExists DEF Finder
  <2>2. \A n : HasVar(n, v) = Finder(v)[n]
    BY DEF HasVar, HasVarEq, Finder
  <2>. DEFINE has == Finder(v)
  <2>3. HasVarEq(has, v)
    BY <2>1
  <2>. HIDE DEF has
  <2>4. \A n \in DOMAIN heap : has[n] = (/\ ~(heap[n].neg = Null) /\ heap[n].var <= v
                                         /\ heap[n].var = v \/ has[heap[n].pos] \/ has[heap[n].neg])
    BY <2>3 DEF HasVarEq, IsTerminal
  <2>5. \A n \in DOMAIN heap : has[n] <=> (/\ heap[n].neg # Null /\ heap[n].var <= v
                                           /\ heap[n].var = v \/ has[heap[n].pos] \/ has[heap[n].neg])
    BY <2>4
  <2>. QED
    BY <2>2, <2>5 DEF has
<1>. QED
  BY <1>1 DEF HasVarSteps

\* A node that lives on has the variables it had.
LEMMA HasVarKept ==
  ASSUME Steps, Acyclic, HasVarSteps, HasVarSteps',
         NEW v \in Vars, NEW n \in DOMAIN heap, n \in DOMAIN heap'
  PROVE  HasVar(n, v)' <=> HasVar(n, v)
<1>. DEFINE f == Finder(v)
            g == Finder(v)'
            S == {m \in (DOMAIN heap \cap DOMAIN heap') \ {Zero, One} : ~(f[m] <=> g[m])}
<1>1. GoodHeap(heap) /\ GoodHeap(heap') /\ Agree(heap, heap')
  BY DEF Steps, MachineInv, StoreInv
<1>2. /\ \A m : HasVar(m, v) = f[m]
      /\ \A m \in DOMAIN heap :
           f[m] <=> (heap[m].neg # Null /\ heap[m].var <= v /\ (heap[m].var = v \/ f[heap[m].pos] \/ f[heap[m].neg]))
  BY DEF HasVarSteps
<1>3. /\ HasVar(n, v)' = g[n]
      /\ \A m \in DOMAIN heap' :
           g[m] <=> (heap'[m].neg # Null /\ heap'[m].var <= v /\ (heap'[m].var = v \/ g[heap'[m].pos] \/ g[heap'[m].neg]))
  BY DEF HasVarSteps
<1>. HIDE DEF f, g
<1>4. \A m \in {Zero, One} : m \in DOMAIN heap /\ m \in DOMAIN heap' /\ ~f[m] /\ ~g[m]
  BY <1>1, <1>2, <1>3 DEF GoodHeap, Usable
<1>5. ASSUME S # {} PROVE FALSE
  <2>1. PICK m \in S : {heap[m].neg, heap[m].pos} \cap S = {}
    <3>1. S \in SUBSET (DOMAIN heap \ {Zero, One})
      OBVIOUS
    <3>. QED
      BY <1>5, <3>1 DEF Acyclic
  <2>2. /\ m \in DOMAIN heap \ {Zero, One} /\ m \in DOMAIN heap' \ {Zero, One} /\ ~(f[m] <=> g[m])
        /\ heap'[m].var = heap[m].var /\ heap'[m].neg = heap[m].neg /\ heap'[m].pos = heap[m].pos
    BY <1>1 DEF Agree
  <2>3. {heap[m].neg, heap[m].pos} \subseteq DOMAIN heap \cap DOMAIN heap'
    BY <1>1, <2>2 DEF GoodHeap, Usable
  <2>4. (f[heap[m].neg] <=> g[heap[m].neg]) /\ (f[heap[m].pos] <=> g[heap[m].pos])
    BY <1>4, <2>1, <2>3
  <2>. QED
    BY <1>2, <1>3, <2>2, <2>4
<1>. QED
  BY <1>2, <1>3, <1>4, <1>5

----------------------------------------------------------------------------
\* The variables has_var finds, and what an entry of the list says of a node.
VarsOf == [n \in DOMAIN heap |-> {v \in Vars : HasVar(n, v)}]
EntryRight(n, e) ==
  e \in Entries /\ e.var \in VarsOf[n] /\ e.prob = Weight(FunctionDifference(Denotation(heap)[n], e.var))

\* An entry stays right while its node lives.
LEMMA EntryKept ==
  ASSUME Steps, Acyclic, HasVarSteps, HasVarSteps',
         NEW n \in DOMAIN heap, n \in DOMAIN heap'
  PROVE  /\ VarsOf'[n] = VarsOf[n]
         /\ \A e : EntryRight(n, e) => EntryRight(n, e)'
<1>1. \A v \in Vars : HasVar(n, v)' <=> HasVar(n, v)
  BY HasVarKept
<1>2. VarsOf'[n] = VarsOf[n]
  <2>1. VarsOf[n] = {v \in Vars : HasVar(n, v)}
    BY DEF VarsOf
  <2>2. VarsOf'[n] = {v \in Vars : HasVar(n, v)'}
    BY DEF VarsOf
  <2>. QED
    BY <1>1, <2>1, <2>2
<1>3. Denotation(heap')[n] = Denotation(heap)[n]
  BY StepKeeps DEF Kept
<1>. QED
  BY <1>2, <1>3 DEF EntryRight

\* The only activation of sort_by_influence is the one main asked for.
SortInv ==
  /\ \A i \in DOMAIN stack : stack[i].fn = "sort" =>
       i = 1 /\ req.op = "sort" /\ stack[i].l = vals[1]
  /\ stack # <<>> /\ req.op = "sort" => stack[1].fn = "sort"

\* While it sweeps, what it has collected is right, and in the end the list is.
Swept ==
  \A i \in DOMAIN stack : stack[i].fn = "sort" /\ stack[i].at # "enter" =>
    /\ stack[i].var \in VarsOf[stack[i].l]
    /\ IsFiniteSet(vecList) /\ \A e \in vecList : EntryRight(stack[i].l, e)
Ranked ==
  stack = <<>> /\ ret # Null /\ req.op = "sort" =>
    /\ VarsOf[vals[1]] \subseteq {e.var : e \in Range(ranking)}
    /\ \A e \in Range(ranking) : EntryRight(vals[1], e)
    /\ \A i, j \in DOMAIN ranking : i < j => Greater(ranking[i], ranking[j])

\* The sort frames of the stack stay where and as they are.
SortFramesStay ==
  /\ \A i \in DOMAIN stack' : stack'[i].fn = "sort" => i \in DOMAIN stack /\ stack'[i] = stack[i]
  /\ \A i \in DOMAIN stack : stack[i].fn = "sort" => i \in DOMAIN stack' /\ stack'[i] = stack[i]

\* What a return makes of the stack.
LEMMA ReturnPops ==
  ASSUME stack \in Seq(Frame), stack # <<>>, NEW x, Return(x)
  PROVE  /\ Len(stack) \in Nat \ {0} /\ Len(stack') = Len(stack) - 1
         /\ DOMAIN stack' = 1 .. (Len(stack) - 1)
         /\ \A i \in 1 .. (Len(stack) - 1) : stack'[i] = stack[i]
<1>1. stack \in Seq(Frame) /\ Len(stack) \in Nat \ {0} /\ DOMAIN stack = 1 .. Len(stack)
  BY EmptySeq, LenProperties
<1>2. stack' = Front(stack)
  BY DEF Return
<1>3. /\ Len(stack') = Len(stack) - 1 /\ DOMAIN stack' = 1 .. (Len(stack) - 1)
      /\ \A i \in 1 .. (Len(stack) - 1) : stack'[i] = stack[i]
  BY <1>1, <1>2, SubSeqProperties DEF Front
<1>. QED
  BY <1>1, <1>3

\* They do when another function calls or returns.
LEMMA OthersMove ==
  ASSUME MachineInv, MachineInv', stack # <<>>, Top.fn # "sort",
         \/ UNCHANGED stack
         \/ \E f, callee : Call(f, callee) /\ f.fn # "sort" /\ callee.fn # "sort"
         \/ \E n : Return(n)
  PROVE  SortFramesStay
<1>. DEFINE len == Len(stack)
<1>1. stack \in Seq(Frame) /\ len \in Nat \ {0} /\ DOMAIN stack = 1 .. len /\ stack[len].fn # "sort"
  BY EmptySeq, LenProperties DEF MachineInv, StackInv, Top
<1>2. ASSUME NEW f, NEW callee, Call(f, callee), f.fn # "sort", callee.fn # "sort" PROVE SortFramesStay
  <2>1. /\ DOMAIN stack' = 1 .. (len + 1)
        /\ \A i \in 1 .. (len - 1) : stack'[i] = stack[i]
        /\ stack'[len] = f /\ stack'[len + 1] = callee
    BY <1>1, <1>2, CallPushes
  <2>. HIDE DEF len
  <2>2. \A i \in 1 .. (len + 1) : i \in 1 .. (len - 1) \/ i = len \/ i = len + 1
    BY <1>1
  <2>3. \A i \in 1 .. len : i \in 1 .. (len - 1) \/ i = len
    BY <1>1
  <2>4. \A i \in 1 .. (len - 1) : i \in 1 .. len /\ i \in 1 .. (len + 1)
    BY <1>1
  <2>. QED
    BY <1>1, <1>2, <2>1, <2>2, <2>3, <2>4 DEF SortFramesStay
<1>3. ASSUME NEW n, Return(n) PROVE SortFramesStay
  <2>1. /\ DOMAIN stack' = 1 .. (len - 1)
        /\ \A i \in 1 .. (len - 1) : stack'[i] = stack[i]
    BY <1>1, <1>3, ReturnPops
  <2>. HIDE DEF len
  <2>2. \A i \in 1 .. len : i \in 1 .. (len - 1) \/ i = len
    BY <1>1
  <2>3. \A i \in 1 .. (len - 1) : i \in 1 .. len
    BY <1>1
  <2>. QED
    BY <1>1, <2>1, <2>2, <2>3 DEF SortFramesStay
<1>4. CASE UNCHANGED stack
  BY <1>4 DEF SortFramesStay
<1>. QED
  BY <1>2, <1>3, <1>4

\* They do at every other step of a computation.
LEMMA OthersStep ==
  ASSUME MachineInv, MachineInv', ApplyStep \/ (CofactorStep /\ ~SortSweep /\ ~SortFinish)
  PROVE  SortFramesStay /\ stack # <<>> /\ Top.fn # "sort" /\ vals' = vals
<1>1. /\ stack # <<>> /\ Top.fn # "sort" /\ vals' = vals
  BY DEF ApplyStep, ApplyHit, ApplyTerminal, ApplySplit, ApplySecond, ApplyNullChild, ApplyBuild, Recurses,
       CofactorStep, CofactorTrivial, CofactorRootBar, CofactorLow, CofactorLeft, CofactorHigh,
       CofactorRight, CofactorJoin, DifferenceFirst, DifferenceSecond, DifferenceXor, ReturnJoined,
       Entering, Resumed, CallUnchanged
<1>2. Top \in Frame
  BY <1>1, TopFrame
<1>3. \/ UNCHANGED stack
      \/ \E f, callee : Call(f, callee) /\ f.fn # "sort" /\ callee.fn # "sort"
      \/ \E n : Return(n)
  <2>1. \A op, v, l, r : /\ ApplyCall(op, l, r).fn = "apply" /\ CofactorCall(op, l, v).fn = "cofactor"
                         /\ DifferenceCall(l, v).fn = "difference"
    BY DEF ApplyCall, CofactorCall, DifferenceCall, Activation
  <2>. DEFINE Calls == \E f, callee : Call(f, callee) /\ f.fn # "sort" /\ callee.fn # "sort"
  <2>2. ASSUME NEW first \in {"neg", "pos"}, ApplySplit(first) PROVE Calls
    <3>. DEFINE f == [Top EXCEPT !.at = IF first = "neg" THEN "negFirst" ELSE "posFirst", !.var = NextVar(Top.l, Top.r)]
                callee == SubCall(Top.op, NextVar(Top.l, Top.r), Top.l, Top.r, first)
    <3>1. Call(f, callee)
      BY <2>2 DEF ApplySplit
    <3>2. f.fn # "sort"
      BY <1>1, <1>2 DEF Frame
    <3>3. callee.fn # "sort"
      BY <2>1 DEF SubCall
    <3>. HIDE DEF f, callee
    <3>. QED
      BY <3>1, <3>2, <3>3
  <2>3. ASSUME NEW first \in {"neg", "pos"}, ApplySecond(first) PROVE Calls
    <3>. DEFINE f == IF first = "neg" THEN [Top EXCEPT !.at = "second", !.a = ret] ELSE [Top EXCEPT !.at = "second", !.b = ret]
                callee == SubCall(Top.op, Top.var, Top.l, Top.r, IF first = "neg" THEN "pos" ELSE "neg")
    <3>1. Call(f, callee)
      BY <2>3 DEF ApplySecond
    <3>2. f.fn # "sort"
      BY <1>1, <1>2 DEF Frame
    <3>3. callee.fn # "sort"
      BY <2>1 DEF SubCall
    <3>. HIDE DEF f, callee
    <3>. QED
      BY <3>1, <3>2, <3>3
  <2>4. ASSUME NEW first \in {"neg", "pos"}, DifferenceFirst(first) PROVE Calls
    <3>. DEFINE f == [Top EXCEPT !.at = IF first = "neg" THEN "negFirst" ELSE "posFirst"]
                callee == CofactorCall(first, Top.l, Top.var)
    <3>1. Call(f, callee)
      BY <2>4 DEF DifferenceFirst
    <3>2. f.fn # "sort"
      BY <1>1, <1>2 DEF Frame
    <3>3. callee.fn # "sort"
      BY <2>1
    <3>. HIDE DEF f, callee
    <3>. QED
      BY <3>1, <3>2, <3>3
  <2>5. ASSUME NEW first \in {"neg", "pos"}, DifferenceSecond(first) PROVE Calls
    <3>. DEFINE f == IF first = "neg" THEN [Top EXCEPT !.at = "second", !.a = ret] ELSE [Top EXCEPT !.at = "second", !.b = ret]
                callee == CofactorCall(IF first = "neg" THEN "pos" ELSE "neg", Top.l, Top.var)
    <3>1. Call(f, callee)
      BY <2>5 DEF DifferenceSecond
    <3>2. f.fn # "sort"
      BY <1>1, <1>2 DEF Frame
    <3>3. callee.fn # "sort"
      BY <2>1
    <3>. HIDE DEF f, callee
    <3>. QED
      BY <3>1, <3>2, <3>3
  <2>6. CASE CofactorRootBar
    <3>. DEFINE f == [Top EXCEPT !.at = "bar", !.r = FindUnique(heap[Top.l].var, Zero, One)]
                callee == ApplyCall("xor", FindUnique(heap[Top.l].var, Zero, One), One)
    <3>1. Call(f, callee)
      BY <2>6 DEF CofactorRootBar
    <3>2. f.fn # "sort"
      BY <1>1, <1>2 DEF Frame
    <3>3. callee.fn # "sort"
      BY <2>1
    <3>. HIDE DEF f, callee
    <3>. QED
      BY <3>1, <3>2, <3>3
  <2>7. CASE CofactorLow
    <3>. DEFINE f == [Top EXCEPT !.at = "low", !.a = ret]
                callee == CofactorCall(Top.op, heap[Top.l].neg, Top.var)
    <3>1. Call(f, callee)
      BY <2>7 DEF CofactorLow
    <3>2. f.fn # "sort"
      BY <1>1, <1>2 DEF Frame
    <3>3. callee.fn # "sort"
      BY <2>1
    <3>. HIDE DEF f, callee
    <3>. QED
      BY <3>1, <3>2, <3>3
  <2>8. CASE CofactorLeft
    <3>. DEFINE f == [Top EXCEPT !.at = "left"]
                callee == ApplyCall("and", Top.a, ret)
    <3>1. Call(f, callee)
      BY <2>8 DEF CofactorLeft
    <3>2. f.fn # "sort"
      BY <1>1, <1>2 DEF Frame
    <3>3. callee.fn # "sort"
      BY <2>1
    <3>. HIDE DEF f, callee
    <3>. QED
      BY <3>1, <3>2, <3>3
  <2>9. CASE CofactorHigh
    <3>. DEFINE f == [Top EXCEPT !.at = "high", !.b = ret]
                callee == CofactorCall(Top.op, heap[Top.l].pos, Top.var)
    <3>1. Call(f, callee)
      BY <2>9 DEF CofactorHigh
    <3>2. f.fn # "sort"
      BY <1>1, <1>2 DEF Frame
    <3>3. callee.fn # "sort"
      BY <2>1
    <3>. HIDE DEF f, callee
    <3>. QED
      BY <3>1, <3>2, <3>3
  <2>10. CASE CofactorRight
    <3>. DEFINE f == [Top EXCEPT !.at = "right"]
                callee == ApplyCall("and", Top.r, ret)
    <3>1. Call(f, callee)
      BY <2>10 DEF CofactorRight
    <3>2. f.fn # "sort"
      BY <1>1, <1>2 DEF Frame
    <3>3. callee.fn # "sort"
      BY <2>1
    <3>. HIDE DEF f, callee
    <3>. QED
      BY <3>1, <3>2, <3>3
  <2>11. CASE CofactorJoin
    <3>. DEFINE f == [Top EXCEPT !.at = "join"]
                callee == ApplyCall("or", Top.b, ret)
    <3>1. Call(f, callee)
      BY <2>11 DEF CofactorJoin
    <3>2. f.fn # "sort"
      BY <1>1, <1>2 DEF Frame
    <3>3. callee.fn # "sort"
      BY <2>1
    <3>. HIDE DEF f, callee
    <3>. QED
      BY <3>1, <3>2, <3>3
  <2>12. CASE DifferenceXor
    <3>. DEFINE f == [Top EXCEPT !.at = "join"]
                callee == ApplyCall("xor", IF Top.a = Null THEN Top.b ELSE ret, IF Top.a = Null THEN ret ELSE Top.a)
    <3>1. Call(f, callee)
      BY <2>12 DEF DifferenceXor
    <3>2. f.fn # "sort"
      BY <1>1, <1>2 DEF Frame
    <3>3. callee.fn # "sort"
      BY <2>1
    <3>. HIDE DEF f, callee
    <3>. QED
      BY <3>1, <3>2, <3>3
  <2>13. CASE ApplyHit \/ ApplyTerminal \/ ApplyBuild \/ ApplyNullChild
    BY <2>13 DEF ApplyHit, ApplyTerminal, ApplyBuild, ApplyNullChild
  <2>14. CASE CofactorTrivial \/ ReturnJoined
    BY <2>14 DEF CofactorTrivial, ReturnJoined
  <2>. HIDE DEF Calls
  <2>. QED
    BY <2>2, <2>3, <2>4, <2>5, <2>6, <2>7, <2>8, <2>9, <2>10, <2>11, <2>12, <2>13, <2>14
       DEF ApplyStep, CofactorStep, Calls
<1>. QED
  BY <1>1, <1>3, OthersMove

\* Every step keeps the sort frame at the bottom, and its argument main's.
LEMMA SortInvKept ==
  ASSUME Steps, SortInv, [Next]_vars
  PROVE  SortInv'
<1>1. /\ MachineInv /\ MachineInv' /\ stack \in Seq(Frame) /\ stack' \in Seq(Frame)
  BY DEF Steps, MachineInv, StackInv
<1>2. ASSUME stack' = <<>> PROVE SortInv'
  BY <1>2 DEF SortInv
<1>3. ASSUME NEW f, NEW q, Invoke(f, q), f.fn = "sort" <=> q.op = "sort",
             q.op = "sort" => f.l = vals[1] /\ vals' = vals
      PROVE  SortInv'
  <2>1. stack' = <<f>> /\ req' = q
    BY <1>3 DEF Invoke
  <2>2. \A i \in DOMAIN stack' : i = 1 /\ stack'[i] = f
    BY <2>1
  <2>3. stack'[1] = f
    BY <2>1
  <2>. QED
    BY <1>3, <2>1, <2>2, <2>3 DEF SortInv
<1>4. CASE (ApplyStep /\ UNCHANGED <<sortVars, sessionVars>>)
           \/ (CofactorStep /\ ~SortSweep /\ ~SortFinish /\ UNCHANGED sessionVars)
  <2>1. SortFramesStay /\ stack # <<>> /\ vals' = vals /\ req' = req
    BY <1>1, <1>4, OthersStep DEF sessionVars
  <2>2. 1 \in DOMAIN stack
    BY <1>1, <2>1, EmptySeq, LenProperties
  <2>. QED
    BY <2>1, <2>2 DEF SortInv, SortFramesStay
<1>5. CASE SortSweep /\ UNCHANGED sessionVars
  <2>1. /\ stack # <<>> /\ Top.fn = "sort" /\ vals' = vals /\ req' = req
    BY <1>5 DEF SortSweep, Sorting, Entering, Resumed, sessionVars
  <2>2. Top \in Frame
    BY <1>1, <2>1, TopFrame
  <2>. DEFINE len == Len(stack)
              v == CHOOSE w \in Unswept : \A u \in Unswept : SweepRank[w] <= SweepRank[u]
              f == [Top EXCEPT !.at = "swept", !.var = v]
              callee == DifferenceCall(Top.l, v)
  <2>3. Call(f, callee)
    BY <1>5 DEF SortSweep
  <2>4. f.fn = "sort" /\ f.l = Top.l /\ callee.fn = "difference"
    BY <2>1, <2>2 DEF Frame, DifferenceCall, Activation
  <2>. HIDE DEF f, callee
  <2>5. /\ len \in DOMAIN stack /\ Top = stack[len]
        /\ DOMAIN stack' = 1 .. (len + 1) /\ stack'[len] = f /\ stack'[len + 1] = callee
    BY <1>1, <2>1, <2>3, CallPushes DEF Top
  <2>. HIDE DEF len
  <2>6. len = 1 /\ req.op = "sort" /\ Top.l = vals[1]
    BY <2>1, <2>5 DEF SortInv
  <2>7. \A i \in DOMAIN stack' : stack'[i] = IF i = 1 THEN f ELSE callee
    BY <2>5, <2>6
  <2>8. stack'[1] = f
    BY <2>5, <2>6
  <2>. QED
    BY <2>1, <2>4, <2>6, <2>7, <2>8 DEF SortInv
<1>6. CASE SortFinish
  <2>1. stack # <<>> /\ Top.fn = "sort" /\ Return(Top.l)
    BY <1>6 DEF SortFinish, Sorting, Entering, Resumed
  <2>2. Len(stack) \in DOMAIN stack /\ stack[Len(stack)].fn = "sort"
    BY <1>1, <2>1, EmptySeq, LenProperties DEF Top
  <2>3. Len(stack) = 1
    BY <2>2 DEF SortInv
  <2>4. Len(stack') = 0
    BY <1>1, <2>1, <2>3, ReturnPops
  <2>. QED
    BY <1>1, <1>2, <2>4, EmptySeq
<1>7. CASE Deliver \/ EndExpression \/ MenuApply \/ Quit \/ ReadConstant \/ \E v \in Vars : ReadKnown(v) \/ ReadNew(v)
  <2>1. stack' = <<>>
    BY <1>7 DEF Deliver, EndExpression, MenuApply, Menu, Quit, ReadConstant, ReadKnown, ReadNew, Reading,
         Ready, Idle, machineVars
  <2>. QED
    BY <1>2, <2>1
<1>8. CASE Stopped \/ UNCHANGED vars
  BY <1>8 DEF Stopped, vars, machineVars, sessionVars, SortInv
<1>9. CASE ReadNot \/ \E op \in {"and", "or"} : ReadBinary(op)
  <2>1. PICK op, l, r, q : Invoke(ApplyCall(op, l, r), q) /\ q.op # "sort"
    BY <1>9 DEF ReadNot, ReadBinary
  <2>. QED
    BY <1>3, <2>1 DEF ApplyCall, Activation
<1>10. CASE \E op \in Ops : ApplyToSecond(op)
  <2>1. PICK op, l, r, q : Invoke(ApplyCall(op, l, r), q) /\ q.op # "sort"
    BY <1>10 DEF ApplyToSecond, Ops
  <2>. QED
    BY <1>3, <2>1 DEF ApplyCall, Activation
<1>11. ASSUME NEW v \in Vars, (\E polarity \in {"neg", "pos"} : MenuCofactor(polarity, v)) \/ MenuDifference(v)
       PROVE  SortInv'
  <2>1. PICK f, q : Invoke(f, q) /\ f.fn # "sort" /\ q.op # "sort"
    <3>1. \A op, l : CofactorCall(op, l, v).fn # "sort" /\ DifferenceCall(l, v).fn # "sort"
      BY DEF CofactorCall, DifferenceCall, Activation
    <3>. QED
      BY <1>11, <3>1 DEF MenuCofactor, MenuDifference
  <2>. QED
    BY <1>3, <2>1
<1>12. CASE MenuSort
  <2>1. Invoke(SortCall(vals[1]), [op |-> "sort", var |-> NoVar]) /\ vals' = vals
    BY <1>12 DEF MenuSort
  <2>2. SortCall(vals[1]).fn = "sort" /\ SortCall(vals[1]).l = vals[1]
    BY DEF SortCall, Activation
  <2>. QED
    BY <1>3, <2>1, <2>2
<1>. QED
  BY <1>4, <1>5, <1>6, <1>7, <1>8, <1>9, <1>10, <1>11, <1>12
     DEF Next, Compute, Typed, ReadToken, Command

\* What the sweep has collected once a difference has come back is right.
LEMMA CollectedRight ==
  ASSUME MachineInv, StackRight, Probable, Swept, Sorting,
         vecList \subseteq Entries
  PROVE  /\ IsFiniteSet(Collected) /\ Collected \subseteq Entries
         /\ \A e \in Collected : EntryRight(Top.l, e)
<1>1. stack \in Seq(Frame) /\ stack # <<>> /\ Top.fn = "sort"
  BY DEF MachineInv, StackInv, Sorting, Entering, Resumed
<1>2. Collected \subseteq Entries
  BY CollectedTyped DEF Entries
<1>3. CASE Top.at = "enter"
  BY <1>3, FS_EmptySet DEF Collected
<1>4. CASE Top.at # "enter"
  <2>. DEFINE e == [var |-> Top.var, prob |-> heap[ret].prob]
  <2>1. Len(stack) \in DOMAIN stack
    BY <1>1, EmptySeq, LenProperties
  <2>2. /\ Top.var \in VarsOf[Top.l] /\ IsFiniteSet(vecList)
        /\ \A x \in vecList : EntryRight(Top.l, x)
    BY <1>1, <1>4, <2>1 DEF Swept, Top
  <2>3. ret # Null
    BY <1>4 DEF Sorting, Entering, Resumed
  <2>4. Den(ret) = FunctionDifference(Denotation(heap)[Top.l], Top.var)
    BY <1>1, <2>3 DEF StackRight, Wants
  <2>5. heap[ret].prob = Weight(Den(ret))
    BY <2>3, RetUsable DEF Probable
  <2>6. Collected = vecList \cup {e}
    BY <1>4 DEF Collected
  <2>7. e.var = Top.var /\ e.prob = heap[ret].prob /\ e \in Entries
    BY <1>2, <2>6
  <2>. HIDE DEF e
  <2>8. EntryRight(Top.l, e)
    BY <2>2, <2>4, <2>5, <2>7 DEF EntryRight
  <2>9. IsFiniteSet(Collected)
    BY <2>2, <2>6, FS_AddElement
  <2>. QED
    BY <1>2, <2>2, <2>6, <2>8, <2>9
<1>. QED
  BY <1>3, <1>4

\* Every step of the sweep, and every other one meanwhile, keeps the list right.
LEMMA StepSorts ==
  ASSUME IInv, Steps, Acyclic, SessionShape, Right, Probable, HasVarSteps, HasVarSteps',
         SortInv, SortInv', Swept, Ranked, [Next]_vars
  PROVE  Swept' /\ Ranked'
<1>1. /\ MachineInv /\ MachineInv' /\ StackRight /\ stack \in Seq(Frame) /\ stack' \in Seq(Frame)
      /\ vecList \subseteq Entries
  BY DEF Steps, MachineInv, StackInv, Right, IInv, SessionInv, Entries
<1>2. ASSUME NEW n \in DOMAIN heap, n \in DOMAIN heap'
      PROVE  /\ VarsOf'[n] = VarsOf[n]
             /\ \A e : EntryRight(n, e) => EntryRight(n, e)'
  BY <1>2, EntryKept
<1>3. ASSUME stack' = <<>>, ret' = Null PROVE Swept' /\ Ranked'
  BY <1>3 DEF Swept, Ranked
<1>4. ASSUME NEW f, NEW q, Invoke(f, q), f.at = "enter" PROVE Swept' /\ Ranked'
  <2>1. stack' = <<f>> /\ stack' # <<>>
    BY <1>4 DEF Invoke
  <2>2. \A i \in DOMAIN stack' : stack'[i] = f
    BY <2>1
  <2>. QED
    BY <1>4, <2>1, <2>2 DEF Swept, Ranked
<1>5. CASE (ApplyStep /\ UNCHANGED <<sortVars, sessionVars>>)
           \/ (CofactorStep /\ ~SortSweep /\ ~SortFinish /\ UNCHANGED sessionVars)
  <2>1. /\ SortFramesStay /\ stack # <<>> /\ Top.fn # "sort" /\ req' = req
    BY <1>1, <1>5, OthersStep DEF sessionVars
  <2>2. UNCHANGED sortVars
    BY <1>5 DEF CofactorStep, CofactorTrivial, CofactorRootBar, CofactorLow, CofactorLeft, CofactorHigh,
         CofactorRight, CofactorJoin, DifferenceFirst, DifferenceSecond, DifferenceXor, ReturnJoined, CallUnchanged
  <2>3. Swept'
    <3>. SUFFICES ASSUME NEW i \in DOMAIN stack', stack'[i].fn = "sort", stack'[i].at # "enter"
                  PROVE  /\ stack'[i].var \in VarsOf'[stack'[i].l]
                         /\ IsFiniteSet(vecList') /\ \A e \in vecList' : EntryRight(stack[i].l, e)'
      BY DEF Swept
    <3>. PICK n : n = stack[i].l
      OBVIOUS
    <3>1. i \in DOMAIN stack /\ stack'[i] = stack[i]
      BY <2>1 DEF SortFramesStay
    <3>2. n \in DOMAIN heap /\ stack'[i].l \in DOMAIN heap'
      BY <1>1, <3>1, FrameHolds, FrameHoldsNext
    <3>3. /\ stack[i].var \in VarsOf[n] /\ IsFiniteSet(vecList)
          /\ \A e \in vecList : EntryRight(n, e)
      BY <3>1 DEF Swept
    <3>4. n \in DOMAIN heap' /\ stack'[i].l = n
      BY <3>1, <3>2
    <3>5. /\ VarsOf'[n] = VarsOf[n]
          /\ \A e : EntryRight(n, e) => EntryRight(n, e)'
      BY <1>2, <3>2, <3>4
    <3>6. \A e \in vecList' : EntryRight(n, e)'
      BY <2>2, <3>3, <3>5 DEF sortVars
    <3>7. \A e \in vecList' : EntryRight(stack[i].l, e)'
      BY <3>4, <3>6 DEF EntryRight
    <3>. QED
      BY <2>2, <3>1, <3>3, <3>4, <3>5, <3>7 DEF sortVars
  <2>4. stack' # <<>> \/ req'.op # "sort"
    <3>1. 1 \in DOMAIN stack
      BY <1>1, <2>1, EmptySeq, LenProperties
    <3>2. req.op = "sort" => 1 \in DOMAIN stack'
      BY <2>1, <3>1 DEF SortInv, SortFramesStay
    <3>. QED
      BY <1>1, <2>1, <3>2, EmptySeq
  <2>. QED
    BY <2>3, <2>4 DEF Ranked
<1>6. CASE SortSweep /\ UNCHANGED sessionVars
  <2>1. /\ stack # <<>> /\ Top.fn = "sort" /\ Unswept # {} /\ Sorting /\ vecList' = Collected
    BY <1>6 DEF SortSweep, Sorting, Entering, Resumed
  <2>2. Top \in Frame
    BY <1>1, <2>1, TopFrame
  <2>. DEFINE len == Len(stack)
              v == CHOOSE w \in Unswept : \A u \in Unswept : SweepRank[w] <= SweepRank[u]
              f == [Top EXCEPT !.at = "swept", !.var = v]
              callee == DifferenceCall(Top.l, v)
  <2>. PICK n : n = Top.l
    OBVIOUS
  <2>3. Call(f, callee)
    BY <1>6 DEF SortSweep
  <2>4. f.fn = "sort" /\ f.l = n /\ f.var = v
    BY <2>1, <2>2 DEF Frame
  <2>5. n \in DOMAIN heap /\ v \in VarsOf[n]
    <3>1. v \in Unswept
      BY <2>1, NextSwept
    <3>2. Top.l \in DOMAIN heap
      BY <1>1, <2>1, TopFrame DEF Usable
    <3>. QED
      BY <3>1, <3>2 DEF Unswept, VarsOf
  <2>6. /\ IsFiniteSet(Collected) /\ \A e \in Collected : EntryRight(n, e)
    BY <1>1, <2>1, CollectedRight
  <2>. HIDE DEF f, callee, v
  <2>7. /\ len \in Nat \ {0} /\ stack[len].fn = "sort" /\ len \in DOMAIN stack
        /\ DOMAIN stack' = 1 .. (len + 1) /\ stack'[len] = f
    BY <1>1, <2>1, <2>3, CallPushes DEF Top
  <2>. HIDE DEF len
  <2>8. len = 1
    BY <2>7 DEF SortInv
  <2>9. 1 \in DOMAIN stack' /\ stack'[1] = f /\ stack' # <<>>
    BY <2>7, <2>8
  <2>10. n \in DOMAIN heap'
    <3>1. stack'[1].l \in DOMAIN heap'
      BY <1>1, <2>9, FrameHoldsNext
    <3>. QED
      BY <2>4, <2>9, <3>1
  <2>11. /\ VarsOf'[n] = VarsOf[n]
         /\ \A e : EntryRight(n, e) => EntryRight(n, e)'
    BY <1>2, <2>5, <2>10
  <2>12. ASSUME NEW i \in DOMAIN stack', stack'[i].fn = "sort"
         PROVE  /\ stack'[i].var \in VarsOf'[stack'[i].l]
                /\ IsFiniteSet(vecList') /\ \A e \in vecList' : EntryRight(stack[i].l, e)'
    <3>1. i = 1 /\ stack'[i] = f
      BY <2>9, <2>12 DEF SortInv
    <3>2. \A e \in vecList' : EntryRight(n, e)'
      BY <2>1, <2>6, <2>11
    <3>3. \A e \in vecList' : EntryRight(stack[i].l, e)'
      BY <2>4, <3>1, <3>2 DEF EntryRight
    <3>. QED
      BY <2>1, <2>4, <2>5, <2>6, <2>11, <3>1, <3>3
  <2>13. Swept'
    BY <2>12 DEF Swept
  <2>. QED
    BY <2>9, <2>13 DEF Ranked
<1>7. CASE SortFinish /\ UNCHANGED sessionVars
  <2>1. /\ stack # <<>> /\ Top.fn = "sort" /\ Unswept = {} /\ Sorting /\ Return(Top.l)
        /\ ranking' = Sorted(Collected) /\ vals' = vals /\ req' = req
    BY <1>7 DEF SortFinish, Sorting, Entering, Resumed, sessionVars
  <2>. PICK n : n = Top.l
    OBVIOUS
  <2>2. /\ IsFiniteSet(Collected) /\ Collected \in SUBSET Entries /\ \A e \in Collected : EntryRight(n, e)
    BY <1>1, <2>1, CollectedRight
  <2>3. Len(stack) \in DOMAIN stack /\ stack[Len(stack)] = Top
    BY <1>1, <2>1, EmptySeq, LenProperties DEF Top
  <2>4. Len(stack) = 1 /\ n = vals[1] /\ req.op = "sort"
    BY <2>1, <2>3 DEF SortInv
  <2>5. stack' = <<>>
    <3>1. Len(stack') = 0
      BY <1>1, <2>1, <2>4, ReturnPops
    <3>. QED
      BY <1>1, <3>1, EmptySeq
  <2>6. n \in DOMAIN heap /\ n \in DOMAIN heap'
    <3>1. n \in Usable(heap) /\ n # Null
      BY <1>1, <2>1, TopFrame, UsableNode
    <3>2. ret' = n
      BY <2>1 DEF Return
    <3>3. n \in Usable(heap')
      BY <1>1, <3>1, <3>2 DEF MachineInv, LocalsInv, Locals
    <3>. QED
      BY <3>1, <3>3 DEF Usable
  <2>7. VarsOf[n] \subseteq {e.var : e \in Collected}
    BY <2>1, <2>6 DEF Unswept, VarsOf
  <2>8. /\ VarsOf'[n] = VarsOf[n]
        /\ \A e : EntryRight(n, e) => EntryRight(n, e)'
    BY <1>2, <2>6
  <2>. DEFINE S == Collected
  <2>9. S \in SUBSET Entries /\ IsFiniteSet(S) /\ ranking' = Sorted(S)
    BY <2>1, <2>2
  <2>10. /\ Range(ranking') = S /\ DOMAIN ranking' = 1 .. Cardinality(S)
         /\ \A i, j \in 1 .. Cardinality(S) : i < j => Greater(ranking'[i], ranking'[j])
    <3>. HIDE DEF S
    <3>. QED
      BY <2>9, SortedRight
  <2>11. Ranked'
    <3>1. vals'[1] = n
      BY <2>1, <2>4
    <3>2. VarsOf'[vals'[1]] \subseteq {e.var : e \in Range(ranking')}
      BY <2>7, <2>8, <2>10, <3>1
    <3>3. \A e \in Range(ranking') : EntryRight(n, e)'
      BY <2>2, <2>8, <2>10
    <3>4. \A e \in Range(ranking') : EntryRight(vals[1], e)'
      BY <3>1, <3>3 DEF EntryRight
    <3>5. \A i, j \in DOMAIN ranking' : i < j => Greater(ranking[i], ranking[j])'
      BY <2>10 DEF Greater
    <3>. QED
      BY <3>2, <3>4, <3>5 DEF Ranked
  <2>. QED
    BY <2>5, <2>11 DEF Swept
<1>8. CASE Deliver \/ EndExpression \/ MenuApply \/ Quit \/ ReadConstant \/ \E v \in Vars : ReadKnown(v) \/ ReadNew(v)
  <2>1. stack' = <<>> /\ ret' = Null
    BY <1>8 DEF Deliver, EndExpression, MenuApply, Menu, Quit, ReadConstant, ReadKnown, ReadNew, Reading,
         Ready, Idle, machineVars
  <2>. QED
    BY <1>3, <2>1
<1>9. CASE ReadToken \/ Command
  <2>1. ASSUME NEW fn, NEW op, NEW v, NEW l, NEW r, NEW q, Invoke(Activation(fn, op, v, l, r), q)
        PROVE  Swept' /\ Ranked'
    <3>1. Activation(fn, op, v, l, r).at = "enter"
      BY DEF Activation
    <3>. QED
      BY <1>4, <2>1, <3>1
  <2>2. CASE ReadNot \/ \E op \in {"and", "or"} : ReadBinary(op)
    BY <2>1, <2>2 DEF ReadNot, ReadBinary, ApplyCall
  <2>3. CASE MenuSort \/ \E op \in Ops : ApplyToSecond(op)
    BY <2>1, <2>3 DEF MenuSort, ApplyToSecond, ApplyCall, SortCall
  <2>4. CASE \E v \in Vars : (\E polarity \in {"neg", "pos"} : MenuCofactor(polarity, v)) \/ MenuDifference(v)
    BY <2>1, <2>4 DEF MenuCofactor, MenuDifference, CofactorCall, DifferenceCall
  <2>. QED
    BY <1>8, <1>9, <2>2, <2>3, <2>4 DEF ReadToken, Command
<1>10. CASE Stopped \/ UNCHANGED vars
  <2>1. UNCHANGED <<heap, stack, ret, vals, vecList, ranking, req>>
    BY <1>10 DEF Stopped, vars, tableVars, machineVars, sortVars, sessionVars
  <2>2. VarsOf' = VarsOf
    <3>1. \A n \in DOMAIN heap : VarsOf'[n] = VarsOf[n]
      BY <1>2, <2>1
    <3>2. VarsOf = [n \in DOMAIN heap |-> VarsOf[n]]
      BY DEF VarsOf
    <3>3. VarsOf' = [n \in DOMAIN heap' |-> VarsOf'[n]]
      BY DEF VarsOf
    <3>. QED
      BY <2>1, <3>1, <3>2, <3>3
  <2>. QED
    BY <2>1, <2>2 DEF Swept, Ranked, EntryRight
<1>. QED
  BY <1>5, <1>6, <1>7, <1>8, <1>9, <1>10 DEF Next, Compute, Typed
\* What the list tells of, in terms of the functions alone.
LEMMA RankedIsRight ==
  ASSUME MachineInv, Acyclic, OrderedHeap, SessionShape, HasVarSteps, Ranked, ~tainted
  PROVE  RankingRight
<1>. SUFFICES ASSUME stack = <<>>, ret # Null, req.op = "sort"
              PROVE  LET f == Den(vals[1])
                     IN /\ Support(f) \subseteq {e.var : e \in Range(ranking)}
                        /\ \A e \in Range(ranking) :
                             /\ HasVar(vals[1], e.var)
                             /\ e.prob = Weight(FunctionDifference(f, e.var))
                        /\ \A i, j \in DOMAIN ranking :
                             i < j => \/ ranking[i].prob > ranking[j].prob
                                      \/ ranking[i].prob = ranking[j].prob /\ ranking[i].var < ranking[j].var
  BY DEF RankingRight
<1>1. PICK n : n = vals[1]
  OBVIOUS
<1>2. n \in DOMAIN heap
  <2>1. req # NoRequest /\ req.op \notin Ops
    BY DEF NoRequest, Ops
  <2>2. vals \in Seq(Nat) /\ Len(vals) >= 1
    BY <2>1 DEF SessionShape, Uses, MachineInv, StackInv
  <2>3. 1 \in DOMAIN vals
    BY <2>2
  <2>4. n \in Locals
    BY <1>1, <2>3 DEF Locals, Range
  <2>. QED
    BY <2>4 DEF MachineInv, LocalsInv, Usable
<1>3. /\ VarsOf[n] \subseteq {e.var : e \in Range(ranking)}
      /\ \A e \in Range(ranking) : EntryRight(n, e)
      /\ \A i, j \in DOMAIN ranking : i < j => Greater(ranking[i], ranking[j])
  BY <1>1 DEF Ranked
<1>4. VarsOf[n] = {v \in Vars : HasVar(n, v)}
  BY <1>2 DEF VarsOf
<1>5. Support(Den(n)) \subseteq VarsOf[n]
  <2>. SUFFICES ASSUME NEW v \in Vars, ~HasVar(n, v) PROVE FunctionDifference(Den(n), v) = {}
    BY <1>4 DEF Support
  <2>1. Independent(Den(n), v)
    BY <1>2, NotHasIndependent
  <2>. QED
    BY <2>1 DEF Independent, FunctionDifference, FunctionOf, FunctionCofactor
<1>6. \A e \in Range(ranking) : HasVar(n, e.var) /\ e.prob = Weight(FunctionDifference(Den(n), e.var))
  BY <1>3, <1>4 DEF EntryRight, Den
<1>7. \A i, j \in DOMAIN ranking : i < j =>
        \/ ranking[i].prob > ranking[j].prob
        \/ ranking[i].prob = ranking[j].prob /\ ranking[i].var < ranking[j].var
  BY <1>3 DEF Greater
<1>. QED
  BY <1>1, <1>3, <1>5, <1>6, <1>7

\* sort_by_influence (project1.cpp:147-167) lists the variables of its argument,
\* every variable its function depends on among them, each with the probability
\* of its difference, in descending order.
THEOREM RankingIsRight == Spec => []RankingRight
<1>. DEFINE J == IInv /\ Acyclic /\ MeaningInv /\ (tainted \/ Probable)
            P == SortInv /\ (tainted \/ (Swept /\ Ranked))
<1>1. Spec => []J
  BY MeaningInvariant, ProbabilitiesAssigned, PTL
<1>2. IInv => HasVarSteps
  BY HasVarOneStep DEF IInv
<1>3. Init => P
  BY DEF Init, SortInv, Swept, Ranked
<1>4. J /\ HasVarSteps /\ HasVarSteps' /\ P /\ [Next]_vars => P'
  <2>. SUFFICES ASSUME J, HasVarSteps, HasVarSteps', P, [Next]_vars PROVE P'
    OBVIOUS
  <2>1. Steps
    BY StepGood DEF Steps, IInv
  <2>2. SortInv'
    BY <2>1, SortInvKept
  <2>3. ASSUME ~tainted' PROVE Swept' /\ Ranked'
    <3>1. ~tainted
      BY <2>3, TaintStays
    <3>. QED
      BY <2>1, <2>2, <3>1, StepSorts DEF MeaningInv
  <2>. QED
    BY <2>2, <2>3
<1>5. J /\ HasVarSteps /\ P => RankingRight
  <2>. SUFFICES ASSUME J, HasVarSteps, P, ~tainted PROVE RankingRight
    BY DEF RankingRight
  <2>. QED
    BY RankedIsRight DEF MeaningInv, OInv, IInv
<1>6. J => HasVarSteps
  BY <1>2
<1>. HIDE DEF J, P
<1>7. J /\ J' /\ P /\ [Next]_vars => P'
  <2>1. J' => HasVarSteps'
    BY <1>6, PTL
  <2>. QED
    BY <1>4, <1>6, <2>1
<1>. QED
  BY <1>1, <1>3, <1>5, <1>6, <1>7, PTL DEF Spec
===============================================================================
