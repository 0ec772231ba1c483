------------------------------- MODULE BddProof -------------------------------
(***************************************************************************)
(* The invariants of BddInvariants hold of every run of project1, for any  *)
(* variables, any number of first ids and expressions and sessions of any  *)
(* length.  In four parts:                                                 *)
(*   - the operators of BddTables: what creating a node and releasing      *)
(*     unreachable ones preserve, stated for any store and tables, so that *)
(*     they apply to the store before, within and after a step;            *)
(*   - the inductive invariant IInv, and what a call, a return and the     *)
(*     release of nodes do to it;                                          *)
(*   - the steps of apply, of the cofactors, boolean_difference and        *)
(*     sort_by_influence;                                                  *)
(*   - those of main and bdd_from_expr, and the theorems.                  *)
(***************************************************************************)
EXTENDS BddInvariants, SequenceTheorems, FiniteSetTheorems, WellFoundedInduction, TLAPS

\* The nodes whose probability has been assigned.
Usable(h) == {n \in DOMAIN h : h[n].prob # Unset}

\* A store with the two terminals in which every other node has a variable and
\* two usable children, and is usable itself just if these are different.
GoodHeap(h) ==
  /\ h \in [DOMAIN h -> Node] /\ DOMAIN h \subseteq Nat
  /\ {Zero, One} \subseteq Usable(h)
  /\ \A n \in {Zero, One} : h[n].neg = Null /\ h[n].pos = Null
  /\ \A n \in DOMAIN h \ {Zero, One} :
       h[n].var \in Vars /\ h[n].neg \in Usable(h) /\ h[n].pos \in Usable(h)
  /\ \A n \in DOMAIN h \ {Zero, One} : h[n].prob = Unset <=> h[n].neg = h[n].pos

GoodUnique(h, u) ==
  /\ DOMAIN u \subseteq UniqueKey /\ u \in [DOMAIN u -> DOMAIN h]
  /\ \A k \in DOMAIN u : h[u[k]].var = k.var /\ h[u[k]].neg = k.neg /\ h[u[k]].pos = k.pos
  /\ \A n \in DOMAIN h \ {Zero, One} : Triple(h[n].var, Zero, One) \in DOMAIN u

GoodComputed(h, c) ==
  /\ DOMAIN c \subseteq ComputedKey /\ c \in [DOMAIN c -> Usable(h)]

GoodIds(h, ids, ctr) ==
  /\ ctr \in Nat /\ ctr > 0
  /\ ids \cap DOMAIN h = {}
  /\ ids \cup DOMAIN h = 0 .. (ctr - 1)

GoodStore(h, u, c, ids, ctr) ==
  GoodHeap(h) /\ GoodUnique(h, u) /\ GoodComputed(h, c) /\ GoodIds(h, ids, ctr)

\* All pointers, if L are the locals.
Pointers(u, c, L) == {Zero, One} \cup Range(u) \cup Range(c) \cup L

\* The store is good, and every local usable, when only live nodes are left.
GoodAfter(h, u, c, ids, ctr, L, live) ==
  /\ GoodStore(Restrict(h, live), u, c, ids \cup (DOMAIN h \ live), ctr)
  /\ L \subseteq Usable(Restrict(h, live))

\* A set of natural numbers has a least element: *(free_ids.begin()) exists.
LEMMA MinIsLeast ==
  ASSUME NEW S \in SUBSET Nat, S # {}
  PROVE  Min(S) \in S /\ \A m \in S : Min(S) <= m
<1>. DEFINE Below == {ss \in Nat \X Nat : ss[1] < ss[2]}
<1>1. IsWellFoundedOn(Below, Nat)
  BY NatLessThanWellFounded DEF OpToRel
<1>2. \A m \in Nat, n \in Nat : ~ (<<m, n>> \in Below) => n <= m
  OBVIOUS
<1>. HIDE DEF Below
<1>3. PICK x \in S : \A y \in S : ~ (<<y, x>> \in Below)
  BY <1>1, WFMin
<1>4. \A y \in S : x <= y
  BY <1>2, <1>3
<1>. QED
  BY <1>4 DEF Min

\* What the pointers R reach is part of the heap, holds what R points to and
\* is closed under children.
LEMMA LiveClosed ==
  ASSUME NEW h, NEW R
  PROVE  /\ Live(h, R) \subseteq DOMAIN h
         /\ R \cap DOMAIN h \subseteq Live(h, R)
         /\ R \subseteq DOMAIN h /\ Closed(h, DOMAIN h) => Closed(h, Live(h, R))
<1>1. Live(h, R) \subseteq DOMAIN h /\ R \cap DOMAIN h \subseteq Live(h, R)
  BY DEF Live
<1>2. ASSUME R \subseteq DOMAIN h, Closed(h, DOMAIN h), NEW n \in Live(h, R),
             NEW c \in {h[n].neg, h[n].pos}, c # Null
      PROVE  c \in Live(h, R)
  <2>1. c \in DOMAIN h
    BY <1>1, <1>2 DEF Closed
  <2>2. SUFFICES ASSUME NEW T \in SUBSET (DOMAIN h \ R), Closed(h, R \cup T), c \notin R
                 PROVE  c \in T
    BY <2>1 DEF Live
  <2>3. n \in R \cup T
    BY <2>2 DEF Live
  <2>4. n \in (R \cup T) \cap DOMAIN h
    BY <1>1, <2>3
  <2>. QED
    BY <1>2, <2>2, <2>4 DEF Closed
<1>. QED
  BY <1>1, <1>2 DEF Closed
\* Releasing the nodes that the terminals, the tables and the locals L do not
\* reach leaves a good store, good tables and every local usable.
LEMMA ReleaseKeepsGood ==
  ASSUME NEW h, NEW u, NEW c, NEW ids, NEW ctr, NEW L,
         GoodStore(h, u, c, ids, ctr), L \subseteq Usable(h)
  PROVE  GoodAfter(h, u, c, ids, ctr, L, Live(h, Pointers(u, c, L)))
<1>. DEFINE R == Pointers(u, c, L)
            live == Live(h, R)
            g == Restrict(h, live)
            free == ids \cup (DOMAIN h \ live)
<1>. USE DEF GoodStore, Pointers
<1>1. R \subseteq DOMAIN h
  BY DEF GoodHeap, GoodUnique, GoodComputed, Usable, Range
<1>2. Closed(h, DOMAIN h)
  BY DEF GoodHeap, Closed, Usable
<1>3. live \subseteq DOMAIN h /\ R \subseteq live /\ Closed(h, live)
  BY <1>1, <1>2, LiveClosed
<1>4. DOMAIN g = live /\ \A n \in live : g[n] = h[n]
  BY DEF Restrict
<1>. HIDE DEF live, g
<1>5. \A n \in live \ {Zero, One} : h[n].neg \in live /\ h[n].pos \in live
  BY <1>3 DEF Closed, GoodHeap, Usable, Null
<1>6. \A n \in live : n \in Usable(h) => n \in Usable(g)
  BY <1>4 DEF Usable
<1>7. L \subseteq Usable(g) /\ {Zero, One} \subseteq Usable(g)
  BY <1>3, <1>6 DEF GoodHeap
<1>8. GoodHeap(g)
  <2>1. g \in [DOMAIN g -> Node] /\ DOMAIN g \subseteq Nat
    <3>1. \A n \in live : h[n] \in Node
      BY <1>3 DEF GoodHeap
    <3>. QED
      BY <1>3, <1>4, <3>1 DEF GoodHeap, Restrict, g
  <2>2. \A n \in {Zero, One} : g[n].neg = Null /\ g[n].pos = Null
    BY <1>3, <1>4 DEF GoodHeap
  <2>3. \A n \in DOMAIN g \ {Zero, One} :
          g[n].var \in Vars /\ g[n].neg \in Usable(g) /\ g[n].pos \in Usable(g)
    BY <1>3, <1>4, <1>5, <1>6 DEF GoodHeap
  <2>4. \A n \in DOMAIN g \ {Zero, One} : g[n].prob = Unset <=> g[n].neg = g[n].pos
    BY <1>3, <1>4 DEF GoodHeap
  <2>. QED
    BY <1>7, <2>1, <2>2, <2>3, <2>4 DEF GoodHeap
<1>9. GoodUnique(g, u)
  <2>1. \A k \in DOMAIN u : u[k] \in live
    BY <1>3 DEF Range
  <2>. QED
    BY <1>3, <1>4, <2>1 DEF GoodUnique
<1>10. GoodComputed(g, c)
  <2>1. \A k \in DOMAIN c : c[k] \in live
    BY <1>3 DEF Range
  <2>. QED
    BY <1>6, <2>1 DEF GoodComputed
<1>11. GoodIds(g, free, ctr)
  BY <1>3, <1>4 DEF GoodIds
<1>. QED
  BY <1>7, <1>8, <1>9, <1>10, <1>11 DEF g, live, GoodAfter

----------------------------------------------------------------------------
\* The id a new node gets is free, and the rest of the batch stays free.
LEMMA FreshIdIsFree ==
  ASSUME GoodHeap(heap), GoodIds(heap, freeIds, idCtr)
  PROVE  /\ FreshId \in Nat /\ FreshId \notin DOMAIN heap
         /\ PoolCtr \in Nat /\ PoolCtr > 0
         /\ (Pool \ {FreshId}) \cap (DOMAIN heap \cup {FreshId}) = {}
         /\ (Pool \ {FreshId}) \cup (DOMAIN heap \cup {FreshId}) = 0 .. (PoolCtr - 1)
<1>1. Pool \in SUBSET Nat /\ Pool # {} /\ Pool \cap DOMAIN heap = {}
      /\ PoolCtr \in Nat /\ PoolCtr > 0 /\ Pool \cup DOMAIN heap = 0 .. (PoolCtr - 1)
  <2>1. CASE freeIds = {}
    <3>1. Pool = idCtr .. (2 * idCtr - 1) /\ PoolCtr = 2 * idCtr /\ idCtr \in Nat /\ idCtr > 0
      BY <2>1 DEF Pool, PoolCtr, GoodIds
    <3>2. DOMAIN heap = 0 .. (idCtr - 1)
      BY <2>1 DEF GoodIds
    <3>. HIDE DEF Pool, PoolCtr
    <3>3. Pool \in SUBSET Nat /\ idCtr \in Pool /\ PoolCtr \in Nat /\ PoolCtr > 0
      BY <3>1
    <3>4. Pool \cap DOMAIN heap = {}
      BY <3>1, <3>2
    <3>5. Pool \cup DOMAIN heap = 0 .. (PoolCtr - 1)
      BY <3>1, <3>2
    <3>. QED
      BY <3>3, <3>4, <3>5
  <2>2. CASE freeIds # {}
    BY <2>2 DEF Pool, PoolCtr, GoodIds
  <2>. QED
    BY <2>1, <2>2
<1>2. FreshId \in Pool
  BY <1>1, MinIsLeast DEF FreshId
<1>. QED
  BY <1>1, <1>2

\* What is to hold when the heap becomes h by the creation of a node.
NewNodeGood(v, n, p, prob, h) ==
  /\ \A m \in DOMAIN heap : m \in DOMAIN h /\ h[m] = heap[m]
  /\ GoodHeap(h) /\ GoodUnique(h, AddUnique(v, n, p)) /\ GoodComputed(h, computed)
  /\ GoodIds(h, Pool \ {FreshId}, PoolCtr)
  /\ Usable(heap) \subseteq Usable(h)
  /\ prob # Unset => FreshId \in Usable(h)

\* A node with a variable whose literal is known, or the literal itself, and
\* with usable children leaves the store and the tables good.
LEMMA NewNodeKeepsGood ==
  ASSUME NEW v \in Vars, NEW n \in Usable(heap), NEW p \in Usable(heap),
         NEW prob \in Unset .. Unit, prob = Unset <=> n = p,
         GoodStore(heap, unique, computed, freeIds, idCtr),
         Triple(v, Zero, One) \in DOMAIN unique \/ (n = Zero /\ p = One)
  PROVE  NewNodeGood(v, n, p, prob, NewNode(v, n, p, prob))
<1>. DEFINE h == NewNode(v, n, p, prob)
<1>. USE DEF GoodStore
<1>. DEFINE new == [var |-> v, neg |-> n, pos |-> p, prob |-> prob]
<1>1. FreshId \in Nat /\ FreshId \notin DOMAIN heap
  BY FreshIdIsFree
<1>2. /\ DOMAIN h = DOMAIN heap \cup {FreshId}
      /\ h[FreshId] = new
      /\ \A m \in DOMAIN heap : h[m] = heap[m]
      /\ h = [m \in DOMAIN heap \cup {FreshId} |-> IF m = FreshId THEN new ELSE heap[m]]
  BY <1>1 DEF NewNode, Put
<1>. HIDE DEF h
<1>3. Usable(heap) \subseteq Usable(h)
  BY <1>2 DEF Usable
<1>4. prob # Unset => FreshId \in Usable(h)
  BY <1>2 DEF Usable
<1>5. new \in Node /\ n \in Nat /\ p \in Nat
  BY DEF Node, Ref, GoodHeap, Usable
<1>6. GoodHeap(h)
  <2>1. h \in [DOMAIN h -> Node] /\ DOMAIN h \subseteq Nat
    <3>1. \A m \in DOMAIN heap : heap[m] \in Node
      BY DEF GoodHeap
    <3>. QED
      BY <1>1, <1>2, <1>5, <3>1 DEF GoodHeap
  <2>2. {Zero, One} \subseteq Usable(h)
    BY <1>3 DEF GoodHeap
  <2>3. \A m \in {Zero, One} : h[m].neg = Null /\ h[m].pos = Null
    BY <1>2 DEF GoodHeap, Usable
  <2>4. ASSUME NEW m \in DOMAIN h \ {Zero, One}
        PROVE  h[m].var \in Vars /\ h[m].neg \in Usable(h) /\ h[m].pos \in Usable(h)
    <3>1. CASE m = FreshId
      BY <1>2, <1>3, <3>1
    <3>2. CASE m \in DOMAIN heap
      BY <1>2, <1>3, <3>2 DEF GoodHeap
    <3>. QED
      BY <1>2, <3>1, <3>2
  <2>5. ASSUME NEW m \in DOMAIN h \ {Zero, One}
        PROVE  h[m].prob = Unset <=> h[m].neg = h[m].pos
    <3>1. CASE m = FreshId
      BY <1>2, <2>5, <3>1
    <3>2. CASE m \in DOMAIN heap
      BY <1>2, <2>5, <3>2 DEF GoodHeap
    <3>. QED
      BY <1>2, <3>1, <3>2
  <2>. QED
    BY <2>1, <2>2, <2>3, <2>4, <2>5 DEF GoodHeap
<1>7. GoodUnique(h, AddUnique(v, n, p))
  <2>. DEFINE u == AddUnique(v, n, p)
              key == Triple(v, n, p)
  <2>1. /\ DOMAIN u = DOMAIN unique \cup {key} /\ u[key] = FreshId
        /\ \A k \in DOMAIN unique \ {key} : u[k] = unique[k]
        /\ u = [k \in DOMAIN u |-> u[k]]
    BY DEF AddUnique, Put
  <2>2. key \in UniqueKey /\ key.var = v /\ key.neg = n /\ key.pos = p
    BY <1>5 DEF Triple, UniqueKey
  <2>. HIDE DEF u
  <2>3. DOMAIN u \subseteq UniqueKey
    BY <2>1, <2>2 DEF GoodUnique
  <2>4. ASSUME NEW k \in DOMAIN u
        PROVE  /\ u[k] \in DOMAIN h
               /\ h[u[k]].var = k.var /\ h[u[k]].neg = k.neg /\ h[u[k]].pos = k.pos
    <3>1. CASE k = key
      BY <1>2, <2>1, <2>2, <3>1
    <3>2. CASE k # key
      BY <1>2, <2>1, <3>2 DEF GoodUnique
    <3>. QED
      BY <3>1, <3>2
  <2>5. ASSUME NEW m \in DOMAIN h \ {Zero, One}
        PROVE  Triple(h[m].var, Zero, One) \in DOMAIN u
    <3>1. CASE m = FreshId
      BY <1>2, <2>1, <3>1
    <3>2. CASE m \in DOMAIN heap
      BY <1>2, <2>1, <3>2 DEF GoodUnique
    <3>. QED
      BY <1>2, <3>1, <3>2
  <2>6. u \in [DOMAIN u -> DOMAIN h]
    BY <2>1, <2>4
  <2>. QED
    BY <2>3, <2>4, <2>5, <2>6 DEF GoodUnique, u
<1>8. GoodComputed(h, computed)
  BY <1>3 DEF GoodComputed
<1>9. GoodIds(h, Pool \ {FreshId}, PoolCtr)
  BY <1>2, FreshIdIsFree DEF GoodIds
<1>. QED
  BY <1>2, <1>3, <1>4, <1>6, <1>7, <1>8, <1>9 DEF NewNodeGood, h

\* Writing the probability of a usable node again changes nothing else.
LEMMA SetProbKeepsGood ==
  ASSUME NEW n \in Usable(heap), NEW prob \in 0 .. Unit,
         GoodHeap(heap), GoodUnique(heap, unique), GoodComputed(heap, computed),
         NEW h, h = [heap EXCEPT ![n].prob = prob]
  PROVE  /\ DOMAIN h = DOMAIN heap /\ Usable(h) = Usable(heap)
         /\ \A m \in DOMAIN heap :
              h[m].var = heap[m].var /\ h[m].neg = heap[m].neg /\ h[m].pos = heap[m].pos
         /\ GoodHeap(h) /\ GoodUnique(h, unique) /\ GoodComputed(h, computed)
<1>1. DOMAIN h = DOMAIN heap /\ n \in DOMAIN heap
  BY DEF Usable
<1>2. \A m \in DOMAIN heap : heap[m] \in Node
  BY DEF GoodHeap
<1>3. /\ h[n] = [heap[n] EXCEPT !.prob = prob]
      /\ \A m \in DOMAIN heap \ {n} : h[m] = heap[m]
  BY <1>1
<1>4. /\ h[n].var = heap[n].var /\ h[n].neg = heap[n].neg /\ h[n].pos = heap[n].pos
      /\ h[n].prob = prob /\ h[n] \in Node
  BY <1>1, <1>2, <1>3, UnitAssumption DEF Node, Unset
<1>5. prob # Unset /\ heap[n].prob # Unset
  BY UnitAssumption DEF Unset, Usable
<1>6. Usable(h) = Usable(heap)
  <2>1. \A m \in DOMAIN heap : m = n \/ h[m] = heap[m]
    BY <1>3
  <2>. QED
    BY <1>1, <1>4, <1>5, <2>1 DEF Usable
<1>7. \A m \in DOMAIN heap :
        h[m].var = heap[m].var /\ h[m].neg = heap[m].neg /\ h[m].pos = heap[m].pos
  BY <1>3, <1>4
<1>8. \A m \in DOMAIN heap : h[m] \in Node
  BY <1>2, <1>3, <1>4
<1>9. GoodHeap(h)
  <2>1. h \in [DOMAIN h -> Node] /\ DOMAIN h \subseteq Nat
    <3>1. h = [m \in DOMAIN h |-> h[m]]
      BY DEF GoodHeap
    <3>. QED
      BY <1>1, <1>8, <3>1 DEF GoodHeap
  <2>2. \A m \in DOMAIN h \ {Zero, One} : h[m].prob = Unset <=> h[m].neg = h[m].pos
    BY <1>1, <1>3, <1>4, <1>5 DEF GoodHeap
  <2>. QED
    BY <1>1, <1>6, <1>7, <2>1, <2>2 DEF GoodHeap, Usable
<1>10. GoodUnique(h, unique)
  BY <1>1, <1>7 DEF GoodUnique
<1>11. GoodComputed(h, computed)
  BY <1>6 DEF GoodComputed
<1>. QED
  BY <1>1, <1>6, <1>7, <1>9, <1>10, <1>11

\* A usable node may be entered in the computed table.
LEMMA PutKeepsGood ==
  ASSUME NEW h, NEW c, GoodComputed(h, c), NEW k \in ComputedKey, NEW n \in Usable(h)
  PROVE  GoodComputed(h, Put(c, k, n))
BY DEF GoodComputed, Put

----------------------------------------------------------------------------
\* Variables and children of the nodes both stores have are the same.
Agree(g, h) ==
  \A n \in DOMAIN g \cap DOMAIN h :
    g[n].var = h[n].var /\ g[n].neg = h[n].neg /\ g[n].pos = h[n].pos

\* The operands apply has split, and is to split again for its second call,
\* have children: it is this that rules out a null pointer past ApplyNullChild.
SplitOperands(h, f) ==
  /\ h[f.l].var = f.var => f.l \notin {Zero, One}
  /\ (h[f.l].var # f.var \/ h[f.r].var = f.var) => f.r \notin {Zero, One}

ApplyFrame(h, u, f) ==
  /\ f.op \in Ops /\ f.r # Null
  /\ f.at # "enter" => f.var \in Vars /\ Triple(f.var, Zero, One) \in DOMAIN u
  /\ f.at \in {"negFirst", "posFirst"} => SplitOperands(h, f)
  /\ f.at = "second" => f.a # Null \/ f.b # Null

CofactorFrame(f) ==
  /\ f.op \in {"neg", "pos"}
  /\ f.at # "enter" => f.r # Null /\ f.l \notin {Zero, One}
  /\ f.at = "low" => f.a # Null
  /\ f.at \in {"high", "right"} => f.b # Null

\* An activation holds the pointers that the code after its pending call uses.
GoodFrame(h, u, f) ==
  /\ f \in Frame /\ f.l # Null
  /\ f.fn = "apply" => ApplyFrame(h, u, f)
  /\ f.fn = "cofactor" => CofactorFrame(f)
  /\ f.fn = "difference" /\ f.at = "second" => f.a # Null \/ f.b # Null
  /\ f.fn = "sort" /\ f.at = "swept" => f.var \in Vars

StoreInv ==
  /\ GoodHeap(heap) /\ GoodUnique(heap, unique) /\ GoodComputed(heap, computed)
  /\ GoodIds(heap, freeIds, idCtr)
  /\ doomed \subseteq DOMAIN computed

\* No local points to a node whose probability is unassigned.
LocalsInv == Locals \subseteq Usable(heap)

StackInv ==
  /\ stack \in Seq(Frame) /\ ret \in Ref /\ vals \in Seq(Nat)
  /\ \A i \in DOMAIN stack : GoodFrame(heap, unique, stack[i])

MachineInv == StoreInv /\ LocalsInv /\ StackInv

SessionInv ==
  /\ crashed \in BOOLEAN /\ tainted \in BOOLEAN
  /\ vecList \subseteq [var : Vars, prob : Unset .. Unit]
  /\ phase \in {"expr", "menu", "expr2", "done"} /\ req \in Request
  /\ tokens \in Nat /\ commands \in Nat
  /\ phase \in {"menu", "expr2"} => vals # <<>>
  /\ phase = "done" => Idle /\ DOMAIN heap = {Zero, One}

IInv == MachineInv /\ SessionInv

----------------------------------------------------------------------------
\* A frame stays good when its operands live on, and the table grows.
LEMMA FrameKept ==
  ASSUME NEW g, NEW h, NEW u, NEW w, NEW f, GoodFrame(g, u, f), Agree(g, h),
         DOMAIN u \subseteq DOMAIN w,
         Held(f) \subseteq DOMAIN g, Held(f) \subseteq DOMAIN h
  PROVE  GoodFrame(h, w, f)
<1>1. f.l # Null /\ f.l \in DOMAIN g /\ f.l \in DOMAIN h
  BY DEF GoodFrame, Held
<1>2. f.fn = "apply" => f.r \in DOMAIN g /\ f.r \in DOMAIN h
  BY DEF GoodFrame, ApplyFrame, Held
<1>3. f.fn = "apply" => h[f.l].var = g[f.l].var /\ h[f.r].var = g[f.r].var
  BY <1>1, <1>2 DEF Agree
<1>4. f.fn = "apply" => ApplyFrame(h, w, f)
  BY <1>3 DEF GoodFrame, ApplyFrame, SplitOperands
<1>. QED
  BY <1>4 DEF GoodFrame

\* A call leaves the frames below alone and holds nothing but what was held
\* and the pointers of the two frames on top.
LEMMA CallEffect ==
  ASSUME stack \in Seq(Frame), stack # <<>>, vals' = vals,
         NEW f \in Frame, NEW callee \in Frame, Call(f, callee)
  PROVE  /\ stack' \in Seq(Frame) /\ stack' # <<>> /\ ret' = Null
         /\ \A i \in DOMAIN stack' :
              stack'[i] \in {f, callee} \/ \E j \in DOMAIN stack : stack'[i] = stack[j]
         /\ Locals' \subseteq Locals \cup Held(f) \cup Held(callee)
<1>1. Len(stack) \in Nat \ {0} /\ DOMAIN stack = 1 .. Len(stack)
  BY EmptySeq, LenProperties
<1>. DEFINE rest == Front(stack)
<1>2. rest \in Seq(Frame) /\ Len(rest) = Len(stack) - 1
      /\ \A i \in 1 .. Len(rest) : rest[i] = stack[i]
  BY <1>1, SubSeqProperties DEF Front
<1>. HIDE DEF rest
<1>3. /\ stack' = Append(Append(rest, f), callee)
      /\ ret' = Null
  BY DEF Call, rest
<1>4. stack' \in Seq(Frame) /\ Len(stack') = Len(rest) + 2 /\ DOMAIN stack' = 1 .. Len(stack')
  BY <1>2, <1>3
<1>5. /\ \A i \in 1 .. Len(rest) : stack'[i] = rest[i]
      /\ stack'[Len(rest) + 1] = f /\ stack'[Len(rest) + 2] = callee
  BY <1>2, <1>3
<1>6. ASSUME NEW i \in DOMAIN stack'
      PROVE  stack'[i] \in {f, callee} \/ \E j \in DOMAIN stack : stack'[i] = stack[j]
  <2>1. CASE i \in 1 .. Len(rest)
    BY <1>1, <1>2, <1>5, <2>1
  <2>2. CASE i = Len(rest) + 1 \/ i = Len(rest) + 2
    BY <1>5, <2>2
  <2>. QED
    BY <1>2, <1>4, <2>1, <2>2
<1>7. Locals' \subseteq Locals \cup Held(f) \cup Held(callee)
  BY <1>3, <1>6 DEF Locals
<1>8. stack' # <<>>
  BY <1>2, <1>4
<1>. QED
  BY <1>3, <1>4, <1>6, <1>7, <1>8

\* A return drops the top frame and holds one more pointer at most.
LEMMA ReturnEffect ==
  ASSUME stack \in Seq(Frame), stack # <<>>, vals' = vals, NEW n, Return(n)
  PROVE  /\ stack' \in Seq(Frame) /\ ret' = n
         /\ \A i \in DOMAIN stack' : i \in DOMAIN stack /\ stack'[i] = stack[i]
         /\ Locals' \subseteq Locals \cup {n}
<1>1. Len(stack) \in Nat \ {0} /\ DOMAIN stack = 1 .. Len(stack)
  BY EmptySeq, LenProperties
<1>2. stack' = Front(stack) /\ ret' = n
  BY DEF Return
<1>3. stack' \in Seq(Frame) /\ Len(stack') = Len(stack) - 1
      /\ \A i \in 1 .. Len(stack') : stack'[i] = stack[i]
  BY <1>1, <1>2, SubSeqProperties DEF Front
<1>4. \A i \in DOMAIN stack' : i \in DOMAIN stack /\ stack'[i] = stack[i]
  BY <1>1, <1>3
<1>5. ASSUME NEW i \in DOMAIN stack', NEW x \in Held(stack'[i])
      PROVE  x \in Locals
  BY <1>4 DEF Locals
<1>6. Locals' \subseteq Locals \cup {n}
  <2>1. (UNION {Held(stack'[i]) : i \in DOMAIN stack'}) \subseteq Locals
    BY <1>5
  <2>2. Range(vals') \subseteq Locals
    BY DEF Locals
  <2>. QED
    BY <1>2, <2>1, <2>2 DEF Locals
<1>. QED
  BY <1>2, <1>3, <1>4, <1>6

----------------------------------------------------------------------------
\* The end of every action: nodes are released from a good store h that agrees
\* with the heap, and whose unreleased part the new frames are good for.
LEMMA ReleaseStep ==
  ASSUME LocalsInv, StackInv,
         NEW h, NEW ids, NEW stale, Release(h, ids, stale),
         GoodHeap(h), GoodUnique(h, unique'), GoodComputed(h, computed'), GoodIds(h, ids, idCtr'),
         DOMAIN heap \subseteq DOMAIN h, Agree(heap, h),
         Locals' \subseteq Usable(h),
         ret' \in Ref, vals' \in Seq(Nat), stack' \in Seq(Frame),
         \A i \in DOMAIN stack' :
           \/ GoodFrame(h, unique', stack'[i])
           \/ DOMAIN unique \subseteq DOMAIN unique' /\ \E j \in DOMAIN stack : stack'[i] = stack[j]
  PROVE  MachineInv' /\ Agree(heap, heap')
<1>. DEFINE live == Live(h, Pointers(unique', computed', Locals'))
<1>1. /\ heap' = Restrict(h, live) /\ freeIds' = ids \cup (DOMAIN h \ live)
      /\ doomed' \subseteq DOMAIN computed'
  BY DEF Release, Collect, Roots, Pointers
<1>2. GoodStore(heap', unique', computed', freeIds', idCtr') /\ Locals' \subseteq Usable(heap')
  <2>1. GoodStore(h, unique', computed', ids, idCtr')
    BY DEF GoodStore
  <2>2. GoodAfter(h, unique', computed', ids, idCtr', Locals', live)
    BY <2>1, ReleaseKeepsGood
  <2>. QED
    BY <1>1, <2>2 DEF GoodAfter
<1>3. Agree(h, heap') /\ Agree(heap, heap')
  <2>1. DOMAIN heap' \subseteq DOMAIN h /\ \A n \in DOMAIN heap' : heap'[n] = h[n]
    BY <1>1 DEF Restrict, Live
  <2>. QED
    BY <2>1 DEF Agree
<1>4. ASSUME NEW i \in DOMAIN stack' PROVE GoodFrame(heap', unique', stack'[i])
  <2>. DEFINE f == stack'[i]
  <2>1. f \in Frame
    BY ElementOfSeq, LenProperties
  <2>2. Held(f) \subseteq Locals' /\ Locals' \subseteq DOMAIN heap' /\ Locals' \subseteq DOMAIN h
    BY <1>2 DEF Locals, Usable
  <2>3. CASE GoodFrame(h, unique', f)
    BY <1>3, <2>2, <2>3, FrameKept
  <2>4. CASE DOMAIN unique \subseteq DOMAIN unique' /\ \E j \in DOMAIN stack : f = stack[j]
    <3>1. PICK j \in DOMAIN stack : f = stack[j]
      BY <2>4
    <3>2. GoodFrame(heap, unique, f) /\ Held(f) \subseteq DOMAIN heap
      BY <3>1 DEF StackInv, LocalsInv, Locals, Usable
    <3>. QED
      BY <1>3, <2>2, <2>4, <3>2, FrameKept
  <2>. QED
    BY <2>3, <2>4
<1>5. StoreInv'
  BY <1>1, <1>2 DEF StoreInv, GoodStore
<1>6. LocalsInv'
  BY <1>2 DEF LocalsInv
<1>7. StackInv'
  BY <1>4 DEF StackInv
<1>. QED
  BY <1>3, <1>5, <1>6, <1>7 DEF MachineInv

\* A step that only calls, or only returns, releases nodes of the same store;
\* apply's terminal case first writes a probability.
QuietStep(h) ==
  /\ UNCHANGED <<idCtr, unique, computed, vals>>
  /\ Release(h, freeIds, doomed)
  /\ DOMAIN h = DOMAIN heap /\ Usable(h) = Usable(heap) /\ Agree(heap, h)
  /\ GoodHeap(h) /\ GoodUnique(h, unique) /\ GoodComputed(h, computed)

\* What a quiet step leaves good, as ReleaseStep wants it.
LEMMA QuietIsGood ==
  ASSUME MachineInv, NEW h, QuietStep(h)
  PROVE  /\ GoodUnique(h, unique') /\ GoodComputed(h, computed')
         /\ GoodIds(h, freeIds, idCtr')
         /\ DOMAIN heap \subseteq DOMAIN h /\ DOMAIN unique \subseteq DOMAIN unique'
         /\ Locals \subseteq Usable(h) /\ Usable(h) \subseteq Nat
BY DEF QuietStep, MachineInv, StoreInv, LocalsInv, GoodIds, GoodHeap, Usable

\* A quiet call of a good frame with usable operands preserves the invariant.
LEMMA QuietCall ==
  ASSUME MachineInv, stack # <<>>, NEW h, QuietStep(h),
         NEW f, NEW callee, Call(f, callee),
         GoodFrame(heap, unique, f), GoodFrame(heap, unique, callee),
         Held(f) \cup Held(callee) \subseteq Usable(heap)
  PROVE  MachineInv' /\ Agree(heap, heap')
<1>1. f \in Frame /\ callee \in Frame
  BY DEF GoodFrame
<1>2. /\ stack' \in Seq(Frame) /\ ret' = Null
      /\ \A i \in DOMAIN stack' :
           stack'[i] \in {f, callee} \/ \E j \in DOMAIN stack : stack'[i] = stack[j]
      /\ Locals' \subseteq Locals \cup Held(f) \cup Held(callee)
  BY <1>1, CallEffect DEF MachineInv, StackInv, QuietStep
<1>3. GoodFrame(h, unique', f) /\ GoodFrame(h, unique', callee)
  <2>1. Held(f) \cup Held(callee) \subseteq DOMAIN heap
    BY DEF Usable
  <2>2. DOMAIN unique \subseteq DOMAIN unique' /\ Agree(heap, h) /\ DOMAIN h = DOMAIN heap
    BY QuietIsGood DEF QuietStep
  <2>. QED
    BY <2>1, <2>2, FrameKept
<1>4. Locals' \subseteq Usable(h)
  BY <1>2, QuietIsGood DEF QuietStep
<1>5. ret' \in Ref /\ vals' \in Seq(Nat)
  BY <1>2 DEF MachineInv, StackInv, QuietStep, Ref
<1>. QED
  BY <1>2, <1>3, <1>4, <1>5, QuietIsGood, ReleaseStep DEF MachineInv, QuietStep

\* A quiet return of a usable node preserves the invariant.
LEMMA QuietReturn ==
  ASSUME MachineInv, stack # <<>>, NEW h, QuietStep(h),
         NEW n \in Usable(heap), Return(n)
  PROVE  MachineInv' /\ Agree(heap, heap')
<1>1. /\ stack' \in Seq(Frame) /\ ret' = n
      /\ \A i \in DOMAIN stack' : \E j \in DOMAIN stack : stack'[i] = stack[j]
      /\ Locals' \subseteq Locals \cup {n}
  BY ReturnEffect DEF MachineInv, StackInv, QuietStep
<1>2. Locals' \subseteq Usable(h)
  BY <1>1, QuietIsGood DEF QuietStep
<1>3. ret' \in Ref /\ vals' \in Seq(Nat)
  BY <1>1, QuietIsGood DEF MachineInv, StackInv, QuietStep, Ref
<1>. QED
  BY <1>1, <1>2, <1>3, QuietIsGood, ReleaseStep DEF MachineInv, QuietStep

\* ReleaseOnly with the tables unchanged is quiet.
LEMMA SameStoreIsQuiet ==
  ASSUME MachineInv, UNCHANGED <<idCtr, unique, computed, vals>>, ReleaseOnly
  PROVE  QuietStep(heap)
BY DEF QuietStep, ReleaseOnly, Agree, MachineInv, StoreInv

----------------------------------------------------------------------------
\* What may be used of a node whose probability is assigned.
LEMMA UsableNode ==
  ASSUME MachineInv, NEW n \in Usable(heap)
  PROVE  /\ n \in Nat /\ n # Null /\ heap[n] \in Node /\ heap[n].prob \in 0 .. Unit
         /\ IsTerminal(n) <=> n \in {Zero, One}
         /\ n \notin {Zero, One} =>
              /\ heap[n].var \in Vars
              /\ heap[n].neg \in Usable(heap) /\ heap[n].pos \in Usable(heap)
              /\ \A branch : Child(n, branch) \in Usable(heap)
              /\ Triple(heap[n].var, Zero, One) \in DOMAIN unique
<1>1. GoodHeap(heap) /\ GoodUnique(heap, unique) /\ n \in DOMAIN heap /\ heap[n].prob # Unset
  BY DEF MachineInv, StoreInv, Usable
<1>2. n \in Nat /\ n # Null /\ heap[n] \in Node
  BY <1>1 DEF GoodHeap, Null
<1>3. heap[n].prob \in 0 .. Unit
  BY <1>1, <1>2, UnitAssumption DEF Node, Unset
<1>4. n \notin {Zero, One} =>
        heap[n].var \in Vars /\ heap[n].neg \in Usable(heap) /\ heap[n].pos \in Usable(heap)
  BY <1>1 DEF GoodHeap
<1>5. IsTerminal(n) <=> n \in {Zero, One}
  BY <1>1, <1>4 DEF GoodHeap, IsTerminal, Null, Usable
<1>. QED
  BY <1>1, <1>2, <1>3, <1>4, <1>5 DEF GoodUnique, Child

\* The two terminals are usable.
LEMMA TerminalsUsable == MachineInv => Zero \in Usable(heap) /\ One \in Usable(heap)
BY DEF MachineInv, StoreInv, GoodHeap

\* The running activation, and the pointers it holds.
LEMMA TopFrame ==
  ASSUME MachineInv, stack # <<>>
  PROVE  /\ Top \in Frame /\ GoodFrame(heap, unique, Top) /\ Held(Top) \subseteq Usable(heap)
         /\ Top.l \in Usable(heap)
<1>1. Len(stack) \in DOMAIN stack
  BY EmptySeq, LenProperties DEF MachineInv, StackInv
<1>2. GoodFrame(heap, unique, Top) /\ Held(Top) \subseteq Locals
  BY <1>1 DEF Top, MachineInv, StackInv, Locals
<1>3. Top \in Frame /\ Top.l # Null
  BY <1>2 DEF GoodFrame
<1>. QED
  BY <1>2, <1>3 DEF MachineInv, LocalsInv, Held

\* The result in flight.
LEMMA RetUsable ==
  ASSUME MachineInv, ret # Null
  PROVE  ret \in Usable(heap)
BY DEF MachineInv, LocalsInv, Locals

\* What the invariant says of the top frame when it is one of apply (project1.cpp:27).
LEMMA ApplyFrameFacts ==
  ASSUME MachineInv, stack # <<>>, Top.fn = "apply"
  PROVE  /\ ApplyFrame(heap, unique, Top) /\ Top.l \in Usable(heap) /\ Top.r \in Usable(heap)
         /\ Top.op \in Ops /\ CallKey \in ComputedKey
<1>1. ApplyFrame(heap, unique, Top) /\ Top.l \in Usable(heap) /\ Top.r \in Usable(heap)
  BY TopFrame DEF GoodFrame, ApplyFrame, Held
<1>2. Top.l \in Nat /\ Top.r \in Nat
  BY <1>1, UsableNode
<1>. QED
  BY <1>1, <1>2 DEF ApplyFrame, CallKey, KeyOf, ComputedKey

\* An activation of apply for two usable operands is good.
LEMMA ApplyCallGood ==
  ASSUME MachineInv, NEW op \in Ops, NEW l \in Usable(heap), NEW r \in Usable(heap)
  PROVE  /\ GoodFrame(heap, unique, ApplyCall(op, l, r))
         /\ Held(ApplyCall(op, l, r)) \subseteq Usable(heap)
<1>. DEFINE f == ApplyCall(op, l, r)
<1>1. l \in Nat /\ r \in Nat /\ l # Null /\ r # Null
  BY UsableNode
<1>2. /\ f.fn = "apply" /\ f.op = op /\ f.at = "enter" /\ f.var = NoVar
      /\ f.l = l /\ f.r = r /\ f.a = Null /\ f.b = Null
  BY DEF ApplyCall, Activation
<1>3. f \in Frame
  BY <1>1 DEF ApplyCall, Activation, Frame, Ref
<1>. HIDE DEF f
<1>4. GoodFrame(heap, unique, f)
  BY <1>1, <1>2, <1>3 DEF GoodFrame, ApplyFrame
<1>5. Held(f) \subseteq Usable(heap)
  BY <1>2 DEF Held
<1>. QED
  BY <1>4, <1>5 DEF f

\* So is the call for one branch when the operands that are split have one.
LEMMA SubCallGood ==
  ASSUME MachineInv, NEW f, f.op \in Ops, f.l \in Usable(heap), f.r \in Usable(heap),
         SplitOperands(heap, f), NEW branch
  PROVE  /\ GoodFrame(heap, unique, SubCall(f.op, f.var, f.l, f.r, branch))
         /\ Held(SubCall(f.op, f.var, f.l, f.r, branch)) \subseteq Usable(heap)
<1>. DEFINE l == IF heap[f.l].var = f.var THEN Child(f.l, branch) ELSE f.l
            r == IF heap[f.l].var = f.var /\ heap[f.r].var # f.var THEN f.r
                 ELSE Child(f.r, branch)
<1>1. l \in Usable(heap) /\ r \in Usable(heap)
  BY UsableNode DEF SplitOperands
<1>2. SubCall(f.op, f.var, f.l, f.r, branch) = ApplyCall(f.op, l, r)
  BY DEF SubCall
<1>. HIDE DEF l, r
<1>. QED
  BY <1>1, <1>2, ApplyCallGood

----------------------------------------------------------------------------
\* A hit in the computed table (project1.cpp:42-43) returns a usable node, stale or not.
LEMMA ApplyHitGood ==
  ASSUME MachineInv, ApplyHit
  PROVE  MachineInv' /\ Agree(heap, heap')
<1>1. stack # <<>>
  BY DEF ApplyHit, Entering
<1>2. computed[CallKey] \in Usable(heap)
  BY DEF ApplyHit, MachineInv, StoreInv, GoodComputed
<1>3. QuietStep(heap)
  BY SameStoreIsQuiet DEF ApplyHit
<1>. QED
  BY <1>1, <1>2, <1>3, QuietReturn DEF ApplyHit

\* A result found without a recursion is an operand or the terminal 0.
LEMMA OperationResult ==
  ASSUME NEW op \in Ops, NEW l, NEW r, Operation(op, l, r) # Null
  PROVE  Operation(op, l, r) \in {l, r, Zero}
BY DEF Ops, Operation, AndOp, OrOp, XorOp

\* A terminal case (project1.cpp:46-53) returns an operand or a terminal, and rewrites its probability.
LEMMA ApplyTerminalGood ==
  ASSUME MachineInv, ApplyTerminal
  PROVE  MachineInv' /\ Agree(heap, heap')
<1>. DEFINE res  == Operation(Top.op, Top.l, Top.r)
            prob == IF res = Zero THEN 0
                    ELSE IF res = One THEN Unit
                    ELSE IF IsTerminal(Top.l) THEN heap[Top.r].prob
                    ELSE heap[Top.l].prob
            h == [heap EXCEPT ![res].prob = prob]
<1>1. stack # <<>> /\ Top.fn = "apply"
  BY DEF ApplyTerminal, Entering
<1>2. /\ res # Null /\ Return(res) /\ UNCHANGED <<idCtr, unique, computed, vals>>
      /\ Release(h, freeIds, doomed)
  BY DEF ApplyTerminal
<1>3. Top.l \in Usable(heap) /\ Top.r \in Usable(heap) /\ Top.op \in Ops
  BY <1>1, ApplyFrameFacts
<1>4. res \in {Top.l, Top.r, Zero}
  BY <1>2, <1>3, OperationResult
<1>5. res \in Usable(heap)
  BY <1>3, <1>4, TerminalsUsable
<1>6. prob \in 0 .. Unit
  BY <1>3, UsableNode, UnitAssumption
<1>. HIDE DEF res, prob
<1>7. QuietStep(h)
  BY <1>2, <1>5, <1>6, SetProbKeepsGood DEF QuietStep, Agree, MachineInv, StoreInv
<1>. QED
  BY <1>1, <1>2, <1>5, <1>7, QuietReturn

----------------------------------------------------------------------------
\* The variable to split by is one the unique table has the literal of.
LEMMA NextVarKnown ==
  ASSUME MachineInv, NEW l \in Usable(heap), NEW r \in Usable(heap),
         l \notin {Zero, One} \/ r \notin {Zero, One}
  PROVE  NextVar(l, r) \in Vars /\ Triple(NextVar(l, r), Zero, One) \in DOMAIN unique
<1>1. CASE IsTerminal(l) \/ IsTerminal(r)
  BY <1>1, UsableNode DEF NextVar
<1>2. CASE ~IsTerminal(l) /\ ~IsTerminal(r)
  <2>1. {heap[l].var, heap[r].var} \in SUBSET Nat /\ {heap[l].var, heap[r].var} # {}
    BY <1>2, UsableNode, VarsAssumption
  <2>2. NextVar(l, r) \in {heap[l].var, heap[r].var}
    BY <1>2, <2>1, MinIsLeast DEF NextVar
  <2>. QED
    BY <1>2, <2>2, UsableNode
<1>. QED
  BY <1>1, <1>2

\* When an operation cannot tell its result, not both operands are terminal.
LEMMA RecursesOnNode ==
  ASSUME MachineInv, NEW op \in Ops, NEW l \in Usable(heap), NEW r \in Usable(heap),
         Operation(op, l, r) = Null
  PROVE  l \notin {Zero, One} \/ r \notin {Zero, One}
<1>1. Zero # Null /\ One # Null
  BY DEF Zero, One, Null
<1>2. SUFFICES ASSUME l \in {Zero, One}, r \in {Zero, One}
               PROVE  Operation(op, l, r) # Null
  OBVIOUS
<1>3. IsTerminal(l) /\ IsTerminal(r)
  BY <1>2, UsableNode
<1>. QED
  BY <1>1, <1>2, <1>3 DEF Ops, Operation, AndOp, OrOp, XorOp

\* The first of the two calls of lines 58-63 is made, on operands that are not null.
LEMMA ApplySplitGood ==
  ASSUME MachineInv, NEW first \in {"neg", "pos"}, ApplySplit(first)
  PROVE  MachineInv' /\ Agree(heap, heap')
<1>. DEFINE v == NextVar(Top.l, Top.r)
            sub == SubCall(Top.op, v, Top.l, Top.r, first)
            f == [Top EXCEPT !.at = IF first = "neg" THEN "negFirst" ELSE "posFirst", !.var = v]
<1>1. stack # <<>> /\ Top.fn = "apply"
  BY DEF ApplySplit, Recurses, Entering
<1>2. Null \notin {sub.l, sub.r} /\ Call(f, sub)
  BY DEF ApplySplit
<1>3. Top.l \in Usable(heap) /\ Top.r \in Usable(heap) /\ Top.op \in Ops
  BY <1>1, ApplyFrameFacts
<1>4. v \in Vars /\ Triple(v, Zero, One) \in DOMAIN unique
  BY <1>3, RecursesOnNode, NextVarKnown DEF ApplySplit, Recurses
<1>. HIDE DEF v
<1>5. f \in Frame /\ Held(f) = Held(Top)
  BY <1>1, <1>4, TopFrame DEF Frame, Held
<1>6. /\ f.fn = "apply" /\ f.op = Top.op /\ f.l = Top.l /\ f.r = Top.r /\ f.var = v
      /\ f.at \in {"negFirst", "posFirst"} /\ f.l # Null /\ f.r # Null
  BY <1>1, <1>3, TopFrame, UsableNode DEF Frame
<1>7. SplitOperands(heap, f)
  <2>1. \A n \in {Zero, One} : Child(n, first) = Null
    BY DEF MachineInv, StoreInv, GoodHeap, Child
  <2>2. /\ sub.l = IF heap[Top.l].var = v THEN Child(Top.l, first) ELSE Top.l
        /\ sub.r = IF heap[Top.l].var = v /\ heap[Top.r].var # v THEN Top.r
                   ELSE Child(Top.r, first)
    BY DEF SubCall, ApplyCall, Activation
  <2>. HIDE DEF sub, f
  <2>. QED
    BY <1>2, <1>6, <2>1, <2>2 DEF SplitOperands
<1>. HIDE DEF f
<1>8. GoodFrame(heap, unique, f)
  BY <1>4, <1>3, <1>5, <1>6, <1>7 DEF GoodFrame, ApplyFrame
<1>9. GoodFrame(heap, unique, sub) /\ Held(sub) \subseteq Usable(heap)
  BY <1>3, <1>6, <1>7, SubCallGood
<1>10. QuietStep(heap)
  BY SameStoreIsQuiet DEF ApplySplit
<1>. QED
  BY <1>1, <1>2, <1>5, <1>8, <1>9, <1>10, TopFrame, QuietCall

\* The second call of lines 58-63: the operands are still those that were split.
LEMMA ApplySecondGood ==
  ASSUME MachineInv, NEW first \in {"neg", "pos"}, ApplySecond(first)
  PROVE  MachineInv' /\ Agree(heap, heap')
<1>. DEFINE other == IF first = "neg" THEN "pos" ELSE "neg"
            f == IF first = "neg" THEN [Top EXCEPT !.at = "second", !.a = ret]
                                  ELSE [Top EXCEPT !.at = "second", !.b = ret]
            sub == SubCall(Top.op, Top.var, Top.l, Top.r, other)
<1>1. stack # <<>> /\ Top.fn = "apply" /\ ret # Null /\ Top.at \in {"negFirst", "posFirst"}
  BY DEF ApplySecond, Resumed
<1>2. Call(f, sub)
  BY DEF ApplySecond
<1>3. ApplyFrame(heap, unique, Top) /\ Top.l \in Usable(heap) /\ Top.r \in Usable(heap)
  BY <1>1, ApplyFrameFacts
<1>4. Top \in Frame /\ Held(Top) \subseteq Usable(heap) /\ ret \in Usable(heap) /\ ret \in Ref
  BY <1>1, TopFrame, RetUsable DEF MachineInv, StackInv
<1>5. f \in Frame /\ Held(f) \subseteq Usable(heap)
  BY <1>4 DEF Frame, Held
<1>6. GoodFrame(heap, unique, f)
  <2>1. /\ f.fn = "apply" /\ f.op = Top.op /\ f.l = Top.l /\ f.r = Top.r /\ f.var = Top.var
        /\ f.at = "second" /\ (f.a = ret \/ f.b = ret)
    BY <1>1, <1>4 DEF Frame
  <2>2. Top.l # Null
    BY <1>3, UsableNode
  <2>. HIDE DEF f
  <2>. QED
    BY <1>1, <1>3, <1>5, <2>1, <2>2 DEF GoodFrame, ApplyFrame
<1>7. GoodFrame(heap, unique, sub) /\ Held(sub) \subseteq Usable(heap)
  BY <1>1, <1>3, SubCallGood DEF ApplyFrame
<1>8. QuietStep(heap)
  BY SameStoreIsQuiet DEF ApplySecond
<1>. QED
  BY <1>1, <1>2, <1>5, <1>6, <1>7, <1>8, QuietCall

\* The mean of two probabilities is one.
LEMMA AverageInRange ==
  ASSUME MachineInv, NEW n \in Usable(heap), NEW p \in Usable(heap)
  PROVE  Average(n, p) \in 0 .. Unit
<1>. DEFINE x == heap[n].prob
            y == heap[p].prob
<1>1. x \in 0 .. Unit /\ y \in 0 .. Unit /\ Unit \in Nat
  BY UsableNode, UnitAssumption
<1>. HIDE DEF x, y
<1>2. (x + y) \div 2 \in 0 .. Unit
  BY <1>1
<1>. QED
  BY <1>2 DEF Average, x, y

\* The node made at lines 58-70 keeps the store good: when it is redundant only
\* the unique table has it, otherwise its probability is assigned.
LEMMA ApplyBuildGood ==
  ASSUME MachineInv, ApplyBuild
  PROVE  MachineInv' /\ Agree(heap, heap')
<1>. DEFINE neg == IF Top.a = Null THEN ret ELSE Top.a
            pos == IF Top.a = Null THEN Top.b ELSE ret
            prob == IF Redundant(neg, pos) THEN Unset ELSE Average(neg, pos)
            h == NewNode(Top.var, neg, pos, prob)
            result == IF Redundant(neg, pos) THEN neg ELSE FreshId
            stale == IF Redundant(neg, pos) THEN doomed ELSE doomed \ {CallKey}
<1>1. stack # <<>> /\ Top.fn = "apply" /\ ret # Null /\ Top.at = "second"
  BY DEF ApplyBuild, Resumed
<1>2. /\ idCtr' = PoolCtr /\ unique' = AddUnique(Top.var, neg, pos)
      /\ computed' = Remember(neg, pos) /\ vals' = vals /\ Return(result)
      /\ Release(h, Pool \ {FreshId}, stale)
  BY DEF ApplyBuild
<1>3. /\ Top.var \in Vars /\ Triple(Top.var, Zero, One) \in DOMAIN unique
      /\ CallKey \in ComputedKey
  BY <1>1, ApplyFrameFacts DEF ApplyFrame
<1>4. neg \in Usable(heap) /\ pos \in Usable(heap)
  BY <1>1, ApplyFrameFacts, TopFrame, RetUsable DEF ApplyFrame, Held
<1>5. prob \in Unset .. Unit /\ (prob = Unset <=> neg = pos)
  BY <1>4, AverageInRange, UnitAssumption DEF Redundant, Unset
<1>. HIDE DEF neg, pos, prob, h
<1>6. NewNodeGood(Top.var, neg, pos, prob, h)
  <2>1. GoodStore(heap, unique, computed, freeIds, idCtr)
    BY DEF MachineInv, StoreInv, GoodStore
  <2>. QED
    BY <1>3, <1>4, <1>5, <2>1, NewNodeKeepsGood DEF h
<1>7. /\ \A m \in DOMAIN heap : m \in DOMAIN h /\ h[m] = heap[m]
      /\ GoodHeap(h) /\ GoodUnique(h, unique') /\ GoodComputed(h, computed)
      /\ GoodIds(h, Pool \ {FreshId}, idCtr')
      /\ Usable(heap) \subseteq Usable(h)
      /\ prob # Unset => FreshId \in Usable(h)
  BY <1>2, <1>6 DEF NewNodeGood
<1>8. result \in Usable(h)
  BY <1>4, <1>5, <1>7 DEF Redundant
<1>9. GoodComputed(h, computed')
  BY <1>2, <1>3, <1>5, <1>7, PutKeepsGood DEF Remember, Redundant
<1>10. /\ stack' \in Seq(Frame) /\ ret' = result
       /\ \A i \in DOMAIN stack' : \E j \in DOMAIN stack : stack'[i] = stack[j]
       /\ Locals' \subseteq Locals \cup {result}
  BY <1>1, <1>2, ReturnEffect DEF MachineInv, StackInv
<1>11. Locals' \subseteq Usable(h)
  BY <1>7, <1>8, <1>10 DEF MachineInv, LocalsInv
<1>12. ret' \in Ref /\ vals' \in Seq(Nat)
  BY <1>2, <1>7, <1>8, <1>10 DEF MachineInv, StackInv, Ref, GoodHeap, Usable
<1>13. DOMAIN heap \subseteq DOMAIN h /\ Agree(heap, h) /\ DOMAIN unique \subseteq DOMAIN unique'
  BY <1>2, <1>7 DEF Agree, AddUnique, Put
<1>. QED
  BY <1>2, <1>7, <1>9, <1>10, <1>11, <1>12, <1>13, ReleaseStep DEF MachineInv

----------------------------------------------------------------------------
\* The steps of the functions that call apply.

\* These steps leave the store alone, except for what they release.
LEMMA CallIsQuiet ==
  ASSUME MachineInv, CallUnchanged, ReleaseOnly
  PROVE  QuietStep(heap)
BY SameStoreIsQuiet DEF CallUnchanged

\* An activation of another function is good for a usable operand.
LEMMA CofactorCallGood ==
  ASSUME MachineInv, NEW polarity \in {"neg", "pos"}, NEW n \in Usable(heap),
         NEW v \in Vars \cup {NoVar}
  PROVE  /\ GoodFrame(heap, unique, CofactorCall(polarity, n, v))
         /\ Held(CofactorCall(polarity, n, v)) \subseteq Usable(heap)
<1>. DEFINE f == CofactorCall(polarity, n, v)
<1>1. n \in Nat /\ n # Null
  BY UsableNode
<1>2. /\ f.fn = "cofactor" /\ f.op = polarity /\ f.at = "enter"
      /\ f.l = n /\ f.r = Null /\ f.a = Null /\ f.b = Null
  BY DEF CofactorCall, Activation
<1>3. f \in Frame
  BY <1>1 DEF CofactorCall, Activation, Frame, Ref
<1>. HIDE DEF f
<1>4. GoodFrame(heap, unique, f) /\ Held(f) \subseteq Usable(heap)
  BY <1>1, <1>2, <1>3 DEF GoodFrame, CofactorFrame, Held
<1>. QED
  BY <1>4 DEF f

\* A call of boolean_difference on a usable node (project1.cpp:113).
LEMMA DifferenceCallGood ==
  ASSUME MachineInv, NEW n \in Usable(heap), NEW v \in Vars
  PROVE  /\ GoodFrame(heap, unique, DifferenceCall(n, v))
         /\ Held(DifferenceCall(n, v)) \subseteq Usable(heap)
<1>. DEFINE f == DifferenceCall(n, v)
<1>1. n \in Nat /\ n # Null
  BY UsableNode
<1>2. /\ f.fn = "difference" /\ f.at = "enter"
      /\ f.l = n /\ f.r = Null /\ f.a = Null /\ f.b = Null
  BY DEF DifferenceCall, Activation
<1>3. f \in Frame
  BY <1>1 DEF DifferenceCall, Activation, Frame, Ref
<1>. HIDE DEF f
<1>4. GoodFrame(heap, unique, f) /\ Held(f) \subseteq Usable(heap)
  BY <1>1, <1>2, <1>3 DEF GoodFrame, Held
<1>. QED
  BY <1>4 DEF f

\* A call of sort_by_influence on a usable node (project1.cpp:145).
LEMMA SortCallGood ==
  ASSUME MachineInv, NEW n \in Usable(heap)
  PROVE  /\ GoodFrame(heap, unique, SortCall(n))
         /\ Held(SortCall(n)) \subseteq Usable(heap)
<1>. DEFINE f == SortCall(n)
<1>1. n \in Nat /\ n # Null
  BY UsableNode
<1>2. /\ f.fn = "sort" /\ f.at = "enter"
      /\ f.l = n /\ f.r = Null /\ f.a = Null /\ f.b = Null
  BY DEF SortCall, Activation
<1>3. f \in Frame
  BY <1>1 DEF SortCall, Activation, Frame, Ref
<1>. HIDE DEF f
<1>4. GoodFrame(heap, unique, f) /\ Held(f) \subseteq Usable(heap)
  BY <1>1, <1>2, <1>3 DEF GoodFrame, Held
<1>. QED
  BY <1>4 DEF f

----------------------------------------------------------------------------
\* A cofactor's frame moves to its next point: it keeps its node and literal,
\* and holds the results that point needs.
LEMMA CofactorMoves ==
  ASSUME MachineInv, stack # <<>>, Top.fn = "cofactor",
         CallUnchanged, ReleaseOnly,
         NEW f \in Frame, NEW callee, Call(f, callee),
         f.fn = "cofactor", f.op = Top.op, f.l = Top.l, CofactorFrame(f),
         f.r \in Usable(heap) \cup {Null},
         f.a \in Usable(heap) \cup {Null}, f.b \in Usable(heap) \cup {Null},
         GoodFrame(heap, unique, callee), Held(callee) \subseteq Usable(heap)
  PROVE  MachineInv' /\ Agree(heap, heap')
<1>1. Top.l \in Usable(heap) /\ Top.l # Null
  BY TopFrame, UsableNode
<1>2. GoodFrame(heap, unique, f)
  BY <1>1 DEF GoodFrame
<1>3. Held(f) \subseteq Usable(heap)
  BY <1>1 DEF Held
<1>4. QuietStep(heap)
  BY CallIsQuiet
<1>. QED
  BY <1>2, <1>3, <1>4, QuietCall

\* What a cofactor's frame holds.
LEMMA CofactorFrameFacts ==
  ASSUME MachineInv, stack # <<>>, Top.fn = "cofactor"
  PROVE  /\ CofactorFrame(Top) /\ Top \in Frame /\ Top.l \in Usable(heap)
         /\ Top.var \in Vars \cup {NoVar}
         /\ {Top.r, Top.a, Top.b} \subseteq Usable(heap) \cup {Null}
         /\ {Top.r, Top.a, Top.b} \subseteq Ref
BY TopFrame DEF GoodFrame, Held, Frame

\* The early returns (project1.cpp:81-83, 100-102).
LEMMA CofactorTrivialGood ==
  ASSUME MachineInv, CofactorTrivial
  PROVE  MachineInv' /\ Agree(heap, heap')
<1>1. stack # <<>> /\ CallUnchanged /\ ReleaseOnly
  BY DEF CofactorTrivial, Entering
<1>2. PICK n : n = (IF CofactorIsRoot THEN Child(Top.l, Top.op) ELSE Top.l) /\ Return(n)
  BY DEF CofactorTrivial
<1>3. n \in Usable(heap)
  BY <1>1, <1>2, TopFrame, UsableNode DEF CofactorIsRoot
<1>. QED
  BY <1>1, <1>2, <1>3, CallIsQuiet, QuietReturn

\* The literal is found where the code does not check it (project1.cpp:85-86).
LEMMA CofactorRootBarGood ==
  ASSUME MachineInv, CofactorRootBar
  PROVE  MachineInv' /\ Agree(heap, heap')
<1>. DEFINE root == FindUnique(heap[Top.l].var, Zero, One)
            f == [Top EXCEPT !.at = "bar", !.r = root]
<1>1. stack # <<>> /\ Top.fn = "cofactor" /\ CallUnchanged /\ ReleaseOnly
      /\ root # Null /\ Call(f, ApplyCall("xor", root, One)) /\ ~IsTerminal(Top.l)
  BY DEF CofactorRootBar, Entering, CofactorBelow
<1>2. /\ root \in DOMAIN heap /\ heap[root].neg = Zero /\ heap[root].pos = One
      /\ heap[root].prob = Unset => Zero = One
  BY <1>1 DEF FindUnique, Triple, MachineInv, StoreInv, GoodUnique, GoodHeap
<1>3. root \in Usable(heap)
  BY <1>2 DEF Usable, Zero, One
<1>. HIDE DEF root
<1>4. root \in Ref
  BY <1>3, UsableNode DEF Ref
<1>5. CofactorFrame(Top) /\ Top \in Frame /\ Top.l \notin {Zero, One}
      /\ {Top.a, Top.b} \subseteq Usable(heap) \cup {Null}
  BY <1>1, CofactorFrameFacts, UsableNode
<1>6. /\ f \in Frame /\ f.fn = "cofactor" /\ f.op = Top.op /\ f.l = Top.l /\ f.at = "bar"
      /\ f.r = root /\ f.a = Top.a /\ f.b = Top.b
  BY <1>1, <1>4, <1>5 DEF Frame
<1>. HIDE DEF f
<1>7. CofactorFrame(f)
  BY <1>1, <1>5, <1>6 DEF CofactorFrame
<1>8. GoodFrame(heap, unique, ApplyCall("xor", root, One))
      /\ Held(ApplyCall("xor", root, One)) \subseteq Usable(heap)
  BY <1>3, TerminalsUsable, ApplyCallGood DEF Ops
<1>. QED
  BY <1>1, <1>3, <1>5, <1>6, <1>7, <1>8, CofactorMoves

\* The cofactor of the negative child (project1.cpp:87).
LEMMA CofactorLowGood ==
  ASSUME MachineInv, CofactorLow
  PROVE  MachineInv' /\ Agree(heap, heap')
<1>. DEFINE f == [Top EXCEPT !.at = "low", !.a = ret]
            callee == CofactorCall(Top.op, heap[Top.l].neg, Top.var)
<1>1. /\ stack # <<>> /\ Top.fn = "cofactor" /\ Top.at = "bar" /\ ret # Null
      /\ CallUnchanged /\ ReleaseOnly /\ Call(f, callee)
  BY DEF CofactorLow, Resumed
<1>2. /\ CofactorFrame(Top) /\ Top \in Frame /\ Top.l \in Usable(heap)
      /\ {Top.r, Top.a, Top.b} \subseteq Usable(heap) \cup {Null}
      /\ Top.var \in Vars \cup {NoVar} /\ Top.l \notin {Zero, One}
      /\ ret \in Usable(heap) /\ ret \in Ref
  BY <1>1, CofactorFrameFacts, RetUsable DEF CofactorFrame, MachineInv, StackInv
<1>3. GoodFrame(heap, unique, callee) /\ Held(callee) \subseteq Usable(heap)
  BY <1>1, <1>2, UsableNode, CofactorCallGood DEF CofactorFrame, Ops
<1>4. /\ f \in Frame /\ f.fn = "cofactor" /\ f.op = Top.op /\ f.l = Top.l /\ f.at = "low"
      /\ f.r = Top.r /\ f.a = ret /\ f.b = Top.b
  BY <1>1, <1>2 DEF Frame
<1>. HIDE DEF f, callee
<1>5. CofactorFrame(f)
  BY <1>1, <1>2, <1>4 DEF CofactorFrame
<1>. QED
  BY <1>1, <1>2, <1>3, <1>4, <1>5, CofactorMoves

\* Its conjunction with the complemented literal (project1.cpp:87).
LEMMA CofactorLeftGood ==
  ASSUME MachineInv, CofactorLeft
  PROVE  MachineInv' /\ Agree(heap, heap')
<1>. DEFINE f == [Top EXCEPT !.at = "left"]
            callee == ApplyCall("and", Top.a, ret)
<1>1. /\ stack # <<>> /\ Top.fn = "cofactor" /\ Top.at = "low" /\ ret # Null
      /\ CallUnchanged /\ ReleaseOnly /\ Call(f, callee)
  BY DEF CofactorLeft, Resumed
<1>2. /\ CofactorFrame(Top) /\ Top \in Frame /\ Top.l \in Usable(heap)
      /\ {Top.r, Top.a, Top.b} \subseteq Usable(heap) \cup {Null}
      /\ Top.var \in Vars \cup {NoVar} /\ Top.l \notin {Zero, One}
      /\ ret \in Usable(heap) /\ ret \in Ref
  BY <1>1, CofactorFrameFacts, RetUsable DEF CofactorFrame, MachineInv, StackInv
<1>3. GoodFrame(heap, unique, callee) /\ Held(callee) \subseteq Usable(heap)
  BY <1>1, <1>2, UsableNode, ApplyCallGood DEF CofactorFrame, Ops
<1>4. /\ f \in Frame /\ f.fn = "cofactor" /\ f.op = Top.op /\ f.l = Top.l /\ f.at = "left"
      /\ f.r = Top.r /\ f.a = Top.a /\ f.b = Top.b
  BY <1>1, <1>2 DEF Frame
<1>. HIDE DEF f, callee
<1>5. CofactorFrame(f)
  BY <1>1, <1>2, <1>4 DEF CofactorFrame
<1>. QED
  BY <1>1, <1>2, <1>3, <1>4, <1>5, CofactorMoves

\* The cofactor of the positive child (project1.cpp:88).
LEMMA CofactorHighGood ==
  ASSUME MachineInv, CofactorHigh
  PROVE  MachineInv' /\ Agree(heap, heap')
<1>. DEFINE f == [Top EXCEPT !.at = "high", !.b = ret]
            callee == CofactorCall(Top.op, heap[Top.l].pos, Top.var)
<1>1. /\ stack # <<>> /\ Top.fn = "cofactor" /\ Top.at = "left" /\ ret # Null
      /\ CallUnchanged /\ ReleaseOnly /\ Call(f, callee)
  BY DEF CofactorHigh, Resumed
<1>2. /\ CofactorFrame(Top) /\ Top \in Frame /\ Top.l \in Usable(heap)
      /\ {Top.r, Top.a, Top.b} \subseteq Usable(heap) \cup {Null}
      /\ Top.var \in Vars \cup {NoVar} /\ Top.l \notin {Zero, One}
      /\ ret \in Usable(heap) /\ ret \in Ref
  BY <1>1, CofactorFrameFacts, RetUsable DEF CofactorFrame, MachineInv, StackInv
<1>3. GoodFrame(heap, unique, callee) /\ Held(callee) \subseteq Usable(heap)
  BY <1>1, <1>2, UsableNode, CofactorCallGood DEF CofactorFrame, Ops
<1>4. /\ f \in Frame /\ f.fn = "cofactor" /\ f.op = Top.op /\ f.l = Top.l /\ f.at = "high"
      /\ f.r = Top.r /\ f.a = Top.a /\ f.b = ret
  BY <1>1, <1>2 DEF Frame
<1>. HIDE DEF f, callee
<1>5. CofactorFrame(f)
  BY <1>1, <1>2, <1>4 DEF CofactorFrame
<1>. QED
  BY <1>1, <1>2, <1>3, <1>4, <1>5, CofactorMoves

\* Its conjunction with the literal (project1.cpp:88).
LEMMA CofactorRightGood ==
  ASSUME MachineInv, CofactorRight
  PROVE  MachineInv' /\ Agree(heap, heap')
<1>. DEFINE f == [Top EXCEPT !.at = "right"]
            callee == ApplyCall("and", Top.r, ret)
<1>1. /\ stack # <<>> /\ Top.fn = "cofactor" /\ Top.at = "high" /\ ret # Null
      /\ CallUnchanged /\ ReleaseOnly /\ Call(f, callee)
  BY DEF CofactorRight, Resumed
<1>2. /\ CofactorFrame(Top) /\ Top \in Frame /\ Top.l \in Usable(heap)
      /\ {Top.r, Top.a, Top.b} \subseteq Usable(heap) \cup {Null}
      /\ Top.var \in Vars \cup {NoVar} /\ Top.l \notin {Zero, One}
      /\ ret \in Usable(heap) /\ ret \in Ref
  BY <1>1, CofactorFrameFacts, RetUsable DEF CofactorFrame, MachineInv, StackInv
<1>3. GoodFrame(heap, unique, callee) /\ Held(callee) \subseteq Usable(heap)
  BY <1>1, <1>2, UsableNode, ApplyCallGood DEF CofactorFrame, Ops
<1>4. /\ f \in Frame /\ f.fn = "cofactor" /\ f.op = Top.op /\ f.l = Top.l /\ f.at = "right"
      /\ f.r = Top.r /\ f.a = Top.a /\ f.b = Top.b
  BY <1>1, <1>2 DEF Frame
<1>. HIDE DEF f, callee
<1>5. CofactorFrame(f)
  BY <1>1, <1>2, <1>4 DEF CofactorFrame
<1>. QED
  BY <1>1, <1>2, <1>3, <1>4, <1>5, CofactorMoves

\* The disjunction of the two (project1.cpp:89).
LEMMA CofactorJoinGood ==
  ASSUME MachineInv, CofactorJoin
  PROVE  MachineInv' /\ Agree(heap, heap')
<1>. DEFINE f == [Top EXCEPT !.at = "join"]
            callee == ApplyCall("or", Top.b, ret)
<1>1. /\ stack # <<>> /\ Top.fn = "cofactor" /\ Top.at = "right" /\ ret # Null
      /\ CallUnchanged /\ ReleaseOnly /\ Call(f, callee)
  BY DEF CofactorJoin, Resumed
<1>2. /\ CofactorFrame(Top) /\ Top \in Frame /\ Top.l \in Usable(heap)
      /\ {Top.r, Top.a, Top.b} \subseteq Usable(heap) \cup {Null}
      /\ Top.var \in Vars \cup {NoVar} /\ Top.l \notin {Zero, One}
      /\ ret \in Usable(heap) /\ ret \in Ref
  BY <1>1, CofactorFrameFacts, RetUsable DEF CofactorFrame, MachineInv, StackInv
<1>3. GoodFrame(heap, unique, callee) /\ Held(callee) \subseteq Usable(heap)
  BY <1>1, <1>2, UsableNode, ApplyCallGood DEF CofactorFrame, Ops
<1>4. /\ f \in Frame /\ f.fn = "cofactor" /\ f.op = Top.op /\ f.l = Top.l /\ f.at = "join"
      /\ f.r = Top.r /\ f.a = Top.a /\ f.b = Top.b
  BY <1>1, <1>2 DEF Frame
<1>. HIDE DEF f, callee
<1>5. CofactorFrame(f)
  BY <1>1, <1>2, <1>4 DEF CofactorFrame
<1>. QED
  BY <1>1, <1>2, <1>3, <1>4, <1>5, CofactorMoves

----------------------------------------------------------------------------
\* The first cofactor of boolean_difference, either one (project1.cpp:119).
LEMMA DifferenceFirstGood ==
  ASSUME MachineInv, NEW first \in {"neg", "pos"}, DifferenceFirst(first)
  PROVE  MachineInv' /\ Agree(heap, heap')
<1>. DEFINE f == [Top EXCEPT !.at = IF first = "neg" THEN "negFirst" ELSE "posFirst"]
            callee == CofactorCall(first, Top.l, Top.var)
<1>1. /\ stack # <<>> /\ Top.fn = "difference"
      /\ CallUnchanged /\ ReleaseOnly /\ Call(f, callee)
  BY DEF DifferenceFirst, Entering
<1>2. Top \in Frame /\ Top.l \in Usable(heap) /\ Top.l # Null /\ Held(Top) \subseteq Usable(heap)
  BY <1>1, TopFrame, UsableNode
<1>3. GoodFrame(heap, unique, callee) /\ Held(callee) \subseteq Usable(heap)
  BY <1>2, CofactorCallGood DEF Frame
<1>4. /\ f \in Frame /\ f.fn = "difference" /\ f.at # "second" /\ f.l = Top.l
      /\ Held(f) = Held(Top)
  BY <1>1, <1>2 DEF Frame, Held
<1>. HIDE DEF f, callee
<1>5. GoodFrame(heap, unique, f)
  BY <1>2, <1>4 DEF GoodFrame
<1>. QED
  BY <1>1, <1>2, <1>3, <1>4, <1>5, CallIsQuiet, QuietCall

\* The other cofactor, while the first is held (project1.cpp:119).
LEMMA DifferenceSecondGood ==
  ASSUME MachineInv, NEW first \in {"neg", "pos"}, DifferenceSecond(first)
  PROVE  MachineInv' /\ Agree(heap, heap')
<1>. DEFINE f == IF first = "neg" THEN [Top EXCEPT !.at = "second", !.a = ret]
                                  ELSE [Top EXCEPT !.at = "second", !.b = ret]
            callee == CofactorCall(IF first = "neg" THEN "pos" ELSE "neg", Top.l, Top.var)
<1>1. /\ stack # <<>> /\ Top.fn = "difference" /\ ret # Null
      /\ CallUnchanged /\ ReleaseOnly /\ Call(f, callee)
  BY DEF DifferenceSecond, Resumed
<1>2. /\ Top \in Frame /\ Top.l \in Usable(heap) /\ Top.l # Null /\ Held(Top) \subseteq Usable(heap)
      /\ ret \in Usable(heap) /\ ret \in Ref
  BY <1>1, TopFrame, UsableNode, RetUsable DEF MachineInv, StackInv
<1>3. GoodFrame(heap, unique, callee) /\ Held(callee) \subseteq Usable(heap)
  BY <1>2, CofactorCallGood DEF Frame
<1>4. /\ f \in Frame /\ f.fn = "difference" /\ f.l = Top.l /\ (f.a = ret \/ f.b = ret)
      /\ Held(f) \subseteq Usable(heap)
  BY <1>1, <1>2 DEF Frame, Held
<1>. HIDE DEF f, callee
<1>5. GoodFrame(heap, unique, f)
  BY <1>1, <1>2, <1>4 DEF GoodFrame
<1>. QED
  BY <1>1, <1>3, <1>4, <1>5, CallIsQuiet, QuietCall

\* The exclusive or of the two (project1.cpp:119).
LEMMA DifferenceXorGood ==
  ASSUME MachineInv, DifferenceXor
  PROVE  MachineInv' /\ Agree(heap, heap')
<1>. DEFINE neg == IF Top.a = Null THEN ret ELSE Top.a
            pos == IF Top.a = Null THEN Top.b ELSE ret
            f == [Top EXCEPT !.at = "join"]
            callee == ApplyCall("xor", pos, neg)
<1>1. /\ stack # <<>> /\ Top.fn = "difference" /\ Top.at = "second" /\ ret # Null
      /\ CallUnchanged /\ ReleaseOnly /\ Call(f, callee)
  BY DEF DifferenceXor, Resumed
<1>2. /\ Top \in Frame /\ Top.l \in Usable(heap) /\ Top.l # Null /\ Held(Top) \subseteq Usable(heap)
      /\ ret \in Usable(heap) /\ (Top.a # Null \/ Top.b # Null)
  BY <1>1, TopFrame, UsableNode, RetUsable DEF GoodFrame
<1>3. neg \in Usable(heap) /\ pos \in Usable(heap)
  BY <1>1, <1>2 DEF Held
<1>. HIDE DEF neg, pos
<1>4. GoodFrame(heap, unique, callee) /\ Held(callee) \subseteq Usable(heap)
  BY <1>3, ApplyCallGood DEF Ops
<1>5. /\ f \in Frame /\ f.fn = "difference" /\ f.at = "join" /\ f.l = Top.l
      /\ Held(f) = Held(Top)
  BY <1>1, <1>2 DEF Frame, Held
<1>. HIDE DEF f, callee
<1>6. GoodFrame(heap, unique, f)
  BY <1>2, <1>5 DEF GoodFrame
<1>. QED
  BY <1>1, <1>2, <1>4, <1>5, <1>6, CallIsQuiet, QuietCall

\* The last apply's result is returned (project1.cpp:89, 119).
LEMMA ReturnJoinedGood ==
  ASSUME MachineInv, ReturnJoined
  PROVE  MachineInv' /\ Agree(heap, heap')
<1>1. stack # <<>> /\ ret # Null /\ CallUnchanged /\ ReleaseOnly /\ Return(ret)
  BY DEF ReturnJoined, Resumed
<1>. QED
  BY <1>1, RetUsable, CallIsQuiet, QuietReturn

----------------------------------------------------------------------------
\* The variable the sweep comes to next is one of np's.
LEMMA NextSwept ==
  ASSUME Unswept # {}
  PROVE  (CHOOSE w \in Unswept : \A u \in Unswept : SweepRank[w] <= SweepRank[u]) \in Unswept \cap Vars
<1>. DEFINE ranks == {SweepRank[u] : u \in Unswept}
<1>1. Unswept \subseteq Vars
  BY DEF Unswept
<1>2. ranks \in SUBSET Nat /\ ranks # {}
  BY <1>1, SweepAssumption
<1>3. Min(ranks) \in ranks /\ \A m \in ranks : Min(ranks) <= m
  BY <1>2, MinIsLeast
<1>4. \E w \in Unswept : \A u \in Unswept : SweepRank[w] <= SweepRank[u]
  BY <1>3
<1>. QED
  BY <1>1, <1>4

\* The next variable's difference is asked for (project1.cpp:152-159).
LEMMA SortSweepGood ==
  ASSUME MachineInv, SortSweep
  PROVE  MachineInv' /\ Agree(heap, heap')
<1>. DEFINE v == CHOOSE w \in Unswept : \A u \in Unswept : SweepRank[w] <= SweepRank[u]
            f == [Top EXCEPT !.at = "swept", !.var = v]
            callee == DifferenceCall(Top.l, v)
<1>1. /\ stack # <<>> /\ Top.fn = "sort" /\ Call(f, callee) /\ Unswept # {}
      /\ UNCHANGED <<idCtr, unique, computed, vals>> /\ ReleaseOnly
  BY DEF SortSweep, Sorting, Entering, Resumed
<1>2. v \in Vars
  BY <1>1, NextSwept
<1>. HIDE DEF v
<1>3. Top \in Frame /\ Top.l \in Usable(heap) /\ Top.l # Null /\ Held(Top) \subseteq Usable(heap)
  BY <1>1, TopFrame, UsableNode
<1>4. GoodFrame(heap, unique, callee) /\ Held(callee) \subseteq Usable(heap)
  BY <1>2, <1>3, DifferenceCallGood
<1>5. f \in Frame /\ f.fn = "sort" /\ f.var = v /\ f.l = Top.l /\ Held(f) = Held(Top)
  BY <1>1, <1>2, <1>3 DEF Frame, Held
<1>. HIDE DEF f, callee
<1>6. GoodFrame(heap, unique, f)
  BY <1>2, <1>3, <1>5 DEF GoodFrame
<1>. QED
  BY <1>1, <1>3, <1>4, <1>5, <1>6, SameStoreIsQuiet, QuietCall

\* The sort ends and returns its argument (project1.cpp:161-167).
LEMMA SortFinishGood ==
  ASSUME MachineInv, SortFinish
  PROVE  MachineInv' /\ Agree(heap, heap')
<1>1. /\ stack # <<>> /\ Return(Top.l)
      /\ UNCHANGED <<idCtr, unique, computed, vals>> /\ ReleaseOnly
  BY DEF SortFinish, Sorting, Entering, Resumed
<1>. QED
  BY <1>1, TopFrame, SameStoreIsQuiet, QuietReturn

\* The pairs collected so far have a variable and a probability each.
LEMMA CollectedTyped ==
  ASSUME MachineInv, Sorting, vecList \subseteq [var : Vars, prob : Unset .. Unit]
  PROVE  Collected \subseteq [var : Vars, prob : Unset .. Unit]
<1>1. CASE Top.at = "enter"
  BY <1>1 DEF Collected
<1>2. CASE Top.at # "enter"
  <2>1. stack # <<>> /\ Top.fn = "sort" /\ Top.at = "swept" /\ ret # Null
    BY <1>2 DEF Sorting, Entering, Resumed
  <2>2. Top.var \in Vars /\ heap[ret].prob \in Unset .. Unit
    BY <2>1, TopFrame, RetUsable, UsableNode, UnitAssumption DEF GoodFrame, Unset
  <2>. QED
    BY <1>2, <2>2 DEF Collected
<1>. QED
  BY <1>1, <1>2

----------------------------------------------------------------------------
\* A call from main or bdd_from_expr, on an empty stack.
LEMMA InvokeGood ==
  ASSUME MachineInv, Idle, NEW f, NEW r, Invoke(f, r),
         UNCHANGED <<idCtr, unique, computed, vals>>, ReleaseOnly,
         GoodFrame(heap, unique, f), Held(f) \subseteq Usable(heap)
  PROVE  MachineInv' /\ Agree(heap, heap')
<1>1. f \in Frame /\ stack' = <<f>> /\ ret' = Null
  BY DEF GoodFrame, Invoke
<1>2. stack' \in Seq(Frame) /\ \A i \in DOMAIN stack' : stack'[i] = f
  BY <1>1
<1>3. Locals' \subseteq Locals \cup Held(f)
  BY <1>1, <1>2 DEF Locals
<1>4. QuietStep(heap)
  BY SameStoreIsQuiet
<1>5. Locals' \subseteq Usable(heap)
  BY <1>3 DEF MachineInv, LocalsInv
<1>6. ret' \in Ref /\ vals' \in Seq(Nat)
  BY <1>1 DEF MachineInv, StackInv, Ref
<1>7. \A i \in DOMAIN stack' : GoodFrame(heap, unique', stack'[i])
  BY <1>2
<1>. QED
  BY <1>2, <1>4, <1>5, <1>6, <1>7, QuietIsGood, ReleaseStep DEF MachineInv, QuietStep

\* A pointer is pushed on the operand stack.
LEMMA AppendPointer ==
  ASSUME NEW s \in Seq(Nat), NEW n \in Nat
  PROVE  /\ Append(s, n) \in Seq(Nat) /\ Append(s, n) # <<>>
         /\ Range(Append(s, n)) \subseteq Range(s) \cup {n}
<1>1. Append(s, n) \in Seq(Nat) /\ Len(Append(s, n)) = Len(s) + 1 /\ Len(s) \in Nat
  BY AppendProperties
<1>2. Range(Append(s, n)) \subseteq Range(s) \cup {n}
  BY DEF Range
<1>3. \A t \in Seq(Nat) : Len(t) = Len(s) + 1 => t # <<>>
  BY <1>1
<1>. QED
  BY <1>1, <1>2, <1>3

\* bdd_from_expr returns a node: made, found or a terminal (main.cpp:298-314).
LEMMA PushGood ==
  ASSUME MachineInv, NEW h, NEW ids, NEW stale, NEW n \in Usable(h),
         Release(h, ids, stale), UNCHANGED <<stack, ret>>, vals' = Append(vals, n),
         GoodHeap(h), GoodUnique(h, unique'), GoodComputed(h, computed'), GoodIds(h, ids, idCtr'),
         DOMAIN heap \subseteq DOMAIN h, Agree(heap, h), Usable(heap) \subseteq Usable(h),
         DOMAIN unique \subseteq DOMAIN unique'
  PROVE  MachineInv' /\ Agree(heap, heap') /\ vals' # <<>>
<1>1. n \in Nat
  BY DEF GoodHeap, Usable
<1>2. stack \in Seq(Frame) /\ ret \in Ref /\ vals \in Seq(Nat) /\ Locals \subseteq Usable(heap)
  BY DEF MachineInv, StackInv, LocalsInv
<1>3. /\ vals' \in Seq(Nat) /\ vals' # <<>> /\ Range(vals') \subseteq Range(vals) \cup {n}
      /\ Locals' \subseteq Locals \cup {n}
  BY <1>1, <1>2, AppendPointer DEF Locals
<1>4. Locals' \subseteq Usable(h)
  BY <1>2, <1>3
<1>5. ret' \in Ref /\ stack' \in Seq(Frame)
      /\ \A i \in DOMAIN stack' : \E j \in DOMAIN stack : stack'[i] = stack[j]
  BY <1>2
<1>. QED
  BY <1>3, <1>4, <1>5, ReleaseStep DEF MachineInv

\* '0' and '1' (main.cpp:303-305).
LEMMA ReadConstantGood ==
  ASSUME MachineInv, ReadConstant
  PROVE  MachineInv' /\ Agree(heap, heap') /\ vals' # <<>>
<1>1. PICK n \in {Zero, One} : vals' = Append(vals, n)
  BY DEF ReadConstant
<1>2. UNCHANGED <<idCtr, unique, computed, stack, ret>> /\ Release(heap, freeIds, doomed)
  BY DEF ReadConstant, ReleaseOnly
<1>3. /\ GoodHeap(heap) /\ GoodUnique(heap, unique') /\ GoodComputed(heap, computed')
      /\ GoodIds(heap, freeIds, idCtr') /\ Agree(heap, heap)
  BY <1>2 DEF MachineInv, StoreInv, Agree
<1>. QED
  BY <1>1, <1>2, <1>3, TerminalsUsable, PushGood

\* The literal of a variable, when the unique table has it.
LEMMA LiteralUsable ==
  ASSUME MachineInv, NEW v, FindUnique(v, Zero, One) # Null
  PROVE  FindUnique(v, Zero, One) \in Usable(heap)
<1>. DEFINE n == FindUnique(v, Zero, One)
<1>1. /\ n \in DOMAIN heap /\ heap[n].neg = Zero /\ heap[n].pos = One
      /\ heap[n].prob = Unset => heap[n].neg = heap[n].pos
  BY DEF FindUnique, Triple, MachineInv, StoreInv, GoodUnique, GoodHeap
<1>. QED
  BY <1>1 DEF Usable, Zero, One

\* A variable that has a literal (main.cpp:307, 310): its probability is written again.
LEMMA ReadKnownGood ==
  ASSUME MachineInv, NEW v \in Vars, ReadKnown(v)
  PROVE  MachineInv' /\ Agree(heap, heap') /\ vals' # <<>>
<1>. DEFINE n == FindUnique(v, Zero, One)
            h == [heap EXCEPT ![n].prob = Average(Zero, One)]
<1>1. /\ n # Null /\ vals' = Append(vals, n) /\ Release(h, freeIds, doomed)
      /\ UNCHANGED <<idCtr, unique, computed, stack, ret>>
  BY DEF ReadKnown
<1>2. n \in Usable(heap) /\ Average(Zero, One) \in 0 .. Unit
  BY <1>1, LiteralUsable, TerminalsUsable, AverageInRange
<1>. HIDE DEF n
<1>3. /\ DOMAIN h = DOMAIN heap /\ Usable(h) = Usable(heap)
      /\ \A m \in DOMAIN heap :
           h[m].var = heap[m].var /\ h[m].neg = heap[m].neg /\ h[m].pos = heap[m].pos
      /\ GoodHeap(h) /\ GoodUnique(h, unique) /\ GoodComputed(h, computed)
  BY <1>2, SetProbKeepsGood DEF MachineInv, StoreInv
<1>. HIDE DEF h
<1>4. Agree(heap, h) /\ GoodIds(h, freeIds, idCtr')
  BY <1>1, <1>3 DEF Agree, GoodIds, MachineInv, StoreInv
<1>. QED
  BY <1>1, <1>2, <1>3, <1>4, PushGood

\* A variable that has none (main.cpp:308-310): the literal is created.
LEMMA ReadNewGood ==
  ASSUME MachineInv, NEW v \in Vars, ReadNew(v)
  PROVE  MachineInv' /\ Agree(heap, heap') /\ vals' # <<>>
<1>. DEFINE prob == Average(Zero, One)
            h == NewNode(v, Zero, One, prob)
<1>1. /\ idCtr' = PoolCtr /\ unique' = AddUnique(v, Zero, One) /\ computed' = computed
      /\ vals' = Append(vals, FreshId) /\ UNCHANGED <<stack, ret>>
      /\ Release(h, Pool \ {FreshId}, doomed)
  BY DEF ReadNew
<1>2. Zero \in Usable(heap) /\ One \in Usable(heap)
  BY TerminalsUsable
<1>3. prob \in Unset .. Unit /\ prob # Unset
  BY <1>2, AverageInRange, UnitAssumption DEF Unset
<1>4. GoodStore(heap, unique, computed, freeIds, idCtr)
  BY DEF MachineInv, StoreInv, GoodStore
<1>. HIDE DEF prob
<1>5. NewNodeGood(v, Zero, One, prob, h)
  BY <1>2, <1>3, <1>4, NewNodeKeepsGood DEF Zero, One
<1>. HIDE DEF h
<1>6. /\ GoodHeap(h) /\ GoodUnique(h, unique') /\ GoodComputed(h, computed')
      /\ GoodIds(h, Pool \ {FreshId}, idCtr')
      /\ DOMAIN heap \subseteq DOMAIN h /\ Agree(heap, h) /\ Usable(heap) \subseteq Usable(h)
      /\ FreshId \in Usable(h)
  BY <1>1, <1>3, <1>5 DEF NewNodeGood, Agree
<1>7. DOMAIN unique \subseteq DOMAIN unique'
  BY <1>1 DEF AddUnique, Put
<1>. QED
  BY <1>1, <1>6, <1>7, PushGood

----------------------------------------------------------------------------
\* A pointer on the operand stack is usable.
LEMMA ValUsable ==
  ASSUME MachineInv, NEW i \in DOMAIN vals
  PROVE  vals[i] \in Usable(heap)
BY DEF MachineInv, LocalsInv, Locals, Range

\* NOT (main.cpp:315-322) calls apply with a pending operand.
LEMMA ReadNotGood ==
  ASSUME MachineInv, ReadNot
  PROVE  MachineInv' /\ Agree(heap, heap') /\ vals' # <<>>
<1>1. /\ Idle /\ Operands >= 1
      /\ UNCHANGED <<idCtr, unique, computed, vals>> /\ ReleaseOnly
      /\ Invoke(ApplyCall("xor", Last(vals), One), [op |-> "not", var |-> NoVar])
  BY DEF ReadNot, Reading, Ready
<1>2. vals \in Seq(Nat) /\ Len(vals) >= 1
  BY <1>1 DEF MachineInv, StackInv, Operands
<1>3. Len(vals) \in DOMAIN vals /\ vals # <<>> /\ Last(vals) = vals[Len(vals)]
  BY <1>2 DEF Last
<1>4. Last(vals) \in Usable(heap)
  BY <1>3, ValUsable
<1>. QED
  BY <1>1, <1>3, <1>4, TerminalsUsable, ApplyCallGood, InvokeGood DEF Ops

\* AND and OR (main.cpp:323-333) call apply with two pending operands.
LEMMA ReadBinaryGood ==
  ASSUME MachineInv, NEW op \in {"and", "or"}, ReadBinary(op)
  PROVE  MachineInv' /\ Agree(heap, heap') /\ vals' # <<>>
<1>1. /\ Idle /\ Operands >= 2
      /\ UNCHANGED <<idCtr, unique, computed, vals>> /\ ReleaseOnly
      /\ Invoke(ApplyCall(op, vals[Len(vals) - 1], Last(vals)), [op |-> op, var |-> NoVar])
  BY DEF ReadBinary, Reading, Ready
<1>2. vals \in Seq(Nat) /\ Len(vals) >= 2
  BY <1>1 DEF MachineInv, StackInv, Operands
<1>3. /\ Len(vals) \in DOMAIN vals /\ Len(vals) - 1 \in DOMAIN vals
      /\ vals # <<>> /\ Last(vals) = vals[Len(vals)]
  BY <1>2 DEF Last
<1>4. Last(vals) \in Usable(heap) /\ vals[Len(vals) - 1] \in Usable(heap)
  BY <1>3, ValUsable
<1>. QED
  BY <1>1, <1>3, <1>4, ApplyCallGood, InvokeGood DEF Ops

\* In the menu expr1 is there, and usable.
LEMMA Expr1Usable ==
  ASSUME IInv, phase = "menu"
  PROVE  vals # <<>> /\ vals[1] \in Usable(heap)
<1>1. vals \in Seq(Nat) /\ vals # <<>>
  BY DEF IInv, SessionInv, MachineInv, StackInv
<1>2. 1 \in DOMAIN vals
  BY <1>1, EmptySeq, LenProperties
<1>. QED
  BY <1>1, <1>2, ValUsable DEF IInv

\* The menu's commands (main.cpp:88-128) call with expr1, which is usable.
LEMMA CommandGood ==
  ASSUME IInv, Command
  PROVE  MachineInv' /\ Agree(heap, heap') /\ phase \in {"menu", "expr2"} /\ vals' = vals
<1>. USE DEF IInv
<1>1. ASSUME NEW v \in Vars, NEW polarity \in {"neg", "pos"}, MenuCofactor(polarity, v)
      PROVE  MachineInv' /\ Agree(heap, heap') /\ phase = "menu" /\ vals' = vals
  <2>1. /\ Idle /\ phase = "menu" /\ UNCHANGED <<idCtr, unique, computed, vals>> /\ ReleaseOnly
        /\ Invoke(CofactorCall(polarity, vals[1], v), [op |-> polarity, var |-> v])
    BY <1>1 DEF MenuCofactor, Menu, Ready
  <2>. QED
    BY <2>1, Expr1Usable, CofactorCallGood, InvokeGood
<1>2. ASSUME NEW v \in Vars, MenuDifference(v)
      PROVE  MachineInv' /\ Agree(heap, heap') /\ phase = "menu" /\ vals' = vals
  <2>1. /\ Idle /\ phase = "menu" /\ UNCHANGED <<idCtr, unique, computed, vals>> /\ ReleaseOnly
        /\ Invoke(DifferenceCall(vals[1], v), [op |-> "diff", var |-> v])
    BY <1>2 DEF MenuDifference, Menu, Ready
  <2>. QED
    BY <2>1, Expr1Usable, DifferenceCallGood, InvokeGood
<1>3. ASSUME MenuSort
      PROVE  MachineInv' /\ Agree(heap, heap') /\ phase = "menu" /\ vals' = vals
  <2>1. /\ Idle /\ phase = "menu" /\ UNCHANGED <<idCtr, unique, computed, vals>> /\ ReleaseOnly
        /\ Invoke(SortCall(vals[1]), [op |-> "sort", var |-> NoVar])
    BY <1>3 DEF MenuSort, Menu, Ready
  <2>. QED
    BY <2>1, Expr1Usable, SortCallGood, InvokeGood
<1>4. ASSUME MenuApply
      PROVE  MachineInv' /\ Agree(heap, heap') /\ phase = "menu" /\ vals' = vals
  <2>1. UNCHANGED <<tableVars, machineVars>> /\ phase = "menu"
    BY <1>4 DEF MenuApply, Menu, Ready
  <2>2. MachineInv'
    BY <2>1 DEF MachineInv, StoreInv, LocalsInv, StackInv, Locals, tableVars, machineVars
  <2>. QED
    BY <2>1, <2>2 DEF Agree, tableVars, machineVars
<1>5. ASSUME NEW op \in Ops, ApplyToSecond(op)
      PROVE  MachineInv' /\ Agree(heap, heap') /\ phase = "expr2" /\ vals' = vals
  <2>1. /\ Idle /\ phase = "expr2" /\ Operands = 1
        /\ UNCHANGED <<idCtr, unique, computed, vals>> /\ ReleaseOnly
        /\ Invoke(ApplyCall(op, vals[1], vals[2]), [op |-> op, var |-> NoVar])
    BY <1>5 DEF ApplyToSecond, Ready
  <2>2. vals \in Seq(Nat) /\ Len(vals) = 2
    BY <2>1 DEF MachineInv, StackInv, Operands
  <2>3. vals[1] \in Usable(heap) /\ vals[2] \in Usable(heap)
    BY <2>2, ValUsable
  <2>. QED
    BY <2>1, <2>3, ApplyCallGood, InvokeGood
<1>. QED
  BY <1>1, <1>2, <1>3, <1>4, <1>5 DEF Command

\* The result replaces the operands of its call (main.cpp:129-136, 320, 330).
LEMMA DeliverGood ==
  ASSUME MachineInv, Deliver
  PROVE  MachineInv' /\ Agree(heap, heap') /\ vals' # <<>>
<1>. DEFINE arity == IF req.op \in Ops THEN 2 ELSE 1
            kept == SubSeq(vals, 1, Len(vals) - arity)
<1>1. /\ ret # Null /\ ret' = Null /\ vals' = Append(kept, ret)
      /\ UNCHANGED <<idCtr, unique, computed, stack>> /\ Release(heap, freeIds, doomed)
  BY DEF Deliver, ReleaseOnly
<1>2. vals \in Seq(Nat) /\ stack \in Seq(Frame) /\ ret \in Usable(heap) /\ ret \in Nat
  BY <1>1, RetUsable, UsableNode DEF MachineInv, StackInv
<1>3. kept \in Seq(Nat) /\ Range(kept) \subseteq Range(vals)
  <2>1. Len(vals) \in Nat /\ Len(vals) - arity \in Int /\ Len(vals) - arity <= Len(vals)
    BY <1>2
  <2>. HIDE DEF arity
  <2>2. kept \in Seq(Nat) /\ \A i \in DOMAIN kept : i \in DOMAIN vals /\ kept[i] = vals[i]
    BY <1>2, <2>1
  <2>. QED
    BY <2>2 DEF Range
<1>. HIDE DEF kept
<1>4. vals' \in Seq(Nat) /\ vals' # <<>> /\ Range(vals') \subseteq Range(kept) \cup {ret}
  BY <1>1, <1>2, <1>3, AppendPointer
<1>5. Locals' \subseteq Usable(heap)
  BY <1>1, <1>2, <1>3, <1>4 DEF Locals, MachineInv, LocalsInv
<1>6. /\ GoodHeap(heap) /\ GoodUnique(heap, unique') /\ GoodComputed(heap, computed')
      /\ GoodIds(heap, freeIds, idCtr') /\ Agree(heap, heap)
  BY <1>1 DEF MachineInv, StoreInv, Agree
<1>7. ret' \in Ref /\ stack' \in Seq(Frame)
      /\ \A i \in DOMAIN stack' : \E j \in DOMAIN stack : stack'[i] = stack[j]
  BY <1>1, <1>2 DEF Ref
<1>. QED
  BY <1>1, <1>4, <1>5, <1>6, <1>7, ReleaseStep DEF MachineInv

\* When the tables are cleared and no local is left, only the terminals stay.
LEMMA QuitGood ==
  ASSUME MachineInv, Quit
  PROVE  MachineInv' /\ Agree(heap, heap') /\ Idle' /\ DOMAIN heap' = {Zero, One}
<1>1. /\ Idle /\ vals' = <<>> /\ computed' = NoEntries /\ unique' = NoEntries
      /\ UNCHANGED <<idCtr, stack, ret>> /\ Release(heap, freeIds, doomed)
  BY DEF Quit, Ready, Clear, ReleaseOnly
<1>2. Locals' = {}
  BY <1>1 DEF Locals, Idle, Range
<1>3. Roots' = {Zero, One}
  BY <1>1, <1>2 DEF Roots, NoEntries, Range
<1>4. Live(heap, {Zero, One}) = {Zero, One}
  <2>1. {Zero, One} \subseteq DOMAIN heap /\ \A n \in {Zero, One} : heap[n].neg = Null /\ heap[n].pos = Null
    BY DEF MachineInv, StoreInv, GoodHeap, Usable
  <2>2. Closed(heap, {Zero, One} \cup {})
    BY <2>1 DEF Closed
  <2>3. {} \in SUBSET (DOMAIN heap \ {Zero, One})
    OBVIOUS
  <2>. QED
    BY <2>1, <2>2, <2>3 DEF Live
<1>5. /\ heap' = Restrict(heap, {Zero, One}) /\ freeIds' = freeIds \cup (DOMAIN heap \ {Zero, One})
      /\ doomed' \subseteq DOMAIN computed'
  BY <1>1, <1>3, <1>4 DEF Release, Collect
<1>6. DOMAIN heap' = {Zero, One} /\ \A n \in {Zero, One} : heap'[n] = heap[n]
  BY <1>5 DEF Restrict
<1>7. GoodHeap(heap) /\ GoodIds(heap, freeIds, idCtr)
  BY DEF MachineInv, StoreInv
<1>8. GoodHeap(heap')
  <2>1. {Zero, One} \subseteq Usable(heap)
    BY <1>7 DEF GoodHeap
  <2>2. {Zero, One} \subseteq Usable(heap')
    BY <1>6, <2>1 DEF Usable
  <2>3. heap' \in [DOMAIN heap' -> Node] /\ DOMAIN heap' \subseteq Nat
    <3>1. \A n \in {Zero, One} : heap[n] \in Node /\ n \in Nat
      BY <1>7, <2>1 DEF GoodHeap, Usable
    <3>. QED
      BY <1>5, <1>6, <3>1 DEF Restrict
  <2>. QED
    BY <1>6, <1>7, <2>2, <2>3 DEF GoodHeap
<1>9. GoodUnique(heap', unique') /\ GoodComputed(heap', computed')
  BY <1>1, <1>6 DEF GoodUnique, GoodComputed, NoEntries
<1>10. GoodIds(heap', freeIds', idCtr')
  <2>1. {Zero, One} \subseteq DOMAIN heap
    BY <1>7 DEF GoodHeap, Usable
  <2>. QED
    BY <1>1, <1>5, <1>6, <1>7, <2>1 DEF GoodIds
<1>11. StoreInv' /\ LocalsInv'
  BY <1>2, <1>5, <1>8, <1>9, <1>10 DEF StoreInv, LocalsInv
<1>12. StackInv' /\ Idle'
  <2>1. stack' = <<>> /\ ret' = Null
    BY <1>1 DEF Idle
  <2>. QED
    BY <1>1, <2>1 DEF StackInv, Idle, Ref
<1>13. Agree(heap, heap')
  BY <1>6 DEF Agree
<1>. QED
  BY <1>6, <1>11, <1>12, <1>13 DEF MachineInv

----------------------------------------------------------------------------
\* Every step of apply preserves the machine's invariant (project1.cpp:27-71).
LEMMA ApplyStepGood ==
  ASSUME MachineInv, ApplyStep
  PROVE  MachineInv' /\ Agree(heap, heap')
<1>1. CASE ApplyHit
  BY <1>1, ApplyHitGood
<1>2. CASE ApplyTerminal
  BY <1>2, ApplyTerminalGood
<1>3. CASE \E first \in {"neg", "pos"} : ApplySplit(first) \/ ApplySecond(first)
  BY <1>3, ApplySplitGood, ApplySecondGood
<1>4. CASE ApplyNullChild
  <2>1. UNCHANGED <<tableVars, stack, ret, vals>>
    BY <1>4 DEF ApplyNullChild
  <2>2. MachineInv'
    BY <2>1 DEF MachineInv, StoreInv, LocalsInv, StackInv, Locals, tableVars
  <2>. QED
    BY <2>1, <2>2 DEF Agree, tableVars
<1>5. CASE ApplyBuild
  BY <1>5, ApplyBuildGood
<1>. QED
  BY <1>1, <1>2, <1>3, <1>4, <1>5 DEF ApplyStep

\* So does every step of the functions that call it (project1.cpp:73-168).
LEMMA CofactorStepGood ==
  ASSUME MachineInv, CofactorStep
  PROVE  MachineInv' /\ Agree(heap, heap')
<1>1. CASE \E first \in {"neg", "pos"} : DifferenceFirst(first) \/ DifferenceSecond(first)
  BY <1>1, DifferenceFirstGood, DifferenceSecondGood
<1>2. CASE CofactorTrivial \/ CofactorRootBar \/ CofactorLow \/ CofactorLeft
  BY <1>2, CofactorTrivialGood, CofactorRootBarGood, CofactorLowGood, CofactorLeftGood
<1>3. CASE CofactorHigh \/ CofactorRight \/ CofactorJoin
  BY <1>3, CofactorHighGood, CofactorRightGood, CofactorJoinGood
<1>4. CASE DifferenceXor \/ ReturnJoined \/ SortSweep \/ SortFinish
  BY <1>4, DifferenceXorGood, ReturnJoinedGood, SortSweepGood, SortFinishGood
<1>. QED
  BY <1>1, <1>2, <1>3, <1>4 DEF CofactorStep

\* The control variables of a step that calls or returns.
LEMMA ApplyControl ==
  ASSUME IInv, ApplyStep, UNCHANGED <<sortVars, sessionVars>>
  PROVE  SessionInv'
<1>1. stack # <<>> /\ vals' = vals /\ crashed' \in BOOLEAN /\ tainted' \in BOOLEAN
  <2>. USE DEF IInv, SessionInv
  <2>1. CASE ApplyHit
    BY <2>1 DEF ApplyHit, Entering
  <2>2. CASE ApplyTerminal
    BY <2>2 DEF ApplyTerminal, Entering
  <2>3. CASE \E first \in {"neg", "pos"} : ApplySplit(first) \/ ApplySecond(first)
    BY <2>3 DEF ApplySplit, ApplySecond, Recurses, Entering, Resumed
  <2>4. CASE ApplyNullChild
    BY <2>4 DEF ApplyNullChild, Recurses, Entering, tableVars
  <2>5. CASE ApplyBuild
    BY <2>5 DEF ApplyBuild, Resumed
  <2>. QED
    BY <2>1, <2>2, <2>3, <2>4, <2>5 DEF ApplyStep
<1>2. phase # "done"
  BY <1>1 DEF IInv, SessionInv, Idle
<1>. QED
  BY <1>1, <1>2 DEF IInv, SessionInv, sortVars, sessionVars

\* The control variables of a step of the cofactors, the difference or the sort.
LEMMA CofactorControl ==
  ASSUME IInv, CofactorStep, UNCHANGED sessionVars
  PROVE  SessionInv'
<1>1. CASE CofactorStep /\ CallUnchanged /\ stack # <<>>
  <2>1. UNCHANGED <<vals, crashed, tainted, vecList>> /\ phase # "done"
    BY <1>1 DEF CallUnchanged, sortVars, IInv, SessionInv, Idle
  <2>. QED
    BY <2>1 DEF IInv, SessionInv, sessionVars
<1>2. CASE SortSweep \/ SortFinish
  <2>1. /\ Sorting /\ stack # <<>> /\ UNCHANGED <<vals, crashed, tainted>>
        /\ vecList' = Collected \/ vecList' = {}
    BY <1>2 DEF SortSweep, SortFinish, Sorting, Entering, Resumed
  <2>2. phase # "done"
    BY <2>1 DEF IInv, SessionInv, Idle
  <2>3. vecList' \subseteq [var : Vars, prob : Unset .. Unit]
    BY <2>1, CollectedTyped DEF IInv, SessionInv
  <2>. QED
    BY <2>1, <2>2, <2>3 DEF IInv, SessionInv, sessionVars
<1>3. ASSUME ~ (SortSweep \/ SortFinish) PROVE CallUnchanged /\ stack # <<>>
  <2>1. CASE \E first \in {"neg", "pos"} : DifferenceFirst(first) \/ DifferenceSecond(first)
    BY <2>1 DEF DifferenceFirst, DifferenceSecond, Entering, Resumed
  <2>2. CASE CofactorTrivial \/ CofactorRootBar
    BY <2>2 DEF CofactorTrivial, CofactorRootBar, Entering
  <2>3. CASE CofactorLow \/ CofactorLeft \/ CofactorHigh
    BY <2>3 DEF CofactorLow, CofactorLeft, CofactorHigh, Resumed
  <2>4. CASE CofactorRight \/ CofactorJoin \/ DifferenceXor \/ ReturnJoined
    BY <2>4 DEF CofactorRight, CofactorJoin, DifferenceXor, ReturnJoined, Resumed
  <2>. QED
    BY <1>3, <2>1, <2>2, <2>3, <2>4 DEF CofactorStep
<1>. QED
  BY <1>1, <1>2, <1>3

\* bdd_from_expr's steps (main.cpp:290-340) preserve the whole invariant.
LEMMA ReadTokenGood ==
  ASSUME IInv, ReadToken
  PROVE  IInv' /\ Agree(heap, heap')
<1>1. MachineInv' /\ Agree(heap, heap') /\ vals' # <<>>
  BY ReadConstantGood, ReadKnownGood, ReadNewGood, ReadNotGood, ReadBinaryGood DEF ReadToken, IInv
<1>2. /\ phase \in {"expr", "expr2"} /\ phase' = phase /\ commands' = commands
      /\ tokens > 0 /\ tokens' = tokens - 1
      /\ UNCHANGED <<crashed, tainted, sortVars>>
      /\ req' \in {req} \cup [op : {"not", "and", "or"}, var : {NoVar}]
  <2>. USE DEF Reading, Ready, Fits, Token
  <2>1. CASE ReadConstant
    BY <2>1 DEF ReadConstant
  <2>2. CASE \E v \in Vars : ReadKnown(v) \/ ReadNew(v)
    BY <2>2 DEF ReadKnown, ReadNew
  <2>3. CASE ReadNot
    BY <2>3 DEF ReadNot, Invoke
  <2>4. CASE \E op \in {"and", "or"} : ReadBinary(op)
    BY <2>4 DEF ReadBinary, Invoke
  <2>. QED
    BY <2>1, <2>2, <2>3, <2>4 DEF ReadToken
<1>3. req' \in Request /\ tokens' \in Nat
  BY <1>2 DEF IInv, SessionInv, Request
<1>4. SessionInv'
  BY <1>1, <1>2, <1>3 DEF IInv, SessionInv, sortVars
<1>. QED
  BY <1>1, <1>4 DEF IInv

\* So do the menu's commands (main.cpp:88-128).
LEMMA CommandControl ==
  ASSUME IInv, Command
  PROVE  IInv' /\ Agree(heap, heap')
<1>1. MachineInv' /\ Agree(heap, heap') /\ phase \in {"menu", "expr2"} /\ vals' = vals
  BY CommandGood
<1>2. /\ phase' \in {"menu", "expr2"} /\ UNCHANGED <<crashed, tainted, sortVars>>
      /\ req' \in {req} \cup [op : Ops \cup {"neg", "pos", "diff", "sort"}, var : Vars \cup {NoVar}]
      /\ tokens' \in {tokens, 0, MaxSecond}
      /\ commands' = commands \/ (commands > 0 /\ commands' = commands - 1)
  <2>. USE DEF Menu, Ready, Invoke
  <2>1. CASE \E v \in Vars : \/ \E polarity \in {"neg", "pos"} : MenuCofactor(polarity, v)
                            \/ MenuDifference(v)
    BY <2>1 DEF MenuCofactor, MenuDifference
  <2>2. CASE MenuSort
    BY <2>2 DEF MenuSort
  <2>3. CASE MenuApply
    BY <2>3 DEF MenuApply, machineVars, tableVars
  <2>4. CASE \E op \in Ops : ApplyToSecond(op)
    BY <2>4 DEF ApplyToSecond
  <2>. QED
    BY <2>1, <2>2, <2>3, <2>4 DEF Command
<1>3. req' \in Request /\ tokens' \in Nat /\ commands' \in Nat
  BY <1>2, BoundsAssumption DEF IInv, SessionInv, Request, Ops
<1>4. SessionInv'
  BY <1>1, <1>2, <1>3 DEF IInv, SessionInv, sortVars
<1>. QED
  BY <1>1, <1>4 DEF IInv

\* Every step preserves the invariant and changes no node that lives on.
LEMMA StepGood ==
  ASSUME IInv, [Next]_vars
  PROVE  IInv' /\ Agree(heap, heap')
<1>. USE DEF IInv
<1>1. CASE UNCHANGED vars
  <2>1. UNCHANGED <<tableVars, machineVars, sortVars, sessionVars>>
    BY <1>1 DEF vars
  <2>. QED
    BY <2>1 DEF MachineInv, StoreInv, LocalsInv, StackInv, Locals, SessionInv, Idle, Agree,
                tableVars, machineVars, sortVars, sessionVars
<1>2. CASE ApplyStep /\ UNCHANGED <<sortVars, sessionVars>>
  BY <1>2, ApplyStepGood, ApplyControl
<1>3. CASE CofactorStep /\ UNCHANGED sessionVars
  BY <1>3, CofactorStepGood, CofactorControl
<1>4. CASE Deliver
  <2>1. MachineInv' /\ Agree(heap, heap') /\ vals' # <<>>
    BY <1>4, DeliverGood
  <2>2. /\ ret # Null /\ req' = NoRequest
        /\ UNCHANGED <<crashed, tainted, sortVars, phase, tokens, commands>>
    BY <1>4 DEF Deliver
  <2>3. phase # "done"
    BY <2>2 DEF SessionInv, Idle
  <2>. QED
    BY <2>1, <2>2, <2>3 DEF SessionInv, NoRequest, Request, sortVars
<1>5. CASE ReadToken
  BY <1>5, ReadTokenGood
<1>6. CASE EndExpression
  <2>1. /\ UNCHANGED <<tableVars, machineVars, sortVars, req, commands>>
        /\ phase' = "menu" /\ tokens' = 0 /\ Len(vals) = 1
    BY <1>6 DEF EndExpression
  <2>2. MachineInv' /\ Agree(heap, heap')
    BY <2>1 DEF MachineInv, StoreInv, LocalsInv, StackInv, Locals, Agree, tableVars, machineVars
  <2>3. vals' # <<>>
    BY <2>1 DEF machineVars
  <2>. QED
    BY <2>1, <2>2, <2>3 DEF SessionInv, tableVars, machineVars, sortVars
<1>7. CASE Command
  BY <1>7, CommandControl
<1>8. CASE Quit
  <2>1. MachineInv' /\ Agree(heap, heap') /\ Idle' /\ DOMAIN heap' = {Zero, One}
    BY <1>8, QuitGood
  <2>2. phase' = "done" /\ UNCHANGED <<crashed, tainted, sortVars, req, tokens, commands>>
    BY <1>8 DEF Quit
  <2>. QED
    BY <2>1, <2>2 DEF SessionInv, sortVars
<1>. QED
  BY <1>1, <1>2, <1>3, <1>4, <1>5, <1>6, <1>7, <1>8 DEF Next, Compute, Typed, Stopped

\* The state main starts from, with the two terminals alone (bdd_node.cpp:30-57).
LEMMA InitGood == Init => IInv
<1>. SUFFICES ASSUME Init PROVE IInv
  OBVIOUS
<1>1. /\ stack = <<>> /\ ret = Null /\ vals = <<>> /\ crashed = FALSE
      /\ vecList = {} /\ phase = "expr" /\ req = NoRequest
      /\ tokens \in Nat \ {0} /\ commands \in Nat /\ tainted = FALSE
      /\ doomed = {} /\ unique = NoEntries /\ computed = NoEntries
      /\ freeIds = 2 .. (FirstIds - 1) /\ idCtr = FirstIds
  BY BoundsAssumption DEF Init, TablesInit
<1>2. PICK byte \in OneVarBytes :
        heap = [n \in {Zero, One} |->
                 [var |-> IF n = Zero THEN NoVar ELSE byte, neg |-> Null, pos |-> Null,
                  prob |-> IF n = Zero THEN 0 ELSE Unit]]
  BY DEF Init, TablesInit
<1>3. /\ DOMAIN heap = {Zero, One} /\ \A n \in {Zero, One} : heap[n].neg = Null /\ heap[n].pos = Null
      /\ {Zero, One} \subseteq Usable(heap)
  BY <1>2, UnitAssumption DEF Usable, Unset, Zero, One
<1>4. heap \in [{Zero, One} -> Node]
  BY <1>2, UnitAssumption, BytesAssumption DEF Node, Unset, Ref
<1>5. GoodHeap(heap)
  BY <1>3, <1>4 DEF GoodHeap, Zero, One, Usable
<1>6. GoodUnique(heap, unique) /\ GoodComputed(heap, computed)
  BY <1>1, <1>3 DEF GoodUnique, GoodComputed, NoEntries
<1>7. GoodIds(heap, freeIds, idCtr)
  BY <1>1, <1>3, IdsAssumption DEF GoodIds, Zero, One
<1>8. Locals = {}
  BY <1>1 DEF Locals, Range
<1>9. MachineInv
  BY <1>1, <1>5, <1>6, <1>7, <1>8 DEF MachineInv, StoreInv, LocalsInv, StackInv, Ref
<1>10. SessionInv
  BY <1>1, BoundsAssumption DEF SessionInv, NoRequest, Request
<1>. QED
  BY <1>9, <1>10 DEF IInv

----------------------------------------------------------------------------
\* What the invariant says of the properties that runs check.
LEMMA TypeFromInv == IInv => TypeOK
<1>. SUFFICES ASSUME IInv PROVE TypeOK
  OBVIOUS
<1>1. GoodHeap(heap) /\ GoodUnique(heap, unique) /\ GoodComputed(heap, computed)
      /\ GoodIds(heap, freeIds, idCtr) /\ doomed \subseteq DOMAIN computed
      /\ StackInv /\ SessionInv
  BY DEF IInv, MachineInv, StoreInv
<1>2. heap \in [DOMAIN heap -> Node] /\ DOMAIN heap \subseteq Nat /\ Usable(heap) \subseteq Nat
  BY <1>1 DEF GoodHeap, Usable
<1>3. freeIds \subseteq Nat /\ idCtr \in Nat
  BY <1>1 DEF GoodIds
<1>4. DOMAIN unique \subseteq UniqueKey /\ unique \in [DOMAIN unique -> Nat]
  BY <1>1, <1>2 DEF GoodUnique
<1>5. DOMAIN computed \subseteq ComputedKey /\ computed \in [DOMAIN computed -> Nat]
  BY <1>1, <1>2 DEF GoodComputed
<1>. QED
  BY <1>1, <1>2, <1>3, <1>4, <1>5 DEF TypeOK, StackInv, SessionInv

\* Good tables, good nodes and usable locals point to live nodes only.
LEMMA DanglingFromInv == IInv => NoDangling
<1>. SUFFICES ASSUME IInv PROVE NoDangling
  OBVIOUS
<1>1. GoodHeap(heap) /\ GoodUnique(heap, unique) /\ GoodComputed(heap, computed)
      /\ Locals \subseteq Usable(heap) /\ Usable(heap) \subseteq DOMAIN heap
  BY DEF IInv, MachineInv, StoreInv, LocalsInv, Usable
<1>2. \A n \in DOMAIN heap : {heap[n].neg, heap[n].pos} \subseteq DOMAIN heap \cup {Null}
  BY <1>1 DEF GoodHeap
<1>3. Range(unique) \subseteq DOMAIN heap /\ Range(computed) \subseteq DOMAIN heap
  BY <1>1 DEF GoodUnique, GoodComputed, Range
<1>. QED
  BY <1>1, <1>2, <1>3 DEF NoDangling, GoodHeap

\* Usable nodes have a probability, and nothing but the unique table points to others.
LEMMA UnreachedFromInv == IInv => UnassignedUnreached
<1>. SUFFICES ASSUME IInv, NEW n \in DOMAIN heap, heap[n].prob = Unset
              PROVE  /\ n \notin Locals \cup Range(computed)
                     /\ \A m \in DOMAIN heap : n \notin {heap[m].neg, heap[m].pos}
  BY DEF UnassignedUnreached
<1>1. n \notin Usable(heap) /\ n # Null
  BY DEF Usable, IInv, MachineInv, StoreInv, GoodHeap, Null
<1>2. n \notin Locals
  BY <1>1 DEF IInv, MachineInv, LocalsInv
<1>3. n \notin Range(computed)
  BY <1>1 DEF IInv, MachineInv, StoreInv, GoodComputed, Range
<1>4. \A m \in DOMAIN heap : n \notin {heap[m].neg, heap[m].pos}
  BY <1>1 DEF IInv, MachineInv, StoreInv, GoodHeap
<1>. QED
  BY <1>2, <1>3, <1>4

\* Ids are 0 .. idCtr - 1, free or of live nodes, and at the end two nodes live (main.cpp:143).
LEMMA NoLeakFromInv == IInv => NoLeak
<1>. SUFFICES ASSUME IInv, phase = "done"
              PROVE  idCtr - Cardinality(freeIds) = 2
  BY DEF NoLeak
<1>1. GoodIds(heap, freeIds, idCtr) /\ DOMAIN heap = {0, 1}
  BY DEF IInv, MachineInv, StoreInv, SessionInv, Zero, One
<1>2. idCtr \in Nat /\ idCtr >= 2
  <2>1. 1 \in 0 .. (idCtr - 1) /\ idCtr \in Nat
    BY <1>1 DEF GoodIds
  <2>. QED
    BY <2>1
<1>3. freeIds = 2 .. (idCtr - 1)
  <2>1. freeIds = (0 .. (idCtr - 1)) \ {0, 1}
    BY <1>1 DEF GoodIds
  <2>. QED
    BY <1>2, <2>1
<1>4. Cardinality(2 .. (idCtr - 1)) = IF 2 > idCtr - 1 THEN 0 ELSE idCtr - 1 - 2 + 1
  BY <1>2, FS_Interval
<1>. QED
  BY <1>2, <1>3, <1>4

\* The invariant holds of every run.
THEOREM Invariance == Spec => []IInv
<1>1. Init => IInv
  BY InitGood
<1>2. IInv /\ [Next]_vars => IInv'
  BY StepGood
<1>. QED
  BY <1>1, <1>2, PTL DEF Spec

\* Every variable keeps its type.
THEOREM TypeCorrect == Spec => []TypeOK
BY Invariance, TypeFromInv, PTL

\* No id is lost and none is shared, through growth and recycling
\* (bdd_node.cpp:35-64).
THEOREM IdsArePartitioned == Spec => []IdsPartition
<1>1. IInv => IdsPartition
  BY DEF IInv, MachineInv, StoreInv, GoodIds, IdsPartition
<1>. QED
  BY <1>1, Invariance, PTL

\* No pointer the program can follow dangles (smart_pointer.h:41-97).
THEOREM NothingDangles == Spec => []NoDangling
BY Invariance, DanglingFromInv, PTL

\* The unique table's keys tell the truth about its nodes (bdd_tables.h:38-39).
THEOREM UniqueKeysFaithful == Spec => []UniqueKeyFaithful
<1>1. IInv => UniqueKeyFaithful
  BY DEF IInv, MachineInv, StoreInv, GoodUnique, UniqueKeyFaithful
<1>. QED
  BY <1>1, Invariance, PTL

\* The literal a cofactor dereferences unchecked is always in the unique table
\* (project1.cpp:85, 104).
THEOREM LiteralsInUnique == Spec => []LiteralInUnique
<1>1. IInv => LiteralInUnique
  BY DEF IInv, MachineInv, StoreInv, GoodUnique, LiteralInUnique
<1>. QED
  BY <1>1, Invariance, PTL

\* A probability that was never assigned is never read (project1.cpp:65).
THEOREM UnassignedNeverReached == Spec => []UnassignedUnreached
BY Invariance, UnreachedFromInv, PTL

\* At the end only the two terminals have an id (main.cpp:143).
THEOREM NothingLeaks == Spec => []NoLeak
BY Invariance, NoLeakFromInv, PTL

\* No step changes the variable or the children of a node that lives on.
THEOREM NodesStayImmutable == Spec => NodesImmutable
<1>1. IInv /\ [Next]_vars =>
        [\A n \in DOMAIN heap \cap DOMAIN heap' :
           /\ heap'[n].var = heap[n].var
           /\ heap'[n].neg = heap[n].neg
           /\ heap'[n].pos = heap[n].pos]_vars
  BY StepGood DEF Agree
<1>. QED
  BY <1>1, Invariance, PTL DEF Spec, NodesImmutable

----------------------------------------------------------------------------
\* A terminal has no variable of its own unless one->var happens to name one.
ByteInv == heap[Zero].var = NoVar /\ CrashesByByteOnly

\* Where apply finds a null child (project1.cpp:58-63), one->var is the
\* variable it splits by.
LEMMA NullChildNeedsByte ==
  ASSUME MachineInv, ApplyNullChild, heap[Zero].var = NoVar
  PROVE  heap[One].var \in Vars
<1>. DEFINE l == Top.l
            r == Top.r
            v == NextVar(l, r)
            sub == SubCall(Top.op, v, l, r, "neg")
<1>1. /\ stack # <<>> /\ Top.fn = "apply" /\ Operation(Top.op, l, r) = Null
      /\ Null \in {sub.l, sub.r}
  BY DEF ApplyNullChild, Recurses, Entering
<1>2. l \in Usable(heap) /\ r \in Usable(heap) /\ Top.op \in Ops
  BY <1>1, ApplyFrameFacts
<1>3. l \notin {Zero, One} \/ r \notin {Zero, One}
  BY <1>1, <1>2, RecursesOnNode
<1>4. v \in Vars
  BY <1>2, <1>3, NextVarKnown
<1>5. \/ heap[l].var = v /\ Child(l, "neg") = Null
      \/ l = Null \/ r = Null
      \/ ~ (heap[l].var = v /\ heap[r].var # v) /\ Child(r, "neg") = Null
  <2>1. /\ sub.l = IF heap[l].var = v THEN Child(l, "neg") ELSE l
        /\ sub.r = IF heap[l].var = v /\ heap[r].var # v THEN r ELSE Child(r, "neg")
    BY DEF SubCall, ApplyCall, Activation
  <2>. HIDE DEF sub, v, l, r
  <2>. QED
    BY <1>1, <2>1
<1>6. v = IF l \in {Zero, One} THEN heap[r].var
          ELSE IF r \in {Zero, One} THEN heap[l].var
          ELSE Min({heap[l].var, heap[r].var})
  BY <1>2, UsableNode DEF NextVar
<1>. HIDE DEF sub, v, l, r
<1>7. \A n \in {l, r} : Child(n, "neg") = Null => n \in {Zero, One}
  BY <1>2, UsableNode
<1>8. \A n \in {l, r} : n \in {Zero, One} /\ heap[n].var = v => heap[One].var = v
  BY <1>4, VarsAssumption
<1>9. l # Null /\ r # Null
  BY <1>2, UsableNode
<1>10. heap[One].var = v
  <2>1. CASE heap[l].var = v /\ Child(l, "neg") = Null
    BY <1>7, <1>8, <2>1
  <2>2. CASE ~ (heap[l].var = v /\ heap[r].var # v) /\ Child(r, "neg") = Null
    <3>1. r \in {Zero, One} /\ l \notin {Zero, One}
      BY <1>3, <1>7, <2>2
    <3>2. heap[l].var = v
      BY <1>6, <3>1
    <3>. QED
      BY <1>8, <2>2, <3>1, <3>2
  <2>. QED
    BY <1>5, <1>9, <2>1, <2>2
<1>. QED
  BY <1>4, <1>10

\* No other step crashes.
LEMMA CrashIsNullChild ==
  ASSUME Next, crashed'
  PROVE  crashed \/ ApplyNullChild
<1>1. CASE ApplyStep
  <2>1. CASE \E first \in {"neg", "pos"} : ApplySplit(first) \/ ApplySecond(first)
    BY <2>1 DEF ApplySplit, ApplySecond
  <2>. QED
    BY <1>1, <2>1 DEF ApplyStep, ApplyHit, ApplyTerminal, ApplyBuild
<1>2. CASE CofactorStep
  <2>1. CASE \E first \in {"neg", "pos"} : DifferenceFirst(first) \/ DifferenceSecond(first)
    BY <2>1 DEF DifferenceFirst, DifferenceSecond, CallUnchanged
  <2>2. CASE CofactorTrivial \/ CofactorRootBar \/ CofactorLow \/ CofactorLeft
    BY <2>2 DEF CofactorTrivial, CofactorRootBar, CofactorLow, CofactorLeft, CallUnchanged
  <2>3. CASE CofactorHigh \/ CofactorRight \/ CofactorJoin \/ DifferenceXor \/ ReturnJoined
    BY <2>3 DEF CofactorHigh, CofactorRight, CofactorJoin, DifferenceXor, ReturnJoined, CallUnchanged
  <2>4. CASE SortSweep \/ SortFinish
    BY <2>4 DEF SortSweep, SortFinish
  <2>. QED
    BY <1>2, <2>1, <2>2, <2>3, <2>4 DEF CofactorStep
<1>3. CASE ReadToken
  BY <1>3 DEF ReadToken, ReadConstant, ReadKnown, ReadNew, ReadNot, ReadBinary
<1>4. CASE Command
  BY <1>4 DEF Command, MenuCofactor, MenuDifference, MenuSort, MenuApply, ApplyToSecond, machineVars
<1>5. CASE Deliver \/ EndExpression \/ Quit \/ Stopped
  BY <1>5 DEF Deliver, EndExpression, Quit, Stopped, vars, machineVars
<1>. QED
  BY <1>1, <1>2, <1>3, <1>4, <1>5 DEF Next, Compute, Typed

\* The byte is written by nothing, so that what it was at the crash it is for ever.
LEMMA ByteKept ==
  ASSUME IInv, ByteInv, [Next]_vars
  PROVE  ByteInv'
<1>1. /\ {Zero, One} \subseteq DOMAIN heap /\ {Zero, One} \subseteq DOMAIN heap'
      /\ Agree(heap, heap')
  BY StepGood DEF IInv, MachineInv, StoreInv, GoodHeap, Usable
<1>2. heap'[Zero].var = heap[Zero].var /\ heap'[One].var = heap[One].var
  BY <1>1 DEF Agree
<1>3. crashed' => crashed \/ ApplyNullChild
  BY CrashIsNullChild DEF vars, machineVars
<1>4. ApplyNullChild => heap[One].var \in Vars
  BY NullChildNeedsByte DEF IInv, ByteInv
<1>. QED
  BY <1>2, <1>3, <1>4 DEF ByteInv, CrashesByByteOnly

\* Whatever is typed, only the unassigned byte one->var can make apply follow
\* a null pointer (project1.cpp:58-63).
THEOREM CrashNeedsByte == Spec => []CrashesByByteOnly
<1>1. Init => ByteInv
  BY DEF Init, TablesInit, ByteInv, CrashesByByteOnly, Zero, One
<1>2. IInv /\ ByteInv /\ [Next]_vars => ByteInv'
  BY ByteKept
<1>3. ByteInv => CrashesByByteOnly
  BY DEF ByteInv
<1>. QED
  BY <1>1, <1>2, <1>3, Invariance, PTL DEF Spec

----------------------------------------------------------------------------
\* A step adds at most one node, x, above nodes that are there.
GrowsBy(x) ==
  /\ DOMAIN heap' \subseteq DOMAIN heap \cup {x}
  /\ x \in DOMAIN heap' \ DOMAIN heap => {heap'[x].neg, heap'[x].pos} \subseteq DOMAIN heap

\* A release leaves a part of the store.
LEMMA ReleaseShrinks ==
  ASSUME NEW h, NEW ids, NEW stale, Release(h, ids, stale)
  PROVE  DOMAIN heap' \subseteq DOMAIN h /\ \A n \in DOMAIN heap' : heap'[n] = h[n]
<1>1. heap' = Restrict(h, Live(h, Roots'))
  BY DEF Release, Collect
<1>2. DOMAIN heap' = Live(h, Roots') /\ \A n \in DOMAIN heap' : heap'[n] = h[n]
  BY <1>1 DEF Restrict
<1>. QED
  BY <1>2, LiveClosed

\* A new node stands on its two operands.
LEMMA NewNodeGrows ==
  ASSUME NEW v, NEW n \in DOMAIN heap, NEW p \in DOMAIN heap, NEW prob, NEW ids, NEW stale,
         Release(NewNode(v, n, p, prob), ids, stale)
  PROVE  GrowsBy(FreshId)
<1>. DEFINE h == NewNode(v, n, p, prob)
<1>1. DOMAIN h = DOMAIN heap \cup {FreshId} /\ h[FreshId].neg = n /\ h[FreshId].pos = p
  BY DEF NewNode, Put
<1>. HIDE DEF h
<1>2. DOMAIN heap' \subseteq DOMAIN h /\ \A m \in DOMAIN heap' : heap'[m] = h[m]
  BY ReleaseShrinks DEF h
<1>. QED
  BY <1>1, <1>2 DEF GrowsBy

\* All other steps only release, or leave the store alone.
LEMMA QuietGrows ==
  ASSUME ReleaseOnly \/ UNCHANGED heap
  PROVE  GrowsBy(Zero) \/ Zero \notin DOMAIN heap
<1>1. DOMAIN heap' \subseteq DOMAIN heap
  BY ReleaseShrinks DEF ReleaseOnly
<1>. QED
  BY <1>1 DEF GrowsBy

\* So every step of the program grows the store by a node or none.
LEMMA StepGrows ==
  ASSUME IInv, [Next]_vars
  PROVE  \E x : GrowsBy(x)
<1>. DEFINE Quiet == ReleaseOnly \/ UNCHANGED heap
<1>. SUFFICES ASSUME ~Quiet PROVE \E x : GrowsBy(x)
  BY QuietGrows, TerminalsUsable DEF IInv, Usable
<1>1. Next
  BY DEF vars, tableVars
<1>2. CASE ApplyStep
  <2>1. CASE ApplyTerminal
    <3>1. PICK h, ids, stale : DOMAIN h = DOMAIN heap /\ Release(h, ids, stale)
      BY <2>1 DEF ApplyTerminal
    <3>. QED
      BY <3>1, ReleaseShrinks DEF GrowsBy
  <2>2. CASE ApplyBuild
    <3>1. stack # <<>> /\ Top.fn = "apply" /\ ret # Null /\ Top.at = "second"
      BY <2>2 DEF ApplyBuild, Resumed
    <3>2. PICK n, p, prob, ids, stale :
            /\ n = (IF Top.a = Null THEN ret ELSE Top.a) /\ p = (IF Top.a = Null THEN Top.b ELSE ret)
            /\ Release(NewNode(Top.var, n, p, prob), ids, stale)
      BY <2>2 DEF ApplyBuild
    <3>3. n \in Usable(heap) /\ p \in Usable(heap)
      BY <3>1, <3>2, ApplyFrameFacts, TopFrame, RetUsable DEF IInv, ApplyFrame, Held
    <3>. QED
      BY <3>2, <3>3, NewNodeGrows DEF Usable
  <2>3. CASE ApplyHit \/ ApplyNullChild
    BY <2>3 DEF ApplyHit, ApplyNullChild, tableVars
  <2>4. CASE \E first \in {"neg", "pos"} : ApplySplit(first) \/ ApplySecond(first)
    BY <2>4 DEF ApplySplit, ApplySecond
  <2>. QED
    BY <1>2, <2>1, <2>2, <2>3, <2>4 DEF ApplyStep
<1>3. CASE CofactorStep
  <2>1. CASE \E first \in {"neg", "pos"} : DifferenceFirst(first) \/ DifferenceSecond(first)
    BY <2>1 DEF DifferenceFirst, DifferenceSecond
  <2>2. CASE CofactorTrivial \/ CofactorRootBar \/ CofactorLow \/ CofactorLeft
    BY <2>2 DEF CofactorTrivial, CofactorRootBar, CofactorLow, CofactorLeft
  <2>3. CASE CofactorHigh \/ CofactorRight \/ CofactorJoin \/ DifferenceXor \/ ReturnJoined
    BY <2>3 DEF CofactorHigh, CofactorRight, CofactorJoin, DifferenceXor, ReturnJoined
  <2>4. CASE SortSweep \/ SortFinish
    BY <2>4 DEF SortSweep, SortFinish
  <2>. QED
    BY <1>3, <2>1, <2>2, <2>3, <2>4 DEF CofactorStep
<1>4. CASE ReadToken
  <2>1. CASE \E v \in Vars : ReadNew(v)
    <3>1. PICK v, prob, ids, stale : Release(NewNode(v, Zero, One, prob), ids, stale)
      BY <2>1 DEF ReadNew
    <3>. QED
      BY <3>1, NewNodeGrows, TerminalsUsable DEF IInv, Usable
  <2>2. CASE \E v \in Vars : ReadKnown(v)
    <3>1. PICK h, ids, stale : DOMAIN h = DOMAIN heap /\ Release(h, ids, stale)
      BY <2>2 DEF ReadKnown
    <3>. QED
      BY <3>1, ReleaseShrinks DEF GrowsBy
  <2>3. CASE ReadConstant \/ ReadNot \/ \E op \in {"and", "or"} : ReadBinary(op)
    BY <2>3 DEF ReadConstant, ReadNot, ReadBinary
  <2>. QED
    BY <1>4, <2>1, <2>2, <2>3 DEF ReadToken
<1>5. CASE Command
  BY <1>5 DEF Command, MenuCofactor, MenuDifference, MenuSort, MenuApply, ApplyToSecond, tableVars
<1>6. CASE Deliver \/ EndExpression \/ Quit \/ Stopped
  BY <1>6 DEF Deliver, EndExpression, Quit, Stopped, vars, tableVars
<1>. QED
  BY <1>1, <1>2, <1>3, <1>4, <1>5, <1>6 DEF Next, Compute, Typed

\* A node on top of others closes no cycle.
LEMMA AcyclicKept ==
  ASSUME IInv, Acyclic, [Next]_vars
  PROVE  Acyclic'
<1>1. PICK x : GrowsBy(x)
  BY StepGrows
<1>2. /\ Agree(heap, heap') /\ {Zero, One} \subseteq DOMAIN heap
  BY StepGood DEF IInv, MachineInv, StoreInv, GoodHeap, Usable
<1>3. GoodHeap(heap)
  BY DEF IInv, MachineInv, StoreInv
<1>4. SUFFICES ASSUME NEW S \in SUBSET (DOMAIN heap' \ {Zero, One}), S # {}
               PROVE  \E n \in S : {heap'[n].neg, heap'[n].pos} \cap S = {}
  BY DEF Acyclic
<1>. DEFINE T == S \cap DOMAIN heap
<1>5. \A n \in T : heap'[n].neg = heap[n].neg /\ heap'[n].pos = heap[n].pos
  BY <1>2, <1>4 DEF Agree
<1>6. \A n \in T : heap[n].neg \in DOMAIN heap /\ heap[n].pos \in DOMAIN heap
  BY <1>3, <1>4 DEF GoodHeap, Usable
<1>7. CASE T = {}
  <2>1. x \in S /\ S = {x} /\ x \in DOMAIN heap' \ DOMAIN heap
    BY <1>1, <1>4, <1>7 DEF GrowsBy
  <2>. QED
    BY <1>1, <2>1 DEF GrowsBy
<1>8. CASE T # {}
  <2>1. PICK n \in T : {heap[n].neg, heap[n].pos} \cap T = {}
    BY <1>4, <1>8 DEF Acyclic
  <2>. QED
    BY <1>5, <1>6, <2>1
<1>. QED
  BY <1>7, <1>8

\* The nodes never form a cycle (project1.cpp:58-70; smart_pointer.h:53 frees
\* what is not on one).
THEOREM NodesAcyclic == Spec => []Acyclic
<1>1. Init => Acyclic
  BY DEF Init, TablesInit, Acyclic
<1>2. IInv /\ Acyclic /\ [Next]_vars => Acyclic'
  BY AcyclicKept
<1>. QED
  BY <1>1, <1>2, Invariance, PTL DEF Spec
===============================================================================
