------------------------------ MODULE TopoProof ------------------------------
(***************************************************************************)
(* Proofs about the topological sort of project3: the order it builds has  *)
(* every node after its fanins, no node twice, and cannot be continued.    *)
(***************************************************************************)
EXTENDS TopoSort, FiniteSetTheorems, TLAPS

\* The edges into n: a node v, and a position in the fanout of v.
EdgesTo(n) ==
  {p \in Names \X Nat : /\ p[1] \in DOMAIN nodes
                        /\ p[2] \in DOMAIN nodes[p[1]].fanout
                        /\ nodes[p[1]].fanout[p[2]] = n}

\* Edges the sort has already marked, and those it has not.
Marked(p) ==
  \/ \E i \in 1 .. (head - 1) : order[i] = p[1]
  \/ head <= Len(order) /\ order[head] = p[1] /\ p[2] < edge
Pending(n) == {p \in EdgesTo(n) : ~ Marked(p)}

ReadPhases == {"start", "names", "fanins"}

\* Fanin and fanout agree as far as redefinitions let them: every fanin is
\* linked to the node, and if no name is defined twice every link is a fanin.
GraphInv ==
  /\ nodes \in [DOMAIN nodes -> Node] /\ DOMAIN nodes \subseteq Names
  /\ \A v \in DOMAIN nodes : nodes[v].fanout \in Seq(DOMAIN nodes)
  /\ \A n \in DOMAIN nodes : \A f \in Range(nodes[n].fanin) :
       f \in DOMAIN nodes /\ n \in Range(nodes[f].fanout)
  /\ \A n \in DOMAIN nodes \ driven : nodes[n].fanin = <<>> /\ EdgesTo(n) = {}
  /\ twice = {} => \A v \in DOMAIN nodes : \A n \in Range(nodes[v].fanout) :
                     v \in Range(nodes[n].fanin)

ReaderInv ==
  /\ phase \in ReadPhases \cup {"seed", "sort", "sorted"}
  /\ left \in 0 .. MaxNames /\ driven \subseteq Names /\ twice \subseteq driven
  /\ phase = "start" => DOMAIN nodes = {} /\ driven = {}
  /\ gate \in [out : Int, left : Seq(Names), table : Seq(Seq({0, 1, 2}))]
  /\ phase = "fanins" => gate.out \in DOMAIN nodes \cap driven

PositionInv ==
  /\ order \in Seq(DOMAIN nodes) /\ head \in 1 .. (Len(order) + 1) /\ edge \in Nat \ {0}
  /\ phase \in ReadPhases => order = <<>>
  /\ phase \in ReadPhases \cup {"seed"} => head = 1 /\ edge = 1
  /\ phase = "sorted" => head = Len(order) + 1

\* fanin_num counts the edges not marked yet.
CountInv ==
  (phase \in ReadPhases \cup {"seed"} \/ InputsUndriven) =>
    \A n \in DOMAIN nodes :
      IsFiniteSet(Pending(n)) /\ nodes[n].faninNum = Cardinality(Pending(n))

\* A node is in the order exactly when no edge into it is pending (and there
\* was one, or it is an input).
OrderInv ==
  InputsUndriven =>
    /\ \A n \in Range(order) : Pending(n) = {}
    /\ \A n \in DOMAIN nodes : EdgesTo(n) # {} /\ Pending(n) = {} => n \in Range(order)

TopoInv ==
  GraphInv /\ ReaderInv /\ PositionInv /\ CountInv /\ OrderInv /\ AfterFanins /\ OnceOnly

----------------------------------------------------------------------------
\* A nonempty set of numbers has a least element ...
LEMMA LeastElement ==
  ASSUME NEW S \in SUBSET Nat, S # {}
  PROVE  \E x \in S : \A y \in S : x <= y
<1>. DEFINE Below == {ss \in Nat \X Nat : ss[1] < ss[2]}
<1>1. IsWellFoundedOn(Below, Nat)
  BY NatLessThanWellFounded DEF OpToRel
<1>2. \A m \in Nat, n \in Nat : ~ (<<m, n>> \in Below) => n <= m
  OBVIOUS
<1>. HIDE DEF Below
<1>3. PICK x \in S : \A y \in S : ~ (<<y, x>> \in Below)
  BY <1>1, WFMin
<1>. QED
  BY <1>2, <1>3

\* ... which Min returns.
LEMMA LeastName ==
  ASSUME NEW S \in SUBSET Nat, S # {}
  PROVE  Min(S) \in S
BY LeastElement DEF Min

\* What Append adds to the elements of a sequence.
LEMMA AppendElement ==
  ASSUME NEW S, NEW s \in Seq(S), NEW x
  PROVE  /\ Range(Append(s, x)) = Range(s) \cup {x}
         /\ DOMAIN Append(s, x) = 1 .. (Len(s) + 1)
         /\ \A i \in 1 .. Len(s) : Append(s, x)[i] = s[i]
         /\ Append(s, x)[Len(s) + 1] = x
<1>1. /\ DOMAIN Append(s, x) = 1 .. (Len(s) + 1)
      /\ \A i \in 1 .. Len(s) : Append(s, x)[i] = s[i]
      /\ Append(s, x)[Len(s) + 1] = x
  OBVIOUS
<1>2. Range(Append(s, x)) = Range(s) \cup {x}
  <2>1. DOMAIN s = 1 .. Len(s) /\ Len(s) \in Nat
    OBVIOUS
  <2>. QED
    BY <1>1, <2>1 DEF Range
<1>. QED
  BY <1>1, <1>2

\* A sequence over a set is one over any larger set.
LEMMA WiderSeq ==
  ASSUME NEW S, NEW T, S \subseteq T, NEW s \in Seq(S)
  PROVE  s \in Seq(T)
OBVIOUS

\* The empty sequence has no elements.
LEMMA EmptySequence ==
  Range(<<>>) = {} /\ DOMAIN <<>> = {} /\ \A S : <<>> \in Seq(S)
BY DEF Range

\* Nodes with a new type are nodes.
LEMMA RetypedNode ==
  ASSUME NEW m \in Node, NEW t \in Type, NEW r, r = [m EXCEPT !.type = t]
  PROVE  r \in Node /\ r.fanin = m.fanin /\ r.fanout = m.fanout /\ r.faninNum = m.faninNum
BY DEF Node

\* A node with one more fanout.
LEMMA LinkedNode ==
  ASSUME NEW m \in Node, NEW n \in Names, NEW r,
         r = [m EXCEPT !.fanout = Append(m.fanout, n)]
  PROVE  /\ r \in Node /\ r.fanout = Append(m.fanout, n)
         /\ r.fanin = m.fanin /\ r.faninNum = m.faninNum
<1>1. Append(m.fanout, n) \in Seq(Names)
  BY DEF Node
<1>. QED
  BY <1>1 DEF Node

\* The elements of a sequence over a set.
LEMMA ElementsOf ==
  ASSUME NEW S, NEW s \in Seq(S)
  PROVE  Range(s) \subseteq S
BY DEF Range

\* The constructor makes a node without fanin, fanout or count.
LEMMA NewNodeType ==
  /\ NewNode \in Node
  /\ NewNode.fanin = <<>> /\ NewNode.fanout = <<>> /\ NewNode.faninNum = 0
BY DEF NewNode, Node, Type

\* A node in the fanout of v has an edge from v, and the other way round.
LEMMA FanoutIsEdges ==
  ASSUME GraphInv, NEW v \in DOMAIN nodes, NEW n
  PROVE  n \in Range(nodes[v].fanout) <=> \E p \in EdgesTo(n) : p[1] = v
<1>1. nodes[v].fanout \in Seq(DOMAIN nodes) /\ v \in Names
  BY DEF GraphInv
<1>2. \A e \in DOMAIN nodes[v].fanout : e \in Nat
  BY <1>1
<1>3. ASSUME n \in Range(nodes[v].fanout) PROVE \E p \in EdgesTo(n) : p[1] = v
  <2>1. PICK e \in DOMAIN nodes[v].fanout : nodes[v].fanout[e] = n
    BY <1>3 DEF Range
  <2>2. <<v, e>> \in EdgesTo(n)
    BY <1>1, <1>2, <2>1 DEF EdgesTo
  <2>. QED
    BY <2>2
<1>4. ASSUME NEW p \in EdgesTo(n), p[1] = v PROVE n \in Range(nodes[v].fanout)
  BY <1>4 DEF EdgesTo, Range
<1>. QED
  BY <1>3, <1>4

\* The links into a node are the same when no fanout changes and new nodes
\* have none.
LEMMA EdgesStay ==
  ASSUME DOMAIN nodes \subseteq DOMAIN nodes',
         \A v \in DOMAIN nodes : nodes'[v].fanout = nodes[v].fanout,
         \A v \in DOMAIN nodes' \ DOMAIN nodes : nodes'[v].fanout = <<>>
  PROVE  \A n : EdgesTo(n)' = EdgesTo(n)
BY DEF EdgesTo

----------------------------------------------------------------------------
\* While the file is read nothing is marked: fanin_num counts all links.
LinksCounted ==
  \A n \in DOMAIN nodes :
    IsFiniteSet(EdgesTo(n)) /\ nodes[n].faninNum = Cardinality(EdgesTo(n))

NoOrder == order = <<>> /\ head = 1 /\ edge = 1
NoOrderFacts ==
  /\ \A n : Pending(n) = EdgesTo(n)
  /\ OrderInv /\ AfterFanins /\ OnceOnly
  /\ order \in Seq(DOMAIN nodes) /\ head \in 1 .. (Len(order) + 1)

\* Before the sort nothing is marked, and the properties of the order hold
\* for want of an order.
LEMMA EmptyOrder == NoOrder => NoOrderFacts
<1>. SUFFICES ASSUME NoOrder PROVE NoOrderFacts
  OBVIOUS
<1>1. \A n : Pending(n) = EdgesTo(n)
  BY DEF Pending, Marked, NoOrder
<1>2. /\ DOMAIN order = {} /\ order \in Seq(DOMAIN nodes) /\ head \in 1 .. (Len(order) + 1)
      /\ Range(order) = {}
  BY EmptySequence DEF NoOrder
<1>. QED
  BY <1>1, <1>2 DEF NoOrderFacts, OrderInv, AfterFanins, OnceOnly, IsInjective

\* A step of the reader keeps the invariant if it keeps the part about the
\* circuit, and every fanin_num the number of links into its node.
LEMMA ReadStep ==
  ASSUME TopoInv, UNCHANGED sortVars, phase \in ReadPhases,
         phase' \in ReadPhases \cup {"seed"},
         GraphInv', ReaderInv', LinksCounted'
  PROVE  TopoInv'
<1>1. NoOrder'
  BY DEF TopoInv, PositionInv, sortVars, NoOrder
<1>2. NoOrderFacts'
  BY <1>1, EmptyOrder, PTL
<1>3. CountInv'
  BY <1>2 DEF LinksCounted, CountInv, NoOrderFacts
<1>4. PositionInv'
  BY <1>1, <1>2 DEF PositionInv, ReadPhases, NoOrder, NoOrderFacts
<1>. QED
  BY <1>2, <1>3, <1>4 DEF TopoInv, NoOrderFacts

\* So far every fanin_num is the number of links.
LEMMA LinksAreCounted ==
  (TopoInv /\ phase \in ReadPhases) => LinksCounted
BY EmptyOrder DEF TopoInv, PositionInv, CountInv, LinksCounted, NoOrder, NoOrderFacts

----------------------------------------------------------------------------
\* The reader's actions.

\* The header creates nodes with no fanin and no fanout.
LEMMA ReadHeaderGood ==
  ASSUME TopoInv, ReadHeader, UNCHANGED sortVars
  PROVE  TopoInv'
<1>. USE DEF ReadHeader
<1>1. PICK h \in Headers : \E last \in [h.inputs \cap h.outputs -> {"input", "output"}] :
        nodes' = [n \in h.inputs \cup h.outputs |->
                    [NewNode EXCEPT !.type = IF n \in DOMAIN last THEN last[n]
                                             ELSE IF n \in h.inputs THEN "input" ELSE "output"]]
  OBVIOUS
<1>2. PICK last \in [h.inputs \cap h.outputs -> {"input", "output"}] :
        nodes' = [n \in h.inputs \cup h.outputs |->
                    [NewNode EXCEPT !.type = IF n \in DOMAIN last THEN last[n]
                                             ELSE IF n \in h.inputs THEN "input" ELSE "output"]]
  BY <1>1
<1>3. h.inputs \subseteq Names /\ h.outputs \subseteq Names
  BY HeaderAssumption
<1>4. \A n \in DOMAIN nodes' :
        /\ nodes'[n] \in Node
        /\ nodes'[n].fanin = <<>> /\ nodes'[n].fanout = <<>> /\ nodes'[n].faninNum = 0
  <2>. TAKE n \in DOMAIN nodes'
  <2>1. PICK t \in Type : nodes'[n] = [NewNode EXCEPT !.type = t]
    BY <1>2 DEF Type
  <2>. QED
    BY <2>1, NewNodeType, RetypedNode
<1>5. DOMAIN nodes' \subseteq Names
  BY <1>2, <1>3
<1>6. \A n : EdgesTo(n)' = {}
  BY <1>4, EmptySequence DEF EdgesTo
<1>7. GraphInv'
  <2>1. \A n \in DOMAIN nodes' : Range(nodes'[n].fanin) = {} /\ Range(nodes'[n].fanout) = {}
    BY <1>4, EmptySequence
  <2>2. nodes' \in [DOMAIN nodes' -> Node]
    BY <1>2, <1>4
  <2>3. \A n \in DOMAIN nodes' : nodes'[n].fanout \in Seq(DOMAIN nodes')
    BY <1>4, EmptySequence, ZenonT(60)
  <2>. QED
    BY <1>4, <1>5, <1>6, <2>1, <2>2, <2>3 DEF GraphInv
<1>8. LinksCounted'
  BY <1>4, <1>6, FS_EmptySet DEF LinksCounted
<1>9. ReaderInv'
  BY DEF TopoInv, ReaderInv, ReadPhases
<1>. QED
  BY <1>7, <1>8, <1>9, ReadStep DEF ReadPhases

\* A definition starts a node over, but its links and its count stay.
LEMMA RedefinedGood ==
  ASSUME TopoInv, phase = "names", NEW n \in Names, NEW m \in Node,
         nodes' = WithNode(n, m), Define(n),
         m.fanin = <<>>, m.fanout = NodeOf(n).fanout, m.faninNum = NodeOf(n).faninNum
  PROVE  GraphInv' /\ LinksCounted'
<1>. USE DEF TopoInv
<1>1. /\ DOMAIN nodes' = DOMAIN nodes \cup {n}
      /\ nodes'[n] = m
      /\ \A k \in DOMAIN nodes \ {n} : nodes'[k] = nodes[k]
  BY DEF WithNode
<1>2. /\ \A v \in DOMAIN nodes : nodes'[v].fanout = nodes[v].fanout
      /\ \A v \in DOMAIN nodes' \ DOMAIN nodes : nodes'[v].fanout = <<>>
  BY <1>1 DEF NodeOf, NewNode
<1>3. \A k : EdgesTo(k)' = EdgesTo(k)
  BY <1>1, <1>2, EdgesStay
<1>4. n \notin DOMAIN nodes => EdgesTo(n) = {}
  BY DEF GraphInv, EdgesTo
<1>5. LinksCounted'
  <2>1. LinksCounted
    BY LinksAreCounted DEF ReadPhases
  <2>2. CASE n \in DOMAIN nodes
    BY <1>1, <1>3, <2>1, <2>2 DEF LinksCounted, NodeOf
  <2>3. CASE n \notin DOMAIN nodes
    BY <1>1, <1>3, <1>4, <2>1, <2>3, FS_EmptySet DEF LinksCounted, NodeOf, NewNode
  <2>. QED
    BY <2>2, <2>3
<1>6. GraphInv'
  <2>1. nodes' \in [DOMAIN nodes' -> Node] /\ DOMAIN nodes' \subseteq Names
    BY <1>1 DEF GraphInv, WithNode
  <2>2. \A v \in DOMAIN nodes' : nodes'[v].fanout \in Seq(DOMAIN nodes')
    <3>1. \A v \in DOMAIN nodes : nodes[v].fanout \in Seq(DOMAIN nodes')
      BY <1>1, WiderSeq DEF GraphInv
    <3>. QED
      BY <1>1, <1>2, <3>1, EmptySequence
  <2>3. Range(m.fanin) = {}
    BY EmptySequence
  <2>4. \A k \in DOMAIN nodes' : \A f \in Range(nodes'[k].fanin) :
          f \in DOMAIN nodes' /\ k \in Range(nodes'[f].fanout)
    BY <1>1, <1>2, <2>3 DEF GraphInv
  <2>5. \A k \in DOMAIN nodes' \ driven' : nodes'[k].fanin = <<>> /\ EdgesTo(k)' = {}
    BY <1>1, <1>3 DEF GraphInv, Define
  <2>6. twice' = {} => \A v \in DOMAIN nodes' : \A k \in Range(nodes'[v].fanout) :
                         v \in Range(nodes'[k].fanin)
    <3>1. SUFFICES ASSUME twice' = {}
                   PROVE  \A v \in DOMAIN nodes' : \A k \in Range(nodes'[v].fanout) :
                            v \in Range(nodes'[k].fanin)
      OBVIOUS
    <3>2. twice = {} /\ n \notin driven
      BY <3>1 DEF Define
    <3>3. EdgesTo(n) = {}
      BY <1>4, <3>2 DEF GraphInv
    <3>4. \A v \in DOMAIN nodes : n \notin Range(nodes[v].fanout)
      BY <3>3, FanoutIsEdges
    <3>5. \A v \in DOMAIN nodes' \ DOMAIN nodes : Range(nodes'[v].fanout) = {}
      BY <1>2, EmptySequence
    <3>6. ASSUME NEW v \in DOMAIN nodes, NEW k \in Range(nodes[v].fanout)
          PROVE  k \in DOMAIN nodes
      BY <3>6 DEF GraphInv, Range
    <3>. QED
      BY <1>1, <1>2, <3>2, <3>4, <3>5, <3>6 DEF GraphInv
  <2>. QED
    BY <2>1, <2>2, <2>4, <2>5, <2>6 DEF GraphInv
<1>. QED
  BY <1>5, <1>6

\* What NodeOf and Redefined return.
LEMMA NodeOfType ==
  ASSUME GraphInv, NEW n
  PROVE  /\ NodeOf(n) \in Node
         /\ Redefined(n) \in Node
         /\ Redefined(n).fanin = <<>>
         /\ Redefined(n).fanout = NodeOf(n).fanout
         /\ Redefined(n).faninNum = NodeOf(n).faninNum
<1>2. NodeOf(n) \in Node
  BY NewNodeType DEF NodeOf, GraphInv
<1>3. \A A, B : <<>> \in Seq(A) /\ <<>> \in Seq(Seq(B))
  OBVIOUS
<1>4. ASSUME NEW m \in Node
      PROVE  LET r == [m EXCEPT !.fanin = <<>>, !.rows = <<>>]
             IN r \in Node /\ r.fanin = <<>> /\ r.fanout = m.fanout
                /\ r.faninNum = m.faninNum
  BY <1>3 DEF Node
<1>. QED
  BY <1>2, <1>4 DEF Redefined

\* The two kinds of definitions.
LEMMA ReadConstantGood ==
  ASSUME TopoInv, NEW n \in Names, NEW type \in {"zero", "one"}, ReadConstant(n, type),
         UNCHANGED sortVars
  PROVE  TopoInv'
<1>. DEFINE m == [Redefined(n) EXCEPT !.type = type]
<1>1. /\ m \in Node /\ m.fanin = <<>>
      /\ m.fanout = NodeOf(n).fanout /\ m.faninNum = NodeOf(n).faninNum
  <2>1. /\ Redefined(n) \in Node /\ Redefined(n).fanin = <<>>
        /\ Redefined(n).fanout = NodeOf(n).fanout /\ Redefined(n).faninNum = NodeOf(n).faninNum
    BY NodeOfType DEF TopoInv
  <2>2. type \in Type
    BY DEF Type
  <2>. QED
    BY <2>1, <2>2, RetypedNode
<1>2. nodes' = WithNode(n, m) /\ Define(n) /\ phase = "names"
  BY DEF ReadConstant
<1>. HIDE DEF m
<1>3. GraphInv' /\ LinksCounted'
  BY <1>1, <1>2, RedefinedGood
<1>4. ReaderInv'
  BY MaxNamesAssumption DEF TopoInv, ReaderInv, ReadConstant, Define, ReadPhases
<1>. QED
  BY <1>3, <1>4, ReadStep DEF ReadPhases, ReadConstant

\* A definition with fanins, which are read next.
LEMMA ReadNamesGood ==
  ASSUME TopoInv, NEW n \in Names, ReadNames(n), UNCHANGED sortVars
  PROVE  TopoInv'
<1>1. GraphInv' /\ LinksCounted'
  BY NodeOfType, RedefinedGood DEF ReadNames, TopoInv
<1>2. ReaderInv'
  <2>1. n \in DOMAIN nodes' /\ n \in driven'
    BY DEF ReadNames, WithNode, Define
  <2>2. gate'.out = n /\ gate' \in [out : Int, left : Seq(Names), table : Seq(Seq({0, 1, 2}))]
    BY NamesAssumption, FaninAssumption, TableAssumption DEF ReadNames
  <2>. QED
    BY <2>1, <2>2, MaxNamesAssumption DEF TopoInv, ReaderInv, ReadNames, Define, ReadPhases
<1>. QED
  BY <1>1, <1>2, ReadStep DEF ReadPhases, ReadNames

\* A new fanin adds one link, and one to the count.
LEMMA AddFaninGood ==
  ASSUME TopoInv, AddFanin, UNCHANGED sortVars
  PROVE  TopoInv'
<1>. SUFFICES ASSUME NEW n, n = gate.out, NEW v, v = Head(gate.left),
                     NEW q, q = Len(NodeOf(v).fanout)
              PROVE  TopoInv'
  OBVIOUS
<1>. DEFINE new == <<v, q + 1>>
<1>1. /\ n \in DOMAIN nodes /\ n \in driven /\ v \in Names
      /\ phase = "fanins" /\ GraphInv /\ ReaderInv
  BY DEF AddFanin, TopoInv, ReaderInv
<1>2. /\ nodes[n] \in Node /\ nodes[n].fanin \in Seq(Names) /\ nodes[n].faninNum \in Int
      /\ NodeOf(v) \in Node /\ NodeOf(v).fanout \in Seq(DOMAIN nodes)
  BY <1>1, NodeOfType, EmptySequence DEF GraphInv, Node, NodeOf, NewNode
<1>3. /\ DOMAIN nodes' = DOMAIN nodes \cup {v}
      /\ nodes' \in [DOMAIN nodes' -> Node]
      /\ nodes'[n].fanin = Append(nodes[n].fanin, v)
      /\ nodes'[n].faninNum = nodes[n].faninNum + 1
      /\ nodes'[v].fanout = Append(NodeOf(v).fanout, n)
      /\ \A k \in DOMAIN nodes \ {n} :
           nodes'[k].fanin = nodes[k].fanin /\ nodes'[k].faninNum = nodes[k].faninNum
      /\ \A k \in DOMAIN nodes \ {v} : nodes'[k].fanout = nodes[k].fanout
      /\ v \notin DOMAIN nodes => nodes'[v].fanin = <<>> /\ nodes'[v].faninNum = 0
  <2>. DEFINE counted == WithNode(n, [nodes[n] EXCEPT !.fanin = Append(nodes[n].fanin, v),
                                                      !.faninNum = nodes[n].faninNum + 1])
              input == IF v = n THEN counted[n] ELSE NodeOf(v)
  <2>1. nodes' = [m \in DOMAIN nodes \cup {v} |->
                    IF m = v THEN [input EXCEPT !.fanout = Append(input.fanout, n)]
                    ELSE counted[m]]
    BY DEF AddFanin, Linked
  <2>0. counted[n] = [nodes[n] EXCEPT !.fanin = Append(nodes[n].fanin, v),
                                      !.faninNum = nodes[n].faninNum + 1]
        /\ \A k \in DOMAIN nodes \ {n} : counted[k] = nodes[k]
    BY <1>1 DEF WithNode
  <2>. HIDE DEF counted
  <2>2. /\ counted[n] \in Node
        /\ counted[n].fanin = Append(nodes[n].fanin, v)
        /\ counted[n].faninNum = nodes[n].faninNum + 1
        /\ counted[n].fanout = nodes[n].fanout
        /\ \A k \in DOMAIN nodes \ {n} : counted[k] = nodes[k]
    <3>1. PICK m : m = nodes[n] /\ m \in Node
      BY <1>2
    <3>2. PICK r : r = counted[n]
      OBVIOUS
    <3>3. r = [m EXCEPT !.fanin = Append(m.fanin, v), !.faninNum = m.faninNum + 1]
      BY <2>0, <3>1, <3>2
    <3>4. Append(m.fanin, v) \in Seq(Names) /\ m.faninNum + 1 \in Int
      BY <1>1, <3>1 DEF Node
    <3>5. /\ r \in Node /\ r.fanin = Append(m.fanin, v)
          /\ r.faninNum = m.faninNum + 1 /\ r.fanout = m.fanout
      BY <3>1, <3>3, <3>4 DEF Node
    <3>. QED
      BY <2>0, <3>1, <3>2, <3>5
  <2>3. /\ input \in Node /\ input.fanout = NodeOf(v).fanout
        /\ v = n => input = counted[n]
        /\ v # n => input = NodeOf(v)
    BY <1>1, <1>2, <2>2 DEF NodeOf
  <2>. HIDE DEF input
  <2>4. n \in Names /\ input.fanout \in Seq(Names)
    BY <1>1, <2>3 DEF GraphInv, Node
  <2>5. /\ [input EXCEPT !.fanout = Append(input.fanout, n)] \in Node
        /\ [input EXCEPT !.fanout = Append(input.fanout, n)].fanout = Append(input.fanout, n)
        /\ [input EXCEPT !.fanout = Append(input.fanout, n)].fanin = input.fanin
        /\ [input EXCEPT !.fanout = Append(input.fanout, n)].faninNum = input.faninNum
    BY <2>3, <2>4, <1>1, LinkedNode DEF GraphInv
  <2>6. \A k \in DOMAIN nodes : counted[k] \in Node
    BY <1>1, <2>2 DEF GraphInv
  <2>7. v \notin DOMAIN nodes => NodeOf(v) = NewNode
    BY DEF NodeOf
  <2>8. nodes'[v] = [input EXCEPT !.fanout = Append(input.fanout, n)]
        /\ \A k \in DOMAIN nodes \ {v} : nodes'[k] = counted[k]
    BY <2>1
  <2>9. nodes' \in [DOMAIN nodes' -> Node]
    BY <2>1, <2>5, <2>6
  <2>10. v \in DOMAIN nodes => NodeOf(v) = nodes[v]
    BY DEF NodeOf
  <2>. QED
    BY <1>1, <2>1, <2>2, <2>3, <2>5, <2>7, <2>8, <2>9, <2>10, NewNodeType, ZenonT(60)
<1>4. EdgesTo(n)' = EdgesTo(n) \cup {new} /\ new \notin EdgesTo(n)
      /\ \A k : k # n => EdgesTo(k)' = EdgesTo(k)
  <2>1. /\ q \in Nat
        /\ DOMAIN NodeOf(v).fanout = 1 .. q
        /\ DOMAIN nodes'[v].fanout = 1 .. (q + 1)
        /\ \A i \in 1 .. q : nodes'[v].fanout[i] = NodeOf(v).fanout[i]
        /\ nodes'[v].fanout[q + 1] = n
    BY <1>2, <1>3, AppendElement, SMTT(30)
  <2>2. v \in DOMAIN nodes => NodeOf(v).fanout = nodes[v].fanout
    BY DEF NodeOf
  <2>3. v \notin DOMAIN nodes => q = 0
    BY NewNodeType DEF NodeOf
  <2>4. ASSUME NEW k, NEW p \in Names \X Nat, p # new
        PROVE  p \in EdgesTo(k)' <=> p \in EdgesTo(k)
    <3>1. CASE p[1] # v
      BY <1>3, <3>1 DEF EdgesTo
    <3>2. CASE p[1] = v
      <4>1. p[2] # q + 1
        BY <2>4, <3>2
      <4>. QED
        BY <1>3, <2>1, <2>2, <2>3, <3>2, <4>1, SMTT(30) DEF EdgesTo
    <3>. QED
      BY <3>1, <3>2
  <2>5. new \in Names \X Nat /\ new[1] = v /\ new[2] = q + 1
    BY <1>1, <2>1
  <2>. HIDE DEF new
  <2>6. new \in EdgesTo(n)' /\ \A k : k # n => new \notin EdgesTo(k)'
    BY <1>3, <2>1, <2>5, SMTT(30) DEF EdgesTo
  <2>7. \A k : new \notin EdgesTo(k)
    BY <2>1, <2>2, <2>5 DEF EdgesTo
  <2>8. \A k : EdgesTo(k) \subseteq Names \X Nat /\ EdgesTo(k)' \subseteq Names \X Nat
    BY DEF EdgesTo
  <2>. QED
    BY <2>4, <2>5, <2>6, <2>7, <2>8
<1>. HIDE DEF new
<1>5. LinksCounted'
  <2>1. LinksCounted
    BY <1>1, LinksAreCounted DEF ReadPhases
  <2>2. IsFiniteSet(EdgesTo(n)') /\ nodes'[n].faninNum = Cardinality(EdgesTo(n)')
    BY <1>1, <1>3, <1>4, <2>1, FS_AddElement DEF LinksCounted
  <2>3. ASSUME NEW k \in DOMAIN nodes', k # n
        PROVE  IsFiniteSet(EdgesTo(k)') /\ nodes'[k].faninNum = Cardinality(EdgesTo(k)')
    <3>1. CASE k \in DOMAIN nodes
      BY <1>3, <1>4, <2>1, <2>3, <3>1 DEF LinksCounted
    <3>2. CASE k \notin DOMAIN nodes
      <4>1. EdgesTo(k) = {}
        BY <1>1, <3>2 DEF GraphInv, EdgesTo
      <4>. QED
        BY <1>3, <1>4, <2>3, <3>2, <4>1, FS_EmptySet
    <3>. QED
      BY <3>1, <3>2
  <2>. QED
    BY <2>2, <2>3 DEF LinksCounted
<1>6. GraphInv'
  <2>1. DOMAIN nodes' \subseteq Names
    BY <1>1, <1>3 DEF GraphInv
  <2>2. \A k \in DOMAIN nodes' : nodes'[k].fanout \in Seq(DOMAIN nodes')
    <3>1. nodes'[v].fanout \in Seq(DOMAIN nodes')
      BY <1>1, <1>2, <1>3, WiderSeq
    <3>2. ASSUME NEW k \in DOMAIN nodes PROVE nodes[k].fanout \in Seq(DOMAIN nodes')
      BY <1>1, <1>3, WiderSeq DEF GraphInv
    <3>. QED
      BY <1>3, <3>1, <3>2
  <2>3. Range(nodes'[n].fanin) = Range(nodes[n].fanin) \cup {v}
    BY <1>2, <1>3, AppendElement, SMTT(30)
  <2>4. Range(nodes'[v].fanout) = Range(NodeOf(v).fanout) \cup {n}
    BY <1>2, <1>3, AppendElement, SMTT(30)
  <2>5. v \in DOMAIN nodes => Range(nodes'[v].fanout) = Range(nodes[v].fanout) \cup {n}
    BY <2>4 DEF NodeOf
  <2>6. v \notin DOMAIN nodes => Range(nodes'[v].fanout) = {n} /\ Range(nodes'[v].fanin) = {}
    BY <1>3, <2>4, EmptySequence, NewNodeType DEF NodeOf
  <2>7. \A k \in DOMAIN nodes' : \A f \in Range(nodes'[k].fanin) :
          f \in DOMAIN nodes' /\ k \in Range(nodes'[f].fanout)
    <3>1. ASSUME NEW k \in DOMAIN nodes, NEW f \in Range(nodes[k].fanin)
          PROVE  f \in DOMAIN nodes /\ k \in Range(nodes'[f].fanout)
      BY <1>1, <1>3, <2>5 DEF GraphInv
    <3>2. n \in Range(nodes'[v].fanout)
      BY <2>4
    <3>3. ASSUME NEW k \in DOMAIN nodes', NEW f \in Range(nodes'[k].fanin)
          PROVE  f \in DOMAIN nodes' /\ k \in Range(nodes'[f].fanout)
      <4>1. CASE k \in DOMAIN nodes /\ f \in Range(nodes[k].fanin)
        BY <1>3, <3>1, <4>1
      <4>2. CASE k = n /\ f = v
        BY <1>3, <3>2, <4>2
      <4>3. \/ k \in DOMAIN nodes /\ f \in Range(nodes[k].fanin)
            \/ k = n /\ f = v
        BY <1>1, <1>3, <2>3, <2>6, <3>3
      <4>. QED
        BY <4>1, <4>2, <4>3
    <3>. QED
      BY <3>3
  <2>8. \A k \in DOMAIN nodes' \ driven' : nodes'[k].fanin = <<>> /\ EdgesTo(k)' = {}
    <3>1. driven' = driven /\ n \in driven
      BY <1>1 DEF AddFanin
    <3>2. ASSUME NEW k, k \notin DOMAIN nodes PROVE EdgesTo(k) = {}
      BY <1>1, <3>2 DEF GraphInv, EdgesTo
    <3>. QED
      BY <1>1, <1>3, <1>4, <3>1, <3>2 DEF GraphInv
  <2>9. twice' = {} => \A m \in DOMAIN nodes' : \A k \in Range(nodes'[m].fanout) :
                         m \in Range(nodes'[k].fanin)
    <3>1. SUFFICES ASSUME twice = {}, NEW m \in DOMAIN nodes', NEW k \in Range(nodes'[m].fanout)
                   PROVE  m \in Range(nodes'[k].fanin)
      BY DEF AddFanin
    <3>2. ASSUME NEW a \in DOMAIN nodes, NEW b \in Range(nodes[a].fanout)
          PROVE  b \in DOMAIN nodes /\ a \in Range(nodes'[b].fanin)
      <4>1. b \in DOMAIN nodes /\ a \in Range(nodes[b].fanin)
        BY <1>1, <3>1, ElementsOf DEF GraphInv
      <4>. QED
        BY <1>3, <2>3, <4>1
    <3>3. v \in Range(nodes'[n].fanin)
      BY <2>3
    <3>. QED
      BY <1>3, <2>5, <2>6, <3>1, <3>2, <3>3, ZenonT(60)
  <2>. QED
    BY <1>3, <2>1, <2>2, <2>7, <2>8, <2>9 DEF GraphInv
<1>7. ReaderInv'
  <2>0. gate.left # <<>> /\ gate.left \in Seq(Names)
        /\ gate' = [gate EXCEPT !.left = Tail(gate.left)]
    BY <1>1 DEF AddFanin, ReaderInv
  <2>1. n \in DOMAIN nodes' \cap driven' /\ gate'.out = n
        /\ gate' \in [out : Int, left : Seq(Names), table : Seq(Seq({0, 1, 2}))]
    <3>1. Tail(gate.left) \in Seq(Names)
      BY <2>0
    <3>2. driven' = driven
      BY DEF AddFanin
    <3>. QED
      BY <1>1, <1>3, <2>0, <3>1, <3>2 DEF ReaderInv
  <2>. QED
    BY <2>1 DEF TopoInv, ReaderInv, AddFanin
<1>. QED
  BY <1>1, <1>5, <1>6, <1>7, ReadStep DEF ReadPhases, AddFanin

\* A step that leaves fanins and fanouts alone keeps the graph and its links.
LEMMA SameGraph ==
  ASSUME GraphInv, UNCHANGED <<driven, twice>>,
         nodes' \in [DOMAIN nodes -> Node],
         \A k \in DOMAIN nodes : nodes'[k].fanin = nodes[k].fanin
                                 /\ nodes'[k].fanout = nodes[k].fanout
  PROVE  GraphInv' /\ \A k : EdgesTo(k)' = EdgesTo(k)
<1>1. DOMAIN nodes' = DOMAIN nodes
  OBVIOUS
<1>2. \A k : EdgesTo(k)' = EdgesTo(k)
  BY <1>1, EdgesStay
<1>3. \A v \in DOMAIN nodes : Range(nodes[v].fanout) \subseteq DOMAIN nodes
  BY ElementsOf DEF GraphInv
<1>4. twice = {} => \A v \in DOMAIN nodes : \A n \in Range(nodes'[v].fanout) :
                      v \in Range(nodes'[n].fanin)
  BY <1>3 DEF GraphInv
<1>5. \A n \in DOMAIN nodes : \A f \in Range(nodes'[n].fanin) :
        f \in DOMAIN nodes /\ n \in Range(nodes'[f].fanout)
  BY DEF GraphInv
<1>. QED
  BY <1>1, <1>2, <1>4, <1>5 DEF GraphInv

\* The table and numVars are all that the rows change.
LEMMA FilledGood ==
  ASSUME TopoInv, NEW rows \in Seq(Seq({0, 1, 2})), Filled(rows), UNCHANGED sortVars,
         phase' \in {"names", "seed"}, left' \in 0 .. MaxNames
  PROVE  TopoInv'
<1>. DEFINE n == gate.out
<1>1. n \in DOMAIN nodes /\ phase = "fanins" /\ GraphInv /\ ReaderInv
  BY DEF Filled, TopoInv, ReaderInv
<1>2. PICK r : r = [nodes[n] EXCEPT !.rows = rows, !.numVars = Len(nodes[n].fanin)]
  OBVIOUS
<1>3. nodes' = [m \in DOMAIN nodes \cup {n} |-> IF m = n THEN r ELSE nodes[m]]
  BY <1>2 DEF Filled, WithNode
<1>. HIDE DEF n
<1>4. PICK m \in Node : m = nodes[n]
  BY <1>1 DEF GraphInv
<1>5. r \in Node /\ r.fanin = m.fanin /\ r.fanout = m.fanout /\ r.faninNum = m.faninNum
  <2>1. Len(m.fanin) \in Nat
    BY DEF Node
  <2>. QED
    BY <1>2, <1>4, <2>1 DEF Node
<1>6. /\ nodes' \in [DOMAIN nodes -> Node] /\ DOMAIN nodes' = DOMAIN nodes
      /\ \A k \in DOMAIN nodes : nodes'[k].fanin = nodes[k].fanin
                                 /\ nodes'[k].fanout = nodes[k].fanout
                                 /\ nodes'[k].faninNum = nodes[k].faninNum
  BY <1>1, <1>3, <1>4, <1>5 DEF GraphInv
<1>7. GraphInv' /\ \A k : EdgesTo(k)' = EdgesTo(k)
  BY <1>1, <1>6, SameGraph DEF Filled
<1>8. LinksCounted'
  BY <1>1, <1>6, <1>7, LinksAreCounted DEF LinksCounted, ReadPhases
<1>9. ReaderInv'
  <2>1. gate' = NoGate /\ <<>> \in Seq(Names) /\ <<>> \in Seq(Seq({0, 1, 2}))
    BY DEF Filled
  <2>. QED
    BY <1>1, <2>1 DEF ReaderInv, Filled, NoGate, ReadPhases
<1>. QED
  BY <1>1, <1>7, <1>8, <1>9, ReadStep DEF ReadPhases

\* The end of the file leaves the circuit as it is.
LEMMA EndFileGood ==
  ASSUME TopoInv, EndFile, UNCHANGED sortVars
  PROVE  TopoInv'
<1>1. GraphInv' /\ LinksCounted'
  <2>1. LinksCounted
    BY LinksAreCounted DEF EndFile, ReadPhases
  <2>2. UNCHANGED <<nodes, driven, twice>>
    BY DEF EndFile
  <2>3. \A k : EdgesTo(k)' = EdgesTo(k)
    BY <2>2 DEF EdgesTo
  <2>. QED
    BY <2>1, <2>2, <2>3 DEF TopoInv, GraphInv, LinksCounted
<1>2. ReaderInv'
  BY MaxNamesAssumption DEF TopoInv, ReaderInv, EndFile, ReadPhases
<1>. QED
  BY <1>1, <1>2, ReadStep DEF ReadPhases, EndFile

\* Every step of the reader keeps the invariant.
LEMMA ReadGood ==
  ASSUME TopoInv, Read, UNCHANGED sortVars
  PROVE  TopoInv'
<1>1. gate.table \in Seq(Seq({0, 1, 2})) /\ left \in 0 .. MaxNames
  BY DEF TopoInv, ReaderInv
<1>2. CASE ReadTable
  BY <1>1, <1>2, FilledGood DEF ReadTable
<1>3. CASE ReadBadRow
  <2>1. PICK k \in 0 .. Len(gate.table) : Filled(SubSeq(gate.table, 1, k))
    BY <1>3 DEF ReadBadRow
  <2>2. SubSeq(gate.table, 1, k) \in Seq(Seq({0, 1, 2}))
    BY <1>1
  <2>3. left' \in 0 .. MaxNames /\ phase' = "seed"
    BY <1>3, MaxNamesAssumption DEF ReadBadRow
  <2>. QED
    BY <2>1, <2>2, <2>3, FilledGood
<1>. QED
  BY <1>2, <1>3, ReadHeaderGood, ReadConstantGood, ReadNamesGood, AddFaninGood, EndFileGood
     DEF Read

----------------------------------------------------------------------------
\* The sort's actions.

AtStart == head = 1 /\ edge = 1
Unmarked == \A n : Pending(n) = EdgesTo(n)

\* Positions in a fanout are numbers from 1 to its length.
LEMMA EdgePosition ==
  ASSUME GraphInv, NEW n, NEW p \in EdgesTo(n)
  PROVE  /\ p[1] \in DOMAIN nodes /\ p[2] \in Nat \ {0}
         /\ p[2] <= Len(nodes[p[1]].fanout)
<1>1. p[1] \in DOMAIN nodes /\ p[2] \in DOMAIN nodes[p[1]].fanout
  BY DEF EdgesTo
<1>2. nodes[p[1]].fanout \in Seq(DOMAIN nodes)
  BY <1>1 DEF GraphInv
<1>. QED
  BY <1>1, <1>2

\* As long as only inputs are collected nothing is marked.
LEMMA StartUnmarked == GraphInv /\ AtStart => Unmarked
<1>. SUFFICES ASSUME GraphInv, AtStart, NEW n, NEW p \in EdgesTo(n) PROVE ~ Marked(p)
  BY DEF Unmarked, Pending
<1>1. p[2] \in Nat \ {0}
  BY EdgePosition
<1>. QED
  BY <1>1 DEF Marked, AtStart

\* A new element leaves an injective sequence injective.
LEMMA AppendDistinct ==
  ASSUME NEW S, NEW s \in Seq(S), NEW x, IsInjective(s), x \notin Range(s)
  PROVE  IsInjective(Append(s, x))
<1>1. /\ DOMAIN Append(s, x) = 1 .. (Len(s) + 1) /\ Len(s) \in Nat /\ DOMAIN s = 1 .. Len(s)
      /\ \A i \in 1 .. Len(s) : Append(s, x)[i] = s[i]
      /\ Append(s, x)[Len(s) + 1] = x
  BY AppendElement
<1>2. \A i \in 1 .. Len(s) : s[i] # x
  BY <1>1 DEF Range
<1>. QED
  BY <1>1, <1>2 DEF IsInjective

\* Nodes come after their fanins in a sequence.
Sorted(s) ==
  \A i \in DOMAIN s : \A f \in Range(nodes[s[i]].fanin) : \E j \in 1 .. (i - 1) : s[j] = f

\* A node whose fanins are all in a sorted sequence may be appended to it.
LEMMA AppendSorted ==
  ASSUME NEW S, NEW s \in Seq(S), NEW x, Sorted(s),
         \A f \in Range(nodes[x].fanin) : f \in Range(s)
  PROVE  Sorted(Append(s, x))
<1>1. /\ DOMAIN Append(s, x) = 1 .. (Len(s) + 1) /\ Len(s) \in Nat /\ DOMAIN s = 1 .. Len(s)
      /\ \A i \in 1 .. Len(s) : Append(s, x)[i] = s[i]
      /\ Append(s, x)[Len(s) + 1] = x
  BY AppendElement
<1>2. ASSUME NEW i \in 1 .. Len(s), NEW f \in Range(nodes[s[i]].fanin)
      PROVE  \E j \in 1 .. (i - 1) : Append(s, x)[j] = f
  <2>1. PICK j \in 1 .. (i - 1) : s[j] = f
    BY <1>1, <1>2 DEF Sorted
  <2>. QED
    BY <1>1, <2>1
<1>3. ASSUME NEW f \in Range(nodes[x].fanin)
      PROVE  \E j \in 1 .. Len(s) : Append(s, x)[j] = f
  <2>1. PICK j \in DOMAIN s : s[j] = f
    BY <1>3 DEF Range
  <2>. QED
    BY <1>1, <2>1
<1>4. ASSUME NEW i \in 1 .. (Len(s) + 1), NEW f \in Range(nodes[Append(s, x)[i]].fanin)
      PROVE  \E j \in 1 .. (i - 1) : Append(s, x)[j] = f
  <2>1. CASE i \in 1 .. Len(s)
    BY <1>1, <1>2, <1>4, <2>1
  <2>2. CASE i = Len(s) + 1
    <3>1. i - 1 = Len(s) /\ f \in Range(nodes[x].fanin)
      BY <1>1, <1>4, <2>2
    <3>. QED
      BY <1>3, <3>1
  <2>. QED
    BY <1>1, <2>1, <2>2
<1>. QED
  BY <1>1, <1>4 DEF Sorted

\* An input nobody drives has no edge to wait for, and is not in the order yet.
LEMMA SeedInputGood ==
  ASSUME TopoInv, SeedInput
  PROVE  TopoInv'
<1>. DEFINE m == Min(Inputs \ Range(order))
<1>1. /\ phase = "seed" /\ UNCHANGED <<phase, nodes, gate, left, driven, twice, head, edge>>
      /\ order' = Append(order, m)
  BY DEF SeedInput, readerVars
<1>2. GraphInv /\ ReaderInv /\ PositionInv /\ CountInv /\ OrderInv /\ AfterFanins /\ OnceOnly
  BY DEF TopoInv
<1>3. m \in Inputs /\ m \notin Range(order)
  <2>1. Inputs \ Range(order) \in SUBSET Nat
    BY <1>2, NamesAssumption DEF GraphInv, Inputs
  <2>. QED
    BY <2>1, LeastName DEF SeedInput
<1>. HIDE DEF m
<1>4. m \in DOMAIN nodes /\ order \in Seq(DOMAIN nodes)
  BY <1>2, <1>3 DEF Inputs, PositionInv
<1>5. GraphInv' /\ ReaderInv' /\ InputsUndriven' = InputsUndriven /\ Inputs' = Inputs
  BY <1>1, <1>2 DEF GraphInv, EdgesTo, ReaderInv, InputsUndriven, Inputs
<1>6. Unmarked /\ Unmarked'
  <2>1. AtStart /\ AtStart'
    BY <1>1, <1>2 DEF PositionInv, AtStart
  <2>. QED
    BY <1>2, <1>5, <2>1, StartUnmarked, PTL
<1>7. \A n : Pending(n)' = Pending(n)
  BY <1>1, <1>6 DEF Unmarked, EdgesTo
<1>8. PositionInv'
  <2>1. order' \in Seq(DOMAIN nodes') /\ Len(order') = Len(order) + 1
    BY <1>1, <1>4
  <2>. QED
    BY <1>1, <1>2, <2>1 DEF PositionInv, ReadPhases
<1>9. CountInv'
  BY <1>1, <1>2, <1>5, <1>7 DEF CountInv
<1>10. InputsUndriven => EdgesTo(m) = {} /\ nodes[m].fanin = <<>>
  BY <1>2, <1>3, <1>4 DEF InputsUndriven, GraphInv
<1>11. /\ Range(order') = Range(order) \cup {m} /\ DOMAIN order' = 1 .. (Len(order) + 1)
       /\ \A i \in 1 .. Len(order) : order'[i] = order[i]
       /\ order'[Len(order) + 1] = m /\ Len(order) \in Nat /\ DOMAIN order = 1 .. Len(order)
  BY <1>1, <1>4, AppendElement
<1>12. OrderInv'
  <2>1. SUFFICES ASSUME InputsUndriven
                 PROVE  /\ \A n \in Range(order') : Pending(n)' = {}
                        /\ \A n \in DOMAIN nodes' :
                             EdgesTo(n)' # {} /\ Pending(n)' = {} => n \in Range(order')
    BY <1>5 DEF OrderInv
  <2>2. Pending(m) = {}
    BY <1>10, <2>1 DEF Pending
  <2>3. \A n : EdgesTo(n)' = EdgesTo(n)
    BY <1>1 DEF EdgesTo
  <2>. QED
    BY <1>1, <1>2, <1>7, <1>11, <2>1, <2>2, <2>3 DEF OrderInv
<1>13. AfterFanins'
  <2>1. ASSUME InputsUndriven PROVE Sorted(Append(order, m))
    <3>1. Sorted(order) /\ Range(nodes[m].fanin) = {}
      BY <1>2, <1>10, <2>1, EmptySequence DEF AfterFanins, Sorted
    <3>. QED
      BY <1>4, <3>1, AppendSorted
  <2>. QED
    BY <1>1, <1>5, <2>1, ZenonT(60) DEF AfterFanins, Sorted
<1>14. OnceOnly'
  BY <1>1, <1>2, <1>3, <1>4, <1>5, AppendDistinct DEF OnceOnly
<1>. QED
  BY <1>5, <1>8, <1>9, <1>12, <1>13, <1>14 DEF TopoInv

\* Steps that change nothing the invariant looks at but the phase.
LEMMA PhaseStep ==
  ASSUME TopoInv, phase \in {"seed", "sort", "sorted"}, phase' \in {"sort", "sorted"},
         phase' = "sorted" => head = Len(order) + 1,
         UNCHANGED <<nodes, gate, left, driven, twice, sortVars>>
  PROVE  TopoInv'
<1>1. GraphInv' /\ \A n : Pending(n)' = Pending(n) /\ EdgesTo(n)' = EdgesTo(n)
  BY DEF TopoInv, GraphInv, EdgesTo, Pending, Marked, sortVars
<1>2. InputsUndriven' = InputsUndriven
  BY DEF InputsUndriven, Inputs
<1>3. ReaderInv' /\ PositionInv'
  BY DEF TopoInv, ReaderInv, PositionInv, ReadPhases, sortVars
<1>4. CountInv'
  BY <1>1, <1>2 DEF TopoInv, CountInv, ReadPhases, sortVars
<1>5. OrderInv' /\ AfterFanins' /\ OnceOnly'
  BY <1>1, <1>2 DEF TopoInv, OrderInv, AfterFanins, OnceOnly, IsInjective, sortVars
<1>. QED
  BY <1>1, <1>3, <1>4, <1>5 DEF TopoInv

\* When the node visited has no more fanout all its edges are marked anyway.
LEMMA NextVisitGood ==
  ASSUME TopoInv, NextVisit
  PROVE  TopoInv'
<1>1. /\ phase = "sort" /\ head <= Len(order) /\ edge > Len(nodes[order[head]].fanout)
      /\ UNCHANGED <<phase, nodes, gate, left, driven, twice, order>>
      /\ head' = head + 1 /\ edge' = 1
  BY DEF NextVisit, readerVars, Fanout
<1>2. GraphInv /\ PositionInv
  BY DEF TopoInv
<1>3. /\ head \in Nat \ {0} /\ Len(order) \in Nat /\ edge \in Nat \ {0}
      /\ order[head] \in DOMAIN nodes
  BY <1>1, <1>2 DEF PositionInv
<1>4. GraphInv' /\ \A n : EdgesTo(n)' = EdgesTo(n)
  BY <1>1, <1>2 DEF GraphInv, EdgesTo
<1>5. ASSUME NEW n, NEW p \in EdgesTo(n) PROVE Marked(p)' <=> Marked(p)
  <2>1. p[2] \in Nat \ {0} /\ p[2] <= Len(nodes[p[1]].fanout) /\ p[1] \in DOMAIN nodes
    BY <1>2, EdgePosition
  <2>2. Len(nodes[p[1]].fanout) \in Nat
    BY <1>2, <2>1 DEF GraphInv
  <2>3. (\E i \in 1 .. head : order[i] = p[1]) <=>
          (order[head] = p[1] \/ \E i \in 1 .. (head - 1) : order[i] = p[1])
    BY <1>3
  <2>4. Marked(p)' <=> \E i \in 1 .. head : order[i] = p[1]
    BY <1>1, <1>3, <2>1 DEF Marked
  <2>5. Marked(p) <=> order[head] = p[1] \/ \E i \in 1 .. (head - 1) : order[i] = p[1]
    BY <1>1, <1>3, <2>1, <2>2 DEF Marked
  <2>. QED
    BY <2>3, <2>4, <2>5
<1>6. \A n : Pending(n)' = Pending(n)
  BY <1>4, <1>5 DEF Pending
<1>7. InputsUndriven' = InputsUndriven
  BY <1>1 DEF InputsUndriven, Inputs
<1>8. ReaderInv' /\ PositionInv'
  BY <1>1, <1>3 DEF TopoInv, ReaderInv, PositionInv, ReadPhases
<1>9. CountInv'
  BY <1>1, <1>6, <1>7 DEF TopoInv, CountInv, ReadPhases
<1>10. OrderInv' /\ AfterFanins' /\ OnceOnly'
  BY <1>1, <1>4, <1>6, <1>7 DEF TopoInv, OrderInv, AfterFanins, OnceOnly, IsInjective
<1>. QED
  BY <1>4, <1>8, <1>9, <1>10 DEF TopoInv

\* One edge is marked: the count of its node goes down with its pending edges,
\* and when none is left all the node's fanins are before it in the order.
LEMMA MarkFanoutGood ==
  ASSUME TopoInv, MarkFanout
  PROVE  TopoInv'
<1>. SUFFICES ASSUME NEW u, u = order[head], NEW e, e = edge, NEW n, n = Fanout[edge]
              PROVE  TopoInv'
  OBVIOUS
<1>. DEFINE p == <<u, e>>
<1>1. /\ phase = "sort" /\ head <= Len(order) /\ e <= Len(nodes[u].fanout)
      /\ n = nodes[u].fanout[e]
      /\ UNCHANGED <<phase, gate, left, driven, twice, head>>
      /\ edge' = e + 1
      /\ nodes' = [nodes EXCEPT ![n].faninNum = nodes[n].faninNum - 1]
      /\ order' = IF nodes[n].faninNum - 1 = 0 THEN Append(order, n) ELSE order
  BY DEF MarkFanout, Fanout, Satisfied
<1>2. GraphInv /\ ReaderInv /\ PositionInv /\ CountInv /\ OrderInv /\ AfterFanins /\ OnceOnly
  BY DEF TopoInv
<1>3. /\ order \in Seq(DOMAIN nodes) /\ Len(order) \in Nat /\ DOMAIN order = 1 .. Len(order)
      /\ head \in Nat \ {0} /\ e \in Nat \ {0} /\ u \in DOMAIN nodes /\ u \in Names
  BY <1>1, <1>2 DEF PositionInv, GraphInv
<1>4. /\ e \in DOMAIN nodes[u].fanout /\ n \in DOMAIN nodes
      /\ nodes[n] \in Node /\ nodes[n].faninNum \in Int
  <2>1. nodes[u].fanout \in Seq(DOMAIN nodes)
    BY <1>2, <1>3 DEF GraphInv
  <2>2. e \in DOMAIN nodes[u].fanout
    BY <1>1, <1>3, <2>1
  <2>3. n \in DOMAIN nodes
    BY <1>1, <2>1, <2>2
  <2>4. nodes[n] \in Node
    BY <1>2, <2>3 DEF GraphInv
  <2>5. nodes[n].faninNum \in Int
    BY <2>4 DEF Node
  <2>. QED
    BY <2>2, <2>3, <2>4, <2>5
<1>5. p \in EdgesTo(n) /\ \A k : k # n => p \notin EdgesTo(k)
  BY <1>1, <1>3, <1>4 DEF EdgesTo
<1>6. /\ nodes' \in [DOMAIN nodes -> Node] /\ DOMAIN nodes' = DOMAIN nodes
      /\ nodes'[n].faninNum = nodes[n].faninNum - 1
      /\ \A k \in DOMAIN nodes : /\ nodes'[k].fanin = nodes[k].fanin
                                 /\ nodes'[k].fanout = nodes[k].fanout
                                 /\ nodes'[k].type = nodes[k].type
                                 /\ k # n => nodes'[k].faninNum = nodes[k].faninNum
  <2>1. PICK m, r : /\ m = nodes[n] /\ m \in Node
                     /\ r = [m EXCEPT !.faninNum = m.faninNum - 1]
    BY <1>4
  <2>2. /\ r \in Node /\ r.faninNum = m.faninNum - 1 /\ r.fanin = m.fanin
        /\ r.fanout = m.fanout /\ r.type = m.type
    <3>1. m.faninNum - 1 \in Int
      BY <2>1 DEF Node
    <3>. QED
      BY <2>1, <3>1 DEF Node
  <2>3. nodes' = [nodes EXCEPT ![n] = r]
    BY <1>1, <2>1
  <2>. QED
    BY <1>2, <1>4, <2>1, <2>2, <2>3 DEF GraphInv
<1>7. GraphInv' /\ \A k : EdgesTo(k)' = EdgesTo(k)
  BY <1>1, <1>2, <1>6, SameGraph
<1>8. ReaderInv' /\ InputsUndriven' = InputsUndriven
  BY <1>1, <1>2, <1>6, SMTT(30) DEF ReaderInv, ReadPhases, InputsUndriven, Inputs
<1>9. /\ order' \in Seq(DOMAIN nodes') /\ Len(order') \in Nat /\ Len(order') >= Len(order)
      /\ \A i \in 1 .. Len(order) : order'[i] = order[i]
  <2>1. CASE order' = order
    BY <1>3, <1>6, <2>1
  <2>2. CASE order' = Append(order, n)
    BY <1>3, <1>4, <1>6, <2>2, AppendElement
  <2>. QED
    BY <1>1, <2>1, <2>2
<1>10. PositionInv'
  BY <1>1, <1>2, <1>3, <1>9 DEF PositionInv, ReadPhases
<1>11. \A k : \A q \in EdgesTo(k) : Marked(q)' <=> Marked(q) \/ q = p
  <2>. SUFFICES ASSUME NEW k, NEW q \in EdgesTo(k) PROVE Marked(q)' <=> Marked(q) \/ q = p
    OBVIOUS
  <2>1. q[2] \in Nat \ {0} /\ q = <<q[1], q[2]>>
    BY <1>2, EdgePosition DEF EdgesTo
  <2>2. q = p <=> q[1] = u /\ q[2] = e
    BY <2>1
  <2>3. (\E i \in 1 .. (head - 1) : order'[i] = q[1]) <=>
          \E i \in 1 .. (head - 1) : order[i] = q[1]
    BY <1>1, <1>3, <1>9
  <2>4. order'[head] = u /\ head' = head /\ edge' = e + 1 /\ head <= Len(order')
    BY <1>1, <1>3, <1>9
  <2>. HIDE DEF p
  <2>5. Marked(q)' <=> \/ \E i \in 1 .. (head - 1) : order[i] = q[1]
                       \/ q[1] = u /\ q[2] < e + 1
    BY <2>3, <2>4 DEF Marked
  <2>6. Marked(q) <=> \/ \E i \in 1 .. (head - 1) : order[i] = q[1]
                      \/ q[1] = u /\ q[2] < e
    BY <1>1 DEF Marked
  <2>7. q[2] < e + 1 <=> q[2] < e \/ q[2] = e
    BY <1>3, <2>1
  <2>. QED
    BY <2>2, <2>5, <2>6, <2>7
<1>. HIDE DEF p
<1>12. \A k : Pending(k)' = Pending(k) \ {p}
  BY <1>7, <1>11 DEF Pending
<1>13. CASE ~ InputsUndriven
  <2>1. CountInv' /\ OrderInv' /\ AfterFanins' /\ OnceOnly'
    BY <1>1, <1>8, <1>13 DEF CountInv, OrderInv, AfterFanins, OnceOnly, ReadPhases
  <2>. QED
    BY <1>7, <1>8, <1>10, <2>1 DEF TopoInv
<1>14. CASE InputsUndriven
  <2>1. p \in Pending(n)
    <3>1. ~ Marked(p)
      <4>1. \A i \in 1 .. (head - 1) : order[i] # order[head]
        BY <1>1, <1>2, <1>3, <1>14 DEF OnceOnly, IsInjective
      <4>2. p[1] = u /\ p[2] = e
        BY DEF p
      <4>. QED
        BY <1>3, <4>1, <4>2 DEF Marked
    <3>. QED
      BY <1>5, <3>1 DEF Pending
  <2>2. /\ \A k \in DOMAIN nodes : IsFiniteSet(Pending(k))
                                  /\ nodes[k].faninNum = Cardinality(Pending(k))
        /\ \A k \in Range(order) : Pending(k) = {}
        /\ \A k \in DOMAIN nodes : EdgesTo(k) # {} /\ Pending(k) = {} => k \in Range(order)
    BY <1>2, <1>14 DEF CountInv, OrderInv
  <2>3. n \notin Range(order)
    BY <2>1, <2>2
  <2>4. \A k \in DOMAIN nodes : k # n => Pending(k)' = Pending(k)
    BY <1>5, <1>12 DEF Pending
  <2>5. IsFiniteSet(Pending(n)') /\ nodes'[n].faninNum = Cardinality(Pending(n)')
    BY <1>4, <1>6, <1>12, <2>1, <2>2, FS_RemoveElement
  <2>6. CountInv'
    BY <1>6, <2>2, <2>4, <2>5 DEF CountInv
  <2>7. CASE nodes[n].faninNum - 1 = 0
    <3>1. order' = Append(order, n)
      BY <1>1, <2>7
    <3>2. Range(order') = Range(order) \cup {n}
      BY <1>3, <3>1, AppendElement
    <3>3. Pending(n)' = {}
      BY <1>6, <2>5, <2>7, FS_EmptySet
    <3>4. OrderInv'
      BY <1>3, <1>6, <1>7, <2>2, <2>4, <3>2, <3>3, ElementsOf DEF OrderInv
    <3>5. \A f \in Range(nodes[n].fanin) : f \in Range(order)
      <4>1. SUFFICES ASSUME NEW f \in Range(nodes[n].fanin) PROVE f \in Range(order)
        OBVIOUS
      <4>2. f \in DOMAIN nodes /\ n \in Range(nodes[f].fanout)
        BY <1>2, <1>4 DEF GraphInv
      <4>3. PICK q \in EdgesTo(n) : q[1] = f
        BY <1>2, <4>2, FanoutIsEdges
      <4>4. Marked(q) \/ q = p
        BY <1>12, <3>3 DEF Pending
      <4>5. p[1] = order[head]
        BY DEF p
      <4>6. \E i \in DOMAIN order : order[i] = f
        BY <1>1, <1>3, <4>3, <4>4, <4>5 DEF Marked
      <4>. QED
        BY <4>6 DEF Range
    <3>6. AfterFanins'
      <4>1. Sorted(order)
        BY <1>2, <1>14 DEF AfterFanins, Sorted
      <4>2. Sorted(order')
        BY <1>3, <3>1, <3>5, <4>1, AppendSorted
      <4>3. \A i \in DOMAIN order' : nodes'[order'[i]].fanin = nodes[order'[i]].fanin
        BY <1>6, <1>9
      <4>. QED
        BY <4>2, <4>3 DEF AfterFanins, Sorted
    <3>7. OnceOnly'
      BY <1>2, <1>3, <1>14, <2>3, <3>1, AppendDistinct DEF OnceOnly
    <3>. QED
      BY <1>7, <1>8, <1>10, <2>6, <3>4, <3>6, <3>7 DEF TopoInv
  <2>8. CASE nodes[n].faninNum - 1 # 0
    <3>1. order' = order
      BY <1>1, <2>8
    <3>2. Pending(n)' # {}
      BY <1>6, <2>5, <2>8, FS_EmptySet
    <3>3. OrderInv'
      BY <1>3, <1>6, <1>7, <2>2, <2>3, <2>4, <3>1, <3>2, ElementsOf DEF OrderInv
    <3>4. AfterFanins'
      <4>1. \A i \in DOMAIN order : order[i] \in DOMAIN nodes
        BY <1>3
      <4>2. \A i \in DOMAIN order : nodes'[order[i]].fanin = nodes[order[i]].fanin
        BY <1>6, <4>1
      <4>. QED
        BY <1>2, <1>8, <3>1, <4>2 DEF AfterFanins
    <3>5. OnceOnly'
      BY <1>2, <1>8, <3>1 DEF OnceOnly
    <3>. QED
      BY <1>7, <1>8, <1>10, <2>6, <3>3, <3>4, <3>5 DEF TopoInv
  <2>. QED
    BY <2>7, <2>8
<1>. QED
  BY <1>13, <1>14

----------------------------------------------------------------------------
\* The bound of the order, driven inputs included: the inputs come first, each
\* once, and then nodes whose fanin_num has come down to zero, each once.
FirstInputs(k) ==
  \A i \in 1 .. k : /\ order[i] \in Inputs
                    /\ \A j \in 1 .. k : order[i] = order[j] => i = j
ThenCounted(k) ==
  \A i \in (k + 1) .. Len(order) :
    /\ nodes[order[i]].faninNum <= 0
    /\ \A j \in (k + 1) .. Len(order) : order[i] = order[j] => i = j
SplitAt(k) == FirstInputs(k) /\ ThenCounted(k) /\ (phase = "seed" => k = Len(order))
BoundInv == IsFiniteSet(DOMAIN nodes) /\ \E k \in 0 .. Len(order) : SplitAt(k)

\* A stretch of a sequence without repetition is no longer than a set it is in.
LEMMA SpanBounded ==
  ASSUME NEW S, IsFiniteSet(S), NEW s, NEW a \in Nat, NEW b \in Nat, a <= b,
         \A i \in (a + 1) .. b : s[i] \in S,
         \A i, j \in (a + 1) .. b : s[i] = s[j] => i = j
  PROVE  Cardinality(S) \in Nat /\ b - a <= Cardinality(S)
<1>. DEFINE f == [i \in (a + 1) .. b |-> s[i]]
<1>1. f \in Injection((a + 1) .. b, S)
  BY DEF Injection, IsInjective
<1>2. Cardinality((a + 1) .. b) <= Cardinality(S)
  BY <1>1, FS_Injection
<1>3. Cardinality((a + 1) .. b) = b - a
  <2>1. a + 1 \in Int /\ b \in Int
    OBVIOUS
  <2>2. Cardinality((a + 1) .. b) = IF a + 1 > b THEN 0 ELSE b - (a + 1) + 1
    BY <2>1, FS_Interval
  <2>. QED
    BY <2>2
<1>. QED
  BY <1>2, <1>3, FS_CardinalityType

\* An empty order may be split at 0.
NoNodes == order = <<>>
BoundAtZero == Len(order) = 0 /\ SplitAt(0)
LEMMA EmptySplit == NoNodes => BoundAtZero
<1>. SUFFICES ASSUME NoNodes PROVE BoundAtZero
  OBVIOUS
<1>1. Len(order) = 0
  BY DEF NoNodes
<1>. QED
  BY <1>1 DEF BoundAtZero, SplitAt, FirstInputs, ThenCounted

\* The reader adds finitely many nodes.
LEMMA ReadFinite ==
  ASSUME TopoInv, IsFiniteSet(DOMAIN nodes), Read
  PROVE  IsFiniteSet(DOMAIN nodes')
<1>1. CASE ReadHeader
  <2>1. PICK h \in Headers : DOMAIN nodes' = h.inputs \cup h.outputs
    BY <1>1 DEF ReadHeader
  <2>. QED
    BY <2>1, FiniteAssumption, FS_Union
<1>2. ASSUME NEW n, NEW m, nodes' = WithNode(n, m) PROVE IsFiniteSet(DOMAIN nodes')
  <2>1. DOMAIN nodes' = DOMAIN nodes \cup {n}
    BY <1>2 DEF WithNode
  <2>. QED
    BY <2>1, FS_AddElement
<1>3. ASSUME NEW n \in Names, ReadNames(n) PROVE IsFiniteSet(DOMAIN nodes')
  BY <1>2, <1>3 DEF ReadNames
<1>4. ASSUME NEW n \in Names, NEW type \in {"zero", "one"}, ReadConstant(n, type)
      PROVE  IsFiniteSet(DOMAIN nodes')
  BY <1>2, <1>4 DEF ReadConstant
<1>5. CASE AddFanin
  <2>1. \E v : DOMAIN nodes' = DOMAIN nodes \cup {v}
    BY <1>5 DEF AddFanin
  <2>. QED
    BY <2>1, FS_AddElement
<1>6. ASSUME NEW rows, Filled(rows) PROVE IsFiniteSet(DOMAIN nodes')
  BY <1>2, <1>6 DEF Filled
<1>7. CASE ReadTable
  BY <1>6, <1>7 DEF ReadTable
<1>8. CASE ReadBadRow
  BY <1>6, <1>8 DEF ReadBadRow
<1>9. CASE EndFile
  BY <1>9 DEF EndFile
<1>. QED
  BY <1>1, <1>3, <1>4, <1>5, <1>7, <1>8, <1>9 DEF Read

\* While the file is read there is no order.
LEMMA ReadBounded ==
  ASSUME TopoInv, BoundInv, Read, UNCHANGED sortVars
  PROVE  BoundInv'
<1>1. phase \in ReadPhases
  BY DEF Read, ReadHeader, ReadNames, ReadConstant, AddFanin, ReadTable, ReadBadRow, Filled,
         EndFile, ReadPhases
<1>2. NoNodes'
  BY <1>1 DEF TopoInv, PositionInv, sortVars, NoNodes
<1>3. BoundAtZero'
  BY <1>2, EmptySplit, PTL
<1>4. IsFiniteSet(DOMAIN nodes')
  BY ReadFinite DEF BoundInv
<1>5. 0 \in 0 .. Len(order')
  BY <1>3 DEF BoundAtZero
<1>. QED
  BY <1>3, <1>4, <1>5 DEF BoundInv, BoundAtZero

\* One more input: all of the order is inputs.
LEMMA SeedBounded ==
  ASSUME TopoInv, BoundInv, SeedInput
  PROVE  BoundInv'
<1>. SUFFICES ASSUME NEW q, q = Len(order) + 1 PROVE BoundInv'
  OBVIOUS
<1>. DEFINE m == Min(Inputs \ Range(order))
<1>1. /\ phase = "seed" /\ UNCHANGED <<phase, nodes>> /\ order' = Append(order, m)
      /\ order \in Seq(DOMAIN nodes) /\ Len(order) \in Nat
  BY DEF SeedInput, readerVars, TopoInv, PositionInv
<1>2. m \in Inputs /\ m \notin Range(order)
  <2>1. Inputs \ Range(order) \in SUBSET Nat
    BY NamesAssumption DEF TopoInv, GraphInv, Inputs
  <2>. QED
    BY <2>1, LeastName DEF SeedInput
<1>. HIDE DEF m
<1>3. FirstInputs(Len(order)) /\ IsFiniteSet(DOMAIN nodes)
  BY <1>1 DEF BoundInv, SplitAt
<1>4. /\ Len(order') = q /\ q \in Nat
      /\ \A i \in 1 .. Len(order) : order'[i] = order[i] /\ order[i] # m
      /\ order'[q] = m /\ Inputs' = Inputs
  <2>1. \A i \in 1 .. Len(order) : order[i] \in Range(order)
    BY <1>1 DEF Range
  <2>. QED
    BY <1>1, <1>2, <2>1, AppendElement DEF Inputs
<1>5. \A i \in 1 .. q : i \in 1 .. Len(order) \/ i = q
  BY <1>1
<1>6. \A i \in 1 .. q : order'[i] \in Inputs
  BY <1>2, <1>3, <1>4, <1>5 DEF FirstInputs
<1>7. \A i, j \in 1 .. q : order'[i] = order'[j] => i = j
  BY <1>3, <1>4, <1>5 DEF FirstInputs
<1>8. FirstInputs(q)'
  BY <1>4, <1>6, <1>7 DEF FirstInputs
<1>9. ThenCounted(q)'
  BY <1>4 DEF ThenCounted
<1>10. SplitAt(q)' /\ q \in 0 .. Len(order')
  BY <1>4, <1>8, <1>9 DEF SplitAt
<1>. QED
  BY <1>1, <1>3, <1>10 DEF BoundInv

\* Steps that leave the circuit and the order alone, and do not go back.
LEMMA VisitBounded ==
  ASSUME BoundInv, UNCHANGED <<nodes, order>>, phase' = "seed" => phase = "seed"
  PROVE  BoundInv'
<1>1. PICK k \in 0 .. Len(order) : SplitAt(k)
  BY DEF BoundInv
<1>2. SplitAt(k)'
  BY <1>1 DEF SplitAt, FirstInputs, ThenCounted, Inputs
<1>. QED
  BY <1>1, <1>2 DEF BoundInv

\* A node that is appended has just come down to zero; the nodes appended
\* before it were there already, so that it is not one of them.
LEMMA MarkBounded ==
  ASSUME TopoInv, BoundInv, MarkFanout
  PROVE  BoundInv'
<1>. SUFFICES ASSUME NEW n, n = Fanout[edge] PROVE BoundInv'
  OBVIOUS
<1>1. /\ phase = "sort" /\ phase' = "sort" /\ head <= Len(order) /\ edge <= Len(Fanout)
      /\ nodes' = [nodes EXCEPT ![n].faninNum = nodes[n].faninNum - 1]
      /\ order' = IF nodes[n].faninNum - 1 = 0 THEN Append(order, n) ELSE order
  BY DEF MarkFanout, Satisfied
<1>2. /\ order \in Seq(DOMAIN nodes) /\ Len(order) \in Nat /\ edge \in Nat \ {0}
      /\ head \in Nat \ {0} /\ nodes \in [DOMAIN nodes -> Node]
      /\ \A v \in DOMAIN nodes : nodes[v].fanout \in Seq(DOMAIN nodes)
  BY DEF TopoInv, PositionInv, GraphInv
<1>3. n \in DOMAIN nodes
  <2>1. order[head] \in DOMAIN nodes
    BY <1>1, <1>2
  <2>2. Fanout \in Seq(DOMAIN nodes)
    BY <1>2, <2>1 DEF Fanout
  <2>. QED
    BY <1>1, <1>2, <2>2
<1>4. \A v \in DOMAIN nodes : nodes[v] \in Node /\ nodes[v].faninNum \in Int
  BY <1>2 DEF Node
<1>5. /\ DOMAIN nodes' = DOMAIN nodes
      /\ nodes'[n].faninNum = nodes[n].faninNum - 1
      /\ \A v \in DOMAIN nodes : /\ nodes'[v].type = nodes[v].type
                                 /\ v # n => nodes'[v].faninNum = nodes[v].faninNum
  BY <1>1, <1>2, <1>3, <1>4 DEF Node
<1>6. Inputs' = Inputs
  BY <1>5 DEF Inputs
<1>7. PICK k \in 0 .. Len(order) : SplitAt(k)
  BY DEF BoundInv
<1>8. \A i \in 1 .. Len(order) : order[i] \in DOMAIN nodes
  BY <1>2
<1>9. \A i \in (k + 1) .. Len(order) : nodes'[order[i]].faninNum <= 0
  <2>. SUFFICES ASSUME NEW i \in (k + 1) .. Len(order)
                PROVE  nodes'[order[i]].faninNum <= 0
    OBVIOUS
  <2>1. order[i] \in DOMAIN nodes /\ nodes[order[i]].faninNum <= 0
    BY <1>2, <1>7, <1>8 DEF SplitAt, ThenCounted
  <2>2. CASE order[i] = n
    BY <1>4, <1>5, <2>1, <2>2
  <2>3. CASE order[i] # n
    BY <1>5, <2>1, <2>3
  <2>. QED
    BY <2>2, <2>3
<1>10. CASE nodes[n].faninNum - 1 # 0
  <2>1. order' = order
    BY <1>1, <1>10
  <2>2. SplitAt(k)'
    BY <1>1, <1>6, <1>7, <1>9, <2>1 DEF SplitAt, FirstInputs, ThenCounted
  <2>. QED
    BY <1>5, <1>7, <2>1, <2>2 DEF BoundInv
<1>11. CASE nodes[n].faninNum - 1 = 0
  <2>1. /\ Len(order') = Len(order) + 1 /\ order'[Len(order) + 1] = n
        /\ \A i \in 1 .. Len(order) : order'[i] = order[i]
    BY <1>1, <1>2, <1>11, AppendElement
  <2>2. \A i \in (k + 1) .. Len(order) : order[i] # n
    BY <1>3, <1>4, <1>7, <1>11 DEF SplitAt, ThenCounted
  <2>3. FirstInputs(k)'
    <3>1. \A i \in 1 .. k : order'[i] = order[i]
      BY <1>2, <2>1
    <3>. QED
      BY <1>6, <1>7, <3>1 DEF SplitAt, FirstInputs
  <2>4. ThenCounted(k)'
    <3>1. \A i \in (k + 1) .. (Len(order) + 1) : i \in (k + 1) .. Len(order) \/ i = Len(order) + 1
      BY <1>2, <1>7
    <3>2. \A i \in (k + 1) .. Len(order) : order'[i] = order[i]
      BY <1>2, <2>1
    <3>3. nodes'[n].faninNum <= 0
      BY <1>5, <1>11
    <3>4. \A i \in (k + 1) .. (Len(order) + 1) : nodes'[order'[i]].faninNum <= 0
      BY <1>9, <2>1, <3>1, <3>2, <3>3
    <3>5. \A i, j \in (k + 1) .. Len(order) : order[i] = order[j] => i = j
      BY <1>7 DEF SplitAt, ThenCounted
    <3>6. \A i, j \in (k + 1) .. (Len(order) + 1) : order'[i] = order'[j] => i = j
      BY <2>1, <2>2, <3>1, <3>2, <3>5
    <3>. QED
      BY <2>1, <3>4, <3>6 DEF ThenCounted
  <2>5. SplitAt(k)' /\ k \in 0 .. Len(order')
    BY <1>1, <1>2, <1>7, <2>1, <2>3, <2>4 DEF SplitAt
  <2>. QED
    BY <1>5, <2>5 DEF BoundInv
<1>. QED
  BY <1>10, <1>11

----------------------------------------------------------------------------
\* The specification.

\* The invariant holds before anything is read ...
LEMMA InitGood == TopoInit => TopoInv
<1>. SUFFICES ASSUME TopoInit PROVE TopoInv
  OBVIOUS
<1>. USE DEF TopoInit, ReaderInit, SortInit
<1>1. DOMAIN nodes = {} /\ nodes \in [DOMAIN nodes -> Node]
  OBVIOUS
<1>2. GraphInv
  BY <1>1 DEF GraphInv
<1>3. ReaderInv
  BY <1>1, MaxNamesAssumption DEF ReaderInv, ReadPhases, NoGate
<1>4. NoOrderFacts
  BY EmptyOrder DEF NoOrder
<1>5. PositionInv /\ CountInv
  BY <1>1, <1>4 DEF PositionInv, CountInv, ReadPhases, NoOrderFacts
<1>. QED
  BY <1>2, <1>3, <1>4, <1>5 DEF TopoInv, NoOrderFacts

\* ... and when nothing happens ...
LEMMA StutterGood ==
  ASSUME TopoInv, UNCHANGED topoVars
  PROVE  TopoInv'
<1>1. UNCHANGED <<phase, nodes, gate, left, driven, twice, order, head, edge>>
  BY DEF topoVars, readerVars, sortVars
<1>2. /\ \A n : EdgesTo(n)' = EdgesTo(n) /\ Pending(n)' = Pending(n)
      /\ InputsUndriven' = InputsUndriven
  BY <1>1 DEF EdgesTo, Pending, Marked, InputsUndriven, Inputs
<1>3. GraphInv' /\ ReaderInv' /\ PositionInv'
  BY <1>1, <1>2 DEF TopoInv, GraphInv, ReaderInv, PositionInv
<1>4. CountInv' /\ OrderInv' /\ AfterFanins' /\ OnceOnly'
  BY <1>1, <1>2 DEF TopoInv, CountInv, OrderInv, AfterFanins, OnceOnly, IsInjective
<1>. QED
  BY <1>3, <1>4 DEF TopoInv

\* ... and every step keeps it.
LEMMA StepGood == TopoInv /\ [TopoNext]_topoVars => TopoInv'
<1>. SUFFICES ASSUME TopoInv, [TopoNext]_topoVars PROVE TopoInv'
  OBVIOUS
<1>1. CASE Read /\ UNCHANGED sortVars
  BY <1>1, ReadGood
<1>2. CASE StartSort
  BY <1>2, PhaseStep DEF StartSort
<1>3. CASE EndSort
  <2>1. head = Len(order) + 1
    BY <1>3 DEF EndSort, TopoInv, PositionInv
  <2>. QED
    BY <1>3, <2>1, PhaseStep DEF EndSort
<1>. QED
  BY <1>1, <1>2, <1>3, SeedInputGood, MarkFanoutGood, NextVisitGood, StutterGood
     DEF TopoNext, Sort

\* The invariant holds of every circuit file, redefinitions and cycles included.
THEOREM TopoInvariance == TopoSpec => []TopoInv
BY InitGood, StepGood, PTL DEF TopoSpec

\* Types; and no fanin_num passes below zero, where fanin_sat would never
\* see it (node.h:89-96).
THEOREM TopoTypeCorrect == TopoSpec => []TopoTypeOK
<1>1. TopoInv => TopoTypeOK
  <2>. SUFFICES ASSUME TopoInv PROVE TopoTypeOK
    OBVIOUS
  <2>1. ASSUME InputsUndriven, NEW n \in DOMAIN nodes PROVE nodes[n].faninNum >= 0
    BY <2>1, FS_CardinalityType DEF TopoInv, CountInv
  <2>. QED
    BY <2>1 DEF TopoTypeOK, TopoInv, GraphInv, ReaderInv, PositionInv
<1>. QED
  BY <1>1, TopoInvariance, PTL

\* In the order of topological every node comes after all its fanins.
THEOREM FaninsFirst == TopoSpec => []AfterFanins
<1>1. TopoInv => AfterFanins
  BY DEF TopoInv
<1>. QED
  BY <1>1, TopoInvariance, PTL

\* No node is in the order of topological twice.
THEOREM EachNodeOnce == TopoSpec => []OnceOnly
<1>1. TopoInv => OnceOnly
  BY DEF TopoInv
<1>. QED
  BY <1>1, TopoInvariance, PTL

\* topological leaves out no gate whose fanins are all in the order.
THEOREM NoGateForgotten == TopoSpec => []Maximal
<1>1. TopoInv => Maximal
  <2>. SUFFICES ASSUME TopoInv, phase = "sorted", InputsUndriven, twice = {},
                       NEW n \in DOMAIN nodes, nodes[n].fanin # <<>>,
                       Range(nodes[n].fanin) \subseteq Range(order)
                PROVE  n \in Range(order)
    BY DEF Maximal
  <2>1. GraphInv /\ PositionInv /\ OrderInv /\ head = Len(order) + 1
    BY DEF TopoInv, PositionInv
  <2>2. ASSUME NEW q \in EdgesTo(n) PROVE Marked(q)
    <3>1. q[1] \in DOMAIN nodes
      BY <2>1, EdgePosition
    <3>2. n \in Range(nodes[q[1]].fanout)
      BY <2>1, <3>1, FanoutIsEdges
    <3>3. q[1] \in Range(order)
      BY <2>1, <3>1, <3>2 DEF GraphInv
    <3>4. PICK i \in DOMAIN order : order[i] = q[1]
      BY <3>3 DEF Range
    <3>5. i \in 1 .. (head - 1)
      BY <2>1 DEF PositionInv
    <3>. QED
      BY <3>4, <3>5 DEF Marked
  <2>3. EdgesTo(n) # {}
    <3>1. nodes[n].fanin \in Seq(Names)
      BY <2>1 DEF GraphInv, Node
    <3>2. PICK f : f \in Range(nodes[n].fanin)
      <4>1. nodes[n].fanin[1] \in Range(nodes[n].fanin)
        <5>1. 1 \in DOMAIN nodes[n].fanin
          BY <3>1
        <5>. QED
          BY <5>1 DEF Range
      <4>. QED
        BY <4>1
    <3>3. f \in DOMAIN nodes /\ n \in Range(nodes[f].fanout)
      BY <2>1, <3>2 DEF GraphInv
    <3>. QED
      BY <2>1, <3>3, FanoutIsEdges
  <2>. QED
    BY <2>1, <2>2, <2>3 DEF OrderInv, Pending
<1>. QED
  BY <1>1, TopoInvariance, PTL

\* The search of topological ends, whatever the file: the order is no longer
\* than the nodes and the inputs together.
THEOREM SearchEnds == TopoSpec => []OrderBounded
<1>1. TopoInit => BoundInv
  <2>. SUFFICES ASSUME TopoInit PROVE BoundInv
    OBVIOUS
  <2>1. DOMAIN nodes = {} /\ NoNodes
    BY DEF TopoInit, ReaderInit, SortInit, NoNodes
  <2>2. Len(order) = 0 /\ SplitAt(0)
    BY <2>1, EmptySplit DEF BoundAtZero
  <2>3. IsFiniteSet(DOMAIN nodes) /\ 0 \in 0 .. Len(order)
    BY <2>1, <2>2, FS_EmptySet
  <2>. QED
    BY <2>2, <2>3 DEF BoundInv
<1>2. TopoInv /\ BoundInv /\ [TopoNext]_topoVars => BoundInv'
  <2>. SUFFICES ASSUME TopoInv, BoundInv, [TopoNext]_topoVars PROVE BoundInv'
    OBVIOUS
  <2>1. CASE StartSort \/ EndSort \/ NextVisit \/ UNCHANGED topoVars
    <3>1. UNCHANGED <<nodes, order>> /\ (phase' = "seed" => phase = "seed")
      BY <2>1 DEF StartSort, EndSort, NextVisit, topoVars, readerVars, sortVars
    <3>. QED
      BY <3>1, VisitBounded
  <2>2. CASE Read /\ UNCHANGED sortVars
    BY <2>2, ReadBounded
  <2>. QED
    BY <2>1, <2>2, SeedBounded, MarkBounded DEF TopoNext, Sort
<1>3. TopoInv /\ BoundInv => OrderBounded
  <2>. SUFFICES ASSUME TopoInv, BoundInv PROVE OrderBounded
    OBVIOUS
  <2>1. PICK k \in 0 .. Len(order) : SplitAt(k)
    BY DEF BoundInv
  <2>2. order \in Seq(DOMAIN nodes) /\ Len(order) \in Nat /\ k \in Nat /\ k <= Len(order)
    BY <2>1 DEF TopoInv, PositionInv
  <2>3. IsFiniteSet(DOMAIN nodes) /\ IsFiniteSet(Inputs)
    <3>1. Inputs \in SUBSET (DOMAIN nodes)
      BY DEF Inputs
    <3>. QED
      BY <3>1, FS_Subset DEF BoundInv
  <2>4. Cardinality(Inputs) \in Nat /\ k <= Cardinality(Inputs)
    <3>1. 0 \in Nat /\ 0 <= k /\ k \in Nat
      BY <2>2
    <3>2. /\ \A i \in (0 + 1) .. k : order[i] \in Inputs
          /\ \A i, j \in (0 + 1) .. k : order[i] = order[j] => i = j
      BY <2>1 DEF SplitAt, FirstInputs
    <3>3. Cardinality(Inputs) \in Nat /\ k - 0 <= Cardinality(Inputs)
      BY <2>3, <3>1, <3>2, SpanBounded
    <3>. QED
      BY <3>1, <3>3
  <2>5. Cardinality(DOMAIN nodes) \in Nat /\ Len(order) - k <= Cardinality(DOMAIN nodes)
    <3>1. /\ \A i \in (k + 1) .. Len(order) : order[i] \in DOMAIN nodes
          /\ \A i, j \in (k + 1) .. Len(order) : order[i] = order[j] => i = j
      BY <2>1, <2>2 DEF SplitAt, ThenCounted
    <3>. QED
      BY <2>2, <2>3, <3>1, SpanBounded
  <2>. QED
    BY <2>2, <2>4, <2>5 DEF OrderBounded
<1>. QED
  BY <1>1, <1>2, <1>3, TopoInvariance, PTL DEF TopoSpec
=============================================================================
