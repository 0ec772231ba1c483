---------------------------- MODULE BddInvariants ----------------------------
(***************************************************************************)
(* What must hold of the node store, the tables and the pointers whatever  *)
(* the functions being built are: none of these properties looks at what a *)
(* BDD means, and none is excused by a stale computed-table entry.         *)
(***************************************************************************)
EXTENDS BddSession

\* Every variable has its type.
TypeOK ==
  /\ heap \in [DOMAIN heap -> Node] /\ DOMAIN heap \subseteq Nat
  /\ freeIds \subseteq Nat /\ idCtr \in Nat
  /\ DOMAIN unique \subseteq UniqueKey /\ unique \in [DOMAIN unique -> Nat]
  /\ DOMAIN computed \subseteq ComputedKey /\ computed \in [DOMAIN computed -> Nat]
  /\ doomed \subseteq DOMAIN computed /\ tainted \in BOOLEAN
  /\ stack \in Seq(Frame) /\ ret \in Ref /\ vals \in Seq(Nat) /\ crashed \in BOOLEAN
  /\ vecList \subseteq [var : Vars, prob : Unset .. Unit]
  /\ phase \in {"expr", "menu", "expr2", "done"} /\ req \in Request
  /\ tokens \in Nat /\ commands \in Nat

\* Every id handed out so far is either free or the id of one live node: no
\* id is lost, and none belongs to two nodes (the ctor and dtor of bdd_node,
\* bdd_node.cpp:35-64, across growth and recycling).
IdsPartition ==
  /\ freeIds \cap DOMAIN heap = {}
  /\ freeIds \cup DOMAIN heap = 0 .. (idCtr - 1)

\* No pointer the program can follow leads to a deleted node: not a child, a
\* table entry, a local or a result in flight (the point of smart_pointer.h).
NoDangling ==
  /\ \A n \in DOMAIN heap : {heap[n].neg, heap[n].pos} \subseteq DOMAIN heap \cup {Null}
  /\ {Zero, One} \cup Range(unique) \cup Range(computed) \subseteq DOMAIN heap
  /\ Locals \subseteq DOMAIN heap

\* The node the unique table has under a key is a node with that variable and
\* those children, although ids are recycled (bdd_tables.h:38-39).
UniqueKeyFaithful ==
  \A k \in DOMAIN unique :
    /\ heap[unique[k]].var = k.var
    /\ heap[unique[k]].neg = k.neg
    /\ heap[unique[k]].pos = k.pos

\* The cofactors take the literal of a node's variable from the unique table
\* without checking that it is there (project1.cpp:85, 104): it always is.
LiteralInUnique ==
  \A n \in DOMAIN heap \ {Zero, One} : Triple(heap[n].var, Zero, One) \in DOMAIN unique

\* apply never assigns the probability of a node it discards for its equal
\* children (project1.cpp:65), yet leaves it in the unique table: no other
\* node, computed entry or local ever comes to point to such a node, so the
\* unassigned float is never read.
UnassignedUnreached ==
  \A n \in DOMAIN heap : heap[n].prob = Unset =>
    /\ n \notin Locals \cup Range(computed)
    /\ \A m \in DOMAIN heap : n \notin {heap[m].neg, heap[m].pos}

\* No node reaches itself, so that reference counts find all garbage: of any
\* nodes one has no child among them, although ids come back in any order.
Acyclic ==
  \A S \in SUBSET (DOMAIN heap \ {Zero, One}) :
    S # {} => \E n \in S : {heap[n].neg, heap[n].pos} \cap S = {}

\* At the end only the two terminals are left, which is what main's check for
\* a memory leak (main.cpp:143) looks for.
NoLeak == phase = "done" => idCtr - Cardinality(freeIds) = 2

\* While a node lives nobody changes its variable or its children: tables and
\* operands held across calls go on meaning what they meant.  In particular no
\* step frees an id and hands it out again.
NodesImmutable ==
  [][\A n \in DOMAIN heap \cap DOMAIN heap' :
        /\ heap'[n].var = heap[n].var
        /\ heap'[n].neg = heap[n].neg
        /\ heap'[n].pos = heap[n].pos]_vars

\* apply follows a null child only if the byte one->var, which nothing assigns,
\* happens to be a variable (project1.cpp:58-63; bdd_node.h:68 calls the byte
\* irrelevant): a terminal is never split on a variable of its own.
CrashesByByteOnly == crashed => heap[One].var \in Vars
=============================================================================
