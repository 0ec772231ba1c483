------------------------------ MODULE BddTables ------------------------------
(***************************************************************************)
(* The node store of the BDD package (P1/bdd_node) and its two tables    *)
(* (P1/bdd_tables).  A data structure module: it declares the state and  *)
(* the operations on it, and has no next-state relation of its own.        *)
(*                                                                         *)
(* A bdd_ptr is the id of the node it points to.  Reference counting       *)
(* (P1/smart_pointer.h) is modelled by its effect between two statements   *)
(* of the program: nodes no pointer reaches are gone and their ids are in  *)
(* free_ids again.  BddInvariants!Acyclic is what makes counting references   *)
(* and reachability the same thing.                                        *)
(***************************************************************************)
EXTENDS Integers, Sequences, FiniteSets, FiniteSetsExt, Functions

CONSTANTS
  Vars,         \* the variable characters, as numbers in their char order
  FirstIds,     \* how many ids the first node creates (100 in the code)
  Unit,         \* probability 1, in units of the smallest one computed
  OneVarBytes   \* what the byte one->var, which nothing assigns, may hold

NoVar == 0      \* a byte that is not the name of any variable
Null  == -1     \* the null bdd_ptr
Unset == -1     \* a probability nothing assigned
Zero  == 0      \* id of bdd_node::zero, the first node created
One   == 1      \* id of bdd_node::one, the second

ASSUME VarsAssumption  == Vars \subseteq Nat \ {NoVar} /\ IsFiniteSet(Vars)
ASSUME IdsAssumption   == FirstIds \in Nat /\ FirstIds > 2
ASSUME UnitAssumption  == Unit \in Nat \ {0}
ASSUME BytesAssumption == OneVarBytes \subseteq Vars \cup {NoVar}

VARIABLES
  heap,       \* live id -> [var, neg, pos, prob]: the nodes not yet deleted
  freeIds,    \* bdd_node::free_ids
  idCtr,      \* bdd_node::id_ctr
  unique,     \* unique_table:   [var, neg, pos] -> node
  computed,   \* computed_table: [op, lhs, rhs]  -> node
  doomed,     \* history: computed keys one of whose operands was deleted
  tainted     \* history: a lookup has returned the entry of a doomed key

tableVars == <<heap, freeIds, idCtr, unique, computed, doomed, tainted>>

Ops == {"and", "or", "xor"}
Ref == Nat \cup {Null}
Node == [var : Vars \cup {NoVar}, neg : Ref, pos : Ref, prob : Unset .. Unit]
UniqueKey == [var : Vars, neg : Nat, pos : Nat]
ComputedKey == [op : Ops, lhs : Nat, rhs : Nat]
NoEntries == [k \in {} |-> Null]

\* m[k] = x: the map m with x under the key k.
Put(m, k, x) == [i \in DOMAIN m \cup {k} |-> IF i = k THEN x ELSE m[i]]

----------------------------------------------------------------------------
(* bdd_node *)

IsTerminal(n) == heap[n].neg = Null

\* Children of a set of nodes, for the closure below.
Closed(h, S) == \A n \in S \cap DOMAIN h : {h[n].neg, h[n].pos} \subseteq S \cup {Null}

\* The nodes of h that the pointers R reach, i.e. the least closed set that
\* contains R: exactly those whose reference count is not zero.
Live(h, R) ==
  {n \in DOMAIN h : \/ n \in R
                    \/ \A T \in SUBSET (DOMAIN h \ R) : Closed(h, R \cup T) => n \in T}

\* Deletes what the pointers R no longer reach.  h, ids and stale are the
\* nodes, free ids and doomed keys just before the last pointers are dropped.
Collect(h, ids, stale, R) ==
  LET live == Live(h, R)
      dead == DOMAIN h \ live
  IN /\ heap' = Restrict(h, live)
     /\ freeIds' = ids \cup dead
     /\ doomed' = {k \in DOMAIN computed' : k \in stale \/ {k.lhs, k.rhs} \cap dead # {}}

\* The ids the constructor chooses from: another batch when all are in use.
\* Mutants: the batch starts one id early; the counter is not doubled.
PoolOneEarly == IF freeIds = {} THEN (idCtr - 1) .. (2 * idCtr - 1) ELSE freeIds
PoolCtrKept  == idCtr
Pool    == IF freeIds = {} THEN idCtr .. (2 * idCtr - 1) ELSE freeIds
PoolCtr == IF freeIds = {} THEN 2 * idCtr ELSE idCtr
FreshId == Min(Pool)

\* has_var: stops at a node whose variable is above v, since variables are
\* expected to increase along every path.
HasVar(n, v) ==
  LET has[m \in DOMAIN heap] ==
        /\ ~IsTerminal(m)
        /\ heap[m].var <= v
        /\ heap[m].var = v \/ has[heap[m].pos] \/ has[heap[m].neg]
  IN has[n]

\* find_next_var, for operands that are not both terminal.
\* Mutants: terminals are not told apart; the higher variable is preferred.
NextVarOfTerminal(l, r) == Min({heap[l].var, heap[r].var})
NextVarHigher(l, r) ==
  IF IsTerminal(l) THEN heap[r].var
  ELSE IF IsTerminal(r) THEN heap[l].var
  ELSE Max({heap[l].var, heap[r].var})
NextVar(l, r) ==
  IF IsTerminal(l) THEN heap[r].var
  ELSE IF IsTerminal(r) THEN heap[l].var
  ELSE Min({heap[l].var, heap[r].var})

----------------------------------------------------------------------------
(* bdd_tables *)

\* Mutant of KeyOf: the operation is not part of the key.
KeyOfAnyOp(op, l, r) == [op |-> "and", lhs |-> l, rhs |-> r]
KeyOf(op, l, r) == [op |-> op, lhs |-> l, rhs |-> r]
Triple(v, n, p) == [var |-> v, neg |-> n, pos |-> p]

FindUnique(v, n, p) ==
  IF Triple(v, n, p) \in DOMAIN unique THEN unique[Triple(v, n, p)] ELSE Null

\* create_and_add_to_unique_table: always a new node, which takes the place
\* of the node the table had under this key, if any.
NewNode(v, n, p, prob) ==
  Put(heap, FreshId, [var |-> v, neg |-> n, pos |-> p, prob |-> prob])
\* Mutants of AddUnique: the children change places in the key; no entry is made.
AddUniqueSwapped(v, n, p) == Put(unique, Triple(v, p, n), FreshId)
AddUniqueNothing(v, n, p) == unique
AddUnique(v, n, p) == Put(unique, Triple(v, n, p), FreshId)

\* bdd_tables::clear.  Mutant: clear_computed_table is called instead.
ClearComputed == computed' = NoEntries /\ UNCHANGED unique
Clear         == computed' = NoEntries /\ unique' = NoEntries

----------------------------------------------------------------------------
\* The variable byte of zero is left unassigned like that of one, but nothing
\* reads it: a pair with zero is a terminal case of apply, and the other tests
\* of a variable come after is_terminal().
TablesInit ==
  /\ \E byte \in OneVarBytes :
       heap = [n \in {Zero, One} |->
                 [var |-> IF n = Zero THEN NoVar ELSE byte, neg |-> Null, pos |-> Null,
                  prob |-> IF n = Zero THEN 0 ELSE Unit]]
  /\ freeIds = 2 .. (FirstIds - 1)
  /\ idCtr = FirstIds
  /\ unique = NoEntries
  /\ computed = NoEntries
  /\ doomed = {}
  /\ tainted = FALSE
=============================================================================
