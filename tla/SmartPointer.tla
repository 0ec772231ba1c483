----------------------------- MODULE SmartPointer -----------------------------
(***************************************************************************)
(* Reference counting (P1/smart_pointer.h), statement by statement: the    *)
(* counts, the destructor that destroys members in turn, and the order of  *)
(* release, read and increment inside operator=.                           *)
(*                                                                         *)
(* Members are set when their object is made and never after, as in        *)
(* create_and_add_to_unique_table; everything else that is a smart_pointer *)
(* (a local, a temporary, an argument, the value of a map entry) is a slot.*)
(***************************************************************************)
EXTENDS Integers, Sequences, FiniteSets, Functions

CONSTANTS Objects, Slots, NumMembers, Null

ASSUME ObjectsAssumption == IsFiniteSet(Objects) /\ Null \notin Objects
ASSUME SlotsAssumption == IsFiniteSet(Slots) /\ Null \notin Slots
ASSUME MembersAssumption == NumMembers \in Nat

VARIABLES
  members,    \* object -> the ptr of its members, for the objects in memory
  count,      \* object -> ref_count
  ptr,        \* slot -> ptr, for the slots in scope
  dying,      \* the destructors running, outermost first: [obj, left]
  assign,     \* the operator= in progress, or NoAssign
  misread     \* operator= has read a pointer inside freed memory: anything may follow

vars == <<members, count, ptr, dying, assign, misread>>

Members == 1 .. NumMembers
Ref == Objects \cup {Null}

\* from is the object in which rhs lies (Null: rhs is a slot), val its value.
NoAssign == [lhs |-> Null, from |-> Null, val |-> Null, inside |-> FALSE]

Init ==
  /\ members = [o \in {} |-> Null] /\ count = [o \in {} |-> 0]
  /\ ptr = [s \in {} |-> Null]
  /\ dying = <<>> /\ assign = NoAssign /\ misread = FALSE

\* The program's own statements come between those of this header.
Running == dying = <<>> /\ assign = NoAssign

Put(m, k, x) == [i \in DOMAIN m \cup {k} |-> IF i = k THEN x ELSE m[i]]
Without(m, k) == Restrict(m, DOMAIN m \ {k})

\* increment_ref_count.  Mutant: the copy is not counted.
IncrementNever(o) == count
Increment(o) == IF o = Null THEN count ELSE [count EXCEPT ![o] = count[o] + 1]

\* decrement_ref_count: at zero the object deletes itself.
\* Mutants: the count is tested before it is decremented, or not at all.
LastLate(n) == n = 0
LastAny(n)  == TRUE
Last(n)     == n = 1
Decrement(o) ==
  IF o = Null THEN UNCHANGED <<count, dying>>
  ELSE /\ count' = [count EXCEPT ![o] = count[o] - 1]
       /\ dying' = IF Last(count[o]) THEN Append(dying, [obj |-> o, left |-> NumMembers])
                   ELSE dying

----------------------------------------------------------------------------
(* Where pointers lead *)

\* The members that have not been destroyed yet.
LeftOf(o) ==
  {i \in Members : \A d \in DOMAIN dying : dying[d].obj = o => i <= dying[d].left}

\* The slots that count: the left-hand side of an operator= in progress has
\* given up what it still points to.
Holding == DOMAIN ptr \ {assign.lhs}

\* The objects that the pointers R reach, in memory as it is.
Targets(S) == UNION {Range(members[o]) : o \in S \cap DOMAIN members}
Reached(R) ==
  {o \in DOMAIN members :
     \A S \in SUBSET DOMAIN members :
       (R \cap DOMAIN members \subseteq S /\ Targets(S) \subseteq S \cup {Null}) => o \in S}

----------------------------------------------------------------------------
(* What the program does with smart_pointers *)

\* A new object, whose first pointer is s.
Create(s) ==
  /\ Running /\ s \notin DOMAIN ptr
  /\ \E o \in Objects \ DOMAIN members : \E ms \in [Members -> Range(ptr) \cup {Null}] :
       /\ members' = Put(members, o, ms)
       /\ ptr' = Put(ptr, s, o)
       /\ count' = [n \in DOMAIN count \cup {o} |->
                      IF n = o THEN 1
                      ELSE count[n] + Cardinality({i \in Members : ms[i] = n})]
  /\ UNCHANGED <<dying, assign, misread>>

\* The constructors: a slot comes into scope as a copy of another pointer.
Copy(s, o) ==
  /\ Running /\ s \notin DOMAIN ptr
  /\ ptr' = Put(ptr, s, o) /\ count' = Increment(o)
  /\ UNCHANGED <<members, dying, assign, misread>>

\* Mutant: no check for aliasing.
AliasedNever(s, o) == FALSE
Aliased(s, o) == ptr[s] = o

\* operator=, first statement: what s points to is released.
Release(s, from, o) ==
  /\ Running /\ s \in DOMAIN ptr /\ ~Aliased(s, o)
  /\ Decrement(ptr[s])
  /\ assign' = [lhs |-> s, from |-> from, val |-> o,
                inside |-> from # Null /\ from \notin Reached({ptr[t] : t \in DOMAIN ptr \ {s}})]
  /\ UNCHANGED <<members, ptr, misread>>

\* The rest, when all that went with it is gone: rhs is read where it lies.
InFreed == (assign.from # Null /\ assign.from \notin DOMAIN members)
             \/ (assign.val # Null /\ assign.val \notin DOMAIN members)
Retarget ==
  /\ assign # NoAssign /\ dying = <<>> /\ ~misread
  /\ IF InFreed
     THEN misread' = TRUE /\ UNCHANGED <<ptr, count, assign>>
     ELSE /\ ptr' = [ptr EXCEPT ![assign.lhs] = assign.val]
          /\ count' = Increment(assign.val)
          /\ assign' = NoAssign /\ UNCHANGED misread
  /\ UNCHANGED <<members, dying>>

\* The destructor, or a map entry that goes with its map.
Leave(s) ==
  /\ Running /\ s \in DOMAIN ptr
  /\ ptr' = Without(ptr, s) /\ Decrement(ptr[s])
  /\ UNCHANGED <<members, assign, misread>>

----------------------------------------------------------------------------
(* The destructor of an object: its members in reverse order of declaration, *)
(* each of which may delete another object first; then its memory is freed.  *)

Inner == dying[Len(dying)]

DestroyMember ==
  /\ dying # <<>> /\ Inner.left > 0
  /\ LET o == members[Inner.obj][Inner.left]
         rest == [dying EXCEPT ![Len(dying)].left = Inner.left - 1]
     IN IF o = Null THEN dying' = rest /\ UNCHANGED count
        ELSE /\ count' = [count EXCEPT ![o] = count[o] - 1]
             /\ dying' = IF Last(count[o])
                         THEN Append(rest, [obj |-> o, left |-> NumMembers]) ELSE rest
  /\ UNCHANGED <<members, ptr, assign, misread>>

Free ==
  /\ dying # <<>> /\ Inner.left = 0
  /\ members' = Without(members, Inner.obj) /\ count' = Without(count, Inner.obj)
  /\ dying' = SubSeq(dying, 1, Len(dying) - 1)
  /\ UNCHANGED <<ptr, assign, misread>>

----------------------------------------------------------------------------
\* A slot may be read, and any member of an object in memory: while the
\* program runs, CollectsExactly says that it can reach them all.
Next ==
  \/ \E s \in Slots :
       \/ Create(s) \/ Leave(s)
       \/ \E o \in Range(ptr) \cup {Null} : Copy(s, o) \/ Release(s, Null, o)
       \/ \E from \in DOMAIN members : \E i \in Members :
            Copy(s, members[from][i]) \/ Release(s, from, members[from][i])
  \/ Retarget
  \/ DestroyMember
  \/ Free
  \/ misread /\ UNCHANGED vars

Spec == Init /\ [][Next]_vars

----------------------------------------------------------------------------
\* Every variable has its type; an object is being destroyed at most once, and
\* only when nothing counts on it any more.
PointerTypeOK ==
  /\ DOMAIN members \subseteq Objects /\ members \in [DOMAIN members -> [Members -> Ref]]
  /\ count \in [DOMAIN members -> Nat]
  /\ DOMAIN ptr \subseteq Slots /\ ptr \in [DOMAIN ptr -> Ref]
  /\ dying \in Seq([obj : DOMAIN members, left : 0 .. NumMembers])
  /\ \A d, e \in DOMAIN dying : dying[d].obj = dying[e].obj => d = e
  /\ assign \in [lhs : DOMAIN ptr \cup {Null}, from : Ref, val : Ref, inside : BOOLEAN]
  /\ misread \in BOOLEAN

\* ref_count is the number of pointers that still hold the object, between
\* any two statements, and zero just while it is being destroyed
\* (smart_pointer.h:45-52, 62-88).
Pointers(o) ==
  {<<s, 0>> : s \in {t \in Holding : ptr[t] = o}}
    \cup {h \in (DOMAIN members) \X Members : h[2] \in LeftOf(h[1]) /\ members[h[1]][h[2]] = o}
CountsPointers ==
  \A o \in DOMAIN members :
    /\ count[o] = Cardinality(Pointers(o))
    /\ (count[o] = 0) <=> \E d \in DOMAIN dying : dying[d].obj = o

\* No pointer is left to an object that has been freed or is being destroyed
\* (smart_pointer.h:22: "When last smart_pointer pointing to an object is
\* destructed").
NoneDangling ==
  LET sound(o) == o = Null \/ (o \in DOMAIN members /\ count[o] > 0)
  IN /\ \A s \in Holding : sound(ptr[s])
     /\ \A o \in DOMAIN members : \A i \in LeftOf(o) : sound(members[o][i])

\* Between the program's statements memory holds what the pointers reach and
\* nothing else: counting and reachability agree, which the model of the BDD
\* store takes for granted (smart_pointer.h:78-88).
CollectsExactly == Running => DOMAIN members = Reached(Range(ptr))

\* operator= reads freed memory if, and only if, rhs lies in an object that
\* only the left-hand side kept alive (smart_pointer.h:83-84; line 20 says that
\* smart_pointers can be assigned "in any way desired").
MisreadsOwnOnly ==
  (assign # NoAssign /\ dying = <<>>) => (InFreed <=> assign.inside)

\* The pointers and objects the program sees are those of a heap that is
\* collected at once, until an assignment breaks the rule above.  During an
\* operator= the assignment has already been made.
HeapPtr == IF assign.inside THEN Restrict(ptr, {})
           ELSE IF assign = NoAssign THEN ptr ELSE [ptr EXCEPT ![assign.lhs] = assign.val]
Heap == INSTANCE CollectedHeap WITH
  ptr <- HeapPtr, node <- Restrict(members, Reached(Range(HeapPtr))), broken <- assign.inside
ImplementsCollected == Heap!Spec
=============================================================================
