---------------------------- MODULE PointerProof ----------------------------
(***************************************************************************)
(* Proofs about SmartPointer for every set of objects and slots: counts    *)
(* are right, nothing dangles, what is in memory between two statements is *)
(* exactly what pointers reach, an assignment reads freed memory only when *)
(* its source lies in what it releases, and up to there the counting       *)
(* pointers implement the heap that is collected at once.                  *)
(***************************************************************************)
EXTENDS SmartPointer, FiniteSetTheorems, TLAPS

Dying == {dying[d].obj : d \in DOMAIN dying}
Valid(o) == o = Null \/ o \in DOMAIN members

\* Every pointer that holds something holds an object in memory, and an
\* operator= in progress has its left-hand side.
Sound ==
  /\ \A s \in Holding : Valid(ptr[s])
  /\ \A p \in DOMAIN members : \A i \in LeftOf(p) : Valid(members[p][i])
  /\ assign # NoAssign => assign.lhs \in DOMAIN ptr

\* No cycles: in any set of objects there is one that none of them points to.
NoCycle ==
  \A U \in SUBSET DOMAIN members : U # {} =>
    \E u \in U : \A p \in U : \A i \in Members : members[p][i] # u

PInv == PointerTypeOK /\ CountsPointers /\ Sound /\ NoCycle

USE ObjectsAssumption, SlotsAssumption, MembersAssumption

----------------------------------------------------------------------------
LEMMA PointersFinite ==
  ASSUME PointerTypeOK, NEW o
  PROVE  IsFiniteSet(Pointers(o))
<1>1. IsFiniteSet(Slots \X {0}) /\ IsFiniteSet(Objects \X Members)
  <2>1. IsFiniteSet({0})
    BY FS_Singleton
  <2>2. IsFiniteSet(1 .. NumMembers)
    BY FS_Interval, 1 \in Int, NumMembers \in Int
  <2>. QED
    BY <2>1, <2>2, FS_Product DEF Members
<1>2. IsFiniteSet((Slots \X {0}) \cup (Objects \X Members))
  BY <1>1, FS_Union
<1>3. Pointers(o) \subseteq (Slots \X {0}) \cup (Objects \X Members)
  BY DEF Pointers, Holding, PointerTypeOK
<1>. QED
  BY <1>2, <1>3, FS_Subset

\* A frame pushed for an object that was not dying changes no LeftOf.
LEMMA LeftOfAppend ==
  ASSUME PointerTypeOK, NEW o \in Objects,
         dying' = Append(dying, [obj |-> o, left |-> NumMembers]), NEW p
  PROVE  LeftOf(p)' = LeftOf(p)
<1>1. dying \in Seq([obj : DOMAIN members, left : 0 .. NumMembers])
  BY DEF PointerTypeOK
<1>2. /\ DOMAIN dying' = DOMAIN dying \cup {Len(dying) + 1}
      /\ \A d \in DOMAIN dying : dying'[d] = dying[d]
      /\ dying'[Len(dying) + 1] = [obj |-> o, left |-> NumMembers]
  BY <1>1
<1>. QED
  BY <1>2 DEF LeftOf, Members

\* Counts after a pointer to o is added ...
LEMMA AddPointer ==
  ASSUME PInv, dying' = dying, NEW o \in DOMAIN members, o \notin Dying, NEW h,
         DOMAIN members' = DOMAIN members,
         count' = [count EXCEPT ![o] = count[o] + 1],
         h \notin Pointers(o), Pointers(o)' = Pointers(o) \cup {h},
         \A n \in DOMAIN members \ {o} : Pointers(n)' = Pointers(n)
  PROVE  CountsPointers'
<1>1. /\ IsFiniteSet(Pointers(o)) /\ count \in [DOMAIN members -> Nat]
      /\ \A n \in DOMAIN members : count[n] = Cardinality(Pointers(n))
  BY PointersFinite DEF PInv, PointerTypeOK, CountsPointers
<1>2. Cardinality(Pointers(o)') = count[o] + 1
  BY <1>1, FS_AddElement
<1>3. \A n \in DOMAIN members : count'[n] = Cardinality(Pointers(n)')
  BY <1>1, <1>2
<1>4. \A n \in DOMAIN members : (count'[n] = 0) <=> \E d \in DOMAIN dying' : dying'[d].obj = n
  BY <1>1 DEF PInv, CountsPointers, Dying
<1>. QED
  BY <1>3, <1>4 DEF CountsPointers

\* ... and after one is taken away: the object begins to die with the last.
LEMMA DropPointer ==
  ASSUME PInv, NEW o \in DOMAIN members, NEW h \in Pointers(o),
         DOMAIN members' = DOMAIN members,
         count' = [count EXCEPT ![o] = count[o] - 1],
         Pointers(o)' = Pointers(o) \ {h},
         \A n \in DOMAIN members \ {o} : Pointers(n)' = Pointers(n),
         Dying' = IF count[o] = 1 THEN Dying \cup {o} ELSE Dying
  PROVE  CountsPointers'
<1>1. /\ IsFiniteSet(Pointers(o)) /\ count \in [DOMAIN members -> Nat]
      /\ \A n \in DOMAIN members : count[n] = Cardinality(Pointers(n))
  BY PointersFinite DEF PInv, PointerTypeOK, CountsPointers
<1>. /\ \A n \in DOMAIN members : (count[n] = 0) <=> n \in Dying
  BY DEF PInv, CountsPointers, Dying
<1>2. Cardinality(Pointers(o)') = count[o] - 1 /\ count[o] # 0
  BY <1>1, FS_RemoveElement, FS_EmptySet, ZenonT(60)
<1>3. \A n \in DOMAIN members : count'[n] = Cardinality(Pointers(n)')
  BY <1>1, <1>2
<1>4. \A n \in DOMAIN members : (count'[n] = 0) <=> n \in Dying'
  BY <1>1, <1>2
<1>. QED
  BY <1>3, <1>4 DEF CountsPointers, Dying

\* A pointer that holds something holds what is not dying.
LEMMA HeldAlive ==
  ASSUME PInv, NEW o \in DOMAIN members, NEW h \in Pointers(o)
  PROVE  count[o] > 0 /\ count[o] \in Nat /\ o \notin Dying
<1>1. IsFiniteSet(Pointers(o)) /\ Pointers(o) # {}
  BY PointersFinite DEF PInv
<1>2. Cardinality(Pointers(o)) \in Nat /\ Cardinality(Pointers(o)) # 0
  BY <1>1, FS_EmptySet, FS_CardinalityType
<1>. QED
  BY <1>2 DEF PInv, CountsPointers, Dying

\* What Decrement does to the frames.
LEMMA DecrementFrames ==
  ASSUME PInv, NEW o \in DOMAIN members, NEW h \in Pointers(o), Decrement(o)
  PROVE  /\ \A p : LeftOf(p)' = LeftOf(p)
         /\ Dying' = IF count[o] = 1 THEN Dying \cup {o} ELSE Dying
         /\ dying' \in Seq([obj : DOMAIN members, left : 0 .. NumMembers])
         /\ \A d, e \in DOMAIN dying' : dying'[d].obj = dying'[e].obj => d = e
         /\ count' = [count EXCEPT ![o] = count[o] - 1] /\ count' \in [DOMAIN members -> Nat]
<1>0. o # Null /\ o \in Objects
  BY DEF PInv, PointerTypeOK
<1>1. /\ dying \in Seq([obj : DOMAIN members, left : 0 .. NumMembers])
      /\ \A d, e \in DOMAIN dying : dying[d].obj = dying[e].obj => d = e
      /\ count \in [DOMAIN members -> Nat]
  BY DEF PInv, PointerTypeOK
<1>2. o \notin Dying /\ count[o] > 0
  BY HeldAlive
<1>3. count' = [count EXCEPT ![o] = count[o] - 1] /\ count' \in [DOMAIN members -> Nat]
  BY <1>0, <1>1, <1>2 DEF Decrement
<1>4. CASE count[o] = 1
  <2>1. dying' = Append(dying, [obj |-> o, left |-> NumMembers])
    BY <1>0, <1>4 DEF Decrement, Last
  <2>2. \A p : LeftOf(p)' = LeftOf(p)
    BY <2>1, <1>0, LeftOfAppend DEF PInv
  <2>3. /\ dying' \in Seq([obj : DOMAIN members, left : 0 .. NumMembers])
        /\ DOMAIN dying' = DOMAIN dying \cup {Len(dying) + 1}
        /\ \A d \in DOMAIN dying : dying'[d] = dying[d]
        /\ dying'[Len(dying) + 1].obj = o
    BY <2>1, <1>1
  <2>4. Dying' = Dying \cup {o}
    BY <2>3 DEF Dying
  <2>5. \A d, e \in DOMAIN dying' : dying'[d].obj = dying'[e].obj => d = e
    BY <2>3, <1>1, <1>2 DEF Dying
  <2>. QED
    BY <2>2, <2>3, <2>4, <2>5, <1>3, <1>4
<1>5. CASE count[o] # 1
  BY <1>0, <1>1, <1>3, <1>5 DEF Decrement, Last, LeftOf, Dying
<1>. QED
  BY <1>4, <1>5

----------------------------------------------------------------------------
\* Where the program runs, every slot and every member counts.
LEMMA WhenRunning ==
  ASSUME PInv, Running
  PROVE  /\ Holding = DOMAIN ptr /\ dying = <<>> /\ Dying = {}
         /\ \A p : LeftOf(p) = Members
         /\ \A n \in DOMAIN members : count[n] # 0
<1>1. Holding = DOMAIN ptr
  BY DEF PInv, PointerTypeOK, Running, NoAssign, Holding
<1>. QED
  BY <1>1 DEF PInv, Running, LeftOf, Dying, CountsPointers

LEMMA CopyKeeps ==
  ASSUME PInv, NEW s \in Slots, NEW o, Valid(o), Copy(s, o)
  PROVE  PInv'
<1>0. /\ Running /\ s \notin DOMAIN ptr /\ ptr' = Put(ptr, s, o) /\ count' = Increment(o)
      /\ members' = members /\ dying' = dying /\ assign' = assign /\ misread' = misread
  BY DEF Copy
<1>1. /\ Holding = DOMAIN ptr /\ dying = <<>> /\ Dying = {}
      /\ \A n \in DOMAIN members : count[n] # 0
      /\ s # Null /\ assign.lhs = Null
  BY <1>0, WhenRunning DEF Running, NoAssign
<1>2. Holding' = Holding \cup {s} /\ \A p : LeftOf(p)' = LeftOf(p)
  BY <1>0, <1>1 DEF Holding, Put, LeftOf
<1>3. PointerTypeOK'
  BY <1>0, <1>1 DEF PInv, PointerTypeOK, Put, Increment, Valid, Ref
<1>4. Sound'
  BY <1>0, <1>1, <1>2 DEF PInv, Sound, Valid, Put
<1>5. \A n \in DOMAIN members : Pointers(n)' = IF n = o THEN Pointers(n) \cup {<<s, 0>>} ELSE Pointers(n)
  BY <1>0, <1>1, <1>2, ZenonT(60) DEF Pointers, Put
<1>6. CountsPointers'
  <2>1. CASE o = Null
    <3>1. \A n \in DOMAIN members : Pointers(n)' = Pointers(n)
      BY <1>5, <2>1 DEF PInv, PointerTypeOK
    <3>. QED
      BY <2>1, <3>1, <1>0 DEF PInv, CountsPointers, Increment
  <2>2. CASE o # Null
    <3>1. o \in DOMAIN members /\ count' = [count EXCEPT ![o] = count[o] + 1]
      BY <2>2, <1>0 DEF Valid, Increment
    <3>2. <<s, 0>> \notin Pointers(o)
      BY <1>0, <1>1 DEF Pointers, Members
    <3>. QED
      BY <3>1, <3>2, <1>0, <1>1, <1>5, AddPointer
  <2>. QED
    BY <2>1, <2>2
<1>. QED
  BY <1>0, <1>3, <1>4, <1>6 DEF PInv, NoCycle

\* The new object is counted once, and its members each where they point.
LEMMA CreateKeeps ==
  ASSUME PInv, NEW s \in Slots, Create(s)
  PROVE  PInv'
<1>0. PICK o \in Objects \ DOMAIN members, ms \in [Members -> Range(ptr) \cup {Null}] :
        /\ Running /\ s \notin DOMAIN ptr
        /\ members' = Put(members, o, ms) /\ ptr' = Put(ptr, s, o)
        /\ count' = [n \in DOMAIN count \cup {o} |->
                       IF n = o THEN 1 ELSE count[n] + Cardinality({i \in Members : ms[i] = n})]
        /\ dying' = dying /\ assign' = assign /\ misread' = misread
  BY DEF Create
<1>1. /\ Holding = DOMAIN ptr /\ dying = <<>> /\ Dying = {} /\ \A p : LeftOf(p) = Members
      /\ \A n \in DOMAIN members : count[n] # 0
      /\ s # Null /\ assign.lhs = Null /\ DOMAIN count = DOMAIN members
      /\ count \in [DOMAIN members -> Nat]
  BY <1>0, WhenRunning DEF PInv, PointerTypeOK, Running, NoAssign
<1>2. Holding' = Holding \cup {s} /\ \A p : LeftOf(p)' = Members
  BY <1>0, <1>1 DEF Holding, Put, LeftOf
<1>3. \A i \in Members : ms[i] = Null \/ ms[i] \in DOMAIN members
  BY <1>1 DEF PInv, Sound, Valid, Range
<1>4. \A p \in DOMAIN members : \A i \in Members : members[p][i] = Null \/ members[p][i] \in DOMAIN members
  BY <1>1 DEF PInv, Sound, Valid
<1>5. \A n \in DOMAIN members :
        /\ IsFiniteSet({i \in Members : ms[i] = n})
        /\ Cardinality({i \in Members : ms[i] = n}) \in Nat
  <2>1. IsFiniteSet(1 .. NumMembers)
    BY FS_Interval, 1 \in Int, NumMembers \in Int
  <2>. QED
    BY <2>1, FS_Subset, FS_CardinalityType DEF Members
<1>. DEFINE K(n) == Cardinality({i \in Members : ms[i] = n})
<1>51. /\ count' = [n \in DOMAIN count \cup {o} |-> IF n = o THEN 1 ELSE count[n] + K(n)]
       /\ \A n \in DOMAIN members : K(n) \in Nat
  BY <1>0, <1>5
<1>. HIDE DEF K
<1>6. PointerTypeOK'
  <2>1. DOMAIN members' = DOMAIN members \cup {o} /\ DOMAIN members' \subseteq Objects
    BY <1>0 DEF Put, PInv, PointerTypeOK
  <2>2. members' \in [DOMAIN members' -> [Members -> Ref]]
    <3>1. ms \in [Members -> Ref]
      BY <1>3 DEF PInv, PointerTypeOK, Ref
    <3>. QED
      BY <3>1, <1>0 DEF Put, PInv, PointerTypeOK
  <2>3. count' \in [DOMAIN members' -> Nat]
    <3>1. \A n \in DOMAIN members : count[n] + K(n) \in Nat
      BY <1>1, <1>51
    <3>2. \A n \in DOMAIN members' : count'[n] \in Nat
      BY <3>1, <2>1, <1>1, <1>51
    <3>. QED
      BY <3>2, <2>1, <1>1, <1>51
  <2>4. DOMAIN ptr' \subseteq Slots /\ ptr' \in [DOMAIN ptr' -> Ref] /\ DOMAIN ptr \subseteq DOMAIN ptr'
    BY <1>0 DEF Put, PInv, PointerTypeOK, Ref
  <2>5. dying' = <<>>
    BY <1>0, <1>1
  <2>6. assign' \in [lhs : DOMAIN ptr' \cup {Null}, from : Ref, val : Ref, inside : BOOLEAN]
    BY <1>0, <1>1, <2>4 DEF PInv, PointerTypeOK
  <2>. QED
    BY <1>0, <2>1, <2>2, <2>3, <2>4, <2>5, <2>6 DEF PInv, PointerTypeOK
<1>7. Sound'
  <2>1. assign' = NoAssign
    BY <1>0 DEF Running
  <2>. QED
    BY <2>1, <1>0, <1>1, <1>2, <1>3, <1>4 DEF PInv, Sound, Valid, Put
<1>8. CountsPointers'
  <2>1. Pointers(o)' = {<<s, 0>>}
    <3>1. \A t \in Holding : ptr[t] # o
      BY <1>1 DEF PInv, Sound, Valid, PointerTypeOK
    <3>. QED
      BY <3>1, <1>0, <1>1, <1>2, <1>3, <1>4, ZenonT(60) DEF Pointers, Put
  <2>2. Cardinality(Pointers(o)') = 1
    BY <2>1, FS_Singleton
  <2>3. ASSUME NEW n \in DOMAIN members
        PROVE  Cardinality(Pointers(n)') = count[n] + K(n)
    <3>. DEFINE I == {i \in Members : ms[i] = n}
                J == {<<o, i>> : i \in I}
                f == [i \in I |-> <<o, i>>]
    <3>1. Pointers(n)' = Pointers(n) \cup J
      <4>1. o # n /\ DOMAIN members' = DOMAIN members \cup {o} /\ members'[o] = ms
             /\ \A p \in DOMAIN members : members'[p] = members[p]
        BY <1>0 DEF Put
      <4>2. {h \in (DOMAIN members') \X Members : members'[h[1]][h[2]] = n}
              = {h \in (DOMAIN members) \X Members : members[h[1]][h[2]] = n} \cup J
        BY <4>1
      <4>3. {t \in Holding' : ptr'[t] = n} = {t \in Holding : ptr[t] = n}
        BY <1>0, <1>1, <1>2, <4>1 DEF Put
      <4>4. /\ Pointers(n)' = {<<t, 0>> : t \in {t \in Holding' : ptr'[t] = n}}
                                \cup {h \in (DOMAIN members') \X Members : members'[h[1]][h[2]] = n}
            /\ Pointers(n) = {<<t, 0>> : t \in {t \in Holding : ptr[t] = n}}
                                \cup {h \in (DOMAIN members) \X Members : members[h[1]][h[2]] = n}
        BY <1>1, <1>2 DEF Pointers
      <4>. QED
        BY <4>2, <4>3, <4>4
    <3>10. Pointers(n) \cap J = {}
      BY <1>0, <1>1 DEF Pointers, Members
    <3>2. f \in Bijection(I, J)
      <4>1. f \in [I -> J]
        OBVIOUS
      <4>2. \A a, b \in I : f[a] = f[b] => a = b
        OBVIOUS
      <4>3. \A t \in J : \E a \in I : f[a] = t
        OBVIOUS
      <4>. HIDE DEF I, J, f
      <4>. QED
        BY <4>1, <4>2, <4>3 DEF Bijection, Injection, Surjection, IsInjective
    <3>3. IsFiniteSet(J) /\ Cardinality(J) = Cardinality(I)
      <4>1. ExistsBijection(I, J)
        BY <3>2 DEF ExistsBijection
      <4>. QED
        BY <4>1, <1>5, FS_Bijection DEF K
    <3>4. IsFiniteSet(Pointers(n))
      BY PointersFinite DEF PInv
    <3>5. Cardinality(Pointers(n) \cup J) = Cardinality(Pointers(n)) + Cardinality(J) - Cardinality(Pointers(n) \cap J)
      BY <3>3, <3>4, FS_Union
    <3>6. Cardinality({}) = 0
      BY FS_EmptySet
    <3>7. Cardinality(Pointers(n)) = count[n] /\ count[n] \in Nat
      BY <1>1 DEF PInv, CountsPointers
    <3>8. Cardinality(J) = K(n) /\ K(n) \in Nat
      BY <3>3, <1>51 DEF K
    <3>. HIDE DEF I, J, f
    <3>11. Cardinality(Pointers(n)') = Cardinality(Pointers(n) \cup J)
      BY <3>1
    <3>12. Cardinality(Pointers(n) \cap J) = 0
      BY <3>10, <3>6
    <3>. QED
      BY <3>11, <3>12, <3>5, <3>7, <3>8
  <2>4. \A n \in DOMAIN members' : count'[n] # 0 /\ count'[n] = Cardinality(Pointers(n)')
    <3>1. DOMAIN members' = DOMAIN members \cup {o} /\ count'[o] = 1
      BY <1>0, <1>1, <1>51 DEF Put
    <3>2. \A n \in DOMAIN members : count'[n] = count[n] + K(n) /\ count'[n] # 0
      BY <1>0, <1>1, <1>51
    <3>. QED
      BY <2>2, <2>3, <3>1, <3>2
  <2>5. dying' = <<>>
    BY <1>0, <1>1
  <2>. QED
    BY <2>4, <2>5 DEF CountsPointers
<1>9. NoCycle'
  <2>. SUFFICES ASSUME NEW U \in SUBSET DOMAIN members', U # {}
                PROVE  \E u \in U : \A p \in U : \A i \in Members : members'[p][i] # u
    BY DEF NoCycle
  <2>1. CASE o \in U
    <3>1. ASSUME NEW p \in DOMAIN members', NEW i \in Members
          PROVE  members'[p][i] # o
      BY <1>0, <1>3, <1>4 DEF Put
    <3>. QED
      BY <2>1, <3>1
  <2>2. CASE o \notin U
    BY <2>2, <1>0 DEF Put, PInv, NoCycle
  <2>. QED
    BY <2>1, <2>2
<1>. QED
  BY <1>6, <1>7, <1>8, <1>9 DEF PInv

\* operator= gives up the left-hand side before it reads the right-hand one.
LEMMA ReleaseKeeps ==
  ASSUME PInv, NEW s \in Slots, NEW from \in Ref, NEW o \in Ref, Release(s, from, o)
  PROVE  PInv'
<1>0. /\ Running /\ s \in DOMAIN ptr /\ Decrement(ptr[s])
      /\ members' = members /\ ptr' = ptr /\ misread' = misread
      /\ assign'.lhs = s /\ assign' \in [lhs : {s}, from : {from}, val : {o}, inside : BOOLEAN]
  BY DEF Release
<1>1. /\ Holding = DOMAIN ptr /\ dying = <<>> /\ Dying = {} /\ \A p : LeftOf(p) = Members
      /\ s # Null /\ ptr[s] \in Ref
  BY <1>0, WhenRunning DEF PInv, PointerTypeOK
<1>2. Holding' = Holding \ {s}
  BY <1>0, <1>1 DEF Holding
<1>3. CASE ptr[s] = Null
  <2>1. count' = count /\ dying' = dying
    BY <1>0, <1>3 DEF Decrement
  <2>2. \A p : LeftOf(p)' = LeftOf(p)
    BY <2>1 DEF LeftOf
  <2>3. \A n \in DOMAIN members : Pointers(n)' = Pointers(n)
    BY <1>0, <1>1, <1>2, <1>3, <2>2 DEF Pointers, PInv, PointerTypeOK
  <2>4. CountsPointers'
    BY <1>0, <2>1, <2>3 DEF PInv, CountsPointers
  <2>5. PointerTypeOK'
    BY <1>0, <1>2, <2>1 DEF PInv, PointerTypeOK
  <2>6. Sound' /\ NoCycle'
    BY <1>0, <1>2, <2>1, <2>2 DEF PInv, Sound, Valid, NoCycle, NoAssign, PointerTypeOK
  <2>. QED
    BY <2>4, <2>5, <2>6 DEF PInv
<1>4. CASE ptr[s] # Null
  <2>0. PICK old : old = ptr[s]
    OBVIOUS
  <2>1. old \in DOMAIN members /\ <<s, 0>> \in Pointers(old)
    BY <2>0, <1>0, <1>1, <1>4 DEF PInv, Sound, Valid, Pointers
  <2>2. /\ \A p : LeftOf(p)' = LeftOf(p)
        /\ Dying' = IF count[old] = 1 THEN Dying \cup {old} ELSE Dying
        /\ dying' \in Seq([obj : DOMAIN members, left : 0 .. NumMembers])
        /\ \A d, e \in DOMAIN dying' : dying'[d].obj = dying'[e].obj => d = e
        /\ count' = [count EXCEPT ![old] = count[old] - 1]
        /\ count' \in [DOMAIN members -> Nat]
    BY <2>0, <2>1, <1>0, DecrementFrames
  <2>3. /\ Pointers(old)' = Pointers(old) \ {<<s, 0>>}
        /\ \A n \in DOMAIN members \ {old} : Pointers(n)' = Pointers(n)
    BY <2>0, <1>0, <1>1, <1>2, <2>2 DEF Pointers, Members
  <2>4. CountsPointers'
    BY <1>0, <2>1, <2>2, <2>3, DropPointer
  <2>5. PointerTypeOK'
    BY <1>0, <1>2, <2>2 DEF PInv, PointerTypeOK
  <2>6. Sound' /\ NoCycle'
    BY <1>0, <1>2, <2>2 DEF PInv, Sound, Valid, NoCycle, NoAssign, PointerTypeOK
  <2>. QED
    BY <2>4, <2>5, <2>6 DEF PInv
<1>. QED
  BY <1>3, <1>4

LEMMA LeaveKeeps ==
  ASSUME PInv, NEW s \in Slots, Leave(s)
  PROVE  PInv'
<1>0. /\ Running /\ s \in DOMAIN ptr /\ Decrement(ptr[s])
      /\ members' = members /\ ptr' = Without(ptr, s) /\ misread' = misread /\ assign' = assign
      /\ assign = NoAssign
  BY DEF Leave, Running
<1>1. /\ Holding = DOMAIN ptr /\ dying = <<>> /\ Dying = {} /\ \A p : LeftOf(p) = Members
      /\ s # Null /\ ptr[s] \in Ref
  BY <1>0, WhenRunning DEF PInv, PointerTypeOK
<1>2. /\ DOMAIN ptr' = DOMAIN ptr \ {s} /\ \A t \in DOMAIN ptr' : ptr'[t] = ptr[t]
      /\ ptr' \in [DOMAIN ptr' -> Ref] /\ DOMAIN ptr' \subseteq Slots
      /\ Holding' = Holding \ {s}
  BY <1>0, <1>1 DEF PInv, PointerTypeOK, Holding, NoAssign, Without, Restrict
<1>5. assign' \in [lhs : DOMAIN ptr' \cup {Null}, from : Ref, val : Ref, inside : BOOLEAN]
  BY <1>0 DEF NoAssign, Ref
<1>3. CASE ptr[s] = Null
  <2>1. count' = count /\ dying' = dying
    BY <1>0, <1>3 DEF Decrement
  <2>2. \A p : LeftOf(p)' = LeftOf(p)
    BY <2>1 DEF LeftOf
  <2>3. \A n \in DOMAIN members : Pointers(n)' = Pointers(n)
    BY <1>0, <1>1, <1>2, <1>3, <2>2 DEF Pointers, PInv, PointerTypeOK
  <2>4. CountsPointers'
    BY <1>0, <2>1, <2>3 DEF PInv, CountsPointers
  <2>5. PointerTypeOK'
    BY <1>0, <1>2, <1>5, <2>1 DEF PInv, PointerTypeOK
  <2>6. NoCycle'
    BY <1>0 DEF PInv, NoCycle
  <2>7. Sound'
    <3>1. \A t \in Holding' : Valid(ptr'[t])
      BY <1>1, <1>2 DEF PInv, Sound
    <3>2. \A p \in DOMAIN members : \A i \in LeftOf(p) : Valid(members[p][i])
      BY DEF PInv, Sound
    <3>. QED
      BY <3>1, <3>2, <1>0, <2>1, <2>2 DEF Sound, Valid
  <2>. QED
    BY <2>4, <2>5, <2>6, <2>7 DEF PInv
<1>4. CASE ptr[s] # Null
  <2>0. PICK old : old = ptr[s]
    OBVIOUS
  <2>1. old \in DOMAIN members /\ <<s, 0>> \in Pointers(old)
    BY <2>0, <1>0, <1>1, <1>4 DEF PInv, Sound, Valid, Pointers
  <2>2. /\ \A p : LeftOf(p)' = LeftOf(p)
        /\ Dying' = IF count[old] = 1 THEN Dying \cup {old} ELSE Dying
        /\ dying' \in Seq([obj : DOMAIN members, left : 0 .. NumMembers])
        /\ \A d, e \in DOMAIN dying' : dying'[d].obj = dying'[e].obj => d = e
        /\ count' = [count EXCEPT ![old] = count[old] - 1]
        /\ count' \in [DOMAIN members -> Nat]
    BY <2>0, <2>1, <1>0, DecrementFrames
  <2>3. /\ Pointers(old)' = Pointers(old) \ {<<s, 0>>}
        /\ \A n \in DOMAIN members \ {old} : Pointers(n)' = Pointers(n)
    BY <2>0, <1>0, <1>1, <1>2, <2>2 DEF Pointers, Members
  <2>4. CountsPointers'
    BY <1>0, <2>1, <2>2, <2>3, DropPointer
  <2>5. PointerTypeOK'
    BY <1>0, <1>2, <1>5, <2>2 DEF PInv, PointerTypeOK
  <2>6. NoCycle'
    BY <1>0 DEF PInv, NoCycle
  <2>7. Sound'
    <3>1. \A t \in Holding' : Valid(ptr'[t])
      BY <1>1, <1>2 DEF PInv, Sound
    <3>2. \A p \in DOMAIN members : \A i \in LeftOf(p) : Valid(members[p][i])
      BY DEF PInv, Sound
    <3>. QED
      BY <3>1, <3>2, <1>0, <2>2 DEF Sound, Valid
  <2>. QED
    BY <2>4, <2>5, <2>6, <2>7 DEF PInv
<1>. QED
  BY <1>3, <1>4

\* The check that nothing was freed is what makes the increment count.
LEMMA RetargetKeeps ==
  ASSUME PInv, Retarget
  PROVE  PInv'
<1>0. /\ assign # NoAssign /\ dying = <<>> /\ members' = members /\ dying' = dying
      /\ assign.lhs \in DOMAIN ptr /\ assign.lhs # Null
  BY DEF Retarget, PInv, Sound, PointerTypeOK
<1>1. CASE InFreed
  <2>1. ptr' = ptr /\ count' = count /\ assign' = assign /\ misread' = TRUE
    BY <1>1 DEF Retarget
  <2>. QED
    <3>1. /\ Holding' = Holding /\ (\A p : LeftOf(p)' = LeftOf(p))
          /\ \A n : Pointers(n)' = Pointers(n)
      BY <1>0, <2>1 DEF Holding, LeftOf, Pointers
    <3>2. PointerTypeOK' /\ CountsPointers'
      BY <1>0, <2>1, <3>1 DEF PInv, PointerTypeOK, CountsPointers
    <3>3. Sound'
      BY <1>0, <2>1, <3>1 DEF PInv, Sound, Valid
    <3>4. NoCycle'
      BY <1>0 DEF PInv, NoCycle
    <3>. QED
      BY <3>2, <3>3, <3>4 DEF PInv
<1>2. CASE ~InFreed
  <2>. DEFINE s == assign.lhs
              o == assign.val
  <2>1. /\ ptr' = [ptr EXCEPT ![s] = o] /\ count' = Increment(o)
        /\ assign' = NoAssign /\ misread' = misread
    BY <1>2 DEF Retarget
  <2>2. Valid(o) /\ o \in Ref
    BY <1>2 DEF InFreed, Valid, PInv, PointerTypeOK
  <2>3. Holding = DOMAIN ptr \ {s} /\ Holding' = DOMAIN ptr /\ \A p : LeftOf(p)' = LeftOf(p)
    BY <1>0, <2>1 DEF Holding, LeftOf, NoAssign, PInv, PointerTypeOK
  <2>4. \A n \in DOMAIN members : count[n] # 0
    BY <1>0 DEF PInv, CountsPointers
  <2>5. PointerTypeOK'
    <3>1. count' \in [DOMAIN members -> Nat]
      BY <2>1, <2>2 DEF PInv, PointerTypeOK, Increment, Valid
    <3>2. ptr' \in [DOMAIN ptr -> Ref]
      BY <2>1, <2>2 DEF PInv, PointerTypeOK
    <3>3. assign' \in [lhs : DOMAIN ptr' \cup {Null}, from : Ref, val : Ref, inside : BOOLEAN]
      BY <2>1 DEF NoAssign, Ref
    <3>. QED
      BY <1>0, <2>1, <3>1, <3>2, <3>3 DEF PInv, PointerTypeOK
  <2>6. Sound'
    BY <1>0, <2>1, <2>2, <2>3 DEF PInv, Sound, Valid
  <2>7. \A n \in DOMAIN members : Pointers(n)' = IF n = o THEN Pointers(n) \cup {<<s, 0>>} ELSE Pointers(n)
    <3>1. s \in Holding' /\ ptr'[s] = o /\ \A t \in Holding : ptr'[t] = ptr[t]
      BY <1>0, <2>1, <2>3
    <3>. HIDE DEF s, o
    <3>. QED
      BY <3>1, <1>0, <2>3 DEF Pointers
  <2>8. CountsPointers'
    <3>1. CASE o = Null
      <4>1. \A n \in DOMAIN members : Pointers(n)' = Pointers(n)
        BY <2>7, <3>1 DEF PInv, PointerTypeOK
      <4>. QED
        BY <3>1, <4>1, <1>0, <2>1 DEF PInv, CountsPointers, Increment
    <3>2. CASE o # Null
      <4>1. o \in DOMAIN members /\ count' = [count EXCEPT ![o] = count[o] + 1]
        BY <2>1, <2>2, <3>2 DEF Valid, Increment
      <4>2. <<s, 0>> \notin Pointers(o)
        BY <1>0, <2>3 DEF Pointers, Members
      <4>3. o \notin Dying
        BY <1>0 DEF Dying
      <4>. QED
        BY <4>1, <4>2, <4>3, <1>0, <2>7, AddPointer
    <3>. QED
      BY <3>1, <3>2
  <2>. QED
    <3>1. NoCycle'
      BY <1>0 DEF PInv, NoCycle
    <3>. QED
      BY <3>1, <2>5, <2>6, <2>8 DEF PInv
<1>. QED
  BY <1>1, <1>2

----------------------------------------------------------------------------
\* What frames leave of the members of q.
LeftIn(frames, q) == {i \in Members : \A d \in DOMAIN frames : frames[d].obj = q => i <= frames[d].left}

LEMMA LeftInAppend ==
  ASSUME NEW frames \in Seq([obj : Objects, left : 0 .. NumMembers]), NEW o \in Objects, NEW q
  PROVE  LeftIn(Append(frames, [obj |-> o, left |-> NumMembers]), q) = LeftIn(frames, q)
<1>. DEFINE more == Append(frames, [obj |-> o, left |-> NumMembers])
<1>1. /\ DOMAIN more = DOMAIN frames \cup {Len(frames) + 1}
      /\ \A d \in DOMAIN frames : more[d] = frames[d]
      /\ more[Len(frames) + 1] = [obj |-> o, left |-> NumMembers]
  OBVIOUS
<1>. HIDE DEF more
<1>2. LeftIn(more, q) = LeftIn(frames, q)
  BY <1>1 DEF LeftIn, Members
<1>. QED
  BY <1>2 DEF more

LEMMA ElementOf ==
  ASSUME NEW S, NEW q \in Seq(S)
  PROVE  Len(q) \in Nat /\ DOMAIN q = 1 .. Len(q) /\ \A d \in DOMAIN q : q[d] \in S
OBVIOUS

LEMMA SeqOf ==
  ASSUME NEW S, NEW n \in Nat, NEW q, DOMAIN q = 1 .. n, q = [d \in 1 .. n |-> q[d]],
         \A d \in 1 .. n : q[d] \in S
  PROVE  q \in Seq(S) /\ Len(q) = n
<1>1. q \in [1 .. n -> S]
  OBVIOUS
<1>. QED
  BY <1>1

\* The innermost destructor gives up one more member.
LEMMA DestroyMemberKeeps ==
  ASSUME PInv, DestroyMember
  PROVE  PInv'
<1>0. /\ dying # <<>> /\ Inner.left > 0
      /\ members' = members /\ ptr' = ptr /\ assign' = assign /\ misread' = misread
  BY DEF DestroyMember
<1>1. /\ dying \in Seq([obj : DOMAIN members, left : 0 .. NumMembers])
      /\ \A d, e \in DOMAIN dying : dying[d].obj = dying[e].obj => d = e
      /\ count \in [DOMAIN members -> Nat] /\ DOMAIN members \subseteq Objects
  BY DEF PInv, PointerTypeOK
<1>2. PICK n \in Nat : n = Len(dying) /\ n > 0 /\ DOMAIN dying = 1 .. n
  BY <1>0, <1>1
<1>20. \A d \in 1 .. n : dying[d] \in [obj : DOMAIN members, left : 0 .. NumMembers]
  BY <1>1, <1>2, ElementOf
<1>3. PICK p \in DOMAIN members, l \in Members : dying[n] = [obj |-> p, left |-> l]
  <2>1. dying[n] \in [obj : DOMAIN members, left : 0 .. NumMembers]
    BY <1>2, <1>20
  <2>2. dying[n].left \in Members
    BY <2>1, <1>0, <1>2 DEF Inner, Members
  <2>. QED
    BY <2>1, <2>2
<1>4. PICK o \in Ref : o = members[p][l]
  BY <1>3 DEF PInv, PointerTypeOK
<1>5. PICK rest : rest = [dying EXCEPT ![n].left = l - 1]
  OBVIOUS
<1>6. /\ rest \in Seq([obj : DOMAIN members, left : 0 .. NumMembers])
      /\ DOMAIN rest = 1 .. n /\ Len(rest) = n
      /\ \A d \in 1 .. n : rest[d].obj = dying[d].obj
      /\ \A d \in 1 .. n : d # n => rest[d].left = dying[d].left
      /\ rest[n].left = l - 1
  <2>1. l - 1 \in 0 .. NumMembers
    BY DEF Members
  <2>2. \A d \in 1 .. n : rest[d] = IF d = n THEN [obj |-> p, left |-> l - 1] ELSE dying[d]
    BY <1>2, <1>3, <1>5
  <2>3. rest \in Seq([obj : DOMAIN members, left : 0 .. NumMembers]) /\ DOMAIN rest = 1 .. n /\ Len(rest) = n
    <3>1. DOMAIN rest = 1 .. n /\ rest = [d \in 1 .. n |-> rest[d]]
      BY <1>2, <1>5
    <3>2. \A d \in 1 .. n : rest[d] \in [obj : DOMAIN members, left : 0 .. NumMembers]
      BY <1>20, <2>1, <2>2
    <3>3. rest \in Seq([obj : DOMAIN members, left : 0 .. NumMembers])
      BY <3>1, <3>2, SeqOf
    <3>. QED
      BY <3>1, <3>3
  <2>4. /\ \A d \in 1 .. n : rest[d].obj = dying[d].obj
        /\ \A d \in 1 .. n : d # n => rest[d].left = dying[d].left
        /\ rest[n].left = l - 1
    BY <1>2, <1>3, <2>2
  <2>. QED
    BY <2>3, <2>4
<1>7. IF o = Null THEN dying' = rest /\ count' = count
      ELSE /\ count' = [count EXCEPT ![o] = count[o] - 1]
           /\ dying' = IF count[o] = 1 THEN Append(rest, [obj |-> o, left |-> NumMembers]) ELSE rest
  BY <1>2, <1>3, <1>4, <1>5 DEF DestroyMember, Inner, Last
<1>8. LeftOf(p) = {i \in Members : i <= l} /\ LeftIn(rest, p) = {i \in Members : i <= l - 1}
  <2>1. \A d \in 1 .. n : dying[d].obj = p => d = n
    <3>1. n \in 1 .. n /\ dying[n].obj = p
      BY <1>2, <1>3
    <3>. QED
      BY <3>1, <1>1, <1>2
  <2>2. n \in 1 .. n /\ dying[n].obj = p /\ dying[n].left = l /\ rest[n].obj = p
    BY <1>2, <1>3, <1>6
  <2>3. LeftOf(p) = {i \in Members : i <= l}
    BY <2>1, <2>2, <1>2 DEF LeftOf
  <2>4. LeftIn(rest, p) = {i \in Members : i <= l - 1}
    BY <2>1, <2>2, <1>6 DEF LeftIn
  <2>. QED
    BY <2>3, <2>4
<1>9. \A q : q # p => LeftIn(rest, q) = LeftOf(q)
  BY <1>2, <1>3, <1>6 DEF LeftOf, LeftIn
<1>10. l \in LeftOf(p) /\ LeftIn(rest, p) = LeftOf(p) \ {l}
  BY <1>8 DEF Members
<1>11. Valid(o)
  BY <1>4, <1>10 DEF PInv, Sound
<1>12. \A q : LeftOf(q)' = LeftIn(rest, q)
  <2>1. \A q : LeftOf(q)' = LeftIn(dying', q)
    BY DEF LeftOf, LeftIn
  <2>2. CASE dying' = rest
    BY <2>1, <2>2
  <2>3. CASE o # Null /\ dying' = Append(rest, [obj |-> o, left |-> NumMembers])
    <3>1. rest \in Seq([obj : Objects, left : 0 .. NumMembers]) /\ o \in Objects
      <4>1. \A d \in 1 .. n : rest[d] \in [obj : Objects, left : 0 .. NumMembers]
        <5>1. \A d \in 1 .. n : rest[d] \in [obj : DOMAIN members, left : 0 .. NumMembers]
          BY <1>6, ElementOf
        <5>. QED
          BY <5>1, <1>1
      <4>2. rest = [d \in 1 .. n |-> rest[d]]
        BY <1>6
      <4>3. rest \in Seq([obj : Objects, left : 0 .. NumMembers])
        BY <4>1, <4>2, <1>6, SeqOf
      <4>. QED
        BY <4>3, <2>3 DEF Ref
    <3>. QED
      BY <2>1, <2>3, <3>1, LeftInAppend
  <2>. QED
    BY <1>7, <2>2, <2>3
<1>13. Holding' = Holding /\ \A m : Pointers(m)' = IF m = o THEN Pointers(m) \ {<<p, l>>} ELSE Pointers(m)
  <2>1. Holding' = Holding
    BY <1>0 DEF Holding
  <2>2. ASSUME NEW m PROVE Pointers(m)' = IF m = o THEN Pointers(m) \ {<<p, l>>} ELSE Pointers(m)
    <3>1. <<p, l>> \notin {<<s, 0>> : s \in {t \in Holding : ptr[t] = m}}
      BY DEF Members
    <3>2. {h \in (DOMAIN members) \X Members : h[2] \in LeftIn(rest, h[1]) /\ members[h[1]][h[2]] = m}
           = {h \in (DOMAIN members) \X Members : h[2] \in LeftOf(h[1]) /\ members[h[1]][h[2]] = m}
               \ (IF m = o THEN {<<p, l>>} ELSE {})
      BY <1>4, <1>9, <1>10
    <3>3. Pointers(m)' = {<<s, 0>> : s \in {t \in Holding : ptr[t] = m}} \cup
            {h \in (DOMAIN members) \X Members : h[2] \in LeftIn(rest, h[1]) /\ members[h[1]][h[2]] = m}
      BY <1>0, <1>12, <2>1 DEF Pointers
    <3>. QED
      BY <3>1, <3>2, <3>3 DEF Pointers
  <2>. QED
    BY <2>1, <2>2
<1>14. Sound' /\ NoCycle'
  BY <1>0, <1>9, <1>10, <1>12, <1>13 DEF PInv, Sound, Valid, NoCycle
<1>15. CASE o = Null
  <2>1. CountsPointers'
    <3>1. \A m \in DOMAIN members : Pointers(m)' = Pointers(m)
      BY <1>1, <1>13, <1>15
    <3>2. dying' = rest /\ count' = count
      BY <1>7, <1>15
    <3>3. Dying' = Dying
      BY <3>2, <1>2, <1>6 DEF Dying
    <3>4. \A m \in DOMAIN members : count[m] = Cardinality(Pointers(m)) /\ ((count[m] = 0) <=> m \in Dying)
      BY DEF PInv, CountsPointers, Dying
    <3>5. \A m \in DOMAIN members' : count'[m] = Cardinality(Pointers(m)') /\ ((count'[m] = 0) <=> m \in Dying')
      BY <3>1, <3>2, <3>3, <3>4, <1>0
    <3>. QED
      BY <3>5 DEF CountsPointers, Dying
  <2>2. PointerTypeOK'
    BY <1>0, <1>1, <1>2, <1>6, <1>7, <1>15 DEF PInv, PointerTypeOK
  <2>. QED
    BY <2>1, <2>2, <1>14 DEF PInv
<1>16. CASE o # Null
  <2>1. o \in DOMAIN members /\ <<p, l>> \in Pointers(o)
    BY <1>4, <1>10, <1>11, <1>16 DEF Valid, Pointers
  <2>2. count[o] > 0 /\ o \notin Dying
    BY <2>1, HeldAlive
  <2>3. /\ Dying' = IF count[o] = 1 THEN Dying \cup {o} ELSE Dying
        /\ dying' \in Seq([obj : DOMAIN members, left : 0 .. NumMembers])
        /\ \A d, e \in DOMAIN dying' : dying'[d].obj = dying'[e].obj => d = e
    <3>1. CASE count[o] = 1
      <4>1. dying' = Append(rest, [obj |-> o, left |-> NumMembers])
        BY <1>7, <1>16, <3>1
      <4>2. /\ dying' \in Seq([obj : DOMAIN members, left : 0 .. NumMembers])
            /\ DOMAIN dying' = (1 .. n) \cup {n + 1} /\ dying'[n + 1].obj = o
            /\ \A d \in 1 .. n : dying'[d] = rest[d]
        BY <4>1, <1>6, <2>1
      <4>3. \A d \in 1 .. n : dying'[d].obj = dying[d].obj /\ dying[d].obj # o
        BY <4>2, <1>2, <1>6, <2>2 DEF Dying
      <4>4. Dying' = Dying \cup {o}
        <5>1. Dying' = {dying'[d].obj : d \in 1 .. n} \cup {dying'[n + 1].obj}
          BY <4>2 DEF Dying
        <5>2. {dying'[d].obj : d \in 1 .. n} = {dying[d].obj : d \in 1 .. n}
          BY <4>3
        <5>. QED
          BY <5>1, <5>2, <4>2, <1>2 DEF Dying
      <4>5. \A d, e \in DOMAIN dying' : dying'[d].obj = dying'[e].obj => d = e
        BY <4>2, <4>3, <1>1, <1>2
      <4>. QED
        BY <4>2, <4>4, <4>5, <3>1
    <3>2. CASE count[o] # 1
      <4>1. dying' = rest
        BY <1>7, <1>16, <3>2
      <4>2. Dying' = Dying
        BY <4>1, <1>2, <1>6 DEF Dying
      <4>3. \A d, e \in DOMAIN dying' : dying'[d].obj = dying'[e].obj => d = e
        BY <4>1, <1>1, <1>2, <1>6
      <4>. QED
        BY <4>1, <4>2, <4>3, <1>6, <3>2
    <3>. QED
      BY <3>1, <3>2
  <2>4. count' = [count EXCEPT ![o] = count[o] - 1] /\ count' \in [DOMAIN members -> Nat]
    <3>1. count' = [count EXCEPT ![o] = count[o] - 1]
      BY <1>7, <1>16
    <3>2. count[o] - 1 \in Nat
      BY <1>1, <2>1, <2>2
    <3>. QED
      BY <3>1, <3>2, <1>1
  <2>5. CountsPointers'
    BY <1>0, <1>13, <2>1, <2>3, <2>4, DropPointer
  <2>6. PointerTypeOK'
    BY <1>0, <2>3, <2>4 DEF PInv, PointerTypeOK
  <2>. QED
    BY <2>5, <2>6, <1>14 DEF PInv
<1>. QED
  BY <1>15, <1>16

\* The memory of the innermost object is freed: nothing points to it.
LEMMA FreeKeeps ==
  ASSUME PInv, Free
  PROVE  PInv'
<1>1. /\ dying \in Seq([obj : DOMAIN members, left : 0 .. NumMembers])
      /\ \A d, e \in DOMAIN dying : dying[d].obj = dying[e].obj => d = e
      /\ count \in [DOMAIN members -> Nat] /\ members \in [DOMAIN members -> [Members -> Ref]]
  BY DEF PInv, PointerTypeOK
<1>2. PICK n \in Nat : /\ n = Len(dying) /\ n > 0 /\ DOMAIN dying = 1 .. n
                       /\ \A d \in 1 .. n : dying[d] \in [obj : DOMAIN members, left : 0 .. NumMembers]
  <2>1. Len(dying) \in Nat /\ DOMAIN dying = 1 .. Len(dying) /\ dying # <<>>
    BY <1>1, ElementOf DEF Free
  <2>2. Len(dying) > 0
    BY <1>1, <2>1
  <2>3. \A d \in DOMAIN dying : dying[d] \in [obj : DOMAIN members, left : 0 .. NumMembers]
    BY <1>1, ElementOf
  <2>. QED
    BY <2>1, <2>2, <2>3
<1>3. PICK o \in DOMAIN members : dying[n].obj = o
  BY <1>2
<1>4. /\ members' = Without(members, o) /\ count' = Without(count, o)
      /\ dying' = SubSeq(dying, 1, n - 1) /\ dying[n].left = 0
      /\ ptr' = ptr /\ assign' = assign /\ misread' = misread
  BY <1>2, <1>3 DEF Free, Inner
<1>5. /\ DOMAIN members' = DOMAIN members \ {o} /\ DOMAIN count' = DOMAIN members \ {o}
      /\ \A m \in DOMAIN members \ {o} : members'[m] = members[m] /\ count'[m] = count[m]
      /\ members' \in [DOMAIN members' -> [Members -> Ref]] /\ count' \in [DOMAIN members' -> Nat]
  BY <1>1, <1>4 DEF Without, Restrict
<1>6. /\ DOMAIN dying' = 1 .. (n - 1) /\ \A d \in 1 .. (n - 1) : dying'[d] = dying[d]
      /\ dying' = [d \in 1 .. (n - 1) |-> dying'[d]] /\ n - 1 \in Nat
  BY <1>1, <1>2, <1>4
<1>7. \A d \in 1 .. (n - 1) : dying[d].obj # o
  <2>1. n \in DOMAIN dying /\ \A d \in 1 .. (n - 1) : d \in DOMAIN dying /\ d # n
    BY <1>2
  <2>. QED
    BY <2>1, <1>1, <1>3
<1>8. LeftOf(o) = {}
  BY <1>2, <1>3, <1>4 DEF LeftOf, Members
<1>9. \A p : p # o => LeftOf(p)' = LeftOf(p)
  BY <1>2, <1>3, <1>6 DEF LeftOf
<1>10. Pointers(o) = {}
  <2>1. o \in Dying
    BY <1>2, <1>3 DEF Dying
  <2>2. Cardinality(Pointers(o)) = 0 /\ IsFiniteSet(Pointers(o))
    BY <2>1, PointersFinite DEF PInv, CountsPointers, Dying
  <2>. QED
    BY <2>2, FS_EmptySet
<1>11. Holding' = Holding
  BY <1>4 DEF Holding
<1>12. \A m : Pointers(m)' = Pointers(m)
  <2>. SUFFICES ASSUME NEW m PROVE Pointers(m)' = Pointers(m)
    OBVIOUS
  <2>1. {h \in (DOMAIN members \ {o}) \X Members : h[2] \in LeftOf(h[1]) /\ members[h[1]][h[2]] = m}
          = {h \in (DOMAIN members) \X Members : h[2] \in LeftOf(h[1]) /\ members[h[1]][h[2]] = m}
    BY <1>8
  <2>2. Pointers(m)' = {<<s, 0>> : s \in {t \in Holding : ptr[t] = m}} \cup
          {h \in (DOMAIN members \ {o}) \X Members : h[2] \in LeftOf(h[1]) /\ members[h[1]][h[2]] = m}
    BY <1>4, <1>5, <1>9, <1>11 DEF Pointers
  <2>. QED
    BY <2>1, <2>2 DEF Pointers
<1>13. Dying' = Dying \ {o}
  BY <1>2, <1>3, <1>6, <1>7 DEF Dying
<1>14. CountsPointers'
  <2>1. \A m \in DOMAIN members : count[m] = Cardinality(Pointers(m)) /\ ((count[m] = 0) <=> m \in Dying)
    BY DEF PInv, CountsPointers, Dying
  <2>2. \A m \in DOMAIN members' : count'[m] = Cardinality(Pointers(m)') /\ ((count'[m] = 0) <=> m \in Dying')
    BY <2>1, <1>5, <1>12, <1>13
  <2>. QED
    BY <2>2 DEF CountsPointers, Dying
<1>15. PointerTypeOK'
  <2>1. dying' \in Seq([obj : DOMAIN members', left : 0 .. NumMembers])
    <3>1. \A d \in 1 .. (n - 1) : dying'[d] \in [obj : DOMAIN members', left : 0 .. NumMembers]
      BY <1>2, <1>5, <1>6, <1>7
    <3>. QED
      BY <3>1, <1>6, SeqOf
  <2>2. \A d, e \in DOMAIN dying' : dying'[d].obj = dying'[e].obj => d = e
    BY <1>1, <1>2, <1>6
  <2>. QED
    BY <2>1, <2>2, <1>4, <1>5 DEF PInv, PointerTypeOK
<1>16. Sound'
  <2>1. \A s \in Holding : ptr[s] # o
    BY <1>10 DEF Pointers
  <2>2. \A p \in DOMAIN members : \A i \in LeftOf(p) : members[p][i] # o
    <3>. SUFFICES ASSUME NEW p \in DOMAIN members, NEW i \in LeftOf(p), members[p][i] = o PROVE FALSE
      OBVIOUS
    <3>1. <<p, i>> \in Pointers(o)
      BY DEF Pointers, LeftOf
    <3>. QED
      BY <3>1, <1>10
  <2>3. \A s \in Holding' : ptr'[s] = Null \/ ptr'[s] \in DOMAIN members'
    BY <2>1, <1>4, <1>5, <1>11 DEF PInv, Sound, Valid
  <2>4. \A p \in DOMAIN members' : \A i \in LeftOf(p)' :
          members'[p][i] = Null \/ members'[p][i] \in DOMAIN members'
    BY <2>2, <1>5, <1>9 DEF PInv, Sound, Valid
  <2>. QED
    BY <2>3, <2>4, <1>4 DEF PInv, Sound, Valid
<1>17. NoCycle'
  BY <1>5 DEF PInv, NoCycle
<1>. QED
  BY <1>14, <1>15, <1>16, <1>17 DEF PInv

----------------------------------------------------------------------------
LEMMA InitGood == Init => PInv
<1>. SUFFICES ASSUME Init PROVE PInv
  OBVIOUS
<1>1. DOMAIN members = {} /\ DOMAIN count = {} /\ DOMAIN ptr = {} /\ dying = <<>> /\ assign = NoAssign
  BY DEF Init
<1>2. PointerTypeOK
  <2>1. members \in [DOMAIN members -> [Members -> Ref]] /\ count \in [DOMAIN members -> Nat]
    BY DEF Init
  <2>2. ptr \in [DOMAIN ptr -> Ref]
    BY DEF Init
  <2>3. dying \in Seq([obj : DOMAIN members, left : 0 .. NumMembers])
    BY <1>1
  <2>4. assign \in [lhs : DOMAIN ptr \cup {Null}, from : Ref, val : Ref, inside : BOOLEAN]
    BY <1>1 DEF NoAssign, Ref
  <2>5. /\ DOMAIN members \subseteq Objects /\ DOMAIN ptr \subseteq Slots /\ misread \in BOOLEAN
        /\ \A d, e \in DOMAIN dying : dying[d].obj = dying[e].obj => d = e
    <3>1. misread = FALSE
      BY DEF Init
    <3>2. DOMAIN dying = {}
      BY <1>1
    <3>. QED
      BY <1>1, <3>1, <3>2
  <2>. QED
    BY <2>1, <2>2, <2>3, <2>4, <2>5 DEF PointerTypeOK
<1>3. CountsPointers /\ Sound /\ NoCycle
  BY <1>1 DEF CountsPointers, Sound, NoCycle, Holding
<1>. QED
  BY <1>2, <1>3 DEF PInv

LEMMA StepGood == PInv /\ [Next]_vars => PInv'
<1>. SUFFICES ASSUME PInv, [Next]_vars PROVE PInv'
  OBVIOUS
<1>1. ASSUME NEW s \in Slots, Create(s) PROVE PInv'
  BY <1>1, CreateKeeps
<1>2. ASSUME NEW s \in Slots, Leave(s) PROVE PInv'
  BY <1>2, LeaveKeeps
<1>3. ASSUME NEW s \in Slots, NEW o \in Range(ptr) \cup {Null}, Copy(s, o) \/ Release(s, Null, o)
      PROVE  PInv'
  <2>1. Running
    BY <1>3 DEF Copy, Release
  <2>2. o \in Ref /\ Valid(o)
    BY <2>1, WhenRunning DEF Range, Ref, PInv, PointerTypeOK, Sound, Valid
  <2>. QED
    BY <1>3, <2>2, CopyKeeps, ReleaseKeeps DEF Ref
<1>4. ASSUME NEW s \in Slots, NEW from \in DOMAIN members, NEW i \in Members,
             Copy(s, members[from][i]) \/ Release(s, from, members[from][i])
      PROVE  PInv'
  <2>1. Running
    BY <1>4 DEF Copy, Release
  <2>2. members[from][i] \in Ref /\ Valid(members[from][i]) /\ from \in Ref
    BY <2>1, WhenRunning DEF Ref, PInv, PointerTypeOK, Sound
  <2>3. PICK o \in Ref : o = members[from][i]
    BY <2>2
  <2>. QED
    BY <1>4, <2>2, <2>3, CopyKeeps, ReleaseKeeps
<1>5. CASE UNCHANGED vars
  <2>1. /\ Holding' = Holding /\ (\A p : LeftOf(p)' = LeftOf(p)) /\ \A m : Pointers(m)' = Pointers(m)
    BY <1>5 DEF vars, Holding, LeftOf, Pointers
  <2>2. PointerTypeOK' /\ CountsPointers'
    BY <1>5, <2>1 DEF vars, PInv, PointerTypeOK, CountsPointers
  <2>3. Sound'
    BY <1>5, <2>1 DEF vars, PInv, Sound, Valid
  <2>4. NoCycle'
    BY <1>5 DEF vars, PInv, NoCycle
  <2>. QED
    BY <2>2, <2>3, <2>4 DEF PInv
<1>. QED
  BY <1>1, <1>2, <1>3, <1>4, <1>5, RetargetKeeps, DestroyMemberKeeps, FreeKeeps DEF Next

\* The inductive invariant of reference counting.
THEOREM PointerInvariance == Spec => []PInv
  BY InitGood, StepGood, PTL DEF Spec

\* Variables keep their types, and no object dies twice.
THEOREM PointerTypeCorrect == Spec => []PointerTypeOK
<1>1. PInv => PointerTypeOK
  BY DEF PInv
<1>. QED
  BY <1>1, PointerInvariance, PTL

\* A reference count is the number of pointers to its object, through every
\* assignment and cascade of deletions.
THEOREM CountsAreRight == Spec => []CountsPointers
<1>1. PInv => CountsPointers
  BY DEF PInv
<1>. QED
  BY <1>1, PointerInvariance, PTL

\* No pointer that counts points to freed memory or to a dying object.
THEOREM NoPointerDangles == Spec => []NoneDangling
<1>1. ASSUME PInv PROVE NoneDangling
  <2>1. ASSUME NEW s \in Holding, ptr[s] # Null
        PROVE  ptr[s] \in DOMAIN members /\ count[ptr[s]] > 0
    <3>1. ptr[s] \in DOMAIN members /\ <<s, 0>> \in Pointers(ptr[s])
      BY <1>1, <2>1 DEF PInv, Sound, Valid, Pointers
    <3>. QED
      BY <1>1, <3>1, HeldAlive
  <2>2. ASSUME NEW o \in DOMAIN members, NEW i \in LeftOf(o), members[o][i] # Null
        PROVE  members[o][i] \in DOMAIN members /\ count[members[o][i]] > 0
    <3>1. members[o][i] \in DOMAIN members /\ <<o, i>> \in Pointers(members[o][i])
      BY <1>1, <2>2 DEF PInv, Sound, Valid, Pointers, LeftOf
    <3>. QED
      BY <1>1, <3>1, HeldAlive
  <2>. QED
    BY <2>1, <2>2 DEF NoneDangling
<1>. QED
  BY <1>1, PointerInvariance, PTL

----------------------------------------------------------------------------
(* Reachability *)

\* What the pointers R reach in a memory m is closed, and the least such set.
LEMMA ReachedIsClosed ==
  ASSUME NEW m, DOMAIN m \subseteq Objects, m \in [DOMAIN m -> [Members -> Ref]], NEW R
  PROVE  /\ Heap!Reached(m, R) \subseteq DOMAIN m
         /\ R \cap DOMAIN m \subseteq Heap!Reached(m, R)
         /\ \A o \in Heap!Reached(m, R) : \A i \in Members :
              m[o][i] \in DOMAIN m => m[o][i] \in Heap!Reached(m, R)
         /\ \A S \in SUBSET DOMAIN m :
              /\ R \cap DOMAIN m \subseteq S
              /\ \A o \in S : \A i \in Members : m[o][i] \in S \cup {Null}
              => Heap!Reached(m, R) \subseteq S
<1>1. \A S \in SUBSET DOMAIN m :
        Heap!Targets(m, S) \subseteq S \cup {Null} <=> \A o \in S : \A i \in Members : m[o][i] \in S \cup {Null}
  <2>. SUFFICES ASSUME NEW S \in SUBSET DOMAIN m
                PROVE  Heap!Targets(m, S) \subseteq S \cup {Null}
                         <=> \A o \in S : \A i \in Members : m[o][i] \in S \cup {Null}
    OBVIOUS
  <2>1. S \cap DOMAIN m = S
    OBVIOUS
  <2>3. \A x : x \in Heap!Targets(m, S) <=> \E o \in S : \E i \in Members : x = m[o][i]
    <3>1. \A x : x \in Heap!Targets(m, S) <=> \E o \in S : x \in Heap!Range(m[o])
      BY <2>1 DEF Heap!Targets
    <3>2. \A o \in S : DOMAIN m[o] = Members
      OBVIOUS
    <3>3. \A o \in S : \A x : x \in Heap!Range(m[o]) <=> \E i \in Members : x = m[o][i]
      BY <3>2 DEF Heap!Range
    <3>4. ASSUME NEW x
          PROVE  x \in Heap!Targets(m, S) <=> \E o \in S : \E i \in Members : x = m[o][i]
      <4>1. \A o \in S : x \in Heap!Range(m[o]) <=> \E i \in Members : x = m[o][i]
        BY <3>3
      <4>. QED
        BY <3>1, <4>1, Zenon
    <3>. QED
      BY <3>4
  <2>. QED
    BY <2>3
<1>2. \A o : o \in Heap!Reached(m, R) <=>
        /\ o \in DOMAIN m
        /\ \A S \in SUBSET DOMAIN m :
             /\ R \cap DOMAIN m \subseteq S
             /\ \A p \in S : \A i \in Members : m[p][i] \in S \cup {Null}
             => o \in S
  BY <1>1 DEF Heap!Reached
<1>3. Null \notin DOMAIN m
  BY ObjectsAssumption
<1>. QED
  BY <1>2, <1>3

\* The pointers outside objects that count.
Kept == {ptr[t] : t \in Holding}

\* None of them, and no object that is not being destroyed, points to one that is.
LEMMA AliveIsClosed ==
  ASSUME PInv
  PROVE  /\ Kept \subseteq (DOMAIN members \ Dying) \cup {Null}
         /\ \A o \in DOMAIN members \ Dying : \A i \in Members :
              members[o][i] \in (DOMAIN members \ Dying) \cup {Null}
<1>1. ASSUME NEW s \in Holding, ptr[s] # Null PROVE ptr[s] \in DOMAIN members \ Dying
  <2>1. ptr[s] \in DOMAIN members /\ <<s, 0>> \in Pointers(ptr[s])
    BY <1>1 DEF PInv, Sound, Valid, Pointers
  <2>. QED
    BY <2>1, HeldAlive
<1>2. ASSUME NEW o \in DOMAIN members \ Dying, NEW i \in Members, members[o][i] # Null
      PROVE  members[o][i] \in DOMAIN members \ Dying
  <2>1. i \in LeftOf(o)
    BY DEF LeftOf, Dying
  <2>2. members[o][i] \in DOMAIN members /\ <<o, i>> \in Pointers(members[o][i])
    BY <1>2, <2>1 DEF PInv, Sound, Valid, Pointers
  <2>. QED
    BY <2>2, HeldAlive
<1>. QED
  BY <1>1, <1>2 DEF Kept

\* So what pointers reach is what it was when the memory of an object is freed.
LEMMA FreeReaches ==
  ASSUME PInv, Free, NEW R, R \cap Dying = {}
  PROVE  /\ Heap!Reached(members', R) = Heap!Reached(members, R)
         /\ \A o \in Heap!Reached(members, R) : o \in DOMAIN members' /\ members'[o] = members[o]
<1>1. /\ members \in [DOMAIN members -> [Members -> Ref]] /\ DOMAIN members \subseteq Objects
  BY DEF PInv, PointerTypeOK
<1>2. PICK x \in Dying : members' = Without(members, x)
  <2>1. dying \in Seq([obj : DOMAIN members, left : 0 .. NumMembers]) /\ dying # <<>>
    BY DEF Free, PInv, PointerTypeOK
  <2>2. Len(dying) \in DOMAIN dying
    BY <2>1
  <2>. QED
    BY <2>2 DEF Free, Inner, Dying
<1>3. /\ DOMAIN members' = DOMAIN members \ {x}
      /\ \A o \in DOMAIN members' : members'[o] = members[o]
  BY <1>2 DEF Without, Restrict
<1>4. members' \in [DOMAIN members' -> [Members -> Ref]] /\ DOMAIN members' \subseteq Objects
  BY <1>1, <1>2, <1>3 DEF Without, Restrict
<1>. DEFINE A == Heap!Reached(members, R)
            B == Heap!Reached(members', R)
<1>5. A \subseteq DOMAIN members \ Dying
  <2>1. R \cap DOMAIN members \subseteq DOMAIN members \ Dying
    OBVIOUS
  <2>. DEFINE S == DOMAIN members \ Dying
  <2>2. \A o \in S : \A i \in Members : members[o][i] \in S \cup {Null}
    BY AliveIsClosed
  <2>. HIDE DEF S
  <2>3. S \in SUBSET DOMAIN members /\ R \cap DOMAIN members \subseteq S
    BY <2>1 DEF S
  <2>4. A \subseteq S
    BY <1>1, <2>2, <2>3, ReachedIsClosed
  <2>. QED
    BY <2>4 DEF S
<1>6. /\ A \subseteq DOMAIN members /\ R \cap DOMAIN members \subseteq A
      /\ \A o \in A : \A i \in Members : members[o][i] \in DOMAIN members => members[o][i] \in A
  BY <1>1, ReachedIsClosed
<1>7. /\ B \subseteq DOMAIN members' /\ R \cap DOMAIN members' \subseteq B
      /\ \A o \in B : \A i \in Members : members'[o][i] \in DOMAIN members' => members'[o][i] \in B
  BY <1>4, ReachedIsClosed
<1>8. B \subseteq A
  <2>1. A \in SUBSET DOMAIN members' /\ R \cap DOMAIN members' \subseteq A
    BY <1>2, <1>3, <1>5, <1>6
  <2>2. \A o \in A : \A i \in Members : members'[o][i] \in A \cup {Null}
    BY <1>3, <1>5, <1>6, <2>1, AliveIsClosed
  <2>. HIDE DEF A, B
  <2>. QED
    BY <1>4, <2>1, <2>2, ReachedIsClosed DEF B
<1>9. A \subseteq B
  <2>. DEFINE C == A \cap B
  <2>1. C \in SUBSET DOMAIN members /\ R \cap DOMAIN members \subseteq C
    BY <1>2, <1>3, <1>5, <1>6, <1>7
  <2>2. \A o \in C : \A i \in Members : members[o][i] \in C \cup {Null}
    BY <1>2, <1>3, <1>5, <1>6, <1>7, AliveIsClosed
  <2>. HIDE DEF C, B
  <2>3. A \subseteq C
    BY <1>1, <2>1, <2>2, ReachedIsClosed
  <2>. QED
    BY <2>3 DEF C
<1>. QED
  BY <1>2, <1>3, <1>5, <1>8, <1>9

\* With no destructor running, memory holds what the pointers that count reach.
LEMMA AtRest ==
  ASSUME PInv, dying = <<>>
  PROVE  DOMAIN members = Heap!Reached(members, Kept)
<1>. DEFINE A == Heap!Reached(members, Kept)
<1>1. /\ members \in [DOMAIN members -> [Members -> Ref]] /\ DOMAIN members \subseteq Objects
  BY DEF PInv, PointerTypeOK
<1>2. /\ A \subseteq DOMAIN members /\ Kept \cap DOMAIN members \subseteq A
      /\ \A o \in A : \A i \in Members : members[o][i] \in DOMAIN members => members[o][i] \in A
  BY <1>1, ReachedIsClosed
<1>. HIDE DEF A
<1>3. ASSUME DOMAIN members \ A # {} PROVE FALSE
  <2>1. PICK u \in DOMAIN members \ A :
          \A p \in DOMAIN members \ A : \A i \in Members : members[p][i] # u
    BY <1>3 DEF PInv, NoCycle
  <2>2. count[u] # 0
    BY DEF PInv, CountsPointers
  <2>3. Pointers(u) # {}
    BY <2>2, FS_EmptySet DEF PInv, CountsPointers
  <2>4. PICK h \in Pointers(u) : TRUE
    BY <2>3
  <2>5. ASSUME NEW s \in Holding, ptr[s] = u PROVE FALSE
    BY <1>2, <2>5 DEF Kept
  <2>6. ASSUME NEW p \in DOMAIN members, NEW i \in Members, members[p][i] = u PROVE FALSE
    BY <1>2, <2>1, <2>6
  <2>. QED
    BY <2>4, <2>5, <2>6 DEF Pointers
<1>. QED
  BY <1>2, <1>3 DEF A

\* Null is no object.
LEMMA NullNotDying ==
  ASSUME PInv
  PROVE  Null \notin Dying
<1>1. dying \in Seq([obj : DOMAIN members, left : 0 .. NumMembers]) /\ DOMAIN members \subseteq Objects
  BY DEF PInv, PointerTypeOK
<1>. DEFINE F == [obj : DOMAIN members, left : 0 .. NumMembers]
<1>2. \A d \in DOMAIN dying : dying[d] \in F
  <2>. HIDE DEF F
  <2>1. dying \in Seq(F)
    BY <1>1 DEF F
  <2>. QED
    BY <2>1, ElementOf
<1>. QED
  BY <1>1, <1>2, ObjectsAssumption DEF Dying

\* The two modules mean the same by reaching.
LEMMA ReachedIn == \A R : Reached(R) = Heap!Reached(members, R)
<1>1. \A S : Targets(S) = Heap!Targets(members, S)
  BY DEF Targets, Heap!Targets, Heap!Range, Range
<1>. QED
  BY <1>1 DEF Reached, Heap!Reached

\* Nothing is freed too early and nothing is left: counting collects what
\* reachability would.
THEOREM CollectsReachable == Spec => []CollectsExactly
<1>1. PInv => CollectsExactly
  <2>. SUFFICES ASSUME PInv, Running PROVE DOMAIN members = Reached(Range(ptr))
    BY DEF CollectsExactly
  <2>1. Range(ptr) = Kept
    BY WhenRunning DEF Range, Kept
  <2>. QED
    BY <2>1, AtRest, ReachedIn DEF Running
<1>. QED
  BY <1>1, PointerInvariance, PTL

----------------------------------------------------------------------------
(* What operator= reads *)

\* The right-hand side of an operator= is read out of what other pointers
\* keep, unless it lies in what only the left-hand side kept.
OthersKeep == Heap!Reached(members, Kept)
AssignInv ==
  assign # NoAssign =>
    /\ assign.inside <=> (assign.from # Null /\ assign.from \notin OthersKeep)
    /\ assign.inside \/ assign.val \in OthersKeep \cup {Null}

\* It is closed, and none of it is being destroyed.
LEMMA OthersClosed ==
  ASSUME PInv
  PROVE  /\ OthersKeep \subseteq DOMAIN members
         /\ Kept \cap DOMAIN members \subseteq OthersKeep
         /\ \A o \in OthersKeep : \A i \in Members :
              members[o][i] \in DOMAIN members => members[o][i] \in OthersKeep
         /\ OthersKeep \cap Dying = {}
<1>1. /\ members \in [DOMAIN members -> [Members -> Ref]] /\ DOMAIN members \subseteq Objects
  BY DEF PInv, PointerTypeOK
<1>. DEFINE S == DOMAIN members \ Dying
<1>2. /\ S \in SUBSET DOMAIN members /\ Kept \cap DOMAIN members \subseteq S
      /\ \A o \in S : \A i \in Members : members[o][i] \in S \cup {Null}
  BY AliveIsClosed, ObjectsAssumption, <1>1
<1>. HIDE DEF S
<1>3. OthersKeep \subseteq S
  BY <1>1, <1>2, ReachedIsClosed DEF OthersKeep
<1>. QED
  BY <1>1, <1>3, ReachedIsClosed DEF OthersKeep, S

\* The release begins: the slot gives up what it held.
LEMMA ReleaseAssigns ==
  ASSUME PInv, NEW s, NEW from, NEW o, Release(s, from, o),
         \/ from = Null /\ o \in Range(ptr) \cup {Null}
         \/ from \in DOMAIN members /\ \E i \in Members : o = members[from][i]
  PROVE  AssignInv'
<1>1. /\ Running /\ s \in DOMAIN ptr /\ ptr[s] # o
      /\ assign' = [lhs |-> s, from |-> from, val |-> o,
                    inside |-> from # Null /\ from \notin Reached({ptr[t] : t \in DOMAIN ptr \ {s}})]
      /\ members' = members /\ ptr' = ptr
  BY DEF Release, Aliased
<1>. DEFINE K == {ptr[t] : t \in DOMAIN ptr \ {s}}
<1>2. Kept' = K
  BY <1>1 DEF Kept, Holding
<1>3. /\ members \in [DOMAIN members -> [Members -> Ref]] /\ DOMAIN members \subseteq Objects
  BY DEF PInv, PointerTypeOK
<1>4. /\ Holding = DOMAIN ptr
      /\ \A t \in DOMAIN ptr : ptr[t] = Null \/ ptr[t] \in DOMAIN members
      /\ \A p \in DOMAIN members : \A i \in Members : members[p][i] = Null \/ members[p][i] \in DOMAIN members
  BY <1>1, WhenRunning DEF PInv, Sound, Valid
<1>5. Reached(K) = Heap!Reached(members, K)
  BY ReachedIn
<1>. HIDE DEF K
<1>6. /\ Heap!Reached(members, K) \subseteq DOMAIN members
      /\ K \cap DOMAIN members \subseteq Heap!Reached(members, K)
      /\ \A p \in Heap!Reached(members, K) : \A i \in Members :
           members[p][i] \in DOMAIN members => members[p][i] \in Heap!Reached(members, K)
  BY <1>3, ReachedIsClosed
<1>7. OthersKeep' = Heap!Reached(members, K)
  BY <1>1, <1>2 DEF OthersKeep
<1>8. assign'.inside <=> (assign'.from # Null /\ assign'.from \notin OthersKeep')
  BY <1>1, <1>5, <1>7 DEF K
<1>9. assign'.inside \/ assign'.val \in OthersKeep' \cup {Null}
  <2>1. CASE from = Null /\ o \in Range(ptr) \cup {Null}
    <3>1. o = Null \/ (o \in K /\ o \in DOMAIN members)
      BY <2>1, <1>1, <1>4 DEF Range, K
    <3>. QED
      BY <3>1, <1>1, <1>6, <1>7
  <2>2. CASE from \in DOMAIN members /\ \E i \in Members : o = members[from][i]
    <3>1. from # Null
      BY <2>2, <1>3, ObjectsAssumption
    <3>2. o = Null \/ o \in DOMAIN members
      BY <2>2, <1>4
    <3>3. from \in OthersKeep' => o \in OthersKeep' \cup {Null}
      BY <2>2, <3>2, <1>6, <1>7
    <3>. QED
      BY <3>1, <3>3, <1>1, <1>8
  <2>. QED
    BY <2>1, <2>2
<1>. QED
  BY <1>8, <1>9 DEF AssignInv

\* Whatever goes with it, what the others keep stays.
LEMMA AssignStep == PInv /\ AssignInv /\ [Next]_vars => AssignInv'
<1>. SUFFICES ASSUME PInv, AssignInv, [Next]_vars PROVE AssignInv'
  OBVIOUS
<1>1. CASE UNCHANGED <<members, ptr, assign>>
  BY <1>1 DEF AssignInv, OthersKeep, Kept, Holding
<1>2. ASSUME NEW s \in Slots, Create(s) \/ Leave(s) PROVE AssignInv'
  BY <1>2 DEF Create, Leave, Running, AssignInv
<1>3. ASSUME NEW s \in Slots, NEW o, Copy(s, o) PROVE AssignInv'
  BY <1>3 DEF Copy, Running, AssignInv
<1>4. ASSUME NEW s \in Slots, NEW o \in Range(ptr) \cup {Null}, Release(s, Null, o) PROVE AssignInv'
  BY <1>4, ReleaseAssigns
<1>5. ASSUME NEW s \in Slots, NEW from \in DOMAIN members, NEW i \in Members,
             Release(s, from, members[from][i])
      PROVE  AssignInv'
  <2>1. PICK o : o = members[from][i]
    OBVIOUS
  <2>. QED
    BY <1>5, <2>1, ReleaseAssigns
<1>6. CASE Retarget
  BY <1>1, <1>6 DEF Retarget, AssignInv
<1>7. CASE DestroyMember
  BY <1>1, <1>7 DEF DestroyMember
<1>8. CASE Free
  <2>1. ptr' = ptr /\ assign' = assign
    BY <1>8 DEF Free
  <2>2. Kept' = Kept
    BY <2>1 DEF Kept, Holding
  <2>3. Kept \cap Dying = {}
    BY AliveIsClosed, NullNotDying
  <2>4. PICK K : K = Kept
    OBVIOUS
  <2>5. Heap!Reached(members', K) = Heap!Reached(members, K)
    BY <1>8, <2>3, <2>4, FreeReaches
  <2>6. OthersKeep' = OthersKeep
    BY <2>2, <2>4, <2>5 DEF OthersKeep
  <2>. QED
    BY <2>1, <2>6 DEF AssignInv
<1>9. CASE misread /\ UNCHANGED vars
  BY <1>1, <1>9 DEF vars
<1>. QED
  BY <1>1, <1>2, <1>3, <1>4, <1>5, <1>6, <1>7, <1>8, <1>9 DEF Next, vars

\* The inductive invariant of an assignment in progress.
LEMMA AssignInvariance == Spec => [](PInv /\ AssignInv)
<1>1. Init => PInv /\ AssignInv
  BY InitGood DEF Init, AssignInv
<1>2. PInv /\ AssignInv /\ [Next]_vars => PInv' /\ AssignInv'
  BY StepGood, AssignStep
<1>. QED
  BY <1>1, <1>2, PTL DEF Spec

\* When nothing is being destroyed any more, the source is there or it is not.
LEMMA ReadsAtRest ==
  ASSUME PInv, AssignInv
  PROVE  MisreadsOwnOnly
<1>. SUFFICES ASSUME assign # NoAssign, dying = <<>> PROVE InFreed <=> assign.inside
  BY DEF MisreadsOwnOnly
<1>1. DOMAIN members = OthersKeep
  BY AtRest DEF OthersKeep
<1>. QED
  BY <1>1 DEF AssignInv, InFreed

\* An operator= reads freed memory if, and only if, its right-hand side lies
\* in what its left-hand side alone kept: however the release cascades.
THEOREM MisreadsAreOwn == Spec => []MisreadsOwnOnly
<1>1. PInv /\ AssignInv => MisreadsOwnOnly
  BY ReadsAtRest
<1>. QED
  BY <1>1, AssignInvariance, PTL

----------------------------------------------------------------------------
(* The collected heap that the program sees *)

HeapNode == Restrict(members, Reached(Range(HeapPtr)))

\* What the pointers of the collected heap reach.
LEMMA HeapReaches ==
  ASSUME PInv, AssignInv
  PROVE  /\ assign = NoAssign => HeapPtr = ptr /\ Range(HeapPtr) = Kept
         /\ assign # NoAssign /\ ~assign.inside =>
              /\ Range(HeapPtr) = Kept \cup {assign.val}
              /\ Range(HeapPtr) \cap Dying = {}
         /\ assign.inside => HeapPtr = <<>> /\ Range(HeapPtr) = {}
<1>1. assign = NoAssign => HeapPtr = ptr /\ Range(HeapPtr) = Kept
  <2>. SUFFICES ASSUME assign = NoAssign PROVE HeapPtr = ptr /\ Range(HeapPtr) = Kept
    OBVIOUS
  <2>1. HeapPtr = ptr
    BY DEF HeapPtr, NoAssign
  <2>2. Holding = DOMAIN ptr
    BY SlotsAssumption DEF NoAssign, Holding, PInv, PointerTypeOK
  <2>. QED
    BY <2>1, <2>2 DEF Kept, Range
<1>2. ASSUME assign # NoAssign, ~assign.inside
      PROVE  /\ Range(HeapPtr) = Kept \cup {assign.val}
             /\ Range(HeapPtr) \cap Dying = {}
  <2>1. HeapPtr = [ptr EXCEPT ![assign.lhs] = assign.val] /\ assign.lhs \in DOMAIN ptr
    BY <1>2 DEF HeapPtr, PInv, Sound
  <2>2. ptr \in [DOMAIN ptr -> Ref]
    BY DEF PInv, PointerTypeOK
  <2>3. /\ DOMAIN HeapPtr = Holding \cup {assign.lhs} /\ HeapPtr[assign.lhs] = assign.val
        /\ \A t \in Holding : HeapPtr[t] = ptr[t]
    BY <2>1, <2>2 DEF Holding
  <2>4. Range(HeapPtr) = Kept \cup {assign.val}
    BY <2>3 DEF Range, Kept
  <2>5. assign.val \notin Dying
    BY <1>2, NullNotDying, OthersClosed DEF AssignInv
  <2>6. Kept \cap Dying = {}
    BY AliveIsClosed, NullNotDying
  <2>. QED
    BY <2>4, <2>5, <2>6
<1>3. assign.inside => HeapPtr = <<>> /\ Range(HeapPtr) = {}
  BY DEF HeapPtr, Restrict, Range
<1>. QED
  BY <1>1, <1>2, <1>3

\* A step that leaves pointers and members alone leaves the heap alone ...
LEMMA HeapStutters ==
  ASSUME PInv, AssignInv, ptr' = ptr, assign' = assign, members' = members
  PROVE  UNCHANGED <<HeapNode, HeapPtr, assign.inside>>
BY DEF HeapNode, HeapPtr, Reached, Targets

\* ... and so does freeing what nothing reaches.
LEMMA HeapFree ==
  ASSUME PInv, AssignInv, Free
  PROVE  UNCHANGED <<HeapNode, HeapPtr, assign.inside>>
<1>1. ptr' = ptr /\ assign' = assign
  BY DEF Free
<1>2. HeapPtr' = HeapPtr
  BY <1>1 DEF HeapPtr
<1>3. Range(HeapPtr) \cap Dying = {}
  BY HeapReaches, AliveIsClosed, NullNotDying
<1>4. PICK R : R = Range(HeapPtr)
  OBVIOUS
<1>5. /\ Heap!Reached(members', R) = Heap!Reached(members, R)
      /\ \A o \in Heap!Reached(members, R) : o \in DOMAIN members' /\ members'[o] = members[o]
  BY <1>3, <1>4, FreeReaches
<1>6. Reached(Range(HeapPtr)) = Heap!Reached(members, R)
  BY <1>4, ReachedIn
<1>7. Range(HeapPtr)' = R
  BY <1>2, <1>4 DEF Range
<1>8. Reached(Range(HeapPtr))' = Heap!Reached(members', R)
  <2>1. \A S : Targets(S)' = Heap!Targets(members', S)
    BY DEF Targets, Heap!Targets, Heap!Range, Range
  <2>. QED
    BY <1>7, <2>1 DEF Reached, Heap!Reached
<1>9. HeapNode' = HeapNode
  BY <1>5, <1>6, <1>8 DEF HeapNode, Restrict
<1>. QED
  BY <1>1, <1>2, <1>9

\* The pointers become p in memory m.
LEMMA Becomes ==
  ASSUME NEW m, NEW p, members' = m, HeapPtr' = p, assign'.inside = assign.inside
  PROVE  Heap!Become(m, p)
<1>1. \A S : Targets(S)' = Heap!Targets(members', S)
  BY DEF Targets, Heap!Targets, Heap!Range, Range
<1>2. Reached(Range(HeapPtr))' = Heap!Reached(m, Heap!Range(p))
  BY <1>1 DEF Reached, Heap!Reached, Heap!Range, Range
<1>3. HeapNode' = Heap!Restrict(m, Heap!Reached(m, Heap!Range(p)))
  BY <1>2 DEF HeapNode, Heap!Restrict, Restrict
<1>. QED
  BY <1>3 DEF Heap!Become, HeapNode

\* Between two statements the collected heap is the memory itself.
LEMMA HeapAtRest ==
  ASSUME PInv, AssignInv, Running
  PROVE  /\ HeapNode = members /\ HeapPtr = ptr /\ assign.inside = FALSE
         /\ \A o \in Range(ptr) : o = Null \/ o \in DOMAIN members
<1>1. assign = NoAssign /\ dying = <<>>
  BY DEF Running
<1>2. HeapPtr = ptr /\ Range(HeapPtr) = Kept
  BY <1>1, HeapReaches
<1>3. Reached(Range(HeapPtr)) = DOMAIN members
  BY <1>1, <1>2, AtRest, ReachedIn
<1>4. members = [o \in DOMAIN members |-> members[o]]
  BY DEF PInv, PointerTypeOK
<1>5. HeapNode = members
  BY <1>3, <1>4 DEF HeapNode, Restrict
<1>6. assign.inside = FALSE
  BY <1>1 DEF NoAssign
<1>7. \A o \in Range(ptr) : o = Null \/ o \in DOMAIN members
  BY WhenRunning DEF Range, PInv, Sound, Valid
<1>. QED
  BY <1>2, <1>5, <1>6, <1>7

\* Each statement of the program is a step of the collected heap.
LEMMA HeapCreate ==
  ASSUME PInv, AssignInv, NEW s \in Slots, Create(s)
  PROVE  Heap!Create(s)
<1>1. PICK o \in Objects \ DOMAIN members, ms \in [Members -> Range(ptr) \cup {Null}] :
        /\ Running /\ s \notin DOMAIN ptr
        /\ members' = Put(members, o, ms) /\ ptr' = Put(ptr, s, o) /\ assign' = assign
  BY DEF Create
<1>2. HeapNode = members /\ HeapPtr = ptr
  BY <1>1, HeapAtRest
<1>3. HeapPtr' = ptr' /\ assign'.inside = assign.inside
  BY <1>1 DEF HeapPtr, NoAssign, Running
<1>4. Heap!With(members, o, ms) = Put(members, o, ms) /\ Heap!With(ptr, s, o) = Put(ptr, s, o)
  BY DEF Heap!With, Put
<1>5. Heap!Become(Heap!With(members, o, ms), Heap!With(ptr, s, o))
  BY <1>1, <1>3, <1>4, Becomes
<1>. QED
  BY <1>1, <1>2, <1>5 DEF Heap!Create, HeapNode, Heap!Members, Members, Heap!Range, Range

\* A pointer goes out of scope.
LEMMA HeapLeave ==
  ASSUME PInv, AssignInv, NEW s \in Slots, Leave(s)
  PROVE  Heap!Leave(s)
<1>1. /\ Running /\ s \in DOMAIN ptr
      /\ members' = members /\ ptr' = Without(ptr, s) /\ assign' = assign
  BY DEF Leave
<1>2. HeapNode = members /\ HeapPtr = ptr
  BY <1>1, HeapAtRest
<1>3. HeapPtr' = ptr' /\ assign'.inside = assign.inside
  BY <1>1 DEF HeapPtr, NoAssign, Running
<1>4. Heap!Others(s) = Without(ptr, s)
  BY <1>2 DEF Heap!Others, Heap!Restrict, Without, Restrict
<1>5. Heap!Become(members, Heap!Others(s))
  BY <1>1, <1>3, <1>4, Becomes
<1>. QED
  BY <1>1, <1>2, <1>5 DEF Heap!Leave, HeapNode

\* A slot becomes a copy of another pointer, in or outside an object.
LEMMA HeapCopies ==
  ASSUME PInv, AssignInv, NEW s \in Slots, NEW o, Running,
         members' = members, HeapPtr' = Put(ptr, s, o), assign'.inside = FALSE
  PROVE  /\ o \in Range(ptr) \cup {Null} => Heap!Copy(s)
         /\ \A from \in DOMAIN members : \A i \in Members :
              /\ o = members[from][i]
              /\ s \in DOMAIN ptr => from \in Heap!Reached(members, {ptr[t] : t \in DOMAIN ptr \ {s}})
              => Heap!CopyMember(s)
<1>1. HeapNode = members /\ HeapPtr = ptr /\ assign.inside = FALSE
  BY HeapAtRest
<1>2. Heap!With(ptr, s, o) = Put(ptr, s, o)
  BY DEF Heap!With, Put
<1>3. Heap!Become(members, Heap!With(ptr, s, o))
  BY <1>1, <1>2, Becomes
<1>4. o \in Range(ptr) \cup {Null} => Heap!Copy(s)
  BY <1>1, <1>3 DEF Heap!Copy, HeapNode, Heap!Range, Range
<1>5. ASSUME NEW from \in DOMAIN members, NEW i \in Members, o = members[from][i],
             s \in DOMAIN ptr => from \in Heap!Reached(members, {ptr[t] : t \in DOMAIN ptr \ {s}})
      PROVE  Heap!CopyMember(s)
  <2>1. Heap!Range(Heap!Others(s)) = {ptr[t] : t \in DOMAIN ptr \ {s}}
    BY <1>1 DEF Heap!Others, Heap!Restrict, Heap!Range
  <2>2. o \in Heap!Range(members[from])
    BY <1>5 DEF Heap!Range, PInv, PointerTypeOK
  <2>. QED
    BY <1>1, <1>3, <1>5, <2>1, <2>2 DEF Heap!CopyMember, HeapNode
<1>. QED
  BY <1>4, <1>5

\* The constructors.
LEMMA HeapCopy ==
  ASSUME PInv, AssignInv, NEW s \in Slots, NEW o, Copy(s, o),
         \/ o \in Range(ptr) \cup {Null}
         \/ \E from \in DOMAIN members : \E i \in Members : o = members[from][i]
  PROVE  Heap!Copy(s) \/ Heap!CopyMember(s)
<1>1. /\ Running /\ s \notin DOMAIN ptr
      /\ members' = members /\ ptr' = Put(ptr, s, o) /\ assign' = assign
  BY DEF Copy
<1>2. HeapPtr' = Put(ptr, s, o) /\ assign'.inside = FALSE
  BY <1>1 DEF HeapPtr, NoAssign, Running
<1>. QED
  BY <1>1, <1>2, HeapCopies

\* The assignment is made, or the rule is broken, when the release begins.
LEMMA HeapRelease ==
  ASSUME PInv, AssignInv, NEW s \in Slots, NEW from, NEW o, Release(s, from, o),
         \/ from = Null /\ o \in Range(ptr) \cup {Null}
         \/ from \in DOMAIN members /\ \E i \in Members : o = members[from][i]
  PROVE  Heap!Copy(s) \/ Heap!CopyMember(s) \/ Heap!Break(s)
<1>. DEFINE K == {ptr[t] : t \in DOMAIN ptr \ {s}}
<1>1. /\ Running /\ s \in DOMAIN ptr
      /\ assign' = [lhs |-> s, from |-> from, val |-> o, inside |-> from # Null /\ from \notin Reached(K)]
      /\ members' = members /\ ptr' = ptr
  BY DEF Release
<1>. HIDE DEF K
<1>2. Reached(K) = Heap!Reached(members, K)
  BY ReachedIn
<1>3. HeapNode = members /\ HeapPtr = ptr /\ assign.inside = FALSE
  BY <1>1, HeapAtRest
<1>4. assign' # NoAssign
  <2>1. s # Null
    BY SlotsAssumption
  <2>. QED
    BY <1>1, <2>1 DEF NoAssign
<1>5. CASE assign'.inside = FALSE
  <2>1. HeapPtr' = [ptr EXCEPT ![s] = o]
    BY <1>1, <1>4, <1>5 DEF HeapPtr
  <2>2. [ptr EXCEPT ![s] = o] = Put(ptr, s, o)
    <3>1. DOMAIN ptr \cup {s} = DOMAIN ptr /\ ptr = [t \in DOMAIN ptr |-> ptr[t]]
      BY <1>1 DEF PInv, PointerTypeOK
    <3>. QED
      BY <3>1 DEF Put
  <2>3. CASE from = Null /\ o \in Range(ptr) \cup {Null}
    BY <1>1, <1>5, <2>1, <2>2, <2>3, HeapCopies
  <2>4. CASE from \in DOMAIN members /\ \E i \in Members : o = members[from][i]
    <3>1. from # Null
      BY <2>4, ObjectsAssumption DEF PInv, PointerTypeOK
    <3>2. from \in Heap!Reached(members, K)
      BY <3>1, <1>1, <1>2, <1>5
    <3>3. from \in Heap!Reached(members, {ptr[t] : t \in DOMAIN ptr \ {s}})
      BY <3>2 DEF K
    <3>4. PICK i \in Members : o = members[from][i]
      BY <2>4
    <3>. QED
      BY <1>1, <1>5, <2>1, <2>2, <2>4, <3>3, <3>4, HeapCopies
  <2>. QED
    BY <2>3, <2>4
<1>6. CASE assign'.inside = TRUE
  <2>1. from # Null /\ from \notin Heap!Reached(members, K)
    BY <1>1, <1>2, <1>6
  <2>2. from \in DOMAIN members
    BY <2>1
  <2>3. Heap!Range(Heap!Others(s)) = K
    BY <1>3 DEF Heap!Others, Heap!Restrict, Heap!Range, K
  <2>4. HeapPtr' = <<>>
    BY <1>6 DEF HeapPtr, Restrict
  <2>5. Range(HeapPtr)' = {}
    BY <2>4 DEF Range
  <2>6. Reached(Range(HeapPtr))' = {}
    <3>1. \A S : Targets(S)' = Heap!Targets(members', S)
      BY DEF Targets, Heap!Targets, Heap!Range, Range
    <3>2. Heap!Targets(members', {}) = {}
      BY DEF Heap!Targets
    <3>. QED
      BY <2>5, <3>1, <3>2 DEF Reached
  <2>7. HeapNode' = <<>>
    BY <2>6 DEF HeapNode, Restrict
  <2>8. Heap!Reached(HeapNode, Heap!Range(Heap!Others(s))) # DOMAIN HeapNode
    BY <1>3, <2>1, <2>2, <2>3
  <2>. QED
    BY <1>1, <1>3, <1>6, <2>4, <2>7, <2>8 DEF Heap!Break, Heap!Empty, HeapNode
<1>7. assign'.inside \in BOOLEAN
  BY <1>1
<1>. QED
  BY <1>5, <1>6, <1>7

\* The heap has seen the assignment already: its end changes nothing.
LEMMA HeapRetarget ==
  ASSUME PInv, AssignInv, Retarget
  PROVE  UNCHANGED <<HeapNode, HeapPtr, assign.inside>>
<1>1. /\ assign # NoAssign /\ dying = <<>> /\ members' = members
      /\ IF InFreed THEN UNCHANGED <<ptr, assign>>
         ELSE ptr' = [ptr EXCEPT ![assign.lhs] = assign.val] /\ assign' = NoAssign
  BY DEF Retarget
<1>2. InFreed <=> assign.inside
  BY <1>1, ReadsAtRest DEF MisreadsOwnOnly
<1>3. CASE InFreed
  BY <1>1, <1>3, HeapStutters
<1>4. CASE ~InFreed
  <2>1. ~assign.inside /\ ~assign'.inside
    BY <1>1, <1>2, <1>4 DEF NoAssign
  <2>2. HeapPtr' = HeapPtr
    BY <1>1, <1>4, <2>1 DEF HeapPtr
  <2>3. HeapNode' = HeapNode
    BY <1>1, <2>2 DEF HeapNode, Reached, Targets
  <2>4. assign.inside \in BOOLEAN /\ assign'.inside \in BOOLEAN
    <3>1. assign'.inside = FALSE
      BY <1>1, <1>4 DEF NoAssign
    <3>. QED
      BY <3>1 DEF PInv, PointerTypeOK
  <2>. QED
    BY <2>1, <2>2, <2>3, <2>4
<1>. QED
  BY <1>3, <1>4

\* Every step is a step of the collected heap, or none.
LEMMA HeapStep ==
  ASSUME PInv, AssignInv, [Next]_vars
  PROVE  [Heap!Next]_<<HeapNode, HeapPtr, assign.inside>>
<1>. DEFINE still == UNCHANGED <<HeapNode, HeapPtr, assign.inside>>
<1>0. Running => assign.inside = FALSE
  BY HeapAtRest
<1>1. ASSUME NEW s \in Slots, Create(s) \/ Leave(s) PROVE Heap!Next
  BY <1>0, <1>1, HeapCreate, HeapLeave DEF Heap!Next, Create, Leave
<1>2. ASSUME NEW s \in Slots, NEW o \in Range(ptr) \cup {Null}, Copy(s, o) \/ Release(s, Null, o)
      PROVE  Heap!Next
  BY <1>0, <1>2, HeapCopy, HeapRelease DEF Heap!Next, Copy, Release
<1>3. ASSUME NEW s \in Slots, NEW from \in DOMAIN members, NEW i \in Members,
             Copy(s, members[from][i]) \/ Release(s, from, members[from][i])
      PROVE  Heap!Next
  <2>1. PICK o : o = members[from][i]
    OBVIOUS
  <2>. QED
    BY <1>0, <1>3, <2>1, HeapCopy, HeapRelease DEF Heap!Next, Copy, Release
<1>4. CASE Retarget
  BY <1>4, HeapRetarget
<1>5. CASE DestroyMember
  BY <1>5, HeapStutters DEF DestroyMember
<1>6. CASE Free
  BY <1>6, HeapFree
<1>7. CASE UNCHANGED vars
  BY <1>7, HeapStutters DEF vars
<1>. HIDE DEF still
<1>. QED
  BY <1>1, <1>2, <1>3, <1>4, <1>5, <1>6, <1>7 DEF Next, still

\* Counting implements the heap that is collected at once: what the program
\* sees of its pointers is right, until an assignment reads its own freed source.
THEOREM HeapImplemented == Spec => ImplementsCollected
<1>1. Init => Heap!Init
  <2>. SUFFICES ASSUME Init PROVE Heap!Init
    OBVIOUS
  <2>1. /\ members = [o \in {} |-> Null] /\ ptr = [s \in {} |-> Null] /\ assign = NoAssign
    BY DEF Init
  <2>2. HeapPtr = <<>> /\ assign.inside = FALSE
    BY <2>1 DEF HeapPtr, NoAssign
  <2>3. HeapNode = <<>>
    BY <2>1 DEF HeapNode, Reached, Restrict
  <2>. QED
    BY <2>2, <2>3 DEF Heap!Init, Heap!Empty, HeapNode
<1>2. PInv /\ AssignInv /\ [Next]_vars => [Heap!Next]_<<HeapNode, HeapPtr, assign.inside>>
  BY HeapStep
<1>. QED
  BY <1>1, <1>2, AssignInvariance, PTL DEF Spec, ImplementsCollected, Heap!Spec, HeapNode
==============================================================================
