---------------------------- MODULE SimulationProof ----------------------------
(***************************************************************************)
(* The simulator of project3 gives every node in the order the value of    *)
(* its table, for any circuit whose gates are among those it knows.        *)
(*                                                                         *)
(* Two arguments meet.  One is about gates: the number of rows tells and,  *)
(* or and xor apart at any number of fanins, and the fold of the simulator *)
(* is the parity of its operands.  The other is about the order: the       *)
(* inputs come first, fanins before their gates and no node twice, so that *)
(* a value is set once and after all it depends on.                        *)
(***************************************************************************)
EXTENDS Simulation, TopoProof, SequenceTheorems

----------------------------------------------------------------------------
(* Rows *)

\* The positions at which a row has a one.
Ones(r) == {i \in DOMAIN r : r[i] = 1}
AllRows(k) == [1 .. k -> {0, 1}]

\* Sets of ones are finite and subsets of the positions.
LEMMA OnesOf ==
  ASSUME NEW k \in Nat, NEW r \in AllRows(k)
  PROVE  /\ Ones(r) \in SUBSET (1 .. k) /\ IsFiniteSet(Ones(r)) /\ Cardinality(Ones(r)) \in Nat
         /\ Ones(r) = {i \in 1 .. k : r[i] = 1}
<1>1. DOMAIN r = 1 .. k /\ IsFiniteSet(1 .. k)
  BY FS_Interval DEF AllRows
<1>2. Ones(r) \in SUBSET (1 .. k)
  BY <1>1 DEF Ones
<1>3. IsFiniteSet(Ones(r))
  BY <1>1, <1>2, FS_Subset
<1>. QED
  BY <1>1, <1>2, <1>3, FS_CardinalityType DEF Ones

\* There are as many rows as sets of positions.
LEMMA RowsCount ==
  ASSUME NEW k \in Nat
  PROVE  /\ IsFiniteSet(AllRows(k)) /\ Cardinality(AllRows(k)) = 2 ^ k
<1>. DEFINE f == [S \in SUBSET (1 .. k) |-> [i \in 1 .. k |-> IF i \in S THEN 1 ELSE 0]]
<1>1. IsFiniteSet(1 .. k) /\ Cardinality(1 .. k) = k
  BY FS_Interval
<1>2. IsFiniteSet(SUBSET (1 .. k)) /\ Cardinality(SUBSET (1 .. k)) = 2 ^ k
  BY <1>1, FS_SUBSET
<1>3. f \in [SUBSET (1 .. k) -> AllRows(k)]
  BY DEF AllRows
<1>4. ASSUME NEW S \in SUBSET (1 .. k), NEW T \in SUBSET (1 .. k), f[S] = f[T] PROVE S = T
  <2>1. \A i \in 1 .. k : f[S][i] = f[T][i]
    BY <1>4
  <2>2. \A i \in 1 .. k : i \in S <=> i \in T
    BY <2>1
  <2>. QED
    BY <2>2
<1>5. ASSUME NEW r \in AllRows(k) PROVE \E S \in SUBSET (1 .. k) : f[S] = r
  <2>1. Ones(r) \in SUBSET (1 .. k) /\ \A i \in 1 .. k : i \in Ones(r) <=> r[i] = 1
    BY OnesOf
  <2>2. r = [i \in 1 .. k |-> IF i \in Ones(r) THEN 1 ELSE 0]
    BY <2>1 DEF AllRows
  <2>3. f[Ones(r)] = r
    BY <2>1, <2>2
  <2>. QED
    BY <2>1, <2>3
<1>. HIDE DEF f
<1>6. f \in Bijection(SUBSET (1 .. k), AllRows(k))
  BY <1>3, <1>4, <1>5 DEF Bijection, Injection, IsInjective, Surjection
<1>7. ExistsBijection(SUBSET (1 .. k), AllRows(k))
  BY <1>6 DEF ExistsBijection
<1>. QED
  BY <1>2, <1>7, FS_Bijection

\* One row is all ones, and all but one have a one.
LEMMA AndOrCount ==
  ASSUME NEW k \in Nat \ {0}
  PROVE  /\ \E r : AndRows(k) = {r}
         /\ IsFiniteSet(OrRows(k)) /\ Cardinality(OrRows(k)) = 2 ^ k - 1
<1>1. AndRows(k) = {r \in AllRows(k) : \A i \in 1 .. k : r[i] # 0}
  BY DEF AndRows, Minterms, AllRows, Range
<1>2. OrRows(k) = {r \in AllRows(k) : \E i \in 1 .. k : r[i] = 1}
  BY DEF OrRows, Minterms, AllRows, Range
<1>3. AndRows(k) = {[i \in 1 .. k |-> 1]}
  <2>1. \A r \in AllRows(k) : (\A i \in 1 .. k : r[i] # 0) => r = [i \in 1 .. k |-> 1]
    BY DEF AllRows
  <2>2. [i \in 1 .. k |-> 1] \in AllRows(k)
    BY DEF AllRows
  <2>. QED
    BY <1>1, <2>1, <2>2
<1>. DEFINE z == [i \in 1 .. k |-> 0]
<1>4. z \in AllRows(k)
  BY DEF AllRows
<1>5. OrRows(k) = AllRows(k) \ {z}
  <2>1. \A r \in AllRows(k) : (\A i \in 1 .. k : r[i] # 1) => r = z
    BY DEF AllRows
  <2>. QED
    BY <1>2, <2>1
<1>. HIDE DEF z
<1>6. IsFiniteSet(OrRows(k)) /\ Cardinality(OrRows(k)) = Cardinality(AllRows(k)) - 1
  BY <1>4, <1>5, RowsCount, FS_RemoveElement
<1>7. \E r : AndRows(k) = {r}
  BY <1>3
<1>. QED
  BY <1>6, <1>7, RowsCount

\* Flipping the first bit of a row changes its parity.
Odd(r)  == Cardinality(Ones(r)) % 2 = 1
Flip(r) == [r EXCEPT ![1] = 1 - r[1]]
LEMMA FlipParity ==
  ASSUME NEW k \in Nat \ {0}, NEW r \in AllRows(k)
  PROVE  /\ Flip(r) \in AllRows(k) /\ Flip(Flip(r)) = r
         /\ Odd(Flip(r)) <=> ~Odd(r)
<1>1. r \in [1 .. k -> {0, 1}] /\ 1 \in 1 .. k
  BY DEF AllRows
<1>2. Flip(r) \in AllRows(k)
  <2>1. 1 - r[1] \in {0, 1}
    BY <1>1
  <2>. QED
    BY <1>1, <2>1 DEF Flip, AllRows
<1>3. Flip(Flip(r)) = r
  <2>1. 1 - (1 - r[1]) = r[1]
    BY <1>1
  <2>2. Flip(r)[1] = 1 - r[1] /\ DOMAIN Flip(r) = 1 .. k /\ \A i \in 1 .. k : i # 1 => Flip(r)[i] = r[i]
    BY <1>1 DEF Flip
  <2>3. Flip(Flip(r)) = [i \in 1 .. k |-> IF i = 1 THEN 1 - Flip(r)[1] ELSE Flip(r)[i]]
    BY <2>2 DEF Flip
  <2>. QED
    BY <1>1, <2>1, <2>2, <2>3
<1>4. /\ Ones(r) = {i \in 1 .. k : r[i] = 1} /\ IsFiniteSet(Ones(r)) /\ Cardinality(Ones(r)) \in Nat
      /\ Ones(Flip(r)) = {i \in 1 .. k : Flip(r)[i] = 1}
  BY <1>2, OnesOf
<1>5. Flip(r)[1] = 1 - r[1] /\ \A i \in 1 .. k : i # 1 => Flip(r)[i] = r[i]
  BY <1>1 DEF Flip
<1>6. CASE r[1] = 1
  <2>1. 1 \in Ones(r) /\ Ones(Flip(r)) = Ones(r) \ {1}
    BY <1>1, <1>4, <1>5, <1>6
  <2>2. Cardinality(Ones(Flip(r))) = Cardinality(Ones(r)) - 1
    BY <1>4, <2>1, FS_RemoveElement
  <2>3. ASSUME NEW c \in Nat PROVE ((c - 1) % 2 = 1) <=> ~(c % 2 = 1)
    OBVIOUS
  <2>. QED
    BY <1>2, <1>3, <1>4, <2>2, <2>3 DEF Odd
<1>7. CASE r[1] = 0
  <2>1. 1 \notin Ones(r) /\ Ones(Flip(r)) = Ones(r) \cup {1}
    BY <1>1, <1>4, <1>5, <1>7
  <2>2. Cardinality(Ones(Flip(r))) = Cardinality(Ones(r)) + 1
    BY <1>4, <2>1, FS_AddElement
  <2>3. ASSUME NEW c \in Nat PROVE ((c + 1) % 2 = 1) <=> ~(c % 2 = 1)
    OBVIOUS
  <2>. QED
    BY <1>2, <1>3, <1>4, <2>2, <2>3 DEF Odd
<1>. QED
  BY <1>1, <1>6, <1>7

\* Hence half of all rows are odd.
LEMMA XorCount ==
  ASSUME NEW k \in Nat \ {0}
  PROVE  /\ XorRows(k) = {r \in AllRows(k) : Odd(r)}
         /\ IsFiniteSet(XorRows(k)) /\ 2 * Cardinality(XorRows(k)) = 2 ^ k
<1>1. XorRows(k) = {r \in AllRows(k) : Odd(r)}
  <2>1. \A r \in AllRows(k) : Ones(r) = {i \in 1 .. k : r[i] = 1}
    BY OnesOf
  <2>. QED
    BY <2>1 DEF XorRows, Minterms, AllRows, Odd
<1>. DEFINE X == {r \in AllRows(k) : Odd(r)}
            E == {r \in AllRows(k) : ~Odd(r)}
            f == [r \in X |-> Flip(r)]
<1>2. f \in [X -> E]
  BY FlipParity
<1>3. \A r, s \in X : f[r] = f[s] => r = s
  <2>. SUFFICES ASSUME NEW r \in X, NEW s \in X, f[r] = f[s] PROVE r = s
    OBVIOUS
  <2>1. Flip(Flip(r)) = Flip(Flip(s))
    OBVIOUS
  <2>. QED
    BY <2>1, FlipParity
<1>4. \A r \in E : \E s \in X : f[s] = r
  <2>. SUFFICES ASSUME NEW r \in E PROVE \E s \in X : f[s] = r
    OBVIOUS
  <2>1. Flip(r) \in X /\ f[Flip(r)] = r
    BY FlipParity
  <2>. QED
    BY <2>1
<1>5. X \cup E = AllRows(k) /\ X \cap E = {}
  OBVIOUS
<1>6. X \in SUBSET AllRows(k) /\ E \in SUBSET AllRows(k)
  OBVIOUS
<1>. HIDE DEF f, X, E
<1>7. ExistsBijection(X, E)
  BY <1>2, <1>3, <1>4 DEF ExistsBijection, Bijection, Injection, IsInjective, Surjection
<1>8. IsFiniteSet(X) /\ IsFiniteSet(E)
  BY <1>6, RowsCount, FS_Subset
<1>9. Cardinality(E) = Cardinality(X)
  BY <1>7, <1>8, FS_Bijection
<1>10. 2 ^ k = Cardinality(X) + Cardinality(E) - 0
  BY <1>5, <1>8, RowsCount, FS_Union, FS_EmptySet
<1>11. Cardinality(X) \in Nat
  BY <1>8, FS_CardinalityType
<1>. QED
  BY <1>1, <1>8, <1>9, <1>10, <1>11 DEF X

\* The counts tell the gates of two and more fanins apart.
LEMMA CountsDiffer ==
  ASSUME NEW k \in Nat, k > 1
  PROVE  LET a == Cardinality(AndRows(k))
             o == Cardinality(OrRows(k))
             x == Cardinality(XorRows(k))
         IN /\ a = 1 /\ o \in Nat \ {1} /\ x \in Nat \ {1}
            /\ o = 2 ^ k - 1 /\ 2 * x = 2 ^ k /\ x # o
<1>1. Cardinality(AndRows(k)) = 1
  <2>0. k \in Nat \ {0}
    OBVIOUS
  <2>1. PICK r : AndRows(k) = {r}
    BY <2>0, AndOrCount
  <2>. QED
    BY <2>1, FS_Singleton
<1>. DEFINE p == [i \in 1 .. k |-> IF i = 1 THEN 1 ELSE 0]
            q == [i \in 1 .. k |-> IF i = 2 THEN 1 ELSE 0]
<1>2. p \in AllRows(k) /\ q \in AllRows(k) /\ p # q
  <2>1. p[1] # q[1]
    OBVIOUS
  <2>. QED
    BY <2>1 DEF AllRows
<1>3. p \in OrRows(k) /\ q \in OrRows(k)
  <2>1. DOMAIN p = 1 .. k /\ DOMAIN q = 1 .. k /\ p[1] = 1 /\ q[2] = 1 /\ 1 \in 1 .. k /\ 2 \in 1 .. k
    OBVIOUS
  <2>2. 1 \in Range(p) /\ 1 \in Range(q)
    BY <2>1 DEF Range
  <2>. QED
    BY <1>2, <2>2 DEF OrRows, Minterms, AllRows
<1>4. p \in XorRows(k) /\ q \in XorRows(k)
  <2>1. Ones(p) = {1} /\ Ones(q) = {2}
    BY DEF Ones
  <2>2. Cardinality(Ones(p)) = 1 /\ Cardinality(Ones(q)) = 1
    BY <2>1, FS_Singleton
  <2>3. Odd(p) /\ Odd(q)
    BY <2>2 DEF Odd
  <2>. QED
    BY <1>2, <2>3, XorCount
<1>. HIDE DEF p, q
<1>5. Cardinality(OrRows(k)) \in Nat \ {1}
  BY <1>2, <1>3, AndOrCount, FS_Singleton, FS_CardinalityType
<1>6. Cardinality(XorRows(k)) \in Nat \ {1}
  BY <1>2, <1>4, XorCount, FS_Singleton, FS_CardinalityType
<1>7. Cardinality(OrRows(k)) = 2 ^ k - 1 /\ 2 * Cardinality(XorRows(k)) = 2 ^ k
  BY AndOrCount, XorCount
<1>8. ASSUME NEW o \in Nat \ {1}, NEW x \in Nat \ {1}, o = 2 * x - 1 PROVE x # o
  BY <1>8
<1>. QED
  BY <1>1, <1>5, <1>6, <1>7, <1>8

----------------------------------------------------------------------------
(* The fold of the simulator *)

\* What FoldLeft chooses: it solves the recursive equation.
XorEq(it, b, s) ==
  it = [S \in SUBSET DOMAIN s |->
          IF S = {} THEN b
          ELSE LET x == Max(S) IN IF it[S \ {x}] # s[x] THEN 1 ELSE 0]

\* The greatest of some positions.
LEMMA GreatestPosition ==
  ASSUME NEW m \in Nat, NEW S \in SUBSET (1 .. m), S # {}
  PROVE  Max(S) \in S
<1>. DEFINE T == {m - i : i \in S}
<1>1. T \in SUBSET Nat /\ T # {}
  <2>1. \A i \in S : m - i \in Nat
    OBVIOUS
  <2>. QED
    BY <2>1
<1>2. PICK t \in T : \A u \in T : t <= u
  BY <1>1, LeastElement
<1>3. PICK x \in S : t = m - x
  BY <1>2
<1>4. \A y \in S : x >= y
  <2>1. \A y \in S : m - x <= m - y
    BY <1>2, <1>3
  <2>. QED
    BY <2>1
<1>. QED
  BY <1>4 DEF Max

\* The closed form of the fold, and that it solves the equation.
Parity(b, s) == [S \in SUBSET DOMAIN s |-> (b + Cardinality({i \in S : s[i] = 1})) % 2]
LEMMA ParitySolves ==
  ASSUME NEW m \in Nat, NEW s \in AllRows(m), NEW b \in {0, 1}
  PROVE  XorEq(Parity(b, s), b, s)
<1>. DEFINE g == Parity(b, s)
            count(S) == Cardinality({i \in S : s[i] = 1})
<1>1. DOMAIN s = 1 .. m /\ \A i \in 1 .. m : s[i] \in {0, 1}
  BY DEF AllRows
<1>2. g = [S \in SUBSET (1 .. m) |-> (b + count(S)) % 2]
  BY <1>1 DEF Parity
<1>3. ASSUME NEW S \in SUBSET (1 .. m) PROVE IsFiniteSet({i \in S : s[i] = 1})
  <2>1. {i \in S : s[i] = 1} \in SUBSET (1 .. m)
    OBVIOUS
  <2>2. IsFiniteSet(1 .. m)
    BY FS_Interval
  <2>. QED
    BY <2>1, <2>2, FS_Subset
<1>4. g[{}] = b
  <2>1. {i \in {} : s[i] = 1} = {} /\ {} \in SUBSET (1 .. m)
    OBVIOUS
  <2>2. count({}) = 0
    BY <2>1, FS_EmptySet
  <2>. QED
    BY <1>2, <2>1, <2>2
<1>5. ASSUME NEW S \in SUBSET (1 .. m), S # {}, NEW x, x = Max(S)
      PROVE  g[S] = IF g[S \ {x}] # s[x] THEN 1 ELSE 0
  <2>1. x \in S
    BY <1>5, GreatestPosition
  <2>. DEFINE A == {i \in S : s[i] = 1}
              B == {i \in S \ {x} : s[i] = 1}
  <2>2. B = A \ {x}
    OBVIOUS
  <2>3. x \in A <=> s[x] = 1
    BY <2>1
  <2>4. IsFiniteSet(A) /\ Cardinality(A) \in Nat
    BY <1>3, FS_CardinalityType
  <2>5. IsFiniteSet(B) /\ Cardinality(B) \in Nat
    <3>1. S \ {x} \in SUBSET (1 .. m)
      OBVIOUS
    <3>. QED
      BY <1>3, <3>1, FS_CardinalityType
  <2>. HIDE DEF A, B
  <2>6. Cardinality(B) = IF s[x] = 1 THEN Cardinality(A) - 1 ELSE Cardinality(A)
    BY <2>2, <2>3, <2>4, FS_RemoveElement
  <2>7. g[S] = (b + Cardinality(A)) % 2 /\ g[S \ {x}] = (b + Cardinality(B)) % 2
    BY <1>2 DEF A, B
  <2>8. s[x] \in {0, 1}
    BY <1>1, <2>1
  <2>9. ASSUME NEW c \in Nat, NEW d \in Nat, NEW t \in {0, 1}, d = IF t = 1 THEN c - 1 ELSE c
        PROVE  (b + c) % 2 = IF (b + d) % 2 # t THEN 1 ELSE 0
    <3>1. CASE t = 0
      BY <2>9, <3>1
    <3>2. CASE t = 1
      BY <2>9, <3>2
    <3>. QED
      BY <3>1, <3>2
  <2>. HIDE DEF g
  <2>. QED
    BY <2>4, <2>5, <2>6, <2>7, <2>8, <2>9
<1>. HIDE DEF g
<1>6. g = [S \in SUBSET DOMAIN s |-> IF S = {} THEN b
            ELSE LET x == Max(S) IN IF g[S \ {x}] # s[x] THEN 1 ELSE 0]
  <2>1. DOMAIN g = SUBSET DOMAIN s /\ g = [S \in DOMAIN g |-> g[S]]
    BY <1>1, <1>2
  <2>. QED
    BY <1>1, <1>4, <1>5, <2>1
<1>. QED
  BY <1>6 DEF XorEq, g

\* A solution has the closed form on the first positions.
LEMMA SolutionIsParity ==
  ASSUME NEW m \in Nat, NEW s \in AllRows(m), NEW b \in {0, 1}, NEW it, XorEq(it, b, s)
  PROVE  it[DOMAIN s] = Parity(b, s)[DOMAIN s]
<1>. DEFINE g == Parity(b, s)
            Differ == {j \in 0 .. m : it[1 .. j] # g[1 .. j]}
<1>1. DOMAIN s = 1 .. m
  BY DEF AllRows
<1>2. XorEq(g, b, s)
  BY ParitySolves
<1>. HIDE DEF g
<1>3. ASSUME NEW h, XorEq(h, b, s), NEW j \in 0 .. m
      PROVE  h[1 .. j] = IF j = 0 THEN b ELSE IF h[1 .. (j - 1)] # s[j] THEN 1 ELSE 0
  <2>. DEFINE S == 1 .. j
  <2>1. S \in SUBSET DOMAIN s
    BY <1>1
  <2>2. h[S] = IF S = {} THEN b ELSE LET x == Max(S) IN IF h[S \ {x}] # s[x] THEN 1 ELSE 0
    BY <1>3, <2>1 DEF XorEq
  <2>3. CASE j = 0
    BY <2>2, <2>3
  <2>4. CASE j # 0
    <3>1. S # {} /\ Max(S) = j
      <4>1. j \in S /\ S # {} /\ \A y \in S : j >= y
        BY <2>4
      <4>2. \A x \in S : (\A y \in S : x >= y) => x = j
        BY <4>1
      <4>. QED
        BY <4>1, <4>2 DEF Max
    <3>2. S \ {j} = 1 .. (j - 1)
      OBVIOUS
    <3>. HIDE DEF S
    <3>3. h[S] = IF h[1 .. (j - 1)] # s[j] THEN 1 ELSE 0
      BY <2>2, <3>1, <3>2
    <3>. QED
      BY <2>4, <3>3 DEF S
  <2>. QED
    BY <2>3, <2>4
<1>4. ASSUME Differ # {} PROVE FALSE
  <2>0. Differ \in SUBSET Nat
    OBVIOUS
  <2>1. PICK j \in Differ : \A i \in Differ : j <= i
    <3>. HIDE DEF Differ
    <3>. QED
      BY <1>4, <2>0, LeastElement
  <2>2. j \in 0 .. m /\ it[1 .. j] # g[1 .. j]
    OBVIOUS
  <2>3. CASE j = 0
    BY <1>2, <1>3, <2>2, <2>3
  <2>4. CASE j # 0
    <3>1. j - 1 \in 0 .. m /\ j - 1 \notin Differ
      BY <2>1, <2>2, <2>4
    <3>2. it[1 .. (j - 1)] = g[1 .. (j - 1)]
      BY <3>1
    <3>3. /\ it[1 .. j] = IF it[1 .. (j - 1)] # s[j] THEN 1 ELSE 0
          /\ g[1 .. j] = IF g[1 .. (j - 1)] # s[j] THEN 1 ELSE 0
      BY <1>2, <1>3, <2>2, <2>4
    <3>. QED
      BY <2>2, <3>2, <3>3
  <2>. QED
    BY <2>3, <2>4
<1>. QED
  BY <1>1, <1>4 DEF g

\* The fold over a row, starting from b, is the parity of its ones and b.
LEMMA FoldIsParity ==
  ASSUME NEW m \in Nat, NEW s \in AllRows(m), NEW b \in {0, 1}
  PROVE  FoldLeft(LAMBDA k, c : IF k # c THEN 1 ELSE 0, b, s) = (b + Cardinality(Ones(s))) % 2
<1>1. FoldLeft(LAMBDA k, c : IF k # c THEN 1 ELSE 0, b, s) = (CHOOSE it : XorEq(it, b, s))[DOMAIN s]
  BY DEF FoldLeft, MapThenFoldSet, XorEq
<1>2. XorEq(CHOOSE it : XorEq(it, b, s), b, s)
  BY ParitySolves
<1>3. (CHOOSE it : XorEq(it, b, s))[DOMAIN s] = Parity(b, s)[DOMAIN s]
  BY <1>2, SolutionIsParity
<1>. QED
  BY <1>1, <1>3 DEF Parity, Ones

----------------------------------------------------------------------------
(* Gates *)

\* The values at the fanins of n.
In(n) == [i \in DOMAIN nodes[n].fanin |-> value[nodes[n].fanin[i]]]

\* n is a gate the simulator may evaluate: its table was filled after its
\* fanins were read, and these have a value.
Ready(n) ==
  /\ nodes[n] \in Node /\ nodes[n].numVars = Len(nodes[n].fanin)
  /\ \A i \in DOMAIN nodes[n].fanin : value[nodes[n].fanin[i]] \in {0, 1}

\* Types of what follows.
LEMMA ReadyTypes ==
  ASSUME NEW n, Ready(n), NEW k, k = Len(nodes[n].fanin), NEW rows, rows = nodes[n].rows
  PROVE  /\ k \in Nat /\ DOMAIN nodes[n].fanin = 1 .. k /\ In(n) \in AllRows(k)
         /\ Len(rows) \in Nat /\ DOMAIN rows = 1 .. Len(rows)
<1>1. nodes[n].fanin \in Seq(Names) /\ rows \in Seq(Seq({0, 1, 2}))
  BY DEF Ready, Node
<1>2. k \in Nat /\ DOMAIN nodes[n].fanin = 1 .. k /\ Len(rows) \in Nat /\ DOMAIN rows = 1 .. Len(rows)
  BY <1>1
<1>3. In(n) \in AllRows(k)
  BY <1>2 DEF Ready, In, AllRows
<1>. QED
  BY <1>2, <1>3

\* The size of an interval.
LEMMA IntervalSize ==
  ASSUME NEW k \in Nat
  PROVE  IsFiniteSet(1 .. k) /\ Cardinality(1 .. k) = k
BY FS_Interval

\* Without repetition there are as many rows as their set has elements.
LEMMA RowsDistinct ==
  ASSUME NEW S, NEW rows \in Seq(S), NEW m, m = Len(rows), IsInjective(rows)
  PROVE  IsFiniteSet(Range(rows)) /\ Cardinality(Range(rows)) = m
<1>1. rows \in Bijection(1 .. m, Range(rows))
  <2>1. rows = [i \in 1 .. m |-> rows[i]] /\ DOMAIN rows = 1 .. m
    OBVIOUS
  <2>2. rows \in [1 .. m -> Range(rows)] /\ \A t \in Range(rows) : \E i \in 1 .. m : rows[i] = t
    BY <2>1 DEF Range
  <2>. QED
    BY <2>1, <2>2 DEF Bijection, Injection, Surjection, IsInjective
<1>2. ExistsBijection(1 .. m, Range(rows))
  BY <1>1 DEF ExistsBijection
<1>3. IsFiniteSet(1 .. m) /\ Cardinality(1 .. m) = m
  <2>1. m \in Nat
    OBVIOUS
  <2>. QED
    BY <2>1, IntervalSize
<1>. QED
  BY <1>2, <1>3, FS_Bijection

\* A table of full rows is one on just these.
LEMMA TableOfRows ==
  ASSUME NEW n, Ready(n), NEW k, k = Len(nodes[n].fanin), Range(nodes[n].rows) \subseteq AllRows(k)
  PROVE  TableValue(n) = IF In(n) \in Range(nodes[n].rows) THEN 1 ELSE 0
<1>. DEFINE rows == nodes[n].rows
            Agrees(i) == \A j \in DOMAIN nodes[n].fanin : rows[i][j] \in {2, value[nodes[n].fanin[j]]}
<1>1. /\ k \in Nat /\ DOMAIN nodes[n].fanin = 1 .. k /\ In(n) \in AllRows(k)
      /\ \A i \in DOMAIN rows : rows[i] \in AllRows(k)
  BY ReadyTypes DEF Range
<1>2. ASSUME NEW i \in DOMAIN rows PROVE Agrees(i) <=> rows[i] = In(n)
  <2>1. /\ rows[i] \in [1 .. k -> {0, 1}] /\ In(n) \in [1 .. k -> {0, 1}]
        /\ \A j \in 1 .. k : In(n)[j] = value[nodes[n].fanin[j]]
    BY <1>1 DEF AllRows, In
  <2>2. Agrees(i) <=> \A j \in 1 .. k : rows[i][j] = In(n)[j]
    <3>1. \A j \in 1 .. k : rows[i][j] # 2
      BY <2>1
    <3>. QED
      BY <1>1, <2>1, <3>1
  <2>3. rows[i] = In(n) <=> \A j \in 1 .. k : rows[i][j] = In(n)[j]
    BY <2>1
  <2>. QED
    BY <2>2, <2>3
<1>3. (\E i \in DOMAIN rows : Agrees(i)) <=> In(n) \in Range(rows)
  BY <1>2 DEF Range
<1>. QED
  BY <1>3 DEF TableValue

\* The ones of a row are those of its first position and of the rest.
LEMMA OnesShift ==
  ASSUME NEW k \in Nat, k > 1, NEW r \in AllRows(k), NEW b, b = r[1],
         NEW s, s = [i \in 1 .. (k - 1) |-> r[i + 1]]
  PROVE  Cardinality(Ones(r)) = b + Cardinality(Ones(s))
<1>. DEFINE R == Ones(r) \ {1}
            f == [i \in Ones(s) |-> i + 1]
<1>1. r \in [1 .. k -> {0, 1}] /\ k - 1 \in Nat /\ s \in AllRows(k - 1)
  BY DEF AllRows
<1>2. /\ Ones(r) = {i \in 1 .. k : r[i] = 1} /\ IsFiniteSet(Ones(r)) /\ Cardinality(Ones(r)) \in Nat
      /\ Ones(s) = {i \in 1 .. (k - 1) : r[i + 1] = 1} /\ IsFiniteSet(Ones(s))
      /\ Cardinality(Ones(s)) \in Nat
  <2>1. Ones(r) = {i \in 1 .. k : r[i] = 1} /\ IsFiniteSet(Ones(r)) /\ Cardinality(Ones(r)) \in Nat
    BY OnesOf
  <2>2. Ones(s) = {i \in 1 .. (k - 1) : s[i] = 1} /\ IsFiniteSet(Ones(s)) /\ Cardinality(Ones(s)) \in Nat
    BY <1>1, OnesOf
  <2>3. \A i \in 1 .. (k - 1) : s[i] = r[i + 1]
    OBVIOUS
  <2>. QED
    BY <2>1, <2>2, <2>3
<1>3. f \in [Ones(s) -> R]
  <2>1. \A i \in Ones(s) : i + 1 \in 1 .. k /\ r[i + 1] = 1 /\ i + 1 # 1
    BY <1>2
  <2>. QED
    BY <1>2, <2>1
<1>4. \A i, j \in Ones(s) : f[i] = f[j] => i = j
  BY <1>2
<1>5. \A i \in R : \E j \in Ones(s) : f[j] = i
  <2>. SUFFICES ASSUME NEW i \in R PROVE \E j \in Ones(s) : f[j] = i
    OBVIOUS
  <2>1. i \in 2 .. k /\ r[i] = 1
    BY <1>2
  <2>2. i - 1 \in 1 .. (k - 1) /\ (i - 1) + 1 = i
    BY <2>1
  <2>3. i - 1 \in Ones(s)
    BY <1>2, <2>1, <2>2
  <2>4. f[i - 1] = i
    BY <2>2, <2>3
  <2>. QED
    BY <2>3, <2>4
<1>6. IsFiniteSet(R) /\ Cardinality(R) = IF 1 \in Ones(r) THEN Cardinality(Ones(r)) - 1
                                         ELSE Cardinality(Ones(r))
  BY <1>2, FS_RemoveElement
<1>. HIDE DEF f, R
<1>7. ExistsBijection(Ones(s), R)
  BY <1>3, <1>4, <1>5 DEF ExistsBijection, Bijection, Injection, IsInjective, Surjection
<1>8. Cardinality(R) = Cardinality(Ones(s))
  BY <1>2, <1>7, FS_Bijection
<1>9. (1 \in Ones(r) <=> b = 1) /\ b \in {0, 1}
  BY <1>1, <1>2
<1>. QED
  BY <1>2, <1>6, <1>8, <1>9

\* Whatever an and, an or, an xor or an inverter is given, get_type recognizes
\* it and the switch computes its table.
LEMMA KnownGateRight ==
  ASSUME NEW n, Ready(n), KnownGate(n)
  PROVE  Evaluated(n) = TableValue(n)
<1>. SUFFICES ASSUME NEW k, k = Len(nodes[n].fanin), NEW rows, rows = nodes[n].rows,
                     NEW in, in = In(n)
              PROVE  Evaluated(n) = TableValue(n)
  OBVIOUS
<1>1. /\ k \in Nat /\ DOMAIN nodes[n].fanin = 1 .. k /\ in \in AllRows(k)
      /\ Len(rows) \in Nat /\ DOMAIN rows = 1 .. Len(rows)
  BY ReadyTypes
<1>2. IsInjective(rows)
  BY DEF KnownGate
<1>3. Cardinality(Range(rows)) = Len(rows)
  <2>1. rows \in Seq(Seq({0, 1, 2}))
    BY DEF Ready, Node
  <2>. QED
    BY <1>2, <2>1, RowsDistinct
<1>4. in \in [1 .. k -> {0, 1}] /\ nodes[n].numVars = k
  BY <1>1 DEF AllRows, Ready
<1>12. k > 1 => k # 1
  <2>1. ASSUME NEW j \in Nat PROVE j > 1 => j # 1
    OBVIOUS
  <2>2. k \in Nat
    BY <1>1
  <2>. QED
    BY <2>1, <2>2
<1>11. PICK N : N = 2 ^ k
  OBVIOUS
<1>9. GateType(n) = IF k = 1 THEN "not"
                    ELSE IF Len(rows) = 1 THEN "and"
                    ELSE IF Len(rows) = N - 1 THEN "or"
                    ELSE IF 2 * Len(rows) = N THEN "xor" ELSE "unknown"
  BY <1>11, <1>4 DEF GateType
<1>10. ASSUME k > 1
       PROVE  /\ Range(rows) = AndRows(k) => Len(rows) = 1
              /\ Range(rows) = OrRows(k) => Len(rows) # 1 /\ Len(rows) = N - 1
              /\ Range(rows) = XorRows(k) => /\ Len(rows) # 1 /\ Len(rows) # N - 1
                                             /\ 2 * Len(rows) = N
  BY <1>1, <1>11, <1>3, <1>10, CountsDiffer
<1>5. CASE k = 1 /\ Range(rows) = NotRows
  <2>1. GateType(n) = "not"
    BY <1>4, <1>5 DEF GateType
  <2>2. Evaluated(n) = IF in[1] # 1 THEN 1 ELSE 0
    BY <2>1 DEF Evaluated, In
  <2>3. <<0>> \in AllRows(1)
    BY DEF AllRows
  <2>4. TableValue(n) = IF in = <<0>> THEN 1 ELSE 0
    BY <1>5, <2>3, TableOfRows DEF NotRows
  <2>5. in = <<0>> <=> in[1] = 0
    BY <1>4, <1>5
  <2>6. in[1] \in {0, 1}
    BY <1>4, <1>5
  <2>. QED
    BY <2>2, <2>4, <2>5, <2>6
<1>6. CASE k > 1 /\ Range(rows) = AndRows(k)
  <2>1. GateType(n) = "and"
    <3>1. k # 1
      BY <1>6, <1>12
    <3>2. Len(rows) = 1
      BY <1>6, <1>10
    <3>. QED
      BY <3>1, <3>2, <1>9
  <2>2. Evaluated(n) = IF 0 \notin Range(in) THEN 1 ELSE 0
    BY <2>1 DEF Evaluated, In
  <2>3. AndRows(k) = {r \in AllRows(k) : 0 \notin Range(r)}
    BY DEF AndRows, Minterms, AllRows
  <2>4. TableValue(n) = IF in \in AndRows(k) THEN 1 ELSE 0
    BY <1>6, <2>3, TableOfRows
  <2>. QED
    BY <1>1, <2>2, <2>3, <2>4
<1>7. CASE k > 1 /\ Range(rows) = OrRows(k)
  <2>1. GateType(n) = "or"
    <3>1. k # 1
      BY <1>7, <1>12
    <3>2. Len(rows) # 1 /\ Len(rows) = N - 1
      BY <1>7, <1>10
    <3>. QED
      BY <3>1, <3>2, <1>9
  <2>2. Evaluated(n) = IF 1 \in Range(in) THEN 1 ELSE 0
    BY <2>1 DEF Evaluated, In
  <2>3. OrRows(k) = {r \in AllRows(k) : 1 \in Range(r)}
    BY DEF OrRows, Minterms, AllRows
  <2>4. TableValue(n) = IF in \in OrRows(k) THEN 1 ELSE 0
    BY <1>7, <2>3, TableOfRows
  <2>. QED
    BY <1>1, <2>2, <2>3, <2>4
<1>8. CASE k > 1 /\ Range(rows) = XorRows(k)
  <2>1. GateType(n) = "xor"
    <3>1. k # 1
      BY <1>8, <1>12
    <3>2. Len(rows) # 1 /\ Len(rows) # N - 1 /\ 2 * Len(rows) = N
      BY <1>8, <1>10
    <3>. QED
      BY <3>1, <3>2, <1>9
  <2>. DEFINE b == Head(in)
              s == Tail(in)
  <2>2. Evaluated(n) = FoldLeft(LAMBDA x, c : IF x # c THEN 1 ELSE 0, b, s)
    BY <2>1 DEF Evaluated, In, FoldLeft, MapThenFoldSet
  <2>3. in \in Seq({0, 1}) /\ Len(in) = k
    BY <1>4
  <2>11. b = in[1] /\ 1 \in 1 .. k
    BY <1>4, <1>8, <2>3
  <2>12. s = [i \in 1 .. (k - 1) |-> in[i + 1]]
    <3>1. /\ s \in Seq({0, 1}) /\ Len(s) = k - 1
          /\ \A i \in 1 .. (k - 1) : s[i] = in[i + 1]
      <4>1. in # <<>>
        BY <1>8, <2>3
      <4>. HIDE DEF s
      <4>2. s = Tail(in)
        BY DEF s
      <4>. QED
        BY <2>3, <4>1, <4>2, HeadTailProperties
    <3>. HIDE DEF s
    <3>. QED
      BY <3>1
  <2>4. b = in[1] /\ b \in {0, 1} /\ s = [i \in 1 .. (k - 1) |-> in[i + 1]]
    BY <1>4, <2>11, <2>12
  <2>5. k - 1 \in Nat /\ s \in AllRows(k - 1)
    <3>1. k - 1 \in Nat
      BY <1>1, <1>8
    <3>2. \A i \in 1 .. (k - 1) : in[i + 1] \in {0, 1}
      <4>1. \A i \in 1 .. (k - 1) : i + 1 \in 1 .. k
        BY <1>1
      <4>. QED
        BY <1>4, <4>1
    <3>. HIDE DEF s
    <3>. QED
      BY <2>4, <3>1, <3>2 DEF AllRows
  <2>. HIDE DEF b, s
  <2>6. Evaluated(n) = (b + Cardinality(Ones(s))) % 2
    BY <2>2, <2>4, <2>5, FoldIsParity
  <2>7. Cardinality(Ones(in)) = b + Cardinality(Ones(s))
    BY <1>1, <1>8, <2>4, OnesShift
  <2>8. Cardinality(Ones(in)) \in Nat
    BY <1>1, OnesOf
  <2>9. XorRows(k) = {r \in AllRows(k) : Odd(r)}
    BY <1>1, <1>8, XorCount
  <2>10. TableValue(n) = IF Odd(in) THEN 1 ELSE 0
    BY <1>1, <1>8, <2>9, TableOfRows
  <2>. QED
    BY <2>6, <2>7, <2>8, <2>10 DEF Odd
<1>. QED
  BY <1>5, <1>6, <1>7, <1>8 DEF KnownGate

----------------------------------------------------------------------------
(* The invariant *)

TopoPhases == ReadPhases \cup {"seed", "sort", "sorted"}
SimPhases  == {"inputs", "reported"}

\* A node with fanins knows their number, once they have been read.
TableInv ==
  \A n \in DOMAIN nodes :
    (phase = "fanins" => n # gate.out) /\ nodes[n].fanin # <<>>
      => nodes[n].numVars = Len(nodes[n].fanin)

\* The order starts with the inputs.
InputsFirst ==
  /\ Inputs \subseteq Range(order) /\ Cardinality(Inputs) \in 0 .. Len(order)
  /\ \A i \in DOMAIN order : order[i] \in Inputs <=> i <= Cardinality(Inputs)
SeededInv ==
  /\ phase = "seed" => Range(order) \subseteq Inputs
  /\ phase \in {"sort", "sorted"} \cup SimPhases /\ InputsUndriven => InputsFirst

\* What the simulator finds.
SortedGraph ==
  /\ nodes \in [DOMAIN nodes -> Node] /\ order \in Seq(DOMAIN nodes)
  /\ AfterFanins /\ OnceOnly

\* The circuits and input files SimulationRight is about.
Simulable ==
  InputsUndriven /\ Exact(stim) /\ \A n \in Range(order) \ Inputs : KnownGate(n)

\* What has been passed has its value.
NodeRight(n) ==
  IF n \in Inputs THEN <<n, value[n]>> \in Range(stim) ELSE value[n] = TableValue(n)
ValueInv ==
  /\ value = [n \in DOMAIN nodes |-> value[n]]
  /\ stim \in Seq(Names \X {0, 1}) /\ pos \in Nat \ {0}
  /\ phase = "reported" => pos > Len(order)
  /\ Simulable => \A i \in DOMAIN order : i < pos => NodeRight(order[i])

SimInv ==
  /\ phase \in TopoPhases \cup SimPhases \cup {"crashed", "endless"}
  /\ phase \in TopoPhases => TopoInv /\ pos = 1
  /\ TableInv /\ SeededInv
  /\ phase \in SimPhases => SortedGraph /\ ValueInv

----------------------------------------------------------------------------
(* Reading and sorting *)

\* The number of variables, when a node is put into a map of finished ones.
LEMMA TableWith ==
  ASSUME TableInv, NEW n, NEW m, nodes' = WithNode(n, m), phase = "fanins" => n = gate.out,
         m.fanin # <<>> => m.numVars = Len(m.fanin)
  PROVE  TableInv'
<1>1. /\ DOMAIN nodes' = DOMAIN nodes \cup {n} /\ nodes'[n] = m
      /\ \A k \in DOMAIN nodes \ {n} : nodes'[k] = nodes[k]
  BY DEF WithNode
<1>. QED
  BY <1>1 DEF TableInv

\* A statement either empties the fanin of its node or counts it in the end.
LEMMA ReadTables ==
  ASSUME TopoInv, TableInv, Read
  PROVE  TableInv'
<1>1. CASE ReadHeader
  <2>1. PICK h \in Headers : \E last \in [h.inputs \cap h.outputs -> {"input", "output"}] :
          nodes' = [n \in h.inputs \cup h.outputs |->
                      [NewNode EXCEPT !.type = IF n \in DOMAIN last THEN last[n]
                                               ELSE IF n \in h.inputs THEN "input" ELSE "output"]]
    BY <1>1 DEF ReadHeader
  <2>2. \A t : [NewNode EXCEPT !.type = t].fanin = <<>>
    BY DEF NewNode
  <2>. QED
    BY <2>1, <2>2 DEF TableInv
<1>2. ASSUME NEW n \in Names, NEW type \in {"zero", "one"}, ReadConstant(n, type) PROVE TableInv'
  <2>. DEFINE m == [Redefined(n) EXCEPT !.type = type]
  <2>1. m.fanin = <<>>
    <3>1. Redefined(n) \in Node /\ Redefined(n).fanin = <<>>
      BY NodeOfType DEF TopoInv
    <3>. QED
      BY <3>1 DEF Node
  <2>2. nodes' = WithNode(n, m) /\ phase = "names"
    BY <1>2 DEF ReadConstant
  <2>. HIDE DEF m
  <2>. QED
    BY <2>1, <2>2, TableWith
<1>3. ASSUME NEW n \in Names, ReadNames(n) PROVE TableInv'
  <2>1. Redefined(n).fanin = <<>>
    BY NodeOfType DEF TopoInv
  <2>2. nodes' = WithNode(n, Redefined(n)) /\ phase = "names"
    BY <1>3 DEF ReadNames
  <2>. QED
    BY <2>1, <2>2, TableWith
<1>4. CASE AddFanin
  <2>. DEFINE v == Head(gate.left)
              out == gate.out
              counted == WithNode(out, [nodes[out] EXCEPT !.fanin = Append(nodes[out].fanin, v),
                                                          !.faninNum = nodes[out].faninNum + 1])
              input == IF v = out THEN counted[out] ELSE NodeOf(v)
  <2>1. /\ phase = "fanins" /\ phase' = phase /\ gate'.out = gate.out
        /\ nodes' = [m \in DOMAIN nodes \cup {v} |->
                       IF m = v THEN [input EXCEPT !.fanout = Linked(input.fanout, out)]
                       ELSE counted[m]]
    <3>1. gate \in [out : Int, left : Seq(Names), table : Seq(Seq({0, 1, 2}))]
      BY DEF TopoInv, ReaderInv
    <3>. QED
      BY <1>4, <3>1 DEF AddFanin
  <2>2. \A m \in DOMAIN nodes' \ {out} : nodes'[m].fanin = NodeOf(m).fanin
                                      /\ nodes'[m].numVars = NodeOf(m).numVars
    <3>. SUFFICES ASSUME NEW m \in DOMAIN nodes' \ {out}
                  PROVE  nodes'[m].fanin = NodeOf(m).fanin /\ nodes'[m].numVars = NodeOf(m).numVars
      OBVIOUS
    <3>1. NodeOf(m) \in Node
      BY NodeOfType DEF TopoInv
    <3>2. CASE m = v
      <4>1. nodes'[m] = [NodeOf(m) EXCEPT !.fanout = Linked(NodeOf(m).fanout, out)]
        BY <2>1, <3>2
      <4>. QED
        BY <3>1, <4>1 DEF Node
    <3>3. CASE m # v
      <4>1. m \in DOMAIN nodes /\ nodes'[m] = counted[m]
        BY <2>1, <3>3
      <4>2. counted[m] = nodes[m]
        BY <4>1 DEF WithNode
      <4>. QED
        BY <4>1, <4>2 DEF NodeOf
    <3>. QED
      BY <3>2, <3>3
  <2>3. \A m : m # out /\ NodeOf(m).fanin # <<>> => NodeOf(m).numVars = Len(NodeOf(m).fanin)
    BY <2>1 DEF NodeOf, NewNode, TableInv
  <2>4. \A m \in DOMAIN nodes' \ {out} : nodes'[m].fanin # <<>>
                                      => nodes'[m].numVars = Len(nodes'[m].fanin)
    <3>. HIDE DEF out
    <3>. QED
      BY <2>2, <2>3
  <2>5. phase' = "fanins" /\ gate'.out = out
    BY <2>1
  <2>. HIDE DEF v, counted, input, out
  <2>. QED
    BY <2>4, <2>5 DEF TableInv
<1>5. ASSUME NEW rows, Filled(rows) PROVE TableInv'
  <2>. DEFINE m == [nodes[gate.out] EXCEPT !.rows = rows, !.numVars = Len(nodes[gate.out].fanin)]
  <2>1. nodes' = WithNode(gate.out, m) /\ phase = "fanins"
    BY <1>5 DEF Filled
  <2>2. nodes[gate.out] \in Node
    BY <2>1 DEF TopoInv, ReaderInv, GraphInv
  <2>3. m.numVars = Len(m.fanin)
    BY <2>2 DEF Node
  <2>. HIDE DEF m
  <2>. QED
    BY <2>1, <2>3, TableWith
<1>6. CASE EndFile
  BY <1>6 DEF EndFile, TableInv
<1>. QED
  BY <1>1, <1>2, <1>3, <1>4, <1>5, <1>6 DEF Read, ReadTable, ReadBadRow

\* The sort changes no table and no fanin, and no type.
LEMMA SortKeepsTables ==
  ASSUME TopoInv, Sort
  PROVE  /\ DOMAIN nodes' = DOMAIN nodes /\ driven' = driven
         /\ \A n \in DOMAIN nodes : /\ nodes'[n].fanin = nodes[n].fanin
                                    /\ nodes'[n].numVars = nodes[n].numVars
                                    /\ nodes'[n].type = nodes[n].type
<1>1. CASE MarkFanout
  <2>1. PICK n : nodes' = [nodes EXCEPT ![n].faninNum = nodes[n].faninNum - 1] /\ driven' = driven
    BY <1>1 DEF MarkFanout
  <2>2. nodes \in [DOMAIN nodes -> Node]
    BY DEF TopoInv, GraphInv
  <2>. QED
    BY <2>1, <2>2 DEF Node
<1>2. CASE SeedInput \/ StartSort \/ NextVisit \/ EndSort
  BY <1>2 DEF SeedInput, StartSort, NextVisit, EndSort, readerVars
<1>. QED
  BY <1>1, <1>2 DEF Sort

LEMMA SortTables ==
  ASSUME TopoInv, TableInv, Sort
  PROVE  TableInv'
<1>1. phase # "fanins" /\ phase' # "fanins"
  BY DEF Sort, SeedInput, StartSort, MarkFanout, NextVisit, EndSort, readerVars
<1>. QED
  BY <1>1, SortKeepsTables DEF TableInv

\* Inputs are seeded first, and no gate that is appended later is one.
LEMMA ReadSeeds ==
  ASSUME TopoInv, Read, UNCHANGED sortVars
  PROVE  SeededInv'
<1>1. phase \in ReadPhases /\ phase' \in ReadPhases \cup {"seed"}
  BY DEF Read, ReadHeader, ReadNames, ReadConstant, AddFanin, ReadTable, ReadBadRow, Filled,
         EndFile, ReadPhases
<1>2. order' = <<>>
  BY <1>1 DEF TopoInv, PositionInv, sortVars
<1>3. Range(order') = {}
  BY <1>2, EmptySequence
<1>. QED
  BY <1>1, <1>3 DEF SeededInv, ReadPhases, SimPhases

LEMMA SortSeeds ==
  ASSUME TopoInv, TopoInv', SeededInv, Sort
  PROVE  SeededInv'
<1>1. /\ Inputs' = Inputs /\ InputsUndriven' = InputsUndriven
      /\ order \in Seq(DOMAIN nodes) /\ Len(order) \in Nat /\ DOMAIN order = 1 .. Len(order)
  <2>1. Inputs' = Inputs
    BY SortKeepsTables DEF Inputs
  <2>2. InputsUndriven' = InputsUndriven
    BY <2>1, SortKeepsTables DEF InputsUndriven
  <2>. QED
    BY <2>1, <2>2 DEF TopoInv, PositionInv
<1>2. CASE SeedInput
  <2>1. /\ phase = "seed" /\ phase' = "seed"
        /\ order' = Append(order, Min(Inputs \ Range(order)))
    BY <1>2 DEF SeedInput, readerVars
  <2>2. Min(Inputs \ Range(order)) \in Inputs
    <3>1. Inputs \ Range(order) \in SUBSET Nat
      BY NamesAssumption DEF TopoInv, GraphInv, Inputs
    <3>. QED
      BY <1>2, <3>1, LeastName DEF SeedInput
  <2>3. Range(order') = Range(order) \cup {Min(Inputs \ Range(order))}
    BY <1>1, <2>1, AppendElement
  <2>. QED
    BY <1>1, <2>1, <2>2, <2>3 DEF SeededInv, SimPhases
<1>3. CASE StartSort
  <2>1. phase = "seed" /\ phase' = "sort" /\ order' = order /\ Inputs \subseteq Range(order)
    BY <1>3 DEF StartSort, sortVars
  <2>2. Range(order) = Inputs
    BY <2>1 DEF SeededInv
  <2>3. ASSUME InputsUndriven PROVE InputsFirst'
    <3>1. IsInjective(order)
      BY <2>3 DEF TopoInv, OnceOnly
    <3>2. Cardinality(Inputs) = Len(order)
      BY <1>1, <2>2, <3>1, RowsDistinct
    <3>3. \A i \in DOMAIN order : order[i] \in Inputs
      BY <2>2 DEF Range
    <3>. QED
      BY <1>1, <2>1, <3>2, <3>3 DEF InputsFirst
  <2>. QED
    BY <1>1, <2>1, <2>3 DEF SeededInv
<1>4. CASE MarkFanout
  <2>1. phase = "sort" /\ phase' = "sort"
    BY <1>4 DEF MarkFanout
  <2>2. PICK n : order' = order \/ order' = Append(order, n)
    BY <1>4 DEF MarkFanout
  <2>3. ASSUME InputsUndriven, order' = Append(order, n) PROVE InputsFirst'
    <3>1. InputsFirst
      BY <2>1, <2>3 DEF SeededInv
    <3>2. /\ DOMAIN order' = 1 .. (Len(order) + 1) /\ Len(order') = Len(order) + 1
          /\ \A i \in 1 .. Len(order) : order'[i] = order[i]
          /\ order'[Len(order) + 1] = n /\ Range(order') = Range(order) \cup {n}
      BY <1>1, <2>3, AppendElement
    <3>3. IsInjective(order')
      BY <1>1, <2>3 DEF TopoInv, OnceOnly
    <3>4. n \notin Range(order)
      BY <1>1, <3>2, <3>3 DEF IsInjective, Range
    <3>5. n \notin Inputs
      BY <3>1, <3>4 DEF InputsFirst
    <3>6. Cardinality(Inputs) \in 0 .. (Len(order) + 1)
      BY <1>1, <3>1 DEF InputsFirst
    <3>7. \A i \in 1 .. (Len(order) + 1) : order'[i] \in Inputs <=> i <= Cardinality(Inputs)
      <4>1. \A i \in 1 .. (Len(order) + 1) : i \in 1 .. Len(order) \/ i = Len(order) + 1
        BY <1>1
      <4>2. ~(Len(order) + 1 <= Cardinality(Inputs))
        BY <1>1, <3>1 DEF InputsFirst
      <4>. QED
        BY <1>1, <3>1, <3>2, <3>5, <4>1, <4>2 DEF InputsFirst
    <3>. QED
      BY <1>1, <3>1, <3>2, <3>6, <3>7 DEF InputsFirst
  <2>4. ASSUME InputsUndriven, order' = order PROVE InputsFirst'
    BY <1>1, <2>1, <2>4 DEF SeededInv, InputsFirst
  <2>. QED
    BY <1>1, <2>1, <2>2, <2>3, <2>4 DEF SeededInv
<1>5. CASE NextVisit \/ EndSort
  <2>1. phase = "sort" /\ phase' \in {"sort", "sorted"} /\ order' = order
    BY <1>5 DEF NextVisit, EndSort, readerVars, sortVars
  <2>. QED
    BY <1>1, <2>1 DEF SeededInv, InputsFirst
<1>. QED
  BY <1>2, <1>3, <1>4, <1>5 DEF Sort

----------------------------------------------------------------------------
(* Simulation *)

\* Tables have values of one bit.
LEMMA TableBit == \A n : TableValue(n) \in {0, 1}
BY DEF TableValue

\* A node that has been passed has a bit.
LEMMA PassedBit ==
  ASSUME stim \in Seq(Names \X {0, 1}), NEW n, NodeRight(n)
  PROVE  value[n] \in {0, 1}
<1>1. CASE n \in Inputs
  <2>1. PICK j \in DOMAIN stim : stim[j] = <<n, value[n]>>
    BY <1>1 DEF NodeRight, Range
  <2>2. stim[j] \in Names \X {0, 1}
    BY <2>1
  <2>. QED
    BY <2>1, <2>2
<1>2. CASE n \notin Inputs
  BY <1>2, TableBit DEF NodeRight
<1>. QED
  BY <1>1, <1>2

\* A step that sets the value of one node of the order, and sets it right,
\* leaves those before it right: it is none of them, nor a fanin of any.
LEMMA SetOne ==
  ASSUME SortedGraph, InputsUndriven, value = [n \in DOMAIN nodes |-> value[n]],
         NEW p \in DOMAIN order, NEW x, value' = [value EXCEPT ![order[p]] = x],
         UNCHANGED <<nodes, order, stim>>
  PROVE  /\ value' = [n \in DOMAIN nodes' |-> value'[n]]
         /\ value'[order[p]] = x
         /\ \A i \in DOMAIN order : i <= p => TableValue(order[i])' = TableValue(order[i])
         /\ \A i \in DOMAIN order : i < p /\ NodeRight(order[i]) => NodeRight(order[i])'
<1>1. order \in Seq(DOMAIN nodes) /\ DOMAIN order = 1 .. Len(order) /\ Len(order) \in Nat
  BY DEF SortedGraph
<1>2. \A i \in DOMAIN order : order[i] \in DOMAIN nodes
  BY <1>1
<1>3. /\ value' = [n \in DOMAIN nodes' |-> value'[n]] /\ value'[order[p]] = x
      /\ \A n \in DOMAIN nodes : n # order[p] => value'[n] = value[n]
  BY <1>2
<1>4. \A i \in DOMAIN order : i < p => value'[order[i]] = value[order[i]]
  <2>. SUFFICES ASSUME NEW i \in DOMAIN order, i < p PROVE value'[order[i]] = value[order[i]]
    OBVIOUS
  <2>1. order[i] # order[p]
    BY <1>1 DEF SortedGraph, OnceOnly, IsInjective
  <2>. QED
    BY <1>2, <1>3, <2>1
<1>5. ASSUME NEW i \in DOMAIN order, i <= p PROVE TableValue(order[i])' = TableValue(order[i])
  <2>1. \A f \in Range(nodes[order[i]].fanin) : value'[f] = value[f]
    <3>. SUFFICES ASSUME NEW f \in Range(nodes[order[i]].fanin) PROVE value'[f] = value[f]
      OBVIOUS
    <3>1. PICK j \in 1 .. (i - 1) : order[j] = f
      BY DEF SortedGraph, AfterFanins
    <3>2. j \in DOMAIN order /\ j < p
      BY <1>1, <1>5, <3>1
    <3>. QED
      BY <1>4, <3>1, <3>2
  <2>2. \A j \in DOMAIN nodes[order[i]].fanin :
          value'[nodes[order[i]].fanin[j]] = value[nodes[order[i]].fanin[j]]
    BY <2>1 DEF Range
  <2>. QED
    BY <2>2 DEF TableValue
<1>6. ASSUME NEW i \in DOMAIN order, i < p, NodeRight(order[i]) PROVE NodeRight(order[i])'
  <2>1. TableValue(order[i])' = TableValue(order[i])
    BY <1>1, <1>5, <1>6
  <2>2. value'[order[i]] = value[order[i]]
    BY <1>4, <1>6
  <2>. QED
    BY <1>6, <2>1, <2>2 DEF NodeRight, Inputs
<1>. QED
  BY <1>3, <1>5, <1>6

\* The hypotheses of SimulationRight are about the circuit and the input file.
LEMMA GivenStays ==
  ASSUME UNCHANGED <<nodes, driven, order, stim>>
  PROVE  /\ Inputs' = Inputs /\ InputsUndriven' = InputsUndriven /\ Simulable' = Simulable
         /\ InputsFirst' = InputsFirst /\ SortedGraph' = SortedGraph
         /\ \A n : NodeRight(n)' = (IF n \in Inputs THEN <<n, value'[n]>> \in Range(stim)
                                    ELSE value'[n] = TableValue(n)')
BY DEF Inputs, InputsUndriven, Simulable, Exact, KnownGate, InputsFirst, SortedGraph,
       AfterFanins, OnceOnly, NodeRight

\* The files that may be given, and what is kept of them.
LEMMA KeptPairs ==
  ASSUME NEW S, NEW s \in Seq(S), s # <<>>
  PROVE  Front(s) \in Seq(S)
<1>1. Len(s) \in Nat \ {0} /\ \A i \in 1 .. (Len(s) - 1) : s[i] \in S
  OBVIOUS
<1>. QED
  BY <1>1, SubSeqProperties DEF Front

LEMMA OpenGood ==
  ASSUME SimInv, OpenStimulus
  PROVE  SimInv'
<1>1. /\ phase = "sorted" /\ phase' = "inputs" /\ UNCHANGED <<nodes, gate, driven, twice, order, pos>>
      /\ TopoInv /\ pos = 1 /\ TableInv /\ SeededInv
  BY DEF OpenStimulus, SimInv, TopoPhases, sortVars
<1>2. stim' \in Seq(Names \X {0, 1})
  <2>1. PICK s \in Stimuli, newline \in BOOLEAN : stim' = IF newline \/ s = <<>> THEN s ELSE Front(s)
    BY DEF OpenStimulus
  <2>2. s \in Seq(Names \X {0, 1})
    BY StimuliAssumption
  <2>. QED
    BY <2>1, <2>2, KeptPairs
<1>3. value' = [n \in DOMAIN nodes' |-> value'[n]]
  BY <1>1 DEF OpenStimulus
<1>4. SortedGraph
  BY <1>1 DEF TopoInv, GraphInv, PositionInv, SortedGraph
<1>5. SortedGraph' /\ InputsUndriven' = InputsUndriven /\ InputsFirst' = InputsFirst
  BY <1>1, <1>4 DEF SortedGraph, AfterFanins, OnceOnly, InputsUndriven, InputsFirst, Inputs
<1>6. ValueInv'
  <2>1. \A i \in DOMAIN order' : ~(i < pos')
    BY <1>1, <1>4 DEF SortedGraph
  <2>. QED
    BY <1>1, <1>2, <1>3, <2>1 DEF ValueInv
<1>7. TableInv' /\ SeededInv'
  BY <1>1, <1>5 DEF TableInv, SeededInv
<1>. QED
  BY <1>1, <1>5, <1>6, <1>7 DEF SimInv, SimPhases, TopoPhases, ReadPhases

\* What is left alone while the values are set.
LEMMA SimKept ==
  ASSUME SimInv, phase = "inputs", phase' = "inputs",
         UNCHANGED <<nodes, gate, driven, twice, order, stim>>, ValueInv'
  PROVE  SimInv'
<1>1. TableInv /\ SeededInv /\ SortedGraph
  BY DEF SimInv, SimPhases
<1>2. TableInv' /\ SeededInv' /\ SortedGraph'
  BY <1>1, GivenStays DEF TableInv, SeededInv
<1>. QED
  BY <1>2 DEF SimInv, SimPhases, TopoPhases, ReadPhases

\* The value of an input is that of the last pair for it.
LEMMA SetInputGood ==
  ASSUME SimInv, SetInput
  PROVE  SimInv'
<1>. SUFFICES ASSUME NEW p, p = pos, NEW n, n = order[pos] PROVE SimInv'
  OBVIOUS
<1>1. /\ phase = "inputs" /\ pos <= Len(stim) /\ pos <= Len(order) /\ pos' = pos + 1
      /\ UNCHANGED <<phase, nodes, gate, driven, twice, order, stim>>
  BY DEF SetInput, readerVars, sortVars
<1>2. SortedGraph /\ ValueInv /\ SeededInv
  BY <1>1 DEF SimInv, SimPhases
<1>3. /\ pos \in DOMAIN order /\ pos \in Nat \ {0} /\ DOMAIN order = 1 .. Len(order)
      /\ Len(stim) \in Nat /\ DOMAIN stim = 1 .. Len(stim) /\ n \in DOMAIN nodes
      /\ value = [m \in DOMAIN nodes |-> value[m]]
  BY <1>1, <1>2 DEF SortedGraph, ValueInv
<1>4. value' = [m \in DOMAIN nodes' |-> value'[m]]
  BY <1>1, <1>3 DEF SetInput
<1>5. ASSUME Simulable PROVE \A i \in DOMAIN order : i < p + 1 => NodeRight(order[i])'
  <2>1. InputsUndriven /\ Exact(stim) /\ InputsFirst
    BY <1>1, <1>2, <1>5 DEF Simulable, SeededInv, SimPhases
  <2>2. n \in Inputs
    BY <1>1, <1>3, <2>1 DEF Exact, InputsFirst
  <2>. DEFINE S == {j \in DOMAIN stim : stim[j][1] = n}
  <2>3. S # {}
    BY <2>1, <2>2 DEF Exact
  <2>4. LastFor(n) \in S
    <3>1. LastFor(n) = Max(S)
      BY DEF LastFor
    <3>2. S \in SUBSET (1 .. Len(stim))
      BY <1>3
    <3>. HIDE DEF S
    <3>. QED
      BY <1>3, <2>3, <3>1, <3>2, GreatestPosition
  <2>5. PICK j \in DOMAIN stim : j = LastFor(n) /\ stim[j][1] = n
    BY <2>4
  <2>6. value' = [value EXCEPT ![n] = stim[j][2]]
    BY <2>5 DEF SetInput
  <2>7. stim[j] = <<n, stim[j][2]>>
    <3>1. stim[j] \in Names \X {0, 1}
      BY <1>2, <1>3 DEF ValueInv
    <3>. QED
      BY <2>5, <3>1
  <2>8. /\ value'[n] = stim[j][2]
        /\ \A i \in DOMAIN order : i < p /\ NodeRight(order[i]) => NodeRight(order[i])'
    <3>1. p \in DOMAIN order /\ n = order[p]
      BY <1>3
    <3>2. PICK x : x = stim[j][2]
      OBVIOUS
    <3>3. value' = [value EXCEPT ![order[p]] = x]
      BY <2>6, <3>1, <3>2
    <3>4. /\ value'[order[p]] = x
          /\ \A i \in DOMAIN order : i < p /\ NodeRight(order[i]) => NodeRight(order[i])'
      BY <1>1, <1>2, <1>3, <2>1, <3>1, <3>3, SetOne
    <3>. QED
      BY <3>1, <3>2, <3>4
  <2>9. NodeRight(n)'
    <3>1. <<n, value'[n]>> \in Range(stim)
      BY <2>7, <2>8 DEF Range
    <3>. QED
      BY <1>1, <2>2, <3>1, GivenStays
  <2>10. \A i \in DOMAIN order : i < p + 1 => i < p \/ order[i] = n
    BY <1>3
  <2>11. \A i \in DOMAIN order : i < p => NodeRight(order[i])
    BY <1>2, <1>5 DEF ValueInv
  <2>12. \A i \in DOMAIN order : order[i] = n => NodeRight(order[i])'
    BY <1>1, <2>9
  <2>. QED
    BY <2>8, <2>10, <2>11, <2>12
<1>6. ValueInv'
  BY <1>1, <1>2, <1>3, <1>4, <1>5, GivenStays DEF ValueInv
<1>. QED
  BY <1>1, <1>6, SimKept

\* A known gate whose fanins have been passed gets the value of its table.
LEMMA EvaluateGood ==
  ASSUME SimInv, Evaluate
  PROVE  SimInv'
<1>. SUFFICES ASSUME NEW p, p = pos, NEW n, n = order[pos] PROVE SimInv'
  OBVIOUS
<1>1. /\ phase = "inputs" /\ pos > Len(stim) /\ pos <= Len(order) /\ pos' = pos + 1
      /\ UNCHANGED <<phase, nodes, gate, driven, twice, order, stim>>
      /\ value' = [value EXCEPT ![n] = Evaluated(n)]
  BY DEF Evaluate, readerVars, sortVars
<1>2. SortedGraph /\ ValueInv /\ SeededInv /\ TableInv
  BY <1>1 DEF SimInv, SimPhases
<1>3. /\ pos \in DOMAIN order /\ pos \in Nat \ {0} /\ DOMAIN order = 1 .. Len(order)
      /\ Len(stim) \in Nat /\ n \in DOMAIN nodes /\ nodes[n] \in Node
      /\ stim \in Seq(Names \X {0, 1}) /\ value = [m \in DOMAIN nodes |-> value[m]]
  BY <1>1, <1>2 DEF SortedGraph, ValueInv
<1>4. value' = [m \in DOMAIN nodes' |-> value'[m]]
  BY <1>1, <1>3
<1>5. ASSUME Simulable PROVE \A i \in DOMAIN order : i < p + 1 => NodeRight(order[i])'
  <2>1. InputsUndriven /\ Exact(stim) /\ InputsFirst
    BY <1>1, <1>2, <1>5 DEF Simulable, SeededInv, SimPhases
  <2>2. n \notin Inputs
    BY <1>1, <1>3, <2>1 DEF Exact, InputsFirst
  <2>3. KnownGate(n)
    BY <1>3, <1>5, <2>2 DEF Simulable, Range
  <2>4. nodes[n].numVars = Len(nodes[n].fanin)
    <3>1. Len(nodes[n].fanin) # 0
      <4>1. PICK k : k = Len(nodes[n].fanin)
        OBVIOUS
      <4>2. k \in Nat /\ (k = 1 \/ k > 1)
        BY <1>3, <2>3, <4>1 DEF KnownGate, Node
      <4>3. \A m \in Nat : m = 1 \/ m > 1 => m # 0
        OBVIOUS
      <4>. QED
        BY <4>1, <4>2, <4>3
    <3>2. nodes[n].fanin # <<>>
      BY <3>1
    <3>. QED
      BY <1>1, <1>2, <1>3, <3>2 DEF TableInv
  <2>5. \A i \in DOMAIN nodes[n].fanin : value[nodes[n].fanin[i]] \in {0, 1}
    <3>. SUFFICES ASSUME NEW i \in DOMAIN nodes[n].fanin PROVE value[nodes[n].fanin[i]] \in {0, 1}
      OBVIOUS
    <3>1. nodes[n].fanin[i] \in Range(nodes[n].fanin)
      BY DEF Range
    <3>2. PICK j \in 1 .. (pos - 1) : order[j] = nodes[n].fanin[i]
      BY <1>2, <1>3, <2>1, <3>1 DEF SortedGraph, AfterFanins
    <3>3. j \in DOMAIN order /\ j < pos
      BY <1>1, <1>3, <3>2
    <3>4. NodeRight(order[j])
      BY <1>2, <1>5, <3>3 DEF ValueInv
    <3>. QED
      BY <1>3, <3>2, <3>4, PassedBit
  <2>6. Evaluated(n) = TableValue(n)
    <3>1. Ready(n)
      BY <1>3, <2>4, <2>5 DEF Ready
    <3>. QED
      BY <2>3, <3>1, KnownGateRight
  <2>7. /\ value'[n] = Evaluated(n) /\ TableValue(n)' = TableValue(n)
        /\ \A i \in DOMAIN order : i < p /\ NodeRight(order[i]) => NodeRight(order[i])'
    <3>1. PICK x : x = Evaluated(n)
      OBVIOUS
    <3>2. /\ value'[order[p]] = x
          /\ \A i \in DOMAIN order : i <= p => TableValue(order[i])' = TableValue(order[i])
          /\ \A i \in DOMAIN order : i < p /\ NodeRight(order[i]) => NodeRight(order[i])'
      <4>1. p \in DOMAIN order /\ value' = [value EXCEPT ![order[p]] = x]
        BY <1>1, <1>3, <3>1
      <4>. QED
        BY <1>1, <1>2, <1>3, <2>1, <4>1, SetOne
    <3>3. n = order[p] /\ p <= p /\ p \in DOMAIN order
      BY <1>3
    <3>4. TableValue(n)' = TableValue(order[p])' /\ TableValue(n) = TableValue(order[p])
      BY <1>1, <3>3
    <3>. QED
      BY <3>1, <3>2, <3>3, <3>4
  <2>8. NodeRight(n)'
    <3>1. n \notin Inputs'
      BY <1>1, <2>2, GivenStays
    <3>2. value'[n] = TableValue(n)'
      BY <2>6, <2>7
    <3>. QED
      BY <3>1, <3>2 DEF NodeRight
  <2>10. \A i \in DOMAIN order : i < p + 1 => i < p \/ order[i] = n
    BY <1>3
  <2>11. \A i \in DOMAIN order : i < p => NodeRight(order[i])
    BY <1>2, <1>5 DEF ValueInv
  <2>12. \A i \in DOMAIN order : order[i] = n => NodeRight(order[i])'
    BY <1>1, <2>8
  <2>. QED
    BY <2>7, <2>10, <2>11, <2>12
<1>6. ValueInv'
  BY <1>1, <1>2, <1>3, <1>4, <1>5, GivenStays DEF ValueInv
<1>. QED
  BY <1>1, <1>6, SimKept

\* The report changes no value, and the other ways to end leave the phases of
\* the simulator.
LEMMA ReportGood ==
  ASSUME SimInv, Report
  PROVE  SimInv'
<1>1. /\ phase = "inputs" /\ phase' = "reported" /\ pos > Len(order)
      /\ UNCHANGED <<nodes, gate, driven, twice, order, value, stim, pos>>
  BY DEF Report, sortVars
<1>2. SortedGraph /\ ValueInv /\ SeededInv /\ TableInv
  BY <1>1 DEF SimInv, SimPhases
<1>3. SortedGraph' /\ InputsUndriven' = InputsUndriven /\ InputsFirst' = InputsFirst
  BY <1>1, <1>2, GivenStays
<1>4. \A n : NodeRight(n)' = NodeRight(n)
  BY <1>1 DEF NodeRight, Inputs, TableValue
<1>5. ValueInv'
  BY <1>1, <1>2, <1>4, GivenStays DEF ValueInv
<1>6. TableInv' /\ SeededInv'
  BY <1>1, <1>2, <1>3 DEF TableInv, SeededInv, SimPhases
<1>. QED
  BY <1>1, <1>3, <1>5, <1>6 DEF SimInv, SimPhases, TopoPhases, ReadPhases

LEMMA EndGood ==
  ASSUME SimInv, ReadForever \/ InputBeyondEnd \/ EvaluateBare \/ ReportNothing
  PROVE  SimInv'
<1>1. /\ phase' \in {"crashed", "endless"} /\ phase \in {"sorted", "inputs"}
      /\ UNCHANGED <<nodes, gate, driven, order>>
  BY DEF ReadForever, InputBeyondEnd, EvaluateBare, ReportNothing, sortVars
<1>2. TableInv'
  BY <1>1 DEF SimInv, TableInv
<1>3. SeededInv'
  BY <1>1 DEF SeededInv, SimPhases
<1>. QED
  BY <1>1, <1>2, <1>3 DEF SimInv, SimPhases, TopoPhases, ReadPhases

----------------------------------------------------------------------------
(* The specification *)

\* Reading and sorting keep all that simulation will need.
LEMMA TopoPartGood ==
  ASSUME SimInv, (Read /\ UNCHANGED <<sortVars, simVars>>) \/ (Sort /\ UNCHANGED simVars)
  PROVE  SimInv'
<1>1. phase \in TopoPhases /\ phase' \in TopoPhases
  BY DEF Read, ReadHeader, ReadNames, ReadConstant, AddFanin, ReadTable, ReadBadRow, Filled, EndFile,
         Sort, SeedInput, StartSort, MarkFanout, NextVisit, EndSort, readerVars, ReadPhases, TopoPhases
<1>2. TopoInv /\ pos' = 1 /\ TableInv /\ SeededInv
  BY <1>1 DEF SimInv, simVars
<1>3. TopoNext
  BY DEF TopoNext
<1>4. TopoInv'
  BY <1>2, <1>3, StepGood
<1>5. TableInv' /\ SeededInv'
  BY <1>2, <1>4, ReadTables, SortTables, ReadSeeds, SortSeeds
<1>. QED
  BY <1>1, <1>2, <1>4, <1>5 DEF SimInv, SimPhases, TopoPhases, ReadPhases

\* The invariant holds of every run of -simulate, whatever the two files hold.
LEMMA SimInvariance == Spec => []SimInv
<1>1. Init => SimInv
  <2>. SUFFICES ASSUME Init PROVE SimInv
    OBVIOUS
  <2>1. TopoInv /\ phase = "start" /\ DOMAIN nodes = {} /\ pos = 1
    BY InitGood DEF Init, TopoInit, ReaderInit, SimInit
  <2>. QED
    BY <2>1 DEF SimInv, TopoPhases, SimPhases, ReadPhases, TableInv, SeededInv
<1>2. SimInv /\ [Next]_vars => SimInv'
  <2>. SUFFICES ASSUME SimInv, [Next]_vars PROVE SimInv'
    OBVIOUS
  <2>1. CASE UNCHANGED vars
    <3>1. UNCHANGED topoVars /\ UNCHANGED <<phase, nodes, gate, left, driven, twice, order, head, edge>>
          /\ UNCHANGED <<value, given, stim, pos, shown>>
      BY <2>1 DEF vars, topoVars, simVars, readerVars, sortVars
    <3>2. TopoInv => TopoInv'
      BY <3>1, StutterGood
    <3>3. /\ TableInv' = TableInv /\ SeededInv' = SeededInv /\ SortedGraph' = SortedGraph
          /\ \A n : NodeRight(n)' = NodeRight(n)
      BY <3>1, GivenStays DEF TableInv, SeededInv, NodeRight, Inputs, TableValue
    <3>4. ValueInv => ValueInv'
      BY <3>1, <3>3, GivenStays DEF ValueInv
    <3>. QED
      BY <3>1, <3>2, <3>3, <3>4 DEF SimInv
  <2>. QED
    BY <2>1, TopoPartGood, OpenGood, SetInputGood, EvaluateGood, ReportGood, EndGood
       DEF Next, Simulate
<1>. QED
  BY <1>1, <1>2, PTL DEF Spec

\* In a circuit of the gates it knows, simulation (main.cpp:187-264) gives
\* every node in the order the value of its table over the inputs.
THEOREM SimulationIsRight == Spec => []SimulationRight
<1>1. SimInv => SimulationRight
  <2>. SUFFICES ASSUME SimInv, phase = "reported", Simulable, NEW n \in Range(order)
                PROVE  NodeRight(n)
    BY DEF SimulationRight, Simulable, NodeRight
  <2>1. ValueInv /\ SortedGraph
    BY DEF SimInv, SimPhases
  <2>2. PICK i \in DOMAIN order : order[i] = n
    BY DEF Range
  <2>3. i < pos
    BY <2>1, <2>2 DEF ValueInv, SortedGraph
  <2>. QED
    BY <2>1, <2>2, <2>3 DEF ValueInv
<1>. QED
  BY <1>1, SimInvariance, PTL
================================================================================
