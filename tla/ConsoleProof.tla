----------------------------- MODULE ConsoleProof -----------------------------
(***************************************************************************)
(* What the prompts read, and that the parser is right for every line: the *)
(* tree it returns is the only one the line has in the grammar, and a line *)
(* it refuses is refused for the first fault of a scan from left to right. *)
(*                                                                         *)
(* The calls of the parser are ordered by Weight: a call later in the text *)
(* weighs less, and at one position an operand less than the expression it *)
(* begins.  A call only uses the results of lighter calls, so the table of *)
(* results exists and every statement about a call follows by induction on *)
(* its weight; so does the table of the derivations.                       *)
(***************************************************************************)
EXTENDS Console, NaturalsInduction, WellFoundedInduction, SequenceTheorems, TLAPS

----------------------------------------------------------------------------
(* Numbers *)

\* A nonempty set of numbers has a least one.
LEMMA LeastNumber ==
  ASSUME NEW S \in SUBSET Nat, S # {}
  PROVE  \E m \in S : \A n \in S : m <= n
<1>. DEFINE Below == {ss \in Nat \X Nat : ss[1] < ss[2]}
<1>1. IsWellFoundedOn(Below, Nat)
  BY NatLessThanWellFounded DEF OpToRel
<1>2. \A m \in Nat, n \in Nat : ~ (<<m, n>> \in Below) => n <= m
  OBVIOUS
<1>. HIDE DEF Below
<1>3. PICK m \in S : \A n \in S : ~ (<<n, m>> \in Below)
  BY <1>1, WFMin
<1>. QED
  BY <1>2, <1>3

\* Induction: what holds for 0 and passes on to the next number.
LEMMA AllNumbers ==
  ASSUME NEW S, 0 \in S, \A n \in Nat : n \in S => n + 1 \in S
  PROVE  \A n \in Nat : n \in S
<1>. DEFINE T == {n \in Nat : n \notin S}
<1>1. ASSUME T # {} PROVE FALSE
  <2>1. PICK m \in T : \A n \in T : m <= n
    <3>1. T \in SUBSET Nat
      OBVIOUS
    <3>. HIDE DEF T
    <3>. QED
      BY <1>1, <3>1, LeastNumber
  <2>2. m # 0 /\ m - 1 \in Nat /\ (m - 1) + 1 = m /\ ~ (m <= m - 1)
    OBVIOUS
  <2>3. m - 1 \in S
    BY <2>1, <2>2
  <2>. QED
    BY <2>2, <2>3
<1>. QED
  BY <1>1

\* A set of numbers below a bound that is not empty has a greatest one.
LEMMA GreatestNumber ==
  ASSUME NEW N \in Nat, NEW S \in SUBSET (0 .. N), S # {}
  PROVE  \E m \in S : \A n \in S : n <= m
<1>. DEFINE T == {N - n : n \in S}
<1>1. T \in SUBSET Nat /\ T # {}
  <2>1. PICK n : n \in S
    OBVIOUS
  <2>2. N - n \in T
    BY <2>1
  <2>3. \A m \in S : N - m \in Nat
    OBVIOUS
  <2>. QED
    BY <2>2, <2>3
<1>2. PICK r \in T : \A n \in T : r <= n
  <2>. HIDE DEF T
  <2>. QED
    BY <1>1, LeastNumber
<1>3. PICK m \in S : r = N - m
  OBVIOUS
<1>4. ASSUME NEW n \in S PROVE n <= m
  <2>1. r <= N - n
    <3>1. N - n \in T
      OBVIOUS
    <3>. QED
      BY <1>2, <3>1
  <2>2. n \in Int /\ m \in Int
    <3>1. n \in 0 .. N /\ m \in 0 .. N
      OBVIOUS
    <3>. QED
      BY <3>1
  <2>. QED
    BY <1>3, <2>1, <2>2
<1>. QED
  BY <1>4

----------------------------------------------------------------------------
(* The results of the parse functions *)

LEMMA ParsedResult ==
  ASSUME NEW node, NEW next
  PROVE  ~Failed(Parsed(node, next)) /\ Parsed(node, next).node = node /\ Parsed(node, next).next = next
BY DEF Failed, Parsed

LEMMA ErrorFails == ASSUME NEW code, NEW column PROVE Failed(Error(code, column))
BY DEF Failed, Error

\* The first position past all characters of S is as its definition says ...
LEMMA PastAllStops ==
  ASSUME NEW t \in Seq(STRING), NEW i \in 1 .. (Len(t) + 1), NEW S
  PROVE  /\ PastAll(t, i, S) \in i .. (Len(t) + 1)
         /\ PastAll(t, i, S) = Len(t) + 1 \/ t[PastAll(t, i, S)] \notin S
         /\ \A k \in i .. (PastAll(t, i, S) - 1) : t[k] \in S
<1>. DEFINE P == {j \in i .. (Len(t) + 1) : j = Len(t) + 1 \/ t[j] \notin S}
<1>1. P \in SUBSET Nat /\ P # {}
  <2>1. Len(t) + 1 \in P
    OBVIOUS
  <2>. QED
    BY <2>1
<1>2. PICK m \in P : \A n \in P : m <= n
  <2>. HIDE DEF P
  <2>. QED
    BY <1>1, LeastNumber
<1>3. m \in i .. (Len(t) + 1) /\ (m = Len(t) + 1 \/ t[m] \notin S)
  OBVIOUS
<1>4. \A k \in i .. (m - 1) : t[k] \in S
  <2>1. \A k \in i .. (m - 1) : k \in i .. (Len(t) + 1) /\ k \notin P
    BY <1>2, <1>3
  <2>. QED
    BY <2>1
<1>. HIDE DEF P
<1>. QED
  BY <1>3, <1>4 DEF PastAll

\* ... and the only such.
LEMMA PastAllIs ==
  ASSUME NEW t \in Seq(STRING), NEW i \in 1 .. (Len(t) + 1), NEW S, NEW j \in i .. (Len(t) + 1),
         j = Len(t) + 1 \/ t[j] \notin S,
         \A k \in i .. (j - 1) : t[k] \in S
  PROVE  PastAll(t, i, S) = j
<1>. DEFINE m == PastAll(t, i, S)
<1>1. /\ m \in i .. (Len(t) + 1)
      /\ m = Len(t) + 1 \/ t[m] \notin S
      /\ \A k \in i .. (m - 1) : t[k] \in S
  BY PastAllStops
<1>. HIDE DEF m
<1>2. CASE m < j
  <2>1. m \in i .. (j - 1) /\ m # Len(t) + 1
    BY <1>1, <1>2
  <2>. QED
    BY <1>1, <2>1
<1>3. CASE j < m
  <2>1. j \in i .. (m - 1) /\ j # Len(t) + 1
    BY <1>1, <1>3
  <2>. QED
    BY <1>1, <2>1
<1>4. m = j
  BY <1>1, <1>2, <1>3
<1>. QED
  BY <1>4 DEF m

\* A token that is seen is in the text, and the text goes on after it.
LEMMA TokenSeenAt ==
  ASSUME NEW t \in Seq(STRING), NEW i \in 1 .. (Len(t) + 1), NEW c, TokenSeen(t, i, c)
  PROVE  /\ PastSpaces(t, i) \in i .. Len(t) /\ t[PastSpaces(t, i)] = c
         /\ PastToken(t, i) = PastSpaces(t, i) + 1 /\ PastToken(t, i) \in (i + 1) .. (Len(t) + 1)
<1>1. PastSpaces(t, i) \in i .. (Len(t) + 1)
  BY PastAllStops DEF PastSpaces
<1>2. PastSpaces(t, i) <= Len(t) /\ t[PastSpaces(t, i)] = c
  BY DEF TokenSeen
<1>. QED
  BY <1>1, <1>2 DEF PastToken

----------------------------------------------------------------------------
(* The table of the results *)

Calls(t) == Kinds \X (1 .. (Len(t) + 1))
Rank(kind) == IF kind = "atom" THEN 0 ELSE IF kind = "term" THEN 2 ELSE IF kind = "expr" THEN 3 ELSE 1
Weight(t, c) == 4 * (Len(t) + 1 - c[2]) + Rank(c[1])

\* A parse function that returns a tree has read something.
Advances(t, i, r) == ~Failed(r) => r.next \in (i + 1) .. (Len(t) + 1)

\* Two tables agree on a call, and its result is as it should be.
Agree(p, q, t, kind, i) == p[<<kind, i>>] = q[<<kind, i>>] /\ Advances(t, i, p[<<kind, i>>])
AgreeLater(p, q, t, i) == \A kind \in Kinds, k \in (i + 1) .. (Len(t) + 1) : Agree(p, q, t, kind, k)

LEMMA StringReads ==
  ASSUME NEW t \in Seq(STRING), NEW i \in 1 .. (Len(t) + 1)
  PROVE  Advances(t, i, ParseString(t, i))
<1>. DEFINE start == PastSpaces(t, i)
            past  == PastAll(t, start, StringChars)
<1>1. start \in i .. (Len(t) + 1)
  BY PastAllStops DEF PastSpaces
<1>2. past \in start .. (Len(t) + 1)
  BY <1>1, PastAllStops
<1>3. CASE TokenSeen(t, i, Quote)
  <2>1. ParseString(t, i) = QuotedString(t, start)
    BY <1>3 DEF ParseString
  <2>. DEFINE closing == {j \in (start + 1) .. Len(t) : t[j] = Quote}
              j == Min(closing)
  <2>2. ASSUME closing # {} PROVE j \in closing
    <3>1. closing \in SUBSET Nat
      BY <1>1
    <3>. HIDE DEF closing
    <3>2. \E k \in closing : \A m \in closing : k <= m
      BY <2>2, <3>1, LeastNumber
    <3>. QED
      BY <3>2 DEF Min
  <2>3. ASSUME closing # {} PROVE j + 1 \in (i + 1) .. (Len(t) + 1)
    <3>1. j \in (start + 1) .. Len(t)
      BY <2>2, <2>3
    <3>. HIDE DEF closing, j
    <3>. QED
      BY <1>1, <3>1
  <2>4. Advances(t, i, QuotedString(t, start))
    <3>1. QuotedString(t, start) = IF closing = {} THEN Error("RUNAWAY_DOUBLE_QUOTES", start)
            ELSE IF j = start + 1 THEN Error("EMPTY_QUOTED_STRING", start)
            ELSE Parsed(ValueNode(SubSeq(t, start + 1, j - 1)), j + 1)
      BY DEF QuotedString
    <3>. HIDE DEF closing, j, start
    <3>. QED
      BY <2>3, <3>1, ParsedResult, ErrorFails DEF Advances
  <2>. QED
    BY <2>1, <2>4
<1>4. CASE ~TokenSeen(t, i, Quote)
  <2>1. ParseString(t, i) = IF past = start THEN Error("STRING_EXPECTED", start)
                            ELSE Parsed(ValueNode(SubSeq(t, start, past - 1)), past)
    BY <1>4 DEF ParseString
  <2>. HIDE DEF start, past
  <2>2. past # start => past \in (i + 1) .. (Len(t) + 1)
    BY <1>1, <1>2
  <2>. QED
    BY <2>1, <2>2, ParsedResult, ErrorFails DEF Advances
<1>. QED
  BY <1>3, <1>4

LEMMA AtomLocal ==
  ASSUME NEW t \in Seq(STRING), NEW i \in 1 .. (Len(t) + 1), NEW p, NEW q, AgreeLater(p, q, t, i)
  PROVE  ParseAtom(p, t, i) = ParseAtom(q, t, i) /\ Advances(t, i, ParseAtom(p, t, i))
<1>1. CASE TokenSeen(t, i, "(")
  <2>1. PastToken(t, i) \in (i + 1) .. (Len(t) + 1)
    BY <1>1, TokenSeenAt
  <2>2. PICK inner : inner = p[<<"expr", PastToken(t, i)>>]
    OBVIOUS
  <2>3. q[<<"expr", PastToken(t, i)>>] = inner /\ Advances(t, PastToken(t, i), inner)
    BY <2>1, <2>2 DEF AgreeLater, Agree, Kinds
  <2>4. ~Failed(inner) => inner.next \in (i + 1) .. (Len(t) + 1)
    BY <2>1, <2>3 DEF Advances
  <2>5. ~Failed(inner) /\ TokenSeen(t, inner.next, ")") => PastToken(t, inner.next) \in (i + 1) .. (Len(t) + 1)
    BY <2>4, TokenSeenAt
  <2>. DEFINE R == IF Failed(inner) THEN inner
                   ELSE IF TokenSeen(t, inner.next, ")") THEN Parsed(inner.node, PastToken(t, inner.next))
                   ELSE Error("RUNAWAY_PARENTHESIS", PastSpaces(t, i))
  <2>6. ParseAtom(p, t, i) = R /\ ParseAtom(q, t, i) = R
    BY <1>1, <2>2, <2>3 DEF ParseAtom
  <2>7. Advances(t, i, R)
    BY <2>5, ParsedResult, ErrorFails DEF Advances
  <2>. QED
    BY <2>6, <2>7
<1>2. CASE ~TokenSeen(t, i, "(")
  BY <1>2, StringReads DEF ParseAtom
<1>. QED
  BY <1>1, <1>2

LEMMA FactorLocal ==
  ASSUME NEW t \in Seq(STRING), NEW i \in 1 .. (Len(t) + 1), NEW p, NEW q, NEW v \in BOOLEAN,
         AgreeLater(p, q, t, i), Agree(p, q, t, "atom", i)
  PROVE  ParseFactor(p, t, i, v) = ParseFactor(q, t, i, v) /\ Advances(t, i, ParseFactor(p, t, i, v))
<1>1. CASE TokenSeen(t, i, "!")
  <2>1. PastToken(t, i) \in (i + 1) .. (Len(t) + 1)
    BY <1>1, TokenSeenAt
  <2>2. PICK kind \in Kinds : kind = IF v THEN "odd" ELSE "factor"
    BY DEF Kinds
  <2>3. Agree(p, q, t, kind, PastToken(t, i))
    BY <2>1 DEF AgreeLater
  <2>4. ParseFactor(p, t, i, v) = p[<<kind, PastToken(t, i)>>] /\ ParseFactor(q, t, i, v) = q[<<kind, PastToken(t, i)>>]
    BY <1>1, <2>2 DEF ParseFactor
  <2>. QED
    BY <2>1, <2>3, <2>4 DEF Agree, Advances
<1>2. CASE ~TokenSeen(t, i, "!")
  <2>1. PICK atom : atom = p[<<"atom", i>>]
    OBVIOUS
  <2>2. q[<<"atom", i>>] = atom /\ Advances(t, i, atom)
    BY <2>1 DEF Agree
  <2>. DEFINE R == IF v \/ Failed(atom) THEN atom ELSE Parsed(NotNode(atom.node), atom.next)
  <2>3. ParseFactor(p, t, i, v) = R /\ ParseFactor(q, t, i, v) = R
    BY <1>2, <2>1, <2>2 DEF ParseFactor
  <2>4. Advances(t, i, R)
    BY <2>2, ParsedResult DEF Advances
  <2>. QED
    BY <2>3, <2>4
<1>. QED
  BY <1>1, <1>2

LEMMA TermLocal ==
  ASSUME NEW t \in Seq(STRING), NEW i \in 1 .. (Len(t) + 1), NEW p, NEW q,
         AgreeLater(p, q, t, i), Agree(p, q, t, "factor", i)
  PROVE  ParseTerm(p, t, i) = ParseTerm(q, t, i) /\ Advances(t, i, ParseTerm(p, t, i))
<1>1. PICK left : left = p[<<"factor", i>>]
  OBVIOUS
<1>2. q[<<"factor", i>>] = left /\ Advances(t, i, left)
  BY <1>1 DEF Agree
<1>3. CASE Failed(left) \/ ~TokenSeen(t, left.next, "&")
  <2>1. ParseTerm(p, t, i) = left /\ ParseTerm(q, t, i) = left
    BY <1>1, <1>2, <1>3 DEF ParseTerm
  <2>. QED
    BY <1>2, <2>1
<1>4. CASE ~(Failed(left) \/ ~TokenSeen(t, left.next, "&"))
  <2>1. PICK k : k = PastToken(t, left.next)
    OBVIOUS
  <2>2. left.next \in (i + 1) .. (Len(t) + 1)
    BY <1>2, <1>4 DEF Advances
  <2>3. k \in (i + 1) .. (Len(t) + 1)
    <3>1. PastToken(t, left.next) \in (left.next + 1) .. (Len(t) + 1)
      BY <1>4, <2>2, TokenSeenAt
    <3>. QED
      BY <2>1, <2>2, <3>1
  <2>4. PICK right : right = p[<<"term", k>>]
    OBVIOUS
  <2>5. q[<<"term", k>>] = right /\ Advances(t, k, right)
    BY <2>3, <2>4 DEF AgreeLater, Agree, Kinds
  <2>. DEFINE R == IF Failed(right) THEN right ELSE Parsed(AndNode(left.node, right.node), right.next)
  <2>6. ParseTerm(p, t, i) = R /\ ParseTerm(q, t, i) = R
    BY <1>1, <1>2, <1>4, <2>1, <2>4, <2>5 DEF ParseTerm
  <2>7. Advances(t, i, R)
    BY <2>3, <2>5, ParsedResult DEF Advances
  <2>. QED
    BY <2>6, <2>7
<1>. QED
  BY <1>3, <1>4

LEMMA ExprLocal ==
  ASSUME NEW t \in Seq(STRING), NEW i \in 1 .. (Len(t) + 1), NEW p, NEW q,
         AgreeLater(p, q, t, i), Agree(p, q, t, "term", i)
  PROVE  ParseExpr(p, t, i) = ParseExpr(q, t, i) /\ Advances(t, i, ParseExpr(p, t, i))
<1>1. PICK left : left = p[<<"term", i>>]
  OBVIOUS
<1>2. q[<<"term", i>>] = left /\ Advances(t, i, left)
  BY <1>1 DEF Agree
<1>3. CASE Failed(left) \/ ~TokenSeen(t, left.next, "|")
  <2>1. ParseExpr(p, t, i) = left /\ ParseExpr(q, t, i) = left
    BY <1>1, <1>2, <1>3 DEF ParseExpr
  <2>. QED
    BY <1>2, <2>1
<1>4. CASE ~(Failed(left) \/ ~TokenSeen(t, left.next, "|"))
  <2>1. PICK k : k = PastToken(t, left.next)
    OBVIOUS
  <2>2. left.next \in (i + 1) .. (Len(t) + 1)
    BY <1>2, <1>4 DEF Advances
  <2>3. k \in (i + 1) .. (Len(t) + 1)
    <3>1. PastToken(t, left.next) \in (left.next + 1) .. (Len(t) + 1)
      BY <1>4, <2>2, TokenSeenAt
    <3>. QED
      BY <2>1, <2>2, <3>1
  <2>4. PICK right : right = p[<<"expr", k>>]
    OBVIOUS
  <2>5. q[<<"expr", k>>] = right /\ Advances(t, k, right)
    BY <2>3, <2>4 DEF AgreeLater, Agree, Kinds
  <2>. DEFINE R == IF Failed(right) THEN right ELSE Parsed(OrNode(left.node, right.node), right.next)
  <2>6. ParseExpr(p, t, i) = R /\ ParseExpr(q, t, i) = R
    BY <1>1, <1>2, <1>4, <2>1, <2>4, <2>5 DEF ParseExpr
  <2>7. Advances(t, i, R)
    BY <2>3, <2>5, ParsedResult DEF Advances
  <2>. QED
    BY <2>6, <2>7
<1>. QED
  BY <1>3, <1>4

\* A call whose lighter calls agree has the same result in both tables.
LEMMA CallLocal ==
  ASSUME NEW t \in Seq(STRING), NEW p, NEW q, NEW kind \in Kinds, NEW i \in 1 .. (Len(t) + 1),
         \A kind2 \in Kinds, k \in 1 .. (Len(t) + 1) :
            Weight(t, <<kind2, k>>) < Weight(t, <<kind, i>>) => Agree(p, q, t, kind2, k)
  PROVE  ParseAt(p, t, <<kind, i>>) = ParseAt(q, t, <<kind, i>>) /\ Advances(t, i, ParseAt(p, t, <<kind, i>>))
<1>1. AgreeLater(p, q, t, i)
  <2>. SUFFICES ASSUME NEW kind2 \in Kinds, NEW k \in (i + 1) .. (Len(t) + 1) PROVE Agree(p, q, t, kind2, k)
    BY DEF AgreeLater
  <2>1. Rank(kind2) \in 0 .. 3 /\ Rank(kind) \in 0 .. 3
    BY DEF Rank
  <2>2. Weight(t, <<kind2, k>>) = 4 * (Len(t) + 1 - k) + Rank(kind2) /\ Weight(t, <<kind, i>>) = 4 * (Len(t) + 1 - i) + Rank(kind)
    BY DEF Weight
  <2>3. Weight(t, <<kind2, k>>) < Weight(t, <<kind, i>>) /\ k \in 1 .. (Len(t) + 1)
    <3>. HIDE DEF Rank
    <3>. QED
      BY <2>1, <2>2
  <2>. QED
    BY <2>3
<1>2. \A kind2 \in Kinds : Rank(kind2) < Rank(kind) => Agree(p, q, t, kind2, i)
  <2>. SUFFICES ASSUME NEW kind2 \in Kinds, Rank(kind2) < Rank(kind) PROVE Agree(p, q, t, kind2, i)
    OBVIOUS
  <2>1. Rank(kind2) \in 0 .. 3 /\ Rank(kind) \in 0 .. 3
    BY DEF Rank
  <2>2. Weight(t, <<kind2, i>>) = 4 * (Len(t) + 1 - i) + Rank(kind2) /\ Weight(t, <<kind, i>>) = 4 * (Len(t) + 1 - i) + Rank(kind)
    BY DEF Weight
  <2>3. Weight(t, <<kind2, i>>) < Weight(t, <<kind, i>>)
    BY <2>1, <2>2
  <2>. QED
    BY <2>3
<1>3. CASE kind = "atom"
  <2>1. ParseAt(p, t, <<kind, i>>) = ParseAtom(p, t, i) /\ ParseAt(q, t, <<kind, i>>) = ParseAtom(q, t, i)
    BY <1>3 DEF ParseAt
  <2>. QED
    BY <1>1, <2>1, AtomLocal
<1>4. CASE kind \in {"factor", "odd"}
  <2>1. PICK v \in BOOLEAN : v = (kind = "factor")
    OBVIOUS
  <2>2. ParseAt(p, t, <<kind, i>>) = ParseFactor(p, t, i, v) /\ ParseAt(q, t, <<kind, i>>) = ParseFactor(q, t, i, v)
    <3>1. CASE kind = "factor"
      BY <2>1, <3>1 DEF ParseAt
    <3>2. CASE kind = "odd"
      BY <2>1, <3>2 DEF ParseAt
    <3>. QED
      BY <1>4, <3>1, <3>2
  <2>3. Agree(p, q, t, "atom", i)
    BY <1>2, <1>4 DEF Rank, Kinds
  <2>. QED
    BY <1>1, <2>2, <2>3, FactorLocal
<1>5. CASE kind = "term"
  <2>1. ParseAt(p, t, <<kind, i>>) = ParseTerm(p, t, i) /\ ParseAt(q, t, <<kind, i>>) = ParseTerm(q, t, i)
    BY <1>5 DEF ParseAt
  <2>2. Agree(p, q, t, "factor", i)
    BY <1>2, <1>5 DEF Rank, Kinds
  <2>. QED
    BY <1>1, <2>1, <2>2, TermLocal
<1>6. CASE kind = "expr"
  <2>1. ParseAt(p, t, <<kind, i>>) = ParseExpr(p, t, i) /\ ParseAt(q, t, <<kind, i>>) = ParseExpr(q, t, i)
    BY <1>6 DEF ParseAt
  <2>2. Agree(p, q, t, "term", i)
    BY <1>2, <1>6 DEF Rank, Kinds
  <2>. QED
    BY <1>1, <2>1, <2>2, ExprLocal
<1>. QED
  BY <1>3, <1>4, <1>5, <1>6 DEF Kinds

\* A table that is right for the calls of less than a weight.
RightBelow(p, t, w) ==
  \A kind \in Kinds, i \in 1 .. (Len(t) + 1) :
     Weight(t, <<kind, i>>) < w => p[<<kind, i>>] = ParseAt(p, t, <<kind, i>>) /\ Advances(t, i, p[<<kind, i>>])

LEMMA WeightRange ==
  ASSUME NEW t \in Seq(STRING)
  PROVE  \A kind \in Kinds, i \in 1 .. (Len(t) + 1) :
            Weight(t, <<kind, i>>) \in Nat /\ ~ (Weight(t, <<kind, i>>) < 0) /\ Weight(t, <<kind, i>>) < 4 * Len(t) + 4
<1>. SUFFICES ASSUME NEW kind \in Kinds, NEW i \in 1 .. (Len(t) + 1)
              PROVE  Weight(t, <<kind, i>>) \in Nat /\ ~ (Weight(t, <<kind, i>>) < 0)
                     /\ Weight(t, <<kind, i>>) < 4 * Len(t) + 4
  OBVIOUS
<1>1. Rank(kind) \in 0 .. 3
  BY DEF Rank
<1>2. Weight(t, <<kind, i>>) = 4 * (Len(t) + 1 - i) + Rank(kind)
  BY DEF Weight
<1>. QED
  BY <1>1, <1>2

LEMMA TablesRight ==
  ASSUME NEW t \in Seq(STRING)
  PROVE  \A w \in Nat : \E p : RightBelow(p, t, w)
<1>. DEFINE S == {w \in Nat : \E p : RightBelow(p, t, w)}
<1>1. 0 \in S
  <2>1. RightBelow(<<>>, t, 0)
    <3>1. \A kind \in Kinds, i \in 1 .. (Len(t) + 1) : ~ (Weight(t, <<kind, i>>) < 0)
      BY WeightRange
    <3>. QED
      BY <3>1 DEF RightBelow
  <2>. QED
    BY <2>1
<1>2. ASSUME NEW w \in Nat, w \in S PROVE w + 1 \in S
  <2>1. PICK p : RightBelow(p, t, w)
    BY <1>2
  <2>. DEFINE q == [c \in Calls(t) |-> IF Weight(t, c) = w THEN ParseAt(p, t, c) ELSE p[c]]
  <2>2. \A kind \in Kinds, i \in 1 .. (Len(t) + 1) :
           q[<<kind, i>>] = IF Weight(t, <<kind, i>>) = w THEN ParseAt(p, t, <<kind, i>>) ELSE p[<<kind, i>>]
    BY DEF Calls
  <2>. HIDE DEF q
  <2>3. \A kind \in Kinds, i \in 1 .. (Len(t) + 1) : Weight(t, <<kind, i>>) \in Nat
    BY WeightRange
  <2>4. \A kind \in Kinds, i \in 1 .. (Len(t) + 1) : Weight(t, <<kind, i>>) < w => Agree(p, q, t, kind, i)
    BY <2>1, <2>2, <2>3 DEF RightBelow, Agree
  <2>5. ASSUME NEW kind \in Kinds, NEW i \in 1 .. (Len(t) + 1), Weight(t, <<kind, i>>) < w + 1
        PROVE  q[<<kind, i>>] = ParseAt(q, t, <<kind, i>>) /\ Advances(t, i, q[<<kind, i>>])
    <3>1. \A kind2 \in Kinds, k \in 1 .. (Len(t) + 1) :
             Weight(t, <<kind2, k>>) < Weight(t, <<kind, i>>) => Agree(p, q, t, kind2, k)
      BY <2>3, <2>4, <2>5
    <3>2. ParseAt(p, t, <<kind, i>>) = ParseAt(q, t, <<kind, i>>) /\ Advances(t, i, ParseAt(p, t, <<kind, i>>))
      BY <3>1, CallLocal
    <3>3. CASE Weight(t, <<kind, i>>) = w
      BY <2>2, <3>2, <3>3
    <3>4. CASE Weight(t, <<kind, i>>) # w
      <4>1. Weight(t, <<kind, i>>) < w
        BY <2>3, <2>5, <3>4
      <4>2. p[<<kind, i>>] = ParseAt(p, t, <<kind, i>>) /\ q[<<kind, i>>] = p[<<kind, i>>]
        BY <2>1, <2>2, <3>4, <4>1 DEF RightBelow
      <4>. QED
        BY <3>2, <4>2
    <3>. QED
      BY <3>3, <3>4
  <2>6. RightBelow(q, t, w + 1)
    BY <2>5 DEF RightBelow
  <2>. QED
    BY <2>6
<1>3. \A w \in Nat : w \in S
  <2>. HIDE DEF S
  <2>. QED
    BY <1>1, <1>2, AllNumbers
<1>. QED
  BY <1>3

\* The table exists: every parse function returns, and has read something if
\* it returns a tree.
LEMMA ParsesRight ==
  ASSUME NEW t \in Seq(STRING), NEW i \in 1 .. (Len(t) + 1), NEW p, p = Parses(t)
  PROVE  /\ p[<<"expr", i>>] = ParseExpr(p, t, i)
         /\ p[<<"term", i>>] = ParseTerm(p, t, i)
         /\ p[<<"factor", i>>] = ParseFactor(p, t, i, TRUE)
         /\ p[<<"odd", i>>] = ParseFactor(p, t, i, FALSE)
         /\ p[<<"atom", i>>] = ParseAtom(p, t, i)
         /\ \A kind \in Kinds : Advances(t, i, p[<<kind, i>>])
<1>1. PICK q : RightBelow(q, t, 4 * Len(t) + 4)
  <2>1. 4 * Len(t) + 4 \in Nat
    OBVIOUS
  <2>. QED
    BY <2>1, TablesRight
<1>. DEFINE r == [c \in Calls(t) |-> q[c]]
<1>2. \A kind \in Kinds, k \in 1 .. (Len(t) + 1) : q[<<kind, k>>] = ParseAt(q, t, <<kind, k>>) /\ Advances(t, k, q[<<kind, k>>])
  <2>1. \A kind \in Kinds, k \in 1 .. (Len(t) + 1) : Weight(t, <<kind, k>>) < 4 * Len(t) + 4
    BY WeightRange
  <2>. QED
    BY <1>1, <2>1 DEF RightBelow
<1>3. \A kind \in Kinds, k \in 1 .. (Len(t) + 1) : r[<<kind, k>>] = q[<<kind, k>>]
  BY DEF Calls
<1>4. \A kind \in Kinds, k \in 1 .. (Len(t) + 1) : Agree(q, r, t, kind, k)
  <2>. HIDE DEF r
  <2>. QED
    BY <1>2, <1>3 DEF Agree
<1>5. ASSUME NEW kind \in Kinds, NEW k \in 1 .. (Len(t) + 1)
      PROVE  ParseAt(q, t, <<kind, k>>) = ParseAt(r, t, <<kind, k>>)
  <2>. HIDE DEF r
  <2>. QED
    BY <1>4, CallLocal
<1>6. r = [c \in Calls(t) |-> ParseAt(r, t, c)]
  <2>1. \A c \in Calls(t) : r[c] = ParseAt(r, t, c)
    <3>. SUFFICES ASSUME NEW c \in Calls(t) PROVE r[c] = ParseAt(r, t, c)
      OBVIOUS
    <3>1. PICK kind \in Kinds, k \in 1 .. (Len(t) + 1) : c = <<kind, k>>
      BY DEF Calls
    <3>. HIDE DEF r
    <3>. QED
      BY <1>2, <1>3, <1>5, <3>1
  <2>2. r = [c \in Calls(t) |-> r[c]]
    OBVIOUS
  <2>. HIDE DEF r
  <2>. QED
    BY <2>1, <2>2
<1>. HIDE DEF r
<1>7. p = [c \in Calls(t) |-> ParseAt(p, t, c)]
  <2>1. Parses(t) = CHOOSE s : s = [c \in Calls(t) |-> ParseAt(s, t, c)]
    BY DEF Parses, Calls
  <2>. QED
    BY <1>6, <2>1
<1>8. \A kind \in Kinds, k \in 1 .. (Len(t) + 1) : p[<<kind, k>>] = ParseAt(p, t, <<kind, k>>)
  BY <1>7 DEF Calls
<1>. DEFINE W == {w \in Nat : RightBelow(p, t, w)}
<1>9. \A w \in Nat : w \in W
  <2>1. 0 \in W
    <3>1. \A kind \in Kinds, k \in 1 .. (Len(t) + 1) : ~ (Weight(t, <<kind, k>>) < 0)
      BY WeightRange
    <3>. QED
      BY <3>1 DEF RightBelow
  <2>2. ASSUME NEW w \in Nat, w \in W PROVE w + 1 \in W
    <3>1. RightBelow(p, t, w)
      BY <2>2
    <3>2. ASSUME NEW kind \in Kinds, NEW k \in 1 .. (Len(t) + 1), Weight(t, <<kind, k>>) < w + 1
          PROVE  Advances(t, k, p[<<kind, k>>])
      <4>1. \A kind2 \in Kinds, m \in 1 .. (Len(t) + 1) :
               Weight(t, <<kind2, m>>) < Weight(t, <<kind, k>>) => Agree(p, p, t, kind2, m)
        <5>1. \A kind2 \in Kinds, m \in 1 .. (Len(t) + 1) : Weight(t, <<kind2, m>>) \in Nat
          BY WeightRange
        <5>. QED
          BY <3>1, <3>2, <5>1 DEF RightBelow, Agree
      <4>2. Advances(t, k, ParseAt(p, t, <<kind, k>>))
        BY <4>1, CallLocal
      <4>. QED
        BY <1>8, <4>2
    <3>3. RightBelow(p, t, w + 1)
      BY <1>8, <3>2 DEF RightBelow
    <3>. QED
      BY <3>3
  <2>. HIDE DEF W
  <2>. QED
    BY <2>1, <2>2, AllNumbers
<1>10. \A kind \in Kinds : Advances(t, i, p[<<kind, i>>])
  <2>1. RightBelow(p, t, 4 * Len(t) + 4)
    <3>1. 4 * Len(t) + 4 \in Nat
      OBVIOUS
    <3>. QED
      BY <1>9, <3>1
  <2>2. \A kind \in Kinds : Weight(t, <<kind, i>>) < 4 * Len(t) + 4
    BY WeightRange
  <2>. QED
    BY <2>1, <2>2 DEF RightBelow
<1>11. /\ p[<<"expr", i>>] = ParseAt(p, t, <<"expr", i>>)
       /\ p[<<"term", i>>] = ParseAt(p, t, <<"term", i>>)
       /\ p[<<"factor", i>>] = ParseAt(p, t, <<"factor", i>>)
       /\ p[<<"odd", i>>] = ParseAt(p, t, <<"odd", i>>)
       /\ p[<<"atom", i>>] = ParseAt(p, t, <<"atom", i>>)
  BY <1>8 DEF Kinds
<1>12. /\ ParseAt(p, t, <<"expr", i>>) = ParseExpr(p, t, i)
       /\ ParseAt(p, t, <<"term", i>>) = ParseTerm(p, t, i)
       /\ ParseAt(p, t, <<"factor", i>>) = ParseFactor(p, t, i, TRUE)
       /\ ParseAt(p, t, <<"odd", i>>) = ParseFactor(p, t, i, FALSE)
       /\ ParseAt(p, t, <<"atom", i>>) = ParseAtom(p, t, i)
  BY DEF ParseAt
<1>. QED
  BY <1>10, <1>11, <1>12

\* What holds for a call if it holds for the calls it uses holds for all calls.
LaterIn(G, t, i) == \A kind \in Kinds, k \in (i + 1) .. (Len(t) + 1) : <<kind, k>> \in G

LEMMA CallInduction ==
  ASSUME NEW t \in Seq(STRING), NEW G,
         \A i \in 1 .. (Len(t) + 1) : LaterIn(G, t, i) => <<"atom", i>> \in G,
         \A i \in 1 .. (Len(t) + 1) : LaterIn(G, t, i) /\ <<"atom", i>> \in G => {<<"factor", i>>, <<"odd", i>>} \subseteq G,
         \A i \in 1 .. (Len(t) + 1) : LaterIn(G, t, i) /\ <<"factor", i>> \in G => <<"term", i>> \in G,
         \A i \in 1 .. (Len(t) + 1) : LaterIn(G, t, i) /\ <<"term", i>> \in G => <<"expr", i>> \in G
  PROVE  \A kind \in Kinds, i \in 1 .. (Len(t) + 1) : <<kind, i>> \in G
<1>. DEFINE S == {m \in Nat : \A i \in 1 .. (Len(t) + 1) : i + m > Len(t) => \A kind \in Kinds : <<kind, i>> \in G}
<1>1. ASSUME NEW i \in 1 .. (Len(t) + 1), LaterIn(G, t, i) PROVE \A kind \in Kinds : <<kind, i>> \in G
  <2>1. <<"atom", i>> \in G
    BY <1>1
  <2>2. {<<"factor", i>>, <<"odd", i>>} \subseteq G
    BY <1>1, <2>1
  <2>3. <<"factor", i>> \in G /\ <<"odd", i>> \in G
    BY <2>2
  <2>4. <<"term", i>> \in G
    BY <1>1, <2>3
  <2>5. <<"expr", i>> \in G
    BY <1>1, <2>4
  <2>. QED
    BY <2>1, <2>3, <2>4, <2>5 DEF Kinds
<1>2. 0 \in S
  <2>. SUFFICES ASSUME NEW i \in 1 .. (Len(t) + 1), i + 0 > Len(t) PROVE \A kind \in Kinds : <<kind, i>> \in G
    OBVIOUS
  <2>1. i = Len(t) + 1
    OBVIOUS
  <2>2. (i + 1) .. (Len(t) + 1) = {}
    <3>1. Len(t) \in Nat
      OBVIOUS
    <3>. QED
      BY <2>1, <3>1
  <2>3. LaterIn(G, t, i)
    BY <2>2 DEF LaterIn
  <2>. QED
    BY <1>1, <2>3
<1>3. ASSUME NEW m \in Nat, m \in S PROVE m + 1 \in S
  <2>. SUFFICES ASSUME NEW i \in 1 .. (Len(t) + 1), i + (m + 1) > Len(t) PROVE \A kind \in Kinds : <<kind, i>> \in G
    OBVIOUS
  <2>1. \A k \in 1 .. (Len(t) + 1) : k + m > Len(t) => \A kind \in Kinds : <<kind, k>> \in G
    BY <1>3
  <2>2. \A k \in (i + 1) .. (Len(t) + 1) : k \in 1 .. (Len(t) + 1) /\ k + m > Len(t)
    OBVIOUS
  <2>3. LaterIn(G, t, i)
    BY <2>1, <2>2 DEF LaterIn
  <2>. QED
    BY <1>1, <2>3
<1>4. \A m \in Nat : m \in S
  <2>. HIDE DEF S
  <2>. QED
    BY <1>2, <1>3, AllNumbers
<1>5. Len(t) \in S
  <2>1. Len(t) \in Nat
    OBVIOUS
  <2>. HIDE DEF S
  <2>. QED
    BY <1>4, <2>1
<1>6. \A i \in 1 .. (Len(t) + 1) : i + Len(t) > Len(t)
  OBVIOUS
<1>. QED
  BY <1>5, <1>6

----------------------------------------------------------------------------
(* The table of the derivations *)

LEMMA ExprTreesAre ==
  ASSUME NEW d, NEW t, NEW i, NEW j, NEW n
  PROVE  n \in ExprTrees(d, t, i, j) <=>
           \/ n \in d[<<"term", i, j>>]
           \/ \E k \in Occurs("|", t, i, j) : \E l \in d[<<"term", i, k - 1>>], r \in d[<<"expr", k + 1, j>>] : n = OrNode(l, r)
<1>. DEFINE A(k) == {OrNode(l, r) : l \in d[<<"term", i, k - 1>>], r \in d[<<"expr", k + 1, j>>]}
<1>1. \A k : n \in A(k) <=> \E l \in d[<<"term", i, k - 1>>], r \in d[<<"expr", k + 1, j>>] : n = OrNode(l, r)
  OBVIOUS
<1>2. ExprTrees(d, t, i, j) = d[<<"term", i, j>>] \cup UNION {A(k) : k \in Occurs("|", t, i, j)}
  BY DEF ExprTrees
<1>. HIDE DEF A
<1>3. n \in UNION {A(k) : k \in Occurs("|", t, i, j)} <=> \E k \in Occurs("|", t, i, j) : n \in A(k)
  OBVIOUS
<1>. QED
  BY <1>1, <1>2, <1>3

LEMMA TermTreesAre ==
  ASSUME NEW d, NEW t, NEW i, NEW j, NEW n
  PROVE  n \in TermTrees(d, t, i, j) <=>
           \/ n \in d[<<"factor", i, j>>]
           \/ \E k \in Occurs("&", t, i, j) : \E l \in d[<<"factor", i, k - 1>>], r \in d[<<"term", k + 1, j>>] : n = AndNode(l, r)
<1>. DEFINE A(k) == {AndNode(l, r) : l \in d[<<"factor", i, k - 1>>], r \in d[<<"term", k + 1, j>>]}
<1>1. \A k : n \in A(k) <=> \E l \in d[<<"factor", i, k - 1>>], r \in d[<<"term", k + 1, j>>] : n = AndNode(l, r)
  OBVIOUS
<1>2. TermTrees(d, t, i, j) = d[<<"factor", i, j>>] \cup UNION {A(k) : k \in Occurs("&", t, i, j)}
  BY DEF TermTrees
<1>. HIDE DEF A
<1>3. n \in UNION {A(k) : k \in Occurs("&", t, i, j)} <=> \E k \in Occurs("&", t, i, j) : n \in A(k)
  OBVIOUS
<1>. QED
  BY <1>1, <1>2, <1>3

\* The first and the last solid character of a part of the text.
LEMMA SolidEnds ==
  ASSUME NEW t \in Seq(STRING), NEW i \in 1 .. (Len(t) + 1), NEW j \in 0 .. Len(t), Solid(t, i, j) # {}
  PROVE  /\ Min(Solid(t, i, j)) \in i .. j /\ t[Min(Solid(t, i, j))] # Blank
         /\ Max(Solid(t, i, j)) \in i .. j /\ t[Max(Solid(t, i, j))] # Blank
         /\ \A k \in i .. j : t[k] # Blank => Min(Solid(t, i, j)) <= k /\ k <= Max(Solid(t, i, j))
<1>1. Solid(t, i, j) \in SUBSET Nat /\ Solid(t, i, j) \in SUBSET (0 .. Len(t))
  BY DEF Solid
<1>2. \E k \in Solid(t, i, j) : \A m \in Solid(t, i, j) : k <= m
  BY <1>1, LeastNumber
<1>3. Min(Solid(t, i, j)) \in Solid(t, i, j) /\ \A m \in Solid(t, i, j) : Min(Solid(t, i, j)) <= m
  BY <1>2 DEF Min
<1>4. \E k \in Solid(t, i, j) : \A m \in Solid(t, i, j) : k >= m
  <2>1. Len(t) \in Nat
    OBVIOUS
  <2>2. PICK k \in Solid(t, i, j) : \A m \in Solid(t, i, j) : m <= k
    BY <1>1, <2>1, GreatestNumber
  <2>3. \A m \in Solid(t, i, j) : k >= m
    BY <2>2
  <2>. QED
    BY <2>3
<1>5. Max(Solid(t, i, j)) \in Solid(t, i, j) /\ \A m \in Solid(t, i, j) : Max(Solid(t, i, j)) >= m
  BY <1>4 DEF Max
<1>6. \A k : k \in Solid(t, i, j) <=> k \in i .. j /\ t[k] # Blank
  BY DEF Solid
<1>. QED
  BY <1>1, <1>3, <1>5, <1>6

Spans(t) == Kinds \X (1 .. (Len(t) + 1)) \X (0 .. Len(t))
Extent(i, j) == IF i <= j THEN j - i + 1 ELSE 0
SpanWeight(kind, i, j) == 4 * Extent(i, j) + Rank(kind)

\* Two tables have the same trees for the parts shorter than from i to j.
SameShorter(d, e, t, i, j) ==
  \A kind \in Kinds, i2 \in 1 .. (Len(t) + 1), j2 \in 0 .. Len(t) :
     Extent(i2, j2) < Extent(i, j) => d[<<kind, i2, j2>>] = e[<<kind, i2, j2>>]

LEMMA AtomTreesLocal ==
  ASSUME NEW t \in Seq(STRING), NEW i \in 1 .. (Len(t) + 1), NEW j \in 0 .. Len(t), NEW d, NEW e, SameShorter(d, e, t, i, j)
  PROVE  AtomTrees(d, t, i, j) = AtomTrees(e, t, i, j)
<1>1. PICK f, l : f = Min(Solid(t, i, j)) /\ l = Max(Solid(t, i, j))
  OBVIOUS
<1>. DEFINE name == {ValueNode(SubSeq(t, f, l))}
            quoted == IF Occurs(Quote, t, f, l) = {f, l} THEN {ValueNode(SubSeq(t, f + 1, l - 1))} ELSE {}
            R(inner) == IF Solid(t, i, j) = {} THEN {}
                        ELSE IF \A k \in f .. l : t[k] \in StringChars THEN name
                        ELSE IF l <= f + 1 THEN {}
                        ELSE IF t[f] = "(" /\ t[l] = ")" THEN inner ELSE quoted
<1>2. AtomTrees(d, t, i, j) = R(d[<<"expr", f + 1, l - 1>>]) /\ AtomTrees(e, t, i, j) = R(e[<<"expr", f + 1, l - 1>>])
  BY <1>1 DEF AtomTrees
<1>3. CASE Solid(t, i, j) # {} /\ ~ (l <= f + 1)
  <2>1. f \in i .. j /\ l \in i .. j
    BY <1>1, <1>3, SolidEnds
  <2>2. f + 1 \in 1 .. (Len(t) + 1) /\ l - 1 \in 0 .. Len(t) /\ Extent(f + 1, l - 1) < Extent(i, j)
    BY <1>3, <2>1 DEF Extent
  <2>3. d[<<"expr", f + 1, l - 1>>] = e[<<"expr", f + 1, l - 1>>]
    BY <2>2 DEF SameShorter, Kinds
  <2>. HIDE DEF R
  <2>. QED
    BY <1>2, <2>3
<1>4. CASE ~ (Solid(t, i, j) # {} /\ ~ (l <= f + 1))
  <2>. HIDE DEF name, quoted
  <2>1. \A a, b : R(a) = R(b)
    BY <1>4
  <2>. HIDE DEF R
  <2>. QED
    BY <1>2, <2>1
<1>. QED
  BY <1>3, <1>4

LEMMA FactorTreesLocal ==
  ASSUME NEW t \in Seq(STRING), NEW i \in 1 .. (Len(t) + 1), NEW j \in 0 .. Len(t), NEW even \in BOOLEAN, NEW d, NEW e,
         SameShorter(d, e, t, i, j), d[<<"atom", i, j>>] = e[<<"atom", i, j>>]
  PROVE  FactorTrees(d, t, i, j, even) = FactorTrees(e, t, i, j, even)
<1>1. PICK k : k = PastSpaces(t, i)
  OBVIOUS
<1>2. k \in i .. (Len(t) + 1)
  BY <1>1, PastAllStops DEF PastSpaces
<1>3. PICK kind \in Kinds : kind = IF even THEN "odd" ELSE "factor"
  BY DEF Kinds
<1>4. k <= j => d[<<kind, k + 1, j>>] = e[<<kind, k + 1, j>>]
  <2>. SUFFICES ASSUME k <= j PROVE d[<<kind, k + 1, j>>] = e[<<kind, k + 1, j>>]
    OBVIOUS
  <2>1. k + 1 \in 1 .. (Len(t) + 1) /\ Extent(k + 1, j) < Extent(i, j)
    BY <1>2 DEF Extent
  <2>. QED
    BY <2>1 DEF SameShorter
<1>. QED
  BY <1>1, <1>3, <1>4 DEF FactorTrees

LEMMA SplitSpans ==
  ASSUME NEW t \in Seq(STRING), NEW i \in 1 .. (Len(t) + 1), NEW j \in 0 .. Len(t), NEW c, NEW k \in Occurs(c, t, i, j)
  PROVE  /\ k \in i .. j /\ t[k] = c
         /\ k - 1 \in 0 .. Len(t) /\ k + 1 \in (i + 1) .. (Len(t) + 1) /\ k + 1 \in 1 .. (Len(t) + 1)
         /\ Extent(i, k - 1) < Extent(i, j) /\ Extent(k + 1, j) < Extent(i, j)
<1>1. k \in i .. j /\ t[k] = c
  BY DEF Occurs
<1>. QED
  BY <1>1 DEF Extent

LEMMA TermTreesLocal ==
  ASSUME NEW t \in Seq(STRING), NEW i \in 1 .. (Len(t) + 1), NEW j \in 0 .. Len(t), NEW d, NEW e,
         SameShorter(d, e, t, i, j), d[<<"factor", i, j>>] = e[<<"factor", i, j>>]
  PROVE  TermTrees(d, t, i, j) = TermTrees(e, t, i, j)
<1>1. ASSUME NEW k \in Occurs("&", t, i, j)
      PROVE  d[<<"factor", i, k - 1>>] = e[<<"factor", i, k - 1>>] /\ d[<<"term", k + 1, j>>] = e[<<"term", k + 1, j>>]
  BY SplitSpans DEF SameShorter, Kinds
<1>2. ASSUME NEW n PROVE n \in TermTrees(d, t, i, j) <=> n \in TermTrees(e, t, i, j)
  BY <1>1, TermTreesAre
<1>. QED
  BY <1>2

LEMMA ExprTreesLocal ==
  ASSUME NEW t \in Seq(STRING), NEW i \in 1 .. (Len(t) + 1), NEW j \in 0 .. Len(t), NEW d, NEW e,
         SameShorter(d, e, t, i, j), d[<<"term", i, j>>] = e[<<"term", i, j>>]
  PROVE  ExprTrees(d, t, i, j) = ExprTrees(e, t, i, j)
<1>1. ASSUME NEW k \in Occurs("|", t, i, j)
      PROVE  d[<<"term", i, k - 1>>] = e[<<"term", i, k - 1>>] /\ d[<<"expr", k + 1, j>>] = e[<<"expr", k + 1, j>>]
  BY SplitSpans DEF SameShorter, Kinds
<1>2. ASSUME NEW n PROVE n \in ExprTrees(d, t, i, j) <=> n \in ExprTrees(e, t, i, j)
  BY <1>1, ExprTreesAre
<1>. QED
  BY <1>2

\* Two tables have the same trees for the parts of less weight.
SameLighter(d, e, t, kind, i, j) ==
  \A kind2 \in Kinds, i2 \in 1 .. (Len(t) + 1), j2 \in 0 .. Len(t) :
     SpanWeight(kind2, i2, j2) < SpanWeight(kind, i, j) => d[<<kind2, i2, j2>>] = e[<<kind2, i2, j2>>]

LEMMA SpanLocal ==
  ASSUME NEW t \in Seq(STRING), NEW d, NEW e, NEW kind \in Kinds, NEW i \in 1 .. (Len(t) + 1), NEW j \in 0 .. Len(t),
         SameLighter(d, e, t, kind, i, j)
  PROVE  TreesAt(d, t, <<kind, i, j>>) = TreesAt(e, t, <<kind, i, j>>)
<1>1. SameShorter(d, e, t, i, j)
  <2>. SUFFICES ASSUME NEW kind2 \in Kinds, NEW i2 \in 1 .. (Len(t) + 1), NEW j2 \in 0 .. Len(t), Extent(i2, j2) < Extent(i, j)
                PROVE  d[<<kind2, i2, j2>>] = e[<<kind2, i2, j2>>]
    BY DEF SameShorter
  <2>1. Rank(kind2) \in 0 .. 3 /\ Rank(kind) \in 0 .. 3
    BY DEF Rank
  <2>2. Extent(i2, j2) \in Nat /\ Extent(i, j) \in Nat
    BY DEF Extent
  <2>3. SpanWeight(kind2, i2, j2) = 4 * Extent(i2, j2) + Rank(kind2) /\ SpanWeight(kind, i, j) = 4 * Extent(i, j) + Rank(kind)
    BY DEF SpanWeight
  <2>4. SpanWeight(kind2, i2, j2) < SpanWeight(kind, i, j)
    BY <2>1, <2>2, <2>3
  <2>. QED
    BY <2>4 DEF SameLighter
<1>2. \A kind2 \in Kinds : Rank(kind2) < Rank(kind) => d[<<kind2, i, j>>] = e[<<kind2, i, j>>]
  <2>. SUFFICES ASSUME NEW kind2 \in Kinds, Rank(kind2) < Rank(kind) PROVE d[<<kind2, i, j>>] = e[<<kind2, i, j>>]
    OBVIOUS
  <2>1. Rank(kind2) \in 0 .. 3 /\ Rank(kind) \in 0 .. 3 /\ Extent(i, j) \in Nat
    BY DEF Rank, Extent
  <2>2. SpanWeight(kind2, i, j) < SpanWeight(kind, i, j)
    BY <2>1 DEF SpanWeight
  <2>. QED
    BY <2>2 DEF SameLighter
<1>3. CASE kind = "atom"
  <2>1. TreesAt(d, t, <<kind, i, j>>) = AtomTrees(d, t, i, j) /\ TreesAt(e, t, <<kind, i, j>>) = AtomTrees(e, t, i, j)
    BY <1>3 DEF TreesAt
  <2>. QED
    BY <1>1, <2>1, AtomTreesLocal
<1>4. CASE kind \in {"factor", "odd"}
  <2>1. PICK even \in BOOLEAN : even = (kind = "factor")
    OBVIOUS
  <2>2. TreesAt(d, t, <<kind, i, j>>) = FactorTrees(d, t, i, j, even) /\ TreesAt(e, t, <<kind, i, j>>) = FactorTrees(e, t, i, j, even)
    <3>1. CASE kind = "factor"
      BY <2>1, <3>1 DEF TreesAt
    <3>2. CASE kind = "odd"
      BY <2>1, <3>2 DEF TreesAt
    <3>. QED
      BY <1>4, <3>1, <3>2
  <2>3. d[<<"atom", i, j>>] = e[<<"atom", i, j>>]
    BY <1>2, <1>4 DEF Rank, Kinds
  <2>. QED
    BY <1>1, <2>2, <2>3, FactorTreesLocal
<1>5. CASE kind = "term"
  <2>1. TreesAt(d, t, <<kind, i, j>>) = TermTrees(d, t, i, j) /\ TreesAt(e, t, <<kind, i, j>>) = TermTrees(e, t, i, j)
    BY <1>5 DEF TreesAt
  <2>2. d[<<"factor", i, j>>] = e[<<"factor", i, j>>]
    BY <1>2, <1>5 DEF Rank, Kinds
  <2>. QED
    BY <1>1, <2>1, <2>2, TermTreesLocal
<1>6. CASE kind = "expr"
  <2>1. TreesAt(d, t, <<kind, i, j>>) = ExprTrees(d, t, i, j) /\ TreesAt(e, t, <<kind, i, j>>) = ExprTrees(e, t, i, j)
    BY <1>6 DEF TreesAt
  <2>2. d[<<"term", i, j>>] = e[<<"term", i, j>>]
    BY <1>2, <1>6 DEF Rank, Kinds
  <2>. QED
    BY <1>1, <2>1, <2>2, ExprTreesLocal
<1>. QED
  BY <1>3, <1>4, <1>5, <1>6 DEF Kinds

\* A table that is right for the parts of less than a weight.
TreesBelow(d, t, w) ==
  \A kind \in Kinds, i \in 1 .. (Len(t) + 1), j \in 0 .. Len(t) :
     SpanWeight(kind, i, j) < w => d[<<kind, i, j>>] = TreesAt(d, t, <<kind, i, j>>)

LEMMA SpanWeightRange ==
  ASSUME NEW t \in Seq(STRING)
  PROVE  \A kind \in Kinds, i \in 1 .. (Len(t) + 1), j \in 0 .. Len(t) :
            SpanWeight(kind, i, j) \in Nat /\ ~ (SpanWeight(kind, i, j) < 0) /\ SpanWeight(kind, i, j) < 4 * Len(t) + 4
<1>. SUFFICES ASSUME NEW kind \in Kinds, NEW i \in 1 .. (Len(t) + 1), NEW j \in 0 .. Len(t)
              PROVE  SpanWeight(kind, i, j) \in Nat /\ ~ (SpanWeight(kind, i, j) < 0) /\ SpanWeight(kind, i, j) < 4 * Len(t) + 4
  OBVIOUS
<1>1. Rank(kind) \in 0 .. 3
  BY DEF Rank
<1>2. Extent(i, j) \in 0 .. Len(t)
  BY DEF Extent
<1>3. SpanWeight(kind, i, j) = 4 * Extent(i, j) + Rank(kind)
  BY DEF SpanWeight
<1>. QED
  BY <1>1, <1>2, <1>3

LEMMA TreeTablesRight ==
  ASSUME NEW t \in Seq(STRING)
  PROVE  \A w \in Nat : \E d : TreesBelow(d, t, w)
<1>. DEFINE S == {w \in Nat : \E d : TreesBelow(d, t, w)}
<1>1. 0 \in S
  <2>1. TreesBelow(<<>>, t, 0)
    <3>1. \A kind \in Kinds, i \in 1 .. (Len(t) + 1), j \in 0 .. Len(t) : ~ (SpanWeight(kind, i, j) < 0)
      BY SpanWeightRange
    <3>. QED
      BY <3>1 DEF TreesBelow
  <2>. QED
    BY <2>1
<1>2. ASSUME NEW w \in Nat, w \in S PROVE w + 1 \in S
  <2>1. PICK d : TreesBelow(d, t, w)
    BY <1>2
  <2>. DEFINE e == [c \in Spans(t) |-> IF SpanWeight(c[1], c[2], c[3]) = w THEN TreesAt(d, t, c) ELSE d[c]]
  <2>2. \A kind \in Kinds, i \in 1 .. (Len(t) + 1), j \in 0 .. Len(t) :
           e[<<kind, i, j>>] = IF SpanWeight(kind, i, j) = w THEN TreesAt(d, t, <<kind, i, j>>) ELSE d[<<kind, i, j>>]
    BY DEF Spans
  <2>. HIDE DEF e
  <2>3. \A kind \in Kinds, i \in 1 .. (Len(t) + 1), j \in 0 .. Len(t) : SpanWeight(kind, i, j) \in Nat
    BY SpanWeightRange
  <2>4. \A kind \in Kinds, i \in 1 .. (Len(t) + 1), j \in 0 .. Len(t) :
           SpanWeight(kind, i, j) < w => d[<<kind, i, j>>] = e[<<kind, i, j>>]
    BY <2>2, <2>3
  <2>5. ASSUME NEW kind \in Kinds, NEW i \in 1 .. (Len(t) + 1), NEW j \in 0 .. Len(t), SpanWeight(kind, i, j) < w + 1
        PROVE  e[<<kind, i, j>>] = TreesAt(e, t, <<kind, i, j>>)
    <3>1. SameLighter(d, e, t, kind, i, j)
      BY <2>3, <2>4, <2>5 DEF SameLighter
    <3>2. TreesAt(d, t, <<kind, i, j>>) = TreesAt(e, t, <<kind, i, j>>)
      BY <3>1, SpanLocal
    <3>3. CASE SpanWeight(kind, i, j) = w
      BY <2>2, <3>2, <3>3
    <3>4. CASE SpanWeight(kind, i, j) # w
      <4>1. SpanWeight(kind, i, j) < w
        BY <2>3, <2>5, <3>4
      <4>2. d[<<kind, i, j>>] = TreesAt(d, t, <<kind, i, j>>) /\ e[<<kind, i, j>>] = d[<<kind, i, j>>]
        BY <2>1, <2>4, <4>1 DEF TreesBelow
      <4>. QED
        BY <3>2, <4>2
    <3>. QED
      BY <3>3, <3>4
  <2>6. TreesBelow(e, t, w + 1)
    BY <2>5 DEF TreesBelow
  <2>. QED
    BY <2>6
<1>3. \A w \in Nat : w \in S
  <2>. HIDE DEF S
  <2>. QED
    BY <1>1, <1>2, AllNumbers
<1>. QED
  BY <1>3

\* The table of the derivations is what the grammar says.
LEMMA DerivationsRight ==
  ASSUME NEW t \in Seq(STRING), NEW i \in 1 .. (Len(t) + 1), NEW j \in 0 .. Len(t), NEW d, d = Derivations(t)
  PROVE  /\ d[<<"expr", i, j>>] = ExprTrees(d, t, i, j)
         /\ d[<<"term", i, j>>] = TermTrees(d, t, i, j)
         /\ d[<<"factor", i, j>>] = FactorTrees(d, t, i, j, TRUE)
         /\ d[<<"odd", i, j>>] = FactorTrees(d, t, i, j, FALSE)
         /\ d[<<"atom", i, j>>] = AtomTrees(d, t, i, j)
<1>1. PICK q : TreesBelow(q, t, 4 * Len(t) + 4)
  <2>1. 4 * Len(t) + 4 \in Nat
    OBVIOUS
  <2>. QED
    BY <2>1, TreeTablesRight
<1>. DEFINE r == [c \in Spans(t) |-> q[c]]
<1>2. \A kind \in Kinds, i2 \in 1 .. (Len(t) + 1), j2 \in 0 .. Len(t) : q[<<kind, i2, j2>>] = TreesAt(q, t, <<kind, i2, j2>>)
  <2>1. \A kind \in Kinds, i2 \in 1 .. (Len(t) + 1), j2 \in 0 .. Len(t) : SpanWeight(kind, i2, j2) < 4 * Len(t) + 4
    BY SpanWeightRange
  <2>. QED
    BY <1>1, <2>1 DEF TreesBelow
<1>3. \A kind \in Kinds, i2 \in 1 .. (Len(t) + 1), j2 \in 0 .. Len(t) : q[<<kind, i2, j2>>] = r[<<kind, i2, j2>>]
  BY DEF Spans
<1>4. ASSUME NEW kind \in Kinds, NEW i2 \in 1 .. (Len(t) + 1), NEW j2 \in 0 .. Len(t)
      PROVE  TreesAt(q, t, <<kind, i2, j2>>) = TreesAt(r, t, <<kind, i2, j2>>)
  <2>. HIDE DEF r
  <2>1. SameLighter(q, r, t, kind, i2, j2)
    BY <1>3 DEF SameLighter
  <2>. QED
    BY <2>1, SpanLocal
<1>5. r = [c \in Spans(t) |-> TreesAt(r, t, c)]
  <2>1. \A c \in Spans(t) : r[c] = TreesAt(r, t, c)
    <3>. SUFFICES ASSUME NEW c \in Spans(t) PROVE r[c] = TreesAt(r, t, c)
      OBVIOUS
    <3>1. PICK kind \in Kinds, i2 \in 1 .. (Len(t) + 1), j2 \in 0 .. Len(t) : c = <<kind, i2, j2>>
      BY DEF Spans
    <3>. HIDE DEF r
    <3>. QED
      BY <1>2, <1>3, <1>4, <3>1
  <2>2. r = [c \in Spans(t) |-> r[c]]
    OBVIOUS
  <2>. HIDE DEF r
  <2>. QED
    BY <2>1, <2>2
<1>. HIDE DEF r
<1>6. d = [c \in Spans(t) |-> TreesAt(d, t, c)]
  <2>1. Derivations(t) = CHOOSE e : e = [c \in Spans(t) |-> TreesAt(e, t, c)]
    BY DEF Derivations, Spans
  <2>. QED
    BY <1>5, <2>1
<1>7. \A kind \in Kinds : d[<<kind, i, j>>] = TreesAt(d, t, <<kind, i, j>>)
  BY <1>6 DEF Spans
<1>8. /\ d[<<"expr", i, j>>] = TreesAt(d, t, <<"expr", i, j>>)
      /\ d[<<"term", i, j>>] = TreesAt(d, t, <<"term", i, j>>)
      /\ d[<<"factor", i, j>>] = TreesAt(d, t, <<"factor", i, j>>)
      /\ d[<<"odd", i, j>>] = TreesAt(d, t, <<"odd", i, j>>)
      /\ d[<<"atom", i, j>>] = TreesAt(d, t, <<"atom", i, j>>)
  BY <1>7 DEF Kinds
<1>9. /\ TreesAt(d, t, <<"expr", i, j>>) = ExprTrees(d, t, i, j)
      /\ TreesAt(d, t, <<"term", i, j>>) = TermTrees(d, t, i, j)
      /\ TreesAt(d, t, <<"factor", i, j>>) = FactorTrees(d, t, i, j, TRUE)
      /\ TreesAt(d, t, <<"odd", i, j>>) = FactorTrees(d, t, i, j, FALSE)
      /\ TreesAt(d, t, <<"atom", i, j>>) = AtomTrees(d, t, i, j)
  BY DEF TreesAt
<1>. QED
  BY <1>8, <1>9

----------------------------------------------------------------------------
(* Every derivation of a part of the text that ends where a part of its     *)
(* kind may end is what the parse function returns                          *)

LEMMA SpacesStop ==
  ASSUME NEW t \in Seq(STRING), NEW i \in 1 .. (Len(t) + 1)
  PROVE  /\ PastSpaces(t, i) \in i .. (Len(t) + 1)
         /\ PastSpaces(t, i) = Len(t) + 1 \/ t[PastSpaces(t, i)] # Blank
         /\ \A k \in i .. (PastSpaces(t, i) - 1) : t[k] = Blank
<1>1. PastSpaces(t, i) = PastAll(t, i, {Blank})
  BY DEF PastSpaces
<1>2. /\ PastAll(t, i, {Blank}) \in i .. (Len(t) + 1)
      /\ PastAll(t, i, {Blank}) = Len(t) + 1 \/ t[PastAll(t, i, {Blank})] \notin {Blank}
      /\ \A k \in i .. (PastAll(t, i, {Blank}) - 1) : t[k] \in {Blank}
  BY PastAllStops
<1>. QED
  BY <1>1, <1>2

LEMMA SpacesAre ==
  ASSUME NEW t \in Seq(STRING), NEW i \in 1 .. (Len(t) + 1), NEW j \in i .. (Len(t) + 1),
         j = Len(t) + 1 \/ t[j] # Blank,
         \A k \in i .. (j - 1) : t[k] = Blank
  PROVE  PastSpaces(t, i) = j
<1>1. j = Len(t) + 1 \/ t[j] \notin {Blank}
  OBVIOUS
<1>2. \A k \in i .. (j - 1) : t[k] \in {Blank}
  OBVIOUS
<1>. QED
  BY <1>1, <1>2, PastAllIs DEF PastSpaces

\* A token is seen at the first character that is not blank.
LEMMA TokenIs ==
  ASSUME NEW t \in Seq(STRING), NEW i \in 1 .. (Len(t) + 1), NEW j, PastSpaces(t, i) = j
  PROVE  /\ \A c : TokenSeen(t, i, c) <=> j <= Len(t) /\ t[j] = c
         /\ PastToken(t, i) = j + 1
BY DEF TokenSeen, PastToken

LEMMA NamesArePlain ==
  /\ Blank \notin StringChars /\ Quote \notin StringChars /\ "!" \notin StringChars /\ "&" \notin StringChars
  /\ "|" \notin StringChars /\ "(" \notin StringChars /\ ")" \notin StringChars
BY StringCharsAssumption

\* What may follow a part of a kind.
FollowOf(kind) == IF kind = "expr" THEN {")"} ELSE IF kind = "term" THEN {")", "|"} ELSE {")", "|", "&"}
MayEnd(t, kind, j) == j = Len(t) \/ t[j + 1] \in FollowOf(kind)

Returns(r, t, n, j) == ~Failed(r) /\ r.node = n /\ PastSpaces(t, r.next) = j + 1
Complete(p, d, t, kind, i) ==
  \A j \in 0 .. Len(t) : MayEnd(t, kind, j) => \A n \in d[<<kind, i, j>>] : Returns(p[<<kind, i>>], t, n, j)
CompleteLater(p, d, t, i) == \A kind \in Kinds, k \in (i + 1) .. (Len(t) + 1) : Complete(p, d, t, kind, k)

\* After the last solid character of a part only blanks are skipped.
LEMMA EndSkipped ==
  ASSUME NEW t \in Seq(STRING), NEW i \in 1 .. (Len(t) + 1), NEW j \in 0 .. Len(t), NEW kind, MayEnd(t, kind, j),
         NEW l \in i .. j, \A k \in i .. j : t[k] # Blank => k <= l
  PROVE  PastSpaces(t, l + 1) = j + 1 /\ (l + 1 = Len(t) + 1 \/ t[l + 1] \notin StringChars)
<1>1. \A k \in (l + 1) .. j : t[k] = Blank
  <2>1. \A k \in (l + 1) .. j : k \in i .. j /\ ~ (k <= l)
    OBVIOUS
  <2>. QED
    BY <2>1
<1>2. j + 1 = Len(t) + 1 \/ (t[j + 1] # Blank /\ t[j + 1] \notin StringChars)
  BY NamesArePlain DEF MayEnd, FollowOf, Blank
<1>3. l + 1 \in 1 .. (Len(t) + 1) /\ j + 1 \in (l + 1) .. (Len(t) + 1) /\ (j + 1) - 1 = j
  OBVIOUS
<1>4. PastSpaces(t, l + 1) = j + 1
  BY <1>1, <1>2, <1>3, SpacesAre
<1>5. CASE l = j
  BY <1>2, <1>4, <1>5
<1>6. CASE l # j
  <2>1. l + 1 \in (l + 1) .. j
    BY <1>6
  <2>. QED
    BY <1>1, <1>4, <2>1, NamesArePlain
<1>. QED
  BY <1>5, <1>6

LEMMA AtomComplete ==
  ASSUME NEW t \in Seq(STRING), NEW i \in 1 .. (Len(t) + 1), NEW p, p = Parses(t), NEW d, d = Derivations(t), CompleteLater(p, d, t, i)
  PROVE  Complete(p, d, t, "atom", i)
<1>. SUFFICES ASSUME NEW j \in 0 .. Len(t), MayEnd(t, "atom", j), NEW n \in d[<<"atom", i, j>>]
              PROVE  Returns(p[<<"atom", i>>], t, n, j)
  BY DEF Complete
<1>1. n \in AtomTrees(d, t, i, j) /\ p[<<"atom", i>>] = ParseAtom(p, t, i)
  BY DerivationsRight, ParsesRight
<1>2. PICK f, l : f = Min(Solid(t, i, j)) /\ l = Max(Solid(t, i, j))
  OBVIOUS
<1>3. Solid(t, i, j) # {}
  BY <1>1 DEF AtomTrees
<1>4. /\ f \in i .. j /\ t[f] # Blank /\ l \in i .. j /\ t[l] # Blank
      /\ \A k \in i .. j : t[k] # Blank => f <= k /\ k <= l
  BY <1>2, <1>3, SolidEnds
<1>5. f <= l /\ f \in 1 .. Len(t) /\ l \in 1 .. Len(t)
  BY <1>4
<1>6. PastSpaces(t, i) = f
  <2>1. \A k \in i .. (f - 1) : t[k] = Blank
    <3>1. \A k \in i .. (f - 1) : k \in i .. j /\ ~ (f <= k)
      BY <1>4
    <3>. QED
      BY <1>4, <3>1
  <2>2. f \in i .. (Len(t) + 1)
    BY <1>4
  <2>. QED
    BY <1>4, <2>1, <2>2, SpacesAre
<1>7. PastSpaces(t, l + 1) = j + 1 /\ (l + 1 = Len(t) + 1 \/ t[l + 1] \notin StringChars)
  BY <1>4, EndSkipped
<1>8. (\A c : TokenSeen(t, i, c) <=> f <= Len(t) /\ t[f] = c) /\ PastToken(t, i) = f + 1
  BY <1>6, TokenIs
<1>9. ASSUME NEW r, r = Parsed(n, l + 1), p[<<"atom", i>>] = r PROVE Returns(p[<<"atom", i>>], t, n, j)
  <2>1. ~Failed(r) /\ r.node = n /\ r.next = l + 1
    BY <1>9, ParsedResult
  <2>. QED
    BY <1>7, <1>9, <2>1 DEF Returns
<1>. DEFINE name == \A k \in f .. l : t[k] \in StringChars
<1>10. CASE name
  <2>1. n = ValueNode(SubSeq(t, f, l))
    BY <1>1, <1>2, <1>3, <1>10 DEF AtomTrees
  <2>2. t[f] \in StringChars
    BY <1>5, <1>10
  <2>3. ~TokenSeen(t, i, "(") /\ ~TokenSeen(t, i, Quote)
    BY <1>8, <2>2, NamesArePlain
  <2>4. PastAll(t, f, StringChars) = l + 1
    <3>1. f \in 1 .. (Len(t) + 1) /\ l + 1 \in f .. (Len(t) + 1) /\ (l + 1) - 1 = l
      BY <1>5
    <3>. QED
      BY <1>7, <1>10, <3>1, PastAllIs
  <2>5. l + 1 # f /\ (l + 1) - 1 = l
    BY <1>5
  <2>6. ParseAtom(p, t, i) = Parsed(n, l + 1)
    BY <1>6, <2>1, <2>3, <2>4, <2>5 DEF ParseAtom, ParseString
  <2>. QED
    BY <1>1, <1>9, <2>6
<1>11. CASE ~name /\ t[f] = "(" /\ t[l] = ")" /\ ~ (l <= f + 1)
  <2>1. n \in d[<<"expr", f + 1, l - 1>>]
    <3>. HIDE DEF name
    <3>. QED
      BY <1>1, <1>2, <1>3, <1>11 DEF AtomTrees, name
  <2>2. f + 1 \in (i + 1) .. (Len(t) + 1) /\ l - 1 \in 0 .. Len(t) /\ (l - 1) + 1 = l
    BY <1>4, <1>5
  <2>3. MayEnd(t, "expr", l - 1)
    BY <1>11, <2>2 DEF MayEnd, FollowOf
  <2>4. PICK inner : inner = p[<<"expr", f + 1>>]
    OBVIOUS
  <2>5. Returns(inner, t, n, l - 1)
    BY <2>1, <2>2, <2>3, <2>4 DEF CompleteLater, Complete, Kinds
  <2>6. ~Failed(inner) /\ inner.node = n /\ PastSpaces(t, inner.next) = l
    BY <2>2, <2>5 DEF Returns
  <2>7. inner.next \in 1 .. (Len(t) + 1)
    <3>1. f + 1 \in 1 .. (Len(t) + 1)
      BY <1>5
    <3>2. Advances(t, f + 1, inner)
      BY <2>4, <3>1, ParsesRight DEF Kinds
    <3>. QED
      BY <2>6, <3>1, <3>2 DEF Advances
  <2>8. TokenSeen(t, inner.next, ")") /\ PastToken(t, inner.next) = l + 1
    BY <1>5, <1>11, <2>6, <2>7, TokenIs
  <2>9. TokenSeen(t, i, "(")
    BY <1>5, <1>8, <1>11
  <2>10. ParseAtom(p, t, i) = Parsed(n, l + 1)
    BY <1>8, <2>4, <2>6, <2>8, <2>9 DEF ParseAtom
  <2>. QED
    BY <1>1, <1>9, <2>10
<1>12. CASE ~name /\ ~ (t[f] = "(" /\ t[l] = ")") /\ ~ (l <= f + 1)
  <2>1. Occurs(Quote, t, f, l) = {f, l} /\ n = ValueNode(SubSeq(t, f + 1, l - 1))
    <3>. HIDE DEF name
    <3>. QED
      BY <1>1, <1>2, <1>3, <1>12 DEF AtomTrees, name
  <2>2. t[f] = Quote /\ t[l] = Quote /\ \A k \in f .. l : t[k] = Quote => k \in {f, l}
    <3>1. \A k : k \in Occurs(Quote, t, f, l) <=> k \in f .. l /\ t[k] = Quote
      BY DEF Occurs
    <3>. QED
      BY <2>1, <3>1
  <2>. DEFINE closing == {k \in (f + 1) .. Len(t) : t[k] = Quote}
  <2>3. l \in closing
    BY <1>5, <1>12, <2>2
  <2>4. \A k \in closing : l <= k
    <3>. SUFFICES ASSUME NEW k \in (f + 1) .. Len(t), t[k] = Quote PROVE l <= k
      OBVIOUS
    <3>1. CASE k < l
      <4>1. k \in f .. l
        BY <1>5, <3>1
      <4>2. k \in {f, l}
        BY <2>2, <4>1
      <4>. QED
        BY <1>5, <3>1, <4>2
    <3>. QED
      BY <1>5, <3>1
  <2>5. closing # {} /\ Min(closing) = l
    <3>1. Min(closing) \in closing /\ \A k \in closing : Min(closing) <= k
      <4>. HIDE DEF closing
      <4>. QED
        BY <2>3, <2>4 DEF Min
    <3>2. \A k \in closing : k \in Int
      BY <1>5
    <3>. HIDE DEF closing
    <3>. QED
      BY <2>3, <2>4, <3>1, <3>2
  <2>6. l # f + 1
    BY <1>5, <1>12
  <2>7. ~TokenSeen(t, i, "(") /\ TokenSeen(t, i, Quote)
    <3>1. Quote # "(" /\ f <= Len(t)
      BY <1>5 DEF Quote
    <3>. QED
      BY <1>8, <2>2, <3>1
  <2>8. QuotedString(t, f) = Parsed(n, l + 1)
    <3>1. QuotedString(t, f) = IF closing = {} THEN Error("RUNAWAY_DOUBLE_QUOTES", f)
            ELSE IF Min(closing) = f + 1 THEN Error("EMPTY_QUOTED_STRING", f)
            ELSE Parsed(ValueNode(SubSeq(t, f + 1, Min(closing) - 1)), Min(closing) + 1)
      BY DEF QuotedString
    <3>. HIDE DEF closing
    <3>. QED
      BY <2>1, <2>5, <2>6, <3>1
  <2>9. ParseAtom(p, t, i) = Parsed(n, l + 1)
    BY <1>6, <2>7, <2>8 DEF ParseAtom, ParseString
  <2>. QED
    BY <1>1, <1>9, <2>9
<1>13. CASE ~name /\ l <= f + 1
  <2>. HIDE DEF name
  <2>. QED
    BY <1>1, <1>2, <1>3, <1>13 DEF AtomTrees, name
<1>. HIDE DEF name
<1>. QED
  BY <1>10, <1>11, <1>12, <1>13

LEMMA FactorComplete ==
  ASSUME NEW t \in Seq(STRING), NEW i \in 1 .. (Len(t) + 1), NEW p, p = Parses(t), NEW d, d = Derivations(t),
         CompleteLater(p, d, t, i), Complete(p, d, t, "atom", i), NEW kind \in {"factor", "odd"}
  PROVE  Complete(p, d, t, kind, i)
<1>. SUFFICES ASSUME NEW j \in 0 .. Len(t), MayEnd(t, kind, j), NEW n \in d[<<kind, i, j>>]
              PROVE  Returns(p[<<kind, i>>], t, n, j)
  BY DEF Complete
<1>1. PICK even \in BOOLEAN : even = (kind = "factor")
  OBVIOUS
<1>2. n \in FactorTrees(d, t, i, j, even) /\ p[<<kind, i>>] = ParseFactor(p, t, i, even)
  <2>1. /\ d[<<"factor", i, j>>] = FactorTrees(d, t, i, j, TRUE) /\ d[<<"odd", i, j>>] = FactorTrees(d, t, i, j, FALSE)
        /\ p[<<"factor", i>>] = ParseFactor(p, t, i, TRUE) /\ p[<<"odd", i>>] = ParseFactor(p, t, i, FALSE)
    BY DerivationsRight, ParsesRight
  <2>2. CASE kind = "factor"
    BY <1>1, <2>1, <2>2
  <2>3. CASE kind = "odd"
    BY <1>1, <2>1, <2>3
  <2>. QED
    BY <2>2, <2>3
<1>3. PICK k : k = PastSpaces(t, i)
  OBVIOUS
<1>4. k \in i .. (Len(t) + 1) /\ \A m \in i .. (k - 1) : t[m] = Blank
  BY <1>3, SpacesStop
<1>5. PICK other \in {"factor", "odd"} : other = IF even THEN "odd" ELSE "factor"
  OBVIOUS
<1>6. MayEnd(t, other, j) /\ MayEnd(t, "atom", j)
  BY DEF MayEnd, FollowOf
<1>7. TokenSeen(t, i, "!") <=> k <= Len(t) /\ t[k] = "!"
  BY <1>3, TokenIs
<1>8. CASE k <= j /\ t[k] = "!"
  <2>1. n \in d[<<other, k + 1, j>>]
    BY <1>2, <1>3, <1>5, <1>8 DEF FactorTrees
  <2>2. k <= Len(t) /\ k + 1 \in (i + 1) .. (Len(t) + 1)
    BY <1>4, <1>8
  <2>3. PastToken(t, i) = k + 1
    BY <1>3, TokenIs
  <2>4. p[<<kind, i>>] = p[<<other, k + 1>>]
    BY <1>2, <1>5, <1>7, <1>8, <2>2, <2>3 DEF ParseFactor
  <2>5. other \in Kinds
    BY DEF Kinds
  <2>6. Complete(p, d, t, other, k + 1)
    BY <2>2, <2>5 DEF CompleteLater
  <2>. QED
    BY <1>6, <2>1, <2>4, <2>6 DEF Complete
<1>9. CASE ~ (k <= j /\ t[k] = "!")
  <2>1. PICK a \in d[<<"atom", i, j>>] : n = IF even THEN a ELSE NotNode(a)
    BY <1>2, <1>3, <1>9 DEF FactorTrees
  <2>2. Returns(p[<<"atom", i>>], t, a, j)
    BY <1>6 DEF Complete
  <2>3. ~TokenSeen(t, i, "!")
    <3>1. CASE k <= j
      BY <1>7, <1>9, <3>1
    <3>2. CASE ~ (k <= j)
      <4>1. \A m \in i .. j : t[m] = Blank
        BY <1>4, <3>2
      <4>2. Solid(t, i, j) = {}
        BY <4>1 DEF Solid
      <4>3. a \in AtomTrees(d, t, i, j)
        BY DerivationsRight
      <4>. QED
        BY <4>2, <4>3 DEF AtomTrees
    <3>. QED
      BY <3>1, <3>2
  <2>4. PICK atom : atom = p[<<"atom", i>>]
    OBVIOUS
  <2>5. ~Failed(atom) /\ atom.node = a /\ PastSpaces(t, atom.next) = j + 1
    BY <2>2, <2>4 DEF Returns
  <2>6. p[<<kind, i>>] = IF even THEN atom ELSE Parsed(NotNode(a), atom.next)
    BY <1>2, <2>3, <2>4, <2>5 DEF ParseFactor
  <2>. QED
    BY <2>1, <2>5, <2>6, ParsedResult DEF Returns
<1>. QED
  BY <1>8, <1>9

LEMMA TermComplete ==
  ASSUME NEW t \in Seq(STRING), NEW i \in 1 .. (Len(t) + 1), NEW p, p = Parses(t), NEW d, d = Derivations(t),
         CompleteLater(p, d, t, i), Complete(p, d, t, "factor", i)
  PROVE  Complete(p, d, t, "term", i)
<1>. SUFFICES ASSUME NEW j \in 0 .. Len(t), MayEnd(t, "term", j), NEW n \in d[<<"term", i, j>>]
              PROVE  Returns(p[<<"term", i>>], t, n, j)
  BY DEF Complete
<1>1. n \in TermTrees(d, t, i, j) /\ p[<<"term", i>>] = ParseTerm(p, t, i)
  BY DerivationsRight, ParsesRight
<1>2. PICK left : left = p[<<"factor", i>>]
  OBVIOUS
<1>3. ~Failed(left) => left.next \in 1 .. (Len(t) + 1)
  <2>1. Advances(t, i, left)
    BY <1>2, ParsesRight DEF Kinds
  <2>. QED
    BY <2>1 DEF Advances
<1>4. CASE n \in d[<<"factor", i, j>>]
  <2>1. MayEnd(t, "factor", j)
    BY DEF MayEnd, FollowOf
  <2>2. Returns(left, t, n, j)
    BY <1>2, <1>4, <2>1 DEF Complete
  <2>3. ~Failed(left) /\ PastSpaces(t, left.next) = j + 1
    BY <2>2 DEF Returns
  <2>4. ~TokenSeen(t, left.next, "&")
    <3>1. TokenSeen(t, left.next, "&") => j + 1 <= Len(t) /\ t[j + 1] = "&"
      BY <1>3, <2>3, TokenIs
    <3>2. ~ (j + 1 <= Len(t) /\ t[j + 1] = "&")
      BY DEF MayEnd, FollowOf
    <3>. QED
      BY <3>1, <3>2
  <2>. QED
    BY <1>1, <1>2, <2>2, <2>4 DEF ParseTerm
<1>5. CASE n \notin d[<<"factor", i, j>>]
  <2>1. PICK k \in Occurs("&", t, i, j) : \E l \in d[<<"factor", i, k - 1>>], r \in d[<<"term", k + 1, j>>] : n = AndNode(l, r)
    <3>1. \/ n \in d[<<"factor", i, j>>]
          \/ \E k \in Occurs("&", t, i, j) : \E l \in d[<<"factor", i, k - 1>>], r \in d[<<"term", k + 1, j>>] : n = AndNode(l, r)
      BY <1>1, TermTreesAre
    <3>. QED
      BY <1>5, <3>1
  <2>2. PICK l \in d[<<"factor", i, k - 1>>], r \in d[<<"term", k + 1, j>>] : n = AndNode(l, r)
    BY <2>1
  <2>3. k \in i .. j /\ t[k] = "&" /\ k - 1 \in 0 .. Len(t) /\ k + 1 \in (i + 1) .. (Len(t) + 1) /\ (k - 1) + 1 = k
    BY SplitSpans
  <2>4. Returns(left, t, l, k - 1)
    <3>1. MayEnd(t, "factor", k - 1)
      BY <2>3 DEF MayEnd, FollowOf
    <3>. QED
      BY <1>2, <2>3, <3>1 DEF Complete
  <2>5. ~Failed(left) /\ left.node = l /\ PastSpaces(t, left.next) = k
    BY <2>3, <2>4 DEF Returns
  <2>6. TokenSeen(t, left.next, "&") /\ PastToken(t, left.next) = k + 1
    <3>1. k <= Len(t)
      BY <2>3
    <3>. QED
      BY <1>3, <2>3, <2>5, <3>1, TokenIs
  <2>7. PICK right : right = p[<<"term", k + 1>>]
    OBVIOUS
  <2>8. Returns(right, t, r, j)
    <3>1. Complete(p, d, t, "term", k + 1)
      BY <2>3 DEF CompleteLater, Kinds
    <3>. QED
      BY <2>7, <3>1 DEF Complete
  <2>9. ~Failed(right) /\ right.node = r /\ PastSpaces(t, right.next) = j + 1
    BY <2>8 DEF Returns
  <2>10. p[<<"term", i>>] = Parsed(n, right.next)
    BY <1>1, <1>2, <2>2, <2>5, <2>6, <2>7, <2>9 DEF ParseTerm
  <2>. QED
    BY <2>9, <2>10, ParsedResult DEF Returns
<1>. QED
  BY <1>4, <1>5

LEMMA ExprComplete ==
  ASSUME NEW t \in Seq(STRING), NEW i \in 1 .. (Len(t) + 1), NEW p, p = Parses(t), NEW d, d = Derivations(t),
         CompleteLater(p, d, t, i), Complete(p, d, t, "term", i)
  PROVE  Complete(p, d, t, "expr", i)
<1>. SUFFICES ASSUME NEW j \in 0 .. Len(t), MayEnd(t, "expr", j), NEW n \in d[<<"expr", i, j>>]
              PROVE  Returns(p[<<"expr", i>>], t, n, j)
  BY DEF Complete
<1>1. n \in ExprTrees(d, t, i, j) /\ p[<<"expr", i>>] = ParseExpr(p, t, i)
  BY DerivationsRight, ParsesRight
<1>2. PICK left : left = p[<<"term", i>>]
  OBVIOUS
<1>3. ~Failed(left) => left.next \in 1 .. (Len(t) + 1)
  <2>1. Advances(t, i, left)
    BY <1>2, ParsesRight DEF Kinds
  <2>. QED
    BY <2>1 DEF Advances
<1>4. CASE n \in d[<<"term", i, j>>]
  <2>1. MayEnd(t, "term", j)
    BY DEF MayEnd, FollowOf
  <2>2. Returns(left, t, n, j)
    BY <1>2, <1>4, <2>1 DEF Complete
  <2>3. ~Failed(left) /\ PastSpaces(t, left.next) = j + 1
    BY <2>2 DEF Returns
  <2>4. ~TokenSeen(t, left.next, "|")
    <3>1. TokenSeen(t, left.next, "|") => j + 1 <= Len(t) /\ t[j + 1] = "|"
      BY <1>3, <2>3, TokenIs
    <3>2. ~ (j + 1 <= Len(t) /\ t[j + 1] = "|")
      BY DEF MayEnd, FollowOf
    <3>. QED
      BY <3>1, <3>2
  <2>. QED
    BY <1>1, <1>2, <2>2, <2>4 DEF ParseExpr
<1>5. CASE n \notin d[<<"term", i, j>>]
  <2>1. PICK k \in Occurs("|", t, i, j) : \E l \in d[<<"term", i, k - 1>>], r \in d[<<"expr", k + 1, j>>] : n = OrNode(l, r)
    <3>1. \/ n \in d[<<"term", i, j>>]
          \/ \E k \in Occurs("|", t, i, j) : \E l \in d[<<"term", i, k - 1>>], r \in d[<<"expr", k + 1, j>>] : n = OrNode(l, r)
      BY <1>1, ExprTreesAre
    <3>. QED
      BY <1>5, <3>1
  <2>2. PICK l \in d[<<"term", i, k - 1>>], r \in d[<<"expr", k + 1, j>>] : n = OrNode(l, r)
    BY <2>1
  <2>3. k \in i .. j /\ t[k] = "|" /\ k - 1 \in 0 .. Len(t) /\ k + 1 \in (i + 1) .. (Len(t) + 1) /\ (k - 1) + 1 = k
    BY SplitSpans
  <2>4. Returns(left, t, l, k - 1)
    <3>1. MayEnd(t, "term", k - 1)
      BY <2>3 DEF MayEnd, FollowOf
    <3>. QED
      BY <1>2, <2>3, <3>1 DEF Complete
  <2>5. ~Failed(left) /\ left.node = l /\ PastSpaces(t, left.next) = k
    BY <2>3, <2>4 DEF Returns
  <2>6. TokenSeen(t, left.next, "|") /\ PastToken(t, left.next) = k + 1
    <3>1. k <= Len(t)
      BY <2>3
    <3>. QED
      BY <1>3, <2>3, <2>5, <3>1, TokenIs
  <2>7. PICK right : right = p[<<"expr", k + 1>>]
    OBVIOUS
  <2>8. Returns(right, t, r, j)
    <3>1. Complete(p, d, t, "expr", k + 1)
      BY <2>3 DEF CompleteLater, Kinds
    <3>. QED
      BY <2>7, <3>1 DEF Complete
  <2>9. ~Failed(right) /\ right.node = r /\ PastSpaces(t, right.next) = j + 1
    BY <2>8 DEF Returns
  <2>10. p[<<"expr", i>>] = Parsed(n, right.next)
    BY <1>1, <1>2, <2>2, <2>5, <2>6, <2>7, <2>9 DEF ParseExpr
  <2>. QED
    BY <2>9, <2>10, ParsedResult DEF Returns
<1>. QED
  BY <1>4, <1>5

LEMMA AllComplete ==
  ASSUME NEW t \in Seq(STRING), NEW p, p = Parses(t), NEW d, d = Derivations(t)
  PROVE  \A kind \in Kinds, i \in 1 .. (Len(t) + 1) : Complete(p, d, t, kind, i)
<1>. DEFINE G == {c \in Calls(t) : Complete(p, d, t, c[1], c[2])}
<1>1. \A kind \in Kinds, i \in 1 .. (Len(t) + 1) : <<kind, i>> \in G <=> Complete(p, d, t, kind, i)
  BY DEF Calls
<1>. HIDE DEF G
<1>2. ASSUME NEW i \in 1 .. (Len(t) + 1), LaterIn(G, t, i) PROVE CompleteLater(p, d, t, i)
  <2>1. ASSUME NEW kind \in Kinds, NEW k \in (i + 1) .. (Len(t) + 1) PROVE Complete(p, d, t, kind, k)
    <3>1. <<kind, k>> \in G /\ k \in 1 .. (Len(t) + 1)
      BY <1>2 DEF LaterIn
    <3>. QED
      BY <1>1, <3>1
  <2>. QED
    BY <2>1 DEF CompleteLater
<1>3. ASSUME NEW i \in 1 .. (Len(t) + 1), LaterIn(G, t, i) PROVE <<"atom", i>> \in G
  BY <1>1, <1>2, <1>3, AtomComplete DEF Kinds
<1>4. ASSUME NEW i \in 1 .. (Len(t) + 1), LaterIn(G, t, i), <<"atom", i>> \in G PROVE {<<"factor", i>>, <<"odd", i>>} \subseteq G
  <2>1. CompleteLater(p, d, t, i) /\ Complete(p, d, t, "atom", i)
    BY <1>1, <1>2, <1>4 DEF Kinds
  <2>2. Complete(p, d, t, "factor", i) /\ Complete(p, d, t, "odd", i)
    BY <2>1, FactorComplete
  <2>. QED
    BY <1>1, <2>2 DEF Kinds
<1>5. ASSUME NEW i \in 1 .. (Len(t) + 1), LaterIn(G, t, i), <<"factor", i>> \in G PROVE <<"term", i>> \in G
  <2>1. CompleteLater(p, d, t, i) /\ Complete(p, d, t, "factor", i)
    BY <1>1, <1>2, <1>5 DEF Kinds
  <2>. QED
    BY <1>1, <2>1, TermComplete DEF Kinds
<1>6. ASSUME NEW i \in 1 .. (Len(t) + 1), LaterIn(G, t, i), <<"term", i>> \in G PROVE <<"expr", i>> \in G
  <2>1. CompleteLater(p, d, t, i) /\ Complete(p, d, t, "term", i)
    BY <1>1, <1>2, <1>6 DEF Kinds
  <2>. QED
    BY <1>1, <2>1, ExprComplete DEF Kinds
<1>. QED
  BY <1>1, <1>3, <1>4, <1>5, <1>6, CallInduction

----------------------------------------------------------------------------
(* What a parse function returns is a derivation of the part it has read,   *)
(* with any number of the blanks after it                                   *)

OnlyBlanks(t, m, j) == m <= j + 1 /\ \A k \in m .. j : t[k] = Blank
Sound(p, d, t, kind, i) ==
  ~Failed(p[<<kind, i>>]) =>
    \A j \in 0 .. Len(t) : OnlyBlanks(t, p[<<kind, i>>].next, j) => p[<<kind, i>>].node \in d[<<kind, i, j>>]
SoundLater(p, d, t, i) == \A kind \in Kinds, k \in (i + 1) .. (Len(t) + 1) : Sound(p, d, t, kind, k)

\* The solid part of a part that begins and ends with blanks.
LEMMA SolidIs ==
  ASSUME NEW t \in Seq(STRING), NEW i \in 1 .. (Len(t) + 1), NEW j \in 0 .. Len(t), NEW f \in i .. j, NEW l \in f .. j,
         t[f] # Blank, t[l] # Blank, \A k \in i .. (f - 1) : t[k] = Blank, \A k \in (l + 1) .. j : t[k] = Blank
  PROVE  Solid(t, i, j) # {} /\ Min(Solid(t, i, j)) = f /\ Max(Solid(t, i, j)) = l
<1>1. f \in Solid(t, i, j)
  BY DEF Solid
<1>2. PICK a, b : a = Min(Solid(t, i, j)) /\ b = Max(Solid(t, i, j))
  OBVIOUS
<1>3. /\ a \in i .. j /\ t[a] # Blank /\ b \in i .. j /\ t[b] # Blank
      /\ \A k \in i .. j : t[k] # Blank => a <= k /\ k <= b
  BY <1>1, <1>2, SolidEnds
<1>4. a <= f /\ l <= b /\ ~ (a \in i .. (f - 1)) /\ ~ (b \in (l + 1) .. j)
  BY <1>3
<1>5. a = f /\ b = l
  BY <1>3, <1>4
<1>. QED
  BY <1>1, <1>2, <1>5

LEMMA StringSound ==
  ASSUME NEW t \in Seq(STRING), NEW i \in 1 .. (Len(t) + 1), NEW d, NEW r, r = ParseString(t, i), ~Failed(r),
         NEW j \in 0 .. Len(t), OnlyBlanks(t, r.next, j)
  PROVE  r.node \in AtomTrees(d, t, i, j)
<1>1. PICK start, past : start = PastSpaces(t, i) /\ past = PastAll(t, start, StringChars)
  OBVIOUS
<1>2. start \in i .. (Len(t) + 1) /\ (start = Len(t) + 1 \/ t[start] # Blank) /\ \A k \in i .. (start - 1) : t[k] = Blank
  BY <1>1, SpacesStop
<1>3. CASE TokenSeen(t, i, Quote)
  <2>1. start <= Len(t) /\ t[start] = Quote
    BY <1>1, <1>3, TokenIs
  <2>. DEFINE closing == {k \in (start + 1) .. Len(t) : t[k] = Quote}
  <2>2. PICK l : l = Min(closing)
    OBVIOUS
  <2>3. r = IF closing = {} THEN Error("RUNAWAY_DOUBLE_QUOTES", start)
            ELSE IF l = start + 1 THEN Error("EMPTY_QUOTED_STRING", start)
            ELSE Parsed(ValueNode(SubSeq(t, start + 1, l - 1)), l + 1)
    <3>1. r = QuotedString(t, start)
      BY <1>1, <1>3 DEF ParseString
    <3>2. QuotedString(t, start) = IF closing = {} THEN Error("RUNAWAY_DOUBLE_QUOTES", start)
            ELSE IF Min(closing) = start + 1 THEN Error("EMPTY_QUOTED_STRING", start)
            ELSE Parsed(ValueNode(SubSeq(t, start + 1, Min(closing) - 1)), Min(closing) + 1)
      BY DEF QuotedString
    <3>. HIDE DEF closing
    <3>. QED
      BY <2>2, <3>1, <3>2
  <2>4. closing # {} /\ l # start + 1 /\ r.node = ValueNode(SubSeq(t, start + 1, l - 1)) /\ r.next = l + 1
    <3>. HIDE DEF closing
    <3>. QED
      BY <2>3, ParsedResult, ErrorFails
  <2>5. l \in closing /\ \A k \in closing : l <= k
    <3>1. closing \in SUBSET Nat
      BY <1>2
    <3>. HIDE DEF closing
    <3>2. \E k \in closing : \A m \in closing : k <= m
      BY <2>4, <3>1, LeastNumber
    <3>. QED
      BY <2>2, <3>2 DEF Min
  <2>6. l \in (start + 2) .. Len(t) /\ t[l] = Quote /\ \A k \in (start + 1) .. (l - 1) : t[k] # Quote
    <3>1. l \in (start + 1) .. Len(t) /\ t[l] = Quote
      BY <2>5
    <3>2. ASSUME NEW k \in (start + 1) .. (l - 1), t[k] = Quote PROVE FALSE
      <4>1. k \in closing /\ ~ (l <= k)
        BY <1>2, <3>1, <3>2
      <4>. QED
        BY <2>5, <4>1
    <3>. QED
      BY <1>2, <2>4, <3>1, <3>2
  <2>7. l + 1 <= j + 1 /\ \A k \in (l + 1) .. j : t[k] = Blank
    BY <2>4 DEF OnlyBlanks
  <2>8. Quote # Blank /\ Quote # "(" /\ Quote \notin StringChars
    BY NamesArePlain DEF Quote, Blank
  <2>9. start \in i .. j /\ l \in start .. j
    BY <1>2, <2>6, <2>7
  <2>10. Solid(t, i, j) # {} /\ Min(Solid(t, i, j)) = start /\ Max(Solid(t, i, j)) = l
    BY <1>2, <2>1, <2>6, <2>7, <2>8, <2>9, SolidIs
  <2>11. Occurs(Quote, t, start, l) = {start, l}
    <3>1. \A k : k \in Occurs(Quote, t, start, l) <=> k \in start .. l /\ t[k] = Quote
      BY DEF Occurs
    <3>2. \A k \in start .. l : k = start \/ k = l \/ k \in (start + 1) .. (l - 1)
      BY <2>9
    <3>3. start \in start .. l /\ l \in start .. l
      BY <2>9
    <3>. QED
      BY <2>1, <2>6, <3>1, <3>2, <3>3
  <2>12. ~ (\A k \in start .. l : t[k] \in StringChars) /\ ~ (l <= start + 1) /\ t[start] # "("
    <3>1. start \in start .. l
      BY <2>9
    <3>. QED
      BY <1>2, <2>1, <2>6, <2>8, <3>1
  <2>13. AtomTrees(d, t, i, j) = {ValueNode(SubSeq(t, start + 1, l - 1))}
    BY <2>10, <2>11, <2>12 DEF AtomTrees
  <2>. QED
    BY <2>4, <2>13
<1>4. CASE ~TokenSeen(t, i, Quote)
  <2>1. r = IF past = start THEN Error("STRING_EXPECTED", start) ELSE Parsed(ValueNode(SubSeq(t, start, past - 1)), past)
    BY <1>1, <1>4 DEF ParseString
  <2>2. past # start /\ r.node = ValueNode(SubSeq(t, start, past - 1)) /\ r.next = past
    BY <2>1, ParsedResult, ErrorFails
  <2>3. past \in start .. (Len(t) + 1) /\ \A k \in start .. (past - 1) : t[k] \in StringChars
    BY <1>1, <1>2, PastAllStops
  <2>4. past <= j + 1 /\ \A k \in past .. j : t[k] = Blank
    BY <2>2 DEF OnlyBlanks
  <2>5. PICK l : l = past - 1
    OBVIOUS
  <2>6. start \in i .. j /\ l \in start .. j /\ l + 1 = past
    BY <1>2, <2>2, <2>3, <2>4, <2>5
  <2>7. t[start] # Blank /\ t[l] # Blank
    <3>1. start \in start .. l /\ l \in start .. l
      BY <2>6
    <3>. QED
      BY <2>3, <2>5, <3>1, NamesArePlain
  <2>8. Solid(t, i, j) # {} /\ Min(Solid(t, i, j)) = start /\ Max(Solid(t, i, j)) = l
    BY <1>2, <2>4, <2>6, <2>7, SolidIs
  <2>9. AtomTrees(d, t, i, j) = {ValueNode(SubSeq(t, start, l))}
    BY <2>3, <2>5, <2>8 DEF AtomTrees
  <2>. QED
    BY <2>2, <2>5, <2>9
<1>. QED
  BY <1>3, <1>4

LEMMA AtomSound ==
  ASSUME NEW t \in Seq(STRING), NEW i \in 1 .. (Len(t) + 1), NEW p, p = Parses(t), NEW d, d = Derivations(t), SoundLater(p, d, t, i)
  PROVE  Sound(p, d, t, "atom", i)
<1>1. PICK r : r = p[<<"atom", i>>]
  OBVIOUS
<1>. SUFFICES ASSUME ~Failed(r), NEW j \in 0 .. Len(t), OnlyBlanks(t, r.next, j)
              PROVE  r.node \in d[<<"atom", i, j>>]
  BY <1>1 DEF Sound
<1>2. d[<<"atom", i, j>>] = AtomTrees(d, t, i, j) /\ r = ParseAtom(p, t, i)
  BY <1>1, DerivationsRight, ParsesRight
<1>3. CASE ~TokenSeen(t, i, "(")
  <2>1. r = ParseString(t, i)
    BY <1>2, <1>3 DEF ParseAtom
  <2>. QED
    BY <1>2, <2>1, StringSound
<1>4. CASE TokenSeen(t, i, "(")
  <2>1. PICK f : f = PastSpaces(t, i)
    OBVIOUS
  <2>2. f \in i .. Len(t) /\ t[f] = "(" /\ PastToken(t, i) = f + 1 /\ \A k \in i .. (f - 1) : t[k] = Blank
    BY <1>4, <2>1, TokenSeenAt, SpacesStop
  <2>3. PICK inner : inner = p[<<"expr", f + 1>>]
    OBVIOUS
  <2>4. r = IF Failed(inner) THEN inner
            ELSE IF TokenSeen(t, inner.next, ")") THEN Parsed(inner.node, PastToken(t, inner.next))
            ELSE Error("RUNAWAY_PARENTHESIS", f)
    BY <1>2, <1>4, <2>1, <2>2, <2>3 DEF ParseAtom
  <2>5. /\ ~Failed(inner) /\ TokenSeen(t, inner.next, ")")
        /\ r.node = inner.node /\ r.next = PastToken(t, inner.next)
    BY <2>4, ParsedResult, ErrorFails
  <2>6. f + 1 \in (i + 1) .. (Len(t) + 1) /\ f + 1 \in 1 .. (Len(t) + 1)
    BY <2>2
  <2>7. inner.next \in (f + 2) .. (Len(t) + 1) /\ inner.next \in 1 .. (Len(t) + 1)
    <3>1. Advances(t, f + 1, inner)
      BY <2>3, <2>6, ParsesRight DEF Kinds
    <3>2. inner.next \in ((f + 1) + 1) .. (Len(t) + 1)
      BY <2>5, <3>1 DEF Advances
    <3>. QED
      BY <2>2, <3>2
  <2>8. PICK l : l = PastSpaces(t, inner.next)
    OBVIOUS
  <2>9. l \in inner.next .. Len(t) /\ t[l] = ")" /\ r.next = l + 1 /\ \A k \in inner.next .. (l - 1) : t[k] = Blank
    BY <2>5, <2>7, <2>8, TokenSeenAt, SpacesStop
  <2>10. r.node \in d[<<"expr", f + 1, l - 1>>]
    <3>1. Sound(p, d, t, "expr", f + 1)
      BY <2>6 DEF SoundLater, Kinds
    <3>2. OnlyBlanks(t, inner.next, l - 1) /\ l - 1 \in 0 .. Len(t)
      BY <2>7, <2>9 DEF OnlyBlanks
    <3>. QED
      BY <2>3, <2>5, <3>1, <3>2 DEF Sound
  <2>11. l + 1 <= j + 1 /\ \A k \in (l + 1) .. j : t[k] = Blank
    BY <2>9 DEF OnlyBlanks
  <2>12. f \in i .. j /\ l \in f .. j /\ ~ (l <= f + 1)
    BY <2>2, <2>7, <2>9, <2>11
  <2>13. t[f] # Blank /\ t[l] # Blank
    BY <2>2, <2>9 DEF Blank
  <2>14. Solid(t, i, j) # {} /\ Min(Solid(t, i, j)) = f /\ Max(Solid(t, i, j)) = l
    BY <2>2, <2>11, <2>12, <2>13, SolidIs
  <2>15. ~ (\A k \in f .. l : t[k] \in StringChars)
    <3>1. f \in f .. l
      BY <2>12
    <3>. QED
      BY <2>2, <3>1, NamesArePlain
  <2>16. AtomTrees(d, t, i, j) = d[<<"expr", f + 1, l - 1>>]
    BY <2>2, <2>9, <2>12, <2>14, <2>15 DEF AtomTrees
  <2>. QED
    BY <1>2, <2>10, <2>16
<1>. QED
  BY <1>3, <1>4

LEMMA FactorSound ==
  ASSUME NEW t \in Seq(STRING), NEW i \in 1 .. (Len(t) + 1), NEW p, p = Parses(t), NEW d, d = Derivations(t),
         SoundLater(p, d, t, i), Sound(p, d, t, "atom", i), NEW kind \in {"factor", "odd"}
  PROVE  Sound(p, d, t, kind, i)
<1>1. PICK r, atom : r = p[<<kind, i>>] /\ atom = p[<<"atom", i>>]
  OBVIOUS
<1>. SUFFICES ASSUME ~Failed(r), NEW j \in 0 .. Len(t), OnlyBlanks(t, r.next, j)
              PROVE  r.node \in d[<<kind, i, j>>]
  BY <1>1 DEF Sound
<1>2. PICK even \in BOOLEAN : even = (kind = "factor")
  OBVIOUS
<1>3. d[<<kind, i, j>>] = FactorTrees(d, t, i, j, even) /\ r = ParseFactor(p, t, i, even)
  <2>1. /\ d[<<"factor", i, j>>] = FactorTrees(d, t, i, j, TRUE) /\ d[<<"odd", i, j>>] = FactorTrees(d, t, i, j, FALSE)
        /\ p[<<"factor", i>>] = ParseFactor(p, t, i, TRUE) /\ p[<<"odd", i>>] = ParseFactor(p, t, i, FALSE)
    BY DerivationsRight, ParsesRight
  <2>2. CASE kind = "factor"
    BY <1>1, <1>2, <2>1, <2>2
  <2>3. CASE kind = "odd"
    BY <1>1, <1>2, <2>1, <2>3
  <2>. QED
    BY <2>2, <2>3
<1>4. PICK k : k = PastSpaces(t, i)
  OBVIOUS
<1>5. k \in i .. (Len(t) + 1)
  BY <1>4, SpacesStop
<1>6. PICK other \in {"factor", "odd"} : other = IF even THEN "odd" ELSE "factor"
  OBVIOUS
<1>7. TokenSeen(t, i, "!") <=> k <= Len(t) /\ t[k] = "!"
  BY <1>4, TokenIs
<1>8. CASE TokenSeen(t, i, "!")
  <2>1. k <= Len(t) /\ t[k] = "!" /\ PastToken(t, i) = k + 1
    BY <1>4, <1>7, <1>8, TokenIs
  <2>2. r = p[<<other, k + 1>>]
    BY <1>3, <1>6, <1>8, <2>1 DEF ParseFactor
  <2>3. k + 1 \in (i + 1) .. (Len(t) + 1) /\ k + 1 \in 1 .. (Len(t) + 1) /\ other \in Kinds
    BY <1>5, <2>1 DEF Kinds
  <2>4. r.node \in d[<<other, k + 1, j>>]
    <3>1. Sound(p, d, t, other, k + 1)
      BY <2>3 DEF SoundLater
    <3>. QED
      BY <2>2, <3>1 DEF Sound
  <2>5. k <= j
    <3>1. Advances(t, k + 1, r)
      BY <2>2, <2>3, ParsesRight
    <3>2. r.next \in ((k + 1) + 1) .. (Len(t) + 1) /\ r.next <= j + 1
      BY <3>1 DEF Advances, OnlyBlanks
    <3>. QED
      BY <1>5, <3>2
  <2>. QED
    BY <1>3, <1>4, <1>6, <2>1, <2>4, <2>5 DEF FactorTrees
<1>9. CASE ~TokenSeen(t, i, "!")
  <2>1. r = IF even \/ Failed(atom) THEN atom ELSE Parsed(NotNode(atom.node), atom.next)
    BY <1>1, <1>3, <1>9 DEF ParseFactor
  <2>2. ~Failed(atom) /\ r.next = atom.next /\ r.node = IF even THEN atom.node ELSE NotNode(atom.node)
    BY <2>1, ParsedResult
  <2>3. atom.node \in d[<<"atom", i, j>>]
    BY <1>1, <2>2 DEF Sound
  <2>4. ~ (k <= j /\ t[k] = "!")
    BY <1>5, <1>7, <1>9
  <2>. QED
    BY <1>3, <1>4, <2>2, <2>3, <2>4 DEF FactorTrees
<1>. QED
  BY <1>8, <1>9

LEMMA TermSound ==
  ASSUME NEW t \in Seq(STRING), NEW i \in 1 .. (Len(t) + 1), NEW p, p = Parses(t), NEW d, d = Derivations(t),
         SoundLater(p, d, t, i), Sound(p, d, t, "factor", i)
  PROVE  Sound(p, d, t, "term", i)
<1>1. PICK r, left : r = p[<<"term", i>>] /\ left = p[<<"factor", i>>]
  OBVIOUS
<1>. SUFFICES ASSUME ~Failed(r), NEW j \in 0 .. Len(t), OnlyBlanks(t, r.next, j)
              PROVE  r.node \in d[<<"term", i, j>>]
  BY <1>1 DEF Sound
<1>2. d[<<"term", i, j>>] = TermTrees(d, t, i, j) /\ r = ParseTerm(p, t, i)
  BY <1>1, DerivationsRight, ParsesRight
<1>3. CASE Failed(left) \/ ~TokenSeen(t, left.next, "&")
  <2>1. r = left
    BY <1>1, <1>2, <1>3 DEF ParseTerm
  <2>2. r.node \in d[<<"factor", i, j>>]
    BY <1>1, <2>1 DEF Sound
  <2>. QED
    BY <1>2, <2>2, TermTreesAre
<1>4. CASE ~ (Failed(left) \/ ~TokenSeen(t, left.next, "&"))
  <2>1. PICK k : k = PastSpaces(t, left.next)
    OBVIOUS
  <2>2. left.next \in (i + 1) .. (Len(t) + 1) /\ left.next \in 1 .. (Len(t) + 1)
    <3>1. Advances(t, i, left)
      BY <1>1, ParsesRight DEF Kinds
    <3>. QED
      BY <1>4, <3>1 DEF Advances
  <2>3. k \in left.next .. Len(t) /\ t[k] = "&" /\ PastToken(t, left.next) = k + 1
    BY <1>4, <2>1, <2>2, TokenSeenAt
  <2>4. OnlyBlanks(t, left.next, k - 1)
    <3>1. \A m \in left.next .. (k - 1) : t[m] = Blank
      BY <2>1, <2>2, SpacesStop
    <3>. QED
      BY <2>2, <2>3, <3>1 DEF OnlyBlanks
  <2>5. left.node \in d[<<"factor", i, k - 1>>]
    <3>1. k - 1 \in 0 .. Len(t)
      BY <2>2, <2>3
    <3>. QED
      BY <1>1, <1>4, <2>4, <3>1 DEF Sound
  <2>6. PICK right : right = p[<<"term", k + 1>>]
    OBVIOUS
  <2>7. r = IF Failed(right) THEN right ELSE Parsed(AndNode(left.node, right.node), right.next)
    BY <1>1, <1>2, <1>4, <2>3, <2>6 DEF ParseTerm
  <2>8. ~Failed(right) /\ r.node = AndNode(left.node, right.node) /\ r.next = right.next
    BY <2>7, ParsedResult
  <2>9. k + 1 \in (i + 1) .. (Len(t) + 1) /\ k + 1 \in 1 .. (Len(t) + 1)
    BY <2>2, <2>3
  <2>10. right.next \in (k + 2) .. (Len(t) + 1)
    <3>1. Advances(t, k + 1, right)
      BY <2>6, <2>9, ParsesRight DEF Kinds
    <3>2. right.next \in ((k + 1) + 1) .. (Len(t) + 1)
      BY <2>8, <3>1 DEF Advances
    <3>. QED
      BY <2>2, <2>3, <3>2
  <2>11. right.node \in d[<<"term", k + 1, j>>]
    <3>1. Sound(p, d, t, "term", k + 1)
      BY <2>9 DEF SoundLater, Kinds
    <3>. QED
      BY <2>6, <2>8, <3>1 DEF Sound
  <2>12. k \in Occurs("&", t, i, j)
    <3>1. right.next <= j + 1
      BY <2>8 DEF OnlyBlanks
    <3>2. k \in i .. j
      BY <2>2, <2>3, <2>10, <3>1
    <3>. QED
      BY <2>3, <3>2 DEF Occurs
  <2>. QED
    <3>1. \E l \in d[<<"factor", i, k - 1>>], n \in d[<<"term", k + 1, j>>] : r.node = AndNode(l, n)
      BY <2>5, <2>8, <2>11
    <3>2. r.node \in TermTrees(d, t, i, j)
      BY <2>12, <3>1, TermTreesAre
    <3>. QED
      BY <1>2, <3>2
<1>. QED
  BY <1>3, <1>4

LEMMA ExprSound ==
  ASSUME NEW t \in Seq(STRING), NEW i \in 1 .. (Len(t) + 1), NEW p, p = Parses(t), NEW d, d = Derivations(t),
         SoundLater(p, d, t, i), Sound(p, d, t, "term", i)
  PROVE  Sound(p, d, t, "expr", i)
<1>1. PICK r, left : r = p[<<"expr", i>>] /\ left = p[<<"term", i>>]
  OBVIOUS
<1>. SUFFICES ASSUME ~Failed(r), NEW j \in 0 .. Len(t), OnlyBlanks(t, r.next, j)
              PROVE  r.node \in d[<<"expr", i, j>>]
  BY <1>1 DEF Sound
<1>2. d[<<"expr", i, j>>] = ExprTrees(d, t, i, j) /\ r = ParseExpr(p, t, i)
  BY <1>1, DerivationsRight, ParsesRight
<1>3. CASE Failed(left) \/ ~TokenSeen(t, left.next, "|")
  <2>1. r = left
    BY <1>1, <1>2, <1>3 DEF ParseExpr
  <2>2. r.node \in d[<<"term", i, j>>]
    BY <1>1, <2>1 DEF Sound
  <2>. QED
    BY <1>2, <2>2, ExprTreesAre
<1>4. CASE ~ (Failed(left) \/ ~TokenSeen(t, left.next, "|"))
  <2>1. PICK k : k = PastSpaces(t, left.next)
    OBVIOUS
  <2>2. left.next \in (i + 1) .. (Len(t) + 1) /\ left.next \in 1 .. (Len(t) + 1)
    <3>1. Advances(t, i, left)
      BY <1>1, ParsesRight DEF Kinds
    <3>. QED
      BY <1>4, <3>1 DEF Advances
  <2>3. k \in left.next .. Len(t) /\ t[k] = "|" /\ PastToken(t, left.next) = k + 1
    BY <1>4, <2>1, <2>2, TokenSeenAt
  <2>4. OnlyBlanks(t, left.next, k - 1)
    <3>1. \A m \in left.next .. (k - 1) : t[m] = Blank
      BY <2>1, <2>2, SpacesStop
    <3>. QED
      BY <2>2, <2>3, <3>1 DEF OnlyBlanks
  <2>5. left.node \in d[<<"term", i, k - 1>>]
    <3>1. k - 1 \in 0 .. Len(t)
      BY <2>2, <2>3
    <3>. QED
      BY <1>1, <1>4, <2>4, <3>1 DEF Sound
  <2>6. PICK right : right = p[<<"expr", k + 1>>]
    OBVIOUS
  <2>7. r = IF Failed(right) THEN right ELSE Parsed(OrNode(left.node, right.node), right.next)
    BY <1>1, <1>2, <1>4, <2>3, <2>6 DEF ParseExpr
  <2>8. ~Failed(right) /\ r.node = OrNode(left.node, right.node) /\ r.next = right.next
    BY <2>7, ParsedResult
  <2>9. k + 1 \in (i + 1) .. (Len(t) + 1) /\ k + 1 \in 1 .. (Len(t) + 1)
    BY <2>2, <2>3
  <2>10. right.next \in (k + 2) .. (Len(t) + 1)
    <3>1. Advances(t, k + 1, right)
      BY <2>6, <2>9, ParsesRight DEF Kinds
    <3>2. right.next \in ((k + 1) + 1) .. (Len(t) + 1)
      BY <2>8, <3>1 DEF Advances
    <3>. QED
      BY <2>2, <2>3, <3>2
  <2>11. right.node \in d[<<"expr", k + 1, j>>]
    <3>1. Sound(p, d, t, "expr", k + 1)
      BY <2>9 DEF SoundLater, Kinds
    <3>. QED
      BY <2>6, <2>8, <3>1 DEF Sound
  <2>12. k \in Occurs("|", t, i, j)
    <3>1. right.next <= j + 1
      BY <2>8 DEF OnlyBlanks
    <3>2. k \in i .. j
      BY <2>2, <2>3, <2>10, <3>1
    <3>. QED
      BY <2>3, <3>2 DEF Occurs
  <2>. QED
    <3>1. \E l \in d[<<"term", i, k - 1>>], n \in d[<<"expr", k + 1, j>>] : r.node = OrNode(l, n)
      BY <2>5, <2>8, <2>11
    <3>2. r.node \in ExprTrees(d, t, i, j)
      BY <2>12, <3>1, ExprTreesAre
    <3>. QED
      BY <1>2, <3>2
<1>. QED
  BY <1>3, <1>4

LEMMA AllSound ==
  ASSUME NEW t \in Seq(STRING), NEW p, p = Parses(t), NEW d, d = Derivations(t)
  PROVE  \A kind \in Kinds, i \in 1 .. (Len(t) + 1) : Sound(p, d, t, kind, i)
<1>. DEFINE G == {c \in Calls(t) : Sound(p, d, t, c[1], c[2])}
<1>1. \A kind \in Kinds, i \in 1 .. (Len(t) + 1) : <<kind, i>> \in G <=> Sound(p, d, t, kind, i)
  BY DEF Calls
<1>. HIDE DEF G
<1>2. ASSUME NEW i \in 1 .. (Len(t) + 1), LaterIn(G, t, i) PROVE SoundLater(p, d, t, i)
  <2>1. ASSUME NEW kind \in Kinds, NEW k \in (i + 1) .. (Len(t) + 1) PROVE Sound(p, d, t, kind, k)
    <3>1. <<kind, k>> \in G /\ k \in 1 .. (Len(t) + 1)
      BY <1>2 DEF LaterIn
    <3>. QED
      BY <1>1, <3>1
  <2>. QED
    BY <2>1 DEF SoundLater
<1>3. ASSUME NEW i \in 1 .. (Len(t) + 1), LaterIn(G, t, i) PROVE <<"atom", i>> \in G
  BY <1>1, <1>2, <1>3, AtomSound DEF Kinds
<1>4. ASSUME NEW i \in 1 .. (Len(t) + 1), LaterIn(G, t, i), <<"atom", i>> \in G PROVE {<<"factor", i>>, <<"odd", i>>} \subseteq G
  <2>1. SoundLater(p, d, t, i) /\ Sound(p, d, t, "atom", i)
    BY <1>1, <1>2, <1>4 DEF Kinds
  <2>2. Sound(p, d, t, "factor", i) /\ Sound(p, d, t, "odd", i)
    BY <2>1, FactorSound
  <2>. QED
    BY <1>1, <2>2 DEF Kinds
<1>5. ASSUME NEW i \in 1 .. (Len(t) + 1), LaterIn(G, t, i), <<"factor", i>> \in G PROVE <<"term", i>> \in G
  <2>1. SoundLater(p, d, t, i) /\ Sound(p, d, t, "factor", i)
    BY <1>1, <1>2, <1>5 DEF Kinds
  <2>. QED
    BY <1>1, <2>1, TermSound DEF Kinds
<1>6. ASSUME NEW i \in 1 .. (Len(t) + 1), LaterIn(G, t, i), <<"term", i>> \in G PROVE <<"expr", i>> \in G
  <2>1. SoundLater(p, d, t, i) /\ Sound(p, d, t, "term", i)
    BY <1>1, <1>2, <1>6 DEF Kinds
  <2>. QED
    BY <1>1, <2>1, ExprSound DEF Kinds
<1>. QED
  BY <1>1, <1>3, <1>4, <1>5, <1>6, CallInduction

\* The parser and the grammar agree on every line.
LEMMA ParseDerived ==
  ASSUME NEW t \in Seq(STRING), NEW r, r = Parse(t)
  PROVE  Derivations(t)[<<"expr", 1, Len(t)>>] = IF Failed(r) THEN {} ELSE {r.node}
<1>1. PICK p, d, root, end : p = Parses(t) /\ d = Derivations(t) /\ root = p[<<"expr", 1>>] /\ end = PastSpaces(t, root.next)
  OBVIOUS
<1>2. r = IF Failed(root) \/ end = Len(t) + 1 THEN root ELSE Error("GARBAGE_AT_END", end)
  BY <1>1 DEF Parse
<1>3. 1 \in 1 .. (Len(t) + 1) /\ Len(t) \in 0 .. Len(t) /\ "expr" \in Kinds
  BY DEF Kinds
<1>4. \A n \in d[<<"expr", 1, Len(t)>>] : ~Failed(root) /\ root.node = n /\ end = Len(t) + 1
  <2>1. Complete(p, d, t, "expr", 1)
    BY <1>1, <1>3, AllComplete
  <2>2. MayEnd(t, "expr", Len(t))
    BY DEF MayEnd
  <2>. QED
    BY <1>1, <1>3, <2>1, <2>2 DEF Complete, Returns
<1>5. ASSUME ~Failed(root), end = Len(t) + 1 PROVE root.node \in d[<<"expr", 1, Len(t)>>]
  <2>1. root.next \in 1 .. (Len(t) + 1)
    <3>1. Advances(t, 1, root)
      BY <1>1, <1>3, ParsesRight
    <3>. QED
      BY <1>5, <3>1 DEF Advances
  <2>2. \A k \in root.next .. (end - 1) : t[k] = Blank
    BY <1>1, <2>1, SpacesStop
  <2>3. OnlyBlanks(t, root.next, Len(t))
    <3>1. (Len(t) + 1) - 1 = Len(t) /\ root.next <= Len(t) + 1
      BY <2>1
    <3>. QED
      BY <1>5, <2>2, <3>1 DEF OnlyBlanks
  <2>4. Sound(p, d, t, "expr", 1)
    BY <1>1, <1>3, AllSound
  <2>. QED
    BY <1>1, <1>3, <1>5, <2>3, <2>4 DEF Sound
<1>6. CASE ~Failed(root) /\ end = Len(t) + 1
  <2>1. r = root
    BY <1>2, <1>6
  <2>2. d[<<"expr", 1, Len(t)>>] = {root.node}
    BY <1>4, <1>5, <1>6
  <2>. QED
    BY <1>1, <1>6, <2>1, <2>2
<1>7. CASE ~ (~Failed(root) /\ end = Len(t) + 1)
  <2>1. Failed(r)
    BY <1>2, <1>7, ErrorFails
  <2>2. d[<<"expr", 1, Len(t)>>] = {}
    BY <1>4, <1>7
  <2>. QED
    BY <1>1, <2>1, <2>2
<1>. QED
  BY <1>6, <1>7

----------------------------------------------------------------------------
(* The scan *)

\* A state of the scan.
Reading(want, quote, open) == [want |-> want, quote |-> quote, open |-> open, fault |-> <<>>]

LEMMA WantUpdated ==
  ASSUME NEW want, NEW quote, NEW open, NEW other
  PROVE  [Reading(want, quote, open) EXCEPT !.want = other] = Reading(other, quote, open)
BY DEF Reading

LEMMA OpenUpdated ==
  ASSUME NEW want, NEW quote, NEW open, NEW other
  PROVE  [Reading(want, quote, open) EXCEPT !.open = other] = Reading(want, quote, other)
BY DEF Reading

LEMMA ScanTables ==
  ASSUME NEW t
  PROVE  \A m \in Nat : \E f : f[0] = ScanStart /\ \A i \in 1 .. m : f[i] = ScanChar(f[i - 1], t[i], i)
<1>. DEFINE Fits(f, m) == f[0] = ScanStart /\ \A i \in 1 .. m : f[i] = ScanChar(f[i - 1], t[i], i)
            S == {m \in Nat : \E f : Fits(f, m)}
<1>1. 0 \in S
  <2>1. Fits([i \in Nat |-> ScanStart], 0)
    <3>1. \A i \in 1 .. 0 : FALSE
      OBVIOUS
    <3>2. [i \in Nat |-> ScanStart][0] = ScanStart
      OBVIOUS
    <3>. QED
      BY <3>1, <3>2
  <2>. HIDE DEF Fits
  <2>. QED
    BY <2>1
<1>2. ASSUME NEW m \in Nat, m \in S PROVE m + 1 \in S
  <2>1. PICK f : Fits(f, m)
    BY <1>2
  <2>. DEFINE g == [i \in Nat |-> IF i = m + 1 THEN ScanChar(f[m], t[m + 1], m + 1) ELSE f[i]]
  <2>2. \A i \in Nat : g[i] = IF i = m + 1 THEN ScanChar(f[m], t[m + 1], m + 1) ELSE f[i]
    OBVIOUS
  <2>. HIDE DEF g
  <2>3. g[0] = ScanStart
    <3>1. 0 \in Nat /\ 0 # m + 1
      OBVIOUS
    <3>2. g[0] = f[0]
      BY <2>2, <3>1
    <3>. QED
      BY <2>1, <3>2
  <2>4. ASSUME NEW i \in 1 .. (m + 1) PROVE g[i] = ScanChar(g[i - 1], t[i], i)
    <3>1. i \in Nat /\ i - 1 \in Nat /\ i - 1 # m + 1 /\ (i # m + 1 => i \in 1 .. m) /\ (i = m + 1 => i - 1 = m)
      OBVIOUS
    <3>2. g[i - 1] = f[i - 1]
      BY <2>2, <3>1
    <3>3. CASE i = m + 1
      BY <2>2, <3>1, <3>2, <3>3
    <3>4. CASE i # m + 1
      <4>1. g[i] = f[i] /\ f[i] = ScanChar(f[i - 1], t[i], i)
        BY <2>1, <2>2, <3>1, <3>4
      <4>. QED
        BY <3>2, <4>1
    <3>. QED
      BY <3>3, <3>4
  <2>5. Fits(g, m + 1)
    BY <2>3, <2>4
  <2>. HIDE DEF Fits
  <2>. QED
    BY <2>5
<1>3. \A m \in Nat : m \in S
  <2>. HIDE DEF S
  <2>. QED
    BY <1>1, <1>2, AllNumbers
<1>. QED
  BY <1>3

LEMMA ScansRight ==
  ASSUME NEW t \in Seq(STRING), NEW s, s = Scans(t)
  PROVE  s[0] = ScanStart /\ \A i \in 1 .. Len(t) : s[i] = ScanChar(s[i - 1], t[i], i)
<1>1. Len(t) \in Nat
  OBVIOUS
<1>2. PICK f : f[0] = ScanStart /\ \A i \in 1 .. Len(t) : f[i] = ScanChar(f[i - 1], t[i], i)
  BY <1>1, ScanTables
<1>. DEFINE Equation(r) == r = [i \in 0 .. Len(t) |-> IF i = 0 THEN ScanStart ELSE ScanChar(r[i - 1], t[i], i)]
            g == [i \in 0 .. Len(t) |-> f[i]]
<1>3. Equation(g)
  <2>1. \A i \in 0 .. Len(t) : g[i] = f[i]
    OBVIOUS
  <2>2. g = [i \in 0 .. Len(t) |-> g[i]]
    OBVIOUS
  <2>. HIDE DEF g
  <2>3. \A i \in 0 .. Len(t) : g[i] = IF i = 0 THEN ScanStart ELSE ScanChar(g[i - 1], t[i], i)
    <3>. SUFFICES ASSUME NEW i \in 0 .. Len(t) PROVE g[i] = IF i = 0 THEN ScanStart ELSE ScanChar(g[i - 1], t[i], i)
      OBVIOUS
    <3>1. CASE i = 0
      BY <1>2, <2>1, <3>1
    <3>2. CASE i # 0
      <4>1. i \in 1 .. Len(t) /\ i - 1 \in 0 .. Len(t)
        BY <3>2
      <4>. QED
        BY <1>2, <2>1, <3>2, <4>1
    <3>. QED
      BY <3>1, <3>2
  <2>. QED
    BY <2>2, <2>3
<1>4. Equation(s)
  <2>1. Scans(t) = CHOOSE r : Equation(r)
    BY DEF Scans
  <2>. HIDE DEF Equation
  <2>. QED
    BY <1>3, <2>1
<1>5. s = [i \in 0 .. Len(t) |-> IF i = 0 THEN ScanStart ELSE ScanChar(s[i - 1], t[i], i)]
  BY <1>4
<1>. QED
  BY <1>1, <1>5

\* Characters that do not change the state.
LEMMA Stationary ==
  ASSUME NEW t \in Seq(STRING), NEW s, s = Scans(t), NEW i \in 0 .. Len(t), NEW j \in i .. Len(t),
         \A k \in (i + 1) .. j : ScanChar(s[i], t[k], k) = s[i]
  PROVE  s[j] = s[i]
<1>. DEFINE S == {m \in Nat : i + m <= j => s[i + m] = s[i]}
<1>1. 0 \in S
  OBVIOUS
<1>2. ASSUME NEW m \in Nat, m \in S PROVE m + 1 \in S
  <2>. SUFFICES ASSUME i + (m + 1) <= j PROVE s[i + (m + 1)] = s[i]
    OBVIOUS
  <2>1. s[i + m] = s[i]
    BY <1>2
  <2>2. PICK k : k = i + (m + 1)
    OBVIOUS
  <2>3. k \in (i + 1) .. j /\ k \in 1 .. Len(t) /\ k - 1 = i + m
    BY <2>2
  <2>4. s[k] = ScanChar(s[k - 1], t[k], k)
    BY <2>3, ScansRight
  <2>5. ScanChar(s[i], t[k], k) = s[i]
    BY <2>3
  <2>. QED
    BY <2>1, <2>2, <2>3, <2>4, <2>5
<1>3. \A m \in Nat : m \in S
  <2>. HIDE DEF S
  <2>. QED
    BY <1>1, <1>2, AllNumbers
<1>4. j - i \in Nat /\ i + (j - i) = j
  OBVIOUS
<1>5. j - i \in S
  <2>. HIDE DEF S
  <2>. QED
    BY <1>3, <1>4
<1>. QED
  BY <1>4, <1>5

\* The first fault is the one that is reported.
LEMMA FaultStays ==
  ASSUME NEW t \in Seq(STRING), NEW s, s = Scans(t), NEW i \in 0 .. Len(t), s[i].fault # <<>>
  PROVE  ScanFault(t) = s[i].fault
<1>1. \A k \in (i + 1) .. Len(t) : ScanChar(s[i], t[k], k) = s[i]
  BY DEF ScanChar
<1>2. Len(t) \in i .. Len(t)
  OBVIOUS
<1>3. s[Len(t)] = s[i]
  BY <1>1, <1>2, Stationary
<1>. QED
  BY <1>3 DEF ScanFault

LEMMA FaultIs ==
  ASSUME NEW want, NEW quote, NEW open, NEW code, NEW column
  PROVE  Fault(Reading(want, quote, open), code, column).fault = <<Error(code, column)>>
BY DEF Fault, Reading

LEMMA NotEmpty == ASSUME NEW e PROVE <<e>> # <<>>
OBVIOUS

\* What is read while an operand is expected.
LEMMA OperandStep ==
  ASSUME NEW quote, NEW open, NEW c, NEW i, NEW sc, sc = Reading("operand", quote, open)
  PROVE  /\ c \in {Blank, "!"} => ScanChar(sc, c, i) = sc
         /\ c = "(" => ScanChar(sc, c, i) = Reading("operand", quote, Append(open, i))
         /\ c \in StringChars => ScanChar(sc, c, i) = Reading("name", quote, open)
         /\ c = Quote => ScanChar(sc, c, i) = Reading("quote", i, open)
         /\ c \notin StringChars \cup {Blank, "!", "(", Quote} => ScanChar(sc, c, i).fault = <<Error("STRING_EXPECTED", i)>>
<1>1. sc.want = "operand" /\ sc.fault = <<>>
  BY DEF Reading
<1>2. ScanChar(sc, c, i) = ScanOperand(sc, c, i)
  BY <1>1 DEF ScanChar
<1>3. Blank # "(" /\ Blank # Quote /\ Quote # "(" /\ Quote # "!"
  BY DEF Blank, Quote
<1>4. c \in {Blank, "!"} => ScanOperand(sc, c, i) = sc
  BY <1>3, NamesArePlain DEF ScanOperand
<1>5. c = "(" => ScanOperand(sc, c, i) = Reading("operand", quote, Append(open, i))
  <2>1. c = "(" => ScanOperand(sc, c, i) = [sc EXCEPT !.open = Append(@, i)]
    BY <1>3, NamesArePlain DEF ScanOperand
  <2>2. [sc EXCEPT !.open = Append(@, i)] = Reading("operand", quote, Append(open, i))
    <3>1. PICK longer : longer = Append(open, i)
      OBVIOUS
    <3>2. [sc EXCEPT !.open = longer] = Reading("operand", quote, longer)
      BY OpenUpdated
    <3>3. sc.open = open
      BY DEF Reading
    <3>4. [sc EXCEPT !.open = Append(@, i)] = [sc EXCEPT !.open = longer]
      BY <3>1, <3>3
    <3>. QED
      BY <3>1, <3>2, <3>4
  <2>. QED
    BY <2>1, <2>2
<1>6. c \in StringChars => ScanOperand(sc, c, i) = Reading("name", quote, open)
  <2>1. c \in StringChars => ScanOperand(sc, c, i) = [sc EXCEPT !.want = "name"]
    BY <1>3, NamesArePlain DEF ScanOperand
  <2>2. [sc EXCEPT !.want = "name"] = Reading("name", quote, open)
    BY DEF Reading
  <2>. QED
    BY <2>1, <2>2
<1>7. c = Quote => ScanOperand(sc, c, i) = Reading("quote", i, open)
  <2>1. c = Quote => ScanOperand(sc, c, i) = [sc EXCEPT !.want = "quote", !.quote = i]
    BY <1>3, NamesArePlain DEF ScanOperand
  <2>2. [sc EXCEPT !.want = "quote", !.quote = i] = Reading("quote", i, open)
    <3>1. [[sc EXCEPT !.want = "quote"] EXCEPT !.quote = i] = Reading("quote", i, open)
      <4>1. [sc EXCEPT !.want = "quote"] = Reading("quote", quote, open)
        BY WantUpdated
      <4>2. [Reading("quote", quote, open) EXCEPT !.quote = i] = Reading("quote", i, open)
        BY DEF Reading
      <4>. QED
        BY <4>1, <4>2
    <3>. QED
      BY <3>1
  <2>. QED
    BY <2>1, <2>2
<1>8. c \notin StringChars \cup {Blank, "!", "(", Quote} => ScanOperand(sc, c, i).fault = <<Error("STRING_EXPECTED", i)>>
  <2>1. c \notin StringChars \cup {Blank, "!", "(", Quote} => ScanOperand(sc, c, i) = Fault(sc, "STRING_EXPECTED", i)
    BY DEF ScanOperand
  <2>. QED
    BY <2>1, FaultIs
<1>. QED
  BY <1>2, <1>4, <1>5, <1>6, <1>7, <1>8

\* What is read in quotes.
LEMMA QuotedStep ==
  ASSUME NEW quote, NEW open, NEW c, NEW i, NEW sc, sc = Reading("quote", quote, open)
  PROVE  /\ c # Quote => ScanChar(sc, c, i) = sc
         /\ c = Quote /\ i = quote + 1 => ScanChar(sc, c, i).fault = <<Error("EMPTY_QUOTED_STRING", quote)>>
         /\ c = Quote /\ i # quote + 1 => ScanChar(sc, c, i) = Reading("operator", quote, open)
<1>1. sc.want = "quote" /\ sc.fault = <<>> /\ sc.quote = quote
  BY DEF Reading
<1>2. ScanChar(sc, c, i) = ScanQuoted(sc, c, i)
  BY <1>1 DEF ScanChar
<1>3. [sc EXCEPT !.want = "operator"] = Reading("operator", quote, open)
  BY DEF Reading
<1>4. Fault(sc, "EMPTY_QUOTED_STRING", quote).fault = <<Error("EMPTY_QUOTED_STRING", quote)>>
  BY FaultIs
<1>. QED
  BY <1>1, <1>2, <1>3, <1>4 DEF ScanQuoted

\* What is read after an operand.
LEMMA OperatorStep ==
  ASSUME NEW want \in {"operator", "name"}, NEW quote, NEW open, NEW c, NEW i, NEW sc, sc = Reading(want, quote, open)
  PROVE  /\ c = Blank => ScanChar(sc, c, i) = Reading("operator", quote, open)
         /\ c \in {"&", "|"} => ScanChar(sc, c, i) = Reading("operand", quote, open)
         /\ c = ")" /\ open # <<>> => ScanChar(sc, c, i) = Reading("operator", quote, Front(open))
         /\ c \in StringChars /\ want = "name" => ScanChar(sc, c, i) = sc
         /\ c \notin {Blank, "&", "|"} /\ ~ (c = ")" /\ open # <<>>) /\ ~ (c \in StringChars /\ want = "name") =>
              ScanChar(sc, c, i).fault = <<IF open = <<>> THEN Error("GARBAGE_AT_END", i) ELSE Error("RUNAWAY_PARENTHESIS", Last(open))>>
<1>1. sc.want = want /\ sc.fault = <<>> /\ sc.open = open
  BY DEF Reading
<1>2. ScanChar(sc, c, i) = ScanOperator(sc, c, i)
  BY <1>1 DEF ScanChar
<1>3. Blank \notin {"&", "|", ")"}
  BY DEF Blank
<1>4. c = Blank => ScanOperator(sc, c, i) = Reading("operator", quote, open)
  <2>1. c = Blank => ScanOperator(sc, c, i) = [sc EXCEPT !.want = "operator"]
    BY <1>3, NamesArePlain DEF ScanOperator
  <2>2. [sc EXCEPT !.want = "operator"] = Reading("operator", quote, open)
    BY DEF Reading
  <2>. QED
    BY <2>1, <2>2
<1>5. c \in {"&", "|"} => ScanOperator(sc, c, i) = Reading("operand", quote, open)
  <2>1. c \in {"&", "|"} => ScanOperator(sc, c, i) = [sc EXCEPT !.want = "operand"]
    BY <1>3, NamesArePlain DEF ScanOperator
  <2>2. [sc EXCEPT !.want = "operand"] = Reading("operand", quote, open)
    BY DEF Reading
  <2>. QED
    BY <2>1, <2>2
<1>6. c = ")" /\ open # <<>> => ScanOperator(sc, c, i) = Reading("operator", quote, Front(open))
  <2>1. c = ")" /\ open # <<>> => ScanOperator(sc, c, i) = [sc EXCEPT !.want = "operator", !.open = Front(@)]
    BY <1>1, <1>3, NamesArePlain DEF ScanOperator
  <2>2. [sc EXCEPT !.want = "operator", !.open = Front(@)] = Reading("operator", quote, Front(open))
    <3>1. PICK shorter : shorter = Front(open)
      OBVIOUS
    <3>2. [[sc EXCEPT !.want = "operator"] EXCEPT !.open = shorter] = Reading("operator", quote, shorter)
      <4>1. [sc EXCEPT !.want = "operator"] = Reading("operator", quote, open)
        BY WantUpdated
      <4>2. [Reading("operator", quote, open) EXCEPT !.open = shorter] = Reading("operator", quote, shorter)
        BY OpenUpdated
      <4>. QED
        BY <4>1, <4>2
    <3>3. [sc EXCEPT !.want = "operator", !.open = Front(@)] = [sc EXCEPT !.want = "operator", !.open = shorter]
      BY <1>1, <3>1
    <3>. QED
      BY <3>1, <3>2, <3>3
  <2>. QED
    BY <2>1, <2>2
<1>7. c \in StringChars /\ want = "name" => ScanOperator(sc, c, i) = sc
  BY <1>1, <1>3, NamesArePlain DEF ScanOperator
<1>8. ASSUME c \notin {Blank, "&", "|"}, ~ (c = ")" /\ open # <<>>), ~ (c \in StringChars /\ want = "name")
      PROVE  ScanOperator(sc, c, i).fault = <<IF open = <<>> THEN Error("GARBAGE_AT_END", i) ELSE Error("RUNAWAY_PARENTHESIS", Last(open))>>
  <2>1. ScanOperator(sc, c, i) = Misplaced(sc, i)
    BY <1>1, <1>8 DEF ScanOperator
  <2>2. Misplaced(sc, i) = IF open = <<>> THEN Fault(sc, "GARBAGE_AT_END", i) ELSE Fault(sc, "RUNAWAY_PARENTHESIS", Last(open))
    BY <1>1 DEF Misplaced
  <2>. QED
    BY <2>1, <2>2, FaultIs
<1>. QED
  BY <1>2, <1>4, <1>5, <1>6, <1>7, <1>8

----------------------------------------------------------------------------
(* The scan finds the fault at which the parser fails                       *)

\* The scan has come to position i where an operand is expected ...
Expecting(t, i, open) == \E quote \in Nat : Scans(t)[i - 1] = Reading("operand", quote, open)
\* ... or where one has ended.
Ready(t, i, open) ==
  \E want \in {"operator", "name"}, quote \in Nat :
     /\ Scans(t)[i - 1] = Reading(want, quote, open)
     /\ want = "name" => i = Len(t) + 1 \/ t[i] \notin StringChars

LEMMA LastOfLonger ==
  ASSUME NEW open \in Seq(Nat), NEW i \in Nat
  PROVE  /\ Append(open, i) \in Seq(Nat) /\ Append(open, i) # <<>>
         /\ Last(Append(open, i)) = i /\ Front(Append(open, i)) = open
<1>1. Append(open, i) \in Seq(Nat) /\ Len(Append(open, i)) = Len(open) + 1 /\ Append(open, i)[Len(open) + 1] = i
  OBVIOUS
<1>2. Append(open, i) # <<>>
  <2>1. Len(open) + 1 # 0
    OBVIOUS
  <2>. QED
    BY <1>1, <2>1
<1>3. Last(Append(open, i)) = i
  BY <1>1 DEF Last
<1>4. Front(Append(open, i)) = open
  <2>1. Front(Append(open, i)) = SubSeq(Append(open, i), 1, Len(open))
    BY <1>1 DEF Front
  <2>. QED
    BY <2>1, AppendProperties
<1>. QED
  BY <1>1, <1>2, <1>3, <1>4

\* Blanks before an operand.
LEMMA ExpectingAt ==
  ASSUME NEW t \in Seq(STRING), NEW i \in 1 .. (Len(t) + 1), NEW open, Expecting(t, i, open)
  PROVE  Expecting(t, PastSpaces(t, i), open)
<1>1. PICK s, k : s = Scans(t) /\ k = PastSpaces(t, i)
  OBVIOUS
<1>2. k \in i .. (Len(t) + 1) /\ \A m \in i .. (k - 1) : t[m] = Blank
  BY <1>1, SpacesStop
<1>3. PICK quote \in Nat : s[i - 1] = Reading("operand", quote, open)
  BY <1>1 DEF Expecting
<1>4. \A m \in ((i - 1) + 1) .. (k - 1) : ScanChar(s[i - 1], t[m], m) = s[i - 1]
  <2>1. (i - 1) + 1 = i
    OBVIOUS
  <2>2. \A m \in i .. (k - 1) : ScanChar(s[i - 1], t[m], m) = s[i - 1]
    BY <1>2, <1>3, OperandStep
  <2>. QED
    BY <2>1, <2>2
<1>5. i - 1 \in 0 .. Len(t) /\ k - 1 \in (i - 1) .. Len(t)
  BY <1>2
<1>6. s[k - 1] = s[i - 1]
  BY <1>1, <1>4, <1>5, Stationary
<1>. QED
  BY <1>1, <1>3, <1>6 DEF Expecting

\* Blanks after an operand.
LEMMA ReadyAt ==
  ASSUME NEW t \in Seq(STRING), NEW i \in 1 .. (Len(t) + 1), NEW open, Ready(t, i, open)
  PROVE  Ready(t, PastSpaces(t, i), open)
<1>1. PICK s, k : s = Scans(t) /\ k = PastSpaces(t, i)
  OBVIOUS
<1>2. k \in i .. (Len(t) + 1) /\ \A m \in i .. (k - 1) : t[m] = Blank
  BY <1>1, SpacesStop
<1>3. PICK want \in {"operator", "name"}, quote \in Nat : s[i - 1] = Reading(want, quote, open)
  BY <1>1 DEF Ready
<1>4. CASE k = i
  BY <1>1, <1>4
<1>5. CASE k # i
  <2>1. i \in i .. (k - 1) /\ i \in 1 .. Len(t)
    BY <1>2, <1>5
  <2>2. s[i] = Reading("operator", quote, open)
    <3>1. s[i] = ScanChar(s[i - 1], t[i], i)
      BY <1>1, <2>1, ScansRight
    <3>. QED
      BY <1>2, <1>3, <2>1, <3>1, OperatorStep
  <2>3. \A m \in (i + 1) .. (k - 1) : ScanChar(s[i], t[m], m) = s[i]
    <3>1. \A m \in (i + 1) .. (k - 1) : t[m] = Blank
      BY <1>2
    <3>2. "operator" \in {"operator", "name"}
      OBVIOUS
    <3>. QED
      BY <2>2, <3>1, <3>2, OperatorStep
  <2>4. i \in 0 .. Len(t) /\ k - 1 \in i .. Len(t)
    BY <1>2, <2>1
  <2>5. s[k - 1] = Reading("operator", quote, open)
    BY <1>1, <2>2, <2>3, <2>4, Stationary
  <2>. QED
    BY <1>1, <2>5 DEF Ready
<1>. QED
  BY <1>4, <1>5

\* An operator or a closing parenthesis after an operand.
LEMMA ReadyReads ==
  ASSUME NEW t \in Seq(STRING), NEW i \in 1 .. (Len(t) + 1), NEW open, Ready(t, i, open),
         NEW k, k = PastSpaces(t, i), k <= Len(t)
  PROVE  /\ k + 1 \in (i + 1) .. (Len(t) + 1)
         /\ t[k] \in {"&", "|"} => Expecting(t, k + 1, open)
         /\ t[k] = ")" /\ open # <<>> => Ready(t, k + 1, Front(open))
         /\ t[k] \notin {"&", "|"} /\ ~ (t[k] = ")" /\ open # <<>>) =>
              ScanFault(t) = <<IF open = <<>> THEN Error("GARBAGE_AT_END", k) ELSE Error("RUNAWAY_PARENTHESIS", Last(open))>>
<1>1. k \in i .. (Len(t) + 1) /\ t[k] # Blank
  <2>1. /\ PastSpaces(t, i) \in i .. (Len(t) + 1)
        /\ PastSpaces(t, i) = Len(t) + 1 \/ t[PastSpaces(t, i)] # Blank
    BY SpacesStop
  <2>. QED
    BY <2>1
<1>2. k \in 1 .. Len(t) /\ k # Len(t) + 1 /\ (k + 1) - 1 = k
  BY <1>1
<1>3. Ready(t, k, open)
  BY ReadyAt
<1>4. PICK s : s = Scans(t)
  OBVIOUS
<1>5. PICK want \in {"operator", "name"}, quote \in Nat :
        s[k - 1] = Reading(want, quote, open) /\ (want = "name" => t[k] \notin StringChars)
  BY <1>2, <1>3, <1>4 DEF Ready
<1>6. s[k] = ScanChar(s[k - 1], t[k], k)
  BY <1>2, <1>4, ScansRight
<1>7. t[k] \in {"&", "|"} => Expecting(t, k + 1, open)
  <2>1. t[k] \in {"&", "|"} => s[k] = Reading("operand", quote, open)
    BY <1>5, <1>6, OperatorStep
  <2>. QED
    BY <1>2, <1>4, <2>1 DEF Expecting
<1>8. t[k] = ")" /\ open # <<>> => Ready(t, k + 1, Front(open))
  <2>1. t[k] = ")" /\ open # <<>> => s[k] = Reading("operator", quote, Front(open))
    BY <1>5, <1>6, OperatorStep
  <2>. QED
    BY <1>2, <1>4, <2>1 DEF Ready
<1>9. ASSUME t[k] \notin {"&", "|"}, ~ (t[k] = ")" /\ open # <<>>)
      PROVE  ScanFault(t) = <<IF open = <<>> THEN Error("GARBAGE_AT_END", k) ELSE Error("RUNAWAY_PARENTHESIS", Last(open))>>
  <2>1. s[k].fault = <<IF open = <<>> THEN Error("GARBAGE_AT_END", k) ELSE Error("RUNAWAY_PARENTHESIS", Last(open))>>
    BY <1>1, <1>5, <1>6, <1>9, OperatorStep
  <2>2. s[k].fault # <<>> /\ k \in 0 .. Len(t)
    BY <1>2, <2>1, NotEmpty
  <2>. QED
    BY <1>4, <2>1, <2>2, FaultStays
<1>. QED
  BY <1>1, <1>2, <1>7, <1>8, <1>9

\* The text ends after an operand.
LEMMA ReadyEnds ==
  ASSUME NEW t \in Seq(STRING), NEW i \in 1 .. (Len(t) + 1), NEW open, Ready(t, i, open), PastSpaces(t, i) = Len(t) + 1
  PROVE  ScanFault(t) = IF open # <<>> THEN <<Error("RUNAWAY_PARENTHESIS", Last(open))>> ELSE <<>>
<1>1. Ready(t, Len(t) + 1, open)
  BY ReadyAt
<1>2. (Len(t) + 1) - 1 = Len(t)
  OBVIOUS
<1>3. PICK want \in {"operator", "name"}, quote \in Nat : Scans(t)[Len(t)] = Reading(want, quote, open)
  BY <1>1, <1>2 DEF Ready
<1>4. PICK end : end = Scans(t)[Len(t)]
  OBVIOUS
<1>5. end.fault = <<>> /\ end.want \notin {"operand", "quote"} /\ end.open = open
  BY <1>3, <1>4 DEF Reading
<1>. QED
  BY <1>4, <1>5 DEF ScanFault

\* What does not follow a call that has returned.
NeverBefore(kind) == IF kind = "expr" THEN {"|", "&"} ELSE IF kind = "term" THEN {"&"} ELSE {}
Stops(t, kind, i) == \A c \in NeverBefore(kind) : ~TokenSeen(t, i, c)

\* The scan and a call of the parser agree.
Reported(p, t, kind, i) ==
  \A open \in Seq(Nat) :
    Expecting(t, i, open) /\ (kind = "atom" => ~TokenSeen(t, i, "!")) =>
      IF Failed(p[<<kind, i>>]) THEN ScanFault(t) = <<p[<<kind, i>>]>>
      ELSE Ready(t, p[<<kind, i>>].next, open) /\ Stops(t, kind, p[<<kind, i>>].next)
ReportedLater(p, t, i) == \A kind \in Kinds, k \in (i + 1) .. (Len(t) + 1) : Reported(p, t, kind, k)

LEMMA NothingNeverBefore == \A t, i : Stops(t, "atom", i) /\ Stops(t, "factor", i) /\ Stops(t, "odd", i)
BY DEF Stops, NeverBefore

LEMMA StringReported ==
  ASSUME NEW t \in Seq(STRING), NEW i \in 1 .. (Len(t) + 1), NEW open \in Seq(Nat), Expecting(t, i, open),
         ~TokenSeen(t, i, "!"), ~TokenSeen(t, i, "("), NEW r, r = ParseString(t, i)
  PROVE  IF Failed(r) THEN ScanFault(t) = <<r>> ELSE Ready(t, r.next, open)
<1>1. PICK s, start, past : s = Scans(t) /\ start = PastSpaces(t, i) /\ past = PastAll(t, start, StringChars)
  OBVIOUS
<1>2. start \in i .. (Len(t) + 1) /\ start \in 1 .. (Len(t) + 1) /\ (start = Len(t) + 1 \/ t[start] # Blank)
  BY <1>1, SpacesStop
<1>3. PICK quote \in Nat : s[start - 1] = Reading("operand", quote, open)
  <2>1. Expecting(t, start, open)
    BY <1>1, ExpectingAt
  <2>. QED
    BY <1>1, <2>1 DEF Expecting
<1>4. start <= Len(t) => s[start] = ScanChar(s[start - 1], t[start], start)
  BY <1>1, <1>2, ScansRight
<1>5. \A c : TokenSeen(t, i, c) <=> start <= Len(t) /\ t[start] = c
  BY <1>1, TokenIs
<1>6. CASE TokenSeen(t, i, Quote)
  <2>1. start <= Len(t) /\ t[start] = Quote /\ start \in 1 .. Len(t)
    BY <1>2, <1>5, <1>6
  <2>2. s[start] = Reading("quote", start, open)
    BY <1>3, <1>4, <2>1, OperandStep
  <2>. DEFINE closing == {k \in (start + 1) .. Len(t) : t[k] = Quote}
  <2>3. PICK l : l = Min(closing)
    OBVIOUS
  <2>4. r = IF closing = {} THEN Error("RUNAWAY_DOUBLE_QUOTES", start)
            ELSE IF l = start + 1 THEN Error("EMPTY_QUOTED_STRING", start)
            ELSE Parsed(ValueNode(SubSeq(t, start + 1, l - 1)), l + 1)
    <3>1. r = QuotedString(t, start)
      BY <1>1, <1>6 DEF ParseString
    <3>2. QuotedString(t, start) = IF closing = {} THEN Error("RUNAWAY_DOUBLE_QUOTES", start)
            ELSE IF Min(closing) = start + 1 THEN Error("EMPTY_QUOTED_STRING", start)
            ELSE Parsed(ValueNode(SubSeq(t, start + 1, Min(closing) - 1)), Min(closing) + 1)
      BY DEF QuotedString
    <3>. HIDE DEF closing
    <3>. QED
      BY <2>3, <3>1, <3>2
  <2>5. CASE closing = {}
    <3>1. \A k \in (start + 1) .. Len(t) : t[k] # Quote
      BY <2>5
    <3>2. r = Error("RUNAWAY_DOUBLE_QUOTES", start)
      <4>. HIDE DEF closing
      <4>. QED
        BY <2>4, <2>5
    <3>. HIDE DEF closing
    <3>3. \A k \in (start + 1) .. Len(t) : ScanChar(s[start], t[k], k) = s[start]
      BY <2>2, <3>1, QuotedStep
    <3>4. start \in 0 .. Len(t) /\ Len(t) \in start .. Len(t)
      BY <2>1
    <3>5. PICK end : end = Scans(t)[Len(t)]
      OBVIOUS
    <3>6. end = Reading("quote", start, open)
      BY <1>1, <2>2, <3>3, <3>4, <3>5, Stationary
    <3>7. end.fault = <<>> /\ end.want = "quote" /\ end.quote = start
      BY <3>6 DEF Reading
    <3>8. ScanFault(t) = <<Error("RUNAWAY_DOUBLE_QUOTES", start)>>
      BY <3>5, <3>7 DEF ScanFault
    <3>. QED
      BY <3>2, <3>8, ErrorFails
  <2>6. CASE closing # {}
    <3>1. l \in closing /\ \A k \in closing : l <= k
      <4>1. closing \in SUBSET Nat
        BY <1>2
      <4>. HIDE DEF closing
      <4>2. \E k \in closing : \A m \in closing : k <= m
        BY <2>6, <4>1, LeastNumber
      <4>. QED
        BY <2>3, <4>2 DEF Min
    <3>2. l \in (start + 1) .. Len(t) /\ t[l] = Quote
      BY <3>1
    <3>3. \A k \in (start + 1) .. (l - 1) : t[k] # Quote
      <4>. SUFFICES ASSUME NEW k \in (start + 1) .. (l - 1), t[k] = Quote PROVE FALSE
        OBVIOUS
      <4>1. k \in closing /\ ~ (l <= k)
        BY <1>2, <3>2
      <4>. QED
        BY <3>1, <4>1
    <3>4. r = IF l = start + 1 THEN Error("EMPTY_QUOTED_STRING", start)
              ELSE Parsed(ValueNode(SubSeq(t, start + 1, l - 1)), l + 1)
      <4>. HIDE DEF closing
      <4>. QED
        BY <2>4, <2>6
    <3>. HIDE DEF closing
    <3>5. s[l - 1] = Reading("quote", start, open)
      <4>1. \A k \in (start + 1) .. (l - 1) : ScanChar(s[start], t[k], k) = s[start]
        BY <2>2, <3>3, QuotedStep
      <4>2. start \in 0 .. Len(t) /\ l - 1 \in start .. Len(t)
        BY <2>1, <3>2
      <4>. QED
        BY <1>1, <2>2, <4>1, <4>2, Stationary
    <3>6. s[l] = ScanChar(s[l - 1], t[l], l)
      <4>1. l \in 1 .. Len(t)
        BY <1>2, <3>2
      <4>. QED
        BY <1>1, <4>1, ScansRight
    <3>7. CASE l = start + 1
      <4>1. s[l].fault = <<Error("EMPTY_QUOTED_STRING", start)>>
        BY <3>2, <3>5, <3>6, <3>7, QuotedStep
      <4>2. s[l].fault # <<>> /\ l \in 0 .. Len(t)
        BY <1>2, <3>2, <4>1, NotEmpty
      <4>3. ScanFault(t) = <<Error("EMPTY_QUOTED_STRING", start)>>
        BY <1>1, <4>1, <4>2, FaultStays
      <4>. QED
        BY <3>4, <3>7, <4>3, ErrorFails
    <3>8. CASE l # start + 1
      <4>1. s[l] = Reading("operator", start, open)
        BY <3>2, <3>5, <3>6, <3>8, QuotedStep
      <4>2. (l + 1) - 1 = l /\ start \in Nat
        BY <1>2, <3>2
      <4>3. Ready(t, l + 1, open)
        BY <1>1, <4>1, <4>2 DEF Ready
      <4>4. ~Failed(r) /\ r.next = l + 1
        BY <3>4, <3>8, ParsedResult
      <4>. QED
        BY <4>3, <4>4
    <3>. QED
      BY <3>7, <3>8
  <2>. HIDE DEF closing
  <2>. QED
    BY <2>5, <2>6
<1>7. CASE ~TokenSeen(t, i, Quote)
  <2>1. r = IF past = start THEN Error("STRING_EXPECTED", start) ELSE Parsed(ValueNode(SubSeq(t, start, past - 1)), past)
    BY <1>1, <1>7 DEF ParseString
  <2>2. /\ past \in start .. (Len(t) + 1) /\ (past = Len(t) + 1 \/ t[past] \notin StringChars)
        /\ \A k \in start .. (past - 1) : t[k] \in StringChars
    BY <1>1, <1>2, PastAllStops
  <2>3. CASE past = start /\ start = Len(t) + 1
    <3>1. start - 1 = Len(t)
      BY <2>3
    <3>2. PICK end : end = Scans(t)[Len(t)]
      OBVIOUS
    <3>3. end = Reading("operand", quote, open)
      BY <1>1, <1>3, <3>1, <3>2
    <3>4. end.fault = <<>> /\ end.want = "operand"
      BY <3>3 DEF Reading
    <3>5. ScanFault(t) = <<Error("STRING_EXPECTED", start)>>
      BY <2>3, <3>2, <3>4 DEF ScanFault
    <3>. QED
      BY <2>1, <2>3, <3>5, ErrorFails
  <2>4. CASE past = start /\ start # Len(t) + 1
    <3>1. start <= Len(t) /\ start \in 0 .. Len(t) /\ t[start] \notin StringChars
      BY <1>2, <2>2, <2>4
    <3>2. t[start] \notin {Blank, "!", "(", Quote}
      BY <1>2, <1>5, <1>7, <2>4, <3>1
    <3>3. s[start].fault = <<Error("STRING_EXPECTED", start)>>
      BY <1>3, <1>4, <3>1, <3>2, OperandStep
    <3>4. s[start].fault # <<>>
      BY <3>3, NotEmpty
    <3>5. ScanFault(t) = <<Error("STRING_EXPECTED", start)>>
      BY <1>1, <3>1, <3>3, <3>4, FaultStays
    <3>. QED
      BY <2>1, <2>4, <3>5, ErrorFails
  <2>5. CASE past # start
    <3>1. start \in start .. (past - 1) /\ start \in 1 .. Len(t) /\ start <= Len(t)
      BY <1>2, <2>2, <2>5
    <3>2. s[start] = Reading("name", quote, open)
      BY <1>3, <1>4, <2>2, <3>1, OperandStep
    <3>3. \A k \in (start + 1) .. (past - 1) : ScanChar(s[start], t[k], k) = s[start]
      <4>1. \A k \in (start + 1) .. (past - 1) : t[k] \in StringChars
        BY <1>2, <2>2
      <4>2. "name" \in {"operator", "name"}
        OBVIOUS
      <4>. QED
        BY <3>2, <4>1, <4>2, OperatorStep
    <3>4. start \in 0 .. Len(t) /\ past - 1 \in start .. Len(t)
      BY <2>2, <3>1
    <3>5. s[past - 1] = Reading("name", quote, open)
      BY <1>1, <3>2, <3>3, <3>4, Stationary
    <3>6. Ready(t, past, open)
      BY <1>1, <2>2, <3>5 DEF Ready
    <3>7. ~Failed(r) /\ r.next = past
      BY <2>1, <2>5, ParsedResult
    <3>. QED
      BY <3>6, <3>7
  <2>. QED
    BY <2>3, <2>4, <2>5
<1>. QED
  BY <1>6, <1>7

LEMMA AtomReported ==
  ASSUME NEW t \in Seq(STRING), NEW i \in 1 .. (Len(t) + 1), NEW p, p = Parses(t), ReportedLater(p, t, i)
  PROVE  Reported(p, t, "atom", i)
<1>1. PICK r : r = p[<<"atom", i>>]
  OBVIOUS
<1>. SUFFICES ASSUME NEW open \in Seq(Nat), Expecting(t, i, open), ~TokenSeen(t, i, "!")
              PROVE  IF Failed(r) THEN ScanFault(t) = <<r>> ELSE Ready(t, r.next, open)
  BY <1>1, NothingNeverBefore DEF Reported
<1>2. r = ParseAtom(p, t, i)
  BY <1>1, ParsesRight
<1>3. CASE ~TokenSeen(t, i, "(")
  <2>1. r = ParseString(t, i)
    BY <1>2, <1>3 DEF ParseAtom
  <2>. QED
    BY <1>3, <2>1, StringReported
<1>4. CASE TokenSeen(t, i, "(")
  <2>1. PICK s, k : s = Scans(t) /\ k = PastSpaces(t, i)
    OBVIOUS
  <2>2. k \in i .. Len(t) /\ t[k] = "(" /\ PastToken(t, i) = k + 1
    BY <1>4, <2>1, TokenSeenAt
  <2>3. k \in 1 .. Len(t) /\ k \in Nat /\ (k + 1) - 1 = k /\ k + 1 \in (i + 1) .. (Len(t) + 1) /\ k + 1 \in 1 .. (Len(t) + 1)
    BY <2>2
  <2>4. PICK open2 \in Seq(Nat) : open2 = Append(open, k)
    BY <2>3, LastOfLonger
  <2>5. open2 # <<>> /\ Last(open2) = k /\ Front(open2) = open
    BY <2>3, <2>4, LastOfLonger
  <2>6. Expecting(t, k + 1, open2)
    <3>1. Expecting(t, k, open)
      BY <2>1, ExpectingAt
    <3>2. PICK quote \in Nat : s[k - 1] = Reading("operand", quote, open)
      BY <2>1, <3>1 DEF Expecting
    <3>3. s[k] = ScanChar(s[k - 1], t[k], k)
      BY <2>1, <2>3, ScansRight
    <3>4. s[k] = Reading("operand", quote, open2)
      BY <2>2, <2>4, <3>2, <3>3, OperandStep
    <3>. QED
      BY <2>1, <2>3, <3>4 DEF Expecting
  <2>7. PICK inner : inner = p[<<"expr", k + 1>>]
    OBVIOUS
  <2>8. IF Failed(inner) THEN ScanFault(t) = <<inner>> ELSE Ready(t, inner.next, open2) /\ Stops(t, "expr", inner.next)
    <3>1. Reported(p, t, "expr", k + 1)
      BY <2>3 DEF ReportedLater, Kinds
    <3>. QED
      BY <2>6, <2>7, <3>1 DEF Reported
  <2>9. r = IF Failed(inner) THEN inner
            ELSE IF TokenSeen(t, inner.next, ")") THEN Parsed(inner.node, PastToken(t, inner.next))
            ELSE Error("RUNAWAY_PARENTHESIS", k)
    BY <1>2, <1>4, <2>1, <2>2, <2>7 DEF ParseAtom
  <2>10. CASE Failed(inner)
    BY <2>8, <2>9, <2>10
  <2>11. CASE ~Failed(inner)
    <3>1. inner.next \in 1 .. (Len(t) + 1)
      <4>1. Advances(t, k + 1, inner)
        BY <2>3, <2>7, ParsesRight DEF Kinds
      <4>. QED
        BY <2>3, <2>11, <4>1 DEF Advances
    <3>2. PICK l : l = PastSpaces(t, inner.next)
      OBVIOUS
    <3>3. (\A c : TokenSeen(t, inner.next, c) <=> l <= Len(t) /\ t[l] = c) /\ PastToken(t, inner.next) = l + 1
      BY <3>1, <3>2, TokenIs
    <3>4. Ready(t, inner.next, open2) /\ ~TokenSeen(t, inner.next, "&") /\ ~TokenSeen(t, inner.next, "|")
      BY <2>8, <2>11 DEF Stops, NeverBefore
    <3>5. CASE TokenSeen(t, inner.next, ")")
      <4>1. l <= Len(t) /\ t[l] = ")"
        BY <3>3, <3>5
      <4>2. Ready(t, l + 1, open)
        BY <2>5, <3>1, <3>2, <3>4, <4>1, ReadyReads
      <4>3. ~Failed(r) /\ r.next = l + 1
        BY <2>9, <2>11, <3>3, <3>5, ParsedResult
      <4>. QED
        BY <4>2, <4>3
    <3>6. CASE ~TokenSeen(t, inner.next, ")") /\ l <= Len(t)
      <4>1. t[l] \notin {"&", "|"} /\ t[l] # ")"
        BY <3>3, <3>4, <3>6
      <4>2. ScanFault(t) = <<Error("RUNAWAY_PARENTHESIS", k)>>
        BY <2>5, <3>1, <3>2, <3>4, <3>6, <4>1, ReadyReads
      <4>. QED
        BY <2>9, <2>11, <3>6, <4>2, ErrorFails
    <3>7. CASE ~TokenSeen(t, inner.next, ")") /\ ~ (l <= Len(t))
      <4>1. l = Len(t) + 1
        BY <3>1, <3>2, <3>7, SpacesStop
      <4>2. ScanFault(t) = <<Error("RUNAWAY_PARENTHESIS", k)>>
        BY <2>5, <3>1, <3>2, <3>4, <4>1, ReadyEnds
      <4>. QED
        BY <2>9, <2>11, <3>7, <4>2, ErrorFails
    <3>. QED
      BY <3>5, <3>6, <3>7
  <2>. QED
    BY <2>10, <2>11
<1>. QED
  BY <1>3, <1>4

LEMMA FactorReported ==
  ASSUME NEW t \in Seq(STRING), NEW i \in 1 .. (Len(t) + 1), NEW p, p = Parses(t), ReportedLater(p, t, i),
         Reported(p, t, "atom", i), NEW kind \in {"factor", "odd"}
  PROVE  Reported(p, t, kind, i)
<1>1. PICK r, atom : r = p[<<kind, i>>] /\ atom = p[<<"atom", i>>]
  OBVIOUS
<1>. SUFFICES ASSUME NEW open \in Seq(Nat), Expecting(t, i, open)
              PROVE  IF Failed(r) THEN ScanFault(t) = <<r>> ELSE Ready(t, r.next, open)
  BY <1>1, NothingNeverBefore DEF Reported
<1>2. PICK even \in BOOLEAN : even = (kind = "factor")
  OBVIOUS
<1>3. r = ParseFactor(p, t, i, even)
  <2>1. p[<<"factor", i>>] = ParseFactor(p, t, i, TRUE) /\ p[<<"odd", i>>] = ParseFactor(p, t, i, FALSE)
    BY ParsesRight
  <2>2. CASE kind = "factor"
    BY <1>1, <1>2, <2>1, <2>2
  <2>3. CASE kind = "odd"
    BY <1>1, <1>2, <2>1, <2>3
  <2>. QED
    BY <2>2, <2>3
<1>4. PICK other \in {"factor", "odd"} : other = IF even THEN "odd" ELSE "factor"
  OBVIOUS
<1>5. CASE TokenSeen(t, i, "!")
  <2>1. PICK s, k : s = Scans(t) /\ k = PastSpaces(t, i)
    OBVIOUS
  <2>2. k \in i .. Len(t) /\ t[k] = "!" /\ PastToken(t, i) = k + 1
    BY <1>5, <2>1, TokenSeenAt
  <2>3. k \in 1 .. Len(t) /\ (k + 1) - 1 = k /\ k + 1 \in (i + 1) .. (Len(t) + 1)
    BY <2>2
  <2>4. Expecting(t, k + 1, open)
    <3>1. Expecting(t, k, open)
      BY <2>1, ExpectingAt
    <3>2. PICK quote \in Nat : s[k - 1] = Reading("operand", quote, open)
      BY <2>1, <3>1 DEF Expecting
    <3>3. s[k] = ScanChar(s[k - 1], t[k], k)
      BY <2>1, <2>3, ScansRight
    <3>4. s[k] = Reading("operand", quote, open)
      BY <2>2, <3>2, <3>3, OperandStep
    <3>. QED
      BY <2>1, <2>3, <3>4 DEF Expecting
  <2>5. r = p[<<other, k + 1>>]
    BY <1>3, <1>4, <1>5, <2>2 DEF ParseFactor
  <2>6. Reported(p, t, other, k + 1) /\ other # "atom"
    BY <2>3 DEF ReportedLater, Kinds
  <2>. QED
    BY <2>4, <2>5, <2>6 DEF Reported
<1>6. CASE ~TokenSeen(t, i, "!")
  <2>1. IF Failed(atom) THEN ScanFault(t) = <<atom>> ELSE Ready(t, atom.next, open)
    BY <1>1, <1>6 DEF Reported
  <2>2. r = IF even \/ Failed(atom) THEN atom ELSE Parsed(NotNode(atom.node), atom.next)
    BY <1>1, <1>3, <1>6 DEF ParseFactor
  <2>3. CASE Failed(atom)
    BY <2>1, <2>2, <2>3
  <2>4. CASE ~Failed(atom)
    <3>1. ~Failed(r) /\ r.next = atom.next
      BY <2>2, <2>4, ParsedResult
    <3>. QED
      BY <2>1, <2>4, <3>1
  <2>. QED
    BY <2>3, <2>4
<1>. QED
  BY <1>5, <1>6

LEMMA TermReported ==
  ASSUME NEW t \in Seq(STRING), NEW i \in 1 .. (Len(t) + 1), NEW p, p = Parses(t), ReportedLater(p, t, i), Reported(p, t, "factor", i)
  PROVE  Reported(p, t, "term", i)
<1>1. PICK r, left : r = p[<<"term", i>>] /\ left = p[<<"factor", i>>]
  OBVIOUS
<1>. SUFFICES ASSUME NEW open \in Seq(Nat), Expecting(t, i, open)
              PROVE  IF Failed(r) THEN ScanFault(t) = <<r>> ELSE Ready(t, r.next, open) /\ Stops(t, "term", r.next)
  BY <1>1 DEF Reported
<1>2. r = ParseTerm(p, t, i)
  BY <1>1, ParsesRight
<1>3. IF Failed(left) THEN ScanFault(t) = <<left>> ELSE Ready(t, left.next, open) /\ Stops(t, "factor", left.next)
  BY <1>1 DEF Reported
<1>4. CASE Failed(left)
  <2>1. r = left
    BY <1>1, <1>2, <1>4 DEF ParseTerm
  <2>. QED
    BY <1>3, <1>4, <2>1
<1>5. CASE ~Failed(left) /\ ~TokenSeen(t, left.next, "&")
  <2>1. r = left
    BY <1>1, <1>2, <1>5 DEF ParseTerm
  <2>2. Stops(t, "term", left.next)
    BY <1>3, <1>5 DEF Stops, NeverBefore
  <2>. QED
    BY <1>3, <1>5, <2>1, <2>2
<1>6. CASE ~Failed(left) /\ TokenSeen(t, left.next, "&")
  <2>1. PICK k : k = PastSpaces(t, left.next)
    OBVIOUS
  <2>2. left.next \in (i + 1) .. (Len(t) + 1) /\ left.next \in 1 .. (Len(t) + 1)
    <3>1. Advances(t, i, left)
      BY <1>1, ParsesRight DEF Kinds
    <3>. QED
      BY <1>6, <3>1 DEF Advances
  <2>3. k \in left.next .. Len(t) /\ t[k] = "&" /\ PastToken(t, left.next) = k + 1
    BY <1>6, <2>1, <2>2, TokenSeenAt
  <2>4. Expecting(t, k + 1, open)
    <3>1. k <= Len(t) /\ Ready(t, left.next, open)
      BY <1>3, <1>6, <2>2, <2>3
    <3>. QED
      BY <2>1, <2>2, <2>3, <3>1, ReadyReads
  <2>5. PICK right : right = p[<<"term", k + 1>>]
    OBVIOUS
  <2>6. r = IF Failed(right) THEN right ELSE Parsed(AndNode(left.node, right.node), right.next)
    BY <1>1, <1>2, <1>6, <2>3, <2>5 DEF ParseTerm
  <2>7. IF Failed(right) THEN ScanFault(t) = <<right>> ELSE Ready(t, right.next, open) /\ Stops(t, "term", right.next)
    <3>1. k + 1 \in (i + 1) .. (Len(t) + 1)
      BY <2>2, <2>3
    <3>2. Reported(p, t, "term", k + 1)
      BY <3>1 DEF ReportedLater, Kinds
    <3>. QED
      BY <2>4, <2>5, <3>2 DEF Reported
  <2>. QED
    BY <2>6, <2>7, ParsedResult
<1>. QED
  BY <1>4, <1>5, <1>6

LEMMA ExprReported ==
  ASSUME NEW t \in Seq(STRING), NEW i \in 1 .. (Len(t) + 1), NEW p, p = Parses(t), ReportedLater(p, t, i), Reported(p, t, "term", i)
  PROVE  Reported(p, t, "expr", i)
<1>1. PICK r, left : r = p[<<"expr", i>>] /\ left = p[<<"term", i>>]
  OBVIOUS
<1>. SUFFICES ASSUME NEW open \in Seq(Nat), Expecting(t, i, open)
              PROVE  IF Failed(r) THEN ScanFault(t) = <<r>> ELSE Ready(t, r.next, open) /\ Stops(t, "expr", r.next)
  BY <1>1 DEF Reported
<1>2. r = ParseExpr(p, t, i)
  BY <1>1, ParsesRight
<1>3. IF Failed(left) THEN ScanFault(t) = <<left>> ELSE Ready(t, left.next, open) /\ Stops(t, "term", left.next)
  BY <1>1 DEF Reported
<1>4. CASE Failed(left)
  <2>1. r = left
    BY <1>1, <1>2, <1>4 DEF ParseExpr
  <2>. QED
    BY <1>3, <1>4, <2>1
<1>5. CASE ~Failed(left) /\ ~TokenSeen(t, left.next, "|")
  <2>1. r = left
    BY <1>1, <1>2, <1>5 DEF ParseExpr
  <2>2. Stops(t, "expr", left.next)
    BY <1>3, <1>5 DEF Stops, NeverBefore
  <2>. QED
    BY <1>3, <1>5, <2>1, <2>2
<1>6. CASE ~Failed(left) /\ TokenSeen(t, left.next, "|")
  <2>1. PICK k : k = PastSpaces(t, left.next)
    OBVIOUS
  <2>2. left.next \in (i + 1) .. (Len(t) + 1) /\ left.next \in 1 .. (Len(t) + 1)
    <3>1. Advances(t, i, left)
      BY <1>1, ParsesRight DEF Kinds
    <3>. QED
      BY <1>6, <3>1 DEF Advances
  <2>3. k \in left.next .. Len(t) /\ t[k] = "|" /\ PastToken(t, left.next) = k + 1
    BY <1>6, <2>1, <2>2, TokenSeenAt
  <2>4. Expecting(t, k + 1, open)
    <3>1. k <= Len(t) /\ Ready(t, left.next, open)
      BY <1>3, <1>6, <2>2, <2>3
    <3>. QED
      BY <2>1, <2>2, <2>3, <3>1, ReadyReads
  <2>5. PICK right : right = p[<<"expr", k + 1>>]
    OBVIOUS
  <2>6. r = IF Failed(right) THEN right ELSE Parsed(OrNode(left.node, right.node), right.next)
    BY <1>1, <1>2, <1>6, <2>3, <2>5 DEF ParseExpr
  <2>7. IF Failed(right) THEN ScanFault(t) = <<right>> ELSE Ready(t, right.next, open) /\ Stops(t, "expr", right.next)
    <3>1. k + 1 \in (i + 1) .. (Len(t) + 1)
      BY <2>2, <2>3
    <3>2. Reported(p, t, "expr", k + 1)
      BY <3>1 DEF ReportedLater, Kinds
    <3>. QED
      BY <2>4, <2>5, <3>2 DEF Reported
  <2>. QED
    BY <2>6, <2>7, ParsedResult
<1>. QED
  BY <1>4, <1>5, <1>6

LEMMA AllReported ==
  ASSUME NEW t \in Seq(STRING), NEW p, p = Parses(t)
  PROVE  \A kind \in Kinds, i \in 1 .. (Len(t) + 1) : Reported(p, t, kind, i)
<1>. DEFINE G == {c \in Calls(t) : Reported(p, t, c[1], c[2])}
<1>1. \A kind \in Kinds, i \in 1 .. (Len(t) + 1) : <<kind, i>> \in G <=> Reported(p, t, kind, i)
  BY DEF Calls
<1>. HIDE DEF G
<1>2. ASSUME NEW i \in 1 .. (Len(t) + 1), LaterIn(G, t, i) PROVE ReportedLater(p, t, i)
  <2>1. ASSUME NEW kind \in Kinds, NEW k \in (i + 1) .. (Len(t) + 1) PROVE Reported(p, t, kind, k)
    <3>1. <<kind, k>> \in G /\ k \in 1 .. (Len(t) + 1)
      BY <1>2 DEF LaterIn
    <3>. QED
      BY <1>1, <3>1
  <2>. QED
    BY <2>1 DEF ReportedLater
<1>3. ASSUME NEW i \in 1 .. (Len(t) + 1), LaterIn(G, t, i) PROVE <<"atom", i>> \in G
  BY <1>1, <1>2, <1>3, AtomReported DEF Kinds
<1>4. ASSUME NEW i \in 1 .. (Len(t) + 1), LaterIn(G, t, i), <<"atom", i>> \in G PROVE {<<"factor", i>>, <<"odd", i>>} \subseteq G
  <2>1. ReportedLater(p, t, i) /\ Reported(p, t, "atom", i)
    BY <1>1, <1>2, <1>4 DEF Kinds
  <2>2. Reported(p, t, "factor", i) /\ Reported(p, t, "odd", i)
    BY <2>1, FactorReported
  <2>. QED
    BY <1>1, <2>2 DEF Kinds
<1>5. ASSUME NEW i \in 1 .. (Len(t) + 1), LaterIn(G, t, i), <<"factor", i>> \in G PROVE <<"term", i>> \in G
  <2>1. ReportedLater(p, t, i) /\ Reported(p, t, "factor", i)
    BY <1>1, <1>2, <1>5 DEF Kinds
  <2>. QED
    BY <1>1, <2>1, TermReported DEF Kinds
<1>6. ASSUME NEW i \in 1 .. (Len(t) + 1), LaterIn(G, t, i), <<"term", i>> \in G PROVE <<"expr", i>> \in G
  <2>1. ReportedLater(p, t, i) /\ Reported(p, t, "term", i)
    BY <1>1, <1>2, <1>6 DEF Kinds
  <2>. QED
    BY <1>1, <2>1, ExprReported DEF Kinds
<1>. QED
  BY <1>1, <1>3, <1>4, <1>5, <1>6, CallInduction

\* A line is refused for the first fault of the scan.
LEMMA ParseReported ==
  ASSUME NEW t \in Seq(STRING), NEW r, r = Parse(t)
  PROVE  (IF Failed(r) THEN <<r>> ELSE <<>>) = ScanFault(t)
<1>1. PICK p, root, end : p = Parses(t) /\ root = p[<<"expr", 1>>] /\ end = PastSpaces(t, root.next)
  OBVIOUS
<1>2. r = IF Failed(root) \/ end = Len(t) + 1 THEN root ELSE Error("GARBAGE_AT_END", end)
  BY <1>1 DEF Parse
<1>3. 1 \in 1 .. (Len(t) + 1) /\ "expr" \in Kinds /\ 1 - 1 = 0 /\ 0 \in Nat /\ <<>> \in Seq(Nat)
  BY DEF Kinds
<1>4. Expecting(t, 1, <<>>)
  <2>1. Scans(t)[0] = ScanStart
    BY ScansRight
  <2>2. ScanStart = Reading("operand", 0, <<>>)
    BY DEF ScanStart, Reading
  <2>. QED
    BY <1>3, <2>1, <2>2 DEF Expecting
<1>5. IF Failed(root) THEN ScanFault(t) = <<root>> ELSE Ready(t, root.next, <<>>) /\ Stops(t, "expr", root.next)
  <2>1. Reported(p, t, "expr", 1)
    BY <1>1, <1>3, AllReported
  <2>. QED
    BY <1>1, <1>3, <1>4, <2>1 DEF Reported
<1>6. CASE Failed(root)
  BY <1>2, <1>5, <1>6
<1>7. CASE ~Failed(root)
  <2>1. root.next \in 1 .. (Len(t) + 1)
    <3>1. Advances(t, 1, root)
      BY <1>1, <1>3, ParsesRight
    <3>. QED
      BY <1>7, <3>1 DEF Advances
  <2>2. CASE end = Len(t) + 1
    <3>1. ScanFault(t) = <<>>
      BY <1>1, <1>5, <1>7, <2>1, <2>2, ReadyEnds
    <3>. QED
      BY <1>2, <1>7, <2>2, <3>1
  <2>3. CASE end # Len(t) + 1
    <3>1. end <= Len(t)
      BY <1>1, <2>1, <2>3, SpacesStop
    <3>2. \A c : TokenSeen(t, root.next, c) <=> end <= Len(t) /\ t[end] = c
      BY <1>1, <2>1, TokenIs
    <3>3. t[end] \notin {"&", "|"}
      BY <1>5, <1>7, <3>1, <3>2 DEF Stops, NeverBefore
    <3>4. ScanFault(t) = <<Error("GARBAGE_AT_END", end)>>
      BY <1>1, <1>5, <1>7, <2>1, <3>1, <3>3, ReadyReads
    <3>. QED
      BY <1>2, <1>7, <2>3, <3>4, ErrorFails
  <2>. QED
    BY <2>2, <2>3
<1>. QED
  BY <1>6, <1>7

----------------------------------------------------------------------------
(* The dialogue *)

\* The prompts, and that an outcome is what the parser makes of the line.
ConsoleInv ==
  /\ ExpressionsFromLineStart /\ CommandsFromOwnLine
  /\ text \in Seq(STRING)
  /\ outcome # NoOutcome => outcome = Parse(text)

LEMMA InitInv == Init => ConsoleInv
BY DEF Init, ConsoleInv, ExpressionsFromLineStart, CommandsFromOwnLine, AtExpression, At

\* The prompts that get_command and get_var serve, and the error loops.
LEMMA KeysKeepInv ==
  ASSUME ConsoleInv,
         \/ FlushLine \/ FailedRead \/ CloseInput
         \/ \E c \in Keys : ReadMode(c) \/ ReadCommand(c) \/ ReadVar(c)
         \/ \E w \in Words : ReadOperation(w)
  PROVE  ConsoleInv'
<1>1. CASE FlushLine
  BY <1>1 DEF ConsoleInv, FlushLine, exprVars, ExpressionsFromLineStart, CommandsFromOwnLine, AtExpression, At
<1>2. CASE FailedRead
  BY <1>2 DEF ConsoleInv, FailedRead, exprVars, ExpressionsFromLineStart, CommandsFromOwnLine, AtExpression, At
<1>3. CASE CloseInput
  BY <1>3 DEF ConsoleInv, CloseInput, exprVars, ExpressionsFromLineStart, CommandsFromOwnLine, AtExpression, At
<1>4. ASSUME NEW c \in Keys, ReadMode(c) PROVE ConsoleInv'
  BY <1>4 DEF ConsoleInv, ReadMode, GoOn, Reject, exprVars, ExpressionsFromLineStart, CommandsFromOwnLine, AtExpression, At
<1>5. ASSUME NEW c \in Keys, ReadCommand(c) PROVE ConsoleInv'
  BY <1>5 DEF ConsoleInv, ReadCommand, GoOn, Reject, exprVars, ExpressionsFromLineStart, CommandsFromOwnLine, AtExpression, At
<1>6. ASSUME NEW c \in Keys, ReadVar(c) PROVE ConsoleInv'
  BY <1>6 DEF ConsoleInv, ReadVar, ExpressionsFromLineStart, CommandsFromOwnLine, AtExpression, At
<1>7. ASSUME NEW w \in Words, ReadOperation(w) PROVE ConsoleInv'
  BY <1>7 DEF ConsoleInv, ReadOperation, ExpressionsFromLineStart, CommandsFromOwnLine, AtExpression, At
<1>. QED
  BY <1>1, <1>2, <1>3, <1>4, <1>5, <1>6, <1>7

\* build_bdd_from_input.
LEMMA LinesKeepInv ==
  ASSUME ConsoleInv, ReadLine \/ NoLine \/ ReportError \/ Build
  PROVE  ConsoleInv'
<1>1. CASE ReadLine
  <2>1. text' \in Seq(STRING)
    BY <1>1, LinesAssumption DEF ReadLine
  <2>. QED
    BY <1>1, <2>1 DEF ConsoleInv, ReadLine, ExpressionsFromLineStart, CommandsFromOwnLine, AtExpression, At
<1>2. CASE NoLine
  BY <1>2 DEF ConsoleInv, NoLine, exprVars, ExpressionsFromLineStart, CommandsFromOwnLine, AtExpression, At
<1>3. CASE ReportError
  BY <1>3 DEF ConsoleInv, ReportError, ExpressionsFromLineStart, CommandsFromOwnLine, AtExpression, At
<1>4. CASE Build
  BY <1>4 DEF ConsoleInv, Build, ExpressionsFromLineStart, CommandsFromOwnLine, AtExpression, At
<1>. QED
  BY <1>1, <1>2, <1>3, <1>4

LEMMA NextInv == ConsoleInv /\ [Next]_consoleVars => ConsoleInv'
<1>. SUFFICES ASSUME ConsoleInv, [Next]_consoleVars PROVE ConsoleInv'
  OBVIOUS
<1>1. CASE UNCHANGED consoleVars
  BY <1>1 DEF ConsoleInv, consoleVars, ExpressionsFromLineStart, CommandsFromOwnLine, AtExpression, At
<1>2. CASE Spin \/ Stopped
  BY <1>1, <1>2 DEF Spin, Stopped
<1>. QED
  BY <1>1, <1>2, KeysKeepInv, LinesKeepInv DEF Next, Reads, Runs

LEMMA InvHolds == Spec => []ConsoleInv
<1>. QED
  BY InitInv, NextInv, PTL DEF Spec

(* Every prompt for an expression, including the second one of an apply and   *)
(* those after a refused line, reads from the start of a line (getline in     *)
(* build_bdd_from_input), whatever the commands before have left unread.      *)
THEOREM ExpressionsStartLines == Spec => []ExpressionsFromLineStart
<1>1. ConsoleInv => ExpressionsFromLineStart
  BY DEF ConsoleInv
<1>. QED
  BY <1>1, InvHolds, PTL

(* No command is read from the rest of a line whose beginning was refused or  *)
(* was itself a command (the flush loops of main and get_command).            *)
THEOREM CommandsHaveLines == Spec => []CommandsFromOwnLine
<1>1. ConsoleInv => CommandsFromOwnLine
  BY DEF ConsoleInv
<1>. QED
  BY <1>1, InvHolds, PTL

(* Whatever the line, the tree that the parser returns is its only derivation *)
(* from the grammar, and the lines it refuses have none.                      *)
THEOREM ParserRight == Spec => []TreeDerived
<1>1. ConsoleInv => TreeDerived
  BY ParseDerived DEF ConsoleInv, TreeDerived
<1>. QED
  BY <1>1, InvHolds, PTL

(* Whatever the line, the parser refuses it exactly if the scan finds a fault, *)
(* and reports the first one at its column.                                   *)
THEOREM FaultsRight == Spec => []FaultReported
<1>1. ConsoleInv => FaultReported
  BY ParseReported DEF ConsoleInv, FaultReported
<1>. QED
  BY <1>1, InvHolds, PTL
=============================================================================
