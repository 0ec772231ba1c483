---------------------------- MODULE BoolExprParser ----------------------------
(***************************************************************************)
(* The recursive-descent parser of P1/Bool_expr_parser.cpp.  A text is a   *)
(* sequence of characters, and positions count from 1, as the columns main *)
(* reports do.  A parse function returns the tree it has built and the     *)
(* position after it, or the error it throws; an error passes through all  *)
(* the callers.                                                            *)
(***************************************************************************)
EXTENDS Integers, Sequences, SequencesExt

CONSTANT StringChars      \* the letters, digits and underscores of names

Blank == " "
Quote == "\""
ASSUME StringCharsAssumption == StringChars \cap {Blank, Quote, "!", "&", "|", "(", ")"} = {}

ValueNode(s)  == [type |-> "VALUE", value |-> s]
NotNode(n)    == [type |-> "NOT", right |-> n]
AndNode(l, r) == [type |-> "AND", left |-> l, right |-> r]
OrNode(l, r)  == [type |-> "OR", left |-> l, right |-> r]

Parsed(node, next)  == [node |-> node, next |-> next]
Error(code, column) == [code |-> code, column |-> column]
Failed(r) == "code" \in DOMAIN r

\* The first position from i on whose character is not in S (or the end).
PastAll(t, i, S) == CHOOSE j \in i .. Len(t) + 1 : /\ j = Len(t) + 1 \/ t[j] \notin S
                                                   /\ \A k \in i .. j - 1 : t[k] \in S
PastSpaces(t, i) == PastAll(t, i, {Blank})
TokenSeen(t, i, c) == LET j == PastSpaces(t, i) IN j <= Len(t) /\ t[j] = c
PastToken(t, i) == PastSpaces(t, i) + 1

QuotedString(t, start) ==
  LET closing == {j \in start + 1 .. Len(t) : t[j] = Quote}
      j == Min(closing)
  IN IF closing = {} THEN Error("RUNAWAY_DOUBLE_QUOTES", start)
     ELSE IF j = start + 1 THEN Error("EMPTY_QUOTED_STRING", start)
     ELSE Parsed(ValueNode(SubSeq(t, start + 1, j - 1)), j + 1)

ParseString(t, i) ==
  LET start == PastSpaces(t, i)
      past  == PastAll(t, start, StringChars)
  IN IF TokenSeen(t, i, Quote) THEN QuotedString(t, start)
     ELSE IF past = start THEN Error("STRING_EXPECTED", start)
     ELSE Parsed(ValueNode(SubSeq(t, start, past - 1)), past)

\* The parse functions call each other through p: p[<<f, i>>] is what f returns
\* from position i on.  ("odd" is parseFactor after an odd number of "!".)
ParseExpr(p, t, i) ==
  LET left  == p[<<"term", i>>]
      right == p[<<"expr", PastToken(t, left.next)>>]
  IN IF Failed(left) \/ ~TokenSeen(t, left.next, "|") THEN left
     ELSE IF Failed(right) THEN right
     ELSE Parsed(OrNode(left.node, right.node), right.next)

\* Mutant of ParseTerm: what follows "&" is parsed by parseExpr.
ParseTermWide(p, t, i) ==
  LET left  == p[<<"factor", i>>]
      right == p[<<"expr", PastToken(t, left.next)>>]
  IN IF Failed(left) \/ ~TokenSeen(t, left.next, "&") THEN left
     ELSE IF Failed(right) THEN right
     ELSE Parsed(AndNode(left.node, right.node), right.next)

ParseTerm(p, t, i) ==
  LET left  == p[<<"factor", i>>]
      right == p[<<"term", PastToken(t, left.next)>>]
  IN IF Failed(left) \/ ~TokenSeen(t, left.next, "&") THEN left
     ELSE IF Failed(right) THEN right
     ELSE Parsed(AndNode(left.node, right.node), right.next)

\* v: an even number of "!" has been read.
ParseFactor(p, t, i, v) ==
  LET atom == p[<<"atom", i>>]
  IN IF TokenSeen(t, i, "!") THEN p[<<IF v THEN "odd" ELSE "factor", PastToken(t, i)>>]
     ELSE IF v \/ Failed(atom) THEN atom
     ELSE Parsed(NotNode(atom.node), atom.next)

\* Mutant of ParseAtom: the start is taken before spaces are skipped.
ParseAtomUnskipped(p, t, i) ==
  LET inner == p[<<"expr", PastToken(t, i)>>]
  IN IF ~TokenSeen(t, i, "(") THEN ParseString(t, i)
     ELSE IF Failed(inner) THEN inner
     ELSE IF TokenSeen(t, inner.next, ")") THEN Parsed(inner.node, PastToken(t, inner.next))
     ELSE Error("RUNAWAY_PARENTHESIS", i)

ParseAtom(p, t, i) ==
  LET inner == p[<<"expr", PastToken(t, i)>>]
  IN IF ~TokenSeen(t, i, "(") THEN ParseString(t, i)
     ELSE IF Failed(inner) THEN inner
     ELSE IF TokenSeen(t, inner.next, ")") THEN Parsed(inner.node, PastToken(t, inner.next))
     ELSE Error("RUNAWAY_PARENTHESIS", PastSpaces(t, i))

\* What a parse function returns; the table of what all of them return.
Kinds == {"expr", "term", "factor", "odd", "atom"}
ParseAt(p, t, c) ==
  CASE c[1] = "expr"   -> ParseExpr(p, t, c[2])
    [] c[1] = "term"   -> ParseTerm(p, t, c[2])
    [] c[1] = "factor" -> ParseFactor(p, t, c[2], TRUE)
    [] c[1] = "odd"    -> ParseFactor(p, t, c[2], FALSE)
    [] c[1] = "atom"   -> ParseAtom(p, t, c[2])
Parses(t) == LET p[c \in Kinds \X (1 .. Len(t) + 1)] == ParseAt(p, t, c) IN p

Parse(t) ==
  LET root == Parses(t)[<<"expr", 1>>]
      end  == PastSpaces(t, root.next)
  IN IF Failed(root) \/ end = Len(t) + 1 THEN root ELSE Error("GARBAGE_AT_END", end)

\* The variables of a tree of at most that height: the first characters of its
\* values, of which 0 and 1 are the constants (bdd_from_expr).
Children(n) ==
  CASE n.type = "VALUE" -> {}
    [] n.type = "NOT"   -> {n.right}
    [] OTHER            -> {n.left, n.right}
TreeVars(n, height) ==
  LET level[k \in 0 .. height] == IF k = 0 THEN {n} ELSE UNION {Children(m) : m \in level[k - 1]}
      nodes == UNION {level[k] : k \in 0 .. height}
  IN {m.value[1] : m \in {l \in nodes : l.type = "VALUE"}} \ {"0", "1"}

----------------------------------------------------------------------------
(* References, by other means: a grammar and a left-to-right scan.         *)

\* All trees that a part of a text, from i to j, has in the grammar
\*   Expr   -> Term  | Term "|" Expr          Term -> Factor | Factor "&" Term
\*   Factor -> Atom  | "!" Factor             Atom -> "(" Expr ")" | name | quoted name
\* with d[<<f, i, j>>] those it has as an f ("odd": after an odd number of "!").
Occurs(c, t, i, j) == {k \in i .. j : t[k] = c}
Solid(t, i, j) == {k \in i .. j : t[k] # Blank}
ExprTrees(d, t, i, j) ==
  d[<<"term", i, j>>] \cup
  UNION {{OrNode(l, r) : l \in d[<<"term", i, k - 1>>], r \in d[<<"expr", k + 1, j>>]} : k \in Occurs("|", t, i, j)}
TermTrees(d, t, i, j) ==
  d[<<"factor", i, j>>] \cup
  UNION {{AndNode(l, r) : l \in d[<<"factor", i, k - 1>>], r \in d[<<"term", k + 1, j>>]} : k \in Occurs("&", t, i, j)}
FactorTrees(d, t, i, j, even) ==
  LET k == PastSpaces(t, i)
  IN IF k <= j /\ t[k] = "!" THEN d[<<IF even THEN "odd" ELSE "factor", k + 1, j>>]
     ELSE IF even THEN d[<<"atom", i, j>>] ELSE {NotNode(n) : n \in d[<<"atom", i, j>>]}
AtomTrees(d, t, i, j) ==
  LET f == Min(Solid(t, i, j))
      l == Max(Solid(t, i, j))
  IN IF Solid(t, i, j) = {} THEN {}
     ELSE IF \A k \in f .. l : t[k] \in StringChars THEN {ValueNode(SubSeq(t, f, l))}
     ELSE IF l <= f + 1 THEN {}
     ELSE IF t[f] = "(" /\ t[l] = ")" THEN d[<<"expr", f + 1, l - 1>>]
     ELSE IF Occurs(Quote, t, f, l) = {f, l} THEN {ValueNode(SubSeq(t, f + 1, l - 1))}
     ELSE {}

TreesAt(d, t, c) ==
  CASE c[1] = "expr"   -> ExprTrees(d, t, c[2], c[3])
    [] c[1] = "term"   -> TermTrees(d, t, c[2], c[3])
    [] c[1] = "factor" -> FactorTrees(d, t, c[2], c[3], TRUE)
    [] c[1] = "odd"    -> FactorTrees(d, t, c[2], c[3], FALSE)
    [] c[1] = "atom"   -> AtomTrees(d, t, c[2], c[3])
Derivations(t) == LET d[c \in Kinds \X (1 .. Len(t) + 1) \X (0 .. Len(t))] == TreesAt(d, t, c) IN d

\* The scan: what is expected next, where a quote and the open parentheses
\* started, and the first character that fits no more.
ScanStart == [want |-> "operand", quote |-> 0, open |-> <<>>, fault |-> <<>>]
Fault(sc, code, column) == [sc EXCEPT !.fault = <<Error(code, column)>>]
Misplaced(sc, i) == IF sc.open = <<>> THEN Fault(sc, "GARBAGE_AT_END", i)
                    ELSE Fault(sc, "RUNAWAY_PARENTHESIS", Last(sc.open))

ScanOperand(sc, c, i) ==
  CASE c \in {Blank, "!"}  -> sc
    [] c = "("             -> [sc EXCEPT !.open = Append(@, i)]
    [] c \in StringChars   -> [sc EXCEPT !.want = "name"]
    [] c = Quote           -> [sc EXCEPT !.want = "quote", !.quote = i]
    [] OTHER               -> Fault(sc, "STRING_EXPECTED", i)
ScanQuoted(sc, c, i) ==
  IF c # Quote THEN sc
  ELSE IF i = sc.quote + 1 THEN Fault(sc, "EMPTY_QUOTED_STRING", sc.quote)
  ELSE [sc EXCEPT !.want = "operator"]
ScanOperator(sc, c, i) ==
  CASE c = Blank                                 -> [sc EXCEPT !.want = "operator"]
    [] c \in {"&", "|"}                          -> [sc EXCEPT !.want = "operand"]
    [] c = ")" /\ sc.open # <<>>                 -> [sc EXCEPT !.want = "operator", !.open = Front(@)]
    [] c \in StringChars /\ sc.want = "name"     -> sc
    [] OTHER                                     -> Misplaced(sc, i)

ScanChar(sc, c, i) ==
  IF sc.fault # <<>> THEN sc
  ELSE CASE sc.want = "operand" -> ScanOperand(sc, c, i)
         [] sc.want = "quote"   -> ScanQuoted(sc, c, i)
         [] OTHER               -> ScanOperator(sc, c, i)

\* <<>> if the text is an expression, else the error to report.
Scans(t) == LET s[i \in 0 .. Len(t)] == IF i = 0 THEN ScanStart ELSE ScanChar(s[i - 1], t[i], i) IN s
ScanFault(t) ==
  LET end == Scans(t)[Len(t)]
  IN IF end.fault # <<>> THEN end.fault
     ELSE IF end.want = "operand" THEN <<Error("STRING_EXPECTED", Len(t) + 1)>>
     ELSE IF end.want = "quote" THEN <<Error("RUNAWAY_DOUBLE_QUOTES", end.quote)>>
     ELSE IF end.open # <<>> THEN <<Error("RUNAWAY_PARENTHESIS", Last(end.open))>>
     ELSE <<>>
=============================================================================
