------------------------------ MODULE MCConsole -------------------------------
(***************************************************************************)
(* Values of the constants of Console and BoolExprParser for TLC.          *)
(***************************************************************************)
EXTENDS Console

TextsOver(chars, n) == UNION {[1 .. k -> chars] : k \in 0 .. n}

\* Every short line, and longer ones without blanks and quotes.
MCLines == TextsOver({"a", "!", "&", "|", "(", ")", Blank, Quote}, 5)
           \cup TextsOver({"a", "!", "|", "&"}, 6)
           \cup TextsOver({"a", "|", "(", ")"}, 7)
\* Constants, other variables and names of two characters.
MCMoreLines == TextsOver({"a", "p", "0", "1", "&"}, 2) \cup TextsOver({"a", "(", "!"}, 3)
MCFewLines == TextsOver({"a", "&"}, 2)
=============================================================================
