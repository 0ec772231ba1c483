------------------------------- MODULE Console --------------------------------
(***************************************************************************)
(* The dialogue of project1 with its user (P1/main.cpp,                    *)
(* operation.cpp's prompt_for_operation): which characters of the input    *)
(* each prompt reads, drops and leaves, and what happens when the input    *)
(* ends.  get_command, get_var and prompt_for_operation read with >>,      *)
(* which leaves the rest of the line; expressions are read with getline;   *)
(* in between, loops drop characters up to the next newline.               *)
(*                                                                         *)
(* The user is free: a character is chosen when the program reads it.  The *)
(* BDD of expr1 is here the set of its variables, any of those known so    *)
(* far: simplification drops variables, and a stale computed-table entry   *)
(* (BddMeaning) gives the result of other operands.  All operations of     *)
(* BddSession return.                                                      *)
(***************************************************************************)
EXTENDS BoolExprParser

CONSTANTS
  Keys,        \* what the user types at a prompt for a character
  Words,       \* ... at the prompt for an operation
  Lines,       \* bound: the first expressions that are typed
  MoreLines    \* bound: the expressions typed for the command "a"

ASSUME LinesAssumption == Lines \cup MoreLines \subseteq Seq(STRING)

OperationNames == {"and", "or", "xor"}
Modes    == {"v", "n"}
Commands == {"a", "n", "p", "b", "s", "q"}

VARIABLES
  at,          \* the prompt that reads next
  flushing,    \* a loop drops the rest of the line before that
  closed,      \* the input has ended after what has been read
  reader,      \* who has read a non-blank character of the current line
  bddVars,     \* the variables of the BDD of expr1
  known,       \* the variables of all expressions so far
  text, outcome \* the line getline has read, and what the parser made of it

consoleVars == <<at, flushing, closed, reader, bddVars, known, text, outcome>>
exprVars == <<bddVars, known, text, outcome>>

NoOutcome == <<>>
Init ==
  /\ at = "mode" /\ flushing = FALSE /\ closed = FALSE /\ reader = "none"
  /\ bddVars = {} /\ known = {} /\ text = <<>> /\ outcome = NoOutcome

At(prompts) == at \in prompts /\ ~flushing
Over == At({"done", "exited"})

\* The user ends the input.
CloseInput == ~closed /\ ~Over /\ closed' = TRUE
              /\ UNCHANGED <<at, flushing, reader, exprVars>>

----------------------------------------------------------------------------
(* The loops "while (cin.get() != '\n')" *)

FlushLine ==
  /\ flushing /\ ~closed
  /\ flushing' = FALSE /\ reader' = "none"
  /\ UNCHANGED <<at, closed, exprVars>>

\* get returns EOF for ever; so does >> at the prompt for an operation, which
\* is repeated without clear().
Spinning == closed /\ (flushing \/ At({"oper"}))
Spin == Spinning /\ UNCHANGED consoleVars

----------------------------------------------------------------------------
(* get_command and get_var *)

\* A failed read: "Bad Command.", clear() and a loop that drops the line.
FailedRead ==
  /\ At({"mode", "menu", "var"}) /\ closed
  /\ flushing' = TRUE /\ reader' = "failed"
  /\ UNCHANGED <<at, closed, exprVars>>

\* Mutant of GoOn: the rest of the line is left.
GoOnSameLine(p) == at' = p /\ flushing' = FALSE /\ reader' = "command"
\* main drops the rest of the line, and goes on to the prompt p.
GoOn(p) == at' = p /\ flushing' = TRUE /\ reader' = "command"

\* Mutant of Reject: only the character is dropped.
RejectKey == flushing' = FALSE /\ reader' = "rejected" /\ UNCHANGED at
\* get_command drops the line and prompts again.
Reject == flushing' = TRUE /\ reader' = "rejected" /\ UNCHANGED at

ReadMode(c) ==
  /\ At({"mode"}) /\ ~closed
  /\ IF c \in Modes THEN GoOn("expr") ELSE Reject
  /\ UNCHANGED <<closed, exprVars>>

Wanted(c) == CASE c \in {"n", "p", "b"} -> "var" [] c = "a" -> "expr2"
               [] c = "s" -> "menu" [] c = "q" -> "done"

ReadCommand(c) ==
  /\ At({"menu"}) /\ ~closed
  /\ IF c \in Commands THEN GoOn(Wanted(c)) ELSE Reject
  /\ UNCHANGED <<closed, exprVars>>

\* get_var takes any variable if expr1 is a constant, and leaves what follows.
ReadVar(c) ==
  /\ At({"var"}) /\ ~closed
  /\ reader' = "var"
  /\ IF c \in bddVars \/ bddVars = {}
     THEN at' = "menu" /\ bddVars' \in SUBSET known
     ELSE UNCHANGED <<at, bddVars>>
  /\ UNCHANGED <<flushing, closed, known, text, outcome>>

----------------------------------------------------------------------------
(* build_bdd_from_input *)

AtExpression == At({"expr", "expr2"})

\* The last line may end without a newline.
ReadLine ==
  /\ AtExpression /\ outcome = NoOutcome /\ ~closed
  /\ text' \in IF at = "expr" THEN Lines ELSE MoreLines
  /\ outcome' = Parse(text')
  /\ closed' \in IF text' = <<>> THEN {FALSE} ELSE BOOLEAN
  /\ reader' = "none"
  /\ UNCHANGED <<at, flushing, bddVars, known>>

\* Mutant of NoLine: an empty line is read.
NoLineEmpty ==
  /\ AtExpression /\ outcome = NoOutcome /\ closed
  /\ text' = <<>> /\ outcome' = Parse(<<>>)
  /\ UNCHANGED <<at, flushing, closed, reader, bddVars, known>>
\* getline finds nothing: "Bad istream. Exiting."
NoLine ==
  /\ AtExpression /\ outcome = NoOutcome /\ closed
  /\ at' = "exited"
  /\ UNCHANGED <<flushing, closed, reader, exprVars>>

ReportError ==
  /\ AtExpression /\ outcome # NoOutcome /\ Failed(outcome)
  /\ text' = <<>> /\ outcome' = NoOutcome
  /\ UNCHANGED <<at, flushing, closed, reader, bddVars, known>>

\* bdd_from_expr.
Build ==
  /\ AtExpression /\ outcome # NoOutcome /\ ~Failed(outcome)
  /\ known' = known \cup TreeVars(outcome.node, Len(text))
  /\ IF at = "expr" THEN at' = "menu" /\ bddVars' \in SUBSET known'
                    ELSE at' = "oper" /\ UNCHANGED bddVars
  /\ text' = <<>> /\ outcome' = NoOutcome
  /\ UNCHANGED <<flushing, closed, reader>>

\* prompt_for_operation, until a word names an operation; then apply.
ReadOperation(w) ==
  /\ At({"oper"}) /\ ~closed
  /\ reader' = "word"
  /\ IF w \in OperationNames
     THEN at' = "menu" /\ bddVars' \in SUBSET known
     ELSE UNCHANGED <<at, bddVars>>
  /\ UNCHANGED <<flushing, closed, known, text, outcome>>

----------------------------------------------------------------------------
Stopped == Over /\ UNCHANGED consoleVars

\* What needs a character of the user, and what the program does by itself.
Reads == \/ FlushLine \/ ReadLine
         \/ \E c \in Keys : ReadMode(c) \/ ReadCommand(c) \/ ReadVar(c)
         \/ \E w \in Words : ReadOperation(w)
Runs  == FailedRead \/ NoLine \/ ReportError \/ Build \/ Spin

Next == Reads \/ Runs \/ CloseInput \/ Stopped
Spec == Init /\ [][Next]_consoleVars
\* The program goes on as long as it need not wait; the user may stop typing.
FairSpec == Spec /\ WF_consoleVars(Runs)

----------------------------------------------------------------------------
\* The mixture of >> and getline: an expression is read from the start of a
\* line, never from what a command, a variable or an operation has left
\* (the loops at main.cpp:46, 81).
ExpressionsFromLineStart == AtExpression => reader = "none"

\* A command is never taken from the rest of a line whose beginning was refused
\* or was itself a command (main.cpp:81, 182-183, 233); the rest of a line that
\* get_var or prompt_for_operation has read is taken for a command.
CommandsFromOwnLine == At({"mode", "menu"}) => reader \in {"none", "var", "word"}

\* The parser finds the only derivation of the line from the grammar, in which
\* "!" binds tighter than "&" and "&" tighter than "|", or there is none
\* (Bool_expr_parser.cpp:38-123).
TreeDerived ==
  outcome # NoOutcome =>
    Derivations(text)[<<"expr", 1, Len(text)>>] = IF Failed(outcome) THEN {} ELSE {outcome.node}

\* A line is refused exactly if it is no expression, with the error and the
\* column of its first fault; a parenthesis is reported where it was opened.
FaultReported ==
  outcome # NoOutcome => (IF Failed(outcome) THEN <<outcome>> ELSE <<>>) = ScanFault(text)

\* Once the input has ended, the program ends or is in one of the loops that
\* wait for a newline or a word; it never goes on prompting for expressions
\* (main.cpp:272-276).
EndNoticed == closed ~> (Over \/ Spinning)

\* main.cpp:182-183 of a command that could not be read: "the input stream is
\* flushed, and the user is prompted again".
PromptsAgain ==
  (reader = "failed" /\ at \in {"mode", "menu"}) ~> At({"mode", "menu"})
=============================================================================
