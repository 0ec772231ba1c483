------------------------------ MODULE BddSession ------------------------------
(***************************************************************************)
(* One run of project1 (P1/main.cpp): an expression becomes a BDD, then    *)
(* the menu works on it until the user quits and the tables are cleared.   *)
(*                                                                         *)
(* bdd_from_expr walks the parsed expression in post-order, so the         *)
(* expression is read here as a postfix sequence of tokens, and vals is    *)
(* its operand stack: the pointers the pending activations hold.  Once the *)
(* menu is reached vals[1] is expr1.                                       *)
(***************************************************************************)
EXTENDS BddCofactor

CONSTANTS
  Budgets,       \* bounds: pairs of the tokens of the first expression and the
                 \* menu commands before quitting; a run has one of them
  MaxSecond      \* bound: the tokens of an expression read by the command "a"

ASSUME BoundsAssumption ==
  Budgets \subseteq (Nat \ {0}) \X Nat /\ MaxSecond \in Nat \ {0}

VARIABLES
  phase,      \* what main is doing: "expr", "menu", "expr2", "done"
  req,        \* the operation whose result main or bdd_from_expr waits for
  tokens,     \* tokens the current expression may still have
  commands    \* menu commands left

sessionVars == <<phase, req, tokens, commands>>
vars == <<tableVars, machineVars, sortVars, sessionVars>>

NoRequest == [op |-> "none", var |-> NoVar]
Request == [op : {"none", "not", "and", "or", "xor", "neg", "pos", "diff", "sort"},
            var : Vars \cup {NoVar}]

Init ==
  /\ TablesInit
  /\ stack = <<>> /\ ret = Null /\ vals = <<>> /\ crashed = FALSE
  /\ vecList = {} /\ ranking = <<>>
  /\ phase = "expr" /\ req = NoRequest
  /\ \E budget \in Budgets : tokens = budget[1] /\ commands = budget[2]

Ready(p) == ~crashed /\ Idle /\ phase = p

----------------------------------------------------------------------------
(* bdd_from_expr *)

Reading  == Ready("expr") \/ Ready("expr2")
Operands == IF phase = "expr2" THEN Len(vals) - 1 ELSE Len(vals)

\* The expression still fits its bound if n operands are pending after this token.
Fits(n) == tokens > 0 /\ n - 1 <= tokens - 1
Token   == tokens' = tokens - 1 /\ UNCHANGED <<phase, commands>>

Invoke(frame, r) == stack' = <<frame>> /\ ret' = Null /\ req' = r

ReadConstant ==
  /\ Reading /\ Fits(Operands + 1) /\ Token
  /\ \E n \in {Zero, One} : vals' = Append(vals, n)
  /\ UNCHANGED <<idCtr, unique, computed, tainted, stack, ret, crashed, sortVars, req>>
  /\ ReleaseOnly

\* A variable whose literal the unique table has: its probability is set again.
ReadKnown(v) ==
  /\ Reading /\ Fits(Operands + 1) /\ Token
  /\ LET n == FindUnique(v, Zero, One)
     IN /\ n # Null
        /\ vals' = Append(vals, n)
        /\ UNCHANGED <<idCtr, unique, computed, tainted, stack, ret, crashed, sortVars, req>>
        /\ Release([heap EXCEPT ![n].prob = Average(Zero, One)], freeIds, doomed)

ReadNew(v) ==
  /\ Reading /\ Fits(Operands + 1) /\ Token
  /\ FindUnique(v, Zero, One) = Null
  /\ idCtr' = PoolCtr
  /\ unique' = AddUnique(v, Zero, One)
  /\ vals' = Append(vals, FreshId)
  /\ UNCHANGED <<computed, tainted, stack, ret, crashed, sortVars, req>>
  /\ Release(NewNode(v, Zero, One, Average(Zero, One)), Pool \ {FreshId}, doomed)

ReadNot ==
  /\ Reading /\ Operands >= 1 /\ Fits(Operands) /\ Token
  /\ Invoke(ApplyCall("xor", Last(vals), One), [op |-> "not", var |-> NoVar])
  /\ UNCHANGED <<idCtr, unique, computed, tainted, vals, crashed, sortVars>>
  /\ ReleaseOnly

ReadBinary(op) ==
  /\ Reading /\ Operands >= 2 /\ Fits(Operands - 1) /\ Token
  /\ Invoke(ApplyCall(op, vals[Len(vals) - 1], Last(vals)), [op |-> op, var |-> NoVar])
  /\ UNCHANGED <<idCtr, unique, computed, tainted, vals, crashed, sortVars>>
  /\ ReleaseOnly

----------------------------------------------------------------------------
(* main *)

\* The line ends: the initial expression is expr1 and the menu comes up.
EndExpression ==
  /\ Ready("expr") /\ Len(vals) = 1
  /\ phase' = "menu" /\ tokens' = 0
  /\ UNCHANGED <<tableVars, machineVars, sortVars, req, commands>>

Menu == Ready("menu") /\ commands > 0 /\ commands' = commands - 1

\* get_var: a variable the bdd has, or any at all when the bdd is terminal.
AskedVar(v) == HasVar(vals[1], v) \/ IsTerminal(vals[1])

MenuCofactor(polarity, v) ==
  /\ Menu /\ AskedVar(v)
  /\ Invoke(CofactorCall(polarity, vals[1], v), [op |-> polarity, var |-> v])
  /\ UNCHANGED <<idCtr, unique, computed, tainted, vals, crashed, sortVars, phase, tokens>>
  /\ ReleaseOnly

MenuDifference(v) ==
  /\ Menu /\ AskedVar(v)
  /\ Invoke(DifferenceCall(vals[1], v), [op |-> "diff", var |-> v])
  /\ UNCHANGED <<idCtr, unique, computed, tainted, vals, crashed, sortVars, phase, tokens>>
  /\ ReleaseOnly

MenuSort ==
  /\ Menu
  /\ Invoke(SortCall(vals[1]), [op |-> "sort", var |-> NoVar])
  /\ UNCHANGED <<idCtr, unique, computed, tainted, vals, crashed, sortVars, phase, tokens>>
  /\ ReleaseOnly

\* 'a' reads a second expression first ...
MenuApply ==
  /\ Menu
  /\ phase' = "expr2" /\ tokens' = MaxSecond
  /\ UNCHANGED <<tableVars, machineVars, sortVars, req>>

\* ... then asks for an operation and applies it to the two.
ApplyToSecond(op) ==
  /\ Ready("expr2") /\ Operands = 1
  /\ phase' = "menu" /\ tokens' = 0
  /\ Invoke(ApplyCall(op, vals[1], vals[2]), [op |-> op, var |-> NoVar])
  /\ UNCHANGED <<idCtr, unique, computed, tainted, vals, crashed, sortVars, commands>>
  /\ ReleaseOnly

\* The call has returned: its result replaces the operands it was made for.
Deliver ==
  /\ ~crashed /\ stack = <<>> /\ ret # Null
  /\ LET arity == IF req.op \in Ops THEN 2 ELSE 1
     IN vals' = Append(SubSeq(vals, 1, Len(vals) - arity), ret)
  /\ ret' = Null /\ req' = NoRequest
  /\ UNCHANGED <<idCtr, unique, computed, tainted, stack, crashed, sortVars,
                 phase, tokens, commands>>
  /\ ReleaseOnly

\* 'q': expr1 goes out of scope, then both tables are cleared.
Quit ==
  /\ Ready("menu")
  /\ phase' = "done" /\ vals' = <<>>
  /\ Clear
  /\ UNCHANGED <<idCtr, tainted, stack, ret, crashed, sortVars, req, tokens, commands>>
  /\ ReleaseOnly

\* The program has ended, or it has crashed.
Stopped == (phase = "done" \/ crashed) /\ UNCHANGED vars

----------------------------------------------------------------------------
ReadToken ==
  \/ ReadConstant
  \/ \E v \in Vars : ReadKnown(v) \/ ReadNew(v)
  \/ ReadNot
  \/ \E op \in {"and", "or"} : ReadBinary(op)

Command ==
  \/ \E v \in Vars : \/ \E polarity \in {"neg", "pos"} : MenuCofactor(polarity, v)
                     \/ MenuDifference(v)
  \/ MenuSort
  \/ MenuApply
  \/ \E op \in Ops : ApplyToSecond(op)

\* What the program does by itself, and what it does when the user has typed.
Compute == \/ ApplyStep /\ UNCHANGED <<sortVars, sessionVars>>
           \/ CofactorStep /\ UNCHANGED sessionVars
           \/ Deliver
Typed   == ReadToken \/ EndExpression \/ Command \/ Quit

Next == Compute \/ Typed \/ Stopped

Spec == Init /\ [][Next]_vars
\* One thread runs the program, and nothing makes it wait inside a call.
FairSpec == Spec /\ WF_vars(Compute)
=============================================================================
