-------------------------------- MODULE MCBdd --------------------------------
(***************************************************************************)
(* Values of the constants for TLC.                                        *)
(***************************************************************************)
EXTENDS BddRefinement

\* var_all lists lower-case letters first, so the sweep order is not the char
\* order: 1 stands for an upper-case letter here.
MCSweepRank == [v \in Vars |-> IF v = 1 THEN 9 ELSE v]

\* <<tokens of the first expression, commands>>: long expressions alone, and
\* short ones with commands after them.
MCTwoVars   == {<<7, 0>>, <<2, 2>>}
MCThreeVars == {<<7, 0>>, <<5, 1>>}
MCShort     == {<<5, 0>>}
=============================================================================
