----------------------------- MODULE MCSimulation -----------------------------
(***************************************************************************)
(* Values of the constants of Simulation for TLC.                          *)
(***************************************************************************)
EXTENDS Simulation, MCTopoSort

\* One to three fanins, the same one twice, and (for 3 and 4) the node itself.
MCGateFanins == {<<1>>, <<3>>, <<4>>, <<1, 1>>, <<1, 2>>, <<1, 3>>, <<1, 2, 3>>}

\* The gates the simulator knows: inverter, and, or, xor; ...
MCGates == {<< <<0>> >>,
            << <<1, 1>> >>, << <<1, 1, 1>> >>,
            << <<0, 1>>, <<1, 0>>, <<1, 1>> >>,
            << <<0, 1>>, <<1, 0>> >>,
            << <<0, 0, 1>>, <<0, 1, 0>>, <<1, 0, 0>>, <<1, 1, 1>> >>}

\* ... a buffer, as project2 writes them; ...
MCBuffer == {<< <<1>> >>}

\* ... and others: tables of no row, and of a cube.
MCAnyGates == MCGates \cup MCBuffer \cup {<<>>, << <<0, 2>> >>}

\* Every assignment of the two inputs; no pair at all; one pair too many.
MCStimuli == {<< <<1, b>>, <<2, c>> >> : b, c \in {0, 1}}
             \cup {<<>>, << <<1, 0>>, <<2, 1>>, <<1, 1>> >>}
=============================================================================
