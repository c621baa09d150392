------------------------------ MODULE MCClient ------------------------------
(***************************************************************************)
(* Client with two ECUs: PIDs 1 to 3 have a size in the table, 9 has none. *)
(***************************************************************************)
EXTENDS Client, TLC

CONSTANTS g1, g2

MCCaller == {g1, g2}
Symmetry == Permutations(MCCaller)

\* PID 9 has no known size; ECU 1 and ECU 2 share PID 2.
MCEcuOrder == <<1, 2>>
MCKnown == {1, 2, 3}
MCSupports == [e \in {1, 2} |-> IF e = 1 THEN {1, 2, 9} ELSE {2, 3}]

MCQueries == {<<3, 1>>, <<2, 9, 1, 3>>}
MCForeign == {<<2>>, <<1, 9, 2>>, <<2, 1>>}
=============================================================================
