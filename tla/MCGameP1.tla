------------------------------ MODULE MCGameP1 ------------------------------
(* The whole game of part 1; 10 stands for the numbers that name no cell. *)
EXTENDS GameP1

MCMoves == 1..10

\* Another word than MARK, late enough in the game for the boards it sets apart
\* to be followed to the end.
MCWords == [k \in 0..9 |-> IF k >= 7 THEN {"MARK", "PLAY"} ELSE {"MARK"}]
=============================================================================
