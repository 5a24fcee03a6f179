------------------------------ MODULE MCGameP2 ------------------------------
(* Enough lines for X to win with 1, 2, 3 when all goes well; O may type a   *)
(* cell that is taken, X a line that only its client takes for a move, or    *)
(* one that O's client does not.                                             *)
EXTENDS GameP2

Marks(moves) == [word : {"MARK"}, move : moves]
MCLines ==
    [p \in Players |->
        IF p = "X" THEN <<Marks({1}), [word : {"MARK", Glued, Trailed}, move : {2}], Marks({3})>>
        ELSE <<Marks({1, 4}), Marks({5})>>]
MCMaxLines == <<5, 3, 3>>

\* What malloc returns may hold zero or not.
MCStartCount == {0, 7}
=============================================================================
