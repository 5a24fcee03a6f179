--------------------------- MODULE TicTacToeRules ---------------------------
(***************************************************************************)
(* What the game programs promise: one game, X first, marks in turn on     *)
(* empty cells until three in a line or a full board, and each player told *)
(* the result that the board shows.                                        *)
(***************************************************************************)
EXTENDS Naturals, FiniteSets

VARIABLES
    marks,  \* what is marked on each cell: "X", "O" or " "
    told    \* what each player has been told of the result

Rows      == {{1, 2, 3}, {4, 5, 6}, {7, 8, 9}}
Columns   == {{1, 4, 7}, {2, 5, 8}, {3, 6, 9}}
Diagonals == {{1, 5, 9}, {3, 5, 7}}

MarkedBy(p, b) == {n \in 1..9 : b[n] = p}
Wins(p, b) == \E line \in Rows \cup Columns \cup Diagonals : line \subseteq MarkedBy(p, b)
Other(p)   == CHOOSE q \in {"X", "O"} : q # p
Full(b)    == MarkedBy(" ", b) = {}

\* The result for player p of board b.
Result(p, b) == IF Wins(p, b) THEN "won"
                ELSE IF Wins(Other(p), b) THEN "lost"
                ELSE IF Full(b) THEN "drew" ELSE "nothing"

Turn(b) == IF Cardinality(MarkedBy("X", b)) = Cardinality(MarkedBy("O", b))
           THEN "X" ELSE "O"

Init == /\ marks = [n \in 1..9 |-> " "]
        /\ told = [p \in {"X", "O"} |-> "nothing"]

\* The player whose turn it is marks a cell; some see at once what it leads to.
Mark(n) ==
    LET b == [marks EXCEPT ![n] = Turn(marks)]
    IN /\ marks[n] = " " /\ Result("X", marks) = "nothing"
       /\ marks' = b
       /\ \E at \in SUBSET {"X", "O"} :
             told' = [p \in {"X", "O"} |-> IF p \in at THEN Result(p, b) ELSE told[p]]

\* The others learn the result.
Learn(p) ==
    /\ told[p] = "nothing" /\ Result(p, marks) # "nothing"
    /\ told' = [told EXCEPT ![p] = Result(p, marks)]
    /\ UNCHANGED marks

Next == (\E n \in 1..9 : Mark(n)) \/ \E p \in {"X", "O"} : Learn(p)

Spec == Init /\ [][Next]_<<marks, told>>
=============================================================================
