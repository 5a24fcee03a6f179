----------------------------- MODULE TicTacToe -----------------------------
(***************************************************************************)
(* ttt.c: the board both programs of assignment 1 keep a copy of.  A move  *)
(* is a number as it was typed; the cell of move n is board[n], which is   *)
(* what convertMove computes.                                              *)
(***************************************************************************)
EXTENDS Naturals

Empty   == " "
Players == {"X", "O"}
TicTacToeGame == [board : [1..9 -> Players \cup {Empty}],
                  currentPlayer : Players, turnCount : 0..9]

ttt_new == [board |-> [n \in 1..9 |-> Empty], currentPlayer |-> "X", turnCount |-> 0]

ttt_switchPlayer(p) == IF p = "X" THEN "O" ELSE "X"

\* Whether ttt_makeMove returns true.
Legal(t, move) == move \in 1..9 /\ t.board[move] = Empty

\* The game after ttt_makeMove: as it was, if the move is not legal.  Mutant: the
\* turn is counted twice.
CountedTwice(t, move) ==
    IF ~Legal(t, move) THEN t
    ELSE [board |-> [t.board EXCEPT ![move] = t.currentPlayer],
          currentPlayer |-> ttt_switchPlayer(t.currentPlayer),
          turnCount |-> t.turnCount + 2]
ttt_makeMove(t, move) ==
    IF ~Legal(t, move) THEN t
    ELSE [board |-> [t.board EXCEPT ![move] = t.currentPlayer],
          currentPlayer |-> ttt_switchPlayer(t.currentPlayer),
          turnCount |-> t.turnCount + 1]

Cell(row, col) == 3 * row + col + 1

\* Mutant: one diagonal is forgotten.
OneDiagonal(t, player) ==
    \/ \E i \in 0..2 : \/ \A k \in 0..2 : t.board[Cell(i, k)] = player
                       \/ \A k \in 0..2 : t.board[Cell(k, i)] = player
    \/ \A i \in 0..2 : t.board[Cell(i, i)] = player
ttt_checkWin(t, player) ==
    \/ \E i \in 0..2 : \/ \A k \in 0..2 : t.board[Cell(i, k)] = player
                       \/ \A k \in 0..2 : t.board[Cell(k, i)] = player
    \/ \A i \in 0..2 : t.board[Cell(i, i)] = player
    \/ \A i \in 0..2 : t.board[Cell(2 - i, i)] = player

\* The winner it looks for is the player to move, not the one who has just moved.
ttt_isDraw(t) == t.turnCount = 9 /\ ~ttt_checkWin(t, t.currentPlayer)
=============================================================================
