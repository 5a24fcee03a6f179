-------------------------- MODULE TicTacToeProofs --------------------------
(***************************************************************************)
(* Facts about ttt.c: what turnCount and currentPlayer say of the marks on *)
(* the board, and what ttt_checkWin and ttt_isDraw find.                   *)
(***************************************************************************)
EXTENDS TicTacToe, FiniteSetTheorems, TLAPS

\* The cells with mark p.
Cells(t, p) == {n \in 1..9 : t.board[n] = p}

\* A board that players marked in turns, X first.
InTurns(t) ==
    /\ t \in TicTacToeGame
    /\ t.turnCount = Cardinality(Cells(t, "X")) + Cardinality(Cells(t, "O"))
    /\ Cardinality(Cells(t, "X")) =
         Cardinality(Cells(t, "O")) + IF t.currentPlayer = "X" THEN 0 ELSE 1

LEMMA NineCells == IsFiniteSet(1..9) /\ Cardinality(1..9) = 9
<1>1. 1 \in Int /\ 9 \in Int
  OBVIOUS
<1>2. IsFiniteSet(1..9) /\ Cardinality(1..9) = IF 1 > 9 THEN 0 ELSE 9 - 1 + 1
  BY <1>1, FS_Interval, Zenon
<1> QED  BY <1>2

LEMMA Board ==
    ASSUME NEW t \in TicTacToeGame
    PROVE  /\ \A p : Cells(t, p) \subseteq 1..9
           /\ \A p : IsFiniteSet(Cells(t, p)) /\ Cardinality(Cells(t, p)) \in Nat
           /\ \A n \in 1..9 : t.board[n] \in {"X", "O", Empty}
<1>1. \A p : Cells(t, p) \in SUBSET (1..9)
  BY DEF Cells
<1>2. ASSUME NEW p
      PROVE  IsFiniteSet(Cells(t, p)) /\ Cardinality(Cells(t, p)) \in Nat
  <2>1. IsFiniteSet(Cells(t, p))
    BY <1>1, NineCells, FS_Subset
  <2> QED  BY <2>1, FS_CardinalityType
<1>3. t.board \in [1..9 -> {"X", "O", Empty}]
  BY DEF TicTacToeGame, Players
<1> QED  BY <1>1, <1>2, <1>3

LEMMA NewBoard == InTurns(ttt_new)
<1>1. Cells(ttt_new, "X") = {} /\ Cells(ttt_new, "O") = {}
  BY DEF Cells, ttt_new, Empty
<1> QED  BY <1>1, FS_EmptySet DEF InTurns, ttt_new, TicTacToeGame, Players

\* The marks together are as many as turnCount says, ...
LEMMA MarksCounted ==
    ASSUME NEW t, InTurns(t)
    PROVE  /\ IsFiniteSet(Cells(t, "X") \cup Cells(t, "O"))
           /\ Cardinality(Cells(t, "X") \cup Cells(t, "O")) = t.turnCount
<1>1. t \in TicTacToeGame
  BY DEF InTurns
<1>2. Cells(t, "X") \cap Cells(t, "O") = {}
  BY DEF Cells
<1>3. Cardinality(Cells(t, "X") \cap Cells(t, "O")) = 0
  BY <1>2, FS_EmptySet
<1>4. \A p : IsFiniteSet(Cells(t, p)) /\ Cardinality(Cells(t, p)) \in Nat
  BY <1>1, Board
<1>5. /\ IsFiniteSet(Cells(t, "X") \cup Cells(t, "O"))
      /\ Cardinality(Cells(t, "X") \cup Cells(t, "O")) =
           Cardinality(Cells(t, "X")) + Cardinality(Cells(t, "O")) - 0
  BY <1>3, <1>4, FS_Union
<1> QED  BY <1>4, <1>5 DEF InTurns

\* ... so that a board is full when it is nine, ...
LEMMA FullBoard ==
    ASSUME NEW t, InTurns(t)
    PROVE  t.turnCount = 9 <=> \A n \in 1..9 : t.board[n] # Empty
<1> DEFINE M == Cells(t, "X") \cup Cells(t, "O")
<1>1. t \in TicTacToeGame /\ t.turnCount = Cardinality(M)
  BY MarksCounted DEF InTurns
<1>2. M \in SUBSET (1..9)
  BY <1>1, Board
<1>3. M = {n \in 1..9 : t.board[n] # Empty}
  BY <1>1, Board DEF Cells, Empty
<1>4. Cardinality(M) = 9 => M = 1..9
  BY <1>2, NineCells, FS_Subset
<1>5. M = 1..9 => Cardinality(M) = 9
  BY NineCells
<1> QED  BY <1>1, <1>3, <1>4, <1>5

\* ... and a legal move is possible before that only.
LEMMA RoomForMove ==
    ASSUME NEW t, InTurns(t), NEW n, Legal(t, n)
    PROVE  t.turnCount \in 0..8
<1>1. t.turnCount # 9
  BY FullBoard DEF Legal
<1> QED  BY <1>1 DEF InTurns, TicTacToeGame

\* ttt_makeMove puts one mark on the board and passes the turn.
LEMMA MakeMove ==
    ASSUME NEW t, InTurns(t), NEW n, Legal(t, n)
    PROVE  /\ InTurns(ttt_makeMove(t, n))
           /\ ttt_makeMove(t, n).board = [t.board EXCEPT ![n] = t.currentPlayer]
           /\ ttt_makeMove(t, n).turnCount = t.turnCount + 1
           /\ ttt_makeMove(t, n) # t
<1> DEFINE u == ttt_makeMove(t, n)
           p == t.currentPlayer
<1>1. t \in TicTacToeGame /\ n \in 1..9 /\ t.board[n] = Empty /\ p \in Players
  BY DEF InTurns, Legal, TicTacToeGame
<1>2. u = [board |-> [t.board EXCEPT ![n] = p],
           currentPlayer |-> ttt_switchPlayer(p), turnCount |-> t.turnCount + 1]
  BY DEF ttt_makeMove
<1>3. t.turnCount \in 0..8
  BY RoomForMove
<1>4. u \in TicTacToeGame
  BY <1>1, <1>2, <1>3 DEF TicTacToeGame, ttt_switchPlayer, Players
<1>5. t.board \in [1..9 -> Players \cup {Empty}]
  BY <1>1 DEF TicTacToeGame
<1>6. /\ Cells(u, p) = Cells(t, p) \cup {n} /\ n \notin Cells(t, p)
      /\ \A q \in Players \ {p} : Cells(u, q) = Cells(t, q)
  <2>1. u.board = [t.board EXCEPT ![n] = p] /\ Empty \notin Players
    BY <1>2 DEF Players, Empty
  <2>2. \A k \in 1..9 : u.board[k] = IF k = n THEN p ELSE t.board[k]
    BY <1>1, <1>5, <2>1
  <2> QED  BY <1>1, <2>1, <2>2 DEF Cells
<1>7. Cardinality(Cells(u, p)) = Cardinality(Cells(t, p)) + 1
  BY <1>1, <1>6, Board, FS_AddElement
<1>8. InTurns(u)
  <2>1. CASE p = "X"
    BY <1>2, <1>4, <1>6, <1>7, <2>1, <1>1, Board DEF InTurns, ttt_switchPlayer, Players
  <2>2. CASE p = "O"
    BY <1>2, <1>4, <1>6, <1>7, <2>2, <1>1, Board DEF InTurns, ttt_switchPlayer, Players
  <2> QED  BY <1>1, <2>1, <2>2 DEF Players
<1>9. u # t
  BY <1>2, <1>3
<1> QED  BY <1>2, <1>8, <1>9

\* The lines ttt_checkWin looks at, as sets of cells.
WinningLines == {{1, 2, 3}, {4, 5, 6}, {7, 8, 9}} \cup {{1, 4, 7}, {2, 5, 8}, {3, 6, 9}}
                \cup {{1, 5, 9}, {3, 5, 7}}

\* ttt_checkWin finds a line of the player's if there is one.
LEMMA CheckWin ==
    ASSUME NEW t, NEW p
    PROVE  ttt_checkWin(t, p) <=> \E line \in WinningLines : \A n \in line : t.board[n] = p
<1> DEFINE At(a, b, c) == t.board[a] = p /\ t.board[b] = p /\ t.board[c] = p
           Some == \/ At(1, 2, 3) \/ At(4, 5, 6) \/ At(7, 8, 9)
                   \/ At(1, 4, 7) \/ At(2, 5, 8) \/ At(3, 6, 9)
                   \/ At(1, 5, 9) \/ At(3, 5, 7)
<1>1. ttt_checkWin(t, p) <=> Some
  <2>1. 0..2 = {0, 1, 2}
    OBVIOUS
  <2>2. \A i, j \in 0..2 : Cell(i, j) = 3 * i + j + 1
    BY DEF Cell
  <2> QED  BY <2>1, <2>2 DEF ttt_checkWin, Cell
<1>2. (\E line \in WinningLines : \A n \in line : t.board[n] = p) <=> Some
  BY DEF WinningLines
<1> QED  BY <1>1, <1>2

\* The same, in terms of the cells a player has marked.
LEMMA CheckWinCells ==
    ASSUME NEW t, NEW p
    PROVE  ttt_checkWin(t, p) <=> \E line \in WinningLines : line \subseteq Cells(t, p)
<1>1. \A line \in WinningLines : line \subseteq 1..9
  BY DEF WinningLines
<1> QED  BY <1>1, CheckWin DEF Cells

\* Whose turn it is can be seen on the board.
LEMMA TurnSeen ==
    ASSUME NEW t, InTurns(t)
    PROVE  t.currentPlayer = IF Cardinality(Cells(t, "X")) = Cardinality(Cells(t, "O"))
                             THEN "X" ELSE "O"
<1>1. /\ t.currentPlayer \in {"X", "O"}
      /\ Cardinality(Cells(t, "X")) \in Nat /\ Cardinality(Cells(t, "O")) \in Nat
  BY Board DEF InTurns, TicTacToeGame, Players
<1> QED  BY <1>1 DEF InTurns

\* Any move, legal or not, keeps a board in turns.
LEMMA AnyMove ==
    ASSUME NEW t, InTurns(t), NEW n
    PROVE  InTurns(ttt_makeMove(t, n)) /\ ttt_makeMove(t, n) \in TicTacToeGame
<1>1. CASE Legal(t, n)
  BY <1>1, MakeMove DEF InTurns
<1>2. CASE ~Legal(t, n)
  BY <1>2 DEF ttt_makeMove, InTurns
<1> QED  BY <1>1, <1>2
=============================================================================
