---------------------------- MODULE GameP1Proofs ----------------------------
(***************************************************************************)
(* Part 1 of assignment 1, for any moves the players may type and any      *)
(* words the server's player may put before his.  The two copies of the    *)
(* board agree whenever a player is asked and no one waits in vain, until  *)
(* a word other than MARK has been played; the two programs together       *)
(* implement TicTacToeRules before and after.                              *)
(***************************************************************************)
EXTENDS GameP1, TicTacToeProofs, SequenceTheorems

(***************************************************************************)
(* Types.                                                                  *)
(***************************************************************************)
TypeInv == TypeOK /\ InTurns(cboard) /\ InTurns(sboard)

LEMMA Outcomes ==
    ASSUME NEW t, NEW me, NEW you
    PROVE  Outcome(t, me, you) \in Said
BY DEF Outcome, Said

LEMMA Moving ==
    ASSUME InTurns(sboard), NEW n \in Moves, NEW word \in Words[sboard.turnCount]
    PROVE  MoveOf(n) \in Message /\ [word |-> word, move |-> n] \in Message
<1>1. sboard.turnCount \in 0..9
  BY DEF InTurns, TicTacToeGame
<1>2. word \in UNION {Words[k] : k \in 0..9}
  BY <1>1
<1> QED  BY <1>2 DEF MoveOf, Message

LEMMA Channels ==
    ASSUME TypeOK
    PROVE  /\ \A msg \in Message : /\ Append(toServer, msg) \in Seq(Message)
                                   /\ Append(toClient, msg) \in Seq(Message)
           /\ toServer # <<>> => /\ Head(toServer) \in Message
                                 /\ Tail(toServer) \in Seq(Message)
           /\ toClient # <<>> => /\ Head(toClient) \in Message
                                 /\ Tail(toClient) \in Seq(Message)
BY AppendProperties, HeadTailProperties DEF TypeOK

LEMMA InitTypes == Init => TypeInv
BY NewBoard, EmptySeq DEF Init, TypeInv, TypeOK, InTurns, Said

LEMMA NextTypes == TypeInv /\ [Next]_vars => TypeInv'
<1> SUFFICES ASSUME TypeInv, [Next]_vars PROVE TypeInv'
  OBVIOUS
<1> USE DEF TypeInv
<1>1. /\ InTurns(cboard) /\ InTurns(sboard)
      /\ cboard \in TicTacToeGame /\ sboard \in TicTacToeGame
  BY DEF InTurns
<1>2. ASSUME NEW n \in Moves, ClientMark(n) PROVE TypeInv'
  <2>1. InTurns(cboard') /\ cboard' \in TicTacToeGame
    BY <1>1, <1>2, AnyMove DEF ClientMark
  <2>2. toServer' \in Seq(Message)
    BY <1>2, Channels DEF ClientMark, SendServer, MoveOf, Message, TypeOK
  <2> QED  BY <1>1, <1>2, <2>1, <2>2, Outcomes DEF ClientMark, TypeOK
<1>3. ASSUME NEW n \in Moves, ClientMarkRefused(n) PROVE TypeInv'
  BY <1>1, <1>3 DEF ClientMarkRefused, TypeOK
<1>4. CASE AlarmRings \/ AlarmRingsUnseen
  BY <1>1, <1>4 DEF AlarmRings, AlarmRingsUnseen, TypeOK
<1>5. CASE TimeUp \/ TimeUpTyped
  <2>1. [word |-> "TIMEOUT", move |-> NoMove] \in Message
    BY DEF Message
  <2>2. toServer' \in Seq(Message)
    BY <1>5, <2>1, Channels DEF TimeUp, TimeUpTyped, Forfeit, SendServer, TypeOK
  <2> QED  BY <1>1, <1>5, <2>2 DEF TimeUp, TimeUpTyped, Forfeit, TypeOK, Said
<1>6. CASE ClientReceives
  <2>1. InTurns(cboard') /\ cboard' \in TicTacToeGame
    BY <1>1, <1>6, AnyMove DEF ClientReceives, Played
  <2>2. toServer' \in Seq(Message) /\ toClient' \in Seq(Message)
    BY <1>6, Channels DEF ClientReceives, SendServer, TypeOK
  <2> QED  BY <1>1, <1>6, <2>1, <2>2, Outcomes DEF ClientReceives, TypeOK
<1>7. CASE ServerReceives
  <2>1. InTurns(sboard') /\ sboard' \in TicTacToeGame
    BY <1>1, <1>7, AnyMove DEF ServerReceives
  <2>2. [word |-> "MARK", move |-> NoMove] \in Message
    BY DEF Message
  <2>3. toServer' \in Seq(Message) /\ toClient' \in Seq(Message)
    BY <1>7, <2>2, Channels DEF ServerReceives, SendClient, TypeOK
  <2>4. ssays' \in Said /\ spc' \in {"recv", "move", "gone"}
    BY <1>7, Outcomes DEF ServerReceives, TypeOK, Said
  <2> QED  BY <1>1, <1>7, <2>1, <2>3, <2>4 DEF ServerReceives, TypeOK
<1>8. ASSUME NEW word \in Words[sboard.turnCount], NEW n \in Moves, ServerPlays(word, n) PROVE TypeInv'
  <2>1. InTurns(sboard') /\ sboard' \in TicTacToeGame
    BY <1>1, <1>8, AnyMove DEF ServerPlays
  <2>2. toClient' \in Seq(Message)
    BY <1>1, <1>8, Moving, Channels DEF ServerPlays, SendMove, SendClient, TypeOK
  <2> QED  BY <1>1, <1>8, <2>1, <2>2, Outcomes DEF ServerPlays, TypeOK
<1>9. CASE ClientGetsEof \/ ServerGetsEof \/ ClientKilled \/ ServerKilled
  BY <1>1, <1>9
     DEF ClientGetsEof, ServerGetsEof, ClientKilled, ServerKilled, TypeOK
<1>10. CASE UNCHANGED vars
  BY <1>1, <1>10 DEF vars, TypeOK
<1> QED  BY <1>2, <1>3, <1>4, <1>5, <1>6, <1>7, <1>8, <1>9, <1>10
            DEF Next, ClientRuns, ServerRuns

LEMMA TypesHold == Spec => []TypeInv
<1> QED  BY InitTypes, NextTypes, PTL DEF Spec

\* Every variable keeps to its type, whatever is typed: a board never has more than
\* nine marks, and turnCount never passes nine.
THEOREM TypeCorrect == Spec => []TypeOK
<1>1. TypeInv => TypeOK
  BY DEF TypeInv
<1> QED  BY <1>1, TypesHold, PTL

(***************************************************************************)
(* One move at a time is on its way.  The invariant says where it is: with *)
(* nobody, with the client's player, between the client and the server, or *)
(* between the server and the client.  It ends with the first word other   *)
(* than MARK, and is resumed by nothing.                                   *)
(***************************************************************************)
Ended(t) == Outcome(t, "X", "O") # "nothing"

\* The channel holds the move that makes board t into board u.
Carries(ch, t, u) == \E n : ch = <<MoveOf(n)>> /\ Legal(t, n) /\ u = ttt_makeMove(t, n)

AtPrompt ==
    cpc = "input" => /\ cboard = sboard /\ ~Ended(cboard) /\ spc # "move"
                     /\ toServer = <<>> /\ toClient = <<>>
AtServer ==
    spc = "move" => /\ cboard = sboard /\ ~Ended(cboard)
                    /\ toServer = <<>> /\ toClient = <<>>
OnItsWay ==
    spc = "recv" /\ toServer # <<>> =>
        \/ cpc = "gone" /\ toServer = <<[word |-> "TIMEOUT", move |-> NoMove]>>
        \/ /\ toClient = <<>> /\ Carries(toServer, sboard, cboard)
           /\ cpc = "await" => ~Ended(cboard)
Answered ==
    cpc = "await" /\ toClient # <<>> =>
        /\ toServer = <<>> /\ Carries(toClient, cboard, sboard)
        /\ spc = "recv" => ~Ended(sboard)
SomethingComes ==
    cpc = "await" /\ spc = "recv" => toServer # <<>> \/ toClient # <<>>

InStep == AtPrompt /\ AtServer /\ OnItsWay /\ Answered /\ SomethingComes
Agree  == ~misworded => InStep

\* Both programs see the end of the game on the same boards.
LEMMA SameEnd ==
    ASSUME NEW t
    PROVE  Outcome(t, "O", "X") = "nothing" <=> ~Ended(t)
BY DEF Ended, Outcome

LEMMA FreshBoard == ~Ended(ttt_new)
<1>1. \A n \in 1..9 : ttt_new.board[n] = Empty
  BY DEF ttt_new
<1>2. ASSUME NEW p \in Players, ttt_checkWin(ttt_new, p) PROVE FALSE
  <2>1. PICK line \in WinningLines : \A n \in line : ttt_new.board[n] = p
    BY <1>2, CheckWin
  <2>2. \E n \in 1..9 : n \in line
    BY <2>1 DEF WinningLines
  <2> QED  BY <1>1, <2>1, <2>2 DEF Players, Empty
<1>3. ~ttt_isDraw(ttt_new)
  BY DEF ttt_isDraw, ttt_new
<1> QED  BY <1>2, <1>3 DEF Ended, Outcome, Players

\* A channel with one message.
LEMMA OneMessage ==
    ASSUME NEW m
    PROVE  /\ Append(<<>>, m) = <<m>> /\ <<m>> # <<>>
           /\ Head(<<m>>) = m /\ Tail(<<m>>) = <<>>
OBVIOUS

LEMMA InitAgree == Init => Agree
BY FreshBoard
   DEF Init, Agree, InStep, AtPrompt, AtServer, OnItsWay, Answered, SomethingComes

LEMMA NextAgree ==
    ASSUME TypeInv, Agree, [Next]_vars
    PROVE  Agree'
<1>0. /\ misworded \in BOOLEAN /\ misworded' \in BOOLEAN
      /\ misworded => misworded'
  BY NextTypes DEF TypeInv, TypeOK, Next, vars, ClientRuns, ServerRuns, TimeUp, TimeUpTyped,
     ClientMark, ClientMarkRefused, AlarmRings, AlarmRingsUnseen, Forfeit, ClientReceives,
     ClientGetsEof, ServerReceives, ServerGetsEof, ServerPlays, ClientKilled, ServerKilled
<1> SUFFICES ASSUME ~misworded, ~misworded' PROVE InStep'
  BY <1>0 DEF Agree
<1> InStep
  BY DEF Agree
<1> USE DEF InStep
<1>1. ASSUME NEW n \in Moves, ClientMark(n) PROVE InStep'
  <2>1. /\ cpc = "input" /\ Legal(cboard, n) /\ cboard' = ttt_makeMove(cboard, n)
        /\ cpc' = IF Ended(cboard') THEN "gone" ELSE "await"
        /\ toServer' = IF spc = "gone" THEN toServer ELSE Append(toServer, MoveOf(n))
        /\ UNCHANGED <<sboard, spc, toClient>>
    BY <1>1 DEF ClientMark, SendServer, Ended
  <2>2. /\ cboard = sboard /\ spc # "move" /\ toServer = <<>> /\ toClient = <<>>
    BY <2>1 DEF AtPrompt
  <2>3. spc = "recv" => /\ toServer' = <<MoveOf(n)>>
                        /\ Carries(toServer', sboard', cboard')
    BY <2>1, <2>2, OneMessage DEF Carries
  <2>4. spc = "gone" \/ spc = "recv"
    BY <2>2 DEF TypeInv, TypeOK
  <2> QED
    BY <2>1, <2>2, <2>3, <2>4, OneMessage
       DEF AtPrompt, AtServer, OnItsWay, Answered, SomethingComes
<1>2. ASSUME \/ \E n \in Moves : ClientMarkRefused(n)
             \/ AlarmRings \/ AlarmRingsUnseen
      PROVE  InStep'
  BY <1>2 DEF ClientMarkRefused, AlarmRings, AlarmRingsUnseen,
     AtPrompt, AtServer, OnItsWay, Answered, SomethingComes, Ended
<1>3. ASSUME Forfeit PROVE InStep'
  <2>1. /\ cpc = "input" /\ cpc' = "gone" /\ UNCHANGED <<cboard, sboard, spc, toClient>>
        /\ toServer' = IF spc = "gone" THEN toServer
                       ELSE Append(toServer, [word |-> "TIMEOUT", move |-> NoMove])
    BY <1>3 DEF Forfeit, SendServer
  <2>2. toServer = <<>> /\ spc # "move"
    BY <2>1 DEF AtPrompt
  <2> QED  BY <2>1, <2>2, OneMessage
              DEF AtPrompt, AtServer, OnItsWay, Answered, SomethingComes
<1>4. ASSUME ClientReceives PROVE InStep'
  <2>1. /\ cpc = "await" /\ toClient # <<>>
        /\ toClient' = Tail(toClient) /\ cboard' = Played(cboard, Head(toClient))
        /\ UNCHANGED <<sboard, spc>>
        /\ cpc' = IF Ended(cboard') THEN "gone" ELSE "input"
        /\ ~Ended(cboard') \/ spc = "gone" => UNCHANGED toServer
    BY <1>4 DEF ClientReceives, SendServer, Ended
  <2>2. /\ toServer = <<>> /\ Carries(toClient, cboard, sboard)
        /\ spc = "recv" => ~Ended(sboard)
    BY <2>1 DEF Answered
  <2>3. toClient' = <<>> /\ cboard' = sboard
    BY <2>1, <2>2, OneMessage DEF Carries, Played, MoveOf
  <2>4. spc = "recv" \/ spc = "gone"
    BY <2>1, <2>2 DEF TypeInv, TypeOK, AtServer
  <2> QED  BY <2>1, <2>2, <2>3, <2>4
              DEF AtPrompt, AtServer, OnItsWay, Answered, SomethingComes
<1>5. ASSUME ServerReceives PROVE InStep'
  <2>1. /\ spc = "recv" /\ toServer # <<>> /\ toServer' = Tail(toServer)
        /\ UNCHANGED <<cboard, cpc>>
    BY <1>5 DEF ServerReceives
  <2>2. CASE cpc = "gone" /\ toServer = <<[word |-> "TIMEOUT", move |-> NoMove]>>
    <3>1. spc' = "gone"
      BY <1>5, <2>2, OneMessage DEF ServerReceives
    <3> QED  BY <2>1, <2>2, <3>1
                DEF AtPrompt, AtServer, OnItsWay, Answered, SomethingComes
  <2>3. CASE /\ toClient = <<>> /\ Carries(toServer, sboard, cboard)
             /\ cpc = "await" => ~Ended(cboard)
    <3>1. PICK n : /\ toServer = <<MoveOf(n)>> /\ Legal(sboard, n)
                   /\ cboard = ttt_makeMove(sboard, n)
      BY <2>3 DEF Carries
    <3>2. Head(toServer).word = "MARK" /\ Head(toServer).move = n /\ toServer' = <<>>
      BY <2>1, <3>1, OneMessage DEF MoveOf
    <3>3. cboard # sboard
      BY <3>1, MakeMove DEF TypeInv
    <3>4. /\ sboard' = cboard
          /\ spc' = IF Ended(cboard) THEN "gone" ELSE "move"
          /\ IF spc' = "gone" THEN SendClient([word |-> "MARK", move |-> NoMove])
             ELSE UNCHANGED toClient
      BY <1>5, <3>1, <3>2, <3>3, SameEnd DEF ServerReceives
    <3>5. cpc # "input"
      BY <2>1 DEF AtPrompt
    <3>6. cpc \in {"await", "gone"}
      BY <3>5 DEF TypeInv, TypeOK
    <3>7. CASE Ended(cboard)
      <4>1. cpc = "gone" /\ spc' = "gone"
        BY <2>3, <3>4, <3>6, <3>7
      <4> QED  BY <2>1, <4>1 DEF AtPrompt, AtServer, OnItsWay, Answered, SomethingComes
    <3>8. CASE ~Ended(cboard)
      BY <2>1, <2>3, <3>2, <3>4, <3>6, <3>8
         DEF AtPrompt, AtServer, OnItsWay, Answered, SomethingComes
    <3> QED  BY <3>7, <3>8
  <2> QED  BY <2>1, <2>2, <2>3 DEF OnItsWay
<1>6. ASSUME NEW n \in Moves, ServerPlays("MARK", n) PROVE InStep'
  <2>1. /\ spc = "move" /\ Legal(sboard, n) /\ sboard' = ttt_makeMove(sboard, n)
        /\ spc' = IF Ended(sboard') THEN "gone" ELSE "recv"
        /\ toClient' = IF cpc = "gone" THEN toClient ELSE Append(toClient, MoveOf(n))
        /\ UNCHANGED <<cboard, cpc, toServer>>
    BY <1>6, SameEnd DEF ServerPlays, SendMove, SendClient, MoveOf
  <2>2. cboard = sboard /\ toServer = <<>> /\ toClient = <<>> /\ cpc # "input"
    BY <2>1 DEF AtServer, AtPrompt
  <2>3. cpc = "await" => toClient' = <<MoveOf(n)>> /\ Carries(toClient', cboard', sboard')
    BY <2>1, <2>2, OneMessage DEF Carries
  <2> QED  BY <2>1, <2>2, <2>3, OneMessage
              DEF AtPrompt, AtServer, OnItsWay, Answered, SomethingComes
<1>7. ASSUME ClientGetsEof \/ ServerGetsEof \/ ClientKilled \/ ServerKilled PROVE InStep'
  BY <1>7 DEF ClientGetsEof, ServerGetsEof, ClientKilled, ServerKilled,
     AtPrompt, AtServer, OnItsWay, Answered, SomethingComes, Ended
<1>8. CASE UNCHANGED vars
  BY <1>8 DEF vars, AtPrompt, AtServer, OnItsWay, Answered, SomethingComes, Ended
<1>9. ASSUME NEW word \in Words[sboard.turnCount], NEW n \in Moves, ServerPlays(word, n)
      PROVE  InStep'
  <2>1. word = "MARK"
    BY <1>9 DEF ServerPlays
  <2> QED  BY <1>6, <1>9, <2>1
<1> QED  BY <1>1, <1>2, <1>3, <1>4, <1>5, <1>7, <1>8, <1>9
            DEF Next, ClientRuns, ServerRuns, TimeUp, TimeUpTyped

LEMMA AgreeHolds == Spec => [](TypeInv /\ Agree)
<1>1. Init => TypeInv /\ Agree
  BY InitTypes, InitAgree
<1>2. TypeInv /\ Agree /\ [Next]_vars => (TypeInv /\ Agree)'
  BY NextTypes, NextAgree
<1> QED  BY <1>1, <1>2, PTL DEF Spec

\* Whatever the players type, a player is asked for a move only on a board that both
\* programs have, until the server's player puts another word than MARK before his.
THEOREM CopiesAgree == Spec => []BoardsAgree
<1>1. TypeInv /\ Agree => BoardsAgree
  BY DEF Agree, InStep, AtPrompt, AtServer, BoardsAgree
<1> QED  BY <1>1, AgreeHolds, PTL

\* ... and until then the two programs never wait for each other.
THEOREM NobodyStuck == Spec => []NoMutualWait
<1>1. TypeInv /\ Agree => NoMutualWait
  BY DEF Agree, InStep, SomethingComes, NoMutualWait
<1> QED  BY <1>1, AgreeHolds, PTL

(***************************************************************************)
(* The refinement.  Marks and Told are the values that GameP1 gives the    *)
(* variables of TicTacToeRules: the board of the program that is ahead     *)
(* until a word other than MARK is played, and the server's from then on.  *)
(***************************************************************************)
Latest(c, s) == IF c.turnCount >= s.turnCount THEN c.board ELSE s.board
Marks == IF ~misworded /\ cboard.turnCount >= sboard.turnCount
         THEN cboard.board ELSE sboard.board
Known(says) == IF says = "timeout" THEN "nothing" ELSE says
Told  == [p \in Players |->
            LET says == IF p = "O" THEN ssays ELSE IF misworded THEN "nothing" ELSE csays
            IN Known(says)]

LEMMA MarksSeen ==
    /\ ~misworded => Marks = Latest(cboard, sboard)
    /\ misworded => Marks = sboard.board
    /\ Told["O"] = Known(ssays) /\ Told["X"] = IF misworded THEN "nothing" ELSE Known(csays)
    /\ Told = [p \in Players |-> Told[p]]
<1>1. /\ "O" \in Players /\ "X" \in Players
      /\ ~misworded => Marks = Latest(cboard, sboard)
      /\ misworded => Marks = sboard.board
  BY DEF Marks, Latest, Players
<1> QED  BY <1>1 DEF Told, Known

LEMMA MarksSeenNext ==
    /\ ~misworded' => Marks' = Latest(cboard', sboard')
    /\ misworded' => Marks' = sboard'.board
    /\ Told'["O"] = Known(ssays')
    /\ Told'["X"] = IF misworded' THEN "nothing" ELSE Known(csays')
    /\ Told' = [p \in Players |-> Told'[p]]
<1>1. /\ "O" \in Players /\ "X" \in Players
      /\ ~misworded' => Marks' = Latest(cboard', sboard')
      /\ misworded' => Marks' = sboard'.board
  BY DEF Marks, Latest, Players
<1> QED  BY <1>1 DEF Told, Known

LEMMA Ahead ==
    ASSUME NEW c, NEW s, c.turnCount \in Nat, s.turnCount \in Nat
    PROVE  /\ c = s \/ c.turnCount = s.turnCount + 1 => Latest(c, s) = c.board
           /\ s.turnCount = c.turnCount + 1 => Latest(c, s) = s.board
BY DEF Latest

\* A program that still runs has told its player nothing; the server's has no result
\* to tell, and the client tells no result but that of its board.
Unsaid == /\ cpc # "gone" => csays = "nothing"
          /\ spc # "gone" => ssays = "nothing" /\ ~Ended(sboard)
          /\ csays \in {"nothing", "timeout"} \/ Ended(cboard)

LEMMA InitUnsaid == Init => Unsaid
BY FreshBoard DEF Init, Unsaid

LEMMA NextUnsaid == TypeInv /\ Unsaid /\ [Next]_vars => Unsaid'
<1> SUFFICES ASSUME TypeInv, Unsaid, [Next]_vars PROVE Unsaid'
  OBVIOUS
<1> USE DEF Unsaid
<1>1. CASE AlarmRings \/ AlarmRingsUnseen \/ TimeUp \/ TimeUpTyped
  BY <1>1 DEF AlarmRings, AlarmRingsUnseen, TimeUp, TimeUpTyped, Forfeit, Ended
<1>2. CASE ClientReceives
  BY <1>2 DEF ClientReceives, Ended
<1>3. CASE ServerReceives
  BY <1>3, SameEnd DEF ServerReceives, Ended
<1>4. CASE ServerGetsEof \/ ClientGetsEof
  BY <1>4 DEF ServerGetsEof, ClientGetsEof, Ended
<1>5. ASSUME NEW n \in Moves, ClientMark(n) \/ ClientMarkRefused(n) PROVE Unsaid'
  BY <1>5 DEF ClientMark, ClientMarkRefused, Ended
<1>6. ASSUME NEW word \in Words[sboard.turnCount], NEW n \in Moves, ServerPlays(word, n)
      PROVE  Unsaid'
  BY <1>6, SameEnd DEF ServerPlays, Ended
<1>7. CASE ClientKilled \/ ServerKilled \/ UNCHANGED vars
  BY <1>7 DEF ClientKilled, ServerKilled, vars, Ended
<1> QED  BY <1>1, <1>2, <1>3, <1>4, <1>5, <1>6, <1>7 DEF Next, ClientRuns, ServerRuns

\* ttt.c and the rules agree on lines, full boards and whose turn it is.
LEMMA SameWins ==
    ASSUME NEW t, NEW p
    PROVE  Rules!Wins(p, t.board) <=> ttt_checkWin(t, p)
<1>1. Rules!Rows \cup Rules!Columns \cup Rules!Diagonals = WinningLines
  BY DEF Rules!Rows, Rules!Columns, Rules!Diagonals, WinningLines
<1> QED  BY <1>1, CheckWinCells DEF Rules!Wins, Rules!MarkedBy, Cells

LEMMA SameResult ==
    ASSUME NEW t, InTurns(t)
    PROVE  /\ Rules!Result("X", t.board) = Outcome(t, "X", "O")
           /\ Rules!Result("O", t.board) = Outcome(t, "O", "X")
<1>1. Rules!Other("X") = "O" /\ Rules!Other("O") = "X"
  BY DEF Rules!Other
<1>2. Rules!Full(t.board) <=> t.turnCount = 9
  BY FullBoard DEF Rules!Full, Rules!MarkedBy, Empty
<1>3. t.currentPlayer \in {"X", "O"}
  BY DEF InTurns, TicTacToeGame, Players
<1>4. ~ttt_checkWin(t, "X") /\ ~ttt_checkWin(t, "O") => (ttt_isDraw(t) <=> t.turnCount = 9)
  BY <1>3 DEF ttt_isDraw
<1> QED  BY <1>1, <1>2, <1>4, SameWins DEF Rules!Result, Outcome

LEMMA SameTurn ==
    ASSUME NEW t, InTurns(t)
    PROVE  Rules!Turn(t.board) = t.currentPlayer
<1>1. \A p : Rules!MarkedBy(p, t.board) = Cells(t, p)
  BY DEF Rules!MarkedBy, Cells
<1>2. \A S : Rules!Cardinality(S) = Cardinality(S)
  BY DEF Rules!Cardinality, Cardinality
<1> QED  BY <1>1, <1>2, TurnSeen DEF Rules!Turn

\* Steps of the rules, in terms of Marks and Told.
LEMMA MarkStep ==
    ASSUME NEW n \in 1..9, Marks[n] = " ", Rules!Result("X", Marks) = "nothing",
           Marks' = [Marks EXCEPT ![n] = Rules!Turn(Marks)],
           NEW who \in Players,
           Told' = [p \in Players |-> IF p = who THEN Rules!Result(p, Marks') ELSE Told[p]]
    PROVE  Rules!Next
<1> DEFINE b == [Marks EXCEPT ![n] = Rules!Turn(Marks)]
<1>1. Told' = [p \in {"X", "O"} |-> IF p \in {who} THEN Rules!Result(p, b) ELSE Told[p]]
  BY DEF Players
<1>2. {who} \in SUBSET {"X", "O"}
  BY DEF Players
<1>3. Rules!Mark(n)
  BY <1>1, <1>2 DEF Rules!Mark, Marks, Told, Known
<1> QED  BY <1>3 DEF Rules!Next

LEMMA LearnStep ==
    ASSUME NEW p \in Players, Told[p] = "nothing", Rules!Result(p, Marks) # "nothing",
           Told' = [Told EXCEPT ![p] = Rules!Result(p, Marks)], Marks' = Marks
    PROVE  Rules!Next
<1>1. Rules!Learn(p)
  BY DEF Rules!Learn, Marks, Told, Known
<1> QED  BY <1>1 DEF Rules!Next, Players

\* A mark on the server's board that its player sees at once, where the rules look at
\* the server's board.
LEMMA ServerMarks ==
    ASSUME NEW n, InTurns(sboard), ~Ended(sboard), Legal(sboard, n),
           Marks = sboard.board, Marks' = sboard'.board,
           sboard' = ttt_makeMove(sboard, n), ssays' = Outcome(sboard', "O", "X"),
           Told'["X"] = Told["X"]
    PROVE  Rules!Next
<1>1. /\ InTurns(sboard')
      /\ sboard'.board = [sboard.board EXCEPT ![n] = sboard.currentPlayer]
  BY MakeMove
<1>2. n \in 1..9 /\ Marks[n] = " " /\ Rules!Result("X", Marks) = "nothing"
  BY SameResult DEF Legal, Empty, Ended
<1>3. Marks' = [Marks EXCEPT ![n] = Rules!Turn(Marks)]
  BY <1>1, SameTurn
<1>4. ssays' # "timeout" /\ ssays' = Rules!Result("O", Marks')
  BY <1>1, SameResult DEF Outcome
<1>5. Told'["O"] = Rules!Result("O", Marks')
  BY <1>4, MarksSeenNext DEF Known
<1>6. Told' = [p \in Players |-> IF p = "O" THEN Rules!Result(p, Marks') ELSE Told[p]]
  BY <1>5, MarksSeenNext DEF Players
<1> QED  BY <1>2, <1>3, <1>6, MarkStep DEF Players

\* Until another word than MARK is played, each step of the programs is a mark or a
\* result learnt.
LEMMA RefinesInStep ==
    ASSUME TypeInv, Agree, Unsaid, [Next]_vars, ~misworded, ~misworded'
    PROVE  Rules!Next \/ UNCHANGED <<Marks, Told>>
<1> USE DEF Agree, InStep
<1>0. /\ InTurns(cboard) /\ InTurns(sboard)
      /\ cboard.turnCount \in Nat /\ sboard.turnCount \in Nat
      /\ Marks = Latest(cboard, sboard) /\ Marks' = Latest(cboard', sboard')
  <2>1. \A t \in TicTacToeGame : t.turnCount \in Nat
    BY DEF TicTacToeGame
  <2> QED  BY <2>1, MarksSeen, MarksSeenNext DEF TypeInv, InTurns
<1>9. /\ Told["O"] = Known(ssays) /\ Told["X"] = Known(csays)
      /\ Told'["O"] = Known(ssays') /\ Told'["X"] = Known(csays')
      /\ Told = [p \in Players |-> Told[p]] /\ Told' = [p \in Players |-> Told'[p]]
  BY MarksSeen, MarksSeenNext
<1>1. ASSUME NEW n \in Moves, ClientMark(n) PROVE Rules!Next
  <2>1. /\ cboard = sboard /\ ~Ended(cboard) /\ Legal(cboard, n) /\ csays = "nothing"
        /\ cboard' = ttt_makeMove(cboard, n) /\ csays' = Outcome(cboard', "X", "O")
        /\ UNCHANGED <<sboard, ssays>>
    BY <1>1 DEF ClientMark, AtPrompt, Unsaid
  <2>2. /\ InTurns(cboard') /\ cboard'.turnCount = cboard.turnCount + 1
        /\ cboard'.board = [cboard.board EXCEPT ![n] = cboard.currentPlayer]
    BY <1>0, <2>1, MakeMove
  <2>8. cboard'.turnCount \in Nat
    BY <1>0, <2>2
  <2>3. Marks = cboard.board /\ Marks' = cboard'.board
    BY <1>0, <2>1, <2>2, <2>8, Ahead
  <2>4. n \in 1..9 /\ Marks[n] = " " /\ Rules!Result("X", Marks) = "nothing"
    BY <1>0, <2>1, <2>3, SameResult DEF Legal, Empty, Ended
  <2>5. Marks' = [Marks EXCEPT ![n] = Rules!Turn(Marks)]
    BY <1>0, <2>2, <2>3, SameTurn
  <2>6. csays' # "timeout" /\ csays' = Rules!Result("X", Marks')
    BY <2>1, <2>2, <2>3, SameResult DEF Outcome
  <2>9. Told'["X"] = Rules!Result("X", Marks') /\ Told'["O"] = Told["O"]
    BY <1>9, <2>1, <2>6 DEF Known
  <2>7. Told' = [p \in Players |-> IF p = "X" THEN Rules!Result(p, Marks') ELSE Told[p]]
    BY <1>9, <2>9 DEF Players
  <2> QED  BY <2>4, <2>5, <2>7, MarkStep DEF Players
<1>3. ASSUME ClientReceives PROVE Rules!Next \/ UNCHANGED <<Marks, Told>>
  <2>1. /\ cpc = "await" /\ toClient # <<>> /\ csays = "nothing"
        /\ cboard' = Played(cboard, Head(toClient))
        /\ csays' = Outcome(cboard', "X", "O") /\ UNCHANGED <<sboard, ssays>>
    BY <1>3 DEF ClientReceives, Unsaid
  <2>2. PICK n : /\ toClient = <<MoveOf(n)>> /\ Legal(cboard, n)
                 /\ sboard = ttt_makeMove(cboard, n)
    BY <2>1 DEF Answered, Carries
  <2>3. cboard' = sboard
    BY <2>1, <2>2, OneMessage DEF Played, MoveOf
  <2>4. sboard.turnCount = cboard.turnCount + 1
    BY <1>0, <2>2, MakeMove
  <2>5. Marks = sboard.board /\ Marks' = Marks
    BY <1>0, <2>1, <2>3, <2>4, Ahead
  <2>6. csays' = Rules!Result("X", Marks) /\ csays' # "timeout"
    BY <1>0, <2>1, <2>3, <2>5, SameResult DEF Outcome
  <2>9. Told["X"] = "nothing" /\ Told'["X"] = csays' /\ Told'["O"] = Told["O"]
    BY <1>9, <2>1, <2>6 DEF Known
  <2>7. Told' = [Told EXCEPT !["X"] = csays']
    BY <1>9, <2>9 DEF Players
  <2>8. csays' = "nothing" => UNCHANGED Told
    BY <1>9, <2>9 DEF Players
  <2> QED  BY <2>5, <2>6, <2>7, <2>8, <2>9, LearnStep DEF Players
<1>4. ASSUME ServerReceives PROVE Rules!Next \/ UNCHANGED <<Marks, Told>>
  <2>1. /\ spc = "recv" /\ toServer # <<>> /\ ssays = "nothing"
        /\ UNCHANGED <<cboard, csays>>
    BY <1>4 DEF ServerReceives, Unsaid
  <2>2. CASE toServer = <<[word |-> "TIMEOUT", move |-> NoMove]>>
    <3>1. ssays' = "timeout" /\ UNCHANGED sboard
      BY <1>4, <2>2, OneMessage DEF ServerReceives
    <3>2. Told'["O"] = Told["O"] /\ Told'["X"] = Told["X"]
      BY <1>9, <2>1, <3>1 DEF Known
    <3> QED  BY <1>0, <1>9, <2>1, <3>1, <3>2 DEF Players
  <2>3. CASE Carries(toServer, sboard, cboard)
    <3>1. PICK n : /\ toServer = <<MoveOf(n)>> /\ Legal(sboard, n)
                   /\ cboard = ttt_makeMove(sboard, n)
      BY <2>3 DEF Carries
    <3>2. cboard.turnCount = sboard.turnCount + 1 /\ cboard # sboard
      BY <1>0, <3>1, MakeMove
    <3>3. Head(toServer).word = "MARK" /\ Head(toServer).move = n
      BY <3>1, OneMessage DEF MoveOf
    <3>4. sboard' = cboard /\ ssays' = Outcome(cboard, "O", "X")
      BY <1>4, <3>1, <3>2, <3>3 DEF ServerReceives
    <3>5. Marks = cboard.board /\ Marks' = Marks
      BY <1>0, <2>1, <3>2, <3>4, Ahead
    <3>6. ssays' = Rules!Result("O", Marks) /\ ssays' # "timeout"
      BY <1>0, <3>4, <3>5, SameResult DEF Outcome
    <3>9. Told["O"] = "nothing" /\ Told'["O"] = ssays' /\ Told'["X"] = Told["X"]
      BY <1>9, <2>1, <3>6 DEF Known
    <3>7. Told' = [Told EXCEPT !["O"] = ssays']
      BY <1>9, <3>9 DEF Players
    <3>8. ssays' = "nothing" => UNCHANGED Told
      BY <1>9, <3>9 DEF Players
    <3> QED  BY <3>5, <3>6, <3>7, <3>8, <3>9, LearnStep DEF Players
  <2> QED  BY <2>1, <2>2, <2>3 DEF OnItsWay
<1>5. ASSUME NEW word \in Words[sboard.turnCount], NEW n \in Moves, ServerPlays(word, n)
      PROVE  Rules!Next
  <2>1. /\ cboard = sboard /\ ~Ended(sboard) /\ Legal(sboard, n)
        /\ sboard' = ttt_makeMove(sboard, n) /\ ssays' = Outcome(sboard', "O", "X")
        /\ UNCHANGED <<cboard, csays>>
    BY <1>5 DEF ServerPlays, AtServer, Unsaid
  <2>4. sboard'.turnCount = sboard.turnCount + 1
    BY <1>0, <2>1, MakeMove
  <2>2. sboard'.turnCount = sboard.turnCount + 1 /\ sboard'.turnCount \in Nat
    BY <1>0, <2>4
  <2>3. Marks = sboard.board /\ Marks' = sboard'.board
    BY <1>0, <2>1, <2>2, Ahead
  <2> QED  BY <1>0, <1>9, <2>1, <2>3, ServerMarks
<1>6. ASSUME \/ \E n \in Moves : ClientMarkRefused(n)
             \/ AlarmRings \/ AlarmRingsUnseen \/ Forfeit \/ ClientGetsEof \/ ServerGetsEof
             \/ ClientKilled \/ ServerKilled \/ UNCHANGED vars
      PROVE  UNCHANGED <<Marks, Told>>
  <2>1. UNCHANGED <<cboard, sboard>> /\ Known(csays') = Known(csays) /\ ssays' = ssays
    BY <1>6 DEF ClientMarkRefused, AlarmRings, AlarmRingsUnseen, Forfeit, ClientGetsEof,
       ServerGetsEof, ClientKilled, ServerKilled, vars, Unsaid, Known
  <2> QED  BY <1>0, <1>9, <2>1 DEF Players
<1> QED  BY <1>1, <1>3, <1>4, <1>5, <1>6
            DEF Next, ClientRuns, ServerRuns, TimeUp, TimeUpTyped

\* From then on the server's board is the game: what the client sends is played there
\* as far as it is legal there.
LEMMA RefinesAlone ==
    ASSUME TypeInv, Agree, Unsaid, [Next]_vars, misworded'
    PROVE  Rules!Next \/ UNCHANGED <<Marks, Told>>
<1>0. /\ InTurns(cboard) /\ InTurns(sboard)
      /\ cboard.turnCount \in Nat /\ sboard.turnCount \in Nat
  <2>1. \A t \in TicTacToeGame : t.turnCount \in Nat
    BY DEF TicTacToeGame
  <2> QED  BY <2>1 DEF TypeInv, InTurns
<1>1. ASSUME NEW word \in Words[sboard.turnCount], NEW n \in Moves, ServerPlays(word, n)
      PROVE  Rules!Next
  <2>1. /\ ~Ended(sboard) /\ Legal(sboard, n)
        /\ sboard' = ttt_makeMove(sboard, n) /\ ssays' = Outcome(sboard', "O", "X")
        /\ spc = "move" /\ UNCHANGED <<cboard, csays>>
    BY <1>1 DEF ServerPlays, Unsaid
  <2>2. Marks' = sboard'.board /\ Told'["X"] = "nothing"
    BY MarksSeenNext
  <2>3. CASE misworded
    <3>1. Marks = sboard.board /\ Told["X"] = "nothing"
      BY <2>3, MarksSeen
    <3> QED  BY <1>0, <2>1, <2>2, <3>1, ServerMarks
  <2>4. CASE ~misworded
    <3>1. cboard = sboard
      BY <2>1, <2>4 DEF Agree, InStep, AtServer
    <3>2. Marks = sboard.board
      BY <1>0, <2>4, <3>1, MarksSeen, Ahead
    <3>3. Known(csays) = "nothing"
      BY <2>1, <3>1 DEF Unsaid, Known
    <3> QED  BY <1>0, <2>1, <2>2, <2>4, <3>2, <3>3, MarksSeen, ServerMarks
  <2> QED  BY <2>3, <2>4
<1>2. CASE ServerReceives
  <2>1. /\ misworded /\ ssays = "nothing" /\ ~Ended(sboard)
        /\ Marks = sboard.board /\ Marks' = sboard'.board
        /\ Told["X"] = "nothing" /\ Told'["X"] = "nothing"
    BY <1>2, MarksSeen, MarksSeenNext DEF ServerReceives, Unsaid
  <2>2. CASE ssays' = "timeout" /\ UNCHANGED sboard
    <3>1. Told'["O"] = Told["O"]
      BY <2>1, <2>2, MarksSeen, MarksSeenNext DEF Known
    <3> QED  BY <2>1, <2>2, <3>1, MarksSeen, MarksSeenNext DEF Players
  <2>3. ASSUME NEW n, sboard' = ttt_makeMove(sboard, n),
               ssays' = IF sboard' = sboard THEN ssays ELSE Outcome(sboard', "O", "X")
        PROVE  Rules!Next \/ UNCHANGED <<Marks, Told>>
    <3>1. CASE sboard' = sboard
      <4>1. Told'["O"] = Told["O"]
        BY <2>3, <3>1, MarksSeen, MarksSeenNext
      <4> QED  BY <2>1, <3>1, <4>1, MarksSeen, MarksSeenNext DEF Players
    <3>2. CASE sboard' # sboard
      <4>1. Legal(sboard, n)
        BY <2>3, <3>2 DEF ttt_makeMove
      <4> QED  BY <1>0, <2>1, <2>3, <3>2, <4>1, ServerMarks
    <3> QED  BY <3>1, <3>2
  <2> QED  BY <1>2, <2>2, <2>3 DEF ServerReceives
<1>3. ASSUME \/ \E n \in Moves : ClientMark(n) \/ ClientMarkRefused(n)
             \/ AlarmRings \/ AlarmRingsUnseen \/ Forfeit \/ ClientReceives
             \/ ClientGetsEof \/ ServerGetsEof
             \/ ClientKilled \/ ServerKilled \/ UNCHANGED vars
      PROVE  UNCHANGED <<Marks, Told>>
  <2>1. misworded /\ UNCHANGED <<sboard, ssays>>
    BY <1>3 DEF ClientMark, ClientMarkRefused, AlarmRings, AlarmRingsUnseen, Forfeit,
       ClientReceives, ClientGetsEof, ServerGetsEof, ClientKilled, ServerKilled, vars
  <2>2. Told'["O"] = Told["O"] /\ Told'["X"] = Told["X"]
    BY <2>1, MarksSeen, MarksSeenNext
  <2> QED  BY <2>1, <2>2, MarksSeen, MarksSeenNext DEF Players
<1> QED  BY <1>1, <1>2, <1>3 DEF Next, ClientRuns, ServerRuns, TimeUp, TimeUpTyped

LEMMA Refines ==
    ASSUME TypeInv, Agree, Unsaid, [Next]_vars
    PROVE  Rules!Next \/ UNCHANGED <<Marks, Told>>
<1>1. misworded' \in BOOLEAN /\ (misworded => misworded')
  BY NextTypes DEF TypeInv, TypeOK, Next, vars, ClientRuns, ServerRuns, TimeUp, TimeUpTyped,
     ClientMark, ClientMarkRefused, AlarmRings, AlarmRingsUnseen, Forfeit, ClientReceives,
     ClientGetsEof, ServerReceives, ServerGetsEof, ServerPlays, ClientKilled, ServerKilled
<1> QED  BY <1>1, RefinesInStep, RefinesAlone

\* Client and server together play one game by the rules, and whoever is told a result
\* is told that of the game; once another word than MARK has been played, the game is
\* the server's, and only its player is told what comes of it.
THEOREM ImplementsRules == Spec => PlaysByTheRules
<1>1. Init => Rules!Init
  <2> SUFFICES ASSUME Init PROVE Rules!Init
    OBVIOUS
  <2>1. Marks = [n \in 1..9 |-> " "]
    BY DEF Init, Marks, ttt_new, Empty
  <2>2. Told = [p \in {"X", "O"} |-> "nothing"]
    BY DEF Init, Told, Known, Players
  <2> QED  BY <2>1, <2>2 DEF Rules!Init, Marks, Told, Known
<1>2. TypeInv /\ Agree /\ Unsaid /\ [Next]_vars => [Rules!Next]_<<Marks, Told>>
  BY Refines
<1>3. Spec => []Unsaid
  <2>1. TypeInv /\ Unsaid /\ [Next]_vars => Unsaid'
    BY NextUnsaid
  <2> QED  BY <2>1, InitUnsaid, TypesHold, PTL DEF Spec
<1>4. Spec => Rules!Init /\ [][Rules!Next]_<<Marks, Told>>
  BY <1>1, <1>2, <1>3, AgreeHolds, PTL DEF Spec
<1> QED  BY <1>4, PTL DEF PlaysByTheRules, Rules!Spec, Marks, Told, Known
=============================================================================
