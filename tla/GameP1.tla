------------------------------- MODULE GameP1 -------------------------------
(***************************************************************************)
(* Part 1 of assignment 1: client-p1.c (player X) and server-p1.c (player  *)
(* O) play one game over one connection, each on its own board.            *)
(*                                                                         *)
(* A step is what a program does from one blocking call (fgets, recv) to   *)
(* the next.  Players type when they like and what they like; lines that   *)
(* are not commands leave no trace and are left out, but for the one that  *)
(* is being read when the alarm rings.  Either program may be killed.      *)
(* Standard input does not end.                                            *)
(***************************************************************************)
EXTENDS TicTacToe, Sequences

CONSTANTS
    Words,  \* first words of the commands the server's player types, by the number
            \*   of marks on his board
    Moves   \* numbers typed

ASSUME GameAssumption == (\A k \in 0..9 : "MARK" \in Words[k]) /\ Moves \subseteq Nat

VARIABLES
    cboard, sboard,     \* the two copies of the game
    cpc,        \* client: at its prompt, in recv, or gone
    spc,        \* server: in recv, at its prompt, or gone
    alarm,      \* the client's alarm is set
    rung,       \* the client's timeout flag, and whether fgets was woken
    toServer, toClient,     \* the connection, message by message
    csays, ssays,           \* what each player was told of the result
    misworded               \* history: the server has played a word other than MARK

vars == <<cboard, sboard, cpc, spc, alarm, rung, toServer, toClient, csays, ssays,
          misworded>>

NoMove == 0     \* the number of a message that has none

Init ==
    /\ cboard = ttt_new /\ sboard = ttt_new
    /\ cpc = "input" /\ alarm = TRUE /\ rung = "no"
    /\ spc = "recv"
    /\ toServer = <<>> /\ toClient = <<>>
    /\ csays = "nothing" /\ ssays = "nothing" /\ misworded = FALSE

\* The checks for a win and a draw, in the order in which both programs make them
\* (they differ in which player is looked at first).
Outcome(t, me, you) ==
    IF ttt_checkWin(t, me) THEN "won"
    ELSE IF ttt_checkWin(t, you) THEN "lost"
    ELSE IF ttt_isDraw(t) THEN "drew" ELSE "nothing"

MoveOf(m) == [word |-> "MARK", move |-> m]

\* A send to a program that is gone is lost.
SendServer(msg) == toServer' = IF spc = "gone" THEN toServer ELSE Append(toServer, msg)
SendClient(msg) == toClient' = IF cpc = "gone" THEN toClient ELSE Append(toClient, msg)

(***************************************************************************)
(* The client.                                                             *)
(***************************************************************************)
\* input_parser accepts MARK n: the alarm is off before the move is tried.
ClientMark(n) ==
    /\ cpc = "input" /\ rung = "no" /\ Legal(cboard, n)
    /\ cboard' = ttt_makeMove(cboard, n)
    /\ csays' = Outcome(cboard', "X", "O")
    /\ cpc' = IF csays' = "nothing" THEN "await" ELSE "gone"
    /\ SendServer(MoveOf(n))
    /\ alarm' = FALSE
    /\ UNCHANGED <<sboard, spc, rung, toClient, ssays, misworded>>

\* MARK of no empty cell: back to the prompt, and the alarm stays off.  It may
\* have rung between the test of the flag and alarm(0).
ClientMarkRefused(n) ==
    /\ cpc = "input" /\ rung = "no" /\ ~Legal(cboard, n)
    /\ alarm' = FALSE
    /\ rung' \in {"no"} \cup (IF alarm THEN {"unseen"} ELSE {})
    /\ UNCHANGED <<cboard, sboard, cpc, spc, toServer, toClient, csays, ssays,
                   misworded>>

\* The alarm rings while fgets waits, and wakes it, ...
AlarmRings ==
    /\ cpc = "input" /\ alarm
    /\ alarm' = FALSE /\ rung' = "woken"
    /\ UNCHANGED <<cboard, sboard, cpc, spc, toServer, toClient, csays, ssays,
                   misworded>>

\* ... or while a line that is no command is being dealt with.
AlarmRingsUnseen ==
    /\ cpc = "input" /\ alarm
    /\ alarm' = FALSE /\ rung' = "unseen"
    /\ UNCHANGED <<cboard, sboard, cpc, spc, toServer, toClient, csays, ssays,
                   misworded>>

\* fgets has returned and the flag is set.  Mutant: the player is told, and asked on.
AskedOn ==
    /\ cpc = "input" /\ csays' = "timeout"
    /\ UNCHANGED <<cboard, sboard, cpc, spc, alarm, rung, toServer, toClient, ssays,
                   misworded>>
Forfeit ==
    /\ cpc = "input"
    /\ cpc' = "gone" /\ csays' = "timeout"
    /\ SendServer([word |-> "TIMEOUT", move |-> NoMove])
    /\ UNCHANGED <<cboard, sboard, spc, alarm, rung, toClient, ssays,
                   misworded>>

TimeUp      == rung = "woken" /\ Forfeit
TimeUpTyped == rung = "unseen" /\ Forfeit   \* the player types another line

\* client_receiveServerResponse plays a MARK with a number, and nothing else.
\* Mutant: the answer is taken for the client's own.
Unplayed(t, msg) == t
Played(t, msg) == IF msg.word = "MARK" THEN ttt_makeMove(t, msg.move) ELSE t

ClientReceives ==
    /\ cpc = "await" /\ toClient # <<>>
    /\ toClient' = Tail(toClient)
    /\ cboard' = Played(cboard, Head(toClient))
    /\ csays' = Outcome(cboard', "X", "O")
    /\ IF csays' = "nothing"
       THEN cpc' = "input" /\ alarm' = TRUE /\ rung' = "no" /\ UNCHANGED toServer
       ELSE cpc' = "gone" /\ SendServer(Head(toClient)) /\ UNCHANGED <<alarm, rung>>
    /\ UNCHANGED <<sboard, spc, ssays, misworded>>

\* recv returns 0 when the server has gone.
ClientGetsEof ==
    /\ cpc = "await" /\ toClient = <<>> /\ spc = "gone"
    /\ cpc' = "gone"
    /\ UNCHANGED <<cboard, sboard, spc, alarm, rung, toServer, toClient, csays, ssays,
                   misworded>>

ClientKilled ==
    /\ cpc # "gone" /\ cpc' = "gone"
    /\ UNCHANGED <<cboard, sboard, spc, alarm, rung, toServer, toClient, csays, ssays,
                   misworded>>

(***************************************************************************)
(* The server.                                                             *)
(***************************************************************************)
\* server_runGame: one message.  A move that is not legal is not answered; the
\* answer to one that ends the game has lost its number to strtok.
ServerReceives ==
    /\ spc = "recv" /\ toServer # <<>>
    /\ toServer' = Tail(toServer)
    /\ LET msg    == Head(toServer)
           played == ttt_makeMove(sboard, msg.move)
       IN \/ /\ msg.word = "TIMEOUT"
             /\ spc' = "gone" /\ ssays' = "timeout"
             /\ UNCHANGED <<sboard, toClient>>
          \/ /\ msg.word # "TIMEOUT"
             /\ sboard' = played
             /\ ssays' = IF played = sboard THEN ssays ELSE Outcome(played, "O", "X")
             /\ spc' = IF played = sboard THEN "recv"
                       ELSE IF ssays' = "nothing" THEN "move" ELSE "gone"
             /\ IF spc' = "gone" THEN SendClient([word |-> "MARK", move |-> NoMove])
                ELSE UNCHANGED toClient
    /\ UNCHANGED <<cboard, cpc, alarm, rung, csays, misworded>>

\* Mutant: the move is played and not sent.
Unsent(word, n)   == toClient' = toClient
SendMove(word, n) == SendClient([word |-> word, move |-> n])

\* server_handleServerMove: any word followed by a number is a move.
ServerPlays(word, n) ==
    /\ spc = "move" /\ Legal(sboard, n)
    /\ sboard' = ttt_makeMove(sboard, n)
    /\ ssays' = Outcome(sboard', "O", "X")
    /\ spc' = IF ssays' = "nothing" THEN "recv" ELSE "gone"
    /\ SendMove(word, n)
    /\ misworded' = (misworded \/ word # "MARK")
    /\ UNCHANGED <<cboard, cpc, alarm, rung, toServer, csays>>

\* Mutant: only errors end the server, not the end of the stream.
ErrorOnly      == FALSE
Disconnected   == cpc = "gone"

ServerGetsEof ==
    /\ spc = "recv" /\ toServer = <<>> /\ Disconnected
    /\ spc' = "gone"
    /\ UNCHANGED <<cboard, sboard, cpc, alarm, rung, toServer, toClient, csays, ssays,
                   misworded>>

ServerKilled ==
    /\ spc # "gone" /\ spc' = "gone"
    /\ UNCHANGED <<cboard, sboard, cpc, alarm, rung, toServer, toClient, csays, ssays,
                   misworded>>

ClientRuns == AlarmRings \/ TimeUp \/ ClientReceives \/ ClientGetsEof
ServerRuns == ServerReceives \/ ServerGetsEof

Next ==
    \/ ClientRuns \/ ServerRuns
    \/ \E n \in Moves : ClientMark(n) \/ ClientMarkRefused(n)
    \/ AlarmRingsUnseen \/ TimeUpTyped
    \/ \E word \in Words[sboard.turnCount], n \in Moves : ServerPlays(word, n)
    \/ ClientKilled \/ ServerKilled

Spec == Init /\ [][Next]_vars

\* The programs go on and the alarm rings; nobody has to type anything.
Fair == Spec /\ WF_vars(ClientRuns) /\ WF_vars(ServerRuns)

(***************************************************************************)
(* Properties.                                                             *)
(***************************************************************************)
Message == [word : (UNION {Words[k] : k \in 0..9}) \cup {"MARK", "TIMEOUT"},
            move : Moves \cup {NoMove}]
Said    == {"nothing", "won", "lost", "drew", "timeout"}

\* Every variable keeps to its type; a board has at most nine marks.
TypeOK ==
    /\ cboard \in TicTacToeGame /\ sboard \in TicTacToeGame
    /\ cpc \in {"input", "await", "gone"} /\ spc \in {"recv", "move", "gone"}
    /\ alarm \in BOOLEAN /\ rung \in {"no", "woken", "unseen"}
    /\ toServer \in Seq(Message) /\ toClient \in Seq(Message)
    /\ csays \in Said /\ ssays \in Said /\ misworded \in BOOLEAN

\* A player is asked for a move only on a board that both programs have: "it would
\* be simpler to just send the move that was played and have that move played on
\* both boards" (README.md:21).  Nothing but another word than MARK before a move
\* (server-p1.c:140) sets the boards apart: the client does not play it.
BoardsAgree == (cpc = "input" \/ spc = "move") /\ ~misworded => cboard = sboard

\* Whoever waits for the other's message gets one, unless the boards were set apart:
\* then a mark of the client's may be taken on the server's board, and is not answered.
NoMutualWait ==
    cpc = "await" /\ spc = "recv" /\ toServer = <<>> /\ toClient = <<>> => misworded

\* The two programs together play one game by the rules, and each player is told
\* the result of that game; whoever has seen more marks shows where it is.  From
\* another word than MARK on the server does so alone, whatever the client sends.
Rules == INSTANCE TicTacToeRules WITH
    marks <- IF ~misworded /\ cboard.turnCount >= sboard.turnCount
             THEN cboard.board ELSE sboard.board,
    told  <- [p \in Players |->
                LET says == IF p = "O" THEN ssays
                            ELSE IF misworded THEN "nothing" ELSE csays
                IN IF says = "timeout" THEN "nothing" ELSE says]
PlaysByTheRules == Rules!Spec

\* When a program ends, the other does, unless its player is at the prompt ("If the
\* client disconnects, a message on the server is shown [...], and the server stops
\* running", README.md:25); a timeout is told to the server's player.
EndsTogether ==
    /\ cpc = "gone" ~> spc \in {"gone", "move"}
    /\ spc = "gone" ~> cpc \in {"gone", "input"}

\* "When the client is inactive for 30 seconds, the client is shown `Time limit
\* exceeded! You lose.`" (README.md:25): a client whose alarm is set, or has woken it,
\* does not stay at its prompt, unless its player types: a MARK that is refused turns
\* the alarm off for good, and one that rings while a line is dealt with waits for
\* the next line.
AlarmedLoses ==
    cpc = "input" /\ (alarm \/ rung = "woken") ~>
        cpc # "input" \/ (~alarm /\ rung # "woken")
=============================================================================
