------------------------------- MODULE GameP2 -------------------------------
(***************************************************************************)
(* A game of part 2 of assignment 1: server2_runGame in server-p2.c and    *)
(* the two client-p2.c it serves, player 1 (X) and player 2 (O), once both *)
(* are in a room (GameRooms).  The server keeps the game, each client a    *)
(* copy of it.                                                             *)
(*                                                                         *)
(* TCP is a stream: a recv takes any number of the messages that are       *)
(* there, up to the size of its buffer.  A client looks at the first only, *)
(* as the server ends each with a NUL; the server's messages come without  *)
(* an end.  A single message is not torn but by the end of a buffer.       *)
(*                                                                         *)
(* A step is what a program does from one blocking call (fgets, recv) to   *)
(* the next.  Any program may be killed at any moment: by its user, by a   *)
(* send to a peer that is gone (SIGPIPE), and the server by the end of the *)
(* game in another room.  Standard input does not end.                     *)
(***************************************************************************)
EXTENDS TicTacToe, SequencesExt

CONSTANTS
    Lines,      \* per player, what the first line typed may be, the second, ...
    MaxLines,   \* how many lines are typed in all: while nothing is spoilt, when a
                \* line or message was dropped or typed out of turn, when both were
    StartCount  \* what turnCount may hold when the game starts

Glued   == "MARKn"      \* "MARK5": a move for the client, not for the server
Trailed == "MARKn+"     \* "MARK 5 x": a move for the client whose player types it and
                        \* for the server, not for the client it is sent on to

ASSUME GameAssumption ==
    /\ Lines \in [Players -> Seq(SUBSET [word : {"MARK", Glued, Trailed}, move : Nat])]
    /\ MaxLines \in Seq(Nat) /\ Len(MaxLines) = 3
    /\ StartCount \subseteq Nat

VARIABLES
    sboard,     \* the server's game, room->t
    cboard,     \* per player, the client's copy
    spc,        \* server: in the recv for ACK, in the recv for MARK, or gone
    cpc,        \* per player, client: in recv, at its prompt, or gone
    toClient, toServer,     \* the connections
    verdict,    \* the result the server has sent to each player
    typed,      \* history: the lines each player has typed
    spoilt      \* history: "lost" when a recv has dropped a line or message behind
                \* the first, "mistyped" when a line was typed out of turn, glued or
                \* with more behind its number

vars == <<sboard, cboard, spc, cpc, toClient, toServer, verdict, typed, spoilt>>
history == <<typed, spoilt>>

Msg(w)  == [word |-> w, move |-> 0]
Ack     == Msg("ACK")
Rest    == Msg("REST")      \* what the end of a buffer has left of a message
Size(m) == CASE m.word = "ACK" -> 3 [] m.word = Glued -> 6 [] m.word = Trailed -> 9
           [] OTHER -> 7
Bytes(s) == FoldLeft(LAMBDA n, m : n + Size(m), 0, s)
AckBuffer == 15

\* Mutant: the sockets of the two are exchanged.
Exchanged == ttt_switchPlayer(sboard.currentPlayer)
Current   == sboard.currentPlayer
Opponent  == ttt_switchPlayer(Current)

Take(s, k) == SubSeq(s, 1, k)
Drop(s, k) == SubSeq(s, k + 1, Len(s))
IsLine(m)  == m.word \in {"MARK", Glued, Trailed}
IsMove(m)  == m.word \in {"MARK", Trailed}   \* for the server: "MARK " in front
Spoil(what, bad) == spoilt' = IF bad THEN spoilt \cup {what} ELSE spoilt

(***************************************************************************)
(* server2_runGame.                                                        *)
(***************************************************************************)
To(p, m) == [to |-> p, msg |-> m]

\* The top of the loop.
Turn(p) == <<To(p, Msg("TURN")), To(ttt_switchPlayer(p), Msg("WAIT"))>>

Init ==
    /\ \E n \in StartCount : sboard = [ttt_new EXCEPT !.turnCount = n]
    /\ cboard = [p \in Players |-> ttt_new]
    /\ spc = "ack" /\ cpc = [p \in Players |-> "recv"]
    /\ toClient = [p \in Players |-> <<Msg(IF p = Current THEN "TURN" ELSE "WAIT")>>]
    /\ toServer = [p \in Players |-> <<>>]
    /\ verdict = [p \in Players |-> "nothing"]
    /\ typed = [p \in Players |-> <<>>] /\ spoilt = {}

\* A program that ends leaves unread what it was sent.
Exit == spc' = "gone" /\ toServer' = [p \in Players |-> <<>>]

\* server2_sendGameState, once for each of the messages (four at most), unless the
\* server is killed on the way.  A send to a client that is gone is lost.
Sent(msgs, j, p, i)  == i <= j /\ msgs[i].to = p /\ cpc[p] # "gone"
Piece(msgs, j, p, i) == IF Sent(msgs, j, p, i) THEN <<msgs[i].msg>> ELSE <<>>
Told(msgs, j, p, w)  == \E i \in 1..4 : Sent(msgs, j, p, i) /\ msgs[i].msg.word = w

SendAll(msgs, after, unread) ==
    \E j \in 0..Len(msgs) :
        /\ toClient' = [p \in Players |->
               toClient[p] \o Piece(msgs, j, p, 1) \o Piece(msgs, j, p, 2)
                           \o Piece(msgs, j, p, 3) \o Piece(msgs, j, p, 4)]
        /\ IF j < Len(msgs) \/ after = "gone" THEN Exit
           ELSE spc' = after /\ toServer' = [toServer EXCEPT ![Current] = unread]
        /\ verdict' = [p \in Players |-> CASE Told(msgs, j, p, "WIN")  -> "won"
                                           [] Told(msgs, j, p, "LOSE") -> "lost"
                                           [] Told(msgs, j, p, "DRAW") -> "drew"
                                           [] OTHER -> verdict[p]]

\* The recv for the ACK takes what is there, up to its buffer, and looks at none of
\* it.  When the player is gone it returns 0, which is not looked at either.
ReceiveAck ==
    /\ spc = "ack" /\ spc' = "move"
    /\ LET s == toServer[Current] IN
       \/ s = <<>> /\ cpc[Current] = "gone" /\ UNCHANGED <<toServer, spoilt>>
       \/ \E k \in 1..Len(s) :
            /\ Bytes(Take(s, k)) <= AckBuffer
            /\ toServer' = [toServer EXCEPT ![Current] = Drop(s, k)]
            /\ Spoil("lost", \E i \in 1..k : IsLine(s[i]))
       \/ \E k \in 1..Len(s) :
            /\ Bytes(Take(s, k - 1)) < AckBuffer /\ AckBuffer < Bytes(Take(s, k))
            /\ toServer' = [toServer EXCEPT ![Current] = <<Rest>> \o Drop(s, k)]
            /\ Spoil("lost", \E i \in 1..k : IsLine(s[i]))
    /\ UNCHANGED <<sboard, cboard, cpc, toClient, verdict, typed>>

\* The messages that end the game, if it has ended.  Mutant: a win is the player's to
\* move.
ToMove(t) ==
    IF ttt_checkWin(t, "X") \/ ttt_checkWin(t, "O")
    THEN <<To(t.currentPlayer, Msg("WIN")), To(ttt_switchPlayer(t.currentPlayer), Msg("LOSE"))>>
    ELSE IF ttt_isDraw(t) THEN <<To("X", Msg("DRAW")), To("O", Msg("DRAW"))>> ELSE <<>>
Results(t) ==
    IF ttt_checkWin(t, "X") THEN <<To("X", Msg("WIN")), To("O", Msg("LOSE"))>>
    ELSE IF ttt_checkWin(t, "O") THEN <<To("X", Msg("LOSE")), To("O", Msg("WIN"))>>
    ELSE IF ttt_isDraw(t) THEN <<To("X", Msg("DRAW")), To("O", Msg("DRAW"))>>
    ELSE <<>>

\* What was received is sent on whole: with more behind the move, typed or joined to
\* it, a client does not take it for one.  Mutant: strtok has cut the number off.
Cut(s, k)  == Msg("JUNK")
Echo(s, k) == IF k = 1 /\ Head(s).word = "MARK" THEN Head(s) ELSE Msg("JUNK")

\* The recv for MARK: the move is played if it is legal and sent on either way.
ReceiveMark(k) ==
    /\ spc = "move" /\ k \in 1..Len(toServer[Current])
    /\ LET s == toServer[Current]
       IN /\ Spoil("lost", \/ IsMove(Head(s)) /\ k > 1
                           \/ \E i \in 2..k : IsLine(s[i]))
          /\ IF ~IsMove(Head(s))
             THEN SendAll(Turn(Current), "ack", Drop(s, k)) /\ UNCHANGED sboard
             ELSE /\ sboard' = ttt_makeMove(sboard, Head(s).move)
                  /\ LET results == Results(sboard')
                     IN SendAll(<<To(Opponent, Echo(s, k)), To(Current, Echo(s, k))>>
                                \o (IF results = <<>> THEN Turn(Current') ELSE results),
                                IF results = <<>> THEN "ack" ELSE "gone", Drop(s, k))
    /\ UNCHANGED <<cboard, cpc, typed>>

\* The recv for MARK returns 0: exit.  Mutant: only an error counts.
ErrorOnly    == FALSE
Disconnected == toServer[Current] = <<>> /\ cpc[Current] = "gone"

PlayerGone ==
    /\ spc = "move" /\ Disconnected
    /\ Exit
    /\ UNCHANGED <<sboard, cboard, cpc, toClient, verdict, history>>

ServerKilled ==
    /\ spc # "gone" /\ Exit
    /\ UNCHANGED <<sboard, cboard, cpc, toClient, verdict, history>>

(***************************************************************************)
(* client2_runGame.                                                        *)
(***************************************************************************)
\* The checks at the end of the loop do not ask which player this is.
Over(t) == ttt_checkWin(t, "X") \/ ttt_checkWin(t, "O") \/ ttt_isDraw(t)

Leave(p)   == cpc' = [cpc EXCEPT ![p] = "gone"] /\ toClient' = [toClient EXCEPT ![p] = <<>>]
Stay(p, where, s) == cpc' = [cpc EXCEPT ![p] = where] /\ toClient' = [toClient EXCEPT ![p] = s]
Send(p, s) == toServer' = IF spc = "gone" THEN toServer ELSE [toServer EXCEPT ![p] = @ \o s]

\* client2_receiveServerResponse sees the first message; all but a result are
\* acknowledged; TURN leads to the prompt.
Receive(p, k) ==
    /\ cpc[p] = "recv" /\ k \in 1..Len(toClient[p])
    /\ LET m == Head(toClient[p])
       IN /\ cboard' = IF m.word = "MARK" THEN [cboard EXCEPT ![p] = ttt_makeMove(@, m.move)]
                       ELSE cboard
          /\ IF m.word \in {"WIN", "LOSE", "DRAW"} THEN Leave(p) /\ UNCHANGED toServer
             ELSE /\ Send(p, <<Ack>>)
                  /\ IF m.word = "TURN" THEN Stay(p, "prompt", Drop(toClient[p], k))
                     ELSE IF Over(cboard'[p]) THEN Leave(p)
                     ELSE Stay(p, "recv", Drop(toClient[p], k))
    /\ Spoil("lost", k > 1)
    /\ UNCHANGED <<sboard, spc, verdict, typed>>

Allowed(p) ==
    IF /\ Len(typed[p]) < Len(Lines[p])
       /\ Len(typed["X"]) + Len(typed["O"]) < MaxLines[Cardinality(spoilt) + 1]
    THEN Lines[p][Len(typed[p]) + 1] ELSE {}

\* Mutant: a move that is not legal here is not sent.
SendLegal(p, line) ==
    IF Legal(cboard[p], line.move) THEN Send(p, <<line>>) ELSE UNCHANGED toServer
SendLine(p, line) == Send(p, <<line>>)

\* A move is sent as it was typed and played, if it is legal here.
Type(p, line) ==
    /\ cpc[p] = "prompt"
    /\ cboard' = [cboard EXCEPT ![p] = ttt_makeMove(@, line.move)]
    /\ SendLine(p, line)
    /\ IF Over(cboard'[p]) THEN Leave(p) ELSE Stay(p, "recv", toClient[p])
    /\ typed' = [typed EXCEPT ![p] = Append(@, line)]
    /\ Spoil("mistyped", \/ line.word # "MARK" \/ Current # p
                         \/ \E i \in DOMAIN toServer[p] : IsLine(toServer[p][i])
                         \/ \E i \in DOMAIN toClient[p] : toClient[p][i].word = "MARK")
    /\ UNCHANGED <<sboard, spc, verdict>>

\* recv returns 0: exit.
ServerGone(p) ==
    /\ cpc[p] = "recv" /\ toClient[p] = <<>> /\ spc = "gone"
    /\ cpc' = [cpc EXCEPT ![p] = "gone"]
    /\ UNCHANGED <<sboard, cboard, spc, toClient, toServer, verdict, history>>

ClientKilled(p) ==
    /\ cpc[p] # "gone" /\ Leave(p)
    /\ UNCHANGED <<sboard, cboard, spc, toServer, verdict, history>>

ServerRuns == ReceiveAck \/ PlayerGone \/ \E k \in 1..Len(toServer[Current]) : ReceiveMark(k)
ClientRuns(p) == ServerGone(p) \/ \E k \in 1..Len(toClient[p]) : Receive(p, k)

Next ==
    \/ ServerRuns \/ ServerKilled
    \/ \E p \in Players : \/ ClientRuns(p) \/ ClientKilled(p)
                          \/ \E line \in Allowed(p) : Type(p, line)

Spec == Init /\ [][Next]_vars

\* The programs go on; nobody has to type anything.
Fair == Spec /\ WF_vars(ServerRuns) /\ \A p \in Players : WF_vars(ClientRuns(p))

(***************************************************************************)
(* Properties.                                                             *)
(***************************************************************************)
Line == [word : {"MARK", Glued, Trailed}, move : Nat]

\* Every variable keeps to its type; the server does not lose track of a player.
TypeOK ==
    /\ sboard.board \in [1..9 -> Players \cup {Empty}] /\ sboard.currentPlayer \in Players
    /\ sboard.turnCount \in Nat /\ \A p \in Players : cboard[p] \in TicTacToeGame
    /\ spc \in {"ack", "move", "gone"} /\ cpc \in [Players -> {"recv", "prompt", "gone"}]
    /\ toClient \in [Players -> Seq([word : {"TURN", "WAIT", "WIN", "LOSE", "DRAW", "MARK",
                                             "JUNK"}, move : Nat])]
    /\ toServer \in [Players -> Seq({Ack, Rest} \cup Line)]
    /\ verdict \in [Players -> {"nothing", "won", "lost", "drew"}]
    /\ typed \in [Players -> Seq(Line)] /\ spoilt \subseteq {"lost", "mistyped"}

\* A mark on the server's board was typed by the player whose it is, and a mark on a
\* client's copy by one of them ("They send `MARK <move>` back to the server",
\* README.md:28), however messages were joined.
OwnMarks ==
    LET has(p, n) == \E i \in DOMAIN typed[p] : typed[p][i].move = n
    IN \A n \in 1..9 :
        /\ sboard.board[n] # Empty => has(sboard.board[n], n)
        /\ \A p \in Players : cboard[p].board[n] # Empty => \E q \in Players : has(q, n)

\* The game t once the moves among the messages s have been played in it.
Played(t, s) ==
    LET game[n \in 0..Len(s)] ==
          IF n = 0 THEN t
          ELSE IF s[n].word = "MARK" THEN ttt_makeMove(game[n - 1], s[n].move)
          ELSE game[n - 1]
    IN game[Len(s)]

\* A client's copy when it has received the moves on their way to it, and the server's
\* board when it has received those from p.
Replay(p)   == Played(cboard[p], toClient[p])
Expected(p) == Played(sboard, toServer[p])

\* As long as no recv has dropped anything and nobody has typed out of turn, glued or
\* with more behind the number (client-p2.c:114 takes that, client-p2.c:173 not), the
\* copies are the server's board but for the moves on their way: the echo of a
\* player's own move changes nothing, and a move that is refused is refused by all.
InStep == spoilt = {} /\ spc # "gone" =>
    \A p \in Players : cpc[p] # "gone" => Replay(p).board = Expected(p).board

\* The server waits for a player who waits for the server.
Stuck == /\ spc # "gone" /\ toServer[Current] = <<>>
         /\ cpc[Current] = "recv" /\ toClient[Current] = <<>>

\* That happens only when a line or a message was dropped: the ACKs of the messages
\* that were not TURN make the server ask again, and are never missed.
NeverStarved == "lost" \notin spoilt => ~Stuck

\* "When the game starts, there is `WAIT` and `TURN` which tell the client whose turn
\* it is [...] If they have `TURN` they can play a move" (README.md:28): the player
\* whose move the server waits for is not left waiting.
TurnReaches == ~Stuck

\* The server's board shows one game by the rules, and the results it sends are those
\* of that board; a draw only if turnCount happened to be 0 at the start.
Counted == sboard.turnCount = Cardinality({n \in 1..9 : sboard.board[n] # Empty})
Rules == INSTANCE TicTacToeRules WITH
    marks <- sboard.board,
    told  <- [p \in Players |-> IF verdict[p] = "drew" /\ ~Counted THEN "nothing" ELSE verdict[p]]
ServerByTheRules == Rules!Spec

\* When the server has ended, or a player whose turn it is, the server and both
\* clients end, but for a client at its prompt; or the turn passes with a move that
\* was still on its way.
AllEnd ==
    spc = "gone" \/ cpc[Current] = "gone" ~>
        \/ spc = "gone" /\ \A p \in Players : cpc[p] \in {"gone", "prompt"}
        \/ spc # "gone" /\ cpc[Current] # "gone"
=============================================================================
