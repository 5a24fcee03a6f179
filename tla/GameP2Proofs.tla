---------------------------- MODULE GameP2Proofs ----------------------------
(***************************************************************************)
(* Part 2 of assignment 1, for any lines the players may type, any number  *)
(* of them and anything that turnCount may hold when the game starts: the  *)
(* types, whose marks are on the boards, that a player is starved only by  *)
(* a recv that dropped something, that the server's board and results      *)
(* implement TicTacToeRules, and that the clients' copies keep in step.    *)
(***************************************************************************)
EXTENDS GameP2, TicTacToeProofs, SequenceTheorems, NaturalsInduction,
        WellFoundedInduction

(***************************************************************************)
(* What a recv leaves of a connection, and what several sends add to it.   *)
(***************************************************************************)
LEMMA Dropped ==
    ASSUME NEW S, NEW s \in Seq(S), NEW k \in 1..Len(s)
    PROVE  /\ Drop(s, k) \in Seq(S) /\ Len(Drop(s, k)) = Len(s) - k
           /\ \A i \in 1..(Len(s) - k) : Drop(s, k)[i] = s[k + i]
<1>1. Len(s) \in Nat /\ k \in Int /\ k + 1 \in Int /\ Len(s) \in Int
  BY LenProperties
<1>2. \A i \in (k + 1)..Len(s) : s[i] \in S
  <2>1. \A i \in (k + 1)..Len(s) : i \in 1..Len(s)
    BY <1>1
  <2> QED  BY <2>1, ElementOfSeq
<1>3. /\ SubSeq(s, k + 1, Len(s)) \in Seq(S)
      /\ Len(SubSeq(s, k + 1, Len(s))) =
           IF k + 1 <= Len(s) THEN Len(s) - (k + 1) + 1 ELSE 0
      /\ \A i \in 1..(Len(s) - (k + 1) + 1) : SubSeq(s, k + 1, Len(s))[i] = s[k + 1 + i - 1]
  BY <1>1, <1>2, SubSeqProperties
<1>4. \A i \in 1..(Len(s) - k) : k + 1 + i - 1 = k + i
  BY <1>1
<1>5. Len(s) - (k + 1) + 1 = Len(s) - k
  BY <1>1
<1>6. /\ Len(Drop(s, k)) = Len(s) - k
      /\ \A i \in 1..(Len(s) - k) : Drop(s, k)[i] = s[k + 1 + i - 1]
  <2>1. k + 1 <= Len(s) \/ 0 = Len(s) - k
    BY <1>1
  <2>2. Len(SubSeq(s, k + 1, Len(s))) = Len(s) - k
    BY <1>3, <1>5, <2>1
  <2>3. \A i \in 1..(Len(s) - k) : SubSeq(s, k + 1, Len(s))[i] = s[k + 1 + i - 1]
    BY <1>3, <1>5, Zenon
  <2> QED  BY <2>2, <2>3 DEF Drop
<1>7. ASSUME NEW i \in 1..(Len(s) - k) PROVE Drop(s, k)[i] = s[k + i]
  <2>1. Drop(s, k)[i] = s[k + 1 + i - 1] /\ k + 1 + i - 1 = k + i
    BY <1>4, <1>6
  <2> QED  BY <2>1, Zenon
<1>8. Drop(s, k) \in Seq(S)
  BY <1>3 DEF Drop
<1> QED  BY <1>6, <1>7, <1>8

\* What was behind the first k is still there, ...
LEMMA DropKeeps ==
    ASSUME NEW S, NEW s \in Seq(S), NEW k \in 1..Len(s), NEW i \in DOMAIN s, i > k
    PROVE  \E n \in DOMAIN Drop(s, k) : Drop(s, k)[n] = s[i]
<1>1. Len(s) \in Nat /\ i \in 1..Len(s)
  BY LenProperties
<1>2. Drop(s, k) \in Seq(S) /\ Len(Drop(s, k)) = Len(s) - k
  BY Dropped
<1>3. DOMAIN Drop(s, k) = 1..(Len(s) - k)
  BY <1>2, LenProperties
<1>4. i - k \in 1..(Len(s) - k) /\ k + (i - k) = i
  BY <1>1
<1>5. Drop(s, k)[i - k] = s[i]
  BY <1>4, Dropped
<1> QED  BY <1>3, <1>4, <1>5

\* ... and so is what two sequences had, when they are joined.
LEMMA ConcatKeeps ==
    ASSUME NEW S, NEW s \in Seq(S), NEW t \in Seq(S)
    PROVE  /\ s \o t \in Seq(S)
           /\ \A i \in DOMAIN s : i \in DOMAIN (s \o t) /\ (s \o t)[i] = s[i]
           /\ \A i \in DOMAIN t : \E n \in DOMAIN (s \o t) : (s \o t)[n] = t[i]
<1>1. /\ Len(s) \in Nat /\ DOMAIN s = 1..Len(s)
      /\ Len(t) \in Nat /\ DOMAIN t = 1..Len(t)
  BY LenProperties
<1>2. /\ s \o t \in Seq(S) /\ Len(s \o t) = Len(s) + Len(t)
      /\ \A i \in 1..(Len(s) + Len(t)) :
             (s \o t)[i] = IF i <= Len(s) THEN s[i] ELSE t[i - Len(s)]
  BY ConcatProperties
<1>3. DOMAIN (s \o t) = 1..(Len(s) + Len(t))
  BY <1>2, LenProperties
<1>4. ASSUME NEW i \in DOMAIN t
      PROVE  \E n \in DOMAIN (s \o t) : (s \o t)[n] = t[i]
  <2>1. /\ Len(s) + i \in 1..(Len(s) + Len(t)) /\ ~(Len(s) + i <= Len(s))
        /\ Len(s) + i - Len(s) = i
    BY <1>1
  <2>2. (s \o t)[Len(s) + i] = t[i]
    BY <1>2, <2>1
  <2> QED  BY <1>3, <2>1, <2>2
<1>5. ASSUME NEW i \in DOMAIN s
      PROVE  i \in DOMAIN (s \o t) /\ (s \o t)[i] = s[i]
  BY <1>1, <1>2, <1>3
<1> QED  BY <1>2, <1>4, <1>5

\* Sequences of one and of two.
LEMMA One ==
    ASSUME NEW S, NEW a \in S
    PROVE  <<a>> \in Seq(S) /\ DOMAIN <<a>> = {1} /\ <<a>>[1] = a
<1>1. DOMAIN <<a>> = 1..1 /\ 1..1 = {1}
  OBVIOUS
<1> QED  BY <1>1

LEMMA Two ==
    ASSUME NEW S, NEW a \in S, NEW b \in S
    PROVE  /\ <<a, b>> \in Seq(S) /\ Len(<<a, b>>) = 2
           /\ <<a, b>>[1] = a /\ <<a, b>>[2] = b /\ <<a, b>> # <<>>
OBVIOUS

LEMMA Four ==
    ASSUME NEW S, NEW a \in S, NEW b \in S, NEW c \in S, NEW d \in S
    PROVE  LET s == <<a, b>> \o <<c, d>>
           IN /\ s \in Seq(S) /\ Len(s) = 4
              /\ s[1] = a /\ s[2] = b /\ s[3] = c /\ s[4] = d
<1> DEFINE s == <<a, b>> \o <<c, d>>
<1>1. /\ s \in Seq(S) /\ Len(s) = Len(<<a, b>>) + Len(<<c, d>>)
      /\ \A i \in 1..(Len(<<a, b>>) + Len(<<c, d>>)) :
             s[i] = IF i <= Len(<<a, b>>) THEN <<a, b>>[i] ELSE <<c, d>>[i - Len(<<a, b>>)]
  BY Two, ConcatProperties
<1>2. Len(<<a, b>>) = 2 /\ Len(<<c, d>>) = 2
  BY Two
<1>3. /\ Len(s) = 4
      /\ \A i \in 1..4 : s[i] = IF i <= 2 THEN <<a, b>>[i] ELSE <<c, d>>[i - 2]
  BY <1>1, <1>2
<1>4. s[1] = a /\ s[2] = b /\ s[3] = <<c, d>>[1] /\ s[4] = <<c, d>>[2]
  BY <1>3
<1> QED  BY <1>1, <1>3, <1>4

(***************************************************************************)
(* What server2_sendGameState, called several times, does.                 *)
(***************************************************************************)
\* Messages, of a kind, to the players.
Mail(S) == Seq([to : Players, msg : S])

LEMMA MailFacts ==
    ASSUME NEW S, NEW msgs \in Mail(S)
    PROVE  /\ Len(msgs) \in Nat
           /\ \A i \in 1..Len(msgs) : msgs[i].to \in Players /\ msgs[i].msg \in S
<1>1. msgs \in Seq([to : Players, msg : S])
  BY DEF Mail
<1>2. \A i \in 1..Len(msgs) : msgs[i] \in [to : Players, msg : S]
  BY <1>1, ElementOfSeq
<1> QED  BY <1>1, <1>2, LenProperties

\* What a connection has grown by.
Grown(msgs, j, p) ==
    toClient[p] \o Piece(msgs, j, p, 1) \o Piece(msgs, j, p, 2)
                \o Piece(msgs, j, p, 3) \o Piece(msgs, j, p, 4)

LEMMA Grows ==
    ASSUME NEW S, NEW msgs \in Mail(S), NEW j \in 0..Len(msgs), NEW p,
           toClient[p] \in Seq(S)
    PROVE  /\ Grown(msgs, j, p) \in Seq(S)
           /\ \A i \in 1..4 : Sent(msgs, j, p, i) =>
                  \E n \in DOMAIN Grown(msgs, j, p) : Grown(msgs, j, p)[n] = msgs[i].msg
<1> DEFINE P(i) == Piece(msgs, j, p, i)
           G1 == toClient[p] \o P(1)
           G2 == G1 \o P(2)
           G3 == G2 \o P(3)
           G4 == G3 \o P(4)
           Has(s, m) == \E n \in DOMAIN s : s[n] = m
<1>0. Grown(msgs, j, p) = G4
  BY DEF Grown
<1>1. ASSUME NEW i \in 1..4
      PROVE  /\ P(i) \in Seq(S)
             /\ Sent(msgs, j, p, i) => Has(P(i), msgs[i].msg)
  <2>1. CASE Sent(msgs, j, p, i)
    <3>1. i \in 1..Len(msgs)
      BY <2>1, MailFacts DEF Sent
    <3>2. msgs[i].msg \in S /\ P(i) = <<msgs[i].msg>>
      BY <2>1, <3>1, MailFacts DEF Piece
    <3>3. /\ <<msgs[i].msg>> \in Seq(S) /\ DOMAIN <<msgs[i].msg>> = {1}
          /\ <<msgs[i].msg>>[1] = msgs[i].msg
      BY <3>2, One
    <3> QED  BY <3>2, <3>3
  <2>2. CASE ~Sent(msgs, j, p, i)
    <3>1. P(i) = <<>>
      BY <2>2 DEF Piece
    <3> QED  BY <2>2, <3>1, EmptySeq
  <2> QED  BY <2>1, <2>2
<1> HIDE DEF P
\* One piece behind another: nothing is lost and the piece is there.
<1>2. ASSUME NEW s \in Seq(S), NEW i \in 1..4
      PROVE  /\ s \o P(i) \in Seq(S)
             /\ \A n \in DOMAIN s : n \in DOMAIN (s \o P(i)) /\ (s \o P(i))[n] = s[n]
             /\ Sent(msgs, j, p, i) => Has(s \o P(i), msgs[i].msg)
  <2>1. P(i) \in Seq(S)
    BY <1>1
  <2> HIDE DEF Has
  <2>2. /\ s \o P(i) \in Seq(S)
        /\ \A n \in DOMAIN s : n \in DOMAIN (s \o P(i)) /\ (s \o P(i))[n] = s[n]
        /\ \A n \in DOMAIN P(i) : \E l \in DOMAIN (s \o P(i)) : (s \o P(i))[l] = P(i)[n]
    BY <2>1, ConcatKeeps
  <2>3. Has(P(i), msgs[i].msg) => Has(s \o P(i), msgs[i].msg)
    BY <2>2 DEF Has
  <2> QED  BY <1>1, <2>2, <2>3
<1>3. /\ 1 \in 1..4 /\ 2 \in 1..4 /\ 3 \in 1..4 /\ 4 \in 1..4
      /\ \A i \in 1..4 : i = 1 \/ i = 2 \/ i = 3 \/ i = 4
  OBVIOUS
<1>4. /\ G1 \in Seq(S)
      /\ Sent(msgs, j, p, 1) => Has(G1, msgs[1].msg)
  BY <1>2, <1>3
<1> HIDE DEF G1
<1>5. /\ G2 \in Seq(S)
      /\ \A n \in DOMAIN G1 : n \in DOMAIN G2 /\ G2[n] = G1[n]
      /\ Sent(msgs, j, p, 2) => Has(G2, msgs[2].msg)
  BY <1>2, <1>3, <1>4
<1> HIDE DEF G2
<1>6. /\ G3 \in Seq(S)
      /\ \A n \in DOMAIN G2 : n \in DOMAIN G3 /\ G3[n] = G2[n]
      /\ Sent(msgs, j, p, 3) => Has(G3, msgs[3].msg)
  BY <1>2, <1>3, <1>5
<1> HIDE DEF G3
<1>7. /\ G4 \in Seq(S)
      /\ \A n \in DOMAIN G3 : n \in DOMAIN G4 /\ G4[n] = G3[n]
      /\ Sent(msgs, j, p, 4) => Has(G4, msgs[4].msg)
  BY <1>2, <1>3, <1>6
<1> HIDE DEF G4
<1>8. \A m : /\ Has(G1, m) => Has(G2, m)
             /\ Has(G2, m) => Has(G3, m)
             /\ Has(G3, m) => Has(G4, m)
  BY <1>5, <1>6, <1>7
<1>9. \A i \in 1..4 : Sent(msgs, j, p, i) => Has(G4, msgs[i].msg)
  <2> HIDE DEF Has
  <2> QED  BY <1>3, <1>4, <1>5, <1>6, <1>7, <1>8
<1> QED  BY <1>0, <1>7, <1>9

\* The server goes on only if all was sent, ...
LEMMA SendAllGoesOn ==
    ASSUME NEW msgs, NEW after, NEW unread, SendAll(msgs, after, unread)
    PROVE  \/ Exit
           \/ /\ after # "gone" /\ spc' = after
              /\ toServer' = [toServer EXCEPT ![Current] = unread]
BY DEF SendAll

\* ... and then every client that runs has got its messages, ...
LEMMA SendAllSends ==
    ASSUME NEW S, NEW msgs \in Mail(S), Len(msgs) <= 4, NEW after, NEW unread,
           SendAll(msgs, after, unread), \A p \in Players : toClient[p] \in Seq(S)
    PROVE  /\ toClient' \in [Players -> Seq(S)]
           /\ \/ Exit
              \/ \A i \in 1..Len(msgs) : cpc[msgs[i].to] # "gone" =>
                    LET s == toClient'[msgs[i].to]
                    IN \E n \in DOMAIN s : s[n] = msgs[i].msg
<1>1. PICK j \in 0..Len(msgs) :
         /\ toClient' = [p \in Players |-> Grown(msgs, j, p)]
         /\ Exit \/ ~(j < Len(msgs))
  BY DEF SendAll, Grown
<1>2. Len(msgs) \in Nat /\ \A i \in 1..Len(msgs) : msgs[i].to \in Players
  BY MailFacts
<1>3. \A p \in Players :
         /\ Grown(msgs, j, p) \in Seq(S)
         /\ \A i \in 1..4 : Sent(msgs, j, p, i) =>
                \E n \in DOMAIN Grown(msgs, j, p) : Grown(msgs, j, p)[n] = msgs[i].msg
  BY Grows
<1>4. toClient' \in [Players -> Seq(S)]
  BY <1>1, <1>3
<1>5. ASSUME ~Exit, NEW i \in 1..Len(msgs), cpc[msgs[i].to] # "gone"
      PROVE  LET s == toClient'[msgs[i].to]
             IN \E n \in DOMAIN s : s[n] = msgs[i].msg
  <2>1. j = Len(msgs) /\ i <= j /\ i \in 1..4
    BY <1>1, <1>2, <1>5
  <2>2. Sent(msgs, j, msgs[i].to, i)
    BY <1>5, <2>1 DEF Sent
  <2>3. toClient'[msgs[i].to] = Grown(msgs, j, msgs[i].to)
    BY <1>1, <1>2
  <2> QED  BY <1>2, <1>3, <2>1, <2>2, <2>3
<1> QED  BY <1>4, <1>5

\* ... and a player is told a result only by a message that says so.
Says(m, result) == \/ m.word = "WIN" /\ result = "won"
                   \/ m.word = "LOSE" /\ result = "lost"
                   \/ m.word = "DRAW" /\ result = "drew"

LEMMA SendAllTells ==
    ASSUME NEW msgs, Len(msgs) \in Nat, NEW after, NEW unread, SendAll(msgs, after, unread),
           NEW p \in Players
    PROVE  \/ verdict'[p] = verdict[p]
           \/ \E i \in 1..Len(msgs) : msgs[i].to = p /\ Says(msgs[i].msg, verdict'[p])
<1>1. PICK j \in 0..Len(msgs) :
         verdict'[p] = CASE Told(msgs, j, p, "WIN")  -> "won"
                         [] Told(msgs, j, p, "LOSE") -> "lost"
                         [] Told(msgs, j, p, "DRAW") -> "drew"
                         [] OTHER -> verdict[p]
  BY DEF SendAll
<1>2. ASSUME NEW w, Told(msgs, j, p, w)
      PROVE  \E i \in 1..Len(msgs) : msgs[i].to = p /\ msgs[i].msg.word = w
  <2>1. PICK i \in 1..4 : i <= j /\ msgs[i].to = p /\ msgs[i].msg.word = w
    BY <1>2 DEF Told, Sent
  <2>2. i \in 1..Len(msgs)
    BY <2>1
  <2> QED  BY <2>1, <2>2
<1>3. \/ verdict'[p] = verdict[p]
      \/ Told(msgs, j, p, "WIN") /\ verdict'[p] = "won"
      \/ Told(msgs, j, p, "LOSE") /\ verdict'[p] = "lost"
      \/ Told(msgs, j, p, "DRAW") /\ verdict'[p] = "drew"
  BY <1>1
<1> QED  BY <1>2, <1>3 DEF Says

(***************************************************************************)
(* The server's answer to what it has received.                            *)
(***************************************************************************)
ClientMsg == [word : {"TURN", "WAIT", "WIN", "LOSE", "DRAW", "MARK", "JUNK"}, move : Nat]
ServerMsg == {Ack, Rest} \cup Line

\* What a client can be sent but for the move of the other.
Standard == {Msg(w) : w \in {"TURN", "WAIT", "WIN", "LOSE", "DRAW", "JUNK"}}

LEMMA Switch ==
    ASSUME NEW p \in Players
    PROVE  /\ ttt_switchPlayer(p) \in Players /\ ttt_switchPlayer(p) # p
           /\ Players = {p, ttt_switchPlayer(p)} /\ "X" \in Players /\ "O" \in Players
BY DEF Players, ttt_switchPlayer

LEMMA ToFields ==
    ASSUME NEW p, NEW m
    PROVE  To(p, m).to = p /\ To(p, m).msg = m
BY DEF To

LEMMA TurnMail ==
    ASSUME NEW S, Standard \subseteq S, NEW p \in Players
    PROVE  /\ Turn(p) \in Mail(S) /\ Len(Turn(p)) = 2 /\ Turn(p) # <<>>
           /\ Turn(p)[1] = To(p, Msg("TURN"))
           /\ Turn(p)[2] = To(ttt_switchPlayer(p), Msg("WAIT"))
<1>1. Msg("TURN") \in S /\ Msg("WAIT") \in S
  BY DEF Standard
<1>2. /\ To(p, Msg("TURN")) \in [to : Players, msg : S]
      /\ To(ttt_switchPlayer(p), Msg("WAIT")) \in [to : Players, msg : S]
  BY <1>1, Switch DEF To
<1> QED  BY <1>2, Two DEF Turn, Mail

\* A win is told to both, ...
Winner(p) == IF p = "X" THEN <<To("X", Msg("WIN")), To("O", Msg("LOSE"))>>
             ELSE <<To("X", Msg("LOSE")), To("O", Msg("WIN"))>>
Drawn     == <<To("X", Msg("DRAW")), To("O", Msg("DRAW"))>>

\* ... and so is a draw.
LEMMA ResultCases ==
    ASSUME NEW t
    PROVE  \/ ttt_checkWin(t, "X") /\ Results(t) = Winner("X")
           \/ ~ttt_checkWin(t, "X") /\ ttt_checkWin(t, "O") /\ Results(t) = Winner("O")
           \/ /\ ~ttt_checkWin(t, "X") /\ ~ttt_checkWin(t, "O")
              /\ ttt_isDraw(t) /\ Results(t) = Drawn
           \/ /\ ~ttt_checkWin(t, "X") /\ ~ttt_checkWin(t, "O")
              /\ ~ttt_isDraw(t) /\ Results(t) = <<>>
BY DEF Results, Winner, Drawn

\* What goes out after a move: the move to both, and then r.
Reply(m, r) == <<To(Opponent, m), To(Current, m)>> \o r

LEMMA ReplyMail ==
    ASSUME NEW S, Standard \subseteq S, Current \in Players,
           NEW m \in S, NEW p \in Players, NEW r \in {Turn(p), Winner(p), Drawn}
    PROVE  /\ Reply(m, r) \in Mail(S) /\ Len(Reply(m, r)) = 4
           /\ Reply(m, r)[1] = To(Opponent, m) /\ Reply(m, r)[2] = To(Current, m)
           /\ Reply(m, r)[3] = r[1] /\ Reply(m, r)[4] = r[2]
<1> DEFINE T == [to : Players, msg : S]
<1>1. To(Opponent, m) \in T /\ To(Current, m) \in T
  BY Switch DEF To, Opponent
<1>2. \E a, b \in T : r = <<a, b>>
  <2>1. \A q \in Players, w \in {"TURN", "WAIT", "WIN", "LOSE", "DRAW"} : To(q, Msg(w)) \in T
    BY DEF To, Standard
  <2>2. "X" \in Players /\ "O" \in Players /\ ttt_switchPlayer(p) \in Players
    BY Switch
  <2>3. CASE r = Turn(p)
    BY <2>1, <2>2, <2>3 DEF Turn
  <2>4. CASE r = Winner(p)
    BY <2>1, <2>2, <2>4 DEF Winner
  <2>5. CASE r = Drawn
    BY <2>1, <2>2, <2>5 DEF Drawn
  <2> QED  BY <2>3, <2>4, <2>5
<1>3. PICK a, b \in T : r = <<a, b>>
  BY <1>2
<1> HIDE DEF T
<1>4. LET q == <<To(Opponent, m), To(Current, m)>> \o <<a, b>>
      IN /\ q \in Seq(T) /\ Len(q) = 4
         /\ q[1] = To(Opponent, m) /\ q[2] = To(Current, m) /\ q[3] = a /\ q[4] = b
  BY <1>1, Four
<1>5. r[1] = a /\ r[2] = b
  BY <1>3
<1> QED  BY <1>3, <1>4, <1>5 DEF Reply, Mail, T

\* The three cases of ReceiveMark: no move, a move that does not end the game, and
\* one that does.
Asks(k) == /\ ~IsMove(Head(toServer[Current])) /\ sboard' = sboard
           /\ SendAll(Turn(Current), "ack", Drop(toServer[Current], k))
Plays(k) == /\ IsMove(Head(toServer[Current]))
            /\ sboard' = ttt_makeMove(sboard, Head(toServer[Current]).move)
GoesOn(k) ==
    /\ Plays(k) /\ Results(sboard') = <<>>
    /\ SendAll(Reply(Echo(toServer[Current], k), Turn(sboard'.currentPlayer)), "ack",
               Drop(toServer[Current], k))
Ends(k) ==
    /\ Plays(k) /\ Results(sboard') # <<>>
    /\ SendAll(Reply(Echo(toServer[Current], k), Results(sboard')), "gone",
               Drop(toServer[Current], k))

LEMMA ReceiveMarkCases ==
    ASSUME NEW k, ReceiveMark(k)
    PROVE  /\ spc = "move" /\ k \in 1..Len(toServer[Current])
           /\ UNCHANGED <<cboard, cpc, typed>>
           /\ Asks(k) \/ GoesOn(k) \/ Ends(k)
BY DEF ReceiveMark, Asks, Plays, GoesOn, Ends, Reply, Current

\* What any of the three sends.
LEMMA ReceiveMarkSends ==
    ASSUME NEW S, Standard \subseteq S, \A p \in Players : toClient[p] \in Seq(S),
           NEW k, Asks(k) \/ GoesOn(k) \/ Ends(k),
           Head(toServer[Current]).word = "MARK" => Head(toServer[Current]) \in S,
           Current \in Players, sboard'.currentPlayer \in Players
    PROVE  toClient' \in [Players -> Seq(S)]
<1>1. CASE Asks(k)
  <2> DEFINE msgs == Turn(Current)
  <2>1. msgs \in Mail(S) /\ Len(msgs) = 2
    BY TurnMail
  <2>2. Len(msgs) <= 4
    BY <2>1
  <2>3. SendAll(msgs, "ack", Drop(toServer[Current], k))
    BY <1>1 DEF Asks
  <2> HIDE DEF msgs
  <2> QED  BY <2>1, <2>2, <2>3, SendAllSends, Zenon
<1>2. ASSUME Plays(k) PROVE Echo(toServer[Current], k) \in S
  BY <1>2 DEF Plays, Echo, Standard
<1>3. CASE GoesOn(k)
  <2> DEFINE msgs == Reply(Echo(toServer[Current], k), Turn(sboard'.currentPlayer))
  <2>1. msgs \in Mail(S) /\ Len(msgs) = 4
    BY <1>2, <1>3, ReplyMail DEF GoesOn
  <2>2. SendAll(msgs, "ack", Drop(toServer[Current], k))
    BY <1>3 DEF GoesOn
  <2>3. Len(msgs) <= 4
    BY <2>1
  <2> HIDE DEF msgs
  <2> QED  BY <2>1, <2>2, <2>3, SendAllSends, Zenon
<1>4. CASE Ends(k)
  <2> DEFINE msgs == Reply(Echo(toServer[Current], k), Results(sboard'))
  <2>1. \E p \in Players : Results(sboard') \in {Turn(p), Winner(p), Drawn}
    <3>1. "X" \in Players /\ "O" \in Players /\ Results(sboard') # <<>>
      BY <1>4, Switch DEF Ends
    <3> QED  BY <3>1, ResultCases
  <2>2. msgs \in Mail(S) /\ Len(msgs) = 4
    BY <1>2, <1>4, <2>1, ReplyMail, SMTT(30) DEF Ends
  <2>3. SendAll(msgs, "gone", Drop(toServer[Current], k))
    BY <1>4 DEF Ends
  <2>4. Len(msgs) <= 4
    BY <2>2
  <2> HIDE DEF msgs
  <2> QED  BY <2>2, <2>3, <2>4, SendAllSends, Zenon
<1> QED  BY <1>1, <1>3, <1>4

(***************************************************************************)
(* Types.  turnCount starts with whatever malloc returned; the server's    *)
(* board is that of a game in turns once its marks are counted anew.       *)
(***************************************************************************)
Game == [board : [1..9 -> Players \cup {Empty}], currentPlayer : Players, turnCount : Nat]
Recount(t) == [board |-> t.board, currentPlayer |-> t.currentPlayer,
               turnCount |-> Cardinality(Cells(t, "X") \cup Cells(t, "O"))]

TypeInv ==
    /\ sboard \in Game /\ InTurns(Recount(sboard))
    /\ cboard \in [Players -> TicTacToeGame] /\ \A p \in Players : InTurns(cboard[p])
    /\ spc \in {"ack", "move", "gone"} /\ cpc \in [Players -> {"recv", "prompt", "gone"}]
    /\ toClient \in [Players -> Seq(ClientMsg)] /\ toServer \in [Players -> Seq(ServerMsg)]
    /\ verdict \in [Players -> {"nothing", "won", "lost", "drew"}]
    /\ typed \in [Players -> Seq(Line)] /\ spoilt \subseteq {"lost", "mistyped"}

LEMMA TypesImply == TypeInv => TypeOK
<1> SUFFICES ASSUME TypeInv PROVE TypeOK
  OBVIOUS
<1>1. /\ sboard.board \in [1..9 -> Players \cup {Empty}] /\ sboard.currentPlayer \in Players
      /\ sboard.turnCount \in Nat
  BY DEF TypeInv, Game
<1> QED  BY <1>1 DEF TypeInv, TypeOK, ClientMsg, ServerMsg

LEMMA ServerMoves ==
    ASSUME NEW t \in Game, InTurns(Recount(t)), NEW n
    PROVE  LET u == ttt_makeMove(t, n)
           IN /\ u \in Game /\ InTurns(Recount(u))
              /\ Legal(t, n) =>
                    /\ u.board = [t.board EXCEPT ![n] = t.currentPlayer]
                    /\ u.turnCount = t.turnCount + 1
                    /\ Recount(u).turnCount = Recount(t).turnCount + 1
                    /\ n \in 1..9 /\ t.board[n] = Empty
              /\ ~Legal(t, n) => u = t
<1> DEFINE u == ttt_makeMove(t, n)
           r == Recount(t)
           v == ttt_makeMove(r, n)
<1>1. CASE ~Legal(t, n)
  BY <1>1 DEF ttt_makeMove
<1>2. CASE Legal(t, n)
  <2>1. /\ r.board = t.board /\ r.currentPlayer = t.currentPlayer
        /\ t.currentPlayer \in Players /\ t.turnCount \in Nat
        /\ t.board \in [1..9 -> Players \cup {Empty}]
    BY DEF Recount, Game
  <2>2. Legal(r, n) /\ n \in 1..9 /\ t.board[n] = Empty
    BY <1>2, <2>1 DEF Legal
  <2>3. u = [board |-> [t.board EXCEPT ![n] = t.currentPlayer],
             currentPlayer |-> ttt_switchPlayer(t.currentPlayer),
             turnCount |-> t.turnCount + 1]
    BY <1>2 DEF ttt_makeMove
  <2>4. v = [board |-> [t.board EXCEPT ![n] = t.currentPlayer],
             currentPlayer |-> ttt_switchPlayer(t.currentPlayer),
             turnCount |-> r.turnCount + 1]
    BY <2>1, <2>2 DEF ttt_makeMove
  <2> HIDE DEF r
  <2>5. InTurns(v) /\ v.turnCount = r.turnCount + 1
    <3>1. InTurns(r)
      BY DEF r
    <3> QED  BY <2>2, <3>1, MakeMove
  <2>6. Cells(u, "X") = Cells(v, "X") /\ Cells(u, "O") = Cells(v, "O")
    BY <2>3, <2>4 DEF Cells
  <2>7. Cardinality(Cells(v, "X") \cup Cells(v, "O")) = v.turnCount
    BY <2>5, MarksCounted
  <2>8. Recount(u) = v
    <3>1. Cardinality(Cells(u, "X") \cup Cells(u, "O")) = r.turnCount + 1
      BY <2>5, <2>6, <2>7, Zenon
    <3>2. /\ u.board = [t.board EXCEPT ![n] = t.currentPlayer]
          /\ u.currentPlayer = ttt_switchPlayer(t.currentPlayer)
      BY <2>3
    <3> QED  BY <2>4, <3>1, <3>2, Zenon DEF Recount
  <2>9. u \in Game
    <3>1. ttt_switchPlayer(t.currentPlayer) \in Players
      BY <2>1, Switch
    <3>2. [t.board EXCEPT ![n] = t.currentPlayer] \in [1..9 -> Players \cup {Empty}]
      BY <2>1, <2>2
    <3>3. t.turnCount + 1 \in Nat
      BY <2>1
    <3> QED  BY <2>3, <3>1, <3>2, <3>3 DEF Game
  <2> QED  BY <1>2, <2>2, <2>3, <2>5, <2>8, <2>9 DEF r
<1> QED  BY <1>1, <1>2

LEMMA NewGame ==
    ASSUME NEW n \in Nat
    PROVE  LET t == [ttt_new EXCEPT !.turnCount = n]
           IN /\ t \in Game /\ InTurns(Recount(t)) /\ t.currentPlayer = "X"
              /\ t.turnCount = n /\ Recount(t).turnCount = 0
              /\ t.board = [c \in 1..9 |-> Empty]
<1> DEFINE t == [ttt_new EXCEPT !.turnCount = n]
<1>1. t = [board |-> [c \in 1..9 |-> Empty], currentPlayer |-> "X", turnCount |-> n]
  BY DEF ttt_new
<1>2. t \in Game
  BY <1>1 DEF Game, Players
<1>3. Cells(t, "X") = Cells(ttt_new, "X") /\ Cells(t, "O") = Cells(ttt_new, "O")
  BY <1>1 DEF Cells, ttt_new
<1>4. InTurns(ttt_new) /\ ttt_new.turnCount = 0
  BY NewBoard DEF ttt_new
<1>5. Cardinality(Cells(ttt_new, "X") \cup Cells(ttt_new, "O")) = 0
  BY <1>4, MarksCounted
<1>6. Recount(t) = ttt_new
  BY <1>1, <1>3, <1>5 DEF Recount, ttt_new
<1> QED  BY <1>1, <1>2, <1>4, <1>6

LEMMA LineTypes ==
    ASSUME TypeInv, NEW p \in Players, NEW line \in Allowed(p)
    PROVE  line \in Line /\ IsLine(line) /\ Len(typed[p]) \in Nat
<1>1. typed[p] \in Seq(Line) /\ Lines[p] \in Seq(SUBSET Line)
  BY GameAssumption DEF TypeInv, Line
<1>2. Len(typed[p]) \in Nat /\ Len(Lines[p]) \in Nat
  BY <1>1, LenProperties
<1>3. Len(typed[p]) < Len(Lines[p]) /\ line \in Lines[p][Len(typed[p]) + 1]
  BY DEF Allowed
<1>4. Len(typed[p]) + 1 \in 1..Len(Lines[p])
  BY <1>2, <1>3
<1>5. Lines[p][Len(typed[p]) + 1] \in SUBSET Line
  BY <1>1, <1>4, ElementOfSeq
<1>6. line \in Line
  BY <1>3, <1>5
<1> QED  BY <1>2, <1>6 DEF Line, IsLine

LEMMA InitTypes == Init => TypeInv
<1> SUFFICES ASSUME Init PROVE TypeInv
  OBVIOUS
<1>1. PICK n \in StartCount : sboard = [ttt_new EXCEPT !.turnCount = n]
  BY DEF Init
<1>2. n \in Nat
  BY GameAssumption
<1>3. sboard \in Game /\ InTurns(Recount(sboard))
  BY <1>1, <1>2, NewGame
<1>4. /\ cboard \in [Players -> TicTacToeGame] /\ \A p \in Players : InTurns(cboard[p])
  BY NewBoard DEF Init, InTurns
<1>5. toClient \in [Players -> Seq(ClientMsg)]
  <2>1. ASSUME NEW p \in Players
        PROVE  <<Msg(IF p = Current THEN "TURN" ELSE "WAIT")>> \in Seq(ClientMsg)
    <3>1. Msg(IF p = Current THEN "TURN" ELSE "WAIT") \in ClientMsg
      BY DEF Msg, ClientMsg
    <3> QED  BY <3>1, One
  <2> QED  BY <2>1 DEF Init
<1>6. toServer \in [Players -> Seq(ServerMsg)] /\ typed \in [Players -> Seq(Line)]
  BY EmptySeq DEF Init
<1>7. /\ spc \in {"ack", "move", "gone"} /\ cpc \in [Players -> {"recv", "prompt", "gone"}]
      /\ verdict \in [Players -> {"nothing", "won", "lost", "drew"}]
      /\ spoilt \subseteq {"lost", "mistyped"}
  BY DEF Init
<1> QED  BY <1>3, <1>4, <1>5, <1>6, <1>7 DEF TypeInv

LEMMA SpoilType ==
    ASSUME TypeInv, NEW what \in {"lost", "mistyped"}, NEW bad, Spoil(what, bad)
    PROVE  spoilt' \subseteq {"lost", "mistyped"}
BY DEF TypeInv, Spoil

\* A receive of the server leaves less, but for what the buffer cut, or nothing.
LEMMA ServerDrops ==
    ASSUME TypeInv, NEW p \in Players, NEW k \in 1..Len(toServer[p])
    PROVE  /\ toServer[p] \in Seq(ServerMsg) /\ Head(toServer[p]) \in ServerMsg
           /\ Head(toServer[p]) = toServer[p][1] /\ 1 \in DOMAIN toServer[p]
           /\ Drop(toServer[p], k) \in Seq(ServerMsg)
           /\ <<Rest>> \o Drop(toServer[p], k) \in Seq(ServerMsg)
<1>1. toServer[p] \in Seq(ServerMsg)
  BY DEF TypeInv
<1>2. Drop(toServer[p], k) \in Seq(ServerMsg)
  BY <1>1, Dropped
<1>3. <<Rest>> \in Seq(ServerMsg)
  BY One DEF ServerMsg
<1>4. toServer[p] # <<>> /\ Len(toServer[p]) \in Nat
  BY <1>1, EmptySeq, LenProperties
<1>5. Head(toServer[p]) = toServer[p][1] /\ 1 \in 1..Len(toServer[p])
  BY <1>1, <1>4
<1> QED  BY <1>1, <1>2, <1>3, <1>4, <1>5, ConcatKeeps, HeadTailProperties, LenProperties

LEMMA ReceiveAckTypes == ASSUME TypeInv, ReceiveAck PROVE TypeInv'
<1> DEFINE s == toServer[Current]
<1>1. Current \in Players
  BY DEF TypeInv, Game, Current
<1>2. /\ spc' = "move"
      /\ UNCHANGED <<sboard, cboard, cpc, toClient, verdict, typed>>
      /\ \/ UNCHANGED <<toServer, spoilt>>
         \/ \E k \in 1..Len(s) : \E bad :
               /\ toServer' = [toServer EXCEPT ![Current] = Drop(s, k)]
               /\ Spoil("lost", bad)
         \/ \E k \in 1..Len(s) : \E bad :
               /\ toServer' = [toServer EXCEPT ![Current] = <<Rest>> \o Drop(s, k)]
               /\ Spoil("lost", bad)
  BY Zenon DEF ReceiveAck
<1>3. toServer' \in [Players -> Seq(ServerMsg)] /\ spoilt' \subseteq {"lost", "mistyped"}
  <2>1. CASE UNCHANGED <<toServer, spoilt>>
    BY <2>1 DEF TypeInv
  <2>2. ASSUME NEW k \in 1..Len(s), NEW bad, Spoil("lost", bad),
               \/ toServer' = [toServer EXCEPT ![Current] = Drop(s, k)]
               \/ toServer' = [toServer EXCEPT ![Current] = <<Rest>> \o Drop(s, k)]
        PROVE  toServer' \in [Players -> Seq(ServerMsg)] /\ spoilt' \subseteq {"lost", "mistyped"}
    <3>1. Drop(s, k) \in Seq(ServerMsg) /\ <<Rest>> \o Drop(s, k) \in Seq(ServerMsg)
      BY <1>1, ServerDrops
    <3>2. toServer' \in [Players -> Seq(ServerMsg)]
      BY <1>1, <2>2, <3>1 DEF TypeInv
    <3> QED  BY <2>2, <3>2, SpoilType
  <2> QED  BY <1>2, <2>1, <2>2
<1> QED  BY <1>2, <1>3 DEF TypeInv

LEMMA ExitTypes ==
    ASSUME TypeInv, Exit
    PROVE  spc' = "gone" /\ toServer' \in [Players -> Seq(ServerMsg)]
BY EmptySeq DEF Exit

LEMMA ReceiveMarkTypes == ASSUME TypeInv, NEW k, ReceiveMark(k) PROVE TypeInv'
<1> DEFINE s == toServer[Current]
<1>1. /\ Current \in Players /\ k \in 1..Len(s) /\ UNCHANGED <<cboard, cpc, typed>>
      /\ Asks(k) \/ GoesOn(k) \/ Ends(k)
  BY ReceiveMarkCases DEF TypeInv, Game, Current
<1>2. sboard' \in Game /\ InTurns(Recount(sboard')) /\ sboard'.currentPlayer \in Players
  <2>1. sboard' = sboard \/ \E n : sboard' = ttt_makeMove(sboard, n)
    BY <1>1 DEF Asks, GoesOn, Ends, Plays
  <2>2. sboard' \in Game /\ InTurns(Recount(sboard'))
    <3>1. \A n : /\ ttt_makeMove(sboard, n) \in Game
                 /\ InTurns(Recount(ttt_makeMove(sboard, n)))
      BY ServerMoves DEF TypeInv
    <3> QED  BY <2>1, <3>1 DEF TypeInv
  <2> QED  BY <2>2 DEF Game
<1>3. toClient' \in [Players -> Seq(ClientMsg)]
  <2>1. Head(s) \in ServerMsg
    BY <1>1, ServerDrops
  <2>2. Head(s).word = "MARK" => Head(s) \in ClientMsg
    BY <2>1 DEF ServerMsg, Line, ClientMsg, Ack, Rest, Msg
  <2>3. Standard \subseteq ClientMsg
    BY DEF Standard, Msg, ClientMsg
  <2>4. \A p \in Players : toClient[p] \in Seq(ClientMsg)
    BY DEF TypeInv
  <2> QED  BY <1>1, <1>2, <2>2, <2>3, <2>4, ReceiveMarkSends
<1>4. PICK msgs, after : SendAll(msgs, after, Drop(s, k)) /\ after \in {"ack", "gone"}
  BY <1>1 DEF Asks, GoesOn, Ends
<1>5. toServer' \in [Players -> Seq(ServerMsg)] /\ spc' \in {"ack", "move", "gone"}
  <2>1. Exit \/ /\ spc' = after
                /\ toServer' = [toServer EXCEPT ![Current] = Drop(s, k)]
    BY <1>4, SendAllGoesOn
  <2>2. Drop(s, k) \in Seq(ServerMsg)
    BY <1>1, ServerDrops
  <2> QED  BY <1>1, <1>4, <2>1, <2>2, ExitTypes DEF TypeInv
<1>6. verdict' \in [Players -> {"nothing", "won", "lost", "drew"}]
  <2>1. verdict' = [p \in Players |-> verdict'[p]]
    BY <1>4 DEF SendAll
  <2>2. ASSUME NEW p \in Players PROVE verdict'[p] \in {verdict[p], "won", "lost", "drew"}
    BY <1>4 DEF SendAll
  <2> QED  BY <2>1, <2>2 DEF TypeInv
<1>7. spoilt' \subseteq {"lost", "mistyped"}
  <2>1. \E bad : Spoil("lost", bad)
    BY DEF ReceiveMark
  <2> QED  BY <2>1, SpoilType
<1> QED  BY <1>1, <1>2, <1>3, <1>5, <1>6, <1>7 DEF TypeInv

LEMMA LeaveTypes ==
    ASSUME TypeInv, NEW p \in Players, Leave(p)
    PROVE  /\ cpc' \in [Players -> {"recv", "prompt", "gone"}]
           /\ toClient' \in [Players -> Seq(ClientMsg)]
BY EmptySeq DEF TypeInv, Leave

LEMMA SendTypes ==
    ASSUME TypeInv, NEW p \in Players, NEW m \in ServerMsg, Send(p, <<m>>)
    PROVE  toServer' \in [Players -> Seq(ServerMsg)]
<1>1. toServer[p] \in Seq(ServerMsg) /\ <<m>> \in Seq(ServerMsg)
  BY One DEF TypeInv
<1>2. toServer[p] \o <<m>> \in Seq(ServerMsg)
  BY <1>1, ConcatKeeps
<1> QED  BY <1>2 DEF Send, TypeInv

\* A client's receive: nothing is sent, or an ACK; it leaves, or goes to its prompt,
\* or to another recv.
LEMMA ReceiveCases ==
    ASSUME TypeInv, NEW p \in Players, NEW k, Receive(p, k)
    PROVE  LET s == toClient[p]
           IN /\ cpc[p] = "recv" /\ k \in 1..Len(s) /\ Spoil("lost", k > 1)
              /\ s \in Seq(ClientMsg) /\ Drop(s, k) \in Seq(ClientMsg)
              /\ Head(s) = s[1] /\ Head(s) \in ClientMsg
              /\ cboard' = IF s[1].word = "MARK"
                           THEN [cboard EXCEPT ![p] = ttt_makeMove(@, s[1].move)] ELSE cboard
              /\ UNCHANGED toServer \/ Send(p, <<Ack>>)
              /\ \/ Leave(p)
                 \/ s[1].word = "TURN" /\ Stay(p, "prompt", Drop(s, k))
                 \/ s[1].word # "TURN" /\ Stay(p, "recv", Drop(s, k)) /\ Send(p, <<Ack>>)
              /\ UNCHANGED <<sboard, spc, verdict, typed>>
<1>1. toClient[p] \in Seq(ClientMsg) /\ k \in 1..Len(toClient[p])
  BY DEF Receive, TypeInv
<1>2. toClient[p] # <<>> /\ Len(toClient[p]) \in Nat
  BY <1>1, EmptySeq, LenProperties
<1>3. Head(toClient[p]) = toClient[p][1] /\ Head(toClient[p]) \in ClientMsg
  BY <1>1, <1>2, HeadTailProperties
<1>4. Drop(toClient[p], k) \in Seq(ClientMsg)
  BY <1>1, Dropped
<1> QED  BY <1>1, <1>3, <1>4, Zenon DEF Receive

LEMMA ReceiveTypes ==
    ASSUME TypeInv, NEW p \in Players, NEW k, Receive(p, k)
    PROVE  TypeInv'
<1> DEFINE s == toClient[p]
<1>1. cboard' \in [Players -> TicTacToeGame] /\ \A q \in Players : InTurns(cboard'[q])
  <2>1. /\ ttt_makeMove(cboard[p], s[1].move) \in TicTacToeGame
        /\ InTurns(ttt_makeMove(cboard[p], s[1].move))
    BY AnyMove DEF TypeInv
  <2>2. cboard' = cboard \/ cboard' = [cboard EXCEPT ![p] = ttt_makeMove(@, s[1].move)]
    BY ReceiveCases
  <2> QED  BY <2>1, <2>2 DEF TypeInv
<1>2. toServer' \in [Players -> Seq(ServerMsg)]
  <2>1. Ack \in ServerMsg
    BY DEF ServerMsg
  <2>2. UNCHANGED toServer \/ Send(p, <<Ack>>)
    BY ReceiveCases
  <2> QED  BY <2>1, <2>2, SendTypes DEF TypeInv
<1>3. /\ cpc' \in [Players -> {"recv", "prompt", "gone"}]
      /\ toClient' \in [Players -> Seq(ClientMsg)]
  <2>1. CASE Leave(p)
    BY <2>1, LeaveTypes
  <2>2. CASE Stay(p, "prompt", Drop(s, k)) \/ Stay(p, "recv", Drop(s, k))
    <3>1. Drop(s, k) \in Seq(ClientMsg)
      BY ReceiveCases
    <3> QED  BY <2>2, <3>1 DEF Stay, TypeInv
  <2> QED  BY <2>1, <2>2, ReceiveCases
<1>4. spoilt' \subseteq {"lost", "mistyped"}
  BY ReceiveCases, SpoilType
<1>5. UNCHANGED <<sboard, spc, verdict, typed>>
  BY ReceiveCases
<1> QED  BY <1>1, <1>2, <1>3, <1>4, <1>5 DEF TypeInv

LEMMA TypeCases ==
    ASSUME TypeInv, NEW p \in Players, NEW line \in Allowed(p), Type(p, line)
    PROVE  /\ cpc[p] = "prompt" /\ line \in Line /\ IsLine(line) /\ line \in ServerMsg
           /\ cboard' = [cboard EXCEPT ![p] = ttt_makeMove(@, line.move)]
           /\ Send(p, <<line>>)
           /\ Leave(p) \/ Stay(p, "recv", toClient[p])
           /\ typed' = [typed EXCEPT ![p] = Append(@, line)]
           /\ \E bad : Spoil("mistyped", bad)
           /\ UNCHANGED <<sboard, spc, verdict>>
<1>1. line \in Line /\ IsLine(line)
  BY LineTypes
<1>2. line \in ServerMsg
  BY <1>1 DEF ServerMsg
<1>3. \E bad : Spoil("mistyped", bad)
  BY DEF Type
<1> QED  BY <1>1, <1>2, <1>3 DEF Type, SendLine

LEMMA TypeTypes ==
    ASSUME TypeInv, NEW p \in Players, NEW line \in Allowed(p), Type(p, line)
    PROVE  TypeInv'
<1>1. cboard' \in [Players -> TicTacToeGame] /\ \A q \in Players : InTurns(cboard'[q])
  <2>1. /\ ttt_makeMove(cboard[p], line.move) \in TicTacToeGame
        /\ InTurns(ttt_makeMove(cboard[p], line.move))
    BY AnyMove DEF TypeInv
  <2>2. cboard' = [cboard EXCEPT ![p] = ttt_makeMove(@, line.move)]
    BY TypeCases
  <2> QED  BY <2>1, <2>2 DEF TypeInv
<1>2. toServer' \in [Players -> Seq(ServerMsg)]
  BY TypeCases, SendTypes
<1>3. /\ cpc' \in [Players -> {"recv", "prompt", "gone"}]
      /\ toClient' \in [Players -> Seq(ClientMsg)]
  <2>1. CASE Leave(p)
    BY <2>1, LeaveTypes
  <2>2. CASE Stay(p, "recv", toClient[p])
    BY <2>2 DEF Stay, TypeInv
  <2> QED  BY <2>1, <2>2, TypeCases
<1>4. typed' \in [Players -> Seq(Line)]
  <2>1. line \in Line /\ typed[p] \in Seq(Line)
    BY TypeCases DEF TypeInv
  <2>2. Append(typed[p], line) \in Seq(Line)
    BY <2>1, AppendProperties
  <2>3. typed' = [typed EXCEPT ![p] = Append(@, line)]
    BY TypeCases
  <2> QED  BY <2>2, <2>3 DEF TypeInv
<1>5. spoilt' \subseteq {"lost", "mistyped"}
  BY TypeCases, SpoilType
<1>6. UNCHANGED <<sboard, spc, verdict>>
  BY TypeCases
<1> QED  BY <1>1, <1>2, <1>3, <1>4, <1>5, <1>6 DEF TypeInv

\* The steps that end a program.
LEMMA EndTypes ==
    ASSUME TypeInv,
           \/ PlayerGone \/ ServerKilled
           \/ \E p \in Players : ServerGone(p) \/ ClientKilled(p)
    PROVE  TypeInv'
<1>1. CASE PlayerGone \/ ServerKilled
  <2>1. Exit /\ UNCHANGED <<sboard, cboard, cpc, toClient, verdict, history>>
    BY <1>1 DEF PlayerGone, ServerKilled
  <2> QED  BY <2>1, ExitTypes DEF TypeInv, history
<1>2. ASSUME NEW p \in Players, ServerGone(p) PROVE TypeInv'
  BY <1>2 DEF ServerGone, TypeInv, history
<1>3. ASSUME NEW p \in Players, ClientKilled(p) PROVE TypeInv'
  <2>1. Leave(p) /\ UNCHANGED <<sboard, cboard, spc, toServer, verdict, history>>
    BY <1>3 DEF ClientKilled
  <2> QED  BY <2>1, LeaveTypes DEF TypeInv, history
<1> QED  BY <1>1, <1>2, <1>3

LEMMA NextTypes == TypeInv /\ [Next]_vars => TypeInv'
<1>1. CASE TypeInv /\ UNCHANGED vars
  BY <1>1 DEF TypeInv, vars
<1> QED
  BY <1>1, ReceiveAckTypes, ReceiveMarkTypes, ReceiveTypes, TypeTypes, EndTypes
     DEF Next, ServerRuns, ClientRuns

LEMMA TypesHold == Spec => []TypeInv
BY InitTypes, NextTypes, PTL DEF Spec

\* Every variable keeps to its type, whatever is typed, however messages are joined
\* and whatever turnCount holds at the start.
THEOREM TypeCorrect == Spec => []TypeOK
BY TypesHold, TypesImply, PTL

(***************************************************************************)
(* Whose marks are on the boards.  The invariant follows a move from the   *)
(* line a player typed through the connections to the boards.              *)
(***************************************************************************)
Moves(lines)    == {lines[i].move : i \in DOMAIN lines}
AllMoves(lines) == UNION {Moves(lines[p]) : p \in Players}
Lined(M)        == {m \in ServerMsg : IsLine(m) => m.move \in M}
Marked(M)       == {m \in ClientMsg : m.word = "MARK" => m.move \in M}

Own ==
    /\ \A p \in Players : toServer[p] \in Seq(Lined(Moves(typed[p])))
    /\ \A p \in Players : toClient[p] \in Seq(Marked(AllMoves(typed)))
    /\ \A n \in 1..9 : sboard.board[n] # Empty => n \in Moves(typed[sboard.board[n]])
    /\ \A p \in Players, n \in 1..9 : cboard[p].board[n] # Empty => n \in AllMoves(typed)

LEMMA OwnImplies == TypeInv /\ Own => OwnMarks
<1> SUFFICES ASSUME TypeInv, Own PROVE OwnMarks
  OBVIOUS
<1>1. \A p, n : n \in Moves(typed[p]) => \E i \in DOMAIN typed[p] : typed[p][i].move = n
  BY DEF Moves
<1>2. \A n : n \in AllMoves(typed) => \E p \in Players : n \in Moves(typed[p])
  BY DEF AllMoves
<1>3. ASSUME NEW n \in 1..9, sboard.board[n] # Empty
      PROVE  \E i \in DOMAIN typed[sboard.board[n]] : typed[sboard.board[n]][i].move = n
  BY <1>1, <1>3 DEF Own
<1>4. ASSUME NEW n \in 1..9, NEW p \in Players, cboard[p].board[n] # Empty
      PROVE  \E q \in Players : \E i \in DOMAIN typed[q] : typed[q][i].move = n
  <2>1. PICK q \in Players : n \in Moves(typed[q])
    BY <1>2, <1>4 DEF Own
  <2> QED  BY <1>1, <2>1
<1> QED  BY <1>3, <1>4, Zenon DEF OwnMarks

LEMMA InitOwn == Init => Own
<1> SUFFICES ASSUME Init PROVE Own
  OBVIOUS
<1>1. \A n \in 1..9 : sboard.board[n] = Empty
  BY DEF Init, ttt_new
<1>2. \A p \in Players, n \in 1..9 : cboard[p].board[n] = Empty
  BY DEF Init, ttt_new
<1>3. ASSUME NEW p \in Players PROVE toClient[p] \in Seq(Marked(AllMoves(typed)))
  <2> DEFINE m == Msg(IF p = Current THEN "TURN" ELSE "WAIT")
  <2>1. m \in Marked(AllMoves(typed))
    BY DEF Msg, ClientMsg, Marked
  <2>2. toClient[p] = <<m>>
    BY DEF Init
  <2> HIDE DEF m
  <2> QED  BY <2>1, <2>2, One
<1>4. \A p \in Players : toServer[p] = <<>>
  BY DEF Init
<1> QED  BY <1>1, <1>2, <1>3, <1>4, EmptySeq DEF Own

LEMMA Kinds ==
    ASSUME NEW M
    PROVE  /\ Standard \subseteq Marked(M) /\ Ack \in Lined(M) /\ Rest \in Lined(M)
           /\ \A m \in Lined(M) : IsMove(m) => m.move \in M
           /\ \A m \in Lined(M) : m.word = "MARK" => m \in Marked(M)
<1>1. Standard \subseteq Marked(M)
  BY DEF Standard, Marked, ClientMsg, Msg
<1>2. Ack \in Lined(M) /\ Rest \in Lined(M)
  BY DEF Lined, ServerMsg, IsLine, Ack, Rest, Msg, Glued, Trailed
<1>3. ASSUME NEW m \in Lined(M), m.word = "MARK" PROVE m.move \in M /\ m \in Marked(M)
  <2>1. m \in ServerMsg /\ m.move \in M
    BY <1>3 DEF Lined, IsLine
  <2>2. m \in Line
    BY <1>3, <2>1 DEF ServerMsg, Ack, Rest, Msg
  <2> QED  BY <1>3, <2>1, <2>2 DEF Marked, ClientMsg, Line
<1>4. \A m \in Lined(M) : IsMove(m) => m.move \in M
  BY DEF Lined, IsLine, IsMove
<1> QED  BY <1>1, <1>2, <1>3, <1>4

LEMMA MoreMoves ==
    ASSUME NEW M, NEW N, M \subseteq N
    PROVE  /\ \A s \in Seq(Lined(M)) : s \in Seq(Lined(N))
           /\ \A s \in Seq(Marked(M)) : s \in Seq(Marked(N))
<1>1. Lined(M) \subseteq Lined(N) /\ Marked(M) \subseteq Marked(N)
  BY DEF Lined, Marked
<1>2. ASSUME NEW s \in Seq(Lined(M)) PROVE s \in Seq(Lined(N))
  BY <1>1, SeqMonotonic, Zenon
<1>3. ASSUME NEW s \in Seq(Marked(M)) PROVE s \in Seq(Marked(N))
  BY <1>1, SeqMonotonic, Zenon
<1> QED  BY <1>2, <1>3

\* A move puts the player's mark on its cell, or nothing.
LEMMA MoveShows ==
    ASSUME NEW t, t.board \in [1..9 -> Players \cup {Empty}], NEW n, NEW c \in 1..9,
           ttt_makeMove(t, n).board[c] # t.board[c]
    PROVE  n = c /\ ttt_makeMove(t, n).board[c] = t.currentPlayer
BY DEF ttt_makeMove, Legal

LEMMA ReceiveAckOwn == ASSUME TypeInv, Own, ReceiveAck PROVE Own'
<1> DEFINE s == toServer[Current]
           S == Lined(Moves(typed[Current]))
<1>1. Current \in Players /\ s \in Seq(S) /\ Rest \in S
  BY Kinds DEF TypeInv, Game, Current, Own
<1>2. /\ UNCHANGED <<sboard, cboard, toClient, typed>>
      /\ \/ UNCHANGED toServer
         \/ \E k \in 1..Len(s) : toServer' = [toServer EXCEPT ![Current] = Drop(s, k)]
         \/ \E k \in 1..Len(s) :
               toServer' = [toServer EXCEPT ![Current] = <<Rest>> \o Drop(s, k)]
  BY Zenon DEF ReceiveAck
<1> HIDE DEF S
<1>3. \A k \in 1..Len(s) : Drop(s, k) \in Seq(S) /\ <<Rest>> \o Drop(s, k) \in Seq(S)
  BY <1>1, Dropped, One, ConcatKeeps
<1>4. \/ UNCHANGED toServer
      \/ \E q \in Seq(S) : toServer' = [toServer EXCEPT ![Current] = q]
  BY <1>2, <1>3
<1>5. ASSUME NEW p \in Players PROVE toServer'[p] \in Seq(Lined(Moves(typed[p])))
  BY <1>1, <1>4 DEF Own, TypeInv, S
<1> QED  BY <1>2, <1>5 DEF Own

LEMMA ExitOwn ==
    ASSUME Exit, NEW p \in Players, NEW S
    PROVE  toServer'[p] \in Seq(S)
BY EmptySeq DEF Exit

LEMMA ReceiveMarkOwn == ASSUME TypeInv, Own, NEW k, ReceiveMark(k) PROVE Own'
<1> DEFINE s == toServer[Current]
           S == Lined(Moves(typed[Current]))
           A == AllMoves(typed)
<1>1. /\ Current \in Players /\ k \in 1..Len(s) /\ UNCHANGED <<cboard, cpc, typed>>
      /\ Asks(k) \/ GoesOn(k) \/ Ends(k)
  BY ReceiveMarkCases DEF TypeInv, Game, Current
<1>2. s \in Seq(S)
  BY <1>1 DEF Own
<1>3. Head(s) \in S
  <2>1. s # <<>>
    BY <1>1, ServerDrops
  <2> QED  BY <1>2, <2>1, HeadTailProperties
<1>4. S \subseteq Lined(A)
  BY <1>1 DEF Lined, AllMoves
<1>5. /\ IsMove(Head(s)) => Head(s).move \in Moves(typed[Current])
      /\ Head(s).word = "MARK" => Head(s) \in Marked(A)
  <2>1. Head(s) \in Lined(A)
    BY <1>3, <1>4
  <2> HIDE DEF A
  <2>2. Head(s).word = "MARK" => Head(s) \in Marked(A)
    BY <2>1, Kinds
  <2>3. IsMove(Head(s)) => Head(s).move \in Moves(typed[Current])
    BY <1>3, Kinds
  <2> QED  BY <2>2, <2>3
<1>6. \A p \in Players : toClient'[p] \in Seq(Marked(A))
  <2>1. Standard \subseteq Marked(A) /\ \A p \in Players : toClient[p] \in Seq(Marked(A))
    BY Kinds DEF Own
  <2>2. sboard'.currentPlayer \in Players
    BY ReceiveMarkTypes DEF TypeInv, Game
  <2> HIDE DEF A
  <2>3. toClient' \in [Players -> Seq(Marked(A))]
    BY <1>1, <1>5, <2>1, <2>2, ReceiveMarkSends
  <2> QED  BY <2>3
<1>7. ASSUME NEW p \in Players PROVE toServer'[p] \in Seq(Lined(Moves(typed[p])))
  <2>1. Exit \/ toServer' = [toServer EXCEPT ![Current] = Drop(s, k)]
    BY <1>1, SendAllGoesOn DEF Asks, GoesOn, Ends
  <2>2. Drop(s, k) \in Seq(S)
    BY <1>1, <1>2, Dropped
  <2> QED  BY <1>1, <2>1, <2>2, ExitOwn DEF Own, TypeInv
<1>8. ASSUME NEW n \in 1..9, sboard'.board[n] # Empty
      PROVE  n \in Moves(typed[sboard'.board[n]])
  <2>1. \/ sboard' = sboard
        \/ /\ IsMove(Head(s))
           /\ sboard' = ttt_makeMove(sboard, Head(s).move)
    BY <1>1 DEF Asks, GoesOn, Ends, Plays
  <2>2. CASE sboard'.board[n] = sboard.board[n]
    BY <1>8, <2>2 DEF Own
  <2>3. CASE sboard'.board[n] # sboard.board[n]
    <3>1. sboard.board \in [1..9 -> Players \cup {Empty}]
      BY DEF TypeInv, Game
    <3>2. Head(s).move = n /\ sboard'.board[n] = Current
      BY <2>1, <2>3, <3>1, MoveShows DEF Current
    <3> QED  BY <1>5, <2>1, <2>3, <3>2
  <2> QED  BY <2>2, <2>3
<1> QED  BY <1>1, <1>6, <1>7, <1>8 DEF Own

LEMMA ReceiveOwn ==
    ASSUME TypeInv, Own, NEW p \in Players, NEW k, Receive(p, k)
    PROVE  Own'
<1> DEFINE s == toClient[p]
           A == AllMoves(typed)
<1>1. s \in Seq(Marked(A))
  BY DEF Own
<1>2. k \in 1..Len(s) /\ s[1] = Head(s) /\ s \in Seq(ClientMsg)
  BY ReceiveCases
<1>3. Drop(s, k) \in Seq(Marked(A)) /\ s[1] \in Marked(A)
  <2>1. s # <<>>
    BY <1>2, EmptySeq
  <2> HIDE DEF A
  <2> QED  BY <1>1, <1>2, <2>1, Dropped, HeadTailProperties
<1>4. UNCHANGED <<sboard, typed>>
  BY ReceiveCases
<1>5. ASSUME NEW q \in Players PROVE toServer'[q] \in Seq(Lined(Moves(typed[q])))
  <2>1. UNCHANGED toServer \/ Send(p, <<Ack>>)
    BY ReceiveCases
  <2> DEFINE S == Lined(Moves(typed[p]))
  <2>2. toServer[p] \in Seq(S) /\ <<Ack>> \in Seq(S)
    BY Kinds, One DEF Own
  <2> HIDE DEF S
  <2>3. toServer[p] \o <<Ack>> \in Seq(S)
    BY <2>2, ConcatKeeps
  <2> QED  BY <2>1, <2>3 DEF Send, Own, TypeInv, S
<1>6. ASSUME NEW q \in Players PROVE toClient'[q] \in Seq(Marked(A))
  <2>1. \/ Leave(p)
        \/ Stay(p, "prompt", Drop(s, k)) \/ Stay(p, "recv", Drop(s, k))
    BY ReceiveCases
  <2>2. toClient[q] \in Seq(Marked(A)) /\ <<>> \in Seq(Marked(A))
    BY EmptySeq DEF Own
  <2> HIDE DEF A
  <2> QED  BY <1>3, <2>1, <2>2 DEF Leave, Stay, TypeInv
<1>7. ASSUME NEW q \in Players, NEW n \in 1..9, cboard'[q].board[n] # Empty PROVE n \in A
  <2>1. \/ cboard' = cboard
        \/ /\ s[1].word = "MARK"
           /\ cboard' = [cboard EXCEPT ![p] = ttt_makeMove(@, s[1].move)]
    BY ReceiveCases
  <2>2. cboard \in [Players -> TicTacToeGame]
    BY DEF TypeInv
  <2>3. CASE cboard'[q].board[n] = cboard[q].board[n]
    BY <1>7, <2>3 DEF Own
  <2>4. CASE cboard'[q].board[n] # cboard[q].board[n]
    <3>1. /\ s[1].word = "MARK" /\ q = p
          /\ cboard'[q] = ttt_makeMove(cboard[q], s[1].move)
      BY <2>1, <2>2, <2>4
    <3>2. cboard[q].board \in [1..9 -> Players \cup {Empty}]
      BY <2>2 DEF TicTacToeGame
    <3>3. s[1].move = n
      BY <2>4, <3>1, <3>2, MoveShows
    <3> QED  BY <1>3, <3>1, <3>3 DEF Marked
  <2> QED  BY <2>3, <2>4
<1> QED  BY <1>4, <1>5, <1>6, <1>7 DEF Own

LEMMA TypeOwn ==
    ASSUME TypeInv, Own, NEW p \in Players, NEW line \in Allowed(p), Type(p, line)
    PROVE  Own'
<1>1. /\ cboard' = [cboard EXCEPT ![p] = ttt_makeMove(@, line.move)]
      /\ Send(p, <<line>>)
      /\ Leave(p) \/ Stay(p, "recv", toClient[p])
      /\ typed' = [typed EXCEPT ![p] = Append(@, line)]
      /\ UNCHANGED sboard
      /\ line \in Line /\ line \in ServerMsg
  BY TypeCases
<1>2. typed \in [Players -> Seq(Line)] /\ typed' \in [Players -> Seq(Line)]
  BY TypeTypes DEF TypeInv
\* What was typed stays typed, and the line is typed now.
<1>3. /\ \A q \in Players : Moves(typed[q]) \subseteq Moves(typed'[q])
      /\ line.move \in Moves(typed'[p])
  <2>1. /\ Append(typed[p], line) \in Seq(Line)
        /\ Len(Append(typed[p], line)) = Len(typed[p]) + 1
        /\ \A i \in 1..Len(typed[p]) : Append(typed[p], line)[i] = typed[p][i]
        /\ Append(typed[p], line)[Len(typed[p]) + 1] = line
    BY <1>1, <1>2, AppendProperties
  <2>2. /\ typed'[p] = Append(typed[p], line)
        /\ \A q \in Players \ {p} : typed'[q] = typed[q]
    BY <1>1, <1>2
  <2>3. /\ Len(typed[p]) \in Nat /\ DOMAIN typed[p] = 1..Len(typed[p])
        /\ DOMAIN typed'[p] = 1..(Len(typed[p]) + 1)
    <3>1. typed[p] \in Seq(Line)
      BY <1>2
    <3> QED  BY <2>1, <2>2, <3>1, LenProperties
  <2>4. /\ \A i \in DOMAIN typed[p] : i \in DOMAIN typed'[p] /\ typed'[p][i] = typed[p][i]
        /\ Len(typed[p]) + 1 \in DOMAIN typed'[p]
        /\ typed'[p][Len(typed[p]) + 1] = line
    BY <2>1, <2>2, <2>3
  <2>5. Moves(typed[p]) \subseteq Moves(typed'[p]) /\ line.move \in Moves(typed'[p])
    BY <2>4 DEF Moves
  <2> QED  BY <2>2, <2>5
<1>4. AllMoves(typed) \subseteq AllMoves(typed') /\ line.move \in AllMoves(typed')
  BY <1>3 DEF AllMoves
<1>5. ASSUME NEW q \in Players PROVE toServer'[q] \in Seq(Lined(Moves(typed'[q])))
  <2> DEFINE S == Lined(Moves(typed'[q]))
  <2>1. toServer[q] \in Seq(S)
    BY <1>3, MoreMoves DEF Own
  <2>2. q = p => line \in S
    BY <1>1, <1>3 DEF Lined
  <2> HIDE DEF S
  <2>3. q = p => toServer[q] \o <<line>> \in Seq(S)
    <3>1. q = p => <<line>> \in Seq(S)
      BY <2>2, One
    <3> QED  BY <2>1, <3>1, ConcatKeeps
  <2>4. \/ toServer'[q] = toServer[q]
        \/ q = p /\ toServer'[q] = toServer[q] \o <<line>>
    BY <1>1 DEF Send, TypeInv
  <2> QED  BY <2>1, <2>3, <2>4 DEF S
<1>6. ASSUME NEW q \in Players PROVE toClient'[q] \in Seq(Marked(AllMoves(typed')))
  <2>1. toClient[q] \in Seq(Marked(AllMoves(typed')))
    BY <1>4, MoreMoves DEF Own
  <2>2. toClient'[q] = toClient[q] \/ toClient'[q] = <<>>
    BY <1>1 DEF Leave, Stay, TypeInv
  <2> QED  BY <2>1, <2>2, EmptySeq
<1>7. ASSUME NEW n \in 1..9, sboard'.board[n] # Empty
      PROVE  n \in Moves(typed'[sboard'.board[n]])
  <2>1. sboard.board[n] \in Players
    BY <1>1, <1>7 DEF TypeInv, Game
  <2> QED  BY <1>1, <1>3, <1>7, <2>1 DEF Own
<1>8. ASSUME NEW q \in Players, NEW n \in 1..9, cboard'[q].board[n] # Empty
      PROVE  n \in AllMoves(typed')
  <2>1. cboard \in [Players -> TicTacToeGame]
    BY DEF TypeInv
  <2>2. CASE cboard'[q].board[n] = cboard[q].board[n]
    BY <1>4, <1>8, <2>2 DEF Own
  <2>3. CASE cboard'[q].board[n] # cboard[q].board[n]
    <3>1. q = p /\ cboard'[q] = ttt_makeMove(cboard[q], line.move)
      BY <1>1, <2>1, <2>3
    <3>2. cboard[q].board \in [1..9 -> Players \cup {Empty}]
      BY <2>1 DEF TicTacToeGame
    <3>3. line.move = n
      BY <2>3, <3>1, <3>2, MoveShows
    <3> QED  BY <1>4, <3>3
  <2> QED  BY <2>2, <2>3
<1> QED  BY <1>5, <1>6, <1>7, <1>8 DEF Own

LEMMA EndOwn ==
    ASSUME TypeInv, Own,
           \/ PlayerGone \/ ServerKilled
           \/ \E p \in Players : ServerGone(p) \/ ClientKilled(p)
    PROVE  Own'
<1>1. /\ UNCHANGED <<sboard, cboard, typed>>
      /\ Exit \/ UNCHANGED toServer
      /\ UNCHANGED toClient \/ \E p \in Players : Leave(p)
  BY DEF PlayerGone, ServerKilled, ServerGone, ClientKilled, history
<1>2. ASSUME NEW q \in Players PROVE toServer'[q] \in Seq(Lined(Moves(typed[q])))
  BY <1>1, ExitOwn DEF Own
<1>3. ASSUME NEW q \in Players PROVE toClient'[q] \in Seq(Marked(AllMoves(typed)))
  <2>1. toClient'[q] = toClient[q] \/ toClient'[q] = <<>>
    BY <1>1 DEF Leave, TypeInv
  <2> QED  BY <2>1, EmptySeq DEF Own
<1> QED  BY <1>1, <1>2, <1>3 DEF Own

LEMMA NextOwn == TypeInv /\ Own /\ [Next]_vars => Own'
<1>1. CASE Own /\ UNCHANGED vars
  BY <1>1 DEF Own, vars
<1> QED
  BY <1>1, ReceiveAckOwn, ReceiveMarkOwn, ReceiveOwn, TypeOwn, EndOwn
     DEF Next, ServerRuns, ClientRuns

\* A mark on the server's board was typed by the player whose it is, and a mark on a
\* client's copy by one of them, for any lines and however messages are joined.
THEOREM MarksTyped == Spec => []OwnMarks
<1>1. TypeInv /\ Own /\ [Next]_vars => (TypeInv /\ Own)'
  BY NextTypes, NextOwn
<1> QED  BY <1>1, InitTypes, InitOwn, OwnImplies, PTL DEF Spec

(***************************************************************************)
(* Starvation.  A player that waits while the server waits for its move    *)
(* has a TURN on its way to it, or a line on its way to the server, unless *)
(* a recv has dropped something.                                           *)
(***************************************************************************)
HasTurn(s) == \E i \in DOMAIN s : s[i].word = "TURN"
HasLine(s) == \E i \in DOMAIN s : IsLine(s[i])
Served     == "lost" \notin spoilt /\ spc # "gone" /\ cpc[Current] = "recv" =>
                  HasTurn(toClient[Current]) \/ HasLine(toServer[Current])

LEMMA ServedImplies == Served => NeverStarved
<1>1. ~HasTurn(<<>>) /\ ~HasLine(<<>>)
  BY DEF HasTurn, HasLine
<1> QED  BY <1>1 DEF Served, NeverStarved, Stuck

LEMMA InitServed == Init => Served
<1> SUFFICES ASSUME Init PROVE Served
  OBVIOUS
<1>1. Current \in Players
  BY DEF Init, Current, ttt_new, Players
<1>2. toClient[Current] = <<Msg("TURN")>>
  BY <1>1 DEF Init
<1>3. 1 \in DOMAIN toClient[Current] /\ toClient[Current][1] = Msg("TURN")
  BY <1>2, One
<1> QED  BY <1>3 DEF Served, HasTurn, Msg

\* A line is still there if it was behind what was taken.
LEMMA LineKept ==
    ASSUME NEW s \in Seq(ServerMsg), NEW k \in 1..Len(s), ~\E i \in 1..k : IsLine(s[i]),
           HasLine(s)
    PROVE  HasLine(Drop(s, k)) /\ HasLine(<<Rest>> \o Drop(s, k))
<1>1. PICK i \in DOMAIN s : IsLine(s[i])
  BY DEF HasLine
<1>2. i > k
  <2>1. DOMAIN s = 1..Len(s) /\ Len(s) \in Nat
    BY LenProperties
  <2> QED  BY <1>1, <2>1
<1>3. PICK n \in DOMAIN Drop(s, k) : Drop(s, k)[n] = s[i]
  BY <1>2, DropKeeps
<1>4. Drop(s, k) \in Seq(ServerMsg) /\ <<Rest>> \in Seq(ServerMsg)
  BY Dropped, One DEF ServerMsg
<1>5. \E l \in DOMAIN (<<Rest>> \o Drop(s, k)) : (<<Rest>> \o Drop(s, k))[l] = s[i]
  <2> DEFINE r == <<Rest>>
             d == Drop(s, k)
  <2>1. r \in Seq(ServerMsg) /\ d \in Seq(ServerMsg) /\ n \in DOMAIN d /\ d[n] = s[i]
    BY <1>3, <1>4
  <2> HIDE DEF r, d
  <2>2. \E l \in DOMAIN (r \o d) : (r \o d)[l] = d[n]
    BY <2>1, ConcatKeeps, SMTT(30)
  <2> QED  BY <2>1, <2>2 DEF r, d
<1> QED  BY <1>1, <1>3, <1>5 DEF HasLine

LEMMA ReceiveAckServed == ASSUME TypeInv, Served, ReceiveAck PROVE Served'
<1> SUFFICES ASSUME "lost" \notin spoilt', spc' # "gone", cpc'[Current'] = "recv"
             PROVE  HasTurn(toClient'[Current']) \/ HasLine(toServer'[Current'])
  BY DEF Served
<1> DEFINE s == toServer[Current]
<1>1. /\ spc = "ack" /\ UNCHANGED <<sboard, cpc, toClient>>
      /\ \/ UNCHANGED <<toServer, spoilt>>
         \/ \E k \in 1..Len(s) :
               /\ \/ toServer' = [toServer EXCEPT ![Current] = Drop(s, k)]
                  \/ toServer' = [toServer EXCEPT ![Current] = <<Rest>> \o Drop(s, k)]
               /\ Spoil("lost", \E i \in 1..k : IsLine(s[i]))
  BY DEF ReceiveAck
<1>2. Current' = Current /\ Current \in Players /\ s \in Seq(ServerMsg)
  BY <1>1 DEF Current, TypeInv, Game
<1>3. spoilt \subseteq spoilt'
  BY <1>1 DEF Spoil
<1>4. HasTurn(toClient[Current]) \/ HasLine(s)
  BY <1>1, <1>2, <1>3 DEF Served
<1>5. CASE HasTurn(toClient[Current]) \/ UNCHANGED toServer
  BY <1>1, <1>2, <1>4, <1>5
<1>6. ASSUME HasLine(s), NEW k \in 1..Len(s), Spoil("lost", \E i \in 1..k : IsLine(s[i])),
             \/ toServer' = [toServer EXCEPT ![Current] = Drop(s, k)]
             \/ toServer' = [toServer EXCEPT ![Current] = <<Rest>> \o Drop(s, k)]
      PROVE  HasLine(toServer'[Current])
  <2>1. ~\E i \in 1..k : IsLine(s[i])
    BY <1>6 DEF Spoil
  <2>2. HasLine(Drop(s, k)) /\ HasLine(<<Rest>> \o Drop(s, k))
    BY <1>2, <1>6, <2>1, LineKept
  <2> QED  BY <1>2, <1>6, <2>2 DEF TypeInv
<1> QED  BY <1>1, <1>2, <1>4, <1>5, <1>6

LEMMA EchoType ==
    ASSUME TypeInv, Current \in Players, NEW k \in 1..Len(toServer[Current])
    PROVE  Echo(toServer[Current], k) \in ClientMsg
<1>1. Head(toServer[Current]) \in ServerMsg
  BY ServerDrops
<1>2. Head(toServer[Current]).word = "MARK" => Head(toServer[Current]) \in ClientMsg
  BY <1>1 DEF ServerMsg, Line, ClientMsg, Ack, Rest, Msg
<1> QED  BY <1>2 DEF Echo, Msg, ClientMsg

\* When the server goes on it has just told the player whose turn it is.
LEMMA ReceiveMarkServed == ASSUME TypeInv, NEW k, ReceiveMark(k) PROVE Served'
<1> SUFFICES ASSUME spc' # "gone", cpc'[Current'] = "recv"
             PROVE  HasTurn(toClient'[Current'])
  BY DEF Served
<1> DEFINE s == toServer[Current]
<1>1. /\ Current \in Players /\ k \in 1..Len(s) /\ UNCHANGED cpc
      /\ Asks(k) \/ GoesOn(k) \/ Ends(k)
  BY ReceiveMarkCases DEF TypeInv, Game, Current
<1>2. ~Exit
  BY DEF Exit
<1>3. ~Ends(k)
  BY <1>2, SendAllGoesOn DEF Ends
<1>4. Standard \subseteq ClientMsg /\ \A p \in Players : toClient[p] \in Seq(ClientMsg)
  BY DEF Standard, Msg, ClientMsg, TypeInv
<1>5. Current' = sboard'.currentPlayer /\ Current' \in Players
  BY ReceiveMarkTypes DEF TypeInv, Game, Current
<1>6. \E msgs \in Mail(ClientMsg) : \E after :
         /\ Len(msgs) <= 4 /\ SendAll(msgs, after, Drop(s, k))
         /\ \E i \in 1..Len(msgs) : msgs[i] = To(Current', Msg("TURN"))
  <2>1. CASE Asks(k)
    <3> DEFINE msgs == Turn(Current)
    <3>1. /\ msgs \in Mail(ClientMsg) /\ Len(msgs) = 2 /\ msgs[1] = To(Current, Msg("TURN"))
      BY <1>1, <1>4, TurnMail
    <3>2. SendAll(msgs, "ack", Drop(s, k)) /\ Current' = Current
      BY <2>1 DEF Asks, Current
    <3> HIDE DEF msgs
    <3>3. Len(msgs) <= 4 /\ 1 \in 1..Len(msgs)
      BY <3>1
    <3> QED  BY <3>1, <3>2, <3>3
  <2>2. CASE GoesOn(k)
    <3> DEFINE msgs == Reply(Echo(s, k), Turn(sboard'.currentPlayer))
    <3>1. Echo(s, k) \in ClientMsg
      BY <1>1, <2>2, EchoType DEF GoesOn, Plays
    <3>2. /\ msgs \in Mail(ClientMsg) /\ Len(msgs) = 4
          /\ msgs[3] = Turn(sboard'.currentPlayer)[1]
      BY <1>1, <1>4, <1>5, <3>1, ReplyMail
    <3>3. msgs[3] = To(Current', Msg("TURN"))
      BY <1>4, <1>5, <3>2, TurnMail
    <3>4. SendAll(msgs, "ack", Drop(s, k))
      BY <2>2 DEF GoesOn
    <3> HIDE DEF msgs
    <3>5. Len(msgs) <= 4 /\ 3 \in 1..Len(msgs)
      BY <3>2
    <3> QED  BY <3>2, <3>3, <3>4, <3>5
  <2> QED  BY <1>1, <1>3, <2>1, <2>2
<1>7. PICK msgs, after, i :
         /\ msgs \in Mail(ClientMsg) /\ Len(msgs) <= 4
         /\ SendAll(msgs, after, Drop(s, k))
         /\ i \in 1..Len(msgs) /\ msgs[i] = To(Current', Msg("TURN"))
  BY <1>6
<1>8. msgs[i].to = Current' /\ msgs[i].msg = Msg("TURN")
  BY <1>7 DEF To
<1>9. cpc[msgs[i].to] # "gone"
  BY <1>1, <1>8
<1>10. \E n \in DOMAIN toClient'[Current'] : toClient'[Current'][n] = Msg("TURN")
  BY <1>2, <1>4, <1>7, <1>8, <1>9, SendAllSends
<1> QED  BY <1>10 DEF HasTurn, Msg

\* What p does leaves the other player's connections as they are, and sends add to
\* what is there.
LEMMA LineSent ==
    ASSUME TypeInv, NEW p \in Players, NEW m \in ServerMsg,
           Send(p, <<m>>) \/ UNCHANGED toServer
    PROVE  /\ \A q \in Players : q # p => toServer'[q] = toServer[q]
           /\ HasLine(toServer[p]) => HasLine(toServer'[p])
           /\ Send(p, <<m>>) /\ spc # "gone" /\ IsLine(m) => HasLine(toServer'[p])
<1>1. toServer[p] \in Seq(ServerMsg) /\ <<m>> \in Seq(ServerMsg)
  BY One DEF TypeInv
<1>2. DOMAIN <<m>> = {1} /\ <<m>>[1] = m
  BY One
<1> DEFINE s == toServer[p]
           t == <<m>>
<1>3. /\ \A q \in Players : q # p => toServer'[q] = toServer[q]
      /\ toServer'[p] = s \/ toServer'[p] = s \o t
      /\ Send(p, t) /\ spc # "gone" => toServer'[p] = s \o t
  BY DEF Send, TypeInv
<1>4. HasLine(t) <=> IsLine(m)
  BY <1>2 DEF HasLine
<1>5. s \in Seq(ServerMsg) /\ t \in Seq(ServerMsg)
  BY <1>1
<1> HIDE DEF s, t
<1>6. /\ \A i \in DOMAIN s : i \in DOMAIN (s \o t) /\ (s \o t)[i] = s[i]
      /\ \A i \in DOMAIN t : \E n \in DOMAIN (s \o t) : (s \o t)[n] = t[i]
  BY <1>5, ConcatKeeps
<1>7. (HasLine(s) => HasLine(s \o t)) /\ (HasLine(t) => HasLine(s \o t))
  BY <1>6 DEF HasLine
<1> QED  BY <1>3, <1>4, <1>7 DEF s, t

LEMMA ReceiveServed ==
    ASSUME TypeInv, Served, NEW p \in Players, NEW k, Receive(p, k)
    PROVE  Served'
<1> SUFFICES ASSUME "lost" \notin spoilt', spc' # "gone", cpc'[Current'] = "recv"
             PROVE  HasTurn(toClient'[Current']) \/ HasLine(toServer'[Current'])
  BY DEF Served
<1> DEFINE s == toClient[p]
<1>1. /\ cpc[p] = "recv" /\ k \in 1..Len(s) /\ Spoil("lost", k > 1)
      /\ s \in Seq(ClientMsg)
      /\ UNCHANGED toServer \/ Send(p, <<Ack>>)
      /\ \/ Leave(p)
         \/ Stay(p, "prompt", Drop(s, k))
         \/ s[1].word # "TURN" /\ Stay(p, "recv", Drop(s, k))
      /\ UNCHANGED <<sboard, spc>>
  BY ReceiveCases
<1>2. Current' = Current /\ Current \in Players
  BY <1>1 DEF Current, TypeInv, Game
<1>3. k = 1 /\ spoilt \subseteq spoilt'
  <2>1. Len(s) \in Nat
    BY <1>1, LenProperties
  <2> QED  BY <1>1, <2>1 DEF Spoil
<1>4. /\ \A q \in Players : q # p => toServer'[q] = toServer[q]
      /\ HasLine(toServer[p]) => HasLine(toServer'[p])
  BY <1>1, LineSent DEF ServerMsg
<1>5. CASE p # Current
  <2>1. cpc'[Current] = cpc[Current] /\ toClient'[Current] = toClient[Current]
    BY <1>1, <1>2, <1>5 DEF Leave, Stay, TypeInv
  <2> QED  BY <1>1, <1>2, <1>3, <1>4, <1>5, <2>1 DEF Served
<1>6. CASE p = Current
  <2>1. HasTurn(s) \/ HasLine(toServer[p])
    BY <1>1, <1>3, <1>6 DEF Served
  <2>2. s[1].word # "TURN" /\ toClient'[p] = Drop(s, 1)
    BY <1>1, <1>2, <1>3, <1>6 DEF Leave, Stay, TypeInv
  <2>3. ASSUME HasTurn(s) PROVE HasTurn(Drop(s, 1))
    <3>1. PICK i \in DOMAIN s : s[i].word = "TURN"
      BY <2>3 DEF HasTurn
    <3>2. i > 1
      <4>1. DOMAIN s = 1..Len(s) /\ Len(s) \in Nat
        BY <1>1, LenProperties
      <4> QED  BY <2>2, <3>1, <4>1
    <3>3. \E n \in DOMAIN Drop(s, 1) : Drop(s, 1)[n] = s[i]
      BY <1>1, <1>3, <3>2, DropKeeps
    <3> QED  BY <3>1, <3>3 DEF HasTurn
  <2> QED  BY <1>2, <1>4, <1>6, <2>1, <2>2, <2>3
<1> QED  BY <1>5, <1>6

LEMMA TypeServed ==
    ASSUME TypeInv, Served, NEW p \in Players, NEW line \in Allowed(p), Type(p, line)
    PROVE  Served'
<1> SUFFICES ASSUME "lost" \notin spoilt', spc' # "gone", cpc'[Current'] = "recv"
             PROVE  HasTurn(toClient'[Current']) \/ HasLine(toServer'[Current'])
  BY DEF Served
<1>1. /\ IsLine(line) /\ line \in ServerMsg /\ Send(p, <<line>>)
      /\ Leave(p) \/ Stay(p, "recv", toClient[p])
      /\ \E bad : Spoil("mistyped", bad)
      /\ UNCHANGED <<sboard, spc>>
  BY TypeCases
<1>2. Current' = Current /\ Current \in Players /\ spoilt \subseteq spoilt'
  BY <1>1 DEF Current, TypeInv, Game, Spoil
<1>3. /\ \A q \in Players : q # p => toServer'[q] = toServer[q]
      /\ spc # "gone" => HasLine(toServer'[p])
  BY <1>1, LineSent
<1>4. CASE p # Current
  <2>1. cpc'[Current] = cpc[Current] /\ toClient'[Current] = toClient[Current]
    BY <1>1, <1>2, <1>4 DEF Leave, Stay, TypeInv
  <2> QED  BY <1>1, <1>2, <1>3, <1>4, <2>1 DEF Served
<1> QED  BY <1>1, <1>2, <1>3, <1>4

LEMMA EndServed ==
    ASSUME TypeInv, Served,
           \/ PlayerGone \/ ServerKilled
           \/ \E p \in Players : ServerGone(p) \/ ClientKilled(p)
    PROVE  Served'
<1>1. CASE PlayerGone \/ ServerKilled
  BY <1>1 DEF PlayerGone, ServerKilled, Exit, Served
<1>2. ASSUME NEW p \in Players, ServerGone(p) PROVE Served'
  BY <1>2 DEF ServerGone, Served
<1>3. ASSUME NEW p \in Players, ClientKilled(p) PROVE Served'
  <2>1. /\ cpc' = [cpc EXCEPT ![p] = "gone"] /\ toClient' = [toClient EXCEPT ![p] = <<>>]
        /\ UNCHANGED <<sboard, spc, toServer, spoilt>>
    BY <1>3 DEF ClientKilled, Leave, history
  <2>2. Current' = Current /\ Current \in Players
    BY <2>1 DEF Current, TypeInv, Game
  <2>3. CASE p = Current
    <3>1. cpc'[Current'] = "gone"
      BY <2>1, <2>2, <2>3 DEF TypeInv
    <3> QED  BY <3>1 DEF Served
  <2>4. CASE p # Current
    <3>1. cpc'[Current'] = cpc[Current] /\ toClient'[Current'] = toClient[Current]
      BY <2>1, <2>2, <2>4 DEF TypeInv
    <3> QED  BY <2>1, <2>2, <3>1 DEF Served
  <2> QED  BY <2>3, <2>4
<1> QED  BY <1>1, <1>2, <1>3

LEMMA NextServed == TypeInv /\ Served /\ [Next]_vars => Served'
<1>1. CASE Served /\ UNCHANGED vars
  BY <1>1 DEF Served, Current, vars
<1> QED
  BY <1>1, ReceiveAckServed, ReceiveMarkServed, ReceiveServed, TypeServed, EndServed
     DEF Next, ServerRuns, ClientRuns

\* The server and the player whose move it waits for never wait for each other, unless
\* a recv has dropped a line or a message: the server asks again after every message
\* that is no move.
THEOREM NobodyStarved == Spec => []NeverStarved
<1>1. TypeInv /\ Served /\ [Next]_vars => (TypeInv /\ Served)'
  BY NextTypes, NextServed
<1> QED  BY <1>1, InitTypes, InitServed, ServedImplies, PTL DEF Spec

(***************************************************************************)
(* The refinement.  As long as the server runs it has told nobody a        *)
(* result, and there is none: no line of three, and no full board that it  *)
(* has counted.                                                            *)
(***************************************************************************)
CountedIn(t)   == t.turnCount = Recount(t).turnCount
CountedNine(t) == t.turnCount = 9 /\ CountedIn(t)
Running ==
    spc # "gone" =>
        /\ \A p \in Players : verdict[p] = "nothing" /\ ~ttt_checkWin(sboard, p)
        /\ ~CountedNine(sboard)

LEMMA MarkedCells ==
    ASSUME NEW t \in Game
    PROVE  Cardinality({n \in 1..9 : t.board[n] # Empty}) = Recount(t).turnCount
<1>1. t.board \in [1..9 -> {"X", "O", Empty}]
  BY DEF Game, Players
<1>2. {n \in 1..9 : t.board[n] # Empty} = Cells(t, "X") \cup Cells(t, "O")
  BY <1>1 DEF Cells, Empty
<1> QED  BY <1>2 DEF Recount

\* What the server finds on board t, for player p.
Found(p, t) ==
    IF ttt_checkWin(t, "X") THEN IF p = "X" THEN "won" ELSE "lost"
    ELSE IF ttt_checkWin(t, "O") THEN IF p = "O" THEN "won" ELSE "lost"
    ELSE IF ttt_isDraw(t) THEN "drew" ELSE "nothing"

\* The results say just that.
LEMMA ResultsSay ==
    ASSUME NEW t, Results(t) # <<>>, NEW i \in {1, 2}, NEW result,
           Says(Results(t)[i].msg, result)
    PROVE  result = Found(Results(t)[i].to, t)
<1>1. /\ Winner("X")[1].to = "X" /\ Winner("X")[1].msg.word = "WIN"
      /\ Winner("X")[2].to = "O" /\ Winner("X")[2].msg.word = "LOSE"
      /\ Winner("O")[1].to = "X" /\ Winner("O")[1].msg.word = "LOSE"
      /\ Winner("O")[2].to = "O" /\ Winner("O")[2].msg.word = "WIN"
  BY DEF Winner, To, Msg
<1>2. Drawn[1] = To("X", Msg("DRAW")) /\ Drawn[2] = To("O", Msg("DRAW"))
  BY DEF Drawn
<1>3. i = 1 \/ i = 2
  OBVIOUS
<1>4. CASE ttt_checkWin(t, "X") /\ Results(t) = Winner("X")
  BY <1>1, <1>3, <1>4 DEF Found, Says
<1>5. CASE ~ttt_checkWin(t, "X") /\ ttt_checkWin(t, "O") /\ Results(t) = Winner("O")
  BY <1>1, <1>3, <1>5 DEF Found, Says
<1>6. CASE /\ ~ttt_checkWin(t, "X") /\ ~ttt_checkWin(t, "O")
           /\ ttt_isDraw(t) /\ Results(t) = Drawn
  BY <1>2, <1>6 DEF Found, Says, To, Msg
<1> QED  BY <1>4, <1>5, <1>6, ResultCases

\* No other message says a result.
LEMMA NoResult ==
    ASSUME NEW result
    PROVE  /\ ~Says(Msg("TURN"), result) /\ ~Says(Msg("WAIT"), result)
           /\ \A m : m.word \in {"MARK", "JUNK"} => ~Says(m, result)
BY DEF Says, Msg

\* Of what goes out after a move, only what follows the move may say a result.
LEMMA ReplySays ==
    ASSUME Current \in Players, NEW m \in ClientMsg, m.word \in {"MARK", "JUNK"},
           NEW q \in Players, NEW r \in {Turn(q), Winner(q), Drawn}
    PROVE  /\ Len(Reply(m, r)) \in Nat
           /\ \A i \in 1..Len(Reply(m, r)) : \A result :
                  Says(Reply(m, r)[i].msg, result) => \E n \in {1, 2} : Reply(m, r)[i] = r[n]
<1> DEFINE msgs == Reply(m, r)
<1>1. Standard \subseteq ClientMsg
  BY DEF Standard, Msg, ClientMsg
<1>2. /\ Len(msgs) = 4 /\ msgs[1] = To(Opponent, m) /\ msgs[2] = To(Current, m)
      /\ msgs[3] = r[1] /\ msgs[4] = r[2]
  BY <1>1, ReplyMail
<1>3. msgs[1].msg = m /\ msgs[2].msg = m
  BY <1>2, ToFields
<1> HIDE DEF msgs
<1>4. ASSUME NEW i \in 1..Len(msgs), NEW result, Says(msgs[i].msg, result)
      PROVE  \E n \in {1, 2} : msgs[i] = r[n]
  <2>1. i = 1 \/ i = 2 \/ i = 3 \/ i = 4
    BY <1>2
  <2>2. ~Says(m, result)
    BY NoResult
  <2> QED  BY <1>2, <1>3, <1>4, <2>1, <2>2
<1>5. Len(msgs) \in Nat
  BY <1>2
<1> QED  BY <1>4, <1>5 DEF msgs

\* What the players have been told after a move.
LEMMA ReceiveMarkTells ==
    ASSUME TypeInv, Running, NEW k, ReceiveMark(k), NEW p \in Players
    PROVE  /\ verdict[p] = "nothing"
           /\ Asks(k) => verdict'[p] = "nothing"
           /\ Plays(k) => verdict'[p] \in {"nothing", Found(p, sboard')}
<1> DEFINE s == toServer[Current]
<1>1. /\ spc = "move" /\ Current \in Players /\ k \in 1..Len(s)
      /\ Asks(k) \/ GoesOn(k) \/ Ends(k)
  BY ReceiveMarkCases DEF TypeInv, Game, Current
<1>2. verdict[p] = "nothing"
  BY <1>1 DEF Running
<1>3. Standard \subseteq ClientMsg
  BY DEF Standard, Msg, ClientMsg
<1>4. ASSUME Asks(k) PROVE verdict'[p] = "nothing"
  <2> DEFINE msgs == Turn(Current)
  <2>1. /\ Len(msgs) = 2 /\ msgs[1].msg = Msg("TURN") /\ msgs[2].msg = Msg("WAIT")
    BY <1>1, <1>3, TurnMail, ToFields
  <2>2. SendAll(msgs, "ack", Drop(s, k))
    BY <1>4 DEF Asks
  <2> HIDE DEF msgs
  <2>3. Len(msgs) \in Nat /\ \A i \in 1..Len(msgs) : i = 1 \/ i = 2
    BY <2>1
  <2>4. \/ verdict'[p] = verdict[p]
        \/ \E i \in 1..Len(msgs) : msgs[i].to = p /\ Says(msgs[i].msg, verdict'[p])
    BY <2>2, <2>3, SendAllTells
  <2> QED  BY <1>2, <2>1, <2>3, <2>4, NoResult
<1>5. ASSUME Plays(k) PROVE Echo(s, k) \in ClientMsg /\ Echo(s, k).word \in {"MARK", "JUNK"}
  BY <1>1, <1>5, EchoType DEF Plays, Echo, Msg
<1>6. ASSUME GoesOn(k) PROVE verdict'[p] = "nothing"
  <2> DEFINE q == sboard'.currentPlayer
             msgs == Reply(Echo(s, k), Turn(q))
  <2>1. q \in Players
    BY ReceiveMarkTypes DEF TypeInv, Game
  <2>2. Turn(q)[1].msg = Msg("TURN") /\ Turn(q)[2].msg = Msg("WAIT")
    BY <1>3, <2>1, TurnMail, ToFields
  <2>3. Echo(s, k) \in ClientMsg /\ Echo(s, k).word \in {"MARK", "JUNK"}
    BY <1>5, <1>6 DEF GoesOn
  <2>4. /\ Len(msgs) \in Nat
        /\ \A i \in 1..Len(msgs) : \A result :
               Says(msgs[i].msg, result) => \E n \in {1, 2} : msgs[i] = Turn(q)[n]
    BY <1>1, <2>1, <2>3, ReplySays
  <2>5. SendAll(msgs, "ack", Drop(s, k))
    BY <1>6 DEF GoesOn
  <2> HIDE DEF msgs, q
  <2>6. \/ verdict'[p] = verdict[p]
        \/ \E i \in 1..Len(msgs) : msgs[i].to = p /\ Says(msgs[i].msg, verdict'[p])
    BY <2>4, <2>5, SendAllTells
  <2>7. \A n \in {1, 2} : ~Says(Turn(q)[n].msg, verdict'[p])
    BY <2>2, NoResult
  <2> QED  BY <1>2, <2>4, <2>6, <2>7
<1>7. ASSUME Ends(k) PROVE verdict'[p] \in {"nothing", Found(p, sboard')}
  <2> DEFINE r == Results(sboard')
             msgs == Reply(Echo(s, k), r)
  <2>1. r # <<>> /\ \E q \in Players : r \in {Turn(q), Winner(q), Drawn}
    <3>1. "X" \in Players /\ "O" \in Players /\ Results(sboard') # <<>>
      BY <1>7, Switch DEF Ends
    <3> QED  BY <3>1, ResultCases
  <2>2. Echo(s, k) \in ClientMsg /\ Echo(s, k).word \in {"MARK", "JUNK"}
    BY <1>5, <1>7 DEF Ends
  <2>3. /\ Len(msgs) \in Nat
        /\ \A i \in 1..Len(msgs) : \A result :
               Says(msgs[i].msg, result) => \E n \in {1, 2} : msgs[i] = r[n]
    BY <1>1, <2>1, <2>2, ReplySays
  <2>4. SendAll(msgs, "gone", Drop(s, k))
    BY <1>7 DEF Ends
  <2> HIDE DEF msgs
  <2>5. \/ verdict'[p] = verdict[p]
        \/ \E i \in 1..Len(msgs) : msgs[i].to = p /\ Says(msgs[i].msg, verdict'[p])
    BY <2>3, <2>4, SendAllTells
  <2>6. ASSUME NEW i \in 1..Len(msgs), msgs[i].to = p, Says(msgs[i].msg, verdict'[p])
        PROVE  verdict'[p] = Found(p, sboard')
    <3>1. PICK n \in {1, 2} : msgs[i] = r[n]
      BY <2>3, <2>6
    <3> QED  BY <2>1, <2>6, <3>1, ResultsSay
  <2> QED  BY <1>2, <2>5, <2>6
<1> QED  BY <1>1, <1>2, <1>4, <1>6, <1>7 DEF Asks, Plays

LEMMA InitRunning == Init => Running
<1> SUFFICES ASSUME Init PROVE Running
  OBVIOUS
<1>1. PICK n \in StartCount : sboard = [ttt_new EXCEPT !.turnCount = n]
  BY DEF Init
<1>2. n \in Nat
  BY GameAssumption
<1>3. /\ sboard.board = [c \in 1..9 |-> Empty] /\ sboard.turnCount = n
      /\ Recount(sboard).turnCount = 0
  BY <1>1, <1>2, NewGame
<1>4. ASSUME NEW p \in Players PROVE ~ttt_checkWin(sboard, p)
  <2>1. Cells(sboard, p) = {}
    BY <1>3 DEF Cells, Players, Empty
  <2>2. \A line \in WinningLines : line # {}
    BY DEF WinningLines
  <2> QED  BY <2>1, <2>2, CheckWinCells
<1>5. ~CountedNine(sboard)
  BY <1>3 DEF CountedNine, CountedIn
<1> QED  BY <1>4, <1>5 DEF Init, Running

LEMMA NextRunning == TypeInv /\ Running /\ [Next]_vars => Running'
<1> SUFFICES ASSUME TypeInv, Running, [Next]_vars PROVE Running'
  OBVIOUS
<1>1. ASSUME spc # "gone", UNCHANGED <<sboard, verdict>> PROVE Running'
  BY <1>1 DEF Running
<1>2. ASSUME spc' = "gone" PROVE Running'
  BY <1>2 DEF Running
<1>3. CASE ReceiveAck
  BY <1>1, <1>3 DEF ReceiveAck
<1>4. ASSUME NEW k, ReceiveMark(k) PROVE Running'
  <2>1. /\ spc = "move"
        /\ Asks(k) \/ GoesOn(k) \/ Ends(k)
        /\ \A p \in Players : /\ verdict[p] = "nothing"
                              /\ Asks(k) => verdict'[p] = "nothing"
                              /\ Plays(k) => verdict'[p] \in {"nothing", Found(p, sboard')}
    BY <1>4, ReceiveMarkCases, ReceiveMarkTells
  <2>2. CASE Asks(k)
    BY <2>1, <2>2 DEF Asks, Running
  <2>3. CASE GoesOn(k)
    <3>1. Results(sboard') = <<>> /\ Plays(k)
      BY <2>3 DEF GoesOn
    <3>2. /\ ~ttt_checkWin(sboard', "X") /\ ~ttt_checkWin(sboard', "O")
          /\ ~ttt_isDraw(sboard')
      BY <3>1, ResultCases DEF Winner, Drawn
    <3>3. sboard'.currentPlayer \in Players
      BY <1>4, ReceiveMarkTypes DEF TypeInv, Game
    <3>4. ~CountedNine(sboard')
      BY <3>2, <3>3 DEF ttt_isDraw, CountedNine, Players
    <3>5. \A p \in Players : verdict'[p] = "nothing" /\ ~ttt_checkWin(sboard', p)
      BY <2>1, <3>1, <3>2 DEF Found, Players
    <3> QED  BY <3>4, <3>5 DEF Running
  <2>4. CASE Ends(k)
    <3>1. Exit
      BY <2>4, SendAllGoesOn DEF Ends
    <3> QED  BY <1>2, <3>1 DEF Exit
  <2> QED  BY <2>1, <2>2, <2>3, <2>4
<1>5. CASE PlayerGone \/ ServerKilled
  BY <1>2, <1>5 DEF PlayerGone, ServerKilled, Exit
<1>6. ASSUME UNCHANGED <<sboard, spc, verdict>> PROVE Running'
  BY <1>6 DEF Running
<1>7. ASSUME NEW p \in Players, ClientRuns(p) \/ ClientKilled(p) PROVE Running'
  BY <1>6, <1>7 DEF ClientRuns, ServerGone, Receive, ClientKilled
<1>8. ASSUME NEW p \in Players, NEW line \in Allowed(p), Type(p, line) PROVE Running'
  BY <1>6, <1>8 DEF Type
<1>9. CASE UNCHANGED vars
  BY <1>6, <1>9 DEF vars
<1> QED  BY <1>3, <1>4, <1>5, <1>7, <1>8, <1>9 DEF Next, ServerRuns

(***************************************************************************)
(* Board and Results as the rules see them.                                *)
(***************************************************************************)
Learnt   == [p \in Players |-> IF verdict[p] = "drew" /\ ~Counted THEN "nothing" ELSE verdict[p]]

LEMMA RuleWins ==
    ASSUME NEW t, NEW p
    PROVE  Rules!Wins(p, t.board) <=> ttt_checkWin(t, p)
<1>1. Rules!Rows \cup Rules!Columns \cup Rules!Diagonals = WinningLines
  BY DEF Rules!Rows, Rules!Columns, Rules!Diagonals, WinningLines
<1> QED  BY <1>1, CheckWinCells DEF Rules!Wins, Rules!MarkedBy, Cells

LEMMA RuleOther == Rules!Other("X") = "O" /\ Rules!Other("O") = "X"
BY DEF Rules!Other

LEMMA RuleTurn ==
    ASSUME NEW t, InTurns(Recount(t))
    PROVE  Rules!Turn(t.board) = t.currentPlayer
<1> DEFINE r == Recount(t)
<1>1. r.board = t.board /\ r.currentPlayer = t.currentPlayer
  BY DEF Recount
<1>2. \A p : Rules!MarkedBy(p, t.board) = Cells(r, p)
  BY <1>1 DEF Rules!MarkedBy, Cells
<1>3. \A S : Rules!Cardinality(S) = Cardinality(S)
  BY DEF Rules!Cardinality, Cardinality
<1> HIDE DEF r
<1>4. r.currentPlayer = IF Cardinality(Cells(r, "X")) = Cardinality(Cells(r, "O"))
                        THEN "X" ELSE "O"
  BY TurnSeen DEF r
<1> QED  BY <1>1, <1>2, <1>3, <1>4 DEF Rules!Turn

LEMMA RuleFull ==
    ASSUME NEW t, InTurns(Recount(t))
    PROVE  Rules!Full(t.board) <=> Recount(t).turnCount = 9
<1>1. Recount(t).turnCount = 9 <=> \A n \in 1..9 : Recount(t).board[n] # Empty
  BY FullBoard
<1>2. Recount(t).board = t.board
  BY DEF Recount
<1> QED  BY <1>1, <1>2 DEF Rules!Full, Rules!MarkedBy, Empty

\* What the server finds is the result by the rules: a win is one player's only, and
\* a draw is found on a full board, if the turns are counted right.
LEMMA FoundRight ==
    ASSUME NEW t, InTurns(Recount(t)), ~(ttt_checkWin(t, "X") /\ ttt_checkWin(t, "O")),
           NEW p \in Players, Found(p, t) = "drew" => CountedIn(t),
           Found(p, t) # "nothing"
    PROVE  Rules!Result(p, t.board) = Found(p, t)
<1>1. p = "X" \/ p = "O"
  BY DEF Players
<1>2. CASE ttt_checkWin(t, "X") \/ ttt_checkWin(t, "O")
  BY <1>1, <1>2, RuleWins, RuleOther DEF Rules!Result, Found
<1>3. CASE ~ttt_checkWin(t, "X") /\ ~ttt_checkWin(t, "O")
  <2>1. Found(p, t) = "drew" /\ ttt_isDraw(t)
    BY <1>3 DEF Found
  <2>2. t.turnCount = 9 /\ CountedIn(t)
    BY <2>1 DEF ttt_isDraw
  <2>3. Rules!Full(t.board)
    BY <2>2, RuleFull DEF CountedIn
  <2> QED  BY <1>1, <1>3, <2>1, <2>3, RuleWins, RuleOther DEF Rules!Result
<1> QED  BY <1>2, <1>3

\* A move can make a line for the player who moves only.
LEMMA OnlyMoverWins ==
    ASSUME NEW t \in Game, ~ttt_checkWin(t, "X"), ~ttt_checkWin(t, "O"),
           NEW n, Legal(t, n)
    PROVE  LET u == ttt_makeMove(t, n) IN ~(ttt_checkWin(u, "X") /\ ttt_checkWin(u, "O"))
<1> DEFINE u == ttt_makeMove(t, n)
           q == ttt_switchPlayer(t.currentPlayer)
<1>1. /\ t.currentPlayer \in Players /\ n \in 1..9 /\ t.board[n] = Empty
      /\ t.board \in [1..9 -> Players \cup {Empty}]
  BY DEF Game, Legal
<1>2. q \in Players /\ q # t.currentPlayer
  BY <1>1, Switch
<1>3. u.board = [t.board EXCEPT ![n] = t.currentPlayer]
  BY DEF ttt_makeMove
<1>4. q # Empty /\ (q = "X" \/ q = "O")
  BY <1>2 DEF Players, Empty
<1> HIDE DEF u, q
<1>5. Cells(u, q) = Cells(t, q)
  BY <1>1, <1>2, <1>3, <1>4 DEF Cells
<1>6. ~ttt_checkWin(t, q)
  BY <1>4
<1>7. ~ttt_checkWin(u, q)
  BY <1>5, <1>6, CheckWinCells
<1>8. ~(ttt_checkWin(u, "X") /\ ttt_checkWin(u, "O"))
  BY <1>4, <1>7
<1> QED  BY <1>8 DEF u

\* A step of the rules, in terms of the board and of what the players have learnt.
LEMMA MarkStep ==
    ASSUME NEW n \in 1..9, sboard.board[n] = " ",
           Rules!Result("X", sboard.board) = "nothing",
           sboard'.board = [sboard.board EXCEPT ![n] = Rules!Turn(sboard.board)],
           \A p \in Players : Learnt[p] = "nothing",
           \A p \in Players :
               Learnt'[p] # "nothing" => Learnt'[p] = Rules!Result(p, sboard'.board)
    PROVE  Rules!Next
<1> DEFINE b  == [sboard.board EXCEPT ![n] = Rules!Turn(sboard.board)]
           at == {p \in Players : Learnt'[p] # "nothing"}
<1>1. at \in SUBSET {"X", "O"}
  BY DEF Players
<1>2. Learnt' = [p \in Players |-> Learnt'[p]]
  BY DEF Learnt
<1>3. \A p \in Players : Learnt'[p] = IF p \in at THEN Rules!Result(p, b) ELSE Learnt[p]
  OBVIOUS
<1>4. Learnt' = [p \in Players |-> IF p \in at THEN Rules!Result(p, b) ELSE Learnt[p]]
  <2> HIDE DEF at, b
  <2> QED  BY <1>2, <1>3
<1>5. Learnt' = [p \in {"X", "O"} |-> IF p \in at THEN Rules!Result(p, b) ELSE Learnt[p]]
  BY <1>4 DEF Players
<1> HIDE DEF at
<1>6. Rules!Mark(n)
  BY <1>1, <1>5 DEF Rules!Mark, Learnt
<1> QED  BY <1>6 DEF Rules!Next

LEMMA ReceiveMarkRefines ==
    ASSUME TypeInv, TypeInv', Running, NEW k, ReceiveMark(k)
    PROVE  Rules!Next \/ UNCHANGED <<sboard.board, Learnt>>
<1> DEFINE n == Head(toServer[Current]).move
<1>1. /\ spc = "move"
      /\ Asks(k) \/ Plays(k)
      /\ \A p \in Players : /\ verdict[p] = "nothing"
                            /\ Asks(k) => verdict'[p] = "nothing"
                            /\ Plays(k) => verdict'[p] \in {"nothing", Found(p, sboard')}
  BY ReceiveMarkCases, ReceiveMarkTells DEF GoesOn, Ends
<1>2. /\ ~ttt_checkWin(sboard, "X") /\ ~ttt_checkWin(sboard, "O")
      /\ ~CountedNine(sboard) /\ sboard \in Game /\ InTurns(Recount(sboard))
  BY <1>1 DEF Running, TypeInv, Players
<1>3. \A p \in Players : Learnt[p] = "nothing"
  BY <1>1 DEF Learnt
<1>4. Counted' <=> CountedIn(sboard')
  BY MarkedCells DEF TypeInv, Counted, CountedIn
\* Refused: nothing is found, but for a draw that was miscounted.
<1>5. ASSUME sboard' = sboard PROVE UNCHANGED <<sboard.board, Learnt>>
  <2>1. ASSUME NEW p \in Players PROVE Learnt'[p] = "nothing"
    <3>1. CASE verdict'[p] = "nothing"
      BY <3>1 DEF Learnt
    <3>2. CASE verdict'[p] = Found(p, sboard) /\ verdict'[p] # "nothing"
      <4>1. verdict'[p] = "drew" /\ ttt_isDraw(sboard)
        BY <1>2, <3>2 DEF Found
      <4>2. ~CountedIn(sboard')
        BY <1>2, <1>5, <4>1 DEF CountedNine, ttt_isDraw
      <4> QED  BY <1>4, <4>1, <4>2 DEF Learnt
    <3> QED  BY <1>1, <1>5, <3>1, <3>2
  <2>2. Learnt = [p \in Players |-> Learnt[p]] /\ Learnt' = [p \in Players |-> Learnt'[p]]
    BY DEF Learnt
  <2>3. Learnt' = Learnt
    BY <1>3, <2>1, <2>2
  <2> QED  BY <1>5, <2>3
\* Played: the player whose turn it is marks the cell.
<1>6. ASSUME Plays(k), Legal(sboard, n) PROVE Rules!Next
  <2>1. sboard' = ttt_makeMove(sboard, n)
    BY <1>6 DEF Plays
  <2>2. /\ n \in 1..9 /\ sboard.board[n] = Empty /\ InTurns(Recount(sboard'))
        /\ sboard'.board = [sboard.board EXCEPT ![n] = sboard.currentPlayer]
    BY <1>2, <1>6, <2>1, ServerMoves
  <2>3. sboard'.board = [sboard.board EXCEPT ![n] = Rules!Turn(sboard.board)]
    BY <1>2, <2>2, RuleTurn
  <2>4. Rules!Result("X", sboard.board) = "nothing"
    <3>1. ~Rules!Full(sboard.board)
      BY <2>2 DEF Rules!Full, Rules!MarkedBy, Empty
    <3> QED  BY <1>2, <3>1, RuleWins, RuleOther DEF Rules!Result
  <2>5. ~(ttt_checkWin(sboard', "X") /\ ttt_checkWin(sboard', "O"))
    BY <1>2, <1>6, <2>1, OnlyMoverWins
  <2>6. ASSUME NEW p \in Players, Learnt'[p] # "nothing"
        PROVE  Learnt'[p] = Rules!Result(p, sboard'.board)
    <3>1. /\ Learnt'[p] = verdict'[p] /\ verdict'[p] # "nothing"
          /\ verdict'[p] = "drew" => CountedIn(sboard')
      BY <1>4, <2>6 DEF Learnt
    <3>2. verdict'[p] = Found(p, sboard')
      BY <1>1, <1>6, <3>1
    <3> QED  BY <2>2, <2>5, <3>1, <3>2, FoundRight
  <2>7. sboard.board[n] = " "
    BY <2>2 DEF Empty
  <2> HIDE DEF n
  <2> QED  BY <1>3, <2>2, <2>3, <2>4, <2>6, <2>7, MarkStep
<1>7. ASSUME Plays(k), ~Legal(sboard, n) PROVE sboard' = sboard
  BY <1>7 DEF Plays, ttt_makeMove
<1>8. Asks(k) => sboard' = sboard
  BY DEF Asks
<1> QED  BY <1>1, <1>5, <1>6, <1>7, <1>8

LEMMA Refines ==
    ASSUME TypeInv, TypeInv', Running, [Next]_vars
    PROVE  Rules!Next \/ UNCHANGED <<sboard.board, Learnt>>
<1>1. ASSUME UNCHANGED <<sboard, verdict>> PROVE UNCHANGED <<sboard.board, Learnt>>
  BY <1>1 DEF Learnt, Counted
<1>2. ASSUME NEW k, ReceiveMark(k) PROVE Rules!Next \/ UNCHANGED <<sboard.board, Learnt>>
  BY <1>2, ReceiveMarkRefines
<1>3. CASE ReceiveAck \/ PlayerGone \/ ServerKilled
  BY <1>1, <1>3 DEF ReceiveAck, PlayerGone, ServerKilled
<1>4. ASSUME NEW p \in Players,
             ClientRuns(p) \/ ClientKilled(p) \/ \E line \in Allowed(p) : Type(p, line)
      PROVE  UNCHANGED <<sboard.board, Learnt>>
  BY <1>1, <1>4 DEF ClientRuns, ServerGone, Receive, ClientKilled, Type
<1>5. CASE UNCHANGED vars
  BY <1>1, <1>5 DEF vars
<1> QED  BY <1>2, <1>3, <1>4, <1>5 DEF Next, ServerRuns

LEMMA InitRefines == Init => Rules!Init
<1> SUFFICES ASSUME Init PROVE Rules!Init
  OBVIOUS
<1>1. PICK n \in StartCount : sboard = [ttt_new EXCEPT !.turnCount = n]
  BY DEF Init
<1>2. n \in Nat
  BY GameAssumption
<1>3. sboard.board = [c \in 1..9 |-> " "]
  BY <1>1, <1>2, NewGame DEF Empty
<1>4. Learnt = [p \in {"X", "O"} |-> "nothing"]
  BY DEF Init, Learnt, Players
<1> QED  BY <1>3, <1>4 DEF Rules!Init, Learnt

\* The server's board is that of one game by the rules, and the results it sends are
\* those of that board, whatever is typed and whatever turnCount holds at the start.
THEOREM ServerPlaysByTheRules == Spec => ServerByTheRules
<1>1. Init => TypeInv /\ Running
  BY InitTypes, InitRunning
<1>2. TypeInv /\ Running /\ [Next]_vars => (TypeInv /\ Running)'
  BY NextTypes, NextRunning
<1>3. TypeInv /\ TypeInv' /\ Running /\ [Next]_vars =>
          [Rules!Next]_<<sboard.board, Learnt>>
  BY Refines
<1>4. Spec => Rules!Init /\ [][Rules!Next]_<<sboard.board, Learnt>>
  BY <1>1, <1>2, <1>3, InitRefines, PTL DEF Spec
<1> QED  BY <1>4, PTL DEF ServerByTheRules, Rules!Spec, Learnt
(***************************************************************************)
(* What a sequence of messages makes of a game.  Played is defined by      *)
(* recursion; what is shown by induction takes the least number for which  *)
(* it would fail.                                                          *)
(***************************************************************************)
\* One message.
Played1(t, m) == IF m.word = "MARK" THEN ttt_makeMove(t, m.move) ELSE t

\* g is the game after each of the first N messages.
Goes(g, N, t, s) ==
    g = [n \in 0..N |-> IF n = 0 THEN t ELSE Played1(g[n - 1], s[n])]

\* Two functions that agree at 0, and at n if they do at n - 1, ...
Alike(f, g, N) ==
    f[0] = g[0] /\ \A n \in 1..N : f[n - 1] = g[n - 1] => f[n] = g[n]

\* ... agree everywhere.
LEMMA Agree ==
    ASSUME NEW N \in Nat, NEW f, NEW g, Alike(f, g, N)
    PROVE  \A n \in 0..N : f[n] = g[n]
<1> DEFINE Differ == {n \in 0..N : f[n] # g[n]}
           Less == {ss \in Nat \X Nat : ss[1] < ss[2]}
<1> SUFFICES ASSUME Differ # {} PROVE FALSE
  OBVIOUS
<1>1. PICK n \in Differ : \A m \in Differ : <<m, n>> \notin Less
  <2>1. IsWellFoundedOn(Less, Nat)
    BY NatLessThanWellFounded, Zenon DEF OpToRel
  <2>2. Differ \subseteq Nat
    OBVIOUS
  <2> HIDE DEF Differ, Less
  <2> QED  BY <2>1, <2>2, WFMin
<1>2. n \in 1..N /\ n - 1 \in 0..N /\ <<n - 1, n>> \in Less
  <2>1. n # 0
    BY <1>1 DEF Alike
  <2> QED  BY <1>1, <2>1
<1>3. n - 1 \notin Differ
  BY <1>1, <1>2, Zenon
<1>4. f[n - 1] = g[n - 1] /\ f[n] # g[n]
  BY <1>1, <1>2, <1>3
<1> QED  BY <1>2, <1>4 DEF Alike

LEMMA GoesOnce ==
    ASSUME NEW t, NEW s, NEW n \in Nat, NEW g, Goes(g, n, t, s)
    PROVE  \E f : Goes(f, n + 1, t, s)
<1> DEFINE next == Played1(g[n], s[n + 1])
           f == [m \in 0..(n + 1) |-> IF m = n + 1 THEN next ELSE g[m]]
<1> HIDE DEF next
<1>1. \A m \in 0..n : g[m] = IF m = 0 THEN t ELSE Played1(g[m - 1], s[m])
  BY DEF Goes
<1>2. \A m \in 0..(n + 1) : f[m] = IF m = 0 THEN t ELSE Played1(f[m - 1], s[m])
  <2> TAKE m \in 0..(n + 1)
  <2>1. CASE m = n + 1
    <3>1. f[m] = next /\ m # 0 /\ f[m - 1] = g[n]
      BY <2>1
    <3> HIDE DEF f
    <3> QED  BY <2>1, <3>1 DEF next
  <2>2. CASE m # n + 1
    <3>1. m \in 0..n /\ f[m] = g[m]
      BY <2>2
    <3>2. m # 0 => f[m - 1] = g[m - 1]
      BY <3>1
    <3> HIDE DEF f
    <3> QED  BY <1>1, <3>1, <3>2
  <2> QED  BY <2>1, <2>2
<1>3. f = [m \in 0..(n + 1) |-> f[m]]
  OBVIOUS
<1> HIDE DEF f
<1>4. Goes(f, n + 1, t, s)
  BY <1>2, <1>3 DEF Goes
<1> QED  BY <1>4

LEMMA SomeGame ==
    ASSUME NEW t, NEW s, NEW N \in Nat
    PROVE  \E g : Goes(g, N, t, s)
<1> DEFINE Without == {n \in Nat : ~ \E g : Goes(g, n, t, s)}
           Less == {ss \in Nat \X Nat : ss[1] < ss[2]}
<1> SUFFICES ASSUME Without # {} PROVE FALSE
  OBVIOUS
<1>1. PICK n \in Without : \A m \in Without : <<m, n>> \notin Less
  <2>1. IsWellFoundedOn(Less, Nat)
    BY NatLessThanWellFounded, Zenon DEF OpToRel
  <2>2. Without \subseteq Nat
    OBVIOUS
  <2> HIDE DEF Without, Less
  <2> QED  BY <2>1, <2>2, WFMin
<1>2. CASE n = 0
  <2> DEFINE f == [m \in {0} |-> t]
  <2>1. 0..0 = {0}
    OBVIOUS
  <2>2. f = [m \in {0} |-> IF m = 0 THEN t ELSE Played1(f[m - 1], s[m])]
    OBVIOUS
  <2>3. Goes(f, 0, t, s)
    BY <2>1, <2>2 DEF Goes
  <2> QED  BY <1>1, <1>2, <2>3
<1>3. CASE n # 0
  <2>1. n - 1 \in Nat /\ <<n - 1, n>> \in Less
    BY <1>1, <1>3
  <2>2. n - 1 \notin Without
    BY <1>1, <2>1, Zenon
  <2>3. PICK g : Goes(g, n - 1, t, s)
    BY <2>1, <2>2
  <2>4. \E f : Goes(f, (n - 1) + 1, t, s)
    BY <2>1, <2>3, GoesOnce
  <2>5. (n - 1) + 1 = n
    BY <1>1
  <2> QED  BY <1>1, <2>4, <2>5
<1> QED  BY <1>2, <1>3

\* g is the game after each of the first N messages, as Goes has it.
Course(g, N, t, s) == g[0] = t /\ \A n \in 1..N : g[n] = Played1(g[n - 1], s[n])

LEMMA PlayedIs ==
    ASSUME NEW t, NEW s, Len(s) \in Nat
    PROVE  \E g : Course(g, Len(s), t, s) /\ Played(t, s) = g[Len(s)]
<1>1. PICK g : Goes(g, Len(s), t, s)
  BY SomeGame
<1> DEFINE h == CHOOSE f : Goes(f, Len(s), t, s)
<1>2. Played(t, s) = h[Len(s)]
  BY Zenon DEF Played, Goes, Played1
<1>3. Goes(h, Len(s), t, s)
  BY <1>1
<1> HIDE DEF h
<1>4. Course(h, Len(s), t, s)
  BY <1>3 DEF Goes, Course
<1> QED  BY <1>2, <1>4

\* Messages that are no moves change nothing.
LEMMA NoMovesPlayed ==
    ASSUME NEW t, NEW s, Len(s) \in Nat, \A i \in 1..Len(s) : s[i].word # "MARK"
    PROVE  Played(t, s) = t
<1>1. PICK g : Course(g, Len(s), t, s) /\ Played(t, s) = g[Len(s)]
  BY PlayedIs
<1> DEFINE f == [n \in 0..Len(s) |-> t]
<1>2. \A n \in 1..Len(s) : f[n] = f[n - 1] /\ g[n] = g[n - 1]
  BY <1>1 DEF Played1, Course
<1>3. g[0] = f[0] /\ f[Len(s)] = t
  BY <1>1 DEF Course
<1> HIDE DEF f
<1>4. Alike(g, f, Len(s))
  BY <1>2, <1>3 DEF Alike
<1>5. \A n \in 0..Len(s) : g[n] = f[n]
  BY <1>4, Agree
<1> QED  BY <1>1, <1>3, <1>5

\* The last message is played last.
LEMMA PlayedLast ==
    ASSUME NEW S, NEW t, NEW s \in Seq(S), NEW m \in S
    PROVE  Played(t, s \o <<m>>) = Played1(Played(t, s), m)
<1> DEFINE N == Len(s)
           r == s \o <<m>>
<1>1. /\ N \in Nat /\ Len(r) = N + 1 /\ r[N + 1] = m
      /\ \A i \in 1..N : r[i] = s[i]
  BY One, ConcatProperties
<1> HIDE DEF N, r
<1>2. PICK f : Course(f, N + 1, t, r) /\ Played(t, r) = f[N + 1]
  <2>1. Len(r) \in Nat
    BY <1>1
  <2> QED  BY <1>1, <2>1, PlayedIs
<1>3. PICK g : Course(g, N, t, s) /\ Played(t, s) = g[N]
  BY <1>1, PlayedIs DEF N
<1>4. Alike(f, g, N)
  <2>1. \A n \in 1..N : n \in 1..(N + 1)
    BY <1>1
  <2> QED  BY <1>1, <1>2, <1>3, <2>1 DEF Alike, Course
<1>5. f[N] = g[N]
  <2>1. N \in 0..N
    BY <1>1
  <2> QED  BY <1>1, <1>4, <2>1, Agree
<1>6. N + 1 \in 1..(N + 1) /\ (N + 1) - 1 = N
  BY <1>1
<1>7. f[N + 1] = Played1(f[N], m)
  BY <1>1, <1>2, <1>6 DEF Course
<1> QED  BY <1>2, <1>3, <1>5, <1>7 DEF r

\* d is what is behind the first k messages of s; it is played on what these make of
\* the game.
Behind(d, k, s) == /\ Len(d) \in Nat /\ Len(s) = k + Len(d)
                   /\ \A i \in 1..Len(d) : d[i] = s[k + i]

LEMMA PlayedRest ==
    ASSUME NEW t, NEW s, NEW d, NEW k \in Nat, Behind(d, k, s),
           NEW f, Course(f, k, t, s)
    PROVE  Played(f[k], d) = Played(t, s)
<1> DEFINE D == Len(d)
<1>0. D \in Nat /\ Len(s) = k + D /\ Len(s) \in Nat
  BY DEF Behind
<1>1. PICK g : Course(g, k + D, t, s) /\ Played(t, s) = g[k + D]
  BY <1>0, PlayedIs
<1>2. PICK h : Course(h, D, f[k], d) /\ Played(f[k], d) = h[D]
  BY <1>0, PlayedIs
<1> HIDE DEF D
<1>3. f[k] = g[k]
  <2>1. \A n \in 1..k : n \in 1..(k + D)
    BY <1>0
  <2>2. Alike(f, g, k)
    BY <1>1, <2>1 DEF Alike, Course
  <2>3. k \in 0..k
    OBVIOUS
  <2> QED  BY <2>2, <2>3, Agree
<1> DEFINE e == [n \in 0..D |-> g[k + n]]
<1>4. e[0] = g[k] /\ e[D] = g[k + D]
  BY <1>0
<1>5. \A n \in 1..D : e[n] = Played1(e[n - 1], d[n])
  <2> TAKE n \in 1..D
  <2>1. /\ k + n \in 1..(k + D) /\ n \in 0..D /\ n - 1 \in 0..D
        /\ k + (n - 1) = (k + n) - 1
    BY <1>0
  <2>2. e[n] = g[k + n] /\ e[n - 1] = g[(k + n) - 1]
    BY <2>1
  <2>3. d[n] = s[k + n]
    BY DEF Behind, D
  <2> HIDE DEF e
  <2> QED  BY <1>1, <2>1, <2>2, <2>3 DEF Course
<1> HIDE DEF e
<1>6. Alike(h, e, D)
  BY <1>2, <1>3, <1>4, <1>5 DEF Alike, Course
<1>7. h[D] = e[D]
  <2>1. D \in 0..D
    BY <1>0
  <2> QED  BY <1>0, <1>6, <2>1, Agree
<1> QED  BY <1>1, <1>2, <1>4, <1>7

\* A recv that takes no move, and one that takes one message.
LEMMA PlayedDrop ==
    ASSUME NEW S, NEW t, NEW s \in Seq(S), NEW k \in 1..Len(s)
    PROVE  /\ (\A i \in 1..k : s[i].word # "MARK") => Played(t, Drop(s, k)) = Played(t, s)
           /\ k = 1 => Played(Played1(t, s[1]), Drop(s, k)) = Played(t, s)
<1> DEFINE d == Drop(s, k)
<1>1. /\ Len(s) \in Nat /\ k \in Nat /\ Len(d) = Len(s) - k
      /\ \A i \in 1..(Len(s) - k) : d[i] = s[k + i]
  BY Dropped, LenProperties
<1> HIDE DEF d
<1>2. Behind(d, k, s)
  <2>1. Len(s) - k \in Nat /\ Len(s) = k + (Len(s) - k)
    BY <1>1
  <2> QED  BY <1>1, <2>1, Zenon DEF Behind
<1>3. ASSUME \A i \in 1..k : s[i].word # "MARK"
      PROVE  Played(t, d) = Played(t, s)
  <2> DEFINE f == [n \in 0..k |-> t]
  <2>1. f[k] = t /\ Course(f, k, t, s)
    BY <1>1, <1>3 DEF Played1, Course
  <2> HIDE DEF f
  <2>2. Played(f[k], d) = Played(t, s)
    BY <1>1, <1>2, <2>1, PlayedRest
  <2> QED  BY <2>1, <2>2
<1>4. ASSUME k = 1
      PROVE  Played(Played1(t, s[1]), d) = Played(t, s)
  <2> DEFINE f == [n \in 0..1 |-> IF n = 0 THEN t ELSE Played1(t, s[1])]
  <2>1. f[k] = Played1(t, s[1]) /\ Course(f, k, t, s)
    <3>1. f[0] = t /\ f[1] = Played1(t, s[1])
      OBVIOUS
    <3> HIDE DEF f
    <3>2. \A n \in 1..k : n = 1 /\ n - 1 = 0
      BY <1>4
    <3> QED  BY <1>4, <3>1, <3>2 DEF Course
  <2> HIDE DEF f
  <2>2. Played(f[k], d) = Played(t, s)
    BY <1>1, <1>2, <2>1, PlayedRest
  <2> QED  BY <2>1, <2>2
<1> QED  BY <1>3, <1>4 DEF d

\* What the buffer has cut is no move.
LEMMA PlayedCut ==
    ASSUME NEW S, NEW t, NEW d \in Seq(S), Rest \in S
    PROVE  Played(t, <<Rest>> \o d) = Played(t, d)
<1> DEFINE s == <<Rest>> \o d
           f == [n \in 0..1 |-> t]
<1>1. /\ Len(d) \in Nat /\ Len(s) = 1 + Len(d)
      /\ \A i \in 1..(1 + Len(d)) : s[i] = IF i <= 1 THEN <<Rest>>[i] ELSE d[i - 1]
  <2>1. <<Rest>> \in Seq(S) /\ Len(<<Rest>>) = 1
    BY One
  <2> QED  BY <2>1, ConcatProperties, LenProperties
<1> HIDE DEF s
<1>2. Behind(d, 1, s)
  BY <1>1 DEF Behind
<1>3. s[1] = Rest
  BY <1>1
<1>4. f[1] = t /\ Course(f, 1, t, s)
  BY <1>3 DEF Played1, Rest, Msg, Course
<1> HIDE DEF f
<1>5. Played(f[1], d) = Played(t, s)
  BY <1>2, <1>4, PlayedRest
<1> QED  BY <1>4, <1>5 DEF s

(***************************************************************************)
(* The copies.  While nothing is dropped or mistyped at most one line is   *)
(* on its way to the server, a plain MARK from the player to move; so what *)
(* the server sends on is the only move the other has to play, and the one *)
(* who typed it has played it already.                                     *)
(***************************************************************************)
Lone(s)    == /\ \A i, j \in DOMAIN s : IsLine(s[i]) /\ IsLine(s[j]) => i = j
              /\ \A i \in DOMAIN s : s[i].word # Trailed
OneLine(p) == Lone(toServer[p]) /\ (p # Current => ~HasLine(toServer[p]))

\* The same marks and the same player to move; turnCount is the server's own.
SameGame(t, u) == t.board = u.board /\ t.currentPlayer = u.currentPlayer

Clean  == spoilt = {} /\ spc # "gone"
Copies == Clean => \A p \in Players :
              OneLine(p) /\ (cpc[p] # "gone" => SameGame(Replay(p), Expected(p)))

LEMMA CopiesImply == Copies => InStep
BY DEF Copies, Clean, InStep, SameGame

\* A move is played alike on boards that are alike, and not twice.
LEMMA SameMove ==
    ASSUME NEW t, NEW u, SameGame(t, u), NEW m
    PROVE  SameGame(Played1(t, m), Played1(u, m))
BY DEF SameGame, Played1, ttt_makeMove, Legal

LEMMA MoveTwice ==
    ASSUME NEW t, t.board \in [1..9 -> Players \cup {Empty}], t.currentPlayer \in Players,
           NEW m, NEW u, SameGame(u, Played1(t, m))
    PROVE  Played1(u, m) = u
<1>1. CASE m.word # "MARK"
  BY <1>1 DEF Played1
<1>2. CASE m.word = "MARK"
  <2>1. u.board = ttt_makeMove(t, m.move).board
    BY <1>2 DEF SameGame, Played1
  <2>2. Empty \notin Players
    BY Zenon DEF Empty, Players
  <2>3. ~Legal(u, m.move)
    BY <2>1, <2>2 DEF ttt_makeMove, Legal
  <2> QED  BY <2>3 DEF Played1, ttt_makeMove
<1> QED  BY <1>1, <1>2

\* Lines among what a recv leaves, and what is sent.
LEMMA LoneDrop ==
    ASSUME NEW s \in Seq(ServerMsg), NEW k \in 1..Len(s), Lone(s)
    PROVE  /\ Lone(Drop(s, k)) /\ Lone(<<Rest>> \o Drop(s, k))
           /\ HasLine(Drop(s, k)) => HasLine(s) /\ ~IsLine(s[1])
           /\ HasLine(<<Rest>> \o Drop(s, k)) => HasLine(s)
<1> DEFINE d == Drop(s, k)
           r == <<Rest>> \o d
<1>1. /\ Len(s) \in Nat /\ DOMAIN s = 1..Len(s) /\ k \in Nat
      /\ d \in Seq(ServerMsg) /\ Len(d) = Len(s) - k /\ DOMAIN d = 1..(Len(s) - k)
      /\ \A i \in 1..(Len(s) - k) : d[i] = s[k + i]
  <2>1. d \in Seq(ServerMsg) /\ Len(d) = Len(s) - k
    BY Dropped
  <2>2. \A i \in 1..(Len(s) - k) : d[i] = s[k + i]
    BY Dropped
  <2> HIDE DEF d
  <2>3. DOMAIN d = 1..(Len(s) - k)
    BY <2>1, LenProperties
  <2>4. Len(s) \in Nat /\ DOMAIN s = 1..Len(s)
    BY LenProperties
  <2>5. k \in Nat
    BY <2>4
  <2> QED  BY <2>1, <2>2, <2>3, <2>4, <2>5
<1> HIDE DEF d
<1>2. /\ Len(d) = Len(s) - k /\ DOMAIN r = 1..(Len(d) + 1)
      /\ \A i \in DOMAIN r : i # 1 => i - 1 \in DOMAIN d /\ r[i] = d[i - 1]
      /\ ~IsLine(r[1])
  <2>1. <<Rest>> \in Seq(ServerMsg) /\ Len(<<Rest>>) = 1 /\ <<Rest>>[1] = Rest
    BY One DEF ServerMsg
  <2>2. Len(d) = Len(s) - k /\ Len(d) \in Nat
    BY <1>1, LenProperties
  <2>3. /\ r \in Seq(ServerMsg) /\ Len(r) = 1 + Len(d)
        /\ \A i \in 1..(1 + Len(d)) : r[i] = IF i <= 1 THEN <<Rest>>[i] ELSE d[i - 1]
    BY <1>1, <2>1, ConcatProperties
  <2> HIDE DEF r
  <2>4. DOMAIN r = 1..(Len(d) + 1)
    BY <2>2, <2>3, LenProperties
  <2>5. r[1] = Rest
    BY <2>1, <2>2, <2>3
  <2>6. \A i \in DOMAIN r : i # 1 => i - 1 \in DOMAIN d /\ r[i] = d[i - 1]
    BY <1>1, <2>2, <2>3, <2>4
  <2> QED  BY <2>2, <2>4, <2>5, <2>6 DEF Rest, Msg, IsLine, Glued, Trailed
<1> HIDE DEF r
<1>3. \A i \in DOMAIN d : k + i \in DOMAIN s /\ d[i] = s[k + i] /\ k + i # 1
  BY <1>1
<1>4. Lone(d)
  BY <1>1, <1>3 DEF Lone
<1>6. \A i \in DOMAIN r : r[i].word # Trailed
  BY <1>2, <1>4 DEF Lone, IsLine
<1>5. Lone(r)
  <2> SUFFICES ASSUME NEW i \in DOMAIN r, NEW j \in DOMAIN r, IsLine(r[i]), IsLine(r[j])
               PROVE  i = j
    BY <1>6 DEF Lone
  <2>1. i # 1 /\ j # 1
    BY <1>2
  <2>2. /\ i - 1 \in DOMAIN d /\ IsLine(d[i - 1])
        /\ j - 1 \in DOMAIN d /\ IsLine(d[j - 1])
    BY <1>2, <2>1
  <2>3. i - 1 = j - 1
    BY <1>4, <2>2 DEF Lone
  <2> QED  BY <1>2, <2>3
<1>8. HasLine(d) => HasLine(s) /\ ~IsLine(s[1])
  <2> SUFFICES ASSUME NEW i \in DOMAIN d, IsLine(d[i])
               PROVE  HasLine(s) /\ ~IsLine(s[1])
    BY DEF HasLine
  <2>1. k + i \in DOMAIN s /\ IsLine(s[k + i]) /\ k + i # 1
    BY <1>3
  <2>2. 1 \in DOMAIN s
    BY <1>1
  <2> QED  BY <2>1, <2>2 DEF HasLine, Lone
<1>7. HasLine(r) => HasLine(d)
  BY <1>2 DEF HasLine
<1> QED  BY <1>4, <1>5, <1>7, <1>8 DEF d, r

LEMMA LoneSent ==
    ASSUME NEW s \in Seq(ServerMsg), NEW m \in ServerMsg
    PROVE  /\ ~IsLine(m) /\ Lone(s) => Lone(s \o <<m>>)
           /\ ~IsLine(m) /\ HasLine(s \o <<m>>) => HasLine(s)
           /\ ~HasLine(s) /\ m.word # Trailed => Lone(s \o <<m>>)
<1> DEFINE r == s \o <<m>>
<1>1. /\ Len(s) \in Nat /\ DOMAIN s = 1..Len(s) /\ DOMAIN r = 1..(Len(s) + 1)
      /\ \A i \in 1..Len(s) : r[i] = s[i]
      /\ r[Len(s) + 1] = m
  <2>1. /\ r \in Seq(ServerMsg) /\ Len(r) = Len(s) + 1 /\ r[Len(s) + 1] = m
        /\ \A i \in 1..Len(s) : r[i] = s[i]
    <3>1. <<m>> \in Seq(ServerMsg) /\ Len(<<m>>) = 1 /\ <<m>>[1] = m /\ Len(s) \in Nat
      BY One, LenProperties
    <3>2. /\ r \in Seq(ServerMsg) /\ Len(r) = Len(s) + 1
          /\ \A i \in 1..(Len(s) + 1) : r[i] = IF i <= Len(s) THEN s[i] ELSE <<m>>[i - Len(s)]
      BY <3>1, ConcatProperties
    <3> HIDE DEF r
    <3> QED  BY <3>1, <3>2
  <2> HIDE DEF r
  <2> QED  BY <2>1, LenProperties
<1> HIDE DEF r
<1>2. \A i \in DOMAIN r : (i \in DOMAIN s /\ r[i] = s[i]) \/ (i = Len(s) + 1 /\ r[i] = m)
  BY <1>1
<1> HIDE DEF r
<1>3. /\ ~IsLine(m) => m.word # Trailed
      /\ ~HasLine(s) => \A i \in DOMAIN s : s[i].word # Trailed
  BY DEF IsLine, HasLine
<1>4. ASSUME ~IsLine(m), Lone(s) PROVE Lone(r)
  BY <1>2, <1>3, <1>4 DEF Lone
<1>5. ASSUME ~IsLine(m), HasLine(r) PROVE HasLine(s)
  BY <1>2, <1>5 DEF HasLine
<1>6. ASSUME ~HasLine(s), m.word # Trailed PROVE Lone(r)
  BY <1>2, <1>3, <1>6 DEF Lone, HasLine
<1> QED  BY <1>4, <1>5, <1>6 DEF r

(***************************************************************************)
(* What a player's connection and copy come to when the server has sent.   *)
(***************************************************************************)
LEMMA PlayedPiece ==
    ASSUME NEW t, NEW s \in Seq(ClientMsg), NEW msgs \in Mail(ClientMsg),
           NEW j \in 0..Len(msgs), NEW p, NEW i \in 1..4
    PROVE  /\ s \o Piece(msgs, j, p, i) \in Seq(ClientMsg)
           /\ Played(t, s \o Piece(msgs, j, p, i)) =
                IF Sent(msgs, j, p, i) THEN Played1(Played(t, s), msgs[i].msg) ELSE Played(t, s)
<1>1. CASE Sent(msgs, j, p, i)
  <2>1. i \in 1..Len(msgs)
    BY <1>1, MailFacts DEF Sent
  <2>2. msgs[i].msg \in ClientMsg /\ Piece(msgs, j, p, i) = <<msgs[i].msg>>
    BY <1>1, <2>1, MailFacts DEF Piece
  <2>3. <<msgs[i].msg>> \in Seq(ClientMsg)
    BY <2>2, One
  <2> QED  BY <1>1, <2>2, <2>3, ConcatKeeps, PlayedLast
<1>2. CASE ~Sent(msgs, j, p, i)
  <2>1. s \o Piece(msgs, j, p, i) = s
    BY <1>2 DEF Piece
  <2> QED  BY <1>2, <2>1
<1> QED  BY <1>1, <1>2

\* When all was sent, to a player that runs, only the moves sent to it count.
LEMMA PlayedGrown ==
    ASSUME NEW msgs \in Mail(ClientMsg), Len(msgs) <= 4,
           NEW p \in Players, cpc[p] # "gone", toClient[p] \in Seq(ClientMsg),
           NEW t, NEW m
    PROVE  LET after == Played(t, Grown(msgs, Len(msgs), p))
               u     == Played(t, toClient[p])
           IN /\ (\A i \in 1..Len(msgs) : msgs[i].msg.word # "MARK") => after = u
              /\ /\ Len(msgs) = 4 /\ msgs[1].msg = m /\ msgs[2].msg = m
                 /\ \/ msgs[1].to = p /\ msgs[2].to # p
                    \/ msgs[1].to # p /\ msgs[2].to = p
                 /\ msgs[3].msg.word # "MARK" /\ msgs[4].msg.word # "MARK"
                 => after = Played1(u, m)
<1> DEFINE j == Len(msgs)
           u == Played(t, toClient[p])
           P(i) == Piece(msgs, j, p, i)
           A(i, x) == IF Sent(msgs, j, p, i) THEN Played1(x, msgs[i].msg) ELSE x
           G1 == toClient[p] \o P(1)
           G2 == G1 \o P(2)
           G3 == G2 \o P(3)
           G4 == G3 \o P(4)
<1>0. j \in Nat /\ j \in 0..j
  <2>1. j \in Nat
    BY MailFacts
  <2> QED  BY <2>1
<1>1. ASSUME NEW s \in Seq(ClientMsg), NEW i \in 1..4
      PROVE  s \o P(i) \in Seq(ClientMsg) /\ Played(t, s \o P(i)) = A(i, Played(t, s))
  BY <1>0, PlayedPiece, Zenon
<1>2. Grown(msgs, j, p) = G4
  BY DEF Grown
<1> HIDE DEF P, A
<1>3. 1 \in 1..4 /\ 2 \in 1..4 /\ 3 \in 1..4 /\ 4 \in 1..4
  OBVIOUS
<1>4. G1 \in Seq(ClientMsg) /\ Played(t, G1) = A(1, u)
  BY <1>1, <1>3
<1> HIDE DEF G1, u
<1>5. G2 \in Seq(ClientMsg) /\ Played(t, G2) = A(2, A(1, u))
  BY <1>1, <1>3, <1>4
<1> HIDE DEF G2
<1>6. G3 \in Seq(ClientMsg) /\ Played(t, G3) = A(3, A(2, A(1, u)))
  BY <1>1, <1>3, <1>5
<1> HIDE DEF G3
<1>7. Played(t, G4) = A(4, A(3, A(2, A(1, u))))
  BY <1>1, <1>3, <1>6
<1> HIDE DEF G4
<1>8. ASSUME \A i \in 1..j : msgs[i].msg.word # "MARK"
      PROVE  Played(t, G4) = u
  <2>1. ASSUME NEW i \in 1..4, NEW x PROVE A(i, x) = x
    BY <1>0, <1>8 DEF A, Sent, Played1
  <2> QED  BY <1>3, <1>7, <2>1
<1>9. ASSUME j = 4, msgs[1].msg = m, msgs[2].msg = m,
             \/ msgs[1].to = p /\ msgs[2].to # p
             \/ msgs[1].to # p /\ msgs[2].to = p,
             msgs[3].msg.word # "MARK", msgs[4].msg.word # "MARK"
      PROVE  Played(t, G4) = Played1(u, m)
  <2>1. \A x : A(3, x) = x /\ A(4, x) = x
    BY <1>9 DEF A, Played1
  <2>2. \/ Sent(msgs, j, p, 1) /\ ~Sent(msgs, j, p, 2)
        \/ ~Sent(msgs, j, p, 1) /\ Sent(msgs, j, p, 2)
    BY <1>9 DEF Sent
  <2>3. A(2, A(1, u)) = Played1(u, m)
    <3>1. CASE Sent(msgs, j, p, 1)
      BY <1>9, <2>2, <3>1, Zenon DEF A
    <3>2. CASE ~Sent(msgs, j, p, 1)
      BY <1>9, <2>2, <3>2, Zenon DEF A
    <3> QED  BY <3>1, <3>2
  <2> QED  BY <1>7, <2>1, <2>3
<1> QED  BY <1>2, <1>8, <1>9 DEF u

\* The server goes on, so all its messages were sent.
LEMMA AllSent ==
    ASSUME NEW msgs, Len(msgs) \in Nat, NEW unread, SendAll(msgs, "ack", unread), spc' # "gone"
    PROVE  /\ toClient' = [p \in Players |-> Grown(msgs, Len(msgs), p)]
           /\ toServer' = [toServer EXCEPT ![Current] = unread]
<1>1. PICK j \in 0..Len(msgs) :
         /\ toClient' = [p \in Players |-> Grown(msgs, j, p)]
         /\ IF j < Len(msgs) \/ "ack" = "gone" THEN Exit
            ELSE spc' = "ack" /\ toServer' = [toServer EXCEPT ![Current] = unread]
  BY DEF SendAll, Grown
<1>2. ~Exit
  BY DEF Exit
<1>3. j = Len(msgs)
  BY <1>1, <1>2
<1> QED  BY <1>1, <1>2, <1>3

(***************************************************************************)
(* Step by step.                                                           *)
(***************************************************************************)
LEMMA InitCopies == Init => Copies
<1> SUFFICES ASSUME Init, NEW p \in Players
             PROVE  OneLine(p) /\ SameGame(Replay(p), Expected(p))
  BY DEF Copies
<1>1. toServer[p] = <<>> /\ Len(<<>>) = 0 /\ DOMAIN <<>> = {}
  BY DEF Init
<1>2. OneLine(p)
  BY <1>1 DEF OneLine, Lone, HasLine
<1>3. Expected(p) = sboard
  <2>1. Len(<<>>) \in Nat /\ \A i \in 1..Len(<<>>) : <<>>[i].word # "MARK"
    BY <1>1
  <2> QED  BY <1>1, <2>1, NoMovesPlayed DEF Expected
<1>4. Replay(p) = cboard[p]
  <2> DEFINE m == Msg(IF p = Current THEN "TURN" ELSE "WAIT")
  <2>1. toClient[p] = <<m>> /\ m.word # "MARK"
    BY DEF Init, Msg
  <2> HIDE DEF m
  <2>2. Len(toClient[p]) = 1 /\ toClient[p][1] = m
    BY <2>1
  <2>3. Len(toClient[p]) \in Nat /\ \A i \in 1..Len(toClient[p]) : toClient[p][i].word # "MARK"
    BY <2>1, <2>2
  <2> QED  BY <2>3, NoMovesPlayed DEF Replay
<1>5. SameGame(cboard[p], sboard)
  BY DEF Init, SameGame, ttt_new
<1> QED  BY <1>2, <1>3, <1>4, <1>5

\* What holds of one player, carried over a step that changes nothing of it.
LEMMA SameCopy ==
    ASSUME NEW p \in Players, SameGame(Replay(p), Expected(p)),
           Replay(p)' = Replay(p), Expected(p)' = Expected(p)
    PROVE  SameGame(Replay(p), Expected(p))'
BY DEF SameGame

LEMMA ReceiveAckCopies == ASSUME TypeInv, Copies, ReceiveAck PROVE Copies'
<1> SUFFICES ASSUME spoilt' = {}, NEW p \in Players
             PROVE  /\ OneLine(p)'
                    /\ cpc'[p] # "gone" => SameGame(Replay(p), Expected(p))'
  BY DEF Copies, Clean
<1> DEFINE s == toServer[Current]
<1>1. /\ spc = "ack" /\ UNCHANGED <<sboard, cboard, cpc, toClient>>
      /\ \/ UNCHANGED <<toServer, spoilt>>
         \/ \E k \in 1..Len(s) :
               /\ \/ toServer' = [toServer EXCEPT ![Current] = Drop(s, k)]
                  \/ toServer' = [toServer EXCEPT ![Current] = <<Rest>> \o Drop(s, k)]
               /\ Spoil("lost", \E i \in 1..k : IsLine(s[i]))
  BY DEF ReceiveAck
<1>2. Current' = Current /\ Current \in Players /\ s \in Seq(ServerMsg)
  BY <1>1 DEF Current, TypeInv, Game
<1>3. spoilt = {} /\ Clean
  BY <1>1 DEF Spoil, Clean
<1>4. /\ Lone(toServer[p]) /\ (p # Current => ~HasLine(toServer[p]))
      /\ cpc[p] # "gone" => SameGame(Replay(p), Expected(p))
  BY <1>3 DEF Copies, OneLine
<1>5. Replay(p)' = Replay(p)
  BY <1>1 DEF Replay
<1>6. CASE toServer'[p] = toServer[p]
  <2>1. Expected(p)' = Expected(p)
    BY <1>1, <1>6 DEF Expected
  <2> QED  BY <1>1, <1>2, <1>4, <1>5, <1>6, <2>1, SameCopy DEF OneLine
<1>7. ASSUME p = Current, NEW k \in 1..Len(s),
             \/ toServer' = [toServer EXCEPT ![Current] = Drop(s, k)]
             \/ toServer' = [toServer EXCEPT ![Current] = <<Rest>> \o Drop(s, k)],
             Spoil("lost", \E i \in 1..k : IsLine(s[i]))
      PROVE  /\ OneLine(p)'
             /\ cpc'[p] # "gone" => SameGame(Replay(p), Expected(p))'
  <2>1. \A i \in 1..k : s[i].word # "MARK"
    BY <1>7 DEF Spoil, IsLine
  <2>2. \/ toServer'[p] = Drop(s, k)
        \/ toServer'[p] = <<Rest>> \o Drop(s, k)
    BY <1>2, <1>7 DEF TypeInv
  <2>3. Drop(s, k) \in Seq(ServerMsg) /\ Rest \in ServerMsg
    BY <1>2, <1>7, Dropped DEF ServerMsg
  <2>4. Played(sboard, Drop(s, k)) = Played(sboard, s)
    BY <1>2, <1>7, <2>1, PlayedDrop
  <2>5. Played(sboard, <<Rest>> \o Drop(s, k)) = Played(sboard, s)
    BY <2>3, <2>4, PlayedCut
  <2>6. Expected(p)' = Expected(p)
    BY <1>1, <1>7, <2>2, <2>4, <2>5 DEF Expected
  <2>7. Lone(toServer'[p])
    BY <1>2, <1>4, <1>7, <2>2, LoneDrop
  <2> QED  BY <1>1, <1>2, <1>4, <1>5, <1>7, <2>6, <2>7, SameCopy DEF OneLine
<1>8. CASE p # Current
  BY <1>1, <1>2, <1>6, <1>8 DEF TypeInv
<1>9. CASE UNCHANGED toServer
  BY <1>6, <1>9
<1> QED  BY <1>1, <1>7, <1>8, <1>9

\* No move: the server asks again.
LEMMA AsksCopies ==
    ASSUME TypeInv, Copies, NEW k, ReceiveMark(k), Asks(k)
    PROVE  Copies'
<1> SUFFICES ASSUME spoilt' = {}, spc' # "gone", NEW p \in Players
             PROVE  /\ OneLine(p)'
                    /\ cpc'[p] # "gone" => SameGame(Replay(p), Expected(p))'
  BY DEF Copies, Clean
<1> DEFINE s == toServer[Current]
           msgs == Turn(Current)
<1>1. /\ spc = "move" /\ k \in 1..Len(s) /\ UNCHANGED <<cboard, cpc>>
      /\ Spoil("lost", \/ IsMove(Head(s)) /\ k > 1
                       \/ \E i \in 2..k : IsLine(s[i]))
  BY DEF ReceiveMark
<1>2. /\ sboard' = sboard /\ Current' = Current /\ Current \in Players
      /\ s \in Seq(ServerMsg) /\ Head(s) = s[1] /\ s[1].word # "MARK"
      /\ SendAll(msgs, "ack", Drop(s, k))
  BY <1>1, ServerDrops DEF Asks, IsMove, Current, TypeInv, Game
<1>3. spoilt = {} /\ Clean /\ \A i \in 2..k : ~IsLine(s[i])
  BY <1>1 DEF Spoil, Clean
<1>4. /\ Lone(toServer[p]) /\ (p # Current => ~HasLine(toServer[p]))
      /\ cpc[p] # "gone" => SameGame(Replay(p), Expected(p))
  BY <1>3 DEF Copies, OneLine
<1>5. /\ msgs \in Mail(ClientMsg) /\ Len(msgs) = 2
      /\ msgs[1].msg.word = "TURN" /\ msgs[2].msg.word = "WAIT"
  <2>1. Standard \subseteq ClientMsg
    BY DEF Standard, Msg, ClientMsg
  <2>2. /\ msgs \in Mail(ClientMsg) /\ Len(msgs) = 2
        /\ msgs[1] = To(Current, Msg("TURN"))
        /\ msgs[2] = To(ttt_switchPlayer(Current), Msg("WAIT"))
    BY <1>2, <2>1, TurnMail
  <2> HIDE DEF msgs
  <2> QED  BY <2>2 DEF To, Msg
<1> HIDE DEF msgs
<1>6. /\ toClient' = [q \in Players |-> Grown(msgs, Len(msgs), q)]
      /\ toServer' = [toServer EXCEPT ![Current] = Drop(s, k)]
  <2>1. Len(msgs) \in Nat
    BY <1>5
  <2> QED  BY <1>2, <2>1, AllSent
<1>7. cpc[p] # "gone" => Replay(p)' = Replay(p)
  <2> SUFFICES ASSUME cpc[p] # "gone" PROVE Replay(p)' = Replay(p)
    OBVIOUS
  <2>1. toClient'[p] = Grown(msgs, Len(msgs), p) /\ toClient[p] \in Seq(ClientMsg)
    BY <1>6 DEF TypeInv
  <2>2. \A i \in 1..Len(msgs) : msgs[i].msg.word # "MARK"
    BY <1>5
  <2>3. Len(msgs) <= 4
    BY <1>5
  <2>4. Played(cboard[p], Grown(msgs, Len(msgs), p)) = Played(cboard[p], toClient[p])
    BY <1>5, <2>1, <2>2, <2>3, PlayedGrown
  <2> QED  BY <1>1, <2>1, <2>4 DEF Replay
<1>8. Expected(p)' = Expected(p)
  <2>1. CASE p # Current
    BY <1>2, <1>6, <2>1 DEF Expected, TypeInv
  <2>2. CASE p = Current
    <3>1. \A i \in 1..k : i = 1 \/ i \in 2..k
      BY <1>1
    <3>2. \A i \in 1..k : s[i].word # "MARK"
      BY <1>2, <1>3, <3>1 DEF IsLine
    <3>3. Played(sboard, Drop(s, k)) = Played(sboard, s)
      BY <1>1, <1>2, <3>2, PlayedDrop
    <3>4. toServer'[p] = Drop(s, k)
      BY <1>6, <2>2 DEF TypeInv
    <3> QED  BY <1>2, <2>2, <3>3, <3>4 DEF Expected
  <2> QED  BY <2>1, <2>2
<1>9. OneLine(p)'
  <2>1. CASE p # Current
    BY <1>2, <1>4, <1>6, <2>1 DEF OneLine, TypeInv
  <2>2. CASE p = Current
    <3>1. toServer'[p] = Drop(s, k)
      BY <1>6, <2>2 DEF TypeInv
    <3>2. Lone(Drop(s, k))
      BY <1>1, <1>2, <1>4, <2>2, LoneDrop
    <3> QED  BY <1>2, <2>2, <3>1, <3>2 DEF OneLine
  <2> QED  BY <2>1, <2>2
<1> QED  BY <1>1, <1>4, <1>7, <1>8, <1>9, SameCopy

\* A move that goes to both: it is the only one on its way to the server, and the
\* player who typed it has it on its copy.
LEMMA GoesOnCopies ==
    ASSUME TypeInv, Copies, NEW k, ReceiveMark(k), GoesOn(k)
    PROVE  Copies'
<1> SUFFICES ASSUME spoilt' = {}, spc' # "gone", NEW p \in Players
             PROVE  /\ OneLine(p)'
                    /\ cpc'[p] # "gone" => SameGame(Replay(p), Expected(p))'
  BY DEF Copies, Clean
<1> DEFINE s == toServer[Current]
           m == s[1]
           c == sboard'.currentPlayer
           msgs == Reply(m, Turn(c))
<1>1. /\ spc = "move" /\ k \in 1..Len(s) /\ UNCHANGED <<cboard, cpc>>
      /\ Spoil("lost", \/ IsMove(Head(s)) /\ k > 1
                       \/ \E i \in 2..k : IsLine(s[i]))
  BY DEF ReceiveMark
<1>2. /\ Current \in Players /\ s \in Seq(ServerMsg) /\ Head(s) = m /\ m \in ServerMsg
      /\ 1 \in DOMAIN s /\ Len(s) \in Nat
      /\ IsMove(m) /\ sboard' = ttt_makeMove(sboard, m.move)
  <2>1. Current \in Players
    BY DEF TypeInv, Game, Current
  <2>2. s \in Seq(ServerMsg) /\ Head(s) = m /\ m \in ServerMsg /\ 1 \in DOMAIN s
    BY <1>1, <2>1, ServerDrops
  <2> QED  BY <2>1, <2>2, LenProperties DEF GoesOn, Plays
<1>3. spoilt = {} /\ Clean /\ k = 1
  <2>1. spoilt = {} /\ ~(k > 1)
    BY <1>1, <1>2 DEF Spoil
  <2> QED  BY <1>1, <1>2, <2>1 DEF Clean
<1>4. /\ Lone(s) /\ \A q \in Players : q # Current => ~HasLine(toServer[q])
      /\ cpc[p] # "gone" => SameGame(Replay(p), Expected(p))
  BY <1>2, <1>3 DEF Copies, OneLine
<1>16. m.word = "MARK" /\ sboard' = Played1(sboard, m)
  BY <1>2, <1>4 DEF Lone, IsMove, Played1
<1>5. SendAll(msgs, "ack", Drop(s, 1))
  BY <1>2, <1>16, <1>3 DEF GoesOn, Echo
<1>6. /\ msgs \in Mail(ClientMsg) /\ Len(msgs) = 4
      /\ msgs[1] = To(Opponent, m) /\ msgs[2] = To(Current, m)
      /\ msgs[3].msg.word # "MARK" /\ msgs[4].msg.word # "MARK"
  <2>1. Standard \subseteq ClientMsg
    BY DEF Standard, Msg, ClientMsg
  <2>2. c \in Players
    BY ReceiveMarkTypes DEF TypeInv, Game
  <2>3. m \in ClientMsg
    BY <1>2, <1>16 DEF ServerMsg, Line, ClientMsg, Ack, Rest, Msg
  <2> HIDE DEF m, c
  <2>4. /\ Turn(c)[1] = To(c, Msg("TURN"))
        /\ Turn(c)[2] = To(ttt_switchPlayer(c), Msg("WAIT"))
    BY <2>1, <2>2, TurnMail
  <2> DEFINE R == {Turn(c), Winner(c), Drawn}
  <2>5. Turn(c) \in R
    OBVIOUS
  <2>6. \A r \in R :
           /\ Reply(m, r) \in Mail(ClientMsg) /\ Len(Reply(m, r)) = 4
           /\ Reply(m, r)[1] = To(Opponent, m) /\ Reply(m, r)[2] = To(Current, m)
           /\ Reply(m, r)[3] = r[1] /\ Reply(m, r)[4] = r[2]
    BY <1>2, <1>16, <2>1, <2>2, <2>3, ReplyMail, Zenon
  <2> HIDE DEF R
  <2>7. /\ msgs \in Mail(ClientMsg) /\ Len(msgs) = 4
        /\ msgs[1] = To(Opponent, m) /\ msgs[2] = To(Current, m)
        /\ msgs[3] = Turn(c)[1] /\ msgs[4] = Turn(c)[2]
    BY <2>5, <2>6, Zenon
  <2> HIDE DEF msgs
  <2> QED  BY <2>4, <2>7 DEF To, Msg
<1> HIDE DEF msgs
<1>7. /\ toClient' = [q \in Players |-> Grown(msgs, Len(msgs), q)]
      /\ toServer' = [toServer EXCEPT ![Current] = Drop(s, 1)]
  <2>1. Len(msgs) \in Nat
    BY <1>6
  <2> QED  BY <1>5, <2>1, AllSent
\* Nothing is left on the way to the server.
<1>8. \A q \in Players : toServer'[q] \in Seq(ServerMsg) /\ ~HasLine(toServer'[q])
  <2>1. IsLine(m)
    BY <1>2, <1>16 DEF IsLine
  <2>2. ~HasLine(Drop(s, 1))
    BY <1>1, <1>2, <1>16, <1>3, <1>4, <2>1, LoneDrop
  <2>3. Drop(s, 1) \in Seq(ServerMsg)
    BY <1>1, <1>2, <1>16, <1>3, Dropped
  <2> QED  BY <1>4, <1>7, <2>2, <2>3 DEF TypeInv
<1>9. OneLine(p)'
  BY <1>8 DEF OneLine, Lone, HasLine, IsLine
<1>10. Expected(p)' = sboard'
  <2>1. toServer'[p] \in Seq(ServerMsg)
    BY <1>8
  <2>2. Len(toServer'[p]) \in Nat /\ DOMAIN toServer'[p] = 1..Len(toServer'[p])
    BY <2>1, LenProperties
  <2>3. \A i \in 1..Len(toServer'[p]) : toServer'[p][i].word # "MARK"
    BY <1>8, <2>2 DEF HasLine, IsLine
  <2> QED  BY <2>2, <2>3, NoMovesPlayed DEF Expected
<1>11. cpc[p] # "gone" => Replay(p)' = Played1(Replay(p), m)
  <2> SUFFICES ASSUME cpc[p] # "gone" PROVE Replay(p)' = Played1(Replay(p), m)
    OBVIOUS
  <2>1. toClient'[p] = Grown(msgs, Len(msgs), p) /\ toClient[p] \in Seq(ClientMsg)
    BY <1>7 DEF TypeInv
  <2>2. msgs[1].msg = m /\ msgs[2].msg = m /\ msgs[1].to = Opponent /\ msgs[2].to = Current
    BY <1>6, ToFields
  <2>3. \/ msgs[1].to = p /\ msgs[2].to # p
        \/ msgs[1].to # p /\ msgs[2].to = p
    <3>1. Opponent # Current /\ (p = Current \/ p = Opponent)
      BY <1>2, <1>16, Switch DEF Opponent
    <3> QED  BY <2>2, <3>1
  <2>4. Len(msgs) <= 4
    BY <1>6
  <2>5. Played(cboard[p], Grown(msgs, Len(msgs), p))
          = Played1(Played(cboard[p], toClient[p]), m)
    <3> HIDE DEF m
    <3> QED  BY <1>6, <2>1, <2>2, <2>3, <2>4, PlayedGrown, Zenon
  <2> QED  BY <1>1, <2>1, <2>5 DEF Replay
<1>12. Expected(p) = IF p = Current THEN sboard' ELSE sboard
  <2>1. CASE p = Current
    <3>1. Played(Played1(sboard, m), Drop(s, 1)) = Played(sboard, s)
      BY <1>1, <1>2, <1>16, <1>3, PlayedDrop
    <3>2. toServer'[p] = Drop(s, 1)
      BY <1>7, <2>1 DEF TypeInv
    <3> QED  BY <1>2, <1>16, <1>10, <2>1, <3>1, <3>2 DEF Expected
  <2>2. CASE p # Current
    <3>1. toServer[p] \in Seq(ServerMsg) /\ ~HasLine(toServer[p])
      BY <1>4, <2>2 DEF TypeInv
    <3>2. Len(toServer[p]) \in Nat /\ DOMAIN toServer[p] = 1..Len(toServer[p])
      BY <3>1, LenProperties
    <3>3. \A i \in 1..Len(toServer[p]) : toServer[p][i].word # "MARK"
      BY <3>1, <3>2 DEF HasLine, IsLine
    <3> QED  BY <2>2, <3>2, <3>3, NoMovesPlayed DEF Expected
  <2> QED  BY <2>1, <2>2
<1>13. ASSUME cpc'[p] # "gone" PROVE SameGame(Replay(p)', sboard')
  <2>1. SameGame(Replay(p), Expected(p)) /\ Replay(p)' = Played1(Replay(p), m)
    BY <1>1, <1>4, <1>11, <1>13
  <2>2. CASE p = Current
    <3>1. sboard.board \in [1..9 -> Players \cup {Empty}] /\ sboard.currentPlayer \in Players
      BY DEF TypeInv, Game
    <3>2. SameGame(Replay(p), Played1(sboard, m))
      BY <1>2, <1>16, <1>12, <2>1, <2>2
    <3>3. Played1(Replay(p), m) = Replay(p)
      BY <3>1, <3>2, MoveTwice
    <3> QED  BY <1>2, <1>16, <2>1, <3>2, <3>3
  <2>3. CASE p # Current
    <3>1. SameGame(Replay(p), sboard)
      BY <1>12, <2>1, <2>3
    <3>2. SameGame(Played1(Replay(p), m), Played1(sboard, m))
      BY <3>1, SameMove
    <3> QED  BY <1>2, <1>16, <2>1, <3>2
  <2> QED  BY <2>2, <2>3
<1>14. ASSUME cpc'[p] # "gone" PROVE SameGame(Replay(p), Expected(p))'
  BY <1>10, <1>13, <1>14 DEF SameGame
<1> QED  BY <1>9, <1>14

LEMMA ReceiveMarkCopies == ASSUME TypeInv, Copies, NEW k, ReceiveMark(k) PROVE Copies'
<1>1. CASE Ends(k)
  <2>1. Exit
    BY <1>1, SendAllGoesOn DEF Ends
  <2> QED  BY <2>1 DEF Exit, Copies, Clean
<1> QED  BY <1>1, ReceiveMarkCases, AsksCopies, GoesOnCopies

LEMMA ReceiveCopies ==
    ASSUME TypeInv, Copies, NEW q \in Players, NEW k, Receive(q, k)
    PROVE  Copies'
<1> SUFFICES ASSUME spoilt' = {}, spc' # "gone", NEW p \in Players
             PROVE  /\ OneLine(p)'
                    /\ cpc'[p] # "gone" => SameGame(Replay(p), Expected(p))'
  BY DEF Copies, Clean
<1> DEFINE s == toClient[q]
<1>1. /\ k \in 1..Len(s) /\ Spoil("lost", k > 1)
      /\ s \in Seq(ClientMsg)
      /\ cboard' = IF s[1].word = "MARK"
                   THEN [cboard EXCEPT ![q] = ttt_makeMove(@, s[1].move)] ELSE cboard
      /\ UNCHANGED toServer \/ Send(q, <<Ack>>)
      /\ \/ Leave(q)
         \/ Stay(q, "prompt", Drop(s, k))
         \/ Stay(q, "recv", Drop(s, k))
      /\ UNCHANGED <<sboard, spc>>
  BY ReceiveCases
<1>2. k = 1 /\ spoilt = {} /\ Clean /\ Current' = Current
  <2>1. Len(s) \in Nat
    BY <1>1, LenProperties
  <2> QED  BY <1>1, <2>1 DEF Spoil, Clean, Current
<1>3. /\ Lone(toServer[p]) /\ (p # Current => ~HasLine(toServer[p]))
      /\ cpc[p] # "gone" => SameGame(Replay(p), Expected(p))
      /\ toServer[p] \in Seq(ServerMsg) /\ Ack \in ServerMsg
  BY <1>2 DEF Copies, OneLine, TypeInv, ServerMsg
<1>4. toServer'[p] = toServer[p] \/ toServer'[p] = toServer[p] \o <<Ack>>
  BY <1>1 DEF Send, TypeInv
<1>5. ~IsLine(Ack) /\ Ack.word # "MARK"
  BY DEF IsLine, Ack, Msg, Glued, Trailed
<1>6. OneLine(p)'
  <2>1. Lone(toServer'[p]) /\ (HasLine(toServer'[p]) => HasLine(toServer[p]))
    BY <1>3, <1>4, <1>5, LoneSent
  <2> QED  BY <1>2, <1>3, <2>1 DEF OneLine
<1>7. Expected(p)' = Expected(p)
  <2>1. Played(sboard, toServer[p] \o <<Ack>>) = Played1(Played(sboard, toServer[p]), Ack)
    BY <1>3, PlayedLast
  <2>2. Played(sboard, toServer[p] \o <<Ack>>) = Played(sboard, toServer[p])
    BY <1>5, <2>1 DEF Played1
  <2> QED  BY <1>1, <1>4, <2>2 DEF Expected
<1>8. ASSUME cpc'[p] # "gone" PROVE cpc[p] # "gone" /\ Replay(p)' = Replay(p)
  <2>1. CASE p # q
    <3>1. cpc'[p] = cpc[p] /\ toClient'[p] = toClient[p] /\ cboard'[p] = cboard[p]
      BY <1>1, <2>1 DEF Leave, Stay, TypeInv
    <3> QED  BY <1>8, <3>1 DEF Replay
  <2>2. CASE p = q
    <3>1. ~Leave(q) /\ cpc[p] = "recv"
      BY <1>8, <2>2 DEF Leave, TypeInv, Receive
    <3>2. toClient'[p] = Drop(s, 1) /\ cboard'[p] = Played1(cboard[p], s[1])
      BY <1>1, <1>2, <2>2, <3>1 DEF Stay, TypeInv, Played1
    <3>3. Played(Played1(cboard[p], s[1]), Drop(s, 1)) = Played(cboard[p], s)
      BY <1>1, <1>2, PlayedDrop
    <3> QED  BY <2>2, <3>1, <3>2, <3>3 DEF Replay
  <2> QED  BY <2>1, <2>2
<1> QED  BY <1>3, <1>6, <1>7, <1>8, SameCopy

LEMMA TypeCopies ==
    ASSUME TypeInv, Copies, NEW q \in Players, NEW line \in Allowed(q), Type(q, line)
    PROVE  Copies'
<1> SUFFICES ASSUME spoilt' = {}, spc' # "gone", NEW p \in Players
             PROVE  /\ OneLine(p)'
                    /\ cpc'[p] # "gone" => SameGame(Replay(p), Expected(p))'
  BY DEF Copies, Clean
<1>1. /\ cpc[q] = "prompt" /\ IsLine(line) /\ line \in ServerMsg
      /\ cboard' = [cboard EXCEPT ![q] = ttt_makeMove(@, line.move)]
      /\ Send(q, <<line>>)
      /\ Leave(q) \/ Stay(q, "recv", toClient[q])
      /\ UNCHANGED <<sboard, spc>>
  BY TypeCases
<1>2. Spoil("mistyped", \/ line.word # "MARK" \/ Current # q
                        \/ \E i \in DOMAIN toServer[q] : IsLine(toServer[q][i])
                        \/ \E i \in DOMAIN toClient[q] : toClient[q][i].word = "MARK")
  BY DEF Type
<1>3. /\ spoilt = {} /\ line.word = "MARK" /\ Current = q /\ ~HasLine(toServer[q])
      /\ \A i \in DOMAIN toClient[q] : toClient[q][i].word # "MARK"
  BY <1>2 DEF Spoil, HasLine
<1>4. Clean /\ Current' = Current /\ line.word = "MARK"
  BY <1>1, <1>3 DEF Clean, Current
<1>5. /\ Lone(toServer[p]) /\ (p # Current => ~HasLine(toServer[p]))
      /\ cpc[p] # "gone" => SameGame(Replay(p), Expected(p))
      /\ toServer[p] \in Seq(ServerMsg) /\ toClient[p] \in Seq(ClientMsg)
  BY <1>4 DEF Copies, OneLine, TypeInv
<1>6. CASE p # q
  <2>1. /\ toServer'[p] = toServer[p] /\ cpc'[p] = cpc[p] /\ toClient'[p] = toClient[p]
        /\ cboard'[p] = cboard[p]
    BY <1>1, <1>6 DEF Send, Leave, Stay, TypeInv
  <2>2. Replay(p)' = Replay(p) /\ Expected(p)' = Expected(p)
    BY <1>1, <2>1 DEF Replay, Expected
  <2>3. OneLine(p)'
    BY <1>4, <1>5, <2>1 DEF OneLine
  <2> QED  BY <1>5, <2>1, <2>2, <2>3, SameCopy
<1>7. CASE p = q
  <2>1. toServer'[p] = toServer[p] \o <<line>>
    BY <1>1, <1>4, <1>7 DEF Send, Clean, TypeInv
  <2>2. OneLine(p)'
    <3>1. Lone(toServer'[p])
      BY <1>1, <1>3, <1>5, <1>7, <2>1, LoneSent DEF Trailed
    <3> QED  BY <1>3, <1>4, <1>7, <3>1 DEF OneLine
  <2>3. ASSUME cpc'[p] # "gone" PROVE SameGame(Replay(p), Expected(p))'
    <3>1. toClient'[p] = toClient[p] /\ cboard'[p] = Played1(cboard[p], line)
      BY <1>1, <1>4, <1>7, <2>3 DEF Leave, Stay, TypeInv, Played1
    <3>2. \A t : Played(t, toClient[p]) = t
      <4>1. Len(toClient[p]) \in Nat /\ DOMAIN toClient[p] = 1..Len(toClient[p])
        BY <1>5, LenProperties
      <4>2. \A i \in 1..Len(toClient[p]) : toClient[p][i].word # "MARK"
        BY <1>3, <1>7, <4>1
      <4> QED  BY <4>1, <4>2, NoMovesPlayed
    <3>3. Replay(p)' = Played1(Replay(p), line)
      BY <3>1, <3>2 DEF Replay
    <3>4. Expected(p)' = Played1(Expected(p), line)
      <4>1. Played(sboard, toServer[p] \o <<line>>) = Played1(Played(sboard, toServer[p]), line)
        BY <1>1, <1>5, PlayedLast
      <4> QED  BY <1>1, <2>1, <4>1 DEF Expected
    <3>5. SameGame(Replay(p), Expected(p))
      BY <1>1, <1>5, <1>7
    <3>6. SameGame(Played1(Replay(p), line), Played1(Expected(p), line))
      BY <3>5, SameMove
    <3> QED  BY <3>3, <3>4, <3>6 DEF SameGame
  <2> QED  BY <2>2, <2>3
<1> QED  BY <1>6, <1>7

LEMMA EndCopies ==
    ASSUME TypeInv, Copies,
           \/ PlayerGone \/ ServerKilled
           \/ \E p \in Players : ServerGone(p) \/ ClientKilled(p)
    PROVE  Copies'
<1>1. CASE PlayerGone \/ ServerKilled
  BY <1>1 DEF PlayerGone, ServerKilled, Exit, Copies, Clean
<1>2. ASSUME NEW q \in Players, ServerGone(q) PROVE Copies'
  BY <1>2 DEF ServerGone, Copies, Clean
<1>3. ASSUME NEW q \in Players, ClientKilled(q) PROVE Copies'
  <2> SUFFICES ASSUME Clean', NEW p \in Players
               PROVE  /\ OneLine(p)'
                      /\ cpc'[p] # "gone" => SameGame(Replay(p), Expected(p))'
    BY DEF Copies
  <2>1. /\ cpc' = [cpc EXCEPT ![q] = "gone"] /\ toClient' = [toClient EXCEPT ![q] = <<>>]
        /\ UNCHANGED <<sboard, cboard, spc, toServer, spoilt>>
    BY <1>3 DEF ClientKilled, Leave, history
  <2>2. /\ OneLine(p) /\ (cpc[p] # "gone" => SameGame(Replay(p), Expected(p)))
        /\ Current' = Current
    BY <2>1 DEF Copies, Clean, Current
  <2>3. OneLine(p)'
    BY <2>1, <2>2 DEF OneLine
  <2>4. CASE p = q
    <3>1. cpc'[p] = "gone"
      BY <2>1, <2>4 DEF TypeInv
    <3> QED  BY <2>3, <3>1
  <2>5. CASE p # q
    <3>1. cpc'[p] = cpc[p] /\ toClient'[p] = toClient[p]
      BY <2>1, <2>5 DEF TypeInv
    <3>2. Replay(p)' = Replay(p) /\ Expected(p)' = Expected(p)
      BY <2>1, <3>1 DEF Replay, Expected
    <3> QED  BY <2>2, <2>3, <3>1, <3>2, SameCopy
  <2> QED  BY <2>4, <2>5
<1> QED  BY <1>1, <1>2, <1>3

LEMMA NextCopies == TypeInv /\ Copies /\ [Next]_vars => Copies'
<1>1. CASE Copies /\ UNCHANGED vars
  BY <1>1 DEF Copies, Clean, OneLine, SameGame, Replay, Expected, Current, vars
<1> QED
  BY <1>1, ReceiveAckCopies, ReceiveMarkCopies, ReceiveCopies, TypeCopies, EndCopies
     DEF Next, ServerRuns, ClientRuns

\* Unless a recv has dropped something or somebody has typed out of turn or another
\* line than a plain MARK, the clients' copies are the server's board but for the moves
\* on their way, in games of any length.
THEOREM CopiesInStep == Spec => []InStep
<1>1. TypeInv /\ Copies /\ [Next]_vars => (TypeInv /\ Copies)'
  BY NextTypes, NextCopies
<1> QED  BY <1>1, InitTypes, InitCopies, CopiesImply, PTL DEF Spec
=============================================================================
