-------------------------- MODULE GameRoomsProofs --------------------------
(***************************************************************************)
(* For any number of clients and rooms, and whatever gameRunning holds at  *)
(* the start: never two games in a room, no game with an empty seat, and   *)
(* no room that stays taken when its players have left.                    *)
(***************************************************************************)
EXTENDS GameRooms, FiniteSetTheorems, TLAPS

\* A thread inside server2_joinRoom's critical section holds its room's mutex.
Held ==
    \A c \in Client : pc[c] \in {"locked", "start"} =>
        wants[c] \in Room /\ mutex[wants[c]] = c

\* A thread past the first test has asked for a room.
Asked ==
    \A c \in Client :
        pc[c] \in {"join", "create", "seated", "play", "cleanup", "destroy"} =>
            wants[c] \in Room

\* While a thread plays the room's flag is set, so that no other can start.
Flagged ==
    \A c \in Client : pc[c] \in {"play", "cleanup"} => rooms[wants[c]].gameRunning

\* No two threads play in one room.
Alone ==
    \A c, d \in Client :
        /\ pc[c] \in {"play", "cleanup"} /\ pc[d] \in {"play", "cleanup"}
        /\ wants[c] = wants[d]
        => c = d

\* Active players have seats; a second one has both, and so has a game.
Seats ==
    /\ \A r \in Room : rooms[r].active = 1 => rooms[r].player1 # None
    /\ \A c \in Client : pc[c] \in {"start", "play"} =>
          /\ rooms[wants[c]].player1 # None
          /\ rooms[wants[c]].player2 # None

IInv == TypeOK /\ Held /\ Asked /\ Flagged /\ Alone /\ Seats

LEMMA InitIInv == Init => IInv
<1> SUFFICES ASSUME Init PROVE IInv
  OBVIOUS
<1>1. TypeOK
  BY DEF Init, TypeOK, Threads
<1>2. Held /\ Asked /\ Flagged /\ Alone
  BY DEF Init, Held, Asked, Flagged, Alone
<1>3. Seats
  <2>1. \A r \in Room : rooms[r].active = 0
    BY DEF Init
  <2> QED BY <2>1 DEF Init, Seats
<1> QED BY <1>1, <1>2, <1>3 DEF IInv

(***************************************************************************)
(* Steps that leave rooms and mutexes alone.                               *)
(***************************************************************************)
\* A thread moves between places where it holds nothing; what it wants may change
\* only before it asks.
LEMMA QuietStep ==
    ASSUME IInv, NEW c \in Client, NEW here \in Threads, NEW there \in Threads,
           pc[c] = here, pc' = [pc EXCEPT ![c] = there],
           NEW want \in Room \cup {BadRoom}, wants' = [wants EXCEPT ![c] = want],
           there \notin {"locked", "start", "play"},
           there = "cleanup" => here = "play" /\ want = wants[c],
           there \in {"join", "create", "seated", "cleanup", "destroy"} => want \in Room,
           rooms' = rooms, mutex' = mutex,
           sockets' \subseteq Client, up' \in BOOLEAN
    PROVE  IInv'
<1> USE DEF IInv
<1>1. TypeOK'
  BY DEF TypeOK
<1>2. \A d \in Client : d # c => pc'[d] = pc[d] /\ wants'[d] = wants[d]
  BY DEF TypeOK
<1>3. pc'[c] = there /\ wants'[c] = want
  BY DEF TypeOK
<1>4. Held' /\ Asked'
  BY <1>2, <1>3 DEF Held, Asked
<1>5. Flagged' /\ Alone'
  BY <1>2, <1>3 DEF Flagged, Alone
<1>6. Seats'
  BY <1>2, <1>3 DEF Seats
<1> QED BY <1>1, <1>4, <1>5, <1>6

\* The start and the end of a thread's life, and what ends the server.
LEMMA OutsideStep ==
    ASSUME IInv, NEW c \in Client,
           \/ Accept(c) \/ NoJoin(c) \/ Gone(c) \/ GameOver(c) \/ PlayerGone(c) \/ Exit(c)
           \/ \E r \in Room \cup {BadRoom} : Join(c, r)
    PROVE  IInv'
<1>0. /\ pc \in [Client -> Threads] /\ wants \in [Client -> Room \cup {BadRoom}]
      /\ sockets \subseteq Client /\ up \in BOOLEAN
  BY DEF IInv, TypeOK
<1>w. wants = [wants EXCEPT ![c] = wants[c]] /\ wants[c] \in Room \cup {BadRoom}
  BY <1>0
<1>1. CASE Accept(c)
  <2>1. /\ pc[c] = "off" /\ pc' = [pc EXCEPT ![c] = "recv"] /\ wants' = wants
        /\ rooms' = rooms /\ mutex' = mutex
        /\ sockets' \subseteq Client /\ up' \in BOOLEAN
    BY <1>0, <1>1 DEF Accept, At, Goto
  <2>2. {"off", "recv"} \subseteq Threads
    BY DEF Threads
  <2>3. PICK want \in Room \cup {BadRoom} : wants' = [wants EXCEPT ![c] = want]
    BY <1>w, <2>1
  <2>4. /\ "recv" \notin {"locked", "start", "play"} /\ "recv" # "cleanup"
        /\ "recv" \notin {"join", "create", "seated", "cleanup", "destroy"}
    OBVIOUS
  <2> HIDE <1>1
  <2> QED BY <2>1, <2>2, <2>3, <2>4, QuietStep
<1>2. CASE NoJoin(c)
  <2>1. /\ pc[c] = "recv" /\ pc' = [pc EXCEPT ![c] = "ignored"] /\ wants' = wants
        /\ rooms' = rooms /\ mutex' = mutex
        /\ sockets' \subseteq Client /\ up' \in BOOLEAN
    BY <1>0, <1>2 DEF NoJoin, At, Goto
  <2>2. {"recv", "ignored"} \subseteq Threads
    BY DEF Threads
  <2>3. PICK want \in Room \cup {BadRoom} : wants' = [wants EXCEPT ![c] = want]
    BY <1>w, <2>1
  <2>4. /\ "ignored" \notin {"locked", "start", "play"} /\ "ignored" # "cleanup"
        /\ "ignored" \notin {"join", "create", "seated", "cleanup", "destroy"}
    OBVIOUS
  <2> HIDE <1>2
  <2> QED BY <2>1, <2>2, <2>3, <2>4, QuietStep
<1>3. CASE GameOver(c)
  <2>1. /\ pc[c] = "play" /\ pc' = [pc EXCEPT ![c] = "cleanup"] /\ wants' = wants
        /\ rooms' = rooms /\ mutex' = mutex
        /\ sockets' \subseteq Client /\ up' \in BOOLEAN
    BY <1>0, <1>3 DEF GameOver, At, Goto
  <2>2. {"play", "cleanup"} \subseteq Threads
    BY DEF Threads
  <2>3. wants[c] \in Room
    BY <2>1 DEF IInv, Asked
  <2>4. PICK want \in Room : want = wants[c]
    BY <2>3
  <2>5. wants' = [wants EXCEPT ![c] = want]
    BY <1>w, <2>1, <2>4
  <2>6. "cleanup" \notin {"locked", "start", "play"}
    OBVIOUS
  <2> HIDE <1>3
  <2> QED BY <2>1, <2>2, <2>4, <2>5, <2>6, QuietStep
<1>4. CASE \E r \in Room \cup {BadRoom} : Join(c, r)
  <2> PICK r \in Room \cup {BadRoom} : Join(c, r)
    BY <1>4
  <2>1. /\ pc[c] = "recv" /\ wants' = [wants EXCEPT ![c] = r]
        /\ sockets' \subseteq Client /\ up' \in BOOLEAN
        /\ rooms' = rooms /\ mutex' = mutex
    BY <1>0 DEF Join, At
  <2>2. {"recv", "join", "refused"} \subseteq Threads
    BY DEF Threads
  <2>3. CASE r \in Room
    <3>1. pc' = [pc EXCEPT ![c] = "join"]
      BY <2>3 DEF Join, Goto
    <3>2. "join" \notin {"locked", "start", "play"} /\ "join" # "cleanup"
      OBVIOUS
    <3> QED BY <2>1, <2>2, <2>3, <3>1, <3>2, QuietStep
  <2>4. CASE r \notin Room
    <3>1. pc' = [pc EXCEPT ![c] = "refused"]
      BY <2>4 DEF Join, Goto
    <3>2. /\ "refused" \notin {"locked", "start", "play"} /\ "refused" # "cleanup"
          /\ "refused" \notin {"join", "create", "seated", "cleanup", "destroy"}
      OBVIOUS
    <3> QED BY <2>1, <2>2, <3>1, <3>2, QuietStep
  <2> QED BY <2>3, <2>4
<1>5. CASE Gone(c) \/ PlayerGone(c) \/ Exit(c)
  BY <1>5 DEF Gone, PlayerGone, Exit, IInv, TypeOK, Held, Asked, Flagged, Alone, Seats
<1> QED BY <1>1, <1>2, <1>3, <1>4, <1>5

(***************************************************************************)
(* Steps inside the critical sections.                                     *)
(***************************************************************************)
LEMMA EnterStep == ASSUME IInv, NEW c \in Client, Enter(c) PROVE IInv'
<1> DEFINE w == wants[c]
<1>0. pc[c] = "join" /\ w \in Room /\ mutex[w] = None
  BY DEF Enter, At, CanLock, IInv, Asked
<1>1. TypeOK'
  BY <1>0 DEF IInv, TypeOK, Enter, Lock, Goto, Threads
<1>2. /\ mutex' = [mutex EXCEPT ![w] = c] /\ pc' = [pc EXCEPT ![c] = "locked"]
      /\ rooms' = rooms /\ wants' = wants
  BY DEF Enter, Lock, Goto
<1>3. /\ pc'[c] = "locked" /\ \A d \in Client : d # c => pc'[d] = pc[d]
      /\ mutex'[w] = c /\ \A r \in Room : r # w => mutex'[r] = mutex[r]
  BY <1>0, <1>2 DEF IInv, TypeOK
<1>4. Held'
  BY <1>0, <1>2, <1>3, RoomsAssumption DEF IInv, Held
<1>5. Asked' /\ Flagged' /\ Alone' /\ Seats'
  BY <1>2, <1>3 DEF IInv, Asked, Flagged, Alone, Seats
<1> QED BY <1>1, <1>4, <1>5 DEF IInv

LEMMA FindEmptyStep == ASSUME IInv, NEW c \in Client, FindEmpty(c) PROVE IInv'
<1> DEFINE w == wants[c]
<1>0. pc[c] = "locked" /\ w \in Room /\ mutex[w] = c
  BY DEF FindEmpty, At, IInv, Held
<1>1. TypeOK'
  BY <1>0 DEF IInv, TypeOK, FindEmpty, Unlock, Goto, Threads
<1>2. /\ mutex' = [mutex EXCEPT ![w] = None] /\ pc' = [pc EXCEPT ![c] = "create"]
      /\ rooms' = rooms /\ wants' = wants
  BY DEF FindEmpty, Unlock, Goto
<1>3. /\ pc'[c] = "create" /\ \A d \in Client : d # c => pc'[d] = pc[d]
      /\ \A r \in Room : r # w => mutex'[r] = mutex[r]
  BY <1>0, <1>2 DEF IInv, TypeOK
<1>4. Held'
  BY <1>0, <1>2, <1>3 DEF IInv, Held
<1>5. Asked' /\ Flagged' /\ Alone' /\ Seats'
  BY <1>0, <1>2, <1>3 DEF IInv, Asked, Flagged, Alone, Seats
<1> QED BY <1>1, <1>4, <1>5 DEF IInv

LEMMA FindFullStep == ASSUME IInv, NEW c \in Client, FindFull(c) PROVE IInv'
<1> DEFINE w == wants[c]
<1>0. pc[c] \in {"locked", "start"} /\ w \in Room /\ mutex[w] = c
  BY DEF FindFull, At, IInv, Held
<1>1. TypeOK'
  BY <1>0 DEF IInv, TypeOK, FindFull, Unlock, Goto, Threads
<1>2. /\ mutex' = [mutex EXCEPT ![w] = None] /\ pc' = [pc EXCEPT ![c] = "refused"]
      /\ rooms' = rooms /\ wants' = wants
  BY DEF FindFull, Unlock, Goto
<1>3. /\ pc'[c] = "refused" /\ \A d \in Client : d # c => pc'[d] = pc[d]
      /\ \A r \in Room : r # w => mutex'[r] = mutex[r]
  BY <1>0, <1>2 DEF IInv, TypeOK
<1>4. Held'
  BY <1>0, <1>2, <1>3 DEF IInv, Held
<1>5. Asked' /\ Flagged' /\ Alone' /\ Seats'
  BY <1>0, <1>2, <1>3 DEF IInv, Asked, Flagged, Alone, Seats
<1> QED BY <1>1, <1>4, <1>5 DEF IInv

\* A creator may sit down in the middle of a game: the seat is not left empty.
LEMMA CreateStep == ASSUME IInv, NEW c \in Client, Create(c) PROVE IInv'
<1> DEFINE w == wants[c]
<1>0. pc[c] = "create" /\ w \in Room
  BY DEF Create, At, IInv, Asked
<1>2. /\ rooms' = [rooms EXCEPT ![w] = [rooms[w] EXCEPT !.player1 = c, !.active = 1]]
      /\ pc' = [pc EXCEPT ![c] = "seated"] /\ mutex' = mutex /\ wants' = wants
  BY <1>0 DEF Create, Goto, IInv, TypeOK
<1>1. TypeOK'
  <2>1. [rooms[w] EXCEPT !.player1 = c, !.active = 1] \in
           [player1 : Client \cup {None}, player2 : Client \cup {None},
            active : 0..2, gameRunning : BOOLEAN]
    <3>1. rooms[w] \in [player1 : Client \cup {None}, player2 : Client \cup {None},
                        active : 0..2, gameRunning : BOOLEAN]
      BY <1>0 DEF IInv, TypeOK
    <3>2. 1 \in 0..2 /\ c \in Client \cup {None}
      OBVIOUS
    <3> HIDE DEF w
    <3> QED BY <3>1, <3>2
  <2>2. sockets' = sockets /\ up' = up
    BY DEF Create
  <2> QED BY <1>0, <1>2, <2>1, <2>2 DEF IInv, TypeOK, Threads
<1>3. /\ pc'[c] = "seated" /\ \A d \in Client : d # c => pc'[d] = pc[d]
      /\ \A r \in Room : r # w => rooms'[r] = rooms[r]
      /\ rooms'[w].player1 = c /\ rooms'[w].player2 = rooms[w].player2
      /\ rooms'[w].gameRunning = rooms[w].gameRunning
  BY <1>0, <1>2 DEF IInv, TypeOK
<1>4. Held' /\ Asked' /\ Alone'
  BY <1>0, <1>2, <1>3 DEF IInv, Held, Asked, Alone
<1>5. Flagged'
  <2> SUFFICES ASSUME NEW d \in Client, pc'[d] \in {"play", "cleanup"}
               PROVE  rooms'[wants[d]].gameRunning
    BY <1>2 DEF Flagged
  <2>1. d # c /\ pc[d] \in {"play", "cleanup"} /\ wants[d] \in Room
    BY <1>3 DEF IInv, Asked
  <2>2. rooms[wants[d]].gameRunning
    BY <2>1 DEF IInv, Flagged
  <2>3. rooms'[wants[d]].gameRunning = rooms[wants[d]].gameRunning
    BY <1>3, <2>1
  <2> QED BY <2>2, <2>3
<1>6. Seats'
  <2>1. c # None
    BY RoomsAssumption
  <2>2. \A r \in Room : rooms'[r].active = 1 => rooms'[r].player1 # None
    BY <1>3, <2>1 DEF IInv, Seats
  <2>3. ASSUME NEW d \in Client, pc'[d] \in {"start", "play"}
        PROVE  rooms'[wants[d]].player1 # None /\ rooms'[wants[d]].player2 # None
    <3>1. d # c /\ pc[d] \in {"start", "play"} /\ wants[d] \in Room
      BY <1>3, <2>3 DEF IInv, Held, Asked
    <3>2. rooms[wants[d]].player1 # None /\ rooms[wants[d]].player2 # None
      BY <3>1 DEF IInv, Seats
    <3> QED BY <1>3, <2>1, <3>1, <3>2
  <2> QED BY <1>2, <2>2, <2>3 DEF Seats
<1> QED BY <1>1, <1>4, <1>5, <1>6 DEF IInv

LEMMA TakeSecondStep == ASSUME IInv, NEW c \in Client, TakeSecond(c) PROVE IInv'
<1> DEFINE w == wants[c]
<1>0. pc[c] = "locked" /\ w \in Room /\ mutex[w] = c /\ rooms[w].player1 # None
  BY DEF TakeSecond, At, IInv, Held, Seats
<1>1. TypeOK'
  BY <1>0 DEF IInv, TypeOK, TakeSecond, Goto, Threads
<1>2. /\ rooms' = [rooms EXCEPT ![w] = [rooms[w] EXCEPT !.player2 = c, !.active = 2]]
      /\ pc' = [pc EXCEPT ![c] = "start"] /\ mutex' = mutex /\ wants' = wants
  BY <1>0 DEF TakeSecond, Goto, IInv, TypeOK
<1>3. /\ pc'[c] = "start" /\ \A d \in Client : d # c => pc'[d] = pc[d]
      /\ \A r \in Room : r # w => rooms'[r] = rooms[r]
      /\ rooms'[w].player1 = rooms[w].player1 /\ rooms'[w].player2 = c
      /\ rooms'[w].active = 2 /\ rooms'[w].gameRunning = rooms[w].gameRunning
  BY <1>0, <1>2 DEF IInv, TypeOK
<1>4. Held' /\ Asked' /\ Alone'
  BY <1>0, <1>2, <1>3 DEF IInv, Held, Asked, Alone
<1>5. Flagged'
  <2> SUFFICES ASSUME NEW d \in Client, pc'[d] \in {"play", "cleanup"}
               PROVE  rooms'[wants[d]].gameRunning
    BY <1>2 DEF Flagged
  <2>1. d # c /\ pc[d] \in {"play", "cleanup"} /\ wants[d] \in Room
    BY <1>3 DEF IInv, Asked
  <2>2. rooms[wants[d]].gameRunning
    BY <2>1 DEF IInv, Flagged
  <2>3. rooms'[wants[d]].gameRunning = rooms[wants[d]].gameRunning
    BY <1>3, <2>1
  <2> QED BY <2>2, <2>3
<1>6. Seats'
  <2>1. c # None
    BY RoomsAssumption
  <2>2. \A r \in Room : rooms'[r].active = 1 => rooms'[r].player1 # None
    BY <1>3 DEF IInv, Seats
  <2>3. ASSUME NEW d \in Client, pc'[d] \in {"start", "play"}
        PROVE  rooms'[wants[d]].player1 # None /\ rooms'[wants[d]].player2 # None
    <3>1. CASE d = c
      BY <1>0, <1>3, <2>1, <3>1
    <3>2. CASE d # c
      <4>1. pc[d] \in {"start", "play"} /\ wants[d] \in Room
        BY <1>3, <2>3, <3>2 DEF IInv, Held, Asked
      <4>2. rooms[wants[d]].player1 # None /\ rooms[wants[d]].player2 # None
        BY <4>1 DEF IInv, Seats
      <4> QED BY <1>3, <2>1, <4>1, <4>2
    <3> QED BY <3>1, <3>2
  <2> QED BY <1>2, <2>2, <2>3 DEF Seats
<1> QED BY <1>1, <1>4, <1>5, <1>6 DEF IInv

\* The flag was not set, so nobody plays here yet.
LEMMA StartStep == ASSUME IInv, NEW c \in Client, Start(c) PROVE IInv'
<1> DEFINE w == wants[c]
<1>0. pc[c] = "start" /\ w \in Room /\ mutex[w] = c /\ ~rooms[w].gameRunning
  BY DEF Start, At, NoGame, IInv, Held
<1>2. /\ rooms' = [rooms EXCEPT ![w] = [rooms[w] EXCEPT !.gameRunning = TRUE]]
      /\ mutex' = [mutex EXCEPT ![w] = None]
      /\ pc' = [pc EXCEPT ![c] = "play"] /\ wants' = wants
  BY <1>0 DEF Start, Unlock, Goto, IInv, TypeOK
<1>1. TypeOK'
  <2>1. [rooms[w] EXCEPT !.gameRunning = TRUE] \in
           [player1 : Client \cup {None}, player2 : Client \cup {None},
            active : 0..2, gameRunning : BOOLEAN]
    <3>1. rooms[w] \in [player1 : Client \cup {None}, player2 : Client \cup {None},
                        active : 0..2, gameRunning : BOOLEAN]
      BY <1>0 DEF IInv, TypeOK
    <3>2. TRUE \in BOOLEAN
      OBVIOUS
    <3> HIDE DEF w
    <3> QED BY <3>1, <3>2
  <2>2. sockets' = sockets /\ up' = up
    BY DEF Start
  <2> QED BY <1>0, <1>2, <2>1, <2>2 DEF IInv, TypeOK, Threads
<1>3. /\ pc'[c] = "play" /\ \A d \in Client : d # c => pc'[d] = pc[d]
      /\ \A r \in Room : r # w => rooms'[r] = rooms[r] /\ mutex'[r] = mutex[r]
      /\ rooms'[w].player1 = rooms[w].player1 /\ rooms'[w].player2 = rooms[w].player2
      /\ rooms'[w].active = rooms[w].active /\ rooms'[w].gameRunning = TRUE
  BY <1>0, <1>2 DEF IInv, TypeOK
<1>4. Held' /\ Asked'
  BY <1>0, <1>2, <1>3 DEF IInv, Held, Asked
<1>5. Flagged'
  <2> SUFFICES ASSUME NEW d \in Client, pc'[d] \in {"play", "cleanup"}
               PROVE  rooms'[wants[d]].gameRunning
    BY <1>2 DEF Flagged
  <2>1. CASE wants[d] = w
    BY <1>3, <2>1
  <2>2. CASE wants[d] # w
    <3>1. d # c /\ pc[d] \in {"play", "cleanup"} /\ wants[d] \in Room
      BY <1>3, <2>2 DEF IInv, Asked
    <3>2. rooms[wants[d]].gameRunning
      BY <3>1 DEF IInv, Flagged
    <3>3. rooms'[wants[d]] = rooms[wants[d]]
      BY <1>3, <2>2, <3>1
    <3> QED BY <3>2, <3>3
  <2> QED BY <2>1, <2>2
<1>6. Alone'
  <2>1. \A d \in Client : pc[d] \in {"play", "cleanup"} => wants[d] # w
    BY <1>0 DEF IInv, Flagged
  <2> QED BY <1>2, <1>3, <2>1 DEF IInv, Alone
<1>7. Seats'
  <2>1. rooms[w].player1 # None /\ rooms[w].player2 # None
    BY <1>0 DEF IInv, Seats
  <2>2. \A r \in Room : rooms'[r].active = 1 => rooms'[r].player1 # None
    BY <1>3, <2>1 DEF IInv, Seats
  <2>3. ASSUME NEW d \in Client, pc'[d] \in {"start", "play"}
        PROVE  rooms'[wants[d]].player1 # None /\ rooms'[wants[d]].player2 # None
    <3>1. CASE wants[d] = w
      BY <1>3, <2>1, <3>1
    <3>2. CASE wants[d] # w
      <4>1. d # c /\ pc[d] \in {"start", "play"} /\ wants[d] \in Room
        BY <1>3, <2>3, <3>2 DEF IInv, Held, Asked
      <4>2. rooms[wants[d]].player1 # None /\ rooms[wants[d]].player2 # None
        BY <4>1 DEF IInv, Seats
      <4> QED BY <1>3, <3>2, <4>1, <4>2
    <3> QED BY <3>1, <3>2
  <2> QED BY <1>2, <2>2, <2>3 DEF Seats
<1> QED BY <1>1, <1>4, <1>5, <1>6, <1>7 DEF IInv

\* The mutex is free, so no thread is about to start here, and none plays here but
\* the one that clears the room.
LEMMA CleanupStep == ASSUME IInv, NEW c \in Client, Cleanup(c) PROVE IInv'
<1> DEFINE w == wants[c]
<1>0. pc[c] = "cleanup" /\ w \in Room /\ mutex[w] = None
  BY DEF Cleanup, At, CanLock, IInv, Asked
<1>1. TypeOK'
  BY <1>0 DEF IInv, TypeOK, Cleanup, Cleared, Goto, Threads
<1>2. /\ rooms' = [rooms EXCEPT ![w] = Cleared(rooms[w])]
      /\ pc' = [pc EXCEPT ![c] = "destroy"] /\ mutex' = mutex /\ wants' = wants
  BY <1>0 DEF Cleanup, Goto
<1>3. /\ pc'[c] = "destroy" /\ \A d \in Client : d # c => pc'[d] = pc[d]
      /\ \A r \in Room : r # w => rooms'[r] = rooms[r]
      /\ rooms'[w].active = 0
  BY <1>0, <1>2 DEF IInv, TypeOK, Cleared
<1>4. Held' /\ Asked' /\ Alone'
  BY <1>0, <1>2, <1>3 DEF IInv, Held, Asked, Alone
<1>5. ASSUME NEW d \in Client, pc'[d] \in {"start", "play", "cleanup"}
      PROVE  /\ pc[d] = pc'[d] /\ wants[d] \in Room
             /\ rooms'[wants[d]] = rooms[wants[d]]
  <2>1. d # c /\ pc[d] = pc'[d]
    BY <1>3, <1>5
  <2>2. wants[d] \in Room
    BY <1>5, <2>1 DEF IInv, Held, Asked
  <2>3. CASE pc[d] = "start"
    <3>1. mutex[wants[d]] = d /\ d # None
      BY <2>3, RoomsAssumption DEF IInv, Held
    <3> QED BY <1>0, <1>3, <2>1, <2>2, <3>1
  <2>4. CASE pc[d] \in {"play", "cleanup"}
    <3>1. wants[d] # w
      BY <1>0, <2>1, <2>4 DEF IInv, Alone
    <3> QED BY <1>3, <2>1, <2>2, <3>1
  <2> QED BY <1>5, <2>1, <2>3, <2>4
<1>6. Flagged'
  <2> SUFFICES ASSUME NEW d \in Client, pc'[d] \in {"play", "cleanup"}
               PROVE  rooms'[wants[d]].gameRunning
    BY <1>2 DEF Flagged
  <2>1. pc[d] = pc'[d] /\ rooms'[wants[d]] = rooms[wants[d]]
    BY <1>5
  <2>2. rooms[wants[d]].gameRunning
    BY <2>1 DEF IInv, Flagged
  <2> QED BY <2>1, <2>2
<1>7. Seats'
  <2>1. \A r \in Room : rooms'[r].active = 1 => rooms'[r].player1 # None
    BY <1>3 DEF IInv, Seats
  <2> QED BY <1>2, <1>5, <2>1 DEF IInv, Seats
<1> QED BY <1>1, <1>4, <1>6, <1>7 DEF IInv

(***************************************************************************)
(* The theorems.                                                           *)
(***************************************************************************)
LEMMA Inductive == IInv /\ [Next]_vars => IInv'
<1> SUFFICES ASSUME IInv, [Next]_vars PROVE IInv'
  OBVIOUS
<1>1. CASE UNCHANGED vars
  BY <1>1 DEF vars, IInv, TypeOK, Held, Asked, Flagged, Alone, Seats
<1>2. CASE Next
  <2> PICK c \in Client :
        \/ Accept(c) \/ NoJoin(c) \/ Gone(c)
        \/ \E r \in Room \cup {BadRoom} : Join(c, r)
        \/ JoinStep(c)
        \/ GameOver(c) \/ PlayerGone(c) \/ Cleanup(c) \/ Exit(c)
    BY <1>2 DEF Next
  <2>1. CASE JoinStep(c)
    BY <2>1, EnterStep, FindEmptyStep, CreateStep, TakeSecondStep, StartStep,
       FindFullStep DEF JoinStep
  <2>2. CASE Cleanup(c)
    BY <2>2, CleanupStep
  <2> QED BY <2>1, <2>2, OutsideStep
<1> QED BY <1>1, <1>2

\* The inductive invariant holds in every state.
THEOREM Invariant == Spec => []IInv
BY InitIInv, Inductive, PTL DEF Spec

\* Every variable keeps to its type: a room never has more than two active players,
\* though server2_createRoom sets the number without looking at it.
THEOREM TypeCorrect == Spec => []TypeOK
<1>1. IInv => TypeOK
  BY DEF IInv
<1> QED BY <1>1, Invariant, PTL

\* Two threads never run server2_runGame for one room.
THEOREM AtMostOneGame == Spec => []OneGame
<1>1. IInv => OneGame
  <2> SUFFICES ASSUME IInv, NEW r \in Room PROVE Cardinality(Playing(r)) <= 1
    BY DEF OneGame
  <2>1. CASE Playing(r) = {}
    BY <2>1, FS_EmptySet
  <2>2. CASE Playing(r) # {}
    <3> PICK c : c \in Playing(r)
      BY <2>2
    <3>1. \A d \in Playing(r) : d = c
      BY DEF Playing, IInv, Alone
    <3>2. Playing(r) = {c}
      BY <3>1
    <3>3. Cardinality({c}) = 1
      BY FS_Singleton
    <3> QED BY <3>2, <3>3
  <2> QED BY <2>1, <2>2
<1> QED BY <1>1, Invariant, PTL

\* A game's thread never finds the socket -1 in a seat.
THEOREM NoEmptySeat == Spec => []SeatsTaken
<1>1. IInv => SeatsTaken
  BY DEF IInv, Seats, SeatsTaken, Players
<1> QED BY <1>1, Invariant, PTL

(***************************************************************************)
(* A room with active players has somebody in it.                          *)
(***************************************************************************)
\* A socket is open from accept until its thread has a seat or is refused.
Open ==
    \A c \in Client : pc[c] \in {"recv", "join", "locked", "create"} => c \in sockets

\* Whoever has a seat has come by it: the first as the room's creator, whose thread
\* has ended, the second in the critical section of server2_joinRoom.
Sitting ==
    \A r \in Room, c \in Client :
        /\ rooms[r].player1 = c => wants[c] = r /\ pc[c] = "seated"
        /\ rooms[r].player2 = c =>
              wants[c] = r /\ pc[c] \in {"start", "play", "cleanup", "destroy", "refused"}

\* Somebody plays in the room, or waits in it for a second player.
Somebody(r) ==
    \E c \in Client : /\ wants[c] = r
                      /\ \/ pc[c] \in {"play", "cleanup"}
                         \/ pc[c] = "seated" /\ c \in sockets
Occupied == \A r \in Room : rooms[r].active # 0 => Somebody(r)

Seating == Open /\ Sitting /\ Occupied

LEMMA InitSeating == Init => Seating
<1> SUFFICES ASSUME Init PROVE Seating
  OBVIOUS
<1>1. Open
  BY DEF Init, Open
<1>2. \A r \in Room : /\ rooms[r].player1 = None /\ rooms[r].player2 = None
                       /\ rooms[r].active = 0
  BY DEF Init
<1> QED  BY <1>1, <1>2, RoomsAssumption DEF Seating, Sitting, Occupied

\* A thread that has no seat and takes none moves on; nobody else's socket closes.
LEMMA PassingStep ==
    ASSUME IInv, Seating, NEW c \in Client,
           rooms' = rooms,
           \A d \in Client : d # c => /\ pc'[d] = pc[d] /\ wants'[d] = wants[d]
                                      /\ d \in sockets' <=> d \in sockets,
           pc[c] \in {"off", "recv", "join", "locked"},
           pc'[c] \in {"recv", "join", "locked", "create"} => c \in sockets',
           pc'[c] \in Threads
    PROVE  Seating'
<1>1. Open'
  BY DEF Seating, Open
<1>2. Sitting'
  BY DEF Seating, Sitting
<1>3. Occupied'
  <2> SUFFICES ASSUME NEW r \in Room, rooms[r].active # 0 PROVE Somebody(r)'
    BY DEF Occupied
  <2>1. PICK d \in Client : /\ wants[d] = r
                            /\ \/ pc[d] \in {"play", "cleanup"}
                               \/ pc[d] = "seated" /\ d \in sockets
    BY DEF Seating, Occupied, Somebody
  <2>2. d # c
    BY <2>1
  <2>3. wants'[d] = wants[d] /\ pc'[d] = pc[d] /\ (d \in sockets' <=> d \in sockets)
    BY <2>2
  <2> QED  BY <2>1, <2>3 DEF Somebody
<1> QED  BY <1>1, <1>2, <1>3 DEF Seating

LEMMA NextPassing ==
    ASSUME IInv, Seating, NEW c \in Client,
           \/ Accept(c) \/ NoJoin(c) \/ Enter(c) \/ FindEmpty(c)
           \/ \E r \in Room \cup {BadRoom} : Join(c, r)
    PROVE  Seating'
<1>0. /\ pc \in [Client -> Threads] /\ wants \in [Client -> Room \cup {BadRoom}]
      /\ pc[c] \in {"recv", "join", "locked", "create"} => c \in sockets
  BY DEF IInv, TypeOK, Seating, Open
<1>1. CASE Accept(c)
  <2>1. /\ rooms' = rooms /\ wants' = wants /\ sockets' = sockets \cup {c}
        /\ pc[c] = "off" /\ pc' = [pc EXCEPT ![c] = "recv"]
    BY <1>1 DEF Accept, At, Goto
  <2> HIDE <1>1
  <2> QED  BY <1>0, <2>1, PassingStep DEF Threads
<1>2. CASE NoJoin(c)
  <2>1. /\ rooms' = rooms /\ wants' = wants /\ sockets' = sockets
        /\ pc[c] = "recv" /\ pc' = [pc EXCEPT ![c] = "ignored"]
    BY <1>2 DEF NoJoin, At, Goto
  <2> HIDE <1>2
  <2> QED  BY <1>0, <2>1, PassingStep DEF Threads
<1>3. CASE Enter(c)
  <2>1. /\ rooms' = rooms /\ wants' = wants /\ sockets' = sockets
        /\ pc[c] = "join" /\ pc' = [pc EXCEPT ![c] = "locked"]
    BY <1>3 DEF Enter, At, Goto
  <2> HIDE <1>3
  <2> QED  BY <1>0, <2>1, PassingStep DEF Threads
<1>4. CASE FindEmpty(c)
  <2>1. /\ rooms' = rooms /\ wants' = wants /\ sockets' = sockets
        /\ pc[c] = "locked" /\ pc' = [pc EXCEPT ![c] = "create"]
    BY <1>4 DEF FindEmpty, At, Goto
  <2> HIDE <1>4
  <2> QED  BY <1>0, <2>1, PassingStep DEF Threads
<1>5. ASSUME NEW r \in Room \cup {BadRoom}, Join(c, r) PROVE Seating'
  <2>1. /\ rooms' = rooms /\ wants' = [wants EXCEPT ![c] = r] /\ pc[c] = "recv"
        /\ \/ pc' = [pc EXCEPT ![c] = "join"] /\ sockets' = sockets
           \/ pc' = [pc EXCEPT ![c] = "refused"] /\ sockets' = sockets \ {c}
    BY <1>5 DEF Join, At, Goto
  <2>2. CASE pc' = [pc EXCEPT ![c] = "join"] /\ sockets' = sockets
    BY <1>0, <2>1, <2>2, PassingStep DEF Threads
  <2>3. CASE pc' = [pc EXCEPT ![c] = "refused"] /\ sockets' = sockets \ {c}
    BY <1>0, <2>1, <2>3, PassingStep DEF Threads
  <2> QED  BY <2>1, <2>2, <2>3
<1> QED  BY <1>1, <1>2, <1>3, <1>4, <1>5

\* The creator takes the first seat and waits in the room.
LEMMA CreateSeating == ASSUME IInv, Seating, NEW c \in Client, Create(c) PROVE Seating'
<1> DEFINE w == wants[c]
<1>0. pc[c] = "create" /\ w \in Room /\ c \in sockets
  BY DEF Create, At, IInv, Asked, Seating, Open
<1>1. /\ rooms' = [rooms EXCEPT ![w] = [rooms[w] EXCEPT !.player1 = c, !.active = 1]]
      /\ pc' = [pc EXCEPT ![c] = "seated"] /\ sockets' = sockets /\ wants' = wants
  BY <1>0 DEF Create, Goto, IInv, TypeOK
<1>2. /\ pc'[c] = "seated" /\ \A d \in Client : d # c => pc'[d] = pc[d]
      /\ \A r \in Room : r # w => rooms'[r] = rooms[r]
      /\ rooms'[w].player1 = c /\ rooms'[w].player2 = rooms[w].player2
  BY <1>0, <1>1 DEF IInv, TypeOK
<1>3. Open'
  BY <1>1, <1>2 DEF Seating, Open
<1>4. Sitting'
  <2> SUFFICES ASSUME NEW r \in Room, NEW d \in Client
               PROVE  /\ rooms'[r].player1 = d => wants[d] = r /\ pc'[d] = "seated"
                      /\ rooms'[r].player2 = d =>
                            /\ wants[d] = r
                            /\ pc'[d] \in {"start", "play", "cleanup", "destroy", "refused"}
    BY <1>1 DEF Sitting
  <2>1. /\ rooms[r].player1 = d => wants[d] = r /\ pc[d] = "seated"
        /\ rooms[r].player2 = d =>
              wants[d] = r /\ pc[d] \in {"start", "play", "cleanup", "destroy", "refused"}
    BY DEF Seating, Sitting
  <2>2. rooms[r].player1 # c /\ rooms[r].player2 # c
    BY <1>0 DEF Seating, Sitting
  <2>3. CASE r = w
    BY <1>2, <2>1, <2>2, <2>3
  <2>4. CASE r # w
    BY <1>2, <2>1, <2>2, <2>4
  <2> QED  BY <2>3, <2>4
<1>5. Occupied'
  <2> SUFFICES ASSUME NEW r \in Room, rooms'[r].active # 0 PROVE Somebody(r)'
    BY DEF Occupied
  <2>1. CASE r = w
    BY <1>0, <1>1, <1>2, <2>1 DEF Somebody
  <2>2. CASE r # w
    <3>1. PICK d \in Client : /\ wants[d] = r
                              /\ \/ pc[d] \in {"play", "cleanup"}
                                 \/ pc[d] = "seated" /\ d \in sockets
      BY <1>2, <2>2 DEF Seating, Occupied, Somebody
    <3> QED  BY <1>1, <1>2, <2>2, <3>1 DEF Somebody
  <2> QED  BY <2>1, <2>2
<1> QED  BY <1>3, <1>4, <1>5 DEF Seating

\* Whoever takes the second seat finds somebody in the room.
LEMMA TakeSecondSeating ==
    ASSUME IInv, Seating, NEW c \in Client, TakeSecond(c)
    PROVE  Seating'
<1> DEFINE w == wants[c]
<1>0. pc[c] = "locked" /\ w \in Room /\ rooms[w].active = 1
  BY DEF TakeSecond, At, IInv, Held
<1>1. /\ rooms' = [rooms EXCEPT ![w] = [rooms[w] EXCEPT !.player2 = c, !.active = 2]]
      /\ pc' = [pc EXCEPT ![c] = "start"] /\ sockets' = sockets /\ wants' = wants
  BY <1>0 DEF TakeSecond, Goto, IInv, TypeOK
<1>2. /\ pc'[c] = "start" /\ \A d \in Client : d # c => pc'[d] = pc[d]
      /\ \A r \in Room : r # w => rooms'[r] = rooms[r]
      /\ rooms'[w].player1 = rooms[w].player1 /\ rooms'[w].player2 = c
  BY <1>0, <1>1 DEF IInv, TypeOK
<1>3. Open'
  BY <1>1, <1>2 DEF Seating, Open
<1>4. Sitting'
  <2> SUFFICES ASSUME NEW r \in Room, NEW d \in Client
               PROVE  /\ rooms'[r].player1 = d => wants[d] = r /\ pc'[d] = "seated"
                      /\ rooms'[r].player2 = d =>
                            /\ wants[d] = r
                            /\ pc'[d] \in {"start", "play", "cleanup", "destroy", "refused"}
    BY <1>1 DEF Sitting
  <2>1. /\ rooms[r].player1 = d => wants[d] = r /\ pc[d] = "seated"
        /\ rooms[r].player2 = d =>
              wants[d] = r /\ pc[d] \in {"start", "play", "cleanup", "destroy", "refused"}
    BY DEF Seating, Sitting
  <2>2. rooms[r].player1 # c /\ rooms[r].player2 # c
    BY <1>0 DEF Seating, Sitting
  <2>3. CASE r = w
    BY <1>2, <2>1, <2>2, <2>3
  <2>4. CASE r # w
    BY <1>2, <2>1, <2>2, <2>4
  <2> QED  BY <2>3, <2>4
<1>5. Occupied'
  <2> SUFFICES ASSUME NEW r \in Room, rooms'[r].active # 0 PROVE Somebody(r)'
    BY DEF Occupied
  <2>1. rooms[r].active # 0
    BY <1>0, <1>2
  <2>2. PICK d \in Client : /\ wants[d] = r
                            /\ \/ pc[d] \in {"play", "cleanup"}
                               \/ pc[d] = "seated" /\ d \in sockets
    BY <2>1 DEF Seating, Occupied, Somebody
  <2>3. d # c
    BY <1>0, <2>2
  <2> QED  BY <1>1, <1>2, <2>2, <2>3 DEF Somebody
<1> QED  BY <1>3, <1>4, <1>5 DEF Seating

\* A game starts: its thread is in the room.
LEMMA StartSeating == ASSUME IInv, Seating, NEW c \in Client, Start(c) PROVE Seating'
<1> DEFINE w == wants[c]
<1>0. pc[c] = "start" /\ w \in Room
  BY DEF Start, At, IInv, Held
<1>1. /\ rooms' = [rooms EXCEPT ![w] = [rooms[w] EXCEPT !.gameRunning = TRUE]]
      /\ pc' = [pc EXCEPT ![c] = "play"] /\ sockets' = sockets /\ wants' = wants
  BY <1>0 DEF Start, Goto, IInv, TypeOK
<1>2. /\ pc'[c] = "play" /\ \A d \in Client : d # c => pc'[d] = pc[d]
      /\ \A r \in Room : /\ rooms'[r].player1 = rooms[r].player1
                          /\ rooms'[r].player2 = rooms[r].player2
                          /\ rooms'[r].active = rooms[r].active
  BY <1>0, <1>1 DEF IInv, TypeOK
<1>3. Open'
  BY <1>1, <1>2 DEF Seating, Open
<1>4. Sitting'
  BY <1>0, <1>1, <1>2 DEF Seating, Sitting
<1>5. Occupied'
  <2> SUFFICES ASSUME NEW r \in Room, rooms[r].active # 0 PROVE Somebody(r)'
    BY <1>2 DEF Occupied
  <2>1. PICK d \in Client : /\ wants[d] = r
                            /\ \/ pc[d] \in {"play", "cleanup"}
                               \/ pc[d] = "seated" /\ d \in sockets
    BY DEF Seating, Occupied, Somebody
  <2> QED  BY <1>0, <1>1, <1>2, <2>1 DEF Somebody
<1> QED  BY <1>3, <1>4, <1>5 DEF Seating

\* Whoever is refused was not alone in the room.
LEMMA FindFullSeating == ASSUME IInv, Seating, NEW c \in Client, FindFull(c) PROVE Seating'
<1>0. pc[c] \in {"locked", "start"}
  BY DEF FindFull, At
<1>1. /\ rooms' = rooms /\ pc' = [pc EXCEPT ![c] = "refused"]
      /\ sockets' = sockets \ {c} /\ wants' = wants
  BY DEF FindFull, Goto
<1>2. pc'[c] = "refused" /\ \A d \in Client : d # c => pc'[d] = pc[d]
  BY <1>1 DEF IInv, TypeOK
<1>3. Open'
  BY <1>1, <1>2 DEF Seating, Open
<1>4. Sitting'
  BY <1>0, <1>1, <1>2 DEF Seating, Sitting
<1>5. Occupied'
  <2> SUFFICES ASSUME NEW r \in Room, rooms[r].active # 0 PROVE Somebody(r)'
    BY <1>1 DEF Occupied
  <2>1. PICK d \in Client : /\ wants[d] = r
                            /\ \/ pc[d] \in {"play", "cleanup"}
                               \/ pc[d] = "seated" /\ d \in sockets
    BY DEF Seating, Occupied, Somebody
  <2>2. d # c
    BY <1>0, <2>1
  <2> QED  BY <1>1, <1>2, <2>1, <2>2 DEF Somebody
<1> QED  BY <1>3, <1>4, <1>5 DEF Seating

\* The sockets a game closes are those of clients of its own room, which its thread
\* does not leave before it has cleared it.
LEMMA GameOverSeating == ASSUME IInv, Seating, NEW c \in Client, GameOver(c) PROVE Seating'
<1> DEFINE w == wants[c]
<1>0. pc[c] = "play" /\ w \in Room
  BY DEF GameOver, At, IInv, Asked
<1>1. /\ rooms' = rooms /\ pc' = [pc EXCEPT ![c] = "cleanup"]
      /\ sockets' = sockets \ {rooms[w].player1, rooms[w].player2} /\ wants' = wants
  BY DEF GameOver, Goto, Players
<1>2. pc'[c] = "cleanup" /\ \A d \in Client : d # c => pc'[d] = pc[d]
  BY <1>1 DEF IInv, TypeOK
<1>3. \A d \in Client : d \in {rooms[w].player1, rooms[w].player2} =>
          wants[d] = w /\ pc[d] \notin {"recv", "join", "locked", "create"}
  BY <1>0 DEF Seating, Sitting
<1>4. Open'
  BY <1>1, <1>2, <1>3 DEF Seating, Open
<1>5. Sitting'
  BY <1>0, <1>1, <1>2 DEF Seating, Sitting
<1>6. Occupied'
  <2> SUFFICES ASSUME NEW r \in Room, rooms[r].active # 0 PROVE Somebody(r)'
    BY <1>1 DEF Occupied
  <2>1. CASE r = w
    BY <1>1, <1>2, <2>1 DEF Somebody
  <2>2. CASE r # w
    <3>1. PICK d \in Client : /\ wants[d] = r
                              /\ \/ pc[d] \in {"play", "cleanup"}
                                 \/ pc[d] = "seated" /\ d \in sockets
      BY DEF Seating, Occupied, Somebody
    <3>2. d # c /\ d \notin {rooms[w].player1, rooms[w].player2}
      BY <1>3, <2>2, <3>1
    <3> QED  BY <1>1, <1>2, <3>1, <3>2 DEF Somebody
  <2> QED  BY <2>1, <2>2
<1> QED  BY <1>4, <1>5, <1>6 DEF Seating

\* The room is cleared before its thread leaves it.
LEMMA CleanupSeating == ASSUME IInv, Seating, NEW c \in Client, Cleanup(c) PROVE Seating'
<1> DEFINE w == wants[c]
<1>0. pc[c] = "cleanup" /\ w \in Room
  BY DEF Cleanup, At, IInv, Asked
<1>1. /\ rooms' = [rooms EXCEPT ![w] = Cleared(rooms[w])]
      /\ pc' = [pc EXCEPT ![c] = "destroy"] /\ sockets' = sockets /\ wants' = wants
  BY DEF Cleanup, Goto
<1>2. /\ pc'[c] = "destroy" /\ \A d \in Client : d # c => pc'[d] = pc[d]
      /\ \A r \in Room : r # w => rooms'[r] = rooms[r]
      /\ rooms'[w].player1 = None /\ rooms'[w].player2 = None /\ rooms'[w].active = 0
  BY <1>0, <1>1 DEF IInv, TypeOK, Cleared
<1>3. Open'
  BY <1>1, <1>2 DEF Seating, Open
<1>4. Sitting'
  <2> SUFFICES ASSUME NEW r \in Room, NEW d \in Client
               PROVE  /\ rooms'[r].player1 = d => wants[d] = r /\ pc'[d] = "seated"
                      /\ rooms'[r].player2 = d =>
                            /\ wants[d] = r
                            /\ pc'[d] \in {"start", "play", "cleanup", "destroy", "refused"}
    BY <1>1 DEF Sitting
  <2>1. CASE r = w
    BY <1>2, <2>1, RoomsAssumption
  <2>2. CASE r # w
    BY <1>0, <1>2, <2>2 DEF Seating, Sitting
  <2> QED  BY <2>1, <2>2
<1>5. Occupied'
  <2> SUFFICES ASSUME NEW r \in Room, rooms'[r].active # 0 PROVE Somebody(r)'
    BY DEF Occupied
  <2>1. r # w
    BY <1>2
  <2>2. PICK d \in Client : /\ wants[d] = r
                            /\ \/ pc[d] \in {"play", "cleanup"}
                               \/ pc[d] = "seated" /\ d \in sockets
    BY <1>2, <2>1 DEF Seating, Occupied, Somebody
  <2> QED  BY <1>1, <1>2, <2>1, <2>2 DEF Somebody
<1> QED  BY <1>3, <1>4, <1>5 DEF Seating

LEMMA NextSeating == IInv /\ Seating /\ [Next]_vars => Seating'
<1> SUFFICES ASSUME IInv, Seating, [Next]_vars PROVE Seating'
  OBVIOUS
<1>1. ASSUME UNCHANGED <<rooms, pc, wants, sockets>> PROVE Seating'
  BY <1>1 DEF Seating, Open, Sitting, Occupied, Somebody
<1>2. CASE UNCHANGED vars
  BY <1>1, <1>2 DEF vars
<1>3. CASE Next
  <2> PICK c \in Client :
        \/ Accept(c) \/ NoJoin(c) \/ Gone(c)
        \/ \E r \in Room \cup {BadRoom} : Join(c, r)
        \/ JoinStep(c)
        \/ GameOver(c) \/ PlayerGone(c) \/ Cleanup(c) \/ Exit(c)
    BY <1>3 DEF Next
  <2>1. CASE Gone(c) \/ PlayerGone(c) \/ Exit(c)
    BY <1>1, <2>1 DEF Gone, PlayerGone, Exit
  <2>2. CASE JoinStep(c)
    BY <2>2, NextPassing, CreateSeating, TakeSecondSeating, StartSeating, FindFullSeating
       DEF JoinStep
  <2> QED  BY <2>1, <2>2, NextPassing, GameOverSeating, CleanupSeating
<1> QED  BY <1>2, <1>3

\* A room with active players has somebody who is on the way into it, plays in it,
\* clears it, or is seated in it with a socket that the server has not closed.  The
\* server closes the sockets of seated players only when a game is over, so this says
\* that the game whose room was cleared leaves none of its players behind; a player
\* who waits alone and goes away is not noticed, and keeps the room.
THEOREM NoGhosts == Spec => []RoomFree
<1>1. IInv /\ Seating => RoomFree
  <2> SUFFICES ASSUME IInv, Seating, NEW r \in Room, rooms[r].active # 0,
                      \A c \in Client : wants[c] = r =>
                          \/ pc[c] \in {"join", "refused", "destroy"}
                          \/ pc[c] = "seated" /\ c \notin sockets
               PROVE  FALSE
    BY DEF RoomFree
  <2> QED  BY DEF Seating, Occupied, Somebody
<1>2. Spec => []Seating
  BY InitSeating, NextSeating, Invariant, PTL DEF Spec
<1> QED  BY <1>1, <1>2, Invariant, PTL
=============================================================================
