----------------------------- MODULE GameRooms -----------------------------
(***************************************************************************)
(* Part 2 of assignment 1, server-p2.c: five rooms, one thread per client, *)
(* one mutex per room.  A thread that finds a room empty unlocks it and    *)
(* locks it again in server2_createRoom; the thread of the second player   *)
(* runs the game, without the lock; the end of a game ends the server.     *)
(* gameRunning is not initialised.                                         *)
(*                                                                         *)
(* What the players of a game send each other is not modelled here: a game *)
(* goes on turn by turn until it ends.  What other threads do once         *)
(* server2_destroy has begun to free the rooms is undefined, and the       *)
(* process is about to exit; here it has exited.                           *)
(***************************************************************************)
EXTENDS Naturals, FiniteSets

CONSTANTS
    Client,     \* connections, standing for their sockets and threads
    Room,       \* room numbers in range
    BadRoom,    \* any other number
    None        \* the socket -1

ASSUME RoomsAssumption == BadRoom \notin Room /\ None \notin Client

VARIABLES
    rooms,      \* per room: the two sockets, numActivePlayers, gameRunning
    mutex,      \* per room: the thread that holds roomMutex, or None
    pc,         \* per client's thread
    wants,      \* the room in its JOIN
    sockets,    \* clients whose sockets are open
    up          \* the server runs

vars == <<rooms, mutex, pc, wants, sockets, up>>

Init ==
    /\ rooms \in [Room -> [player1 : {None}, player2 : {None}, active : {0},
                           gameRunning : BOOLEAN]]
    /\ mutex = [r \in Room |-> None]
    /\ pc = [c \in Client |-> "off"]
    /\ wants = [c \in Client |-> BadRoom]
    /\ sockets = {} /\ up = TRUE

\* Mutant: pthread_mutex_lock is left out.
Unlocked(r) == TRUE
CanLock(r)  == mutex[r] = None

At(c, where) == up /\ pc[c] = where
Goto(c, where) == pc' = [pc EXCEPT ![c] = where]
Lock(r, c)  == mutex' = [mutex EXCEPT ![r] = c]
Unlock(r)   == mutex' = [mutex EXCEPT ![r] = None]

\* The accept loop starts a thread.
Accept(c) ==
    /\ At(c, "off")
    /\ sockets' = sockets \cup {c}
    /\ Goto(c, "recv")
    /\ UNCHANGED <<rooms, mutex, wants, up>>

\* server2_handleNewClient: JOIN with a room; something else, which is not
\* answered; or the end of the stream, which ends the server.
Join(c, r) ==
    /\ At(c, "recv")
    /\ wants' = [wants EXCEPT ![c] = r]
    /\ IF r \in Room THEN Goto(c, "join") /\ UNCHANGED sockets
       ELSE Goto(c, "refused") /\ sockets' = sockets \ {c}
    /\ UNCHANGED <<rooms, mutex, up>>

NoJoin(c) ==
    /\ At(c, "recv")
    /\ Goto(c, "ignored")
    /\ UNCHANGED <<rooms, mutex, wants, sockets, up>>

Gone(c) ==
    /\ At(c, "recv") /\ up' = FALSE
    /\ UNCHANGED <<rooms, mutex, pc, wants, sockets>>

(***************************************************************************)
(* server2_joinRoom and server2_createRoom.                                *)
(***************************************************************************)
Enter(c) ==
    /\ At(c, "join") /\ CanLock(wants[c])
    /\ Lock(wants[c], c) /\ Goto(c, "locked")
    /\ UNCHANGED <<rooms, wants, sockets, up>>

\* Mutant: the room is still locked when it is locked again.
KeepsLock(c) ==
    /\ At(c, "locked") /\ rooms[wants[c]].active = 0
    /\ Goto(c, "create")
    /\ UNCHANGED <<rooms, mutex, wants, sockets, up>>
FindEmpty(c) ==
    /\ At(c, "locked") /\ rooms[wants[c]].active = 0
    /\ Unlock(wants[c]) /\ Goto(c, "create")
    /\ UNCHANGED <<rooms, wants, sockets, up>>

\* By now another thread may have created the room, and a game may be on.
Create(c) ==
    /\ At(c, "create") /\ CanLock(wants[c])
    /\ rooms' = [rooms EXCEPT ![wants[c]].player1 = c, ![wants[c]].active = 1]
    /\ Goto(c, "seated")
    /\ UNCHANGED <<mutex, wants, sockets, up>>

TakeSecond(c) ==
    /\ At(c, "locked") /\ rooms[wants[c]].active = 1
    /\ rooms' = [rooms EXCEPT ![wants[c]].player2 = c, ![wants[c]].active = 2]
    /\ Goto(c, "start")
    /\ UNCHANGED <<mutex, wants, sockets, up>>

\* Mutant: the flag is not looked at.
AnyTime(r) == TRUE
NoGame(r)  == ~rooms[r].gameRunning

Start(c) ==
    /\ At(c, "start") /\ NoGame(wants[c])
    /\ rooms' = [rooms EXCEPT ![wants[c]].gameRunning = TRUE]
    /\ Unlock(wants[c]) /\ Goto(c, "play")
    /\ UNCHANGED <<wants, sockets, up>>

\* "Room is full", also for a second player who has just been given the seat.
FindFull(c) ==
    /\ \/ At(c, "locked") /\ rooms[wants[c]].active = 2
       \/ At(c, "start") /\ ~NoGame(wants[c])
    /\ Unlock(wants[c]) /\ Goto(c, "refused")
    /\ sockets' = sockets \ {c}
    /\ UNCHANGED <<rooms, wants, up>>

(***************************************************************************)
(* server2_runGame.                                                        *)
(***************************************************************************)
Players(r) == {rooms[r].player1, rooms[r].player2}

\* The last move: both sockets are closed, whosever they are by now.
GameOver(c) ==
    /\ At(c, "play")
    /\ sockets' = sockets \ Players(wants[c])
    /\ Goto(c, "cleanup")
    /\ UNCHANGED <<rooms, mutex, wants, up>>

\* A player is gone: exit.
PlayerGone(c) ==
    /\ At(c, "play") /\ up' = FALSE
    /\ UNCHANGED <<rooms, mutex, pc, wants, sockets>>

\* Mutant: only the flag is reset.
FlagOnly(room) == [room EXCEPT !.gameRunning = FALSE]
Cleared(room)  == [player1 |-> None, player2 |-> None, active |-> 0, gameRunning |-> FALSE]

Cleanup(c) ==
    /\ At(c, "cleanup") /\ CanLock(wants[c])
    /\ rooms' = [rooms EXCEPT ![wants[c]] = Cleared(@)]
    /\ Goto(c, "destroy")
    /\ UNCHANGED <<mutex, wants, sockets, up>>

\* server2_destroy and exit, whatever goes on in the other rooms.
Exit(c) ==
    /\ At(c, "destroy") /\ up' = FALSE
    /\ UNCHANGED <<rooms, mutex, pc, wants, sockets>>

JoinStep(c) == Enter(c) \/ FindEmpty(c) \/ Create(c) \/ TakeSecond(c) \/ Start(c) \/ FindFull(c)

Next == \E c \in Client :
    \/ Accept(c) \/ NoJoin(c) \/ Gone(c)
    \/ \E r \in Room \cup {BadRoom} : Join(c, r)
    \/ JoinStep(c)
    \/ GameOver(c) \/ PlayerGone(c) \/ Cleanup(c) \/ Exit(c)

Spec == Init /\ [][Next]_vars

\* The threads run.  A mutex that is free long enough is taken; each client asks
\* for it a few times only, so nobody is overtaken for ever.
Fair == /\ Spec
        /\ \A c \in Client : WF_vars(JoinStep(c)) /\ WF_vars(Cleanup(c) \/ Exit(c))

(***************************************************************************)
(* Properties.                                                             *)
(***************************************************************************)
Threads == {"off", "recv", "ignored", "refused", "join", "locked", "create", "seated",
            "start", "play", "cleanup", "destroy"}

\* Every variable keeps to its type; a room never has more than two active players.
TypeOK ==
    /\ rooms \in [Room -> [player1 : Client \cup {None}, player2 : Client \cup {None},
                           active : 0..2, gameRunning : BOOLEAN]]
    /\ mutex \in [Room -> Client \cup {None}]
    /\ pc \in [Client -> Threads] /\ wants \in [Client -> Room \cup {BadRoom}]
    /\ sockets \subseteq Client /\ up \in BOOLEAN

Playing(r) == {c \in Client : wants[c] = r /\ pc[c] \in {"play", "cleanup"}}

\* Two threads never run games in one room, though a client that found the room
\* empty may sit down as its first player in the middle of a game: server2_joinRoom
\* tests gameRunning in the critical section that gives the second seat away.
OneGame == \A r \in Room : Cardinality(Playing(r)) <= 1

\* A game's thread never finds a seat empty, so it sends to no socket -1, though it
\* reads the sockets without the lock and other threads write them.
SeatsTaken == \A r \in Room, c \in Client :
    up /\ wants[c] = r /\ pc[c] \in {"start", "play"} => None \notin Players(r)

\* When a game is over the room is free again, though the server is about to exit:
\* a room with no client that is on its way into it, plays in it or has an open
\* socket has no active players.
RoomFree == \A r \in Room :
    up /\ (\A c \in Client : wants[c] = r =>
              \/ pc[c] \in {"join", "refused", "destroy"}
              \/ pc[c] = "seated" /\ c \notin sockets)
       => rooms[r].active = 0

\* Every client that asks for a room is seated, plays or is refused, or the server
\* ends: each path through server2_joinRoom leaves the mutex free.
JoinEnds == \A c \in Client : pc[c] = "join" ~> ~up \/ pc[c] \notin
    {"join", "locked", "create", "start"}
=============================================================================
