SPECIFICATION Fair
CONSTANTS
    c1 = c1
    c2 = c2
    c3 = c3
    c4 = c4
    r1 = r1
    r2 = r2
    Client = {c1, c2, c3, c4}
    Room = {r1}
    BadRoom = BadRoom
    None = None
INVARIANTS
    OneGame
    SeatsTaken
    RoomFree
PROPERTIES
    JoinEnds
\* the server exits
CHECK_DEADLOCK FALSE
