---------------------------- MODULE MCGameRooms ----------------------------
(* Four clients: two that find the room empty, two more for its second seat. *)
EXTENDS GameRooms

CONSTANTS c1, c2, c3, c4, r1, r2
=============================================================================
