--------------------------- MODULE MCRoomSeating ---------------------------
(* A two-seat and a three-seat game in a room that fills at five. *)
EXTENDS RoomSeating

CONSTANTS two, three, c1

MCMinPlayers == [g \in GameId |-> 2]
MCMaxPlayers == [g \in GameId |-> IF g = two THEN 2 ELSE 3]
MCRoundCount ==
  [x \in GameId \X (Config \cup {Unset}) |-> IF x[2] = Unset THEN 4 ELSE 2]
=============================================================================
