--------------------------- MODULE MCRoomSession ---------------------------
(* One game for one or two, played twice: who is attached is what varies. *)
EXTENDS RoomSession

CONSTANTS g1, c1, a, b, c, d

MCMinPlayers == [g \in GameId |-> 1]
MCMaxPlayers == [g \in GameId |-> 1]
MCRoundCount == [x \in GameId \X (Config \cup {Unset}) |-> 1]
=============================================================================
