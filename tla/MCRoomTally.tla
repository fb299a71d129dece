---------------------------- MODULE MCRoomTally ----------------------------
(* Two players seats of a two-player game, three joins, two nicknames. *)
EXTENDS Standings

CONSTANTS g1, c1

MCMinPlayers == [g \in GameId |-> 1]
MCMaxPlayers == [g \in GameId |-> 2]
MCRoundCount == [x \in GameId \X (Config \cup {Unset}) |-> 2]
=============================================================================
