------------------------------ MODULE RoundGame ------------------------------
(***************************************************************************)
(* What the room relies on a game for (packages/core/src/game.ts), over    *)
(* one round: the points it would give the players it was dealt, and       *)
(* whether the round is complete.  It is the game inside Room.tla: Play is *)
(* GameEvent's, Depart is GameAfterLeave's.  The games implement it.       *)
(*                                                                         *)
(* The room looks at isComplete after a game event and not after a leave,  *)
(* and folds what `scores` then says: a leave that completed the round, or *)
(* moved the points of those who stay, would go by unnoticed.              *)
(***************************************************************************)
EXTENDS Naturals

CONSTANTS Player, MaxPoints

VARIABLES points,      \* player -> points
          complete

gameVars == <<points, complete>>

GameInit ==
  /\ \E active \in SUBSET Player : points = [p \in active |-> 0]
  /\ complete = FALSE

Play ==
  /\ ~complete
  /\ points' \in [DOMAIN points -> 0..MaxPoints]
  /\ complete' \in BOOLEAN

Depart(p) ==
  /\ ~complete
  /\ points' = [q \in DOMAIN points \ {p} |-> points[q]]
  /\ UNCHANGED complete

GameSpec == GameInit /\ [][Play \/ \E p \in Player : Depart(p)]_gameVars
=============================================================================
