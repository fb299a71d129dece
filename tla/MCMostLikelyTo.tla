--------------------------- MODULE MCMostLikelyTo ---------------------------
(* Four players, of whom three or four are dealt in. *)
EXTENDS VoteScreens, TLC

PlayerSymmetry == Permutations(Player)
=============================================================================
