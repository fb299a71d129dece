----------------------------- MODULE MCGuessWho -----------------------------
(* Three players and two different answers, so that equal ones occur. *)
EXTENDS GuessScreens, TLC

PlayerSymmetry == Permutations(Player)
=============================================================================
