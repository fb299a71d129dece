---------------------------- MODULE MostLikelyTo ----------------------------
(***************************************************************************)
(* One round of Most Likely To (packages/games/src/mostLikelyTo).          *)
(* Everyone dealt in votes for one of them, secretly, until the host       *)
(* advances to the tally.  One action per event the reducer accepts;       *)
(* refused events, and those it answers with the same state, are           *)
(* stuttering steps.  Events come through the room, as in GuessWho.tla.    *)
(***************************************************************************)
EXTENDS Integers, FiniteSets

CONSTANTS Player, Host, MinPlayers

ASSUME MostLikelyAssumption ==
  IsFiniteSet(Player) /\ Host \notin Player /\ MinPlayers \in Nat \ {0}

VARIABLES phase,    \* vote or results
          roster,   \* the players `init` was handed
          votes,    \* voter -> target
          left      \* dealt in, and gone since

vars == <<phase, roster, votes, left>>

omit(f, S) == [x \in DOMAIN f \ S |-> f[x]]
Put(f, k, v) == [x \in DOMAIN f \cup {k} |-> IF x = k THEN v ELSE f[x]]

TypeOK ==
  /\ phase \in {"vote", "results"}
  /\ roster \subseteq Player
  /\ DOMAIN votes \subseteq roster /\ votes \in [DOMAIN votes -> roster]
  /\ left \subseteq roster

Init ==
  /\ phase = "vote"
  /\ roster \in {S \in SUBSET Player : Cardinality(S) >= MinPlayers}
  /\ votes = [x \in {} |-> x]
  /\ left = {}

-----------------------------------------------------------------------------
candidates == roster \ left

(* A spectator may not vote, and only who is still here can be voted for;    *)
(* a vote may be changed, and may go to oneself.                             *)
MayVote(p, target) == phase = "vote" /\ p \in roster \ left /\ target \in candidates
Vote(p, target) ==
  /\ MayVote(p, target)
  /\ votes' = Put(votes, p, target)
  /\ UNCHANGED <<phase, roster, left>>

Advance(from) ==
  /\ from = phase
  /\ phase' = "results"
  /\ UNCHANGED <<roster, votes, left>>

DepartedAnybody(p) == left \cup {p}
departed(p) == left \cup ({p} \cap roster)

PlayerLeftWithVote(p) ==
  /\ phase = "vote" /\ p \notin left
  /\ left' = departed(p)
  /\ votes' = omit(votes, {p})
  /\ UNCHANGED <<phase, roster>>

(* The leaver's own vote still counts. *)
PlayerLeft(p) ==
  /\ phase = "vote" /\ p \notin left
  /\ left' = departed(p)
  /\ UNCHANGED <<phase, roster, votes>>

Next ==
  \/ \E p \in Player : PlayerLeft(p) \/ \E target \in Player : Vote(p, target)
  \/ Advance("vote")

Spec == Init /\ [][Next]_vars

-----------------------------------------------------------------------------
(* scores, isComplete and the views, over a ballot: some voters' targets. *)

liveVotes(ballot) == omit(ballot, {v \in DOMAIN ballot : ballot[v] \in left})
tally(ballot) ==
  [p \in candidates |-> Cardinality({v \in DOMAIN liveVotes(ballot) : ballot[v] = p})]
isComplete == phase = "results"

countedVoid(ballot) == DOMAIN liveVotes(ballot)
counted(ballot) == DOMAIN ballot

goneIfAway(ballot) == {}
gone(ballot) == left \ DOMAIN ballot

voteView(ballot, viewer) ==
  [voted |-> IF viewer = Host THEN counted(ballot) ELSE counted(ballot) \cap {viewer},
   votedCount |-> Cardinality(counted(ballot)),
   total |-> Cardinality(roster) - Cardinality(gone(ballot)),
   candidates |-> IF viewer = Host THEN {} ELSE candidates,
   yourVote |-> {ballot[v] : v \in DOMAIN ballot \cap {viewer}}]

-----------------------------------------------------------------------------
(* While the vote is open a vote is nobody's business: whoever looks, and    *)
(* whoever of the voted-for has left since, the view is the one the same     *)
(* voters would have given by voting otherwise (view.ts:27-48).              *)
BallotSecret ==
  phase = "vote" =>
    \A viewer \in roster \cup {Host} : \A ballot \in [DOMAIN votes -> roster] :
      (\A v \in DOMAIN votes \cap {viewer} : ballot[v] = votes[v])
        => voteView(ballot, viewer) = voteView(votes, viewer)

(* It is a game as the room needs it: a leaver drops out and takes no points *)
(* from those who stay, though its vote may be one of theirs, and only an    *)
(* event of the game completes the round (game.ts:36-52, scoring.ts:4-27).   *)
G == INSTANCE RoundGame WITH
       MaxPoints <- Cardinality(Player), points <- tally(votes), complete <- isComplete
ImplementsGame == G!GameSpec
=============================================================================
