----------------------------- MODULE VoteScreens -----------------------------
(***************************************************************************)
(* What the board and the phones make of a round of Most Likely To (web    *)
(* games/mostLikelyTo): how far the vote has got, whom a phone offers, who *)
(* is spotlighted.  Of the room a screen knows who is seated and no        *)
(* spectator, as in GuessScreens.tla.                                      *)
(***************************************************************************)
EXTENDS MostLikelyTo

seatedIds == roster \ left

ActedProgress ==
  [count |-> Cardinality(seatedIds \cap voteView(votes, Host).voted),
   total |-> Cardinality(seatedIds)]

VotePhone(p) == IF phase = "vote" THEN voteView(votes, p).candidates ELSE {}

PhoneProgress(p) ==
  [count |-> voteView(votes, p).votedCount, total |-> voteView(votes, p).total]

mostLikelyToStep == IF phase = "vote" THEN {"vote"} ELSE {}

(* The results: a spotlight for each winner, and a bar for everybody.        *)
Top(rows, floor) ==
  CHOOSE n \in {floor} \cup {rows[p] : p \in DOMAIN rows} :
    n >= floor /\ \A p \in DOMAIN rows : rows[p] <= n
winners(rows) ==
  IF Top(rows, 0) > 0 THEN {p \in DOMAIN rows : rows[p] = Top(rows, 0)} ELSE {}
TallyBars(rows) ==
  [p \in DOMAIN rows |->
     [points |-> rows[p], win |-> rows[p] = Top(rows, 1) /\ rows[p] > 0]]
ResultsPhone(p) == TallyBars(tally(votes))[p].points

-----------------------------------------------------------------------------
(* The screens say "everyone has voted" when, and only when, everyone still  *)
(* here has, whoever left before or after voting, voted for or not: the      *)
(* board, which counts who is seated, and the phones, which count who was    *)
(* dealt in, agree on it (view.ts:19-40, progressChips.tsx:87-102).          *)
ProgressExact ==
  phase = "vote" =>
    /\ ActedProgress.count = ActedProgress.total <=> candidates \subseteq DOMAIN votes
    /\ \A p \in candidates :
         /\ PhoneProgress(p).count <= PhoneProgress(p).total
         /\ PhoneProgress(p).count = PhoneProgress(p).total
              <=> ActedProgress.count = ActedProgress.total

(* No phone offers a vote the game refuses, and the host's button ends what  *)
(* can be ended (PlayerView.tsx:10-50, mostLikelyTo.ts:50-74).               *)
ButtonsTaken ==
  /\ \A p \in candidates : \A target \in VotePhone(p) : MayVote(p, target)
  /\ mostLikelyToStep = {} <=> isComplete

(* Who is spotlighted has the longest bar, on every screen, and somebody is  *)
(* unless nobody here was voted for (HostView.tsx:100-121, viewKit.tsx:      *)
(* 274-290).                                                                 *)
OneVerdict ==
  phase = "results" =>
    LET bars == TallyBars(tally(votes)) IN
    /\ winners(tally(votes)) = {p \in candidates : bars[p].win}
    /\ winners(tally(votes)) = {} <=> DOMAIN liveVotes(votes) = {}
    /\ \A p \in candidates, q \in winners(tally(votes)) : ResultsPhone(p) <= ResultsPhone(q)

ScreensInStep == ProgressExact /\ ButtonsTaken /\ OneVerdict
=============================================================================
