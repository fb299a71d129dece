-------------------------- MODULE MostLikelyToProofs --------------------------
(***************************************************************************)
(* Proofs about MostLikelyTo.tla and VoteScreens.tla, for every set of     *)
(* players.                                                                *)
(***************************************************************************)
EXTENDS VoteScreens, FiniteSetTheorems, TLAPS

(* Who voted for p, of the votes that count.                                 *)
VotersFor(p) == {v \in DOMAIN liveVotes(votes) : votes[v] = p}

(* The ballot is a record of players, so its counts are bounded.             *)
LEMMA InitTyped == Init => TypeOK
  BY DEF Init, TypeOK

LEMMA NextTyped ==
  ASSUME TypeOK, [Next]_vars
  PROVE  TypeOK'
  <1>1. CASE UNCHANGED vars
    BY <1>1 DEF vars, TypeOK
  <1>2. ASSUME NEW p \in Player, PlayerLeft(p) PROVE TypeOK'
    BY <1>2 DEF TypeOK, PlayerLeft, departed
  <1>3. ASSUME NEW p \in Player, NEW target \in Player, Vote(p, target) PROVE TypeOK'
    <2>1. /\ votes' = [x \in DOMAIN votes \cup {p} |-> IF x = p THEN target ELSE votes[x]]
          /\ p \in roster /\ target \in roster /\ UNCHANGED <<phase, roster, left>>
      BY <1>3 DEF Vote, MayVote, candidates, Put
    <2> QED BY <2>1 DEF TypeOK
  <1>4. CASE Advance("vote")
    BY <1>4 DEF Advance, TypeOK
  <1> QED BY <1>1, <1>2, <1>3, <1>4 DEF Next

LEMMA TallyIs ==
  /\ DOMAIN tally(votes) = candidates
  /\ \A p \in candidates : tally(votes)[p] = Cardinality(VotersFor(p))
  BY DEF tally, VotersFor

LEMMA TallyBounded ==
  ASSUME TypeOK
  PROVE  tally(votes) \in [candidates -> 0..Cardinality(Player)]
  <1>1. ASSUME NEW p \in candidates
        PROVE  Cardinality(VotersFor(p)) \in 0..Cardinality(Player)
    <2>1. VotersFor(p) \in SUBSET Player
      BY DEF VotersFor, liveVotes, omit, TypeOK
    <2>2. IsFiniteSet(Player)
      BY MostLikelyAssumption
    <2>3. /\ IsFiniteSet(VotersFor(p)) /\ Cardinality(VotersFor(p)) <= Cardinality(Player)
      BY <2>1, <2>2, FS_Subset
    <2> QED BY <2>2, <2>3, FS_CardinalityType
  <1>2. tally(votes) = [p \in candidates |-> Cardinality(VotersFor(p))]
    BY DEF tally, VotersFor
  <1> QED BY <1>1, <1>2

LEMMA InitGame == Init => G!GameInit
  <1> SUFFICES ASSUME Init PROVE G!GameInit
    OBVIOUS
  <1>1. \A p : VotersFor(p) = {}
    BY DEF Init, VotersFor, liveVotes, omit
  <1>2. tally(votes) = [p \in candidates |-> 0]
    BY <1>1, FS_EmptySet DEF tally, VotersFor
  <1>3. candidates \in SUBSET Player /\ isComplete = FALSE
    BY DEF Init, candidates, isComplete
  <1> QED BY <1>2, <1>3 DEF G!GameInit

(* A leave voids the votes for the leaver and moves nobody else's count.     *)
LEMMA LeaveDeparts ==
  ASSUME TypeOK, NEW p \in Player, PlayerLeft(p)
  PROVE  G!Depart(p)
  <1>1. phase = "vote" /\ phase' = phase /\ votes' = votes /\ candidates' = candidates \ {p}
    BY DEF PlayerLeft, departed, candidates
  <1>2. \A q \in candidates' : VotersFor(q)' = VotersFor(q)
    BY DEF PlayerLeft, departed, candidates, VotersFor, liveVotes, omit
  <1>3. tally(votes)' = [q \in candidates' |-> Cardinality(VotersFor(q)')]
    BY DEF tally, VotersFor
  <1>4. tally(votes)' = [q \in candidates \ {p} |-> tally(votes)[q]]
    BY <1>1, <1>2, <1>3, TallyIs
  <1> QED BY <1>1, <1>4, TallyIs DEF G!Depart, isComplete

LEMMA EventPlays ==
  ASSUME TypeOK, TypeOK', candidates' = candidates, phase = "vote"
  PROVE  G!Play
  <1>1. tally(votes)' \in [candidates' -> 0..Cardinality(Player)]
    <2>1. tally(votes)' = [p \in candidates' |-> Cardinality(VotersFor(p)')]
      BY DEF tally, VotersFor
    <2>2. ASSUME NEW p \in candidates'
          PROVE  Cardinality(VotersFor(p)') \in 0..Cardinality(Player)
      <3>1. VotersFor(p)' \in SUBSET Player
        BY DEF VotersFor, liveVotes, omit, TypeOK
      <3>2. IsFiniteSet(Player)
        BY MostLikelyAssumption
      <3>3. IsFiniteSet(VotersFor(p)') /\ Cardinality(VotersFor(p)') <= Cardinality(Player)
        BY <3>1, <3>2, FS_Subset
      <3> QED BY <3>2, <3>3, FS_CardinalityType
    <2> QED BY <2>1, <2>2
  <1>2. DOMAIN tally(votes) = candidates'
    BY TallyIs
  <1>3. isComplete = FALSE /\ isComplete' \in BOOLEAN
    BY DEF isComplete
  <1> QED BY <1>1, <1>2, <1>3 DEF G!Play

LEMMA NextGame ==
  ASSUME TypeOK, [Next]_vars
  PROVE  (G!Play \/ \E p \in Player : G!Depart(p)) \/ UNCHANGED <<tally(votes), isComplete>>
  <1>0. TypeOK'
    BY NextTyped
  <1>1. CASE UNCHANGED vars
    BY <1>1 DEF vars, tally, liveVotes, omit, candidates, isComplete
  <1>2. ASSUME NEW p \in Player, PlayerLeft(p) PROVE G!Depart(p)
    BY <1>2, LeaveDeparts
  <1>3. ASSUME NEW p \in Player, NEW target \in Player, Vote(p, target) PROVE G!Play
    BY <1>0, <1>3, EventPlays DEF Vote, MayVote, candidates
  <1>4. CASE Advance("vote")
    BY <1>0, <1>4, EventPlays DEF Advance, candidates
  <1> QED BY <1>1, <1>2, <1>3, <1>4 DEF Next

(* The vote is a game as the room needs it (game.ts:36-52,                   *)
(* scoring.ts:4-27).                                                         *)
THEOREM VoteImplementsGame == Spec => ImplementsGame
  <1>1. TypeOK /\ [Next]_vars => [G!Play \/ \E p \in Player : G!Depart(p)]_<<tally(votes), isComplete>>
    BY NextGame
  <1>2. Spec => []TypeOK
    BY InitTyped, NextTyped, PTL DEF Spec
  <1> QED BY <1>1, <1>2, InitGame, PTL DEF Spec, ImplementsGame, G!GameSpec, G!gameVars

(* No view of the open vote tells two ballots of the same voters apart, but  *)
(* for the viewer's own vote (view.ts:27-48).                                *)
THEOREM VoteBallotSecret == Spec => []BallotSecret
  <1>1. BallotSecret
    <2> SUFFICES ASSUME NEW viewer \in roster \cup {Host}, NEW ballot \in [DOMAIN votes -> roster],
                        \A v \in DOMAIN votes \cap {viewer} : ballot[v] = votes[v]
                 PROVE  voteView(ballot, viewer) = voteView(votes, viewer)
      BY DEF BallotSecret
    <2>1. counted(ballot) = counted(votes) /\ gone(ballot) = gone(votes)
      BY DEF counted, gone
    <2>2. {ballot[v] : v \in DOMAIN ballot \cap {viewer}} = {votes[v] : v \in DOMAIN votes \cap {viewer}}
      OBVIOUS
    <2> QED BY <2>1, <2>2 DEF voteView
  <1> QED BY <1>1, PTL

-----------------------------------------------------------------------------
(* The screens.                                                              *)

(* Whoever still owes something is seated: what is done, what the leavers    *)
(* never did and what the seated still owe add up to the roster.             *)
LEMMA RosterCounts ==
  ASSUME NEW R, IsFiniteSet(R), NEW D \in SUBSET R, NEW L \in SUBSET R
  PROVE  LET owed == (R \ L) \ D IN
         /\ Cardinality(D) \in Nat /\ Cardinality(R) \in Nat
         /\ Cardinality(L \ D) \in Nat /\ Cardinality(owed) \in Nat
         /\ Cardinality(R) = Cardinality(D) + Cardinality(L \ D) + Cardinality(owed)
         /\ Cardinality(owed) = 0 <=> R \ L \subseteq D
         /\ Cardinality((R \ L) \cap D) = Cardinality(R \ L) <=> R \ L \subseteq D
  <1> DEFINE owed == (R \ L) \ D
             away == L \ D
  <1>1. IsFiniteSet(D) /\ IsFiniteSet(away) /\ IsFiniteSet(owed) /\ IsFiniteSet(R \ L)
    BY FS_Subset
  <1>2. /\ Cardinality(D) \in Nat /\ Cardinality(R) \in Nat
        /\ Cardinality(away) \in Nat /\ Cardinality(owed) \in Nat
    BY <1>1, FS_CardinalityType
  <1>3. Cardinality(D \cup away) = Cardinality(D) + Cardinality(away)
    <2>1. Cardinality(D \cup away) = Cardinality(D) + Cardinality(away) - Cardinality(D \cap away)
      BY <1>1, FS_Union
    <2>2. D \cap away = {}
      OBVIOUS
    <2> HIDE DEF away
    <2> QED BY <1>2, <2>1, <2>2, FS_EmptySet
  <1>4. Cardinality(R) = Cardinality(D \cup away) + Cardinality(owed)
    <2>1. IsFiniteSet(D \cup away) /\ Cardinality(D \cup away) \in Nat
      BY <1>1, FS_Union, FS_CardinalityType
    <2>2. Cardinality((D \cup away) \cup owed)
            = Cardinality(D \cup away) + Cardinality(owed) - Cardinality((D \cup away) \cap owed)
      BY <1>1, <2>1, FS_Union
    <2>3. (D \cup away) \cap owed = {} /\ (D \cup away) \cup owed = R
      OBVIOUS
    <2> HIDE DEF away, owed
    <2>4. Cardinality((D \cup away) \cap owed) = 0
      BY <2>3, FS_EmptySet
    <2>5. Cardinality((D \cup away) \cup owed) = Cardinality(R)
      BY <2>3
    <2> QED BY <1>2, <2>1, <2>2, <2>4, <2>5
  <1>5. Cardinality(owed) = 0 <=> R \ L \subseteq D
    <2>1. Cardinality(owed) = 0 <=> owed = {}
      BY <1>1, FS_EmptySet
    <2>2. owed = {} <=> R \ L \subseteq D
      OBVIOUS
    <2> QED BY <2>1, <2>2
  <1>6. Cardinality((R \ L) \cap D) = Cardinality(R \ L) <=> R \ L \subseteq D
    <2>1. (R \ L) \cap D \in SUBSET (R \ L)
      OBVIOUS
    <2>2. Cardinality((R \ L) \cap D) = Cardinality(R \ L) => (R \ L) \cap D = R \ L
      BY <1>1, <2>1, FS_Subset
    <2>3. (R \ L) \cap D = R \ L <=> R \ L \subseteq D
      OBVIOUS
    <2> QED BY <2>2, <2>3
  <1> QED BY <1>2, <1>3, <1>4, <1>5, <1>6

LEMMA VoteProgress ==
  ASSUME TypeOK
  PROVE  ProgressExact
  <1> SUFFICES ASSUME phase = "vote"
               PROVE  /\ ActedProgress.count = ActedProgress.total
                           <=> candidates \subseteq DOMAIN votes
                      /\ \A p \in candidates :
                           /\ PhoneProgress(p).count <= PhoneProgress(p).total
                           /\ PhoneProgress(p).count = PhoneProgress(p).total
                                <=> ActedProgress.count = ActedProgress.total
    BY DEF ProgressExact
  <1>1. ActedProgress = [count |-> Cardinality((roster \ left) \cap DOMAIN votes),
                         total |-> Cardinality(roster \ left)]
    BY DEF ActedProgress, seatedIds, voteView, counted
  <1>2. \A p : PhoneProgress(p) = [count |-> Cardinality(DOMAIN votes),
                                   total |-> Cardinality(roster)
                                               - Cardinality(left \ DOMAIN votes)]
    BY DEF PhoneProgress, voteView, counted, gone
  <1>3. IsFiniteSet(roster) /\ DOMAIN votes \in SUBSET roster /\ left \in SUBSET roster
    BY MostLikelyAssumption, FS_Subset DEF TypeOK
  <1> DEFINE owed == (roster \ left) \ DOMAIN votes
  <1>4. /\ Cardinality(DOMAIN votes) \in Nat /\ Cardinality(roster) \in Nat
        /\ Cardinality(left \ DOMAIN votes) \in Nat /\ Cardinality(owed) \in Nat
        /\ Cardinality(roster)
             = Cardinality(DOMAIN votes) + Cardinality(left \ DOMAIN votes) + Cardinality(owed)
        /\ Cardinality(owed) = 0 <=> roster \ left \subseteq DOMAIN votes
        /\ Cardinality((roster \ left) \cap DOMAIN votes) = Cardinality(roster \ left)
             <=> roster \ left \subseteq DOMAIN votes
    BY <1>3, RosterCounts
  <1> HIDE DEF owed
  <1>5. /\ Cardinality(DOMAIN votes) <= Cardinality(roster) - Cardinality(left \ DOMAIN votes)
        /\ Cardinality(DOMAIN votes) = Cardinality(roster) - Cardinality(left \ DOMAIN votes)
             <=> Cardinality(owed) = 0
    BY <1>4
  <1> QED BY <1>1, <1>2, <1>4, <1>5 DEF candidates

LEMMA VoteButtons ==
  ASSUME TypeOK
  PROVE  ButtonsTaken
  <1>1. ASSUME NEW p \in candidates, NEW target \in VotePhone(p) PROVE MayVote(p, target)
    BY Zenon DEF VotePhone, MayVote, voteView, candidates
  <1>2. mostLikelyToStep = {} <=> isComplete
    BY DEF mostLikelyToStep, isComplete, TypeOK
  <1> QED BY <1>1, <1>2 DEF ButtonsTaken

(* Of some naturals there is a least one.                                    *)
LEMMA HasLeast ==
  ASSUME NEW S \in SUBSET Nat, S # {}
  PROVE  \E x \in S : \A y \in S : x <= y
  <1> DEFINE R == {ss \in Nat \X Nat : ss[1] < ss[2]}
  <1>1. \A x, y \in Nat : <<y, x>> \in R <=> y < x
    OBVIOUS
  <1>2. IsWellFoundedOn(R, Nat)
    <2>1. R = OpToRel(<, Nat)
      BY DEF OpToRel
    <2> HIDE DEF R
    <2> QED BY <2>1, NatLessThanWellFounded
  <1> HIDE DEF R
  <1>3. S \subseteq Nat
    OBVIOUS
  <1>4. PICK x \in S : \A y \in S : ~(<<y, x>> \in R)
    BY <1>2, <1>3, WFMin, Zenon
  <1>5. \A y \in S : ~(y < x)
    BY <1>1, <1>3, <1>4
  <1>6. \A y \in S : x <= y
    BY <1>3, <1>5
  <1> QED BY <1>6

(* Rows that are bounded have a top, the least bound above the floor.        *)
IsTop(rows, floor, n) ==
  /\ n \in {floor} \cup {rows[p] : p \in DOMAIN rows}
  /\ n >= floor /\ \A p \in DOMAIN rows : rows[p] <= n

LEMMA TopIs ==
  ASSUME NEW C, NEW b \in Nat, NEW rows \in [C -> 0..b], NEW floor \in Nat
  PROVE  IsTop(rows, floor, Top(rows, floor)) /\ Top(rows, floor) \in Nat
  <1> DEFINE bounds == {m \in Nat : m >= floor /\ \A p \in C : rows[p] <= m}
  <1>1. \A p \in C : rows[p] \in Nat /\ rows[p] <= b
    OBVIOUS
  <1>2. b + floor \in bounds
    BY <1>1
  <1>3. PICK n \in bounds : \A m \in bounds : n <= m
    <2> HIDE DEF bounds
    <2>1. bounds \in SUBSET Nat
      BY DEF bounds
    <2> QED BY <1>2, <2>1, HasLeast
  <1>4. n \in Nat /\ n >= floor /\ \A p \in C : rows[p] <= n
    OBVIOUS
  <1>5. n = floor \/ \E p \in C : rows[p] = n
    <2> SUFFICES ASSUME n # floor, \A p \in C : rows[p] # n PROVE FALSE
      OBVIOUS
    <2>1. n - 1 \in Nat /\ n - 1 >= floor
      BY <1>4
    <2>2. \A p \in C : rows[p] <= n - 1
      BY <1>1, <1>4
    <2>3. n - 1 \in bounds
      BY <2>1, <2>2
    <2> QED BY <1>3, <1>4, <2>3
  <1>6. IsTop(rows, floor, n)
    BY <1>4, <1>5 DEF IsTop
  <1>7. Top(rows, floor) = CHOOSE k : IsTop(rows, floor, k)
    <2>1. \A k : IsTop(rows, floor, k)
                   <=> /\ k \in {floor} \cup {rows[p] : p \in DOMAIN rows}
                       /\ k >= floor /\ \A p \in DOMAIN rows : rows[p] <= k
      BY DEF IsTop
    <2>2. \E k \in {floor} \cup {rows[p] : p \in DOMAIN rows} :
            k >= floor /\ \A p \in DOMAIN rows : rows[p] <= k
      BY <1>6, <2>1
    <2>3. IsTop(rows, floor, Top(rows, floor))
      BY <2>1, <2>2 DEF Top
    <2>4. \A j, k : IsTop(rows, floor, j) /\ IsTop(rows, floor, k) => j = k
      <3>1. \A k : IsTop(rows, floor, k) => k \in Nat /\ k >= floor
        BY <1>1 DEF IsTop
      <3> QED BY <1>1, <3>1 DEF IsTop
    <2> QED BY <2>3, <2>4
  <1>8. IsTop(rows, floor, Top(rows, floor))
    BY <1>6, <1>7
  <1>9. Top(rows, floor) \in Nat
    BY <1>1, <1>8 DEF IsTop
  <1> QED BY <1>8, <1>9

(* The spotlight and the bars look at the same rows from different floors.   *)
LEMMA WinnersAreLongest ==
  ASSUME NEW C, NEW b \in Nat, NEW rows \in [C -> 0..b]
  PROVE  /\ winners(rows) = {p \in C : TallyBars(rows)[p].win}
         /\ winners(rows) = {} <=> \A p \in C : rows[p] = 0
         /\ \A p \in C, q \in winners(rows) : q \in C /\ rows[p] <= rows[q]
  <1>1. PICK t0, t1 \in Nat : t0 = Top(rows, 0) /\ t1 = Top(rows, 1)
    BY TopIs
  <1>2. IsTop(rows, 0, t0) /\ IsTop(rows, 1, t1)
    BY <1>1, TopIs
  <1>3. /\ t0 = 0 \/ \E p \in C : rows[p] = t0
        /\ t1 = 1 \/ \E p \in C : rows[p] = t1
        /\ t1 >= 1 /\ \A p \in C : rows[p] <= t0 /\ rows[p] <= t1
    BY <1>2 DEF IsTop
  <1>4. \A p \in C : rows[p] \in Nat
    OBVIOUS
  <1>5. winners(rows) = IF t0 > 0 THEN {p \in C : rows[p] = t0} ELSE {}
    BY <1>1 DEF winners
  <1>6. \A p \in C : TallyBars(rows)[p].win <=> rows[p] = t1 /\ rows[p] > 0
    BY <1>1 DEF TallyBars
  <1>7. CASE t0 = 0
    <2>1. winners(rows) = {} /\ \A p \in C : rows[p] = 0
      BY <1>3, <1>4, <1>5, <1>7
    <2> QED BY <1>6, <2>1
  <1>8. CASE t0 # 0
    <2>1. t0 > 0
      BY <1>8
    <2>2. winners(rows) = {p \in C : rows[p] = t0}
      BY <1>5, <2>1
    <2>3. PICK top \in C : rows[top] = t0
      BY <1>3, <1>8
    <2>4. t1 = t0
      BY <1>3, <1>4, <2>1, <2>3
    <2>5. \A p \in C : rows[p] = t0 <=> TallyBars(rows)[p].win
      BY <1>6, <2>1, <2>4
    <2>6. top \in winners(rows) /\ rows[top] # 0
      BY <1>8, <2>2, <2>3
    <2>7. \A p \in C, q \in winners(rows) : q \in C /\ rows[p] <= rows[q]
      BY <1>3, <2>2
    <2> QED BY <2>2, <2>5, <2>6, <2>7
  <1> QED BY <1>7, <1>8

LEMMA VoteVerdict ==
  ASSUME TypeOK
  PROVE  OneVerdict
  <1> DEFINE rows == tally(votes)
  <1>1. rows \in [candidates -> 0..Cardinality(Player)] /\ Cardinality(Player) \in Nat
    BY TallyBounded, MostLikelyAssumption, FS_CardinalityType
  <1>2. /\ winners(rows) = {p \in candidates : TallyBars(rows)[p].win}
        /\ winners(rows) = {} <=> \A p \in candidates : rows[p] = 0
        /\ \A p \in candidates, q \in winners(rows) : q \in candidates /\ rows[p] <= rows[q]
    <2> HIDE DEF rows
    <2> QED BY <1>1, WinnersAreLongest
  <1>3. (\A p \in candidates : rows[p] = 0) <=> DOMAIN liveVotes(votes) = {}
    <2>1. \A p \in candidates : rows[p] = 0 <=> VotersFor(p) = {}
      <3> SUFFICES ASSUME NEW p \in candidates
                   PROVE  Cardinality(VotersFor(p)) = 0 <=> VotersFor(p) = {}
        BY TallyIs
      <3>1. VotersFor(p) \in SUBSET Player /\ IsFiniteSet(Player)
        BY MostLikelyAssumption DEF VotersFor, liveVotes, omit, TypeOK
      <3>2. IsFiniteSet(VotersFor(p))
        BY <3>1, FS_Subset
      <3> QED BY <3>2, FS_EmptySet
    <2>2. \A v \in DOMAIN liveVotes(votes) : votes[v] \in candidates /\ v \in VotersFor(votes[v])
      BY DEF liveVotes, omit, candidates, VotersFor, TypeOK
    <2>3. \A p : VotersFor(p) \subseteq DOMAIN liveVotes(votes)
      BY DEF VotersFor
    <2> HIDE DEF rows
    <2> QED BY <2>1, <2>2, <2>3
  <1>4. \A p \in candidates : ResultsPhone(p) = rows[p]
    BY <1>1 DEF ResultsPhone, TallyBars
  <1> HIDE DEF rows
  <1>5. /\ winners(rows) = {p \in candidates : TallyBars(rows)[p].win}
        /\ winners(rows) = {} <=> DOMAIN liveVotes(votes) = {}
        /\ \A p \in candidates, q \in winners(rows) : ResultsPhone(p) <= ResultsPhone(q)
    BY <1>2, <1>3, <1>4
  <1> QED BY <1>5 DEF OneVerdict, rows

(* "Everyone has voted" is exact, no phone offers what is refused, and the   *)
(* spotlight and the bars give one verdict (view.ts:19-40,                   *)
(* progressChips.tsx:87-102, PlayerView.tsx:10-50, HostView.tsx:100-121,     *)
(* viewKit.tsx:274-290).                                                     *)
THEOREM VoteScreensInStep == Spec => []ScreensInStep
  <1>1. TypeOK => ScreensInStep
    BY VoteProgress, VoteButtons, VoteVerdict DEF ScreensInStep
  <1>2. Spec => []TypeOK
    BY InitTyped, NextTyped, PTL DEF Spec
  <1> QED BY <1>1, <1>2, PTL
=============================================================================
