---------------------------- MODULE GuessWhoProofs ----------------------------
(***************************************************************************)
(* Proofs about GuessWho.tla and GuessScreens.tla, for every set of        *)
(* players, every set of answers and every bound on the guesses.           *)
(*                                                                         *)
(* What they all rest on is the deck: sorting the answers, equal ones as   *)
(* an injective ranking has it, deals one card to each writer (DeckDealt), *)
(* and any way of handing the cards out is one some ranking deals          *)
(* (DeckOfOrder).                                                          *)
(***************************************************************************)
EXTENDS GuessScreens, FiniteSetTheorems, FunctionTheorems, TLAPS

-----------------------------------------------------------------------------
(* The deck.                                                                 *)

(* Whose answers come before p's, and how many that are.                     *)
Before(answers, ranking, p) ==
  {q \in DOMAIN answers :
     answers[q] < answers[p] \/ (answers[q] = answers[p] /\ ranking[q] < ranking[p])}
Place(answers, ranking, p) == Cardinality(Before(answers, ranking, p))

(* A ranking that tells the players in S apart.                              *)
Ranks(ranking, S) ==
  /\ \A p \in S : ranking[p] \in Nat
  /\ \A p, q \in S : ranking[p] = ranking[q] => p = q

(* Cards 0..n - 1 in the order of their texts, a ranking that is the order of *)
(* some hands, and answers that are what those hands hold.                   *)
Ascending(texts, n) == \A i, j \in 0..n - 1 : i <= j => texts[i] <= texts[j]
Follows(ranking, hand, S) == \A p \in S : ranking[p] = hand[p] + 1
Held(answers, texts, hand, S) == \A p \in S : answers[p] = texts[hand[p]]

LEMMA PlacesDiffer ==
  ASSUME NEW S, IsFiniteSet(S), NEW answers \in [S -> Nat], NEW ranking, Ranks(ranking, S)
  PROVE  /\ \A p \in S : Place(answers, ranking, p) \in 0..Cardinality(S) - 1
         /\ \A p, q \in S :
              p \in Before(answers, ranking, q)
                => Place(answers, ranking, p) < Place(answers, ranking, q)
         /\ \A p, q \in S :
              p # q => \/ p \in Before(answers, ranking, q)
                       \/ q \in Before(answers, ranking, p)
  <1> DEFINE B(p) == Before(answers, ranking, p)
  <1>1. \A p \in S : B(p) \in SUBSET S /\ p \notin B(p)
    BY DEF Before, Ranks
  <1>2. Cardinality(S) \in Nat
    BY FS_CardinalityType
  <1>3. ASSUME NEW p \in S
        PROVE  /\ IsFiniteSet(B(p)) /\ Cardinality(B(p)) \in Nat
               /\ Cardinality(B(p)) < Cardinality(S)
    <2>1. IsFiniteSet(B(p)) /\ Cardinality(B(p)) <= Cardinality(S) /\ Cardinality(B(p)) # Cardinality(S)
      BY <1>1, FS_Subset
    <2>2. Cardinality(B(p)) \in Nat
      BY <2>1, FS_CardinalityType
    <2> QED BY <1>2, <2>1, <2>2
  <1>4. ASSUME NEW p \in S, NEW q \in S, p \in B(q)
        PROVE  Cardinality(B(p)) < Cardinality(B(q))
    <2>1. B(p) \in SUBSET B(q)
      BY <1>4 DEF Before, Ranks
    <2>2. p \notin B(p)
      BY <1>1
    <2>3. Cardinality(B(p)) <= Cardinality(B(q)) /\ Cardinality(B(p)) # Cardinality(B(q))
      BY <1>3, <1>4, <2>1, <2>2, FS_Subset
    <2> QED BY <1>3, <2>3
  <1>5. ASSUME NEW p \in S, NEW q \in S, p # q
        PROVE  p \in B(q) \/ q \in B(p)
    BY <1>5 DEF Before, Ranks
  <1>6. \A p \in S : Place(answers, ranking, p) \in 0..Cardinality(S) - 1
    BY <1>2, <1>3 DEF Place
  <1> QED BY <1>4, <1>5, <1>6 DEF Place

LEMMA PlacesAreTheDeck ==
  ASSUME NEW S, IsFiniteSet(S), NEW answers \in [S -> Nat], NEW ranking, Ranks(ranking, S)
  PROVE  \A i \in 0..Cardinality(S) - 1 : \E p \in S : Place(answers, ranking, p) = i
  <1> DEFINE n == Cardinality(S)
             places == [p \in S |-> Place(answers, ranking, p)]
  <1>1. n \in Nat
    BY FS_CardinalityType
  <1>2. places \in [S -> 0..n - 1]
    BY PlacesDiffer
  <1>3. \A p, q \in S : places[p] = places[q] => p = q
    <2> SUFFICES ASSUME NEW p \in S, NEW q \in S, p # q PROVE places[p] # places[q]
      OBVIOUS
    <2>1. Place(answers, ranking, p) < Place(answers, ranking, q)
            \/ Place(answers, ranking, q) < Place(answers, ranking, p)
      BY PlacesDiffer
    <2>2. Place(answers, ranking, p) \in Int /\ Place(answers, ranking, q) \in Int
      BY PlacesDiffer
    <2> QED BY <2>1, <2>2
  <1>4. places \in Injection(S, 0..n - 1)
    BY <1>2, <1>3, Fun_IsInj
  <1>5. IsFiniteSet(0..n - 1) /\ Cardinality(0..n - 1) = n
    BY <1>1, FS_Interval
  <1>6. places \in Surjection(S, 0..n - 1)
    BY <1>4, <1>5, FS_Injection
  <1>7. \A i \in 0..n - 1 : \E p \in S : places[p] = i
    BY <1>6 DEF Surjection
  <1> QED BY <1>7

(* Each card has a writer of its own, is its answer, and the cards are in    *)
(* the order of their texts.                                                 *)
LEMMA DeckDealt ==
  ASSUME NEW S, IsFiniteSet(S), NEW answers \in [S -> Nat], NEW ranking, Ranks(ranking, S),
         NEW deck, deck = CardsInOrder(answers, ranking)
  PROVE  /\ deck = [i \in 0..Cardinality(S) - 1 |->
                      [text |-> answers[deck[i].authorId], authorId |-> deck[i].authorId]]
         /\ \A i \in DOMAIN deck :
              deck[i].authorId \in S /\ Place(answers, ranking, deck[i].authorId) = i
         /\ \A p \in S : /\ Place(answers, ranking, p) \in DOMAIN deck
                         /\ deck[Place(answers, ranking, p)].authorId = p
  <1> DEFINE n == Cardinality(S)
             at(i) == CHOOSE p \in S : Place(answers, ranking, p) = i
  <1>1. deck = [i \in 0..n - 1 |-> [text |-> answers[at(i)], authorId |-> at(i)]]
    BY DEF CardsInOrder, Place, Before
  <1>2. \A i \in 0..n - 1 : at(i) \in S /\ Place(answers, ranking, at(i)) = i
    BY PlacesAreTheDeck
  <1> HIDE DEF at
  <1>3. \A i \in 0..n - 1 : deck[i].authorId = at(i)
    BY <1>1
  <1>4. ASSUME NEW p \in S
        PROVE  /\ Place(answers, ranking, p) \in 0..n - 1
               /\ at(Place(answers, ranking, p)) = p
    <2>1. Place(answers, ranking, p) \in 0..n - 1
      BY PlacesDiffer
    <2> DEFINE q == at(Place(answers, ranking, p))
    <2>2. q \in S /\ Place(answers, ranking, q) = Place(answers, ranking, p)
      BY <1>2, <2>1
    <2> HIDE DEF q
    <2>3. ~(Place(answers, ranking, q) < Place(answers, ranking, p))
            /\ ~(Place(answers, ranking, p) < Place(answers, ranking, q))
      BY <2>1, <2>2
    <2>4. q = p
      BY <2>2, <2>3, PlacesDiffer
    <2> QED BY <2>1, <2>4 DEF q
  <1>5. deck = [i \in 0..n - 1 |->
                  [text |-> answers[deck[i].authorId], authorId |-> deck[i].authorId]]
    BY <1>1, <1>3
  <1>6. DOMAIN deck = 0..n - 1
    BY <1>1
  <1> QED BY <1>2, <1>3, <1>4, <1>5, <1>6

LEMMA DeckSorted ==
  ASSUME NEW S, IsFiniteSet(S), NEW answers \in [S -> Nat], NEW ranking, Ranks(ranking, S),
         NEW deck, deck = CardsInOrder(answers, ranking),
         NEW i \in DOMAIN deck, NEW j \in DOMAIN deck, i <= j
  PROVE  deck[i].text <= deck[j].text
  <1> DEFINE p == deck[i].authorId
             q == deck[j].authorId
  <1>1. p \in S /\ q \in S /\ Place(answers, ranking, p) = i /\ Place(answers, ranking, q) = j
    BY DeckDealt
  <1>2. deck[i].text = answers[p] /\ deck[j].text = answers[q]
    <2>1. deck = [k \in 0..Cardinality(S) - 1 |->
                    [text |-> answers[deck[k].authorId], authorId |-> deck[k].authorId]]
      BY DeckDealt
    <2>2. DOMAIN deck = 0..Cardinality(S) - 1
      BY <2>1
    <2> QED BY <2>1, <2>2
  <1> HIDE DEF p, q
  <1>3. i \in Int /\ j \in Int
    BY <1>1, PlacesDiffer
  <1>4. CASE p = q
    BY <1>1, <1>2, <1>4
  <1>5. CASE p # q
    <2>1. ~(Place(answers, ranking, q) < Place(answers, ranking, p))
      BY <1>1, <1>3
    <2>2. p \in Before(answers, ranking, q)
      BY <1>1, <1>5, <2>1, PlacesDiffer
    <2> QED BY <1>1, <1>2, <2>2 DEF Before
  <1> QED BY <1>4, <1>5

(* A bijection cut at one of its values.                                     *)
LEMMA CutCounts ==
  ASSUME NEW S, NEW n \in Nat, NEW hand \in Bijection(S, 0..n - 1), NEW p \in S
  PROVE  Cardinality({q \in S : hand[q] < hand[p]}) = hand[p]
  <1> DEFINE below == {q \in S : hand[q] < hand[p]}
             cut == [k \in 0..hand[p] - 1 |-> Inverse(hand, S, 0..n - 1)[k]]
  <1>1. /\ hand \in [S -> 0..n - 1]
        /\ \A a, b \in S : hand[a] = hand[b] => a = b
        /\ \A k \in 0..n - 1 : \E a \in S : hand[a] = k
    BY DEF Bijection, Injection, Surjection, IsInjective
  <1>2. hand[p] \in 0..n - 1
    BY <1>1
  <1> DEFINE inv == Inverse(hand, S, 0..n - 1)
  <1>3. inv \in Bijection(0..n - 1, S) /\ \A a \in S : inv[hand[a]] = a
    BY Fun_BijInverse
  <1>4. /\ inv \in [0..n - 1 -> S]
        /\ \A a, b \in 0..n - 1 : inv[a] = inv[b] => a = b
    BY <1>3, Fun_BijectionProperties
  <1> HIDE DEF inv
  <1>5. \A k \in 0..n - 1 : hand[inv[k]] = k
    BY <1>1, <1>3
  <1>6. \A k \in 0..hand[p] - 1 : k \in 0..n - 1
    BY <1>2
  <1>7. cut = [k \in 0..hand[p] - 1 |-> inv[k]]
    BY DEF inv
  <1> HIDE DEF cut
  <1>8. cut \in [0..hand[p] - 1 -> below]
    <2> SUFFICES ASSUME NEW k \in 0..hand[p] - 1 PROVE inv[k] \in below
      BY <1>7
    <2>1. inv[k] \in S /\ hand[inv[k]] = k
      BY <1>4, <1>5, <1>6
    <2> QED BY <1>2, <2>1
  <1>9. \A a, b \in 0..hand[p] - 1 : cut[a] = cut[b] => a = b
    BY <1>4, <1>6, <1>7
  <1>10. ASSUME NEW a \in below PROVE \E k \in 0..hand[p] - 1 : cut[k] = a
    <2>1. hand[a] \in 0..hand[p] - 1
      BY <1>1, <1>2
    <2> QED BY <1>3, <1>7, <2>1 DEF inv
  <1>11. cut \in Bijection(0..hand[p] - 1, below)
    BY <1>8, <1>9, <1>10, Fun_IsBij
  <1>12. IsFiniteSet(0..hand[p] - 1) /\ Cardinality(0..hand[p] - 1) = hand[p]
    <2>1. hand[p] \in Nat
      BY <1>2
    <2>2. \A h \in Nat : IsFiniteSet(0..h - 1) /\ Cardinality(0..h - 1) = h
      BY FS_Interval
    <2> QED BY <2>1, <2>2
  <1>13. ExistsBijection(0..hand[p] - 1, below)
    BY <1>11, Fun_ExistsBij
  <1> QED BY <1>12, <1>13, FS_Bijection

(* A deck of those texts in those hands.                                     *)
InHands(deck, texts, hand, n, S) ==
  /\ DOMAIN deck = 0..n - 1
  /\ \A i \in 0..n - 1 : deck[i].text = texts[i]
  /\ \A p \in S : deck[hand[p]].authorId = p

(* Answers that follow the cards they are handed, under a ranking that       *)
(* follows the hands: the deck dealt is those cards in those hands.          *)
LEMMA DeckOfOrder ==
  ASSUME NEW S, IsFiniteSet(S), NEW n \in Nat, NEW hand \in Bijection(S, 0..n - 1),
         NEW texts \in [0..n - 1 -> Nat], Ascending(texts, n),
         NEW answers \in [S -> Nat], Held(answers, texts, hand, S),
         NEW ranking, Follows(ranking, hand, S)
  PROVE  InHands(CardsInOrder(answers, ranking), texts, hand, n, S)
  <1> SUFFICES ASSUME NEW deck, deck = CardsInOrder(answers, ranking)
               PROVE  InHands(deck, texts, hand, n, S)
    OBVIOUS
  <1>1. /\ hand \in [S -> 0..n - 1]
        /\ \A a, b \in S : hand[a] = hand[b] => a = b
        /\ \A k \in 0..n - 1 : \E a \in S : hand[a] = k
    BY DEF Bijection, Injection, Surjection, IsInjective
  <1>2. /\ \A i, j \in 0..n - 1 : i <= j => texts[i] <= texts[j]
        /\ \A p \in S : answers[p] = texts[hand[p]] /\ ranking[p] = hand[p] + 1
    BY DEF Ascending, Held, Follows
  <1>3. Ranks(ranking, S)
    <2>1. \A p \in S : hand[p] \in Nat
      BY <1>1
    <2>2. \A p, q \in S : hand[p] + 1 = hand[q] + 1 => hand[p] = hand[q]
      BY <2>1
    <2>3. \A p, q \in S : ranking[p] = ranking[q] => p = q
      BY <1>1, <1>2, <2>2
    <2> QED BY <1>2, <2>1, <2>3 DEF Ranks
  <1>4. ASSUME NEW p \in S PROVE Place(answers, ranking, p) = hand[p]
    <2>1. ASSUME NEW q \in S
          PROVE  q \in Before(answers, ranking, p) <=> hand[q] < hand[p]
      <3>1. hand[p] \in 0..n - 1 /\ hand[q] \in 0..n - 1
        BY <1>1
      <3>2. /\ answers[p] = texts[hand[p]] /\ answers[q] = texts[hand[q]]
            /\ answers[p] \in Nat /\ answers[q] \in Nat
        BY <1>2
      <3>3. q \in Before(answers, ranking, p)
              <=> answers[q] < answers[p] \/ (answers[q] = answers[p] /\ hand[q] < hand[p])
        BY <1>2, <3>1 DEF Before
      <3>4. CASE hand[q] < hand[p]
        <4>1. answers[q] <= answers[p]
          BY <1>2, <3>1, <3>2, <3>4
        <4> QED BY <3>2, <3>3, <3>4, <4>1
      <3>5. CASE ~(hand[q] < hand[p])
        <4>1. answers[p] <= answers[q]
          <5>1. hand[p] <= hand[q]
            BY <3>1, <3>5
          <5> QED BY <1>2, <3>1, <3>2, <5>1
        <4> QED BY <3>2, <3>3, <3>5, <4>1
      <3> QED BY <3>4, <3>5
    <2>2. Before(answers, ranking, p) = {q \in S : hand[q] < hand[p]}
      <3>1. Before(answers, ranking, p) \subseteq S
        BY DEF Before
      <3> QED BY <2>1, <3>1
    <2>3. Cardinality({q \in S : hand[q] < hand[p]}) = hand[p]
      BY CutCounts
    <2> QED BY <2>2, <2>3 DEF Place
  <1>5. Cardinality(S) = n
    <2>1. IsFiniteSet(0..n - 1) /\ Cardinality(0..n - 1) = n
      BY FS_Interval
    <2>2. ExistsBijection(S, 0..n - 1)
      BY Fun_ExistsBij
    <2> QED BY <2>1, <2>2, FS_Bijection
  <1>6. \A p \in S : deck[hand[p]].authorId = p
    BY <1>3, <1>4, DeckDealt
  <1>7. deck = [i \in 0..n - 1 |->
                  [text |-> answers[deck[i].authorId], authorId |-> deck[i].authorId]]
    <2>1. deck = [i \in 0..Cardinality(S) - 1 |->
                    [text |-> answers[deck[i].authorId], authorId |-> deck[i].authorId]]
      BY <1>3, DeckDealt
    <2> QED BY <1>5, <2>1
  <1>8. ASSUME NEW i \in 0..n - 1 PROVE deck[i].text = texts[i]
    <2>1. PICK p \in S : hand[p] = i
      BY <1>1
    <2>2. deck[i].authorId = p
      BY <1>6, <2>1
    <2>3. deck[i].text = answers[p]
      BY <1>7, <2>2
    <2> QED BY <1>2, <2>1, <2>3
  <1>9. DOMAIN deck = 0..n - 1
    BY <1>7
  <1> QED BY <1>6, <1>8, <1>9 DEF InHands

(* What some of the players are ranked can be any order of theirs, before    *)
(* everybody else.                                                           *)
LEMMA RankingExtends ==
  ASSUME NEW R, IsFiniteSet(R), NEW S \in SUBSET R, NEW n \in Nat,
         NEW hand \in Bijection(S, 0..n - 1)
  PROVE  \E salt \in Ranking(R) : Follows(salt, hand, S)
  <1> DEFINE m == Cardinality(R \ S)
  <1>1. /\ hand \in [S -> 0..n - 1]
        /\ \A a, b \in S : hand[a] = hand[b] => a = b
        /\ \A k \in 0..n - 1 : \E a \in S : hand[a] = k
    BY DEF Bijection, Injection, Surjection, IsInjective
  <1>2. IsFiniteSet(R \ S) /\ m \in Nat
    BY FS_Difference, FS_CardinalityType
  <1>3. Cardinality(R) = n + m
    <2>1. IsFiniteSet(S) /\ Cardinality(S) = n
      <3>1. IsFiniteSet(S)
        BY FS_Subset
      <3>2. IsFiniteSet(0..n - 1) /\ Cardinality(0..n - 1) = n
        BY FS_Interval
      <3>3. ExistsBijection(S, 0..n - 1)
        BY Fun_ExistsBij
      <3> QED BY <3>1, <3>2, <3>3, FS_Bijection
    <2>2. m = Cardinality(R) - Cardinality(R \cap S)
      BY FS_Difference
    <2>4. R \cap S = S
      OBVIOUS
    <2>3. Cardinality(R) \in Nat
      BY FS_CardinalityType
    <2>5. m = Cardinality(R) - n
      BY <2>1, <2>2, <2>4
    <2> HIDE DEF m
    <2> QED BY <1>2, <2>3, <2>5
  <1>4. PICK rest \in Bijection(R \ S, 1..m) : TRUE
    <2>1. ExistsBijection(1..m, R \ S)
      BY <1>2, FS_CardinalityType
    <2>2. ExistsBijection(R \ S, 1..m)
      BY <2>1, Fun_ExistsBijSymmetric
    <2> QED BY <2>2, Fun_ExistsBij
  <1> HIDE DEF m
  <1>5. /\ rest \in [R \ S -> 1..m]
        /\ \A a, b \in R \ S : rest[a] = rest[b] => a = b
        /\ \A k \in 1..m : \E a \in R \ S : rest[a] = k
    BY <1>4 DEF Bijection, Injection, Surjection, IsInjective
  <1> DEFINE salt == [p \in R |-> IF p \in S THEN hand[p] + 1 ELSE n + rest[p]]
  <1>6. \A p \in R : /\ p \in S => salt[p] \in 1..n /\ salt[p] = hand[p] + 1
                     /\ p \notin S => salt[p] \in n + 1..n + m /\ salt[p] = n + rest[p]
    <2> SUFFICES ASSUME NEW p \in R
                 PROVE  /\ p \in S => hand[p] + 1 \in 1..n
                        /\ p \notin S => n + rest[p] \in n + 1..n + m
      OBVIOUS
    <2>1. p \in S => hand[p] \in 0..n - 1
      BY <1>1
    <2>2. p \notin S => rest[p] \in 1..m
      BY <1>5
    <2> QED BY <1>2, <2>1, <2>2
  <1>7. salt \in [R -> 1..n + m]
    <2>1. \A p \in R : salt[p] \in 1..n + m
      BY <1>2, <1>6
    <2> QED BY <2>1
  <1> HIDE DEF salt
  <1>8. ASSUME NEW a \in R, NEW b \in R, salt[a] = salt[b] PROVE a = b
    <2>1. CASE a \in S /\ b \in S
      <3>1. hand[a] + 1 = hand[b] + 1 /\ hand[a] \in Int /\ hand[b] \in Int
        BY <1>1, <1>6, <1>8, <2>1
      <3>2. hand[a] = hand[b]
        BY <3>1
      <3> QED BY <1>1, <2>1, <3>2
    <2>2. CASE a \notin S /\ b \notin S
      <3>1. n + rest[a] = n + rest[b] /\ rest[a] \in Int /\ rest[b] \in Int
        BY <1>5, <1>6, <1>8, <2>2
      <3>2. rest[a] = rest[b]
        BY <3>1
      <3> QED BY <1>5, <2>2, <3>2
    <2>3. CASE a \in S /\ b \notin S
      BY <1>2, <1>6, <1>8, <2>3
    <2>4. CASE a \notin S /\ b \in S
      BY <1>2, <1>6, <1>8, <2>4
    <2> QED BY <2>1, <2>2, <2>3, <2>4
  <1>9. ASSUME NEW k \in 1..n + m PROVE \E p \in R : salt[p] = k
    <2>1. CASE k <= n
      <3>1. k - 1 \in 0..n - 1
        BY <2>1
      <3>2. PICK p \in S : hand[p] = k - 1
        BY <1>1, <3>1
      <3>3. salt[p] = k
        BY <1>6, <3>2
      <3> QED BY <3>3
    <2>2. CASE ~(k <= n)
      <3>1. k - n \in 1..m
        BY <1>2, <2>2
      <3>2. PICK p \in R \ S : rest[p] = k - n
        BY <1>5, <3>1
      <3>3. salt[p] = k
        BY <1>6, <3>2
      <3> QED BY <3>3
    <2> QED BY <2>1, <2>2
  <1>10. salt \in Bijection(R, 1..n + m)
    BY <1>7, <1>8, <1>9, Fun_IsBij
  <1> QED BY <1>3, <1>6, <1>10 DEF Ranking, Follows

-----------------------------------------------------------------------------
(* The invariant of a round: the cards are made once, of the answers as they *)
(* then are, and nobody guesses the author of their own card.                *)
Dealt ==
  /\ phase = "collect" => cards = NoEntries
  /\ phase # "collect" => cards = buildCards(drafts, tie)

NotOneself == \A g \in DOMAIN guesses : cards[g[2]].authorId # g[1]

RoundInv == TypeOK /\ Dealt /\ NotOneself

LEMMA RoundFacts ==
  ASSUME TypeOK
  PROVE  /\ IsFiniteSet(roster) /\ Cardinality(roster) \in Nat
         /\ Cardinality(Player) \in Nat /\ Cardinality(roster) <= Cardinality(Player)
         /\ IsFiniteSet(DOMAIN drafts) /\ Cardinality(DOMAIN drafts) \in Nat
         /\ Cardinality(DOMAIN drafts) <= Cardinality(Player)
         /\ DOMAIN drafts \subseteq roster
         /\ drafts \in [DOMAIN drafts -> Text] /\ drafts \in [DOMAIN drafts -> Nat]
         /\ Ranks(tie, DOMAIN drafts)
  <1>1. IsFiniteSet(Player) /\ roster \in SUBSET Player /\ DOMAIN drafts \in SUBSET Player
        /\ DOMAIN drafts \subseteq roster
    BY GuessWhoAssumption DEF TypeOK
  <1>2. IsFiniteSet(roster) /\ Cardinality(roster) <= Cardinality(Player)
    BY <1>1, FS_Subset
  <1>3. IsFiniteSet(DOMAIN drafts) /\ Cardinality(DOMAIN drafts) <= Cardinality(Player)
    BY <1>1, FS_Subset
  <1>4. /\ Cardinality(roster) \in Nat /\ Cardinality(Player) \in Nat
        /\ Cardinality(DOMAIN drafts) \in Nat
    BY <1>1, <1>2, <1>3, FS_CardinalityType
  <1>5. drafts \in [DOMAIN drafts -> Text] /\ drafts \in [DOMAIN drafts -> Nat]
    BY GuessWhoAssumption DEF TypeOK
  <1>6. tie \in Bijection(roster, 1..Cardinality(roster))
    BY DEF TypeOK, Ranking
  <1>7. Ranks(tie, DOMAIN drafts)
    <2>1. /\ tie \in [roster -> 1..Cardinality(roster)]
          /\ \A p, q \in roster : tie[p] = tie[q] => p = q
      BY <1>6 DEF Bijection, Injection, IsInjective
    <2> QED BY <1>1, <1>4, <2>1 DEF Ranks
  <1> QED BY <1>1, <1>2, <1>3, <1>4, <1>5, <1>7

LEMMA DeckTyped ==
  ASSUME TypeOK, NEW deck, deck = buildCards(drafts, tie)
  PROVE  /\ DOMAIN deck = 0..Cardinality(DOMAIN drafts) - 1
         /\ DOMAIN deck \subseteq CardId
         /\ deck \in [DOMAIN deck -> [text : Text, authorId : roster]]
         /\ \A i \in DOMAIN deck :
              deck[i].authorId \in DOMAIN drafts /\ deck[i].text = drafts[deck[i].authorId]
         /\ \A i, j \in DOMAIN deck : deck[i].authorId = deck[j].authorId => i = j
         /\ \A p \in DOMAIN drafts : \E i \in DOMAIN deck : deck[i].authorId = p
         /\ \A i, j \in DOMAIN deck : i <= j => deck[i].text <= deck[j].text
  <1> DEFINE S == DOMAIN drafts
  <1>1. /\ IsFiniteSet(S) /\ drafts \in [S -> Nat] /\ Ranks(tie, S)
        /\ S \subseteq roster /\ drafts \in [S -> Text]
        /\ Cardinality(S) \in Nat /\ Cardinality(Player) \in Nat
        /\ Cardinality(S) <= Cardinality(Player)
    BY RoundFacts
  <1>2. deck = CardsInOrder(drafts, tie)
    BY DEF buildCards
  <1>3. deck = [i \in 0..Cardinality(S) - 1 |->
                  [text |-> drafts[deck[i].authorId], authorId |-> deck[i].authorId]]
    BY <1>1, <1>2, DeckDealt
  <1>4. /\ \A i \in DOMAIN deck : deck[i].authorId \in S /\ Place(drafts, tie, deck[i].authorId) = i
        /\ \A p \in S : /\ Place(drafts, tie, p) \in DOMAIN deck
                        /\ deck[Place(drafts, tie, p)].authorId = p
    BY <1>1, <1>2, DeckDealt
  <1>5. \A i, j \in DOMAIN deck : i <= j => deck[i].text <= deck[j].text
    BY <1>1, <1>2, DeckSorted
  <1>6. DOMAIN deck = 0..Cardinality(S) - 1
    BY <1>3
  <1>7. DOMAIN deck \subseteq CardId
    BY <1>1, <1>6 DEF CardId
  <1>8. \A i \in DOMAIN deck : deck[i].text = drafts[deck[i].authorId]
    BY <1>3, <1>6
  <1>9. deck \in [DOMAIN deck -> [text : Text, authorId : roster]]
    <2>1. \A i \in DOMAIN deck :
            /\ deck[i] = [text |-> drafts[deck[i].authorId], authorId |-> deck[i].authorId]
            /\ drafts[deck[i].authorId] \in Text /\ deck[i].authorId \in roster
      BY <1>1, <1>3, <1>4, <1>6
    <2>2. \A i \in DOMAIN deck : deck[i] \in [text : Text, authorId : roster]
      BY <2>1
    <2>3. deck = [i \in DOMAIN deck |-> deck[i]]
      BY <1>3
    <2> QED BY <2>2, <2>3
  <1> QED BY <1>4, <1>5, <1>6, <1>7, <1>8, <1>9

LEMMA InitRound == Init => RoundInv
  BY DEF Init, RoundInv, TypeOK, Dealt, NotOneself, NoEntries

LEMMA AdvanceRound ==
  ASSUME RoundInv, NEW from \in {"collect", "guess"}, Advance(from)
  PROVE  RoundInv'
  <1>1. TypeOK /\ Dealt /\ NotOneself
    BY DEF RoundInv
  <1>2. UNCHANGED <<roster, drafts, skipped, guesses, left, tie>>
    BY DEF Advance
  <1>3. CASE phase = "guess"
    BY <1>1, <1>2, <1>3 DEF Advance, RoundInv, TypeOK, Dealt, NotOneself, buildCards
  <1>4. CASE phase # "guess"
    <2>1. phase = "collect" /\ phase' = "guess" /\ cards' = buildCards(drafts, tie)
      BY <1>4 DEF Advance
    <2>2. DOMAIN guesses = {}
      BY <1>1, <2>1 DEF TypeOK, Dealt, NoEntries
    <2>3. /\ DOMAIN cards' \subseteq CardId
          /\ cards' \in [DOMAIN cards' -> [text : Text, authorId : roster]]
      BY <1>1, <2>1, DeckTyped
    <2>4. TypeOK'
      BY <1>1, <1>2, <2>1, <2>2, <2>3 DEF TypeOK
    <2>5. Dealt'
      BY <1>2, <2>1 DEF Dealt, buildCards
    <2>6. NotOneself'
      BY <1>2, <2>2 DEF NotOneself
    <2> QED BY <2>4, <2>5, <2>6 DEF RoundInv
  <1> QED BY <1>3, <1>4

LEMMA GuessRound ==
  ASSUME RoundInv, NEW p \in Player, NEW i \in DOMAIN cards, NEW author \in Player,
         Guess(p, i, author)
  PROVE  RoundInv'
  <1>1. TypeOK /\ Dealt /\ NotOneself
    BY DEF RoundInv
  <1>2. /\ UNCHANGED <<phase, roster, drafts, skipped, cards, left, tie>>
        /\ guesses' = [x \in DOMAIN guesses \cup {<<p, i>>} |->
                         IF x = <<p, i>> THEN author ELSE guesses[x]]
        /\ p \in roster /\ author \in roster /\ cards[i].authorId # p
    BY DEF Guess, MayGuess, MayAct, authors, Put
  <1>3. TypeOK'
    BY <1>1, <1>2 DEF TypeOK
  <1>4. Dealt'
    BY <1>1, <1>2 DEF Dealt, buildCards
  <1>5. NotOneself'
    BY <1>1, <1>2 DEF NotOneself
  <1> QED BY <1>3, <1>4, <1>5 DEF RoundInv

LEMMA NextRound ==
  ASSUME RoundInv, [Next]_vars
  PROVE  RoundInv'
  <1>1. TypeOK /\ Dealt /\ NotOneself
    BY DEF RoundInv
  <1>2. CASE UNCHANGED vars
    BY <1>1, <1>2 DEF vars, RoundInv, TypeOK, Dealt, NotOneself, buildCards
  <1>3. ASSUME NEW p \in Player, NEW text \in Text, Submit(p, text) PROVE RoundInv'
    <2>1. /\ drafts' = [x \in DOMAIN drafts \cup {p} |-> IF x = p THEN text ELSE drafts[x]]
          /\ p \in roster /\ phase = "collect"
          /\ UNCHANGED <<phase, roster, skipped, cards, guesses, left, tie>>
      BY <1>3 DEF Submit, MayAnswer, MayAct, Put
    <2> QED BY <1>1, <2>1 DEF RoundInv, TypeOK, Dealt, NotOneself
  <1>4. ASSUME NEW p \in Player, Skip(p) PROVE RoundInv'
    BY <1>1, <1>4 DEF Skip, MayAnswer, MayAct, RoundInv, TypeOK, Dealt, NotOneself
  <1>5. ASSUME NEW p \in Player, NEW i \in DOMAIN cards, NEW author \in Player,
               Guess(p, i, author)
        PROVE  RoundInv'
    BY <1>5, GuessRound
  <1>6. ASSUME NEW p \in Player, PlayerLeft(p) PROVE RoundInv'
    BY <1>1, <1>6 DEF PlayerLeft, departed, RoundInv, TypeOK, Dealt, NotOneself, buildCards
  <1>7. ASSUME NEW from \in {"collect", "guess"}, Advance(from) PROVE RoundInv'
    BY <1>7, AdvanceRound
  <1> QED BY <1>2, <1>3, <1>4, <1>5, <1>6, <1>7 DEF Next

LEMMA RoundKept == Spec => []RoundInv
  BY InitRound, NextRound, PTL DEF Spec

(* Of a round every card is somebody's answer and every guess somebody dealt *)
(* in naming another one's card (guessWho.ts:60-161).                        *)
THEOREM GuessTypeOK == Spec => []TypeOK
  <1>1. RoundInv => TypeOK
    BY DEF RoundInv
  <1> QED BY <1>1, RoundKept, PTL

-----------------------------------------------------------------------------
(* The round as a game.                                                      *)

LEMMA CardsDealt ==
  ASSUME RoundInv
  PROVE  /\ \A i \in DOMAIN cards : cards[i].authorId \in DOMAIN drafts
         /\ \A i, j \in DOMAIN cards : cards[i].authorId = cards[j].authorId => i = j
  <1>1. TypeOK /\ Dealt
    BY DEF RoundInv
  <1>2. CASE phase = "collect"
    BY <1>1, <1>2 DEF Dealt, NoEntries
  <1>3. CASE phase # "collect"
    <2>1. cards = buildCards(drafts, tie)
      BY <1>1, <1>3 DEF Dealt
    <2> QED BY <1>1, <2>1, DeckTyped
  <1> QED BY <1>2, <1>3

(* Each right guess names another player, and no two name the same one.      *)
LEMMA TallyBounded ==
  RoundInv => tally \in [roster \ left -> 0..Cardinality(Player) - 1]
  <1> SUFFICES ASSUME RoundInv, NEW p \in roster \ left
               PROVE  Cardinality(Right(p)) \in 0..Cardinality(Player) - 1
    BY DEF tally
  <1>1. TypeOK /\ NotOneself
    BY DEF RoundInv
  <1>2. /\ \A i \in DOMAIN cards : cards[i].authorId \in roster
        /\ \A i, j \in DOMAIN cards : cards[i].authorId = cards[j].authorId => i = j
    BY <1>1, CardsDealt DEF TypeOK
  <1> DEFINE named == [i \in Right(p) |-> cards[i].authorId]
  <1>3. named \in Injection(Right(p), roster \ {p})
    <2>1. \A i \in Right(p) : i \in DOMAIN cards /\ cards[i].authorId # p
      BY <1>1 DEF Right, NotOneself
    <2>2. named \in [Right(p) -> roster \ {p}]
      BY <1>2, <2>1
    <2>3. \A i, j \in Right(p) : named[i] = named[j] => i = j
      BY <1>2, <2>1
    <2> HIDE DEF named
    <2> QED BY <2>2, <2>3, Fun_IsInj
  <1>4. /\ IsFiniteSet(roster \ {p})
        /\ Cardinality(roster \ {p}) = Cardinality(roster) - 1
        /\ Cardinality(roster) \in Nat /\ Cardinality(Player) \in Nat
        /\ Cardinality(roster) <= Cardinality(Player)
    BY <1>1, RoundFacts, FS_RemoveElement
  <1>5. IsFiniteSet(Right(p)) /\ Cardinality(Right(p)) <= Cardinality(roster \ {p})
    BY <1>3, <1>4, FS_Injection
  <1>6. Cardinality(Right(p)) \in Nat
    BY <1>5, FS_CardinalityType
  <1> QED BY <1>4, <1>5, <1>6

LEMMA TallyStaysBounded ==
  RoundInv' => (tally \in [roster \ left -> 0..Cardinality(Player) - 1])'
  BY TallyBounded, PTL

LEMMA InitGame == Init => G!GameInit
  <1> SUFFICES ASSUME Init PROVE G!GameInit
    OBVIOUS
  <1>1. \A p : Right(p) = {}
    BY DEF Init, Right, NoEntries
  <1>2. tally = [p \in roster |-> 0]
    <2>1. roster \ left = roster
      BY DEF Init
    <2> QED BY <1>1, <2>1, FS_EmptySet DEF tally
  <1>3. roster \in SUBSET Player /\ isComplete = FALSE
    BY DEF Init, isComplete
  <1> QED BY <1>2, <1>3 DEF G!GameInit

(* A leave takes the leaver's points and moves nobody else's: the cards stay *)
(* and so do the guesses.                                                    *)
LEMMA LeaveDeparts ==
  ASSUME NEW p \in Player, PlayerLeft(p)
  PROVE  G!Depart(p)
  <1>1. /\ UNCHANGED <<phase, roster, cards, guesses>> /\ phase # "reveal"
        /\ roster' \ left' = (roster \ left) \ {p}
    BY DEF PlayerLeft, departed
  <1>2. \A q : Right(q)' = Right(q)
    BY <1>1 DEF Right
  <1>3. tally' = [q \in (roster \ left) \ {p} |-> tally[q]]
    <2>1. tally' = [q \in roster' \ left' |-> Cardinality(Right(q)')]
      BY DEF tally
    <2>2. tally' = [q \in (roster \ left) \ {p} |-> Cardinality(Right(q))]
      BY <1>1, <1>2, <2>1
    <2>3. \A q \in (roster \ left) \ {p} : tally[q] = Cardinality(Right(q))
      BY DEF tally
    <2> QED BY <2>2, <2>3
  <1>4. DOMAIN tally = roster \ left
    BY DEF tally
  <1> QED BY <1>1, <1>3, <1>4 DEF G!Depart, isComplete

LEMMA EventPlays ==
  ASSUME RoundInv', UNCHANGED <<roster, left>>, phase # "reveal"
  PROVE  G!Play
  <1>1. tally' \in [roster' \ left' -> 0..Cardinality(Player) - 1]
    BY TallyStaysBounded
  <1>2. DOMAIN tally = roster \ left
    BY DEF tally
  <1>3. isComplete = FALSE /\ isComplete' \in BOOLEAN
    BY DEF isComplete
  <1> QED BY <1>1, <1>2, <1>3 DEF G!Play

LEMMA NextGame ==
  ASSUME RoundInv, [Next]_vars
  PROVE  (G!Play \/ \E p \in Player : G!Depart(p)) \/ UNCHANGED <<tally, isComplete>>
  <1>1. RoundInv'
    BY NextRound
  <1>2. CASE UNCHANGED vars
    BY <1>2 DEF vars, tally, Right, isComplete
  <1>3. ASSUME NEW p \in Player, NEW text \in Text, Submit(p, text) PROVE G!Play
    BY <1>1, <1>3, EventPlays DEF Submit, MayAnswer
  <1>4. ASSUME NEW p \in Player, Skip(p) PROVE G!Play
    BY <1>1, <1>4, EventPlays DEF Skip, MayAnswer
  <1>5. ASSUME NEW p \in Player, NEW i \in DOMAIN cards, NEW author \in Player,
               Guess(p, i, author)
        PROVE  G!Play
    BY <1>1, <1>5, EventPlays DEF Guess, MayGuess
  <1>6. ASSUME NEW p \in Player, PlayerLeft(p) PROVE G!Depart(p)
    BY <1>6, LeaveDeparts
  <1>7. ASSUME NEW from \in {"collect", "guess"}, Advance(from) PROVE G!Play
    BY <1>1, <1>7, EventPlays DEF Advance
  <1> QED BY <1>2, <1>3, <1>4, <1>5, <1>6, <1>7 DEF Next

(* The round is a game as the room needs it: at most one point for each      *)
(* other player, and a leaver moves nobody else's (game.ts:36-52,            *)
(* room.ts:235-242).                                                         *)
THEOREM GuessImplementsGame == Spec => ImplementsGame
  <1>1. RoundInv /\ [Next]_vars => [G!Play \/ \E p \in Player : G!Depart(p)]_<<tally, isComplete>>
    BY NextGame
  <1> QED BY <1>1, RoundKept, InitGame, PTL DEF Spec, ImplementsGame, G!GameSpec, G!gameVars

-----------------------------------------------------------------------------
(* The screens.                                                              *)

(* Whoever still owes something is seated: what is done, what the leavers    *)
(* never did and what the seated still owe add up to the roster.             *)
LEMMA RosterCounts ==
  ASSUME NEW R, IsFiniteSet(R), NEW D \in SUBSET R, NEW L \in SUBSET R
  PROVE  LET owed == (R \ L) \ D IN
         /\ Cardinality(D) \in Nat /\ Cardinality(R) \in Nat
         /\ Cardinality(L \ D) \in Nat /\ Cardinality(owed) \in Nat
         /\ Cardinality(R) = Cardinality(D) + Cardinality(L \ D) + Cardinality(owed)
         /\ Cardinality(owed) = 0 <=> R \ L \subseteq D
         /\ Cardinality((R \ L) \cap D) = Cardinality(R \ L) <=> R \ L \subseteq D
  <1> DEFINE owed == (R \ L) \ D
             away == L \ D
  <1>1. IsFiniteSet(D) /\ IsFiniteSet(away) /\ IsFiniteSet(owed) /\ IsFiniteSet(R \ L)
    BY FS_Subset
  <1>2. /\ Cardinality(D) \in Nat /\ Cardinality(R) \in Nat
        /\ Cardinality(away) \in Nat /\ Cardinality(owed) \in Nat
    BY <1>1, FS_CardinalityType
  <1>3. Cardinality(D \cup away) = Cardinality(D) + Cardinality(away)
    <2>1. Cardinality(D \cup away) = Cardinality(D) + Cardinality(away) - Cardinality(D \cap away)
      BY <1>1, FS_Union
    <2>2. D \cap away = {}
      OBVIOUS
    <2> HIDE DEF away
    <2> QED BY <1>2, <2>1, <2>2, FS_EmptySet
  <1>4. Cardinality(R) = Cardinality(D \cup away) + Cardinality(owed)
    <2>1. IsFiniteSet(D \cup away) /\ Cardinality(D \cup away) \in Nat
      BY <1>1, FS_Union, FS_CardinalityType
    <2>2. Cardinality((D \cup away) \cup owed)
            = Cardinality(D \cup away) + Cardinality(owed) - Cardinality((D \cup away) \cap owed)
      BY <1>1, <2>1, FS_Union
    <2>3. (D \cup away) \cap owed = {} /\ (D \cup away) \cup owed = R
      OBVIOUS
    <2> HIDE DEF away, owed
    <2>4. Cardinality((D \cup away) \cap owed) = 0
      BY <2>3, FS_EmptySet
    <2>5. Cardinality((D \cup away) \cup owed) = Cardinality(R)
      BY <2>3
    <2> QED BY <1>2, <2>1, <2>2, <2>4, <2>5
  <1>5. Cardinality(owed) = 0 <=> R \ L \subseteq D
    <2>1. Cardinality(owed) = 0 <=> owed = {}
      BY <1>1, FS_EmptySet
    <2>2. owed = {} <=> R \ L \subseteq D
      OBVIOUS
    <2> QED BY <2>1, <2>2
  <1>6. Cardinality((R \ L) \cap D) = Cardinality(R \ L) <=> R \ L \subseteq D
    <2>1. (R \ L) \cap D \in SUBSET (R \ L)
      OBVIOUS
    <2>2. Cardinality((R \ L) \cap D) = Cardinality(R \ L) => (R \ L) \cap D = R \ L
      BY <1>1, <2>1, FS_Subset
    <2>3. (R \ L) \cap D = R \ L <=> R \ L \subseteq D
      OBVIOUS
    <2> QED BY <2>2, <2>3
  <1> QED BY <1>2, <1>3, <1>4, <1>5, <1>6

(* The board's count and the phones' are exact, and agree (view.ts:21-37,    *)
(* progressChips.tsx:87-102).                                                *)
THEOREM GuessProgressExact == Spec => []ProgressExact
  <1>1. TypeOK => ProgressExact
    <2> SUFFICES ASSUME TypeOK, phase = "collect"
                 PROVE  /\ ActedProgress.count = ActedProgress.total
                             <=> roster \ left \subseteq resolved
                        /\ \A p \in roster \ left :
                             /\ PhoneProgress(p).count <= PhoneProgress(p).total
                             /\ PhoneProgress(p).count = PhoneProgress(p).total
                                  <=> ActedProgress.count = ActedProgress.total
      BY DEF ProgressExact
    <2>1. ActedProgress = [count |-> Cardinality((roster \ left) \cap resolved),
                           total |-> Cardinality(roster \ left)]
      BY DEF ActedProgress, seatedIds, actedIds, collectView
    <2>2. \A p : PhoneProgress(p) = [count |-> Cardinality(resolved),
                                     total |-> Cardinality(roster) - Cardinality(left \ resolved)]
      BY DEF PhoneProgress, collectView, total
    <2>3. IsFiniteSet(roster) /\ resolved \in SUBSET roster /\ left \in SUBSET roster
      BY RoundFacts DEF resolved, TypeOK
    <2> DEFINE owed == (roster \ left) \ resolved
    <2>4. /\ Cardinality(resolved) \in Nat /\ Cardinality(roster) \in Nat
          /\ Cardinality(left \ resolved) \in Nat /\ Cardinality(owed) \in Nat
          /\ Cardinality(roster)
               = Cardinality(resolved) + Cardinality(left \ resolved) + Cardinality(owed)
          /\ Cardinality(owed) = 0 <=> roster \ left \subseteq resolved
          /\ Cardinality((roster \ left) \cap resolved) = Cardinality(roster \ left)
               <=> roster \ left \subseteq resolved
      BY <2>3, RosterCounts
    <2> HIDE DEF owed
    <2>5. /\ Cardinality(resolved) <= Cardinality(roster) - Cardinality(left \ resolved)
          /\ Cardinality(resolved) = Cardinality(roster) - Cardinality(left \ resolved)
               <=> Cardinality(owed) = 0
      BY <2>4
    <2> QED BY <2>1, <2>2, <2>4, <2>5
  <1> QED BY <1>1, GuessTypeOK, PTL

(* Of the guesses a viewer gave, the ticks are those the reducer scores.     *)
LEMMA TicksAreRight ==
  ASSUME RoundInv, NEW p \in roster \ left
  PROVE  RevealPhone(p).ticked = Right(p) /\ RevealPhone(p).points = Cardinality(Right(p))
  <1> DEFINE mine == {<<g[2], guesses[g]>> : g \in {h \in DOMAIN guesses : h[1] = p}}
             ticked == {i \in {j \in DOMAIN cards : cards[j].authorId # p} :
                          <<i, cards[i].authorId>> \in mine}
  <1>1. TypeOK /\ NotOneself
    BY DEF RoundInv
  <1>2. \A g \in DOMAIN guesses : g = <<g[1], g[2]>>
    BY <1>1 DEF TypeOK
  <1>3. RevealPhone(p).ticked = ticked
    BY DEF RevealPhone, revealView
  <1>4. ASSUME NEW i \in Right(p) PROVE i \in ticked
    <2>1. /\ i \in DOMAIN cards /\ <<p, i>> \in DOMAIN guesses
          /\ guesses[<<p, i>>] = cards[i].authorId
      BY DEF Right
    <2>2. cards[i].authorId # p
      BY <1>1, <2>1 DEF NotOneself
    <2>3. <<i, cards[i].authorId>> \in mine
      BY <2>1
    <2> QED BY <2>1, <2>2, <2>3
  <1>5. ASSUME NEW i \in ticked PROVE i \in Right(p)
    <2>1. i \in DOMAIN cards /\ <<i, cards[i].authorId>> \in mine
      OBVIOUS
    <2>2. PICK g \in DOMAIN guesses : g[1] = p /\ <<g[2], guesses[g]>> = <<i, cards[i].authorId>>
      BY <2>1
    <2>3. g = <<p, i>> /\ guesses[g] = cards[i].authorId
      BY <1>2, <2>2
    <2> QED BY <2>1, <2>3 DEF Right
  <1>6. RevealPhone(p).ticked = Right(p)
    <2> HIDE DEF ticked
    <2>1. ticked \subseteq Right(p) /\ Right(p) \subseteq ticked
      BY <1>4, <1>5
    <2> QED BY <1>3, <2>1
  <1>7. RevealPhone(p).points = tally[p]
    BY DEF RevealPhone, revealView
  <1> QED BY <1>6, <1>7 DEF tally

LEMMA PhonesTaken ==
  ASSUME RoundInv, NEW p \in roster \ left
  PROVE  /\ \A e \in Phone(p) : Takes(p, e)
         /\ phase = "guess" => \A i \in DOMAIN cards :
              cards[i].authorId # p =>
                [type |-> "guess", cardId |-> i, author |-> cards[i].authorId] \in Phone(p)
         /\ \A e \in Phone(p) : e.type = "guess" /\ e.author \in left =>
              \E i \in DOMAIN cards : cards[i].authorId = e.author
  <1>1. TypeOK
    BY DEF RoundInv
  <1>2. CASE phase = "collect"
    <2>1. Phone(p) = CollectPhone(p)
      BY <1>2 DEF Phone
    <2>2. \A e \in Phone(p) : e.type \in {"submit", "skip"}
      BY <2>1 DEF CollectPhone
    <2>3. MayAnswer(p)
      BY <1>2 DEF MayAnswer, MayAct
    <2> QED BY <1>2, <2>2, <2>3 DEF Takes
  <1>3. CASE phase = "guess"
    <2>1. Phone(p) = {[type |-> "guess", cardId |-> i, author |-> a] :
                        i \in {j \in DOMAIN cards : cards[j].authorId # p},
                        a \in authors(cards) \ {p}}
      <3>1. guessable(guessView(cards, p)) = {j \in DOMAIN cards : cards[j].authorId # p}
        BY DEF guessable, guessView
      <3>2. guessView(cards, p).candidates = authors(cards)
        BY DEF guessView
      <3>3. Phone(p) = GuessPhone(p)
        BY <1>3 DEF Phone
      <3> QED BY <3>1, <3>2, <3>3 DEF GuessPhone
    <2>2. ASSUME NEW e \in Phone(p)
          PROVE  /\ Takes(p, e)
                 /\ e.author \in left => \E i \in DOMAIN cards : cards[i].authorId = e.author
      <3>1. PICK i \in DOMAIN cards, a \in authors(cards) \ {p} :
              /\ e = [type |-> "guess", cardId |-> i, author |-> a]
              /\ cards[i].authorId # p
        BY <2>1, <2>2
      <3>2. MayGuess(p, i, a)
        BY <1>3, <3>1 DEF MayGuess, MayAct
      <3>3. Takes(p, e)
        BY <3>1, <3>2 DEF Takes
      <3>4. a \in left => \E j \in DOMAIN cards : cards[j].authorId = a
        BY <3>1 DEF authors
      <3> QED BY <3>1, <3>3, <3>4
    <2>3. ASSUME NEW i \in DOMAIN cards, cards[i].authorId # p
          PROVE  [type |-> "guess", cardId |-> i, author |-> cards[i].authorId] \in Phone(p)
      <3>1. cards[i].authorId \in authors(cards) \ {p}
        BY <1>1, <2>3 DEF authors, TypeOK
      <3> QED BY <2>1, <2>3, <3>1
    <2> QED BY <2>2, <2>3
  <1>4. CASE phase = "reveal"
    <2>1. Phone(p) = {}
      BY <1>4 DEF Phone
    <2> QED BY <1>4, <2>1
  <1> QED BY <1>1, <1>2, <1>3, <1>4 DEF TypeOK

(* No button of a phone that has caught up sends what the game refuses, and  *)
(* its ticks are its points (PlayerView.tsx:131-200, 210-250;                *)
(* guessWho.ts:117-155; authors.ts:4-11; scoring.ts:4-19).                   *)
THEOREM GuessPhoneInStep == Spec => []PhoneInStep
  <1>1. RoundInv => PhoneInStep
    <2> SUFFICES ASSUME RoundInv PROVE PhoneInStep
      OBVIOUS
    <2>1. \A p \in roster \ left : Cardinality(RevealPhone(p).ticked) = RevealPhone(p).points
      BY TicksAreRight
    <2>2. guessWhoStep = {} <=> isComplete
      BY DEF guessWhoStep, isComplete
    <2> QED BY <2>1, <2>2, PhonesTaken DEF PhoneInStep
  <1> QED BY <1>1, RoundKept, PTL

-----------------------------------------------------------------------------
(* What the cards give away.                                                 *)

(* The cards somebody else wrote, and hands that are the viewer's own card   *)
(* and, for each other writer, a way of handing those out.                   *)
Unknown(author, n, viewer) == {i \in 0..n - 1 : author[i] # viewer}
Hands(hand, truth, author, viewer, S) ==
  \A p \in S : IF p = viewer THEN author[hand[p]] = p ELSE hand[p] = truth[p]

(* The viewer's answer is on the viewer's card, another writer's on the card *)
(* that writer is handed.                                                    *)
Worded(answers, texts, truth, author, viewer, n, S) ==
  /\ \A i \in 0..n - 1 : author[i] = viewer => answers[viewer] = texts[i]
  /\ \A p \in S \ {viewer} : answers[p] = texts[truth[p]]

LEMMA HandsAreCards ==
  ASSUME NEW S, NEW n \in Nat, NEW author \in Bijection(0..n - 1, S), NEW viewer,
         NEW truth \in Bijection(S \ {viewer}, Unknown(author, n, viewer))
  PROVE  \E hand \in Bijection(S, 0..n - 1) : Hands(hand, truth, author, viewer, S)
  <1> DEFINE unknown == Unknown(author, n, viewer)
  <1>0. \A i : i \in unknown <=> i \in 0..n - 1 /\ author[i] # viewer
    BY DEF Unknown
  <1> HIDE DEF unknown
  <1>1. /\ truth \in [S \ {viewer} -> unknown]
        /\ \A a, b \in S \ {viewer} : truth[a] = truth[b] => a = b
        /\ \A k \in unknown : \E a \in S \ {viewer} : truth[a] = k
    BY DEF Bijection, Injection, Surjection, IsInjective, unknown
  <1>2. /\ author \in [0..n - 1 -> S]
        /\ \A p \in S : \E i \in 0..n - 1 : author[i] = p
    BY DEF Bijection, Injection, Surjection
  <1> DEFINE own == CHOOSE i \in 0..n - 1 : author[i] = viewer
             hand == [p \in S |-> IF p = viewer THEN own ELSE truth[p]]
  <1>3. viewer \in S => own \in 0..n - 1 /\ author[own] = viewer
    BY <1>2
  <1> HIDE DEF own
  <1>4. \A p \in S : IF p = viewer THEN hand[p] \in 0..n - 1 /\ author[hand[p]] = p
                                   ELSE hand[p] = truth[p] /\ hand[p] \in unknown
    BY <1>1, <1>3
  <1>5. hand \in [S -> 0..n - 1]
    <2>1. \A p \in S : hand[p] \in 0..n - 1
      BY <1>0, <1>4
    <2> QED BY <2>1
  <1> HIDE DEF hand
  <1>6. \A a, b \in S : hand[a] = hand[b] => a = b
    BY <1>0, <1>1, <1>4
  <1>7. ASSUME NEW k \in 0..n - 1 PROVE \E p \in S : hand[p] = k
    <2>1. CASE author[k] = viewer
      <3>1. viewer \in S
        BY <1>2, <2>1
      <3>2. hand[viewer] \in 0..n - 1 /\ author[hand[viewer]] = author[k]
        BY <1>4, <2>1, <3>1
      <3>3. \A i, j \in 0..n - 1 : author[i] = author[j] => i = j
        BY DEF Bijection, Injection, IsInjective
      <3> QED BY <3>1, <3>2, <3>3
    <2>2. CASE author[k] # viewer
      <3>1. PICK p \in S \ {viewer} : truth[p] = k
        BY <1>0, <1>1, <2>2
      <3> QED BY <1>4, <3>1
    <2> QED BY <2>1, <2>2
  <1>8. hand \in Bijection(S, 0..n - 1)
    BY <1>5, <1>6, <1>7, Fun_IsBij
  <1>9. Hands(hand, truth, author, viewer, S)
    BY <1>4 DEF Hands
  <1> QED BY <1>8, <1>9

(* So some ranking deals the same texts, the viewer's card to the viewer and *)
(* the others as they were handed.                                           *)
DealsSo(deck, texts, truth, author, viewer, n, S) ==
  /\ DOMAIN deck = 0..n - 1
  /\ \A i \in 0..n - 1 : /\ deck[i].text = texts[i]
                         /\ deck[i].authorId \in S
                         /\ deck[i].authorId = viewer <=> author[i] = viewer
  /\ \A p \in S \ {viewer} : deck[truth[p]].authorId = p

LEMMA HandsDealt ==
  ASSUME NEW R, IsFiniteSet(R), NEW S \in SUBSET R, IsFiniteSet(S),
         NEW n \in Nat, NEW author \in Bijection(0..n - 1, S),
         NEW texts \in [0..n - 1 -> Nat], Ascending(texts, n),
         NEW viewer, NEW truth \in Bijection(S \ {viewer}, Unknown(author, n, viewer)),
         NEW answers \in [S -> Nat], Worded(answers, texts, truth, author, viewer, n, S)
  PROVE  \E salt \in Ranking(R) :
           DealsSo(CardsInOrder(answers, salt), texts, truth, author, viewer, n, S)
  <1>1. PICK hand \in Bijection(S, 0..n - 1) : Hands(hand, truth, author, viewer, S)
    BY HandsAreCards
  <1>2. /\ hand \in [S -> 0..n - 1]
        /\ \A k \in 0..n - 1 : \E p \in S : hand[p] = k
    BY DEF Bijection, Injection, Surjection
  <1>3. Held(answers, texts, hand, S)
    <2> SUFFICES ASSUME NEW p \in S PROVE answers[p] = texts[hand[p]]
      BY DEF Held
    <2>1. CASE p = viewer
      <3>1. hand[p] \in 0..n - 1 /\ author[hand[p]] = viewer
        BY <1>1, <1>2, <2>1 DEF Hands
      <3> QED BY <2>1, <3>1 DEF Worded
    <2>2. CASE p # viewer
      <3>1. hand[p] = truth[p] /\ p \in S \ {viewer}
        BY <1>1, <2>2 DEF Hands
      <3> QED BY <3>1 DEF Worded
    <2> QED BY <2>1, <2>2
  <1>4. PICK salt \in Ranking(R) : Follows(salt, hand, S)
    BY RankingExtends
  <1>5. PICK deck : deck = CardsInOrder(answers, salt)
    OBVIOUS
  <1>6. /\ DOMAIN deck = 0..n - 1
        /\ \A i \in 0..n - 1 : deck[i].text = texts[i]
        /\ \A p \in S : deck[hand[p]].authorId = p
    <2>1. InHands(CardsInOrder(answers, salt), texts, hand, n, S)
      BY <1>3, <1>4, DeckOfOrder
    <2> QED BY <1>5, <2>1 DEF InHands
  <1>7. ASSUME NEW i \in 0..n - 1
        PROVE  /\ deck[i].authorId \in S
               /\ deck[i].authorId = viewer <=> author[i] = viewer
    <2>1. PICK p \in S : hand[p] = i
      BY <1>2
    <2>2. deck[i].authorId = p
      BY <1>6, <2>1
    <2>3. CASE p = viewer
      BY <1>1, <2>1, <2>2, <2>3 DEF Hands
    <2>4. CASE p # viewer
      <3>1. i = truth[p] /\ p \in S \ {viewer}
        BY <1>1, <2>1, <2>4 DEF Hands
      <3>2. truth \in [S \ {viewer} -> Unknown(author, n, viewer)]
        BY DEF Bijection, Injection
      <3>3. i \in Unknown(author, n, viewer)
        BY <3>1, <3>2
      <3> QED BY <2>2, <2>4, <3>3 DEF Unknown
    <2> QED BY <2>3, <2>4
  <1>8. \A p \in S \ {viewer} : deck[truth[p]].authorId = p
    BY <1>1, <1>6 DEF Hands
  <1>9. DealsSo(deck, texts, truth, author, viewer, n, S)
    BY <1>6, <1>7, <1>8 DEF DealsSo
  <1> QED BY <1>4, <1>5, <1>9

(* The deck's answers when the cards are handed out so.                      *)
Rewritten(truth, viewer) ==
  [p \in DOMAIN drafts |-> IF p = viewer THEN drafts[p] ELSE cards[truth[p]].text]

LEMMA AnyHandsFitTheView ==
  ASSUME RoundInv, phase = "guess", NEW viewer, NEW unknown, NEW writers,
         \A i : i \in unknown <=> i \in DOMAIN cards /\ cards[i].authorId # viewer,
         \A p : p \in writers <=> \E i \in unknown : cards[i].authorId = p,
         NEW truth \in Bijection(writers, unknown)
  PROVE  \E salt \in Ranking(roster) :
           LET deck == buildCards(Rewritten(truth, viewer), salt) IN
           /\ guessView(deck, viewer) = guessView(cards, viewer)
           /\ \A p \in writers : deck[truth[p]].authorId = p
  <1>1. TypeOK /\ cards = buildCards(drafts, tie)
    BY DEF RoundInv, Dealt
  <1>2. PICK n, S : n = Cardinality(DOMAIN drafts) /\ S = DOMAIN drafts
    OBVIOUS
  <1>3. /\ DOMAIN cards = 0..n - 1
        /\ \A i \in 0..n - 1 :
             cards[i].authorId \in S /\ cards[i].text = drafts[cards[i].authorId]
        /\ \A i, j \in 0..n - 1 : cards[i].authorId = cards[j].authorId => i = j
        /\ \A p \in S : \E i \in 0..n - 1 : cards[i].authorId = p
        /\ \A i, j \in 0..n - 1 : i <= j => cards[i].text <= cards[j].text
    <2>1. /\ DOMAIN cards = 0..Cardinality(DOMAIN drafts) - 1
          /\ \A i \in DOMAIN cards :
               cards[i].authorId \in DOMAIN drafts /\ cards[i].text = drafts[cards[i].authorId]
          /\ \A i, j \in DOMAIN cards : cards[i].authorId = cards[j].authorId => i = j
          /\ \A p \in DOMAIN drafts : \E i \in DOMAIN cards : cards[i].authorId = p
          /\ \A i, j \in DOMAIN cards : i <= j => cards[i].text <= cards[j].text
      BY <1>1, DeckTyped
    <2> QED BY <1>2, <2>1
  <1>4. /\ IsFiniteSet(S) /\ IsFiniteSet(roster) /\ S \in SUBSET roster
        /\ drafts \in [S -> Nat] /\ n \in Nat
    BY <1>1, <1>2, RoundFacts
  <1>5. PICK author : author = [i \in 0..n - 1 |-> cards[i].authorId]
    OBVIOUS
  <1>6. PICK texts : texts = [i \in 0..n - 1 |-> cards[i].text]
    OBVIOUS
  <1>7. /\ author \in [0..n - 1 -> S]
        /\ \A i, j \in 0..n - 1 : author[i] = author[j] => i = j
        /\ \A p \in S : \E i \in 0..n - 1 : author[i] = p
        /\ \A i \in 0..n - 1 : author[i] = cards[i].authorId
    BY <1>3, <1>5
  <1>8. author \in Bijection(0..n - 1, S)
    BY <1>7, Fun_IsBij
  <1>9. \A i \in 0..n - 1 : texts[i] = drafts[author[i]] /\ texts[i] = cards[i].text
    BY <1>3, <1>6, <1>7
  <1>10. Ascending(texts, n)
    BY <1>3, <1>9 DEF Ascending
  <1>11. texts \in [0..n - 1 -> Nat]
    <2>1. \A i \in 0..n - 1 : drafts[author[i]] \in Nat
      BY <1>4, <1>7
    <2> QED BY <1>6, <1>9, <2>1
  <1>12. unknown = Unknown(author, n, viewer)
    BY <1>3, <1>7 DEF Unknown
  <1>13. writers = S \ {viewer}
    <2>1. \A p \in writers : p \in S \ {viewer}
      BY <1>3
    <2>2. ASSUME NEW p \in S \ {viewer} PROVE p \in writers
      <3>1. PICK i \in 0..n - 1 : cards[i].authorId = p
        BY <1>3
      <3> QED BY <1>3, <3>1
    <2> QED BY <2>1, <2>2
  <1>14. truth \in Bijection(S \ {viewer}, Unknown(author, n, viewer))
    BY <1>12, <1>13
  <1>15. \A p \in S \ {viewer} : truth[p] \in 0..n - 1
    <2>1. truth \in [S \ {viewer} -> Unknown(author, n, viewer)]
      BY <1>14 DEF Bijection, Injection
    <2> QED BY <2>1 DEF Unknown
  <1>16. PICK answers : answers = Rewritten(truth, viewer)
    OBVIOUS
  <1>17. answers = [p \in S |-> IF p = viewer THEN drafts[p] ELSE cards[truth[p]].text]
    BY <1>2, <1>16 DEF Rewritten
  <1>18. Worded(answers, texts, truth, author, viewer, n, S)
    <2>1. \A p \in S \ {viewer} : answers[p] = texts[truth[p]]
      BY <1>9, <1>15, <1>17
    <2>2. \A i \in 0..n - 1 : author[i] = viewer => answers[viewer] = texts[i]
      BY <1>7, <1>9, <1>17
    <2> QED BY <2>1, <2>2 DEF Worded
  <1>19. answers \in [S -> Nat]
    <2>1. \A p \in S : answers[p] \in Nat
      BY <1>4, <1>11, <1>15, <1>17, <1>18 DEF Worded
    <2> QED BY <1>17, <2>1
  <1>20. PICK salt \in Ranking(roster) :
           DealsSo(CardsInOrder(answers, salt), texts, truth, author, viewer, n, S)
    BY <1>4, <1>8, <1>10, <1>11, <1>14, <1>18, <1>19, HandsDealt
  <1>21. PICK deck : deck = buildCards(answers, salt)
    OBVIOUS
  <1>22. /\ DOMAIN deck = 0..n - 1
         /\ \A i \in 0..n - 1 : /\ deck[i].text = cards[i].text
                                /\ deck[i].authorId \in S
                                /\ deck[i].authorId = viewer <=> cards[i].authorId = viewer
         /\ \A p \in S \ {viewer} : deck[truth[p]].authorId = p
    BY <1>7, <1>9, <1>20, <1>21 DEF buildCards, DealsSo
  <1>23. guessView(deck, viewer) = guessView(cards, viewer)
    <2>1. [i \in DOMAIN deck |-> deck[i].text] = [i \in DOMAIN cards |-> cards[i].text]
      BY <1>3, <1>22
    <2>2. authors(deck) = authors(cards)
      <3>1. \A p : p # viewer =>
              ((\E i \in DOMAIN deck : deck[i].authorId = p) <=> p \in S)
        <4>1. \A p \in S \ {viewer} : truth[p] \in DOMAIN deck /\ deck[truth[p]].authorId = p
          BY <1>15, <1>22
        <4>2. \A i \in DOMAIN deck : deck[i].authorId \in S
          BY <1>22
        <4> QED BY <4>1, <4>2
      <3>2. \A p : (\E i \in DOMAIN cards : cards[i].authorId = p) <=> p \in S
        <4>1. \A p \in S : \E i \in DOMAIN cards : cards[i].authorId = p
          BY <1>3
        <4>2. \A i \in DOMAIN cards : cards[i].authorId \in S
          BY <1>3
        <4> QED BY <4>1, <4>2
      <3>3. (\E i \in DOMAIN deck : deck[i].authorId = viewer)
              <=> (\E i \in DOMAIN cards : cards[i].authorId = viewer)
        BY <1>3, <1>22
      <3>4. \A p : (\E i \in DOMAIN deck : deck[i].authorId = p)
                     <=> (\E i \in DOMAIN cards : cards[i].authorId = p)
        BY <3>1, <3>2, <3>3
      <3> QED BY <3>4 DEF authors
    <2>3. {i \in DOMAIN deck : deck[i].authorId = viewer}
            = {i \in DOMAIN cards : cards[i].authorId = viewer}
      BY <1>3, <1>22
    <2> QED BY <2>1, <2>2, <2>3 DEF guessView
  <1>24. \A p \in writers : deck[truth[p]].authorId = p
    BY <1>13, <1>22
  <1> QED BY <1>16, <1>20, <1>21, <1>23, <1>24

(* While people guess, every way of handing the other cards to the other     *)
(* writers fits the very view a viewer is sent (guessWho.ts:147-161,         *)
(* view.ts:43-60).                                                           *)
THEOREM GuessAuthorsHidden == Spec => []AuthorsHidden
  <1> DEFINE unknown(viewer) == {i \in DOMAIN cards : cards[i].authorId # viewer}
             writers(viewer) == {cards[i].authorId : i \in unknown(viewer)}
  <1>1. ASSUME RoundInv, phase = "guess",
               NEW viewer \in roster \cup {Host},
               NEW truth \in Bijection(writers(viewer), unknown(viewer))
        PROVE  \E salt \in Ranking(roster) :
                 LET deck == buildCards(Rewritten(truth, viewer), salt) IN
                 /\ guessView(deck, viewer) = guessView(cards, viewer)
                 /\ \A p \in writers(viewer) : deck[truth[p]].authorId = p
    <2>1. PICK u, w : u = unknown(viewer) /\ w = writers(viewer)
      OBVIOUS
    <2>2. /\ \A i : i \in u <=> i \in DOMAIN cards /\ cards[i].authorId # viewer
          /\ \A p : p \in w <=> \E i \in u : cards[i].authorId = p
          /\ truth \in Bijection(w, u)
      BY <2>1
    <2>3. \E salt \in Ranking(roster) :
            LET deck == buildCards(Rewritten(truth, viewer), salt) IN
            /\ guessView(deck, viewer) = guessView(cards, viewer)
            /\ \A p \in w : deck[truth[p]].authorId = p
      BY <1>1, <2>2, AnyHandsFitTheView
    <2> QED BY <2>1, <2>3
  <1>2. RoundInv => AuthorsHidden
    BY <1>1 DEF AuthorsHidden, Rewritten
  <1> QED BY <1>2, RoundKept, PTL
=============================================================================
