------------------------------ MODULE GuessWho ------------------------------
(***************************************************************************)
(* One round of Guess Who Said It (packages/games/src/guessWho).  Everyone *)
(* dealt in answers a prompt, the answers become anonymous cards, everyone *)
(* guesses whose each card is, and the truth is shown.  One action per     *)
(* event the reducer accepts; refused events, and those it answers with    *)
(* the same state, are stuttering steps.                                   *)
(*                                                                         *)
(* Events come through the room: an actor is seated (its id was stamped by *)
(* the session), a leave is forwarded once, and nothing is forwarded once  *)
(* the round is complete.  Answers are what boundedText leaves of them,    *)
(* numbered in the order localeCompare puts them in.                       *)
(***************************************************************************)
EXTENDS Integers, FiniteSets, Functions

CONSTANTS Player, Host,
          Text,           \* answers, in their order
          MinPlayers,
          MaxGuesses      \* bound: guesses on record

ASSUME GuessWhoAssumption ==
  /\ IsFiniteSet(Player) /\ Host \notin Player
  /\ Text \subseteq Nat
  /\ MinPlayers \in Nat \ {0} /\ MaxGuesses \in Nat

VARIABLES phase,      \* collect, guess or reveal
          roster,     \* the players `init` was handed
          drafts,     \* player -> answer
          skipped,    \* players who chose not to answer
          cards,      \* card id -> text and author
          guesses,    \* guesser and card id -> the author named
          left,       \* dealt in, and gone since
          tie         \* the order the salted hash puts the ids in

vars == <<phase, roster, drafts, skipped, cards, guesses, left, tie>>

NoEntries == [x \in {} |-> 0]
Put(f, k, v) == [x \in DOMAIN f \cup {k} |-> IF x = k THEN v ELSE f[x]]
CardId == 0..Cardinality(Player) - 1

(* fnv1a of `salt:id`, up to collisions of the 32-bit hash. *)
Ranking(S) == Bijection(S, 1..Cardinality(S))

TypeOK ==
  /\ phase \in {"collect", "guess", "reveal"}
  /\ roster \subseteq Player
  /\ DOMAIN drafts \subseteq roster /\ drafts \in [DOMAIN drafts -> Text]
  /\ skipped \subseteq roster
  /\ DOMAIN cards \subseteq CardId
  /\ cards \in [DOMAIN cards -> [text : Text, authorId : roster]]
  /\ DOMAIN guesses \subseteq roster \X DOMAIN cards
  /\ guesses \in [DOMAIN guesses -> roster]
  /\ left \subseteq roster
  /\ tie \in Ranking(roster)

Init ==
  /\ phase = "collect"
  /\ roster \in {S \in SUBSET Player : Cardinality(S) >= MinPlayers}
  /\ tie \in Ranking(roster)
  /\ drafts = NoEntries /\ skipped = {}
  /\ cards = NoEntries /\ guesses = NoEntries
  /\ left = {}

-----------------------------------------------------------------------------
(* buildCards: the answers in order, equal ones as the ranking has it.       *)
CardsInOrder(answers, ranking) ==
  LET before(p) ==
        {q \in DOMAIN answers :
           answers[q] < answers[p] \/ (answers[q] = answers[p] /\ ranking[q] < ranking[p])}
      at(i) == CHOOSE p \in DOMAIN answers : Cardinality(before(p)) = i
  IN  [i \in 0..Cardinality(DOMAIN answers) - 1 |->
         [text |-> answers[at(i)], authorId |-> at(i)]]

ById == CHOOSE ranking \in Ranking(Player) : TRUE
CardsTiedById(answers, salt) == CardsInOrder(answers, ById)
buildCards(answers, salt) == CardsInOrder(answers, salt)

(* Who can be named: those still here, and whoever left a card behind. *)
authors(deck) ==
  {p \in roster : p \notin left \/ \E i \in DOMAIN deck : deck[i].authorId = p}

-----------------------------------------------------------------------------
(* The reducer. *)

MayAct(p) == p \in roster \ left

MayAnswer(p) == phase = "collect" /\ MayAct(p)
MayGuess(p, i, author) ==
  /\ phase = "guess" /\ MayAct(p)
  /\ cards[i].authorId # p /\ author \in authors(cards)

Submit(p, text) ==
  /\ MayAnswer(p)
  /\ drafts' = Put(drafts, p, text)
  /\ UNCHANGED <<phase, roster, skipped, cards, guesses, left, tie>>

Skip(p) ==
  /\ MayAnswer(p)
  /\ skipped' = skipped \cup {p}
  /\ UNCHANGED <<phase, roster, drafts, cards, guesses, left, tie>>

Guess(p, i, author) ==
  /\ MayGuess(p, i, author)
  /\ guesses' = Put(guesses, <<p, i>>, author)
  /\ Cardinality(DOMAIN guesses') <= MaxGuesses
  /\ UNCHANGED <<phase, roster, drafts, skipped, cards, left, tie>>

(* The host's advance, naming the phase it was tapped in. *)
Advance(from) ==
  /\ from = phase
  /\ \/ /\ phase = "collect" /\ phase' = "guess"
        /\ cards' = buildCards(drafts, tie)
     \/ /\ phase = "guess" /\ phase' = "reveal"
        /\ UNCHANGED cards
  /\ UNCHANGED <<roster, drafts, skipped, guesses, left, tie>>

(* departed: only who was dealt in forfeits anything; spectators leave too. *)
DepartedAnybody(p) == left \cup {p}
departed(p) == left \cup ({p} \cap roster)

PlayerLeftWithCard(p) ==
  /\ phase # "reveal" /\ p \notin left
  /\ left' = departed(p)
  /\ cards' = [i \in {j \in DOMAIN cards : cards[j].authorId # p} |-> cards[i]]
  /\ UNCHANGED <<phase, roster, drafts, skipped, guesses, tie>>

(* The card stays guessable, and what the leaver guessed stays on record.    *)
PlayerLeft(p) ==
  /\ phase # "reveal" /\ p \notin left
  /\ left' = departed(p)
  /\ UNCHANGED <<phase, roster, drafts, skipped, cards, guesses, tie>>

Next ==
  \/ \E p \in Player :
       \/ \E text \in Text : Submit(p, text)
       \/ Skip(p)
       \/ \E i \in DOMAIN cards, author \in Player : Guess(p, i, author)
       \/ PlayerLeft(p)
  \/ \E from \in {"collect", "guess"} : Advance(from)

Spec == Init /\ [][Next]_vars

-----------------------------------------------------------------------------
(* scores, isComplete and the views. *)

Right(p) ==
  {i \in DOMAIN cards :
     <<p, i>> \in DOMAIN guesses /\ guesses[<<p, i>>] = cards[i].authorId}
tally == [p \in roster \ left |-> Cardinality(Right(p))]
isComplete == phase = "reveal"

(* The collect view's progress. *)
resolved == DOMAIN drafts \cup skipped
totalDealtIn == Cardinality(roster)
total == Cardinality(roster) - Cardinality(left \ resolved)

(* What a viewer of the guess phase is sent, over a deck: cards without      *)
(* their authors, whom to name, and of guesses the viewer's own, or for the  *)
(* host who has guessed.                                                     *)
guessView(deck, viewer) ==
  [cards |-> [i \in DOMAIN deck |-> deck[i].text],
   candidates |-> authors(deck),
   guessed |-> IF viewer = Host THEN {g[1] : g \in DOMAIN guesses} ELSE {},
   myGuesses |-> {<<g[2], guesses[g]>> : g \in {h \in DOMAIN guesses : h[1] = viewer}},
   yourCardId |-> {i \in DOMAIN deck : deck[i].authorId = viewer}]

-----------------------------------------------------------------------------
(* While people guess, nothing the server sent gives an author away: whoever *)
(* looks, each way of handing the other cards to the other writers could be  *)
(* the truth behind the very same view, equal answers included               *)
(* (guessWho.ts:147-161, view.ts:43-60).                                     *)
AuthorsHidden ==
  phase = "guess" =>
    \A viewer \in roster \cup {Host} :
      LET unknown == {i \in DOMAIN cards : cards[i].authorId # viewer}
          writers == {cards[i].authorId : i \in unknown}
      IN  \A truth \in Bijection(writers, unknown) :
            \E salt \in Ranking(roster) :
              LET answers == [p \in DOMAIN drafts |->
                                IF p = viewer THEN drafts[p] ELSE cards[truth[p]].text]
                  deck == buildCards(answers, salt)
              IN  /\ guessView(deck, viewer) = guessView(cards, viewer)
                  /\ \A p \in writers : deck[truth[p]].authorId = p

(* It is a game as the room needs it: at most one point for each other       *)
(* player, a leaver drops out and moves nobody else's points, and only an    *)
(* event of the game completes the round (game.ts:36-52, room.ts:235-242).   *)
G == INSTANCE RoundGame WITH
       MaxPoints <- Cardinality(Player) - 1, points <- tally, complete <- isComplete
ImplementsGame == G!GameSpec
=============================================================================
