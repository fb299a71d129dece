---------------------------- MODULE GuessScreens ----------------------------
(***************************************************************************)
(* What the board and the phones make of a round of Guess Who Said It (web *)
(* games/guessWho): how far the room has got, what a phone can be used to  *)
(* send, what the host's button does, and the verdict at the reveal.  A    *)
(* screen knows its own view of the game, and of the room who is seated    *)
(* and no spectator: in a round those are the players dealt in who are     *)
(* still here (RoomProofs, PlayersInRound).                                *)
(***************************************************************************)
EXTENDS GuessWho

collectView(viewer) ==
  [submitted |-> IF viewer = Host THEN resolved ELSE {},
   submittedCount |-> Cardinality(resolved), total |-> total,
   youSubmitted |-> viewer \in DOMAIN drafts, youSkipped |-> viewer \in skipped]

revealView(viewer) ==
  [cards |-> cards, scores |-> tally,
   myGuesses |-> {<<g[2], guesses[g]>> : g \in {h \in DOMAIN guesses : h[1] = viewer}}]

-----------------------------------------------------------------------------
(* The board: its chips, one for each seated player, and its button.         *)
seatedIds == roster \ left

actedIds ==
  IF phase = "collect" THEN collectView(Host).submitted ELSE guessView(cards, Host).guessed

ActedProgress ==
  [count |-> Cardinality(seatedIds \cap actedIds), total |-> Cardinality(seatedIds)]

guessWhoStep == IF phase = "reveal" THEN {} ELSE {phase}

-----------------------------------------------------------------------------
(* A phone: what it shows, and the events its buttons send.                  *)
CollectPhone(p) ==
  LET v == collectView(p) IN
  IF v.youSubmitted \/ v.youSkipped THEN {}
  ELSE {[type |-> "submit", text |-> t] : t \in Text} \cup {[type |-> "skip"]}

PhoneProgress(p) ==
  [count |-> collectView(p).submittedCount, total |-> collectView(p).total]

OwnCardToo(v) == DOMAIN v.cards
guessable(v) == DOMAIN v.cards \ v.yourCardId

GuessPhone(p) ==
  LET v == guessView(cards, p) IN
  {[type |-> "guess", cardId |-> i, author |-> a] :
     i \in guessable(v), a \in v.candidates \ {p}}

(* Of the other cards the ticked ones, the crossed ones and the rest.        *)
RevealPhone(p) ==
  LET v == revealView(p)
      others == {i \in DOMAIN v.cards : v.cards[i].authorId # p}
      ticked == {i \in others : <<i, v.cards[i].authorId>> \in v.myGuesses}
      named == {i \in others : \E a \in roster : <<i, a>> \in v.myGuesses}
  IN  [points |-> v.scores[p], ticked |-> ticked, crossed |-> named \ ticked,
       unnamed |-> others \ named]

Phone(p) ==
  CASE phase = "collect" -> CollectPhone(p)
    [] phase = "guess" -> GuessPhone(p)
    [] phase = "reveal" -> {}

Takes(p, e) ==
  CASE e.type \in {"submit", "skip"} -> MayAnswer(p)
    [] e.type = "guess" -> MayGuess(p, e.cardId, e.author)

-----------------------------------------------------------------------------
(* A screen that has caught up with the round is in step with it: no button  *)
(* of a phone sends what the game refuses, every card of somebody else can   *)
(* be given its true author, whoever has left, nobody is offered who left    *)
(* without a card, and at the reveal the phone's ticks are its points; the   *)
(* host's button is taken too (PlayerView.tsx:131-200, 210-250;              *)
(* guessWho.ts:117-155; authors.ts:4-11; scoring.ts:4-19).                   *)
PhoneInStep ==
  /\ \A p \in roster \ left :
       /\ \A e \in Phone(p) : Takes(p, e)
       /\ phase = "guess" => \A i \in DOMAIN cards :
            cards[i].authorId # p =>
              [type |-> "guess", cardId |-> i, author |-> cards[i].authorId] \in Phone(p)
       /\ \A e \in Phone(p) : e.type = "guess" /\ e.author \in left =>
            \E i \in DOMAIN cards : cards[i].authorId = e.author
       /\ phase = "reveal" => Cardinality(RevealPhone(p).ticked) = RevealPhone(p).points
  /\ guessWhoStep = {} <=> isComplete

(* The screens say "everyone is done" when, and only when, everyone still    *)
(* here has answered or skipped: the board, which counts who is seated, and  *)
(* the phones, which count who was dealt in, agree on it whoever left at     *)
(* whatever point (view.ts:21-37, progressChips.tsx:87-102).                 *)
ProgressExact ==
  phase = "collect" =>
    /\ ActedProgress.count = ActedProgress.total <=> roster \ left \subseteq resolved
    /\ \A p \in roster \ left :
         /\ PhoneProgress(p).count <= PhoneProgress(p).total
         /\ PhoneProgress(p).count = PhoneProgress(p).total
              <=> ActedProgress.count = ActedProgress.total
=============================================================================
