-------------------------------- MODULE Room --------------------------------
(***************************************************************************)
(* The platform's room: the pure reducer of packages/core/src/room.ts.     *)
(* One action per accepted event of roomReduce.  An event the reducer      *)
(* answers with an error, or with `ok(room)` (a valid token resuming its   *)
(* slot, the same set saved again, an advance in SCORES, an idempotent     *)
(* game event), leaves the room as it is and is a stuttering step.         *)
(*                                                                         *)
(* A game is what the room sees of it through packages/core/src/game.ts:   *)
(* the roster `init` was given and the points `scores` reports now.  Each  *)
(* event a game accepts may change the points of the players it credits,   *)
(* and a leaver may be dropped from them or kept.                          *)
(*                                                                         *)
(* Player ids are numbered in join order, so the order of room.players,    *)
(* which only ever grows at its end, is the order of the ids.              *)
(***************************************************************************)
EXTENDS Integers, FiniteSets

CONSTANTS GameId,        \* the registry's keys
          Nick,          \* lower-cased display nicknames
          Config,        \* host-authored game configs
          Unset,         \* gameConfig: undefined
          NoGame,        \* selectedGameId: null
          MinPlayers,    \* per game
          MaxPlayers,    \* per game
          RoundCount,    \* per game and config
          MAX_PLAYERS,   \* the platform's cap on a room
          MaxId,         \* bound: ids the model mints
          MaxPoints      \* bound: points a game gives a player in a round

ASSUME RoomAssumption ==
  /\ MinPlayers \in [GameId -> Nat \ {0}]
  /\ MaxPlayers \in [GameId -> Nat \ {0}]
  /\ \A g \in GameId : MinPlayers[g] <= MaxPlayers[g] /\ MaxPlayers[g] <= MAX_PLAYERS
  /\ RoundCount \in [GameId \X (Config \cup {Unset}) -> Nat]
  /\ MAX_PLAYERS \in Nat /\ MaxId \in Nat /\ MaxPoints \in Nat
  /\ Unset \notin Config
  /\ NoGame \notin GameId

VARIABLES phase,          \* LOBBY, IN_GAME or SCORES
          players,        \* id -> nickname and spectator flag
          tokens,         \* ids that hold a reconnect secret
          selectedGameId,
          gameState,      \* the roster and the points of the last started round
          closed,
          sessionScores,  \* id -> points over the session's rounds
          round,
          gameConfig,
          scoreLedger,    \* nickname -> points a leaver parked
          minted          \* ids handed out by deps.id()

vars == <<phase, players, tokens, selectedGameId, gameState, closed,
          sessionScores, round, gameConfig, scoreLedger, minted>>

PlayerId == 1..MaxId
Player == [nickname : Nick, spectator : BOOLEAN]

NoEntries == [x \in {} |-> 0]

TypeOK ==
  /\ phase \in {"LOBBY", "IN_GAME", "SCORES"}
  /\ DOMAIN players \subseteq PlayerId
  /\ players \in [DOMAIN players -> Player]
  /\ tokens \subseteq PlayerId
  /\ selectedGameId \in GameId \cup {NoGame}
  /\ gameState.roster \subseteq PlayerId
  /\ DOMAIN gameState.points \subseteq PlayerId
  /\ gameState.points \in [DOMAIN gameState.points -> 0..MaxPoints]
  /\ gameState = [roster |-> gameState.roster, points |-> gameState.points]
  /\ closed \in BOOLEAN
  /\ DOMAIN sessionScores \subseteq PlayerId
  /\ sessionScores \in [DOMAIN sessionScores -> Nat]
  /\ round \in Nat
  /\ gameConfig \in Config \cup {Unset}
  /\ DOMAIN scoreLedger \subseteq Nick
  /\ scoreLedger \in [DOMAIN scoreLedger -> Nat]
  /\ minted \in 0..MaxId

Init ==
  /\ phase = "LOBBY"
  /\ players = NoEntries
  /\ tokens = {}
  /\ selectedGameId = NoGame
  /\ gameState = [roster |-> {}, points |-> NoEntries]
  /\ closed = FALSE
  /\ sessionScores = NoEntries
  /\ round = 0
  /\ gameConfig = Unset
  /\ scoreLedger = NoEntries
  /\ minted = 0

-----------------------------------------------------------------------------
(* rounds.ts *)

omit(record, key) == [k \in DOMAIN record \ {key} |-> record[k]]

Put(record, key, value) ==
  [k \in DOMAIN record \cup {key} |-> IF k = key THEN value ELSE record[k]]

Entry(record, key) == IF key \in DOMAIN record THEN record[key] ELSE 0

OverwriteScores(base, scores) ==
  [p \in DOMAIN base \cup DOMAIN scores |->
     IF p \in DOMAIN scores THEN scores[p] ELSE base[p]]

foldScores(base, scores) ==
  [p \in DOMAIN base \cup DOMAIN scores |-> Entry(base, p) + Entry(scores, p)]

(* A player's index in room.players, and the first index of a round's window. *)
SeatIndex(p) == Cardinality({q \in DOMAIN players : q < p})
StuckOffset(n, maxPlayers, r) == 0
Offset(n, maxPlayers, r) == IF n > maxPlayers THEN ((r - 1) * maxPlayers) % n ELSE 0

UnwrappedWindow(maxPlayers, r) ==
  [p \in DOMAIN players |->
     [players[p] EXCEPT !.spectator =
        LET i == SeatIndex(p) - Offset(Cardinality(DOMAIN players), maxPlayers, r)
        IN  i < 0 \/ i >= maxPlayers]]

seatWindow(maxPlayers, r) ==
  LET n == Cardinality(DOMAIN players)
  IN  [p \in DOMAIN players |->
         [players[p] EXCEPT !.spectator =
            (SeatIndex(p) - Offset(n, maxPlayers, r) + n) % n >= maxPlayers]]

-----------------------------------------------------------------------------
(* room.ts: helpers *)

UnfilteredScores(state) == state.points
roundScores(state) ==
  [p \in DOMAIN state.points \cap DOMAIN players |-> state.points[p]]

(* The states a game may be in after playerLeft: the leaver is credited no   *)
(* more, or the game keeps it in its roster.                                 *)
GameAfterLeave(p) ==
  {gameState, [gameState EXCEPT !.points = omit(gameState.points, p)]}

InGame == phase = "IN_GAME"

-----------------------------------------------------------------------------
(* room.ts: roomReduce, one action per event *)

(* A joiner's seat, the score it starts with and the slot that score uses up. *)
(* Each operator that breaks something is a slip the code avoids, and stands  *)
(* before the definition it would replace.                                    *)
SeatInAnyRound(nick) == [nickname |-> nick, spectator |-> FALSE]
SeatFor(nick) == [nickname |-> nick, spectator |-> InGame]

ReclaimedOrUndefined(id, nick) ==
  Put(sessionScores, id, IF nick \in DOMAIN scoreLedger THEN scoreLedger[nick] ELSE Unset)
Reclaimed(id, nick) ==
  IF nick \in DOMAIN scoreLedger
  THEN Put(sessionScores, id, scoreLedger[nick])
  ELSE sessionScores

SlotKept(nick) == scoreLedger
SlotUsed(nick) == omit(scoreLedger, nick)

(* A join without a valid token.  A game is told of the new player but seats *)
(* it in no round that is running.                                           *)
Join(nick) ==
  LET id == minted + 1
  IN  /\ Cardinality(DOMAIN players) < MAX_PLAYERS
      /\ minted < MaxId
      /\ minted' = id
      /\ players' = Put(players, id, SeatFor(nick))
      /\ tokens' = tokens \cup {id}
      /\ sessionScores' = Reclaimed(id, nick)
      /\ scoreLedger' = SlotUsed(nick)
      /\ UNCHANGED <<phase, selectedGameId, gameState, closed, round, gameConfig>>

TokensKept(p) == tokens
TokensWithout(p) == tokens \ {p}

Leave(p) ==
  /\ p \in DOMAIN players
  /\ players' = omit(players, p)
  /\ tokens' = TokensWithout(p)
  /\ sessionScores' = omit(sessionScores, p)
  /\ scoreLedger' =
       IF p \in DOMAIN sessionScores
       THEN Put(scoreLedger, players[p].nickname, sessionScores[p])
       ELSE scoreLedger
  /\ IF InGame THEN gameState' \in GameAfterLeave(p) ELSE gameState' = gameState
  /\ UNCHANGED <<phase, selectedGameId, closed, round, gameConfig, minted>>

HostLeave ==
  /\ closed' = TRUE
  /\ UNCHANGED <<phase, players, tokens, selectedGameId, gameState,
                 sessionScores, round, gameConfig, scoreLedger, minted>>

(* gameState is left alone: the last round's, maybe of another game. *)
SelectGame(g) ==
  /\ ~InGame
  /\ phase' = "LOBBY"
  /\ selectedGameId' = g
  /\ round' = 0
  /\ sessionScores' = NoEntries
  /\ scoreLedger' = NoEntries
  /\ gameConfig' = IF g = selectedGameId THEN gameConfig ELSE Unset
  /\ UNCHANGED <<players, tokens, gameState, closed, minted>>

ConfigureGameKeepingTheRound(c) ==
  /\ ~InGame
  /\ c # gameConfig
  /\ gameConfig' = c
  /\ sessionScores' = NoEntries
  /\ UNCHANGED <<phase, players, tokens, selectedGameId, gameState, closed,
                 scoreLedger, minted, round>>

(* A changed set.  The phase and the parked scores stay. *)
ConfigureGame(c) ==
  /\ ~InGame
  /\ c # gameConfig
  /\ gameConfig' = c
  /\ round' = 0
  /\ sessionScores' = NoEntries
  /\ UNCHANGED <<phase, players, tokens, selectedGameId, gameState, closed,
                 scoreLedger, minted>>

RoundsLeft(g) == round < RoundCount[<<g, gameConfig>>]

StartGame ==
  /\ ~InGame
  /\ selectedGameId \in GameId
  /\ Cardinality(DOMAIN players) >= MinPlayers[selectedGameId]
  /\ RoundsLeft(selectedGameId)
  /\ round' = round + 1
  /\ players' = seatWindow(MaxPlayers[selectedGameId], round + 1)
  /\ LET active == {p \in DOMAIN players : ~players'[p].spectator}
     IN  gameState' = [roster |-> active, points |-> [p \in active |-> 0]]
  /\ phase' = "IN_GAME"
  /\ UNCHANGED <<tokens, selectedGameId, closed, sessionScores, gameConfig, scoreLedger, minted>>

(* The game's reduce moved its points, or completed the round, which folds   *)
(* the scores of the new state.  A move that changes no score is a stutter   *)
(* of the room; roster types from a client are refused.                      *)
GameEvent(points, complete) ==
  /\ InGame
  /\ points # gameState.points \/ complete
  /\ gameState' = [gameState EXCEPT !.points = points]
  /\ phase' = IF complete THEN "SCORES" ELSE "IN_GAME"
  /\ sessionScores' =
       IF complete THEN foldScores(sessionScores, roundScores(gameState')) ELSE sessionScores
  /\ UNCHANGED <<players, tokens, selectedGameId, closed, round, gameConfig, scoreLedger, minted>>

InAnyPhase == TRUE
RoundRunning == InGame

EndGame ==
  /\ RoundRunning
  /\ phase' = "SCORES"
  /\ sessionScores' = foldScores(sessionScores, roundScores(gameState))
  /\ UNCHANGED <<players, tokens, selectedGameId, gameState, closed, round,
                 gameConfig, scoreLedger, minted>>

Next ==
  \/ \E nick \in Nick : Join(nick)
  \/ \E p \in PlayerId : Leave(p)
  \/ HostLeave
  \/ \E g \in GameId : SelectGame(g)
  \/ \E c \in Config \cup {Unset} : ConfigureGame(c)
  \/ StartGame
  \/ \E points \in [DOMAIN gameState.points -> 0..MaxPoints], complete \in BOOLEAN :
       GameEvent(points, complete)
  \/ EndGame

Spec == Init /\ [][Next]_vars

-----------------------------------------------------------------------------
(* Only a seated player has a session score and a reconnect secret: `leave`  *)
(* prunes both, and no fold of a round brings a departed id back into the    *)
(* tally (room.ts:267-275), whatever the game still credits.                 *)
ScoresSeated == DOMAIN sessionScores \subseteq DOMAIN players
TokensSeated == tokens = DOMAIN players

(* While a round runs, every seated player who does not spectate is in the   *)
(* roster the game was started with: nobody is shown a round as a player     *)
(* that the game does not know (E2).                                         *)
PlayersInRound ==
  InGame => \A p \in DOMAIN players : p \in gameState.roster <=> ~players[p].spectator
=============================================================================
