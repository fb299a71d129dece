----------------------------- MODULE RoomProofs -----------------------------
(***************************************************************************)
(* Proofs about the room of Room.tla and about what is watched in it: the  *)
(* tally and the standings (RoomTally.tla, Standings.tla) and the seating  *)
(* of its rounds (RoomSeating.tla), for every set of games, nicknames and  *)
(* configs and every value of the bounds.                                  *)
(***************************************************************************)
EXTENDS Standings, RoomSeating, FiniteSetTheorems, FunctionTheorems, SequenceTheorems,
        WellFoundedInduction, TLAPS

-----------------------------------------------------------------------------
(* The room.                                                                 *)

(* An id is minted once: everybody seated, and everybody a round was dealt   *)
(* to, holds an id handed out before.  A joiner's id is therefore in no      *)
(* running round, which is what PlayersInRound rests on.                     *)
IdsMinted ==
  /\ DOMAIN players \subseteq 1..minted
  /\ gameState.roster \subseteq 1..minted

IInv == TypeOK /\ IdsMinted /\ ScoresSeated /\ TokensSeated /\ PlayersInRound

(* Adding an entry to a record, and dropping one.                            *)
LEMMA PutType ==
  ASSUME NEW T, NEW f, f \in [DOMAIN f -> T], NEW k, NEW v \in T
  PROVE  Put(f, k, v) \in [DOMAIN Put(f, k, v) -> T]
  BY DEF Put

LEMMA OmitType ==
  ASSUME NEW T, NEW f, f \in [DOMAIN f -> T], NEW k
  PROVE  /\ DOMAIN omit(f, k) = DOMAIN f \ {k}
         /\ omit(f, k) \in [DOMAIN omit(f, k) -> T]
         /\ \A x \in DOMAIN f \ {k} : omit(f, k)[x] = f[x]
  BY DEF omit

(* A fold keeps the tally a record of numbers, over the players of both.     *)
LEMMA FoldType ==
  ASSUME NEW f, f \in [DOMAIN f -> Nat], NEW g, g \in [DOMAIN g -> Nat]
  PROVE  /\ DOMAIN foldScores(f, g) = DOMAIN f \cup DOMAIN g
         /\ foldScores(f, g) \in [DOMAIN foldScores(f, g) -> Nat]
  <1>1. \A p \in DOMAIN f \cup DOMAIN g : Entry(f, p) \in Nat /\ Entry(g, p) \in Nat
    BY DEF Entry
  <1> QED BY <1>1 DEF foldScores

LEMMA InitIInv == Init => IInv
  <1> SUFFICES ASSUME Init PROVE IInv
    OBVIOUS
  <1>1. DOMAIN NoEntries = {} /\ \A T : NoEntries \in [{} -> T]
    BY DEF NoEntries
  <1>2. gameState.roster = {} /\ gameState.points = NoEntries
    BY DEF Init
  <1>3. TypeOK
    <2>1. /\ players = NoEntries /\ sessionScores = NoEntries /\ scoreLedger = NoEntries
          /\ gameState = [roster |-> {}, points |-> NoEntries]
          /\ phase = "LOBBY" /\ tokens = {} /\ selectedGameId = NoGame /\ closed = FALSE
          /\ round = 0 /\ gameConfig = Unset /\ minted = 0
      BY DEF Init
    <2>2. /\ players \in [DOMAIN players -> Player] /\ DOMAIN players = {}
          /\ sessionScores \in [DOMAIN sessionScores -> Nat] /\ DOMAIN sessionScores = {}
          /\ scoreLedger \in [DOMAIN scoreLedger -> Nat] /\ DOMAIN scoreLedger = {}
          /\ gameState.points \in [DOMAIN gameState.points -> 0..MaxPoints]
          /\ DOMAIN gameState.points = {}
      BY <1>1, <1>2, <2>1
    <2>3. gameState = [roster |-> gameState.roster, points |-> gameState.points]
      BY <1>2, <2>1
    <2>4. minted \in 0..MaxId
      BY <2>1, RoomAssumption
    <2> QED BY <1>2, <2>1, <2>2, <2>3, <2>4 DEF TypeOK
  <1>4. IdsMinted /\ ScoresSeated /\ TokensSeated /\ PlayersInRound
    BY <1>1, <1>2 DEF Init, IdsMinted, ScoresSeated, TokensSeated, PlayersInRound, InGame
  <1> QED BY <1>3, <1>4 DEF IInv

LEMMA JoinIInv ==
  ASSUME IInv, NEW nick \in Nick, Join(nick)
  PROVE  IInv'
  <1> DEFINE id == minted + 1
             new == SeatFor(nick)
  <1>1. id \in PlayerId /\ id \notin DOMAIN players /\ id \notin gameState.roster
    BY RoomAssumption DEF IInv, TypeOK, IdsMinted, Join, PlayerId
  <1>2. /\ new \in Player
        /\ players' = Put(players, id, new)
        /\ tokens' = tokens \cup {id} /\ minted' = id
    BY DEF Join, SeatFor, Player, InGame
  <1>3. /\ DOMAIN players' = DOMAIN players \cup {id}
        /\ players' \in [DOMAIN players' -> Player]
        /\ players'[id] = new
        /\ \A p \in DOMAIN players : players'[p] = players[p]
    <2>1. players \in [DOMAIN players -> Player]
      BY DEF IInv, TypeOK
    <2>2. /\ DOMAIN Put(players, id, new) = DOMAIN players \cup {id}
          /\ Put(players, id, new)[id] = new
          /\ \A p \in DOMAIN players \ {id} : Put(players, id, new)[p] = players[p]
      BY DEF Put
    <2>3. Put(players, id, new) \in [DOMAIN Put(players, id, new) -> Player]
      BY <1>2, <2>1, PutType
    <2> QED BY <1>1, <1>2, <2>2, <2>3
  <1>4. /\ DOMAIN sessionScores' \subseteq DOMAIN sessionScores \cup {id}
        /\ sessionScores' \in [DOMAIN sessionScores' -> Nat]
    <2>1. CASE nick \in DOMAIN scoreLedger
      <3>1. scoreLedger[nick] \in Nat
        BY <2>1 DEF IInv, TypeOK
      <3>2. sessionScores' = Put(sessionScores, id, scoreLedger[nick])
        BY <2>1 DEF Join, Reclaimed
      <3>3. sessionScores \in [DOMAIN sessionScores -> Nat]
        BY DEF IInv, TypeOK
      <3> QED BY <3>1, <3>2, <3>3, PutType DEF Put
    <2>2. CASE nick \notin DOMAIN scoreLedger
      BY <2>2 DEF IInv, TypeOK, Join, Reclaimed
    <2> QED BY <2>1, <2>2
  <1>5. /\ DOMAIN scoreLedger' \subseteq Nick
        /\ scoreLedger' \in [DOMAIN scoreLedger' -> Nat]
    BY OmitType DEF IInv, TypeOK, Join, SlotUsed
  <1>6. UNCHANGED <<phase, selectedGameId, gameState, closed, round, gameConfig>>
    BY DEF Join
  <1>7. TypeOK'
    BY <1>1, <1>2, <1>3, <1>4, <1>5, <1>6, RoomAssumption DEF IInv, TypeOK, PlayerId
  <1>8. IdsMinted'
    BY <1>2, <1>3, <1>6, RoomAssumption DEF IInv, TypeOK, IdsMinted
  <1>9. ScoresSeated' /\ TokensSeated'
    BY <1>2, <1>3, <1>4 DEF IInv, ScoresSeated, TokensSeated
  <1>10. PlayersInRound'
    <2>1. new.spectator = InGame
      BY DEF SeatFor
    <2> QED BY <1>1, <1>3, <1>6, <2>1 DEF IInv, PlayersInRound, InGame
  <1> QED BY <1>7, <1>8, <1>9, <1>10 DEF IInv

LEMMA LeaveIInv ==
  ASSUME IInv, NEW p \in PlayerId, Leave(p)
  PROVE  IInv'
  <1>1. /\ DOMAIN players' = DOMAIN players \ {p}
        /\ players' \in [DOMAIN players' -> Player]
        /\ \A q \in DOMAIN players' : players'[q] = players[q]
    <2>1. players' = omit(players, p)
      BY DEF Leave
    <2>2. players \in [DOMAIN players -> Player]
      BY DEF IInv, TypeOK
    <2>3. /\ DOMAIN omit(players, p) = DOMAIN players \ {p}
          /\ omit(players, p) \in [DOMAIN omit(players, p) -> Player]
          /\ \A q \in DOMAIN players \ {p} : omit(players, p)[q] = players[q]
      BY <2>2, OmitType
    <2> QED BY <2>1, <2>3
  <1>2. /\ DOMAIN sessionScores' = DOMAIN sessionScores \ {p}
        /\ sessionScores' \in [DOMAIN sessionScores' -> Nat]
    BY OmitType DEF IInv, TypeOK, Leave
  <1>3. /\ DOMAIN scoreLedger' \subseteq Nick
        /\ scoreLedger' \in [DOMAIN scoreLedger' -> Nat]
    <2>1. CASE p \in DOMAIN sessionScores
      <3>1. players[p].nickname \in Nick /\ sessionScores[p] \in Nat
        BY <2>1 DEF IInv, TypeOK, Leave, Player
      <3>2. scoreLedger' = Put(scoreLedger, players[p].nickname, sessionScores[p])
        BY <2>1 DEF Leave
      <3>3. scoreLedger \in [DOMAIN scoreLedger -> Nat] /\ DOMAIN scoreLedger \subseteq Nick
        BY DEF IInv, TypeOK
      <3> QED BY <3>1, <3>2, <3>3, PutType DEF Put
    <2>2. CASE p \notin DOMAIN sessionScores
      BY <2>2 DEF IInv, TypeOK, Leave
    <2> QED BY <2>1, <2>2
  <1>4. /\ gameState'.roster = gameState.roster
        /\ DOMAIN gameState'.points \subseteq PlayerId
        /\ gameState'.points \in [DOMAIN gameState'.points -> 0..MaxPoints]
        /\ gameState' = [roster |-> gameState'.roster, points |-> gameState'.points]
    <2>1. CASE gameState' = gameState
      BY <2>1 DEF IInv, TypeOK
    <2>2. CASE gameState' = [gameState EXCEPT !.points = omit(gameState.points, p)]
      <3>1. /\ gameState = [roster |-> gameState.roster, points |-> gameState.points]
            /\ gameState.points \in [DOMAIN gameState.points -> 0..MaxPoints]
            /\ DOMAIN gameState.points \subseteq PlayerId
        BY DEF IInv, TypeOK
      <3>2. gameState' = [roster |-> gameState.roster, points |-> omit(gameState.points, p)]
        BY <2>2, <3>1
      <3>3. /\ omit(gameState.points, p) \in [DOMAIN omit(gameState.points, p) -> 0..MaxPoints]
            /\ DOMAIN omit(gameState.points, p) = DOMAIN gameState.points \ {p}
        BY <3>1, OmitType
      <3>4. gameState'.roster = gameState.roster /\ gameState'.points = omit(gameState.points, p)
        BY <3>2
      <3> QED BY <3>1, <3>2, <3>3, <3>4
    <2> QED BY <2>1, <2>2 DEF Leave, GameAfterLeave
  <1>5. /\ tokens' = tokens \ {p}
        /\ UNCHANGED <<phase, selectedGameId, closed, round, gameConfig, minted>>
    BY DEF Leave, TokensWithout
  <1>6. TypeOK'
    BY <1>1, <1>2, <1>3, <1>4, <1>5 DEF IInv, TypeOK
  <1>7. IdsMinted' /\ ScoresSeated' /\ TokensSeated'
    BY <1>1, <1>2, <1>4, <1>5 DEF IInv, IdsMinted, ScoresSeated, TokensSeated
  <1>8. PlayersInRound'
    BY <1>1, <1>4, <1>5 DEF IInv, PlayersInRound, InGame
  <1> QED BY <1>6, <1>7, <1>8 DEF IInv

LEMMA HostLeaveIInv ==
  ASSUME IInv, HostLeave
  PROVE  IInv'
  BY DEF IInv, HostLeave, TypeOK, IdsMinted, ScoresSeated, TokensSeated, PlayersInRound, InGame

(* A new session, of a picked game or of a changed set.                      *)
LEMMA NewSessionIInv ==
  ASSUME IInv,
         ~InGame, phase' \in {"LOBBY", "SCORES"}, round' = 0,
         sessionScores' = NoEntries,
         scoreLedger' \in {NoEntries, scoreLedger},
         selectedGameId' \in GameId \cup {NoGame},
         gameConfig' \in Config \cup {Unset},
         UNCHANGED <<players, tokens, gameState, closed, minted>>
  PROVE  IInv'
  <1>1. DOMAIN NoEntries = {} /\ NoEntries \in [{} -> Nat]
    BY DEF NoEntries
  <1>2. /\ DOMAIN sessionScores' = {} /\ sessionScores' \in [DOMAIN sessionScores' -> Nat]
        /\ DOMAIN scoreLedger' \subseteq Nick /\ scoreLedger' \in [DOMAIN scoreLedger' -> Nat]
    BY <1>1 DEF IInv, TypeOK
  <1>3. TypeOK'
    BY <1>2 DEF IInv, TypeOK
  <1> QED BY <1>2, <1>3 DEF IInv, IdsMinted, ScoresSeated, TokensSeated, PlayersInRound, InGame

LEMMA SelectGameIInv ==
  ASSUME IInv, NEW g \in GameId, SelectGame(g)
  PROVE  IInv'
  BY NewSessionIInv DEF SelectGame, IInv, TypeOK

LEMMA ConfigureGameIInv ==
  ASSUME IInv, NEW c \in Config \cup {Unset}, ConfigureGame(c)
  PROVE  IInv'
  BY NewSessionIInv DEF ConfigureGame, InGame, IInv, TypeOK

LEMMA StartGameIInv ==
  ASSUME IInv, StartGame
  PROVE  IInv'
  <1> DEFINE active == {p \in DOMAIN players : ~players'[p].spectator}
  <1>1. /\ DOMAIN players' = DOMAIN players
        /\ players' \in [DOMAIN players' -> Player]
    <2>1. players' = seatWindow(MaxPlayers[selectedGameId], round + 1)
      BY DEF StartGame
    <2>2. players \in [DOMAIN players -> Player]
      BY DEF IInv, TypeOK
    <2> DEFINE n == Cardinality(DOMAIN players)
               out(p) == (SeatIndex(p) - Offset(n, MaxPlayers[selectedGameId], round + 1) + n) % n
                           >= MaxPlayers[selectedGameId]
    <2>3. players' = [p \in DOMAIN players |-> [players[p] EXCEPT !.spectator = out(p)]]
      BY <2>1 DEF seatWindow
    <2>4. ASSUME NEW p \in DOMAIN players
          PROVE  [players[p] EXCEPT !.spectator = out(p)] \in Player
      <3>1. out(p) \in BOOLEAN
        OBVIOUS
      <3> HIDE DEF out
      <3> QED BY <2>2, <3>1 DEF Player
    <2> HIDE DEF out
    <2> QED BY <2>3, <2>4
  <1>2. /\ gameState' = [roster |-> active, points |-> [p \in active |-> 0]]
        /\ phase' = "IN_GAME" /\ round' = round + 1
        /\ UNCHANGED <<tokens, selectedGameId, closed, sessionScores, gameConfig, scoreLedger, minted>>
    BY DEF StartGame
  <1>3. /\ gameState'.roster = active /\ DOMAIN gameState'.points = active
        /\ gameState'.points \in [DOMAIN gameState'.points -> 0..MaxPoints]
    BY <1>2, RoomAssumption
  <1>4. TypeOK'
    BY <1>1, <1>2, <1>3 DEF IInv, TypeOK
  <1>5. IdsMinted' /\ ScoresSeated' /\ TokensSeated'
    BY <1>1, <1>2, <1>3 DEF IInv, IdsMinted, ScoresSeated, TokensSeated
  <1>6. PlayersInRound'
    BY <1>1, <1>3 DEF PlayersInRound
  <1> QED BY <1>4, <1>5, <1>6 DEF IInv

(* What the room folds is a record of numbers over seated players.           *)
LEMMA RoundScoresType ==
  ASSUME NEW state, state.points \in [DOMAIN state.points -> 0..MaxPoints]
  PROVE  /\ DOMAIN roundScores(state) \subseteq DOMAIN players
         /\ roundScores(state) \in [DOMAIN roundScores(state) -> Nat]
  BY RoomAssumption DEF roundScores

LEMMA FoldIInv ==
  ASSUME IInv, NEW state, state.points \in [DOMAIN state.points -> 0..MaxPoints]
  PROVE  /\ DOMAIN foldScores(sessionScores, roundScores(state)) \subseteq DOMAIN players
         /\ foldScores(sessionScores, roundScores(state))
              \in [DOMAIN foldScores(sessionScores, roundScores(state)) -> Nat]
  <1>1. /\ DOMAIN roundScores(state) \subseteq DOMAIN players
        /\ roundScores(state) \in [DOMAIN roundScores(state) -> Nat]
    BY RoundScoresType
  <1>2. DOMAIN sessionScores \subseteq DOMAIN players
        /\ sessionScores \in [DOMAIN sessionScores -> Nat]
    BY DEF IInv, TypeOK, ScoresSeated
  <1> QED BY <1>1, <1>2, FoldType

LEMMA GameEventIInv ==
  ASSUME IInv,
         NEW points \in [DOMAIN gameState.points -> 0..MaxPoints],
         NEW complete \in BOOLEAN,
         GameEvent(points, complete)
  PROVE  IInv'
  <1>1. /\ gameState' = [gameState EXCEPT !.points = points]
        /\ UNCHANGED <<players, tokens, selectedGameId, closed, round, gameConfig, scoreLedger, minted>>
        /\ phase' \in {"IN_GAME", "SCORES"} /\ phase = "IN_GAME"
    BY DEF GameEvent, InGame
  <1>2. /\ gameState'.roster = gameState.roster /\ gameState'.points = points
        /\ gameState' = [roster |-> gameState'.roster, points |-> gameState'.points]
    BY <1>1 DEF IInv, TypeOK
  <1>3. /\ DOMAIN sessionScores' \subseteq DOMAIN players
        /\ sessionScores' \in [DOMAIN sessionScores' -> Nat]
    <2>1. CASE complete
      <3>1. gameState'.points \in [DOMAIN gameState'.points -> 0..MaxPoints]
        BY <1>2
      <3> QED BY <2>1, <3>1, FoldIInv DEF GameEvent
    <2>2. CASE ~complete
      BY <2>2 DEF GameEvent, IInv, TypeOK, ScoresSeated
    <2> QED BY <2>1, <2>2
  <1>4. TypeOK'
    BY <1>1, <1>2, <1>3 DEF IInv, TypeOK
  <1>5. IdsMinted' /\ ScoresSeated' /\ TokensSeated'
    BY <1>1, <1>2, <1>3 DEF IInv, IdsMinted, ScoresSeated, TokensSeated
  <1>6. PlayersInRound'
    BY <1>1, <1>2 DEF IInv, PlayersInRound, InGame
  <1> QED BY <1>4, <1>5, <1>6 DEF IInv

LEMMA EndGameIInv ==
  ASSUME IInv, EndGame
  PROVE  IInv'
  <1>1. /\ DOMAIN sessionScores' \subseteq DOMAIN players
        /\ sessionScores' \in [DOMAIN sessionScores' -> Nat]
    BY FoldIInv DEF EndGame, IInv, TypeOK
  <1> QED
    BY <1>1 DEF EndGame, RoundRunning, IInv, TypeOK, IdsMinted, ScoresSeated, TokensSeated,
       PlayersInRound, InGame

LEMMA NextIInv ==
  ASSUME IInv, [Next]_vars
  PROVE  IInv'
  <1>1. CASE UNCHANGED vars
    BY <1>1 DEF vars, IInv, TypeOK, IdsMinted, ScoresSeated, TokensSeated,
       PlayersInRound, InGame
  <1>2. CASE Next
    BY <1>2, JoinIInv, LeaveIInv, HostLeaveIInv, SelectGameIInv,
       ConfigureGameIInv, StartGameIInv, GameEventIInv,
       EndGameIInv DEF Next
  <1> QED BY <1>1, <1>2

(* The invariant holds in every reachable state. *)
LEMMA RoomIInv == Spec => []IInv
  BY InitIInv, NextIInv, PTL DEF Spec

(* The room's state is well typed, whatever events reach the reducer.        *)
THEOREM RoomTyped == Spec => []TypeOK
  BY RoomIInv, PTL DEF IInv

(* A session score belongs to somebody seated (room.ts:267-275).             *)
THEOREM RoomScoresSeated == Spec => []ScoresSeated
  BY RoomIInv, PTL DEF IInv

(* A reconnect secret belongs to somebody seated, and everybody seated has   *)
(* one (room.ts:94, 117).                                                    *)
THEOREM RoomTokensSeated == Spec => []TokensSeated
  BY RoomIInv, PTL DEF IInv

(* A running round knows exactly its players (room.ts:91, 205-209).          *)
THEOREM RoomPlayersInRound == Spec => []PlayersInRound
  BY RoomIInv, PTL DEF IInv

-----------------------------------------------------------------------------
(* The bookkeeper.                                                           *)

(* A game gives points to players it was dealt, and when a round is over its *)
(* points are in the tally, until the tally is wiped.                        *)
PointsDealt == DOMAIN gameState.points \subseteq gameState.roster
PointsFolded ==
  phase = "SCORES" /\ round > 0 =>
    \A p \in DOMAIN gameState.points \cap DOMAIN players :
      p \in DOMAIN sessionScores /\ gameState.points[p] <= sessionScores[p]

BookInv == IInv /\ PointsDealt /\ PointsFolded /\ FoldedOnce

LEMMA TallyMoves ==
  TallyNext => Next
  BY DEF TallyNext, Next, Pick, ChangeSet

LEMMA FoldIs ==
  ASSUME IInv, NEW points, NEW b \in Nat, points \in [DOMAIN points -> 0..b],
         NEW scores, scores = [p \in DOMAIN points \cap DOMAIN players |-> points[p]],
         NEW folded, folded = foldScores(sessionScores, scores)
  PROVE  /\ DOMAIN folded = DOMAIN sessionScores \cup (DOMAIN points \cap DOMAIN players)
         /\ \A p \in DOMAIN sessionScores : folded[p] >= sessionScores[p]
         /\ \A p \in DOMAIN points \cap DOMAIN players : folded[p] >= points[p]
         /\ \A p \in DOMAIN folded :
              folded[p] = Entry(sessionScores, p) + Entry(scores, p)
  <1>1. sessionScores \in [DOMAIN sessionScores -> Nat]
    BY DEF IInv, TypeOK
  <1>2. \A p : Entry(sessionScores, p) \in Nat /\ Entry(scores, p) \in Nat
    BY <1>1 DEF Entry
  <1>3. \A p \in DOMAIN folded :
          folded[p] = Entry(sessionScores, p) + Entry(scores, p)
    BY DEF foldScores
  <1>4. DOMAIN folded = DOMAIN sessionScores \cup (DOMAIN points \cap DOMAIN players)
    BY DEF foldScores
  <1>5. \A p \in DOMAIN sessionScores : Entry(sessionScores, p) = sessionScores[p]
    BY DEF Entry
  <1>6. \A p \in DOMAIN points \cap DOMAIN players : Entry(scores, p) = points[p]
    BY DEF Entry
  <1>7. \A p \in DOMAIN sessionScores : folded[p] >= sessionScores[p]
    <2> SUFFICES ASSUME NEW p \in DOMAIN sessionScores PROVE folded[p] >= sessionScores[p]
      OBVIOUS
    <2>1. folded[p] = sessionScores[p] + Entry(scores, p)
      BY <1>3, <1>4, <1>5
    <2>2. sessionScores[p] \in Nat /\ Entry(scores, p) \in Nat
      BY <1>1, <1>2
    <2>3. \A x, y \in Nat : x + y >= x
      OBVIOUS
    <2> QED BY <2>1, <2>2, <2>3
  <1>8. \A p \in DOMAIN points \cap DOMAIN players : folded[p] >= points[p]
    <2> SUFFICES ASSUME NEW p \in DOMAIN points \cap DOMAIN players PROVE folded[p] >= points[p]
      OBVIOUS
    <2>1. folded[p] = Entry(sessionScores, p) + points[p]
      BY <1>3, <1>4, <1>6
    <2>2. points[p] \in Nat
      OBVIOUS
    <2> QED BY <1>2, <2>1, <2>2
  <1> QED BY <1>3, <1>4, <1>7, <1>8

LEMMA InitBook == TallyInit => BookInv
  <1> SUFFICES ASSUME TallyInit PROVE BookInv
    OBVIOUS
  <1>1. IInv
    BY InitIInv DEF TallyInit
  <1>2. gameState.points = NoEntries /\ DOMAIN NoEntries = {} /\ phase = "LOBBY"
        /\ round = 0 /\ folds = 0
    BY DEF TallyInit, Init, NoEntries
  <1> QED BY <1>1, <1>2 DEF BookInv, PointsDealt, PointsFolded, FoldedOnce, InGame

LEMMA JoinBook ==
  ASSUME BookInv, NEW nick \in Nick, Join(nick), Watched
  PROVE  PointsDealt' /\ PointsFolded' /\ FoldedOnce' /\ StandingKept
  <1>1. /\ UNCHANGED <<phase, gameState, round, folds>>
        /\ DOMAIN players' = DOMAIN players \cup {minted + 1}
    BY DEF Join, Watched, Put
  <1>2. /\ DOMAIN players \subseteq 1..minted /\ DOMAIN gameState.points \subseteq 1..minted
        /\ minted \in Nat
    BY RoomAssumption DEF BookInv, IInv, TypeOK, IdsMinted, PointsDealt
  <1>3. minted + 1 \notin DOMAIN players /\ minted + 1 \notin DOMAIN gameState.points
    BY <1>2
  <1>4. /\ sessionScores \in [DOMAIN sessionScores -> Nat]
        /\ DOMAIN sessionScores \subseteq DOMAIN players
    BY DEF BookInv, IInv, TypeOK, ScoresSeated
  <1>5. \A p \in DOMAIN sessionScores :
          p \in DOMAIN sessionScores' /\ sessionScores'[p] = sessionScores[p]
    BY <1>3, <1>4 DEF Join, Reclaimed, Put
  <1>6. StandingKept
    BY <1>4, <1>5 DEF StandingKept
  <1>7. PointsFolded'
    BY <1>1, <1>3, <1>5 DEF BookInv, PointsFolded
  <1> QED BY <1>1, <1>6, <1>7 DEF BookInv, PointsDealt, FoldedOnce, InGame

LEMMA LeaveBook ==
  ASSUME BookInv, NEW p \in PlayerId, Leave(p), Watched
  PROVE  PointsDealt' /\ PointsFolded' /\ FoldedOnce' /\ StandingKept
  <1>1. /\ UNCHANGED <<phase, round, folds>>
        /\ DOMAIN players' = DOMAIN players \ {p}
        /\ DOMAIN sessionScores' = DOMAIN sessionScores \ {p}
        /\ \A q \in DOMAIN sessionScores \ {p} : sessionScores'[q] = sessionScores[q]
    BY DEF Leave, Watched, omit
  <1>2. sessionScores \in [DOMAIN sessionScores -> Nat]
    BY DEF BookInv, IInv, TypeOK
  <1>3. StandingKept
    BY <1>1, <1>2 DEF StandingKept
  <1>4. /\ gameState'.roster = gameState.roster
        /\ DOMAIN gameState'.points \subseteq DOMAIN gameState.points
        /\ phase = "SCORES" => gameState' = gameState
    <2>1. CASE gameState' = gameState
      BY <2>1
    <2>2. CASE InGame /\ gameState' = [gameState EXCEPT !.points = omit(gameState.points, p)]
      <3>1. gameState = [roster |-> gameState.roster, points |-> gameState.points]
        BY DEF BookInv, IInv, TypeOK
      <3>2. gameState' = [roster |-> gameState.roster, points |-> omit(gameState.points, p)]
        BY <2>2, <3>1
      <3> QED BY <2>2, <3>2 DEF omit, InGame
    <2> QED BY <2>1, <2>2 DEF Leave, GameAfterLeave
  <1>5. PointsFolded'
    BY <1>1, <1>4 DEF BookInv, PointsFolded
  <1> QED BY <1>1, <1>3, <1>4, <1>5 DEF BookInv, PointsDealt, FoldedOnce, InGame

(* The end of a round, by the game's last event or by the host.              *)
LEMMA FoldBook ==
  ASSUME BookInv, NEW points \in [DOMAIN gameState.points -> 0..MaxPoints],
         InGame, phase' = "SCORES", round' = round, players' = players,
         gameState'.roster = gameState.roster, gameState'.points = points,
         folds' = folds + 1,
         sessionScores'
           = foldScores(sessionScores, [p \in DOMAIN points \cap DOMAIN players |-> points[p]])
  PROVE  PointsDealt' /\ PointsFolded' /\ FoldedOnce' /\ StandingKept
  <1>1. IInv /\ MaxPoints \in Nat /\ points \in [DOMAIN points -> 0..MaxPoints]
    BY RoomAssumption DEF BookInv
  <1>2. /\ DOMAIN sessionScores'
             = DOMAIN sessionScores \cup (DOMAIN points \cap DOMAIN players)
        /\ \A p \in DOMAIN sessionScores : sessionScores'[p] >= sessionScores[p]
        /\ \A p \in DOMAIN points \cap DOMAIN players : sessionScores'[p] >= points[p]
    BY <1>1, FoldIs
  <1>3. sessionScores' \in [DOMAIN sessionScores' -> Nat]
    <2>1. sessionScores \in [DOMAIN sessionScores -> Nat]
      BY DEF BookInv, IInv, TypeOK
    <2> DEFINE scores == [p \in DOMAIN points \cap DOMAIN players |-> points[p]]
    <2>2. scores \in [DOMAIN scores -> Nat]
      BY RoomAssumption
    <2> HIDE DEF scores
    <2>3. foldScores(sessionScores, scores) \in [DOMAIN foldScores(sessionScores, scores) -> Nat]
      BY <2>1, <2>2, FoldType
    <2> QED BY <2>3 DEF scores
  <1>4. StandingKept
    BY <1>2 DEF StandingKept
  <1>5. PointsFolded'
    <2> SUFFICES ASSUME NEW p \in DOMAIN gameState'.points \cap DOMAIN players'
                 PROVE  p \in DOMAIN sessionScores' /\ gameState'.points[p] <= sessionScores'[p]
      BY DEF PointsFolded
    <2>1. p \in DOMAIN points \cap DOMAIN players
      OBVIOUS
    <2>2. points[p] \in Nat
      BY <1>1, <2>1
    <2>3. p \in DOMAIN sessionScores' /\ sessionScores'[p] \in Nat
      BY <1>2, <1>3, <2>1
    <2>4. sessionScores'[p] >= points[p]
      BY <1>2, <2>1
    <2> QED BY <2>2, <2>3, <2>4
  <1>6. PointsDealt'
    BY DEF BookInv, PointsDealt
  <1>7. FoldedOnce'
    BY DEF BookInv, FoldedOnce, InGame, IInv, TypeOK
  <1> QED BY <1>4, <1>5, <1>6, <1>7

LEMMA StartBook ==
  ASSUME BookInv, StartGame, Watched
  PROVE  PointsDealt' /\ PointsFolded' /\ FoldedOnce' /\ StandingKept
  <1>1. /\ phase' = "IN_GAME" /\ ~InGame /\ round' = round + 1
        /\ UNCHANGED <<sessionScores, folds>>
    BY DEF StartGame, Watched
  <1>2. gameState'.roster = DOMAIN gameState'.points
    BY DEF StartGame
  <1>3. StandingKept
    BY <1>1 DEF StandingKept, BookInv, IInv, TypeOK
  <1> QED BY <1>1, <1>2, <1>3 DEF BookInv, PointsDealt, PointsFolded, FoldedOnce, InGame, IInv, TypeOK

(* Every step keeps the books, and lowers no standing but by wiping them all. *)
Wipes == sessionScores' = NoEntries /\ round' = 0 /\ ~InGame'

LEMMA TallyBook ==
  ASSUME BookInv, TallyNext
  PROVE  PointsDealt' /\ PointsFolded' /\ FoldedOnce' /\ (StandingKept \/ Wipes)
  <1> DEFINE Goal == PointsDealt' /\ PointsFolded' /\ FoldedOnce' /\ (StandingKept \/ Wipes)
  <1>1. /\ sessionScores \in [DOMAIN sessionScores -> Nat]
        /\ gameState = [roster |-> gameState.roster, points |-> gameState.points]
        /\ gameState.points \in [DOMAIN gameState.points -> 0..MaxPoints]
    BY DEF BookInv, IInv, TypeOK
  <1>2. CASE HostLeave /\ Watched
    BY <1>1, <1>2 DEF BookInv, HostLeave, Watched, PointsDealt, PointsFolded, FoldedOnce,
       StandingKept, InGame
  <1>3. ASSUME NEW nick \in Nick, Join(nick), Watched PROVE Goal
    BY <1>3, JoinBook
  <1>4. ASSUME NEW p \in PlayerId, Leave(p), Watched PROVE Goal
    BY <1>4, LeaveBook
  <1>5. CASE Pick /\ folds' = 0
    <2>1. phase' = "LOBBY" /\ round' = 0 /\ sessionScores' = NoEntries /\ gameState' = gameState
      BY <1>5 DEF Pick, SelectGame
    <2> QED BY <1>5, <2>1 DEF BookInv, PointsDealt, PointsFolded, FoldedOnce, InGame, Wipes
  <1>6. CASE ChangeSet /\ folds' = 0
    <2>1. /\ ~InGame /\ phase' = phase /\ round' = 0 /\ sessionScores' = NoEntries
          /\ gameState' = gameState
      BY <1>6 DEF ChangeSet, ConfigureGame
    <2> QED BY <1>6, <2>1 DEF BookInv, PointsDealt, PointsFolded, FoldedOnce, InGame, Wipes
  <1>7. CASE StartGame /\ Watched
    BY <1>7, StartBook
  <1>8. ASSUME NEW points \in [DOMAIN gameState.points -> 0..MaxPoints],
               GameEvent(points, FALSE), Watched
        PROVE  Goal
    <2>1. /\ phase' = "IN_GAME" /\ phase = "IN_GAME"
          /\ UNCHANGED <<sessionScores, round, folds>>
          /\ gameState' = [gameState EXCEPT !.points = points]
      BY <1>8 DEF GameEvent, InGame, Watched
    <2>2. gameState'.roster = gameState.roster /\ gameState'.points = points
      BY <1>1, <2>1
    <2>3. StandingKept
      BY <1>1, <2>1 DEF StandingKept
    <2> QED BY <2>1, <2>2, <2>3 DEF BookInv, PointsDealt, PointsFolded, FoldedOnce, InGame
  <1>9. ASSUME NEW points \in [DOMAIN gameState.points -> 0..MaxPoints],
               GameEvent(points, TRUE), Award(points)
        PROVE  Goal
    <2>1. /\ InGame /\ phase' = "SCORES" /\ round' = round /\ players' = players
          /\ gameState' = [gameState EXCEPT !.points = points]
          /\ sessionScores' = foldScores(sessionScores, roundScores(gameState'))
          /\ folds' = folds + 1
      BY <1>9 DEF GameEvent, Award
    <2>2. gameState'.roster = gameState.roster /\ gameState'.points = points
      BY <1>1, <2>1
    <2>3. sessionScores'
            = foldScores(sessionScores, [p \in DOMAIN points \cap DOMAIN players |-> points[p]])
      BY <2>1, <2>2 DEF roundScores
    <2> QED BY <2>1, <2>2, <2>3, FoldBook
  <1>10. CASE EndGame /\ Award(gameState.points)
    <2>1. /\ InGame /\ phase' = "SCORES" /\ round' = round /\ players' = players
          /\ gameState' = gameState
          /\ sessionScores' = foldScores(sessionScores, roundScores(gameState))
          /\ folds' = folds + 1
      BY <1>10 DEF EndGame, RoundRunning, Award
    <2>2. sessionScores'
            = foldScores(sessionScores,
                [p \in DOMAIN gameState.points \cap DOMAIN players |-> gameState.points[p]])
      BY <2>1 DEF roundScores
    <2> QED BY <1>1, <2>1, <2>2, FoldBook
  <1> QED BY <1>2, <1>3, <1>4, <1>5, <1>6, <1>7, <1>8, <1>9, <1>10 DEF TallyNext

LEMMA NextBook ==
  ASSUME BookInv, [TallyNext]_tallyVars
  PROVE  BookInv'
  <1>1. CASE UNCHANGED tallyVars
    BY <1>1, NextIInv DEF tallyVars, vars, BookInv, PointsDealt, PointsFolded, FoldedOnce, InGame
  <1>2. CASE TallyNext
    BY <1>2, NextIInv, TallyMoves, TallyBook DEF BookInv
  <1> QED BY <1>1, <1>2

LEMMA BooksKept == TallySpec => []BookInv
  BY InitBook, NextBook, PTL DEF TallySpec

(* Every round of a session is folded into the tally exactly once            *)
(* (room.ts:235-242, 251-260).                                               *)
THEOREM TallyFoldedOnce == TallySpec => []FoldedOnce
  <1>1. BookInv => FoldedOnce
    BY DEF BookInv
  <1> QED BY <1>1, BooksKept, PTL

(* A seated player's score never drops while its session goes on             *)
(* (room.ts:153-161, 179).                                                   *)
THEOREM TallyStandingsKept == TallySpec => StandingsKept
  <1>1. BookInv /\ [TallyNext]_tallyVars
          => [StandingKept \/ (sessionScores' = NoEntries /\ round' = 0 /\ ~InGame')]_tallyVars
    BY TallyBook DEF Wipes
  <1> QED BY <1>1, BooksKept, PTL DEF TallySpec, StandingsKept

(* At the end of a round the board's table, the phones' list and the line on *)
(* each phone say the same (standings.tsx:13-23, 123-135;                    *)
(* PlayerScreen.tsx:36-64; roomSession.ts:362-383).                          *)
THEOREM TallyOneRanking == TallySpec => []OneRanking
  <1>1. BookInv => OneRanking
    <2> SUFFICES ASSUME BookInv, phase = "SCORES", round > 0 PROVE OneRanking
      BY DEF OneRanking
    <2>1. /\ sessionScores \in [DOMAIN sessionScores -> Nat]
          /\ DOMAIN sessionScores \subseteq DOMAIN players
          /\ gameState.points \in [DOMAIN gameState.points -> 0..MaxPoints]
          /\ PointsFolded
      BY DEF BookInv, IInv, TypeOK, ScoresSeated
    <2>2. Shown(sessionScores) = sessionScores
      BY <2>1 DEF Shown
    <2>3. frameScores
            = [p \in DOMAIN gameState.points \cap DOMAIN players |-> gameState.points[p]]
      BY DEF frameScores, roundScores
    <2>4. DOMAIN frameScores \subseteq DOMAIN sessionScores
      BY <2>1, <2>3 DEF PointsFolded
    <2>5. standingRows = [p \in DOMAIN sessionScores |->
                            [round |-> Entry(frameScores, p), total |-> Entry(sessionScores, p)]]
      <3>1. DOMAIN players \cap (DOMAIN sessionScores \cup DOMAIN frameScores)
              = DOMAIN sessionScores
        BY <2>1, <2>4
      <3> QED BY <3>1 DEF standingRows
    <2>6. \A p \in DOMAIN sessionScores : Entry(sessionScores, p) = sessionScores[p]
      BY DEF Entry
    <2>7. [p \in DOMAIN standingRows |-> standingRows[p].total] = sessionScores
      BY <2>1, <2>5, <2>6
    <2>8. RoundStandings = SessionStandings
      BY <2>2, <2>7 DEF RoundStandings, SessionStandings
    <2>9. ASSUME NEW p \in DOMAIN standingRows
          PROVE  standingRows[p].round <= standingRows[p].total
      <3>1. p \in DOMAIN sessionScores /\ sessionScores[p] \in Nat
        BY <2>1, <2>5
      <3>2. standingRows[p].round = Entry(frameScores, p) /\ standingRows[p].total = sessionScores[p]
        BY <2>5, <2>6, <3>1
      <3>3. CASE p \in DOMAIN frameScores
        <4>1. Entry(frameScores, p) = gameState.points[p]
              /\ p \in DOMAIN gameState.points \cap DOMAIN players
          BY <2>3, <3>3 DEF Entry
        <4>2. gameState.points[p] <= sessionScores[p]
          BY <2>1, <4>1 DEF PointsFolded
        <4> QED BY <3>2, <4>1, <4>2
      <3>4. CASE p \notin DOMAIN frameScores
        <4>1. Entry(frameScores, p) = 0
          BY <3>4 DEF Entry
        <4> QED BY <3>1, <3>2, <4>1
      <3> QED BY <3>3, <3>4
    <2>10. /\ DOMAIN SessionStandings = DOMAIN sessionScores
           /\ \A p \in DOMAIN sessionScores :
                /\ SessionStandings[p].rank
                     = 1 + Cardinality({q \in DOMAIN sessionScores :
                                          sessionScores[q] > sessionScores[p]})
                /\ SessionStandings[p].points = sessionScores[p]
      BY <2>2 DEF SessionStandings, ranked, RankOf
    <2>11. ASSUME NEW p \in DOMAIN SessionStandings
           PROVE  SessionLine(p) = [rank |-> SessionStandings[p].rank,
                                    of |-> Cardinality(DOMAIN RoundStandings),
                                    points |-> SessionStandings[p].points]
      <3>1. Entry(Shown(sessionScores), p) = sessionScores[p]
        BY <2>2, <2>6, <2>10
      <3>2. DOMAIN RoundStandings = DOMAIN sessionScores
        BY <2>8, <2>10
      <3> QED BY <2>2, <2>10, <3>1, <3>2 DEF SessionLine
    <2> QED BY <2>8, <2>9, <2>11 DEF OneRanking
  <1> QED BY <1>1, BooksKept, PTL

-----------------------------------------------------------------------------
(* The seating.                                                              *)

(* How far a player's seat is ahead of the window's first, going around.     *)
Ahead(i, off, n) == (i - off + n) % n

LEMMA Around ==
  ASSUME NEW n \in Nat \ {0}, NEW a \in 0..2 * n - 1
  PROVE  a % n = IF a < n THEN a ELSE a - n
  OBVIOUS

LEMMA AheadIs ==
  ASSUME NEW n \in Nat \ {0}, NEW i \in 0..n - 1, NEW off \in 0..n - 1
  PROVE  /\ Ahead(i, off, n) \in 0..n - 1
         /\ Ahead(i, off, n) = IF i < off THEN i - off + n ELSE i - off
  <1>1. i - off + n \in 0..2 * n - 1
    OBVIOUS
  <1>2. i - off + n < n <=> i < off
    OBVIOUS
  <1>3. \A a \in 0..2 * n - 1 : a % n = IF a < n THEN a ELSE a - n
    BY Around
  <1>4. (i - off + n) % n = IF i - off + n < n THEN i - off + n ELSE i - off + n - n
    BY <1>1, <1>3
  <1> QED BY <1>2, <1>4 DEF Ahead

(* The window of the next round begins where this round's ended.             *)
LEMMA OffsetAdvances ==
  ASSUME NEW n \in Nat \ {0}, NEW max \in Nat \ {0}, max < n, NEW r \in Nat \ {0}
  PROVE  /\ Offset(n, max, r) \in 0..n - 1
         /\ Offset(n, max, r + 1)
              = IF Offset(n, max, r) + max < n
                THEN Offset(n, max, r) + max ELSE Offset(n, max, r) + max - n
  <1> DEFINE m == (r - 1) * max
             off == m % n
             q == m \div n
             next == IF off + max < n THEN off + max ELSE off + max - n
  <1>1. m \in Nat /\ r * max = m + max
    <2>1. r - 1 \in Nat /\ max \in Nat
      OBVIOUS
    <2>2. \A x, y \in Nat : x * y \in Nat /\ (x + 1) * y = x * y + y
      OBVIOUS
    <2>3. r = (r - 1) + 1
      OBVIOUS
    <2> QED BY <2>1, <2>2, <2>3
  <1>2. \A a \in Nat : a % n \in 0..n - 1 /\ a \div n \in Nat /\ a = n * (a \div n) + (a % n)
    OBVIOUS
  <1>3. \A a, k \in Int : \A b \in 0..n - 1 : a = n * k + b => a % n = b
    OBVIOUS
  <1>4. off \in 0..n - 1 /\ q \in Nat /\ m = n * q + off
    BY <1>1, <1>2
  <1>5. Offset(n, max, r) = off /\ Offset(n, max, r + 1) = (m + max) % n
    <2>1. (r + 1) - 1 = r
      OBVIOUS
    <2> QED BY <1>1, <2>1 DEF Offset
  <1> HIDE DEF m, off, q
  <1>6. next \in 0..n - 1
    BY <1>4
  <1>7. CASE off + max < n
    <2>1. m + max = n * q + next
      BY <1>4, <1>7
    <2> QED BY <1>1, <1>3, <1>4, <1>5, <1>6, <2>1
  <1>8. CASE ~(off + max < n)
    <2>1. \A x, y \in Int : x * (y + 1) = x * y + x
      OBVIOUS
    <2>2. n * (q + 1) = n * q + n
      BY <1>4, <2>1
    <2>3. n * q \in Int
      BY <1>4
    <2>4. m + max = n * (q + 1) + next
      BY <1>4, <1>8, <2>2, <2>3
    <2>5. (m + max) % n = next
      BY <1>1, <1>3, <1>4, <1>6, <2>4
    <2>6. next = off + max - n
      BY <1>8
    <2> QED BY <1>4, <1>5, <1>8, <2>5, <2>6
  <1> QED BY <1>7, <1>8

LEMMA OffsetIn ==
  ASSUME NEW n \in Nat \ {0}, NEW max \in Nat \ {0}, NEW r \in Nat \ {0}
  PROVE  Offset(n, max, r) \in 0..n - 1 /\ (n <= max => Offset(n, max, r) = 0)
  <1>1. CASE max < n
    BY <1>1, OffsetAdvances
  <1>2. CASE n <= max
    BY <1>2 DEF Offset
  <1> QED BY <1>1, <1>2

(* What was ahead of the window by its length or more is that much nearer.   *)
LEMMA WindowNears ==
  ASSUME NEW n \in Nat \ {0}, NEW max \in Nat \ {0}, max < n, NEW r \in Nat \ {0},
         NEW i \in 0..n - 1, Ahead(i, Offset(n, max, r), n) >= max
  PROVE  Ahead(i, Offset(n, max, r + 1), n) = Ahead(i, Offset(n, max, r), n) - max
  <1> DEFINE off == Offset(n, max, r)
             off1 == Offset(n, max, r + 1)
  <1>1. off \in 0..n - 1 /\ off1 = IF off + max < n THEN off + max ELSE off + max - n
    BY OffsetAdvances
  <1>2. off1 \in 0..n - 1
    BY <1>1
  <1>3. /\ Ahead(i, off, n) = IF i < off THEN i - off + n ELSE i - off
        /\ Ahead(i, off1, n) = IF i < off1 THEN i - off1 + n ELSE i - off1
    BY <1>1, <1>2, AheadIs
  <1> HIDE DEF off, off1
  <1>4. Ahead(i, off, n) >= max
    BY DEF off
  <1>5. Ahead(i, off1, n) = Ahead(i, off, n) - max
    BY <1>1, <1>2, <1>3, <1>4
  <1> QED BY <1>5 DEF off, off1

(* The seats are numbered from 0, each once.                                 *)
LEMMA SeatsNumbered ==
  ASSUME TypeOK
  PROVE  /\ IsFiniteSet(DOMAIN players)
         /\ Cardinality(DOMAIN players) \in Nat
         /\ \A p \in DOMAIN players : SeatIndex(p) \in 0..Cardinality(DOMAIN players) - 1
         /\ \A p, q \in DOMAIN players : p # q => SeatIndex(p) # SeatIndex(q)
  <1> DEFINE P == DOMAIN players
             before(p) == {q \in P : q < p}
  <1>1. P \subseteq PlayerId /\ P \subseteq Int
    BY RoomAssumption DEF TypeOK, PlayerId
  <1>2. IsFiniteSet(P) /\ Cardinality(P) \in Nat
    <2>1. IsFiniteSet(PlayerId)
      BY FS_Interval, RoomAssumption DEF PlayerId
    <2> QED BY <1>1, <2>1, FS_Subset, FS_CardinalityType
  <1>3. ASSUME NEW S \in SUBSET P, NEW T \in SUBSET S, NEW x \in S, x \notin T
        PROVE  Cardinality(T) < Cardinality(S) /\ Cardinality(T) \in Nat /\ Cardinality(S) \in Nat
    <2>1. IsFiniteSet(S)
      BY <1>2, FS_Subset
    <2>2. IsFiniteSet(T) /\ Cardinality(T) <= Cardinality(S) /\ T # S
      BY <1>3, <2>1, FS_Subset
    <2>3. Cardinality(T) # Cardinality(S)
      BY <2>1, <2>2, FS_Subset
    <2>4. Cardinality(T) \in Nat /\ Cardinality(S) \in Nat
      BY <2>1, <2>2, FS_CardinalityType
    <2> QED BY <2>2, <2>3, <2>4
  <1>4. ASSUME NEW p \in P
        PROVE  SeatIndex(p) \in 0..Cardinality(P) - 1
    <2>1. before(p) \in SUBSET P /\ p \notin before(p)
      BY <1>1
    <2>2. Cardinality(before(p)) < Cardinality(P) /\ Cardinality(before(p)) \in Nat
      BY <1>3, <2>1
    <2> QED BY <1>2, <2>2 DEF SeatIndex
  <1>5. ASSUME NEW p \in P, NEW q \in P, p < q
        PROVE  SeatIndex(p) < SeatIndex(q) /\ SeatIndex(p) \in Nat /\ SeatIndex(q) \in Nat
    <2>1. /\ before(q) \in SUBSET P /\ before(p) \in SUBSET before(q)
          /\ p \in before(q) /\ p \notin before(p)
      BY <1>1, <1>5
    <2> QED BY <1>3, <2>1 DEF SeatIndex
  <1>6. ASSUME NEW p \in P, NEW q \in P, p # q
        PROVE  SeatIndex(p) # SeatIndex(q)
    <2>1. p < q \/ q < p
      BY <1>1, <1>6
    <2> QED BY <1>5, <2>1
  <1> QED BY <1>2, <1>4, <1>6

(* Of n members that stand in different places, m stand in the first m.      *)
LEMMA FirstPlaces ==
  ASSUME NEW S, IsFiniteSet(S), NEW place \in [S -> 0..Cardinality(S) - 1],
         \A p, q \in S : p # q => place[p] # place[q],
         NEW m \in 0..Cardinality(S)
  PROVE  Cardinality({p \in S : place[p] < m}) = m
  <1> DEFINE n == Cardinality(S)
             first == {p \in S : place[p] < m}
             cut == [p \in first |-> place[p]]
  <1>1. n \in Nat /\ m \in Nat
    BY FS_CardinalityType
  <1> DEFINE Upto(h) == IsFiniteSet(0..h - 1) /\ Cardinality(0..h - 1) = h
  <1>0. \A h \in Nat : Upto(h)
    BY FS_Interval
  <1>2. place \in Surjection(S, 0..n - 1)
    <2>1. place \in Injection(S, 0..n - 1)
      BY Fun_IsInj
    <2>2. IsFiniteSet(0..n - 1) /\ Cardinality(0..n - 1) = n
      BY <1>0, <1>1
    <2> QED BY <2>1, <2>2, FS_Injection
  <1>3. \A i \in 0..n - 1 : \E p \in S : place[p] = i
    BY <1>2 DEF Surjection
  <1>4. cut \in [first -> 0..m - 1]
    <2>1. \A p \in S : place[p] \in 0..n - 1
      OBVIOUS
    <2>2. \A p \in first : place[p] \in 0..m - 1
      BY <1>1, <2>1
    <2> QED BY <2>2
  <1>5. \A p, q \in first : cut[p] = cut[q] => p = q
    OBVIOUS
  <1>6. ASSUME NEW i \in 0..m - 1 PROVE \E p \in first : cut[p] = i
    <2>1. i \in 0..n - 1 /\ i < m
      BY <1>1
    <2> QED BY <1>3, <2>1
  <1>7. cut \in Bijection(first, 0..m - 1)
    BY <1>4, <1>5, <1>6, Fun_IsBij
  <1>8. IsFiniteSet(0..m - 1) /\ Cardinality(0..m - 1) = m
    BY <1>0, <1>1
  <1>9. IsFiniteSet(first)
    BY FS_Subset
  <1> HIDE DEF first, cut
  <1>10. Cardinality(first) = Cardinality(0..m - 1)
    BY <1>7, <1>8, <1>9, FS_Bijection DEF ExistsBijection
  <1> QED BY <1>8, <1>10 DEF first

(* A round's window: who is dealt in, and how many.                          *)
WindowSeats(seated, max, r) ==
  LET n == Cardinality(DOMAIN players)
      off == Offset(n, max, r)
  IN  /\ \A p \in DOMAIN players :
           /\ Ahead(SeatIndex(p), off, n) \in 0..n - 1
           /\ seated[p].spectator <=> Ahead(SeatIndex(p), off, n) >= max
      /\ Cardinality({p \in DOMAIN players : ~seated[p].spectator})
           = IF n < max THEN n ELSE max

LEMMA Window ==
  ASSUME TypeOK, NEW max \in Nat \ {0}, NEW r \in Nat \ {0}
  PROVE  WindowSeats(seatWindow(max, r), max, r)
  <1> DEFINE P == DOMAIN players
             n == Cardinality(P)
             off == Offset(n, max, r)
             seated == seatWindow(max, r)
             d == [p \in P |-> Ahead(SeatIndex(p), off, n)]
             m == IF n < max THEN n ELSE max
  <1>1. /\ IsFiniteSet(P) /\ n \in Nat
        /\ \A p \in P : SeatIndex(p) \in 0..n - 1
        /\ \A p, q \in P : p # q => SeatIndex(p) # SeatIndex(q)
    BY SeatsNumbered
  <1>2. ASSUME NEW p \in P
        PROVE  off \in 0..n - 1 /\ n \in Nat \ {0}
    <2>1. n \in Nat \ {0}
      BY <1>1, <1>2
    <2> QED BY <2>1, OffsetIn
  <1>3. \A p \in P : seated[p].spectator <=> d[p] >= max
    <2> SUFFICES ASSUME NEW p \in P PROVE seated[p].spectator <=> d[p] >= max
      OBVIOUS
    <2>1. players[p] \in Player
      BY DEF TypeOK
    <2>2. seated[p] = [players[p] EXCEPT !.spectator = Ahead(SeatIndex(p), off, n) >= max]
      BY DEF seatWindow, Ahead
    <2>3. seated[p].spectator = (Ahead(SeatIndex(p), off, n) >= max)
      BY <2>1, <2>2 DEF Player
    <2> QED BY <2>3
  <1> HIDE DEF seated
  <1>4. \A p \in P : /\ Ahead(SeatIndex(p), off, n) \in 0..n - 1
                     /\ Ahead(SeatIndex(p), off, n)
                          = IF SeatIndex(p) < off THEN SeatIndex(p) - off + n
                                                  ELSE SeatIndex(p) - off
    BY <1>1, <1>2, AheadIs
  <1> HIDE DEF off
  <1>5. d \in [P -> 0..n - 1]
    BY <1>4
  <1>6. ASSUME NEW p \in P, NEW q \in P, p # q PROVE d[p] # d[q]
    <2>1. SeatIndex(p) # SeatIndex(q) /\ SeatIndex(p) \in 0..n - 1 /\ SeatIndex(q) \in 0..n - 1
      BY <1>1, <1>6
    <2> QED BY <1>1, <1>2, <1>4, <2>1
  <1>7. m \in 0..n
    BY <1>1
  <1>8. Cardinality({p \in P : d[p] < m}) = m
    <2>1. \A p, q \in P : p # q => d[p] # d[q]
      BY <1>6
    <2> HIDE DEF d, m
    <2> QED BY <1>1, <1>5, <1>7, <2>1, FirstPlaces
  <1>9. \A p \in P : ~seated[p].spectator <=> d[p] < m
    <2> SUFFICES ASSUME NEW p \in P PROVE ~(d[p] >= max) <=> d[p] < m
      BY <1>3
    <2>1. d[p] \in 0..n - 1
      BY <1>5
    <2> QED BY <1>1, <2>1
  <1>10. {p \in P : ~seated[p].spectator} = {p \in P : d[p] < m}
    BY <1>9
  <1> QED BY <1>3, <1>4, <1>8, <1>10 DEF off, seated, WindowSeats

(* A player that sat out b rounds in a row is still ahead of the window, and *)
(* the window has come b - 1 lengths nearer since.                           *)
AheadOf(p) ==
  Ahead(SeatIndex(p), Offset(Cardinality(DOMAIN players), Seats, round),
        Cardinality(DOMAIN players))

Waits(p) ==
  /\ round > 0 /\ selectedGameId \in GameId
  /\ AheadOf(p) >= Seats
  /\ AheadOf(p) + (benched[p] - 1) * Seats < Cardinality(DOMAIN players)

Benched ==
  /\ DOMAIN benched = DOMAIN players
  /\ benched \in [DOMAIN benched -> Nat]
  /\ \A p \in DOMAIN benched : benched[p] > 0 => Waits(p)

SeatingInv == IInv /\ Benched /\ WalksTheSet

LEMMA SeatingMoves ==
  SeatingNext => Next
  BY DEF SeatingNext, Next, RosterChange, NewSession, Deal

LEMMA NobodyBenched ==
  ASSUME benched' = AllFresh(DOMAIN players')
  PROVE  Benched'
  <1>1. DOMAIN benched' = DOMAIN players' /\ \A p \in DOMAIN players' : benched'[p] = 0
    BY DEF AllFresh
  <1>2. benched' \in [DOMAIN benched' -> Nat]
    BY DEF AllFresh
  <1> QED BY <1>1, <1>2 DEF Benched

LEMMA SeatsUntouched ==
  ASSUME Benched, WalksTheSet,
         UNCHANGED <<players, selectedGameId, round, gameConfig, asked, benched>>
  PROVE  Benched' /\ WalksTheSet'
  BY DEF Benched, Waits, AheadOf, SeatIndex, Seats, WalksTheSet

(* A started round: the seats, the window and who sits it out.               *)
LEMMA DealSeats ==
  ASSUME TypeOK, Deal
  PROVE  LET n == Cardinality(DOMAIN players)
         IN  /\ selectedGameId \in GameId /\ selectedGameId' = selectedGameId
             /\ Seats \in Nat \ {0} /\ n \in Nat \ {0} /\ n >= MinPlayers[selectedGameId]
             /\ MinPlayers[selectedGameId] <= Seats /\ MinPlayers[selectedGameId] \in Nat
             /\ round' = round + 1 /\ round \in Nat
             /\ DOMAIN players' = DOMAIN players
             /\ \A p \in DOMAIN players :
                  /\ SeatIndex(p)' = SeatIndex(p) /\ SeatIndex(p) \in 0..n - 1
                  /\ AheadOf(p)' \in 0..n - 1
                  /\ AheadOf(p)' = Ahead(SeatIndex(p), Offset(n, Seats, round + 1), n)
                  /\ players'[p].spectator <=> AheadOf(p)' >= Seats
             /\ Cardinality(gameState'.roster) = IF n < Seats THEN n ELSE Seats
  <1> DEFINE n == Cardinality(DOMAIN players)
             r1 == round + 1
             off1 == Offset(n, Seats, round + 1)
             active == {p \in DOMAIN players : ~players'[p].spectator}
  <1>1. /\ selectedGameId \in GameId /\ selectedGameId' = selectedGameId
        /\ round' = round + 1 /\ round \in Nat
        /\ n >= MinPlayers[selectedGameId]
        /\ players' = seatWindow(MaxPlayers[selectedGameId], round + 1)
        /\ gameState' = [roster |-> active, points |-> [p \in active |-> 0]]
    BY DEF Deal, StartGame, TypeOK
  <1>2. Seats = MaxPlayers[selectedGameId] /\ Seats' = Seats
    BY <1>1, RoomAssumption DEF Seats
  <1>3. /\ Seats \in Nat \ {0} /\ MinPlayers[selectedGameId] \in Nat \ {0}
        /\ MinPlayers[selectedGameId] <= Seats
    BY <1>1, <1>2, RoomAssumption
  <1>4. n \in Nat \ {0}
    <2>1. n \in Nat
      BY SeatsNumbered
    <2> QED BY <1>1, <1>3, <2>1
  <1>5. DOMAIN players' = DOMAIN players
    BY <1>1 DEF seatWindow
  <1>6. \A p \in DOMAIN players : SeatIndex(p)' = SeatIndex(p) /\ SeatIndex(p) \in 0..n - 1
    BY <1>5, SeatsNumbered DEF SeatIndex
  <1>7. \A p \in DOMAIN players : AheadOf(p)' = Ahead(SeatIndex(p), off1, n)
    BY <1>1, <1>2, <1>5, <1>6 DEF AheadOf
  <1>8. r1 \in Nat \ {0}
    BY <1>1
  <1>9. /\ \A p \in DOMAIN players :
             /\ Ahead(SeatIndex(p), off1, n) \in 0..n - 1
             /\ players'[p].spectator <=> Ahead(SeatIndex(p), off1, n) >= Seats
        /\ Cardinality(active) = IF n < Seats THEN n ELSE Seats
    <2>1. players' = seatWindow(Seats, r1)
      BY <1>1, <1>2
    <2>2. WindowSeats(seatWindow(Seats, r1), Seats, r1)
      BY <1>3, <1>8, Window
    <2>3. WindowSeats(players', Seats, r1)
      BY <2>1, <2>2
    <2> QED BY <2>3 DEF WindowSeats
  <1>10. gameState'.roster = active
    BY <1>1
  <1> HIDE DEF active, off1, n
  <1>11. Cardinality(gameState'.roster) = IF n < Seats THEN n ELSE Seats
    BY <1>9, <1>10
  <1>12. \A p \in DOMAIN players :
           /\ AheadOf(p)' \in 0..n - 1
           /\ players'[p].spectator <=> AheadOf(p)' >= Seats
    BY <1>7, <1>9
  <1> QED BY <1>1, <1>3, <1>4, <1>5, <1>6, <1>7, <1>11, <1>12 DEF off1, n

LEMMA DealBenched ==
  ASSUME TypeOK, Benched, Deal
  PROVE  Benched'
  <1> DEFINE n == Cardinality(DOMAIN players)
  <1>1. /\ selectedGameId \in GameId /\ selectedGameId' = selectedGameId
        /\ Seats \in Nat \ {0} /\ n \in Nat \ {0}
        /\ round' = round + 1 /\ round \in Nat
        /\ DOMAIN players' = DOMAIN players
    BY DealSeats
  <1>2. Seats' = Seats
    BY <1>1 DEF Seats, Deal, StartGame
  <1>3. /\ DOMAIN benched = DOMAIN players
        /\ \A p \in DOMAIN players : benched[p] \in Nat
        /\ benched' = [p \in DOMAIN players |->
                         IF players'[p].spectator THEN benched[p] + 1 ELSE 0]
    BY DEF Benched, Deal
  <1>4. DOMAIN benched' = DOMAIN players' /\ benched' \in [DOMAIN benched' -> Nat]
    BY <1>1, <1>3
  <1>5. ASSUME NEW p \in DOMAIN players, benched'[p] > 0
        PROVE  Waits(p)'
    <2>1. players'[p].spectator /\ benched'[p] = benched[p] + 1 /\ benched[p] \in Nat
      BY <1>3, <1>5
    <2>2. /\ AheadOf(p)' \in 0..n - 1 /\ AheadOf(p)' >= Seats
          /\ AheadOf(p)' = Ahead(SeatIndex(p), Offset(n, Seats, round + 1), n)
          /\ SeatIndex(p) \in 0..n - 1
      BY <2>1, DealSeats
    <2> DEFINE a == AheadOf(p)
               a1 == Ahead(SeatIndex(p), Offset(n, Seats, round + 1), n)
    <2>3. a1 + benched[p] * Seats < n
      <3>1. CASE benched[p] = 0
        BY <1>1, <2>2, <3>1
      <3>2. CASE benched[p] > 0
        <4>1. Waits(p)
          BY <1>3, <3>2 DEF Benched
        <4>2. /\ round > 0 /\ a >= Seats
              /\ a + (benched[p] - 1) * Seats < n
              /\ a = Ahead(SeatIndex(p), Offset(n, Seats, round), n)
          BY <4>1 DEF Waits, AheadOf
        <4>3. Seats < n
          BY <1>1, <2>2
        <4>4. a1 = a - Seats
          <5>1. round \in Nat \ {0} /\ Ahead(SeatIndex(p), Offset(n, Seats, round), n) >= Seats
            BY <1>1, <4>2
          <5>2. \A N, max, r \in Nat \ {0} : \A i \in 0..N - 1 :
                  max < N /\ Ahead(i, Offset(N, max, r), N) >= max
                    => Ahead(i, Offset(N, max, r + 1), N)
                         = Ahead(i, Offset(N, max, r), N) - max
            BY WindowNears
          <5> HIDE DEF n
          <5>3. Ahead(SeatIndex(p), Offset(n, Seats, round + 1), n)
                  = Ahead(SeatIndex(p), Offset(n, Seats, round), n) - Seats
            BY <1>1, <2>2, <4>3, <5>1, <5>2
          <5> QED BY <4>2, <5>3
        <4>5. \A x, y \in Nat : x * y = (x - 1) * y + y
          OBVIOUS
        <4>6. benched[p] * Seats = (benched[p] - 1) * Seats + Seats
          BY <1>1, <2>1, <4>5
        <4>7. a \in Int /\ (benched[p] - 1) * Seats \in Int
          <5>1. a1 \in Int
            BY <2>2
          <5>2. a \in Int
            <6>1. Offset(n, Seats, round) \in 0..n - 1
              BY <1>1, <4>2, OffsetIn
            <6> QED BY <1>1, <2>2, <4>2, <6>1, AheadIs
          <5>3. \A x, y \in Int : x * y \in Int
            OBVIOUS
          <5> QED BY <1>1, <2>1, <5>2, <5>3
        <4> HIDE DEF a, a1, n
        <4> QED BY <1>1, <4>2, <4>4, <4>6, <4>7
      <3> QED BY <2>1, <3>1, <3>2
    <2>4. (benched'[p] - 1) * Seats = benched[p] * Seats
      BY <2>1
    <2>5. AheadOf(p)' + (benched'[p] - 1) * Seats < n
      BY <2>2, <2>3, <2>4
    <2>6. round' > 0
      BY <1>1
    <2> QED BY <1>1, <1>2, <2>2, <2>5, <2>6 DEF Waits
  <1> QED BY <1>1, <1>3, <1>4, <1>5 DEF Benched

(* The round asks the next question, which the set has.                      *)
LEMMA DealWalks ==
  ASSUME TypeOK, WalksTheSet, Deal
  PROVE  WalksTheSet'
  <1>1. /\ round \in Nat /\ round' = round + 1
        /\ selectedGameId \in GameId /\ selectedGameId' = selectedGameId
        /\ gameConfig' = gameConfig /\ gameConfig \in Config \cup {Unset}
        /\ round < RoundCount[<<selectedGameId, gameConfig>>]
        /\ asked' = Append(asked, <<gameConfig, round'>>)
        /\ asked = [i \in 1..round |-> <<gameConfig, i>>]
    BY DEF TypeOK, WalksTheSet, Deal, StartGame, RoundsLeft
  <1>2. RoundCount[<<selectedGameId, gameConfig>>] \in Nat
    BY <1>1, RoomAssumption
  <1>3. asked \in Seq({gameConfig} \X Nat) /\ Len(asked) = round
    <2>1. \A i \in 1..round : <<gameConfig, i>> \in {gameConfig} \X Nat
      BY <1>1
    <2>2. asked \in [1..round -> {gameConfig} \X Nat]
      BY <1>1, <2>1
    <2> QED BY <1>1, <2>2
  <1>4. asked' = [i \in 1..round + 1 |-> IF i = round + 1 THEN <<gameConfig, round + 1>>
                                                          ELSE asked[i]]
    BY <1>1, <1>3
  <1>5. asked' = [i \in 1..round + 1 |-> <<gameConfig, i>>]
    <2>1. \A i \in 1..round + 1 : i # round + 1 => i \in 1..round
      BY <1>1
    <2> QED BY <1>1, <1>4, <2>1
  <1>6. round + 1 <= RoundCount[<<selectedGameId, gameConfig>>]
    BY <1>1, <1>2
  <1> QED BY <1>1, <1>5, <1>6 DEF WalksTheSet

LEMMA NewSessionSeats ==
  ASSUME IInv, NewSession
  PROVE  Benched' /\ WalksTheSet'
  <1>1. /\ round' = 0 /\ asked' = <<>> /\ players' = players
        /\ benched' = AllFresh(DOMAIN players')
        /\ gameConfig' \in Config \cup {Unset}
        /\ selectedGameId' \in GameId \cup {NoGame}
    BY DEF NewSession, SelectGame, ConfigureGame, IInv, TypeOK
  <1>2. selectedGameId' # NoGame => 0 <= RoundCount[<<selectedGameId', gameConfig'>>]
    BY <1>1, RoomAssumption
  <1>3. asked' = [i \in 1..round' |-> <<gameConfig', i>>]
    <2>1. 1..0 = {}
      OBVIOUS
    <2> QED BY <1>1, <2>1
  <1> QED BY <1>1, <1>2, <1>3, NobodyBenched DEF WalksTheSet

LEMMA RosterChangeSeats ==
  ASSUME WalksTheSet, RosterChange
  PROVE  Benched' /\ WalksTheSet'
  <1>1. benched' = AllFresh(DOMAIN players')
        /\ UNCHANGED <<asked, round, gameConfig, selectedGameId>>
    BY DEF RosterChange, Join, Leave
  <1> QED BY <1>1, NobodyBenched DEF WalksTheSet

LEMMA NextSeats ==
  ASSUME SeatingInv, [SeatingNext]_seatingVars
  PROVE  SeatingInv'
  <1>1. CASE UNCHANGED seatingVars
    BY <1>1, NextIInv, SeatsUntouched DEF seatingVars, vars, SeatingInv
  <1>2. CASE SeatingNext
    <2>1. IInv'
      BY <1>2, SeatingMoves, NextIInv DEF SeatingInv
    <2> SUFFICES Benched' /\ WalksTheSet'
      BY <2>1 DEF SeatingInv
    <2>2. IInv /\ TypeOK /\ Benched /\ WalksTheSet
      BY DEF SeatingInv, IInv
    <2>3. CASE HostLeave /\ UNCHANGED <<asked, benched, satOut, fits, deals>>
      BY <2>2, <2>3, SeatsUntouched DEF HostLeave
    <2>4. CASE RosterChange
      BY <2>2, <2>4, RosterChangeSeats
    <2>5. CASE NewSession
      BY <2>2, <2>5, NewSessionSeats
    <2>6. CASE Deal
      BY <2>2, <2>6, DealBenched, DealWalks
    <2>7. ASSUME NEW points \in [DOMAIN gameState.points -> 0..MaxPoints],
                 NEW complete \in BOOLEAN,
                 GameEvent(points, complete), UNCHANGED <<asked, benched>>
          PROVE  Benched' /\ WalksTheSet'
      BY <2>2, <2>7, SeatsUntouched DEF GameEvent
    <2>8. CASE EndGame /\ UNCHANGED <<asked, benched>>
      BY <2>2, <2>8, SeatsUntouched DEF EndGame
    <2> QED BY <1>2, <2>3, <2>4, <2>5, <2>6, <2>7, <2>8 DEF SeatingNext
  <1> QED BY <1>1, <1>2

LEMMA InitSeating == SeatingInit => SeatingInv
  <1> SUFFICES ASSUME SeatingInit PROVE SeatingInv
    OBVIOUS
  <1>1. IInv
    BY InitIInv DEF SeatingInit
  <1>2. DOMAIN players = {} /\ benched = [p \in {} |-> 0]
    BY DEF SeatingInit, Init, NoEntries, AllFresh
  <1>3. Benched
    BY <1>2 DEF Benched
  <1>4. WalksTheSet
    <2>1. asked = <<>> /\ round = 0 /\ selectedGameId = NoGame /\ 1..0 = {}
      BY DEF SeatingInit, Init
    <2> QED BY <2>1 DEF WalksTheSet
  <1> QED BY <1>1, <1>3, <1>4 DEF SeatingInv

LEMMA SeatingKept == SeatingSpec => []SeatingInv
  BY InitSeating, NextSeats, PTL DEF SeatingSpec

(* The rounds of a session ask the questions of its set from the first, none *)
(* skipped and none twice (room.ts:149-152, 172-179, 197-203).               *)
THEOREM SeatingWalksTheSet == SeatingSpec => []WalksTheSet
  <1>1. SeatingInv => WalksTheSet
    BY DEF SeatingInv
  <1> QED BY <1>1, SeatingKept, PTL

(* Nobody sits out more rounds in a row than the window takes to go once     *)
(* around (rounds.ts:5-8).                                                   *)
THEOREM SeatingBenchRotates == SeatingSpec => []BenchRotates
  <1>1. SeatingInv => BenchRotates
    <2> SUFFICES ASSUME SeatingInv, NEW p \in DOMAIN benched, benched[p] > 0
                 PROVE  benched[p] * Seats < Cardinality(DOMAIN players)
      BY DEF BenchRotates
    <2> DEFINE n == Cardinality(DOMAIN players)
               a == AheadOf(p)
    <2>1. TypeOK /\ p \in DOMAIN players /\ benched[p] \in Nat /\ Waits(p)
      BY DEF SeatingInv, IInv, Benched
    <2>2. /\ round \in Nat \ {0} /\ selectedGameId \in GameId
          /\ a >= Seats /\ a + (benched[p] - 1) * Seats < n
      BY <2>1 DEF Waits, TypeOK
    <2>3. Seats \in Nat \ {0}
      BY <2>2, RoomAssumption DEF Seats
    <2>4. n \in Nat \ {0} /\ SeatIndex(p) \in 0..n - 1
      BY <2>1, SeatsNumbered
    <2>5. a \in Int
      <3>1. Offset(n, Seats, round) \in 0..n - 1
        BY <2>2, <2>3, <2>4, OffsetIn
      <3> QED BY <2>4, <3>1, AheadIs DEF AheadOf
    <2>6. \A x, y \in Nat : x * y = (x - 1) * y + y /\ (x - 1) * y \in Int
      OBVIOUS
    <2>7. benched[p] * Seats = (benched[p] - 1) * Seats + Seats
          /\ (benched[p] - 1) * Seats \in Int
      BY <2>1, <2>3, <2>6
    <2> HIDE DEF n, a
    <2>8. benched[p] * Seats < n
      BY <2>2, <2>3, <2>4, <2>5, <2>7
    <2> QED BY <2>8 DEF n
  <1> QED BY <1>1, SeatingKept, PTL

(* A round deals in as many players as the game has seats, or everybody, and *)
(* never fewer than the game needs (rounds.ts:10-22, room.ts:194-206).       *)
THEOREM SeatingWindowFull == SeatingSpec => WindowFull
  <1> DEFINE Full ==
        ~InGame /\ InGame' =>
          LET n == Cardinality(DOMAIN players)
          IN  /\ Cardinality(gameState'.roster) = IF n < Seats THEN n ELSE Seats
              /\ Cardinality(gameState'.roster) >= MinPlayers[selectedGameId]
  <1>1. SeatingInv /\ [SeatingNext]_seatingVars => [Full]_seatingVars
    <2> SUFFICES ASSUME SeatingInv, SeatingNext, ~InGame, InGame' PROVE Full
      OBVIOUS
    <2>1. Deal
      BY DEF SeatingNext, RosterChange, NewSession, Join, Leave, HostLeave, SelectGame,
             ConfigureGame, GameEvent, EndGame, RoundRunning, InGame
    <2>2. TypeOK
      BY DEF SeatingInv, IInv
    <2> DEFINE n == Cardinality(DOMAIN players)
    <2>3. /\ Cardinality(gameState'.roster) = IF n < Seats THEN n ELSE Seats
          /\ n \in Nat /\ Seats \in Nat /\ n >= MinPlayers[selectedGameId]
          /\ MinPlayers[selectedGameId] <= Seats /\ MinPlayers[selectedGameId] \in Nat
      BY <2>1, <2>2, DealSeats
    <2> QED BY <2>3
  <1> QED BY <1>1, SeatingKept, PTL DEF SeatingSpec, WindowFull

-----------------------------------------------------------------------------
(* Sums.  Total adds up a function's values one member at a time; what it    *)
(* chooses first makes no difference.                                        *)

LEMMA HasLeast ==
  ASSUME NEW S \in SUBSET Nat, S # {}
  PROVE  \E x \in S : \A y \in S : x <= y
  <1> DEFINE R == {ss \in Nat \X Nat : ss[1] < ss[2]}
  <1>1. \A x, y \in Nat : <<y, x>> \in R <=> y < x
    OBVIOUS
  <1>2. IsWellFoundedOn(R, Nat)
    <2>1. R = OpToRel(<, Nat)
      BY DEF OpToRel
    <2> HIDE DEF R
    <2> QED BY <2>1, NatLessThanWellFounded
  <1> HIDE DEF R
  <1>3. S \subseteq Nat
    OBVIOUS
  <1>4. PICK x \in S : \A y \in S : ~(<<y, x>> \in R)
    BY <1>2, <1>3, WFMin, Zenon
  <1>5. \A y \in S : ~(y < x)
    BY <1>1, <1>3, <1>4
  <1>6. \A y \in S : x <= y
    BY <1>3, <1>5
  <1> QED BY <1>6

LEMMA OneLess ==
  ASSUME NEW s, IsFiniteSet(s), NEW x \in s
  PROVE  /\ IsFiniteSet(s \ {x})
         /\ Cardinality(s) \in Nat /\ Cardinality(s \ {x}) \in Nat
         /\ Cardinality(s \ {x}) < Cardinality(s)
  <1>1. IsFiniteSet(s \ {x}) /\ Cardinality(s \ {x}) <= Cardinality(s)
    BY FS_Subset
  <1>2. Cardinality(s \ {x}) # Cardinality(s)
    BY FS_Subset
  <1> QED BY <1>1, <1>2, FS_CardinalityType

(* In a family of finite sets some set leaves the family with any member     *)
(* taken out of it.                                                          *)
LEMMA SmallestSet ==
  ASSUME NEW F, F # {}, \A s \in F : IsFiniteSet(s)
  PROVE  \E s \in F : \A x \in s : s \ {x} \notin F
  <1> DEFINE sizes == {Cardinality(s) : s \in F}
  <1>1. sizes \in SUBSET Nat /\ sizes # {}
    BY FS_CardinalityType
  <1>2. PICK k \in sizes : \A j \in sizes : k <= j
    BY <1>1, HasLeast
  <1>3. PICK s \in F : k = Cardinality(s)
    BY <1>2
  <1>4. ASSUME NEW x \in s, s \ {x} \in F PROVE FALSE
    <2>1. Cardinality(s \ {x}) \in sizes
      BY <1>4
    <2>2. Cardinality(s) <= Cardinality(s \ {x})
      BY <1>2, <1>3, <2>1
    <2>3. /\ Cardinality(s) \in Nat /\ Cardinality(s \ {x}) \in Nat
          /\ Cardinality(s \ {x}) < Cardinality(s)
      BY <1>3, OneLess
    <2> QED BY <2>2, <2>3
  <1> QED BY <1>4

AnyOf(s) == CHOOSE x \in s : TRUE

(* h holds the sum of f over every subset of S.                              *)
Sums(h, f, S) ==
  h = [s \in SUBSET S |-> IF s = {} THEN 0 ELSE f[AnyOf(s)] + h[s \ {AnyOf(s)}]]

SumsUpTo(h, f, S, k) ==
  \A s \in SUBSET S :
    Cardinality(s) <= k =>
      h[s] = IF s = {} THEN 0 ELSE f[AnyOf(s)] + h[s \ {AnyOf(s)}]

LEMMA SumsExist ==
  ASSUME NEW S, IsFiniteSet(S), NEW f \in [S -> Nat]
  PROVE  \E h \in [SUBSET S -> Nat] : Sums(h, f, S)
  <1> DEFINE Reached(k) == \E h \in [SUBSET S -> Nat] : SumsUpTo(h, f, S, k)
             stuck == {k \in Nat : ~Reached(k)}
  <1>1. \A s \in SUBSET S : s # {} =>
          /\ AnyOf(s) \in s /\ f[AnyOf(s)] \in Nat
          /\ s \ {AnyOf(s)} \in SUBSET S
          /\ Cardinality(s) \in Nat /\ Cardinality(s \ {AnyOf(s)}) \in Nat
          /\ Cardinality(s \ {AnyOf(s)}) < Cardinality(s)
    <2> SUFFICES ASSUME NEW s \in SUBSET S, s # {}
                 PROVE  /\ AnyOf(s) \in s /\ f[AnyOf(s)] \in Nat
                        /\ s \ {AnyOf(s)} \in SUBSET S
                        /\ Cardinality(s) \in Nat /\ Cardinality(s \ {AnyOf(s)}) \in Nat
                        /\ Cardinality(s \ {AnyOf(s)}) < Cardinality(s)
      OBVIOUS
    <2>1. AnyOf(s) \in s
      BY DEF AnyOf
    <2>2. IsFiniteSet(s)
      BY FS_Subset
    <2> QED BY <2>1, <2>2, OneLess
  <1>2. stuck = {}
    <2> SUFFICES ASSUME stuck # {} PROVE FALSE
      OBVIOUS
    <2>1. stuck \in SUBSET Nat
      OBVIOUS
    <2>2. PICK k \in stuck : \A j \in stuck : k <= j
      BY <2>1, HasLeast
    <2>3. k \in Nat /\ ~Reached(k)
      BY <2>2
    <2>4. CASE k = 0
      <3> DEFINE h == [s \in SUBSET S |-> 0]
      <3>1. h \in [SUBSET S -> Nat]
        OBVIOUS
      <3>2. ASSUME NEW s \in SUBSET S, Cardinality(s) <= 0, s # {} PROVE FALSE
        <4>1. \A x, y \in Nat : x < y => ~(y <= 0)
          OBVIOUS
        <4> QED BY <1>1, <3>2, <4>1
      <3>3. SumsUpTo(h, f, S, 0)
        BY <3>2 DEF SumsUpTo
      <3> QED BY <2>3, <2>4, <3>1, <3>3
    <2>5. CASE k # 0
      <3>1. k - 1 \in Nat /\ ~(k <= k - 1)
        BY <2>3, <2>5
      <3>2. Reached(k - 1)
        BY <2>2, <3>1
      <3>3. PICK h \in [SUBSET S -> Nat] : SumsUpTo(h, f, S, k - 1)
        BY <3>2
      <3> DEFINE Step(s) == IF s = {} THEN 0 ELSE f[AnyOf(s)] + h[s \ {AnyOf(s)}]
                 g == [s \in SUBSET S |-> Step(s)]
      <3>4. \A s \in SUBSET S : Step(s) \in Nat
        BY <1>1
      <3>5. g \in [SUBSET S -> Nat]
        BY <3>4
      <3>6. ASSUME NEW s \in SUBSET S, Cardinality(s) <= k, s # {}
            PROVE  g[s] = f[AnyOf(s)] + g[s \ {AnyOf(s)}]
        <4> DEFINE t == s \ {AnyOf(s)}
        <4>1. t \in SUBSET S /\ Cardinality(t) <= k - 1
          <5>1. /\ t \in SUBSET S /\ Cardinality(s) \in Nat /\ Cardinality(t) \in Nat
                /\ Cardinality(t) < Cardinality(s)
            BY <1>1, <3>6
          <5> QED BY <2>3, <3>6, <5>1
        <4>2. h[t] = Step(t)
          BY <3>3, <4>1 DEF SumsUpTo
        <4>3. g[t] = Step(t) /\ g[s] = f[AnyOf(s)] + h[t]
          BY <3>6, <4>1
        <4> QED BY <4>2, <4>3
      <3>7. g[{}] = 0
        OBVIOUS
      <3>8. SumsUpTo(g, f, S, k)
        <4> HIDE DEF g
        <4> QED BY <3>6, <3>7 DEF SumsUpTo
      <3> QED BY <2>3, <3>5, <3>8
    <2> QED BY <2>4, <2>5
  <1>3. Cardinality(S) \in Nat
    BY FS_CardinalityType
  <1>4. Reached(Cardinality(S))
    BY <1>2, <1>3
  <1>5. PICK h \in [SUBSET S -> Nat] : SumsUpTo(h, f, S, Cardinality(S))
    BY <1>4
  <1>6. \A s \in SUBSET S : Cardinality(s) <= Cardinality(S)
    BY FS_Subset
  <1>7. Sums(h, f, S)
    BY <1>5, <1>6 DEF Sums, SumsUpTo
  <1> QED BY <1>7

LEMMA SumsTyped ==
  ASSUME NEW S, IsFiniteSet(S), NEW f \in [S -> Nat], NEW h, Sums(h, f, S)
  PROVE  /\ h[{}] = 0
         /\ \A s \in SUBSET S : h[s] \in Nat
  <1> DEFINE bad == {s \in SUBSET S : h[s] \notin Nat}
  <1>1. h[{}] = 0
    BY DEF Sums
  <1>2. bad = {}
    <2> SUFFICES ASSUME bad # {} PROVE FALSE
      OBVIOUS
    <2>1. \A s \in bad : IsFiniteSet(s)
      BY FS_Subset
    <2>2. PICK s \in bad : \A x \in s : s \ {x} \notin bad
      BY <2>1, SmallestSet
    <2>3. s \in SUBSET S /\ s # {}
      <3>1. 0 \in Nat
        OBVIOUS
      <3> QED BY <1>1, <2>2, <3>1
    <2>4. AnyOf(s) \in s
      BY <2>3 DEF AnyOf
    <2>5. h[s] = f[AnyOf(s)] + h[s \ {AnyOf(s)}]
      BY <2>3 DEF Sums
    <2>6. s \ {AnyOf(s)} \notin bad
      BY <2>2, <2>4
    <2>7. h[s \ {AnyOf(s)}] \in Nat
      BY <2>3, <2>6
    <2>8. f[AnyOf(s)] \in Nat
      BY <2>3, <2>4
    <2> QED BY <2>2, <2>5, <2>7, <2>8
  <1> QED BY <1>1, <1>2

(* Any member may be added last.                                             *)
LEMMA SumsTake ==
  ASSUME NEW S, IsFiniteSet(S), NEW f \in [S -> Nat], NEW h, Sums(h, f, S),
         NEW s \in SUBSET S, NEW x \in s
  PROVE  h[s] = f[x] + h[s \ {x}]
  <1> DEFINE bad == {t \in SUBSET S : \E y \in t : h[t] # f[y] + h[t \ {y}]}
  <1>1. bad = {}
    <2> SUFFICES ASSUME bad # {} PROVE FALSE
      OBVIOUS
    <2>1. \A t \in bad : IsFiniteSet(t)
      BY FS_Subset
    <2>2. PICK t \in bad : \A u \in t : t \ {u} \notin bad
      BY <2>1, SmallestSet
    <2>3. PICK y \in t : h[t] # f[y] + h[t \ {y}]
      BY <2>2
    <2> DEFINE c == AnyOf(t)
               both == t \ {c, y}
    <2>4. c \in t /\ t \in SUBSET S /\ IsFiniteSet(t)
      BY <2>1, <2>2, <2>3 DEF AnyOf
    <2>5. h[t] = f[c] + h[t \ {c}]
      BY <2>3, <2>4 DEF Sums
    <2>6. c # y
      BY <2>3, <2>5
    <2>7. t \ {c} \notin bad /\ t \ {y} \notin bad
      BY <2>2, <2>3, <2>4
    <2>8. (t \ {c}) \ {y} = both /\ (t \ {y}) \ {c} = both
      OBVIOUS
    <2>9. y \in t \ {c} /\ c \in t \ {y}
      BY <2>4, <2>6
    <2>10. /\ h[t \ {c}] = f[y] + h[both]
           /\ h[t \ {y}] = f[c] + h[both]
      <3> HIDE DEF c, both
      <3>1. /\ \A z \in t \ {c} : h[t \ {c}] = f[z] + h[(t \ {c}) \ {z}]
            /\ \A z \in t \ {y} : h[t \ {y}] = f[z] + h[(t \ {y}) \ {z}]
        BY <2>4, <2>7
      <3> QED BY <2>8, <2>9, <3>1
    <2>11. f[c] \in Nat /\ f[y] \in Nat /\ h[both] \in Nat
      BY <2>4, SumsTyped
    <2> HIDE DEF c, both
    <2>12. f[c] + (f[y] + h[both]) = f[y] + (f[c] + h[both])
      BY <2>11
    <2> QED BY <2>3, <2>5, <2>10, <2>12
  <1> QED BY <1>1

LEMMA SumsAgree ==
  ASSUME NEW S, IsFiniteSet(S), NEW f \in [S -> Nat], NEW h, Sums(h, f, S),
         NEW T \in SUBSET S, NEW g \in [T -> Nat], NEW k, Sums(k, g, T),
         \A x \in T : f[x] = g[x]
  PROVE  \A s \in SUBSET T : h[s] = k[s]
  <1> DEFINE bad == {s \in SUBSET T : h[s] # k[s]}
  <1>1. bad = {}
    <2> SUFFICES ASSUME bad # {} PROVE FALSE
      OBVIOUS
    <2>1. \A s \in bad : IsFiniteSet(s)
      BY FS_Subset
    <2>2. PICK s \in bad : \A x \in s : s \ {x} \notin bad
      BY <2>1, SmallestSet
    <2>3. s \in SUBSET S /\ s \in SUBSET T /\ h[s] # k[s]
      BY <2>2
    <2>4. CASE s = {}
      BY <2>3, <2>4 DEF Sums
    <2>5. CASE s # {}
      <3> DEFINE c == AnyOf(s)
      <3>1. c \in s
        BY <2>5 DEF AnyOf
      <3>2. h[s] = f[c] + h[s \ {c}] /\ k[s] = g[c] + k[s \ {c}]
        BY <2>3, <2>5 DEF Sums
      <3> HIDE DEF c
      <3>3. h[s \ {c}] = k[s \ {c}] /\ f[c] = g[c]
        BY <2>2, <2>3, <3>1
      <3> QED BY <2>3, <3>2, <3>3
    <2> QED BY <2>4, <2>5
  <1> QED BY <1>1

LEMMA TotalIs ==
  ASSUME NEW S, IsFiniteSet(S), NEW f \in [S -> Nat]
  PROVE  \E h : Sums(h, f, S) /\ Total(f) = h[S]
  <1>1. \E h : Sums(h, f, S)
    BY SumsExist
  <1>2. Total(f) = (CHOOSE h : Sums(h, f, S))[S]
    <2>1. DOMAIN f = S
      OBVIOUS
    <2>2. Total(f) = (CHOOSE h : Sums(h, f, DOMAIN f))[DOMAIN f]
      BY DEF Total, FoldFunction, FoldFunctionOnSet, MapThenFoldSet, Sums, AnyOf
    <2> QED BY <2>1, <2>2
  <1> QED BY <1>1, <1>2

LEMMA TotalTyped ==
  ASSUME NEW S, IsFiniteSet(S), NEW f \in [S -> Nat]
  PROVE  Total(f) \in Nat /\ (S = {} => Total(f) = 0)
  <1>1. PICK h : Sums(h, f, S) /\ Total(f) = h[S]
    BY TotalIs
  <1> QED BY <1>1, SumsTyped

LEMMA TotalTake ==
  ASSUME NEW S, IsFiniteSet(S), NEW f \in [S -> Nat], NEW x \in S
  PROVE  Total(f) = f[x] + Total([y \in S \ {x} |-> f[y]])
  <1> DEFINE T == S \ {x}
             g == [y \in T |-> f[y]]
  <1>1. PICK h : Sums(h, f, S) /\ Total(f) = h[S]
    BY TotalIs
  <1>2. g \in [T -> Nat] /\ T \in SUBSET S /\ \A y \in T : f[y] = g[y]
    OBVIOUS
  <1>3. IsFiniteSet(T)
    BY FS_Subset
  <1>4. PICK k : Sums(k, g, T) /\ Total(g) = k[T]
    BY <1>2, <1>3, TotalIs
  <1> HIDE DEF T, g
  <1>5. h[T] = k[T]
    BY <1>1, <1>2, <1>4, SumsAgree
  <1>6. h[S] = f[x] + h[T]
    BY <1>1, SumsTake DEF T
  <1>7. Total(f) = f[x] + Total(g)
    BY <1>1, <1>4, <1>5, <1>6
  <1> QED BY <1>7 DEF g, T

LEMMA TotalAdds ==
  ASSUME NEW S, IsFiniteSet(S), NEW f \in [S -> Nat], NEW g \in [S -> Nat]
  PROVE  Total([x \in S |-> f[x] + g[x]]) = Total(f) + Total(g)
  <1> DEFINE both == [x \in S |-> f[x] + g[x]]
  <1>1. both \in [S -> Nat]
    OBVIOUS
  <1>2. PICK hf : Sums(hf, f, S) /\ Total(f) = hf[S]
    BY TotalIs
  <1>3. PICK hg : Sums(hg, g, S) /\ Total(g) = hg[S]
    BY TotalIs
  <1>4. PICK h : Sums(h, both, S) /\ Total(both) = h[S]
    BY <1>1, TotalIs
  <1> DEFINE bad == {s \in SUBSET S : h[s] # hf[s] + hg[s]}
  <1>5. bad = {}
    <2> SUFFICES ASSUME bad # {} PROVE FALSE
      OBVIOUS
    <2>1. \A s \in bad : IsFiniteSet(s)
      BY FS_Subset
    <2>2. PICK s \in bad : \A x \in s : s \ {x} \notin bad
      BY <2>1, SmallestSet
    <2>3. s \in SUBSET S /\ h[s] # hf[s] + hg[s]
      BY <2>2
    <2>4. CASE s = {}
      BY <1>2, <1>3, <1>4, <2>3, <2>4 DEF Sums
    <2>5. CASE s # {}
      <3> DEFINE c == AnyOf(s)
                 t == s \ {c}
      <3>1. c \in s /\ c \in S
        BY <2>3, <2>5 DEF AnyOf
      <3>2. hf[s] = f[c] + hf[t] /\ hg[s] = g[c] + hg[t] /\ h[s] = both[c] + h[t]
        BY <1>2, <1>3, <1>4, <2>3, <2>5 DEF Sums
      <3>3. h[t] = hf[t] + hg[t]
        BY <2>2, <2>3, <3>1
      <3>4. hf[t] \in Nat /\ hg[t] \in Nat
        <4>1. t \in SUBSET S
          BY <2>3
        <4> QED BY <1>2, <1>3, <4>1, SumsTyped
      <3>5. both[c] = f[c] + g[c] /\ f[c] \in Nat /\ g[c] \in Nat
        BY <3>1
      <3> HIDE DEF c, t, both
      <3> QED BY <2>3, <3>2, <3>3, <3>4, <3>5
    <2> QED BY <2>4, <2>5
  <1> HIDE DEF both
  <1>6. h[S] = hf[S] + hg[S]
    BY <1>5
  <1> QED BY <1>2, <1>3, <1>4, <1>6 DEF both

(* Members that count for nothing can be left out.                           *)
LEMMA TotalPad ==
  ASSUME NEW S, IsFiniteSet(S), NEW f \in [S -> Nat], NEW T \in SUBSET S,
         \A x \in S \ T : f[x] = 0
  PROVE  Total(f) = Total([x \in T |-> f[x]])
  <1> DEFINE g == [x \in T |-> f[x]]
  <1>1. g \in [T -> Nat] /\ \A x \in T : f[x] = g[x]
    OBVIOUS
  <1>2. IsFiniteSet(T)
    BY FS_Subset
  <1>3. PICK h : Sums(h, f, S) /\ Total(f) = h[S]
    BY TotalIs
  <1>4. PICK k : Sums(k, g, T) /\ Total(g) = k[T]
    BY <1>1, <1>2, TotalIs
  <1> HIDE DEF g
  <1>5. h[T] = k[T]
    BY <1>1, <1>3, <1>4, SumsAgree
  <1> DEFINE bad == {s \in SUBSET S : T \subseteq s /\ h[s] # h[T]}
  <1>6. bad = {}
    <2> SUFFICES ASSUME bad # {} PROVE FALSE
      OBVIOUS
    <2>1. \A s \in bad : IsFiniteSet(s)
      BY FS_Subset
    <2>2. PICK s \in bad : \A x \in s : s \ {x} \notin bad
      BY <2>1, SmallestSet
    <2>3. s \in SUBSET S /\ T \subseteq s /\ h[s] # h[T]
      BY <2>2
    <2>4. PICK x \in s : x \notin T
      BY <2>3
    <2>5. h[s] = f[x] + h[s \ {x}] /\ h[s \ {x}] \in Nat /\ f[x] = 0
      BY <1>3, <2>3, <2>4, SumsTake, SumsTyped
    <2>6. h[s \ {x}] = h[T]
      BY <2>2, <2>3, <2>4
    <2> QED BY <2>3, <2>5, <2>6
  <1>7. h[S] = h[T]
    BY <1>6
  <1> QED BY <1>3, <1>4, <1>5, <1>7 DEF g

-----------------------------------------------------------------------------
(* Points.                                                                   *)

PointsInv == IInv /\ awarded \in [Nick -> Nat] /\ NoPointsMinted

Holders(n, scores) == {q \in DOMAIN scores : players[q].nickname = n}

(* What the players named n hold, now and after a step.                      *)
LEMMA HeldIs ==
  ASSUME NEW n
  PROVE  /\ HeldBy(n, sessionScores)
              = Total([p \in Holders(n, sessionScores) |-> sessionScores[p]])
         /\ HeldBy(n, sessionScores)'
              = Total([p \in Holders(n, sessionScores)' |-> sessionScores'[p]])
  BY DEF HeldBy, Holders

LEMMA HeldTyped ==
  ASSUME IInv, NEW n, NEW scores, DOMAIN scores \subseteq DOMAIN players,
         scores \in [DOMAIN scores -> Nat]
  PROVE  /\ IsFiniteSet(Holders(n, scores))
         /\ IsFiniteSet(DOMAIN scores)
         /\ [p \in Holders(n, scores) |-> scores[p]] \in [Holders(n, scores) -> Nat]
         /\ HeldBy(n, scores) \in Nat
  <1> DEFINE H == Holders(n, scores)
             f == [p \in H |-> scores[p]]
  <1>1. IsFiniteSet(DOMAIN players)
    BY SeatsNumbered DEF IInv
  <1>2. H \subseteq DOMAIN scores
    BY DEF Holders
  <1>3. IsFiniteSet(DOMAIN scores) /\ IsFiniteSet(H)
    BY <1>1, <1>2, FS_Subset
  <1>4. f \in [H -> Nat]
    BY <1>2
  <1>5. HeldBy(n, scores) = Total(f)
    BY DEF HeldBy, Holders
  <1> HIDE DEF H, f
  <1>6. Total(f) \in Nat
    BY <1>3, <1>4, TotalTyped
  <1> QED BY <1>3, <1>4, <1>5, <1>6 DEF H, f

LEMMA HeldNow ==
  ASSUME IInv, NEW n
  PROVE  /\ IsFiniteSet(Holders(n, sessionScores))
         /\ [p \in Holders(n, sessionScores) |-> sessionScores[p]]
              \in [Holders(n, sessionScores) -> Nat]
         /\ HeldBy(n, sessionScores) \in Nat
         /\ Entry(scoreLedger, n) \in Nat
  <1>1. /\ DOMAIN sessionScores \subseteq DOMAIN players
        /\ sessionScores \in [DOMAIN sessionScores -> Nat]
        /\ scoreLedger \in [DOMAIN scoreLedger -> Nat]
    BY DEF IInv, TypeOK, ScoresSeated
  <1>2. Entry(scoreLedger, n) \in Nat
    BY <1>1 DEF Entry
  <1> QED BY <1>1, <1>2, HeldTyped

(* A joiner takes out of the ledger what it starts with.                     *)
LEMMA JoinPoints ==
  ASSUME IInv, NEW nick \in Nick, Join(nick), NEW n \in Nick
  PROVE  (HeldBy(n, sessionScores) + Entry(scoreLedger, n))'
           = HeldBy(n, sessionScores) + Entry(scoreLedger, n)
  <1> DEFINE id == minted + 1
             H == Holders(n, sessionScores)
             H1 == Holders(n, sessionScores)'
             f == [p \in H |-> sessionScores[p]]
             f1 == [p \in H1 |-> sessionScores'[p]]
  <1>1. /\ id \notin DOMAIN players
        /\ DOMAIN sessionScores \subseteq DOMAIN players
        /\ id \notin DOMAIN sessionScores
    <2>1. DOMAIN players \subseteq 1..minted /\ minted \in Nat
      BY DEF IInv, IdsMinted, TypeOK
    <2>2. DOMAIN sessionScores \subseteq DOMAIN players
      BY DEF IInv, ScoresSeated
    <2> QED BY <2>1, <2>2
  <1>2. /\ players' = Put(players, id, SeatFor(nick))
        /\ sessionScores' = Reclaimed(id, nick)
        /\ scoreLedger' = omit(scoreLedger, nick)
    BY DEF Join, SlotUsed
  <1>3. /\ \A p \in DOMAIN players : players'[p] = players[p]
        /\ players'[id].nickname = nick
    BY <1>1, <1>2 DEF Put, SeatFor
  <1>4. /\ HeldBy(n, sessionScores) = Total(f)
        /\ HeldBy(n, sessionScores)' = Total(f1)
    BY HeldIs
  <1>5. /\ IsFiniteSet(H) /\ f \in [H -> Nat]
        /\ Total(f) \in Nat /\ Entry(scoreLedger, n) \in Nat
    BY <1>4, HeldNow
  <1>6. n # nick => Entry(scoreLedger', n) = Entry(scoreLedger, n)
    BY <1>2 DEF omit, Entry
  <1>7. n = nick => Entry(scoreLedger', n) = 0
    BY <1>2 DEF omit, Entry
  <1>8. CASE nick \notin DOMAIN scoreLedger \/ n # nick
    <2>1. H1 = H /\ \A p \in H : sessionScores'[p] = sessionScores[p]
      <3>1. CASE nick \in DOMAIN scoreLedger
        <4>1. sessionScores' = Put(sessionScores, id, scoreLedger[nick])
          BY <1>2, <3>1 DEF Reclaimed
        <4> QED BY <1>1, <1>3, <1>8, <3>1, <4>1 DEF Holders, Put
      <3>2. CASE nick \notin DOMAIN scoreLedger
        <4>1. sessionScores' = sessionScores
          BY <1>2, <3>2 DEF Reclaimed
        <4> QED BY <1>1, <1>3, <4>1 DEF Holders
      <3> QED BY <3>1, <3>2
    <2>2. f1 = f
      BY <2>1
    <2>3. n = nick => Entry(scoreLedger, n) = 0
      BY <1>8 DEF Entry
    <2>4. Entry(scoreLedger', n) = Entry(scoreLedger, n)
      BY <1>6, <1>7, <2>3
    <2>5. Entry(scoreLedger, n)' = Entry(scoreLedger', n)
      BY DEF Entry
    <2> QED BY <1>4, <2>2, <2>4, <2>5
  <1>9. CASE nick \in DOMAIN scoreLedger /\ n = nick
    <2>1. sessionScores' = Put(sessionScores, id, scoreLedger[nick])
      BY <1>2, <1>9 DEF Reclaimed
    <2>2. H1 = H \cup {id} /\ H1 \ {id} = H /\ id \notin H
      BY <1>1, <1>3, <1>9, <2>1 DEF Holders, Put
    <2>3. sessionScores'[id] = scoreLedger[nick]
          /\ \A p \in H : sessionScores'[p] = sessionScores[p]
      BY <1>1, <2>1 DEF Holders, Put
    <2>4. Entry(scoreLedger, n) = scoreLedger[nick]
      BY <1>9 DEF Entry
    <2>5. f1[id] = Entry(scoreLedger, n) /\ [p \in H1 \ {id} |-> f1[p]] = f
      BY <2>2, <2>3, <2>4
    <2>6. IsFiniteSet(H1)
      BY <1>5, <2>2, FS_AddElement
    <2>7. f1 \in [H1 -> Nat]
      BY <1>5, <2>2, <2>3, <2>4
    <2> HIDE DEF f1, f, H1, H, id
    <2>8. id \in H1
      BY <2>2
    <2>9. Total(f1) = f1[id] + Total([p \in H1 \ {id} |-> f1[p]])
      BY <2>6, <2>7, <2>8, TotalTake
    <2>10. Total(f1) = Entry(scoreLedger, n) + Total(f)
      BY <2>5, <2>9
    <2>11. Entry(scoreLedger, n)' = 0
      BY <1>7, <1>9 DEF Entry
    <2> QED BY <1>4, <1>5, <2>10, <2>11
  <1> QED BY <1>8, <1>9

(* A leaver's score is parked, over what somebody of that name had parked.   *)
LEMMA LeavePoints ==
  ASSUME IInv, NEW p \in PlayerId, Leave(p), NEW n \in Nick, NEW most \in Nat,
         HeldBy(n, sessionScores) + Entry(scoreLedger, n) <= most
  PROVE  (HeldBy(n, sessionScores) + Entry(scoreLedger, n))' <= most
  <1> DEFINE H == Holders(n, sessionScores)
             H1 == Holders(n, sessionScores)'
             f == [q \in H |-> sessionScores[q]]
             f1 == [q \in H1 |-> sessionScores'[q]]
  <1>1. /\ p \in DOMAIN players
        /\ DOMAIN sessionScores \subseteq DOMAIN players
        /\ sessionScores \in [DOMAIN sessionScores -> Nat]
    BY DEF IInv, TypeOK, ScoresSeated, Leave
  <1>2. /\ players' = omit(players, p)
        /\ sessionScores' = omit(sessionScores, p)
        /\ scoreLedger' = IF p \in DOMAIN sessionScores
                          THEN Put(scoreLedger, players[p].nickname, sessionScores[p])
                          ELSE scoreLedger
    BY DEF Leave
  <1>3. H1 = H \ {p} /\ \A q \in H1 : sessionScores'[q] = sessionScores[q]
    <2>1. /\ DOMAIN sessionScores' = DOMAIN sessionScores \ {p}
          /\ \A q \in DOMAIN sessionScores' : sessionScores'[q] = sessionScores[q]
          /\ \A q \in DOMAIN sessionScores' : players'[q] = players[q]
      BY <1>1, <1>2 DEF omit
    <2> QED BY <2>1 DEF Holders
  <1>4. /\ HeldBy(n, sessionScores) = Total(f)
        /\ HeldBy(n, sessionScores)' = Total(f1)
    BY HeldIs
  <1>5. /\ IsFiniteSet(H) /\ f \in [H -> Nat]
        /\ Total(f) \in Nat /\ Entry(scoreLedger, n) \in Nat
    BY <1>4, HeldNow
  <1>6. Entry(scoreLedger, n)' = Entry(scoreLedger', n)
    BY DEF Entry
  <1>7. CASE p \notin H
    <2>1. f1 = f
      BY <1>3, <1>7
    <2>2. Entry(scoreLedger', n) = Entry(scoreLedger, n)
      <3>1. CASE p \in DOMAIN sessionScores
        <4>1. players[p].nickname # n
          BY <1>7, <3>1 DEF Holders
        <4> QED BY <1>2, <3>1, <4>1 DEF Put, Entry
      <3>2. CASE p \notin DOMAIN sessionScores
        BY <1>2, <3>2
      <3> QED BY <3>1, <3>2
    <2> HIDE DEF f1, f
    <2> QED BY <1>4, <1>5, <1>6, <2>1, <2>2
  <1>8. CASE p \in H
    <2>1. p \in DOMAIN sessionScores /\ players[p].nickname = n
      BY <1>8 DEF Holders
    <2>2. Entry(scoreLedger', n) = f[p] /\ f[p] \in Nat
      BY <1>1, <1>2, <1>8, <2>1 DEF Put, Entry
    <2>3. f1 = [q \in H \ {p} |-> f[q]]
      BY <1>3
    <2>4. f1 \in [H1 -> Nat] /\ IsFiniteSet(H1)
      BY <1>3, <1>5, <2>3, FS_RemoveElement
    <2> HIDE DEF f1, f, H1, H
    <2>5. Total(f) = f[p] + Total(f1)
      BY <1>5, <1>8, <2>3, TotalTake
    <2>6. Total(f1) \in Nat
      BY <2>4, TotalTyped
    <2> QED BY <1>4, <1>5, <1>6, <2>2, <2>5, <2>6
  <1> QED BY <1>7, <1>8

(* A fold pays each name what its holders earned.                            *)
LEMMA FoldPoints ==
  ASSUME IInv, NEW points, points \in [DOMAIN points -> 0..MaxPoints],
         NEW scores, scores = [p \in DOMAIN points \cap DOMAIN players |-> points[p]],
         sessionScores' = foldScores(sessionScores, scores),
         UNCHANGED <<players, scoreLedger>>, NEW n \in Nick
  PROVE  /\ HeldBy(n, scores) \in Nat
         /\ (HeldBy(n, sessionScores) + Entry(scoreLedger, n))'
              = HeldBy(n, sessionScores) + Entry(scoreLedger, n) + HeldBy(n, scores)
  <1> DEFINE H == Holders(n, sessionScores)
             G == Holders(n, scores)
             U == H \cup G
             f == [p \in H |-> sessionScores[p]]
             g == [p \in G |-> scores[p]]
             fU == [p \in U |-> Entry(sessionScores, p)]
             gU == [p \in U |-> Entry(scores, p)]
             f1 == [p \in Holders(n, sessionScores)' |-> sessionScores'[p]]
  <1>1. DOMAIN scores \subseteq DOMAIN players /\ scores \in [DOMAIN scores -> Nat]
    <2>1. 0..MaxPoints \subseteq Nat
      BY RoomAssumption
    <2> QED BY <2>1
  <1>2. /\ IsFiniteSet(H) /\ f \in [H -> Nat]
        /\ HeldBy(n, sessionScores) \in Nat /\ Entry(scoreLedger, n) \in Nat
        /\ HeldBy(n, sessionScores) = Total(f)
    BY HeldNow, HeldIs
  <1>3. IsFiniteSet(G) /\ g \in [G -> Nat] /\ HeldBy(n, scores) \in Nat
    BY <1>1, HeldTyped
  <1>4. HeldBy(n, scores) = Total(g)
    BY DEF HeldBy, Holders
  <1>5. IsFiniteSet(U) /\ H \in SUBSET U /\ G \in SUBSET U
    BY <1>2, <1>3, FS_Union
  <1>6. /\ \A p \in H : Entry(sessionScores, p) = sessionScores[p]
        /\ \A p \in U \ H : Entry(sessionScores, p) = 0
        /\ \A p \in G : Entry(scores, p) = scores[p]
        /\ \A p \in U \ G : Entry(scores, p) = 0
    BY DEF Entry, Holders
  <1>7. fU \in [U -> Nat] /\ gU \in [U -> Nat]
    BY <1>2, <1>3, <1>6
  <1>8. f1 = [p \in U |-> fU[p] + gU[p]]
    <2>1. /\ DOMAIN sessionScores' = DOMAIN sessionScores \cup DOMAIN scores
          /\ \A p \in DOMAIN sessionScores' :
               sessionScores'[p] = Entry(sessionScores, p) + Entry(scores, p)
      BY DEF foldScores
    <2>2. Holders(n, sessionScores)' = U
      BY <2>1 DEF Holders
    <2>3. U \subseteq DOMAIN sessionScores'
      BY <2>1 DEF Holders
    <2> QED BY <2>1, <2>2, <2>3
  <1>9. f = [p \in H |-> fU[p]] /\ g = [p \in G |-> gU[p]]
    BY <1>5, <1>6
  <1>10. HeldBy(n, sessionScores)' = Total(f1)
    BY HeldIs
  <1>11. (\A p \in U \ H : fU[p] = 0) /\ (\A p \in U \ G : gU[p] = 0)
    BY <1>6
  <1>12. Entry(scoreLedger, n)' = Entry(scoreLedger, n)
    BY DEF Entry
  <1> HIDE DEF H, G, U, f, g, fU, gU, f1
  <1>13. Total(f1) = Total(fU) + Total(gU)
    BY <1>5, <1>7, <1>8, TotalAdds
  <1>14. Total(fU) = Total(f) /\ Total(gU) = Total(g)
    BY <1>5, <1>7, <1>9, <1>11, TotalPad
  <1>15. HeldBy(n, sessionScores)' = HeldBy(n, sessionScores) + HeldBy(n, scores)
    BY <1>2, <1>4, <1>10, <1>13, <1>14
  <1> QED BY <1>2, <1>3, <1>12, <1>15

LEMMA AwardPoints ==
  ASSUME PointsInv, NEW points, points \in [DOMAIN points -> 0..MaxPoints],
         sessionScores' = foldScores(sessionScores,
                            [p \in DOMAIN points \cap DOMAIN players |-> points[p]]),
         UNCHANGED <<players, scoreLedger>>, Award(points)
  PROVE  awarded' \in [Nick -> Nat] /\ NoPointsMinted'
  <1> DEFINE scores == [p \in DOMAIN points \cap DOMAIN players |-> points[p]]
  <1>1. awarded' = [n \in Nick |-> awarded[n] + HeldBy(n, scores)]
    BY DEF Award
  <1>2. IInv /\ awarded \in [Nick -> Nat]
    BY DEF PointsInv
  <1>3. ASSUME NEW n \in Nick
        PROVE  /\ HeldBy(n, scores) \in Nat
               /\ (HeldBy(n, sessionScores) + Entry(scoreLedger, n))'
                    = HeldBy(n, sessionScores) + Entry(scoreLedger, n) + HeldBy(n, scores)
    <2>1. sessionScores' = foldScores(sessionScores, scores)
      OBVIOUS
    <2> QED BY <1>2, <2>1, FoldPoints
  <1> HIDE DEF scores
  <1>4. awarded' \in [Nick -> Nat]
    <2>1. ASSUME NEW n \in Nick PROVE awarded[n] + HeldBy(n, scores) \in Nat
      <3>1. awarded[n] \in Nat
        BY <1>2
      <3>2. HeldBy(n, scores) \in Nat
        BY <1>3
      <3>3. \A x, y \in Nat : x + y \in Nat
        OBVIOUS
      <3> QED BY <3>1, <3>2, <3>3
    <2> QED BY <1>1, <2>1
  <1>5. ASSUME NEW n \in Nick
        PROVE  (HeldBy(n, sessionScores) + Entry(scoreLedger, n) <= awarded[n])'
    <2>1. /\ HeldBy(n, sessionScores) + Entry(scoreLedger, n) <= awarded[n]
          /\ awarded[n] \in Nat /\ awarded'[n] = awarded[n] + HeldBy(n, scores)
      BY <1>1, <1>2 DEF PointsInv, NoPointsMinted
    <2>2. HeldBy(n, sessionScores) \in Nat /\ Entry(scoreLedger, n) \in Nat
      BY <1>2, HeldNow
    <2>3. HeldBy(n, sessionScores) + Entry(scoreLedger, n) + HeldBy(n, scores) <= awarded'[n]
      BY <1>3, <2>1, <2>2
    <2> QED BY <1>3, <2>3
  <1> QED BY <1>4, <1>5 DEF NoPointsMinted

(* A step that pays nobody and moves no score.                               *)
LEMMA PointsUntouched ==
  ASSUME PointsInv, UNCHANGED <<sessionScores, scoreLedger, awarded>>,
         \A p \in DOMAIN sessionScores : players'[p].nickname = players[p].nickname
  PROVE  awarded' \in [Nick -> Nat] /\ NoPointsMinted'
  <1>1. \A n : Holders(n, sessionScores)' = Holders(n, sessionScores)
    BY DEF Holders
  <1>2. ASSUME NEW n \in Nick
        PROVE  /\ HeldBy(n, sessionScores)' = HeldBy(n, sessionScores)
               /\ Entry(scoreLedger, n)' = Entry(scoreLedger, n)
    <2>1. [p \in Holders(n, sessionScores)' |-> sessionScores'[p]]
            = [p \in Holders(n, sessionScores) |-> sessionScores[p]]
      BY <1>1
    <2>2. Entry(scoreLedger, n)' = Entry(scoreLedger, n)
      BY DEF Entry
    <2> QED BY <2>1, <2>2, HeldIs
  <1> QED BY <1>2 DEF PointsInv, NoPointsMinted

(* A new session: nobody holds anything.                                     *)
LEMMA PointsWiped ==
  ASSUME IInv, awarded \in [Nick -> Nat], sessionScores' = NoEntries,
         \/ scoreLedger' = NoEntries /\ awarded' = NothingAwarded
         \/ UNCHANGED <<scoreLedger, awarded>> /\ NoPointsMinted
  PROVE  awarded' \in [Nick -> Nat] /\ NoPointsMinted'
  <1>1. awarded' \in [Nick -> Nat]
    BY DEF NothingAwarded
  <1>2. ASSUME NEW n \in Nick
        PROVE  HeldBy(n, sessionScores)' = 0
    <2> DEFINE none == [p \in {} |-> sessionScores'[p]]
    <2>1. Holders(n, sessionScores)' = {}
      BY DEF Holders, NoEntries
    <2>2. HeldBy(n, sessionScores)' = Total(none)
      BY <2>1, HeldIs
    <2>3. none \in [{} -> Nat] /\ IsFiniteSet({})
      BY FS_EmptySet
    <2> HIDE DEF none
    <2> QED BY <2>2, <2>3, TotalTyped
  <1>3. ASSUME NEW n \in Nick
        PROVE  Entry(scoreLedger, n)' \in Nat /\ Entry(scoreLedger, n)' <= awarded'[n]
    <2>1. CASE scoreLedger' = NoEntries /\ awarded' = NothingAwarded
      BY <2>1 DEF Entry, NoEntries, NothingAwarded
    <2>2. CASE UNCHANGED <<scoreLedger, awarded>> /\ NoPointsMinted
      <3>1. Entry(scoreLedger, n)' = Entry(scoreLedger, n)
        BY <2>2 DEF Entry
      <3>2. HeldBy(n, sessionScores) + Entry(scoreLedger, n) <= awarded[n]
        BY <2>2 DEF NoPointsMinted
      <3> QED BY <2>2, <3>1, <3>2, HeldNow
    <2> QED BY <2>1, <2>2
  <1> QED BY <1>1, <1>2, <1>3 DEF NoPointsMinted

LEMMA TallyPoints ==
  ASSUME PointsInv, TallyNext
  PROVE  awarded' \in [Nick -> Nat] /\ NoPointsMinted'
  <1> DEFINE Goal == awarded' \in [Nick -> Nat] /\ NoPointsMinted'
  <1>1. IInv /\ TypeOK /\ awarded \in [Nick -> Nat] /\ NoPointsMinted
    BY DEF PointsInv, IInv
  <1>2. \A n \in Nick :
          /\ HeldBy(n, sessionScores) \in Nat /\ Entry(scoreLedger, n) \in Nat
          /\ awarded[n] \in Nat
          /\ HeldBy(n, sessionScores) + Entry(scoreLedger, n) <= awarded[n]
    BY <1>1, HeldNow DEF NoPointsMinted
  <1>3. CASE HostLeave /\ Watched
    BY <1>3, PointsUntouched DEF HostLeave, Watched
  <1>4. ASSUME NEW nick \in Nick, Join(nick), Watched PROVE Goal
    <2>1. \A n \in Nick : (HeldBy(n, sessionScores) + Entry(scoreLedger, n))' <= awarded'[n]
      BY <1>1, <1>2, <1>4, JoinPoints DEF Watched
    <2> QED BY <1>1, <1>4, <2>1 DEF NoPointsMinted, Watched
  <1>5. ASSUME NEW p \in PlayerId, Leave(p), Watched PROVE Goal
    <2>1. ASSUME NEW n \in Nick
          PROVE  (HeldBy(n, sessionScores) + Entry(scoreLedger, n))' <= awarded'[n]
      BY <1>1, <1>2, <1>5, LeavePoints DEF Watched
    <2> QED BY <1>1, <1>5, <2>1 DEF NoPointsMinted, Watched
  <1>6. CASE Pick /\ awarded' = NothingAwarded
    BY <1>1, <1>6, PointsWiped DEF Pick, SelectGame
  <1>7. CASE ChangeSet /\ awarded' = awarded
    BY <1>1, <1>7, PointsWiped DEF ChangeSet, ConfigureGame
  <1>8. CASE StartGame /\ Watched
    <2>1. /\ players' = seatWindow(MaxPlayers[selectedGameId], round + 1)
          /\ UNCHANGED <<sessionScores, scoreLedger, awarded>>
      BY <1>8 DEF StartGame, Watched
    <2>2. \A p \in DOMAIN players : players'[p].nickname = players[p].nickname
      <3>1. \A p \in DOMAIN players : players[p] \in Player
        BY <1>1 DEF TypeOK
      <3> QED BY <2>1, <3>1 DEF seatWindow, Player
    <2>3. DOMAIN sessionScores \subseteq DOMAIN players
      BY <1>1 DEF IInv, ScoresSeated
    <2> QED BY <2>1, <2>2, <2>3, PointsUntouched
  <1>9. ASSUME NEW points, GameEvent(points, FALSE), Watched PROVE Goal
    BY <1>9, PointsUntouched DEF GameEvent, Watched
  <1>10. ASSUME NEW points \in [DOMAIN gameState.points -> 0..MaxPoints],
                GameEvent(points, TRUE), Award(points)
         PROVE  Goal
    <2>1. gameState'.points = points
      BY <1>1, <1>10 DEF GameEvent, TypeOK
    <2>2. /\ sessionScores' = foldScores(sessionScores, roundScores(gameState'))
          /\ UNCHANGED <<players, scoreLedger>>
      BY <1>10 DEF GameEvent
    <2>3. sessionScores' = foldScores(sessionScores,
                             [p \in DOMAIN points \cap DOMAIN players |-> points[p]])
      BY <2>1, <2>2 DEF roundScores
    <2>4. points \in [DOMAIN points -> 0..MaxPoints]
      OBVIOUS
    <2> QED BY <1>10, <2>2, <2>3, <2>4, AwardPoints
  <1>11. CASE EndGame /\ Award(gameState.points)
    <2>1. /\ sessionScores' = foldScores(sessionScores, roundScores(gameState))
          /\ UNCHANGED <<players, scoreLedger>>
      BY <1>11 DEF EndGame
    <2>2. sessionScores' = foldScores(sessionScores,
            [p \in DOMAIN gameState.points \cap DOMAIN players |-> gameState.points[p]])
      BY <2>1 DEF roundScores
    <2>3. gameState.points \in [DOMAIN gameState.points -> 0..MaxPoints]
      BY <1>1 DEF TypeOK
    <2> QED BY <1>11, <2>1, <2>2, <2>3, AwardPoints
  <1> QED BY <1>3, <1>4, <1>5, <1>6, <1>7, <1>8, <1>9, <1>10, <1>11 DEF TallyNext

LEMMA NextPoints ==
  ASSUME PointsInv, [TallyNext]_tallyVars
  PROVE  PointsInv'
  <1>1. CASE UNCHANGED tallyVars
    BY <1>1, NextIInv, PointsUntouched DEF tallyVars, vars, PointsInv
  <1>2. CASE TallyNext
    BY <1>2, NextIInv, TallyMoves, TallyPoints DEF PointsInv
  <1> QED BY <1>1, <1>2

LEMMA InitPoints == TallyInit => PointsInv
  <1> SUFFICES ASSUME TallyInit PROVE PointsInv
    OBVIOUS
  <1>1. IInv
    BY InitIInv DEF TallyInit
  <1>2. awarded \in [Nick -> Nat] /\ \A n \in Nick : awarded[n] = 0
    BY DEF TallyInit, NothingAwarded
  <1>3. sessionScores = NoEntries /\ scoreLedger = NoEntries
    BY DEF TallyInit, Init
  <1>4. ASSUME NEW n \in Nick
        PROVE  HeldBy(n, sessionScores) = 0 /\ Entry(scoreLedger, n) = 0
    <2> DEFINE none == [p \in {} |-> sessionScores[p]]
    <2>1. Holders(n, sessionScores) = {}
      BY <1>3 DEF Holders, NoEntries
    <2>2. HeldBy(n, sessionScores) = Total(none)
      BY <2>1, HeldIs
    <2>3. none \in [{} -> Nat] /\ IsFiniteSet({})
      BY FS_EmptySet
    <2> HIDE DEF none
    <2>4. HeldBy(n, sessionScores) = 0
      BY <2>2, <2>3, TotalTyped
    <2>5. Entry(scoreLedger, n) = 0
      BY <1>3 DEF Entry, NoEntries
    <2> QED BY <2>4, <2>5
  <1> QED BY <1>1, <1>2, <1>4 DEF PointsInv, NoPointsMinted

(* No order of leaves, rejoins, picks and folds pays a point twice or to     *)
(* another name (room.ts:94-107, 117-126, 267-276).                          *)
THEOREM TallyNoPointsMinted == TallySpec => []NoPointsMinted
  <1>1. PointsInv => NoPointsMinted
    BY DEF PointsInv
  <1> QED BY <1>1, InitPoints, NextPoints, PTL DEF TallySpec
=============================================================================
