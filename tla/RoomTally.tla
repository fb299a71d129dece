------------------------------ MODULE RoomTally ------------------------------
(***************************************************************************)
(* The room of Room.tla watched by a bookkeeper: which points its rounds   *)
(* awarded, to which nickname, and how many rounds were folded into the    *)
(* tally.  The bookkeeper reads the room and changes nothing in it.        *)
(***************************************************************************)
EXTENDS Room, Functions

CONSTANT MaxPlays       \* bound: rounds played, over all sessions

VARIABLES awarded,     \* nickname -> points folded since the game was picked
          setAwarded,  \* points folded since the game was picked or its set changed
          folds,       \* rounds folded since then
          plays        \* rounds started since the room was opened

tallyVars == <<vars, awarded, setAwarded, folds, plays>>

Total(f) == FoldFunction(+, 0, f)

(* The points of a fold that go to the holders of nickname n. *)
HeldBy(n, scores) ==
  Total([p \in {q \in DOMAIN scores : players[q].nickname = n} |-> scores[p]])

NothingAwarded == [n \in Nick |-> 0]

TallyInit ==
  /\ Init
  /\ awarded = NothingAwarded
  /\ setAwarded = 0
  /\ folds = 0
  /\ plays = 0

Watched == UNCHANGED <<awarded, setAwarded, folds>>

(* A round ends: what the room folds are the game's points of seated players. *)
Award(points) ==
  LET scores == [p \in DOMAIN points \cap DOMAIN players |-> points[p]]
  IN  /\ awarded' = [n \in Nick |-> awarded[n] + HeldBy(n, scores)]
      /\ setAwarded' = setAwarded + Total(scores)
      /\ folds' = folds + 1

Pick == \E g \in GameId : SelectGame(g)
ChangeSet == \E c \in Config \cup {Unset} : ConfigureGame(c)

(* No event reaches a room that is closed: its session is evicted.           *)
TallyNext ==
  \/ HostLeave /\ Watched /\ plays' = plays
  \/ /\ ~closed
     /\ \/ (\E nick \in Nick : Join(nick)) /\ Watched /\ plays' = plays
        \/ (\E p \in PlayerId : Leave(p)) /\ Watched /\ plays' = plays
        \/ /\ Pick
           /\ awarded' = NothingAwarded /\ setAwarded' = 0 /\ folds' = 0
           /\ plays' = plays
        \/ /\ ChangeSet
           /\ awarded' = awarded /\ setAwarded' = 0 /\ folds' = 0
           /\ plays' = plays
        \/ plays < MaxPlays /\ StartGame /\ Watched /\ plays' = plays + 1
        \/ \E points \in [DOMAIN gameState.points -> 0..MaxPoints] :
             /\ \/ GameEvent(points, FALSE) /\ Watched
                \/ GameEvent(points, TRUE) /\ Award(points)
             /\ plays' = plays
        \/ EndGame /\ Award(gameState.points) /\ plays' = plays

TallySpec == TallyInit /\ [][TallyNext]_tallyVars

-----------------------------------------------------------------------------
(* Points are conserved: what the players named n hold in the tally, and     *)
(* what a leaver named n has parked, was awarded by rounds of this game to   *)
(* players named n.  No order of leaves, reaps, rejoins and folds pays a     *)
(* point twice or to another name (room.ts:94-107, 117-126, 267-276).        *)
NoPointsMinted ==
  \A n \in Nick : HeldBy(n, sessionScores) + Entry(scoreLedger, n) <= awarded[n]

(* Every round of the session is folded into the tally exactly once: by its  *)
(* last game event or by the host's endGame, never by both, and no new round *)
(* starts before the last one was counted (room.ts:235-242, 251-260).        *)
FoldedOnce == folds = IF InGame THEN round - 1 ELSE round

(* A standing never drops: a step that lowers or removes the score of a      *)
(* player who stays seated is the start of a new session, which wipes the    *)
(* whole tally and goes back to question one (room.ts:153-161, 179).         *)
StandingKept ==
  \A p \in DOMAIN sessionScores \cap DOMAIN players' :
    p \in DOMAIN sessionScores' /\ sessionScores'[p] >= sessionScores[p]
StandingsKept ==
  [][StandingKept \/ (sessionScores' = NoEntries /\ round' = 0 /\ ~InGame')]_tallyVars

(* The comment at room.ts:172: a changed set is a new session with a fresh   *)
(* tally.  Nobody's score then holds points of an earlier set.               *)
FreshTally == Total(sessionScores) <= setAwarded
=============================================================================
