----------------------------- MODULE RoomSeating -----------------------------
(***************************************************************************)
(* The room of Room.tla watched by a spectator of its rounds: which        *)
(* questions the session asked and how often each player sat out.          *)
(***************************************************************************)
EXTENDS Room, Sequences

CONSTANT MaxDeals      \* bound: rounds played, over all sessions

VARIABLES asked,       \* the questions of this session, in order
          benched,     \* id -> rounds in a row it sat out in an unchanged roster
          satOut,      \* players the window left out of the session's last round
          fits,        \* did two rounds' windows hold everybody of that round?
          deals        \* rounds started since the room was opened

seatingVars == <<vars, asked, benched, satOut, fits, deals>>

Seats == IF selectedGameId = NoGame THEN 0 ELSE MaxPlayers[selectedGameId]
AllFresh(S) == [p \in S |-> 0]

SeatingInit ==
  /\ Init
  /\ asked = <<>>
  /\ benched = AllFresh({})
  /\ satOut = {}
  /\ fits = FALSE
  /\ deals = 0

(* Somebody came or went: rounds sat out are counted from here. *)
RosterChange ==
  /\ (\E nick \in Nick : Join(nick)) \/ (\E p \in PlayerId : Leave(p))
  /\ benched' = AllFresh(DOMAIN players')
  /\ UNCHANGED <<asked, satOut, fits, deals>>

NewSession ==
  /\ (\E g \in GameId : SelectGame(g)) \/ (\E c \in Config \cup {Unset} : ConfigureGame(c))
  /\ benched' = AllFresh(DOMAIN players)
  /\ asked' = <<>> /\ satOut' = {} /\ fits' = FALSE
  /\ UNCHANGED deals

(* A question game asks the round-th question of the set it is given.        *)
Deal ==
  /\ deals < MaxDeals
  /\ StartGame
  /\ deals' = deals + 1
  /\ asked' = Append(asked, <<gameConfig, round'>>)
  /\ benched' = [p \in DOMAIN players |-> IF players'[p].spectator THEN benched[p] + 1 ELSE 0]
  /\ satOut' = {p \in DOMAIN players : players'[p].spectator}
  /\ fits' = (Cardinality(DOMAIN players) <= 2 * Seats)

SeatingNext ==
  \/ HostLeave /\ UNCHANGED <<asked, benched, satOut, fits, deals>>
  \/ /\ ~closed
     /\ \/ RosterChange
        \/ NewSession
        \/ Deal
        \/ /\ \/ \E points \in [DOMAIN gameState.points -> 0..MaxPoints], complete \in BOOLEAN :
                   GameEvent(points, complete)
              \/ EndGame
           /\ UNCHANGED <<asked, benched, satOut, fits, deals>>

SeatingSpec == SeatingInit /\ [][SeatingNext]_seatingVars

-----------------------------------------------------------------------------
(* The rotating window, wrapping around the end of the roster, deals in as   *)
(* many players as the game has seats, or everybody, and never fewer than    *)
(* the game needs (rounds.ts:10-22, room.ts:194-206).                        *)
WindowFull ==
  [][~InGame /\ InGame' =>
       LET n == Cardinality(DOMAIN players)
       IN  /\ Cardinality(gameState'.roster) = IF n < Seats THEN n ELSE Seats
           /\ Cardinality(gameState'.roster) >= MinPlayers[selectedGameId]]_seatingVars

(* With nobody coming or going, a player sits out only as many rounds in a   *)
(* row as it takes the window to go once around (rounds.ts:5-8).             *)
BenchRotates ==
  \A p \in DOMAIN benched :
    benched[p] > 0 => benched[p] * Seats < Cardinality(DOMAIN players)

(* The set is the session: its rounds ask the questions of the current set   *)
(* from the first, none skipped, none twice, and no more than the set has,   *)
(* however often the host changes games and sets (room.ts:149-152, 172-179,  *)
(* 197-203).                                                                 *)
WalksTheSet ==
  /\ asked = [i \in 1..round |-> <<gameConfig, i>>]
  /\ selectedGameId # NoGame => round <= RoundCount[<<selectedGameId, gameConfig>>]

(* The comment at rounds.ts:6: the window advances so that benched players   *)
(* are dealt in next time.  In one session, in rooms the window covers in    *)
(* two rounds, nobody the window left out is left out again.                 *)
DealtInNextTime ==
  [][/\ ~InGame /\ InGame' /\ fits /\ fits'
     => \A p \in satOut \cap DOMAIN players : ~players'[p].spectator]_seatingVars
=============================================================================
