------------------------------ MODULE Standings ------------------------------
(***************************************************************************)
(* What the screens show of the tally (web components/standings.tsx and    *)
(* PlayerScreen.tsx): the board's table at the end of a round, the phones' *)
(* list at the same time, and the line above it with one's own rank.  Each *)
(* is computed from a frame by code of its own.  A table is a function of  *)
(* its rows, by player; equal rows may stand in either order.              *)
(***************************************************************************)
EXTENDS RoomTally

(* Competition ranking: equal points share a rank (1, 1, 3), and all at the  *)
(* top lead, unless the top is nothing.                                      *)
PlaceOf(points, p) ==
  1 + Cardinality({q \in DOMAIN points :
                     points[q] > points[p] \/ (points[q] = points[p] /\ q < p)})
RankOf(points, p) == 1 + Cardinality({q \in DOMAIN points : points[q] > points[p]})

ranked(points) ==
  [p \in DOMAIN points |->
     [points |-> points[p], rank |-> RankOf(points, p),
      lead |-> points[p] > 0 /\ \A q \in DOMAIN points : points[q] <= points[p]]]

(* The tally as a frame carries it and a screen keeps it: of who is here.    *)
Shown(scores) == [p \in DOMAIN scores \cap DOMAIN players |-> scores[p]]

SessionStandings == ranked(Shown(sessionScores))

(* The board's table has a row for whoever the session or the round credits. *)
frameScores == IF phase = "SCORES" THEN roundScores(gameState) ELSE NoEntries
standingRows ==
  [p \in DOMAIN players \cap (DOMAIN sessionScores \cup DOMAIN frameScores) |->
     [round |-> Entry(frameScores, p), total |-> Entry(sessionScores, p)]]
RoundStandings == ranked([p \in DOMAIN standingRows |-> standingRows[p].total])

(* The line on a phone, from question one on.                                *)
SessionLine(p) ==
  LET scores == Shown(sessionScores)
      mine == Entry(scores, p)
  IN  [rank |-> 1 + Cardinality({q \in DOMAIN scores : scores[q] > mine}),
       of |-> Cardinality(DOMAIN scores), points |-> mine]

-----------------------------------------------------------------------------
(* When a round is over every screen tells the same standings: the board's   *)
(* table and the phones' list have the same rows with the same points and    *)
(* ranks, each phone's own line says what they say of its player, and the    *)
(* points of the round just played are already in the totals next to them,   *)
(* whoever left or came back since (standings.tsx:13-23, 123-135;            *)
(* PlayerScreen.tsx:36-64; roomSession.ts:362-383).  A set changed after the *)
(* round has wiped the tally and goes back to question zero.                 *)
OneRanking ==
  phase = "SCORES" /\ round > 0 =>
    /\ RoundStandings = SessionStandings
    /\ \A p \in DOMAIN standingRows : standingRows[p].round <= standingRows[p].total
    /\ \A p \in DOMAIN SessionStandings :
         SessionLine(p) = [rank |-> SessionStandings[p].rank,
                           of |-> Cardinality(DOMAIN RoundStandings),
                           points |-> SessionStandings[p].points]
=============================================================================
