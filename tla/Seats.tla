-------------------------------- MODULE Seats --------------------------------
(***************************************************************************)
(* What a room promises the people in it, without sockets, timers, frames  *)
(* or a game.  A player sits down once.  A player or a board that is cut   *)
(* off stays away for a while, and may come back to the same seat; if it   *)
(* stays away it is given up.  Nobody loses a seat they are sitting on,    *)
(* except by leaving or with the whole room, and nobody gets back a seat   *)
(* that is gone.  The room ends when its board leaves or is given up.      *)
(* RoomSession.tla implements this.                                        *)
(***************************************************************************)
CONSTANT Player

VARIABLES seat,   \* player -> free, here, away or gone
          board   \* here, away or gone: the host, and with it the room

seatVars == <<seat, board>>

Open == board # "gone"

SeatsInit ==
  /\ seat = [p \in Player |-> "free"]
  /\ board = "here"

Move(p, from, to) ==
  /\ Open /\ seat[p] = from
  /\ seat' = [seat EXCEPT ![p] = to]
  /\ UNCHANGED board

SitDown(p) == Move(p, "free", "here")
CutOff(p) == Move(p, "here", "away")
ComeBack(p) == Move(p, "away", "here")
GetUp(p) == Move(p, "here", "gone")
GivenUp(p) == Move(p, "away", "gone")

BoardCutOff == board = "here" /\ board' = "away" /\ UNCHANGED seat
BoardBack == board = "away" /\ board' = "here" /\ UNCHANGED seat

End == board' = "gone" /\ seat' = [p \in Player |-> "gone"]
BoardLeaves == board = "here" /\ End
BoardGivenUp == board = "away" /\ End

SeatsNext ==
  \/ \E p \in Player : SitDown(p) \/ CutOff(p) \/ ComeBack(p) \/ GetUp(p) \/ GivenUp(p)
  \/ BoardCutOff \/ BoardBack \/ BoardLeaves \/ BoardGivenUp

SeatsSafety == SeatsInit /\ [][SeatsNext]_seatVars

(* Whoever stays away is given up in the end. *)
SeatsSpec ==
  /\ SeatsSafety
  /\ \A p \in Player : WF_seatVars(GivenUp(p))
  /\ WF_seatVars(BoardGivenUp)
=============================================================================
