----------------------------- MODULE RoomSession -----------------------------
(***************************************************************************)
(* One live room of the server: the pure room of Room.tla, the connections *)
(* attached to it (apps/server/src/roomSession.ts), and the hub's binding  *)
(* of those connections to it (roomHub.ts).  One action per message the    *)
(* hub routes here, per socket close, per timer, and the microtask that    *)
(* fans out.  A message that is answered with an error, or that changes    *)
(* neither the room nor its members, is a stuttering step.                 *)
(*                                                                         *)
(* The process has one thread.  A handler runs to its end; the fan-out is  *)
(* a microtask, so it runs before the next socket, close or timer, but not *)
(* before the further messages of one read of the same socket, which the   *)
(* socket library delivers in a row.  `tick` is the connection whose       *)
(* messages may still come before a pending fan-out.                       *)
(*                                                                         *)
(* A connection is a socket of some device; once unbound and closed its    *)
(* name may stand for a new socket.  Any device may hold any live token: a *)
(* second tab shares the first one's storage.                              *)
(***************************************************************************)
EXTENDS Room

CONSTANTS Conn, NoConn, Host

ASSUME SessionAssumption == NoConn \notin Conn /\ Host \notin PlayerId

VARIABLES members,          \* connection -> Host or a player's id
          bound,            \* the hub's sessionOf: connections it routes here
          reapers,          \* ids with a cancel handle for a grace timer
          timers,           \* id -> grace timers running for it
          hostReaper,       \* is there a cancel handle for the host's timer?
          hostTimers,       \* host grace timers running
          pendingBroadcast,
          tick,
          stale,            \* members not yet sent what they should see
          dropped           \* the hub has let the room go

sessionVars == <<vars, members, bound, reapers, timers, hostReaper, hostTimers,
                 pendingBroadcast, tick, stale, dropped>>
graceVars == <<reapers, timers, hostReaper, hostTimers>>

SessionTypeOK ==
  /\ TypeOK
  /\ DOMAIN members \subseteq Conn
  /\ members \in [DOMAIN members -> PlayerId \cup {Host}]
  /\ bound \subseteq Conn
  /\ reapers \subseteq PlayerId
  /\ timers \in [PlayerId -> Nat]
  /\ hostReaper \in BOOLEAN /\ hostTimers \in Nat
  /\ pendingBroadcast \in BOOLEAN /\ tick \in Conn \cup {NoConn}
  /\ stale \subseteq Conn /\ dropped \in BOOLEAN

(* `open`: a fresh room whose host waits for its first frame.                *)
SessionInit ==
  /\ Init
  /\ \E c \in Conn :
       /\ members = [x \in {c} |-> Host]
       /\ bound = {c} /\ stale = {c} /\ tick = c
  /\ reapers = {} /\ timers = [p \in PlayerId |-> 0]
  /\ hostReaper = FALSE /\ hostTimers = 0
  /\ pendingBroadcast = TRUE
  /\ dropped = FALSE

-----------------------------------------------------------------------------
(* Whose handler may run, and what it leaves behind. *)

MayHandle(c) == ~dropped /\ (pendingBroadcast => tick = c)
LoopIdle == ~dropped /\ ~pendingBroadcast

NoFanOut(c) == UNCHANGED <<pendingBroadcast, tick>>
ScheduleBroadcast(c) == pendingBroadcast' = TRUE /\ tick' = c
NoBroadcast == UNCHANGED <<pendingBroadcast, tick>>

AttachedAs(viewer) == {c \in DOMAIN members : members[c] = viewer}
IsMember(c, viewer) == c \in DOMAIN members /\ members[c] = viewer

(* evict, evictHost: the connections a newer one pushes out, and the hub's   *)
(* onSuperseded.                                                             *)
NobodyPushedOut(viewer) == {}
PushedOut(viewer) == AttachedAs(viewer)
StillBound(S) == bound
UnboundOnSupersede(S) == bound \ S

Seat(c, viewer) ==
  LET kept == DOMAIN members \ PushedOut(viewer)
  IN  /\ members' = [x \in kept \cup {c} |-> IF x = c THEN viewer ELSE members[x]]
      /\ bound' = UnboundOnSupersede(PushedOut(viewer)) \cup {c}

Unseat(c) ==
  /\ members' = omit(members, c)
  /\ bound' = bound \ {c}

TimersKept(p) == timers
TimersWithout(p) == IF p \in reapers THEN [timers EXCEPT ![p] = @ - 1] ELSE timers
HostTimersUnchecked == hostTimers - 1
HostTimersWithout == IF hostReaper THEN hostTimers - 1 ELSE hostTimers

CancelReap(p) == timers' = TimersWithout(p) /\ reapers' = reapers \ {p}

-----------------------------------------------------------------------------
(* Messages of one connection, as RoomHub.handle routes them. *)

(* A join without a token, or with one no seat answers to.                   *)
JoinMsg(c, nick) ==
  /\ MayHandle(c) /\ c \notin bound
  /\ Join(nick)
  /\ members' = Put(members, c, minted')
  /\ bound' = bound \cup {c}
  /\ stale' = DOMAIN members'
  /\ ScheduleBroadcast(c)
  /\ UNCHANGED <<reapers, timers, hostReaper, hostTimers, dropped>>

NoFrame(c) == NoBroadcast
OwnFrame(c) == ScheduleBroadcast(c)

(* A join whose token resumes a seat, held or taken: the room does not       *)
(* change, but the connection that came back needs its frame.                *)
ResumeMsg(c, p) ==
  /\ MayHandle(c) /\ c \notin bound /\ p \in tokens
  /\ CancelReap(p) /\ Seat(c, p)
  /\ stale' = (stale \cup {c}) \cap DOMAIN members'
  /\ OwnFrame(c)
  /\ UNCHANGED <<vars, hostReaper, hostTimers, dropped>>

ResumeHostMsg(c) ==
  /\ MayHandle(c) /\ c \notin bound
  /\ hostTimers' = HostTimersWithout /\ hostReaper' = FALSE
  /\ Seat(c, Host)
  /\ stale' = (stale \cup {c}) \cap DOMAIN members'
  /\ ScheduleBroadcast(c)
  /\ UNCHANGED <<vars, reapers, timers, dropped>>

(* The host's selectGame, configureGame, startGame and endGame, and its      *)
(* advance; a player's own game events.                                      *)
HostMsg(c) ==
  /\ MayHandle(c) /\ IsMember(c, Host)
  /\ \/ \E g \in GameId : SelectGame(g)
     \/ \E cfg \in Config \cup {Unset} : ConfigureGame(cfg)
     \/ StartGame
     \/ EndGame
  /\ stale' = DOMAIN members
  /\ ScheduleBroadcast(c)
  /\ UNCHANGED <<graceVars, members, bound, dropped>>

PlayMsg(c) ==
  /\ MayHandle(c) /\ c \in DOMAIN members
  /\ \E points \in [DOMAIN gameState.points -> 0..MaxPoints], complete \in BOOLEAN :
       GameEvent(points, complete)
  /\ stale' = DOMAIN members
  /\ ScheduleBroadcast(c)
  /\ UNCHANGED <<graceVars, members, bound, dropped>>

PlayerLeaveMsg(c) ==
  /\ MayHandle(c)
  /\ \E p \in PlayerId : IsMember(c, p) /\ CancelReap(p) /\ Leave(p)
  /\ Unseat(c)
  /\ stale' = DOMAIN members'
  /\ ScheduleBroadcast(c)
  /\ UNCHANGED <<hostReaper, hostTimers, dropped>>

HostLeaveMsg(c) ==
  /\ MayHandle(c) /\ IsMember(c, Host)
  /\ HostLeave
  /\ Unseat(c)
  /\ stale' = DOMAIN members'
  /\ ScheduleBroadcast(c)
  /\ UNCHANGED <<graceVars, dropped>>

-----------------------------------------------------------------------------
(* A socket closes: the seat is held for a grace window. *)

TimersUnarmed(p) == TimersWithout(p)
TimersArmed(p) == [TimersWithout(p) EXCEPT ![p] = @ + 1]

PlayerDrops(c) ==
  /\ LoopIdle
  /\ \E p \in PlayerId :
       /\ IsMember(c, p)
       /\ timers' = TimersArmed(p) /\ reapers' = reapers \cup {p}
  /\ Unseat(c)
  /\ stale' = stale \ {c}
  /\ NoBroadcast
  /\ UNCHANGED <<vars, hostReaper, hostTimers, dropped>>

HostDrops(c) ==
  /\ LoopIdle /\ IsMember(c, Host)
  /\ hostTimers' = HostTimersWithout + 1 /\ hostReaper' = TRUE
  /\ Unseat(c)
  /\ stale' = stale \ {c}
  /\ NoBroadcast
  /\ UNCHANGED <<vars, reapers, timers, dropped>>

(* A grace window ends: the seat's owner leaves, or the host does.  A timer  *)
(* of a player who has left already leaves again, to no effect.              *)
ReapFires(p) ==
  /\ LoopIdle /\ timers[p] > 0
  /\ timers' = [timers EXCEPT ![p] = @ - 1] /\ reapers' = reapers \ {p}
  /\ IF p \in DOMAIN players THEN Leave(p) ELSE UNCHANGED vars
  /\ stale' = DOMAIN members
  /\ ScheduleBroadcast(NoConn)
  /\ UNCHANGED <<members, bound, hostReaper, hostTimers, dropped>>

HostReapFires ==
  /\ LoopIdle /\ hostTimers > 0
  /\ hostTimers' = hostTimers - 1 /\ hostReaper' = FALSE
  /\ HostLeave
  /\ stale' = DOMAIN members
  /\ ScheduleBroadcast(NoConn)
  /\ UNCHANGED <<members, bound, reapers, timers, dropped>>

-----------------------------------------------------------------------------
(* The microtask. *)

Frames ==
  /\ pendingBroadcast /\ ~closed
  /\ pendingBroadcast' = FALSE /\ tick' = NoConn
  /\ stale' = {}
  /\ UNCHANGED <<vars, graceVars, members, bound, dropped>>

RunOn(p) == timers[p]
Cancelled(p) == TimersWithout(p)[p]

(* The room has closed: everybody is told and let go, and every timer with a *)
(* handle is called off.                                                     *)
CloseOut ==
  /\ pendingBroadcast /\ closed
  /\ pendingBroadcast' = FALSE /\ tick' = NoConn
  /\ members' = [x \in {} |-> Host]
  /\ bound' = bound \ DOMAIN members
  /\ timers' = [p \in PlayerId |-> Cancelled(p)] /\ reapers' = {}
  /\ hostTimers' = HostTimersWithout /\ hostReaper' = FALSE
  /\ stale' = {} /\ dropped' = TRUE
  /\ UNCHANGED vars

Messages(c) ==
  \/ \E nick \in Nick : JoinMsg(c, nick)
  \/ \E p \in PlayerId : ResumeMsg(c, p)
  \/ ResumeHostMsg(c)
  \/ HostMsg(c)
  \/ PlayMsg(c)
  \/ PlayerLeaveMsg(c)
  \/ HostLeaveMsg(c)

SessionNext ==
  \/ \E c \in Conn : Messages(c) \/ PlayerDrops(c) \/ HostDrops(c)
  \/ \E p \in PlayerId : ReapFires(p)
  \/ HostReapFires
  \/ Frames
  \/ CloseOut

(* A queued microtask runs, and a timer that stays armed fires: the loop gets *)
(* back to its timers.  A timer called off again and again never has to, and  *)
(* no socket has to send or close anything.                                   *)
FiresIfLeftArmed(p) ==
  []<>(timers[p] = 0) \/ []<><<ReapFires(p)>>_sessionVars
HostFiresIfLeftArmed ==
  []<>(hostTimers = 0) \/ []<><<HostReapFires>>_sessionVars

Fairness ==
  /\ WF_sessionVars(Frames) /\ WF_sessionVars(CloseOut)
  /\ \A p \in PlayerId : FiresIfLeftArmed(p)
  /\ HostFiresIfLeftArmed

SessionSpec == SessionInit /\ [][SessionNext]_sessionVars
FairSessionSpec == SessionSpec /\ Fairness

-----------------------------------------------------------------------------
(* A seat is in exactly one hand: somebody is attached as its player, or one *)
(* grace timer runs for it, never both, never neither, never two; and no     *)
(* connection or timer is left for a player who is gone (roomSession.ts:     *)
(* 105-139, 183-214, 253-285).                                               *)
Hands(p) == Cardinality(AttachedAs(p)) + timers[p]
SeatsInOneHand ==
  ~closed => \A p \in PlayerId : Hands(p) = IF p \in DOMAIN players THEN 1 ELSE 0

(* So is the room itself: one board is attached, or the room's own timer     *)
(* runs (roomSession.ts:91-102, 203-238).                                    *)
BoardInOneHand == ~closed => Cardinality(AttachedAs(Host)) + hostTimers = 1

(* The hub routes to this room exactly the connections the room knows, so    *)
(* nobody is locked out by a stale ALREADY_IN_ROOM, or acts from a seat that *)
(* was taken over (roomHub.ts:83-107, 130-138, 191-202).                     *)
BoundIffMember == bound = DOMAIN members

(* Whoever has not seen the room as it is, has a frame coming: no change, no *)
(* resumed seat and no new member waits for the next change to be shown      *)
(* (roomSession.ts:287-315).                                                 *)
FrameOnItsWay == stale # {} => pendingBroadcast

(* A room that is gone left nothing behind: no timer fires into it, nobody   *)
(* is attached or routed to it (roomSession.ts:318-332).                     *)
NothingLeft ==
  dropped => /\ members = [x \in {} |-> Host] /\ bound = {}
             /\ hostTimers = 0 /\ \A p \in PlayerId : timers[p] = 0

(* A closed room is let go, everybody in it told, however the reads before   *)
(* its last fan-out go on (roomSession.ts:317-332).                          *)
ClosedIsDropped == closed ~> dropped /\ members = [x \in {} |-> Host]

(* The room implements the abstract seats of Seats.tla: a dropped phone or   *)
(* board keeps its seat until its grace window runs out, gets it back with   *)
(* its token, and is given up if it stays away (roomSession.ts:85-139,       *)
(* 196-285).                                                                 *)
seatBar ==
  [p \in PlayerId |->
     IF closed THEN "gone"
     ELSE IF p \in DOMAIN players THEN IF AttachedAs(p) # {} THEN "here" ELSE "away"
     ELSE IF p <= minted THEN "gone" ELSE "free"]
boardBar == IF closed THEN "gone" ELSE IF AttachedAs(Host) # {} THEN "here" ELSE "away"

S == INSTANCE Seats WITH Player <- PlayerId, seat <- seatBar, board <- boardBar
ImplementsSeats == S!SeatsSpec
=============================================================================
