-------------------------- MODULE RoomSessionProofs --------------------------
(***************************************************************************)
(* Proofs about RoomSession.tla, for every set of connections: who holds   *)
(* a seat, and that the session implements the safety of Seats.tla.        *)
(***************************************************************************)
EXTENDS RoomSession, RoomProofs

(* The session's maps.  A closed room has its close-out coming, and one the  *)
(* hub has dropped is closed and has nothing to come.                        *)
Attached ==
  /\ DOMAIN members \subseteq Conn
  /\ members \in [DOMAIN members -> PlayerId \cup {Host}]
  /\ bound = DOMAIN members
  /\ pendingBroadcast \in BOOLEAN
  /\ closed => pendingBroadcast \/ dropped
  /\ dropped => closed /\ ~pendingBroadcast /\ DOMAIN members = {}

(* No timer runs that cannot be called off, and none twice.                  *)
TimersHeld ==
  /\ timers = [p \in PlayerId |-> IF p \in reapers THEN 1 ELSE 0]
  /\ hostTimers = IF hostReaper THEN 1 ELSE 0
  /\ reapers \subseteq PlayerId /\ hostReaper \in BOOLEAN
  /\ dropped => reapers = {} /\ ~hostReaper

(* SeatsInOneHand and BoardInOneHand without the counting.  For seats it     *)
(* holds in a closed room too, until it is dropped: its messages go on.      *)
OneHand ==
  /\ \A x, y \in DOMAIN members : members[x] = members[y] => x = y
  /\ \A x \in DOMAIN members : members[x] \in DOMAIN players \cup {Host}
  /\ reapers \subseteq DOMAIN players
  /\ ~dropped => \A p \in DOMAIN players : p \in reapers <=> \A x \in DOMAIN members : members[x] # p
  /\ ~closed => (hostReaper <=> \A x \in DOMAIN members : members[x] # Host)

SInv == IInv /\ Attached /\ TimersHeld /\ OneHand /\ FrameOnItsWay

-----------------------------------------------------------------------------
(* What the room's steps mean to the session: who is seated, and whether the *)
(* room is closed.                                                           *)
LEMMA JoinSeats ==
  ASSUME IInv, NEW nick, Join(nick)
  PROVE  /\ minted' = minted + 1 /\ minted' \in PlayerId /\ minted' \notin DOMAIN players
         /\ DOMAIN players' = DOMAIN players \cup {minted'}
         /\ closed' = closed
  <1>1. minted' = minted + 1 /\ minted' \in PlayerId /\ minted' \notin DOMAIN players
    BY RoomAssumption DEF IInv, TypeOK, IdsMinted, Join, PlayerId
  <1>2. players' = Put(players, minted', SeatFor(nick)) /\ closed' = closed
    BY DEF Join
  <1>3. DOMAIN players' = DOMAIN players \cup {minted'}
    BY <1>2 DEF Put
  <1> QED BY <1>1, <1>2, <1>3

LEMMA LeaveSeats ==
  ASSUME NEW p, Leave(p)
  PROVE  DOMAIN players' = DOMAIN players \ {p} /\ UNCHANGED <<minted, closed>>
  BY DEF Leave, omit

LEMMA PlayingSeats ==
  ASSUME \/ \E g \in GameId : SelectGame(g)
         \/ \E cfg \in Config \cup {Unset} : ConfigureGame(cfg)
         \/ StartGame
         \/ EndGame
         \/ \E points, complete : GameEvent(points, complete)
  PROVE  DOMAIN players' = DOMAIN players /\ UNCHANGED <<minted, closed>>
  BY DEF SelectGame, ConfigureGame, StartGame, seatWindow, EndGame, GameEvent

(* Every step of the session is a step of its room, or leaves it alone.      *)
LEMMA SessionStepsRoom ==
  ASSUME SessionNext
  PROVE  [Next]_vars
  <1>1. ASSUME NEW c \in Conn, Messages(c) \/ PlayerDrops(c) \/ HostDrops(c)
        PROVE  [Next]_vars
    <2>1. CASE \E nick \in Nick : JoinMsg(c, nick)
      BY <2>1 DEF JoinMsg, Next
    <2>2. CASE (\E p \in PlayerId : ResumeMsg(c, p)) \/ ResumeHostMsg(c)
                 \/ PlayerDrops(c) \/ HostDrops(c)
      BY <2>2 DEF ResumeMsg, ResumeHostMsg, PlayerDrops, HostDrops
    <2>3. CASE HostMsg(c)
      BY <2>3 DEF HostMsg, Next
    <2>4. CASE PlayMsg(c)
      BY <2>4 DEF PlayMsg, Next
    <2>5. CASE PlayerLeaveMsg(c)
      BY <2>5 DEF PlayerLeaveMsg, Next
    <2>6. CASE HostLeaveMsg(c)
      BY <2>6 DEF HostLeaveMsg, Next
    <2> QED BY <1>1, <2>1, <2>2, <2>3, <2>4, <2>5, <2>6 DEF Messages
  <1>2. CASE \E p \in PlayerId : ReapFires(p)
    BY <1>2 DEF ReapFires, Next
  <1>3. CASE HostReapFires
    BY <1>3 DEF HostReapFires, Next
  <1>4. CASE Frames \/ CloseOut
    BY <1>4 DEF Frames, CloseOut
  <1> QED BY <1>1, <1>2, <1>3, <1>4 DEF SessionNext

LEMMA SessionKeepsRoom ==
  ASSUME IInv, [SessionNext]_sessionVars
  PROVE  IInv'
  <1>1. [Next]_vars
    BY SessionStepsRoom DEF sessionVars
  <1> QED BY <1>1, NextIInv

LEMMA InitSInv == SessionInit => SInv
  <1> SUFFICES ASSUME SessionInit PROVE SInv
    OBVIOUS
  <1>1. IInv /\ DOMAIN players = {} /\ closed = FALSE
    BY InitIInv DEF SessionInit, Init, NoEntries
  <1>2. PICK c \in Conn : members = [x \in {c} |-> Host] /\ bound = {c}
    BY DEF SessionInit
  <1>3. Attached /\ FrameOnItsWay
    BY <1>1, <1>2 DEF SessionInit, Attached, FrameOnItsWay
  <1>4. TimersHeld
    BY DEF SessionInit, TimersHeld
  <1>5. OneHand
    BY <1>1, <1>2 DEF SessionInit, OneHand
  <1> QED BY <1>1, <1>3, <1>4, <1>5 DEF SInv

-----------------------------------------------------------------------------
(* The moves of a connection and of a timer.                                 *)
LEMMA SeatMoves ==
  ASSUME Attached, NEW c \in Conn, NEW v \in PlayerId \cup {Host}, Seat(c, v), c \notin bound
  PROVE  /\ DOMAIN members' = {x \in DOMAIN members : members[x] # v} \cup {c}
         /\ members' \in [DOMAIN members' -> PlayerId \cup {Host}]
         /\ bound' = DOMAIN members' /\ DOMAIN members' \subseteq Conn
         /\ members'[c] = v
         /\ \A x \in DOMAIN members' \ {c} : members'[x] = members[x]
  <1> DEFINE kept == {x \in DOMAIN members : members[x] # v}
  <1>1. DOMAIN members \ PushedOut(v) = kept
    BY DEF PushedOut, AttachedAs
  <1>2. members' = [x \in kept \cup {c} |-> IF x = c THEN v ELSE members[x]]
    BY <1>1 DEF Seat
  <1>3. bound' = kept \cup {c}
    BY <1>1 DEF Seat, UnboundOnSupersede, Attached
  <1> QED BY <1>2, <1>3 DEF Attached

LEMMA UnseatMoves ==
  ASSUME Attached, NEW c, Unseat(c)
  PROVE  /\ DOMAIN members' = DOMAIN members \ {c}
         /\ members' \in [DOMAIN members' -> PlayerId \cup {Host}]
         /\ bound' = DOMAIN members' /\ DOMAIN members' \subseteq Conn
         /\ \A x \in DOMAIN members' : members'[x] = members[x]
  BY DEF Attached, Unseat, omit

LEMMA CancelMoves ==
  ASSUME TimersHeld, NEW p \in PlayerId, CancelReap(p)
  PROVE  /\ reapers' = reapers \ {p} /\ reapers' \subseteq PlayerId
         /\ timers' = [q \in PlayerId |-> IF q \in reapers' THEN 1 ELSE 0]
  BY DEF TimersHeld, CancelReap, TimersWithout

LEMMA HostTimerCancelled == TimersHeld => HostTimersWithout = 0
  BY DEF TimersHeld, HostTimersWithout

-----------------------------------------------------------------------------
(* One lemma per action: it keeps the maps, the timers and the hands.        *)
Kept == Attached /\ TimersHeld /\ OneHand /\ FrameOnItsWay

LEMMA JoinKeeps ==
  ASSUME SInv, NEW c \in Conn, NEW nick \in Nick, JoinMsg(c, nick)
  PROVE  Kept'
  <1>1. /\ minted' \in PlayerId /\ minted' \notin DOMAIN players
        /\ DOMAIN players' = DOMAIN players \cup {minted'} /\ closed' = closed
    BY JoinSeats DEF SInv, JoinMsg
  <1>2. members' = Put(members, c, minted') /\ c \notin DOMAIN members
    BY DEF JoinMsg, SInv, Attached
  <1>3. /\ DOMAIN members' = DOMAIN members \cup {c} /\ members'[c] = minted'
        /\ \A x \in DOMAIN members : members'[x] = members[x]
    BY <1>2 DEF Put
  <1>4. members' \in [DOMAIN members' -> PlayerId \cup {Host}]
    BY <1>1, <1>2, PutType DEF SInv, Attached
  <1>5. Attached' /\ FrameOnItsWay'
    BY <1>1, <1>3, <1>4 DEF SInv, Attached, JoinMsg, MayHandle, ScheduleBroadcast, FrameOnItsWay
  <1>6. TimersHeld'
    BY DEF SInv, TimersHeld, JoinMsg
  <1>7. OneHand'
    <2>1. minted' # Host
      BY <1>1, SessionAssumption
    <2> QED BY <1>1, <1>3, <2>1 DEF SInv, OneHand, JoinMsg, MayHandle
  <1> QED BY <1>5, <1>6, <1>7 DEF Kept

LEMMA ResumeKeeps ==
  ASSUME SInv, NEW c \in Conn, NEW p \in PlayerId, ResumeMsg(c, p)
  PROVE  Kept'
  <1>1. p \in DOMAIN players /\ players' = players /\ closed' = closed
    BY DEF SInv, IInv, TokensSeated, ResumeMsg, vars
  <1>2. /\ DOMAIN members' = {x \in DOMAIN members : members[x] # p} \cup {c}
        /\ members' \in [DOMAIN members' -> PlayerId \cup {Host}]
        /\ bound' = DOMAIN members' /\ DOMAIN members' \subseteq Conn
        /\ members'[c] = p
        /\ \A x \in DOMAIN members' \ {c} : members'[x] = members[x]
    BY SeatMoves DEF SInv, ResumeMsg
  <1>3. /\ reapers' = reapers \ {p} /\ reapers' \subseteq PlayerId
        /\ timers' = [q \in PlayerId |-> IF q \in reapers' THEN 1 ELSE 0]
    BY CancelMoves DEF SInv, ResumeMsg
  <1>4. Attached' /\ FrameOnItsWay'
    BY <1>1, <1>2 DEF SInv, Attached, ResumeMsg, MayHandle, OwnFrame, ScheduleBroadcast,
       FrameOnItsWay
  <1>5. TimersHeld'
    BY <1>3 DEF SInv, TimersHeld, ResumeMsg
  <1>6. OneHand'
    <2>1. p # Host /\ c \notin DOMAIN members /\ ~dropped
      BY SessionAssumption DEF ResumeMsg, SInv, Attached, MayHandle
    <2>2. \A x \in DOMAIN members' \ {c} : x \in DOMAIN members /\ members[x] # p
      BY <1>2
    <2>3. \A q \in DOMAIN players : q \in reapers' <=> \A x \in DOMAIN members' : members'[x] # q
      <3> SUFFICES ASSUME NEW q \in DOMAIN players
                   PROVE  q \in reapers' <=> \A x \in DOMAIN members' : members'[x] # q
        OBVIOUS
      <3>1. CASE q = p
        BY <1>2, <1>3, <3>1
      <3>2. CASE q # p
        BY <1>2, <1>3, <2>1, <2>2, <3>2 DEF SInv, OneHand
      <3> QED BY <3>1, <3>2
    <2>4. (\A x \in DOMAIN members' : members'[x] # Host) <=> \A x \in DOMAIN members : members[x] # Host
      BY <1>2, <2>1, <2>2
    <2>5. hostReaper' = hostReaper
      BY DEF ResumeMsg
    <2> QED BY <1>1, <1>2, <1>3, <2>2, <2>3, <2>4, <2>5 DEF SInv, OneHand
  <1> QED BY <1>4, <1>5, <1>6 DEF Kept

LEMMA ResumeHostKeeps ==
  ASSUME SInv, NEW c \in Conn, ResumeHostMsg(c)
  PROVE  Kept'
  <1>1. players' = players /\ closed' = closed /\ UNCHANGED <<reapers, timers>>
    BY DEF ResumeHostMsg, vars
  <1>2. /\ DOMAIN members' = {x \in DOMAIN members : members[x] # Host} \cup {c}
        /\ members' \in [DOMAIN members' -> PlayerId \cup {Host}]
        /\ bound' = DOMAIN members' /\ DOMAIN members' \subseteq Conn
        /\ members'[c] = Host
        /\ \A x \in DOMAIN members' \ {c} : members'[x] = members[x]
    BY SeatMoves DEF SInv, ResumeHostMsg
  <1>3. Attached' /\ FrameOnItsWay'
    BY <1>1, <1>2 DEF SInv, Attached, ResumeHostMsg, MayHandle, ScheduleBroadcast, FrameOnItsWay
  <1>4. TimersHeld'
    BY <1>1, HostTimerCancelled DEF SInv, TimersHeld, ResumeHostMsg
  <1>5. OneHand'
    <2>1. c \notin DOMAIN members /\ Host \notin DOMAIN players
      BY SessionAssumption DEF ResumeHostMsg, SInv, Attached, IInv, TypeOK
    <2>2. \A x \in DOMAIN members' \ {c} : x \in DOMAIN members /\ members[x] # Host
      BY <1>2
    <2>3. \A q \in DOMAIN players :
            (\A x \in DOMAIN members' : members'[x] # q) <=> \A x \in DOMAIN members : members[x] # q
      BY <1>2, <2>1, <2>2
    <2>4. hostReaper' = FALSE /\ dropped' = dropped
      BY DEF ResumeHostMsg
    <2> QED BY <1>1, <1>2, <2>2, <2>3, <2>4 DEF SInv, OneHand
  <1> QED BY <1>3, <1>4, <1>5 DEF Kept

LEMMA PlayingKeeps ==
  ASSUME SInv, NEW c \in Conn, HostMsg(c) \/ PlayMsg(c)
  PROVE  Kept'
  <1>1. DOMAIN players' = DOMAIN players /\ closed' = closed
    BY PlayingSeats DEF HostMsg, PlayMsg
  <1>2. UNCHANGED <<graceVars, members, bound, dropped>> /\ pendingBroadcast' = TRUE /\ ~dropped
    BY DEF HostMsg, PlayMsg, ScheduleBroadcast, MayHandle
  <1>3. Attached' /\ TimersHeld' /\ FrameOnItsWay'
    BY <1>1, <1>2 DEF SInv, Attached, TimersHeld, FrameOnItsWay, graceVars
  <1>4. OneHand'
    BY <1>1, <1>2 DEF SInv, OneHand, graceVars
  <1> QED BY <1>3, <1>4 DEF Kept

LEMMA PlayerLeaveKeeps ==
  ASSUME SInv, NEW c \in Conn, PlayerLeaveMsg(c)
  PROVE  Kept'
  <1>1. PICK p \in PlayerId : IsMember(c, p) /\ CancelReap(p) /\ Leave(p)
    BY DEF PlayerLeaveMsg
  <1>2. DOMAIN players' = DOMAIN players \ {p} /\ closed' = closed
    BY <1>1, LeaveSeats
  <1>3. /\ DOMAIN members' = DOMAIN members \ {c}
        /\ members' \in [DOMAIN members' -> PlayerId \cup {Host}]
        /\ bound' = DOMAIN members' /\ DOMAIN members' \subseteq Conn
        /\ \A x \in DOMAIN members' : members'[x] = members[x]
    BY UnseatMoves DEF SInv, PlayerLeaveMsg
  <1>4. /\ reapers' = reapers \ {p} /\ reapers' \subseteq PlayerId
        /\ timers' = [q \in PlayerId |-> IF q \in reapers' THEN 1 ELSE 0]
    BY <1>1, CancelMoves DEF SInv
  <1>5. Attached' /\ FrameOnItsWay'
    BY <1>2, <1>3 DEF SInv, Attached, PlayerLeaveMsg, MayHandle, ScheduleBroadcast, FrameOnItsWay
  <1>6. TimersHeld'
    BY <1>4 DEF SInv, TimersHeld, PlayerLeaveMsg
  <1>7. OneHand'
    <2>1. c \in DOMAIN members /\ members[c] = p /\ p # Host
      BY <1>1, SessionAssumption DEF IsMember
    <2>2. \A x \in DOMAIN members' : members[x] # p
      BY <1>3, <2>1 DEF SInv, OneHand
    <2>3. \A q : q # p => ((\A x \in DOMAIN members' : members'[x] # q)
                             <=> \A x \in DOMAIN members : members[x] # q)
      BY <1>3, <2>1
    <2>4. hostReaper' = hostReaper /\ dropped' = dropped
      BY DEF PlayerLeaveMsg
    <2> QED BY <1>2, <1>3, <1>4, <2>1, <2>2, <2>3, <2>4 DEF SInv, OneHand
  <1> QED BY <1>5, <1>6, <1>7 DEF Kept

LEMMA HostLeaveKeeps ==
  ASSUME SInv, NEW c \in Conn, HostLeaveMsg(c)
  PROVE  Kept'
  <1>1. players' = players /\ closed' = TRUE /\ UNCHANGED graceVars /\ ~dropped /\ ~dropped'
    BY DEF HostLeaveMsg, HostLeave, MayHandle
  <1>2. /\ DOMAIN members' = DOMAIN members \ {c}
        /\ members' \in [DOMAIN members' -> PlayerId \cup {Host}]
        /\ bound' = DOMAIN members' /\ DOMAIN members' \subseteq Conn
        /\ \A x \in DOMAIN members' : members'[x] = members[x]
    BY UnseatMoves DEF SInv, HostLeaveMsg
  <1>3. Attached' /\ FrameOnItsWay'
    BY <1>1, <1>2 DEF SInv, Attached, HostLeaveMsg, ScheduleBroadcast, FrameOnItsWay
  <1>4. TimersHeld'
    BY <1>1 DEF SInv, TimersHeld, graceVars
  <1>5. OneHand'
    <2>1. members[c] = Host /\ Host \notin DOMAIN players
      BY SessionAssumption DEF HostLeaveMsg, IsMember, SInv, IInv, TypeOK
    <2>2. \A q \in DOMAIN players :
            (\A x \in DOMAIN members' : members'[x] # q) <=> \A x \in DOMAIN members : members[x] # q
      BY <1>2, <2>1
    <2> QED BY <1>1, <1>2, <2>2 DEF SInv, OneHand, graceVars
  <1> QED BY <1>3, <1>4, <1>5 DEF Kept

LEMMA PlayerDropsKeeps ==
  ASSUME SInv, NEW c \in Conn, PlayerDrops(c)
  PROVE  Kept'
  <1>1. PICK p \in PlayerId :
          IsMember(c, p) /\ timers' = TimersArmed(p) /\ reapers' = reapers \cup {p}
    BY DEF PlayerDrops
  <1>2. /\ players' = players /\ closed' = closed /\ dropped' = dropped
        /\ UNCHANGED <<hostReaper, hostTimers, pendingBroadcast>>
        /\ ~dropped /\ ~pendingBroadcast /\ stale' = stale \ {c}
    BY DEF PlayerDrops, vars, NoBroadcast, LoopIdle
  <1>3. /\ DOMAIN members' = DOMAIN members \ {c}
        /\ members' \in [DOMAIN members' -> PlayerId \cup {Host}]
        /\ bound' = DOMAIN members' /\ DOMAIN members' \subseteq Conn
        /\ \A x \in DOMAIN members' : members'[x] = members[x]
    BY UnseatMoves DEF SInv, PlayerDrops
  <1>4. Attached' /\ FrameOnItsWay'
    BY <1>2, <1>3 DEF SInv, Attached, FrameOnItsWay
  <1>5. TimersHeld'
    <2>1. timers' = [q \in PlayerId |-> IF q \in reapers' THEN 1 ELSE 0]
      <3>1. TimersWithout(p) = [q \in PlayerId |-> IF q \in reapers \ {p} THEN 1 ELSE 0]
        BY DEF SInv, TimersHeld, TimersWithout
      <3>2. timers' = [TimersWithout(p) EXCEPT ![p] = @ + 1]
        BY <1>1 DEF TimersArmed
      <3> QED BY <1>1, <3>1, <3>2
    <2> QED BY <1>1, <1>2, <2>1 DEF SInv, TimersHeld
  <1>6. OneHand'
    <2>1. c \in DOMAIN members /\ members[c] = p /\ p # Host /\ p \in DOMAIN players
      BY <1>1, SessionAssumption DEF IsMember, SInv, OneHand
    <2>2. \A x \in DOMAIN members' : members'[x] # p
      BY <1>3, <2>1 DEF SInv, OneHand
    <2>3. \A q : q # p => ((\A x \in DOMAIN members' : members'[x] # q)
                             <=> \A x \in DOMAIN members : members[x] # q)
      BY <1>3, <2>1
    <2> QED BY <1>1, <1>2, <1>3, <2>1, <2>2, <2>3 DEF SInv, OneHand
  <1> QED BY <1>4, <1>5, <1>6 DEF Kept

LEMMA HostDropsKeeps ==
  ASSUME SInv, NEW c \in Conn, HostDrops(c)
  PROVE  Kept'
  <1>1. /\ players' = players /\ closed' = closed /\ dropped' = dropped
        /\ UNCHANGED <<reapers, timers, pendingBroadcast>>
        /\ hostReaper' = TRUE /\ hostTimers' = HostTimersWithout + 1
        /\ ~dropped /\ ~pendingBroadcast /\ stale' = stale \ {c} /\ IsMember(c, Host)
    BY DEF HostDrops, vars, NoBroadcast, LoopIdle
  <1>2. /\ DOMAIN members' = DOMAIN members \ {c}
        /\ members' \in [DOMAIN members' -> PlayerId \cup {Host}]
        /\ bound' = DOMAIN members' /\ DOMAIN members' \subseteq Conn
        /\ \A x \in DOMAIN members' : members'[x] = members[x]
    BY UnseatMoves DEF SInv, HostDrops
  <1>3. Attached' /\ FrameOnItsWay'
    BY <1>1, <1>2 DEF SInv, Attached, FrameOnItsWay
  <1>4. TimersHeld'
    BY <1>1, HostTimerCancelled DEF SInv, TimersHeld
  <1>5. OneHand'
    <2>1. c \in DOMAIN members /\ members[c] = Host /\ Host \notin DOMAIN players
      BY <1>1, SessionAssumption DEF IsMember, SInv, IInv, TypeOK
    <2>2. \A x \in DOMAIN members' : members'[x] # Host
      BY <1>2, <2>1 DEF SInv, OneHand
    <2>3. \A q \in DOMAIN players :
            (\A x \in DOMAIN members' : members'[x] # q) <=> \A x \in DOMAIN members : members[x] # q
      BY <1>2, <2>1
    <2> QED BY <1>1, <1>2, <2>2, <2>3 DEF SInv, OneHand
  <1> QED BY <1>3, <1>4, <1>5 DEF Kept

(* A timer that fires is of somebody seated and away.                        *)
LEMMA TimerOfAnAwaySeat ==
  ASSUME SInv, NEW p \in PlayerId, ReapFires(p)
  PROVE  /\ p \in reapers /\ p \in DOMAIN players /\ Leave(p)
         /\ \A x \in DOMAIN members : members[x] # p
  <1>1. p \in reapers /\ ~dropped
    BY DEF SInv, TimersHeld, ReapFires, LoopIdle
  <1>2. p \in DOMAIN players
    BY <1>1 DEF SInv, OneHand
  <1> QED BY <1>1, <1>2 DEF SInv, OneHand, ReapFires

LEMMA ReapKeeps ==
  ASSUME SInv, NEW p \in PlayerId, ReapFires(p)
  PROVE  Kept'
  <1>1. /\ p \in reapers /\ p \in DOMAIN players /\ Leave(p)
        /\ \A x \in DOMAIN members : members[x] # p
    BY TimerOfAnAwaySeat
  <1>2. DOMAIN players' = DOMAIN players \ {p} /\ closed' = closed
    BY <1>1, LeaveSeats
  <1>3. /\ UNCHANGED <<members, bound, hostReaper, hostTimers, dropped>> /\ ~dropped
        /\ pendingBroadcast' = TRUE /\ reapers' = reapers \ {p}
        /\ timers' = [timers EXCEPT ![p] = @ - 1]
    BY DEF ReapFires, ScheduleBroadcast, LoopIdle
  <1>4. Attached' /\ FrameOnItsWay'
    BY <1>2, <1>3 DEF SInv, Attached, FrameOnItsWay
  <1>5. TimersHeld'
    <2>1. timers' = [q \in PlayerId |-> IF q \in reapers' THEN 1 ELSE 0]
      BY <1>1, <1>3 DEF SInv, TimersHeld
    <2> QED BY <1>3, <2>1 DEF SInv, TimersHeld
  <1>6. OneHand'
    BY <1>1, <1>2, <1>3 DEF SInv, OneHand
  <1> QED BY <1>4, <1>5, <1>6 DEF Kept

LEMMA HostReapKeeps ==
  ASSUME SInv, HostReapFires
  PROVE  Kept'
  <1>1. /\ players' = players /\ closed' = TRUE /\ ~dropped /\ pendingBroadcast' = TRUE
        /\ UNCHANGED <<members, bound, reapers, timers, dropped>>
        /\ hostTimers > 0 /\ hostTimers' = hostTimers - 1 /\ hostReaper' = FALSE
    BY DEF HostReapFires, HostLeave, ScheduleBroadcast, LoopIdle
  <1>2. Attached' /\ FrameOnItsWay'
    BY <1>1 DEF SInv, Attached, FrameOnItsWay
  <1>3. TimersHeld'
    <2>1. hostTimers' = 0
      BY <1>1 DEF SInv, TimersHeld
    <2> QED BY <1>1, <2>1 DEF SInv, TimersHeld
  <1>4. OneHand'
    BY <1>1 DEF SInv, OneHand
  <1> QED BY <1>2, <1>3, <1>4 DEF Kept

LEMMA FramesKeeps ==
  ASSUME SInv, Frames
  PROVE  Kept'
  <1>1. /\ players' = players /\ closed' = closed /\ ~closed /\ ~pendingBroadcast' /\ stale' = {}
        /\ UNCHANGED <<members, bound, reapers, timers, hostReaper, hostTimers, dropped>>
        /\ pendingBroadcast' \in BOOLEAN
    BY DEF Frames, vars, graceVars
  <1>2. Attached' /\ FrameOnItsWay'
    BY <1>1 DEF SInv, Attached, FrameOnItsWay
  <1>3. TimersHeld' /\ OneHand'
    BY <1>1 DEF SInv, TimersHeld, OneHand
  <1> QED BY <1>2, <1>3 DEF Kept

LEMMA CloseOutKeeps ==
  ASSUME SInv, CloseOut
  PROVE  Kept'
  <1>1. /\ players' = players /\ closed' = closed /\ closed /\ pendingBroadcast' = FALSE
        /\ stale' = {} /\ dropped' = TRUE /\ reapers' = {} /\ hostReaper' = FALSE
    BY DEF CloseOut, vars
  <1>2. members' = [x \in {} |-> Host] /\ DOMAIN members' = {} /\ bound' = {}
    BY DEF CloseOut, SInv, Attached
  <1>3. Attached' /\ FrameOnItsWay'
    BY <1>1, <1>2 DEF SInv, Attached, FrameOnItsWay
  <1>4. TimersHeld'
    <2>1. \A p \in PlayerId : Cancelled(p) = 0
      BY DEF SInv, TimersHeld, Cancelled, TimersWithout
    <2>2. timers' = [p \in PlayerId |-> 0] /\ hostTimers' = 0
      BY <2>1, HostTimerCancelled DEF CloseOut, SInv
    <2> QED BY <1>1, <2>2 DEF TimersHeld
  <1>5. OneHand'
    BY <1>1, <1>2 DEF OneHand
  <1> QED BY <1>3, <1>4, <1>5 DEF Kept

LEMMA NextSInv ==
  ASSUME SInv, [SessionNext]_sessionVars
  PROVE  SInv'
  <1>1. IInv'
    BY SessionKeepsRoom DEF SInv
  <1>2. CASE UNCHANGED sessionVars
    <2>1. Kept'
      BY <1>2 DEF sessionVars, vars, SInv, Attached, TimersHeld, OneHand, FrameOnItsWay, Kept
    <2> QED BY <1>1, <2>1 DEF SInv, Kept
  <1>3. CASE SessionNext
    <2>1. Kept'
      <3>1. ASSUME NEW c \in Conn, Messages(c) PROVE Kept'
        BY <3>1, JoinKeeps, ResumeKeeps, ResumeHostKeeps, PlayingKeeps, PlayerLeaveKeeps,
           HostLeaveKeeps DEF Messages
      <3> QED BY <1>3, <3>1, PlayerDropsKeeps, HostDropsKeeps, ReapKeeps, HostReapKeeps,
                 FramesKeeps, CloseOutKeeps DEF SessionNext
    <2> QED BY <1>1, <2>1 DEF SInv, Kept
  <1> QED BY <1>2, <1>3

LEMMA SessionSInv == SessionSpec => []SInv
  BY InitSInv, NextSInv, PTL DEF SessionSpec

-----------------------------------------------------------------------------
LEMMA AttachedOnce ==
  ASSUME OneHand, NEW v
  PROVE  Cardinality(AttachedAs(v)) = IF \A x \in DOMAIN members : members[x] # v THEN 0 ELSE 1
  <1>1. CASE \A x \in DOMAIN members : members[x] # v
    <2>1. AttachedAs(v) = {}
      BY <1>1 DEF AttachedAs
    <2> QED BY <1>1, <2>1, FS_EmptySet
  <1>2. ASSUME NEW x \in DOMAIN members, members[x] = v
        PROVE  Cardinality(AttachedAs(v)) = IF \A y \in DOMAIN members : members[y] # v THEN 0 ELSE 1
    <2>1. AttachedAs(v) = {x}
      BY <1>2 DEF AttachedAs, OneHand
    <2>2. Cardinality({x}) = 1
      BY FS_Singleton
    <2> QED BY <1>2, <2>1, <2>2
  <1> QED BY <1>1, <1>2

LEMMA HandsCounted ==
  ASSUME SInv
  PROVE  SeatsInOneHand /\ BoardInOneHand
  <1> SUFFICES ASSUME ~closed PROVE SeatsInOneHand /\ BoardInOneHand
    BY DEF SeatsInOneHand, BoardInOneHand
  <1>1. ~dropped
    BY DEF SInv, Attached
  <1>2. ASSUME NEW p \in PlayerId
        PROVE  Hands(p) = IF p \in DOMAIN players THEN 1 ELSE 0
    <2>1. p # Host /\ timers[p] = IF p \in reapers THEN 1 ELSE 0
      BY SessionAssumption DEF SInv, TimersHeld
    <2>2. CASE p \in DOMAIN players
      BY <1>1, <2>1, <2>2, AttachedOnce DEF Hands, SInv, OneHand
    <2>3. CASE p \notin DOMAIN players
      <3>1. p \notin reapers /\ \A x \in DOMAIN members : members[x] # p
        BY <2>1, <2>3 DEF SInv, OneHand
      <3> QED BY <2>1, <2>3, <3>1, AttachedOnce DEF Hands, SInv
    <2> QED BY <2>2, <2>3
  <1>3. BoardInOneHand
    <2>1. Cardinality(AttachedAs(Host)) = IF hostReaper THEN 0 ELSE 1
      BY AttachedOnce DEF SInv, OneHand
    <2>2. hostTimers = IF hostReaper THEN 1 ELSE 0
      BY DEF SInv, TimersHeld
    <2> QED BY <2>1, <2>2 DEF BoardInOneHand
  <1> QED BY <1>2, <1>3 DEF SeatsInOneHand

(* Each seat is in exactly one hand: one connection or one grace timer       *)
(* (roomSession.ts:105-139, 183-214, 253-285).                               *)
THEOREM SessionSeatsInOneHand == SessionSpec => []SeatsInOneHand
  BY SessionSInv, HandsCounted, PTL

(* And so is the board (roomSession.ts:91-102, 203-238).                     *)
THEOREM SessionBoardInOneHand == SessionSpec => []BoardInOneHand
  BY SessionSInv, HandsCounted, PTL

(* The hub routes to the room whom the room knows (roomHub.ts:83-107,        *)
(* 130-138, 191-202).                                                        *)
THEOREM SessionBoundIffMember == SessionSpec => []BoundIffMember
  <1>1. SInv => BoundIffMember
    BY DEF SInv, Attached, BoundIffMember
  <1> QED BY <1>1, SessionSInv, PTL

(* Whoever has not seen the room as it is has a frame coming                 *)
(* (roomSession.ts:287-315).                                                 *)
THEOREM SessionFrameOnItsWay == SessionSpec => []FrameOnItsWay
  <1>1. SInv => FrameOnItsWay
    BY DEF SInv
  <1> QED BY <1>1, SessionSInv, PTL

(* A room that is gone left nothing behind (roomSession.ts:318-332).         *)
THEOREM SessionNothingLeft == SessionSpec => []NothingLeft
  <1>1. SInv => NothingLeft
    <2> SUFFICES ASSUME SInv, dropped PROVE NothingLeft
      BY DEF NothingLeft
    <2>1. DOMAIN members = {} /\ members = [x \in {} |-> Host] /\ bound = {}
      BY DEF SInv, Attached
    <2>2. hostTimers = 0 /\ \A p \in PlayerId : timers[p] = 0
      BY DEF SInv, TimersHeld
    <2> QED BY <2>1, <2>2 DEF NothingLeft
  <1> QED BY <1>1, SessionSInv, PTL

-----------------------------------------------------------------------------
(* The refinement: what a step does to a seat, read through seatBar.         *)
Empty(v) == \A x \in DOMAIN members : members[x] # v
SeatOf(p) ==
  IF p \in DOMAIN players THEN IF Empty(p) THEN "away" ELSE "here"
  ELSE IF p <= minted THEN "gone" ELSE "free"

LEMMA BarsAre ==
  /\ seatBar = [p \in PlayerId |-> IF closed THEN "gone" ELSE SeatOf(p)]
  /\ boardBar = IF closed THEN "gone" ELSE IF Empty(Host) THEN "away" ELSE "here"
  <1>1. \A v : AttachedAs(v) # {} <=> ~Empty(v)
    BY DEF AttachedAs, Empty
  <1> QED BY <1>1 DEF seatBar, boardBar, SeatOf

LEMMA NextBarsAre ==
  /\ seatBar' = [p \in PlayerId |-> IF closed' THEN "gone" ELSE SeatOf(p)']
  /\ boardBar' = IF closed' THEN "gone" ELSE IF Empty(Host)' THEN "away" ELSE "here"
  <1>1. \A v : AttachedAs(v)' # {} <=> ~Empty(v)'
    BY DEF AttachedAs, Empty
  <1> QED BY <1>1 DEF seatBar, boardBar, SeatOf

LEMMA InitSeats == SessionInit => S!SeatsInit
  <1> SUFFICES ASSUME SessionInit PROVE S!SeatsInit
    OBVIOUS
  <1>1. DOMAIN players = {} /\ closed = FALSE /\ minted = 0
    BY DEF SessionInit, Init, NoEntries
  <1>2. PICK c \in Conn : members = [x \in {c} |-> Host]
    BY DEF SessionInit
  <1>3. ~Empty(Host)
    BY <1>2 DEF Empty
  <1>4. \A p \in PlayerId : SeatOf(p) = "free"
    BY <1>1, RoomAssumption DEF PlayerId, SeatOf
  <1> QED BY <1>1, <1>3, <1>4, BarsAre DEF S!SeatsInit

(* A step that moves one seat, or none.                                      *)
LEMMA OneSeatMoves ==
  ASSUME ~closed, closed' = closed, Empty(Host)' <=> Empty(Host), NEW p \in PlayerId,
         \A q \in PlayerId \ {p} : SeatOf(q)' = SeatOf(q)
  PROVE  /\ seatBar' = [seatBar EXCEPT ![p] = SeatOf(p)'] /\ boardBar' = boardBar
         /\ seatBar[p] = SeatOf(p) /\ S!Open
  BY BarsAre, NextBarsAre DEF S!Open

LEMMA NoSeatMoves ==
  ASSUME closed' = closed, Empty(Host)' <=> Empty(Host),
         \A q \in PlayerId : SeatOf(q)' = SeatOf(q)
  PROVE  UNCHANGED <<seatBar, boardBar>>
  BY BarsAre, NextBarsAre

LEMMA ClosedRoomIsOver ==
  ASSUME closed, closed'
  PROVE  UNCHANGED <<seatBar, boardBar>>
  BY BarsAre, NextBarsAre

LEMMA RoomEnds ==
  ASSUME ~closed, closed'
  PROVE  S!End /\ boardBar = IF Empty(Host) THEN "away" ELSE "here"
  BY BarsAre, NextBarsAre DEF S!End

Refined == S!SeatsNext \/ UNCHANGED <<seatBar, boardBar>>

LEMMA JoinRefines ==
  ASSUME SInv, ~closed, NEW c \in Conn, NEW nick \in Nick, JoinMsg(c, nick)
  PROVE  Refined
  <1>1. /\ minted' = minted + 1 /\ minted' \in PlayerId /\ minted' \notin DOMAIN players
        /\ DOMAIN players' = DOMAIN players \cup {minted'} /\ closed' = closed
    BY JoinSeats DEF SInv, JoinMsg
  <1>2. members' = Put(members, c, minted') /\ c \notin DOMAIN members
    BY DEF JoinMsg, SInv, Attached
  <1>3. /\ DOMAIN members' = DOMAIN members \cup {c} /\ members'[c] = minted'
        /\ \A x \in DOMAIN members : members'[x] = members[x]
    BY <1>2 DEF Put
  <1>4. minted \in Nat
    BY RoomAssumption DEF SInv, IInv, TypeOK
  <1>5. PICK p \in PlayerId : p = minted'
    BY <1>1
  <1>6. \A v : v # p => (Empty(v)' <=> Empty(v))
    BY <1>2, <1>3, <1>5 DEF Empty
  <1>7. SeatOf(p) = "free" /\ SeatOf(p)' = "here"
    BY <1>1, <1>3, <1>4, <1>5 DEF SeatOf, Empty
  <1>8. \A q \in PlayerId \ {p} : SeatOf(q)' = SeatOf(q)
    <2>1. \A q \in PlayerId \ {p} : q <= minted' <=> q <= minted
      BY <1>1, <1>4, <1>5 DEF PlayerId
    <2> QED BY <1>1, <1>5, <1>6, <2>1 DEF SeatOf
  <1>9. p # Host
    BY SessionAssumption
  <1>10. S!SitDown(p)
    BY <1>1, <1>6, <1>7, <1>8, <1>9, OneSeatMoves DEF S!SitDown, S!Move
  <1> QED BY <1>10 DEF Refined, S!SeatsNext

LEMMA ResumeRefines ==
  ASSUME SInv, ~closed, NEW c \in Conn, NEW p \in PlayerId, ResumeMsg(c, p)
  PROVE  Refined
  <1>1. p \in DOMAIN players /\ players' = players /\ closed' = closed /\ minted' = minted
    BY DEF SInv, IInv, TokensSeated, ResumeMsg, vars
  <1>2. /\ DOMAIN members' = {x \in DOMAIN members : members[x] # p} \cup {c}
        /\ members'[c] = p
        /\ \A x \in DOMAIN members' \ {c} : members'[x] = members[x]
    BY SeatMoves DEF SInv, ResumeMsg
  <1>3. p # Host /\ c \notin DOMAIN members
    BY SessionAssumption DEF ResumeMsg, SInv, Attached
  <1>4. \A v : v # p => (Empty(v)' <=> Empty(v))
    BY <1>2, <1>3 DEF Empty
  <1>5. SeatOf(p)' = "here" /\ SeatOf(p) \in {"here", "away"}
    BY <1>1, <1>2 DEF SeatOf, Empty
  <1>6. \A q \in PlayerId \ {p} : SeatOf(q)' = SeatOf(q)
    BY <1>1, <1>4 DEF SeatOf
  <1>7. CASE SeatOf(p) = "away"
    <2>1. S!ComeBack(p)
      BY <1>1, <1>3, <1>4, <1>5, <1>6, <1>7, OneSeatMoves DEF S!ComeBack, S!Move
    <2> QED BY <2>1 DEF Refined, S!SeatsNext
  <1>8. CASE SeatOf(p) = "here"
    <2>1. \A q \in PlayerId : SeatOf(q)' = SeatOf(q)
      BY <1>5, <1>6, <1>8
    <2> QED BY <1>1, <1>3, <1>4, <2>1, NoSeatMoves DEF Refined
  <1> QED BY <1>5, <1>7, <1>8

LEMMA ResumeHostRefines ==
  ASSUME SInv, ~closed, NEW c \in Conn, ResumeHostMsg(c)
  PROVE  Refined
  <1>1. players' = players /\ closed' = closed /\ minted' = minted
    BY DEF ResumeHostMsg, vars
  <1>2. /\ DOMAIN members' = {x \in DOMAIN members : members[x] # Host} \cup {c}
        /\ members'[c] = Host
        /\ \A x \in DOMAIN members' \ {c} : members'[x] = members[x]
    BY SeatMoves DEF SInv, ResumeHostMsg
  <1>3. c \notin DOMAIN members /\ Host \notin PlayerId
    BY SessionAssumption DEF ResumeHostMsg, SInv, Attached
  <1>4. (\A v : v # Host => (Empty(v)' <=> Empty(v))) /\ ~Empty(Host)'
    BY <1>2, <1>3 DEF Empty
  <1>5. \A q \in PlayerId : SeatOf(q)' = SeatOf(q)
    BY <1>1, <1>3, <1>4 DEF SeatOf
  <1>6. CASE Empty(Host)
    <2>1. S!BoardBack
      BY <1>1, <1>4, <1>5, <1>6, BarsAre, NextBarsAre DEF S!BoardBack
    <2> QED BY <2>1 DEF Refined, S!SeatsNext
  <1>7. CASE ~Empty(Host)
    BY <1>1, <1>4, <1>5, <1>7, NoSeatMoves DEF Refined
  <1> QED BY <1>6, <1>7

LEMMA PlayingRefines ==
  ASSUME SInv, ~closed, NEW c \in Conn, HostMsg(c) \/ PlayMsg(c)
  PROVE  Refined
  <1>1. DOMAIN players' = DOMAIN players /\ minted' = minted /\ closed' = closed
    BY PlayingSeats DEF HostMsg, PlayMsg
  <1>2. members' = members
    BY DEF HostMsg, PlayMsg
  <1> QED BY <1>1, <1>2, NoSeatMoves DEF Refined, SeatOf, Empty

LEMMA PlayerLeaveRefines ==
  ASSUME SInv, ~closed, NEW c \in Conn, PlayerLeaveMsg(c)
  PROVE  Refined
  <1>1. PICK p \in PlayerId : IsMember(c, p) /\ Leave(p)
    BY DEF PlayerLeaveMsg
  <1>2. DOMAIN players' = DOMAIN players \ {p} /\ UNCHANGED <<closed, minted>>
    BY <1>1, LeaveSeats
  <1>3. DOMAIN members' = DOMAIN members \ {c} /\ \A x \in DOMAIN members' : members'[x] = members[x]
    BY UnseatMoves DEF SInv, PlayerLeaveMsg
  <1>4. c \in DOMAIN members /\ members[c] = p /\ p # Host
    BY <1>1, SessionAssumption DEF IsMember
  <1>5. p \in DOMAIN players /\ p <= minted
    BY <1>1 DEF Leave, SInv, IInv, IdsMinted
  <1>6. \A v : v # p => (Empty(v)' <=> Empty(v))
    BY <1>3, <1>4 DEF Empty
  <1>7. SeatOf(p) = "here" /\ SeatOf(p)' = "gone"
    BY <1>2, <1>4, <1>5 DEF SeatOf, Empty
  <1>8. \A q \in PlayerId \ {p} : SeatOf(q)' = SeatOf(q)
    BY <1>2, <1>6 DEF SeatOf
  <1>9. S!GetUp(p)
    BY <1>2, <1>4, <1>6, <1>7, <1>8, OneSeatMoves DEF S!GetUp, S!Move
  <1> QED BY <1>9 DEF Refined, S!SeatsNext

LEMMA HostLeaveRefines ==
  ASSUME SInv, ~closed, NEW c \in Conn, HostLeaveMsg(c)
  PROVE  Refined
  <1>1. closed' /\ ~Empty(Host)
    BY DEF HostLeaveMsg, HostLeave, IsMember, Empty
  <1>2. S!BoardLeaves
    BY <1>1, RoomEnds DEF S!BoardLeaves
  <1> QED BY <1>2 DEF Refined, S!SeatsNext

LEMMA PlayerDropsRefines ==
  ASSUME SInv, ~closed, NEW c \in Conn, PlayerDrops(c)
  PROVE  Refined
  <1>1. PICK p \in PlayerId : IsMember(c, p)
    BY DEF PlayerDrops
  <1>2. players' = players /\ UNCHANGED <<closed, minted>>
    BY DEF PlayerDrops, vars
  <1>3. DOMAIN members' = DOMAIN members \ {c} /\ \A x \in DOMAIN members' : members'[x] = members[x]
    BY UnseatMoves DEF SInv, PlayerDrops
  <1>4. c \in DOMAIN members /\ members[c] = p /\ p # Host /\ p \in DOMAIN players
    BY <1>1, SessionAssumption DEF IsMember, SInv, OneHand
  <1>5. (\A v : v # p => (Empty(v)' <=> Empty(v))) /\ Empty(p)' /\ ~Empty(p)
    BY <1>3, <1>4 DEF Empty, SInv, OneHand
  <1>6. SeatOf(p) = "here" /\ SeatOf(p)' = "away"
    BY <1>2, <1>4, <1>5 DEF SeatOf
  <1>7. \A q \in PlayerId \ {p} : SeatOf(q)' = SeatOf(q)
    BY <1>2, <1>5 DEF SeatOf
  <1>8. S!CutOff(p)
    BY <1>2, <1>4, <1>5, <1>6, <1>7, OneSeatMoves DEF S!CutOff, S!Move
  <1> QED BY <1>8 DEF Refined, S!SeatsNext

LEMMA HostDropsRefines ==
  ASSUME SInv, ~closed, NEW c \in Conn, HostDrops(c)
  PROVE  Refined
  <1>1. players' = players /\ UNCHANGED <<closed, minted>> /\ IsMember(c, Host)
    BY DEF HostDrops, vars
  <1>2. DOMAIN members' = DOMAIN members \ {c} /\ \A x \in DOMAIN members' : members'[x] = members[x]
    BY UnseatMoves DEF SInv, HostDrops
  <1>3. c \in DOMAIN members /\ members[c] = Host /\ Host \notin PlayerId
    BY <1>1, SessionAssumption DEF IsMember
  <1>4. (\A v : v # Host => (Empty(v)' <=> Empty(v))) /\ Empty(Host)' /\ ~Empty(Host)
    BY <1>2, <1>3 DEF Empty, SInv, OneHand
  <1>5. \A q \in PlayerId : SeatOf(q)' = SeatOf(q)
    BY <1>1, <1>3, <1>4 DEF SeatOf
  <1>6. S!BoardCutOff
    BY <1>1, <1>4, <1>5, BarsAre, NextBarsAre DEF S!BoardCutOff
  <1> QED BY <1>6 DEF Refined, S!SeatsNext

LEMMA ReapRefines ==
  ASSUME SInv, ~closed, NEW p \in PlayerId, ReapFires(p)
  PROVE  Refined
  <1>1. p \in DOMAIN players /\ Leave(p) /\ Empty(p)
    BY TimerOfAnAwaySeat DEF Empty
  <1>2. DOMAIN players' = DOMAIN players \ {p} /\ UNCHANGED <<closed, minted>>
    BY <1>1, LeaveSeats
  <1>3. members' = members
    BY DEF ReapFires
  <1>4. p <= minted
    BY <1>1 DEF SInv, IInv, IdsMinted
  <1>5. \A v : Empty(v)' <=> Empty(v)
    BY <1>3 DEF Empty
  <1>6. SeatOf(p) = "away" /\ SeatOf(p)' = "gone"
    BY <1>1, <1>2, <1>4 DEF SeatOf
  <1>7. \A q \in PlayerId \ {p} : SeatOf(q)' = SeatOf(q)
    BY <1>2, <1>5 DEF SeatOf
  <1>8. S!GivenUp(p)
    BY <1>2, <1>5, <1>6, <1>7, OneSeatMoves DEF S!GivenUp, S!Move
  <1> QED BY <1>8 DEF Refined, S!SeatsNext

LEMMA HostReapRefines ==
  ASSUME SInv, ~closed, HostReapFires
  PROVE  Refined
  <1>1. closed' /\ hostTimers > 0
    BY DEF HostReapFires, HostLeave
  <1>2. Empty(Host)
    BY <1>1 DEF SInv, TimersHeld, OneHand, Empty
  <1>3. S!BoardGivenUp
    BY <1>1, <1>2, RoomEnds DEF S!BoardGivenUp
  <1> QED BY <1>3 DEF Refined, S!SeatsNext

LEMMA NextRefines ==
  ASSUME SInv, [SessionNext]_sessionVars
  PROVE  Refined
  <1>1. CASE UNCHANGED sessionVars
    BY <1>1 DEF sessionVars, vars, Refined, seatBar, boardBar, AttachedAs
  <1>2. CASE SessionNext /\ closed
    <2>1. [Next]_vars
      BY <1>2, SessionStepsRoom
    <2>2. closed'
      BY <1>2, <2>1 DEF vars, Next, Join, Leave, HostLeave, SelectGame, ConfigureGame, StartGame,
         GameEvent, EndGame
    <2> QED BY <1>2, <2>2, ClosedRoomIsOver DEF Refined
  <1>3. CASE SessionNext /\ ~closed
    <2>1. ASSUME NEW c \in Conn, Messages(c) PROVE Refined
      BY <1>3, <2>1, JoinRefines, ResumeRefines, ResumeHostRefines, PlayingRefines,
         PlayerLeaveRefines, HostLeaveRefines DEF Messages
    <2>2. CASE Frames
      BY <2>2 DEF Frames, vars, Refined, seatBar, boardBar, AttachedAs
    <2>3. ~CloseOut
      BY <1>3 DEF CloseOut
    <2> QED BY <1>3, <2>1, <2>2, <2>3, PlayerDropsRefines, HostDropsRefines, ReapRefines,
               HostReapRefines DEF SessionNext
  <1> QED BY <1>1, <1>2, <1>3

(* The session is an implementation of the seats, whatever the number of     *)
(* devices and seats: nobody loses a seat while attached to it, nobody gets  *)
(* back one that is gone, and a board that is cut off keeps its room until   *)
(* its window ends (roomSession.ts:85-139, 196-285).                         *)
THEOREM SessionImplementsSeats == SessionSpec => S!SeatsSafety
  <1>1. SInv /\ [SessionNext]_sessionVars => [S!SeatsNext]_<<seatBar, boardBar>>
    BY NextRefines DEF Refined
  <1> QED BY <1>1, InitSeats, SessionSInv, PTL DEF SessionSpec, S!SeatsSafety, S!seatVars
=============================================================================
