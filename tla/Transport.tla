------------------------------ MODULE Transport ------------------------------
(***************************************************************************)
(* A player's way into a room and back into it: the transport of each tab  *)
(* of one browser (apps/web/src/transport/socket.ts), the resume token the *)
(* tabs share in localStorage (factory.ts), and the sockets between them   *)
(* and the server.  A transport heals itself: a dropped, stuck or silent   *)
(* socket is given up for a new one, which joins with the token again.     *)
(*                                                                         *)
(* A socket carries messages in order, each way; two sockets do not wait   *)
(* for each other.  A socket may fall silent for good (`cut`): its ends    *)
(* notice apart, or by their timers only.  A timer may also expire though  *)
(* the answer is on its way.  `faults` bounds both.  The server keeps only *)
(* which socket each seat is held by; RoomSession.tla is the whole of it.  *)
(*                                                                         *)
(* Frames, pings and pongs are not modelled: `joined` stands for the first *)
(* frame, and a socket is silent exactly while it is cut.                  *)
(***************************************************************************)
EXTENDS Naturals, Sequences, FiniteSetsExt, SequencesExt

CONSTANTS Tab, MaxSock, MaxSeat, MaxAct, MaxStarts, MaxFaults

ASSUME TransportAssumption ==
  Tab # {} /\ {MaxSock, MaxSeat, MaxAct, MaxStarts, MaxFaults} \subseteq Nat

Sock == 1..MaxSock
Seat == 1..MaxSeat
None == 0

VARIABLES room,     \* open or closed
          holder,   \* seat -> the socket that holds it, Grace, Gone or Unborn
          applied,  \* the actions the room has taken, in order
          client,   \* socket -> its end in the tab
          server,   \* socket -> its end at the server
          up, down, \* socket -> the messages on their way
          cut,      \* the sockets that have fallen silent
          owner,    \* socket -> the tab that made it
          tabs,     \* tab -> its transport
          stored,   \* the browser's resume token for this room
          acts, starts, faults

serverVars == <<room, holder, applied>>
wireVars == <<client, server, up, down, cut, owner>>
vars == <<serverVars, wireVars, tabs, stored, acts, starts, faults>>

(* What holds a seat when no socket does.                                    *)
Unborn == 0
Grace == MaxSock + 1
Gone == MaxSock + 2

(* The transport of a tab; `sock` is None once the current generation has    *)
(* been abandoned.                                                           *)
NewTransport(token) ==
  [stopped |-> FALSE, superseded |-> FALSE, open |-> FALSE,
   awaitingReconnect |-> FALSE, backoffs |-> 0, timer |-> "off", sock |-> None,
   reconnectToken |-> token, viewer |-> None, pending |-> <<>>]

(* A stopped transport does nothing and hears nothing: it keeps no state.    *)
StoppedTransport == [NewTransport(None) EXCEPT !.stopped = TRUE]

Init ==
  /\ room = "open" /\ holder = [k \in Seat |-> Unborn] /\ applied = <<>>
  /\ client = [s \in Sock |-> "closed"] /\ server = [s \in Sock |-> "closed"]
  /\ up = [s \in Sock |-> <<>>] /\ down = [s \in Sock |-> <<>>]
  /\ cut = {} /\ owner \in [Sock -> {CHOOSE t \in Tab : TRUE}]
  /\ tabs = [t \in Tab |-> StoppedTransport]
  /\ stored = None /\ acts = 0 /\ starts = 0 /\ faults = 0

Msg(type) == [type |-> type]
JoinAs(token) == [type |-> "join", token |-> token]
Joined(k) == [type |-> "joined", seat |-> k]
Play(n) == [type |-> "play", n |-> n]
Fin == Msg("fin")

Spend == faults < MaxFaults /\ faults' = faults + 1

(* A slot whose socket both ends have closed may stand for a new socket.     *)
FreeSock(s) == client[s] = "closed" /\ server[s] = "closed"

Current(s) == tabs[owner[s]].sock = s
Live(s) == client[s] \in {"connecting", "open"}

-----------------------------------------------------------------------------
(* The transport's methods, from its state to its next state. *)

(* handleDrop: one backed-off retry for each drop.                           *)
handleDrop(T) ==
  IF T.stopped \/ T.awaitingReconnect THEN T
  ELSE [T EXCEPT !.open = FALSE, !.awaitingReconnect = TRUE, !.timer = "off",
                 !.backoffs = @ + 1]

(* stop: no timers, no retry; the screen shows why.                          *)
stop(why) == [StoppedTransport EXCEPT !.superseded = why = "SUPERSEDED"]

(* connect: a new socket takes the transport over.                           *)
Connect(t, T) ==
  \E s \in Sock :
    /\ FreeSock(s) /\ \A s2 \in Sock : FreeSock(s2) => s <= s2
    /\ tabs' = [tabs EXCEPT ![t] = [T EXCEPT !.open = FALSE, !.sock = s,
                                             !.timer = "connect"]]
    /\ client' = [client EXCEPT ![s] = "connecting"]
    /\ owner' = [owner EXCEPT ![s] = t]
    /\ UNCHANGED <<server, up, down, cut>>

(* What a closed end is sent, or on a cut socket, is lost.                   *)
Up(s, ms) ==
  IF server[s] = "open" /\ s \notin cut THEN [up EXCEPT ![s] = @ \o ms] ELSE up
Down(s, ms) == IF Live(s) /\ s \notin cut THEN [down EXCEPT ![s] = @ \o ms] ELSE down

(* socket.close(): what has been sent still goes out before the close, and   *)
(* nothing more comes in but the socket's own `close`.                       *)
CloseAfter(s, ms) ==
  IF s \in Sock /\ Live(s)
  THEN /\ client' = [client EXCEPT ![s] = "closing"]
       /\ up' = Up(s, Append(ms, Fin))
       /\ down' = [down EXCEPT ![s] = <<>>]
  ELSE UNCHANGED <<client, up, down>>
CloseSocket(s) == CloseAfter(s, <<>>)

-----------------------------------------------------------------------------
(* The user. *)

(* The join form: a transport for the room, with the token this browser has. *)
Start(t) ==
  /\ tabs[t].stopped /\ starts < MaxStarts
  /\ starts' = starts + 1
  /\ Connect(t, NewTransport(stored))
  /\ UNCHANGED <<serverVars, stored, acts, faults>>

(* dispatch: sent on an open socket, kept for the next one otherwise.        *)
SentAndKept(T, m) == Append(T.pending, m)
Kept(T, m) == IF T.open THEN T.pending ELSE Append(T.pending, m)

(* send: nothing before the room is known, nothing after the end.            *)
Act(t) ==
  LET T == tabs[t] IN
  /\ ~T.stopped /\ T.viewer # None /\ acts < MaxAct
  /\ acts' = acts + 1
  /\ tabs' = [tabs EXCEPT ![t].pending = Kept(T, Play(acts'))]
  /\ up' = IF T.open THEN Up(T.sock, <<Play(acts')>>) ELSE up
  /\ UNCHANGED <<serverVars, client, server, down, cut, owner, stored, starts, faults>>

(* "Leave room": the token is forgotten only if the leave went out.          *)
LeaveRoom(t) ==
  LET T == tabs[t] IN
  /\ ~T.stopped /\ T.viewer # None
  /\ tabs' = [tabs EXCEPT ![t] = stop("left")]
  /\ IF T.open
     THEN CloseAfter(T.sock, <<Msg("leave")>>) /\ stored' = None
     ELSE CloseSocket(T.sock) /\ UNCHANGED stored
  /\ UNCHANGED <<serverVars, server, cut, owner, acts, starts, faults>>

(* A reload, or the way back from the waiting screen: the screen goes.       *)
Dispose(t) ==
  /\ ~tabs[t].stopped
  /\ tabs' = [tabs EXCEPT ![t] = stop("disposed")]
  /\ CloseSocket(tabs[t].sock)
  /\ UNCHANGED <<serverVars, server, cut, owner, stored, acts, starts, faults>>

-----------------------------------------------------------------------------
(* The tab's socket events and timers. *)

(* An abandoned socket's events are ignored.                                 *)
HeardFromAny(s) == TRUE
HeardFrom(s) == Current(s)

(* Once open, it joins and sends what was kept.                              *)
handleOpen(s) ==
  LET t == owner[s]
      T == tabs[t]
  IN
  /\ client[s] = "connecting" /\ s \notin cut
  /\ client' = [client EXCEPT ![s] = "open"]
  /\ server' = [server EXCEPT ![s] = "open"]
  /\ tabs' = [tabs EXCEPT ![t] = [T EXCEPT !.open = TRUE, !.awaitingReconnect = FALSE,
                                           !.timer = "watchdog", !.pending = <<>>]]
  /\ up' = [up EXCEPT ![s] = <<JoinAs(T.reconnectToken)>> \o T.pending]
  /\ UNCHANGED <<serverVars, down, cut, owner, stored, acts, starts, faults>>

TokenOfTheStart(T, k) == T.reconnectToken
TokenRefreshed(T, k) == k

(* receive: `joined`, and the errors that end the transport.                 *)
RoomErrorsOnly == {"ROOM_CLOSED", "NO_SUCH_ROOM", "ROOM_FULL"}
TERMINAL == {"SUPERSEDED", "ROOM_CLOSED", "NO_SUCH_ROOM", "ROOM_FULL"}
GONE == {"ROOM_CLOSED", "NO_SUCH_ROOM"}

receive(s) ==
  LET t == owner[s]
      T == tabs[t]
      m == Head(down[s])
  IN
  /\ client[s] = "open" /\ s \notin cut /\ down[s] # <<>> /\ m # Fin
  /\ IF m.type = "joined"
     THEN /\ tabs' = [tabs EXCEPT ![t].viewer = m.seat,
                                  ![t].reconnectToken = TokenRefreshed(T, m.seat)]
          /\ stored' = m.seat
          /\ down' = [down EXCEPT ![s] = Tail(@)]
          /\ UNCHANGED <<client, up>>
     ELSE IF m.type \in TERMINAL
     THEN /\ tabs' = [tabs EXCEPT ![t] = stop(m.type)]
          /\ stored' = IF m.type \in GONE THEN None ELSE stored
          /\ CloseSocket(s)
     ELSE down' = [down EXCEPT ![s] = Tail(@)] /\ UNCHANGED <<tabs, stored, client, up>>
  /\ UNCHANGED <<serverVars, server, cut, owner, acts, starts, faults>>

DroppedBy(s) == IF HeardFrom(s) THEN [tabs EXCEPT ![owner[s]] = handleDrop(@)] ELSE tabs

(* The `error` of a socket that broke; its `close` is still to come.         *)
ErrorEvent(s) ==
  /\ s \in cut /\ Live(s)
  /\ client' = [client EXCEPT ![s] = "closing"]
  /\ down' = [down EXCEPT ![s] = <<>>]
  /\ tabs' = DroppedBy(s)
  /\ UNCHANGED <<serverVars, server, up, cut, owner, stored, acts, starts, faults>>

(* The `close` of a socket the server has closed, that broke, or that the    *)
(* transport has closed itself.                                              *)
CloseEvent(s) ==
  /\ \/ client[s] = "closing"
     \/ Live(s) /\ s \notin cut /\ down[s] # <<>> /\ Head(down[s]) = Fin
  /\ client' = [client EXCEPT ![s] = "closed"]
  /\ down' = [down EXCEPT ![s] = <<>>]
  /\ tabs' = [t \in Tab |-> IF tabs[t].sock = s THEN [DroppedBy(s)[t] EXCEPT !.sock = None]
                            ELSE DroppedBy(s)[t]]
  /\ cut' = IF server[s] = "closed" THEN cut \ {s} ELSE cut
  /\ UNCHANGED <<serverVars, server, up, owner, stored, acts, starts, faults>>

(* forceReconnect: the connect timeout, the watchdog and the probe of a tab  *)
(* that comes back into view.                                                *)
TimedOut(t) ==
  LET T == tabs[t] IN
  /\ T.timer # "off"
  /\ IF T.sock \in cut THEN UNCHANGED faults ELSE Spend
  /\ tabs' = [tabs EXCEPT ![t] = [handleDrop(T) EXCEPT !.sock = None]]
  /\ CloseSocket(T.sock)
  /\ UNCHANGED <<serverVars, server, cut, owner, stored, acts, starts>>

BackoffFires(t) ==
  LET T == tabs[t] IN
  /\ T.backoffs > 0
  /\ Connect(t, [T EXCEPT !.backoffs = @ - 1, !.awaitingReconnect = FALSE])
  /\ UNCHANGED <<serverVars, stored, acts, starts, faults>>

BackoffCancelled(T) == T.backoffs - 1

(* reconnectNow: the network is back, or the tab is in view again.           *)
reconnectNow(t) ==
  LET T == tabs[t] IN
  /\ ~T.stopped /\ T.awaitingReconnect
  /\ Connect(t, [T EXCEPT !.backoffs = BackoffCancelled(T), !.awaitingReconnect = FALSE])
  /\ UNCHANGED <<serverVars, stored, acts, starts, faults>>

-----------------------------------------------------------------------------
(* The server, reduced to who holds which seat. *)

SeatsOf(s) == {k \in Seat : holder[k] = s}
Vacated(s) == [k \in Seat |-> IF holder[k] = s THEN Grace ELSE holder[k]]
Tell(s, m) == down' = Down(s, <<m>>)

(* The server's end closes: what comes in on it is no longer read.           *)
ServerCloses(S) ==
  /\ server' = [s \in Sock |-> IF s \in S THEN "closed" ELSE server[s]]
  /\ cut' = {s \in cut : ~(s \in S /\ client[s] = "closed")}

(* A join with the token of a seat that is not gone: the seat changes hands, *)
(* and the socket that held it is told so and closed.                        *)
Resume(s, k) ==
  LET old == {holder[k]} \cap Sock IN
  /\ holder' = [holder EXCEPT ![k] = s]
  /\ down' = [x \in Sock |->
       IF x = s THEN Down(x, <<Joined(k)>>)[x]
       ELSE IF x \in old THEN Down(x, <<Msg("SUPERSEDED"), Fin>>)[x] ELSE down[x]]
  /\ ServerCloses(old)
  /\ up' = [x \in Sock |-> IF x \in old THEN <<>> ELSE IF x = s THEN Tail(up[s]) ELSE up[x]]
  /\ UNCHANGED applied

Read(s) == up' = [up EXCEPT ![s] = Tail(@)]

(* Ids are minted once and not used again, so the model's last id stands for *)
(* the full room.                                                            *)
SitDown(s) ==
  /\ IF \E k \in Seat : holder[k] = Unborn
     THEN LET k == Min({x \in Seat : holder[x] = Unborn})
          IN  holder' = [holder EXCEPT ![k] = s] /\ Tell(s, Joined(k))
     ELSE UNCHANGED holder /\ Tell(s, Msg("ROOM_FULL"))
  /\ Read(s)
  /\ UNCHANGED <<applied, server, cut>>

JoinMsg(s, token) ==
  IF room = "closed"
  THEN Tell(s, Msg("NO_SUCH_ROOM")) /\ Read(s) /\ UNCHANGED <<holder, applied, server, cut>>
  ELSE IF token # None /\ holder[token] \notin {Gone, Unborn}
       THEN Resume(s, token)
       ELSE SitDown(s)

PlayMsg(s, n) ==
  /\ applied' = IF SeatsOf(s) # {} THEN Append(applied, n) ELSE applied
  /\ Read(s)
  /\ UNCHANGED <<holder, server, down, cut>>

LeaveMsg(s) ==
  /\ holder' = [k \in Seat |-> IF holder[k] = s THEN Gone ELSE holder[k]]
  /\ Read(s)
  /\ UNCHANGED <<applied, server, down, cut>>

(* A socket closes: its seat is kept for the grace.                          *)
Disconnect(s) ==
  /\ holder' = Vacated(s)
  /\ ServerCloses({s})
  /\ up' = [up EXCEPT ![s] = <<>>]
  /\ UNCHANGED <<applied, down>>

ServerReceives(s) ==
  /\ server[s] = "open" /\ s \notin cut /\ up[s] # <<>>
  /\ LET m == Head(up[s]) IN
       \/ m.type = "join" /\ JoinMsg(s, m.token)
       \/ m.type = "play" /\ PlayMsg(s, m.n)
       \/ m.type = "leave" /\ LeaveMsg(s)
       \/ m.type = "fin" /\ Disconnect(s)
  /\ UNCHANGED <<room, client, owner, tabs, stored, acts, starts, faults>>

(* The heartbeat finds a dead socket.                                        *)
ServerNotices(s) ==
  /\ s \in cut /\ server[s] = "open"
  /\ Disconnect(s)
  /\ UNCHANGED <<room, client, owner, tabs, stored, acts, starts, faults>>

(* The handshake deadline closes a socket whose join has not arrived.        *)
DeadlineCloses(s) ==
  /\ server[s] = "open" /\ SeatsOf(s) = {} /\ s \notin cut /\ Spend
  /\ server' = [server EXCEPT ![s] = "closed"]
  /\ up' = [up EXCEPT ![s] = <<>>]
  /\ Tell(s, Fin)
  /\ UNCHANGED <<serverVars, client, cut, owner, tabs, stored, acts, starts>>

GraceFires(k) ==
  /\ holder[k] = Grace
  /\ holder' = [holder EXCEPT ![k] = Gone]
  /\ UNCHANGED <<room, applied, wireVars, tabs, stored, acts, starts, faults>>

(* The room closes: everybody attached is told.                              *)
RoomCloses ==
  /\ room = "open" /\ room' = "closed"
  /\ down' = [s \in Sock |-> IF SeatsOf(s) = {} THEN down[s]
                             ELSE Down(s, <<Msg("ROOM_CLOSED")>>)[s]]
  /\ holder' = [k \in Seat |-> Gone]
  /\ UNCHANGED <<applied, client, server, up, cut, owner, tabs, stored, acts, starts,
                 faults>>

(* A socket falls silent: nothing more arrives on it, either way.            *)
Cut(s) ==
  /\ ~FreeSock(s) /\ s \notin cut /\ Spend
  /\ cut' = cut \cup {s}
  /\ up' = [up EXCEPT ![s] = <<>>] /\ down' = [down EXCEPT ![s] = <<>>]
  /\ UNCHANGED <<serverVars, client, server, owner, tabs, stored, acts, starts>>

-----------------------------------------------------------------------------
TabStep(t) == Start(t) \/ Act(t) \/ LeaveRoom(t) \/ Dispose(t)
TabTimers(t) == TimedOut(t) \/ BackoffFires(t) \/ reconnectNow(t)
TabEvents(s) == handleOpen(s) \/ receive(s) \/ ErrorEvent(s) \/ CloseEvent(s)
ServerStep(s) == ServerReceives(s) \/ ServerNotices(s) \/ DeadlineCloses(s)

Next ==
  \/ \E t \in Tab : TabStep(t) \/ TabTimers(t)
  \/ \E s \in Sock : TabEvents(s) \/ ServerStep(s) \/ Cut(s)
  \/ \E k \in Seat : GraceFires(k)
  \/ RoomCloses

(* What happens of itself, on a finite number of faults, goes on until there *)
(* is no more of it: what is on its way arrives on a socket that is not cut, *)
(* a running timer ends, the heartbeat finds a dead socket.  Nobody has to   *)
(* act, and which comes first is free.                                       *)
Progress ==
  \/ \E t \in Tab : (TimedOut(t) /\ UNCHANGED faults) \/ BackoffFires(t)
  \/ \E s \in Sock : handleOpen(s) \/ receive(s) \/ CloseEvent(s)
                        \/ ServerReceives(s) \/ ServerNotices(s)
  \/ \E k \in Seat : GraceFires(k)

Spec == Init /\ [][Next]_vars /\ WF_vars(Progress)

-----------------------------------------------------------------------------
(* Every socket but the current one of a running transport is one its tab    *)
(* has closed: whatever order closes, errors, timers and retries come in, no *)
(* socket is left behind to hold a second seat, or to take the tab's own     *)
(* seat back (socket.ts:144-172, 190-200, 249-268, 348-364).                 *)
OneLiveSocket ==
  \A s \in Sock : Live(s) => Current(s) /\ ~tabs[owner[s]].stopped

(* However often an action was queued, flushed and cut off, the room takes   *)
(* it at most once (socket.ts:228-230, 376-386).                             *)
AppliedOnce == \A i, j \in DOMAIN applied : applied[i] = applied[j] => i = j

(* A transport is given another seat only once the one it had is gone: a     *)
(* retry always comes back to the seat it left (socket.ts:270-282, 305-312;  *)
(* roomSession.ts:104-138).                                                  *)
SeatAfterSeat ==
  \A t \in Tab :
    (tabs[t].viewer # None /\ tabs'[t].viewer # None /\ tabs'[t].viewer # tabs[t].viewer)
      => holder[tabs[t].viewer] = Gone
KeepsItsSeat == [][SeatAfterSeat]_vars

(* Once the faults and the user are through, the browser comes to rest:      *)
(* every tab has stopped and says why, or holds a seat with its socket; no   *)
(* retry is forgotten, no two tabs take the seat from each other for ever,   *)
(* and no seat is kept by a socket its tab has given up (socket.ts:158-172,  *)
(* 249-268, 348-364; wire.ts:13-25).                                         *)
AtRest(t) ==
  \/ tabs[t].stopped
  \/ tabs[t].sock # None /\ SeatsOf(tabs[t].sock) # {}
Abandoned(s) == SeatsOf(s) # {} /\ (~Current(s) \/ tabs[owner[s]].stopped)
Settled == (\A t \in Tab : AtRest(t)) /\ \A s \in Sock : ~Abandoned(s)
Settles == <>[]Settled

(* A tab is told SUPERSEDED only when another tab has taken its seat         *)
(* (wire.ts:9).                                                              *)
SupersededByAnother ==
  \A t \in Tab : tabs[t].superseded => \E u \in Tab \ {t} : ~tabs[u].stopped
=============================================================================
