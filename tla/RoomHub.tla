------------------------------- MODULE RoomHub -------------------------------
(***************************************************************************)
(* The server's registry and router (apps/server/src/roomHub.ts): many     *)
(* rooms, opened and closed while connections move between them.  A room   *)
(* is what the hub's bookkeeping depends on: who is attached to it, which  *)
(* grace timers run, whether it is closed and whether its fan-out is       *)
(* queued; RoomSession.tla has its inside.                                 *)
(*                                                                         *)
(* One socket's read may carry several messages, for several rooms in      *)
(* turn; the microtasks they queue run in order before anything else.      *)
(***************************************************************************)
EXTENDS Integers, FiniteSets, Sequences

CONSTANTS Conn, NoConn, Code, Address, NoAddress,
          address,               \* Conn -> Address, or NoAddress when unknown
          maxRooms, maxRoomsPerAddress,
          MAX_PLAYERS,           \* seats in a room
          MaxSessions            \* bound: rooms opened over the server's life

ASSUME HubAssumption ==
  /\ address \in [Conn -> Address \cup {NoAddress}]
  /\ NoConn \notin Conn /\ NoAddress \notin Address
  /\ MAX_PLAYERS \in Nat
  /\ maxRooms \in Nat /\ maxRoomsPerAddress \in Nat /\ MaxSessions \in Nat

Session == 1..MaxSessions

VARIABLES rooms,             \* code -> session
          sessionOf,         \* connection -> session
          openedBy,          \* code -> address
          roomsPerAddress,   \* address -> live rooms, absent when none
          opened,            \* sessions created so far
          code,              \* session -> its room's code
          hosts, people,     \* session -> attached connections, by role
          boardTimer, held,  \* session -> host timer running; seats on a timer
          closed,            \* sessions whose room is closed
          microtasks,        \* sessions whose fan-out is queued, in order
          tick               \* whose messages may come before the microtasks

registry == <<rooms, openedBy, roomsPerAddress, opened, code>>
hubVars == <<registry, sessionOf, hosts, people, boardTimer, held, closed, microtasks, tick>>

omit(f, S) == [x \in DOMAIN f \ S |-> f[x]]
Put(f, k, v) == [x \in DOMAIN f \cup {k} |-> IF x = k THEN v ELSE f[x]]
Queued(s) == \E i \in DOMAIN microtasks : microtasks[i] = s
Members(s) == hosts[s] \cup people[s]
Live(s) == \E k \in DOMAIN rooms : rooms[k] = s

HubTypeOK ==
  /\ DOMAIN rooms \subseteq Code /\ rooms \in [DOMAIN rooms -> Session]
  /\ DOMAIN sessionOf \subseteq Conn /\ sessionOf \in [DOMAIN sessionOf -> Session]
  /\ DOMAIN openedBy \subseteq Code /\ openedBy \in [DOMAIN openedBy -> Address]
  /\ DOMAIN roomsPerAddress \subseteq Address
  /\ roomsPerAddress \in [DOMAIN roomsPerAddress -> 1..maxRoomsPerAddress]
  /\ opened \in 0..MaxSessions
  /\ code \in [1..opened -> Code]
  /\ hosts \in [Session -> SUBSET Conn] /\ people \in [Session -> SUBSET Conn]
  /\ boardTimer \in [Session -> BOOLEAN] /\ held \in [Session -> Nat]
  /\ closed \subseteq Session /\ microtasks \in Seq(Session)
  /\ tick \in Conn \cup {NoConn}

HubInit ==
  /\ rooms = <<>> /\ sessionOf = <<>> /\ openedBy = <<>> /\ roomsPerAddress = <<>>
  /\ opened = 0 /\ code = <<>>
  /\ hosts = [s \in Session |-> {}] /\ people = [s \in Session |-> {}]
  /\ boardTimer = [s \in Session |-> FALSE] /\ held = [s \in Session |-> 0]
  /\ closed = {} /\ microtasks = <<>> /\ tick = NoConn

-----------------------------------------------------------------------------
MayHandle(c) == microtasks # <<>> => tick = c
LoopIdle == microtasks = <<>>

QueueFanOut(s, c) ==
  /\ microtasks' = IF Queued(s) THEN microtasks ELSE Append(microtasks, s)
  /\ tick' = c

Unbound(c) == c \notin DOMAIN sessionOf
Opened(a) == IF a \in DOMAIN roomsPerAddress THEN roomsPerAddress[a] ELSE 0

AnyCode(k) == TRUE
NotTaken(k) == k \notin DOMAIN rooms

(* open: the limits, a fresh code, and the opener's count. *)
OpenMsg(c, k) ==
  LET from == address[c]
      s == opened + 1
  IN  /\ MayHandle(c) /\ Unbound(c)
      /\ Cardinality(DOMAIN rooms) < maxRooms
      /\ from # NoAddress => Opened(from) < maxRoomsPerAddress
      /\ NotTaken(k)
      /\ opened < MaxSessions /\ opened' = s
      /\ code' = Append(code, k)
      /\ rooms' = Put(rooms, k, s)
      /\ IF from = NoAddress
         THEN UNCHANGED <<openedBy, roomsPerAddress>>
         ELSE /\ openedBy' = Put(openedBy, k, from)
              /\ roomsPerAddress' = Put(roomsPerAddress, from, Opened(from) + 1)
      /\ sessionOf' = Put(sessionOf, c, s)
      /\ hosts' = [hosts EXCEPT ![s] = {c}]
      /\ QueueFanOut(s, c)
      /\ UNCHANGED <<people, boardTimer, held, closed>>

(* join: a new seat, a held one, or one taken over from another connection,  *)
(* which the session pushes out and the hub unbinds.                         *)
JoinMsg(c, k) ==
  /\ MayHandle(c) /\ Unbound(c) /\ k \in DOMAIN rooms
  /\ LET s == rooms[k] IN
     /\ \/ /\ Cardinality(people[s]) + held[s] < MAX_PLAYERS
           /\ people' = [people EXCEPT ![s] = @ \cup {c}]
           /\ sessionOf' = Put(sessionOf, c, s)
           /\ held' = held
        \/ /\ held[s] > 0
           /\ people' = [people EXCEPT ![s] = @ \cup {c}]
           /\ sessionOf' = Put(sessionOf, c, s)
           /\ held' = [held EXCEPT ![s] = @ - 1]
        \/ \E out \in people[s] :
             /\ people' = [people EXCEPT ![s] = (@ \ {out}) \cup {c}]
             /\ sessionOf' = Put(omit(sessionOf, {out}), c, s)
             /\ held' = held
     /\ QueueFanOut(s, c)
  /\ UNCHANGED <<registry, hosts, boardTimer, closed>>

ResumeHostMsg(c, k) ==
  /\ MayHandle(c) /\ Unbound(c) /\ k \in DOMAIN rooms
  /\ LET s == rooms[k] IN
     /\ hosts' = [hosts EXCEPT ![s] = {c}]
     /\ sessionOf' = Put(omit(sessionOf, hosts[s]), c, s)
     /\ boardTimer' = [boardTimer EXCEPT ![s] = FALSE]
     /\ QueueFanOut(s, c)
  /\ UNCHANGED <<registry, people, held, closed>>

(* host and play: the session applies it, and fans out. *)
RouteMsg(c) ==
  /\ MayHandle(c) /\ ~Unbound(c)
  /\ c \in Members(sessionOf[c])
  /\ QueueFanOut(sessionOf[c], c)
  /\ UNCHANGED <<registry, sessionOf, hosts, people, boardTimer, held, closed>>

(* leave: the hub unbinds first, then the session lets the connection go. *)
LeaveMsg(c) ==
  /\ MayHandle(c) /\ ~Unbound(c)
  /\ LET s == sessionOf[c] IN
     /\ sessionOf' = omit(sessionOf, {c})
     /\ hosts' = [hosts EXCEPT ![s] = @ \ {c}]
     /\ people' = [people EXCEPT ![s] = @ \ {c}]
     /\ closed' = IF c \in hosts[s] THEN closed \cup {s} ELSE closed
     /\ IF c \in Members(s) THEN QueueFanOut(s, c) ELSE UNCHANGED <<microtasks, tick>>
  /\ UNCHANGED <<registry, boardTimer, held>>

(* disconnect: a bound socket closes, its seat or its board on a timer. *)
Disconnect(c) ==
  /\ LoopIdle /\ ~Unbound(c)
  /\ LET s == sessionOf[c] IN
     /\ sessionOf' = omit(sessionOf, {c})
     /\ hosts' = [hosts EXCEPT ![s] = @ \ {c}]
     /\ people' = [people EXCEPT ![s] = @ \ {c}]
     /\ boardTimer' = [boardTimer EXCEPT ![s] = @ \/ c \in hosts[s]]
     /\ held' = IF c \in people[s] THEN [held EXCEPT ![s] = @ + 1] ELSE held
  /\ UNCHANGED <<registry, closed, microtasks, tick>>

(* A grace timer fires. *)
SeatGivenUp(s) ==
  /\ LoopIdle /\ held[s] > 0
  /\ held' = [held EXCEPT ![s] = @ - 1]
  /\ QueueFanOut(s, NoConn)
  /\ UNCHANGED <<registry, sessionOf, hosts, people, boardTimer, closed>>

BoardGivenUp(s) ==
  /\ LoopIdle /\ boardTimer[s]
  /\ boardTimer' = [boardTimer EXCEPT ![s] = FALSE]
  /\ closed' = closed \cup {s}
  /\ QueueFanOut(s, NoConn)
  /\ UNCHANGED <<registry, sessionOf, hosts, people, held>>

(* forgetOpener: the counts once room k is gone. *)
CountKept(a) == roomsPerAddress
CountLeftAtZero(a) == [roomsPerAddress EXCEPT ![a] = @ - 1]
CountLowered(a) ==
  IF Opened(a) - 1 <= 0 THEN omit(roomsPerAddress, {a})
  ELSE [roomsPerAddress EXCEPT ![a] = @ - 1]

forgetOpener(k) ==
  IF k \in DOMAIN openedBy
  THEN /\ openedBy' = omit(openedBy, {k})
       /\ roomsPerAddress' = CountLowered(openedBy[k])
  ELSE UNCHANGED <<openedBy, roomsPerAddress>>

BystandersKept(s) == sessionOf
BystandersUnbound(s) == omit(sessionOf, Members(s))
TimersKept(s) == held
TimersCancelled(s) == [held EXCEPT ![s] = 0]

(* The first queued fan-out: frames, or the close-out and the hub's onClosed. *)
Frames ==
  /\ microtasks # <<>> /\ Head(microtasks) \notin closed
  /\ microtasks' = Tail(microtasks) /\ tick' = NoConn
  /\ UNCHANGED <<registry, sessionOf, hosts, people, boardTimer, held, closed>>

CloseOut ==
  /\ microtasks # <<>>
  /\ LET s == Head(microtasks) IN
     /\ s \in closed
     /\ rooms' = omit(rooms, {code[s]})
     /\ forgetOpener(code[s])
     /\ sessionOf' = BystandersUnbound(s)
     /\ hosts' = [hosts EXCEPT ![s] = {}] /\ people' = [people EXCEPT ![s] = {}]
     /\ boardTimer' = [boardTimer EXCEPT ![s] = FALSE]
     /\ held' = TimersCancelled(s)
  /\ microtasks' = Tail(microtasks) /\ tick' = NoConn
  /\ UNCHANGED <<opened, code, closed>>

HubNext ==
  \/ \E c \in Conn :
       \/ \E k \in Code : OpenMsg(c, k) \/ JoinMsg(c, k) \/ ResumeHostMsg(c, k)
       \/ RouteMsg(c) \/ LeaveMsg(c) \/ Disconnect(c)
  \/ \E s \in Session : SeatGivenUp(s) \/ BoardGivenUp(s)
  \/ Frames
  \/ CloseOut

HubSpec == HubInit /\ [][HubNext]_hubVars

-----------------------------------------------------------------------------
(* The per-address count is the number of live rooms that address opened,    *)
(* and within the limit, however rooms end and codes are used again: nobody  *)
(* is refused TOO_MANY_ROOMS for rooms that are gone, or let through for     *)
(* rooms forgotten (roomHub.ts:118-144, 150-162).                            *)
OpenersCounted ==
  /\ DOMAIN openedBy \subseteq DOMAIN rooms
  /\ \A a \in Address :
       /\ Opened(a) = Cardinality({k \in DOMAIN openedBy : openedBy[k] = a})
       /\ Opened(a) <= maxRoomsPerAddress

(* A connection is routed to at most one room, a live one, and is attached   *)
(* there and nowhere else, even when one read of its socket leaves a room,   *)
(* opens another and joins back (roomHub.ts:102-107, 130-138, 191-202).      *)
RoutedWhereAttached ==
  \A c \in Conn, s \in Session :
    /\ c \in Members(s) <=> (~Unbound(c) /\ sessionOf[c] = s)
    /\ c \in Members(s) => Live(s)

(* Every room that has not been closed out is the one its code leads to: a   *)
(* code never leads to somebody else's room, and closing one room takes no   *)
(* other out of the registry (roomHub.ts:124-140, roomCode.ts:7-13).         *)
CodesLeadHome ==
  /\ \A s, t \in 1..opened : Live(s) /\ Live(t) /\ code[s] = code[t] => s = t
  /\ \A s \in 1..opened : s \notin closed => code[s] \in DOMAIN rooms /\ rooms[code[s]] = s

(* A session the hub has dropped has nothing left that could act: no queued  *)
(* fan-out to run onClosed again for a code since given to another room, and *)
(* no timer to queue one (roomSession.ts:318-332).                           *)
DroppedIsQuiet ==
  \A s \in 1..opened : ~Live(s) => ~Queued(s) /\ held[s] = 0 /\ ~boardTimer[s]
=============================================================================
