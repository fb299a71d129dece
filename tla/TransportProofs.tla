--------------------------- MODULE TransportProofs ---------------------------
(***************************************************************************)
(* Proofs about Transport.tla, for every number of tabs, sockets, seats    *)
(* and faults.  First the sockets: only the browser's side moves what      *)
(* OneLiveSocket is about, the server's steps and the network's leave      *)
(* `client`, `owner` and `tabs` alone.  Then what is on the sockets: the   *)
(* actions on their way, each in one place, and the one question and the   *)
(* one answer about a seat that a socket carries.                          *)
(***************************************************************************)
EXTENDS Transport, SequenceTheorems, WellFoundedInduction, TLAPS

Field == {"stopped", "superseded", "open", "awaitingReconnect", "backoffs", "timer",
          "sock", "reconnectToken", "viewer", "pending"}

Typed ==
  /\ DOMAIN client = Sock /\ owner \in [Sock -> Tab]
  /\ DOMAIN tabs = Tab /\ \A t \in Tab : DOMAIN tabs[t] = Field
  /\ \A t \in Tab : tabs[t].stopped \in BOOLEAN /\ tabs[t].awaitingReconnect \in BOOLEAN

(* At most one retry is due, and only while the tab has no live socket: the  *)
(* two ways to a new socket, the backed-off and the immediate one, never     *)
(* both lead to one.                                                         *)
RetryDue(T) ==
  /\ T.stopped => ~T.awaitingReconnect
  /\ T.backoffs = IF T.awaitingReconnect THEN 1 ELSE 0

(* What a tab and the sockets it made owe each other.                        *)
Owned(t) ==
  /\ RetryDue(tabs[t])
  /\ \A s \in Sock : owner[s] = t /\ Live(s) =>
       tabs[t].sock = s /\ ~tabs[t].stopped /\ ~tabs[t].awaitingReconnect

TInv == Typed /\ \A t \in Tab : Owned(t)

LEMMA StoppedShape ==
  ASSUME NEW why
  PROVE  /\ DOMAIN stop(why) = Field
         /\ stop(why).stopped = TRUE /\ stop(why).awaitingReconnect = FALSE
         /\ stop(why).backoffs = 0
  BY DEF stop, StoppedTransport, NewTransport, Field

LEMMA NewShape ==
  ASSUME NEW token
  PROVE  /\ DOMAIN NewTransport(token) = Field
         /\ NewTransport(token).stopped = FALSE
         /\ NewTransport(token).awaitingReconnect = FALSE
         /\ NewTransport(token).backoffs = 0
  BY DEF NewTransport, Field

(* A drop leaves a transport stopped, or with its one retry due.             *)
LEMMA DropShape ==
  ASSUME NEW T, DOMAIN T = Field, RetryDue(T),
         T.stopped \in BOOLEAN, T.awaitingReconnect \in BOOLEAN
  PROVE  /\ DOMAIN handleDrop(T) = Field /\ RetryDue(handleDrop(T))
         /\ handleDrop(T).stopped = T.stopped
         /\ handleDrop(T).awaitingReconnect \in BOOLEAN
         /\ handleDrop(T).sock = T.sock
<1>1. CASE T.stopped \/ T.awaitingReconnect
  <2>1. handleDrop(T) = T
    BY <1>1 DEF handleDrop
  <2> QED
    BY <2>1
<1>2. CASE ~(T.stopped \/ T.awaitingReconnect)
  <2> DEFINE N == [T EXCEPT !.open = FALSE, !.awaitingReconnect = TRUE, !.timer = "off",
                            !.backoffs = @ + 1]
  <2>1. handleDrop(T) = N
    BY <1>2 DEF handleDrop
  <2>2. T.backoffs = 0 /\ T.stopped = FALSE
    BY <1>2 DEF RetryDue
  <2>3. DOMAIN N = Field /\ N.stopped = FALSE /\ N.awaitingReconnect = TRUE
        /\ N.backoffs = 1 /\ N.sock = T.sock
    BY <2>2 DEF Field
  <2> QED
    BY <2>1, <2>2, <2>3 DEF RetryDue
<1> QED
  BY <1>1, <1>2

LEMMA InitTInv == Init => TInv
<1> SUFFICES ASSUME Init PROVE TInv
  OBVIOUS
<1>1. DOMAIN StoppedTransport = Field /\ StoppedTransport.stopped = TRUE
      /\ StoppedTransport.awaitingReconnect = FALSE /\ StoppedTransport.backoffs = 0
  BY DEF StoppedTransport, NewTransport, Field
<1>2. Typed
  <2>1. (CHOOSE t \in Tab : TRUE) \in Tab
    BY TransportAssumption
  <2> QED
    BY <1>1, <2>1 DEF Init, Typed
<1>3. ASSUME NEW t \in Tab PROVE Owned(t)
  BY <1>1, <1>3 DEF Init, Owned, RetryDue, Live
<1> QED
  BY <1>2, <1>3 DEF TInv

(* connect, from a transport that has no live socket.                        *)
LEMMA ConnectKeeps ==
  ASSUME TInv, NEW t \in Tab, NEW T, Connect(t, T),
         DOMAIN T = Field, T.stopped = FALSE, T.awaitingReconnect = FALSE, T.backoffs = 0,
         \A s \in Sock : owner[s] = t => ~Live(s)
  PROVE  TInv'
<1>1. PICK s \in Sock :
        /\ FreeSock(s)
        /\ tabs' = [tabs EXCEPT ![t] = [T EXCEPT !.open = FALSE, !.sock = s,
                                                 !.timer = "connect"]]
        /\ client' = [client EXCEPT ![s] = "connecting"]
        /\ owner' = [owner EXCEPT ![s] = t]
  BY DEF Connect
<1> DEFINE N == [T EXCEPT !.open = FALSE, !.sock = s, !.timer = "connect"]
<1>2. DOMAIN N = Field /\ N.stopped = FALSE /\ N.awaitingReconnect = FALSE /\ N.backoffs = 0
      /\ N.sock = s
  BY DEF Field
<1> HIDE DEF N
<1>3. tabs' = [tabs EXCEPT ![t] = N]
  BY <1>1 DEF N
<1>4. Typed'
  BY <1>1, <1>2, <1>3 DEF TInv, Typed
<1>5. ASSUME NEW u \in Tab PROVE Owned(u)'
  <2>1. CASE u = t
    <3>1. RetryDue(tabs'[u])
      BY <1>2, <1>3, <2>1 DEF RetryDue, TInv, Typed
    <3>2. ASSUME NEW x \in Sock, owner'[x] = u, Live(x)' PROVE x = s
      BY <1>1, <2>1, <3>2 DEF TInv, Typed, Live
    <3> QED
      BY <1>2, <1>3, <2>1, <3>1, <3>2 DEF Owned, TInv, Typed
  <2>2. CASE u # t
    <3>1. tabs'[u] = tabs[u]
      BY <1>3, <2>2 DEF TInv, Typed
    <3>2. ASSUME NEW x \in Sock, owner'[x] = u, Live(x)' PROVE owner[x] = u /\ Live(x)
      BY <1>1, <2>2, <3>2 DEF TInv, Typed, Live
    <3> QED
      BY <3>1, <3>2 DEF Owned, TInv
  <2> QED
    BY <2>1, <2>2
<1> QED
  BY <1>4, <1>5 DEF TInv

(* A step that opens no socket and gives the transport of at most one tab    *)
(* away to a next state that still owns what is live.                        *)
LEMMA OneTabKeeps ==
  ASSUME TInv, NEW t \in Tab, NEW N, owner' = owner,
         DOMAIN tabs' = Tab, tabs'[t] = N, \A u \in Tab \ {t} : tabs'[u] = tabs[u],
         DOMAIN client' = Sock, \A s \in Sock : Live(s)' => Live(s),
         DOMAIN N = Field, N.stopped \in BOOLEAN, N.awaitingReconnect \in BOOLEAN,
         RetryDue(N),
         \A s \in Sock : owner[s] = t /\ Live(s)' =>
           N.sock = s /\ ~N.stopped /\ ~N.awaitingReconnect
  PROVE  TInv'
<1>1. Typed'
  BY DEF TInv, Typed
<1>2. ASSUME NEW u \in Tab PROVE Owned(u)'
  <2>1. CASE u = t
    <3>1. tabs'[u] = N
      BY <2>1 DEF TInv, Typed
    <3> QED
      BY <2>1, <3>1 DEF Owned
  <2>2. CASE u # t
    <3>1. tabs'[u] = tabs[u]
      BY <2>2 DEF TInv, Typed
    <3> QED
      BY <3>1 DEF Owned, TInv
  <2> QED
    BY <2>1, <2>2
<1> QED
  BY <1>1, <1>2 DEF TInv

(* socket.close() opens nothing, and leaves the socket it closes not live.   *)
LEMMA CloseKills ==
  ASSUME TInv, NEW s, NEW ms, CloseAfter(s, ms)
  PROVE  /\ DOMAIN client' = Sock
         /\ \A x \in Sock : Live(x)' => Live(x) /\ x # s
  BY DEF CloseAfter, Live, TInv, Typed

-----------------------------------------------------------------------------
(* One lemma for each step of a tab. *)

LEMMA StartKeeps == ASSUME TInv, NEW t \in Tab, Start(t) PROVE TInv'
<1>1. \A s \in Sock : owner[s] = t => ~Live(s)
  BY DEF Start, TInv, Owned
<1> QED
  BY <1>1, NewShape, ConnectKeeps DEF Start

LEMMA ActKeeps == ASSUME TInv, NEW t \in Tab, Act(t) PROVE TInv'
<1> DEFINE N == [tabs[t] EXCEPT !.pending = Kept(tabs[t], Play(acts'))]
<1>1. /\ owner' = owner /\ client' = client
      /\ tabs' = [tabs EXCEPT ![t] = N]
  BY DEF Act
<1>2. DOMAIN tabs[t] = Field
  BY DEF TInv, Typed
<1>3. /\ DOMAIN N = Field /\ N.stopped = tabs[t].stopped /\ N.sock = tabs[t].sock
      /\ N.awaitingReconnect = tabs[t].awaitingReconnect /\ N.backoffs = tabs[t].backoffs
  BY <1>2 DEF Field
<1> HIDE DEF N
<1>4. DOMAIN tabs' = Tab /\ tabs'[t] = N /\ \A u \in Tab \ {t} : tabs'[u] = tabs[u]
  BY <1>1 DEF TInv, Typed
<1>5. RetryDue(N) /\ N.stopped \in BOOLEAN /\ N.awaitingReconnect \in BOOLEAN
  BY <1>3 DEF TInv, Typed, Owned, RetryDue
<1>6. DOMAIN client' = Sock /\ \A s \in Sock : Live(s)' => Live(s)
  BY <1>1 DEF TInv, Typed, Live
<1>7. \A s \in Sock : owner[s] = t /\ Live(s)' =>
        N.sock = s /\ ~N.stopped /\ ~N.awaitingReconnect
  BY <1>3, <1>6 DEF TInv, Owned
<1> QED
  BY <1>1, <1>3, <1>4, <1>5, <1>6, <1>7, OneTabKeeps

(* A transport that stops and closes its socket owns nothing live.           *)
LEMMA StopKeeps ==
  ASSUME TInv, NEW t \in Tab, NEW why, NEW ms, owner' = owner,
         tabs' = [tabs EXCEPT ![t] = stop(why)], CloseAfter(tabs[t].sock, ms)
  PROVE  TInv'
<1>1. DOMAIN tabs' = Tab /\ tabs'[t] = stop(why)
      /\ \A u \in Tab \ {t} : tabs'[u] = tabs[u]
  BY DEF TInv, Typed
<1>2. DOMAIN client' = Sock /\ \A s \in Sock : Live(s)' => Live(s) /\ s # tabs[t].sock
  BY CloseKills
<1>3. \A s \in Sock : owner[s] = t /\ Live(s)' => FALSE
  BY <1>2 DEF TInv, Owned
<1>4. RetryDue(stop(why))
  BY StoppedShape DEF RetryDue
<1> QED
  BY <1>1, <1>2, <1>3, <1>4, StoppedShape, OneTabKeeps

LEMMA LeaveRoomKeeps == ASSUME TInv, NEW t \in Tab, LeaveRoom(t) PROVE TInv'
<1>1. \E ms : CloseAfter(tabs[t].sock, ms)
  BY DEF LeaveRoom, CloseSocket
<1> QED
  BY <1>1, StopKeeps DEF LeaveRoom

LEMMA DisposeKeeps == ASSUME TInv, NEW t \in Tab, Dispose(t) PROVE TInv'
  BY StopKeeps DEF Dispose, CloseSocket

(* The socket is given up with the drop, so the retry finds none live.       *)
LEMMA TimedOutKeeps == ASSUME TInv, NEW t \in Tab, TimedOut(t) PROVE TInv'
<1> DEFINE D == handleDrop(tabs[t])
           N == [D EXCEPT !.sock = None]
<1>1. /\ owner' = owner /\ CloseAfter(tabs[t].sock, <<>>)
      /\ tabs' = [tabs EXCEPT ![t] = N]
  BY DEF TimedOut, CloseSocket
<1>2. /\ DOMAIN D = Field /\ RetryDue(D)
      /\ D.stopped \in BOOLEAN /\ D.awaitingReconnect \in BOOLEAN
  BY DropShape DEF TInv, Typed, Owned
<1> HIDE DEF D
<1>3. /\ DOMAIN N = Field /\ N.stopped = D.stopped /\ N.backoffs = D.backoffs
      /\ N.awaitingReconnect = D.awaitingReconnect
  BY <1>2 DEF Field
<1> HIDE DEF N
<1>4. DOMAIN tabs' = Tab /\ tabs'[t] = N /\ \A u \in Tab \ {t} : tabs'[u] = tabs[u]
  BY <1>1 DEF TInv, Typed
<1>5. DOMAIN client' = Sock /\ \A s \in Sock : Live(s)' => Live(s) /\ s # tabs[t].sock
  BY <1>1, CloseKills
<1>6. \A s \in Sock : owner[s] = t /\ Live(s)' => FALSE
  BY <1>5 DEF TInv, Owned
<1>7. RetryDue(N)
  BY <1>2, <1>3 DEF RetryDue
<1> QED
  BY <1>1, <1>2, <1>3, <1>4, <1>5, <1>6, <1>7, OneTabKeeps

(* Both ways to a new socket start from the one retry that is due.           *)
LEMMA RetryKeeps ==
  ASSUME TInv, NEW t \in Tab, tabs[t].awaitingReconnect = TRUE,
         Connect(t, [tabs[t] EXCEPT !.backoffs = tabs[t].backoffs - 1,
                                    !.awaitingReconnect = FALSE])
  PROVE  TInv'
<1> DEFINE N == [tabs[t] EXCEPT !.backoffs = tabs[t].backoffs - 1,
                                !.awaitingReconnect = FALSE]
<1>1. DOMAIN tabs[t] = Field /\ tabs[t].backoffs = 1 /\ tabs[t].stopped = FALSE
  BY DEF TInv, Typed, Owned, RetryDue
<1>2. DOMAIN N = Field /\ N.stopped = FALSE /\ N.awaitingReconnect = FALSE /\ N.backoffs = 0
  BY <1>1 DEF Field
<1>3. \A s \in Sock : owner[s] = t => ~Live(s)
  BY DEF TInv, Owned
<1>4. Connect(t, N)
  OBVIOUS
<1> HIDE DEF N
<1> QED
  BY <1>2, <1>3, <1>4, ConnectKeeps

LEMMA BackoffKeeps == ASSUME TInv, NEW t \in Tab, BackoffFires(t) PROVE TInv'
<1>1. tabs[t].awaitingReconnect = TRUE
  BY DEF BackoffFires, TInv, Typed, Owned, RetryDue
<1> QED
  BY <1>1, RetryKeeps DEF BackoffFires

LEMMA ReconnectNowKeeps == ASSUME TInv, NEW t \in Tab, reconnectNow(t) PROVE TInv'
<1>1. tabs[t].awaitingReconnect = TRUE
  BY DEF reconnectNow, TInv, Typed
<1> QED
  BY <1>1, RetryKeeps DEF reconnectNow, BackoffCancelled

-----------------------------------------------------------------------------
(* One lemma for each event of a socket in its tab. *)

LEMMA OpenKeeps == ASSUME TInv, NEW s \in Sock, handleOpen(s) PROVE TInv'
<1> DEFINE t == owner[s]
           N == [tabs[t] EXCEPT !.open = TRUE, !.awaitingReconnect = FALSE,
                                !.timer = "watchdog", !.pending = <<>>]
<1>1. /\ owner' = owner /\ client' = [client EXCEPT ![s] = "open"]
      /\ tabs' = [tabs EXCEPT ![t] = N] /\ client[s] = "connecting"
  BY DEF handleOpen
<1>2. t \in Tab /\ Live(s)
  BY <1>1 DEF TInv, Typed, Live
<1>3. tabs[t].sock = s /\ tabs[t].stopped = FALSE /\ tabs[t].awaitingReconnect = FALSE
  BY <1>2 DEF TInv, Typed, Owned
<1>4. DOMAIN tabs[t] = Field /\ tabs[t].backoffs = 0
  BY <1>2, <1>3 DEF TInv, Typed, Owned, RetryDue
<1>5. /\ DOMAIN N = Field /\ N.stopped = FALSE /\ N.awaitingReconnect = FALSE
      /\ N.sock = tabs[t].sock /\ N.backoffs = 0
  BY <1>3, <1>4 DEF Field
<1> HIDE DEF N
<1>6. DOMAIN tabs' = Tab /\ tabs'[t] = N /\ \A u \in Tab \ {t} : tabs'[u] = tabs[u]
  BY <1>1, <1>2 DEF TInv, Typed
<1>7. DOMAIN client' = Sock /\ \A x \in Sock : Live(x)' => Live(x)
  BY <1>1 DEF TInv, Typed, Live
<1>8. \A x \in Sock : owner[x] = t /\ Live(x)' =>
        N.sock = x /\ ~N.stopped /\ ~N.awaitingReconnect
  BY <1>2, <1>5, <1>7 DEF TInv, Owned
<1>9. RetryDue(N)
  BY <1>5 DEF RetryDue
<1> QED
  BY <1>1, <1>2, <1>5, <1>6, <1>7, <1>8, <1>9, OneTabKeeps

LEMMA ReceiveKeeps == ASSUME TInv, NEW s \in Sock, receive(s) PROVE TInv'
<1> DEFINE t == owner[s]
           m == Head(down[s])
<1>1. t \in Tab /\ owner' = owner /\ Live(s)
  BY DEF receive, TInv, Typed, Live
<1>2. tabs[t].sock = s
  BY <1>1 DEF TInv, Owned
<1>3. CASE m.type = "joined"
  <2> DEFINE N == [tabs[t] EXCEPT !.viewer = m.seat,
                                  !.reconnectToken = TokenRefreshed(tabs[t], m.seat)]
  <2>1. client' = client /\ tabs' = [tabs EXCEPT ![t] = N]
    BY <1>1, <1>3 DEF receive
  <2>2. DOMAIN tabs[t] = Field
    BY <1>1 DEF TInv, Typed
  <2>3. /\ DOMAIN N = Field /\ N.stopped = tabs[t].stopped /\ N.sock = tabs[t].sock
        /\ N.awaitingReconnect = tabs[t].awaitingReconnect
        /\ N.backoffs = tabs[t].backoffs
    BY <2>2 DEF Field
  <2> HIDE DEF N
  <2>4. DOMAIN tabs' = Tab /\ tabs'[t] = N /\ \A u \in Tab \ {t} : tabs'[u] = tabs[u]
    BY <1>1, <2>1 DEF TInv, Typed
  <2>5. RetryDue(N) /\ N.stopped \in BOOLEAN /\ N.awaitingReconnect \in BOOLEAN
    BY <1>1, <2>3 DEF TInv, Typed, Owned, RetryDue
  <2>6. DOMAIN client' = Sock /\ \A x \in Sock : Live(x)' => Live(x)
    BY <2>1 DEF TInv, Typed, Live
  <2>7. \A x \in Sock : owner[x] = t /\ Live(x)' =>
          N.sock = x /\ ~N.stopped /\ ~N.awaitingReconnect
    BY <1>1, <2>3, <2>6 DEF TInv, Owned
  <2> QED
    BY <1>1, <2>3, <2>4, <2>5, <2>6, <2>7, OneTabKeeps
<1>4. CASE m.type # "joined" /\ m.type \in TERMINAL
  <2>1. tabs' = [tabs EXCEPT ![t] = stop(m.type)] /\ CloseAfter(tabs[t].sock, <<>>)
    BY <1>2, <1>4 DEF receive, CloseSocket
  <2> QED
    BY <1>1, <2>1, StopKeeps
<1>5. CASE m.type # "joined" /\ m.type \notin TERMINAL
  <2>1. tabs' = tabs /\ client' = client
    BY <1>5 DEF receive
  <2> QED
    BY <1>1, <2>1 DEF TInv, Typed, Owned, RetryDue, Live
<1> QED
  BY <1>3, <1>4, <1>5

(* The drop an event of s reports touches the tab of s alone.                *)
LEMMA DroppedShape ==
  ASSUME TInv, NEW s \in Sock
  PROVE  /\ DOMAIN DroppedBy(s) = Tab
         /\ \A u \in Tab : /\ DOMAIN DroppedBy(s)[u] = Field
                           /\ DroppedBy(s)[u].stopped = tabs[u].stopped
                           /\ DroppedBy(s)[u].sock = tabs[u].sock
                           /\ DroppedBy(s)[u].awaitingReconnect \in BOOLEAN
                           /\ RetryDue(DroppedBy(s)[u])
         /\ \A u \in Tab : (u # owner[s] \/ tabs[u].sock # s) => DroppedBy(s)[u] = tabs[u]
<1>1. owner[s] \in Tab /\ DOMAIN tabs = Tab
  BY DEF TInv, Typed
<1>2. \A u \in Tab : /\ DOMAIN tabs[u] = Field /\ RetryDue(tabs[u])
                     /\ tabs[u].stopped \in BOOLEAN
                     /\ tabs[u].awaitingReconnect \in BOOLEAN
  BY DEF TInv, Typed, Owned
<1>3. CASE tabs[owner[s]].sock = s
  <2>1. DroppedBy(s) = [tabs EXCEPT ![owner[s]] = handleDrop(tabs[owner[s]])]
    BY <1>3 DEF DroppedBy, HeardFrom, Current
  <2>2. /\ DOMAIN DroppedBy(s) = Tab
        /\ DroppedBy(s)[owner[s]] = handleDrop(tabs[owner[s]])
        /\ \A u \in Tab : u # owner[s] => DroppedBy(s)[u] = tabs[u]
    BY <1>1, <2>1
  <2>3. LET D == handleDrop(tabs[owner[s]]) IN
        /\ DOMAIN D = Field /\ RetryDue(D) /\ D.stopped = tabs[owner[s]].stopped
        /\ D.awaitingReconnect \in BOOLEAN /\ D.sock = tabs[owner[s]].sock
    BY <1>1, <1>2, DropShape
  <2> QED
    BY <1>2, <1>3, <2>2, <2>3
<1>4. CASE tabs[owner[s]].sock # s
  <2>1. DroppedBy(s) = tabs
    BY <1>4 DEF DroppedBy, HeardFrom, Current
  <2> QED
    BY <1>1, <1>2, <2>1
<1> QED
  BY <1>3, <1>4

LEMMA ErrorKeeps == ASSUME TInv, NEW s \in Sock, ErrorEvent(s) PROVE TInv'
<1>1. /\ client' = [client EXCEPT ![s] = "closing"] /\ tabs' = DroppedBy(s)
      /\ owner' = owner /\ Live(s)
  BY DEF ErrorEvent
<1>2. Typed'
  BY <1>1, DroppedShape DEF TInv, Typed
<1>3. ASSUME NEW u \in Tab PROVE Owned(u)'
  <2>1. ASSUME NEW x \in Sock, owner'[x] = u, Live(x)'
        PROVE  owner[x] = u /\ Live(x) /\ x # s
    BY <1>1, <2>1 DEF TInv, Typed, Live
  <2>2. ASSUME NEW x \in Sock, owner'[x] = u, Live(x)' PROVE tabs'[u] = tabs[u]
    <3>1. tabs[u].sock = x /\ x # s
      BY <2>1, <2>2 DEF TInv, Owned
    <3> QED
      BY <1>1, <3>1, DroppedShape
  <2>3. RetryDue(tabs'[u])
    BY <1>1, DroppedShape
  <2> QED
    BY <2>1, <2>2, <2>3 DEF Owned, TInv
<1> QED
  BY <1>2, <1>3 DEF TInv

LEMMA CloseKeeps == ASSUME TInv, NEW s \in Sock, CloseEvent(s) PROVE TInv'
<1> DEFINE Freed(u) == [DroppedBy(s)[u] EXCEPT !.sock = None]
<1>1. /\ client' = [client EXCEPT ![s] = "closed"] /\ owner' = owner
      /\ tabs' = [u \in Tab |-> IF tabs[u].sock = s THEN Freed(u) ELSE DroppedBy(s)[u]]
  BY DEF CloseEvent
<1>2. ASSUME NEW u \in Tab
      PROVE  /\ DOMAIN Freed(u) = Field /\ Freed(u).stopped = DroppedBy(s)[u].stopped
             /\ Freed(u).awaitingReconnect = DroppedBy(s)[u].awaitingReconnect
             /\ Freed(u).backoffs = DroppedBy(s)[u].backoffs
  BY DroppedShape DEF Field
<1> HIDE DEF Freed
<1>3. ASSUME NEW u \in Tab
      PROVE  /\ DOMAIN tabs'[u] = Field /\ RetryDue(tabs'[u])
             /\ tabs'[u].stopped = tabs[u].stopped
             /\ tabs'[u].awaitingReconnect \in BOOLEAN
  <2>1. tabs'[u] = Freed(u) \/ tabs'[u] = DroppedBy(s)[u]
    BY <1>1
  <2> QED
    BY <1>2, <2>1, DroppedShape DEF RetryDue
<1>4. DOMAIN tabs' = Tab
  BY <1>1
<1>5. Typed'
  BY <1>1, <1>3, <1>4 DEF TInv, Typed
<1>6. ASSUME NEW u \in Tab PROVE Owned(u)'
  <2>1. ASSUME NEW x \in Sock, owner'[x] = u, Live(x)'
        PROVE  owner[x] = u /\ Live(x) /\ x # s
    BY <1>1, <2>1 DEF TInv, Typed, Live
  <2>2. ASSUME NEW x \in Sock, owner'[x] = u, Live(x)' PROVE tabs'[u] = tabs[u]
    <3>1. tabs[u].sock = x /\ x # s
      BY <2>1, <2>2 DEF TInv, Owned
    <3> QED
      BY <1>1, <3>1, DroppedShape
  <2> QED
    BY <1>3, <2>1, <2>2 DEF Owned, TInv
<1> QED
  BY <1>5, <1>6 DEF TInv

-----------------------------------------------------------------------------
(* The server's steps and the network's leave the browser alone.             *)
LEMMA FarEndKeeps ==
  ASSUME TInv, UNCHANGED <<client, owner, tabs>>
  PROVE  TInv'
  BY DEF TInv, Typed, Owned, RetryDue, Live

LEMMA NextTInv == TInv /\ [Next]_vars => TInv'
<1> SUFFICES ASSUME TInv, [Next]_vars PROVE TInv'
  OBVIOUS
<1>1. ASSUME NEW t \in Tab, TabStep(t) \/ TabTimers(t) PROVE TInv'
  BY <1>1, StartKeeps, ActKeeps, LeaveRoomKeeps, DisposeKeeps, TimedOutKeeps, BackoffKeeps,
     ReconnectNowKeeps DEF TabStep, TabTimers
<1>2. ASSUME NEW s \in Sock, TabEvents(s) PROVE TInv'
  BY <1>2, OpenKeeps, ReceiveKeeps, ErrorKeeps, CloseKeeps DEF TabEvents
<1>3. ASSUME NEW s \in Sock, ServerStep(s) PROVE UNCHANGED <<client, owner, tabs>>
  BY <1>3 DEF ServerStep, ServerReceives, ServerNotices, DeadlineCloses
<1>4. ASSUME NEW s \in Sock, Cut(s) PROVE UNCHANGED <<client, owner, tabs>>
  BY <1>4 DEF Cut
<1>5. ASSUME NEW k \in Seat, GraceFires(k) PROVE UNCHANGED <<client, owner, tabs>>
  BY <1>5 DEF GraceFires, wireVars
<1>6. RoomCloses => UNCHANGED <<client, owner, tabs>>
  BY DEF RoomCloses
<1>7. UNCHANGED vars => UNCHANGED <<client, owner, tabs>>
  BY DEF vars, wireVars
<1> QED
  BY <1>1, <1>2, <1>3, <1>4, <1>5, <1>6, <1>7, FarEndKeeps DEF Next

(* Whatever order drops, errors, timers, retries, closes and late answers    *)
(* come in, and however many tabs and sockets there are, every live socket   *)
(* is the one its tab is using (socket.ts:144-172, 190-200, 249-268,         *)
(* 348-364).                                                                 *)
THEOREM TransportOneLiveSocket == Spec => []OneLiveSocket
<1>1. TInv => OneLiveSocket
  BY DEF TInv, Typed, Owned, OneLiveSocket, Current
<1> QED
  BY <1>1, InitTInv, NextTInv, PTL DEF Spec

-----------------------------------------------------------------------------
(* What is on its way, and what a tab keeps for its next socket.             *)
PlayMessage == [type : {"play"}, n : Nat]
UpMessage == [type : {"join"}, token : 0..MaxSeat] \cup PlayMessage
               \cup [type : {"leave", "fin"}]
DownMessage == [type : {"joined"}, seat : Seat] \cup [type : TERMINAL \cup {"fin"}]

(* The actions a queue carries, the tokens it asks a seat with, and the      *)
(* seats it tells of.                                                        *)
PlaysIn(q) == {n \in Nat : \E i \in DOMAIN q : q[i].type = "play" /\ q[i].n = n}
TokensIn(q) == {k \in 0..MaxSeat : \E i \in DOMAIN q : q[i].type = "join" /\ q[i].token = k}
SeatsTold(q) == {k \in Seat : \E i \in DOMAIN q : q[i].type = "joined" /\ q[i].seat = k}

Once(q) ==
  \A i, j \in DOMAIN q :
    (q[i].type = "play" /\ q[j].type = "play" /\ q[i].n = q[j].n) => i = j

UpQueue(q) ==
  q \in Seq(UpMessage) /\ Once(q) /\ \A i \in DOMAIN q : q[i].type = "join" => i = 1
DownQueue(q) ==
  /\ q \in Seq(DownMessage)
  /\ \A i, j \in DOMAIN q : (q[i].type = "joined" /\ q[j].type = "joined") => i = j
KeptQueue(q) == q \in Seq(PlayMessage) /\ Once(q)

LEMMA MessageTypes ==
  /\ \A m \in UpMessage : /\ m.type = "join" => m.token \in 0..MaxSeat
                          /\ m.type = "play" => m.n \in Nat
                          /\ m.type \in {"join", "play", "leave", "fin"}
  /\ \A n \in Nat : /\ Play(n) \in UpMessage /\ Play(n) \in PlayMessage
                    /\ Play(n).type = "play" /\ Play(n).n = n
  /\ \A k \in 0..MaxSeat : /\ JoinAs(k) \in UpMessage
                           /\ JoinAs(k).type = "join" /\ JoinAs(k).token = k
  /\ \A m \in PlayMessage : m.type = "play" /\ m.n \in Nat /\ m \in UpMessage
  /\ Fin \in UpMessage /\ Fin \in DownMessage /\ Fin.type = "fin"
  /\ Msg("leave") \in UpMessage /\ Msg("leave").type = "leave"
  /\ \A k \in Seat : /\ Joined(k) \in DownMessage /\ Joined(k).type = "joined"
                     /\ Joined(k).seat = k
  /\ \A e \in TERMINAL : Msg(e) \in DownMessage /\ Msg(e).type = e /\ e # "joined"
  /\ \A m \in DownMessage : m.type = "joined" => m.seat \in Seat
  BY DEF UpMessage, PlayMessage, DownMessage, Play, JoinAs, Fin, Msg, Joined, TERMINAL

LEMMA EmptyQueue ==
  /\ UpQueue(<<>>) /\ DownQueue(<<>>) /\ KeptQueue(<<>>)
  /\ PlaysIn(<<>>) = {} /\ TokensIn(<<>>) = {} /\ SeatsTold(<<>>) = {}
  BY DEF UpQueue, DownQueue, KeptQueue, Once, PlaysIn, TokensIn, SeatsTold

(* Taking the first message of a queue, and what that says of the rest.      *)
LEMMA UpTail ==
  ASSUME NEW q, UpQueue(q), q # <<>>
  PROVE  /\ UpQueue(Tail(q)) /\ Head(q) \in UpMessage
         /\ PlaysIn(Tail(q)) \subseteq PlaysIn(q) /\ TokensIn(Tail(q)) = {}
         /\ Head(q).type = "play" => Head(q).n \in PlaysIn(q) \ PlaysIn(Tail(q))
         /\ Head(q).type = "join" => Head(q).token \in TokensIn(q)
<1> DEFINE r == Tail(q)
<1>1. /\ q \in Seq(UpMessage) /\ r \in Seq(UpMessage) /\ Head(q) \in UpMessage
      /\ Len(q) \in Nat /\ Len(q) > 0 /\ Len(r) = Len(q) - 1
      /\ \A i \in 1..Len(r) : r[i] = q[i + 1]
  BY HeadTailProperties, EmptySeq DEF UpQueue
<1>2. Head(q) = q[1] /\ 1 \in DOMAIN q
  BY <1>1
<1> HIDE DEF r
<1>3. \A i \in DOMAIN r : i \in Nat /\ i > 0 /\ i + 1 \in DOMAIN q /\ r[i] = q[i + 1]
  BY <1>1
<1>4. UpQueue(r) /\ TokensIn(r) = {}
  BY <1>1, <1>3 DEF UpQueue, Once, TokensIn
<1>5. PlaysIn(r) \subseteq PlaysIn(q)
  BY <1>3 DEF PlaysIn
<1>6. Head(q).type = "play" => Head(q).n \in PlaysIn(q) \ PlaysIn(r)
  <2> SUFFICES ASSUME Head(q).type = "play"
               PROVE  Head(q).n \in PlaysIn(q) \ PlaysIn(r)
    OBVIOUS
  <2>1. Head(q).n \in PlaysIn(q)
    BY <1>1, <1>2, MessageTypes DEF PlaysIn
  <2>2. ASSUME NEW i \in DOMAIN r, r[i].type = "play", r[i].n = Head(q).n
        PROVE  FALSE
    <3>1. i + 1 = 1
      BY <1>2, <1>3, <2>2 DEF UpQueue, Once
    <3> QED BY <1>3, <3>1
  <2> QED BY <2>1, <2>2 DEF PlaysIn
<1>7. Head(q).type = "join" => Head(q).token \in TokensIn(q)
  BY <1>1, <1>2, MessageTypes DEF TokensIn
<1> QED
  BY <1>1, <1>4, <1>5, <1>6, <1>7 DEF r

LEMMA UpAppend ==
  ASSUME NEW q, UpQueue(q), NEW m \in UpMessage, m.type # "join",
         m.type = "play" => m.n \notin PlaysIn(q)
  PROVE  /\ UpQueue(Append(q, m)) /\ TokensIn(Append(q, m)) = TokensIn(q)
         /\ PlaysIn(Append(q, m)) = IF m.type = "play" THEN PlaysIn(q) \cup {m.n}
                                    ELSE PlaysIn(q)
<1> DEFINE r == Append(q, m)
<1>1. /\ q \in Seq(UpMessage) /\ r \in Seq(UpMessage) /\ Len(q) \in Nat
      /\ DOMAIN q = 1..Len(q) /\ DOMAIN r = 1..Len(q) + 1 /\ r[Len(q) + 1] = m
      /\ \A i \in 1..Len(q) : r[i] = q[i]
  BY DEF UpQueue
<1> HIDE DEF r
<1>2. \A i \in DOMAIN r : i = Len(q) + 1 \/ i \in DOMAIN q
  BY <1>1
<1>3. \A i \in DOMAIN q : i \in DOMAIN r /\ r[i] = q[i] /\ i # Len(q) + 1
  BY <1>1
<1>4. Len(q) + 1 \in DOMAIN r
  BY <1>1
<1>5. m.type = "play" => m.n \in Nat
  BY MessageTypes
<1>6. TokensIn(r) = TokensIn(q)
  BY <1>1, <1>2, <1>3 DEF TokensIn
<1>7. PlaysIn(r) = IF m.type = "play" THEN PlaysIn(q) \cup {m.n} ELSE PlaysIn(q)
  BY <1>1, <1>2, <1>3, <1>4, <1>5 DEF PlaysIn
<1>8. \A i \in DOMAIN q : q[i].type = "play" => q[i].n \in PlaysIn(q)
  BY <1>1, MessageTypes DEF PlaysIn
<1>9. UpQueue(r)
  BY <1>1, <1>2, <1>3, <1>8 DEF UpQueue, Once
<1> QED
  BY <1>6, <1>7, <1>9 DEF r

(* What a socket that opens sends: its join, then all that was kept.         *)
LEMMA UpFlush ==
  ASSUME NEW p, KeptQueue(p), NEW k \in 0..MaxSeat
  PROVE  LET q == <<JoinAs(k)>> \o p IN
         UpQueue(q) /\ TokensIn(q) = {k} /\ PlaysIn(q) = PlaysIn(p)
<1> DEFINE q == <<JoinAs(k)>> \o p
<1>1. /\ p \in Seq(PlayMessage) /\ p \in Seq(UpMessage) /\ Len(p) \in Nat
      /\ <<JoinAs(k)>> \in Seq(UpMessage)
  <2>1. p \in Seq(PlayMessage)
    BY DEF KeptQueue
  <2>2. \A i \in 1..Len(p) : p[i] \in UpMessage
    BY <2>1, ElementOfSeq, MessageTypes
  <2> QED BY <2>1, <2>2, MessageTypes
<1>2. /\ q \in Seq(UpMessage) /\ DOMAIN q = 1..Len(p) + 1 /\ q[1] = JoinAs(k)
      /\ \A i \in 1..Len(p) : q[i + 1] = p[i]
  BY <1>1
<1> HIDE DEF q
<1>3. \A i \in DOMAIN q : i = 1 \/ (i - 1 \in DOMAIN p /\ q[i] = p[i - 1])
  BY <1>1, <1>2
<1>4. ASSUME NEW i \in DOMAIN p
      PROVE  i + 1 \in DOMAIN q /\ q[i + 1] = p[i] /\ p[i].type = "play"
  <2>1. i \in 1..Len(p)
    BY <1>1
  <2>2. p[i] \in PlayMessage
    BY <1>1, <2>1, ElementOfSeq
  <2>3. p[i].type = "play"
    BY <2>2, MessageTypes
  <2> QED BY <1>1, <1>2, <2>1, <2>3
<1>5. 1 \in DOMAIN q /\ q[1].type = "join" /\ q[1].token = k
  BY <1>1, <1>2, MessageTypes
<1>6. UpQueue(q)
  <2>1. ASSUME NEW i \in DOMAIN q, q[i].type = "play"
        PROVE  i \in Nat /\ i - 1 \in DOMAIN p /\ q[i] = p[i - 1]
    BY <1>1, <1>2, <1>3, <1>5, <2>1
  <2>2. Once(q)
    <3> SUFFICES ASSUME NEW i \in DOMAIN q, NEW j \in DOMAIN q, q[i].type = "play",
                        q[j].type = "play", q[i].n = q[j].n
                 PROVE  i = j
      BY DEF Once
    <3>1. i - 1 = j - 1 /\ i \in Nat /\ j \in Nat
      BY <2>1 DEF KeptQueue, Once
    <3> QED BY <3>1
  <2>3. \A i \in DOMAIN q : q[i].type = "join" => i = 1
    BY <1>3, <1>4
  <2> QED BY <1>2, <2>2, <2>3 DEF UpQueue
<1>7. TokensIn(q) = {k}
  BY <1>3, <1>4, <1>5 DEF TokensIn
<1>8. PlaysIn(q) = PlaysIn(p)
  BY <1>3, <1>4, <1>5 DEF PlaysIn
<1> QED
  BY <1>6, <1>7, <1>8 DEF q

LEMMA KeepOne ==
  ASSUME NEW p, KeptQueue(p), NEW n \in Nat, n \notin PlaysIn(p)
  PROVE  KeptQueue(Append(p, Play(n))) /\ PlaysIn(Append(p, Play(n))) = PlaysIn(p) \cup {n}
<1> DEFINE r == Append(p, Play(n))
<1>1. /\ p \in Seq(PlayMessage) /\ r \in Seq(PlayMessage) /\ Len(p) \in Nat
      /\ DOMAIN p = 1..Len(p) /\ DOMAIN r = 1..Len(p) + 1 /\ r[Len(p) + 1] = Play(n)
      /\ \A i \in 1..Len(p) : r[i] = p[i]
  BY MessageTypes DEF KeptQueue
<1> HIDE DEF r
<1>2. \A i \in DOMAIN r : i = Len(p) + 1 \/ i \in DOMAIN p
  BY <1>1
<1>3. \A i \in DOMAIN p : i \in DOMAIN r /\ r[i] = p[i] /\ i # Len(p) + 1
  BY <1>1
<1>4. Len(p) + 1 \in DOMAIN r /\ r[Len(p) + 1].type = "play" /\ r[Len(p) + 1].n = n
  BY <1>1, MessageTypes
<1>5. \A i \in DOMAIN p : p[i].type = "play" /\ p[i].n \in PlaysIn(p)
  BY <1>1, ElementOfSeq, MessageTypes DEF PlaysIn
<1>6. KeptQueue(r)
  BY <1>1, <1>2, <1>3, <1>4, <1>5 DEF KeptQueue, Once
<1>7. PlaysIn(r) = PlaysIn(p) \cup {n}
  BY <1>2, <1>3, <1>4, <1>5 DEF PlaysIn
<1> QED
  BY <1>6, <1>7 DEF r

LEMMA DownTail ==
  ASSUME NEW q, DownQueue(q), q # <<>>
  PROVE  /\ DownQueue(Tail(q)) /\ Head(q) \in DownMessage
         /\ SeatsTold(Tail(q)) \subseteq SeatsTold(q)
         /\ Head(q).type = "joined" => Head(q).seat \in SeatsTold(q) /\ SeatsTold(Tail(q)) = {}
<1> DEFINE r == Tail(q)
<1>1. /\ q \in Seq(DownMessage) /\ r \in Seq(DownMessage) /\ Head(q) \in DownMessage
      /\ Len(q) \in Nat /\ Len(q) > 0 /\ Len(r) = Len(q) - 1
      /\ \A i \in 1..Len(r) : r[i] = q[i + 1]
  BY HeadTailProperties, EmptySeq DEF DownQueue
<1>2. Head(q) = q[1] /\ 1 \in DOMAIN q
  BY <1>1
<1> HIDE DEF r
<1>3. \A i \in DOMAIN r : i \in Nat /\ i > 0 /\ i + 1 \in DOMAIN q /\ r[i] = q[i + 1]
  BY <1>1
<1>4. DownQueue(r) /\ SeatsTold(r) \subseteq SeatsTold(q)
  BY <1>1, <1>3 DEF DownQueue, SeatsTold
<1>5. Head(q).type = "joined" => Head(q).seat \in SeatsTold(q) /\ SeatsTold(r) = {}
  BY <1>1, <1>2, <1>3, MessageTypes DEF DownQueue, SeatsTold
<1> QED
  BY <1>1, <1>4, <1>5 DEF r

LEMMA DownAppend ==
  ASSUME NEW q, DownQueue(q), NEW m \in DownMessage,
         m.type = "joined" => SeatsTold(q) = {}
  PROVE  /\ DownQueue(Append(q, m))
         /\ SeatsTold(Append(q, m)) = IF m.type = "joined" THEN {m.seat} ELSE SeatsTold(q)
<1> DEFINE r == Append(q, m)
<1>1. /\ q \in Seq(DownMessage) /\ r \in Seq(DownMessage) /\ Len(q) \in Nat
      /\ DOMAIN q = 1..Len(q) /\ DOMAIN r = 1..Len(q) + 1 /\ r[Len(q) + 1] = m
      /\ \A i \in 1..Len(q) : r[i] = q[i]
  BY DEF DownQueue
<1> HIDE DEF r
<1>2. \A i \in DOMAIN r : i = Len(q) + 1 \/ i \in DOMAIN q
  BY <1>1
<1>3. \A i \in DOMAIN q : i \in DOMAIN r /\ r[i] = q[i] /\ i # Len(q) + 1
  BY <1>1
<1>4. Len(q) + 1 \in DOMAIN r /\ (m.type = "joined" => m.seat \in Seat)
  BY <1>1, MessageTypes
<1>5. \A i \in DOMAIN q : q[i].type = "joined" => q[i].seat \in SeatsTold(q)
  BY <1>1, MessageTypes DEF SeatsTold
<1>6. DownQueue(r)
  BY <1>1, <1>2, <1>3, <1>5 DEF DownQueue
<1>7. SeatsTold(r) = IF m.type = "joined" THEN {m.seat} ELSE SeatsTold(q)
  BY <1>1, <1>2, <1>3, <1>4, <1>5 DEF SeatsTold
<1> QED
  BY <1>6, <1>7 DEF r

-----------------------------------------------------------------------------
(* The actions a browser has sent, kept and the room has taken: each number  *)
(* is in one place at the most.                                              *)
Taken == {n \in Nat : \E i \in DOMAIN applied : applied[i] = n}
KeptBy(t) == PlaysIn(tabs[t].pending)
Sent(s) == PlaysIn(up[s])

Numbered ==
  /\ acts \in Nat /\ applied \in Seq(Nat) /\ AppliedOnce
  /\ Taken \subseteq 1..acts
  /\ \A s \in Sock : Sent(s) \subseteq (1..acts) \ Taken
  /\ \A t \in Tab : KeptBy(t) \subseteq (1..acts) \ Taken
  /\ \A s, x \in Sock : s # x => Sent(s) \cap Sent(x) = {}
  /\ \A t, u \in Tab : t # u => KeptBy(t) \cap KeptBy(u) = {}
  /\ \A s \in Sock, t \in Tab : Sent(s) \cap KeptBy(t) = {}

Queues ==
  /\ DOMAIN up = Sock /\ DOMAIN down = Sock /\ DOMAIN server = Sock
  /\ \A s \in Sock : UpQueue(up[s]) /\ DownQueue(down[s])
  /\ \A t \in Tab : KeptQueue(tabs[t].pending)

(* A token names a seat that has been given out.                             *)
Known(k) == k \in 0..MaxSeat /\ (k # None => holder[k] # Unborn)

Alive(c) == c \in {"connecting", "open"}

(* What a socket has to do with the token of the tab that made it.  It asks  *)
(* for a seat once, with the tab's token, and is told of a seat once, after  *)
(* that; it is told of another seat only if the tab's own was gone.          *)
TokenOf(s) == tabs[owner[s]].reconnectToken
Asks(s) ==
  /\ TokensIn(up[s]) \subseteq {TokenOf(s)}
  /\ \A k \in SeatsTold(down[s]) :
       k = TokenOf(s) \/ TokenOf(s) = None \/ holder[TokenOf(s)] = Gone
Wire(s) ==
  /\ server[s] # "open" => up[s] = <<>>
  /\ ~Alive(client[s]) => down[s] = <<>>
  /\ client[s] = "connecting" => server[s] # "open" /\ SeatsTold(down[s]) = {}
  /\ TokensIn(up[s]) # {} => SeatsTold(down[s]) = {}
  /\ \A k \in SeatsTold(down[s]) : holder[k] # Unborn
  /\ Alive(client[s]) => Asks(s)

Seated ==
  /\ holder \in [Seat -> 0..Gone]
  /\ \A t \in Tab : /\ Known(tabs[t].reconnectToken)
                    /\ tabs[t].viewer \in {None, tabs[t].reconnectToken}
  /\ Known(stored)
  /\ \A s \in Sock : Wire(s)

SInv == TInv /\ Queues /\ Numbered /\ Seated

-----------------------------------------------------------------------------
(* What most steps do: they take from the queues, or add what is no word     *)
(* about a seat, and change no token.                                        *)
UpLess(q, r) == UpQueue(r) /\ TokensIn(r) \subseteq TokensIn(q)
DownLess(q, r) == DownQueue(r) /\ SeatsTold(r) \subseteq SeatsTold(q)

CalmWire(s) ==
  /\ UpLess(up[s], up'[s]) /\ DownLess(down[s], down'[s])
  /\ server'[s] # "open" => up'[s] = <<>>
  /\ ~Alive(client'[s]) => down'[s] = <<>>
  /\ client'[s] = "connecting" => client[s] = "connecting" /\ server'[s] # "open"
  /\ Alive(client'[s]) => Alive(client[s])
SameToken(s) == Alive(client'[s]) => TokenOf(s)' = TokenOf(s)

CalmTab(t) ==
  \/ /\ tabs'[t].reconnectToken = tabs[t].reconnectToken
     /\ tabs'[t].viewer \in {None, tabs[t].viewer}
  \/ tabs'[t].reconnectToken \in {None, stored} /\ tabs'[t].viewer = None

(* A seat given out stays so, and one that is gone is not given again.       *)
SeatsGoOn ==
  /\ holder' \in [Seat -> 0..Gone]
  /\ \A k \in Seat : /\ holder[k] # Unborn => holder'[k] # Unborn
                     /\ holder[k] = Gone => holder'[k] = Gone

QueueDomains == DOMAIN up' = Sock /\ DOMAIN down' = Sock /\ DOMAIN server' = Sock

LEMMA TokensFit ==
  ASSUME SInv
  PROVE  /\ \A t \in Tab : tabs[t].reconnectToken \in 0..MaxSeat
         /\ \A s \in Sock : TokenOf(s) \in 0..MaxSeat /\ Known(TokenOf(s)) /\ owner[s] \in Tab
         /\ \A k \in 0..MaxSeat : k # None => k \in Seat
         /\ MaxSeat \in Nat /\ MaxSock \in Nat
<1>1. \A s \in Sock : owner[s] \in Tab
  BY DEF SInv, TInv, Typed
<1>2. \A t \in Tab : Known(tabs[t].reconnectToken)
  BY DEF SInv, Seated
<1>3. MaxSeat \in Nat /\ MaxSock \in Nat
  BY TransportAssumption
<1>4. \A k \in 0..MaxSeat : k # None => k \in Seat
  BY <1>3 DEF Seat, None
<1> QED BY <1>1, <1>2, <1>3, <1>4 DEF Known, TokenOf

LEMMA KnownGoesOn ==
  ASSUME SInv, SeatsGoOn, NEW k, Known(k)
  PROVE  Known(k)'
<1>1. k \in 0..MaxSeat /\ (k # None => k \in Seat /\ holder[k] # Unborn)
  BY TokensFit DEF Known
<1> QED BY <1>1 DEF Known, SeatsGoOn

LEMMA NothingKnown == Known(None) /\ Known(None)'
  BY TransportAssumption DEF Known, None

(* A socket whose queues only lose keeps to its token.                       *)
LEMMA CalmWireKept ==
  ASSUME SInv, SeatsGoOn, NEW s \in Sock, CalmWire(s), SameToken(s)
  PROVE  Wire(s)'
<1>1. Wire(s)
  BY DEF SInv, Seated
<1>2. \A k \in SeatsTold(down'[s]) : k \in Seat /\ k \in SeatsTold(down[s])
  BY DEF CalmWire, DownLess, SeatsTold
<1>3. \A k \in SeatsTold(down'[s]) : holder'[k] # Unborn
  BY <1>1, <1>2 DEF Wire, SeatsGoOn
<1>4. ASSUME Alive(client'[s]) PROVE Asks(s)'
  <2>1. Asks(s) /\ TokenOf(s)' = TokenOf(s)
    BY <1>1, <1>4 DEF Wire, CalmWire, SameToken
  <2>2. TokenOf(s) = None \/ TokenOf(s) \in Seat
    BY TokensFit
  <2>3. TokensIn(up'[s]) \subseteq TokensIn(up[s])
    BY DEF CalmWire, UpLess
  <2>4. TokenOf(s) # None /\ holder[TokenOf(s)] = Gone => holder'[TokenOf(s)] = Gone
    BY <2>2 DEF SeatsGoOn
  <2> QED BY <1>2, <2>1, <2>3, <2>4 DEF Asks
<1>5. TokensIn(up'[s]) # {} => SeatsTold(down'[s]) = {}
  BY <1>1 DEF Wire, CalmWire, UpLess, DownLess
<1>6. client'[s] = "connecting" => server'[s] # "open" /\ SeatsTold(down'[s]) = {}
  BY <1>1 DEF Wire, CalmWire, DownLess
<1> QED BY <1>3, <1>4, <1>5, <1>6 DEF Wire, CalmWire

LEMMA CalmTabKept ==
  ASSUME SInv, SeatsGoOn, NEW t \in Tab, CalmTab(t)
  PROVE  /\ Known(tabs[t].reconnectToken)'
         /\ tabs'[t].viewer \in {None, tabs'[t].reconnectToken}
<1>1. /\ Known(tabs[t].reconnectToken) /\ Known(stored)
      /\ tabs[t].viewer \in {None, tabs[t].reconnectToken}
  BY DEF SInv, Seated
<1>2. \A k : Known(k) => k \in 0..MaxSeat /\ (k # None => holder'[k] # Unborn)
  BY TokensFit DEF Known, SeatsGoOn
<1>3. tabs'[t].reconnectToken \in {tabs[t].reconnectToken, stored, None}
  BY DEF CalmTab
<1>4. Known(None)
  BY NothingKnown
<1>5. Known(tabs[t].reconnectToken)'
  BY <1>1, <1>2, <1>3, <1>4 DEF Known
<1> QED BY <1>1, <1>5 DEF CalmTab

(* A step that is calm about the seats.                                      *)
CalmSeats ==
  /\ SeatsGoOn /\ QueueDomains /\ stored' \in {stored, None}
  /\ \A t \in Tab : CalmTab(t)
  /\ \A s \in Sock : CalmWire(s) /\ SameToken(s)

LEMMA SeatsMeet ==
  ASSUME SInv, SeatsGoOn, stored' \in {stored, None}, \A t \in Tab : CalmTab(t),
         \A s \in Sock : Wire(s)'
  PROVE  Seated' /\ SeatAfterSeat
<1>1. \A t \in Tab : /\ Known(tabs[t].reconnectToken)'
                     /\ tabs'[t].viewer \in {None, tabs'[t].reconnectToken}
  BY CalmTabKept
<1>2. Known(stored)'
  <2>1. Known(stored) /\ Known(None)
    BY NothingKnown DEF SInv, Seated
  <2>2. \A k : Known(k) => k \in 0..MaxSeat /\ (k # None => holder'[k] # Unborn)
    BY TokensFit DEF Known, SeatsGoOn
  <2> QED BY <2>1, <2>2 DEF Known
<1>3. Seated'
  BY <1>1, <1>2 DEF Seated, SeatsGoOn
<1>4. SeatAfterSeat
  BY DEF SeatAfterSeat, CalmTab
<1> QED BY <1>3, <1>4

LEMMA CalmSeatsKeep ==
  ASSUME SInv, CalmSeats
  PROVE  /\ Seated' /\ SeatAfterSeat
         /\ \A s \in Sock : UpQueue(up'[s]) /\ DownQueue(down'[s])
<1>1. \A s \in Sock : CalmWire(s) /\ Wire(s)'
  BY CalmWireKept DEF CalmSeats
<1>2. Seated' /\ SeatAfterSeat
  BY <1>1, SeatsMeet DEF CalmSeats
<1> QED BY <1>1, <1>2 DEF CalmWire, UpLess, DownLess

(* A step that brings no number anywhere.                                    *)
NumbersFall ==
  /\ UNCHANGED <<acts, applied>>
  /\ \A s \in Sock : PlaysIn(up'[s]) \subseteq PlaysIn(up[s])
  /\ \A t \in Tab : /\ KeptQueue(tabs'[t].pending)
                    /\ PlaysIn(tabs'[t].pending) \subseteq PlaysIn(tabs[t].pending)

LEMMA NumbersKept ==
  ASSUME SInv, NumbersFall
  PROVE  Numbered'
<1>1. \A s \in Sock : Sent(s)' \subseteq Sent(s)
  BY DEF Sent, NumbersFall
<1>2. \A t \in Tab : KeptBy(t)' \subseteq KeptBy(t)
  BY DEF KeptBy, NumbersFall
<1>3. Taken' = Taken /\ (AppliedOnce => AppliedOnce') /\ UNCHANGED <<acts, applied>>
  BY DEF Taken, AppliedOnce, NumbersFall
<1>4. Numbered
  BY DEF SInv
<1> HIDE DEF Sent, KeptBy, Taken, AppliedOnce
<1>5. \A s, x \in Sock : s # x => (Sent(s) \cap Sent(x))' = {}
  BY <1>1, <1>4 DEF Numbered
<1>6. \A s, x \in Tab : s # x => (KeptBy(s) \cap KeptBy(x))' = {}
  BY <1>2, <1>4 DEF Numbered
<1>7. \A s \in Sock, t \in Tab : (Sent(s) \cap KeptBy(t))' = {}
  BY <1>1, <1>2, <1>4 DEF Numbered
<1>8. /\ \A s \in Sock : Sent(s)' \subseteq (1..acts) \ Taken
      /\ \A t \in Tab : KeptBy(t)' \subseteq (1..acts) \ Taken
  BY <1>1, <1>2, <1>4 DEF Numbered
<1> QED BY <1>3, <1>4, <1>5, <1>6, <1>7, <1>8 DEF Numbered

LEMMA CalmKeeps ==
  ASSUME SInv, TInv', CalmSeats, NumbersFall
  PROVE  SInv' /\ SeatAfterSeat
<1>1. Queues'
  BY CalmSeatsKeep DEF Queues, CalmSeats, QueueDomains, NumbersFall
<1> QED BY <1>1, CalmSeatsKeep, NumbersKept DEF SInv

-----------------------------------------------------------------------------
(* What the steps do to the queues.                                          *)
LEMMA Concats ==
  ASSUME NEW S, NEW q \in Seq(S), NEW a \in S, NEW b \in S
  PROVE  /\ Append(<<>>, a) = <<a>> /\ Append(<<a>>, b) = <<a, b>>
         /\ q \o <<a>> = Append(q, a) /\ q \o <<a, b>> = Append(Append(q, a), b)
<1>0. <<>> \in Seq(S) /\ <<a>> \in Seq(S) /\ <<a, b>> \in Seq(S)
  OBVIOUS
<1>1. Append(<<>>, a) = <<a>> /\ Append(<<a>>, b) = <<a, b>>
  <2>1. /\ Append(<<>>, a) \in Seq(S) /\ Len(Append(<<>>, a)) = 1 /\ Append(<<>>, a)[1] = a
        /\ Append(<<a>>, b) \in Seq(S) /\ Len(Append(<<a>>, b)) = 2
        /\ Append(<<a>>, b)[1] = a /\ Append(<<a>>, b)[2] = b
    BY <1>0
  <2>2. Len(<<a>>) = 1 /\ <<a>>[1] = a
        /\ Len(<<a, b>>) = 2 /\ <<a, b>>[1] = a /\ <<a, b>>[2] = b
    OBVIOUS
  <2>3. \A i \in 1..1 : i = 1
    OBVIOUS
  <2>4. \A i \in 1..2 : i = 1 \/ i = 2
    OBVIOUS
  <2>5. Append(<<>>, a) = <<a>>
    BY <1>0, <2>1, <2>2, <2>3, SeqEqual
  <2>6. Append(<<a>>, b) = <<a, b>>
    BY <1>0, <2>1, <2>2, <2>4, SeqEqual
  <2> QED BY <2>5, <2>6
<1>2. q \o <<a>> = Append(q, a)
  OBVIOUS
<1>3. q \o <<a, b>> = Append(Append(q, a), b)
  OBVIOUS
<1> QED BY <1>1, <1>2, <1>3

Closing == {Fin, Msg("leave")}

LEMMA QueuesLess ==
  ASSUME SInv, NEW s \in Sock
  PROVE  /\ UpLess(up[s], up[s]) /\ UpLess(up[s], <<>>) /\ UpQueue(up[s])
         /\ up[s] # <<>> => /\ UpLess(up[s], Tail(up[s]))
                            /\ PlaysIn(Tail(up[s])) \subseteq PlaysIn(up[s])
         /\ DownLess(down[s], down[s]) /\ DownLess(down[s], <<>>)
         /\ down[s] # <<>> => DownLess(down[s], Tail(down[s]))
         /\ \A m \in DownMessage : m.type # "joined" => DownLess(down[s], Append(down[s], m))
         /\ \A m, n \in DownMessage : m.type # "joined" /\ n.type # "joined" =>
              DownLess(down[s], Append(Append(down[s], m), n))
<1>1. UpQueue(up[s]) /\ DownQueue(down[s])
  BY DEF SInv, Queues
<1>2. up[s] # <<>> => /\ UpLess(up[s], Tail(up[s]))
                      /\ PlaysIn(Tail(up[s])) \subseteq PlaysIn(up[s])
  BY <1>1, UpTail DEF UpLess
<1>3. down[s] # <<>> => DownLess(down[s], Tail(down[s]))
  BY <1>1, DownTail DEF DownLess
<1>4. \A m \in DownMessage : m.type # "joined" => DownLess(down[s], Append(down[s], m))
  BY <1>1, DownAppend DEF DownLess
<1>5. ASSUME NEW m \in DownMessage, NEW n \in DownMessage, m.type # "joined", n.type # "joined"
      PROVE  DownLess(down[s], Append(Append(down[s], m), n))
  <2>1. DownQueue(Append(down[s], m)) /\ SeatsTold(Append(down[s], m)) = SeatsTold(down[s])
    BY <1>1, <1>5, DownAppend
  <2> QED BY <1>5, <2>1, DownAppend DEF DownLess
<1> QED BY <1>1, <1>2, <1>3, <1>4, <1>5, EmptyQueue DEF UpLess, DownLess

LEMMA ClosingLess ==
  ASSUME SInv, NEW s \in Sock, NEW ms \in {<<>>, <<Msg("leave")>>}
  PROVE  LET q == up[s] \o Append(ms, Fin) IN
         UpLess(up[s], q) /\ PlaysIn(q) = PlaysIn(up[s])
<1>1. UpQueue(up[s]) /\ up[s] \in Seq(UpMessage)
  BY DEF SInv, Queues, UpQueue
<1>2. /\ Fin \in UpMessage /\ Fin.type # "join" /\ Fin.type # "play"
      /\ Msg("leave") \in UpMessage /\ Msg("leave").type # "join" /\ Msg("leave").type # "play"
  BY MessageTypes
<1>3. CASE ms = <<>>
  <2>1. up[s] \o Append(ms, Fin) = Append(up[s], Fin)
    BY <1>1, <1>2, <1>3, Concats
  <2> QED BY <1>1, <1>2, <2>1, UpAppend DEF UpLess
<1>4. CASE ms = <<Msg("leave")>>
  <2> DEFINE r == Append(up[s], Msg("leave"))
  <2>1. up[s] \o Append(ms, Fin) = Append(r, Fin)
    BY <1>1, <1>2, <1>4, Concats
  <2>2. UpQueue(r) /\ TokensIn(r) = TokensIn(up[s]) /\ PlaysIn(r) = PlaysIn(up[s])
    BY <1>1, <1>2, UpAppend
  <2> HIDE DEF r
  <2> QED BY <1>2, <2>1, <2>2, UpAppend DEF UpLess
<1> QED BY <1>3, <1>4

(* A socket a step leaves alone.                                             *)
LEMMA StillWire ==
  ASSUME SInv, NEW s \in Sock, up'[s] = up[s], down'[s] = down[s], client'[s] = client[s],
         server'[s] = server[s]
  PROVE  CalmWire(s) /\ PlaysIn(up'[s]) \subseteq PlaysIn(up[s])
<1>1. Wire(s)
  BY DEF SInv, Seated
<1> QED BY <1>1, QueuesLess DEF CalmWire, Wire

LEMMA CloseAfterCalm ==
  ASSUME SInv, NEW s, NEW ms \in {<<>>, <<Msg("leave")>>}, CloseAfter(s, ms), server' = server
  PROVE  /\ QueueDomains
         /\ \A x \in Sock : CalmWire(x) /\ PlaysIn(up'[x]) \subseteq PlaysIn(up[x])
<1>1. DOMAIN up = Sock /\ DOMAIN down = Sock /\ DOMAIN server = Sock /\ DOMAIN client = Sock
  BY DEF SInv, Queues, TInv, Typed
<1>2. CASE ~(s \in Sock /\ Live(s))
  <2>1. UNCHANGED <<client, up, down>>
    BY <1>2 DEF CloseAfter
  <2> QED BY <1>1, <2>1, StillWire DEF QueueDomains
<1>3. CASE s \in Sock /\ Live(s)
  <2> DEFINE q == up[s] \o Append(ms, Fin)
  <2>1. /\ client' = [client EXCEPT ![s] = "closing"] /\ down' = [down EXCEPT ![s] = <<>>]
        /\ up' = up \/ (server[s] = "open" /\ up' = [up EXCEPT ![s] = q])
    BY <1>3 DEF CloseAfter, Up
  <2>2. QueueDomains
    BY <1>1, <2>1 DEF QueueDomains
  <2>3. \A x \in Sock \ {s} : up'[x] = up[x] /\ down'[x] = down[x] /\ client'[x] = client[x]
    BY <1>1, <2>1
  <2>4. client'[s] = "closing" /\ down'[s] = <<>>
        /\ (up'[s] = up[s] \/ (server[s] = "open" /\ up'[s] = q))
    BY <1>1, <1>3, <2>1
  <2>5. UpLess(up[s], q) /\ PlaysIn(q) = PlaysIn(up[s])
    BY <1>3, ClosingLess
  <2> HIDE DEF q
  <2>6. Wire(s)
    BY <1>3 DEF SInv, Seated
  <2>7. CalmWire(s) /\ PlaysIn(up'[s]) \subseteq PlaysIn(up[s])
    BY <1>3, <2>4, <2>5, <2>6, QueuesLess DEF CalmWire, Wire, Alive
  <2> QED BY <2>2, <2>3, <2>7, StillWire
<1> QED BY <1>2, <1>3

-----------------------------------------------------------------------------
(* The calm steps of a tab. *)

LEMMA HolderStays ==
  ASSUME SInv, holder' = holder
  PROVE  SeatsGoOn
  BY DEF SInv, Seated, SeatsGoOn

LEMMA DropKeepsToken ==
  ASSUME NEW T, DOMAIN T = Field
  PROVE  /\ handleDrop(T).reconnectToken = T.reconnectToken
         /\ handleDrop(T).viewer = T.viewer /\ handleDrop(T).pending = T.pending
         /\ DOMAIN handleDrop(T) = Field
  BY DEF handleDrop, Field

LEMMA StoppedEmpty ==
  ASSUME NEW why
  PROVE  /\ stop(why).reconnectToken = None /\ stop(why).viewer = None
         /\ stop(why).pending = <<>>
  BY DEF stop, StoppedTransport, NewTransport

(* A stopped tab has no live socket, so none that its token matters to.      *)
LEMMA StopCalm ==
  ASSUME SInv, TInv', NEW t \in Tab, NEW why, NEW ms \in {<<>>, <<Msg("leave")>>},
         tabs' = [tabs EXCEPT ![t] = stop(why)], CloseAfter(tabs[t].sock, ms),
         UNCHANGED <<serverVars, server, owner, acts>>, stored' \in {stored, None}
  PROVE  CalmSeats /\ NumbersFall
<1>1. SeatsGoOn
  BY HolderStays DEF serverVars
<1>2. QueueDomains /\ \A x \in Sock : CalmWire(x) /\ PlaysIn(up'[x]) \subseteq PlaysIn(up[x])
  BY CloseAfterCalm
<1>3. tabs'[t] = stop(why) /\ \A u \in Tab \ {t} : tabs'[u] = tabs[u]
  BY DEF SInv, TInv, Typed
<1>4. \A u \in Tab : /\ CalmTab(u) /\ tabs'[u].pending \in {tabs[u].pending, <<>>}
  BY <1>3, StoppedEmpty DEF CalmTab
<1>5. \A u \in Tab : /\ KeptQueue(tabs'[u].pending)
                     /\ PlaysIn(tabs'[u].pending) \subseteq PlaysIn(tabs[u].pending)
  BY <1>4, EmptyQueue DEF SInv, Queues
<1>6. ASSUME NEW x \in Sock PROVE SameToken(x)
  <2>1. owner'[x] = owner[x] /\ owner[x] \in Tab
    BY DEF SInv, TInv, Typed
  <2>2. CASE owner[x] # t
    BY <1>3, <2>1, <2>2 DEF SameToken, TokenOf
  <2>3. CASE owner[x] = t
    <3>1. ~Live(x)'
      BY <1>3, <2>1, <2>3, StoppedShape DEF TInv, Owned
    <3> QED BY <3>1 DEF SameToken, Alive, Live
  <2> QED BY <2>2, <2>3
<1>7. UNCHANGED <<acts, applied>>
  BY DEF serverVars
<1> QED BY <1>1, <1>2, <1>4, <1>5, <1>6, <1>7 DEF CalmSeats, NumbersFall

LEMMA LeaveRoomCalm ==
  ASSUME SInv, TInv', NEW t \in Tab, LeaveRoom(t)
  PROVE  CalmSeats /\ NumbersFall
<1>1. PICK ms \in {<<>>, <<Msg("leave")>>} : CloseAfter(tabs[t].sock, ms)
  BY DEF LeaveRoom, CloseSocket
<1>2. /\ tabs' = [tabs EXCEPT ![t] = stop("left")]
      /\ UNCHANGED <<serverVars, server, owner, acts>> /\ stored' \in {stored, None}
  BY DEF LeaveRoom
<1> QED BY <1>1, <1>2, StopCalm

LEMMA DisposeCalm ==
  ASSUME SInv, TInv', NEW t \in Tab, Dispose(t)
  PROVE  CalmSeats /\ NumbersFall
  BY StopCalm DEF Dispose, CloseSocket

(* A step that only gives up or closes what a tab has, and keeps every token *)
(* and every action for the next socket.                                     *)
LEMMA TokensStay ==
  ASSUME SInv, UNCHANGED <<serverVars, owner, stored, acts>>, QueueDomains,
         \A x \in Sock : CalmWire(x) /\ PlaysIn(up'[x]) \subseteq PlaysIn(up[x]),
         \A u \in Tab : /\ tabs'[u].reconnectToken = tabs[u].reconnectToken
                        /\ tabs'[u].viewer = tabs[u].viewer
                        /\ tabs'[u].pending = tabs[u].pending
  PROVE  CalmSeats /\ NumbersFall
<1>1. SeatsGoOn /\ UNCHANGED applied
  BY HolderStays DEF serverVars
<1>2. \A u \in Tab : /\ CalmTab(u) /\ KeptQueue(tabs'[u].pending)
                     /\ PlaysIn(tabs'[u].pending) \subseteq PlaysIn(tabs[u].pending)
  BY DEF SInv, Queues, CalmTab
<1>3. \A x \in Sock : SameToken(x)
  BY TokensFit DEF SameToken, TokenOf
<1> QED BY <1>1, <1>2, <1>3 DEF CalmSeats, NumbersFall

LEMMA TimedOutCalm ==
  ASSUME SInv, NEW t \in Tab, TimedOut(t)
  PROVE  CalmSeats /\ NumbersFall
<1> DEFINE N == [handleDrop(tabs[t]) EXCEPT !.sock = None]
<1>1. /\ tabs' = [tabs EXCEPT ![t] = N] /\ CloseAfter(tabs[t].sock, <<>>)
      /\ UNCHANGED <<serverVars, owner, stored, acts>> /\ server' = server
  BY DEF TimedOut, CloseSocket
<1>2. QueueDomains /\ \A x \in Sock : CalmWire(x) /\ PlaysIn(up'[x]) \subseteq PlaysIn(up[x])
  BY <1>1, CloseAfterCalm
<1>3. DOMAIN tabs[t] = Field /\ DOMAIN tabs = Tab
  BY DEF SInv, TInv, Typed
<1>4. /\ N.reconnectToken = tabs[t].reconnectToken /\ N.viewer = tabs[t].viewer
      /\ N.pending = tabs[t].pending
  BY <1>3, DropKeepsToken DEF Field
<1> HIDE DEF N
<1>5. \A u \in Tab : tabs'[u] = IF u = t THEN N ELSE tabs[u]
  BY <1>1, <1>3
<1> QED BY <1>1, <1>2, <1>4, <1>5, TokensStay

LEMMA DroppedKeepsTokens ==
  ASSUME SInv, NEW s \in Sock
  PROVE  \A u \in Tab : /\ DroppedBy(s)[u].reconnectToken = tabs[u].reconnectToken
                        /\ DroppedBy(s)[u].viewer = tabs[u].viewer
                        /\ DroppedBy(s)[u].pending = tabs[u].pending
                        /\ DOMAIN DroppedBy(s)[u] = Field
<1>1. DOMAIN tabs = Tab /\ \A u \in Tab : DOMAIN tabs[u] = Field
  BY DEF SInv, TInv, Typed
<1>2. CASE HeardFrom(s)
  <2>1. DroppedBy(s) = [tabs EXCEPT ![owner[s]] = handleDrop(tabs[owner[s]])]
    BY <1>2 DEF DroppedBy
  <2>2. \A u \in Tab : DroppedBy(s)[u] = IF u = owner[s] THEN handleDrop(tabs[u]) ELSE tabs[u]
    BY <1>1, <2>1
  <2> QED BY <1>1, <2>2, DropKeepsToken
<1>3. CASE ~HeardFrom(s)
  BY <1>1, <1>3 DEF DroppedBy
<1> QED BY <1>2, <1>3

(* The end in the tab has closed: nothing more comes in on it.               *)
LEMMA EndsCalm ==
  ASSUME SInv, NEW s \in Sock, NEW c \in {"closing", "closed"},
         client' = [client EXCEPT ![s] = c], down' = [down EXCEPT ![s] = <<>>],
         UNCHANGED <<up, server>>
  PROVE  /\ QueueDomains
         /\ \A x \in Sock : CalmWire(x) /\ PlaysIn(up'[x]) \subseteq PlaysIn(up[x])
<1>1. DOMAIN up = Sock /\ DOMAIN down = Sock /\ DOMAIN server = Sock /\ DOMAIN client = Sock
  BY DEF SInv, Queues, TInv, Typed
<1>2. \A x \in Sock \ {s} : CalmWire(x) /\ PlaysIn(up'[x]) \subseteq PlaysIn(up[x])
  <2>1. \A x \in Sock \ {s} : up'[x] = up[x] /\ down'[x] = down[x] /\ client'[x] = client[x]
                              /\ server'[x] = server[x]
    BY <1>1
  <2> QED BY <2>1, StillWire
<1>3. Wire(s)
  BY DEF SInv, Seated
<1>4. CalmWire(s) /\ PlaysIn(up'[s]) \subseteq PlaysIn(up[s])
  <2>1. up'[s] = up[s] /\ down'[s] = <<>> /\ client'[s] = c /\ server'[s] = server[s]
    BY <1>1
  <2> QED BY <1>3, <2>1, QueuesLess DEF CalmWire, Wire, Alive
<1> QED BY <1>1, <1>2, <1>4 DEF QueueDomains

LEMMA ErrorCalm ==
  ASSUME SInv, NEW s \in Sock, ErrorEvent(s)
  PROVE  CalmSeats /\ NumbersFall
<1>1. QueueDomains /\ \A x \in Sock : CalmWire(x) /\ PlaysIn(up'[x]) \subseteq PlaysIn(up[x])
  BY EndsCalm DEF ErrorEvent
<1> QED BY <1>1, DroppedKeepsTokens, TokensStay DEF ErrorEvent

LEMMA CloseCalm ==
  ASSUME SInv, NEW s \in Sock, CloseEvent(s)
  PROVE  CalmSeats /\ NumbersFall
<1> DEFINE Freed(u) == [DroppedBy(s)[u] EXCEPT !.sock = None]
<1>1. QueueDomains /\ \A x \in Sock : CalmWire(x) /\ PlaysIn(up'[x]) \subseteq PlaysIn(up[x])
  BY EndsCalm DEF CloseEvent
<1>2. \A u \in Tab : /\ Freed(u).reconnectToken = tabs[u].reconnectToken
                     /\ Freed(u).viewer = tabs[u].viewer
                     /\ Freed(u).pending = tabs[u].pending
  BY DroppedKeepsTokens DEF Field
<1>3. \A u \in Tab : tabs'[u] = Freed(u) \/ tabs'[u] = DroppedBy(s)[u]
  BY DEF CloseEvent
<1> HIDE DEF Freed
<1>4. UNCHANGED <<serverVars, owner, stored, acts>>
  BY DEF CloseEvent
<1> QED BY <1>1, <1>2, <1>3, <1>4, DroppedKeepsTokens, TokensStay

(* Every message but `joined`.                                               *)
LEMMA ReceiveCalm ==
  ASSUME SInv, TInv', NEW s \in Sock, receive(s), Head(down[s]).type # "joined"
  PROVE  CalmSeats /\ NumbersFall
<1> DEFINE t == owner[s]
           m == Head(down[s])
<1>1. t \in Tab /\ tabs[t].sock = s /\ client[s] = "open" /\ down[s] # <<>>
  BY DEF receive, SInv, TInv, Typed, Owned, Live
<1>2. UNCHANGED <<serverVars, server, owner, acts>>
  BY DEF receive
<1>3. CASE m.type \in TERMINAL
  <2>1. /\ tabs' = [tabs EXCEPT ![t] = stop(m.type)] /\ CloseAfter(tabs[t].sock, <<>>)
        /\ stored' \in {stored, None}
    BY <1>1, <1>3 DEF receive, CloseSocket
  <2> QED BY <1>1, <1>2, <2>1, StopCalm
<1>4. CASE m.type \notin TERMINAL
  <2>1. down' = [down EXCEPT ![s] = Tail(down[s])] /\ UNCHANGED <<tabs, stored, client, up>>
    BY <1>4 DEF receive
  <2>2. DOMAIN up = Sock /\ DOMAIN down = Sock /\ DOMAIN server = Sock
    BY DEF SInv, Queues
  <2>3. \A x \in Sock \ {s} : down'[x] = down[x]
    BY <2>1, <2>2
  <2>4. \A x \in Sock \ {s} : CalmWire(x) /\ PlaysIn(up'[x]) \subseteq PlaysIn(up[x])
    BY <1>2, <2>1, <2>3, StillWire
  <2>5. Wire(s) /\ down'[s] = Tail(down[s])
    BY <2>1, <2>2 DEF SInv, Seated
  <2>6. CalmWire(s) /\ PlaysIn(up'[s]) \subseteq PlaysIn(up[s])
    BY <1>1, <1>2, <2>1, <2>5, QueuesLess DEF CalmWire, Wire, Alive
  <2>7. QueueDomains
    BY <1>2, <2>1, <2>2 DEF QueueDomains
  <2> QED BY <1>2, <2>1, <2>4, <2>6, <2>7, TokensStay
<1> QED BY <1>3, <1>4

-----------------------------------------------------------------------------
(* The calm steps of the server and the network: no tab changes.             *)

LEMMA DownShape ==
  ASSUME SInv, NEW x \in Sock, NEW ms
  PROVE  /\ DOMAIN Down(x, ms) = Sock
         /\ \A y \in Sock \ {x} : Down(x, ms)[y] = down[y]
         /\ Down(x, ms)[x] \in {down[x], down[x] \o ms}
         /\ Down(x, ms)[x] # down[x] => Alive(client[x])
         /\ ~Alive(client[x]) => Down(x, ms)[x] = <<>>
<1>1. DOMAIN down = Sock
  BY DEF SInv, Queues
<1>2. Wire(x)
  BY DEF SInv, Seated
<1> QED BY <1>1, <1>2 DEF Down, Live, Alive, Wire

LEMMA ToldLess ==
  ASSUME SInv, NEW x \in Sock, NEW m \in DownMessage, m.type # "joined"
  PROVE  DownLess(down[x], Down(x, <<m>>)[x])
<1>1. down[x] \in Seq(DownMessage)
  BY DEF SInv, Queues, DownQueue
<1>2. down[x] \o <<m>> = Append(down[x], m)
  BY <1>1, Concats
<1> QED BY <1>2, DownShape, QueuesLess

LEMMA SupersededLess ==
  ASSUME SInv, NEW x \in Sock
  PROVE  DownLess(down[x], Down(x, <<Msg("SUPERSEDED"), Fin>>)[x])
<1>1. down[x] \in Seq(DownMessage)
  BY DEF SInv, Queues, DownQueue
<1>2. /\ Msg("SUPERSEDED") \in DownMessage /\ Msg("SUPERSEDED").type # "joined"
      /\ Fin \in DownMessage /\ Fin.type # "joined"
  BY MessageTypes DEF TERMINAL
<1>3. down[x] \o <<Msg("SUPERSEDED"), Fin>> = Append(Append(down[x], Msg("SUPERSEDED")), Fin)
  BY <1>1, <1>2, Concats
<1> QED BY <1>2, <1>3, DownShape, QueuesLess

LEMMA FarWire ==
  ASSUME SInv, NEW s \in Sock, client' = client,
         up'[s] \in {up[s], <<>>} \/ (up[s] # <<>> /\ up'[s] = Tail(up[s])),
         server'[s] = server[s] \/ (server'[s] = "closed" /\ up'[s] = <<>>),
         DownLess(down[s], down'[s]), ~Alive(client[s]) => down'[s] = <<>>
  PROVE  CalmWire(s) /\ PlaysIn(up'[s]) \subseteq PlaysIn(up[s])
<1>1. Wire(s)
  BY DEF SInv, Seated
<1>2. UpLess(up[s], up'[s]) /\ PlaysIn(up'[s]) \subseteq PlaysIn(up[s])
  BY QueuesLess, EmptyQueue
<1>3. server'[s] # "open" => up'[s] = <<>>
  BY <1>1 DEF Wire
<1>4. client'[s] = "connecting" => client[s] = "connecting" /\ server'[s] # "open"
  BY <1>1 DEF Wire
<1> QED BY <1>2, <1>3, <1>4 DEF CalmWire

LEMMA FarCalm ==
  ASSUME SInv, UNCHANGED <<owner, tabs, stored, acts>>, SeatsGoOn, QueueDomains,
         \A x \in Sock : CalmWire(x)
  PROVE  /\ CalmSeats
         /\ (\A x \in Sock : PlaysIn(up'[x]) \subseteq PlaysIn(up[x])) /\ applied' = applied
              => NumbersFall
<1>1. \A u \in Tab : CalmTab(u) /\ KeptQueue(tabs'[u].pending)
  BY DEF CalmTab, SInv, Queues
<1>2. \A x \in Sock : SameToken(x)
  BY DEF SameToken, TokenOf
<1> QED BY <1>1, <1>2 DEF CalmSeats, NumbersFall

(* A socket's own message is read, and it is told one thing that is not of   *)
(* a seat.                                                                   *)
LEMMA ReadCalm ==
  ASSUME SInv, NEW s \in Sock, UNCHANGED <<client, owner, tabs, stored, acts, server>>,
         SeatsGoOn, up[s] # <<>>, Read(s),
         down' = down \/ \E m \in DownMessage : m.type # "joined" /\ Tell(s, m)
  PROVE  CalmSeats /\ (applied' = applied => NumbersFall)
<1>1. DOMAIN up = Sock /\ DOMAIN down = Sock /\ DOMAIN server = Sock
  BY DEF SInv, Queues
<1>2. up'[s] = Tail(up[s]) /\ DOMAIN up' = Sock /\ \A x \in Sock \ {s} : up'[x] = up[x]
  BY <1>1 DEF Read
<1>3. /\ DOMAIN down' = Sock /\ \A x \in Sock \ {s} : down'[x] = down[x]
      /\ DownLess(down[s], down'[s]) /\ (~Alive(client[s]) => down'[s] = <<>>)
  <2>1. CASE down' = down
    BY <1>1, <2>1, QueuesLess DEF SInv, Seated, Wire
  <2>2. CASE \E m \in DownMessage : m.type # "joined" /\ Tell(s, m)
    BY <2>2, DownShape, ToldLess DEF Tell
  <2> QED BY <2>1, <2>2
<1>4. CalmWire(s) /\ PlaysIn(up'[s]) \subseteq PlaysIn(up[s])
  BY <1>2, <1>3, FarWire
<1>5. \A x \in Sock \ {s} : CalmWire(x) /\ PlaysIn(up'[x]) \subseteq PlaysIn(up[x])
  BY <1>2, <1>3, StillWire
<1>6. QueueDomains
  BY <1>1, <1>2, <1>3 DEF QueueDomains
<1> QED BY <1>4, <1>5, <1>6, FarCalm

(* Where a step leaves each seat: with who holds it, in its grace, or gone.  *)
LEMMA HolderFalls ==
  ASSUME SInv, holder' = [k \in Seat |-> holder'[k]],
         \A k \in Seat : holder'[k] \in {holder[k], Gone}
                           \/ (holder[k] \notin {Unborn, Gone} /\ holder'[k] = Grace)
  PROVE  SeatsGoOn
<1>1. holder \in [Seat -> 0..Gone] /\ MaxSock \in Nat
  BY TransportAssumption DEF SInv, Seated
<1>2. Grace \in 0..Gone /\ Gone \in 0..Gone /\ Gone # Unborn /\ Grace # Unborn
  BY <1>1 DEF Grace, Gone, Unborn
<1>3. \A k \in Seat : holder'[k] \in 0..Gone
  BY <1>1, <1>2
<1>4. holder' \in [Seat -> 0..Gone]
  BY <1>3
<1> QED BY <1>2, <1>4 DEF SeatsGoOn

LEMMA SocksHold ==
  ASSUME SInv, NEW s \in Sock
  PROVE  s \notin {Unborn, Gone, Grace} /\ s \in 0..Gone
  BY TransportAssumption DEF Sock, Unborn, Gone, Grace

LEMMA DisconnectCalm ==
  ASSUME SInv, NEW s \in Sock, UNCHANGED <<client, owner, tabs, stored, acts>>, Disconnect(s)
  PROVE  CalmSeats /\ NumbersFall
<1>1. DOMAIN up = Sock /\ DOMAIN down = Sock /\ DOMAIN server = Sock
  BY DEF SInv, Queues
<1>2. /\ up' = [up EXCEPT ![s] = <<>>] /\ UNCHANGED <<applied, down>>
      /\ server' = [x \in Sock |-> IF x \in {s} THEN "closed" ELSE server[x]]
      /\ holder' = [k \in Seat |-> IF holder[k] = s THEN Grace ELSE holder[k]]
  BY DEF Disconnect, ServerCloses, Vacated
<1>3. SeatsGoOn
  <2>1. holder' = [k \in Seat |-> holder'[k]]
    BY <1>2
  <2>2. ASSUME NEW k \in Seat
        PROVE  holder'[k] \in {holder[k], Gone}
                 \/ (holder[k] \notin {Unborn, Gone} /\ holder'[k] = Grace)
    BY <1>2, SocksHold
  <2> QED BY <2>1, <2>2, HolderFalls
<1>4. QueueDomains
  BY <1>1, <1>2 DEF QueueDomains
<1>5. ASSUME NEW x \in Sock PROVE CalmWire(x) /\ PlaysIn(up'[x]) \subseteq PlaysIn(up[x])
  <2>1. up'[x] \in {up[x], <<>>} /\ (server'[x] = server[x]
           \/ (server'[x] = "closed" /\ up'[x] = <<>>))
    BY <1>1, <1>2
  <2>2. DownLess(down[x], down'[x]) /\ (~Alive(client[x]) => down'[x] = <<>>)
    BY <1>2, QueuesLess DEF SInv, Seated, Wire
  <2> QED BY <2>1, <2>2, FarWire
<1> QED BY <1>2, <1>3, <1>4, <1>5, FarCalm

LEMMA DeadlineCalm ==
  ASSUME SInv, NEW s \in Sock, DeadlineCloses(s)
  PROVE  CalmSeats /\ NumbersFall
<1>1. DOMAIN up = Sock /\ DOMAIN down = Sock /\ DOMAIN server = Sock
  BY DEF SInv, Queues
<1>2. /\ up' = [up EXCEPT ![s] = <<>>] /\ server' = [server EXCEPT ![s] = "closed"]
      /\ down' = Down(s, <<Fin>>)
      /\ UNCHANGED <<serverVars, client, owner, tabs, stored, acts>>
  BY DEF DeadlineCloses, Tell
<1>3. SeatsGoOn /\ QueueDomains
  BY <1>1, <1>2, HolderStays, DownShape DEF serverVars, QueueDomains
<1>4. CalmWire(s) /\ PlaysIn(up'[s]) \subseteq PlaysIn(up[s])
  <2>1. DownLess(down[s], down'[s]) /\ (~Alive(client[s]) => down'[s] = <<>>)
    BY <1>2, DownShape, ToldLess, MessageTypes
  <2> QED BY <1>1, <1>2, <2>1, FarWire
<1>5. ASSUME NEW x \in Sock \ {s} PROVE CalmWire(x) /\ PlaysIn(up'[x]) \subseteq PlaysIn(up[x])
  BY <1>1, <1>2, DownShape, StillWire
<1> QED BY <1>2, <1>3, <1>4, <1>5, FarCalm DEF serverVars

LEMMA GraceCalm ==
  ASSUME SInv, NEW k \in Seat, GraceFires(k)
  PROVE  CalmSeats /\ NumbersFall
<1>1. SeatsGoOn
  <2>1. holder \in [Seat -> 0..Gone]
    BY DEF SInv, Seated
  <2> QED BY <2>1, HolderFalls DEF GraceFires
<1>2. UNCHANGED <<client, server, up, down, owner, tabs, stored, acts, applied>>
  BY DEF GraceFires, wireVars
<1>3. QueueDomains
  BY <1>2 DEF QueueDomains, SInv, Queues
<1>4. \A x \in Sock : CalmWire(x) /\ PlaysIn(up'[x]) \subseteq PlaysIn(up[x])
  BY <1>2, StillWire
<1> QED BY <1>1, <1>2, <1>3, <1>4, FarCalm

LEMMA RoomClosesCalm ==
  ASSUME SInv, RoomCloses
  PROVE  CalmSeats /\ NumbersFall
<1>1. SeatsGoOn
  BY HolderFalls DEF RoomCloses
<1>2. UNCHANGED <<client, server, up, owner, tabs, stored, acts, applied>>
  BY DEF RoomCloses
<1>3. QueueDomains
  BY <1>2 DEF QueueDomains, SInv, Queues, RoomCloses
<1>4. ASSUME NEW x \in Sock PROVE CalmWire(x) /\ PlaysIn(up'[x]) \subseteq PlaysIn(up[x])
  <2>1. down'[x] = down[x] \/ down'[x] = Down(x, <<Msg("ROOM_CLOSED")>>)[x]
    BY DEF RoomCloses
  <2>2. /\ DownLess(down[x], Down(x, <<Msg("ROOM_CLOSED")>>)[x])
        /\ ~Alive(client[x]) => Down(x, <<Msg("ROOM_CLOSED")>>)[x] = <<>>
    BY ToldLess, DownShape, MessageTypes DEF TERMINAL
  <2>3. CASE down'[x] = down[x]
    BY <1>2, <2>3, StillWire
  <2>4. CASE down'[x] # down[x]
    BY <1>2, <2>1, <2>2, <2>4, FarWire
  <2> QED BY <2>3, <2>4
<1> QED BY <1>1, <1>2, <1>3, <1>4, FarCalm

LEMMA CutCalm ==
  ASSUME SInv, NEW s \in Sock, Cut(s)
  PROVE  CalmSeats /\ NumbersFall
<1>1. DOMAIN up = Sock /\ DOMAIN down = Sock /\ DOMAIN server = Sock
  BY DEF SInv, Queues
<1>2. /\ up' = [up EXCEPT ![s] = <<>>] /\ down' = [down EXCEPT ![s] = <<>>]
      /\ UNCHANGED <<client, server, owner, tabs, stored, acts, applied, holder>>
  BY DEF Cut, serverVars
<1>3. SeatsGoOn /\ QueueDomains
  BY <1>1, <1>2, HolderStays DEF QueueDomains
<1>4. CalmWire(s) /\ PlaysIn(up'[s]) \subseteq PlaysIn(up[s])
  BY <1>1, <1>2, QueuesLess, FarWire
<1>5. ASSUME NEW x \in Sock \ {s} PROVE CalmWire(x) /\ PlaysIn(up'[x]) \subseteq PlaysIn(up[x])
  BY <1>1, <1>2, StillWire
<1> QED BY <1>2, <1>3, <1>4, <1>5, FarCalm

-----------------------------------------------------------------------------
(* The steps that move a number, or a word about a seat. *)

(* Numbers that were nowhere else are sent on one socket.                    *)
LEMMA NumbersSent ==
  ASSUME SInv, applied' = applied, acts' \in {acts, acts + 1}, NEW x,
         NEW N \in SUBSET ((1..acts') \ Taken),
         \A y \in Sock : N \cap Sent(y) = {},
         \A u \in Tab : N \cap KeptBy(u)' = {} /\ KeptBy(u)' \subseteq KeptBy(u),
         \A y \in Sock : Sent(y)' \subseteq IF y = x THEN Sent(y) \cup N ELSE Sent(y)
  PROVE  Numbered'
<1>1. Taken' = Taken /\ (AppliedOnce => AppliedOnce')
  BY DEF Taken, AppliedOnce
<1>2. Numbered
  BY DEF SInv
<1>3. acts' \in Nat /\ 1..acts \subseteq 1..acts'
  BY <1>2 DEF Numbered
<1> HIDE DEF Sent, KeptBy, Taken, AppliedOnce
<1>4. /\ \A s \in Sock : Sent(s)' \subseteq (1..acts') \ Taken
      /\ \A t \in Tab : KeptBy(t)' \subseteq (1..acts') \ Taken
  BY <1>2, <1>3 DEF Numbered
<1>5. \A s, y \in Sock : s # y => (Sent(s) \cap Sent(y))' = {}
  BY <1>2 DEF Numbered
<1>6. \A s, y \in Tab : s # y => (KeptBy(s) \cap KeptBy(y))' = {}
  BY <1>2 DEF Numbered
<1>7. \A s \in Sock, t \in Tab : (Sent(s) \cap KeptBy(t))' = {}
  BY <1>2 DEF Numbered
<1>8. Taken \subseteq 1..acts'
  BY <1>2, <1>3 DEF Numbered
<1> QED BY <1>1, <1>2, <1>3, <1>4, <1>5, <1>6, <1>7, <1>8 DEF Numbered

(* A new number is kept by one tab.                                          *)
LEMMA NumberKept ==
  ASSUME SInv, applied' = applied, acts' = acts + 1, NEW t \in Tab,
         \A y \in Sock : Sent(y)' = Sent(y),
         \A u \in Tab : KeptBy(u)' = IF u = t THEN KeptBy(u) \cup {acts + 1} ELSE KeptBy(u)
  PROVE  Numbered'
<1>1. Taken' = Taken /\ (AppliedOnce => AppliedOnce')
  BY DEF Taken, AppliedOnce
<1>2. Numbered
  BY DEF SInv
<1>3. acts' \in Nat /\ 1..acts \subseteq 1..acts' /\ acts + 1 \in 1..acts' /\ acts + 1 \notin 1..acts
  BY <1>2 DEF Numbered
<1> HIDE DEF Sent, KeptBy, Taken, AppliedOnce
<1>4. acts + 1 \notin Taken /\ Taken \subseteq 1..acts'
  BY <1>2, <1>3 DEF Numbered
<1>5. /\ \A y \in Sock : acts + 1 \notin Sent(y)
      /\ \A u \in Tab : acts + 1 \notin KeptBy(u)
  BY <1>2, <1>3 DEF Numbered
<1>6. /\ \A s \in Sock : Sent(s)' \subseteq (1..acts') \ Taken
      /\ \A u \in Tab : KeptBy(u)' \subseteq (1..acts') \ Taken
  BY <1>2, <1>3, <1>4 DEF Numbered
<1>7. \A s, y \in Sock : s # y => (Sent(s) \cap Sent(y))' = {}
  BY <1>2 DEF Numbered
<1>8. \A s, y \in Tab : s # y => (KeptBy(s) \cap KeptBy(y))' = {}
  BY <1>2, <1>5 DEF Numbered
<1>9. \A s \in Sock, u \in Tab : (Sent(s) \cap KeptBy(u))' = {}
  BY <1>2, <1>5 DEF Numbered
<1> QED BY <1>1, <1>2, <1>3, <1>4, <1>6, <1>7, <1>8, <1>9 DEF Numbered

(* A socket's first number is taken by the room.                             *)
LEMMA NumberTaken ==
  ASSUME SInv, acts' = acts, NEW s \in Sock, NEW n \in Sent(s),
         applied' = Append(applied, n), n \notin Sent(s)',
         \A y \in Sock : Sent(y)' \subseteq Sent(y), \A u \in Tab : KeptBy(u)' = KeptBy(u)
  PROVE  Numbered'
<1>1. Numbered
  BY DEF SInv
<1>2. n \in 1..acts /\ n \notin Taken /\ n \in Nat
  BY <1>1 DEF Numbered
<1>3. /\ applied' \in Seq(Nat) /\ Len(applied) \in Nat
      /\ DOMAIN applied = 1..Len(applied) /\ DOMAIN applied' = 1..Len(applied) + 1
      /\ applied'[Len(applied) + 1] = n
      /\ \A i \in 1..Len(applied) : applied'[i] = applied[i]
  BY <1>1, <1>2 DEF Numbered
<1>4. \A i \in DOMAIN applied' : i = Len(applied) + 1 \/ i \in DOMAIN applied
  BY <1>3
<1>5. Taken' = Taken \cup {n}
  BY <1>2, <1>3, <1>4 DEF Taken
<1>6. \A i \in DOMAIN applied : applied[i] \in Nat /\ applied[i] # n /\ applied'[i] = applied[i]
  BY <1>1, <1>2, <1>3 DEF Taken, Numbered
<1>7. AppliedOnce'
  BY <1>1, <1>3, <1>4, <1>6 DEF AppliedOnce, Numbered
<1> HIDE DEF Sent, KeptBy, Taken, AppliedOnce
<1>8. /\ \A y \in Sock : y # s => n \notin Sent(y)
      /\ \A u \in Tab : n \notin KeptBy(u)
  BY <1>1 DEF Numbered
<1>9. /\ \A y \in Sock : Sent(y)' \subseteq (1..acts') \ Taken'
      /\ \A u \in Tab : KeptBy(u)' \subseteq (1..acts') \ Taken'
  BY <1>1, <1>5, <1>8 DEF Numbered
<1>10. /\ \A x, y \in Sock : x # y => (Sent(x) \cap Sent(y))' = {}
       /\ \A x, y \in Tab : x # y => (KeptBy(x) \cap KeptBy(y))' = {}
       /\ \A x \in Sock, u \in Tab : (Sent(x) \cap KeptBy(u))' = {}
  BY <1>1 DEF Numbered
<1>11. Taken' \subseteq 1..acts'
  BY <1>1, <1>2, <1>5 DEF Numbered
<1> QED BY <1>1, <1>3, <1>7, <1>9, <1>10, <1>11 DEF Numbered

-----------------------------------------------------------------------------
(* A new socket carries nothing yet, and the tab it is for has no other.     *)
LEMMA ConnectSeats ==
  ASSUME SInv, TInv', NEW t \in Tab, NEW T, Connect(t, T), DOMAIN T = Field,
         T.pending \in {tabs[t].pending, <<>>},
         \/ T.reconnectToken = tabs[t].reconnectToken /\ T.viewer = tabs[t].viewer
         \/ T.reconnectToken = stored /\ T.viewer = None,
         \A s \in Sock : owner[s] = t => ~Live(s),
         UNCHANGED <<serverVars, stored, acts>>
  PROVE  SInv' /\ SeatAfterSeat
<1>1. PICK s \in Sock :
        /\ FreeSock(s)
        /\ tabs' = [tabs EXCEPT ![t] = [T EXCEPT !.open = FALSE, !.sock = s,
                                                 !.timer = "connect"]]
        /\ client' = [client EXCEPT ![s] = "connecting"]
        /\ owner' = [owner EXCEPT ![s] = t]
        /\ UNCHANGED <<server, up, down>>
  BY DEF Connect
<1> DEFINE N == [T EXCEPT !.open = FALSE, !.sock = s, !.timer = "connect"]
<1>2. /\ N.reconnectToken = T.reconnectToken /\ N.viewer = T.viewer
      /\ N.pending = T.pending
  BY DEF Field
<1> HIDE DEF N
<1>3. /\ tabs'[t] = N /\ \A u \in Tab \ {t} : tabs'[u] = tabs[u]
      /\ client'[s] = "connecting" /\ \A x \in Sock \ {s} : client'[x] = client[x]
      /\ owner'[s] = t /\ \A x \in Sock \ {s} : owner'[x] = owner[x] /\ owner[x] \in Tab
  BY <1>1 DEF N, SInv, TInv, Typed
<1>4. SeatsGoOn /\ UNCHANGED <<acts, applied>>
  BY HolderStays DEF serverVars
<1>5. \A u \in Tab : CalmTab(u) /\ tabs'[u].pending \in {tabs[u].pending, <<>>}
  BY <1>2, <1>3 DEF CalmTab
<1>6. ASSUME NEW x \in Sock PROVE Wire(x)'
  <2>1. CASE x = s
    <3>1. up'[s] = <<>> /\ down'[s] = <<>> /\ server'[s] # "open"
      BY <1>1 DEF SInv, Seated, Wire, FreeSock, Alive
    <3> QED BY <1>3, <2>1, <3>1, EmptyQueue DEF Wire, Asks
  <2>2. CASE x # s
    <3>1. CalmWire(x)
      BY <1>1, <1>3, <2>2, StillWire
    <3>2. SameToken(x)
      BY <1>3, <2>2 DEF SameToken, TokenOf, Live, Alive
    <3> QED BY <1>4, <3>1, <3>2, CalmWireKept
  <2> QED BY <2>1, <2>2
<1>7. Seated' /\ SeatAfterSeat
  BY <1>4, <1>5, <1>6, SeatsMeet
<1>8. \A u \in Tab : /\ KeptQueue(tabs'[u].pending)
                     /\ PlaysIn(tabs'[u].pending) \subseteq PlaysIn(tabs[u].pending)
  BY <1>5, EmptyQueue DEF SInv, Queues
<1>9. Numbered'
  BY <1>1, <1>4, <1>8, NumbersKept DEF NumbersFall
<1>10. Queues'
  BY <1>1, <1>8 DEF SInv, Queues
<1> QED BY <1>7, <1>9, <1>10 DEF SInv

LEMMA StartSeats ==
  ASSUME SInv, TInv', NEW t \in Tab, Start(t)
  PROVE  SInv' /\ SeatAfterSeat
<1>1. \A s \in Sock : owner[s] = t => ~Live(s)
  BY DEF Start, SInv, TInv, Owned
<1>2. LET T == NewTransport(stored) IN
      DOMAIN T = Field /\ T.reconnectToken = stored /\ T.viewer = None /\ T.pending = <<>>
  BY DEF NewTransport, Field
<1> QED BY <1>1, <1>2, ConnectSeats DEF Start

LEMMA RetrySeats ==
  ASSUME SInv, TInv', NEW t \in Tab, tabs[t].awaitingReconnect = TRUE,
         Connect(t, [tabs[t] EXCEPT !.backoffs = tabs[t].backoffs - 1,
                                    !.awaitingReconnect = FALSE]),
         UNCHANGED <<serverVars, stored, acts>>
  PROVE  SInv' /\ SeatAfterSeat
<1> DEFINE N == [tabs[t] EXCEPT !.backoffs = tabs[t].backoffs - 1,
                                !.awaitingReconnect = FALSE]
<1>1. DOMAIN tabs[t] = Field
  BY DEF SInv, TInv, Typed
<1>2. /\ DOMAIN N = Field /\ N.reconnectToken = tabs[t].reconnectToken
      /\ N.viewer = tabs[t].viewer /\ N.pending = tabs[t].pending
  BY <1>1 DEF Field
<1>3. \A s \in Sock : owner[s] = t => ~Live(s)
  BY DEF SInv, TInv, Owned
<1>4. Connect(t, N)
  OBVIOUS
<1> HIDE DEF N
<1> QED BY <1>2, <1>3, <1>4, ConnectSeats

LEMMA BackoffSeats ==
  ASSUME SInv, TInv', NEW t \in Tab, BackoffFires(t)
  PROVE  SInv' /\ SeatAfterSeat
<1>1. tabs[t].awaitingReconnect = TRUE
  BY DEF BackoffFires, SInv, TInv, Typed, Owned, RetryDue
<1> QED BY <1>1, RetrySeats DEF BackoffFires

LEMMA ReconnectNowSeats ==
  ASSUME SInv, TInv', NEW t \in Tab, reconnectNow(t)
  PROVE  SInv' /\ SeatAfterSeat
<1>1. tabs[t].awaitingReconnect = TRUE
  BY DEF reconnectNow, SInv, TInv, Typed
<1> QED BY <1>1, RetrySeats DEF reconnectNow, BackoffCancelled

LEMMA ActSeats ==
  ASSUME SInv, TInv', NEW t \in Tab, Act(t)
  PROVE  SInv' /\ SeatAfterSeat
<1> DEFINE T == tabs[t]
           n == acts + 1
           N == [tabs[t] EXCEPT !.pending = Kept(tabs[t], Play(acts'))]
<1>1. /\ acts' = n /\ tabs' = [tabs EXCEPT ![t] = N]
      /\ up' = IF T.open THEN Up(T.sock, <<Play(n)>>) ELSE up
      /\ UNCHANGED <<serverVars, client, server, down, owner, stored>>
  BY DEF Act
<1>2. DOMAIN T = Field /\ DOMAIN up = Sock /\ DOMAIN down = Sock /\ DOMAIN server = Sock
  BY DEF SInv, TInv, Typed, Queues
<1>3. /\ N.reconnectToken = T.reconnectToken /\ N.viewer = T.viewer
      /\ N.pending = IF T.open THEN T.pending ELSE Append(T.pending, Play(n))
  BY <1>1, <1>2 DEF Kept, Field
<1> HIDE DEF N
<1>4. tabs'[t] = N /\ \A u \in Tab \ {t} : tabs'[u] = tabs[u]
  BY <1>1 DEF SInv, TInv, Typed
<1>5. /\ n \in Nat /\ n \in 1..n /\ n \notin 1..acts /\ applied' = applied
      /\ n \notin Taken /\ (\A y \in Sock : n \notin Sent(y)) /\ \A u \in Tab : n \notin KeptBy(u)
  BY <1>1 DEF SInv, Numbered, serverVars
<1>6. SeatsGoOn
  BY <1>1, HolderStays DEF serverVars
<1>7. \A u \in Tab : CalmTab(u)
  BY <1>3, <1>4 DEF CalmTab
<1>8. \A x \in Sock : SameToken(x)
  BY <1>1, <1>3, <1>4, TokensFit DEF SameToken, TokenOf
<1>9. CASE T.open
  <2> DEFINE s == T.sock
             q == up[s] \o <<Play(n)>>
  <2>1. DOMAIN up' = Sock /\ \A x \in Sock : up'[x] = up[x]
          \/ (x = s /\ server[s] = "open" /\ up'[x] = q)
    BY <1>1, <1>2, <1>9 DEF Up
  <2>2. ASSUME s \in Sock
        PROVE  UpQueue(q) /\ TokensIn(q) = TokensIn(up[s]) /\ PlaysIn(q) = PlaysIn(up[s]) \cup {n}
    <3>1. UpQueue(up[s]) /\ up[s] \in Seq(UpMessage) /\ n \notin PlaysIn(up[s])
      BY <1>5, <2>2 DEF SInv, Queues, UpQueue, Sent
    <3>2. Play(n) \in UpMessage /\ Play(n).type = "play" /\ Play(n).n = n
      BY <1>5, MessageTypes
    <3>3. q = Append(up[s], Play(n))
      BY <3>1, <3>2, Concats
    <3> QED BY <3>1, <3>2, <3>3, UpAppend
  <2> HIDE DEF q
  <2>3. ASSUME NEW x \in Sock PROVE CalmWire(x)
    <3>1. CASE up'[x] = up[x]
      BY <1>1, <3>1, StillWire
    <3>2. CASE x = s /\ server[s] = "open" /\ up'[x] = q
      BY <1>1, <2>2, <3>2, QueuesLess DEF CalmWire, UpLess, SInv, Seated, Wire
    <3> QED BY <2>1, <3>1, <3>2
  <2>4. CalmSeats
    BY <1>1, <1>2, <1>6, <1>7, <1>8, <2>1, <2>3 DEF CalmSeats, QueueDomains
  <2>5. /\ \A u \in Tab : tabs'[u].pending = tabs[u].pending
        /\ \A u \in Tab : KeptBy(u)' = KeptBy(u)
    BY <1>3, <1>4, <1>9 DEF KeptBy
  <2>6. \A y \in Sock : Sent(y)' \subseteq IF y = s THEN Sent(y) \cup {n} ELSE Sent(y)
    BY <2>1, <2>2 DEF Sent
  <2>7. Numbered'
    <3>1. {n} \in SUBSET ((1..acts') \ Taken) /\ acts' \in {acts, acts + 1}
      BY <1>1, <1>5
    <3>2. \A y \in Sock : {n} \cap Sent(y) = {}
      BY <1>5
    <3>3. \A u \in Tab : {n} \cap KeptBy(u)' = {} /\ KeptBy(u)' \subseteq KeptBy(u)
      BY <1>5, <2>5
    <3> QED BY <1>5, <2>6, <3>1, <3>2, <3>3, NumbersSent
  <2> QED BY <2>4, <2>5, <2>7, CalmSeatsKeep DEF SInv, Queues, CalmSeats, QueueDomains
<1>10. CASE ~T.open
  <2>1. up' = up
    BY <1>1, <1>10
  <2>2. \A x \in Sock : CalmWire(x)
    BY <1>1, <2>1, StillWire
  <2>3. CalmSeats
    BY <1>1, <1>2, <1>6, <1>7, <1>8, <2>1, <2>2 DEF CalmSeats, QueueDomains
  <2>4. KeptQueue(T.pending) /\ n \notin PlaysIn(T.pending)
    BY <1>5 DEF SInv, Queues, KeptBy
  <2>5. KeptQueue(N.pending) /\ PlaysIn(N.pending) = PlaysIn(T.pending) \cup {n}
    BY <1>3, <1>5, <1>10, <2>4, KeepOne
  <2>6. \A u \in Tab : /\ KeptQueue(tabs'[u].pending)
                       /\ KeptBy(u)' = IF u = t THEN KeptBy(u) \cup {n} ELSE KeptBy(u)
    BY <1>4, <2>5 DEF SInv, Queues, KeptBy
  <2>7. Numbered'
    BY <1>1, <1>5, <2>1, <2>6, NumberKept DEF Sent
  <2> QED BY <2>3, <2>6, <2>7, CalmSeatsKeep DEF SInv, Queues, CalmSeats, QueueDomains
<1> QED BY <1>9, <1>10

(* What was kept goes out behind the join, on the socket that has opened.    *)
LEMMA OpenSeats ==
  ASSUME SInv, TInv', NEW s \in Sock, handleOpen(s)
  PROVE  SInv' /\ SeatAfterSeat
<1> DEFINE t == owner[s]
           T == tabs[t]
           q == <<JoinAs(T.reconnectToken)>> \o T.pending
           N == [T EXCEPT !.open = TRUE, !.awaitingReconnect = FALSE,
                          !.timer = "watchdog", !.pending = <<>>]
<1>1. /\ client[s] = "connecting" /\ client' = [client EXCEPT ![s] = "open"]
      /\ server' = [server EXCEPT ![s] = "open"] /\ tabs' = [tabs EXCEPT ![t] = N]
      /\ up' = [up EXCEPT ![s] = q] /\ UNCHANGED <<serverVars, down, owner, stored, acts>>
  BY DEF handleOpen
<1>2. /\ t \in Tab /\ DOMAIN T = Field /\ DOMAIN tabs = Tab /\ DOMAIN client = Sock
      /\ DOMAIN up = Sock /\ DOMAIN down = Sock /\ DOMAIN server = Sock
  BY DEF SInv, TInv, Typed, Queues
<1>3. KeptQueue(T.pending) /\ T.reconnectToken \in 0..MaxSeat
  BY <1>2, TokensFit DEF SInv, Queues
<1>4. UpQueue(q) /\ TokensIn(q) = {T.reconnectToken} /\ PlaysIn(q) = PlaysIn(T.pending)
  BY <1>3, UpFlush
<1>5. N.reconnectToken = T.reconnectToken /\ N.viewer = T.viewer /\ N.pending = <<>>
  BY <1>2 DEF Field
<1> HIDE DEF N, q
<1>6. tabs'[t] = N /\ \A u \in Tab \ {t} : tabs'[u] = tabs[u]
  BY <1>1, <1>2
<1>7. /\ client'[s] = "open" /\ server'[s] = "open" /\ up'[s] = q /\ down' = down
      /\ \A x \in Sock \ {s} : /\ client'[x] = client[x] /\ server'[x] = server[x]
                               /\ up'[x] = up[x]
  BY <1>1, <1>2
<1>8. SeatsGoOn /\ applied' = applied /\ holder' = holder
  BY <1>1, HolderStays DEF serverVars
<1>9. \A x \in Sock : TokenOf(x)' = TokenOf(x)
  BY <1>1, <1>5, <1>6, TokensFit DEF TokenOf
<1>10. ASSUME NEW x \in Sock PROVE Wire(x)'
  <2>1. CASE x = s
    <3>1. SeatsTold(down[s]) = {}
      BY <1>1 DEF SInv, Seated, Wire
    <3> QED BY <1>4, <1>7, <1>9, <2>1, <3>1 DEF Wire, Asks, TokenOf, Alive
  <2>2. CASE x # s
    BY <1>7, <1>8, <1>9, <2>2, StillWire, CalmWireKept DEF SameToken
  <2> QED BY <2>1, <2>2
<1>11. \A u \in Tab : CalmTab(u)
  BY <1>5, <1>6 DEF CalmTab
<1>12. Seated' /\ SeatAfterSeat
  BY <1>1, <1>8, <1>10, <1>11, SeatsMeet
<1>13. Queues'
  BY <1>1, <1>2, <1>4, <1>5, <1>6, <1>7, EmptyQueue DEF SInv, Queues
<1>14. Numbered'
  <2>1. Numbered /\ acts' = acts
    BY <1>1 DEF SInv
  <2>0. PICK v \in Tab : v = t
    BY <1>2
  <2>2. KeptBy(v)' = {} /\ Sent(s)' = KeptBy(v)
    BY <1>4, <1>5, <1>6, <1>7, <2>0, EmptyQueue DEF KeptBy, Sent
  <2>3. /\ \A u \in Tab \ {v} : KeptBy(u)' = KeptBy(u)
        /\ \A y \in Sock \ {s} : Sent(y)' = Sent(y)
    BY <1>6, <1>7, <2>0 DEF KeptBy, Sent
  <2>4. /\ KeptBy(v) \in SUBSET ((1..acts') \ Taken)
        /\ \A y \in Sock : KeptBy(v) \cap Sent(y) = {}
        /\ \A u \in Tab \ {v} : KeptBy(v) \cap KeptBy(u) = {}
    BY <2>1 DEF Numbered
  <2>5. \A u \in Tab : KeptBy(v) \cap KeptBy(u)' = {} /\ KeptBy(u)' \subseteq KeptBy(u)
    BY <2>2, <2>3, <2>4
  <2>6. \A y \in Sock : Sent(y)' \subseteq IF y = s THEN Sent(y) \cup KeptBy(v) ELSE Sent(y)
    BY <2>2, <2>3
  <2> QED BY <1>8, <2>1, <2>4, <2>5, <2>6, NumbersSent
<1> QED BY <1>12, <1>13, <1>14 DEF SInv

(* The tab takes the seat it is told of: its own, or another once that is    *)
(* gone.                                                                     *)
LEMMA JoinedSeats ==
  ASSUME SInv, TInv', NEW s \in Sock, receive(s), Head(down[s]).type = "joined"
  PROVE  SInv' /\ SeatAfterSeat
<1> DEFINE t == owner[s]
           T == tabs[t]
           seat == Head(down[s]).seat
           N == [T EXCEPT !.viewer = seat, !.reconnectToken = TokenRefreshed(T, seat)]
<1>1. /\ client[s] = "open" /\ down[s] # <<>> /\ stored' = seat
      /\ tabs' = [tabs EXCEPT ![t] = N] /\ down' = [down EXCEPT ![s] = Tail(down[s])]
      /\ UNCHANGED <<serverVars, client, server, up, owner, acts>>
  BY DEF receive
<1>2. /\ t \in Tab /\ DOMAIN T = Field /\ DOMAIN tabs = Tab
      /\ DOMAIN up = Sock /\ DOMAIN down = Sock /\ DOMAIN server = Sock
      /\ \A x \in Sock : owner[x] \in Tab
  BY DEF SInv, TInv, Typed, Queues
<1>3. tabs[t].sock = s /\ \A x \in Sock \ {s} : owner[x] = t => ~Live(x)
  BY <1>1, <1>2 DEF SInv, TInv, Owned, Live
<1>4. N.reconnectToken = seat /\ N.viewer = seat /\ N.pending = T.pending
  BY <1>2 DEF Field, TokenRefreshed
<1> HIDE DEF N
<1>5. tabs'[t] = N /\ \A u \in Tab \ {t} : tabs'[u] = tabs[u]
  BY <1>1, <1>2
<1>6. DownQueue(down[s]) /\ Wire(s)
  BY DEF SInv, Queues, Seated
<1>0. PICK k : k = seat
  OBVIOUS
<1>7. DownQueue(Tail(down[s])) /\ k \in SeatsTold(down[s]) /\ SeatsTold(Tail(down[s])) = {}
  BY <1>0, <1>1, <1>6, DownTail
<1>8. k \in Seat /\ holder[k] # Unborn /\ TokensIn(up[s]) = {} /\ Asks(s)
  BY <1>1, <1>6, <1>7 DEF Wire, SeatsTold, Alive
<1>9. SeatsGoOn /\ applied' = applied /\ holder' = holder
  BY <1>1, HolderStays DEF serverVars
<1>10. Known(k) /\ Known(k)'
  BY <1>8, <1>9, TransportAssumption DEF Known, Seat
<1>11. down'[s] = Tail(down[s]) /\ \A x \in Sock \ {s} : down'[x] = down[x]
  BY <1>1, <1>2
<1>12. ASSUME NEW x \in Sock PROVE Wire(x)'
  <2>1. CASE x = s
    BY <1>1, <1>6, <1>7, <1>8, <1>11, <2>1 DEF Wire, Asks, Alive
  <2>2. CASE x # s
    <3>1. CalmWire(x)
      BY <1>1, <1>11, <2>2, StillWire
    <3>2. SameToken(x)
      BY <1>1, <1>2, <1>3, <1>5, <2>2 DEF SameToken, TokenOf, Live, Alive
    <3> QED BY <1>9, <3>1, <3>2, CalmWireKept
  <2> QED BY <2>1, <2>2
<1>13. \A u \in Tab : /\ Known(tabs[u].reconnectToken)'
                      /\ tabs'[u].viewer \in {None, tabs'[u].reconnectToken}
  BY <1>0, <1>4, <1>5, <1>9, <1>10 DEF SInv, Seated, Known
<1>14. Seated'
  BY <1>0, <1>1, <1>9, <1>10, <1>12, <1>13 DEF Seated, SeatsGoOn
<1>15. SeatAfterSeat
  <2>1. T.viewer \in {None, T.reconnectToken}
    BY <1>2 DEF SInv, Seated
  <2>2. k = T.reconnectToken \/ T.reconnectToken = None \/ holder[T.reconnectToken] = Gone
    BY <1>7, <1>8 DEF Asks, TokenOf
  <2>3. T.viewer # None /\ k # T.viewer => holder[T.viewer] = Gone
    BY <2>1, <2>2
  <2> QED BY <1>0, <1>4, <1>5, <2>3 DEF SeatAfterSeat
<1>16. \A u \in Tab : tabs'[u].pending = tabs[u].pending
  BY <1>4, <1>5
<1>17. Numbered'
  BY <1>1, <1>9, <1>16, NumbersKept DEF NumbersFall, SInv, Queues
<1>18. Queues'
  BY <1>1, <1>2, <1>7, <1>11, <1>16 DEF SInv, Queues
<1> QED BY <1>14, <1>15, <1>17, <1>18 DEF SInv

-----------------------------------------------------------------------------
(* The server's answers to a join. *)

(* The socket that joined is told of its seat: the one it asked for, unless  *)
(* that is gone or it asked for none.                                        *)
LEMMA ToldWire ==
  ASSUME SInv, SeatsGoOn, NEW s \in Sock, NEW k \in Seat, UNCHANGED <<client, owner, tabs>>,
         server[s] = "open", up[s] # <<>>, Head(up[s]).type = "join",
         up'[s] = <<>> \/ (up'[s] = Tail(up[s]) /\ server'[s] = server[s]),
         down'[s] = Down(s, <<Joined(k)>>)[s], holder'[k] # Unborn,
         LET token == Head(up[s]).token
         IN  k = token \/ token = None \/ holder[token] \in {Gone, Unborn}
  PROVE  /\ Wire(s)' /\ UpQueue(up'[s]) /\ DownQueue(down'[s])
         /\ PlaysIn(up'[s]) \subseteq PlaysIn(up[s])
<1> DEFINE token == Head(up[s]).token
<1>1. /\ Wire(s) /\ UpQueue(up[s]) /\ DownQueue(down[s]) /\ down[s] \in Seq(DownMessage)
  BY DEF SInv, Seated, Queues, DownQueue
<1>2. token \in TokensIn(up[s]) /\ UpQueue(Tail(up[s])) /\ TokensIn(Tail(up[s])) = {}
      /\ PlaysIn(Tail(up[s])) \subseteq PlaysIn(up[s])
  BY <1>1, UpTail
<1>3. SeatsTold(down[s]) = {} /\ client[s] # "connecting"
  BY <1>1, <1>2 DEF Wire
<1>4. Joined(k) \in DownMessage /\ Joined(k).type = "joined" /\ Joined(k).seat = k
  BY MessageTypes
<1>5. DownQueue(down'[s]) /\ SeatsTold(down'[s]) \subseteq {k}
  <2>1. down[s] \o <<Joined(k)>> = Append(down[s], Joined(k))
    BY <1>1, <1>4, Concats
  <2>2. /\ DownQueue(Append(down[s], Joined(k)))
        /\ SeatsTold(Append(down[s], Joined(k))) = {k}
    BY <1>1, <1>3, <1>4, DownAppend
  <2>3. down'[s] \in {down[s], down[s] \o <<Joined(k)>>}
    BY DownShape
  <2> QED BY <1>1, <1>3, <2>1, <2>2, <2>3
<1>6. UpQueue(up'[s]) /\ TokensIn(up'[s]) = {} /\ PlaysIn(up'[s]) \subseteq PlaysIn(up[s])
  BY <1>2, EmptyQueue
<1>7. ~Alive(client'[s]) => down'[s] = <<>>
  BY DownShape
<1>8. ASSUME Alive(client'[s]) PROVE Asks(s)'
  <2>1. token = TokenOf(s) /\ TokenOf(s)' = TokenOf(s)
    BY <1>1, <1>2, <1>8 DEF Wire, Asks, TokenOf
  <2>2. TokenOf(s) = None \/ (TokenOf(s) \in Seat /\ holder[TokenOf(s)] # Unborn)
    BY TokensFit DEF Known
  <2>3. k = TokenOf(s) \/ TokenOf(s) = None \/ holder[TokenOf(s)] = Gone
    BY <2>1, <2>2
  <2>4. k = TokenOf(s) \/ TokenOf(s) = None \/ holder'[TokenOf(s)] = Gone
    BY <2>2, <2>3 DEF SeatsGoOn
  <2>5. TokensIn(up'[s]) \subseteq {TokenOf(s)'}
    BY <1>6
  <2> QED BY <1>5, <2>1, <2>4, <2>5 DEF Asks
<1>9. server'[s] # "open" => up'[s] = <<>>
  OBVIOUS
<1>10. \A x \in SeatsTold(down'[s]) : holder'[x] # Unborn
  BY <1>5
<1>11. Wire(s)'
  BY <1>3, <1>6, <1>7, <1>8, <1>9, <1>10 DEF Wire
<1> QED BY <1>5, <1>6, <1>11

(* One socket is told of its seat and the others are calm.                   *)
LEMMA ToldKeeps ==
  ASSUME SInv, TInv', SeatsGoOn, QueueDomains, NEW s \in Sock,
         UNCHANGED <<client, owner, tabs, stored, acts, applied>>,
         /\ Wire(s)' /\ UpQueue(up'[s]) /\ DownQueue(down'[s])
         /\ PlaysIn(up'[s]) \subseteq PlaysIn(up[s]),
         \A x \in Sock \ {s} : CalmWire(x) /\ PlaysIn(up'[x]) \subseteq PlaysIn(up[x])
  PROVE  SInv' /\ SeatAfterSeat
<1>1. ASSUME NEW x \in Sock PROVE Wire(x)' /\ UpQueue(up'[x]) /\ DownQueue(down'[x])
  <2>1. CASE x # s
    <3>1. SameToken(x)
      BY DEF SameToken, TokenOf
    <3>2. CalmWire(x)
      BY <2>1
    <3> QED BY <3>1, <3>2, CalmWireKept DEF CalmWire, UpLess, DownLess
  <2> QED BY <2>1
<1>2. \A u \in Tab : CalmTab(u) /\ KeptQueue(tabs'[u].pending)
  BY DEF CalmTab, SInv, Queues
<1>3. Seated' /\ SeatAfterSeat
  BY <1>1, <1>2, SeatsMeet
<1>4. NumbersFall
  BY <1>2 DEF NumbersFall
<1>5. Queues'
  BY <1>1, <1>2 DEF Queues, QueueDomains
<1> QED BY <1>3, <1>4, <1>5, NumbersKept DEF SInv

LEMMA ResumeSeats ==
  ASSUME SInv, TInv', NEW s \in Sock, NEW k \in Seat,
         UNCHANGED <<room, client, owner, tabs, stored, acts>>,
         server[s] = "open", up[s] # <<>>, Head(up[s]).type = "join",
         Head(up[s]).token = k, holder[k] \notin {Gone, Unborn}, Resume(s, k)
  PROVE  SInv' /\ SeatAfterSeat
<1> DEFINE old == {holder[k]} \cap Sock
<1>1. /\ holder' = [holder EXCEPT ![k] = s] /\ applied' = applied
      /\ server' = [x \in Sock |-> IF x \in old THEN "closed" ELSE server[x]]
      /\ up' = [x \in Sock |-> IF x \in old THEN <<>>
                               ELSE IF x = s THEN Tail(up[s]) ELSE up[x]]
      /\ down' = [x \in Sock |->
           IF x = s THEN Down(x, <<Joined(k)>>)[x]
           ELSE IF x \in old THEN Down(x, <<Msg("SUPERSEDED"), Fin>>)[x] ELSE down[x]]
  BY DEF Resume, ServerCloses
<1> HIDE DEF old
<1>2. QueueDomains
  BY <1>1 DEF QueueDomains
<1>3. SeatsGoOn /\ holder'[k] # Unborn
  <2>1. holder \in [Seat -> 0..Gone] /\ s \in 0..Gone /\ s # Unborn
    BY SocksHold DEF SInv, Seated
  <2> QED BY <1>1, <2>1 DEF SeatsGoOn
<1>4. /\ Wire(s)' /\ UpQueue(up'[s]) /\ DownQueue(down'[s])
      /\ PlaysIn(up'[s]) \subseteq PlaysIn(up[s])
  <2>1. /\ up'[s] = <<>> \/ (up'[s] = Tail(up[s]) /\ server'[s] = server[s])
        /\ down'[s] = Down(s, <<Joined(k)>>)[s]
    BY <1>1
  <2> QED BY <1>3, <2>1, ToldWire
<1>5. ASSUME NEW x \in Sock \ {s}
      PROVE  CalmWire(x) /\ PlaysIn(up'[x]) \subseteq PlaysIn(up[x])
  <2>1. CASE x \in old
    <3>1. /\ up'[x] = <<>> /\ server'[x] = "closed"
          /\ down'[x] = Down(x, <<Msg("SUPERSEDED"), Fin>>)[x]
      BY <1>1, <2>1
    <3> QED BY <3>1, DownShape, SupersededLess, FarWire
  <2>2. CASE x \notin old
    BY <1>1, <2>2, StillWire
  <2> QED BY <2>1, <2>2
<1> QED BY <1>1, <1>2, <1>3, <1>4, <1>5, ToldKeeps

(* The least of the seats not given out yet is one of them.                  *)
LEMMA LessIsWellFounded ==
  LET R == {ss \in Nat \X Nat : ss[1] < ss[2]} IN IsWellFoundedOn(R, Nat)
<1>1. {ss \in Nat \X Nat : ss[1] < ss[2]} = OpToRel(<, Nat)
  BY DEF OpToRel
<1> QED BY <1>1, NatLessThanWellFounded

LEMMA HasLeast ==
  ASSUME NEW S \in SUBSET Nat, S # {}
  PROVE  Min(S) \in S
<1> DEFINE R == {ss \in Nat \X Nat : ss[1] < ss[2]}
<1>1. \A x, y \in Nat : <<y, x>> \in R <=> y < x
  OBVIOUS
<1>2. IsWellFoundedOn(R, Nat)
  BY LessIsWellFounded
<1> HIDE DEF R
<1>3. S \subseteq Nat
  OBVIOUS
<1>4. PICK x \in S : \A y \in S : ~(<<y, x>> \in R)
  BY <1>2, <1>3, WFMin, Zenon
<1>5. \A y \in S : ~(y < x)
  BY <1>1, <1>3, <1>4
<1>6. \A y \in S : x <= y
  BY <1>3, <1>5
<1> QED BY <1>6 DEF Min

LEMMA SitDownSeats ==
  ASSUME SInv, TInv', NEW s \in Sock, UNCHANGED <<room, client, owner, tabs, stored, acts>>,
         server[s] = "open", up[s] # <<>>, Head(up[s]).type = "join",
         Head(up[s]).token = None \/ holder[Head(up[s]).token] \in {Gone, Unborn}, SitDown(s)
  PROVE  SInv' /\ SeatAfterSeat
<1> DEFINE free == {x \in Seat : holder[x] = Unborn}
<1>1. DOMAIN up = Sock /\ DOMAIN down = Sock /\ DOMAIN server = Sock
  BY DEF SInv, Queues
<1>2. UNCHANGED <<applied, server>> /\ Read(s)
  BY DEF SitDown
<1>3. CASE free # {}
  <2>1. free \in SUBSET Nat
    BY TransportAssumption DEF Seat
  <2>2. Min(free) \in free
    BY <1>3, <2>1, HasLeast
  <2>3. PICK k \in Seat : k = Min(free) /\ holder[k] = Unborn
    BY <2>2
  <2>4. holder' = [holder EXCEPT ![k] = s] /\ down' = Down(s, <<Joined(k)>>)
    BY <1>3, <2>3 DEF SitDown, Tell
  <2>5. SeatsGoOn /\ holder'[k] # Unborn
    <3>1. holder \in [Seat -> 0..Gone] /\ s \in 0..Gone /\ s # Unborn /\ Gone # Unborn
      BY SocksHold, TransportAssumption DEF SInv, Seated, Gone, Unborn
    <3> QED BY <2>3, <2>4, <3>1 DEF SeatsGoOn
  <2>6. up'[s] = Tail(up[s]) /\ DOMAIN up' = Sock /\ \A x \in Sock \ {s} : up'[x] = up[x]
    BY <1>1, <1>2 DEF Read
  <2>7. QueueDomains /\ \A x \in Sock \ {s} : down'[x] = down[x]
    BY <1>1, <1>2, <2>4, <2>6, DownShape DEF QueueDomains
  <2>8. /\ Wire(s)' /\ UpQueue(up'[s]) /\ DownQueue(down'[s])
        /\ PlaysIn(up'[s]) \subseteq PlaysIn(up[s])
    BY <1>2, <2>4, <2>5, <2>6, ToldWire
  <2>9. \A x \in Sock \ {s} : CalmWire(x) /\ PlaysIn(up'[x]) \subseteq PlaysIn(up[x])
    BY <1>2, <2>6, <2>7, StillWire
  <2> QED BY <1>2, <2>5, <2>7, <2>8, <2>9, ToldKeeps
<1>4. CASE free = {}
  <2>1. holder' = holder /\ Tell(s, Msg("ROOM_FULL"))
    BY <1>4 DEF SitDown
  <2>2. Msg("ROOM_FULL") \in DownMessage /\ Msg("ROOM_FULL").type # "joined"
    BY MessageTypes DEF TERMINAL
  <2> QED BY <1>2, <2>1, <2>2, HolderStays, ReadCalm, CalmKeeps
<1> QED BY <1>3, <1>4

LEMMA JoinMsgSeats ==
  ASSUME SInv, TInv', NEW s \in Sock, UNCHANGED <<room, client, owner, tabs, stored, acts>>,
         server[s] = "open", up[s] # <<>>, Head(up[s]).type = "join",
         JoinMsg(s, Head(up[s]).token)
  PROVE  SInv' /\ SeatAfterSeat
<1> DEFINE token == Head(up[s]).token
<1>1. CASE room = "closed"
  <2>1. /\ Tell(s, Msg("NO_SUCH_ROOM")) /\ Read(s)
        /\ UNCHANGED <<holder, applied, server>>
    BY <1>1 DEF JoinMsg
  <2>2. Msg("NO_SUCH_ROOM") \in DownMessage /\ Msg("NO_SUCH_ROOM").type # "joined"
    BY MessageTypes DEF TERMINAL
  <2> QED BY <2>1, <2>2, HolderStays, ReadCalm, CalmKeeps
<1>2. CASE room # "closed" /\ token # None /\ holder[token] \notin {Gone, Unborn}
  <2>1. Resume(s, token)
    BY <1>2 DEF JoinMsg
  <2>2. token \in Seat
    <3>1. UpQueue(up[s])
      BY DEF SInv, Queues
    <3>2. token \in 0..MaxSeat
      BY <3>1, UpTail, MessageTypes
    <3> QED BY <1>2, <3>2, TokensFit
  <2> QED BY <1>2, <2>1, <2>2, ResumeSeats
<1>3. CASE room # "closed" /\ ~(token # None /\ holder[token] \notin {Gone, Unborn})
  BY <1>3, SitDownSeats DEF JoinMsg
<1> QED BY <1>1, <1>2, <1>3

(* An action of a seated socket is taken; any other is read and forgotten.   *)
LEMMA PlayMsgSeats ==
  ASSUME SInv, TInv', NEW s \in Sock, UNCHANGED <<room, client, owner, tabs, stored, acts>>,
         up[s] # <<>>, Head(up[s]).type = "play", PlayMsg(s, Head(up[s]).n)
  PROVE  SInv' /\ SeatAfterSeat
<1>1. UNCHANGED <<holder, server, down>> /\ Read(s)
  BY DEF PlayMsg
<1>2. CalmSeats /\ (applied' = applied => NumbersFall)
  BY <1>1, HolderStays, ReadCalm
<1>3. CASE applied' = applied
  BY <1>2, <1>3, CalmKeeps
<1>4. CASE applied' = Append(applied, Head(up[s]).n)
  <2>1. UpQueue(up[s]) /\ DOMAIN up = Sock
    BY DEF SInv, Queues
  <2>2. PICK n : n = Head(up[s]).n
    OBVIOUS
  <2>3. n \in Sent(s) /\ n \notin PlaysIn(Tail(up[s])) /\ PlaysIn(Tail(up[s])) \subseteq PlaysIn(up[s])
    BY <2>1, <2>2, UpTail DEF Sent
  <2>4. up'[s] = Tail(up[s]) /\ \A x \in Sock \ {s} : up'[x] = up[x]
    BY <1>1, <2>1 DEF Read
  <2>5. n \notin Sent(s)' /\ \A y \in Sock : Sent(y)' \subseteq Sent(y)
    BY <2>3, <2>4 DEF Sent
  <2>6. \A u \in Tab : KeptBy(u)' = KeptBy(u)
    BY DEF KeptBy
  <2>7. Numbered'
    BY <1>4, <2>2, <2>3, <2>5, <2>6, NumberTaken
  <2>8. Queues'
    BY <1>2, CalmSeatsKeep DEF SInv, Queues, CalmSeats, QueueDomains
  <2> QED BY <1>2, <2>7, <2>8, CalmSeatsKeep DEF SInv
<1> QED BY <1>3, <1>4 DEF PlayMsg

LEMMA LeaveMsgCalm ==
  ASSUME SInv, NEW s \in Sock, UNCHANGED <<client, owner, tabs, stored, acts>>,
         up[s] # <<>>, LeaveMsg(s)
  PROVE  CalmSeats /\ NumbersFall
<1>1. /\ holder' = [k \in Seat |-> IF holder[k] = s THEN Gone ELSE holder[k]]
      /\ UNCHANGED <<applied, server, down>> /\ Read(s)
  BY DEF LeaveMsg
<1>2. SeatsGoOn
  <2>1. holder' = [k \in Seat |-> holder'[k]]
    BY <1>1
  <2> QED BY <1>1, <2>1, HolderFalls
<1> QED BY <1>1, <1>2, ReadCalm

LEMMA ServerReceivesSeats ==
  ASSUME SInv, TInv', NEW s \in Sock, ServerReceives(s)
  PROVE  SInv' /\ SeatAfterSeat
<1>1. /\ server[s] = "open" /\ up[s] # <<>>
      /\ UNCHANGED <<room, client, owner, tabs, stored, acts>>
  BY DEF ServerReceives
<1> DEFINE m == Head(up[s])
<1>2. CASE m.type = "join" /\ JoinMsg(s, m.token)
  BY <1>1, <1>2, JoinMsgSeats
<1>3. CASE m.type = "play" /\ PlayMsg(s, m.n)
  BY <1>1, <1>3, PlayMsgSeats
<1>4. CASE m.type = "leave" /\ LeaveMsg(s)
  BY <1>1, <1>4, LeaveMsgCalm, CalmKeeps
<1>5. CASE m.type = "fin" /\ Disconnect(s)
  BY <1>1, <1>5, DisconnectCalm, CalmKeeps
<1> QED BY <1>2, <1>3, <1>4, <1>5 DEF ServerReceives

-----------------------------------------------------------------------------
LEMMA InitSInv == Init => SInv
<1> SUFFICES ASSUME Init PROVE SInv
  OBVIOUS
<1>1. TInv
  BY InitTInv
<1>2. \A t \in Tab : /\ tabs[t].reconnectToken = None /\ tabs[t].viewer = None
                     /\ tabs[t].pending = <<>>
  BY DEF Init, StoppedTransport, NewTransport
<1>3. Queues
  BY <1>2, EmptyQueue DEF Init, Queues
<1>4. Numbered
  <2>1. /\ acts = 0 /\ applied = <<>> /\ applied \in Seq(Nat)
        /\ \A s \in Sock : Sent(s) = {}
    BY EmptyQueue DEF Init, Sent
  <2>2. Taken = {} /\ AppliedOnce
    BY <2>1 DEF Taken, AppliedOnce
  <2>3. \A t \in Tab : KeptBy(t) = {}
    BY <1>2, EmptyQueue DEF KeptBy
  <2> HIDE DEF Taken, AppliedOnce
  <2> QED BY <2>1, <2>2, <2>3 DEF Numbered
<1>5. Seated
  <2>1. holder \in [Seat -> 0..Gone]
    BY TransportAssumption DEF Init, Unborn, Gone
  <2>2. \A s \in Sock : Wire(s)
    BY EmptyQueue DEF Init, Wire, Asks, Alive
  <2> QED BY <1>2, <2>1, <2>2, NothingKnown DEF Init, Seated
<1> QED BY <1>1, <1>3, <1>4, <1>5 DEF SInv

LEMMA NextSInv ==
  ASSUME SInv, [Next]_vars
  PROVE  SInv' /\ SeatAfterSeat
<1>1. TInv'
  BY NextTInv DEF SInv
<1>2. ASSUME NEW t \in Tab, TabStep(t) \/ TabTimers(t) PROVE SInv' /\ SeatAfterSeat
  <2>1. CASE LeaveRoom(t) \/ Dispose(t) \/ TimedOut(t)
    BY <1>1, <2>1, LeaveRoomCalm, DisposeCalm, TimedOutCalm, CalmKeeps
  <2>2. CASE Start(t) \/ BackoffFires(t) \/ reconnectNow(t)
    BY <1>1, <2>2, StartSeats, BackoffSeats, ReconnectNowSeats
  <2>3. CASE Act(t)
    BY <1>1, <2>3, ActSeats
  <2> QED BY <1>2, <2>1, <2>2, <2>3 DEF TabStep, TabTimers
<1>3. ASSUME NEW s \in Sock, TabEvents(s) PROVE SInv' /\ SeatAfterSeat
  <2>1. CASE handleOpen(s)
    BY <1>1, <2>1, OpenSeats
  <2>2. CASE receive(s)
    BY <1>1, <2>2, JoinedSeats, ReceiveCalm, CalmKeeps
  <2>3. CASE ErrorEvent(s) \/ CloseEvent(s)
    BY <1>1, <2>3, ErrorCalm, CloseCalm, CalmKeeps
  <2> QED BY <1>3, <2>1, <2>2, <2>3 DEF TabEvents
<1>4. ASSUME NEW s \in Sock, ServerStep(s) \/ Cut(s) PROVE SInv' /\ SeatAfterSeat
  <2>1. CASE ServerReceives(s)
    BY <1>1, <2>1, ServerReceivesSeats
  <2>2. CASE ServerNotices(s)
    BY <1>1, <2>2, DisconnectCalm, CalmKeeps DEF ServerNotices
  <2>3. CASE DeadlineCloses(s) \/ Cut(s)
    BY <1>1, <2>3, DeadlineCalm, CutCalm, CalmKeeps
  <2> QED BY <1>4, <2>1, <2>2, <2>3 DEF ServerStep
<1>5. CASE RoomCloses \/ \E k \in Seat : GraceFires(k)
  BY <1>1, <1>5, RoomClosesCalm, GraceCalm, CalmKeeps
<1>6. CASE UNCHANGED vars
  <2>1. UNCHANGED <<client, server, up, down, owner, tabs, stored, acts, applied, holder>>
    BY <1>6 DEF vars, serverVars, wireVars
  <2>2. SeatsGoOn /\ QueueDomains
    BY <2>1, HolderStays DEF QueueDomains, SInv, Queues
  <2>3. \A x \in Sock : CalmWire(x) /\ PlaysIn(up'[x]) \subseteq PlaysIn(up[x])
    BY <2>1, StillWire
  <2> QED BY <1>1, <2>1, <2>2, <2>3, FarCalm, CalmKeeps
<1> QED BY <1>2, <1>3, <1>4, <1>5, <1>6 DEF Next

(* However often an action is queued, flushed and cut off, and on however    *)
(* many sockets, the room takes it at most once: no action is ever in two    *)
(* places at a time (socket.ts:228-230, 376-386).                            *)
THEOREM TransportAppliedOnce == Spec => []AppliedOnce
<1>1. SInv => AppliedOnce
  BY DEF SInv, Numbered
<1>2. SInv /\ [Next]_vars => SInv'
  BY NextSInv
<1> QED BY <1>1, <1>2, InitSInv, PTL DEF Spec

(* A retry comes back to the seat it left: a running transport is given      *)
(* another one only once its own is gone (socket.ts:270-282, 305-312;        *)
(* roomSession.ts:104-138).                                                  *)
THEOREM TransportKeepsItsSeat == Spec => KeepsItsSeat
<1>1. SInv /\ [Next]_vars => SInv' /\ [SeatAfterSeat]_vars
  BY NextSInv
<1> QED BY <1>1, InitSInv, PTL DEF Spec, KeepsItsSeat
=============================================================================
