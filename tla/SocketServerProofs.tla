-------------------------- MODULE SocketServerProofs --------------------------
(***************************************************************************)
(* Proofs about SocketServer.tla, for every set of addresses, every limit  *)
(* and every bound.                                                        *)
(***************************************************************************)
EXTENDS SocketServer, FiniteSetTheorems, SequenceTheorems, TLAPS

(* What the variables the two theorems are about range over.  A counted      *)
(* socket is one the library still knows, so a socket that is served anew is *)
(* not counted already, and its address is one that can be charged.          *)
Typed ==
  /\ perIp \in [DOMAIN perIp -> Nat] /\ DOMAIN perIp \subseteq Ip
  /\ state \in [Socket -> {"free", "open", "closing", "terminated"}]
  /\ ipOf \in [Socket -> Ip \cup {NoIp}]
  /\ alive \in [Socket -> {"yes", "no", "unset"}]
  /\ why \in [Socket -> {"none", "tooManyConnections", "rateLimited", "superseded",
                         "handshakeTimeout", "silent"}]
  /\ counted \subseteq Socket
  /\ \A s \in counted : ~Is(s, "free") /\ ipOf[s] \in Ip

(* A sweep's ping of an open socket is on its way until it is answered, so a *)
(* socket found unanswered has been asked; and a socket starts unmarked.     *)
AskedFirst ==
  \A s \in Socket : /\ Is(s, "open") /\ alive[s] = "no" => s \in pinged
                    /\ Is(s, "free") => why[s] # "silent"

CInv == Typed /\ CountsExact
WInv == Typed /\ AskedFirst /\ WellSpared

-----------------------------------------------------------------------------
(* Charging an address touches its own entry only, and leaves none at zero.  *)
LEMMA SetHeldType ==
  ASSUME perIp \in [DOMAIN perIp -> Nat], DOMAIN perIp \subseteq Ip,
         \A x \in DOMAIN perIp : perIp[x] > 0,
         NEW ip \in Ip, NEW n \in Nat, perIp' = SetHeld(ip, n)
  PROVE  /\ perIp' \in [DOMAIN perIp' -> Nat] /\ DOMAIN perIp' \subseteq Ip
         /\ \A x \in DOMAIN perIp' : perIp'[x] > 0
         /\ Held(ip)' = n
         /\ \A x \in Ip : x # ip => Held(x)' = Held(x)
  <1>1. CASE n = 0
    <2>1. perIp' = [x \in DOMAIN perIp \ {ip} |-> perIp[x]]
      BY <1>1 DEF SetHeld
    <2> QED BY <1>1, <2>1 DEF Held
  <1>2. CASE n # 0
    <2>1. perIp' = [x \in DOMAIN perIp \cup {ip} |-> IF x = ip THEN n ELSE perIp[x]]
      BY <1>2 DEF SetHeld
    <2> QED BY <1>2, <2>1 DEF Held
  <1> QED BY <1>1, <1>2

(* The sockets counted are finitely many.                                    *)
LEMMA HeldFinite ==
  ASSUME Typed, NEW ip
  PROVE  IsFiniteSet(HeldBy(ip))
  <1>1. IsFiniteSet(Socket)
    BY SocketServerAssumption, FS_Interval DEF Socket
  <1>2. HeldBy(ip) \in SUBSET Socket
    BY DEF HeldBy, Typed
  <1> QED BY <1>1, <1>2, FS_Subset

LEMMA InitInv == Init => CInv /\ WInv
  <1> SUFFICES ASSUME Init PROVE CInv /\ WInv
    OBVIOUS
  <1>1. perIp = [ip \in {} |-> 0] /\ DOMAIN perIp = {}
    BY DEF Init
  <1>2. Typed
    BY <1>1 DEF Init, Typed, Is
  <1>3. CountsExact
    <2>1. \A ip \in Ip : HeldBy(ip) = {} /\ Held(ip) = 0
      BY <1>1 DEF Init, HeldBy, Held
    <2> QED BY <1>1, <2>1, FS_EmptySet, SocketServerAssumption DEF CountsExact
  <1>4. AskedFirst /\ WellSpared
    BY DEF Init, AskedFirst, WellSpared, Is
  <1> QED BY <1>2, <1>3, <1>4 DEF CInv, WInv

-----------------------------------------------------------------------------
(* The steps that open and close sockets and take nobody's count.            *)
LEMMA ShutType ==
  ASSUME Typed, NEW s \in Socket, NEW r \in {"rateLimited", "superseded", "handshakeTimeout"},
         Shut(s, r)
  PROVE  /\ state' \in [Socket -> {"free", "open", "closing", "terminated"}]
         /\ why' \in [Socket -> {"none", "tooManyConnections", "rateLimited", "superseded",
                                 "handshakeTimeout", "silent"}]
         /\ \A x \in Socket : state'[x] = state[x] \/ (state[x] = "open" /\ state'[x] = "closing")
         /\ \A x \in Socket : why'[x] = "silent" => why[x] = "silent"
  BY DEF Typed, Shut

(* What the steps other than Connect, Sweep and CloseEvent have in common.   *)
Inside ==
  /\ UNCHANGED <<perIp, ipOf, counted>>
  /\ dead \subseteq dead'
  /\ state' \in [Socket -> {"free", "open", "closing", "terminated"}]
  /\ why' \in [Socket -> {"none", "tooManyConnections", "rateLimited", "superseded",
                          "handshakeTimeout", "silent"}]
  /\ alive' \in [Socket -> {"yes", "no", "unset"}]
  /\ \A x \in Socket : /\ state'[x] = "free" => state[x] = "free"
                       /\ state'[x] = "open" => state[x] = "open"
                       /\ why'[x] = "silent" => why[x] = "silent"
                       /\ alive'[x] = "no" => alive[x] = "no" /\ (x \in pinged => x \in pinged')

LEMMA InsideSteps ==
  ASSUME Typed, NEW s \in Socket,
         Message(s) \/ RoomCloses(s) \/ Superseded(s) \/ DeadlineFires(s) \/ Pong(s) \/ Dies(s)
           \/ ErrorEvent(s)
  PROVE  Inside
  <1>1. CASE Message(s)
    <2>1. CASE UNCHANGED <<state, why>>
      BY <1>1, <2>1 DEF Message, Inside, Typed
    <2>2. CASE Dropped(s)
      BY <1>1, <2>1, <2>2, ShutType DEF Message, Dropped, Inside, Typed
    <2>3. CASE Accepted(s)
      BY <2>1, <2>3 DEF Accepted
    <2> QED BY <1>1, <2>1, <2>2, <2>3 DEF Message
  <1>2. CASE RoomCloses(s)
    BY <1>2 DEF RoomCloses, Inside, Typed
  <1>3. CASE Superseded(s)
    BY <1>3, ShutType DEF Superseded, Inside, Typed
  <1>4. CASE DeadlineFires(s)
    <2>1. CASE UNCHANGED <<state, why>>
      BY <1>4, <2>1 DEF DeadlineFires, Inside, Typed
    <2>2. CASE Shut(s, "handshakeTimeout")
      BY <1>4, <2>2, ShutType DEF DeadlineFires, Inside, Typed
    <2> QED BY <1>4, <2>1, <2>2 DEF DeadlineFires
  <1>5. CASE Pong(s)
    BY <1>5 DEF Pong, PongHeard, Inside, Typed
  <1>6. CASE Dies(s)
    BY <1>6 DEF Dies, Inside, Typed
  <1>7. CASE ErrorEvent(s)
    BY <1>7 DEF ErrorEvent, Inside, Typed
  <1> QED BY <1>1, <1>2, <1>3, <1>4, <1>5, <1>6, <1>7

LEMMA InsideKeeps ==
  ASSUME Typed, Inside
  PROVE  /\ Typed'
         /\ CountsExact => CountsExact'
         /\ AskedFirst /\ WellSpared => AskedFirst' /\ WellSpared'
  <1>1. Typed'
    BY DEF Typed, Inside, Is
  <1>2. CountsExact => CountsExact'
    BY DEF Inside, CountsExact, Held, HeldBy
  <1>3. AskedFirst => AskedFirst'
    BY DEF Inside, AskedFirst, Is
  <1>4. WellSpared => WellSpared'
    BY DEF Typed, Inside, WellSpared
  <1> QED BY <1>1, <1>2, <1>3, <1>4

-----------------------------------------------------------------------------
(* A socket is served under its address's limit, or refused and not counted. *)
LEMMA ConnectKeepsCounts ==
  ASSUME CInv, NEW s \in Socket, NEW ip \in Ip, Connect(s, ip)
  PROVE  CInv'
  <1>1. Typed /\ CountsExact /\ s \notin counted /\ \A x \in DOMAIN perIp : perIp[x] > 0
    BY DEF CInv, Typed, Connect, CountsExact
  <1>2. ipOf' = [ipOf EXCEPT ![s] = ip]
    BY DEF Connect
  <1>3. CASE Serve(s, ip)
    <2>1. Held(ip) \in Nat /\ Held(ip) + 1 \in Nat /\ perIp' = SetHeld(ip, Held(ip) + 1)
      BY <1>1, <1>3 DEF Serve, Typed, Held
    <2>2. /\ perIp' \in [DOMAIN perIp' -> Nat] /\ DOMAIN perIp' \subseteq Ip
          /\ \A x \in DOMAIN perIp' : perIp'[x] > 0
          /\ Held(ip)' = Held(ip) + 1
          /\ \A x \in Ip : x # ip => Held(x)' = Held(x)
      BY <1>1, <2>1, SetHeldType DEF Typed
    <2>3. Typed'
      BY <1>1, <1>2, <1>3, <2>2 DEF Typed, Connect, Serve, Is
    <2>4. HeldBy(ip)' = HeldBy(ip) \cup {s} /\ s \notin HeldBy(ip)
      BY <1>1, <1>2, <1>3 DEF Serve, HeldBy, Typed
    <2>5. \A x \in Ip : x # ip => HeldBy(x)' = HeldBy(x)
      BY <1>1, <1>2, <1>3 DEF Serve, HeldBy, Typed
    <2>6. Cardinality(HeldBy(ip)') = Cardinality(HeldBy(ip)) + 1
      BY <1>1, <2>4, HeldFinite, FS_AddElement
    <2>7. Held(ip)' <= MaxConnsPerIp
      BY <1>3, <2>1, <2>2, SocketServerAssumption DEF Serve
    <2>8. CountsExact'
      BY <1>1, <2>2, <2>5, <2>6, <2>7 DEF CountsExact
    <2> QED BY <2>3, <2>8 DEF CInv
  <1>4. CASE Refuse(s, ip)
    <2>1. UNCHANGED <<perIp, counted, alive>>
      BY <1>4 DEF Refuse, NotCounted
    <2>2. Typed'
      BY <1>1, <1>2, <1>4, <2>1 DEF Typed, Connect, Refuse, Is
    <2>3. \A x \in Ip : HeldBy(x)' = HeldBy(x) /\ Held(x)' = Held(x)
      BY <1>1, <1>2, <2>1 DEF HeldBy, Held, Typed
    <2> QED BY <1>1, <2>1, <2>2, <2>3 DEF CInv, CountsExact
  <1> QED BY <1>3, <1>4 DEF Connect

(* A socket's end gives its count back once, a refused one's gives nothing.  *)
LEMMA CloseKeepsCounts ==
  ASSUME CInv, NEW s \in Socket, CloseEvent(s)
  PROVE  CInv'
  <1>1. Typed /\ CountsExact /\ \A x \in DOMAIN perIp : perIp[x] > 0
    BY DEF CInv, CountsExact
  <1>2. /\ counted' = counted \ {s} /\ ipOf' = [ipOf EXCEPT ![s] = NoIp]
        /\ state' = [state EXCEPT ![s] = "free"] /\ alive' = [alive EXCEPT ![s] = "unset"]
        /\ why' = [why EXCEPT ![s] = "none"] /\ perIp' = CountReturned(s)
    BY DEF CloseEvent
  <1>3. CASE s \in counted
    <2>1. PICK ip \in Ip : ipOf[s] = ip
      BY <1>1, <1>3 DEF Typed
    <2>2. s \in HeldBy(ip) /\ IsFiniteSet(HeldBy(ip))
      BY <1>1, <1>3, <2>1, HeldFinite DEF HeldBy
    <2>3. Held(ip) = Cardinality(HeldBy(ip)) /\ Held(ip) <= MaxConnsPerIp
      BY <1>1, <2>1 DEF CountsExact
    <2>4. Held(ip) \in Nat /\ Held(ip) # 0
      BY <2>2, <2>3, FS_CardinalityType, FS_EmptySet
    <2>5. Held(ip) - 1 \in Nat /\ perIp' = SetHeld(ip, Held(ip) - 1)
      BY <1>2, <1>3, <2>1, <2>4 DEF CountReturned
    <2>6. /\ perIp' \in [DOMAIN perIp' -> Nat] /\ DOMAIN perIp' \subseteq Ip
          /\ \A x \in DOMAIN perIp' : perIp'[x] > 0
          /\ Held(ip)' = Held(ip) - 1
          /\ \A x \in Ip : x # ip => Held(x)' = Held(x)
      BY <1>1, <2>1, <2>5, SetHeldType DEF Typed
    <2>7. Typed'
      BY <1>1, <1>2, <2>6 DEF Typed, Is
    <2>8. HeldBy(ip)' = HeldBy(ip) \ {s} /\ \A x \in Ip : x # ip => HeldBy(x)' = HeldBy(x)
      BY <1>1, <1>2, <2>1 DEF HeldBy, Typed
    <2>9. Cardinality(HeldBy(ip)') = Cardinality(HeldBy(ip)) - 1
      BY <2>2, <2>8, FS_RemoveElement
    <2>10. CountsExact'
      <3>1. Held(ip)' <= MaxConnsPerIp
        BY <2>3, <2>4, <2>6, SocketServerAssumption
      <3> QED BY <1>1, <2>3, <2>6, <2>8, <2>9, <3>1 DEF CountsExact
    <2> QED BY <2>7, <2>10 DEF CInv
  <1>4. CASE s \notin counted
    <2>1. perIp' = perIp /\ counted' = counted
      BY <1>2, <1>4 DEF CountReturned
    <2>2. Typed'
      BY <1>1, <1>2, <1>4, <2>1 DEF Typed, Is
    <2>3. \A x \in Ip : HeldBy(x)' = HeldBy(x) /\ Held(x)' = Held(x)
      BY <1>1, <1>2, <1>4, <2>1 DEF HeldBy, Held, Typed
    <2> QED BY <1>1, <2>1, <2>2, <2>3 DEF CInv, CountsExact
  <1> QED BY <1>3, <1>4

(* A sweep counts nobody in or out.                                          *)
LEMMA SweepTyped ==
  ASSUME Typed, Sweep
  PROVE  Typed'
  BY DEF Typed, Sweep, Is, Unanswered

LEMMA SweepKeepsCounts ==
  ASSUME CInv, Sweep
  PROVE  CInv'
  <1>1. UNCHANGED <<perIp, counted, ipOf>>
    BY DEF Sweep
  <1> QED BY <1>1, SweepTyped DEF CInv, CountsExact, Held, HeldBy

LEMMA StutterKeeps ==
  ASSUME UNCHANGED vars
  PROVE  (CInv => CInv') /\ (WInv => WInv')
  BY DEF vars, CInv, WInv, Typed, CountsExact, Held, HeldBy, AskedFirst, WellSpared, Is

LEMMA NextKeepsCounts ==
  ASSUME CInv, [Next]_vars
  PROVE  CInv'
  <1>1. CASE Sweep
    BY <1>1, SweepKeepsCounts
  <1>2. ASSUME NEW s \in Socket, SocketStep(s)
        PROVE  CInv'
    <2>1. CASE \E ip \in Ip : Connect(s, ip)
      BY <2>1, ConnectKeepsCounts
    <2>2. CASE CloseEvent(s)
      BY <2>2, CloseKeepsCounts
    <2>3. CASE Message(s) \/ RoomCloses(s) \/ Superseded(s) \/ DeadlineFires(s) \/ Pong(s)
                 \/ Dies(s) \/ ErrorEvent(s)
      BY <2>3, InsideSteps, InsideKeeps DEF CInv
    <2> QED BY <1>2, <2>1, <2>2, <2>3 DEF SocketStep
  <1>3. CASE UNCHANGED vars
    BY <1>3, StutterKeeps
  <1> QED BY <1>1, <1>2, <1>3 DEF Next

(* An address is charged for exactly the sockets it holds, whatever order    *)
(* they come and end in, and never for more than MaxConnsPerIp               *)
(* (socketServer.ts:88-105).                                                 *)
THEOREM ServerCountsExact == Spec => []CountsExact
  <1>1. Init => CInv
    BY InitInv
  <1>2. CInv /\ [Next]_vars => CInv'
    BY NextKeepsCounts
  <1>3. CInv => CountsExact
    BY DEF CInv
  <1> QED BY <1>1, <1>2, <1>3, PTL DEF Spec

-----------------------------------------------------------------------------
(* A sweep takes a socket it has asked before, and asks the open ones it     *)
(* leaves; who has not answered by then has no peer.                         *)
LEMMA SweepSpares ==
  ASSUME WInv, Sweep
  PROVE  WInv'
  <1>1. Typed /\ AskedFirst /\ WellSpared /\ Typed'
    BY SweepTyped DEF WInv
  <1> DEFINE clients == {s \in Socket : state[s] \in {"open", "closing"}}
             killed == {s \in clients : Unanswered(s)}
  <1>2. /\ \A s \in pinged : s \in dead
        /\ state' = [s \in Socket |-> IF s \in killed THEN "terminated" ELSE state[s]]
        /\ why' = [s \in Socket |-> IF s \in killed /\ Is(s, "open") THEN "silent" ELSE why[s]]
        /\ alive' = [s \in Socket |-> IF s \in clients \ killed THEN "no" ELSE alive[s]]
        /\ pinged' = pinged \cup {s \in clients \ killed : Is(s, "open")}
        /\ counted' = counted /\ dead' = dead
    BY DEF Sweep
  <1>3. AskedFirst'
    BY <1>1, <1>2 DEF AskedFirst, Is
  <1>4. WellSpared'
    <2> SUFFICES ASSUME NEW s \in counted, why'[s] = "silent"
                 PROVE  s \in dead
      BY <1>2 DEF WellSpared
    <2>1. s \in Socket
      BY <1>1 DEF Typed
    <2>2. CASE s \in killed /\ Is(s, "open")
      BY <1>1, <1>2, <2>1, <2>2 DEF AskedFirst, Unanswered
    <2>3. CASE why[s] = "silent"
      BY <1>1, <2>3 DEF WellSpared
    <2> QED BY <1>2, <2>1, <2>2, <2>3
  <1> QED BY <1>1, <1>3, <1>4 DEF WInv

LEMMA NextSpares ==
  ASSUME CInv, WInv, [Next]_vars
  PROVE  WInv'
  <1>0. CInv' /\ Typed'
    BY NextKeepsCounts DEF CInv
  <1>1. CASE Sweep
    BY <1>1, SweepSpares
  <1>2. ASSUME NEW s \in Socket, SocketStep(s)
        PROVE  WInv'
    <2>1. ASSUME NEW ip \in Ip, Connect(s, ip)
          PROVE  WInv'
      <3>1. CASE Serve(s, ip)
        BY <1>0, <2>1, <3>1 DEF WInv, Typed, Connect, Serve, AskedFirst, WellSpared, Is
      <3>2. CASE Refuse(s, ip)
        BY <1>0, <2>1, <3>2 DEF WInv, Typed, Connect, Refuse, AskedFirst, WellSpared, Is
      <3> QED BY <2>1, <3>1, <3>2 DEF Connect
    <2>2. CASE CloseEvent(s)
      BY <1>0, <2>2 DEF WInv, Typed, CloseEvent, AskedFirst, WellSpared, Is
    <2>3. CASE Message(s) \/ RoomCloses(s) \/ Superseded(s) \/ DeadlineFires(s) \/ Pong(s)
                 \/ Dies(s) \/ ErrorEvent(s)
      BY <2>3, InsideSteps, InsideKeeps DEF WInv
    <2> QED BY <1>2, <2>1, <2>2, <2>3 DEF SocketStep
  <1>3. CASE UNCHANGED vars
    BY <1>3, StutterKeeps
  <1> QED BY <1>1, <1>2, <1>3 DEF Next

(* No sweep takes a socket whose peer is there and answers                   *)
(* (socketServer.ts:106-122).                                                *)
THEOREM ServerWellSpared == Spec => []WellSpared
  <1>1. Init => CInv /\ WInv
    BY InitInv
  <1>2. CInv /\ WInv /\ [Next]_vars => (CInv /\ WInv)'
    BY NextKeepsCounts, NextSpares
  <1>3. CInv /\ WInv => WellSpared
    BY DEF WInv
  <1> QED BY <1>1, <1>2, <1>3, PTL DEF Spec

-----------------------------------------------------------------------------
(* The count of refused messages is read off the log: the log keeps the last *)
(* MaxDropped messages, and as many of its last are refusals as the count    *)
(* says.  So when the count reaches MaxDropped all of the log is refusals.   *)
RefusalsLogged ==
  /\ log \in [Socket -> Seq(BOOLEAN)] /\ dropped \in [Socket -> 0..MaxDropped]
  /\ \A s \in Socket :
       /\ dropped[s] <= Len(log[s]) /\ Len(log[s]) <= MaxDropped
       /\ \A i \in DOMAIN log[s] : i > Len(log[s]) - dropped[s] => ~log[s][i]

LEMMA LoggedKeeps ==
  ASSUME RefusalsLogged, NEW s \in Socket, NEW accepted \in BOOLEAN
  PROVE  /\ Logged(s, accepted) \in Seq(BOOLEAN)
         /\ Len(Logged(s, accepted)) <= MaxDropped
         /\ Len(Logged(s, accepted)) = IF Len(log[s]) < MaxDropped THEN Len(log[s]) + 1
                                      ELSE MaxDropped
         /\ Logged(s, accepted)[Len(Logged(s, accepted))] = accepted
         /\ \A i \in DOMAIN Logged(s, accepted) : i # Len(Logged(s, accepted)) =>
              IF Len(log[s]) < MaxDropped THEN Logged(s, accepted)[i] = log[s][i]
              ELSE Logged(s, accepted)[i] = log[s][i + 1]
  <1> DEFINE l == log[s]
             all == Append(l, accepted)
  <1>1. l \in Seq(BOOLEAN) /\ Len(l) \in Nat /\ Len(l) <= MaxDropped
    BY DEF RefusalsLogged
  <1>2. /\ all \in Seq(BOOLEAN) /\ Len(all) = Len(l) + 1 /\ all[Len(l) + 1] = accepted
        /\ \A i \in 1..Len(l) : all[i] = l[i]
    BY <1>1
  <1>3. CASE Len(l) < MaxDropped
    <2>1. Logged(s, accepted) = all
      BY <1>1, <1>2, <1>3, SocketServerAssumption DEF Logged
    <2> HIDE DEF all
    <2>2. DOMAIN all = 1..Len(l) + 1 /\ MaxDropped \in Nat
      BY <1>2, SocketServerAssumption
    <2> QED BY <1>1, <1>2, <1>3, <2>1, <2>2
  <1>4. CASE Len(l) = MaxDropped
    <2>1. Logged(s, accepted) = Tail(all)
      BY <1>1, <1>2, <1>4, SocketServerAssumption DEF Logged
    <2>2. Tail(all) \in Seq(BOOLEAN) /\ Len(Tail(all)) = Len(l)
      <3>1. all # <<>>
        BY <1>1, <1>2
      <3> HIDE DEF all
      <3> QED BY <1>1, <1>2, <3>1, HeadTailProperties
    <2>3. \A i \in 1..Len(l) : Tail(all)[i] = all[i + 1]
      BY <1>1, <1>2
    <2> HIDE DEF all, l
    <2>4. MaxDropped \in Nat \ {0}
      BY SocketServerAssumption
    <2>5. DOMAIN Tail(all) = 1..MaxDropped
      BY <2>2, <1>4
    <2>6. \A i \in 1..MaxDropped : i # MaxDropped => i + 1 \in 1..Len(l)
      BY <1>4, <2>4
    <2> QED BY <1>1, <1>2, <1>4, <2>1, <2>2, <2>3, <2>4, <2>5, <2>6 DEF l
  <1> QED BY <1>1, <1>3, <1>4, SocketServerAssumption

LEMMA AcceptedLogged ==
  ASSUME RefusalsLogged, NEW s \in Socket, Accepted(s)
  PROVE  RefusalsLogged'
  <1>1. /\ dropped' = [dropped EXCEPT ![s] = 0]
        /\ log' = [log EXCEPT ![s] = Logged(s, TRUE)]
    BY DEF Accepted, Reset
  <1> DEFINE n == Logged(s, TRUE)
  <1>2. n \in Seq(BOOLEAN) /\ Len(n) <= MaxDropped
    BY LoggedKeeps
  <1> HIDE DEF n
  <1>3. MaxDropped \in Nat /\ Len(n) \in Nat /\ DOMAIN n = 1..Len(n)
    BY <1>2, SocketServerAssumption
  <1>4. log' = [log EXCEPT ![s] = n]
    BY <1>1 DEF n
  <1>5. \A i \in DOMAIN n : ~(i > Len(n) - 0)
    BY <1>3
  <1>6. log \in [Socket -> Seq(BOOLEAN)] /\ dropped \in [Socket -> 0..MaxDropped]
    BY DEF RefusalsLogged
  <1>7. log' \in [Socket -> Seq(BOOLEAN)]
    BY <1>2, <1>4, <1>6
  <1>8. dropped' \in [Socket -> 0..MaxDropped]
    BY <1>1, <1>3, <1>6
  <1>9. ASSUME NEW x \in Socket
        PROVE  /\ dropped'[x] <= Len(log'[x]) /\ Len(log'[x]) <= MaxDropped
               /\ \A i \in DOMAIN log'[x] : i > Len(log'[x]) - dropped'[x] => ~log'[x][i]
    <2>1. CASE x = s
      <3>1. log'[x] = n /\ dropped'[x] = 0
        BY <1>1, <1>4, <1>6, <2>1
      <3> QED BY <1>2, <1>3, <1>5, <3>1
    <2>2. CASE x # s
      <3>1. log'[x] = log[x] /\ dropped'[x] = dropped[x]
        BY <1>1, <1>4, <1>6, <2>2
      <3> QED BY <3>1 DEF RefusalsLogged
    <2> QED BY <2>1, <2>2
  <1> QED BY <1>7, <1>8, <1>9 DEF RefusalsLogged

LEMMA DroppedLogged ==
  ASSUME RefusalsLogged, NEW s \in Socket, Dropped(s)
  PROVE  RefusalsLogged'
  <1> DEFINE l == log[s]
             n == Logged(s, FALSE)
  <1>1. /\ dropped' = [dropped EXCEPT ![s] = dropped[s] + 1] /\ dropped[s] < MaxDropped
        /\ log' = [log EXCEPT ![s] = n] /\ MaxDropped \in Nat
    BY SocketServerAssumption DEF Dropped
  <1>2. /\ n \in Seq(BOOLEAN) /\ ~n[Len(n)]
        /\ Len(n) = IF Len(l) < MaxDropped THEN Len(l) + 1 ELSE MaxDropped
        /\ \A i \in DOMAIN n : i # Len(n) =>
             IF Len(l) < MaxDropped THEN n[i] = l[i] ELSE n[i] = l[i + 1]
    BY LoggedKeeps
  <1>3. /\ l \in Seq(BOOLEAN) /\ Len(l) \in Nat /\ Len(l) <= MaxDropped
        /\ dropped[s] \in Nat /\ dropped[s] <= Len(l)
        /\ \A i \in 1..Len(l) : i > Len(l) - dropped[s] => ~l[i]
    BY DEF RefusalsLogged
  <1> HIDE DEF l, n
  <1>4. \A i \in DOMAIN n : i > Len(n) - (dropped[s] + 1) => ~n[i]
    <2> SUFFICES ASSUME NEW i \in DOMAIN n, i > Len(n) - (dropped[s] + 1), i # Len(n)
                 PROVE  ~n[i]
      BY <1>2
    <2>1. i \in 1..Len(n)
      BY <1>2
    <2>2. CASE Len(l) < MaxDropped
      BY <1>1, <1>2, <1>3, <2>1, <2>2
    <2>3. CASE Len(l) = MaxDropped
      <3>1. i + 1 \in 1..Len(l) /\ i + 1 > Len(l) - dropped[s] /\ n[i] = l[i + 1]
        BY <1>1, <1>2, <1>3, <2>1, <2>3
      <3> QED BY <1>3, <3>1
    <2> QED BY <1>1, <1>3, <2>2, <2>3
  <1>5. dropped[s] + 1 \in 0..MaxDropped /\ dropped[s] + 1 <= Len(n) /\ Len(n) <= MaxDropped
    BY <1>1, <1>2, <1>3
  <1> QED BY <1>1, <1>2, <1>4, <1>5 DEF RefusalsLogged

(* Only a message and a socket's end touch the count and the log.            *)
LEMMA NextLogged ==
  ASSUME RefusalsLogged, [Next]_vars
  PROVE  RefusalsLogged'
  <1>1. CASE UNCHANGED rateVars
    BY <1>1 DEF rateVars, RefusalsLogged
  <1>2. CASE Sweep \/ UNCHANGED vars
    BY <1>1, <1>2 DEF Sweep, vars
  <1>3. ASSUME NEW s \in Socket, SocketStep(s)
        PROVE  RefusalsLogged'
    <2>1. CASE Accepted(s) \/ Dropped(s)
      BY <2>1, AcceptedLogged, DroppedLogged
    <2>2. CASE CloseEvent(s)
      <3>1. /\ dropped' = [dropped EXCEPT ![s] = 0] /\ log' = [log EXCEPT ![s] = <<>>]
            /\ MaxDropped \in Nat
        BY <2>2, SocketServerAssumption DEF CloseEvent
      <3> QED BY <3>1 DEF RefusalsLogged
    <2>3. CASE Message(s) /\ ~(Accepted(s) \/ Dropped(s))
      BY <1>1, <2>3 DEF Message
    <2>4. CASE (\E ip \in Ip : Connect(s, ip)) \/ RoomCloses(s) \/ Superseded(s)
                 \/ DeadlineFires(s) \/ Pong(s) \/ Dies(s) \/ ErrorEvent(s)
      BY <1>1, <2>4 DEF Connect, RoomCloses, Superseded, DeadlineFires, Pong, Dies, ErrorEvent
    <2> QED BY <1>3, <2>1, <2>2, <2>3, <2>4 DEF SocketStep
  <1> QED BY <1>2, <1>3 DEF Next

(* A step that closes a socket for its rate has just refused a message of it *)
(* that made the count reach MaxDropped.                                     *)
LEMMA OnlyDroppedLimits ==
  ASSUME Typed, [Next]_vars, NEW s \in Socket, why'[s] = "rateLimited", why[s] # "rateLimited"
  PROVE  Dropped(s) /\ dropped'[s] >= MaxDropped
  <1>1. ~(Sweep \/ UNCHANGED vars)
    BY DEF Sweep, vars, Typed
  <1>2. PICK x \in Socket : SocketStep(x)
    BY <1>1 DEF Next
  <1>3. ~(\E ip \in Ip : Connect(x, ip))
    BY DEF Typed, Connect, Serve, Refuse
  <1>4. ~(Superseded(x) \/ DeadlineFires(x) \/ CloseEvent(x))
    BY DEF Typed, Superseded, DeadlineFires, CloseEvent, Shut
  <1>5. ~(RoomCloses(x) \/ Pong(x) \/ Dies(x) \/ ErrorEvent(x))
    BY DEF Typed, RoomCloses, Pong, Dies, ErrorEvent
  <1>6. Dropped(x)
    BY <1>2, <1>3, <1>4, <1>5 DEF SocketStep, Message, Accepted
  <1>7. x = s
    BY <1>6 DEF Dropped, Shut, Typed
  <1>8. dropped'[s] >= MaxDropped
    BY <1>6, <1>7 DEF Dropped
  <1> QED BY <1>6, <1>7, <1>8

LEMMA StepClosesForAFlood ==
  ASSUME Typed, RefusalsLogged, [Next]_vars
  PROVE  ClosedForAFlood
  <1> SUFFICES ASSUME NEW s \in Socket, why'[s] = "rateLimited", why[s] # "rateLimited"
               PROVE  Flood(log'[s])
    BY DEF ClosedForAFlood
  <1>1. dropped'[s] >= MaxDropped
    BY OnlyDroppedLimits
  <1>2. RefusalsLogged'
    BY NextLogged
  <1> QED BY <1>1, <1>2, SocketServerAssumption DEF RefusalsLogged, Flood

(* The server closes a socket for its rate only when its last MaxDropped     *)
(* messages were all refused: what is accepted in between starts the count   *)
(* again, for every burst, limit and order of messages                       *)
(* (socketServer.ts:196-214).                                                *)
THEOREM ServerFloodsOnly == Spec => FloodsOnly
  <1>1. Init => CInv /\ RefusalsLogged
    BY InitInv, SocketServerAssumption DEF Init, RefusalsLogged
  <1>2. CInv /\ RefusalsLogged /\ [Next]_vars => (CInv /\ RefusalsLogged)'
    BY NextKeepsCounts, NextLogged
  <1>3. CInv /\ RefusalsLogged /\ [Next]_vars => [ClosedForAFlood]_vars
    BY StepClosesForAFlood DEF CInv
  <1> QED BY <1>1, <1>2, <1>3, PTL DEF Spec, FloodsOnly
=============================================================================
