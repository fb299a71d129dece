---------------------------- MODULE RoomHubProofs ----------------------------
(***************************************************************************)
(* Proofs about RoomHub.tla, for every set of connections, codes and       *)
(* addresses, every limit and every number of rooms opened.                *)
(***************************************************************************)
EXTENDS RoomHub, FiniteSetTheorems, TLAPS

(* The registry: a code leads to a room that has it, a room not yet closed   *)
(* has its code, and an id not handed out means nothing.                     *)
Registered ==
  /\ opened \in 0..MaxSessions
  /\ code \in Seq(Code) /\ Len(code) = opened
  /\ DOMAIN rooms \subseteq Code
  /\ \A k \in DOMAIN rooms : rooms[k] \in 1..opened /\ code[rooms[k]] = k
  /\ \A s \in 1..opened : s \notin closed => code[s] \in DOMAIN rooms /\ rooms[code[s]] = s
  /\ closed \subseteq 1..opened

(* The people in the rooms.  Nobody is on the board and at a phone at once,  *)
(* so pushing out one does not leave the other.                              *)
Routed ==
  /\ DOMAIN sessionOf \subseteq Conn
  /\ \A c \in DOMAIN sessionOf : sessionOf[c] \in Session
  /\ hosts \in [Session -> SUBSET Conn] /\ people \in [Session -> SUBSET Conn]
  /\ \A s \in Session : hosts[s] \cap people[s] = {}
  /\ RoutedWhereAttached

(* What could still act acts in a live room: a queued fan-out, queued once,  *)
(* a held seat, a board's timer.                                             *)
Acting ==
  /\ microtasks \in Seq(Session)
  /\ \A i, j \in DOMAIN microtasks : microtasks[i] = microtasks[j] => i = j
  /\ held \in [Session -> Nat] /\ boardTimer \in [Session -> BOOLEAN]
  /\ \A s \in Session : ~Live(s) => ~Queued(s) /\ held[s] = 0 /\ ~boardTimer[s]

HInv == Registered /\ Routed /\ Acting

LEMMA InitHInv == HubInit => HInv
  <1> SUFFICES ASSUME HubInit PROVE HInv
    OBVIOUS
  <1>1. DOMAIN rooms = {} /\ DOMAIN sessionOf = {} /\ opened = 0 /\ closed = {} /\ code = <<>>
    BY DEF HubInit
  <1>2. Registered
    BY <1>1, HubAssumption DEF Registered
  <1>3. Routed
    BY <1>1 DEF HubInit, Routed, RoutedWhereAttached, Members, Unbound
  <1>4. Acting
    BY DEF HubInit, Acting, Queued
  <1> QED BY <1>2, <1>3, <1>4 DEF HInv

-----------------------------------------------------------------------------
(* The queue of microtasks. *)
LEMMA FanOutQueued ==
  ASSUME Acting, NEW s \in Session, NEW c, QueueFanOut(s, c)
  PROVE  /\ microtasks' \in Seq(Session)
         /\ \A i, j \in DOMAIN microtasks' : microtasks'[i] = microtasks'[j] => i = j
         /\ \A t : Queued(t)' <=> Queued(t) \/ t = s
  <1>1. CASE Queued(s)
    BY <1>1 DEF Acting, QueueFanOut, Queued
  <1>2. CASE ~Queued(s)
    <2>1. microtasks' = Append(microtasks, s) /\ microtasks \in Seq(Session)
      BY <1>2 DEF Acting, QueueFanOut
    <2>2. /\ DOMAIN microtasks' = 1..Len(microtasks) + 1 /\ Len(microtasks) \in Nat
          /\ DOMAIN microtasks = 1..Len(microtasks)
          /\ microtasks'[Len(microtasks) + 1] = s
          /\ \A i \in 1..Len(microtasks) : microtasks'[i] = microtasks[i]
      BY <2>1
    <2>3. microtasks' \in Seq(Session)
      BY <2>1
    <2>4. \A i, j \in DOMAIN microtasks' : microtasks'[i] = microtasks'[j] => i = j
      BY <1>2, <2>2 DEF Acting, Queued
    <2>5. \A t : Queued(t)' <=> Queued(t) \/ t = s
      BY <2>2 DEF Queued
    <2> QED BY <2>3, <2>4, <2>5
  <1> QED BY <1>1, <1>2

LEMMA FirstDone ==
  ASSUME Acting, microtasks # <<>>, microtasks' = Tail(microtasks)
  PROVE  /\ microtasks' \in Seq(Session)
         /\ \A i, j \in DOMAIN microtasks' : microtasks'[i] = microtasks'[j] => i = j
         /\ \A t : Queued(t)' <=> Queued(t) /\ t # Head(microtasks)
         /\ Head(microtasks) \in Session /\ Queued(Head(microtasks))
  <1>1. /\ microtasks \in Seq(Session) /\ Len(microtasks) \in Nat \ {0}
        /\ DOMAIN microtasks = 1..Len(microtasks) /\ Head(microtasks) = microtasks[1]
        /\ microtasks' \in Seq(Session)
        /\ DOMAIN microtasks' = 1..Len(microtasks) - 1
        /\ \A i \in 1..Len(microtasks) - 1 : microtasks'[i] = microtasks[i + 1]
    BY DEF Acting
  <1>2. \A i, j \in DOMAIN microtasks' : microtasks'[i] = microtasks'[j] => i = j
    BY <1>1 DEF Acting
  <1>3. ASSUME NEW t PROVE Queued(t)' <=> Queued(t) /\ t # Head(microtasks)
    <2>1. ASSUME Queued(t)' PROVE Queued(t) /\ t # Head(microtasks)
      <3>1. PICK i \in 1..Len(microtasks) - 1 : microtasks'[i] = t
        BY <1>1, <2>1 DEF Queued
      <3>2. i + 1 \in DOMAIN microtasks /\ microtasks[i + 1] = t /\ i + 1 # 1 /\ 1 \in DOMAIN microtasks
        BY <1>1, <3>1
      <3> QED BY <1>1, <3>2 DEF Queued, Acting
    <2>2. ASSUME Queued(t), t # Head(microtasks) PROVE Queued(t)'
      <3>1. PICK i \in DOMAIN microtasks : microtasks[i] = t
        BY <2>2 DEF Queued
      <3>2. i - 1 \in 1..Len(microtasks) - 1 /\ microtasks'[i - 1] = t
        BY <1>1, <2>2, <3>1
      <3> QED BY <1>1, <3>2 DEF Queued
    <2> QED BY <2>1, <2>2
  <1>4. Head(microtasks) \in Session /\ Queued(Head(microtasks))
    BY <1>1 DEF Queued
  <1> QED BY <1>1, <1>2, <1>3, <1>4

-----------------------------------------------------------------------------
(* One lemma per action, or per group that leaves the registry alone.        *)
SameRegistry == UNCHANGED <<rooms, opened, code>>

LEMMA RegistryKept ==
  ASSUME Registered, SameRegistry, closed \subseteq closed', closed' \subseteq 1..opened
  PROVE  Registered' /\ \A s : Live(s)' <=> Live(s)
  BY DEF Registered, SameRegistry, Live

LEMMA OpenKeeps ==
  ASSUME HInv, NEW c \in Conn, NEW k \in Code, OpenMsg(c, k)
  PROVE  HInv'
  <1> DEFINE s == opened + 1
  <1>1. /\ s \in Session /\ s \notin 1..opened /\ opened \in Nat /\ opened' = s
        /\ 1..s = 1..opened \cup {s} /\ 1..opened \subseteq Session
    BY HubAssumption DEF HInv, Registered, OpenMsg, Session
  <1>2. /\ k \notin DOMAIN rooms /\ rooms' = Put(rooms, k, s) /\ closed' = closed
        /\ code' = Append(code, k)
    BY DEF OpenMsg, NotTaken
  <1>3. /\ DOMAIN rooms' = DOMAIN rooms \cup {k} /\ rooms'[k] = s
        /\ \A l \in DOMAIN rooms : rooms'[l] = rooms[l]
    BY <1>2 DEF Put
  <1>4. /\ code' \in Seq(Code) /\ Len(code') = s /\ code'[s] = k
        /\ \A t \in 1..opened : code'[t] = code[t]
    BY <1>1, <1>2 DEF HInv, Registered
  <1>5. Registered'
    <2>1. opened' \in 0..MaxSessions
      BY <1>1, HubAssumption DEF Session
    <2>2. \A l \in DOMAIN rooms' : rooms'[l] \in 1..opened' /\ code'[rooms'[l]] = l
      BY <1>1, <1>3, <1>4 DEF HInv, Registered
    <2>3. \A t \in 1..opened' : t \notin closed' => code'[t] \in DOMAIN rooms' /\ rooms'[code'[t]] = t
      <3>1. ASSUME NEW t \in 1..opened, t \notin closed
            PROVE  code'[t] \in DOMAIN rooms' /\ rooms'[code'[t]] = t
        <4>1. code[t] \in DOMAIN rooms /\ rooms[code[t]] = t /\ code'[t] = code[t]
          BY <1>4, <3>1 DEF HInv, Registered
        <4> QED BY <1>3, <4>1
      <3> QED BY <1>1, <1>2, <1>3, <1>4, <3>1
    <2>4. DOMAIN rooms' \subseteq Code /\ closed' \subseteq 1..opened'
      BY <1>1, <1>2, <1>3 DEF HInv, Registered
    <2> QED BY <1>1, <1>4, <2>1, <2>2, <2>3, <2>4 DEF Registered
  <1>6. \A t : Live(t)' <=> Live(t) \/ t = s
    BY <1>2, <1>3 DEF Live
  <1>7. ~Live(s)
    BY <1>1 DEF HInv, Registered, Live
  <1>8. /\ sessionOf' = Put(sessionOf, c, s) /\ c \notin DOMAIN sessionOf
        /\ hosts' = [hosts EXCEPT ![s] = {c}] /\ people' = people
        /\ UNCHANGED <<held, boardTimer>>
    BY DEF OpenMsg, Unbound
  <1>9. /\ DOMAIN sessionOf' = DOMAIN sessionOf \cup {c} /\ sessionOf'[c] = s
        /\ \A d \in DOMAIN sessionOf : sessionOf'[d] = sessionOf[d]
    BY <1>8 DEF Put
  <1>10. hosts[s] = {} /\ people[s] = {}
    BY <1>1, <1>7 DEF HInv, Routed, RoutedWhereAttached, Members
  <1>11. Routed'
    <2>1. /\ DOMAIN sessionOf' \subseteq Conn
          /\ \A d \in DOMAIN sessionOf' : sessionOf'[d] \in Session
          /\ hosts' \in [Session -> SUBSET Conn] /\ people' \in [Session -> SUBSET Conn]
          /\ \A t \in Session : hosts'[t] \cap people'[t] = {}
      BY <1>1, <1>8, <1>9, <1>10 DEF HInv, Routed
    <2>2. ASSUME NEW d \in Conn, NEW t \in Session
          PROVE  /\ d \in hosts'[t] \cup people'[t] <=> (d \in DOMAIN sessionOf' /\ sessionOf'[d] = t)
                 /\ d \in hosts'[t] \cup people'[t] => Live(t)'
      <3>1. /\ d \in hosts[t] \cup people[t] <=> (d \in DOMAIN sessionOf /\ sessionOf[d] = t)
            /\ d \in hosts[t] \cup people[t] => Live(t)
        BY DEF HInv, Routed, RoutedWhereAttached, Members, Unbound
      <3>2. hosts'[t] = IF t = s THEN {c} ELSE hosts[t]
        BY <1>8 DEF HInv, Routed
      <3> QED BY <1>6, <1>8, <1>9, <1>10, <3>1, <3>2
    <2> QED BY <2>1, <2>2 DEF Routed, RoutedWhereAttached, Members, Unbound
  <1>12. Acting'
    <2>1. QueueFanOut(s, c)
      BY DEF OpenMsg
    <2>2. /\ microtasks' \in Seq(Session)
          /\ \A i, j \in DOMAIN microtasks' : microtasks'[i] = microtasks'[j] => i = j
          /\ \A t : Queued(t)' <=> Queued(t) \/ t = s
      BY <1>1, <2>1, FanOutQueued DEF HInv
    <2> QED BY <1>6, <1>8, <2>2 DEF HInv, Acting
  <1> QED BY <1>5, <1>11, <1>12 DEF HInv

(* A connection comes to a live room, and out is pushed out of it.           *)
LEMMA ComesIn ==
  ASSUME Registered, Routed, SameRegistry, NEW c \in Conn, Unbound(c), NEW s \in Session, Live(s),
         NEW out, out \subseteq Members(s),
         DOMAIN sessionOf' = (DOMAIN sessionOf \ out) \cup {c}, sessionOf'[c] = s,
         \A d \in DOMAIN sessionOf' \ {c} : sessionOf'[d] = sessionOf[d],
         hosts' \in [Session -> SUBSET Conn], people' \in [Session -> SUBSET Conn],
         hosts'[s] \cap people'[s] = {}, hosts'[s] \cup people'[s] = (Members(s) \ out) \cup {c},
         \A t \in Session \ {s} : hosts'[t] = hosts[t] /\ people'[t] = people[t]
  PROVE  Routed'
  <1>1. /\ DOMAIN sessionOf' \subseteq Conn
        /\ \A d \in DOMAIN sessionOf' : sessionOf'[d] \in Session
        /\ \A t \in Session : hosts'[t] \cap people'[t] = {}
    BY DEF Routed
  <1>2. ASSUME NEW d \in Conn, NEW t \in Session
        PROVE  /\ d \in hosts'[t] \cup people'[t] <=> (d \in DOMAIN sessionOf' /\ sessionOf'[d] = t)
               /\ d \in hosts'[t] \cup people'[t] => Live(t)'
    <2>1. /\ d \in hosts[t] \cup people[t] <=> (d \in DOMAIN sessionOf /\ sessionOf[d] = t)
          /\ d \in hosts[t] \cup people[t] => Live(t)
      BY DEF Routed, RoutedWhereAttached, Members, Unbound
    <2>2. Live(t)' <=> Live(t)
      BY DEF SameRegistry, Live
    <2>3. d \in out => d \in DOMAIN sessionOf /\ sessionOf[d] = s
      BY DEF Routed, RoutedWhereAttached, Members, Unbound
    <2>4. c \notin DOMAIN sessionOf
      BY DEF Unbound
    <2>5. CASE t = s
      BY <2>1, <2>2, <2>3, <2>4, <2>5 DEF Members
    <2>6. CASE t # s
      BY <2>1, <2>2, <2>3, <2>4, <2>6 DEF Members
    <2> QED BY <2>5, <2>6
  <1> QED BY <1>1, <1>2 DEF Routed, RoutedWhereAttached, Members, Unbound

(* One goes, from the room it is routed to.                                  *)
LEMMA Goes ==
  ASSUME Registered, Routed, SameRegistry, NEW c \in Conn, ~Unbound(c),
         sessionOf' = omit(sessionOf, {c}),
         hosts' = [hosts EXCEPT ![sessionOf[c]] = @ \ {c}],
         people' = [people EXCEPT ![sessionOf[c]] = @ \ {c}]
  PROVE  Routed'
  <1>1. /\ DOMAIN sessionOf' = DOMAIN sessionOf \ {c} /\ DOMAIN sessionOf \subseteq Conn
        /\ \A d \in DOMAIN sessionOf' : sessionOf'[d] = sessionOf[d] /\ sessionOf'[d] \in Session
    BY DEF omit, Routed
  <1>2. /\ hosts' \in [Session -> SUBSET Conn] /\ people' \in [Session -> SUBSET Conn]
        /\ \A t \in Session : hosts'[t] = IF t = sessionOf[c] THEN hosts[t] \ {c} ELSE hosts[t]
        /\ \A t \in Session : people'[t] = IF t = sessionOf[c] THEN people[t] \ {c} ELSE people[t]
    BY DEF Routed
  <1>3. \A t \in Session : hosts'[t] \cap people'[t] = {}
    BY <1>2 DEF Routed
  <1>4. ASSUME NEW d \in Conn, NEW t \in Session
        PROVE  /\ d \in hosts'[t] \cup people'[t] <=> (d \in DOMAIN sessionOf' /\ sessionOf'[d] = t)
               /\ d \in hosts'[t] \cup people'[t] => Live(t)'
    <2>1. /\ d \in hosts[t] \cup people[t] <=> (d \in DOMAIN sessionOf /\ sessionOf[d] = t)
          /\ d \in hosts[t] \cup people[t] => Live(t)
      BY DEF Routed, RoutedWhereAttached, Members, Unbound
    <2>2. Live(t)' <=> Live(t)
      BY DEF SameRegistry, Live
    <2> QED BY <1>1, <1>2, <2>1, <2>2
  <1> QED BY <1>1, <1>2, <1>3, <1>4 DEF Routed, RoutedWhereAttached, Members, Unbound

(* A fan-out is queued for a live room.                                      *)
LEMMA ActsOn ==
  ASSUME Acting, SameRegistry, NEW s \in Session, Live(s), NEW c, QueueFanOut(s, c),
         held' \in [Session -> Nat], boardTimer' \in [Session -> BOOLEAN],
         \A t \in Session \ {s} : held'[t] = held[t] /\ boardTimer'[t] = boardTimer[t]
  PROVE  Acting'
  <1>1. /\ microtasks' \in Seq(Session)
        /\ \A i, j \in DOMAIN microtasks' : microtasks'[i] = microtasks'[j] => i = j
        /\ \A t : Queued(t)' <=> Queued(t) \/ t = s
    BY FanOutQueued
  <1>2. \A t : Live(t)' <=> Live(t)
    BY DEF SameRegistry, Live
  <1> QED BY <1>1, <1>2 DEF Acting

LEMMA RoomOfCode ==
  ASSUME Registered, NEW k \in DOMAIN rooms
  PROVE  rooms[k] \in Session /\ Live(rooms[k])
  BY HubAssumption DEF Registered, Live, Session

LEMMA RoomOfConn ==
  ASSUME Routed, NEW c \in Conn, ~Unbound(c)
  PROVE  sessionOf[c] \in Session /\ Live(sessionOf[c]) /\ c \in Members(sessionOf[c])
  BY DEF Routed, RoutedWhereAttached, Unbound

LEMMA JoinKeeps ==
  ASSUME HInv, NEW c \in Conn, NEW k \in Code, JoinMsg(c, k)
  PROVE  HInv'
  <1>1. PICK s \in Session : s = rooms[k] /\ Live(s)
    BY RoomOfCode DEF JoinMsg, HInv
  <1>2. /\ SameRegistry /\ UNCHANGED <<hosts, boardTimer, closed>> /\ Unbound(c) /\ c \notin DOMAIN sessionOf
        /\ QueueFanOut(s, c)
    BY <1>1 DEF JoinMsg, SameRegistry, registry, Unbound
  <1>3. c \notin Members(s) /\ hosts[s] \cap people[s] = {}
    BY <1>2 DEF HInv, Routed, RoutedWhereAttached
  <1>4. PICK out \in SUBSET people[s] :
          /\ people' = [people EXCEPT ![s] = (@ \ out) \cup {c}]
          /\ DOMAIN sessionOf' = (DOMAIN sessionOf \ out) \cup {c} /\ sessionOf'[c] = s
          /\ \A d \in DOMAIN sessionOf' \ {c} : sessionOf'[d] = sessionOf[d]
    <2>1. CASE people' = [people EXCEPT ![s] = @ \cup {c}] /\ sessionOf' = Put(sessionOf, c, s)
      <3>1. people' = [people EXCEPT ![s] = (@ \ {}) \cup {c}] /\ {} \in SUBSET people[s]
        BY <2>1
      <3>2. /\ DOMAIN sessionOf' = (DOMAIN sessionOf \ {}) \cup {c} /\ sessionOf'[c] = s
            /\ \A d \in DOMAIN sessionOf' \ {c} : sessionOf'[d] = sessionOf[d]
        BY <2>1 DEF Put
      <3> QED BY <3>1, <3>2
    <2>2. ASSUME NEW out \in people[s],
                 people' = [people EXCEPT ![s] = (@ \ {out}) \cup {c}],
                 sessionOf' = Put(omit(sessionOf, {out}), c, s)
          PROVE  /\ people' = [people EXCEPT ![s] = (@ \ {out}) \cup {c}] /\ {out} \in SUBSET people[s]
                 /\ DOMAIN sessionOf' = (DOMAIN sessionOf \ {out}) \cup {c} /\ sessionOf'[c] = s
                 /\ \A d \in DOMAIN sessionOf' \ {c} : sessionOf'[d] = sessionOf[d]
      BY <2>2 DEF Put, omit
    <2> QED BY <1>1, <2>1, <2>2 DEF JoinMsg
  <1>5. held' = held \/ (held[s] > 0 /\ held' = [held EXCEPT ![s] = @ - 1])
    BY <1>1 DEF JoinMsg
  <1>6. /\ hosts' \in [Session -> SUBSET Conn] /\ people' \in [Session -> SUBSET Conn]
        /\ hosts'[s] = hosts[s] /\ people'[s] = (people[s] \ out) \cup {c}
        /\ \A t \in Session \ {s} : hosts'[t] = hosts[t] /\ people'[t] = people[t]
    BY <1>2, <1>4 DEF HInv, Routed
  <1>7. hosts'[s] \cap people'[s] = {} /\ hosts'[s] \cup people'[s] = (Members(s) \ out) \cup {c}
    BY <1>3, <1>4, <1>6 DEF Members
  <1>8. Registered'
    BY <1>2, RegistryKept DEF HInv, Registered
  <1>9. Routed'
    <2>1. out \subseteq Members(s)
      BY <1>4 DEF Members
    <2> QED BY <1>1, <1>2, <1>4, <1>6, <1>7, <2>1, ComesIn DEF HInv
  <1>10. Acting'
    <2>1. held' \in [Session -> Nat] /\ \A t \in Session \ {s} : held'[t] = held[t]
      BY <1>5 DEF HInv, Acting
    <2>2. boardTimer' \in [Session -> BOOLEAN] /\ \A t \in Session : boardTimer'[t] = boardTimer[t]
      BY <1>2 DEF HInv, Acting
    <2> QED BY <1>1, <1>2, <2>1, <2>2, ActsOn DEF HInv
  <1> QED BY <1>8, <1>9, <1>10 DEF HInv

LEMMA ResumeHostKeeps ==
  ASSUME HInv, NEW c \in Conn, NEW k \in Code, ResumeHostMsg(c, k)
  PROVE  HInv'
  <1>1. PICK s \in Session : s = rooms[k] /\ Live(s)
    BY RoomOfCode DEF ResumeHostMsg, HInv
  <1>2. /\ SameRegistry /\ UNCHANGED <<people, held, closed>> /\ Unbound(c) /\ QueueFanOut(s, c)
        /\ hosts' = [hosts EXCEPT ![s] = {c}]
        /\ sessionOf' = Put(omit(sessionOf, hosts[s]), c, s)
        /\ boardTimer' = [boardTimer EXCEPT ![s] = FALSE]
    BY <1>1 DEF ResumeHostMsg, SameRegistry, registry
  <1>3. c \notin Members(s) /\ hosts[s] \cap people[s] = {}
    BY <1>2 DEF HInv, Routed, RoutedWhereAttached
  <1>4. /\ DOMAIN sessionOf' = (DOMAIN sessionOf \ hosts[s]) \cup {c} /\ sessionOf'[c] = s
        /\ \A d \in DOMAIN sessionOf' \ {c} : sessionOf'[d] = sessionOf[d]
    BY <1>2 DEF Put, omit
  <1>5. /\ hosts' \in [Session -> SUBSET Conn] /\ people' \in [Session -> SUBSET Conn]
        /\ hosts'[s] = {c} /\ people'[s] = people[s]
        /\ \A t \in Session \ {s} : hosts'[t] = hosts[t] /\ people'[t] = people[t]
    BY <1>2 DEF HInv, Routed
  <1>6. hosts'[s] \cap people'[s] = {} /\ hosts'[s] \cup people'[s] = (Members(s) \ hosts[s]) \cup {c}
    BY <1>3, <1>5 DEF Members
  <1>7. Registered'
    BY <1>2, RegistryKept DEF HInv, Registered
  <1>8. Routed'
    <2>1. hosts[s] \subseteq Members(s)
      BY DEF Members
    <2> QED BY <1>1, <1>2, <1>4, <1>5, <1>6, <2>1, ComesIn DEF HInv
  <1>9. Acting'
    <2>1. /\ held' \in [Session -> Nat] /\ boardTimer' \in [Session -> BOOLEAN]
          /\ \A t \in Session \ {s} : held'[t] = held[t] /\ boardTimer'[t] = boardTimer[t]
      BY <1>2 DEF HInv, Acting
    <2> QED BY <1>1, <1>2, <2>1, ActsOn DEF HInv
  <1> QED BY <1>7, <1>8, <1>9 DEF HInv

LEMMA RouteKeeps ==
  ASSUME HInv, NEW c \in Conn, RouteMsg(c)
  PROVE  HInv'
  <1>1. PICK s \in Session : s = sessionOf[c] /\ Live(s)
    BY RoomOfConn DEF RouteMsg, HInv
  <1>2. /\ SameRegistry /\ QueueFanOut(s, c)
        /\ UNCHANGED <<sessionOf, hosts, people, boardTimer, held, closed>>
    BY <1>1 DEF RouteMsg, SameRegistry, registry
  <1>3. Registered' /\ \A t : Live(t)' <=> Live(t)
    BY <1>2, RegistryKept DEF HInv, Registered
  <1>4. Routed'
    BY <1>2, <1>3 DEF HInv, Routed, RoutedWhereAttached, Members, Unbound
  <1>5. Acting'
    <2>1. held' \in [Session -> Nat] /\ boardTimer' \in [Session -> BOOLEAN]
      BY <1>2 DEF HInv, Acting
    <2> QED BY <1>1, <1>2, <2>1, ActsOn DEF HInv
  <1> QED BY <1>3, <1>4, <1>5 DEF HInv

LEMMA LeaveKeeps ==
  ASSUME HInv, NEW c \in Conn, LeaveMsg(c)
  PROVE  HInv'
  <1>1. PICK s \in Session : s = sessionOf[c] /\ Live(s) /\ c \in Members(s)
    BY RoomOfConn DEF LeaveMsg, HInv
  <1>2. /\ SameRegistry /\ QueueFanOut(s, c) /\ UNCHANGED <<boardTimer, held>>
        /\ closed \subseteq closed' /\ closed' \subseteq closed \cup {s}
    BY <1>1 DEF LeaveMsg, SameRegistry, registry
  <1>3. s \in 1..opened
    BY <1>1 DEF HInv, Registered, Live
  <1>4. Registered'
    BY <1>2, <1>3, RegistryKept DEF HInv, Registered
  <1>5. Routed'
    BY <1>2, Goes DEF HInv, LeaveMsg
  <1>6. Acting'
    <2>1. held' \in [Session -> Nat] /\ boardTimer' \in [Session -> BOOLEAN]
      BY <1>2 DEF HInv, Acting
    <2> QED BY <1>1, <1>2, <2>1, ActsOn DEF HInv
  <1> QED BY <1>4, <1>5, <1>6 DEF HInv

LEMMA DisconnectKeeps ==
  ASSUME HInv, NEW c \in Conn, Disconnect(c)
  PROVE  HInv'
  <1>1. PICK s \in Session : s = sessionOf[c] /\ Live(s)
    BY RoomOfConn DEF Disconnect, HInv
  <1>2. /\ SameRegistry /\ UNCHANGED <<closed, microtasks>>
        /\ boardTimer' = [boardTimer EXCEPT ![s] = @ \/ c \in hosts[s]]
        /\ held' = held \/ held' = [held EXCEPT ![s] = @ + 1]
    BY <1>1 DEF Disconnect, SameRegistry, registry
  <1>3. Registered' /\ \A t : Live(t)' <=> Live(t)
    BY <1>2, RegistryKept DEF HInv, Registered
  <1>4. Routed'
    BY <1>2, Goes DEF HInv, Disconnect
  <1>5. Acting'
    <2>1. /\ held' \in [Session -> Nat] /\ boardTimer' \in [Session -> BOOLEAN]
          /\ \A t \in Session \ {s} : held'[t] = held[t] /\ boardTimer'[t] = boardTimer[t]
      BY <1>2 DEF HInv, Acting
    <2> QED BY <1>1, <1>2, <1>3, <2>1 DEF HInv, Acting, Queued
  <1> QED BY <1>3, <1>4, <1>5 DEF HInv

LEMMA TimerKeeps ==
  ASSUME HInv, NEW s \in Session, SeatGivenUp(s) \/ BoardGivenUp(s)
  PROVE  HInv'
  <1>1. Live(s)
    BY DEF SeatGivenUp, BoardGivenUp, HInv, Acting
  <1>2. /\ SameRegistry /\ QueueFanOut(s, NoConn) /\ UNCHANGED <<sessionOf, hosts, people>>
        /\ closed \subseteq closed' /\ closed' \subseteq closed \cup {s}
        /\ held' = held \/ (held[s] > 0 /\ held' = [held EXCEPT ![s] = @ - 1])
        /\ boardTimer' = boardTimer \/ boardTimer' = [boardTimer EXCEPT ![s] = FALSE]
    BY DEF SeatGivenUp, BoardGivenUp, SameRegistry, registry
  <1>3. s \in 1..opened
    BY <1>1 DEF HInv, Registered, Live
  <1>4. Registered' /\ \A t : Live(t)' <=> Live(t)
    BY <1>2, <1>3, RegistryKept DEF HInv, Registered
  <1>5. Routed'
    BY <1>2, <1>4 DEF HInv, Routed, RoutedWhereAttached, Members, Unbound
  <1>6. Acting'
    <2>1. held' \in [Session -> Nat] /\ \A t \in Session \ {s} : held'[t] = held[t]
      BY <1>2 DEF HInv, Acting
    <2>2. /\ boardTimer' \in [Session -> BOOLEAN]
          /\ \A t \in Session \ {s} : boardTimer'[t] = boardTimer[t]
      BY <1>2 DEF HInv, Acting
    <2> QED BY <1>1, <1>2, <2>1, <2>2, ActsOn DEF HInv
  <1> QED BY <1>4, <1>5, <1>6 DEF HInv

LEMMA FramesKeeps ==
  ASSUME HInv, Frames
  PROVE  HInv'
  <1>1. /\ SameRegistry /\ microtasks # <<>> /\ microtasks' = Tail(microtasks)
        /\ UNCHANGED <<sessionOf, hosts, people, boardTimer, held, closed>>
    BY DEF Frames, SameRegistry, registry
  <1>2. Registered' /\ \A t : Live(t)' <=> Live(t)
    BY <1>1, RegistryKept DEF HInv, Registered
  <1>3. Routed'
    BY <1>1, <1>2 DEF HInv, Routed, RoutedWhereAttached, Members, Unbound
  <1>4. Acting'
    BY <1>1, <1>2, FirstDone DEF HInv, Acting
  <1> QED BY <1>2, <1>3, <1>4 DEF HInv

(* The room that is closed out is in the registry, under its code and no     *)
(* other: only its entry goes.                                               *)
LEMMA CloseOutKeeps ==
  ASSUME HInv, CloseOut
  PROVE  HInv'
  <1>1. PICK s \in Session : s = Head(microtasks) /\ Queued(s)
    BY FirstDone DEF CloseOut, HInv
  <1>2. /\ s \in closed /\ rooms' = omit(rooms, {code[s]}) /\ UNCHANGED <<opened, code, closed>>
        /\ sessionOf' = omit(sessionOf, Members(s))
        /\ hosts' = [hosts EXCEPT ![s] = {}] /\ people' = [people EXCEPT ![s] = {}]
        /\ boardTimer' = [boardTimer EXCEPT ![s] = FALSE] /\ held' = [held EXCEPT ![s] = 0]
        /\ microtasks # <<>> /\ microtasks' = Tail(microtasks)
    BY <1>1 DEF CloseOut, BystandersUnbound, TimersCancelled
  <1>3. s \in 1..opened /\ code[s] \in DOMAIN rooms /\ rooms[code[s]] = s
    BY <1>1 DEF HInv, Acting, Registered, Live
  <1>4. /\ DOMAIN rooms' = DOMAIN rooms \ {code[s]}
        /\ \A k \in DOMAIN rooms' : rooms'[k] = rooms[k] /\ rooms[k] # s
    BY <1>2, <1>3 DEF omit, HInv, Registered
  <1>5. \A t : Live(t)' <=> Live(t) /\ t # s
    <2>1. ASSUME NEW t, Live(t), t # s PROVE Live(t)'
      <3>1. PICK k \in DOMAIN rooms : rooms[k] = t
        BY <2>1 DEF Live
      <3>2. k # code[s]
        BY <1>3, <2>1, <3>1
      <3> QED BY <1>4, <3>1, <3>2 DEF Live
    <2>2. ASSUME NEW t, Live(t)' PROVE Live(t) /\ t # s
      BY <1>4, <2>2 DEF Live
    <2> QED BY <2>1, <2>2
  <1>6. Registered'
    <2>1. \A t \in 1..opened : t \notin closed => code[t] \in DOMAIN rooms' /\ rooms'[code[t]] = t
      <3> SUFFICES ASSUME NEW t \in 1..opened, t \notin closed
                   PROVE  code[t] \in DOMAIN rooms' /\ rooms'[code[t]] = t
        OBVIOUS
      <3>1. code[t] \in DOMAIN rooms /\ rooms[code[t]] = t /\ t # s
        BY <1>2 DEF HInv, Registered
      <3>2. code[t] # code[s]
        BY <1>3, <3>1
      <3> QED BY <1>4, <3>1, <3>2
    <2> QED BY <1>2, <1>4, <2>1 DEF HInv, Registered
  <1>7. Routed'
    <2>1. /\ DOMAIN sessionOf' = DOMAIN sessionOf \ Members(s)
          /\ \A c \in DOMAIN sessionOf' : sessionOf'[c] = sessionOf[c]
      BY <1>2 DEF omit
    <2>2. /\ hosts' \in [Session -> SUBSET Conn] /\ people' \in [Session -> SUBSET Conn]
          /\ hosts'[s] = {} /\ people'[s] = {}
          /\ \A t \in Session \ {s} : hosts'[t] = hosts[t] /\ people'[t] = people[t]
      BY <1>2 DEF HInv, Routed
    <2>3. ASSUME NEW d \in Conn, NEW t \in Session
          PROVE  /\ d \in hosts'[t] \cup people'[t] <=> (d \in DOMAIN sessionOf' /\ sessionOf'[d] = t)
                 /\ d \in hosts'[t] \cup people'[t] => Live(t)'
      <3>1. /\ d \in hosts[t] \cup people[t] <=> (d \in DOMAIN sessionOf /\ sessionOf[d] = t)
            /\ d \in hosts[t] \cup people[t] => Live(t)
            /\ d \in Members(s) <=> (d \in DOMAIN sessionOf /\ sessionOf[d] = s)
        BY DEF HInv, Routed, RoutedWhereAttached, Members, Unbound
      <3>2. CASE t = s
        BY <2>1, <2>2, <3>1, <3>2
      <3>3. CASE t # s
        BY <1>5, <2>1, <2>2, <3>1, <3>3
      <3> QED BY <3>2, <3>3
    <2>4. \A t \in Session : hosts'[t] \cap people'[t] = {}
      BY <2>2 DEF HInv, Routed
    <2>5. DOMAIN sessionOf' \subseteq Conn /\ \A c \in DOMAIN sessionOf' : sessionOf'[c] \in Session
      BY <2>1 DEF HInv, Routed
    <2> QED BY <2>2, <2>3, <2>4, <2>5 DEF Routed, RoutedWhereAttached, Members, Unbound
  <1>8. Acting'
    <2>1. /\ microtasks' \in Seq(Session)
          /\ \A i, j \in DOMAIN microtasks' : microtasks'[i] = microtasks'[j] => i = j
          /\ \A t : Queued(t)' <=> Queued(t) /\ t # s
      BY <1>1, <1>2, FirstDone DEF HInv
    <2>2. /\ held' \in [Session -> Nat] /\ boardTimer' \in [Session -> BOOLEAN]
          /\ held'[s] = 0 /\ ~boardTimer'[s]
          /\ \A t \in Session \ {s} : held'[t] = held[t] /\ boardTimer'[t] = boardTimer[t]
      BY <1>2 DEF HInv, Acting
    <2> QED BY <1>5, <2>1, <2>2 DEF HInv, Acting
  <1> QED BY <1>6, <1>7, <1>8 DEF HInv

LEMMA NextHInv ==
  ASSUME HInv, [HubNext]_hubVars
  PROVE  HInv'
  <1>1. CASE UNCHANGED hubVars
    BY <1>1 DEF hubVars, registry, HInv, Registered, Routed, RoutedWhereAttached, Members,
       Unbound, Acting, Live, Queued
  <1>2. CASE HubNext
    BY <1>2, OpenKeeps, JoinKeeps, ResumeHostKeeps, RouteKeeps, LeaveKeeps, DisconnectKeeps,
       TimerKeeps, FramesKeeps, CloseOutKeeps DEF HubNext
  <1> QED BY <1>1, <1>2

LEMMA HubHInv == HubSpec => []HInv
  BY InitHInv, NextHInv, PTL DEF HubSpec

(* A connection is routed to the one live room it is attached to             *)
(* (roomHub.ts:102-107, 130-138, 191-202).                                   *)
THEOREM HubRoutesWhereAttached == HubSpec => []RoutedWhereAttached
  <1>1. HInv => RoutedWhereAttached
    BY DEF HInv, Routed
  <1> QED BY <1>1, HubHInv, PTL

(* A code leads to its own room, and to no other, as often as codes are used *)
(* again (roomHub.ts:124-140, roomCode.ts:7-13).                             *)
THEOREM HubCodesLeadHome == HubSpec => []CodesLeadHome
  <1>1. HInv => CodesLeadHome
    <2> SUFFICES ASSUME HInv PROVE CodesLeadHome
      OBVIOUS
    <2>1. \A s \in 1..opened : Live(s) => rooms[code[s]] = s
      BY DEF HInv, Registered, Live
    <2> QED BY <2>1 DEF HInv, Registered, CodesLeadHome
  <1> QED BY <1>1, HubHInv, PTL

(* A dropped room has nothing left to act: it cannot take a later room of    *)
(* its code out of the registry (roomSession.ts:318-332).                    *)
THEOREM HubDroppedIsQuiet == HubSpec => []DroppedIsQuiet
  <1>1. HInv => DroppedIsQuiet
    BY HubAssumption DEF HInv, Registered, Acting, DroppedIsQuiet, Session
  <1> QED BY <1>1, HubHInv, PTL

-----------------------------------------------------------------------------
(* The per-address count.  Rooms are finitely many, one more at a time.      *)
RoomsOpenedBy(a) == {k \in DOMAIN openedBy : openedBy[k] = a}

Counted ==
  /\ IsFiniteSet(DOMAIN rooms)
  /\ openedBy \in [DOMAIN openedBy -> Address]
  /\ roomsPerAddress \in [DOMAIN roomsPerAddress -> Nat]
  /\ OpenersCounted

LEMMA OpenedFinite ==
  ASSUME Counted, NEW a
  PROVE  IsFiniteSet(RoomsOpenedBy(a))
  <1>1. RoomsOpenedBy(a) \in SUBSET DOMAIN rooms
    BY DEF Counted, OpenersCounted, RoomsOpenedBy
  <1> QED BY <1>1, FS_Subset DEF Counted

LEMMA InitCounted == HubInit => Counted
  <1> SUFFICES ASSUME HubInit PROVE Counted
    OBVIOUS
  <1>1. DOMAIN rooms = {} /\ DOMAIN openedBy = {} /\ DOMAIN roomsPerAddress = {}
    BY DEF HubInit
  <1>2. \A a : {k \in DOMAIN openedBy : openedBy[k] = a} = {} /\ Opened(a) = 0
    BY <1>1 DEF Opened
  <1>3. OpenersCounted
    BY <1>1, <1>2, FS_EmptySet, HubAssumption DEF OpenersCounted
  <1> QED BY <1>1, <1>3, FS_EmptySet DEF Counted

LEMMA CountStays ==
  ASSUME Counted, UNCHANGED registry
  PROVE  Counted'
  BY DEF Counted, OpenersCounted, Opened, registry

LEMMA OpenCounts ==
  ASSUME Counted, NEW c \in Conn, NEW k \in Code, OpenMsg(c, k)
  PROVE  Counted'
  <1>1. /\ k \notin DOMAIN rooms /\ k \notin DOMAIN openedBy
        /\ DOMAIN rooms' = DOMAIN rooms \cup {k} /\ IsFiniteSet(DOMAIN rooms')
    <2>1. rooms' = Put(rooms, k, opened + 1) /\ k \notin DOMAIN rooms
      BY DEF OpenMsg, NotTaken
    <2>2. DOMAIN rooms' = DOMAIN rooms \cup {k}
      BY <2>1 DEF Put
    <2> QED BY <2>1, <2>2, FS_AddElement DEF Counted, OpenersCounted
  <1>2. CASE address[c] = NoAddress
    <2>1. UNCHANGED <<openedBy, roomsPerAddress>>
      BY <1>2 DEF OpenMsg
    <2> QED BY <1>1, <2>1 DEF Counted, OpenersCounted, Opened
  <1>3. CASE address[c] # NoAddress
    <2>1. PICK a \in Address : a = address[c]
      BY <1>3, HubAssumption
    <2>2. /\ Opened(a) < maxRoomsPerAddress
          /\ openedBy' = Put(openedBy, k, a)
          /\ roomsPerAddress' = Put(roomsPerAddress, a, Opened(a) + 1)
      BY <1>3, <2>1 DEF OpenMsg
    <2>3. Opened(a) \in Nat /\ Opened(a) = Cardinality(RoomsOpenedBy(a))
      BY DEF Counted, OpenersCounted, Opened, RoomsOpenedBy
    <2>4. /\ DOMAIN openedBy' = DOMAIN openedBy \cup {k} /\ openedBy'[k] = a
          /\ \A l \in DOMAIN openedBy : openedBy'[l] = openedBy[l]
          /\ openedBy' \in [DOMAIN openedBy' -> Address]
      BY <1>1, <2>2 DEF Put, Counted
    <2>5. /\ roomsPerAddress' \in [DOMAIN roomsPerAddress' -> Nat]
          /\ Opened(a)' = Opened(a) + 1
          /\ \A b : b # a => Opened(b)' = Opened(b)
      BY <2>2, <2>3 DEF Put, Counted, Opened
    <2>6. RoomsOpenedBy(a)' = RoomsOpenedBy(a) \cup {k} /\ k \notin RoomsOpenedBy(a)
      BY <1>1, <2>4 DEF RoomsOpenedBy
    <2>7. \A b : b # a => RoomsOpenedBy(b)' = RoomsOpenedBy(b)
      BY <1>1, <2>4 DEF RoomsOpenedBy
    <2>8. Cardinality(RoomsOpenedBy(a)') = Cardinality(RoomsOpenedBy(a)) + 1
      BY <2>6, OpenedFinite, FS_AddElement
    <2>9. \A b \in Address : /\ Opened(b)' = Cardinality(RoomsOpenedBy(b)')
                             /\ Opened(b)' <= maxRoomsPerAddress
      <3> SUFFICES ASSUME NEW b \in Address
                   PROVE  /\ Opened(b)' = Cardinality(RoomsOpenedBy(b)')
                          /\ Opened(b)' <= maxRoomsPerAddress
        OBVIOUS
      <3>1. Opened(b) = Cardinality(RoomsOpenedBy(b)) /\ Opened(b) <= maxRoomsPerAddress
        BY DEF Counted, OpenersCounted, RoomsOpenedBy
      <3>2. CASE b = a
        BY <2>2, <2>3, <2>5, <2>8, <3>2, HubAssumption
      <3>3. CASE b # a
        BY <2>5, <2>7, <3>1, <3>3
      <3> QED BY <3>2, <3>3
    <2>10. DOMAIN openedBy' \subseteq DOMAIN rooms'
      BY <1>1, <2>4 DEF Counted, OpenersCounted
    <2> QED BY <1>1, <2>4, <2>5, <2>9, <2>10 DEF Counted, OpenersCounted, RoomsOpenedBy
  <1> QED BY <1>2, <1>3

LEMMA CloseOutCounts ==
  ASSUME HInv, Counted, CloseOut
  PROVE  Counted'
  <1>1. PICK k : /\ rooms' = omit(rooms, {k}) /\ forgetOpener(k)
    BY DEF CloseOut
  <1>2. DOMAIN rooms' = DOMAIN rooms \ {k} /\ IsFiniteSet(DOMAIN rooms')
    <2>1. DOMAIN rooms' = DOMAIN rooms \ {k}
      BY <1>1 DEF omit
    <2> QED BY <2>1, FS_RemoveElement DEF Counted
  <1>3. CASE k \notin DOMAIN openedBy
    <2>1. UNCHANGED <<openedBy, roomsPerAddress>>
      BY <1>1, <1>3 DEF forgetOpener
    <2> QED BY <1>2, <1>3, <2>1 DEF Counted, OpenersCounted, Opened
  <1>4. CASE k \in DOMAIN openedBy
    <2>1. PICK a \in Address : a = openedBy[k]
      BY <1>4 DEF Counted
    <2>2. openedBy' = omit(openedBy, {k}) /\ roomsPerAddress' = CountLowered(a)
      BY <1>1, <1>4, <2>1 DEF forgetOpener
    <2>3. Opened(a) = Cardinality(RoomsOpenedBy(a)) /\ k \in RoomsOpenedBy(a)
      BY <1>4, <2>1 DEF Counted, OpenersCounted, RoomsOpenedBy
    <2>4. Opened(a) \in Nat /\ Opened(a) # 0
      BY <2>3, OpenedFinite, FS_CardinalityType, FS_EmptySet
    <2>5. a \in DOMAIN roomsPerAddress
      BY <2>4 DEF Opened
    <2>6. /\ roomsPerAddress' \in [DOMAIN roomsPerAddress' -> Nat]
          /\ Opened(a)' = Opened(a) - 1
          /\ \A b : b # a => Opened(b)' = Opened(b)
      <3>1. CASE Opened(a) - 1 <= 0
        BY <2>2, <2>4, <3>1 DEF CountLowered, omit, Opened, Counted
      <3>2. CASE ~(Opened(a) - 1 <= 0)
        BY <2>2, <2>4, <2>5, <3>2 DEF CountLowered, Opened, Counted
      <3> QED BY <3>1, <3>2
    <2>7. /\ DOMAIN openedBy' = DOMAIN openedBy \ {k}
          /\ \A l \in DOMAIN openedBy' : openedBy'[l] = openedBy[l]
          /\ openedBy' \in [DOMAIN openedBy' -> Address]
      BY <2>2 DEF omit, Counted
    <2>8. /\ RoomsOpenedBy(a)' = RoomsOpenedBy(a) \ {k}
          /\ \A b : b # a => RoomsOpenedBy(b)' = RoomsOpenedBy(b)
      BY <2>1, <2>7 DEF RoomsOpenedBy
    <2>9. Cardinality(RoomsOpenedBy(a)') = Cardinality(RoomsOpenedBy(a)) - 1
      BY <2>3, <2>8, OpenedFinite, FS_RemoveElement
    <2>10. \A b \in Address : /\ Opened(b)' = Cardinality(RoomsOpenedBy(b)')
                              /\ Opened(b)' <= maxRoomsPerAddress
      <3> SUFFICES ASSUME NEW b \in Address
                   PROVE  /\ Opened(b)' = Cardinality(RoomsOpenedBy(b)')
                          /\ Opened(b)' <= maxRoomsPerAddress
        OBVIOUS
      <3>1. Opened(b) = Cardinality(RoomsOpenedBy(b)) /\ Opened(b) <= maxRoomsPerAddress
        BY DEF Counted, OpenersCounted, RoomsOpenedBy
      <3>2. CASE b = a
        BY <2>3, <2>4, <2>6, <2>9, <3>1, <3>2, HubAssumption
      <3>3. CASE b # a
        BY <2>6, <2>8, <3>1, <3>3
      <3> QED BY <3>2, <3>3
    <2>11. DOMAIN openedBy' \subseteq DOMAIN rooms'
      BY <1>2, <2>7 DEF Counted, OpenersCounted
    <2> QED BY <1>2, <2>6, <2>7, <2>10, <2>11 DEF Counted, OpenersCounted, RoomsOpenedBy
  <1> QED BY <1>3, <1>4

LEMMA NextCounted ==
  ASSUME HInv, Counted, [HubNext]_hubVars
  PROVE  Counted'
  <1>1. CASE UNCHANGED hubVars
    BY <1>1, CountStays DEF hubVars
  <1>2. ASSUME NEW c \in Conn, NEW k \in Code, OpenMsg(c, k) \/ JoinMsg(c, k) \/ ResumeHostMsg(c, k)
        PROVE  Counted'
    BY <1>2, OpenCounts, CountStays DEF JoinMsg, ResumeHostMsg
  <1>3. ASSUME NEW c \in Conn, RouteMsg(c) \/ LeaveMsg(c) \/ Disconnect(c)
        PROVE  Counted'
    BY <1>3, CountStays DEF RouteMsg, LeaveMsg, Disconnect
  <1>4. ASSUME NEW s \in Session, SeatGivenUp(s) \/ BoardGivenUp(s)
        PROVE  Counted'
    BY <1>4, CountStays DEF SeatGivenUp, BoardGivenUp
  <1>5. CASE Frames
    BY <1>5, CountStays DEF Frames
  <1>6. CASE CloseOut
    BY <1>6, CloseOutCounts
  <1> QED BY <1>1, <1>2, <1>3, <1>4, <1>5, <1>6 DEF HubNext

(* The per-address count is the number of live rooms that address opened,    *)
(* within the limit (roomHub.ts:118-144, 150-162).                           *)
THEOREM HubOpenersCounted == HubSpec => []OpenersCounted
  <1>1. Counted => OpenersCounted
    BY DEF Counted
  <1>2. HubSpec => [](HInv /\ Counted)
    BY InitHInv, NextHInv, InitCounted, NextCounted, PTL DEF HubSpec
  <1> QED BY <1>1, <1>2, PTL
=============================================================================
