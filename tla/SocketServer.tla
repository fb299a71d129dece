----------------------------- MODULE SocketServer -----------------------------
(***************************************************************************)
(* The sockets of the server (apps/server/src/socketServer.ts): how many   *)
(* one address holds, the heartbeat that finds the dead ones, the deadline *)
(* for those that never join, and the limit on what one may send.  Of the  *)
(* hub it keeps which sockets are bound to a room.                         *)
(*                                                                         *)
(* The socket library closes a socket in two steps: `close` asks the peer, *)
(* and messages still come in until it has answered; a dead peer does not  *)
(* answer.  `terminate` does not ask.  Either way one `close` event is the *)
(* end of the socket.  A peer that is well answers a ping before the next  *)
(* sweep is due: a heartbeat is twenty seconds.                            *)
(***************************************************************************)
EXTENDS Naturals, FiniteSets, Sequences

CONSTANTS MaxSocket, Ip, NoIp,
          MaxConnsPerIp, Burst, MaxDropped,
          \* of the model: a bound on connections, and the sockets that may
          \* send more than their rate
          MaxOpened, Chatty

ASSUME SocketServerAssumption ==
  /\ MaxSocket \in Nat /\ NoIp \notin Ip
  /\ MaxConnsPerIp \in Nat \ {0} /\ Burst \in Nat \ {0} /\ MaxDropped \in Nat \ {0}
  /\ MaxOpened \in Nat /\ Chatty \subseteq 1..MaxSocket

Socket == 1..MaxSocket

VARIABLES perIp,    \* address -> sockets counted; no entry for none
          state,    \* socket -> free, open, closing or terminated
          ipOf,     \* socket -> its address
          counted,  \* the sockets whose close gives their count back
          alive,    \* socket -> yes, no, or unset for one never served
          pinged,   \* the sockets with a ping they have not answered
          dead,     \* the sockets whose peer has gone without a close
          deadline, \* the sockets whose handshake deadline is running
          bound,    \* the sockets the hub has bound to a room
          tokens,   \* socket -> what is left in its bucket
          dropped,  \* socket -> messages refused since one was accepted
          why,      \* socket -> why the server has closed it
          log,      \* socket -> which of its last messages were accepted
          opened

rateVars == <<tokens, dropped, log>>
vars == <<perIp, state, ipOf, counted, alive, pinged, dead, deadline, bound, rateVars,
          why, opened>>

Init ==
  /\ perIp = [ip \in {} |-> 0]
  /\ state = [s \in Socket |-> "free"]
  /\ ipOf = [s \in Socket |-> NoIp]
  /\ counted = {} /\ pinged = {} /\ dead = {} /\ deadline = {} /\ bound = {}
  /\ alive = [s \in Socket |-> "unset"]
  /\ tokens = [s \in Socket |-> Burst]
  /\ dropped = [s \in Socket |-> 0]
  /\ log = [s \in Socket |-> <<>>]
  /\ why = [s \in Socket |-> "none"]
  /\ opened = 0

Held(ip) == IF ip \in DOMAIN perIp THEN perIp[ip] ELSE 0
SetHeld(ip, n) ==
  IF n = 0 THEN [x \in DOMAIN perIp \ {ip} |-> perIp[x]]
  ELSE [x \in DOMAIN perIp \cup {ip} |-> IF x = ip THEN n ELSE perIp[x]]

Is(s, now) == state[s] = now
Shut(s, reason) ==
  /\ state' = [state EXCEPT ![s] = IF @ = "open" THEN "closing" ELSE @]
  /\ why' = [why EXCEPT ![s] = IF state[s] = "open" THEN reason ELSE @]

-----------------------------------------------------------------------------
CountRefusedToo(ip) == SetHeld(ip, Held(ip) + 1)
NotCounted(ip) == perIp

Serve(s, ip) ==
  /\ Held(ip) < MaxConnsPerIp
  /\ perIp' = SetHeld(ip, Held(ip) + 1)
  /\ state' = [state EXCEPT ![s] = "open"]
  /\ counted' = counted \cup {s} /\ deadline' = deadline \cup {s}
  /\ alive' = [alive EXCEPT ![s] = "yes"]
  /\ UNCHANGED why

(* Over the cap: closed at once, neither counted nor listened to.            *)
Refuse(s, ip) ==
  /\ Held(ip) >= MaxConnsPerIp
  /\ perIp' = NotCounted(ip)
  /\ state' = [state EXCEPT ![s] = "closing"]
  /\ why' = [why EXCEPT ![s] = "tooManyConnections"]
  /\ UNCHANGED <<counted, deadline, alive>>

Connect(s, ip) ==
  /\ Is(s, "free") /\ \A x \in 1..s - 1 : ~Is(x, "free")
  /\ opened < MaxOpened
  /\ opened' = opened + 1
  /\ ipOf' = [ipOf EXCEPT ![s] = ip]
  /\ Serve(s, ip) \/ Refuse(s, ip)
  /\ UNCHANGED <<pinged, dead, bound, rateVars>>

-----------------------------------------------------------------------------
(* What a message that gets through may do in the hub. *)
Binds(s) == bound' = bound \cup {s}
Unbinds(s) == bound' = bound \ {s}
Other == UNCHANGED bound

(* The history the model keeps: the last MaxDropped messages.                *)
Logged(s, accepted) ==
  LET all == Append(log[s], accepted)
  IN  IF Len(all) > MaxDropped THEN Tail(all) ELSE all

NeverReset(s) == dropped[s]
Reset(s) == 0

(* take: the bucket has filled up, by some, since the last message.          *)
Accepted(s) ==
  /\ \E filled \in tokens[s]..Burst :
       filled > 0 /\ tokens' = [tokens EXCEPT ![s] = filled - 1]
  /\ dropped' = [dropped EXCEPT ![s] = Reset(s)]
  /\ log' = [log EXCEPT ![s] = Logged(s, TRUE)]
  /\ Binds(s) \/ Unbinds(s) \/ Other
  /\ UNCHANGED <<state, why>>

(* Past MaxDropped the socket is closing, and one more changes only a number  *)
(* nobody reads: the count stops there.                                      *)
Dropped(s) ==
  /\ tokens[s] = 0 /\ dropped[s] < MaxDropped
  /\ dropped' = [dropped EXCEPT ![s] = @ + 1]
  /\ log' = [log EXCEPT ![s] = Logged(s, FALSE)]
  /\ IF dropped'[s] >= MaxDropped THEN Shut(s, "rateLimited") ELSE UNCHANGED <<state, why>>
  /\ UNCHANGED <<tokens, bound>>

(* A message, also of a socket that is being closed; a refused socket has no *)
(* listener.  A socket that is not chatty keeps well within its rate.        *)
Message(s) ==
  /\ s \in counted /\ state[s] \in {"open", "closing"} /\ s \notin dead
  /\ \/ s \in Chatty /\ (Accepted(s) \/ Dropped(s))
     \/ s \notin Chatty /\ (Binds(s) \/ Unbinds(s))
          /\ UNCHANGED <<rateVars, state, why>>
  /\ UNCHANGED <<perIp, ipOf, counted, alive, pinged, dead, deadline, opened>>

(* The hub lets a socket go of its own: its room closes, or another socket   *)
(* takes its seat and it is closed.                                          *)
RoomCloses(s) ==
  /\ s \in bound /\ bound' = bound \ {s}
  /\ UNCHANGED <<perIp, state, ipOf, counted, alive, pinged, dead, deadline, rateVars, why,
                 opened>>

Superseded(s) ==
  /\ s \in bound /\ bound' = bound \ {s}
  /\ Shut(s, "superseded")
  /\ UNCHANGED <<perIp, ipOf, counted, alive, pinged, dead, deadline, rateVars, opened>>

-----------------------------------------------------------------------------
CloseIfBound(s) == s \in bound
CloseIfUnbound(s) == s \notin bound

DeadlineFires(s) ==
  /\ s \in deadline
  /\ deadline' = deadline \ {s}
  /\ IF CloseIfUnbound(s) THEN Shut(s, "handshakeTimeout") ELSE UNCHANGED <<state, why>>
  /\ UNCHANGED <<perIp, ipOf, counted, alive, pinged, dead, bound, rateVars, opened>>

Unanswered(s) == alive[s] = "no"

(* One sweep over every socket the library knows, the refused ones too.      *)
Sweep ==
  LET clients == {s \in Socket : state[s] \in {"open", "closing"}}
      killed == {s \in clients : Unanswered(s)}
  IN
  /\ clients # {}
  /\ \A s \in pinged : s \in dead
  /\ state' = [s \in Socket |-> IF s \in killed THEN "terminated" ELSE state[s]]
  /\ why' = [s \in Socket |-> IF s \in killed /\ Is(s, "open") THEN "silent" ELSE why[s]]
  /\ alive' = [s \in Socket |-> IF s \in clients \ killed THEN "no" ELSE alive[s]]
  /\ pinged' = pinged \cup {s \in clients \ killed : Is(s, "open")}
  /\ UNCHANGED <<perIp, ipOf, counted, dead, deadline, bound, rateVars, opened>>

PongIgnored(s) == alive[s]
PongHeard(s) == "yes"

Pong(s) ==
  /\ s \in pinged /\ s \notin dead /\ state[s] \in {"open", "closing"}
  /\ pinged' = pinged \ {s}
  /\ alive' = [alive EXCEPT ![s] = PongHeard(s)]
  /\ UNCHANGED <<perIp, state, ipOf, counted, dead, deadline, bound, rateVars, why, opened>>

(* The peer is gone without a word: a laptop's lid, a phone without signal.  *)
Dies(s) ==
  /\ ~Is(s, "free") /\ s \notin dead
  /\ dead' = dead \cup {s}
  /\ UNCHANGED <<perIp, state, ipOf, counted, alive, pinged, deadline, bound, rateVars, why,
                 opened>>

(* A broken frame: the socket is terminated.                                 *)
ErrorEvent(s) ==
  /\ state[s] \in {"open", "closing"} /\ s \notin dead
  /\ state' = [state EXCEPT ![s] = "terminated"]
  /\ UNCHANGED <<perIp, ipOf, counted, alive, pinged, dead, deadline, bound, rateVars, why,
                 opened>>

CountReturned(s) == IF s \in counted THEN SetHeld(ipOf[s], Held(ipOf[s]) - 1) ELSE perIp

(* The `close` event: the peer has closed or answered the close, or the      *)
(* socket was terminated.                                                    *)
CloseEvent(s) ==
  /\ \/ Is(s, "terminated")
     \/ state[s] \in {"open", "closing"} /\ s \notin dead
  /\ perIp' = CountReturned(s)
  /\ state' = [state EXCEPT ![s] = "free"] /\ why' = [why EXCEPT ![s] = "none"]
  /\ alive' = [alive EXCEPT ![s] = "unset"]
  /\ counted' = counted \ {s} /\ deadline' = deadline \ {s} /\ bound' = bound \ {s}
  /\ pinged' = pinged \ {s} /\ dead' = dead \ {s}
  /\ tokens' = [tokens EXCEPT ![s] = Burst] /\ dropped' = [dropped EXCEPT ![s] = 0]
  /\ log' = [log EXCEPT ![s] = <<>>]
  /\ ipOf' = [ipOf EXCEPT ![s] = NoIp]
  /\ UNCHANGED opened

-----------------------------------------------------------------------------
SocketStep(s) ==
  \/ \E ip \in Ip : Connect(s, ip)
  \/ Message(s) \/ RoomCloses(s) \/ Superseded(s)
  \/ DeadlineFires(s) \/ Pong(s) \/ Dies(s) \/ ErrorEvent(s) \/ CloseEvent(s)

Next == Sweep \/ \E s \in Socket : SocketStep(s)

(* Timers fire, a peer that is well answers a ping, and a close that was     *)
(* asked for or forced is seen through.  No peer has to close of itself.     *)
Closes(s) == ~Is(s, "open") /\ CloseEvent(s)
Fairness ==
  /\ WF_vars(Sweep)
  /\ \A s \in Socket : WF_vars(DeadlineFires(s)) /\ WF_vars(Pong(s)) /\ WF_vars(Closes(s))

Spec == Init /\ [][Next]_vars /\ Fairness

-----------------------------------------------------------------------------
(* An address is charged for the sockets it holds and for no other, however  *)
(* they end, and never for more than it may: a refused socket is not counted *)
(* and its end gives nothing back (socketServer.ts:88-105).                  *)
HeldBy(ip) == {s \in counted : ipOf[s] = ip}
CountsExact ==
  /\ \A ip \in Ip : Held(ip) = Cardinality(HeldBy(ip)) /\ Held(ip) <= MaxConnsPerIp
  /\ \A ip \in DOMAIN perIp : perIp[ip] > 0

(* The heartbeat takes no socket whose peer answers, whatever it was doing   *)
(* when the sweep came (socketServer.ts:106-122).                            *)
WellSpared == \A s \in counted : why[s] = "silent" => s \in dead

(* The server closes for flooding only a socket whose last messages were all *)
(* refused: the bursts of a normal session do not add up (socketServer.ts:   *)
(* 196-214).                                                                 *)
Flood(l) == Len(l) = MaxDropped /\ \A i \in DOMAIN l : ~l[i]
ClosedForAFlood ==
  \A s \in Socket : (why'[s] = "rateLimited" /\ why[s] # "rateLimited") => Flood(log'[s])
FloodsOnly == [][ClosedForAFlood]_vars

(* A socket whose peer is gone is let go in the end, its count given back    *)
(* and its seat handed to the grace; and a socket that never joins is closed *)
(* (socketServer.ts:87-122, 190-218).                                        *)
Released ==
  \A s \in Socket :
    /\ s \in dead ~> s \notin bound \cup counted
    /\ s \in deadline ~> s \in bound \/ ~Is(s, "open")
=============================================================================
