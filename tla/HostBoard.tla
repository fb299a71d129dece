------------------------------ MODULE HostBoard ------------------------------
(***************************************************************************)
(* The host's board and the room behind it: the host screen with its       *)
(* picker, question editor and confirm dialogs (web screens/HostScreen,    *)
(* customizeQuestions), the app's two screens for a host (App), the link   *)
(* of one board (transport/socket.ts, factory.ts), and the room as far as  *)
(* the host steers it (core room.ts, server roomSession.ts).               *)
(*                                                                         *)
(* The board shows the last frame that arrived and the editor what the     *)
(* browser remembers; what a tap sends, and whether it may be tapped, is   *)
(* decided from these, while the room may have moved on.                   *)
(*                                                                         *)
(* Bounds: one room; players enough for every game; a link that drops does *)
(* so once the board knows its room, and comes back after the server has   *)
(* seen the drop (Transport.tla has the sockets that overlap).             *)
(***************************************************************************)
EXTENDS Questions

CONSTANTS Game, NoGame, NoFrame, Unset, Unknown,
          Builtin, Pack, Steps, Draft,       \* of a game: its bank, a pack, its steps
          MaxQueue, MaxPicks, MaxEdits, MaxStarts, MaxDrops, MaxReloads

ASSUME HostBoardAssumption ==
  /\ {MaxQueue, MaxPicks, MaxEdits, MaxStarts, MaxDrops, MaxReloads} \subseteq Nat
  /\ NoGame \notin Game
  /\ \A g \in Game :
       /\ Builtin[g] \in Seq(ToSet(Builtin[g])) /\ Builtin[g] # <<>>
       /\ Pack[g] \in Seq(ToSet(Pack[g]))
       /\ Steps[g] \in Nat \ {0}

VARIABLES room,    \* the server's room
          link,    \* off, connecting, live or reconnecting
          up, down,\* messages on their way to the server, to the board
          pending, \* kept by the transport for the next socket
          tab,     \* the screen, what it shows, and its own state
          session, \* the host session this tab has stored
          cache,   \* game -> the question list this browser remembers
          picked,  \* the game the host picked last
          saved,   \* the game and list saved since, or Unknown
          lost,    \* a pick or a list was lost on the way, or refused
          spent    \* of each bound

vars == <<room, link, up, down, pending, tab, session, cache, picked, saved, lost, spent>>
linkVars == <<link, up, down, pending>>
ghostVars == <<picked, saved, lost>>

Landing == [mode |-> "landing", frame |-> NoFrame, picking |-> FALSE, confirm |-> "none",
            editor |-> NoGame, open |-> FALSE, blocked |-> FALSE]
Board == [Landing EXCEPT !.mode = "board"]

Init ==
  /\ room = [state |-> "none", attached |-> FALSE, phase |-> "LOBBY", game |-> NoGame,
             config |-> Unset, round |-> 0, step |-> 0, asked |-> <<>>, tag |-> Unknown]
  /\ link = "off" /\ up = <<>> /\ down = <<>> /\ pending = <<>>
  /\ tab = Landing /\ session = FALSE
  /\ cache = [g \in Game |-> <<>>]
  /\ picked = NoGame /\ saved = Unknown /\ lost = FALSE
  /\ spent = [picks |-> 0, edits |-> 0, starts |-> 0, drops |-> 0, reloads |-> 0]

Spend(what, max) == spent[what] < max /\ spent' = [spent EXCEPT ![what] = @ + 1]

Msg(type) == [type |-> type]

-----------------------------------------------------------------------------
(* The room. *)

Prompts(config) == IF config = Unset THEN <<>> ELSE config
roundsTotal(R) ==
  IF R.game = NoGame THEN 0 ELSE promptCount(Prompts(R.config), Builtin[R.game])

FrameOf(R) ==
  [type |-> "frame", phase |-> R.phase, game |-> R.game, step |-> R.step,
   round |-> R.round, total |-> roundsTotal(R)]

ConfigDropped(R, g) == Unset
ConfigOnPick(R, g) == IF g = R.game THEN R.config ELSE Unset

MaySelect(R) == R.phase # "IN_GAME"
selectGame(R, g) ==
  [R EXCEPT !.phase = "LOBBY", !.game = g, !.round = 0, !.config = ConfigOnPick(R, g)]

MayConfigure(R) == R.phase # "IN_GAME"
configureGame(R, list) ==
  IF R.config = list THEN R ELSE [R EXCEPT !.config = list, !.round = 0]

MayStart(R) == R.phase # "IN_GAME" /\ R.game # NoGame /\ R.round < roundsTotal(R)
startGame(R, tag) ==
  [R EXCEPT !.phase = "IN_GAME", !.round = @ + 1, !.step = 1, !.tag = tag,
            !.asked = choosePrompt(Prompts(R.config), Builtin[R.game], R.round + 1)]

(* The game's advance takes only the step it was tapped on; the last one     *)
(* ends the round.                                                           *)
MayAdvance(R, from) == R.phase = "IN_GAME" /\ R.step = from
advance(R) ==
  IF R.step = Steps[R.game] THEN [R EXCEPT !.phase = "SCORES", !.step = @ + 1]
  ELSE [R EXCEPT !.step = @ + 1]

MayEnd(R) == R.phase = "IN_GAME"
endGame(R) == [R EXCEPT !.phase = "SCORES"]

Accepts(R, m) ==
  CASE m.type = "selectGame" -> MaySelect(R)
    [] m.type = "configureGame" -> MayConfigure(R)
    [] m.type = "startGame" -> MayStart(R)
    [] m.type = "advance" -> MayAdvance(R, m.from)
    [] m.type = "endGame" -> MayEnd(R)

Result(R, m) ==
  CASE m.type = "selectGame" -> selectGame(R, m.game)
    [] m.type = "configureGame" -> configureGame(R, m.list)
    [] m.type = "startGame" -> startGame(R, m.tag)
    [] m.type = "advance" -> advance(R)
    [] m.type = "endGame" -> endGame(R)

HostActions == {"selectGame", "configureGame", "startGame", "advance", "endGame"}

(* What the host's socket brings: the handshake, its actions, a leave, and   *)
(* its close.                                                                *)
OpenMsg(m) ==
  /\ m.type = "open"
  /\ room' = [room EXCEPT !.state = "open", !.attached = TRUE]
  /\ down' = <<Msg("opened"), FrameOf(room')>>

ResumeMsg(m) ==
  /\ m.type = "resumeHost"
  /\ IF room.state = "open"
     THEN /\ room' = [room EXCEPT !.attached = TRUE]
          /\ down' = <<Msg("opened"), FrameOf(room')>>
     ELSE down' = <<Msg("NO_SUCH_ROOM")>> /\ UNCHANGED room

HostMsg(m) ==
  /\ m.type \in HostActions
  /\ IF room.state = "open" /\ room.attached /\ Accepts(room, m)
     THEN room' = Result(room, m) /\ down' = Append(down, FrameOf(room')) /\ UNCHANGED lost
     ELSE lost' = (lost \/ m.type \in {"selectGame", "configureGame"}) /\ UNCHANGED <<room, down>>

LeaveMsg(m) ==
  /\ m.type = "leave"
  /\ room' = IF room.attached THEN [room EXCEPT !.state = "closed", !.attached = FALSE] ELSE room
  /\ UNCHANGED down

KeptInRound(m) ==
  /\ m.type = "fin"
  /\ room' = [room EXCEPT !.attached = @ /\ room.phase = "IN_GAME"]
  /\ UNCHANGED down

Disconnect(m) ==
  /\ m.type = "fin"
  /\ room' = [room EXCEPT !.attached = FALSE]
  /\ UNCHANGED down

Arrives == up # <<>> /\ up' = Tail(up)
ServerReceives ==
  /\ Arrives
  /\ LET m == Head(up)
     IN  \/ HostMsg(m)
         \/ (OpenMsg(m) \/ ResumeMsg(m) \/ LeaveMsg(m) \/ Disconnect(m)) /\ UNCHANGED lost
  /\ UNCHANGED <<link, pending, tab, session, cache, picked, saved, spent>>

(* The grace of an abandoned board ends.                                     *)
GraceFires ==
  /\ room.state = "open" /\ ~room.attached
  /\ room' = [room EXCEPT !.state = "closed"]
  /\ UNCHANGED <<linkVars, tab, session, cache, ghostVars, spent>>

-----------------------------------------------------------------------------
(* What the board shows. *)

Over(T) == T.frame.phase = "SCORES"
ExhaustedPast(T) == Over(T) /\ T.frame.total > 0 /\ T.frame.round > T.frame.total
Exhausted(T) == Over(T) /\ T.frame.total > 0 /\ T.frame.round >= T.frame.total
ShowPicker(T) == T.frame.phase = "LOBBY" \/ T.picking \/ T.frame.game = NoGame
GameOver(T) == Exhausted(T) /\ ~ShowPicker(T)

(* hostControl, and what disables the button.                                *)
Control(T) ==
  IF ShowPicker(T)
  THEN IF T.frame.game = NoGame THEN <<>> ELSE <<[type |-> "startGame", tag |-> saved]>>
  ELSE IF T.frame.phase = "IN_GAME" /\ T.frame.step <= Steps[T.frame.game]
  THEN <<[type |-> "advance", from |-> T.frame.step]>>
  ELSE <<[type |-> "startGame", tag |-> saved]>>

Primary(T) ==
  IF GameOver(T) \/ T.blocked \/ (Exhausted(T) /\ ShowPicker(T)) THEN <<>> ELSE Control(T)

BlockedStays(T) == T.blocked
Unblocked(T) == FALSE

(* A render and its effects: leaving SCORES forgets the picking; another     *)
(* game's editor is another editor, closed; an editor reports whether it is  *)
(* open and empty, and takes that back when it goes.                         *)
Rendered(old, new, lists) ==
  LET phase(T) == IF T.frame = NoFrame THEN "none" ELSE T.frame.phase
      T == [new EXCEPT !.picking = @ /\ (phase(new) \in {phase(old), "SCORES"})]
      editor == IF T.frame # NoFrame /\ T.mode = "board" /\ ShowPicker(T) THEN T.frame.game
                ELSE NoGame
      open == T.open /\ editor = old.editor
      blocked == IF editor # NoGame THEN open /\ lists[editor] = <<>>
                 ELSE IF old.editor # NoGame THEN Unblocked(T) ELSE T.blocked
  IN  [T EXCEPT !.editor = editor, !.open = open, !.blocked = blocked]

Render(new, lists) == tab' = Rendered(tab, new, lists)

-----------------------------------------------------------------------------
(* The transport. *)

Send(m) ==
  IF link = "live"
  THEN Len(up) < MaxQueue /\ up' = Append(up, m) /\ UNCHANGED pending
  ELSE Len(pending) < MaxQueue /\ pending' = Append(pending, m) /\ UNCHANGED up

Handshake == IF session THEN Msg("resumeHost") ELSE Msg("open")

Flush == <<Handshake>> \o pending

LinkOpens ==
  /\ link \in {"connecting", "reconnecting"} /\ up = <<>>
  /\ link' = "live" /\ up' = Flush /\ pending' = <<>> /\ down' = <<>>
  /\ UNCHANGED <<room, tab, session, cache, ghostVars, spent>>

(* The socket breaks: some of what was sent has still got through.           *)
Drop ==
  /\ link = "live" /\ session /\ Spend("drops", MaxDrops)
  /\ link' = "reconnecting" /\ down' = <<>>
  /\ \E n \in 0..Len(up) :
       /\ up' = Append(SubSeq(up, 1, n), Msg("fin"))
       /\ lost' = (lost \/ n < Len(up))
  /\ UNCHANGED <<room, pending, tab, session, cache, picked, saved>>

SocketClosed == up' = IF link = "live" THEN Append(up, Msg("fin")) ELSE up

BoardReceives ==
  /\ link = "live" /\ down # <<>>
  /\ LET m == Head(down) IN
       \/ /\ m.type = "opened" /\ session' = TRUE
          /\ down' = Tail(down) /\ UNCHANGED <<link, up, pending, tab>>
       \/ /\ m.type = "frame" /\ Render([tab EXCEPT !.frame = m], cache)
          /\ down' = Tail(down) /\ UNCHANGED <<link, up, pending, session>>
       \/ /\ m.type = "NO_SUCH_ROOM"
          /\ session' = FALSE /\ link' = "off" /\ SocketClosed
          /\ down' = <<>> /\ pending' = <<>>
          /\ tab' = [Landing EXCEPT !.mode = "recover"]
  /\ UNCHANGED <<room, cache, ghostVars, spent>>

-----------------------------------------------------------------------------
(* The host. *)

HostARoom ==
  /\ tab.mode = "landing" /\ room.state = "none" /\ link = "off"
  /\ tab' = Board /\ link' = "connecting"
  /\ UNCHANGED <<room, up, down, pending, session, cache, ghostVars, spent>>

(* A dialog is modal: nothing else can be tapped.                            *)
CanTap == tab.mode = "board" /\ tab.frame # NoFrame /\ tab.confirm = "none"
Tapped == UNCHANGED <<room, link, down, session, cache>>

Pick(g) ==
  /\ CanTap /\ ShowPicker(tab) /\ Spend("picks", MaxPicks)
  /\ Send([type |-> "selectGame", game |-> g])
  /\ picked' = g /\ saved' = IF g = picked THEN saved ELSE Unknown
  /\ Tapped /\ UNCHANGED <<tab, lost>>

ToggleCustomize ==
  /\ CanTap /\ tab.editor # NoGame
  /\ Tapped
  /\ Render([tab EXCEPT !.open = ~@], cache)
  /\ UNCHANGED <<up, pending, ghostVars, spent>>

Edited(g) ==
  LET list == cache[g] IN
  {togglePack(list, Pack[g])} \cup {addCustom(list, d) : d \in Draft}
    \cup {removeAt(list, i) : i \in DOMAIN list}
    \cup {reorder(list, p[1], p[2]) : p \in (DOMAIN list) \X (DOMAIN list)}

(* The editor's onChange: remembered here, and sent.                         *)
Edit ==
  LET g == tab.editor IN
  /\ CanTap /\ g # NoGame /\ tab.open /\ Spend("edits", MaxEdits)
  /\ \E list \in Edited(g) :
       /\ list # cache[g]
       /\ cache' = [cache EXCEPT ![g] = list]
       /\ Send([type |-> "configureGame", list |-> list])
       /\ saved' = IF g = picked THEN [game |-> g, list |-> list] ELSE Unknown
       /\ Render(tab, cache')
  /\ UNCHANGED <<room, link, down, session, picked, lost>>

TapPrimary ==
  /\ CanTap /\ Primary(tab) # <<>> /\ Spend("starts", MaxStarts)
  /\ Send(Primary(tab)[1])
  /\ Tapped /\ UNCHANGED <<tab, ghostVars>>

Ask(what) ==
  /\ CanTap
  /\ CASE what = "change" -> Over(tab) /\ ~tab.picking
       [] what = "end" -> tab.frame.phase = "IN_GAME"
       [] what = "leave" -> TRUE
  /\ tab' = [tab EXCEPT !.confirm = what]
  /\ UNCHANGED <<room, linkVars, session, cache, ghostVars, spent>>

Cancel ==
  /\ tab.confirm # "none"
  /\ tab' = [tab EXCEPT !.confirm = "none"]
  /\ UNCHANGED <<room, linkVars, session, cache, ghostVars, spent>>

ConfirmChange ==
  /\ tab.confirm = "change"
  /\ Tapped
  /\ Render([tab EXCEPT !.confirm = "none", !.picking = TRUE], cache)
  /\ UNCHANGED <<up, pending, ghostVars, spent>>

ConfirmEnd ==
  /\ tab.confirm = "end"
  /\ tab' = [tab EXCEPT !.confirm = "none"]
  /\ Send(Msg("endGame"))
  /\ Tapped /\ UNCHANGED <<ghostVars, spent>>

(* The leave goes out on a live link only: then the transport is disposed.   *)
Disposed(sent) ==
  /\ up' = IF link = "live" THEN up \o sent \o <<Msg("fin")>> ELSE up
  /\ link' = "off" /\ down' = <<>> /\ pending' = <<>>

ConfirmLeave ==
  /\ tab.confirm = "leave"
  /\ Disposed(<<Msg("leave")>>)
  /\ tab' = Landing /\ session' = FALSE
  /\ UNCHANGED <<room, cache, ghostVars, spent>>

ToLanding ==
  /\ tab.mode = "recover"
  /\ tab' = Landing
  /\ UNCHANGED <<room, linkVars, session, cache, ghostVars, spent>>

(* A reload: the session and the lists are kept, all else is lost.           *)
Reload ==
  /\ tab.mode = "board" /\ Spend("reloads", MaxReloads)
  /\ IF link = "live"
     THEN \E n \in 0..Len(up) :
            up' = Append(SubSeq(up, 1, n), Msg("fin")) /\ lost' = (lost \/ n < Len(up))
     ELSE UNCHANGED up /\ lost' = (lost \/ pending # <<>>)
  /\ down' = <<>> /\ pending' = <<>>
  /\ IF session THEN tab' = Board /\ link' = "connecting"
     ELSE tab' = Landing /\ link' = "off"
  /\ UNCHANGED <<room, session, cache, picked, saved>>

-----------------------------------------------------------------------------
HostStep ==
  \/ HostARoom \/ \E g \in Game : Pick(g)
  \/ ToggleCustomize \/ Edit \/ TapPrimary
  \/ \E what \in {"change", "end", "leave"} : Ask(what)
  \/ Cancel \/ ConfirmChange \/ ConfirmEnd \/ ConfirmLeave \/ ToLanding \/ Reload

Next == HostStep \/ LinkOpens \/ Drop \/ BoardReceives \/ ServerReceives \/ GraceFires

(* What was sent arrives, and a board that stays away is given up.           *)
Spec ==
  /\ Init /\ [][Next]_vars
  /\ WF_up(Arrives) /\ WF_vars(GraceFires)

-----------------------------------------------------------------------------
(* A round asks the question the host's own set has at that place: whatever  *)
(* was queued on a dropped link, edited between rounds, or picked again,     *)
(* the set saved last for the game picked last is the set that is played, if *)
(* it was not lost on the way (socket.ts:219-232; room.ts:133-211;           *)
(* promptConfig.ts:72-79).                                                   *)
AskedAsSaved ==
  room.phase = "IN_GAME" /\ room.tag # Unknown /\ ~lost =>
    /\ room.game = room.tag.game
    /\ room.asked = choosePrompt(Prompts(room.tag.list), Builtin[room.game], room.round)

(* Start is blocked only by an editor that is there to clear it: one that is *)
(* open and empty (HostScreen.tsx:75-77, customizeQuestions.tsx:33-38).      *)
BlockedOnlyByEditor ==
  tab.blocked => tab.editor # NoGame /\ tab.open /\ cache[tab.editor] = <<>>

(* Once nothing is on its way, the board shows the room as it is, and a      *)
(* button that can be tapped does something: the room does not refuse it.    *)
(* Except for a picker opened in the middle of a round: see PickerForgotten  *)
(* (HostScreen.tsx:18-39, 105-115; room.ts:182-203).                         *)
Quiet ==
  /\ tab.mode = "board" /\ tab.frame # NoFrame /\ link = "live"
  /\ up = <<>> /\ down = <<>>
PickingMidRound == tab.picking /\ tab.frame.phase = "IN_GAME"
ControlsWork ==
  Quiet =>
    /\ tab.frame = FrameOf(room)
    /\ Primary(tab) # <<>> /\ ~PickingMidRound => Accepts(room, Primary(tab)[1])

(* A host who goes leaves no room behind, whether or not the leave got out   *)
(* (App.tsx:64-77; HostScreen.tsx:127-130; roomSession.ts:203-223).          *)
LeaveClosesRoom == (tab.mode = "landing" /\ room.state = "open") ~> room.state = "closed"

(* The editor shows the set the room has (customizeQuestions.tsx:29).        *)
EditorShowsTheSet ==
  (Quiet /\ tab.editor # NoGame) =>
    bank(Prompts(room.config), Builtin[room.game])
      = bank(cache[tab.editor], Builtin[room.game])

(* The picking is forgotten once the board has left the game-over screen     *)
(* (HostScreen.tsx:71).                                                      *)
PickerForgotten == ~PickingMidRound
=============================================================================
