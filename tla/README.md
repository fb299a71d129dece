# klatchr in TLA+

Specifications of klatchr, the party-game server in this repository: what a room, a round of a
game, a live session of a room, the server's registry and its sockets, a player's transport, the host's board
and the screens do, written from the source, model-checked with TLC and, where it matters most, proved with TLAPS.

All paths below are relative to the repository's source tree, `src/`. `PROJECT.json` maps every
definition that stands for code to the lines it stands for, and lists runs, hazards, findings,
theorems, and one plausible slip of the code ("mutant") that each checked property catches. The
slips stand in the modules next to the definition they would replace, under names such as
`TimersKept` or `UnfilteredScores`, and are used by nothing else.

## 1. Inventory of the system

klatchr is one Node process. A host opens a room on a shared screen, the *board*; people join from
phones with a four-letter code. Everything is in memory; nothing survives a restart of the process,
and nothing is meant to (docs/adr/0003-in-memory-rooms.md).

| part | code | state | operations |
| --- | --- | --- | --- |
| room reducer | packages/core/src/room.ts, rounds.ts, roomTypes.ts | phase, players, reconnect tokens, game, round, config, session scores, parked scores | join, leave, selectGame, configureGame, startGame, gameEvent, endGame |
| game contract | packages/core/src/game.ts, registry.ts | none | init, reduce, view, scores, isComplete, roundCount |
| Guess Who Said It | packages/games/src/guessWho/, roster.ts | phase, roster, drafts, skips, cards, guesses, leavers, salt | submit, skip, guess, advance, playerLeft |
| Most Likely To | packages/games/src/mostLikelyTo/, roster.ts | phase, roster, votes, leavers | vote, advance, playerLeft |
| prompt sets | packages/games/src/promptConfig.ts | a memo of cleaned sets | validPrompts, choosePrompt, promptCount |
| room session | apps/server/src/roomSession.ts | members, grace timers, host timer, pending fan-out | join and resume, resumeHost, host actions, play, leave, disconnect, timers, broadcast |
| room hub | apps/server/src/roomHub.ts, packages/core/src/roomCode.ts | rooms by code, session by connection, rooms per address | open, join, resumeHost, route, leave, disconnect, onClosed, onSuperseded |
| socket server | apps/server/src/socketServer.ts | sockets per address, liveness flags, handshake timers, token buckets | connection, message, close, heartbeat, deadline |
| client transport | apps/web/src/transport/ | socket, backoff, watchdog, stored session | connect, reconnect, resume, send, stop |
| in-browser mock room | apps/web/src/transport/mockRoom.ts | a room and its viewers | the same events without a network |
| wire schemas, text, nicknames | packages/protocol/src, packages/core/src/text.ts, nickname.ts | none | parse, bound, normalise |
| screens | apps/web/src (tsx) | what the last frame said | render and send |
| process around it | apps/server/src/index.ts, gateway.ts, staticFiles.ts, usage.ts, apps/server/bots.ts | counters | serve, log |

How they interact. A socket's message is parsed and handed to the hub, which opens a room, attaches
a connection to one, or routes to the session the connection is bound to. The session turns it into
an event of the pure reducer, stores the room it returns, and queues *one* microtask that sends
every member its own frame: the room through the game's `view`. The reducer calls the game for
game events, tells it of joins and leaves while a round runs, and folds its `scores` into the
session's tally when an event completes the round or the host ends it. The session calls the hub
back when it pushes a connection out (`onSuperseded`) and when its room has closed (`onClosed`).

What is hard about it:

- *one thread, and still interleavings*: the fan-out is a microtask, so it runs before the next
  socket or timer, but the further messages of one read of the same socket come before it. A room may
  be closed and joined again before its close-out runs (roomSession.ts:306-332);
- *grace timers*: a dropped phone or board keeps its seat until a timer fires; resume, takeover,
  leave and close-out race it (roomSession.ts:196-285);
- *takeover*: a second device with the same token pushes out the first one, which is still open
  and may still send or close (roomSession.ts:232-251);
- *identity over leaves*: a leaver's score is parked under the nickname and reclaimed by whoever
  joins under it (room.ts:94-126), while games keep the leaver's id in their roster;
- *bookkeeping held apart from what it counts*: sockets per address, rooms per address, the routing
  table (roomHub.ts, socketServer.ts);
- *redaction*: what the server sends must not give a secret away, in any phase, after any leave;
- *unreliable networks*: half-open sockets, late answers, several sockets of one device.

What makes each part correct:

- room: points are conserved over every order of leaves, rejoins, folds and new sessions; a round is
  folded exactly once; the rotating window fills the seats and comes round; a session asks each
  question of its set once; whoever is shown a round as a player is known to the game;
- games: secrets stay secret; progress reaches its total; whoever left is handled right; the room's
  contract with a game is kept;
- session: each seat and the board are in exactly one hand; hub and session agree on who is where;
  every change is on its way to every screen; nobody is away forever; nothing survives a room;
- hub: counts and routes are exact; a code leads to its own room;
- socket server: the per-address count is exact, silent sockets go, healthy sockets stay;
- transport: a device ends up in its seat or is told why not; it never pushes itself out.

The hazards list in `PROJECT.json` gives these at the lines where they bite, each with the
properties that would notice.

## 2. Modules

| module | models | role |
| --- | --- | --- |
| `Room` | room.ts, rounds.ts | the reducer; one action per accepted event |
| `RoomTally` | | extends Room with a bookkeeper of awarded points and folds |
| `Standings` | standings.tsx, PlayerScreen.tsx | extends RoomTally with what the screens compute from the tally |
| `RoomSeating` | | extends Room with an observer of questions asked and rounds sat out |
| `RoomSession` | roomSession.ts and the hub's binding of connections | extends Room with members, timers, microtask |
| `Seats` | | abstract: what a room promises the people in it; implemented by RoomSession |
| `RoomHub` | roomHub.ts, roomCode.ts | many rooms, routing and limits |
| `SocketServer` | socketServer.ts | sockets per address, heartbeat, handshake deadline, flood control |
| `Transport` | the client's socket.ts, wire.ts, factory.ts, device.ts | two tabs of a browser, their sockets, the server's end, a lossy network |
| `RoundGame` | game.ts | abstract: what the room relies on a game for; implemented by both games |
| `GuessWho` | guessWho/, roster.ts | one round |
| `GuessScreens` | the screens of Guess Who Said It | extends GuessWho with what board and phones make of their views |
| `MostLikelyTo` | mostLikelyTo/, roster.ts | one round |
| `VoteScreens` | the screens of Most Likely To | extends MostLikelyTo likewise |
| `Questions` | text.ts, nickname.ts, promptConfig.ts, PromptSetEditor.tsx | the text rules and question sets, as operators |
| `HostBoard` | HostScreen.tsx, customizeQuestions.tsx, hostLobby.tsx, App.tsx, host's part of socket.ts and factory.ts | extends Questions: the host's board, its link, and the room as it steers it |
| `RoomProofs` | | theorems about Room, RoomTally with Standings, and RoomSeating |
| `RoomSessionProofs`, `RoomHubProofs`, `SocketServerProofs`, `TransportProofs` | | theorems about the module they are named after |
| `GuessWhoProofs`, `MostLikelyToProofs` | | theorems about the game and its screens |
| `HostBoardProofs` | | theorems about HostBoard, and what they need of Questions |
| `MC...` | | constants of the instances that are checked |

Three modules compose others: `RoomSession` is the whole room under the server's session, `Standings` puts the screens over the room
and its bookkeeper, and `HostBoard` puts a screen, the browser's memory, a link and a room together. `GuessWho` and
`MostLikelyTo` meet the room through `RoundGame`, which says what the room takes from a game and gives to it.

**Refused events.** Everywhere, an event the code answers with an error, or with the state it was
given, is a stuttering step: the guard of the action is the code's condition for doing otherwise.

**Room.** The variables are the fields of `Room` (roomTypes.ts), functions for its records. Player
ids are numbers in join order: `players` grows only at its end, so id order is list order and
`SeatIndex` is a player's index. `tokens` keeps who has a reconnect secret, not the secret.
`gameState` is what the room can see of a game, the roster it was dealt and the points `scores`
reports: a game event changes the points in any way, a leave may or may not drop the leaver (the
contract leaves that to the game, and the room must be right for both). Nicknames are
already normalised and lower-cased. `gameState` is not reset by selectGame or endGame, as in the code.
`joinedDuringGame` is written and never read by the reducer and is left out.

**RoomTally, Standings, RoomSeating.** They add observer variables: points awarded by nickname since the
game was picked, folds, questions asked, rounds sat out. They take Room's actions as they are and
change nothing in the room. They stop a closed room, to which the session routes nothing.
`Standings` has no state: it is the three computations by which the board's table, the phones' list and a phone's own
line rank the same frame.

**RoomSession.** `members` is the session's map, `bound` the hub's `sessionOf` restricted to this
room. `reapers` holds the cancel handles, `timers` the timers that really run: a handle lost, or
a timer left behind, shows as a difference. `pendingBroadcast` is the code's flag; `tick` is the connection
whose further messages may still arrive before the microtask. `stale` is the set of members
that have not been sent what they should see. Handler, microtask and timer are the atomic steps of a
single-threaded process. A connection, once unbound, may stand for a new socket, or for the old
one that is still open and joins again. Who may send which event (host or player) is only as fine as
the state change requires; frames' contents are not in it.

**Seats.** A seat is free, here, away or gone; a board likewise. An away seat may come back and is
given up if it stays away; nobody is removed while here. The refinement mapping reads a seat as
"here" when a connection is attached for it. The abstract specification includes weak fairness of
giving up, so the refinement is also a liveness result.

**RoomHub.** Each session is reduced to what the hub depends on: who is attached by role, whether
timers run and how many seats they hold, whether it is closed, whether its microtask is queued.
Several rooms' microtasks queue up in order, since one read of a socket may leave one room, open
another and join a third. Codes come from a small set and are used again.

**SocketServer.** Of the hub it keeps which sockets are bound. The socket library is external: a `close` asks the peer and is
answered or not, `terminate` does not ask, and one `close` event ends a socket. The token bucket is its contents
(`tokens`), which may have filled up by any amount when a message comes; `log` remembers which of a socket's last messages were
accepted, so that `FloodsOnly` can speak about a sequence of messages and not about the counter.

**Transport.** `client` and `server` are the two ends of each socket, `up` and `down` what is on its way, in order per
direction. `Cut` makes a socket silent: either end then notices by its timers or by an error. A timer may
also expire though the answer is on its way, which is the race that matters. The code's generation
number is `sock`: an event of a socket that is not current is ignored. `backoffs` counts the retry timers that really run, so
that a timer forgotten shows. Keepalive frames are part of the silence; the server is reduced to who holds which
seat, since RoomSession has the rest. The resume token is the browser's, shared by its tabs.

**Questions, HostBoard.** A text is a sequence of graphemes, a grapheme what the rules ask about it. `boundedText`, `clean`, `choosePrompt` and the
editor's operations are operators; MCHostBoard's assumptions compare `boundedText` and `clean` with their descriptions on all small inputs.
In HostBoard `tab` is React state plus the last frame, `cache` the lists the browser remembers, `pending` the transport's queue.
`picked`, `saved` and `lost` are observers: what the host asked for last, and whether the link lost it.

**GuessScreens, VoteScreens.** No state of their own: the buttons a phone offers and the progress both screens show, each computed from
that screen's own view, as in the components. They relate what a screen offers to what the game takes.

**RoundGame, GuessWho, MostLikelyTo.** A game's variables are the fields of its state. Events
reach a game through the room, and their guards take that into account: an actor is seated, a
leave is forwarded once, spectators' leaves are forwarded too, and nothing comes after the round is
complete. In GuessWho an answer is its rank in the order `localeCompare` gives (equal answers
share a rank, which is where the salted tie-break matters), and the salted hash is
any ranking of the ids; collisions of the 32-bit hash are left out. Views are operators over the deck
or the ballot they would show, so that a property can compare what is shown in two possible worlds.

## 3. What the runs check

| run | question | distinct states (about) |
| --- | --- | --- |
| room_tally | are session points conserved, and shown alike? | 740 000 |
| room_ledger | is a changed set a fresh tally? (no: finding 1) | until violated |
| room_seating | who plays, and what is asked? | 2 800 000 |
| room_rotation | is nobody left out twice in a row? (no: finding 2) | until violated |
| session | is every seat in exactly one hand, and does the session keep the promise of Seats, in the end too? | 240 000 |
| hub_registry | are counts, routes and codes exact? | 1 760 000, with symmetry |
| guess_who | are authors hidden, the round sound, the screens in step? | 276 000, with symmetry |
| most_likely_to | is the ballot secret, the round sound, the screens in step? | 1 300, with symmetry |
| transport | one socket a tab, one seat, no action twice, and rest in the end? | 690 000 |
| socket_server | are counts exact, the well spared, the dead let go? | 165 000 |
| host_board | is the set saved the set played, and does the board never get stuck? | 1 320 000 |
| host_board_stale | does the editor show the room's set? (no: finding 3) | until violated |

**room_tally** - `NoPointsMinted`: for each nickname, points held plus points parked never exceed
what rounds of this game awarded to players of that name. `FoldedOnce`: the number of folds is the
number of finished rounds. `StandingsKept`: a seated player's points go down only when a new session
wipes everybody's. `ScoresSeated`: no departed id has points. `OneRanking`: at the end of a round the board's table,
the phones' list and each phone's line tell the same standings. Two nicknames and three ids make two players of one name,
and a rejoin under a name whose points are parked, happen; three rounds are two in one session and a further one
after it, or three in three sessions.

**room_seating** - `WindowFull`, `BenchRotates` and `WalksTheSet` over a two-seat and a three-seat
game with up to five players, six ids and four rounds: the window wraps with a remainder (5 players,
2 seats), divides the roster (4 and 2), and everybody fits. Sets of two and four questions let a set run out.

**session** - four connections and four ids: two devices on one seat, the board on two devices,
a drop, and a seat reaped and given to a newcomer, at the same time.
`SeatsInOneHand` counts connections and *running* timers, so it sees a timer whose handle was lost.
`FrameOnItsWay`: whoever has not been sent the present state has a microtask coming. `NothingLeft`: once the hub has dropped the room,
no timer, no binding and no member remain, even when somebody joined between the close and its close-out.
`ImplementsSeats` is the refinement of Seats with its liveness, `ClosedIsDropped` that a closed room is let go. No symmetry: it is not sound for liveness.

**hub_registry** - three sockets, two of one address and one of unknown address, three codes and three rooms in turn: the
limit per address (2) is reached, codes are used again, and one socket's read spans rooms. `RoutedWhereAttached`: the routing table is exactly who is
attached where, and only to live rooms. `DroppedIsQuiet`: a dropped session has nothing left
to call onClosed a second time, which would take a later room of the same code out of the registry.

**guess_who** - three players, of whom two or three are dealt in, and two answers, so equal answers
occur. `AuthorsHidden` is a statement about possible worlds: for each viewer, *every* way to hand the
other cards to the other writers is consistent with the very view the viewer has. `ProgressExact`: the board, which counts who is seated, and
the phones, which count who was dealt in, agree on when everyone is done. `PhoneInStep`: no phone offers what the game refuses, every card of somebody else
can be given its true author, and the ticks at the reveal are the points. These and `ImplementsGame` quantify over leaves in every phase. Two guesses on record are enough for a player to
be right about both others, to guess wrong, and to change a guess; the views depend on the viewer's
guesses only.

**most_likely_to** - `BallotSecret`: the open vote's views depend on who voted and on the
viewer's own vote and on nothing else; in particular a leave does not show who was voted for. `ScreensInStep`: progress, offered votes and the
spotlight agree between board, phones and game.

**transport** - two tabs of one browser, three socket slots, two seats, one action, two uses of the join form,
one fault. `OneLiveSocket`: every live socket is the one its tab is using. `AppliedOnce`: no queued action is taken twice.
`KeepsItsSeat`: a transport is given another seat only after the one it had is gone. `Settles`: in the end every tab has stopped and says why, or holds a seat with its socket,
and no abandoned socket holds one. Two tabs make the takeover and its race with a retry happen; three slots are a tab's old socket, its new one and the
other tab's; a slot is used again once both ends have closed it, so the number of sockets over time is not bounded by it. One fault is
a cut or an early timer; each alone opens every race with the late answers, and `TransportOneLiveSocket` is proved for any number.

**socket_server** - two sockets, two addresses with one socket each allowed, so a refusal, a count given back
and a slot taken again all occur. One socket may exceed its rate; the messages it sends are not bounded. `FloodsOnly`: a flood is a run of
refused messages without an accepted one. `WellSpared`: the sweep terminates the dead only. `Released`: what is dead, or never joins, is let go.

**host_board** - two games of one step and of two, two built-in questions each, a pack that overlaps them, one draft;
two picks, one edit, two starts or advances, one drop, one reload, two messages queued. `AskedAsSaved`: the round asks from the set saved last for the game picked last,
unless the link lost it. `BlockedOnlyByEditor`: Start is blocked only by an editor that is there to clear it. `ControlsWork`: with nothing on its way, a button that can be tapped does something.
`LeaveClosesRoom`: a host who goes leaves no room, whether or not the leave got out.

### Bounds

`MaxId` (ids minted), `MaxPoints` (points per player and round), `MaxPlays` and `MaxDeals` (rounds played; RoomTally, RoomSeating),
`MaxSessions` (rooms opened over the server's life), `MaxGuesses` (guesses on record), `MaxSock`, `MaxSeat`, `MaxAct`,
`MaxStarts`, `MaxFaults` (Transport), `MaxOpened` (connections made; SocketServer), `MaxQueue`, `MaxPicks`, `MaxEdits`, `MaxStarts`, `MaxDrops`,
`MaxReloads` (HostBoard): each is a conjunct of a guard, and
nothing else is cut off. `MAX_PLAYERS`, `MaxConnsPerIp`, `Burst`, `MaxDropped`, the text limits and the limits of the hub are parameters of the code with small
values. Deadlock checking is on wherever the modelled part cannot stop. It is off for the session, the hub, the socket server, the transport and the board, where a room that is
dropped, or a server that has opened all its rooms, may simply have no further event, and for the games, whose rounds end.

### Fairness

`RoomSession!Fairness` assumes no message and no close. It assumes that a queued microtask runs (weak fairness of
`Frames` and `CloseOut`: Node drains microtasks before anything else) and that a timer which stays armed
fires: either it is infinitely often not armed, or it fires infinitely often (`FiresIfLeftArmed`). Weak fairness
of the timer's action would be wrong here: the action is disabled whenever a fan-out is queued, and strong
fairness would be too much, as a phone that drops and returns again and again calls its timer off each time.

`Transport` has weak fairness of `Progress`, the disjunction of what happens of itself: a message on a socket that is not cut arrives, a timer
of a *cut* socket fires, a retry that is due is made, the heartbeat finds a dead socket, a grace ends. Neither the user, nor the early timers and cuts, which spend
a fault, are in it, and which of them comes first is free. It is weaker than fairness of each: `Settles` needs only that something goes on.
`SocketServer` has weak fairness of the sweep (an interval), of a running deadline, of a live peer's pong and of the end of a socket that is being closed; no
peer has to close of itself. A peer that is well answers a ping within a heartbeat interval (twenty seconds): the sweep's guard says so, and a slower one counts as dead.
`HostBoard` has weak fairness of arrivals at the server (subscripted by `up`, so only what is under way is pressed) and of the room's grace.

### Findings

1. **A changed question set does not forget parked scores** (run `room_ledger`). room.ts:172-173 says a
   changed set is a new session with a fresh tally, "the same as re-picking the game". `selectGame` clears
   `scoreLedger` with the reason that "a new session parks nothing"; `configureGame` does not. A player who scored
   and left before the host saved a new set rejoins after it and starts the fresh tally with old points.
2. **The bench does not always rotate in** (run `room_rotation`). rounds.ts:6-7 says benched players are dealt in next
   time. The window's offset is computed from the round number and the *present* roster: when a seated player leaves between two
   rounds the indices behind move down, and somebody just benched is benched again although two windows cover the room.
   `BenchRotates` shows that it does rotate as long as nobody comes or goes.
3. **The question editor may show a set the room does not have** (run `host_board_stale`). customizeQuestions.tsx:29 rehydrates
   the editor from the browser's cache so that it "shows the real set". `configureGame` names no game, so a list saved while a pick of another game is on its way is remembered
   for one game and set for the other; and picking another game drops the room's set (room.ts:153) but not the cache.

Met while modelling, stated in the modules or here and not given runs of their own:

- `Transport!SupersededByAnother` (wire.ts:9: "the seat moved to another device") does not hold: when a tab gives up a socket
  whose join is still on its way, and its next socket's join arrives first, the late join takes the seat back and the tab is told SUPERSEDED by its own abandoned socket.
  `Settles` shows that it still comes to rest;
- `HostBoard!PickerForgotten` (HostScreen.tsx:71) does not hold: a picker opened at the end of a round whose next start was already on its way stays open over the new round;
- a board reloaded on the scores after the set was changed shows the round's points next to a total of zero: the tally is fresh, the frame's round is not. `OneRanking` leaves this case out by its guard `round > 0`;
- an edit that the room refuses because its round has just started stays in the cache, and so in the editor.

## 4. What is proved

Each theorem holds for every value of the constants its module's assumption allows: any number of players, sockets, codes,
addresses and rooms, and any bound. The proofs have one lemma per action, and lemmas about the helpers (`Put`, `omit`, `SetHeld`, `handleDrop`) apart.

**RoomProofs** - `RoomTyped`, `RoomScoresSeated` (no departed id has session points),
`RoomTokensSeated` (exactly the seated players have a reconnect secret), `RoomPlayersInRound` (in a running round the non-spectators among the seated are
exactly those the game was dealt).
The inductive invariant is `IInv`, the conjunction of these with `IdsMinted`, which says that every id in use, in the roster of
the last game included, is at most `minted`. It is needed because a joiner's id must not be one that the
game's roster still holds: without it `PlayersInRound` is not inductive, since a "new" id might already be in the
roster of the round that is running.

For the tally the invariant is `BookInv`: `IInv`, `FoldedOnce`, `PointsDealt` (a game credits only who it was dealt) and `PointsFolded` (once a round is over
and counted, each seated player's round points are within the session's). It gives `TallyFoldedOnce`; `TallyStandingsKept`, action by action: only a new session takes points
away; and `TallyOneRanking`: since the folded points put every seated player of the round into the tally, the three computations rank functions that are equal,
and their ranks are the same cardinalities.

`TallyNoPointsMinted` is about sums. `Total` adds a function up over a finite set, and what it returns is characterised without induction: `SumsExist`
takes the smallest set for which no family of partial sums exists and makes one for it from the family of that set less an element, and `TotalTake` takes the smallest set whose
total depends on the order of adding. From these come `TotalAdds` (sums add, which is the fold) and `TotalPad` (a nought more changes nothing,
which is a join without a parked score). `PointsInv` is then inductive: a leave moves an id's points to its nickname's parking place, a rejoin moves them back, a fold
adds to a name's sum at most what it adds to `awarded`.

For the seating the invariant is `SeatingInv`: `IInv`, `WalksTheSet`, and `Benched`, which says exactly how long everyone has been waiting. `BenchRotates` only bounds the wait, and the bound is not
inductive: nothing in it says that the longest wait is over next. `Benched` gives the place: who sat out is beyond the window of the last round,
and so near to it that with k rounds sat out in a row there were k - 1 windows more between them, all within one turn of the roster. The next window comes nearer by its own length or deals them in. `SeatingWalksTheSet` needs that a round starts
only below the set's length, `SeatingWindowFull` that n indices counted on from an offset modulo the roster's size are n different ones, which is a bijection with an interval.

**RoomSessionProofs** - `SessionSeatsInOneHand`, `SessionBoardInOneHand`, `SessionBoundIffMember`, `SessionFrameOnItsWay`, `SessionNothingLeft`, and
`SessionImplementsSeats`: `SessionSpec => S!SeatsSafety`, the safety half of the refinement. The invariant is `SInv`: Room's `IInv`, reused for
the session's steps; `Attached` (a closed room has its close-out queued, a dropped one has nothing queued and nobody in it);
`TimersHeld` (a timer runs exactly when its cancel handle is kept, which is what makes calling one off effective); and `OneHand`, which says without counting
what the two `...InOneHand` say with it. For seats it holds up to the drop, not just up to the close: people still join between a room's close and its
close-out, and the close-out has to find their timers. For the board it holds only while the room is open, since a closed room's board may leave without a timer.
The refinement is proved action by action: a join is a newcomer's, a drop leaves a seat away, a timer that fires gives it up, everything else stutters.

**RoomHubProofs** - `HubRoutesWhereAttached`, `HubCodesLeadHome`, `HubDroppedIsQuiet` from `HInv` = `Registered` (code and session lead to each other unless the session is
closed), `Routed`, and `Acting` (only a live session has a queued microtask, a held seat or a timer). `DroppedIsQuiet` and `CodesLeadHome` need each other: a late close-out is
harmless because none can come. `HubOpenersCounted` adds `Counted` and the cardinality of the rooms of one address, one more or one fewer at a step.

**SocketServerProofs** - `ServerCountsExact` from the types and itself: a counted socket is one the library still knows, so none is served, and charged, twice.
`ServerWellSpared` from `AskedFirst`: a socket marked unanswered has an unanswered ping, and the sweep runs only when those are the dead ones' alone.
`ServerFloodsOnly` from `RefusalsLogged`: a counter of k says that the last k messages of the log, which keeps `MaxDropped`, were refused. The property only speaks of a counter at its limit,
and no step leads there from a state about which it says anything.

**MostLikelyToProofs** - `VoteBallotSecret` (for two ballots that agree on who voted and on the viewer's own vote the views are equal) and `VoteImplementsGame` (the refinement of
RoundGame, which includes that scores are natural numbers bounded by the number of players: the number of votes for somebody is a cardinality). `VoteScreensInStep`:
the counts of board and phones are cardinalities of nested finite sets, equal exactly when the sets are; the spotlight's top is the least bound of the votes, which somebody reaches.

**GuessWhoProofs** - `GuessTypeOK`, `GuessImplementsGame`, `GuessProgressExact`, `GuessPhoneInStep` and `GuessAuthorsHidden` from `RoundInv`: the types, `Dealt` (there are no cards while answers come in, and from then on they are those `buildCards` makes of the drafts) and
`NotOneself` (nobody guesses at their own card). That each writer has one card rests on the place of an answer being the number of answers before it: a strict total order of texts and
ranks gives each place once. `GuessAuthorsHidden` constructs, for any way of handing out the other cards, the answers and a ranking of the ids that make the game deal them so (`HandsDealt`), and shows that the
view of that deck is the view of the real one. At the reveal a phone's ticks are the points because both count the same guesses, one per card.

**TransportProofs** - `TransportOneLiveSocket`. `OneLiveSocket` alone is not inductive: a retry opens a socket without closing another. The invariant
`TInv` adds `RetryDue`: a transport has one retry due exactly when it is awaiting a reconnect, none when stopped, and a transport that awaits one has no live
socket. So the backed-off and the immediate reconnect cannot both open one, and a socket that opens finds nothing due.

`TransportAppliedOnce` and `TransportKeepsItsSeat` relate what is on its way to both ends. Their invariant `SInv` adds to `TInv`: `Queues` (what may be on its way on a socket, and that it holds one handshake and one answer to it at most), `Numbered` (an action is in
one place at a time: kept by one tab, on its way on one socket, or taken) and `Seated` (tokens name seats that were given out; a socket asks with the token of the tab that made it, and while
that tab uses it is told of no other seat unless the tab's own is gone). `AppliedOnce` is the part of `Numbered` about what was taken; `KeepsItsSeat` is the part of `Seated` about the
answer that is received.

**HostBoardProofs** - `BoardAskedAsSaved`, `BoardControlsWork`, `BoardBlockedOnlyByEditor`. The assumptions are that each built-in bank and pack is a sequence, the
bank not empty, each game has a step at least, and the limits are natural numbers. `StateInv` has the tab's own state (`TabInv`: a blocked start has its editor on the screen), what may be on its way
(`WireInv`), the reducer's ranges (`RoomInv`), `NoRoomYet`, and `LiveInv`: on a live link a handshake is first on its way and alone answered; once it is, the last frame under way, or
else the one shown, is the room's. So a quiet board shows the room as it is, and `ControlsWork` is left with the button against that room. That the start
after a pick is not refused needs a bank that is not empty, so that what `clean` and the editor make of a list is a list again. FoldLeft, a recursive function over sets of places, is shown to exist and to keep to its type by
the least set for which it would not (`FoldsExist`, `FoldsKeep`).

Of `clean` the same argument gives what it computes: `CleanKeepsTheFirst` says that the questions played are the first `MAX_PROMPTS` usable ones among the first `MAX_SCAN` entries, in their order and
no two alike, with the place each comes from (`KeptOf` is kept by every entry). `QuestionsDiffer` follows: no two rounds on a set ask the same.

`AskedAsSaved` alone says nothing of messages under way. `Tracked` does: as long as nothing was lost, what the room has leads, message by message through what is on its way and then
through what the transport keeps back, to what the board believes the room to have, and every start among them finds the set it was tapped for. A tap adds a message at the end, the server takes one
at the front, a link that opens puts its handshake before what was kept back; all three keep the path. A refused pick, or one cut off by a drop, is where the path ends, and is what `lost` records.

**Only model-checked**: liveness (`ClosedIsDropped`, `Settles`, `Released`, `LeaveClosesRoom`, and the liveness half of `ImplementsSeats`), which is out of the prover's
reach, and of `Questions` what `boundedText` makes of a text, compared by TLC with its description on small inputs; the editor's operators are proved to return lists, and how the editor is used is
checked as part of HostBoard.

## 5. What is not modelled

- wording, layout and animation of the screens, the panels by phase, the join form's hints;
- zod parsing (packages/protocol): pure checks of shape before the modelled state changes. The models start behind them;
- gateway, static files, usage log, index.ts: process start and input and output; the listen and close of the whole server, and the choice of
  the client's address behind a proxy (socketServer.ts);
- the mock room (mockRoom.ts): a test double over the same reducer; bots.ts: a load tool; the testkits;
- the memo of cleaned sets in promptConfig.ts, the 32-bit hash that orders the cards (any ranking in the model), the randomness of room codes (any free code);
- minimum numbers of players and start hints on the host's board: HostBoard assumes players enough.

## 6. Plan

Done, in this order: Room; RoomTally and RoomSeating; RoomSession with Seats; RoomHub; RoomProofs;
RoundGame with GuessWho and MostLikelyTo; SocketServer; Transport; Questions and HostBoard; Standings, GuessScreens and VoteScreens; the proofs about the
session, the hub, the socket server, the games, the transport, the tally, the seating and the host's board.

Every safety property that holds in a run is a theorem. Left: that the editor's list keeps within `MAX_PROMPTS`, and `boundedText` within its caps.
