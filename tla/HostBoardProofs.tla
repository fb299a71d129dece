--------------------------- MODULE HostBoardProofs ---------------------------
(***************************************************************************)
(* Proofs about the host's board: what its buttons send is what the room   *)
(* takes, the round asks what the host saved, and only an editor that is   *)
(* there blocks the start, for every number of games, sets, messages,      *)
(* drops and reloads.                                                      *)
(***************************************************************************)
EXTENDS HostBoard, SequenceTheorems, WellFoundedInduction, TLAPS

-----------------------------------------------------------------------------
(* Lists, whatever their elements are.                                       *)
IsList(x) == x \in Seq(ToSet(x))

LEMMA ListOf ==
  ASSUME NEW S, NEW x \in Seq(S)
  PROVE  IsList(x)
<1>1. DOMAIN x = 1..Len(x) /\ Len(x) \in Nat /\ x = [i \in 1..Len(x) |-> x[i]]
  OBVIOUS
<1>2. \A i \in 1..Len(x) : x[i] \in ToSet(x)
  BY <1>1 DEF ToSet
<1> HIDE DEF ToSet
<1>3. x \in [1..Len(x) -> ToSet(x)]
  BY <1>1, <1>2
<1> QED BY <1>1, <1>3 DEF IsList

LEMMA ListFacts ==
  ASSUME NEW x, IsList(x)
  PROVE  /\ Len(x) \in Nat /\ DOMAIN x = 1..Len(x)
         /\ x = <<>> <=> Len(x) = 0
BY DEF IsList

LEMMA NoList == IsList(<<>>)
BY ListOf, <<>> \in Seq({})

LEMMA ListAppend ==
  ASSUME NEW x, IsList(x), NEW e
  PROVE  /\ IsList(Append(x, e)) /\ Len(Append(x, e)) = Len(x) + 1
         /\ DOMAIN Append(x, e) = 1..Len(x) + 1
         /\ Append(x, e)[Len(x) + 1] = e
         /\ \A i \in 1..Len(x) : Append(x, e)[i] = x[i]
<1> DEFINE S == ToSet(x) \cup {e}
<1>1. x \in Seq(S)
  BY DEF IsList
<1> HIDE DEF S
<1>2. e \in S
  BY DEF S
<1>3. Append(x, e) \in Seq(S)
  BY <1>1, <1>2
<1>4. IsList(Append(x, e))
  BY <1>3, ListOf
<1>5. Len(x) \in Nat
  BY <1>1
<1> QED BY <1>1, <1>2, <1>4, <1>5

LEMMA ListTail ==
  ASSUME NEW x, IsList(x), x # <<>>
  PROVE  /\ IsList(Tail(x)) /\ Len(Tail(x)) = Len(x) - 1
         /\ DOMAIN Tail(x) = 1..Len(x) - 1 /\ Head(x) = x[1] /\ Len(x) > 0
         /\ \A i \in 1..Len(x) - 1 : Tail(x)[i] = x[i + 1]
<1>1. x \in Seq(ToSet(x))
  BY DEF IsList
<1> DEFINE S == ToSet(x)
<1>2. x \in Seq(S)
  BY <1>1
<1> HIDE DEF S
<1>3. Tail(x) \in Seq(S) /\ Len(Tail(x)) = Len(x) - 1
  BY <1>2
<1>4. IsList(Tail(x))
  BY <1>3, ListOf
<1>5. \A i \in 1..Len(x) - 1 : Tail(x)[i] = x[i + 1]
  BY <1>2, <1>3, HeadTailProperties
<1>6. Len(x) \in Nat /\ Len(x) > 0 /\ Head(x) = x[1]
  BY <1>2
<1> QED BY <1>3, <1>4, <1>5, <1>6

LEMMA ListConcat ==
  ASSUME NEW x, IsList(x), NEW y, IsList(y)
  PROVE  /\ IsList(x \o y) /\ Len(x \o y) = Len(x) + Len(y)
         /\ DOMAIN (x \o y) = 1..Len(x) + Len(y)
         /\ \A i \in 1..Len(x) : (x \o y)[i] = x[i]
         /\ \A i \in 1..Len(y) : (x \o y)[Len(x) + i] = y[i]
<1> DEFINE S == ToSet(x) \cup ToSet(y)
<1>1. x \in Seq(S) /\ y \in Seq(S)
  BY DEF IsList
<1> HIDE DEF S
<1>2. /\ x \o y \in Seq(S) /\ Len(x \o y) = Len(x) + Len(y)
      /\ \A i \in 1..Len(x) + Len(y) :
           (x \o y)[i] = IF i <= Len(x) THEN x[i] ELSE y[i - Len(x)]
  BY <1>1, ConcatProperties
<1>3. Len(x) \in Nat /\ Len(y) \in Nat
  BY <1>1
<1>4. DOMAIN (x \o y) = 1..Len(x) + Len(y)
  BY <1>2
<1>5. IsList(x \o y)
  BY <1>2, ListOf
<1>6. \A i \in 1..Len(x) : (x \o y)[i] = x[i]
  BY <1>2, <1>3
<1>7. ASSUME NEW i \in 1..Len(y) PROVE (x \o y)[Len(x) + i] = y[i]
  <2>1. Len(x) + i \in 1..Len(x) + Len(y) /\ ~(Len(x) + i <= Len(x)) /\ (Len(x) + i) - Len(x) = i
    BY <1>3
  <2> QED BY <1>2, <2>1
<1> QED BY <1>2, <1>4, <1>5, <1>6, <1>7

LEMMA ListPrefix ==
  ASSUME NEW x, IsList(x), NEW n \in 0..Len(x)
  PROVE  /\ IsList(SubSeq(x, 1, n)) /\ Len(SubSeq(x, 1, n)) = n
         /\ DOMAIN SubSeq(x, 1, n) = 1..n
         /\ \A i \in 1..n : SubSeq(x, 1, n)[i] = x[i]
<1>1. x \in Seq(ToSet(x)) /\ Len(x) \in Nat
  BY DEF IsList
<1> DEFINE S == ToSet(x)
<1>2. x \in Seq(S) /\ n \in Int /\ n <= Len(x) /\ \A i \in 1..n : x[i] \in S
  BY <1>1
<1> HIDE DEF S
<1>3. /\ SubSeq(x, 1, n) \in Seq(S)
      /\ Len(SubSeq(x, 1, n)) = IF 1 <= n THEN n - 1 + 1 ELSE 0
      /\ \A i \in 1..n - 1 + 1 : SubSeq(x, 1, n)[i] = x[1 + i - 1]
  BY <1>2, SubSeqProperties
<1>4. IsList(SubSeq(x, 1, n))
  BY <1>3, ListOf
<1>5. Len(SubSeq(x, 1, n)) = n
  BY <1>3
<1>6. \A i \in 1..n : i \in 1..n - 1 + 1 /\ 1 + i - 1 = i
  OBVIOUS
<1>7. DOMAIN SubSeq(x, 1, n) = 1..n
  BY <1>3, <1>5
<1> QED BY <1>3, <1>4, <1>5, <1>6, <1>7

LEMMA ListSuffix ==
  ASSUME NEW x, IsList(x), NEW m \in 1..Len(x) + 1
  PROVE  IsList(SubSeq(x, m, Len(x)))
<1>1. x \in Seq(ToSet(x)) /\ Len(x) \in Nat
  BY DEF IsList
<1>2. SubSeq(x, m, Len(x)) \in Seq(ToSet(x))
  BY <1>1
<1> QED BY <1>2, ListOf

LEMMA ListOfOne ==
  ASSUME NEW e
  PROVE  /\ IsList(<<e>>) /\ Len(<<e>>) = 1 /\ DOMAIN <<e>> = {1} /\ <<e>>[1] = e
         /\ <<e>> # <<>>
<1>1. <<e>> \in Seq({e}) /\ Len(<<e>>) = 1 /\ <<e>>[1] = e
  OBVIOUS
<1>2. IsList(<<e>>)
  BY <1>1, ListOf
<1> QED BY <1>1, <1>2

LEMMA Prepended ==
  ASSUME NEW e, NEW y, IsList(y)
  PROVE  LET z == <<e>> \o y
         IN  /\ IsList(z) /\ Len(z) = 1 + Len(y) /\ DOMAIN z = 1..1 + Len(y)
             /\ z[1] = e /\ \A i \in 1..Len(y) : z[1 + i] = y[i]
<1> DEFINE S == ToSet(y) \cup {e}
           x == <<e>>
<1>1. x \in Seq(S) /\ y \in Seq(S) /\ Len(x) = 1 /\ x[1] = e
  BY DEF IsList
<1> HIDE DEF S, x
<1>2. /\ x \o y \in Seq(S) /\ Len(x \o y) = Len(x) + Len(y)
      /\ \A i \in 1..Len(x) + Len(y) :
           (x \o y)[i] = IF i <= Len(x) THEN x[i] ELSE y[i - Len(x)]
  BY <1>1, ConcatProperties
<1> DEFINE z == x \o y
<1>3. /\ Len(y) \in Nat /\ z \in Seq(S) /\ Len(z) = 1 + Len(y)
      /\ \A i \in 1..1 + Len(y) : z[i] = IF i <= 1 THEN x[i] ELSE y[i - 1]
  BY <1>1, <1>2
<1> HIDE DEF z
<1>4. IsList(z) /\ DOMAIN z = 1..1 + Len(y)
  BY <1>3, ListOf
<1>5. z[1] = e
  <2>1. 1 \in 1..1 + Len(y) /\ 1 <= 1
    BY <1>3
  <2> QED BY <1>1, <1>3, <2>1
<1>6. ASSUME NEW i \in 1..Len(y) PROVE z[1 + i] = y[i]
  <2>1. 1 + i \in 1..1 + Len(y) /\ ~(1 + i <= 1) /\ (1 + i) - 1 = i
    BY <1>3
  <2> QED BY <1>3, <2>1
<1> QED BY <1>3, <1>4, <1>5, <1>6 DEF x, z

LEMMA PushIsAppend ==
  ASSUME NEW x, IsList(x), NEW e
  PROVE  x \o <<e>> = Append(x, e)
<1> DEFINE S == ToSet(x) \cup {e}
<1>1. x \in Seq(S) /\ e \in S
  BY DEF IsList
<1> HIDE DEF S
<1> QED BY <1>1

LEMMA SameList ==
  ASSUME NEW x, IsList(x), NEW y, IsList(y), Len(x) = Len(y),
         \A i \in 1..Len(x) : x[i] = y[i]
  PROVE  x = y
BY DEF IsList
-----------------------------------------------------------------------------
(* The board's own state: what its tab may show, and the lists it remembers. *)
GameOrNone == Game \cup {NoGame}

FrameGood(f) == f.type = "frame" => f.game \in GameOrNone

TabParts == {"mode", "frame", "picking", "confirm", "editor", "open", "blocked"}
TabInv ==
  /\ DOMAIN tab = TabParts
  /\ tab.editor \in GameOrNone
  /\ tab.frame # NoFrame => tab.frame.game \in GameOrNone
  /\ DOMAIN cache = Game /\ \A g \in Game : IsList(cache[g])
  /\ BlockedOnlyByEditor

(* What may be on its way.                                                   *)
MessageGood(m) ==
  /\ m.type = "selectGame" => m.game \in Game
  /\ m.type = "configureGame" => IsList(m.list)

WireInv ==
  /\ IsList(up) /\ IsList(pending) /\ IsList(down)
  /\ \A i \in DOMAIN up : MessageGood(up[i])
  /\ \A i \in DOMAIN pending : MessageGood(pending[i]) /\ pending[i].type \in HostActions
  /\ \A i \in DOMAIN down : FrameGood(down[i])

(* The room as the reducer keeps it.                                         *)
RoomParts == {"state", "attached", "phase", "game", "config", "round", "step", "asked", "tag"}
RoomGood(R) ==
  /\ DOMAIN R = RoomParts
  /\ R.game \in GameOrNone /\ R.round \in Nat
  /\ R.phase \in {"LOBBY", "IN_GAME", "SCORES"}
  /\ R.phase = "LOBBY" => R.round = 0
  /\ R.phase = "IN_GAME" => R.game \in Game /\ R.step \in 1..Steps[R.game]
  /\ R.config = Unset \/ IsList(R.config)
RoomInv == RoomGood(room)

(* Before there is a room nobody has seen it, and nothing has been asked.    *)
NoRoomYet ==
  room.state = "none" =>
    /\ tab.frame = NoFrame /\ \A i \in DOMAIN down : down[i].type # "frame"
    /\ picked = NoGame /\ saved = Unknown

(* What is under way on a live link: a handshake first, or its answer.  Once *)
(* that is given the last frame under way, or else the one shown, is of the  *)
(* room as it is.                                                            *)
OnlyActions(q) == \A i \in DOMAIN q : q[i].type \in HostActions
Greets(q) ==
  /\ q # <<>> /\ q[1].type \in {"open", "resumeHost"}
  /\ \A i \in DOMAIN q : i # 1 => q[i].type \in HostActions
Greeting == Greets(up) /\ down = <<>>
TurnedAway == OnlyActions(up) /\ down = <<Msg("NO_SUCH_ROOM")>> /\ room.state # "open"
Shown ==
  /\ OnlyActions(up) /\ room.state = "open" /\ room.attached
  /\ FrameOf(room) = IF down = <<>> THEN tab.frame ELSE down[Len(down)]
LiveInv ==
  /\ link # "off" => tab.mode = "board"
  /\ link = "live" => pending = <<>> /\ (Greeting \/ TurnedAway \/ Shown)

(* The game and set the room is about to have, message by message on their   *)
(* way to it, and what the messages and the board take them to be.           *)
GameAndSet == <<room.game, room.config>>

After(s, m) ==
  IF m.type = "selectGame" THEN <<m.game, IF m.game = s[1] THEN s[2] ELSE Unset>>
  ELSE IF m.type = "configureGame" THEN <<s[1], m.list>>
  ELSE s

Meant(s, m) ==
  m.type = "startGame" /\ m.tag # Unknown => s = <<m.tag.game, m.tag.list>>

Leads(q, s, t) ==
  \E path :
    /\ path[0] = s /\ path[Len(q)] = t
    /\ \A i \in 1..Len(q) : path[i] = After(path[i - 1], q[i]) /\ Meant(path[i - 1], q[i])

Believed(s) ==
  tab.mode = "board" =>
    /\ picked # NoGame => s[1] = picked
    /\ saved # Unknown => s = <<saved.game, saved.list>>

Tracked ==
  ~lost => \E s, t : Leads(up, GameAndSet, s) /\ Leads(pending, s, t) /\ Believed(t)

StateInv == TabInv /\ WireInv /\ RoomInv /\ NoRoomYet /\ LiveInv
BoardInv == StateInv /\ Tracked /\ AskedAsSaved

-----------------------------------------------------------------------------
(* The board's tab.                                                          *)
LEMMA LandingFacts ==
  /\ DOMAIN Landing = TabParts /\ DOMAIN Board = TabParts
  /\ Landing.mode = "landing" /\ Board.mode = "board"
  /\ \A T \in {Landing, Board, [Landing EXCEPT !.mode = "recover"]} :
       /\ DOMAIN T = TabParts /\ T.frame = NoFrame /\ T.editor = NoGame
       /\ T.blocked = FALSE /\ T.confirm = "none"
BY DEF Landing, Board, TabParts

LEMMA RenderedFacts ==
  ASSUME NEW old, NEW new, NEW lists,
         DOMAIN new = TabParts,
         new.frame # NoFrame => new.frame.game \in GameOrNone,
         new.blocked => old.editor # NoGame
  PROVE  LET r == Rendered(old, new, lists)
         IN  /\ DOMAIN r = TabParts
             /\ r.mode = new.mode /\ r.frame = new.frame /\ r.confirm = new.confirm
             /\ r.editor \in GameOrNone
             /\ r.blocked => r.editor # NoGame /\ r.open /\ lists[r.editor] = <<>>
<1> DEFINE phase(T) == IF T.frame = NoFrame THEN "none" ELSE T.frame.phase
           T == [new EXCEPT !.picking = @ /\ (phase(new) \in {phase(old), "SCORES"})]
           editor == IF T.frame # NoFrame /\ T.mode = "board" /\ ShowPicker(T)
                     THEN T.frame.game ELSE NoGame
           open == T.open /\ editor = old.editor
           blocked == IF editor # NoGame THEN open /\ lists[editor] = <<>>
                      ELSE IF old.editor # NoGame THEN Unblocked(T) ELSE T.blocked
           r == [T EXCEPT !.editor = editor, !.open = open, !.blocked = blocked]
<1>1. /\ DOMAIN T = TabParts /\ T.frame = new.frame /\ T.mode = new.mode
      /\ T.blocked = new.blocked /\ T.open = new.open /\ T.confirm = new.confirm
  BY DEF TabParts
<1> HIDE DEF T
<1>2. editor \in GameOrNone
  BY <1>1 DEF GameOrNone
<1> HIDE DEF editor
<1>3. blocked => editor # NoGame /\ open /\ lists[editor] = <<>>
  BY <1>1 DEF Unblocked
<1> HIDE DEF blocked, open
<1>4. /\ DOMAIN r = TabParts /\ r.mode = new.mode /\ r.frame = new.frame /\ r.confirm = new.confirm
      /\ r.editor = editor /\ r.open = open /\ r.blocked = blocked
  BY <1>1 DEF TabParts
<1>5. r = Rendered(old, new, lists)
  BY DEF r, T, editor, open, blocked, Rendered
<1> HIDE DEF r
<1> QED BY <1>2, <1>3, <1>4, <1>5

-----------------------------------------------------------------------------
(* Folding a list.  FoldLeft takes the places of a list from the last one    *)
(* back; if every step stays in a set of values, so does the result.         *)

LEMMA HasLeast ==
  ASSUME NEW S \in SUBSET Nat, S # {}
  PROVE  \E x \in S : \A y \in S : x <= y
<1> DEFINE R == {ss \in Nat \X Nat : ss[1] < ss[2]}
<1>1. \A x, y \in Nat : <<y, x>> \in R <=> y < x
  OBVIOUS
<1>2. IsWellFoundedOn(R, Nat)
  <2>1. R = OpToRel(<, Nat)
    BY DEF OpToRel
  <2> HIDE DEF R
  <2> QED BY <2>1, NatLessThanWellFounded
<1> HIDE DEF R
<1>3. S \subseteq Nat
  OBVIOUS
<1>4. PICK x \in S : \A y \in S : ~(<<y, x>> \in R)
  BY <1>2, <1>3, WFMin, Zenon
<1>5. \A y \in S : ~(y < x)
  BY <1>1, <1>3, <1>4
<1>6. \A y \in S : x <= y
  BY <1>3, <1>5
<1> QED BY <1>6

LEMMA LastPlace ==
  ASSUME NEW n \in Nat, NEW s \in SUBSET (1..n), s # {}
  PROVE  Max(s) \in s /\ \A y \in s : y <= Max(s)
<1> DEFINE gaps == {n - y : y \in s}
<1>1. gaps \in SUBSET Nat /\ gaps # {}
  <2>1. \A y \in s : n - y \in Nat
    <3> SUFFICES ASSUME NEW y \in s PROVE n - y \in Nat
      OBVIOUS
    <3>1. y \in 1..n
      OBVIOUS
    <3> QED BY <3>1
  <2> QED BY <2>1
<1>2. PICK k \in gaps : \A j \in gaps : k <= j
  BY <1>1, HasLeast
<1>3. PICK x \in s : k = n - x
  BY <1>2
<1>4. ASSUME NEW y \in s PROVE x >= y
  <2>1. n - x <= n - y
    BY <1>2, <1>3
  <2> QED BY <2>1
<1>5. \E z \in s : \A y \in s : z >= y
  BY <1>4
<1>6. Max(s) \in s /\ \A y \in s : Max(s) >= y
  BY <1>5 DEF Max
<1> QED BY <1>6

(* The partial folds of a list of n places, of the places up to the k-th.    *)
Before(s) == s \ {Max(s)}
FoldsUpTo(h, step, base, k) ==
  \A s \in SUBSET (1..k) : h[s] = IF s = {} THEN base ELSE step[<<Max(s), h[Before(s)]>>]

LEMMA BeforeFacts ==
  ASSUME NEW n \in Nat, NEW s \in SUBSET (1..n), s # {}
  PROVE  /\ n # 0 /\ n - 1 \in Nat /\ Before(s) \in SUBSET (1..n - 1)
         /\ Before(s) \in SUBSET (1..n) /\ Max(s) \in 1..n
<1>1. Max(s) \in s /\ \A y \in s : y <= Max(s)
  BY LastPlace
<1>0. Max(s) \in 1..n
  BY <1>1
<1> DEFINE m == Max(s)
<1>2. n # 0 /\ n - 1 \in Nat
  <2>1. m \in 1..n
    BY <1>0
  <2> HIDE DEF m
  <2> QED BY <2>1
<1>3. \A y \in Before(s) : y \in 1..n - 1
  <2> SUFFICES ASSUME NEW y \in Before(s) PROVE y \in 1..n - 1
    OBVIOUS
  <2>1. y \in 1..n /\ y <= Max(s) /\ y # Max(s) /\ Max(s) \in 1..n
    BY <1>1 DEF Before
  <2> QED BY <2>1
<1>4. Before(s) \in SUBSET (1..n) /\ Before(s) \in SUBSET (1..n - 1)
  BY <1>3 DEF Before
<1> QED BY <1>0, <1>2, <1>4

LEMMA FoldsExist ==
  ASSUME NEW n \in Nat, NEW V, NEW base \in V, NEW step \in [(1..n) \X V -> V]
  PROVE  \E h \in [SUBSET (1..n) -> V] : FoldsUpTo(h, step, base, n)
<1> DEFINE Reached(k) == \E h \in [SUBSET (1..n) -> V] : FoldsUpTo(h, step, base, k)
           stuck == {k \in 0..n : ~Reached(k)}
<1>1. stuck = {}
  <2> SUFFICES ASSUME stuck # {} PROVE FALSE
    OBVIOUS
  <2>1. PICK k \in stuck : \A j \in stuck : k <= j
    <3>1. stuck \in SUBSET Nat
      OBVIOUS
    <3> HIDE DEF stuck
    <3> QED BY <3>1, HasLeast
  <2>2. k \in 0..n /\ ~Reached(k)
    BY <2>1
  <2>3. CASE k = 0
    <3> DEFINE h == [s \in SUBSET (1..n) |-> base]
    <3>1. h \in [SUBSET (1..n) -> V]
      OBVIOUS
    <3>2. \A s \in SUBSET (1..0) : s = {} /\ s \in SUBSET (1..n)
      OBVIOUS
    <3>3. FoldsUpTo(h, step, base, 0)
      BY <3>2 DEF FoldsUpTo
    <3> QED BY <2>2, <2>3, <3>1, <3>3
  <2>4. CASE k # 0
    <3>1. k - 1 \in 0..n /\ ~(k <= k - 1) /\ k - 1 \in Nat /\ k \in Nat
      BY <2>2, <2>4
    <3>2. Reached(k - 1)
      BY <2>1, <3>1
    <3>3. PICK h \in [SUBSET (1..n) -> V] : FoldsUpTo(h, step, base, k - 1)
      BY <3>2
    <3> DEFINE Step(s) == IF s = {} THEN base ELSE step[<<Max(s), h[Before(s)]>>]
               g == [s \in SUBSET (1..n) |-> Step(s)]
    <3>4. \A s \in SUBSET (1..n) : Step(s) \in V
      BY BeforeFacts
    <3>5. g \in [SUBSET (1..n) -> V]
      BY <3>4
    <3>6. \A s \in SUBSET (1..k) : s \in SUBSET (1..n)
      BY <2>2
    <3>7. ASSUME NEW s \in SUBSET (1..k), s # {}
          PROVE  g[s] = step[<<Max(s), g[Before(s)]>>]
      <4>1. Before(s) \in SUBSET (1..k - 1) /\ Before(s) \in SUBSET (1..k)
        BY <3>1, <3>7, BeforeFacts
      <4>2. h[Before(s)] = Step(Before(s))
        BY <3>3, <4>1 DEF FoldsUpTo
      <4>3. g[Before(s)] = Step(Before(s))
        BY <3>6, <4>1
      <4>4. g[s] = step[<<Max(s), h[Before(s)]>>]
        BY <3>6, <3>7
      <4> QED BY <4>2, <4>3, <4>4
    <3>8. g[{}] = base
      OBVIOUS
    <3>9. FoldsUpTo(g, step, base, k)
      <4> HIDE DEF g
      <4> QED BY <3>7, <3>8 DEF FoldsUpTo
    <3> QED BY <2>2, <3>5, <3>9
  <2> QED BY <2>3, <2>4
<1>2. n \in 0..n
  OBVIOUS
<1>3. Reached(n)
  <2> SUFFICES ASSUME ~Reached(n) PROVE FALSE
    OBVIOUS
  <2> HIDE DEF Reached
  <2> QED BY <1>1, <1>2
<1> QED BY <1>3

(* What holds of the base and is kept by every step holds of the fold; so    *)
(* whatever satisfies such a recursion has values of the set.                *)
LEMMA FoldsKeep ==
  ASSUME NEW n \in Nat, NEW ok, NEW h, h[{}] \in ok[{}],
         \A s \in SUBSET (1..n) : s # {} /\ h[Before(s)] \in ok[Before(s)] => h[s] \in ok[s]
  PROVE  h[1..n] \in ok[1..n]
<1> DEFINE bad == {k \in 0..n : \E s \in SUBSET (1..k) : h[s] \notin ok[s]}
<1>1. bad = {}
  <2> SUFFICES ASSUME bad # {} PROVE FALSE
    OBVIOUS
  <2>1. PICK k \in bad : \A j \in bad : k <= j
    <3>1. bad \in SUBSET Nat
      OBVIOUS
    <3> HIDE DEF bad
    <3> QED BY <3>1, HasLeast
  <2>2. PICK s \in SUBSET (1..k) : h[s] \notin ok[s]
    BY <2>1
  <2>3. k \in 0..n /\ k \in Nat /\ s \in SUBSET (1..n)
    BY <2>1, <2>2
  <2>4. s # {}
    BY <2>2
  <2>5. h[Before(s)] \notin ok[Before(s)]
    BY <2>2, <2>3, <2>4
  <2>6. k # 0 /\ Before(s) \in SUBSET (1..k - 1)
    BY <2>3, <2>4, BeforeFacts
  <2>7. k - 1 \in 0..n /\ ~(k <= k - 1)
    BY <2>3, <2>6
  <2>8. k - 1 \in bad
    BY <2>5, <2>6, <2>7
  <2> QED BY <2>1, <2>7, <2>8
<1>2. n \notin bad
  BY <1>1
<1> QED BY <1>2

LEMMA FoldsTyped ==
  ASSUME NEW n \in Nat, NEW V, NEW h, h[{}] \in V,
         \A s \in SUBSET (1..n) : s # {} /\ h[Before(s)] \in V => h[s] \in V
  PROVE  h[1..n] \in V
<1> DEFINE ok == [s \in SUBSET (1..n) |-> V]
<1>1. h[{}] \in ok[{}] /\ 1..n \in SUBSET (1..n)
  OBVIOUS
<1>2. ASSUME NEW s \in SUBSET (1..n), s # {}, h[Before(s)] \in ok[Before(s)]
      PROVE  h[s] \in ok[s]
  <2>1. Before(s) \in SUBSET (1..n)
    BY <1>2, BeforeFacts
  <2> QED BY <1>2, <2>1
<1>3. ok[1..n] = V
  BY <1>1
<1> HIDE DEF ok
<1>4. h[1..n] \in ok[1..n]
  BY <1>1, <1>2, FoldsKeep
<1> QED BY <1>3, <1>4

-----------------------------------------------------------------------------
(* What the editor and the game make of a list is a list.                    *)

LEMMA NotInPackIsList ==
  ASSUME NEW list, IsList(list), NEW pack
  PROVE  IsList(notInPack(list, pack))
<1> DEFINE n == Len(list)
           V == Seq(ToSet(list))
           Take(kept, text) == IF ~has(pack, text) THEN Append(kept, text) ELSE kept
           step == [p \in (1..n) \X V |-> Take(p[2], list[p[1]])]
           Fold(h) ==
             h = [s \in SUBSET DOMAIN list |->
                    IF s = {} THEN <<>> ELSE Take(h[s \ {Max(s)}], list[Max(s)])]
           fold == CHOOSE h : Fold(h)
<1>1. n \in Nat /\ DOMAIN list = 1..n /\ <<>> \in V /\ \A i \in 1..n : list[i] \in ToSet(list)
  BY ListFacts DEF ToSet
<1>2. \A i \in 1..n, kept \in V : Take(kept, list[i]) \in V
  BY <1>1
<1> HIDE DEF n, V, Take
<1>3. step \in [(1..n) \X V -> V]
  BY <1>2
<1>4. PICK g \in [SUBSET (1..n) -> V] : FoldsUpTo(g, step, <<>>, n)
  BY <1>1, <1>3, FoldsExist
<1>5. Fold(g)
  <2>1. ASSUME NEW s \in SUBSET (1..n), s # {}
        PROVE  g[s] = Take(g[s \ {Max(s)}], list[Max(s)])
    <3>1. Max(s) \in 1..n /\ g[Before(s)] \in V
      BY <1>1, <2>1, BeforeFacts
    <3>2. g[s] = step[<<Max(s), g[Before(s)]>>]
      BY <1>4, <2>1 DEF FoldsUpTo
    <3> QED BY <3>1, <3>2 DEF Before
  <2>2. g[{}] = <<>>
    BY <1>4 DEF FoldsUpTo
  <2> QED BY <1>1, <2>1, <2>2
<1>6. Fold(fold)
  BY <1>5
<1>7. fold[1..n] \in V
  <2> HIDE DEF fold
  <2>1. fold[{}] \in V
    BY <1>1, <1>6
  <2>2. ASSUME NEW s \in SUBSET (1..n), s # {}, fold[Before(s)] \in V PROVE fold[s] \in V
    <3>1. Max(s) \in 1..n
      BY <1>1, <2>2, BeforeFacts
    <3>2. fold[s] = Take(fold[Before(s)], list[Max(s)])
      BY <1>1, <1>6, <2>2 DEF Before
    <3> QED BY <1>2, <2>2, <3>1, <3>2
  <2> QED BY <1>1, <2>1, <2>2, FoldsTyped
<1>8. notInPack(list, pack) = fold[1..n]
  BY <1>1 DEF notInPack, FoldLeft, MapThenFoldSet, Take
<1> QED BY <1>7, <1>8, ListOf DEF V

LEMMA AdditionsIsList ==
  ASSUME NEW pack, IsList(pack), NEW list
  PROVE  IsList(additions(pack, list))
<1> DEFINE n == Len(pack)
           V == Seq(ToSet(pack))
           Take(kept, text) == IF trim(text) # <<>> /\ ~has(list, text) THEN Append(kept, text) ELSE kept
           step == [p \in (1..n) \X V |-> Take(p[2], pack[p[1]])]
           Fold(h) ==
             h = [s \in SUBSET DOMAIN pack |->
                    IF s = {} THEN <<>> ELSE Take(h[s \ {Max(s)}], pack[Max(s)])]
           fold == CHOOSE h : Fold(h)
<1>1. n \in Nat /\ DOMAIN pack = 1..n /\ <<>> \in V /\ \A i \in 1..n : pack[i] \in ToSet(pack)
  BY ListFacts DEF ToSet
<1>2. \A i \in 1..n, kept \in V : Take(kept, pack[i]) \in V
  BY <1>1
<1> HIDE DEF n, V, Take
<1>3. step \in [(1..n) \X V -> V]
  BY <1>2
<1>4. PICK g \in [SUBSET (1..n) -> V] : FoldsUpTo(g, step, <<>>, n)
  BY <1>1, <1>3, FoldsExist
<1>5. Fold(g)
  <2>1. ASSUME NEW s \in SUBSET (1..n), s # {}
        PROVE  g[s] = Take(g[s \ {Max(s)}], pack[Max(s)])
    <3>1. Max(s) \in 1..n /\ g[Before(s)] \in V
      BY <1>1, <2>1, BeforeFacts
    <3>2. g[s] = step[<<Max(s), g[Before(s)]>>]
      BY <1>4, <2>1 DEF FoldsUpTo
    <3> QED BY <3>1, <3>2 DEF Before
  <2>2. g[{}] = <<>>
    BY <1>4 DEF FoldsUpTo
  <2> QED BY <1>1, <2>1, <2>2
<1>6. Fold(fold)
  BY <1>5
<1>7. fold[1..n] \in V
  <2> HIDE DEF fold
  <2>1. fold[{}] \in V
    BY <1>1, <1>6
  <2>2. ASSUME NEW s \in SUBSET (1..n), s # {}, fold[Before(s)] \in V PROVE fold[s] \in V
    <3>1. Max(s) \in 1..n
      BY <1>1, <2>2, BeforeFacts
    <3>2. fold[s] = Take(fold[Before(s)], pack[Max(s)])
      BY <1>1, <1>6, <2>2 DEF Before
    <3> QED BY <1>2, <2>2, <3>1, <3>2
  <2> QED BY <1>1, <2>1, <2>2, FoldsTyped
<1>8. additions(pack, list) = fold[1..n]
  BY <1>1 DEF additions, FoldLeft, MapThenFoldSet, Take
<1> QED BY <1>7, <1>8, ListOf DEF V

(* How the game goes through an authored list, entry by entry.               *)
Scanned(raw) == IF Len(raw) < MAX_SCAN THEN Len(raw) ELSE MAX_SCAN
Text(item) == IF item = NotText THEN <<>> ELSE boundedText(item, MAX_LEN)
Alike(a, b) == lower(a) = lower(b)
Take(kept, item) ==
  IF item = NotText \/ Len(kept) >= MAX_PROMPTS THEN kept
  ELSE LET text == boundedText(item, MAX_LEN)
       IN  IF text = <<>> \/ \E i \in DOMAIN kept : lower(kept[i]) = lower(text)
           THEN kept
           ELSE Append(kept, text)

LEMMA CleanFolds ==
  ASSUME NEW raw, IsList(raw)
  PROVE  LET n == Scanned(raw)
         IN  /\ n \in 0..Len(raw)
             /\ \E h : /\ h[{}] = <<>>
                       /\ \A s \in SUBSET (1..n) :
                            s # {} => h[s] = Take(h[Before(s)], raw[Max(s)])
                       /\ clean(raw) = h[1..n]
<1> DEFINE k == Scanned(raw)
           list == SubSeq(raw, 1, k)
           n == Len(list)
           V == Seq({boundedText(list[i], MAX_LEN) : i \in 1..n})
           step == [p \in (1..n) \X V |-> Take(p[2], list[p[1]])]
           Fold(h) ==
             h = [s \in SUBSET DOMAIN list |->
                    IF s = {} THEN <<>> ELSE Take(h[s \ {Max(s)}], list[Max(s)])]
           fold == CHOOSE h : Fold(h)
<1>0. k \in 0..Len(raw)
  BY ListFacts, QuestionsAssumption DEF Scanned
<1>a. clean(raw) = FoldLeft(LAMBDA kept, item : Take(kept, item), <<>>, list)
  BY DEF clean, Take, Scanned
<1> HIDE DEF k
<1>1. /\ IsList(list) /\ n = k /\ \A i \in 1..n : list[i] = raw[i]
      /\ n \in Nat /\ DOMAIN list = 1..n /\ <<>> \in V
  BY <1>0, ListPrefix, ListFacts
<1> HIDE DEF list
<1>2. \A i \in 1..n, kept \in V : Take(kept, list[i]) \in V
  <2> SUFFICES ASSUME NEW i \in 1..n, NEW kept \in V PROVE Take(kept, list[i]) \in V
    OBVIOUS
  <2>1. Append(kept, boundedText(list[i], MAX_LEN)) \in V
    OBVIOUS
  <2> HIDE DEF V
  <2> QED BY <2>1 DEF Take
<1> HIDE DEF n, V
<1>3. step \in [(1..n) \X V -> V]
  BY <1>2
<1>4. PICK g \in [SUBSET (1..n) -> V] : FoldsUpTo(g, step, <<>>, n)
  BY <1>1, <1>3, FoldsExist
<1>5. Fold(g)
  <2>1. ASSUME NEW s \in SUBSET (1..n), s # {}
        PROVE  g[s] = Take(g[s \ {Max(s)}], list[Max(s)])
    <3>1. Max(s) \in 1..n /\ g[Before(s)] \in V
      BY <1>1, <2>1, BeforeFacts
    <3>2. g[s] = step[<<Max(s), g[Before(s)]>>]
      BY <1>4, <2>1 DEF FoldsUpTo
    <3> QED BY <3>1, <3>2 DEF Before
  <2>2. g[{}] = <<>>
    BY <1>4 DEF FoldsUpTo
  <2> QED BY <1>1, <2>1, <2>2
<1>6. Fold(fold)
  BY <1>5
<1>7. clean(raw) = fold[1..n]
  BY <1>1, <1>a DEF FoldLeft, MapThenFoldSet
<1> HIDE DEF fold
<1>8. fold[{}] = <<>>
  BY <1>6
<1>9. ASSUME NEW s \in SUBSET (1..n), s # {} PROVE fold[s] = Take(fold[Before(s)], raw[Max(s)])
  <2>1. Max(s) \in 1..n
    BY <1>1, <1>9, BeforeFacts
  <2>2. fold[s] = Take(fold[Before(s)], list[Max(s)])
    BY <1>1, <1>6, <1>9 DEF Before
  <2> QED BY <1>1, <2>1, <2>2
<1> QED BY <1>0, <1>1, <1>7, <1>8, <1>9 DEF k

(* What is kept of the entries at some places: usable texts, in the order of *)
(* their entries, no two alike; and every usable text, at its first place or *)
(* alike to one, unless the set was full before it.                          *)
KeptOf(raw, places, kept) ==
  \E from :
    /\ \A k \in 1..Len(kept) :
         from[k] \in places /\ kept[k] = Text(raw[from[k]]) /\ kept[k] # <<>>
    /\ \A k, l \in 1..Len(kept) :
         /\ k < l => from[k] < from[l]
         /\ k # l => ~Alike(kept[k], kept[l])
    /\ \A i \in places :
         Text(raw[i]) # <<>> =>
           \/ \E k \in 1..Len(kept) : from[k] <= i /\ Alike(kept[k], Text(raw[i]))
           \/ Len(kept) = MAX_PROMPTS /\ \A k \in 1..Len(kept) : from[k] < i

LEMMA TakeKeeps ==
  ASSUME NEW raw, NEW n \in Nat, NEW s \in SUBSET (1..n), s # {},
         NEW kept, IsList(kept), Len(kept) <= MAX_PROMPTS, KeptOf(raw, Before(s), kept)
  PROVE  LET new == Take(kept, raw[Max(s)])
         IN  IsList(new) /\ Len(new) <= MAX_PROMPTS /\ KeptOf(raw, s, new)
<1> DEFINE m == Max(s)
           text == Text(raw[m])
           new == Take(kept, raw[m])
           c == Len(kept)
<1>1. /\ m \in s /\ m \in 1..n /\ Before(s) \subseteq s /\ c \in Nat
      /\ \A i \in s : i \in Nat /\ (i = m \/ (i \in Before(s) /\ i < m))
  <2>1. m \in s /\ \A y \in s : y <= m
    BY LastPlace
  <2>2. \A i \in s : i = m \/ i \in Before(s)
    BY DEF Before
  <2> HIDE DEF m
  <2>3. \A i \in s : i \in Nat /\ (i = m \/ (i \in Before(s) /\ i < m))
    <3> SUFFICES ASSUME NEW i \in s, i # m PROVE i \in Before(s) /\ i < m
      BY <2>1
    <3>1. i \in 1..n /\ m \in 1..n
      BY <2>1
    <3> QED BY <2>1, <2>2, <3>1
  <2> QED BY <2>1, <2>3, ListFacts DEF Before
<1>2. PICK from :
        /\ \A k \in 1..c : from[k] \in Before(s) /\ kept[k] = Text(raw[from[k]]) /\ kept[k] # <<>>
        /\ \A k, l \in 1..c : /\ k < l => from[k] < from[l]
                              /\ k # l => ~Alike(kept[k], kept[l])
        /\ \A i \in Before(s) :
             Text(raw[i]) # <<>> =>
               \/ \E k \in 1..c : from[k] <= i /\ Alike(kept[k], Text(raw[i]))
               \/ c = MAX_PROMPTS /\ \A k \in 1..c : from[k] < i
  BY DEF KeptOf
<1> HIDE DEF m, text, c
<1>3. ASSUME text # <<>> =>
               \/ \E k \in 1..c : Alike(kept[k], text)
               \/ c = MAX_PROMPTS
      PROVE  KeptOf(raw, s, kept)
  <2>1. \A k \in 1..c : from[k] \in s /\ from[k] < m /\ from[k] <= m
    <3> SUFFICES ASSUME NEW k \in 1..c PROVE from[k] \in s /\ from[k] < m /\ from[k] <= m
      OBVIOUS
    <3>1. from[k] \in s /\ from[k] \in Before(s) /\ from[k] # m
      BY <1>1, <1>2 DEF Before, m
    <3>2. from[k] \in Nat /\ from[k] < m /\ m \in Nat
      BY <1>1, <3>1
    <3> QED BY <3>1, <3>2
  <2>2. ASSUME NEW i \in s, Text(raw[i]) # <<>>
        PROVE  \/ \E k \in 1..c : from[k] <= i /\ Alike(kept[k], Text(raw[i]))
               \/ c = MAX_PROMPTS /\ \A k \in 1..c : from[k] < i
    <3>1. CASE i \in Before(s)
      BY <1>2, <2>2, <3>1
    <3>2. CASE i = m
      BY <1>3, <2>1, <2>2, <3>2 DEF text
    <3> QED BY <1>1, <3>1, <3>2
  <2> QED BY <1>2, <2>1, <2>2 DEF KeptOf, c
<1>4. CASE raw[m] = NotText
  BY <1>3, <1>4 DEF Take, Text, text, m
<1>5. CASE c >= MAX_PROMPTS
  <2>1. c = MAX_PROMPTS
    BY <1>1, <1>5, QuestionsAssumption DEF c
  <2> QED BY <1>3, <1>5, <2>1 DEF Take, m, c
<1>6. CASE raw[m] # NotText /\ text = <<>>
  BY <1>3, <1>6 DEF Take, Text, text, m
<1>7. CASE raw[m] # NotText /\ \E i \in DOMAIN kept : lower(kept[i]) = lower(text)
  <2>1. \E k \in 1..c : Alike(kept[k], text)
    BY <1>7, ListFacts DEF Alike, c
  <2>2. new = kept
    BY <1>7 DEF Take, Text, text, m
  <2> QED BY <1>3, <2>1, <2>2 DEF m
<1>8. CASE /\ raw[m] # NotText /\ ~(c >= MAX_PROMPTS) /\ text # <<>>
           /\ ~\E i \in DOMAIN kept : lower(kept[i]) = lower(text)
  <2> DEFINE r == Append(kept, text)
  <2>1. new = r
    BY <1>8 DEF Take, Text, text, m, c
  <2>2. /\ IsList(r) /\ Len(r) = c + 1 /\ r[c + 1] = text /\ \A k \in 1..c : r[k] = kept[k]
        /\ DOMAIN kept = 1..c
    BY ListAppend, ListFacts DEF c
  <2>3. Len(r) <= MAX_PROMPTS /\ c # MAX_PROMPTS
    BY <1>1, <1>8, <2>2, QuestionsAssumption
  <2>4. \A k \in 1..c : ~Alike(kept[k], text) /\ ~Alike(text, kept[k])
    BY <1>8, <2>2 DEF Alike
  <2> HIDE DEF r
  <2> DEFINE f == [k \in 1..c + 1 |-> IF k <= c THEN from[k] ELSE m]
  <2>5. f[c + 1] = m /\ \A k \in 1..c : f[k] = from[k]
    BY <1>1
  <2> HIDE DEF f
  <2>6. \A k \in 1..c + 1 : k \in 1..c \/ k = c + 1
    BY <1>1
  <2>7. \A k \in 1..c : from[k] \in s /\ from[k] < m /\ k < c + 1 /\ ~(c + 1 < k) /\ k \in 1..c + 1
    <3> SUFFICES ASSUME NEW k \in 1..c
                 PROVE  from[k] \in s /\ from[k] < m /\ k < c + 1 /\ ~(c + 1 < k) /\ k \in 1..c + 1
      OBVIOUS
    <3>1. from[k] \in s /\ from[k] \in Before(s) /\ from[k] # m
      BY <1>1, <1>2 DEF Before, m
    <3>2. from[k] < m
      BY <1>1, <3>1
    <3>3. k < c + 1 /\ ~(c + 1 < k) /\ k \in 1..c + 1
      BY <1>1
    <3> QED BY <3>1, <3>2, <3>3
  <2>8. \A k \in 1..c + 1 : f[k] \in s /\ r[k] = Text(raw[f[k]]) /\ r[k] # <<>>
    BY <1>1, <1>2, <1>8, <2>2, <2>5, <2>6, <2>7 DEF text
  <2>9. ASSUME NEW k \in 1..c + 1, NEW l \in 1..c + 1
        PROVE  (k < l => f[k] < f[l]) /\ (k # l => ~Alike(r[k], r[l]))
    <3>1. CASE k \in 1..c /\ l \in 1..c
      BY <1>2, <2>2, <2>5, <3>1
    <3>2. CASE k \in 1..c /\ l = c + 1
      BY <2>2, <2>4, <2>5, <2>7, <3>2
    <3>3. CASE k = c + 1 /\ l \in 1..c
      BY <2>2, <2>4, <2>5, <2>7, <3>3
    <3>4. CASE k = c + 1 /\ l = c + 1
      BY <1>1, <3>4
    <3> QED BY <2>6, <3>1, <3>2, <3>3, <3>4
  <2>10. ASSUME NEW i \in s, Text(raw[i]) # <<>>
         PROVE  \E k \in 1..c + 1 : f[k] <= i /\ Alike(r[k], Text(raw[i]))
    <3>1. CASE i \in Before(s)
      <4>1. PICK k \in 1..c : from[k] <= i /\ Alike(kept[k], Text(raw[i]))
        BY <1>2, <2>3, <2>10, <3>1
      <4> QED BY <2>2, <2>5, <2>7, <4>1
    <3>2. CASE i = m
      <4>1. c + 1 \in 1..c + 1 /\ m <= m
        BY <1>1
      <4> QED BY <2>2, <2>5, <3>2, <4>1 DEF Alike, text
    <3> QED BY <1>1, <3>1, <3>2
  <2>11. KeptOf(raw, s, r)
    BY <2>2, <2>8, <2>9, <2>10 DEF KeptOf
  <2> QED BY <2>1, <2>2, <2>3, <2>11 DEF m
<1> QED BY <1>4, <1>5, <1>6, <1>7, <1>8

(* What a game plays of a host's list, whatever the list: the first          *)
(* MAX_PROMPTS usable questions among the first MAX_SCAN entries, in their   *)
(* order, none twice (promptConfig.ts:40-63).                                *)
THEOREM CleanKeepsTheFirst ==
  ASSUME NEW raw, IsList(raw)
  PROVE  /\ IsList(clean(raw)) /\ Len(clean(raw)) <= MAX_PROMPTS
         /\ KeptOf(raw, 1..Scanned(raw), clean(raw))
<1> DEFINE n == Scanned(raw)
           Lists == {kept \in Seq({Text(raw[i]) : i \in 1..n}) :
                       IsList(kept) /\ Len(kept) <= MAX_PROMPTS}
           ok == [s \in SUBSET (1..n) |-> {kept \in Lists : KeptOf(raw, s, kept)}]
<1>1. n \in Nat
  BY CleanFolds, ListFacts
<1>2. PICK h : /\ h[{}] = <<>>
               /\ \A s \in SUBSET (1..n) : s # {} => h[s] = Take(h[Before(s)], raw[Max(s)])
               /\ clean(raw) = h[1..n]
  BY CleanFolds
<1> HIDE DEF n
<1>3. h[{}] \in ok[{}]
  <2>1. KeptOf(raw, {}, <<>>)
    BY DEF KeptOf
  <2>2. <<>> \in Lists
    BY NoList, QuestionsAssumption
  <2> QED BY <1>2, <2>1, <2>2
<1>4. ASSUME NEW s \in SUBSET (1..n), s # {}, h[Before(s)] \in ok[Before(s)]
      PROVE  h[s] \in ok[s]
  <2> DEFINE kept == h[Before(s)]
             new == Take(kept, raw[Max(s)])
  <2>1. Before(s) \in SUBSET (1..n) /\ Max(s) \in 1..n
    BY <1>1, <1>4, BeforeFacts
  <2>2. kept \in Lists /\ KeptOf(raw, Before(s), kept)
    BY <1>4, <2>1
  <2>3. IsList(new) /\ Len(new) <= MAX_PROMPTS /\ KeptOf(raw, s, new)
    BY <1>1, <1>4, <2>2, TakeKeeps
  <2>4. new \in Seq({Text(raw[i]) : i \in 1..n})
    BY <2>1, <2>2 DEF Take, Text
  <2>5. h[s] = new
    BY <1>2, <1>4
  <2> HIDE DEF new, kept
  <2> QED BY <2>3, <2>4, <2>5
<1>5. h[1..n] \in ok[1..n]
  <2> HIDE DEF ok
  <2> QED BY <1>1, <1>3, <1>4, FoldsKeep
<1> QED BY <1>2, <1>5 DEF n

(* No two rounds of a session ask the same, whatever set the host wrote: two *)
(* questions of a set differ by more than their case (promptConfig.ts:65-79).*)
THEOREM QuestionsDiffer ==
  ASSUME NEW prompts, IsList(prompts), clean(prompts) # <<>>, NEW builtin,
         NEW r \in 1..promptCount(prompts, builtin), NEW q \in 1..promptCount(prompts, builtin),
         r # q
  PROVE  ~Alike(choosePrompt(prompts, builtin, r), choosePrompt(prompts, builtin, q))
<1> DEFINE set == clean(prompts)
<1>1. IsList(set) /\ KeptOf(prompts, 1..Scanned(prompts), set)
  BY CleanKeepsTheFirst
<1>2. bank(prompts, builtin) = set /\ promptCount(prompts, builtin) = Len(set)
  BY DEF bank, promptCount
<1>3. DOMAIN set = 1..Len(set)
  BY <1>1, ListFacts
<1>4. /\ choosePrompt(prompts, builtin, r) = set[r]
      /\ choosePrompt(prompts, builtin, q) = set[q]
  BY <1>2, <1>3 DEF choosePrompt
<1> HIDE DEF set
<1>5. r \in 1..Len(set) /\ q \in 1..Len(set)
  BY <1>2
<1>6. ~Alike(set[r], set[q])
  BY <1>1, <1>5 DEF KeptOf
<1> QED BY <1>4, <1>6

LEMMA BankIsSome ==
  ASSUME NEW prompts, IsList(prompts), NEW builtin, IsList(builtin), builtin # <<>>
  PROVE  promptCount(prompts, builtin) \in Nat \ {0}
<1>1. IsList(bank(prompts, builtin)) /\ bank(prompts, builtin) # <<>>
  BY CleanKeepsTheFirst DEF bank
<1> QED BY <1>1, ListFacts DEF promptCount

LEMMA RowRemoved ==
  ASSUME NEW list, IsList(list), NEW i \in DOMAIN list
  PROVE  IsList(RemoveAt(list, i)) /\ Len(RemoveAt(list, i)) = Len(list) - 1
<1>1. Len(list) \in Nat /\ i \in 1..Len(list) /\ list \in Seq(ToSet(list))
  BY ListFacts DEF IsList
<1>2. i - 1 \in 0..Len(list) /\ i + 1 \in 1..Len(list) + 1
  BY <1>1
<1>3. IsList(SubSeq(list, 1, i - 1)) /\ Len(SubSeq(list, 1, i - 1)) = i - 1
  BY <1>2, ListPrefix
<1>4. IsList(SubSeq(list, i + 1, Len(list)))
  BY <1>2, ListSuffix
<1>5. Len(SubSeq(list, i + 1, Len(list))) = Len(list) - i
  <2> DEFINE S == ToSet(list)
  <2>1. list \in Seq(S)
    BY <1>1
  <2> HIDE DEF S
  <2>2. i + 1 \in Int /\ Len(list) \in Int /\ \A j \in i + 1..Len(list) : list[j] \in S
    BY <1>1, <2>1
  <2>3. Len(SubSeq(list, i + 1, Len(list)))
          = IF i + 1 <= Len(list) THEN Len(list) - (i + 1) + 1 ELSE 0
    BY <2>2, SubSeqProperties
  <2> QED BY <1>1, <2>3
<1> DEFINE a == SubSeq(list, 1, i - 1)
           b == SubSeq(list, i + 1, Len(list))
<1>6. RemoveAt(list, i) = a \o b
  BY DEF RemoveAt
<1>7. IsList(a) /\ Len(a) = i - 1 /\ IsList(b) /\ Len(b) = Len(list) - i
  BY <1>3, <1>4, <1>5
<1> HIDE DEF a, b
<1>8. IsList(a \o b) /\ Len(a \o b) = Len(a) + Len(b)
  BY <1>7, ListConcat
<1> QED BY <1>1, <1>6, <1>7, <1>8

LEMMA RowInserted ==
  ASSUME NEW list, IsList(list), NEW i \in 1..Len(list) + 1, NEW e
  PROVE  IsList(InsertAt(list, i, e))
<1>1. Len(list) \in Nat /\ i - 1 \in 0..Len(list)
  BY ListFacts
<1> DEFINE a == SubSeq(list, 1, i - 1)
           b == SubSeq(list, i, Len(list))
           c == <<e>>
<1>2. IsList(a) /\ IsList(b) /\ IsList(c)
  BY <1>1, ListPrefix, ListSuffix, ListOfOne
<1>3. InsertAt(list, i, e) = (a \o c) \o b
  BY DEF InsertAt
<1> HIDE DEF a, b, c
<1>4. IsList(a \o c)
  BY <1>2, ListConcat
<1>5. IsList((a \o c) \o b)
  BY <1>2, <1>4, ListConcat
<1> QED BY <1>3, <1>5

LEMMA CappedIsList ==
  ASSUME NEW list, IsList(list)
  PROVE  IsList(capped(list))
<1> DEFINE n == IF Len(list) < MAX_PROMPTS THEN Len(list) ELSE MAX_PROMPTS
<1>1. n \in 0..Len(list)
  BY ListFacts, QuestionsAssumption
<1>2. capped(list) = SubSeq(list, 1, n)
  BY DEF capped
<1> HIDE DEF n
<1> QED BY <1>1, <1>2, ListPrefix

LEMMA EditedAreLists ==
  ASSUME NEW g \in Game, IsList(cache[g]), NEW list \in Edited(g)
  PROVE  IsList(list)
<1> DEFINE old == cache[g]
<1>1. IsList(old) /\ IsList(Pack[g])
  BY HostBoardAssumption DEF IsList
<1>2. \/ list = togglePack(old, Pack[g])
      \/ \E d \in Draft : list = addCustom(old, d)
      \/ \E i \in DOMAIN old : list = removeAt(old, i)
      \/ \E from, to \in DOMAIN old : list = reorder(old, from, to)
  BY DEF Edited
<1> HIDE DEF old
<1>3. CASE list = togglePack(old, Pack[g])
  <2>1. IsList(notInPack(old, Pack[g]))
    BY <1>1, NotInPackIsList
  <2>2. IsList(additions(Pack[g], old))
    BY <1>1, AdditionsIsList
  <2>3. list = notInPack(old, Pack[g]) \/ list = capped(old \o additions(Pack[g], old))
    BY <1>3 DEF togglePack
  <2>4. IsList(capped(old \o additions(Pack[g], old)))
    BY <1>1, <2>2, ListConcat, CappedIsList
  <2> QED BY <2>1, <2>3, <2>4
<1>4. CASE \E d \in Draft : list = addCustom(old, d)
  <2>1. PICK d \in Draft : list = addCustom(old, d)
    BY <1>4
  <2>2. list = old \/ list = Append(old, boundedText(d, MAX_LEN))
    BY <2>1 DEF addCustom
  <2>3. IsList(Append(old, boundedText(d, MAX_LEN)))
    BY <1>1, ListAppend
  <2> QED BY <1>1, <2>2, <2>3
<1>5. CASE \E i \in DOMAIN old : list = removeAt(old, i)
  BY <1>1, <1>5, RowRemoved DEF removeAt
<1>6. CASE \E from, to \in DOMAIN old : list = reorder(old, from, to)
  <2>1. PICK from \in DOMAIN old, to \in DOMAIN old : list = reorder(old, from, to)
    BY <1>6
  <2> DEFINE rest == RemoveAt(old, from)
  <2>2. IsList(rest) /\ Len(rest) = Len(old) - 1
    BY <1>1, RowRemoved
  <2>3. list = InsertAt(rest, to, old[from])
    BY <2>1 DEF reorder
  <2> HIDE DEF rest
  <2>4. to \in 1..Len(rest) + 1
    BY <1>1, <2>2, ListFacts
  <2> QED BY <2>2, <2>3, <2>4, RowInserted
<1> QED BY <1>2, <1>3, <1>4, <1>5, <1>6

-----------------------------------------------------------------------------
(* The room.                                                                 *)

LEMMA FrameFacts ==
  ASSUME NEW R, RoomGood(R)
  PROVE  /\ FrameOf(R).type = "frame" /\ FrameGood(FrameOf(R))
         /\ FrameOf(R) # Msg("opened") /\ FrameOf(R) # Msg("NO_SUCH_ROOM")
         /\ FrameOf(R).phase = R.phase /\ FrameOf(R).game = R.game /\ FrameOf(R).step = R.step
         /\ FrameOf(R).round = R.round /\ FrameOf(R).total = roundsTotal(R)
<1>1. FrameOf(R).type = "frame" /\ FrameOf(R).game = R.game
  BY DEF FrameOf
<1>2. Msg("opened").type # "frame" /\ Msg("NO_SUCH_ROOM").type # "frame"
  BY DEF Msg
<1>3. R.game \in GameOrNone
  BY DEF RoomGood
<1>4. FrameOf(R) # Msg("opened") /\ FrameOf(R) # Msg("NO_SUCH_ROOM")
  BY <1>1, <1>2
<1> QED BY <1>1, <1>3, <1>4 DEF FrameOf, FrameGood

LEMMA ResultGood ==
  ASSUME NEW R, RoomGood(R), NEW m, MessageGood(m), m.type \in HostActions, Accepts(R, m)
  PROVE  /\ RoomGood(Result(R, m))
         /\ Result(R, m).state = R.state /\ Result(R, m).attached = R.attached
<1> USE DEF RoomParts
<1>1. CASE m.type = "selectGame"
  <2>1. Result(R, m) = selectGame(R, m.game) /\ m.game \in Game
    BY <1>1 DEF Result, MessageGood
  <2> QED BY <2>1 DEF selectGame, RoomGood, ConfigOnPick, GameOrNone
<1>2. CASE m.type = "configureGame"
  <2>1. Result(R, m) = configureGame(R, m.list) /\ IsList(m.list) /\ R.phase # "IN_GAME"
    BY <1>2 DEF Result, MessageGood, Accepts, MayConfigure
  <2> QED BY <2>1 DEF configureGame, RoomGood
<1>3. CASE m.type = "startGame"
  <2>1. Result(R, m) = startGame(R, m.tag) /\ R.game # NoGame
    BY <1>3 DEF Result, Accepts, MayStart
  <2>2. R.game \in Game /\ Steps[R.game] \in Nat \ {0} /\ 1 \in 1..Steps[R.game]
    BY <2>1, HostBoardAssumption DEF RoomGood, GameOrNone
  <2> QED BY <2>1, <2>2 DEF startGame, RoomGood
<1>4. CASE m.type = "advance"
  <2>1. Result(R, m) = advance(R) /\ R.phase = "IN_GAME"
    BY <1>4 DEF Result, Accepts, MayAdvance
  <2>2. R.game \in Game /\ R.step \in 1..Steps[R.game] /\ Steps[R.game] \in Nat
    BY <2>1, HostBoardAssumption DEF RoomGood
  <2>3. R.step # Steps[R.game] => R.step + 1 \in 1..Steps[R.game]
    BY <2>2
  <2> QED BY <2>1, <2>2, <2>3 DEF advance, RoomGood
<1>5. CASE m.type = "endGame"
  <2>1. Result(R, m) = endGame(R)
    BY <1>5 DEF Result
  <2> QED BY <2>1 DEF endGame, RoomGood
<1> QED BY <1>1, <1>2, <1>3, <1>4, <1>5 DEF HostActions

LEMMA TotalIsSome ==
  ASSUME NEW R, RoomGood(R), R.game # NoGame
  PROVE  roundsTotal(R) \in Nat \ {0}
<1>1. IsList(Prompts(R.config))
  BY NoList DEF RoomGood, Prompts
<1>2. R.game \in Game
  BY DEF RoomGood, GameOrNone
<1>3. IsList(Builtin[R.game]) /\ Builtin[R.game] # <<>>
  BY <1>2, HostBoardAssumption DEF IsList
<1>4. promptCount(Prompts(R.config), Builtin[R.game]) \in Nat \ {0}
  BY <1>1, <1>3, BankIsSome
<1> QED BY <1>4 DEF roundsTotal

-----------------------------------------------------------------------------
(* Sending.                                                                  *)

LEMMA Sent ==
  ASSUME WireInv, NEW m, MessageGood(m), m.type \in HostActions, Send(m)
  PROVE  /\ IsList(up') /\ IsList(pending')
         /\ \A i \in DOMAIN up' : MessageGood(up'[i])
         /\ \A i \in DOMAIN pending' : MessageGood(pending'[i]) /\ pending'[i].type \in HostActions
         /\ link = "live" => up' = Append(up, m) /\ pending' = pending
         /\ link # "live" => up' = up /\ pending' = Append(pending, m)
         /\ link = "live" /\ OnlyActions(up) => OnlyActions(up')
         /\ link = "live" /\ Greets(up) => Greets(up')
<1>1. CASE link = "live"
  <2>1. up' = Append(up, m) /\ pending' = pending
    BY <1>1 DEF Send
  <2>2. /\ IsList(up') /\ DOMAIN up' = 1..Len(up) + 1 /\ Len(up') = Len(up) + 1
        /\ up'[Len(up) + 1] = m /\ \A i \in 1..Len(up) : up'[i] = up[i]
        /\ DOMAIN up = 1..Len(up) /\ Len(up) \in Nat
    BY <2>1, ListAppend, ListFacts DEF WireInv
  <2>3. \A i \in DOMAIN up' : i \in DOMAIN up \/ i = Len(up) + 1
    BY <2>2
  <2>4. \A i \in DOMAIN up' : MessageGood(up'[i])
    BY <2>2, <2>3 DEF WireInv
  <2>5. OnlyActions(up) => OnlyActions(up')
    BY <2>2, <2>3 DEF OnlyActions
  <2>6. Greets(up) => Greets(up')
    <3> SUFFICES ASSUME Greets(up) PROVE Greets(up')
      OBVIOUS
    <3>1. Len(up) # 0 /\ 1 \in 1..Len(up)
      BY <2>2, ListFacts DEF Greets, WireInv
    <3>2. up' # <<>>
      BY <2>2, ListFacts
    <3> QED BY <2>2, <2>3, <3>1, <3>2 DEF Greets
  <2> QED BY <1>1, <2>1, <2>2, <2>4, <2>5, <2>6 DEF WireInv
<1>2. CASE link # "live"
  <2>1. up' = up /\ pending' = Append(pending, m)
    BY <1>2 DEF Send
  <2>2. /\ IsList(pending') /\ DOMAIN pending' = 1..Len(pending) + 1
        /\ pending'[Len(pending) + 1] = m
        /\ \A i \in 1..Len(pending) : pending'[i] = pending[i]
        /\ DOMAIN pending = 1..Len(pending) /\ Len(pending) \in Nat
    BY <2>1, ListAppend, ListFacts DEF WireInv
  <2>3. \A i \in DOMAIN pending' : i \in DOMAIN pending \/ i = Len(pending) + 1
    BY <2>2
  <2> QED BY <1>2, <2>1, <2>2, <2>3 DEF WireInv
<1> QED BY <1>1, <1>2

-----------------------------------------------------------------------------
(* What the server does.                                                     *)

LEMMA ArrivesFacts ==
  ASSUME WireInv, Arrives
  PROVE  /\ Head(up) = up[1] /\ MessageGood(up[1]) /\ IsList(up')
         /\ \A i \in DOMAIN up' : MessageGood(up'[i])
         /\ OnlyActions(up) => OnlyActions(up') /\ up[1].type \in HostActions
         /\ Greets(up) => OnlyActions(up') /\ up[1].type \in {"open", "resumeHost"}
<1>1. up # <<>> /\ up' = Tail(up) /\ IsList(up)
  BY DEF Arrives, WireInv
<1>2. /\ IsList(up') /\ Head(up) = up[1] /\ Len(up) > 0
      /\ DOMAIN up' = 1..Len(up) - 1 /\ \A i \in 1..Len(up) - 1 : up'[i] = up[i + 1]
      /\ DOMAIN up = 1..Len(up) /\ Len(up) \in Nat
  BY <1>1, ListTail, ListFacts
<1>3. 1 \in DOMAIN up
  BY <1>2
<1>4. \A i \in DOMAIN up' : i + 1 \in DOMAIN up /\ i + 1 # 1 /\ up'[i] = up[i + 1]
  BY <1>2
<1>5. OnlyActions(up) => OnlyActions(up') /\ up[1].type \in HostActions
  BY <1>3, <1>4 DEF OnlyActions
<1>6. Greets(up) => OnlyActions(up') /\ up[1].type \in {"open", "resumeHost"}
  BY <1>4 DEF OnlyActions, Greets
<1>7. MessageGood(up[1]) /\ \A i \in DOMAIN up' : MessageGood(up'[i])
  BY <1>3, <1>4 DEF WireInv
<1> QED BY <1>2, <1>5, <1>6, <1>7

LEMMA TwoFacts ==
  ASSUME NEW a, NEW b
  PROVE  /\ IsList(<<a, b>>) /\ Len(<<a, b>>) = 2 /\ DOMAIN <<a, b>> = {1, 2}
         /\ <<a, b>>[1] = a /\ <<a, b>>[2] = b /\ <<a, b>> # <<>>
<1>1. <<a, b>> \in Seq({a, b}) /\ Len(<<a, b>>) = 2 /\ <<a, b>>[1] = a /\ <<a, b>>[2] = b
  OBVIOUS
<1>2. IsList(<<a, b>>)
  BY <1>1, ListOf
<1> QED BY <1>1, <1>2

LEMMA Answered ==
  ASSUME NEW R, RoomGood(R)
  PROVE  LET q == <<Msg("opened"), FrameOf(R)>>
         IN  /\ IsList(q) /\ q # <<>> /\ q[Len(q)] = FrameOf(R)
             /\ \A i \in DOMAIN q : FrameGood(q[i])
<1>1. FrameGood(Msg("opened")) /\ FrameGood(FrameOf(R))
  BY FrameFacts DEF Msg, FrameGood
<1> DEFINE a == Msg("opened")
           b == FrameOf(R)
<1> HIDE DEF a, b
<1>2. /\ IsList(<<a, b>>) /\ Len(<<a, b>>) = 2 /\ DOMAIN <<a, b>> = {1, 2}
      /\ <<a, b>>[1] = a /\ <<a, b>>[2] = b /\ <<a, b>> # <<>>
  BY TwoFacts
<1>3. \A i \in {1, 2} : FrameGood(<<a, b>>[i])
  BY <1>1, <1>2 DEF a, b
<1> QED BY <1>2, <1>3 DEF a, b

LEMMA ServerState ==
  ASSUME StateInv, ServerReceives
  PROVE  StateInv'
<1> DEFINE m == up[1]
<1>1. /\ Arrives /\ UNCHANGED <<link, pending, tab, session, cache, picked, saved, spent>>
      /\ TabInv /\ WireInv /\ RoomInv /\ NoRoomYet /\ LiveInv
  BY DEF ServerReceives, StateInv
<1>2. /\ Head(up) = m /\ MessageGood(m) /\ IsList(up')
      /\ \A i \in DOMAIN up' : MessageGood(up'[i])
      /\ OnlyActions(up) => OnlyActions(up') /\ m.type \in HostActions
      /\ Greets(up) => OnlyActions(up') /\ m.type \in {"open", "resumeHost"}
  BY <1>1, ArrivesFacts
<1>3. HostMsg(m) \/ OpenMsg(m) \/ ResumeMsg(m) \/ LeaveMsg(m) \/ Disconnect(m)
  BY <1>2 DEF ServerReceives
<1> HIDE DEF m
<1>4. TabInv'
  BY <1>1 DEF TabInv, BlockedOnlyByEditor
<1>5. link = "live" => /\ tab'.mode = "board" /\ pending' = <<>> /\ OnlyActions(up')
                       /\ m.type \in HostActions => TurnedAway \/ Shown
                       /\ m.type \notin HostActions => m.type \in {"open", "resumeHost"}
  BY <1>1, <1>2 DEF LiveInv, Greeting, TurnedAway, Shown, HostActions
<1>6. /\ IsList(pending')
      /\ \A i \in DOMAIN pending' : MessageGood(pending'[i]) /\ pending'[i].type \in HostActions
  BY <1>1 DEF WireInv
<1>7. CASE HostMsg(m) /\ room.state = "open" /\ room.attached /\ Accepts(room, m)
  <2>1. /\ m.type \in HostActions /\ room' = Result(room, m)
        /\ down' = Append(down, FrameOf(room'))
    BY <1>7 DEF HostMsg
  <2>2. RoomGood(room') /\ room'.state = "open" /\ room'.attached
    BY <1>1, <1>2, <1>7, <2>1, ResultGood DEF RoomInv
  <2> DEFINE f == FrameOf(room')
  <2>3. FrameGood(f)
    BY <2>2, FrameFacts
  <2> HIDE DEF f
  <2>4. /\ IsList(down') /\ DOMAIN down' = 1..Len(down) + 1 /\ Len(down') = Len(down) + 1
        /\ down'[Len(down) + 1] = f /\ \A i \in 1..Len(down) : down'[i] = down[i]
        /\ DOMAIN down = 1..Len(down) /\ Len(down) \in Nat
    BY <1>1, <2>1, ListAppend, ListFacts DEF WireInv, f
  <2>5. \A i \in DOMAIN down' : i \in DOMAIN down \/ i = Len(down) + 1
    BY <2>4
  <2>6. \A i \in DOMAIN down' : FrameGood(down'[i])
    BY <1>1, <2>3, <2>4, <2>5 DEF WireInv
  <2>7. WireInv'
    BY <1>2, <1>6, <2>4, <2>6 DEF WireInv
  <2>8. NoRoomYet'
    BY <2>2 DEF NoRoomYet
  <2>9. LiveInv'
    <3>1. down' # <<>> /\ down'[Len(down')] = FrameOf(room')
      BY <2>4, ListFacts DEF f
    <3> QED BY <1>1, <1>5, <2>2, <3>1 DEF LiveInv, Shown
  <2> QED BY <1>4, <2>2, <2>7, <2>8, <2>9 DEF StateInv, RoomInv
<1>8. CASE HostMsg(m) /\ ~(room.state = "open" /\ room.attached /\ Accepts(room, m))
  <2>1. m.type \in HostActions /\ room' = room /\ down' = down
    BY <1>8 DEF HostMsg
  <2>2. WireInv'
    BY <1>1, <1>2, <1>6, <2>1 DEF WireInv
  <2>3. RoomInv' /\ NoRoomYet'
    BY <1>1, <2>1 DEF RoomInv, NoRoomYet
  <2>4. LiveInv'
    BY <1>1, <1>5, <2>1 DEF LiveInv, TurnedAway, Shown
  <2> QED BY <1>4, <2>2, <2>3, <2>4 DEF StateInv
<1>9. CASE \/ OpenMsg(m)
           \/ ResumeMsg(m) /\ room.state = "open"
  <2>1. /\ room'.state = "open" /\ room'.attached /\ RoomGood(room')
        /\ down' = <<Msg("opened"), FrameOf(room')>>
    <3>1. \/ room' = [room EXCEPT !.state = "open", !.attached = TRUE]
          \/ room' = [room EXCEPT !.attached = TRUE] /\ room.state = "open"
      BY <1>9 DEF OpenMsg, ResumeMsg
    <3>2. room'.state = "open" /\ room'.attached /\ RoomGood(room')
      BY <1>1, <3>1 DEF RoomInv, RoomGood, RoomParts
    <3> QED BY <1>9, <3>2 DEF OpenMsg, ResumeMsg
  <2>2. /\ IsList(down') /\ down' # <<>> /\ down'[Len(down')] = FrameOf(room')
        /\ \A i \in DOMAIN down' : FrameGood(down'[i])
    BY <2>1, Answered
  <2>3. WireInv'
    BY <1>2, <1>6, <2>2 DEF WireInv
  <2>4. NoRoomYet'
    BY <2>1 DEF NoRoomYet
  <2>5. LiveInv'
    BY <1>1, <1>5, <2>1, <2>2 DEF LiveInv, Shown
  <2> QED BY <1>4, <2>1, <2>3, <2>4, <2>5 DEF StateInv, RoomInv
<1>10. CASE ResumeMsg(m) /\ room.state # "open"
  <2>1. room' = room /\ down' = <<Msg("NO_SUCH_ROOM")>>
    BY <1>10 DEF ResumeMsg
  <2>2. /\ IsList(down') /\ DOMAIN down' = {1}
        /\ down'[1].type = "NO_SUCH_ROOM" /\ FrameGood(down'[1])
    BY <2>1, ListOfOne DEF FrameGood, Msg
  <2>3. WireInv'
    BY <1>2, <1>6, <2>2 DEF WireInv
  <2>4. RoomInv' /\ NoRoomYet'
    BY <1>1, <2>1, <2>2 DEF RoomInv, NoRoomYet
  <2>5. LiveInv'
    BY <1>1, <1>5, <1>10, <2>1 DEF LiveInv, TurnedAway
  <2> QED BY <1>4, <2>3, <2>4, <2>5 DEF StateInv
<1>11. CASE LeaveMsg(m) \/ Disconnect(m)
  <2>1. m.type \in {"leave", "fin"} /\ down' = down
    BY <1>11 DEF LeaveMsg, Disconnect
  <2>2. link # "live"
    BY <1>5, <2>1 DEF HostActions
  <2>3. RoomGood(room') /\ (room'.state = "none" => room.state = "none")
    <3>1. \/ room' = [room EXCEPT !.state = "closed", !.attached = FALSE]
          \/ room' = room
          \/ room' = [room EXCEPT !.attached = FALSE]
      BY <1>11 DEF LeaveMsg, Disconnect
    <3> QED BY <1>1, <3>1 DEF RoomInv, RoomGood, RoomParts
  <2>4. WireInv'
    BY <1>1, <1>2, <1>6, <2>1 DEF WireInv
  <2>5. NoRoomYet'
    BY <1>1, <2>1, <2>3 DEF NoRoomYet
  <2>6. LiveInv'
    BY <1>1, <2>2 DEF LiveInv
  <2> QED BY <1>4, <2>3, <2>4, <2>5, <2>6 DEF StateInv, RoomInv
<1> QED BY <1>3, <1>7, <1>8, <1>9, <1>10, <1>11

-----------------------------------------------------------------------------
(* What the transport does.                                                  *)

LEMMA CutShort ==
  ASSUME WireInv, NEW n \in 0..Len(up), NEW type
  PROVE  LET q == Append(SubSeq(up, 1, n), Msg(type))
         IN  IsList(q) /\ (type \in {"fin", "leave"} => \A i \in DOMAIN q : MessageGood(q[i]))
<1> DEFINE p == SubSeq(up, 1, n)
           e == Msg(type)
           q == Append(p, e)
<1>1. /\ IsList(p) /\ Len(p) = n /\ DOMAIN p = 1..n /\ \A i \in 1..n : p[i] = up[i]
      /\ \A i \in 1..n : i \in DOMAIN up
  BY ListPrefix, ListFacts DEF WireInv
<1>2. \A i \in 1..n : MessageGood(p[i])
  BY <1>1 DEF WireInv
<1>3. type \in {"fin", "leave"} => MessageGood(e)
  BY DEF MessageGood, Msg
<1> HIDE DEF p, e
<1>4. /\ IsList(q) /\ DOMAIN q = 1..n + 1 /\ q[n + 1] = e /\ \A i \in 1..n : q[i] = p[i]
  BY <1>1, ListAppend
<1>5. \A i \in DOMAIN q : i \in 1..n \/ i = n + 1
  BY <1>4
<1>6. type \in {"fin", "leave"} => \A i \in DOMAIN q : MessageGood(q[i])
  BY <1>2, <1>3, <1>4, <1>5
<1> QED BY <1>4, <1>6 DEF p, e

LEMMA OneMore ==
  ASSUME NEW q, IsList(q), \A i \in DOMAIN q : MessageGood(q[i]), NEW type \in {"fin", "leave"}
  PROVE  LET r == Append(q, Msg(type)) IN IsList(r) /\ \A i \in DOMAIN r : MessageGood(r[i])
<1> DEFINE e == Msg(type)
           r == Append(q, e)
<1>1. MessageGood(e)
  BY DEF MessageGood, Msg
<1> HIDE DEF e
<1>2. /\ IsList(r) /\ DOMAIN r = 1..Len(q) + 1 /\ r[Len(q) + 1] = e
      /\ \A i \in 1..Len(q) : r[i] = q[i]
      /\ DOMAIN q = 1..Len(q) /\ Len(q) \in Nat
  BY ListAppend, ListFacts
<1>3. \A i \in DOMAIN r : i \in DOMAIN q \/ i = Len(q) + 1
  BY <1>2
<1>4. \A i \in DOMAIN r : MessageGood(r[i])
  BY <1>1, <1>2, <1>3
<1> QED BY <1>2, <1>4 DEF e

LEMMA EmptyWire ==
  /\ IsList(<<>>) /\ DOMAIN <<>> = {}
BY NoList

LEMMA GraceState ==
  ASSUME StateInv, GraceFires
  PROVE  StateInv'
<1>1. /\ TabInv /\ WireInv /\ RoomInv /\ NoRoomYet /\ LiveInv
      /\ UNCHANGED <<link, up, down, pending, tab, session, cache, picked, saved, lost, spent>>
      /\ room' = [room EXCEPT !.state = "closed"] /\ room.state = "open" /\ ~room.attached
  BY DEF StateInv, GraceFires, linkVars, ghostVars
<1>2. RoomInv' /\ room'.state = "closed"
  BY <1>1 DEF RoomInv, RoomGood, RoomParts
<1>3. TabInv' /\ WireInv' /\ NoRoomYet'
  BY <1>1, <1>2 DEF TabInv, BlockedOnlyByEditor, WireInv, NoRoomYet
<1>4. LiveInv'
  BY <1>1, <1>2 DEF LiveInv, Greeting, TurnedAway, Shown
<1> QED BY <1>2, <1>3, <1>4 DEF StateInv

LEMMA OpensState ==
  ASSUME StateInv, LinkOpens
  PROVE  StateInv'
<1>1. /\ TabInv /\ WireInv /\ RoomInv /\ NoRoomYet /\ LiveInv
      /\ UNCHANGED <<room, tab, session, cache, picked, saved, lost, spent>>
      /\ link \in {"connecting", "reconnecting"} /\ link' = "live"
      /\ up' = <<Handshake>> \o pending /\ pending' = <<>> /\ down' = <<>>
  BY DEF StateInv, LinkOpens, Flush, ghostVars
<1>2. TabInv' /\ RoomInv'
  BY <1>1 DEF TabInv, BlockedOnlyByEditor, RoomInv
<1>3. NoRoomYet'
  BY <1>1, EmptyWire DEF NoRoomYet
<1>4. Handshake.type \in {"open", "resumeHost"} /\ MessageGood(Handshake)
  BY DEF Handshake, Msg, MessageGood
<1>6. /\ IsList(up') /\ Len(up') = 1 + Len(pending) /\ DOMAIN up' = 1..1 + Len(pending)
      /\ up'[1] = Handshake /\ \A i \in 1..Len(pending) : up'[1 + i] = pending[i]
      /\ Len(pending) \in Nat /\ DOMAIN pending = 1..Len(pending)
  <2>1. IsList(pending)
    BY <1>1 DEF WireInv
  <2>2. Len(pending) \in Nat /\ DOMAIN pending = 1..Len(pending)
    BY <2>1, ListFacts
  <2> QED BY <1>1, <2>1, <2>2, Prepended
<1>7. \A i \in DOMAIN up' : i = 1 \/ (i - 1 \in DOMAIN pending /\ up'[i] = pending[i - 1])
  <2> SUFFICES ASSUME NEW i \in DOMAIN up', i # 1
               PROVE  i - 1 \in DOMAIN pending /\ up'[i] = pending[i - 1]
    OBVIOUS
  <2>1. i - 1 \in 1..Len(pending) /\ 1 + (i - 1) = i
    BY <1>6
  <2> QED BY <1>6, <2>1
<1>8. \A i \in DOMAIN up' : MessageGood(up'[i])
  BY <1>1, <1>4, <1>6, <1>7 DEF WireInv
<1>9. WireInv'
  BY <1>1, <1>6, <1>8, EmptyWire DEF WireInv
<1>10. Greets(up')
  <2>1. up' # <<>>
    BY <1>6, ListFacts
  <2> QED BY <1>1, <1>4, <1>6, <1>7, <2>1 DEF Greets, WireInv
<1>11. LiveInv'
  BY <1>1, <1>10 DEF LiveInv, Greeting
<1> QED BY <1>2, <1>3, <1>9, <1>11 DEF StateInv

LEMMA DropState ==
  ASSUME StateInv, Drop
  PROVE  StateInv'
<1>1. /\ TabInv /\ WireInv /\ RoomInv /\ NoRoomYet /\ LiveInv
      /\ UNCHANGED <<room, pending, tab, session, cache, picked, saved>>
      /\ link = "live" /\ link' = "reconnecting" /\ down' = <<>>
  BY DEF StateInv, Drop
<1>2. PICK n \in 0..Len(up) : up' = Append(SubSeq(up, 1, n), Msg("fin"))
  BY DEF Drop
<1>3. IsList(up') /\ \A i \in DOMAIN up' : MessageGood(up'[i])
  BY <1>1, <1>2, CutShort
<1>4. TabInv' /\ RoomInv'
  BY <1>1 DEF TabInv, BlockedOnlyByEditor, RoomInv
<1>5. NoRoomYet' /\ WireInv'
  BY <1>1, <1>3, EmptyWire DEF NoRoomYet, WireInv
<1>6. LiveInv'
  BY <1>1 DEF LiveInv
<1> QED BY <1>4, <1>5, <1>6 DEF StateInv

LEMMA ReceivedTail ==
  ASSUME WireInv, down # <<>>
  PROVE  /\ Head(down) = down[1] /\ FrameGood(down[1]) /\ 1 \in DOMAIN down
         /\ IsList(Tail(down)) /\ DOMAIN Tail(down) = 1..Len(down) - 1
         /\ \A i \in DOMAIN Tail(down) : i + 1 \in DOMAIN down /\ Tail(down)[i] = down[i + 1]
         /\ Tail(down) = <<>> => down[Len(down)] = down[1]
         /\ Tail(down) # <<>> => Tail(down)[Len(Tail(down))] = down[Len(down)]
<1>1. IsList(down)
  BY DEF WireInv
<1>2. /\ IsList(Tail(down)) /\ Len(Tail(down)) = Len(down) - 1
      /\ DOMAIN Tail(down) = 1..Len(down) - 1 /\ Head(down) = down[1] /\ Len(down) > 0
      /\ \A i \in 1..Len(down) - 1 : Tail(down)[i] = down[i + 1]
      /\ Len(down) \in Nat /\ DOMAIN down = 1..Len(down)
  BY <1>1, ListTail, ListFacts
<1>3. 1 \in DOMAIN down
  BY <1>2
<1>4. FrameGood(down[1])
  BY <1>3 DEF WireInv
<1>5. Tail(down) = <<>> => Len(down) = 1
  <2>1. Tail(down) = <<>> => Len(Tail(down)) = 0
    <3>1. IsList(Tail(down))
      BY <1>2
    <3> QED BY <3>1, ListFacts
  <2> QED BY <1>2, <2>1
<1>6. ASSUME Tail(down) # <<>> PROVE Tail(down)[Len(Tail(down))] = down[Len(down)]
  <2>1. Len(down) - 1 \in 1..Len(down) - 1 /\ (Len(down) - 1) + 1 = Len(down)
    BY <1>2, <1>6, ListFacts
  <2> QED BY <1>2, <2>1
<1>7. \A i \in DOMAIN Tail(down) : i + 1 \in DOMAIN down /\ Tail(down)[i] = down[i + 1]
  BY <1>2
<1> QED BY <1>2, <1>3, <1>4, <1>5, <1>6, <1>7

LEMMA ReceivesState ==
  ASSUME StateInv, BoardReceives
  PROVE  StateInv'
<1> DEFINE m == down[1]
<1>1. /\ TabInv /\ WireInv /\ RoomInv /\ NoRoomYet /\ LiveInv
      /\ link = "live" /\ down # <<>>
      /\ UNCHANGED <<room, cache, picked, saved, lost, spent>>
  BY DEF StateInv, BoardReceives, ghostVars
<1>2. /\ Head(down) = m /\ FrameGood(m) /\ 1 \in DOMAIN down
      /\ IsList(Tail(down))
      /\ \A i \in DOMAIN Tail(down) : i + 1 \in DOMAIN down /\ Tail(down)[i] = down[i + 1]
      /\ Tail(down) = <<>> => down[Len(down)] = m
      /\ Tail(down) # <<>> => Tail(down)[Len(Tail(down))] = down[Len(down)]
  BY <1>1, ReceivedTail
<1>3. RoomInv'
  BY <1>1 DEF RoomInv
<1>4. \A i \in DOMAIN Tail(down) : FrameGood(Tail(down)[i])
  BY <1>1, <1>2 DEF WireInv
<1>5. m.type # "NO_SUCH_ROOM" => Shown
  <2>1. TurnedAway => m.type = "NO_SUCH_ROOM"
    <3>1. TurnedAway => m = Msg("NO_SUCH_ROOM")
      BY ListOfOne DEF TurnedAway
    <3> QED BY <3>1 DEF Msg
  <2> QED BY <1>1, <2>1 DEF LiveInv, Greeting
<1>6. \/ /\ m.type = "opened" /\ down' = Tail(down) /\ UNCHANGED <<link, up, pending, tab>>
      \/ /\ m.type = "frame" /\ Render([tab EXCEPT !.frame = m], cache)
         /\ down' = Tail(down) /\ UNCHANGED <<link, up, pending, session>>
      \/ /\ m.type = "NO_SUCH_ROOM" /\ link' = "off" /\ SocketClosed
         /\ down' = <<>> /\ pending' = <<>> /\ tab' = [Landing EXCEPT !.mode = "recover"]
  BY <1>2 DEF BoardReceives
<1> HIDE DEF m
<1>7. CASE /\ m.type = "opened" /\ down' = Tail(down) /\ UNCHANGED <<link, up, pending, tab>>
  <2>1. TabInv'
    BY <1>1, <1>7 DEF TabInv, BlockedOnlyByEditor
  <2>2. WireInv' /\ NoRoomYet'
    BY <1>1, <1>2, <1>4, <1>7 DEF WireInv, NoRoomYet
  <2>3. down' # <<>>
    <3>1. FrameOf(room).type = "frame"
      BY <1>1, FrameFacts DEF RoomInv
    <3> QED BY <1>1, <1>2, <1>5, <1>7, <3>1 DEF Shown
  <2>4. Shown'
    BY <1>1, <1>2, <1>5, <1>7, <2>3 DEF Shown, OnlyActions
  <2>5. LiveInv'
    BY <1>1, <1>7, <2>4 DEF LiveInv
  <2> QED BY <1>3, <2>1, <2>2, <2>5 DEF StateInv
<1>8. CASE /\ m.type = "frame" /\ Render([tab EXCEPT !.frame = m], cache)
           /\ down' = Tail(down) /\ UNCHANGED <<link, up, pending, session>>
  <2> DEFINE new == [tab EXCEPT !.frame = m]
  <2>1. /\ DOMAIN new = TabParts /\ new.frame = m /\ new.mode = tab.mode
        /\ new.blocked = tab.blocked
    BY <1>1 DEF TabInv, TabParts
  <2>2. tab' = Rendered(tab, new, cache)
    BY <1>8 DEF Render
  <2> HIDE DEF new
  <2>3. new.frame.game \in GameOrNone /\ (new.blocked => tab.editor # NoGame)
    BY <1>1, <1>2, <1>8, <2>1 DEF TabInv, FrameGood, BlockedOnlyByEditor
  <2>4. /\ DOMAIN tab' = TabParts /\ tab'.mode = tab.mode /\ tab'.frame = m
        /\ tab'.editor \in GameOrNone
        /\ tab'.blocked => tab'.editor # NoGame /\ tab'.open /\ cache[tab'.editor] = <<>>
    BY <2>1, <2>2, <2>3, RenderedFacts
  <2>5. TabInv'
    BY <1>1, <2>1, <2>3, <2>4 DEF TabInv, BlockedOnlyByEditor
  <2>6. WireInv'
    BY <1>1, <1>2, <1>4, <1>8 DEF WireInv
  <2>7. NoRoomYet'
    <3>1. room.state = "open"
      BY <1>5, <1>8 DEF Shown
    <3> QED BY <1>1, <3>1 DEF NoRoomYet
  <2>8. Shown'
    BY <1>1, <1>2, <1>5, <1>8, <2>4 DEF Shown, OnlyActions
  <2>9. LiveInv'
    BY <1>1, <1>8, <2>4, <2>8 DEF LiveInv
  <2> QED BY <1>3, <2>5, <2>6, <2>7, <2>9 DEF StateInv
<1>9. CASE /\ m.type = "NO_SUCH_ROOM" /\ link' = "off" /\ SocketClosed
           /\ down' = <<>> /\ pending' = <<>> /\ tab' = [Landing EXCEPT !.mode = "recover"]
  <2>1. up' = Append(up, Msg("fin"))
    BY <1>1, <1>9 DEF SocketClosed
  <2>2. IsList(up') /\ \A i \in DOMAIN up' : MessageGood(up'[i])
    BY <1>1, <2>1, OneMore DEF WireInv
  <2>3. WireInv'
    BY <1>1, <1>9, <2>2, EmptyWire DEF WireInv
  <2>4. /\ DOMAIN tab' = TabParts /\ tab'.frame = NoFrame /\ tab'.editor = NoGame
        /\ tab'.blocked = FALSE
    BY <1>9, LandingFacts
  <2>5. TabInv'
    BY <1>1, <2>4 DEF TabInv, BlockedOnlyByEditor, GameOrNone
  <2>6. NoRoomYet'
    BY <1>1, <1>9, <2>4, EmptyWire DEF NoRoomYet
  <2>7. LiveInv'
    BY <1>9 DEF LiveInv
  <2> QED BY <1>3, <2>3, <2>5, <2>6, <2>7 DEF StateInv
<1> QED BY <1>6, <1>7, <1>8, <1>9

-----------------------------------------------------------------------------
(* What the host does.                                                       *)

LEMMA LeavesState ==
  ASSUME StateInv, HostARoom \/ ConfirmLeave \/ ToLanding \/ Reload
  PROVE  StateInv'
<1>1. /\ TabInv /\ WireInv /\ RoomInv /\ NoRoomYet /\ LiveInv
      /\ UNCHANGED <<room, cache, picked, saved>>
      /\ tab' \in {Landing, Board}
      /\ down' = <<>> \/ down' = down
      /\ pending' = <<>> \/ pending' = pending
  BY DEF StateInv, HostARoom, ConfirmLeave, ToLanding, Reload, Disposed, linkVars, ghostVars
<1>2. /\ DOMAIN tab' = TabParts /\ tab'.frame = NoFrame /\ tab'.editor = NoGame
      /\ tab'.blocked = FALSE
  BY <1>1, LandingFacts
<1>3. TabInv' /\ RoomInv'
  BY <1>1, <1>2 DEF TabInv, BlockedOnlyByEditor, GameOrNone, RoomInv
<1>4. NoRoomYet'
  BY <1>1, <1>2, EmptyWire DEF NoRoomYet
<1>5. IsList(up') /\ \A i \in DOMAIN up' : MessageGood(up'[i])
  <2>1. IsList(up) /\ \A i \in DOMAIN up : MessageGood(up[i])
    BY <1>1 DEF WireInv
  <2>2. CASE HostARoom \/ ToLanding
    BY <2>1, <2>2 DEF HostARoom, ToLanding, linkVars
  <2>3. CASE ConfirmLeave
    <3>1. up' = up \/ up' = (up \o <<Msg("leave")>>) \o <<Msg("fin")>>
      BY <2>3 DEF ConfirmLeave, Disposed
    <3>2. /\ up \o <<Msg("leave")>> = Append(up, Msg("leave"))
          /\ \A q : IsList(q) => q \o <<Msg("fin")>> = Append(q, Msg("fin"))
      BY <2>1, PushIsAppend
    <3> DEFINE r == Append(up, Msg("leave"))
    <3>3. IsList(r) /\ \A i \in DOMAIN r : MessageGood(r[i])
      BY <2>1, OneMore
    <3> HIDE DEF r
    <3>4. up' = up \/ up' = Append(r, Msg("fin"))
      BY <3>1, <3>2, <3>3 DEF r
    <3> QED BY <2>1, <3>3, <3>4, OneMore
  <2>4. CASE Reload
    <3>1. up' = up \/ \E n \in 0..Len(up) : up' = Append(SubSeq(up, 1, n), Msg("fin"))
      BY <2>4 DEF Reload
    <3> QED BY <1>1, <2>1, <3>1, CutShort
  <2> QED BY <2>2, <2>3, <2>4
<1>6. WireInv'
  BY <1>1, <1>5, EmptyWire DEF WireInv
<1>7. LiveInv'
  <2>1. link' # "live" /\ (link' # "off" => tab' = Board \/ (link' = link /\ ToLanding))
    BY <1>1 DEF HostARoom, ConfirmLeave, ToLanding, Reload, Disposed, linkVars, LiveInv
  <2>2. ToLanding /\ link' = link => link' = "off"
    BY <1>1 DEF LiveInv, ToLanding
  <2> QED BY <2>1, <2>2, LandingFacts DEF LiveInv
<1> QED BY <1>3, <1>4, <1>6, <1>7 DEF StateInv

(* A tap that only concerns the tab.                                         *)
LEMMA TabTapState ==
  ASSUME StateInv,
         ToggleCustomize \/ ConfirmChange \/ Cancel \/ \E what \in {"change", "end", "leave"} : Ask(what)
  PROVE  StateInv'
<1>1. /\ TabInv /\ WireInv /\ RoomInv /\ NoRoomYet /\ LiveInv
      /\ UNCHANGED <<room, link, up, down, pending, session, cache, picked, saved, lost>>
  BY DEF StateInv, ToggleCustomize, ConfirmChange, Cancel, Ask, Tapped, linkVars, ghostVars
<1>2. \/ \E what \in {"none", "change", "end", "leave"} : tab' = [tab EXCEPT !.confirm = what]
      \/ tab' = Rendered(tab, [tab EXCEPT !.open = ~@], cache)
      \/ tab' = Rendered(tab, [tab EXCEPT !.confirm = "none", !.picking = TRUE], cache)
  BY DEF ToggleCustomize, ConfirmChange, Cancel, Ask, Render
<1>3. TabInv' /\ tab'.mode = tab.mode /\ tab'.frame = tab.frame
  <2>1. ASSUME NEW what, tab' = [tab EXCEPT !.confirm = what]
        PROVE  TabInv' /\ tab'.mode = tab.mode /\ tab'.frame = tab.frame
    BY <1>1, <2>1 DEF TabInv, TabParts, BlockedOnlyByEditor
  <2>2. ASSUME NEW new, DOMAIN new = TabParts, new.frame = tab.frame, new.mode = tab.mode,
               new.blocked = tab.blocked, tab' = Rendered(tab, new, cache)
        PROVE  TabInv' /\ tab'.mode = tab.mode /\ tab'.frame = tab.frame
    <3>1. /\ new.frame # NoFrame => new.frame.game \in GameOrNone
          /\ new.blocked => tab.editor # NoGame
      BY <1>1, <2>2 DEF TabInv, BlockedOnlyByEditor
    <3>2. /\ DOMAIN tab' = TabParts /\ tab'.mode = tab.mode /\ tab'.frame = tab.frame
          /\ tab'.editor \in GameOrNone
          /\ tab'.blocked => tab'.editor # NoGame /\ tab'.open /\ cache[tab'.editor] = <<>>
      BY <2>2, <3>1, RenderedFacts
    <3> QED BY <1>1, <3>2 DEF TabInv, BlockedOnlyByEditor
  <2>3. CASE tab' = Rendered(tab, [tab EXCEPT !.open = ~@], cache)
    <3> DEFINE new == [tab EXCEPT !.open = ~@]
    <3>1. /\ DOMAIN new = TabParts /\ new.frame = tab.frame /\ new.mode = tab.mode
          /\ new.blocked = tab.blocked
      BY <1>1 DEF TabInv, TabParts
    <3> HIDE DEF new
    <3>2. tab' = Rendered(tab, new, cache)
      BY <2>3 DEF new
    <3> QED BY <2>2, <3>1, <3>2
  <2>4. CASE tab' = Rendered(tab, [tab EXCEPT !.confirm = "none", !.picking = TRUE], cache)
    <3> DEFINE new == [tab EXCEPT !.confirm = "none", !.picking = TRUE]
    <3>1. /\ DOMAIN new = TabParts /\ new.frame = tab.frame /\ new.mode = tab.mode
          /\ new.blocked = tab.blocked
      BY <1>1 DEF TabInv, TabParts
    <3> HIDE DEF new
    <3>2. tab' = Rendered(tab, new, cache)
      BY <2>4 DEF new
    <3> QED BY <2>2, <3>1, <3>2
  <2> QED BY <1>2, <2>1, <2>3, <2>4
<1>4. WireInv' /\ RoomInv' /\ NoRoomYet'
  BY <1>1, <1>3 DEF WireInv, RoomInv, NoRoomYet
<1>5. LiveInv'
  BY <1>1, <1>3 DEF LiveInv, Greeting, TurnedAway, Shown
<1> QED BY <1>3, <1>4, <1>5 DEF StateInv

(* A tap that sends something.                                               *)
LEMMA PrimaryIs ==
  ASSUME Primary(tab) # <<>>
  PROVE  \/ Primary(tab)[1] = [type |-> "startGame", tag |-> saved]
         \/ Primary(tab)[1] = [type |-> "advance", from |-> tab.frame.step]
<1> DEFINE a == [type |-> "startGame", tag |-> saved]
           b == [type |-> "advance", from |-> tab.frame.step]
<1>1. Primary(tab) \in {<<a>>, <<b>>}
  BY DEF Primary, Control
<1> HIDE DEF a, b
<1>2. <<a>>[1] = a /\ <<b>>[1] = b
  OBVIOUS
<1> QED BY <1>1, <1>2 DEF a, b

(* What every such tap has in common.                                        *)
LEMMA Tapping ==
  ASSUME StateInv,
         \/ \E g \in Game : Pick(g)
         \/ TapPrimary \/ ConfirmEnd \/ Edit
  PROVE  /\ UNCHANGED <<room, link, down, session>>
         /\ \E m : /\ Send(m) /\ MessageGood(m) /\ m.type \in HostActions
                   /\ \/ /\ m.type = "selectGame" /\ picked' = m.game /\ CanTap
                         /\ saved' = IF m.game = picked THEN saved ELSE Unknown
                      \/ /\ m.type = "startGame" /\ m.tag = saved /\ CanTap
                         /\ UNCHANGED <<picked, saved>>
                      \/ /\ m.type \in {"advance", "endGame"}
                         /\ UNCHANGED <<picked, saved>>
                      \/ /\ m.type = "configureGame" /\ picked' = picked /\ CanTap
                         /\ tab.editor \in Game
                         /\ saved' = IF tab.editor = picked
                                     THEN [game |-> tab.editor, list |-> m.list] ELSE Unknown
         /\ TabInv' /\ tab'.mode = tab.mode /\ tab'.frame = tab.frame /\ lost' = lost
<1>1. TabInv
  BY DEF StateInv
<1>2. CASE \E g \in Game : Pick(g)
  <2>1. PICK g \in Game : Pick(g)
    BY <1>2
  <2> DEFINE m == [type |-> "selectGame", game |-> g]
  <2>2. /\ Send(m) /\ UNCHANGED <<room, link, down, session, cache, tab, lost>>
        /\ CanTap /\ picked' = g /\ saved' = IF g = picked THEN saved ELSE Unknown
    BY <2>1 DEF Pick, Tapped
  <2>3. m.type = "selectGame" /\ m.game = g
    OBVIOUS
  <2> HIDE DEF m
  <2>4. MessageGood(m) /\ m.type \in HostActions
    BY <2>3 DEF MessageGood, HostActions
  <2>5. TabInv'
    BY <1>1, <2>2 DEF TabInv, BlockedOnlyByEditor
  <2> QED BY <2>2, <2>3, <2>4, <2>5
<1>3. CASE TapPrimary
  <2> DEFINE m == Primary(tab)[1]
  <2>1. /\ Send(m) /\ UNCHANGED <<room, link, down, session, cache, tab, picked, saved, lost>>
        /\ Primary(tab) # <<>> /\ CanTap
    BY <1>3 DEF TapPrimary, Tapped, ghostVars
  <2>2. (m.type = "startGame" /\ m.tag = saved) \/ m.type = "advance"
    BY <2>1, PrimaryIs
  <2> HIDE DEF m
  <2>3. MessageGood(m) /\ m.type \in HostActions
    BY <2>2 DEF MessageGood, HostActions
  <2>4. TabInv'
    BY <1>1, <2>1 DEF TabInv, BlockedOnlyByEditor
  <2> QED BY <2>1, <2>2, <2>3, <2>4
<1>4. CASE ConfirmEnd
  <2> DEFINE m == Msg("endGame")
  <2>1. /\ Send(m) /\ UNCHANGED <<room, link, down, session, cache, picked, saved, lost>>
        /\ tab' = [tab EXCEPT !.confirm = "none"]
    BY <1>4 DEF ConfirmEnd, Tapped, ghostVars
  <2>2. m.type = "endGame"
    BY DEF Msg
  <2> HIDE DEF m
  <2>3. MessageGood(m) /\ m.type \in HostActions
    BY <2>2 DEF MessageGood, HostActions
  <2>4. TabInv' /\ tab'.mode = tab.mode /\ tab'.frame = tab.frame
    BY <1>1, <2>1 DEF TabInv, TabParts, BlockedOnlyByEditor
  <2> QED BY <2>1, <2>2, <2>3, <2>4
<1>5. CASE Edit
  <2> DEFINE g == tab.editor
  <2>1. PICK list \in Edited(g) :
          /\ cache' = [cache EXCEPT ![g] = list]
          /\ Send([type |-> "configureGame", list |-> list])
          /\ saved' = IF g = picked THEN [game |-> g, list |-> list] ELSE Unknown
          /\ Render(tab, cache')
    BY <1>5 DEF Edit
  <2>2. /\ UNCHANGED <<room, link, down, session, picked, lost>> /\ CanTap /\ g # NoGame
    BY <1>5 DEF Edit
  <2>3. g \in Game /\ IsList(list)
    <3>1. g \in Game /\ IsList(cache[g])
      BY <1>1, <2>2 DEF TabInv, GameOrNone
    <3> HIDE DEF g
    <3> QED BY <3>1, EditedAreLists
  <2> DEFINE m == [type |-> "configureGame", list |-> list]
  <2>4. m.type = "configureGame" /\ m.list = list /\ Send(m)
    BY <2>1
  <2> HIDE DEF m
  <2>5. MessageGood(m) /\ m.type \in HostActions
    BY <2>3, <2>4 DEF MessageGood, HostActions
  <2>6. /\ DOMAIN tab = TabParts /\ (tab.frame # NoFrame => tab.frame.game \in GameOrNone)
        /\ tab.blocked => tab.editor # NoGame
    BY <1>1 DEF TabInv, BlockedOnlyByEditor
  <2>7. /\ DOMAIN tab' = TabParts /\ tab'.mode = tab.mode /\ tab'.frame = tab.frame
        /\ tab'.editor \in GameOrNone
        /\ tab'.blocked => tab'.editor # NoGame /\ tab'.open /\ cache'[tab'.editor] = <<>>
    <3>1. PICK lists : lists = cache'
      OBVIOUS
    <3>2. tab' = Rendered(tab, tab, lists)
      BY <2>1, <3>1 DEF Render
    <3>3. LET r == Rendered(tab, tab, lists)
          IN  /\ DOMAIN r = TabParts
              /\ r.mode = tab.mode /\ r.frame = tab.frame
              /\ r.editor \in GameOrNone
              /\ r.blocked => r.editor # NoGame /\ r.open /\ lists[r.editor] = <<>>
      BY <2>6, RenderedFacts
    <3> QED BY <3>1, <3>2, <3>3
  <2>8. DOMAIN cache' = Game /\ \A h \in Game : IsList(cache'[h])
    BY <1>1, <2>1, <2>3 DEF TabInv
  <2>9. TabInv'
    BY <2>6, <2>7, <2>8 DEF TabInv, BlockedOnlyByEditor
  <2> QED BY <2>1, <2>2, <2>3, <2>4, <2>5, <2>7, <2>9
<1> QED BY <1>2, <1>3, <1>4, <1>5

LEMMA TapState ==
  ASSUME StateInv,
         \/ \E g \in Game : Pick(g)
         \/ TapPrimary \/ ConfirmEnd \/ Edit
  PROVE  StateInv'
<1>1. TabInv /\ WireInv /\ RoomInv /\ NoRoomYet /\ LiveInv
  BY DEF StateInv
<1>2. /\ UNCHANGED <<room, link, down, session>>
      /\ TabInv' /\ tab'.mode = tab.mode /\ tab'.frame = tab.frame
      /\ \E m : /\ Send(m) /\ MessageGood(m) /\ m.type \in HostActions
                /\ CanTap \/ UNCHANGED <<picked, saved>>
  BY Tapping
<1>3. PICK m : /\ Send(m) /\ MessageGood(m) /\ m.type \in HostActions
               /\ CanTap \/ UNCHANGED <<picked, saved>>
  BY <1>2
<1>4. /\ IsList(up') /\ IsList(pending')
      /\ \A i \in DOMAIN up' : MessageGood(up'[i])
      /\ \A i \in DOMAIN pending' : MessageGood(pending'[i]) /\ pending'[i].type \in HostActions
      /\ link = "live" => pending' = pending
      /\ link = "live" /\ OnlyActions(up) => OnlyActions(up')
      /\ link = "live" /\ Greets(up) => Greets(up')
  BY <1>1, <1>3, Sent
<1>5. WireInv' /\ RoomInv'
  BY <1>1, <1>2, <1>4 DEF WireInv, RoomInv
<1>6. NoRoomYet'
  BY <1>1, <1>2, <1>3 DEF NoRoomYet, CanTap
<1>7. LiveInv'
  BY <1>1, <1>2, <1>4 DEF LiveInv, Greeting, TurnedAway, Shown
<1> QED BY <1>2, <1>5, <1>6, <1>7 DEF StateInv

-----------------------------------------------------------------------------
LEMMA InitState ==
  ASSUME Init
  PROVE  StateInv
<1>1. TabInv
  <2>1. DOMAIN cache = Game /\ \A g \in Game : IsList(cache[g])
    BY NoList DEF Init
  <2>2. /\ DOMAIN tab = TabParts /\ tab.frame = NoFrame /\ tab.editor = NoGame
        /\ tab.blocked = FALSE
    BY LandingFacts DEF Init
  <2> QED BY <2>1, <2>2 DEF TabInv, BlockedOnlyByEditor, GameOrNone
<1>2. WireInv
  BY EmptyWire DEF Init, WireInv
<1>3. RoomInv
  BY DEF Init, RoomInv, RoomGood, RoomParts, GameOrNone
<1>4. NoRoomYet
  BY EmptyWire, LandingFacts DEF Init, NoRoomYet
<1>5. LiveInv
  BY DEF Init, LiveInv
<1> QED BY <1>1, <1>2, <1>3, <1>4, <1>5 DEF StateInv

LEMMA NextState ==
  ASSUME StateInv, [Next]_vars
  PROVE  StateInv'
<1>1. CASE HostStep
  <2>1. \/ HostARoom \/ ConfirmLeave \/ ToLanding \/ Reload
        \/ ToggleCustomize \/ ConfirmChange \/ Cancel
        \/ \E what \in {"change", "end", "leave"} : Ask(what)
        \/ \E g \in Game : Pick(g)
        \/ TapPrimary \/ ConfirmEnd \/ Edit
    BY <1>1 DEF HostStep
  <2> QED BY <2>1, LeavesState, TabTapState, TapState
<1>2. CASE LinkOpens \/ Drop \/ BoardReceives
  BY <1>2, OpensState, DropState, ReceivesState
<1>3. CASE ServerReceives \/ GraceFires
  BY <1>3, ServerState, GraceState
<1>4. CASE UNCHANGED vars
  <2>1. UNCHANGED <<room, link, up, down, pending, tab, session, cache, picked, saved, lost>>
    BY <1>4 DEF vars
  <2> QED BY <2>1 DEF StateInv, TabInv, BlockedOnlyByEditor, WireInv, RoomInv, NoRoomYet,
                      LiveInv, Greeting, TurnedAway, Shown
<1> QED BY <1>1, <1>2, <1>3, <1>4 DEF Next

LEMMA StateKept == Spec => []StateInv
<1>1. Init => StateInv
  BY InitState
<1>2. StateInv /\ [Next]_vars => StateInv'
  BY NextState
<1> QED BY <1>1, <1>2, PTL DEF Spec

(* Start is blocked only by an editor that is there to clear it, whatever    *)
(* frames come and whatever is picked, edited or reloaded meanwhile          *)
(* (HostScreen.tsx:75-77, customizeQuestions.tsx:33-38).                     *)
THEOREM BoardBlockedOnlyByEditor == Spec => []BlockedOnlyByEditor
<1>1. StateInv => BlockedOnlyByEditor
  BY DEF StateInv, TabInv
<1> QED BY <1>1, StateKept, PTL

(* The button's message, against the room the board shows.                   *)
LEMMA TapTaken ==
  ASSUME RoomInv, tab.frame = FrameOf(room), Primary(tab) # <<>>, ~PickingMidRound
  PROVE  Accepts(room, Primary(tab)[1])
<1> DEFINE f == tab.frame
           start == [type |-> "startGame", tag |-> saved]
<1>1. /\ f.phase = room.phase /\ f.game = room.game /\ f.step = room.step
      /\ f.round = room.round /\ f.total = roundsTotal(room)
  BY FrameFacts DEF RoomInv
<1>2. ASSUME room.game # NoGame
      PROVE  roundsTotal(room) \in Nat /\ roundsTotal(room) > 0 /\ room.round \in Nat
  <2>1. roundsTotal(room) \in Nat \ {0}
    BY <1>2, TotalIsSome DEF RoomInv
  <2> QED BY <2>1 DEF RoomInv, RoomGood
<1>3. ASSUME Primary(tab)[1] = start, room.phase # "IN_GAME", room.game # NoGame, ~Exhausted(tab)
      PROVE  Accepts(room, Primary(tab)[1])
  <2>1. room.round < roundsTotal(room)
    <3>1. CASE room.phase = "LOBBY"
      BY <1>2, <1>3, <3>1 DEF RoomInv, RoomGood
    <3>2. CASE room.phase = "SCORES"
      <4>1. ~(room.round >= roundsTotal(room))
        BY <1>1, <1>2, <1>3, <3>2 DEF Exhausted, Over
      <4> QED BY <1>2, <1>3, <4>1
    <3> QED BY <1>3, <3>1, <3>2 DEF RoomInv, RoomGood
  <2>2. start.type = "startGame"
    OBVIOUS
  <2> QED BY <1>3, <2>1, <2>2 DEF Accepts, MayStart
<1>4. ~GameOver(tab) /\ ~(Exhausted(tab) /\ ShowPicker(tab)) /\ Control(tab) # <<>>
      /\ Primary(tab)[1] = Control(tab)[1]
  BY DEF Primary
<1>5. CASE ShowPicker(tab)
  <2>1. f.game # NoGame /\ Control(tab) = <<start>>
    BY <1>4, <1>5 DEF Control
  <2>2. room.phase # "IN_GAME"
    BY <1>1, <1>5, <2>1 DEF ShowPicker, PickingMidRound
  <2>3. Primary(tab)[1] = start
    BY <1>4, <2>1
  <2> QED BY <1>1, <1>3, <1>4, <1>5, <2>1, <2>2, <2>3
<1>6. CASE ~ShowPicker(tab) /\ room.phase = "IN_GAME"
  <2>1. room.step <= Steps[room.game]
    <3>1. room.game \in Game /\ room.step \in 1..Steps[room.game]
      BY <1>6 DEF RoomInv, RoomGood
    <3>2. Steps[room.game] \in Nat
      BY <3>1, HostBoardAssumption
    <3> QED BY <3>1, <3>2
  <2> DEFINE a == [type |-> "advance", from |-> f.step]
  <2>2. Control(tab) = <<a>>
    BY <1>1, <1>6, <2>1 DEF Control
  <2>3. a.type = "advance" /\ a.from = f.step
    OBVIOUS
  <2> HIDE DEF a
  <2>4. Primary(tab)[1] = a
    BY <1>4, <2>2
  <2> QED BY <1>1, <1>6, <2>3, <2>4 DEF Accepts, MayAdvance
<1>7. CASE ~ShowPicker(tab) /\ room.phase # "IN_GAME"
  <2>1. Control(tab) = <<start>> /\ room.game # NoGame
    BY <1>1, <1>7 DEF Control, ShowPicker
  <2>2. Primary(tab)[1] = start /\ ~Exhausted(tab)
    BY <1>4, <1>7, <2>1 DEF GameOver
  <2> QED BY <1>3, <1>7, <2>1, <2>2
<1> QED BY <1>5, <1>6, <1>7

(* With nothing on its way the board shows the room as it is, and a button   *)
(* that can be tapped sends what the room takes, for every number of games,  *)
(* steps, questions, drops and reloads (HostScreen.tsx:18-39, 105-115;       *)
(* room.ts:182-203).                                                         *)
THEOREM BoardControlsWork == Spec => []ControlsWork
<1>1. StateInv => ControlsWork
  <2> SUFFICES ASSUME StateInv, Quiet
               PROVE  /\ tab.frame = FrameOf(room)
                      /\ Primary(tab) # <<>> /\ ~PickingMidRound => Accepts(room, Primary(tab)[1])
    BY DEF ControlsWork
  <2>1. Shown
    <3>1. ~Greeting
      BY DEF Quiet, Greeting, Greets
    <3>2. ~TurnedAway
      BY ListOfOne DEF Quiet, TurnedAway
    <3> QED BY <3>1, <3>2 DEF StateInv, LiveInv, Quiet
  <2>2. tab.frame = FrameOf(room)
    BY <2>1 DEF Shown, Quiet
  <2> QED BY <2>2, TapTaken DEF StateInv
<1> QED BY <1>1, StateKept, PTL

-----------------------------------------------------------------------------
(* Messages on their way, one more, one less.                                *)

Plain(m) == m.type \notin {"selectGame", "configureGame", "startGame"}

LEMMA PlainFacts ==
  ASSUME NEW m, Plain(m), NEW s
  PROVE  After(s, m) = s /\ Meant(s, m)
BY DEF Plain, After, Meant

LEMMA LeadsNowhere ==
  ASSUME NEW s
  PROVE  Leads(<<>>, s, s) /\ \A t : Leads(<<>>, s, t) => t = s
<1>1. Len(<<>>) = 0 /\ 1..0 = {}
  OBVIOUS
<1> DEFINE path == [i \in {0} |-> s]
<1>2. path[0] = s
  OBVIOUS
<1> HIDE DEF path
<1>3. Leads(<<>>, s, s)
  BY <1>1, <1>2 DEF Leads
<1>4. \A t : Leads(<<>>, s, t) => t = s
  BY <1>1 DEF Leads
<1> QED BY <1>3, <1>4

LEMMA LeadsOn ==
  ASSUME NEW q, IsList(q), NEW s, NEW t, Leads(q, s, t), NEW m, Meant(t, m)
  PROVE  Leads(Append(q, m), s, After(t, m))
<1> DEFINE n == Len(q)
           r == Append(q, m)
<1>1. n \in Nat /\ Len(r) = n + 1 /\ r[n + 1] = m /\ \A i \in 1..n : r[i] = q[i]
  BY ListFacts, ListAppend
<1>2. PICK old :
        /\ old[0] = s /\ old[n] = t
        /\ \A i \in 1..n : old[i] = After(old[i - 1], q[i]) /\ Meant(old[i - 1], q[i])
  BY DEF Leads
<1> HIDE DEF n, r
<1> DEFINE path == [i \in 0..n + 1 |-> IF i <= n THEN old[i] ELSE After(t, m)]
<1>3. path[0] = s /\ path[n] = t /\ path[n + 1] = After(t, m)
  BY <1>1, <1>2
<1>4. \A i \in 1..n : path[i] = old[i] /\ path[i - 1] = old[i - 1]
  BY <1>1
<1> HIDE DEF path
<1>5. ASSUME NEW i \in 1..n + 1
      PROVE  path[i] = After(path[i - 1], r[i]) /\ Meant(path[i - 1], r[i])
  <2>1. CASE i \in 1..n
    BY <1>1, <1>2, <1>4, <2>1
  <2>2. CASE i = n + 1
    <3>1. i - 1 = n
      BY <1>1, <2>2
    <3> QED BY <1>1, <1>3, <2>2, <3>1
  <2> QED BY <1>1, <2>1, <2>2
<1>6. Leads(r, s, After(t, m))
  BY <1>1, <1>3, <1>5 DEF Leads
<1> QED BY <1>6 DEF r

LEMMA LeadsPast ==
  ASSUME NEW q, IsList(q), q # <<>>, NEW s, NEW t, Leads(q, s, t)
  PROVE  Meant(s, q[1]) /\ Leads(Tail(q), After(s, q[1]), t)
<1> DEFINE n == Len(q)
           r == Tail(q)
<1>1. n \in Nat /\ n > 0 /\ Len(r) = n - 1 /\ \A i \in 1..n - 1 : r[i] = q[i + 1]
  BY ListFacts, ListTail
<1>2. PICK old :
        /\ old[0] = s /\ old[n] = t
        /\ \A i \in 1..n : old[i] = After(old[i - 1], q[i]) /\ Meant(old[i - 1], q[i])
  BY DEF Leads
<1> HIDE DEF n, r
<1> DEFINE path == [i \in 0..n - 1 |-> old[i + 1]]
<1>3. old[1] = After(s, q[1]) /\ Meant(s, q[1])
  <2>1. 1 \in 1..n /\ 1 - 1 = 0
    BY <1>1
  <2> QED BY <1>2, <2>1
<1>4. path[0] = After(s, q[1]) /\ path[n - 1] = t
  <2>1. 0 \in 0..n - 1 /\ n - 1 \in 0..n - 1 /\ 0 + 1 = 1 /\ (n - 1) + 1 = n
    BY <1>1
  <2> QED BY <1>2, <1>3, <2>1
<1>5. ASSUME NEW i \in 1..n - 1
      PROVE  path[i] = After(path[i - 1], r[i]) /\ Meant(path[i - 1], r[i])
  <2>1. /\ i \in 0..n - 1 /\ i - 1 \in 0..n - 1 /\ i + 1 \in 1..n
        /\ (i - 1) + 1 = i /\ (i + 1) - 1 = i
    BY <1>1
  <2>2. path[i] = old[i + 1] /\ path[i - 1] = old[i] /\ r[i] = q[i + 1]
    BY <1>1, <2>1
  <2> HIDE DEF path
  <2>3. old[i + 1] = After(old[i], q[i + 1]) /\ Meant(old[i], q[i + 1])
    BY <1>2, <2>1
  <2> QED BY <2>2, <2>3
<1> HIDE DEF path
<1>6. Leads(r, After(s, q[1]), t)
  BY <1>1, <1>4, <1>5 DEF Leads
<1> QED BY <1>3, <1>6 DEF r

LEMMA LeadsGreeted ==
  ASSUME NEW q, IsList(q), NEW s, NEW t, Leads(q, s, t), NEW m, Plain(m)
  PROVE  Leads(<<m>> \o q, s, t)
<1> DEFINE n == Len(q)
           r == <<m>> \o q
<1>1. n \in Nat /\ Len(r) = 1 + n /\ r[1] = m /\ \A i \in 1..n : r[1 + i] = q[i]
  BY ListFacts, Prepended
<1>2. PICK old :
        /\ old[0] = s /\ old[n] = t
        /\ \A i \in 1..n : old[i] = After(old[i - 1], q[i]) /\ Meant(old[i - 1], q[i])
  BY DEF Leads
<1> HIDE DEF n, r
<1> DEFINE path == [i \in 0..1 + n |-> IF i = 0 THEN s ELSE old[i - 1]]
<1>3. path[0] = s /\ path[1] = s /\ path[1 + n] = t
  <2>1. 0 \in 0..1 + n /\ 1 \in 0..1 + n /\ 1 + n \in 0..1 + n /\ 1 + n # 0 /\ (1 + n) - 1 = n
    BY <1>1
  <2> QED BY <1>2, <2>1
<1>4. \A i \in 1..n : path[1 + i] = old[i] /\ path[i] = old[i - 1]
  <2> SUFFICES ASSUME NEW i \in 1..n PROVE path[1 + i] = old[i] /\ path[i] = old[i - 1]
    OBVIOUS
  <2>1. 1 + i \in 0..1 + n /\ i \in 0..1 + n /\ i # 0 /\ 1 + i # 0 /\ (1 + i) - 1 = i
    BY <1>1
  <2> QED BY <2>1
<1> HIDE DEF path
<1>5. ASSUME NEW i \in 1..1 + n
      PROVE  path[i] = After(path[i - 1], r[i]) /\ Meant(path[i - 1], r[i])
  <2>1. CASE i = 1
    BY <1>1, <1>3, <2>1, PlainFacts
  <2>2. CASE i # 1
    <3>1. i - 1 \in 1..n /\ 1 + (i - 1) = i
      BY <1>1, <2>2
    <3>2. path[i] = old[i - 1] /\ path[i - 1] = old[(i - 1) - 1] /\ r[i] = q[i - 1]
      BY <1>1, <1>4, <3>1
    <3>3. /\ old[i - 1] = After(old[(i - 1) - 1], q[i - 1])
          /\ Meant(old[(i - 1) - 1], q[i - 1])
      BY <1>2, <3>1
    <3> QED BY <3>2, <3>3
  <2> QED BY <2>1, <2>2
<1>6. Leads(r, s, t)
  BY <1>1, <1>3, <1>5 DEF Leads
<1> QED BY <1>6 DEF r

(* A message that changes neither the game nor the set, last of all.         *)
LEMMA LeadsStill ==
  ASSUME NEW q, IsList(q), NEW s, NEW t, Leads(q, s, t), NEW type,
         type \in {"fin", "leave"}
  PROVE  Leads(Append(q, Msg(type)), s, t)
<1> DEFINE m == Msg(type)
<1>1. Plain(m)
  BY DEF Msg, Plain
<1> HIDE DEF m
<1>2. Leads(Append(q, m), s, After(t, m))
  BY <1>1, PlainFacts, LeadsOn
<1> QED BY <1>1, <1>2, PlainFacts DEF m

-----------------------------------------------------------------------------
(* What the server makes of a message is what it was taken to mean.          *)

LEMMA ResultMeant ==
  ASSUME RoomInv, NEW m, m.type \in HostActions, Accepts(room, m),
         Meant(GameAndSet, m), AskedAsSaved, room' = Result(room, m), lost' = lost
  PROVE  GameAndSet' = After(GameAndSet, m) /\ AskedAsSaved'
<1> USE DEF RoomParts
<1>1. DOMAIN room = RoomParts
  BY DEF RoomInv, RoomGood
<1>2. CASE m.type = "selectGame"
  <2>1. room' = selectGame(room, m.game)
    BY <1>2 DEF Result
  <2>2. /\ room'.phase = "LOBBY" /\ room'.game = m.game
        /\ room'.config = IF m.game = room.game THEN room.config ELSE Unset
    BY <1>1, <2>1 DEF selectGame, ConfigOnPick
  <2>3. GameAndSet' = After(GameAndSet, m)
    BY <1>2, <2>2 DEF GameAndSet, After
  <2> QED BY <2>2, <2>3 DEF AskedAsSaved
<1>3. CASE m.type = "configureGame"
  <2>1. room' = configureGame(room, m.list) /\ room.phase # "IN_GAME"
    BY <1>3 DEF Result, Accepts, MayConfigure
  <2>2. room'.phase = room.phase /\ room'.game = room.game /\ room'.config = m.list
    BY <1>1, <2>1 DEF configureGame
  <2>3. GameAndSet' = After(GameAndSet, m)
    BY <1>3, <2>2 DEF GameAndSet, After
  <2> QED BY <2>1, <2>2, <2>3 DEF AskedAsSaved
<1>4. CASE m.type = "startGame"
  <2>1. room' = startGame(room, m.tag)
    BY <1>4 DEF Result
  <2>2. /\ room'.game = room.game /\ room'.config = room.config /\ room'.tag = m.tag
        /\ room'.round = room.round + 1
        /\ room'.asked = choosePrompt(Prompts(room.config), Builtin[room.game], room.round + 1)
    BY <1>1, <2>1 DEF startGame
  <2>3. m.tag # Unknown => room.game = m.tag.game /\ room.config = m.tag.list
    BY <1>4 DEF Meant, GameAndSet
  <2>4. GameAndSet' = After(GameAndSet, m)
    BY <1>4, <2>2 DEF GameAndSet, After
  <2>5. AskedAsSaved'
    BY <2>2, <2>3 DEF AskedAsSaved
  <2> QED BY <2>4, <2>5
<1>5. CASE m.type = "advance"
  <2>1. room' = advance(room) /\ room.phase = "IN_GAME"
    BY <1>5 DEF Result, Accepts, MayAdvance
  <2>2. /\ room'.game = room.game /\ room'.config = room.config /\ room'.tag = room.tag
        /\ room'.round = room.round /\ room'.asked = room.asked
    BY <1>1, <2>1 DEF advance
  <2>3. GameAndSet' = After(GameAndSet, m)
    BY <1>5, <2>2 DEF GameAndSet, After
  <2> QED BY <2>1, <2>2, <2>3 DEF AskedAsSaved
<1>6. CASE m.type = "endGame"
  <2>1. room' = endGame(room)
    BY <1>6 DEF Result
  <2>2. room'.game = room.game /\ room'.config = room.config /\ room'.phase = "SCORES"
    BY <1>1, <2>1 DEF endGame
  <2>3. GameAndSet' = After(GameAndSet, m)
    BY <1>6, <2>2 DEF GameAndSet, After
  <2> QED BY <2>2, <2>3 DEF AskedAsSaved
<1> QED BY <1>2, <1>3, <1>4, <1>5, <1>6 DEF HostActions

(* Comings and goings leave the game, its set and the round alone.           *)
SameGame ==
  /\ room'.phase = room.phase /\ room'.game = room.game /\ room'.config = room.config
  /\ room'.round = room.round /\ room'.asked = room.asked /\ room'.tag = room.tag

LEMMA SameGameFacts ==
  ASSUME SameGame, AskedAsSaved, lost => lost'
  PROVE  GameAndSet' = GameAndSet /\ AskedAsSaved'
BY DEF SameGame, GameAndSet, AskedAsSaved

LEMMA ServerTracked ==
  ASSUME StateInv, Tracked, AskedAsSaved, ServerReceives
  PROVE  Tracked' /\ AskedAsSaved'
<1> DEFINE m == up[1]
<1>1. /\ Arrives /\ UNCHANGED <<link, pending, tab, session, cache, picked, saved, spent>>
      /\ WireInv /\ RoomInv /\ DOMAIN room = RoomParts
  BY DEF ServerReceives, StateInv, RoomInv, RoomGood
<1>2. up # <<>> /\ up' = Tail(up) /\ Head(up) = m /\ IsList(up)
  BY <1>1, ArrivesFacts DEF Arrives, WireInv
<1>3. \A s, t : Leads(up, s, t) => Meant(s, m) /\ Leads(up', After(s, m), t)
  BY <1>2, LeadsPast
<1>4. \/ HostMsg(m)
      \/ (OpenMsg(m) \/ ResumeMsg(m) \/ LeaveMsg(m) \/ Disconnect(m)) /\ lost' = lost
  BY <1>2 DEF ServerReceives
<1> HIDE DEF m
<1>5. \A t : Believed(t)' <=> Believed(t)
  BY <1>1 DEF Believed
<1>6. ASSUME lost' = lost, GameAndSet' = After(GameAndSet, m)
      PROVE  Tracked'
  <2> SUFFICES ASSUME ~lost'
               PROVE  \E s, t : Leads(up', GameAndSet', s) /\ Leads(pending', s, t) /\ Believed(t)'
    BY DEF Tracked, Leads, After, Meant
  <2>1. PICK s, t : Leads(up, GameAndSet, s) /\ Leads(pending, s, t) /\ Believed(t)
    BY <1>6 DEF Tracked
  <2>2. Leads(up', GameAndSet', s) /\ Leads(pending', s, t) /\ Believed(t)'
    BY <1>1, <1>3, <1>5, <1>6, <2>1
  <2> QED BY <2>2
<1>7. CASE HostMsg(m) /\ room.state = "open" /\ room.attached /\ Accepts(room, m)
  <2>1. m.type \in HostActions /\ room' = Result(room, m) /\ lost' = lost
    BY <1>7 DEF HostMsg
  <2>2. CASE lost
    BY <2>1, <2>2 DEF Tracked, AskedAsSaved
  <2>3. CASE ~lost
    <3>1. Meant(GameAndSet, m)
      BY <1>3, <2>3 DEF Tracked
    <3>2. GameAndSet' = After(GameAndSet, m) /\ AskedAsSaved'
      BY <1>1, <1>7, <2>1, <3>1, ResultMeant
    <3> QED BY <1>6, <2>1, <3>2
  <2> QED BY <2>2, <2>3
<1>8. CASE HostMsg(m) /\ ~(room.state = "open" /\ room.attached /\ Accepts(room, m))
  <2>1. /\ m.type \in HostActions /\ room' = room
        /\ lost' = (lost \/ m.type \in {"selectGame", "configureGame"})
    BY <1>8 DEF HostMsg
  <2>2. AskedAsSaved' /\ GameAndSet' = GameAndSet
    BY <2>1 DEF AskedAsSaved, GameAndSet
  <2>3. CASE lost'
    BY <2>2, <2>3 DEF Tracked
  <2>4. CASE ~lost'
    <3>1. lost' = lost \/ (~lost /\ ~lost')
      BY <2>1, <2>4
    <3>2. m.type \notin {"selectGame", "configureGame"} /\ ~lost
      BY <2>1, <2>4
    <3>3. After(GameAndSet, m) = GameAndSet
      BY <3>2 DEF After
    <3>4. PICK s, t : Leads(up, GameAndSet, s) /\ Leads(pending, s, t) /\ Believed(t)
      BY <3>2 DEF Tracked
    <3>5. Leads(up', GameAndSet', s) /\ Leads(pending', s, t) /\ Believed(t)'
      BY <1>1, <1>3, <1>5, <2>2, <3>3, <3>4
    <3>6. \E a, b : Leads(up', GameAndSet', a) /\ Leads(pending', a, b) /\ Believed(b)'
      BY <3>5
    <3>7. Tracked'
      BY <3>6 DEF Tracked, Leads, After, Meant
    <3> QED BY <2>2, <3>7
  <2> QED BY <2>3, <2>4
<1>9. CASE (OpenMsg(m) \/ ResumeMsg(m) \/ LeaveMsg(m) \/ Disconnect(m)) /\ lost' = lost
  <2>1. SameGame
    <3>1. \/ room' = room
          \/ \E st, at : room' = [room EXCEPT !.state = st, !.attached = at]
          \/ \E at : room' = [room EXCEPT !.attached = at]
      BY <1>9 DEF OpenMsg, ResumeMsg, LeaveMsg, Disconnect
    <3> QED BY <1>1, <3>1 DEF SameGame, RoomParts
  <2>2. GameAndSet' = GameAndSet /\ AskedAsSaved'
    BY <1>9, <2>1, SameGameFacts
  <2>3. m.type \in {"open", "resumeHost", "leave", "fin"}
    BY <1>9 DEF OpenMsg, ResumeMsg, LeaveMsg, Disconnect
  <2>4. After(GameAndSet, m) = GameAndSet
    BY <2>3 DEF After
  <2> QED BY <1>6, <1>9, <2>2, <2>4
<1> QED BY <1>4, <1>7, <1>8, <1>9

-----------------------------------------------------------------------------
(* What is sent, lost or kept back on the way there.                         *)

LEMMA TrackedNext ==
  ASSUME ~lost' => \E a, b : Leads(up', GameAndSet', a) /\ Leads(pending', a, b) /\ Believed(b)'
  PROVE  Tracked'
BY DEF Tracked, Leads, After, Meant

LEMMA OpensTracked ==
  ASSUME StateInv, Tracked, LinkOpens
  PROVE  Tracked'
<1>1. /\ UNCHANGED <<room, tab, session, cache, picked, saved, lost, spent>>
      /\ up = <<>> /\ up' = <<Handshake>> \o pending /\ pending' = <<>>
      /\ IsList(pending)
  BY DEF LinkOpens, Flush, ghostVars, StateInv, WireInv
<1>2. Plain(Handshake)
  BY DEF Handshake, Msg, Plain
<1>3. GameAndSet' = GameAndSet /\ \A t : Believed(t)' <=> Believed(t)
  BY <1>1 DEF GameAndSet, Believed
<1>4. ASSUME ~lost'
      PROVE  \E a, b : Leads(up', GameAndSet', a) /\ Leads(pending', a, b) /\ Believed(b)'
  <2>1. PICK s, t : Leads(up, GameAndSet, s) /\ Leads(pending, s, t) /\ Believed(t)
    BY <1>1, <1>4 DEF Tracked
  <2>2. s = GameAndSet
    BY <1>1, <2>1, LeadsNowhere
  <2> DEFINE h == Handshake
  <2>3. Plain(h) /\ Leads(pending, GameAndSet, t)
    BY <1>2, <2>1, <2>2
  <2> HIDE DEF h
  <2>4. Leads(<<h>> \o pending, GameAndSet, t)
    BY <1>1, <2>3, LeadsGreeted
  <2>5. Leads(up', GameAndSet', t)
    BY <1>1, <1>3, <2>4 DEF h
  <2> QED BY <1>1, <1>3, <2>1, <2>5, LeadsNowhere
<1> QED BY <1>4, TrackedNext

(* A live link has nothing kept back; one that breaks after all of it got    *)
(* through has lost nothing.                                                 *)
LEMMA Broken ==
  ASSUME WireInv, NEW s, NEW t, Leads(up, s, t), NEW n \in 0..Len(up), ~(n < Len(up))
  PROVE  Leads(Append(SubSeq(up, 1, n), Msg("fin")), s, t)
<1>1. IsList(up) /\ Len(up) \in Nat
  BY ListFacts DEF WireInv
<1>2. n = Len(up)
  BY <1>1
<1>3. /\ IsList(SubSeq(up, 1, n)) /\ Len(SubSeq(up, 1, n)) = Len(up)
      /\ \A i \in 1..Len(up) : SubSeq(up, 1, n)[i] = up[i]
  BY <1>1, <1>2, ListPrefix
<1> DEFINE q == SubSeq(up, 1, n)
<1>4. q = up
  <2> HIDE DEF q
  <2> QED BY <1>1, <1>3, SameList DEF q
<1>5. Leads(Append(up, Msg("fin")), s, t)
  BY <1>1, LeadsStill
<1> QED BY <1>4, <1>5

LEMMA DropTracked ==
  ASSUME StateInv, Tracked, Drop
  PROVE  Tracked'
<1>1. /\ UNCHANGED <<room, pending, tab, session, cache, picked, saved>> /\ WireInv
  BY DEF Drop, StateInv
<1>2. PICK n \in 0..Len(up) : /\ up' = Append(SubSeq(up, 1, n), Msg("fin"))
                              /\ lost' = (lost \/ n < Len(up))
  BY DEF Drop
<1>3. GameAndSet' = GameAndSet /\ \A t : Believed(t)' <=> Believed(t)
  BY <1>1 DEF GameAndSet, Believed
<1>4. ASSUME ~lost'
      PROVE  \E a, b : Leads(up', GameAndSet', a) /\ Leads(pending', a, b) /\ Believed(b)'
  <2>1. ~lost /\ ~(n < Len(up))
    BY <1>2, <1>4
  <2>2. PICK s, t : Leads(up, GameAndSet, s) /\ Leads(pending, s, t) /\ Believed(t)
    BY <2>1 DEF Tracked
  <2>3. Leads(up', GameAndSet, s)
    BY <1>1, <1>2, <2>1, <2>2, Broken
  <2> QED BY <1>1, <1>3, <2>2, <2>3
<1> QED BY <1>4, TrackedNext

LEMMA ReceivesTracked ==
  ASSUME StateInv, Tracked, BoardReceives
  PROVE  Tracked'
<1>1. /\ UNCHANGED <<room, cache, picked, saved, lost, spent>> /\ link = "live"
      /\ WireInv /\ pending = <<>> /\ DOMAIN tab = TabParts
  BY DEF BoardReceives, ghostVars, StateInv, LiveInv, TabInv
<1>2. \/ UNCHANGED <<up, pending>> /\ tab' = tab
      \/ UNCHANGED <<up, pending>> /\ tab'.mode = tab.mode
      \/ up' = Append(up, Msg("fin")) /\ pending' = <<>> /\ tab'.mode = "recover"
  <2>1. \/ UNCHANGED <<up, pending, tab>>
        \/ UNCHANGED <<up, pending>> /\ Render([tab EXCEPT !.frame = Head(down)], cache)
           /\ FrameGood(Head(down)) /\ Head(down).type = "frame"
        \/ up' = Append(up, Msg("fin")) /\ pending' = <<>> /\ tab' = [Landing EXCEPT !.mode = "recover"]
    BY <1>1, ReceivedTail DEF BoardReceives, SocketClosed
  <2>2. ASSUME Render([tab EXCEPT !.frame = Head(down)], cache),
               FrameGood(Head(down)), Head(down).type = "frame"
        PROVE  tab'.mode = tab.mode
    <3> DEFINE new == [tab EXCEPT !.frame = Head(down)]
    <3>1. /\ DOMAIN new = TabParts /\ new.frame = Head(down) /\ new.mode = tab.mode
          /\ new.blocked = tab.blocked
      BY <1>1 DEF TabParts
    <3>2. tab' = Rendered(tab, new, cache)
      BY <2>2 DEF Render
    <3> HIDE DEF new
    <3>3. new.frame.game \in GameOrNone /\ (new.blocked => tab.editor # NoGame)
      BY <2>2, <3>1 DEF FrameGood, StateInv, TabInv, BlockedOnlyByEditor
    <3> QED BY <3>1, <3>2, <3>3, RenderedFacts
  <2>3. [Landing EXCEPT !.mode = "recover"].mode = "recover"
    BY DEF Landing
  <2> QED BY <2>1, <2>2, <2>3
<1>3. GameAndSet' = GameAndSet
  BY <1>1 DEF GameAndSet
<1>4. ASSUME ~lost'
      PROVE  \E a, b : Leads(up', GameAndSet', a) /\ Leads(pending', a, b) /\ Believed(b)'
  <2>1. PICK s, t : Leads(up, GameAndSet, s) /\ Leads(pending, s, t) /\ Believed(t)
    BY <1>1, <1>4 DEF Tracked
  <2>2. CASE UNCHANGED <<up, pending>> /\ tab'.mode = tab.mode
    <3>1. Believed(t)'
      BY <1>1, <2>1, <2>2 DEF Believed
    <3> QED BY <1>3, <2>1, <2>2, <3>1
  <2>3. CASE up' = Append(up, Msg("fin")) /\ pending' = <<>> /\ tab'.mode = "recover"
    <3>1. Leads(up', GameAndSet, s)
      BY <1>1, <2>1, <2>3, LeadsStill DEF WireInv
    <3>2. Believed(s)'
      BY <2>3 DEF Believed
    <3> QED BY <1>3, <2>3, <3>1, <3>2, LeadsNowhere
  <2> QED BY <1>2, <2>2, <2>3
<1> QED BY <1>4, TrackedNext

LEMMA LeavesTracked ==
  ASSUME StateInv, Tracked, HostARoom \/ ConfirmLeave \/ ToLanding \/ Reload
  PROVE  Tracked'
<1>1. /\ UNCHANGED <<room, picked, saved>> /\ WireInv /\ NoRoomYet /\ LiveInv
      /\ IsList(up) /\ IsList(pending)
  BY DEF HostARoom, ConfirmLeave, ToLanding, Reload, linkVars, ghostVars, StateInv, WireInv
<1>2. GameAndSet' = GameAndSet
  BY <1>1 DEF GameAndSet
<1>3. CASE HostARoom \/ ToLanding
  <2>1. UNCHANGED <<up, pending, lost>> /\ \A t : Believed(t)'
    <3>1. CASE HostARoom
      <4>1. picked' = NoGame /\ saved' = Unknown
        BY <1>1, <3>1 DEF HostARoom, NoRoomYet
      <4> QED BY <3>1, <4>1 DEF HostARoom, ghostVars, Believed
    <3>2. CASE ToLanding
      BY <3>2, LandingFacts DEF ToLanding, linkVars, ghostVars, Believed
    <3> QED BY <1>3, <3>1, <3>2
  <2>2. ASSUME ~lost'
        PROVE  \E a, b : Leads(up', GameAndSet', a) /\ Leads(pending', a, b) /\ Believed(b)'
    <3>1. PICK s, t : Leads(up, GameAndSet, s) /\ Leads(pending, s, t) /\ Believed(t)
      BY <2>1, <2>2 DEF Tracked
    <3> QED BY <1>2, <2>1, <3>1
  <2> QED BY <2>2, TrackedNext
<1>4. CASE ConfirmLeave
  <2>1. /\ up' = up \/ up' = (up \o <<Msg("leave")>>) \o <<Msg("fin")>>
        /\ pending' = <<>> /\ lost' = lost /\ tab'.mode = "landing"
    BY <1>4, LandingFacts DEF ConfirmLeave, Disposed, ghostVars
  <2>2. up' = up \/ up' = Append(Append(up, Msg("leave")), Msg("fin"))
    <3>1. /\ up \o <<Msg("leave")>> = Append(up, Msg("leave"))
          /\ \A q : IsList(q) => q \o <<Msg("fin")>> = Append(q, Msg("fin"))
      BY <1>1, PushIsAppend
    <3>2. IsList(Append(up, Msg("leave")))
      BY <1>1, ListAppend
    <3> QED BY <2>1, <3>1, <3>2
  <2>3. ASSUME ~lost'
        PROVE  \E a, b : Leads(up', GameAndSet', a) /\ Leads(pending', a, b) /\ Believed(b)'
    <3>1. PICK s : Leads(up, GameAndSet, s)
      BY <2>1, <2>3 DEF Tracked
    <3> DEFINE q == Append(up, Msg("leave"))
    <3>2. IsList(q) /\ Leads(q, GameAndSet, s)
      BY <1>1, <3>1, ListAppend, LeadsStill
    <3> HIDE DEF q
    <3>3. Leads(Append(q, Msg("fin")), GameAndSet, s)
      BY <3>2, LeadsStill
    <3>4. Leads(up', GameAndSet, s)
      BY <2>2, <3>1, <3>3 DEF q
    <3>5. Believed(s)'
      BY <2>1 DEF Believed
    <3> QED BY <1>2, <2>1, <3>4, <3>5, LeadsNowhere
  <2> QED BY <2>3, TrackedNext
<1>5. CASE Reload
  <2>1. ASSUME ~lost'
        PROVE  \E a, b : Leads(up', GameAndSet', a) /\ Leads(pending', a, b) /\ Believed(b)'
    <3>1. ~lost /\ pending = <<>>
      BY <1>1, <1>5, <2>1 DEF Reload, LiveInv
    <3>2. PICK s, t : Leads(up, GameAndSet, s) /\ Leads(pending, s, t) /\ Believed(t)
      BY <3>1 DEF Tracked
    <3>3. t = s
      BY <3>1, <3>2, LeadsNowhere
    <3>4. Leads(up', GameAndSet, s)
      <4>1. \/ up' = up
            \/ \E n \in 0..Len(up) : up' = Append(SubSeq(up, 1, n), Msg("fin")) /\ ~(n < Len(up))
        BY <1>5, <2>1 DEF Reload
      <4> QED BY <1>1, <3>2, <4>1, Broken
    <3>5. Believed(s)'
      BY <1>1, <1>5, <3>2, <3>3 DEF Believed, Reload
    <3> QED BY <1>2, <1>5, <3>4, <3>5, LeadsNowhere DEF Reload
  <2> QED BY <2>1, TrackedNext
<1> QED BY <1>3, <1>4, <1>5

LEMMA TabTapTracked ==
  ASSUME StateInv, Tracked,
         ToggleCustomize \/ ConfirmChange \/ Cancel \/ \E what \in {"change", "end", "leave"} : Ask(what)
  PROVE  Tracked'
<1>1. /\ UNCHANGED <<room, up, pending, picked, saved, lost>>
      /\ DOMAIN tab = TabParts /\ TabInv
  BY DEF StateInv, TabInv, ToggleCustomize, ConfirmChange, Cancel, Ask, Tapped, linkVars, ghostVars
<1>2. tab'.mode = tab.mode
  <2>1. ASSUME NEW new, DOMAIN new = TabParts, new.frame = tab.frame, new.mode = tab.mode,
               new.blocked = tab.blocked, tab' = Rendered(tab, new, cache)
        PROVE  tab'.mode = tab.mode
    <3>1. /\ new.frame # NoFrame => new.frame.game \in GameOrNone
          /\ new.blocked => tab.editor # NoGame
      BY <1>1, <2>1 DEF TabInv, BlockedOnlyByEditor
    <3> QED BY <2>1, <3>1, RenderedFacts
  <2>2. CASE Cancel \/ \E what \in {"change", "end", "leave"} : Ask(what)
    BY <1>1, <2>2 DEF Cancel, Ask, TabParts
  <2>3. CASE ToggleCustomize
    <3> DEFINE new == [tab EXCEPT !.open = ~@]
    <3>1. /\ DOMAIN new = TabParts /\ new.frame = tab.frame /\ new.mode = tab.mode
          /\ new.blocked = tab.blocked
      BY <1>1 DEF TabParts
    <3>2. tab' = Rendered(tab, new, cache)
      BY <2>3 DEF ToggleCustomize, Render
    <3> HIDE DEF new
    <3> QED BY <2>1, <3>1, <3>2
  <2>4. CASE ConfirmChange
    <3> DEFINE new == [tab EXCEPT !.confirm = "none", !.picking = TRUE]
    <3>1. /\ DOMAIN new = TabParts /\ new.frame = tab.frame /\ new.mode = tab.mode
          /\ new.blocked = tab.blocked
      BY <1>1 DEF TabParts
    <3>2. tab' = Rendered(tab, new, cache)
      BY <2>4 DEF ConfirmChange, Render
    <3> HIDE DEF new
    <3> QED BY <2>1, <3>1, <3>2
  <2> QED BY <2>2, <2>3, <2>4
<1>3. GameAndSet' = GameAndSet /\ \A t : Believed(t)' <=> Believed(t)
  BY <1>1, <1>2 DEF GameAndSet, Believed
<1>4. ASSUME ~lost'
      PROVE  \E a, b : Leads(up', GameAndSet', a) /\ Leads(pending', a, b) /\ Believed(b)'
  BY <1>1, <1>3, <1>4 DEF Tracked
<1> QED BY <1>4, TrackedNext

(* A tap that sends: the message comes last, after what it was built on.     *)
LEMMA TapTracked ==
  ASSUME StateInv, Tracked,
         \/ \E g \in Game : Pick(g)
         \/ TapPrimary \/ ConfirmEnd \/ Edit
  PROVE  Tracked'
<1>1. /\ UNCHANGED <<room, link, down, session>> /\ tab'.mode = tab.mode /\ lost' = lost
      /\ WireInv /\ LiveInv /\ IsList(up) /\ IsList(pending)
  BY Tapping DEF StateInv, WireInv
<1>2. PICK m : /\ Send(m) /\ MessageGood(m) /\ m.type \in HostActions
               /\ \/ /\ m.type = "selectGame" /\ picked' = m.game /\ CanTap
                     /\ saved' = IF m.game = picked THEN saved ELSE Unknown
                  \/ /\ m.type = "startGame" /\ m.tag = saved /\ CanTap
                     /\ UNCHANGED <<picked, saved>>
                  \/ /\ m.type \in {"advance", "endGame"}
                     /\ UNCHANGED <<picked, saved>>
                  \/ /\ m.type = "configureGame" /\ picked' = picked /\ CanTap
                     /\ tab.editor \in Game
                     /\ saved' = IF tab.editor = picked
                                 THEN [game |-> tab.editor, list |-> m.list] ELSE Unknown
  BY Tapping
<1>3. GameAndSet' = GameAndSet
  BY <1>1 DEF GameAndSet
<1>4. ASSUME NEW t, Believed(t)
      PROVE  Meant(t, m) /\ Believed(After(t, m))'
  <2>1. CanTap => /\ picked # NoGame => t[1] = picked
                  /\ saved # Unknown => t = <<saved.game, saved.list>>
    BY <1>4 DEF Believed, CanTap
  <2>2. CASE m.type = "selectGame"
    <3>1. m.game \in Game /\ m.game # NoGame
      BY <1>2, <2>2, HostBoardAssumption DEF MessageGood
    <3>2. After(t, m) = <<m.game, IF m.game = t[1] THEN t[2] ELSE Unset>> /\ Meant(t, m)
      BY <2>2 DEF After, Meant
    <3>3. CanTap /\ picked' = m.game /\ (saved' = IF m.game = picked THEN saved ELSE Unknown)
      BY <1>2, <2>2
    <3>4. ASSUME saved' # Unknown PROVE After(t, m) = <<saved'.game, saved'.list>>
      <4>1. m.game = picked /\ saved' = saved
        BY <3>3, <3>4
      <4>2. t[1] = m.game /\ t = <<saved.game, saved.list>>
        BY <2>1, <3>1, <3>3, <3>4, <4>1
      <4>3. t = <<t[1], t[2]>>
        BY <4>2
      <4> QED BY <3>2, <4>1, <4>2, <4>3
    <3>5. After(t, m)[1] = picked'
      BY <3>2, <3>3
    <3>6. Believed(After(t, m))'
      BY <3>4, <3>5 DEF Believed, After
    <3> QED BY <3>2, <3>6
  <2>3. CASE m.type = "startGame"
    <3>1. After(t, m) = t /\ UNCHANGED <<picked, saved>> /\ m.tag = saved /\ CanTap
      BY <1>2, <2>3 DEF After
    <3>2. Meant(t, m)
      BY <2>1, <3>1 DEF Meant
    <3>3. Believed(After(t, m))'
      BY <2>1, <3>1 DEF Believed, After
    <3> QED BY <3>2, <3>3
  <2>4. CASE m.type \in {"advance", "endGame"}
    <3>1. After(t, m) = t /\ UNCHANGED <<picked, saved>> /\ Meant(t, m)
      BY <1>2, <2>4 DEF After, Meant
    <3>2. Believed(After(t, m))'
      BY <1>1, <1>4, <3>1 DEF Believed, After
    <3> QED BY <3>1, <3>2
  <2>5. CASE m.type = "configureGame"
    <3>1. After(t, m) = <<t[1], m.list>> /\ Meant(t, m)
      BY <2>5 DEF After, Meant
    <3>2. /\ CanTap /\ picked' = picked /\ tab.editor \in Game /\ tab.editor # NoGame
          /\ saved' = IF tab.editor = picked THEN [game |-> tab.editor, list |-> m.list] ELSE Unknown
      BY <1>2, <2>5, HostBoardAssumption
    <3>3. ASSUME saved' # Unknown PROVE After(t, m) = <<saved'.game, saved'.list>>
      <4>1. tab.editor = picked /\ saved'.game = tab.editor /\ saved'.list = m.list
        BY <3>2, <3>3
      <4>2. t[1] = tab.editor
        BY <2>1, <3>2, <4>1
      <4> QED BY <3>1, <4>1, <4>2
    <3>4. picked' # NoGame => After(t, m)[1] = picked'
      BY <2>1, <3>1, <3>2
    <3>5. Believed(After(t, m))'
      BY <3>3, <3>4 DEF Believed, After
    <3> QED BY <3>1, <3>5
  <2> QED BY <1>2, <2>2, <2>3, <2>4, <2>5
<1>5. ASSUME ~lost'
      PROVE  \E a, b : Leads(up', GameAndSet', a) /\ Leads(pending', a, b) /\ Believed(b)'
  <2>1. PICK s, t : Leads(up, GameAndSet, s) /\ Leads(pending, s, t) /\ Believed(t)
    BY <1>1, <1>5 DEF Tracked
  <2>2. Meant(t, m)
    BY <1>4, <2>1
  <2>3. CASE link = "live"
    <3>1. up' = Append(up, m) /\ pending' = <<>> /\ pending = <<>>
      BY <1>1, <1>2, <2>3 DEF Send, LiveInv
    <3>2. t = s
      BY <2>1, <3>1, LeadsNowhere
    <3>3. Leads(up', GameAndSet, After(t, m))
      BY <1>1, <2>1, <2>2, <3>1, <3>2, LeadsOn
    <3>4. Leads(pending', After(t, m), After(t, m))
      BY <3>1, LeadsNowhere
    <3> QED BY <1>3, <1>4, <2>1, <3>3, <3>4
  <2>4. CASE link # "live"
    <3>1. up' = up /\ pending' = Append(pending, m)
      BY <1>2, <2>4 DEF Send
    <3>2. Leads(pending', s, After(t, m))
      BY <1>1, <2>1, <2>2, <3>1, LeadsOn
    <3> QED BY <1>3, <1>4, <2>1, <3>1, <3>2
  <2> QED BY <2>3, <2>4
<1> QED BY <1>5, TrackedNext

-----------------------------------------------------------------------------
LEMMA InitBoard ==
  ASSUME Init
  PROVE  BoardInv
<1>1. Leads(up, GameAndSet, GameAndSet) /\ Leads(pending, GameAndSet, GameAndSet)
  BY LeadsNowhere DEF Init
<1>2. Believed(GameAndSet)
  BY LandingFacts DEF Init, Believed
<1>3. Tracked
  BY <1>1, <1>2 DEF Tracked
<1>4. AskedAsSaved
  BY DEF Init, AskedAsSaved
<1> QED BY <1>3, <1>4, InitState DEF BoardInv

LEMMA NextBoard ==
  ASSUME BoardInv, [Next]_vars
  PROVE  BoardInv'
<1>1. StateInv /\ Tracked /\ AskedAsSaved /\ StateInv'
  BY NextState DEF BoardInv
<1>2. CASE HostStep
  <2>1. \/ HostARoom \/ ConfirmLeave \/ ToLanding \/ Reload
        \/ ToggleCustomize \/ ConfirmChange \/ Cancel
        \/ \E what \in {"change", "end", "leave"} : Ask(what)
        \/ \E g \in Game : Pick(g)
        \/ TapPrimary \/ ConfirmEnd \/ Edit
    BY <1>2 DEF HostStep
  <2>2. Tracked'
    BY <1>1, <2>1, LeavesTracked, TabTapTracked, TapTracked
  <2>3. room' = room /\ (~lost' => ~lost)
    <3>1. CASE HostARoom \/ ConfirmLeave \/ ToLanding
      BY <3>1 DEF HostARoom, ConfirmLeave, ToLanding, ghostVars
    <3>2. CASE Reload
      <4>1. room' = room /\ (lost' = (lost \/ pending # <<>>) \/ \E n : lost' = (lost \/ n < Len(up)))
        BY <3>2 DEF Reload
      <4> QED BY <4>1
    <3>3. CASE ToggleCustomize \/ ConfirmChange \/ Cancel \/ \E what \in {"change", "end", "leave"} : Ask(what)
      BY <3>3 DEF ToggleCustomize, ConfirmChange, Cancel, Ask, Tapped, ghostVars
    <3>4. CASE (\E g \in Game : Pick(g)) \/ TapPrimary \/ ConfirmEnd \/ Edit
      <4>1. lost' = lost /\ room' = room
        BY <1>1, <3>4, Tapping
      <4> QED BY <4>1
    <3> QED BY <2>1, <3>1, <3>2, <3>3, <3>4
  <2>4. AskedAsSaved'
    BY <1>1, <2>3 DEF AskedAsSaved
  <2> QED BY <1>1, <2>2, <2>4 DEF BoardInv
<1>3. CASE LinkOpens \/ Drop \/ BoardReceives
  <2>1. Tracked'
    BY <1>1, <1>3, OpensTracked, DropTracked, ReceivesTracked
  <2>2. room' = room /\ (~lost' => ~lost)
    <3>1. CASE Drop
      <4>1. room' = room /\ \E n : lost' = (lost \/ n < Len(up))
        BY <3>1 DEF Drop
      <4> QED BY <4>1
    <3>2. CASE LinkOpens
      BY <3>2 DEF LinkOpens, ghostVars
    <3>3. CASE BoardReceives
      BY <3>3 DEF BoardReceives, ghostVars
    <3> QED BY <1>3, <3>1, <3>2, <3>3
  <2>3. AskedAsSaved'
    BY <1>1, <2>2 DEF AskedAsSaved
  <2> QED BY <1>1, <2>1, <2>3 DEF BoardInv
<1>4. CASE ServerReceives
  BY <1>1, <1>4, ServerTracked DEF BoardInv
<1>5. CASE GraceFires
  <2>1. /\ UNCHANGED <<up, pending, tab, picked, saved, lost>>
        /\ room' = [room EXCEPT !.state = "closed"] /\ DOMAIN room = RoomParts
    BY <1>1, <1>5 DEF GraceFires, linkVars, ghostVars, StateInv, RoomInv, RoomGood
  <2>2. SameGame
    BY <2>1 DEF SameGame, RoomParts
  <2>3. GameAndSet' = GameAndSet /\ AskedAsSaved'
    BY <1>1, <2>1, <2>2, SameGameFacts
  <2>4. ASSUME ~lost'
        PROVE  \E a, b : Leads(up', GameAndSet', a) /\ Leads(pending', a, b) /\ Believed(b)'
    <3>1. PICK s, t : Leads(up, GameAndSet, s) /\ Leads(pending, s, t) /\ Believed(t)
      BY <1>1, <2>1, <2>4 DEF Tracked
    <3>2. Believed(t)'
      BY <2>1, <3>1 DEF Believed
    <3> QED BY <2>1, <2>3, <3>1, <3>2
  <2>5. Tracked'
    BY <2>4, TrackedNext
  <2> QED BY <1>1, <2>3, <2>5 DEF BoardInv
<1>6. CASE UNCHANGED vars
  <2>1. UNCHANGED <<room, up, pending, tab, picked, saved, lost>>
    BY <1>6 DEF vars
  <2>2. GameAndSet' = GameAndSet /\ AskedAsSaved' /\ \A t : Believed(t)' <=> Believed(t)
    BY <1>1, <2>1 DEF GameAndSet, AskedAsSaved, Believed
  <2>3. ~lost' => \E a, b : Leads(up', GameAndSet', a) /\ Leads(pending', a, b) /\ Believed(b)'
    BY <1>1, <2>1, <2>2 DEF Tracked
  <2>4. Tracked'
    BY <2>3, TrackedNext
  <2> QED BY <1>1, <2>2, <2>4 DEF BoardInv
<1> QED BY <1>2, <1>3, <1>4, <1>5, <1>6 DEF Next

(* A round asks the question that the host's own set has at that place,      *)
(* however many picks, edits, drops and reloads there are, unless a pick or  *)
(* a list was lost on the way or refused: what is queued, and then flushed,  *)
(* ends where the board believes the room to be (socket.ts:219-232;          *)
(* room.ts:133-211; promptConfig.ts:72-79).                                  *)
THEOREM BoardAskedAsSaved == Spec => []AskedAsSaved
<1>1. Init => BoardInv
  BY InitBoard
<1>2. BoardInv /\ [Next]_vars => BoardInv'
  BY NextBoard
<1>3. BoardInv => AskedAsSaved
  BY DEF BoardInv
<1> QED BY <1>1, <1>2, <1>3, PTL DEF Spec
=============================================================================
