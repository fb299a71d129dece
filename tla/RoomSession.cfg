SPECIFICATION FairSessionSpec
CHECK_DEADLOCK FALSE
CONSTANTS
  GameId = {g1}
  Nick = {ann}
  Config = {}
  Unset = Unset
  NoGame = NoGame
  MinPlayers <- MCMinPlayers
  MaxPlayers <- MCMaxPlayers
  RoundCount <- MCRoundCount
  MAX_PLAYERS = 3
  MaxId = 4
  MaxPoints = 0
  Conn = {a, b, c, d}
  NoConn = NoConn
  Host = Host
  g1 = g1
  c1 = c1
  a = a
  b = b
  c = c
  d = d
PROPERTIES
  ImplementsSeats
  ClosedIsDropped
INVARIANTS
  SeatsInOneHand
  BoardInOneHand
  BoundIffMember
  FrameOnItsWay
  NothingLeft
