SPECIFICATION TallySpec
CONSTANTS
  GameId = {g1}
  Nick = {ann, bob}
  Config = {c1}
  Unset = Unset
  NoGame = NoGame
  MinPlayers <- MCMinPlayers
  MaxPlayers <- MCMaxPlayers
  RoundCount <- MCRoundCount
  MAX_PLAYERS = 3
  MaxId = 3
  MaxPoints = 1
  MaxPlays = 3
  g1 = g1
  c1 = c1
INVARIANTS
  FreshTally
