SPECIFICATION SeatingSpec
CONSTANTS
  GameId = {two, three}
  Nick = {ann}
  Config = {c1}
  Unset = Unset
  NoGame = NoGame
  MinPlayers <- MCMinPlayers
  MaxPlayers <- MCMaxPlayers
  RoundCount <- MCRoundCount
  MAX_PLAYERS = 5
  MaxId = 6
  MaxPoints = 0
  MaxDeals = 4
  two = two
  three = three
  c1 = c1
PROPERTIES
  DealtInNextTime
