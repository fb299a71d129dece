SPECIFICATION Spec
SYMMETRY PlayerSymmetry
CHECK_DEADLOCK FALSE
CONSTANTS
  Player = {ann, bob, cy}
  Host = Host
  Text = {1, 2}
  MinPlayers = 2
  MaxGuesses = 2
INVARIANTS
  AuthorsHidden
  ProgressExact
  PhoneInStep
PROPERTIES
  ImplementsGame
