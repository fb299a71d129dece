SPECIFICATION Spec
SYMMETRY PlayerSymmetry
CHECK_DEADLOCK FALSE
CONSTANTS
  Player = {ann, bob, cy, dee}
  Host = Host
  MinPlayers = 3
INVARIANTS
  BallotSecret
  ScreensInStep
PROPERTIES
  ImplementsGame
