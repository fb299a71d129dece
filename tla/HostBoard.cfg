SPECIFICATION Spec
CONSTANTS
  g1 = g1
  g2 = g2
  Game = {g1, g2}
  NoGame = NoGame
  NoFrame = NoFrame
  Unset = Unset
  Unknown = Unknown
  NotText = NotText
  Builtin <- MCBuiltin
  Pack <- MCPack
  Steps <- MCSteps
  Draft <- MCDraft
  Units <- MCUnits
  White <- MCWhite
  Format <- MCFormat
  LowerCase <- MCLowerCase
  Space = " "
  UNITS_PER_CHAR = 2
  MAX_LEN = 2
  MAX_PROMPTS = 2
  MAX_SCAN = 3
  MaxQueue = 2
  MaxPicks = 2
  MaxEdits = 1
  MaxStarts = 2
  MaxDrops = 1
  MaxReloads = 1
INVARIANTS AskedAsSaved BlockedOnlyByEditor ControlsWork
PROPERTIES LeaveClosesRoom
CHECK_DEADLOCK FALSE
