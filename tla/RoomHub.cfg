SPECIFICATION HubSpec
SYMMETRY HubSymmetry
CHECK_DEADLOCK FALSE
CONSTANTS
  Conn = {a, b, c}
  NoConn = NoConn
  Code = {k1, k2, k3}
  Address = {x}
  NoAddress = NoAddress
  address <- MCaddress
  MAX_PLAYERS = 2
  maxRooms = 3
  maxRoomsPerAddress = 2
  MaxSessions = 3
  x = x
  k1 = k1
  k2 = k2
  k3 = k3
  a = a
  b = b
  c = c
INVARIANTS
  OpenersCounted
  RoutedWhereAttached
  CodesLeadHome
  DroppedIsQuiet
