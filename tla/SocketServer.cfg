SPECIFICATION Spec
CONSTANTS
  MaxSocket = 2
  Ip = {i1, i2}
  NoIp = NoIp
  MaxConnsPerIp = 1
  Burst = 1
  MaxDropped = 2
  MaxOpened = 2
  Chatty = {1}
INVARIANTS CountsExact WellSpared
PROPERTIES FloodsOnly Released
CHECK_DEADLOCK FALSE
