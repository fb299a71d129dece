SPECIFICATION Spec
CONSTANTS
  Tab = {t1, t2}
  MaxSock = 3
  MaxSeat = 2
  MaxAct = 1
  MaxStarts = 2
  MaxFaults = 1
INVARIANTS OneLiveSocket AppliedOnce
PROPERTIES KeepsItsSeat Settles
CHECK_DEADLOCK FALSE
