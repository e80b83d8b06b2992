SPECIFICATION Spec
CONSTANTS
  MaxPush = 3
  ChanCap = 2
  BatchSize = 2
  MaxFaults = 0
INVARIANT
  CloseFlushes
CHECK_DEADLOCK FALSE
