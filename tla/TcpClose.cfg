SPECIFICATION TcpSpec
CONSTANTS
  Conn = {"c1", "c2"}
  MaxBytes <- OneTalks
  MaxTcpFaults = 1
INVARIANT
  CloseDrains
CHECK_DEADLOCK FALSE
