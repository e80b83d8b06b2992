SPECIFICATION ServersSpec
CONSTANTS
  Call = {"c1"}
  MaxMsgs = 2
  MaxFaults = 2
  MaxLost = 1
  Conn = {"c1", "c2"}
  MaxBytes <- OneTalks
  MaxTcpFaults = 1
  Http = {"h1"}
  WsSession = {"w1"}
  Grpc = {"g1"}
  Tcp = {"t1"}
  Stream = {"s1"}
INVARIANTS
  OutcomeIsTrue
  LosesNothing
  AllForwarded
  CloseDrainsServed
  PushesAreInTime
PROPERTIES
  CallsEnd
  SessionEnds
  CloseReturns
  ShutdownEnds
CHECK_DEADLOCK FALSE
