SPECIFICATION ShutdownSpec
CONSTANTS
  Http = {"h1"}
  WsSession = {"w1"}
  Grpc = {"g1"}
  Tcp = {"t1", "t2"}
  Stream = {"s1"}
INVARIANT
  RequestsAreDrained
CHECK_DEADLOCK FALSE
