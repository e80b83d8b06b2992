SPECIFICATION Limiting
CONSTANTS
  Token = {"t1", "t2"}
  Name = {"n1"}
  NameOf <- OneName
  Rate = {0, 20, 30}
  Proc = {p1, p2, p3}
  TickSeconds = 2
  MaxTime = 3
  MaxChanges = 1
  Client = {"r1", "r2"}
  Limit = 2
  Window = 5
  MaxDelay = 1
  MaxStamp = 6
  MaxCalls = 5
  MaxFaults = 1
SYMMETRY Symmetry
INVARIANTS
  AdmittedWithinRate
  RefusedOnlyAtLimit
  OvershootIsConcurrency
CHECK_DEADLOCK FALSE
