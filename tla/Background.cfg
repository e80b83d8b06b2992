SPECIFICATION BackgroundSpec
CONSTANTS
  MaxPush = 3
  ChanCap = 2
  BatchSize = 2
  MaxFaults = 2
  Limit = 2
  Matching = {1, 3}
  Retention = TRUE
  Entry = {"e1", "e2"}
  Capacity = 2
  Stream = {"s1", "s2"}
  MaxPushes = 4
  Caller = {g1, g2}
  Url = {"u1", "u2"}
  Endpoints <- MCTwo
  Sample = {10, 30}
  MaxCalls = 3
  Backends <- MCBackends
  Total <- MCTotal
  Enabled = TRUE
  MaxHeight = 2
  MaxChanges = 2
INVARIANTS
  EntriesConserved
  NeverPanics
  FastestOnlyIfAllMeasured
  EwmaIsSerial
  CountMatchesSamples
  FastestIsLowest
  LogTellsStatus
PROPERTIES
  AcceptedDoesNotWait
  HasMoreIsExact
  OldRowsGo
  RecentSpec
  CallsEnd
  BackendsConverge
  HeadConverges
CHECK_DEADLOCK FALSE
