SPECIFICATION Spec
CONSTANTS
  Proc = {p1, p2}
  Main = main
  None = None
  Hash = {"c1", "h1"}
  Name = {"n1", "n2"}
  Settings <- MCSettings
  Changes <- MCChanges
  ConfigTokens <- MCOneToken
  MaxId = 2
  MaxCommits = 2
  MaxFaults = 1
INVARIANTS
  CacheIsOneVersion
  NoRegressPastFloor
  AdmittedWasValid
PROPERTIES
  DeletedIdStaysDeleted
  RevokedStaysOut
  CacheConverges
