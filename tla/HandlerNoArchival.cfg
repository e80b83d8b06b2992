SPECIFICATION Spec
CONSTANTS
  Endpoint = {"a1", "a2"}
  Pool <- MCNoArchivalPool
  PruningWindow = 1
  Req = {r1}
  Request <- MCBlockRequest
  InitialHeld <- MCHeld
  Unparsable = {}
  MaxHeight = 3
  MaxNodeSteps = 0
INVARIANT
  PrunedOnlyIfExhausted
