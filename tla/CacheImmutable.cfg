SPECIFICATION Spec
CONSTANTS
  Endpoint = {"a1", "a2", "x1", "x2"}
  Pool <- MCPool
  PruningWindow = 1
  Req = {r1}
  Request <- MCRequests
  InitialHeld <- MCHeld
  Unparsable = {"x2"}
  MaxHeight = 3
  MaxNodeSteps = 0
INVARIANT
  CachedIsImmutable
