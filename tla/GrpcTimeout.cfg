SPECIFICATION Spec
CONSTANTS
  Call = {"c1"}
  MaxMsgs = 1
  MaxFaults = 0
PROPERTY
  TimeoutNeverFires
CHECK_DEADLOCK FALSE
