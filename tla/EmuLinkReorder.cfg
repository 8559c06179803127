SPECIFICATION Spec
CONSTANTS
  FirstId = 123
  IdSpace = 1000
  Reorder = TRUE
  MaxCalls = 3
  MaxSessions = 1
  MaxLosses = 0
  MaxEarly = 2
CHECK_DEADLOCK FALSE
PROPERTIES
  DuplicatesIgnored
