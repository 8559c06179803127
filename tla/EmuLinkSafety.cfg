SPECIFICATION Spec
CONSTANTS
  FirstId = 123
  IdSpace = 128
  Reorder = FALSE
  MaxCalls = 5
  MaxSessions = 3
  MaxLosses = 3
  MaxEarly = 3
CHECK_DEADLOCK FALSE
INVARIANTS
  TypeOK
  InOrderOnce
  RightAnswer
  NeverHung
  LeakBounded
PROPERTIES
  IsRPC
