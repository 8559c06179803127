SPECIFICATION FairSpec
CONSTANTS
  CPUs = {c0, c1}
  CounterSpace = 2
  MaxBegun = 4
  FirstId = 123
  IdSpace = 126
  Reorder = FALSE
  MaxCalls = 3
  MaxSessions = 2
  MaxLosses = 1
  MaxEarly = 0
CHECK_DEADLOCK FALSE
PROPERTIES
  IsConversation
  EveryoneGoesOn
