SPECIFICATION Spec
CONSTANTS
  speed_factors <- Factors
  INT_MAX <- MaxInt
  OverflowOutcomes <- Wrapped
  MAX_REQUEST_SECTOR_NUM = 128
INVARIANTS
  SameUpToLimit
  EverySizeServed
