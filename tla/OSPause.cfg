SPECIFICATION Spec
CONSTANTS
  CPUs = {c0, c1, c2}
  CounterSpace = 2
  MaxBegun = 5
CHECK_DEADLOCK FALSE
INVARIANTS
  TypeOK
  OthersHeld
  ParkedHoldsNothing
  FlagsAreTheCallers
  CallTakesNoTime
  NoCircularWait
