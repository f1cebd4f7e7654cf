CONSTANTS
  Commanders = {1, 2}
  Tactical = 4
  Travelling = {1, 5}
  PhaseTimes = {1, 3}
  Methods <- MCMethods
  Delays = {1, 3}
  MaxBattles = 3
SPECIFICATION Spec
CHECK_DEADLOCK FALSE
INVARIANTS
  AlwaysRestorable
