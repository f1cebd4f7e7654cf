CONSTANTS
  Units = {1, 2, 3, 4}
  Initial <- MCInitial
  SideOf <- MCSideOf
  MinUnits = 2
  MaxEvents = 3
  MaxProxies = 2
  MaxFaults = 1
SPECIFICATION Spec
CHECK_DEADLOCK FALSE
INVARIANTS
  Restorable
PROPERTIES
  RoundTrip
  AllOrNothing
