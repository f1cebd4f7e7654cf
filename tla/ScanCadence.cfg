CONSTANTS
  Units = {1, 2}
  Attachments = {1, 2}
  UnitOf <- MCUnitOf
  GroupOf <- MCGroupOf
  PeriodOf <- MCPeriodOf
  NearbyPeriod = 2
  DistantPeriod = 3
  Hysteresis = 2
  MaxOrdinal = 4
SPECIFICATION Spec
CHECK_DEADLOCK FALSE
INVARIANTS
  Restorable
  NotStarved
  PromotionServed
PROPERTIES
  NoBurst
  ClaimsKept
