CONSTANTS
  Missions = {1, 2}
  Guns = {1, 2}
  UnitOf <- MCUnitOf
  TargetOf <- MCTargetOf
  Cadence = 2
  Horizon = 8
  Plans <- MCPlans
  Magazine = 3
  Multiplier = 2
  Cooldown = 1
  Mishaps = {"battery_moving"}
  MaxChanges = 1
SPECIFICATION Spec
CHECK_DEADLOCK FALSE
INVARIANTS
  Restorable
  NeverOverbooked
  Announced
PROPERTIES
  KeepsSchedule
