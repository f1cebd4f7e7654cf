CONSTANTS
  StrategicS = 4
  OperationalS = 2
  TacticalS = 1
  MaxTicks = 3
  MaxDuration = 4
  CheckpointInterval = 1
  MaxFaults = 0
  MaxRestores = 1
  MaxTampers = 0
SPECIFICATION Spec
CHECK_DEADLOCK FALSE
INVARIANT ResumedRunsAlwaysAgree
