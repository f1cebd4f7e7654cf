CONSTANTS
  StrategicS = 4
  OperationalS = 2
  TacticalS = 1
  MaxTicks = 3
  MaxDuration = 9
  CheckpointInterval = 0
  MaxFaults = 0
  MaxRestores = 0
  MaxTampers = 0
SPECIFICATION Spec
CHECK_DEADLOCK FALSE
INVARIANT FramesShowEngagements
