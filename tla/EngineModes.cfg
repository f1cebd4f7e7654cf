CONSTANTS
  StrategicS = 4
  OperationalS = 2
  TacticalS = 1
  MaxTicks = 3
  MaxDuration = 6
  CheckpointInterval = 2
  MaxFaults = 1
  MaxRestores = 1
  MaxTampers = 1
SPECIFICATION Spec
CHECK_DEADLOCK FALSE
INVARIANTS
  IInv
  LedgerBalances
  ResultsAccount
  CheckpointsSound
  ResumedRunsAgree
PROPERTY NoOvershoot
