CONSTANTS
  r1 = r1
  b1 = b1
  NoJob = NoJob
  Runs = {r1}
  Batches = {b1}
  MaxConcurrent = 1
  Units = 1
  MaxFaults = 1
  TaskCancels = TRUE
  MaxRestarts = 0
  LifespanCancels = FALSE
SPECIFICATION FairSpec
CHECK_DEADLOCK FALSE
PROPERTIES
  TasksEnd
  ShutdownCompletes
  DeletesAnswered
