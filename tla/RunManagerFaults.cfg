CONSTANTS
  r1 = r1
  b1 = b1
  NoJob = NoJob
  Runs = {r1}
  Batches = {b1}
  MaxConcurrent = 1
  Units = 2
  MaxFaults = 1
  TaskCancels = TRUE
  MaxRestarts = 1
  LifespanCancels = TRUE
SPECIFICATION Spec
CHECK_DEADLOCK FALSE
INVARIANTS
  IInv
  WorkerOwned
  DbOutlivesJobs
  CancelHonoured
  RowOwned
  DeletedIsOver
PROPERTIES
  TerminalStable
  ClosingRefuses
  LifecycleStep
