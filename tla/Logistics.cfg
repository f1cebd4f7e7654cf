CONSTANTS
  LastUnit = 2
  AtStart = {2}
  Places = {0, 1}
  Interval = 2
  Durations = {1, 3, 4}
  Initial = 2
  Maximum = 3
  IdleRate = 1
  Stock = 3
  Throughput = 1
  RoadCapacity = 1
  RoadWear = 1
  Full = 1
  MaxTime = 6
  MaxFaults = 1
SPECIFICATION Spec
CHECK_DEADLOCK FALSE
INVARIANTS
  Restorable
PROPERTIES
  BooksKept
