SPECIFICATION WorkerSpec
CONSTANTS
  Submitters = {s1}
  Drainers = {d1, d2}
  MaxTasks = 2
  MaxStops = 0
PROPERTY DrainReturns
CHECK_DEADLOCK FALSE
