SPECIFICATION DispatchSpec
CONSTANTS
  Subjects = {"controller", "worker", "pipeline"}
  Callers = {c1, c2, c3}
  Releasers = {r1, r2}
  MaxInFlight = 2
  Submitters = {s1, s2}
  Drainers = {d1}
  MaxTasks = 3
  MaxStops = 2
  t1 = t1
  t2 = t2
  NoThread = NoThread
  Threads <- OneThread
  Calls <- ScopeCalls
  CallsInEncoder <- NoBatchInside
  Slots = 2
  Threshold = 2
  EncoderLimits = {1, 2}
  MaxDepth = 2
  MaxCalls = 6
INVARIANTS NoLostWakeup FifoExactlyOnce StopDrains OuterScopeKeepsEncoder ScopesRestore WorkSubmitted
PROPERTIES ImplementsSemaphore DrainPopsAll StopReturns DrainReturns AcceptedRuns
CHECK_DEADLOCK FALSE
