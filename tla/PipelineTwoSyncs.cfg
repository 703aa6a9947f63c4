SPECIFICATION Spec
CONSTANTS
  t1 = t1
  t2 = t2
  NoThread = NoThread
  Threads <- TwoThreads
  Calls <- TwoSyncs
  CallsInEncoder <- AnythingInside
  Slots = 2
  Threshold = 2
  EncoderLimits = {1}
  MaxDepth = 0
  MaxCalls = 4
INVARIANTS SyncNotStuck
CHECK_DEADLOCK FALSE
