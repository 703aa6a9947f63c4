SPECIFICATION Spec
CONSTANTS
  t1 = t1
  t2 = t2
  NoThread = NoThread
  Threads <- TwoThreads
  Calls <- ThreadCalls
  CallsInEncoder <- AnythingInside
  Slots = 2
  Threshold = 2
  EncoderLimits = {1}
  MaxDepth = 1
  MaxCalls = 4
INVARIANTS SlotsConserved SyncComplete CounterBelowThreshold
PROPERTIES CallsReturn
CHECK_DEADLOCK FALSE
