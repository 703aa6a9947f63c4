SPECIFICATION Spec
CONSTANTS
  t1 = t1
  t2 = t2
  NoThread = NoThread
  Threads <- OneThread
  Calls <- ScopeCalls
  CallsInEncoder <- NoBatchInside
  Slots = 2
  Threshold = 2
  EncoderLimits = {1, 2}
  MaxDepth = 2
  MaxCalls = 6
INVARIANTS EncodersLegal
CHECK_DEADLOCK FALSE
