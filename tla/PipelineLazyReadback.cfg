SPECIFICATION Spec
CONSTANTS
  t1 = t1
  t2 = t2
  NoThread = NoThread
  Threads <- OneThread
  Calls <- LazyReadback
  CallsInEncoder <- AnythingInside
  Slots = 2
  Threshold = 64
  EncoderLimits = {1}
  MaxDepth = 0
  MaxCalls = 4
INVARIANTS ReadbackSeesWork
CHECK_DEADLOCK FALSE
