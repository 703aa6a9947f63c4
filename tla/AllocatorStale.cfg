SPECIFICATION MemorySpec
CONSTANTS
  Subjects = {"allocator"}
  Modes = {shared}
  Page = 1
  SmallLimit = 0
  MediumLimit = 0
  SmallHeap = 1
  MediumHeap = 1
  LargeHeap = 1
  Classes = {1}
  MaxAllocs = 5
  MaxEmpties = 2
  MaxRefusals = 1
  Requests = {1}
  MinAlloc = 1
  StandardSizes = {1}
  ModelSizes <- OneModel
  Budget = 1
  MaxAcquires = 0
  NumLayers = 1
  MaxSeqLen = 1
  NewSizes = {1}
  Chunks = {1}
  MaxTokens = 1
INVARIANT LiveDisjoint
CHECK_DEADLOCK FALSE
