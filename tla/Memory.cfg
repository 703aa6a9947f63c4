SPECIFICATION MemorySpec
CONSTANTS
  Subjects = {"allocator", "pool", "kv_cache"}
  Modes = {shared, private}
  Page = 2
  SmallLimit = 4
  MediumLimit = 8
  SmallHeap = 6
  MediumHeap = 8
  LargeHeap = 12
  Classes = {1, 4}
  MaxAllocs = 3
  MaxEmpties = 2
  MaxRefusals = 1
  Requests = {3, 4, 5}
  MinAlloc = 3
  StandardSizes = {4, 8}
  ModelSizes <- OneModel
  Budget = 16
  MaxAcquires = 5
  NumLayers = 3
  MaxSeqLen = 3
  NewSizes <- Resizes
  Chunks = {1, 2}
  MaxTokens = 5
SYMMETRY Interchangeable
INVARIANTS HeapsPartitioned Coalesced AllocatorStatsAgree ServedAsAsked ReclaimableSetApart FreeListsExact HandlesExclusive PoolStatsAgree ReadsOwnTokens
PROPERTIES OnlyUsedHeapsKept ImplementsRegions RefusedOnlyIfFull RefusedAtFirstLayer CopiesStayInside
CHECK_DEADLOCK FALSE
