----------------------------- MODULE SmartAllocator -----------------------------
(***************************************************************************)
(* MetalSmartAllocator (memory/allocator.mm) over the heaps of             *)
(* HeapManager: free lists by size class and storage mode in front of the  *)
(* heaps.  Each public method holds the allocator's mutex throughout, so   *)
(* each is one step, the exceptions it may leave by included; but          *)
(* empty_cache() returns its blocks one by one, with everybody else shut   *)
(* out, since an exception may leave it after any of them.                 *)
(*                                                                         *)
(* release_empty_heaps() renumbers the heaps that follow one it drops.     *)
(* The variable stale remembers that a block handed out or cached before   *)
(* then may name another heap; the model goes on, as the program does.     *)
(***************************************************************************)
EXTENDS HeapManager

CONSTANTS Classes,        \* size classes that are asked for
          MaxAllocs,      \* bound: calls of allocate()
          MaxRefusals,    \* bound: buffers refused by Metal
          MaxEmpties      \* bound: calls of empty_cache()

ASSUME AllocatorAssumption ==
  /\ Classes \subseteq Nat \ {0} /\ IsFiniteSet(Classes) /\ IsFiniteSet(Modes)
  /\ MaxAllocs \in Nat /\ MaxRefusals \in Nat /\ MaxEmpties \in Nat

VARIABLES
  heaps,              \* heap_mgr.heaps
  heap_bytes,         \* heap_mgr.allocated_bytes
  total_heap_bytes,   \* heap_mgr.total_heap_bytes
  free_lists,         \* the cached blocks of each bucket, oldest first
  live_blocks,        \* by id: the allocation of a client and its block
  allocated_bytes, cached_bytes,
  next_id,
  emptying,           \* empty_cache() is under way
  returned,           \* by bucket: how many of its blocks it has returned
  heaps_made,         \* history: heaps created so far
  lost,               \* history: regions cut out for a buffer that Metal refused
  reclaimable,        \* history: where the regions begin that Metal may reclaim, until
                      \* they are back with their heaps
  stale,              \* history: a heap before that of a block has been dropped
  empties             \* calls counted against MaxEmpties

heapVars == <<heaps, heap_bytes, total_heap_bytes, heaps_made>>
bucketVars == <<free_lists, cached_bytes>>
clientVars == <<live_blocks, allocated_bytes, next_id>>
emptyVars == <<emptying, returned, stale, empties>>
allocatorVars == <<heapVars, bucketVars, clientVars, emptyVars, lost, reclaimable>>

Keys == Classes \X Modes
Allocation == [size : Classes, mode : Modes, aliasable : BOOLEAN, block : HeapBlock]

AllocatorTypeOK ==
  /\ heaps \in Seq(HeapEntry) /\ heaps_made \in Nat
  /\ heap_bytes \in Int /\ total_heap_bytes \in Nat
  /\ free_lists \in [Keys -> Seq(HeapBlock)]
  /\ next_id \in Nat \ {0} /\ DOMAIN live_blocks \in SUBSET (1 .. next_id - 1)
  /\ live_blocks \in [DOMAIN live_blocks -> Allocation]
  /\ allocated_bytes \in Nat /\ cached_bytes \in Nat
  /\ emptying \in BOOLEAN /\ returned \in [Keys -> Nat] /\ empties \in 0 .. MaxEmpties
  /\ \A k \in Keys : returned[k] <= IF emptying THEN Len(free_lists[k]) ELSE 0
  /\ lost \subseteq HeapBlock /\ stale \in BOOLEAN /\ reclaimable \subseteq Nat \X Nat

Nothing == [k \in Keys |-> 0]

AllocatorInit ==
  /\ heaps = <<>> /\ heaps_made = 0 /\ heap_bytes = 0 /\ total_heap_bytes = 0
  /\ free_lists = [k \in Keys |-> <<>>] /\ cached_bytes = 0
  /\ live_blocks = <<>> /\ allocated_bytes = 0 /\ next_id = 1
  /\ emptying = FALSE /\ returned = Nothing
  /\ lost = {} /\ reclaimable = {} /\ stale = FALSE /\ empties = 0

MutexFree == ~emptying

-------------------------------------------------------------------------------
(* allocate()                                                                  *)

Request(class) == MutexFree /\ next_id <= MaxAllocs /\ class \in Classes

HandOut(class, mode, block) ==
  /\ live_blocks' = [id \in DOMAIN live_blocks \cup {next_id} |->
                       IF id # next_id THEN live_blocks[id]
                       ELSE [size |-> class, mode |-> mode, aliasable |-> FALSE, block |-> block]]
  /\ allocated_bytes' = allocated_bytes + class
  /\ next_id' = next_id + 1

\* Mutant of AllocateCached: the block is handed out and stays in its bucket.
AllocateCachedKept(class, mode) ==
  LET bucket == free_lists[<<class, mode>>] IN
  /\ Request(class) /\ bucket # <<>>
  /\ HandOut(class, mode, bucket[Len(bucket)])
  /\ cached_bytes' = cached_bytes - class
  /\ UNCHANGED <<free_lists, heapVars, emptyVars, lost, reclaimable>>

AllocateCached(class, mode) ==
  LET bucket == free_lists[<<class, mode>>] IN
  /\ Request(class) /\ bucket # <<>>
  /\ HandOut(class, mode, bucket[Len(bucket)])
  /\ free_lists' = [free_lists EXCEPT ![<<class, mode>>] = SubSeq(bucket, 1, Len(bucket) - 1)]
  /\ cached_bytes' = cached_bytes - class
  /\ UNCHANGED <<heapVars, emptyVars, lost, reclaimable>>

\* What HeapManager::allocate does to the heaps before it asks Metal for a buffer.
CutRegion(class, mode) ==
  LET c == Carve(heaps, heaps_made + 1, align_to_page(class), mode)
      new == Len(c.heaps) - Len(heaps)
  IN [heaps |-> c.heaps, block |-> c.block, made |-> heaps_made + new,
      total |-> total_heap_bytes + (IF new = 0 THEN 0 ELSE c.heaps[Len(c.heaps)].capacity)]

AllocateFresh(class, mode) ==
  LET c == CutRegion(class, mode) IN
  /\ Request(class) /\ free_lists[<<class, mode>>] = <<>>
  /\ heaps' = [c.heaps EXCEPT ![c.block.heap_index].alloc_count = @ + 1]
  /\ heaps_made' = c.made /\ total_heap_bytes' = c.total
  /\ heap_bytes' = heap_bytes + c.block.size
  /\ HandOut(class, mode, c.block)
  /\ UNCHANGED <<bucketVars, emptyVars, lost, reclaimable>>

\* newBufferWithLength returns nil: the exception leaves the region cut out.
AllocateRefused(class, mode) ==
  LET c == CutRegion(class, mode) IN
  /\ Request(class) /\ free_lists[<<class, mode>>] = <<>>
  /\ Cardinality(lost) < MaxRefusals
  /\ heaps' = c.heaps /\ heaps_made' = c.made /\ total_heap_bytes' = c.total
  /\ lost' = lost \cup {c.block}
  /\ UNCHANGED <<bucketVars, clientVars, emptyVars, heap_bytes, reclaimable>>

-------------------------------------------------------------------------------
(* make_aliasable() and deallocate(), which keeps a block whose storage Metal  *)
(* may have reclaimed out of the cache.                                        *)

Start(block) == <<block.heap, block.offset>>

MakeAliasable(id) ==
  /\ MutexFree /\ ~live_blocks[id].aliasable
  /\ live_blocks' = [live_blocks EXCEPT ![id].aliasable = TRUE]
  /\ reclaimable' = reclaimable \cup {Start(live_blocks[id].block)}
  /\ UNCHANGED <<heapVars, bucketVars, emptyVars, allocated_bytes, next_id, lost>>

TakeBack(id) ==
  /\ MutexFree
  /\ live_blocks' = [i \in DOMAIN live_blocks \ {id} |-> live_blocks[i]]
  /\ allocated_bytes' = allocated_bytes - live_blocks[id].size

Cache(key, block) == free_lists' = [free_lists EXCEPT ![key] = Append(@, block)]

\* Mutants of Deallocate: the bytes are not counted as cached, the bucket's key
\* leaves out the storage mode.
DeallocateUncounted(id) ==
  LET a == live_blocks[id] IN
  /\ TakeBack(id) /\ ~a.aliasable
  /\ Cache(<<a.size, a.mode>>, a.block)
  /\ UNCHANGED <<cached_bytes, heapVars, emptyVars, next_id, lost, reclaimable>>

DeallocateAnyMode(id) ==
  LET a == live_blocks[id] IN
  /\ TakeBack(id) /\ ~a.aliasable
  /\ Cache(<<a.size, CHOOSE m \in Modes : TRUE>>, a.block)
  /\ cached_bytes' = cached_bytes + a.size
  /\ UNCHANGED <<heapVars, emptyVars, next_id, lost, reclaimable>>

Deallocate(id) ==
  LET a == live_blocks[id] IN
  /\ TakeBack(id) /\ ~a.aliasable
  /\ Cache(<<a.size, a.mode>>, a.block)
  /\ cached_bytes' = cached_bytes + a.size
  /\ UNCHANGED <<heapVars, emptyVars, next_id, lost, reclaimable>>

\* HeapManager::deallocate().
Return(block) ==
  /\ heaps' = [heaps EXCEPT ![block.heap_index] = Freed(@, block)]
  /\ heap_bytes' = heap_bytes - block.size

\* Mutant of DeallocateAliasable: every block goes into the cache.
DeallocateCached(id) ==
  LET a == live_blocks[id] IN
  /\ TakeBack(id) /\ a.aliasable
  /\ Cache(<<a.size, a.mode>>, a.block)
  /\ cached_bytes' = cached_bytes + a.size
  /\ UNCHANGED <<heapVars, emptyVars, next_id, lost, reclaimable>>

\* An index out of range throws after the allocator has forgotten the block.
DeallocateAliasable(id) ==
  LET a == live_blocks[id] IN
  /\ TakeBack(id) /\ a.aliasable
  /\ IF a.block.heap_index \in DOMAIN heaps THEN Return(a.block) ELSE UNCHANGED <<heaps, heap_bytes>>
  /\ reclaimable' = reclaimable \ {Start(a.block)}
  /\ UNCHANGED <<bucketVars, emptyVars, total_heap_bytes, heaps_made, next_id, lost>>

-------------------------------------------------------------------------------
(* empty_cache()                                                               *)

EmptyCache ==
  /\ MutexFree /\ empties < MaxEmpties
  /\ emptying' = TRUE /\ empties' = empties + 1
  /\ UNCHANGED <<heapVars, bucketVars, clientVars, returned, stale, lost, reclaimable>>

\* The buckets come in the order of a hash table, any order, each from its front.
Begun(k) == 0 < returned[k] /\ returned[k] < Len(free_lists[k])
NextOf(k) == /\ emptying /\ returned[k] < Len(free_lists[k])
             /\ \A l \in Keys : Begun(l) => l = k

\* The handle of a returned block is cleared, but not its index.
ReturnCached(k) ==
  LET i == returned[k] + 1 IN
  /\ NextOf(k) /\ free_lists[k][i].heap_index \in DOMAIN heaps
  /\ Return(free_lists[k][i])
  /\ free_lists' = [free_lists EXCEPT ![k][i].offset = 0, ![k][i].size = 0]
  /\ returned' = [returned EXCEPT ![k] = i]
  /\ UNCHANGED <<clientVars, cached_bytes, total_heap_bytes, heaps_made, emptying, stale, empties, lost, reclaimable>>

\* "invalid heap_index": the blocks returned so far stay in their buckets.
EmptyCacheThrows(k) ==
  /\ NextOf(k) /\ free_lists[k][returned[k] + 1].heap_index \notin DOMAIN heaps
  /\ emptying' = FALSE /\ returned' = Nothing
  /\ UNCHANGED <<heapVars, bucketVars, clientVars, stale, empties, lost, reclaimable>>

Capacity(hs) == Bytes([i \in DOMAIN hs |-> [size |-> hs[i].capacity]], DOMAIN hs)

\* A block that a heap dropped before its own leaves with a wrong index.
Renumbers(hs, blocks) ==
  \E b \in blocks : /\ b.heap_index \in DOMAIN hs /\ hs[b.heap_index].alloc_count # 0
                    /\ \E h \in 1 .. b.heap_index - 1 : hs[h].alloc_count = 0

Live == {live_blocks[id].block : id \in DOMAIN live_blocks}

\* Mutant of EmptyCacheDone: a bucket that has not been returned is dropped too.
EmptyCacheForgets ==
  /\ emptying
  /\ free_lists' = [k \in Keys |-> <<>>] /\ cached_bytes' = 0
  /\ heaps' = release_empty_heaps(heaps)
  /\ total_heap_bytes' = total_heap_bytes - (Capacity(heaps) - Capacity(heaps'))
  /\ stale' = (stale \/ Renumbers(heaps, Live))
  /\ emptying' = FALSE /\ returned' = Nothing
  /\ UNCHANGED <<clientVars, heap_bytes, heaps_made, empties, lost, reclaimable>>

EmptyCacheDone ==
  /\ emptying /\ \A k \in Keys : returned[k] = Len(free_lists[k])
  /\ free_lists' = [k \in Keys |-> <<>>] /\ cached_bytes' = 0
  /\ heaps' = release_empty_heaps(heaps)
  /\ total_heap_bytes' = total_heap_bytes - (Capacity(heaps) - Capacity(heaps'))
  /\ stale' = (stale \/ Renumbers(heaps, Live))
  /\ emptying' = FALSE /\ returned' = Nothing
  /\ UNCHANGED <<clientVars, heap_bytes, heaps_made, empties, lost, reclaimable>>

AllocatorNext ==
  \/ \E class \in Classes, mode \in Modes :
       AllocateCached(class, mode) \/ AllocateFresh(class, mode) \/ AllocateRefused(class, mode)
  \/ \E id \in DOMAIN live_blocks : MakeAliasable(id) \/ Deallocate(id) \/ DeallocateAliasable(id)
  \/ EmptyCache \/ EmptyCacheDone
  \/ \E k \in Keys : ReturnCached(k) \/ EmptyCacheThrows(k)

AllocatorSpec == AllocatorInit /\ [][AllocatorNext]_allocatorVars

-------------------------------------------------------------------------------
(* Properties                                                                  *)

\* The blocks that are not with their heaps, by who has them: allocations, places in the
\* buckets that have not been returned, and regions lost to an exception.
LiveNames == {"live"} \X DOMAIN live_blocks
CachedNames == UNION {{"cached"} \X ({k} \X (returned[k] + 1 .. Len(free_lists[k]))) : k \in Keys}
LostNames == {"lost"} \X lost
Counted == LiveNames \cup CachedNames
Blocks == [n \in Counted \cup LostNames |->
             CASE n[1] = "live" -> live_blocks[n[2]].block
               [] n[1] = "cached" -> free_lists[n[2][1]][n[2][2]]
               [] n[1] = "lost" -> n[2]]

\* Who has unit u of heap h: free regions and those blocks.
Holders(h, blocks, u) ==
  {<<"free", i>> : i \in {j \in DOMAIN h.free_blocks : u \in Units(h.free_blocks[j])}}
    \cup {n \in DOMAIN blocks : blocks[n].heap = h.heap /\ u \in Units(blocks[n])}

\* Every unit of every heap is in one free region, one cached block, one allocation
\* or one region lost to an exception: nothing is handed out twice and nothing
\* leaks, however blocks are cut, cached, reused and merged again
\* (heap_manager.mm:165-188, 219-243, 271-274; allocator.mm:131-141, 188-200).
HeapsPartitioned ==
  ~stale =>
    LET blocks == Blocks IN
    \A i \in DOMAIN heaps :
      \A u \in 0 .. heaps[i].capacity - 1 : Cardinality(Holders(heaps[i], blocks, u)) = 1

\* "Adjacent free blocks are coalesced": no two free regions of a heap touch, so a
\* request fails to fit only where no run of free units is long enough
\* (heap_manager.mm:165-188).
Coalesced ==
  ~stale => \A i \in DOMAIN heaps :
    LET f == heaps[i].free_blocks IN
    \A j, k \in DOMAIN f : f[j].size > 0 /\ After(f[j]) # f[k].offset

\* The statistics of the two layers agree with what they describe
\* (allocator.mm:139, 153, 182, 199; heap_manager.mm:158, 248, 277, 293).
InBuckets == UNION {{k} \X DOMAIN free_lists[k] : k \in Keys}
AllocatorStatsAgree ==
  /\ allocated_bytes = Bytes(live_blocks, DOMAIN live_blocks)
  /\ cached_bytes = Bytes([n \in InBuckets |-> [size |-> n[1][1]]], InBuckets)
  /\ total_heap_bytes = Capacity(heaps)
  /\ ~stale => heap_bytes = Bytes(Blocks, Counted)

\* No allocation is of another size class or lies in a heap of another storage mode than
\* was asked for, whichever bucket or heap it came from (allocator.mm:121-141, 185-200).
ServedAsAsked ==
  ~stale => \A id \in DOMAIN live_blocks :
    LET a == live_blocks[id] IN
    /\ a.block.size = align_to_page(a.size)
    /\ \A i \in DOMAIN heaps : heaps[i].heap = a.block.heap => heaps[i].mode = a.mode

\* "Metal may have reclaimed the storage": a region that was made aliasable is in no
\* bucket and with no client that did not make it so, until its heap has it back
\* (allocator.mm:185-200, 213-219).
Unreturned(k) == returned[k] + 1 .. Len(free_lists[k])
ReclaimableSetApart ==
  ~stale =>
    /\ \A id \in DOMAIN live_blocks :
         live_blocks[id].aliasable \/ Start(live_blocks[id].block) \notin reclaimable
    /\ \A k \in Keys : \A i \in Unreturned(k) : Start(free_lists[k][i]) \notin reclaimable

\* "Drain all free-list caches and release empty heaps": after empty_cache() each
\* heap that is left has a live allocation in it (allocator.mm:222-237).
OnlyUsedHeapsKept ==
  [][emptying /\ ~emptying' /\ ~stale' =>
       \A i \in DOMAIN heaps' : \E b \in Live : b.heap = heaps'[i].heap]_allocatorVars

\* Who holds what, without the index of the heap and the marks of the allocator.
HeldRegions ==
  [id \in DOMAIN live_blocks |->
     LET a == live_blocks[id]
     IN [asked |-> a.size, heap |-> a.block.heap, offset |-> a.block.offset, size |-> a.block.size]]
Promise == INSTANCE RegionAllocator
             WITH held <- HeldRegions, given <- 1 .. next_id - 1, trusted <- ~stale

\* The allocator implements its promise (RegionAllocator.tla): what it hands out overlaps
\* no live allocation and is large enough until a renumbering, and, then too, nobody's
\* region moves and no id returns, whatever cuts, caches, merges or throws meanwhile
\* (allocator.mm:111-237; heap_manager.mm:219-277).
ImplementsRegions == Promise!RegionSpec

\* No two live allocations share memory, whatever was emptied before.
LiveDisjoint ==
  \A a, b \in DOMAIN live_blocks :
    LET x == live_blocks[a].block
        y == live_blocks[b].block
    IN a # b /\ x.heap = y.heap => Units(x) \cap Units(y) = {}
===============================================================================
