------------------------------ MODULE HeapManager ------------------------------
(***************************************************************************)
(* HeapManager (memory/heap_manager.mm): placement heaps cut into blocks   *)
(* by best fit, with a list of free regions for each.  Its only caller is  *)
(* MetalSmartAllocator, under whose mutex every operation is one step, so  *)
(* the operations are operators here: from the heaps and a request to the  *)
(* heaps that follow.                                                      *)
(*                                                                         *)
(* A block remembers its heap by its index, as the code does, and, which   *)
(* the code never looks at, by the object it really lies in.               *)
(***************************************************************************)
EXTENDS Lists

CONSTANTS Modes,                            \* StorageMode
          Page,                             \* kGPUPageSize
          SmallLimit, MediumLimit,          \* kSmallThreshold, kMediumThreshold
          SmallHeap, MediumHeap, LargeHeap  \* k...HeapSize

ASSUME HeapAssumption ==
  /\ Page \in Nat \ {0} /\ SmallLimit \in Nat /\ MediumLimit \in Nat
  /\ \A size \in {SmallHeap, MediumHeap, LargeHeap} : size \in Nat /\ size % Page = 0
  /\ SmallHeap >= SmallLimit /\ MediumHeap >= MediumLimit

align_to_page(size) == ((size + Page - 1) \div Page) * Page

heap_size_for_alloc(aligned) ==
  CASE aligned < SmallLimit -> SmallHeap
    [] aligned >= SmallLimit /\ aligned <= MediumLimit -> MediumHeap
    [] OTHER -> align_to_page(IF aligned > LargeHeap THEN aligned ELSE LargeHeap)

-------------------------------------------------------------------------------
(* A free region or a block is an interval of a heap.                      *)
Region == [offset : Nat, size : Nat]
HeapEntry == [heap : Nat \ {0}, capacity : Nat, mode : Modes,
              free_blocks : Seq(Region), alloc_count : Int]
HeapBlock == [heap : Nat \ {0}, heap_index : Nat \ {0}, offset : Nat, size : Nat]

Units(r) == r.offset .. r.offset + r.size - 1
After(r) == r.offset + r.size

\* The smallest region that fits, the first of them in the order of the lists: none, or
\* the indices of its heap and of the region.
find_best_fit(heaps, size, mode) ==
  LET regions == UNION {{<<h, i>> : i \in DOMAIN heaps[h].free_blocks} : h \in DOMAIN heaps}
      room(p) == heaps[p[1]].free_blocks[p[2]].size
      good == {p \in regions : heaps[p[1]].mode = mode /\ room(p) >= size}
  IN {p \in good : \A q \in good :
        \/ room(p) < room(q)
        \/ room(p) = room(q) /\ (p[1] < q[1] \/ (p[1] = q[1] /\ p[2] <= q[2]))}

create_heap(heaps, id, capacity, mode) ==
  Append(heaps, [heap |-> id, capacity |-> capacity, mode |-> mode,
                 free_blocks |-> <<[offset |-> 0, size |-> capacity]>>, alloc_count |-> 0])

\* A list in the order of the offsets (std::sort); equal ones, which only blocks of a
\* wrong heap bring about, stay in their order.
Sorted(free) ==
  LET ahead(i, k) == \/ free[i].offset < free[k].offset
                     \/ free[i].offset = free[k].offset /\ i < k
  IN [r \in DOMAIN free |->
        free[CHOOSE k \in DOMAIN free : Cardinality({i \in DOMAIN free : ahead(i, k)}) = r - 1]]

\* Where a region starts that does not touch the one before, and the last one up to which
\* each touches the next.
Starts(list) == {i \in DOMAIN list : i = 1 \/ After(list[i - 1]) # list[i].offset}
LastOf(list, i) ==
  CHOOSE j \in DOMAIN list : /\ i <= j /\ \A k \in i + 1 .. j : k \notin Starts(list)
                             /\ j = Len(list) \/ j + 1 \in Starts(list)
Merged(list) ==
  [r \in 1 .. Cardinality(Starts(list)) |->
     LET i == InOrder(Starts(list))[r]
     IN [offset |-> list[i].offset, size |-> After(list[LastOf(list, i)]) - list[i].offset]]

\* Mutant of coalesce: the list is merged in the order of the deallocations.
coalesceUnsorted(free) == IF Len(free) < 2 THEN free ELSE Merged(free)

\* Regions that touch become one; a list of one region is left as it is.
coalesce(free) == IF Len(free) < 2 THEN free ELSE Merged(Sorted(free))

\* allocate() up to the call of newBufferWithLength: the heaps without the region
\* and where that region is.  A heap is created when nothing fits.
Carve(heaps, id, size, mode) ==
  LET fit == find_best_fit(heaps, size, mode)
      hs == IF fit # {} THEN heaps
            ELSE create_heap(heaps, id, heap_size_for_alloc(size), mode)
      p == IF fit # {} THEN CHOOSE q \in fit : TRUE ELSE <<Len(hs), 1>>
      fb == hs[p[1]].free_blocks[p[2]]
  IN [heaps |-> [hs EXCEPT ![p[1]].free_blocks =
                   IF fb.size > size
                   THEN [@ EXCEPT ![p[2]] = [offset |-> fb.offset + size, size |-> fb.size - size]]
                   ELSE Selected(@, DOMAIN @ \ {p[2]})],
      block |-> [heap |-> hs[p[1]].heap, heap_index |-> p[1],
                 offset |-> fb.offset, size |-> size]]

\* deallocate() where the index is in range.  alloc_count is a size_t that is only
\* ever compared with 0: the negative numbers stand for those it wraps round to.
Freed(entry, block) ==
  [entry EXCEPT !.free_blocks = coalesce(Append(@, [offset |-> block.offset, size |-> block.size])),
                !.alloc_count = @ - 1]

release_empty_heaps(heaps) == Selected(heaps, {i \in DOMAIN heaps : heaps[i].alloc_count # 0})
===============================================================================
