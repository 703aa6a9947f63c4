----------------------------- MODULE ActivationPool -----------------------------
(***************************************************************************)
(* ActivationPool (memory/activation_pool.mm): Metal buffers kept for      *)
(* reuse under a byte budget.  Every public method holds the mutex from    *)
(* its first to its last access and is one step; configure_for_model()     *)
(* takes it twice, and goes through its pre-allocations one by one with    *)
(* everybody else shut out.                                                *)
(*                                                                         *)
(* Buffers are never removed, only emptied: an index names one for ever.   *)
(* Clients release what they hold; a handle kept beyond its release, or    *)
(* beyond release_all(), may be released again (ReleaseStale).             *)
(***************************************************************************)
EXTENDS Lists

CONSTANTS Requests,       \* sizes that acquire() is called with, and MinAlloc
          MinAlloc,       \* kMinAllocSize
          StandardSizes,  \* kSizeClasses
          ModelSizes,     \* the sizes of configure_for_model(), in its order
          Budget,         \* max_budget, 0 for none
          MaxAcquires     \* bound: calls of acquire() and of configure_for_model()

ModelSet == {ModelSizes[i] : i \in DOMAIN ModelSizes}
Sizes == Requests \cup StandardSizes \cup ModelSet

ASSUME PoolAssumption ==
  /\ IsFiniteSet(Requests) /\ IsFiniteSet(StandardSizes)
  /\ ModelSizes \in Seq(Nat) /\ Sizes \subseteq Nat /\ MinAlloc \in Requests
  /\ \A r \in Requests : r >= MinAlloc
  /\ Budget \in Nat /\ MaxAcquires \in Nat

VARIABLES
  buffers,          \* by index: size, in_use, and whether there still is a buffer
  pool_lists,       \* indices by size, the last released at the end
  size_classes,
  total_allocated, total_in_use,
  todo,             \* pre-allocations ahead of configure_for_model(), which holds mu;
                    \* two of each size, so an even length says the first is next
  configuring,      \* the classes are added, mu is free, and the pre-allocation is to come
  held,             \* history: handles not given back, <<index, number of the acquire()>>
  past,             \* history: handles given back
  misused,          \* history: a handle was released after its time
  acquires          \* calls counted against MaxAcquires

poolVars == <<buffers, pool_lists, total_allocated>>
cfgVars == <<size_classes, todo, configuring>>
handleVars == <<held, past, misused>>
allPoolVars == <<poolVars, total_in_use, cfgVars, handleVars, acquires>>

PooledBuffer == [size : Sizes, in_use : BOOLEAN, present : BOOLEAN]

PoolTypeOK ==
  /\ buffers \in Seq(PooledBuffer) /\ pool_lists \in [Sizes -> Seq(Nat \ {0})]
  /\ size_classes \subseteq Sizes /\ todo \in Seq(Sizes) /\ configuring \in BOOLEAN
  /\ held \subseteq (1 .. Len(buffers)) \X Nat /\ past \subseteq (1 .. Len(buffers)) \X Nat
  /\ misused \in BOOLEAN /\ acquires \in Nat
  /\ \A h \in held \cup past : h[2] <= acquires

PoolInit ==
  /\ buffers = <<>> /\ pool_lists = [s \in Sizes |-> <<>>]
  /\ size_classes = StandardSizes /\ todo = <<>> /\ configuring = FALSE
  /\ total_allocated = 0 /\ total_in_use = 0
  /\ held = {} /\ past = {} /\ misused = FALSE /\ acquires = 0

Free == todo = <<>>

-------------------------------------------------------------------------------
(* Choosing a size                                                             *)

\* More than a quarter of the buffer would be unused.
excessive_waste(requested, class) == 4 * (class - requested) > class

\* find_size_class(): the smallest class that is large enough.
ClassesFor(size) ==
  {c \in size_classes : c >= size /\ \A d \in size_classes : d >= size => c <= d}

\* The class, where there is one and it wastes little; else the size asked for, and
\* then no free list is looked at.
Pooled(size) == \E c \in ClassesFor(size) : ~excessive_waste(size, c)
AllocSize(size) == IF Pooled(size) THEN CHOOSE c \in ClassesFor(size) : TRUE ELSE size

-------------------------------------------------------------------------------
(* create_buffer() and purge_unused_internal()                                 *)

Unused(bufs) == {i \in DOMAIN bufs : ~bufs[i].in_use /\ bufs[i].present}

Pool == [buffers |-> buffers, pool_lists |-> pool_lists, total |-> total_allocated]

\* Mutants of Purge: the emptied buffers stay in the free lists; nothing is purged.
PurgeKeepsIndices(p) ==
  [buffers |-> [i \in DOMAIN p.buffers |->
                  [p.buffers[i] EXCEPT !.present = @ /\ p.buffers[i].in_use]],
   pool_lists |-> p.pool_lists,
   total |-> p.total - Bytes(p.buffers, Unused(p.buffers))]
PurgeNothing(p) == p

Purge(p) ==
  LET emptied == [i \in DOMAIN p.buffers |->
                    [p.buffers[i] EXCEPT !.present = @ /\ p.buffers[i].in_use]]
  IN [buffers |-> emptied,
      pool_lists |-> [s \in Sizes |-> Among(p.pool_lists[s], {i \in DOMAIN emptied : emptied[i].present})],
      total |-> p.total - Bytes(p.buffers, Unused(p.buffers))]

\* What create_buffer() finds before it allocates: purged when the budget asks for it.
Room(size) == IF Budget > 0 /\ total_allocated + size > Budget THEN Purge(Pool) ELSE Pool
Fits(size) == Budget > 0 => Room(size).total + size <= Budget

SetPool(p) == buffers' = p.buffers /\ pool_lists' = p.pool_lists /\ total_allocated' = p.total

Created(size, used) ==
  LET p == Room(size) IN
  [buffers |-> Append(p.buffers, [size |-> size, in_use |-> used, present |-> TRUE]),
   pool_lists |-> IF used THEN p.pool_lists
                  ELSE [p.pool_lists EXCEPT ![size] = Append(@, Len(p.buffers) + 1)],
   total |-> p.total + size]

-------------------------------------------------------------------------------
(* configure_for_model()                                                       *)

ConfigureClasses ==
  /\ Free /\ ~configuring /\ acquires < MaxAcquires
  /\ acquires' = acquires + 1
  /\ size_classes' = size_classes \cup ModelSet
  /\ configuring' = TRUE
  /\ UNCHANGED <<poolVars, total_in_use, todo, handleVars>>

\* Each size twice, "for double buffering".
ConfigureLock ==
  /\ Free /\ configuring
  /\ configuring' = FALSE
  /\ todo' = [i \in 1 .. 2 * Len(ModelSizes) |-> ModelSizes[(i + 1) \div 2]]
  /\ UNCHANGED <<poolVars, total_in_use, size_classes, handleVars, acquires>>

Preallocate ==
  /\ ~Free /\ Fits(Head(todo))
  /\ SetPool(Created(Head(todo), FALSE))
  /\ todo' = Tail(todo)
  /\ UNCHANGED <<total_in_use, size_classes, configuring, handleVars, acquires>>

\* No budget, or no buffer from the device: the size is given up, its second buffer too.
PreallocateFails ==
  /\ ~Free
  /\ SetPool(Room(Head(todo)))
  /\ todo' = SubSeq(todo, IF Len(todo) % 2 = 0 THEN 3 ELSE 2, Len(todo))
  /\ UNCHANGED <<total_in_use, size_classes, configuring, handleVars, acquires>>

-------------------------------------------------------------------------------
(* acquire()                                                                   *)

AskFor(size) == Free /\ size \in Requests /\ acquires < MaxAcquires

HandOver(i) == /\ held' = held \cup {<<i, acquires + 1>>}
              /\ total_in_use' = total_in_use + buffers'[i].size
              /\ acquires' = acquires + 1
              /\ UNCHANGED <<cfgVars, past, misused>>

\* Mutant of AcquirePooled: the first free buffer is handed out, the last is removed.
AcquireFirst(size) ==
  LET list == pool_lists[AllocSize(size)] IN
  /\ AskFor(size) /\ Pooled(size) /\ list # <<>>
  /\ buffers' = [buffers EXCEPT ![list[1]].in_use = TRUE]
  /\ pool_lists' = [pool_lists EXCEPT ![AllocSize(size)] = SubSeq(@, 1, Len(@) - 1)]
  /\ HandOver(list[1])
  /\ UNCHANGED total_allocated

AcquirePooled(size) ==
  LET list == pool_lists[AllocSize(size)] IN
  /\ AskFor(size) /\ Pooled(size) /\ list # <<>>
  /\ buffers' = [buffers EXCEPT ![list[Len(list)]].in_use = TRUE]
  /\ pool_lists' = [pool_lists EXCEPT ![AllocSize(size)] = SubSeq(@, 1, Len(@) - 1)]
  /\ HandOver(list[Len(list)])
  /\ UNCHANGED total_allocated

Miss(size) == AskFor(size) /\ ~(Pooled(size) /\ pool_lists[AllocSize(size)] # <<>>)

AcquireNew(size) ==
  /\ Miss(size) /\ Fits(AllocSize(size))
  /\ SetPool(Created(AllocSize(size), TRUE))
  /\ HandOver(Len(buffers) + 1)

\* An exception leaves the pool as it is, purged if the budget had asked for it.
Throws(size) ==
  /\ SetPool(Room(AllocSize(size)))
  /\ acquires' = acquires + 1
  /\ UNCHANGED <<total_in_use, cfgVars, handleVars>>

\* "budget exceeded"
AcquireRefused(size) == Miss(size) /\ ~Fits(AllocSize(size)) /\ Throws(size)

\* The device has no buffer.
AcquireFails(size) == Miss(size) /\ Fits(AllocSize(size)) /\ Throws(size)

-------------------------------------------------------------------------------
(* release(), release_all(), purge_unused()                                    *)

GiveBack(i) ==
  /\ buffers[i].in_use
  /\ buffers' = [buffers EXCEPT ![i].in_use = FALSE]
  /\ pool_lists' = [pool_lists EXCEPT ![buffers[i].size] = Append(@, i)]
  /\ total_in_use' = total_in_use - buffers[i].size
  /\ UNCHANGED <<total_allocated, cfgVars, acquires>>

Release(h) ==
  /\ Free /\ h \in held
  /\ GiveBack(h[1])
  /\ held' = held \ {h} /\ past' = past \cup {h}
  /\ UNCHANGED misused

\* The pool only knows the index: the buffer may belong to a later acquire().
ReleaseStale(h) ==
  /\ Free /\ h \in past
  /\ GiveBack(h[1])
  /\ misused' = TRUE
  /\ UNCHANGED <<held, past>>

\* "Double release": the exception changes nothing, but the handle's time is over.
ReleaseThrows(h) ==
  /\ Free /\ h \in held
  /\ ~buffers[h[1]].in_use
  /\ held' = held \ {h} /\ past' = past \cup {h}
  /\ UNCHANGED <<poolVars, total_in_use, cfgVars, misused, acquires>>

InUse == {i \in DOMAIN buffers : buffers[i].in_use}

\* The indices of one size in the order of the buffers.
UsedOf(size) == InOrder({i \in InUse : buffers[i].size = size})

\* Mutant of ReleaseAll: the count of bytes in use is not reset.
ReleaseAllUncounted ==
  /\ Free /\ InUse # {}
  /\ buffers' = [i \in DOMAIN buffers |-> [buffers[i] EXCEPT !.in_use = FALSE]]
  /\ pool_lists' = [s \in Sizes |-> pool_lists[s] \o UsedOf(s)]
  /\ held' = {} /\ past' = past \cup held
  /\ UNCHANGED <<total_in_use, total_allocated, cfgVars, misused, acquires>>

ReleaseAll ==
  /\ Free /\ InUse # {}
  /\ buffers' = [i \in DOMAIN buffers |-> [buffers[i] EXCEPT !.in_use = FALSE]]
  /\ pool_lists' = [s \in Sizes |-> pool_lists[s] \o UsedOf(s)]
  /\ total_in_use' = 0
  /\ held' = {} /\ past' = past \cup held
  /\ UNCHANGED <<total_allocated, cfgVars, misused, acquires>>

purge_unused == /\ Free /\ Unused(buffers) # {}
                /\ SetPool(Purge(Pool))
                /\ UNCHANGED <<total_in_use, cfgVars, handleVars, acquires>>

PoolNext ==
  \/ ConfigureClasses \/ ConfigureLock \/ Preallocate \/ PreallocateFails
  \/ \E size \in Requests : AcquirePooled(size) \/ AcquireNew(size)
                               \/ AcquireRefused(size) \/ AcquireFails(size)
  \/ \E h \in held : Release(h) \/ ReleaseThrows(h)
  \/ \E h \in past : ReleaseStale(h)
  \/ ReleaseAll \/ purge_unused

PoolSpec == PoolInit /\ [][PoolNext]_allPoolVars

-------------------------------------------------------------------------------
(* Properties                                                                  *)

\* The free lists hold every buffer that is there and not in use, once, in the
\* list of its size, and nothing else, whatever was purged in between: a buffer is
\* never lost to the pool and never handed out twice
\* (activation_pool.mm:155-168, 200-221, 346-350, 359-363).
FreeListsExact ==
  /\ \A s \in Sizes : \A j \in DOMAIN pool_lists[s] :
       /\ pool_lists[s][j] \in Unused(buffers)
       /\ buffers[pool_lists[s][j]].size = s
       /\ \A k \in DOMAIN pool_lists[s] : pool_lists[s][j] = pool_lists[s][k] => j = k
  /\ \A i \in Unused(buffers) : \E j \in DOMAIN pool_lists[buffers[i].size] :
       pool_lists[buffers[i].size][j] = i

\* As long as no handle is released after its time, the buffers in use are those of
\* the handles not given back, one each, and none of them has been purged
\* (activation_pool.mm:284-372).
HandlesExclusive ==
  ~misused =>
    /\ \A g, h \in held : g[1] = h[1] => g = h
    /\ \A i \in DOMAIN buffers : buffers[i].in_use <=> \E h \in held : h[1] = i
    /\ \A h \in held : buffers[h[1]].present

\* The byte counts are those of the buffers, and what is allocated stays within the
\* budget, if there is one (activation_pool.mm:173-184, 194, 220, 301, 322, 347, 371).
PoolStatsAgree ==
  /\ total_allocated = Bytes(buffers, {i \in DOMAIN buffers : buffers[i].present})
  /\ total_in_use = Bytes(buffers, InUse)
  /\ Budget > 0 => total_allocated <= Budget

\* acquire() refuses only what the buffers in use leave no room for: the purge has
\* given up every other one first (activation_pool.mm:173-184).
RefusedOnlyIfFull ==
  [][\A size \in Requests : AcquireRefused(size) => total_in_use + AllocSize(size) > Budget]_allPoolVars
===============================================================================
