------------------------------- MODULE MCMemory -------------------------------
(***************************************************************************)
(* The memory components on small instances: the allocator over its heaps, *)
(* the activation pool and the KV cache.  They share no state in the       *)
(* source, so a behaviour is one of them at work, chosen with the initial  *)
(* state, while the others are as they start.                              *)
(***************************************************************************)
EXTENDS SmartAllocator, ActivationPool, KVCache, TLC

CONSTANT Subjects     \* the components that are run

VARIABLE subject

MemoryInit ==
  /\ subject \in Subjects
  /\ AllocatorInit /\ PoolInit
  /\ Init /\ (subject # "kv_cache" => actual_max_seq_len = 1)

AllocatorRuns == subject = "allocator" /\ AllocatorNext /\ UNCHANGED <<allPoolVars, vars, subject>>
PoolRuns == subject = "pool" /\ PoolNext /\ UNCHANGED <<allocatorVars, vars, subject>>
KVCacheRuns == subject = "kv_cache" /\ Next /\ UNCHANGED <<allocatorVars, allPoolVars, subject>>

MemoryNext == AllocatorRuns \/ PoolRuns \/ KVCacheRuns

MemorySpec == MemoryInit /\ [][MemoryNext]_<<allocatorVars, allPoolVars, vars, subject>>

\* No action tells one storage mode from the other.
Interchangeable == Permutations(Modes)

\* Sizes 3 and 4 share the class 4; 5 and 6 waste too much of the class 8 until the
\* model adds a class of 6.
OneModel == <<6>>

\* Two failing resizes of three layers can leave three sizes; 4 is no shrinking.
Resizes == 0 .. 4
================================================================================
