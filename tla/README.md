# metal-native: a verification project in TLA+

metal-native is a C++/Objective-C++ library, with Python bindings, that runs tensor
operations on Apple GPUs. The arithmetic happens in Metal kernels. What the CPU side
has to get right is coordination: threads that share one stream of command buffers,
a bounded number of them in flight, memory that is recycled while the GPU may still
use it, caches whose entries outlive what they describe, and a Python package whose
objects share memory with numpy and PyTorch, fail half-way and are used in any
order. This directory models that coordination in TLA+, checks it with TLC and
proves part of it with TLAPS.

Paths below are relative to the repository, which is mounted as `src/`: the
library's code is `src/src/...`, its headers `src/include/metal_native/...`.

## 1. Inventory

### Dispatch

| Component | State | Operations | What makes it correct |
|---|---|---|---|
| `BackpressureController` (`dispatch/backpressure.cpp`) | `in_flight_`, mutex, condition variable | `acquire`, `release`, two queries | never more than `max_in_flight_`; no wake-up lost although `release` notifies after unlocking |
| `CommandPipeline` (`dispatch/command_pipeline.mm`) | active buffer, its shared encoder, lazy mode, two operation counters, a `BackpressureController` | `current_buffer`, `commit_and_continue`, `commit`, `flush`, `record_op`, `synchronize`, `current_encoder`, `BatchScope`, `EncoderScope` | slots balance; `synchronize` outlasts earlier work; a scope keeps its encoder on the active buffer; scopes restore modes; gathered work is submitted |
| `WorkerThread` (`dispatch/worker_thread.cpp`) | queue, `running`, `stop_requested`, `drain_waiters`, two condition variables | `submit`, `drain`, `start`, `stop` | FIFO, once each; `stop` drains; nobody sleeps for ever |
| `EventManager` (`dispatch/sync.mm`) | next value, shared event | `next_value`, `encode_signal`, `encode_wait`, timed `cpu_wait` | values are unique and increasing; a wait returns on the signal or the timeout |
| `ICBRecorder` (`dispatch/icb_recorder.mm`) | one recording, an LRU of recorded command lists | `begin_recording`, `record_dispatch`, `end_recording`, `replay`, invalidation | a replay repeats exactly what was recorded; the cache keeps its size |

### Memory

| Component | State | Operations | What makes it correct |
|---|---|---|---|
| `HeapManager` (`memory/heap_manager.mm`) | heaps with free lists and allocation counts | `allocate` (best fit), `deallocate` (coalescing), `release_empty_heaps` | heaps are partitioned; free regions are merged |
| `MetalSmartAllocator` (`memory/allocator.mm`) | free lists by class and mode, live blocks, statistics | `allocate`, `deallocate`, `make_aliasable`, `empty_cache` | no block handed out twice; the cache serves what was asked and nothing Metal may have reclaimed; statistics exact |
| `MNBuffer` (`core/buffer.mm`) | ownership of one block or foreign memory | `allocate_pooled`, wrapping, destruction | a block returns once, and not before its last use |
| `ActivationPool` (`memory/activation_pool.mm`) | buffers by class, handles | `acquire`, `release`, `release_all`, purge | a handle names one buffer in use |
| `KVCache` (`memory/kv_cache.mm`) | one buffer pair per layer, a shared length | `append`, `get_key`, `get_value`, `resize`, `reset` | layers agree in length and capacity |
| `ActivationCache`, `QuantWeightCache` | LRU entries with a byte budget | insert, look-up, evict | budget kept; least recently used goes first |
| `BudgetController`, `MemoryPressure` | pressure level, budget, timer, callbacks | `request_budget`, `snapshot`, level changes | grants follow the level |

### Graphs, kernels, inference, interop

| Component | What it keeps and does | What makes it correct |
|---|---|---|
| `GraphCache`, `GraphSerializer` (`graph/`) | two levels: an LRU in memory and files, a timer that promotes entries | a look-up returns what was inserted last; levels agree |
| `LazyGraph`, `FusionPatterns` | a DAG of deferred operations, fusion, dead-code elimination | the rewritten graph computes the same |
| `ShapeBucketing` | padding of shapes to buckets | a bucket is large enough and minimal |
| `GraphBuilder` | calls into MPSGraph | thin |
| `KernelRegistry`, `KernelCache`, `JITFusion`, `KernelLaunch` (`kernels/`) | libraries and pipelines compiled once, asynchronously | one compilation per key; no stale pipeline after invalidation; no lock taken twice |
| `OpRegistry`, `MixedPrecision` (`ops/`) | tables under a mutex, nested precision | dispatch finds what was registered; scopes nest |
| `PhasePipeline`, speculative decoding (`inference/`, `ops/`) | two phases under two locks | no decision on a state that has passed |
| `Tensor`, `Shape`, `DLPack`, torch interop | views over buffers; export and import of ownership | strides in range; each deleter called once |
| GPU operations, shaders, profiling, future stubs | numeric or I/O code | not a matter for a model checker, but for how operations use the pipeline and which cells they read |

### The Python package (`python/metal_native`) and its examples

| Component | State | Operations | What makes it correct |
|---|---|---|---|
| namespace (`__init__.py`, `_metallib.py`) | the package's attributes, `sys.modules`, what `_initialize()` found | `__getattr__`, imports, `find_metallib` | a name that was resolved stays what it is |
| configuration (`config.py`) | dataclasses with a list, one global instance | `from_dict`, `from_json`, `from_yaml`, `from_env`, `to_dict`, `get_config`, `set_config` | a change is seen where the object is shared on purpose, and nowhere else |
| tensor exchange (`tensor.py`, `interop.py`, `accelerate_plugin.py`) | a native handle, cached shape and dtype | construction, `numpy`, `from_torch`, `to_torch`, `reshape`, `transpose`, `prepare_model` | copies hold what was copied; metadata is that of the native tensor |
| tensor arithmetic, `nn` | recycled buffers, commands the GPU has not run | operators, reductions, layers, `zeros`, `item` | what is read is what the operators mean |
| optimizers (`optim/`) | a count, averages by parameter | `step`, `zero_grad`, `state_dict`, `load_state_dict` | the count of the bias correction fits the averages |
| runtime wrappers (`device.py`, `utils.py`, `profiling.py`) | none of their own | queries, `synchronize`, contexts | what fails says so, alike everywhere; a context ends what was submitted |
| `examples/llm_generation.py` | the text so far | `generate_text`, `forward`, `sample_token` | a token depends on the window and on nothing later |
| `examples/mnist_training.py` | averages over batches | `train_epoch`, `evaluate` | each sample counts once |
| other examples, benchmark, scripts | straight-line demonstrations | | |

### How they interact

An operation of `src/ops` asks the pipeline for the current buffer, opens an
encoder on it, encodes, and calls `commit_and_continue`.  The pipeline takes a
slot from the controller, commits and goes on with a new buffer; the buffer's
completion handler, on a Metal thread, gives the slot back.  In lazy mode
commits are deferred until a threshold, a `flush` or the end of a scope; a Python program
enters it with `_C.set_lazy_commit(True)`.
Tensors hold `MNBuffer`s, which take blocks from the allocator and return them
when the last reference goes; the allocator cuts blocks out of heaps.  Reading a
tensor back waits for `MNDevice::synchronize()`, a barrier on the Metal queue
that does not go through the pipeline.  Caches and registries sit above and are
called under their own mutexes.  A Python `Tensor` holds a shared pointer to a C++
one; its operators call bindings that allocate the result, encode and return at once,
so that temporaries go back to the allocator while their commands wait; `numpy()` and
`item()` call `MNDevice::synchronize()` first, and so do `synchronize()` and
`SynchronizeContext`: none of them reaches what lazy mode keeps in the open buffer.

### What is hard

* steps of several threads around a mutex that is released before a
  notification, taken after a slot, or not taken for a flag;
* a call that blocks on the GPU with the mutex held;
* exceptions after a resource was acquired;
* RAII scopes that save and restore flags all threads share;
* indices that a clean-up renumbers while others remember them;
* results that are complete only when a queue nobody waits for has run;
* loops over parameters that an exception ends half-way, and state dictionaries
  that two objects share;
* memory that two libraries name, with an owner in only one of them.

The file `PROJECT.json` lists these hazards at their lines, with the properties
that would catch them.

## 2. The modules

| Module | Models | Relation |
|---|---|---|
| `Semaphore` | what `backpressure.h` promises: a counting semaphore | abstract |
| `Backpressure` | `backpressure.cpp` at the grain of mutex and condition variable | implements `Semaphore` |
| `WorkerThread` | `worker_thread.cpp`: worker, submitters, drainers, owner | |
| `CommandPipeline` | `command_pipeline.mm`, the operations that use it, the Metal queue, the read-back | takes and gives slots by the atomic steps of `Semaphore` |
| `ActivationPool` | `activation_pool.mm` and its clients' handles | |
| `KVCache` | `kv_cache.mm` under a forward pass | |
| `Lists` | operators on lists that the memory components share: byte counts, choice in order | used by `HeapManager`, `ActivationPool` |
| `HeapManager` | operators on heaps: best fit, split, coalesce, release | used by `SmartAllocator` |
| `RegionAllocator` | what the allocator promises its clients | implemented by `SmartAllocator` |
| `SmartAllocator` | `allocator.mm` over those heaps | EXTENDS `HeapManager`, INSTANCEs `RegionAllocator` |
| `Package` | `__init__.py`, `_metallib.py` | |
| `Config` | `config.py` | |
| `TensorExchange` | what enters and leaves a tensor: `tensor.py`, `interop.py`, `accelerate_plugin.py` with their bindings | |
| `TensorArithmetic` | operators and layers over recycled memory and a GPU behind | allocation as `SmartAllocator` does it, last in first out |
| `Optimizers` | `optim/adam.py`, `optim/sgd.py` | |
| `Runtime` | `device.py`, `utils.py`, `profiling.py`, the plugin | |
| `TextGeneration`, `TrainingLoop` | the two examples with state | |
| `MCDispatch` | the controller, the worker or the scopes of the pipeline, chosen with the initial state | EXTENDS `Backpressure`, `WorkerThread`, `MCCommandPipeline` |
| `MCMemory` | one of the three memory components, chosen with the initial state | EXTENDS `SmartAllocator`, `ActivationPool`, `KVCache` |
| `MCPython` | one of the eight parts above, chosen with the initial state | EXTENDS them all |
| `MCCommandPipeline`, `MCWorkerThread` | which thread performs which calls | EXTEND the module of that name |
| `Backpressure_proofs`, `WorkerThread_proofs`, `CommandPipeline_proofs` | theorems of the component of that name | |
| `Tensor_proofs` | theorems of `TensorExchange` and `TensorArithmetic` | EXTENDS both |
| `PipelineScopes_proofs` | theorems about scopes, encoders and modes | EXTENDS `CommandPipeline_proofs` |
| `Memory_proofs` | theorems of `KVCache` and `ActivationPool` | EXTENDS both |
| `Allocator_proofs` | theorems of `SmartAllocator` over `HeapManager` | EXTENDS it and `Memory_proofs` |
| `Python_proofs` | theorems of `Package`, `Runtime`, `Config`, `Optimizers`, `TextGeneration`, `TrainingLoop` | EXTENDS them all |

### Backpressure

`Callers` are inside `acquire()` or not, `Releasers` inside `release()` or not, any
number of times. `Acquire` enters; under the mutex the caller tests the predicate
and takes its slot (`Proceed`) or goes to sleep on the condition variable (`Sleep`);
`SpuriousWake` is allowed at any time. `release` decrements under the mutex and
`NotifyOne` is a step of its own, after the unlock, as in the code. The exception of
an unbalanced `release()` is `ReleaseRejected`.

### WorkerThread

A critical section is one step; reads and writes of the two atomics outside it are steps
of their own (`SubmitCheck` before `SubmitPush`, `DrainFlag` before `DrainTest`,
`Report` before `NotifyDrained`), which is where the races live.  The worker's loop
is `Exit`, `WaitForWork`, `Take`, `Execute`, `Report`, `NotifyDrained`; the owner
goes through `start()` and `stop()` one statement at a time.  A task is its number
in the order of acceptance.  One thread owns `start()` and `stop()`; two owners are not
modelled.  Nothing in the repository uses the class, so its clients are any threads.

### CommandPipeline

Each public method is a chain of steps marked by `pc[t]`. Where `flush()`,
`synchronize()` and the encoder rotation block in `acquire()` with the mutex held,
`mu` names the holder between the two steps and everybody else's critical sections
wait (`Free`). Where `commit()` and `commit_and_continue()` acquire first and lock
afterwards, the slot belongs to the thread in between (`held`), and when no buffer
is active it is lost with the exception (`leaked`). A buffer is its number in the
order of creation; the queue is the set `gpu` of committed buffers, completed lowest
first by `GpuComplete`, which is also the handler that calls `release()`. The
scopes' saved flags are a stack per thread. `dirty` records who encoded into which
buffer not yet completed and in which operation, and `mark` the buffers that existed
when `synchronize()` was called; both are history.

What a client may do inside an `EncoderScope` is the constant `CallsInEncoder`.
Operations may be there, and open the encoder of their own that each of them opens
in `src/ops`; so may scopes of either kind. `EncodersLegal`, that no buffer has two
encoders, then fails at once (`pipeline_own_encoder`), so what is checked of such
programs is the rest: that the operations leave the scope's encoder on the active
buffer, that the modes are restored and that the work is submitted. The instance of
`dispatch` has no `BatchScope` inside an `EncoderScope`: its destructor flushes, and
the encoder scope goes on with an encoder of a committed buffer (section 5). That
the modes are restored does not depend on it and is proved for any nesting.

Two properties speak of the auto-flush.  `CounterBelowThreshold` is about `op_count`,
`BufferBelowThreshold` about the operations really in the open buffer, counted in `dirty`:
the reset after `flush()` makes the first hold and, with two threads, the second fail.

The adaptive limit on operations per encoder depends on timings: any member of
`EncoderLimits` may be the limit at any time.  A failure of the Metal queue to
give a command buffer is left out, as are the setters, which are parameters
here.  Lazy or eager mode at the start is a free choice (`lazy0`).

### HeapManager and SmartAllocator

The allocator holds its mutex throughout each public method, and the heap manager is
only called by it, so each method is one step and the difficulty is in the
sequences. `empty_cache()` is the exception: it returns its blocks one by one with
the mutex held (`EmptyCache`, then `ReturnCached` for each, then `EmptyCacheDone`),
because an exception may leave it after any of them (`EmptyCacheThrows`); `emptying`
keeps everybody else out and `returned` counts how many blocks of each bucket are
back. A heap is an entry with its list of free regions in the order of the code.
`find_best_fit`, `Carve` (splitting) and `coalesce` keep that order, including the
early return for short lists: `coalesce` is the list in the order of offsets
(`Sorted`), of which each region that does not begin where the one before it ends
takes in those up to the next such (`Merged`). Live blocks are a function from their
ids. Blocks carry the index the code uses and, as history, the heap they really lie
in: the two differ after `release_empty_heaps()` has renumbered the heaps. The model
goes on from there, through the exception for an index out of range that
`empty_cache()` may end in with its buckets half returned; `stale` remembers that it
happened, and the invariants that the renumbering breaks are stated for `~stale`.
`AllocateRefused` is Metal returning nil after the region was cut out; the region is
in `lost` from then on. `make_aliasable()` puts the start of its region into the
history variable `reclaimable`, where it stays until the region goes back to its
heap; `ReclaimableSetApart` says that no bucket has such a block meanwhile, and no
other client. Size classes are parameters: the rounding itself is planned as a pure
operator.

`RegionAllocator` is the promise to the clients: regions of at least the size asked
for, apart from each other, which stay where they are, under identities that are
used once. `HeldRegions` is the mapping, and `Distrust` the end of the promise that
a renumbering is: afterwards regions may overlap, but still none moves.

### ActivationPool

Every public method holds the mutex throughout and is one step, with the branches of
`acquire()` as actions of their own: a buffer of a free list (`AcquirePooled`), a
new one (`AcquireNew`), the budget's refusal (`AcquireRefused`), the device's
(`AcquireFails`).  `Room` is what `create_buffer()` finds once it has purged, if
there is a budget (0 is none) and it asks for it; a refusal leaves the pool in that state.
`configure_for_model()` locks twice: its classes are added in one step, other
calls may come, and its pre-allocations then follow with everybody shut out
(`todo`).  Clients keep handles (`held`, `past`), and may release one late:
the pool knows only the index, so a late release takes the buffer from a later
owner.  `misused` marks those behaviours.

### KVCache

A row is a layer's buffer of tokens, numbered in the order in which
passes begin them, so that a token of an older generation or at a wrong position
shows.  The generating thread takes a chunk of positions through the layers as
`flash_attention_with_kv_cache` needs it: append to a layer, read that layer, go
on.  `resize()`, from a reaction to memory pressure, may come between any two
calls; `ResizeFails` leaves the layers from the failing one on as they were, together
with `actual_max_seq_len`, as the exception does.  A copy beyond the end of a
buffer has no effect here but is remembered in `overrun`.

### Package

An attribute of the package is unset, a submodule or a value.  Importing a submodule
for the first time binds it in the package (`Attached`), whoever imports it: that is
Python's doing and comes on top of what `__getattr__()` binds.  The name `tensor`
is the one where the two meet: `mn.tensor` is the submodule until some name of its
group is taken, and the factory function from then on.  `ResolvedStays` says that it
cannot go back.  What `_initialize()` finds is chosen with the initial state.

### Config

A configuration and a dictionary are both attributes and one list, held by number, so
that sharing shows.  `from_dict()` keeps the list it is given, `to_dict()` copies.
`from_env()` splits a variable's name at its first underscore, so that no variable
reaches a section of two words (`Recognised`).

### TensorExchange

Memory is a sequence of 16-bit words, and an array or a tensor names a buffer, a
dtype and a layout, so that a wrong order, a wrong width or memory that has gone
shows as numbers that do not decode. `source` remembers what was copied, of tensors
made from arrays: a copy or a transposition of a tensor has none and is not
followed. An import through DLPack always ends in the copy (the binding is a stub
that throws); a tensor of the MPS device shares the memory and does not keep it
(`borrowed`).

### TensorArithmetic

Operators allocate, encode and return. `pool` is the allocator's list of the size
class everything here has; `commands` waits for `RunCommand`. The last `open` of
them are in the open command buffer: after each operation all are submitted or, in
lazy mode (`lazy`, set by `set_lazy_commit`), some may stay (`Committed`; where the
threshold cuts is left to `CommandPipeline`). `Drained` is what the synchronization
of a read waits for, that nothing is left but those. A tensor carries the cells its
operators mean (`expect`), computed when it is made, and `Read` compares them with
memory. `raced` remembers that the host has filled a buffer under a waiting command,
as `ones()`, `zeros()` and the scalar operands do, or has read while something was
open. The elementwise kernels do not repeat a smaller operand, so `exact` is lost
with operands of different sizes, the bias of a `Linear` and the scalar operators on
more than one element included.

### Optimizers

The averages of a parameter are represented by how many gradients they hold. A step
goes through the parameters up to the first that raises (`Reached`); where in the
loop it raises decides whether its averages have moved (`Averaged`). `state_dict()`
and `load_state_dict()` are two actions: a checkpoint is the dictionary itself with
the count of that moment, and any optimizer of the kind, the one that saved it
included, may load it at any later time, when it adopts the dictionary as it then
is. `alone` and `steady` are history, of optimizers and of checkpoints: whether no
step on the dictionary is missing from the count, and whether every step moved
everything. A step takes them from everybody else who names its dictionary
(`Outlives`, `Aged`).

### Runtime

Each wrapper is the outcome of its binding (missing, a value, the native exception)
put through its `except` clauses. An exception travels up through the contexts until
it is handled; a `SynchronizeContext` left on the way waits for the GPU. Of the
operations `issued` the first `submitted` are in committed buffers: all of them in
eager mode, any number in lazy mode, and `Finish` ends only these.

### TextGeneration, TrainingLoop

A vector of the network is the set of places it depends on, so the mask, the
residual connections and the sliding window are checked as a flow of information
while the logits are any. An epoch averages right and wrong in whole numbers of
1/`Scale`.

## 3. The runs

| Run | Instance | Shows |
|---|---|---|
| `dispatch` | controller: 3 callers, 2 slots, 2 releasers, spurious wake-ups | no lost wake-up, refinement of `Semaphore` |
| | worker: 2 submitters, 1 drainer, 3 tasks, 2 stops with restarts | FIFO exactly once, `stop` drains, `drain` pops all, `stop` and `drain` return, accepted tasks run |
| | pipeline: 1 thread, scopes two deep without a `BatchScope` inside an `EncoderScope`, 6 calls, both modes | the scope keeps its encoder, modes restored, work submitted |
| `pipeline_threads` | 2 threads, 2 slots, threshold 2, 4 calls, both modes, scopes of both kinds on one thread, `synchronize` and read-backs on the other | slots conserved, `synchronize` complete, counter below the threshold, every call returns |
| `memory` | allocator: 2 classes, 2 modes, 3 allocations, 2 `empty_cache` | heaps partitioned, regions merged, statistics exact, cache serves as asked, reclaimable blocks set apart, only used heaps kept; `RegionAllocator` implemented |
| | pool: requests of 3, 4 and 5 bytes, classes 4 and 8, a model's class 6, budget 16, 5 calls | free lists exact, handles exclusive, counts exact, refusals only for lack of room |
| | KV cache: 3 layers, capacity up to 3, passes of 1 or 2 positions, 5 positions | reads are the generation's own, refusals at the first layer only, copies inside their buffers |
| `python` | package: all names, every order | resolved names stay |
| | configuration: 3 objects, 2 edits | edits are seen where sharing is meant |
| | exchange: 2 arrays, 2 tensors, 3 calls, numpy, torch and MPS, float32 and 16-bit dtypes | copies hold, metadata agrees, `prepare_model` keeps values |
| | optimizers: Adam, AdamW, SGD, 3 parameters, one of which raises, 2 steps, 2 checkpoints | the count covers the averages, and is exact while nothing fails |
| | arithmetic: a matrix, a row and two tensors more; eager until lazy mode is entered, for good | reads are what the operators mean |
| | runtime: 2 operations, contexts two deep, both modes | available means answers |
| | generation: window up to 2, prompt up to 3, 2 new tokens, 2 blocks, 3 tokens | the context is exactly the window |
| | training: up to 5 samples, batches up to 3 | averages are over each sample once |
| `worker_two_drainers` | 2 drainers | counterexample: one drainer sleeps for ever |
| `pipeline_two_syncs` | 2 threads synchronizing | counterexample: each holds slots the other needs |
| `pipeline_lazy_readback` | 1 thread, lazy mode | counterexample: the read-back misses work in the open buffer |
| `pipeline_own_encoder` | the pipeline of `dispatch` | counterexample: an operation opens a second encoder on the scope's buffer |
| `pipeline_lazy_threads` | 2 threads, lazy mode, threshold 2 | counterexample: the open buffer reaches the threshold |
| `allocator_stale` | heaps of one block | counterexample: two live allocations share memory |
| `exchange_order` | 1 transposed array | counterexample: its tensor holds the elements in another order |
| `arithmetic_race` | as in `python` | counterexample: the host overwrites what a waiting command reads |

In `dispatch`, `memory` and `python` the parts share no state, so one of them is at
work in each behaviour and the others stay as they start: one search of the sum of
their state spaces. The storage modes are symmetric in `memory`: no action tells one
from the other, and the run checks no liveness. Each state variable's types are
stated in its module (`...TypeOK`); those of the `Backpressure`, `WorkerThread`,
`CommandPipeline`, `KVCache`, `ActivationPool`, the allocator, the package, its
configuration, optimizers, wrappers and exchange are theorems or parts of a proved
invariant, the others are documentation of the state.

**Bounds.**  Two threads show every pairwise race, and no step of the pipeline
depends on more than one other thread: what a thread waits for is the mutex (one
holder), a slot (a count) or the GPU. Two slots are the least for which
`synchronize` collects in more than one step while others take slots. Threshold 2
lets the counter stand below, at and above it. Four calls by two threads are two
operations around a `synchronize`; six calls by one thread nest two scopes with
operations, shared encoding and read-backs in and between them. Three tasks let the
queue hold one while one runs and another is pushed. One refusal by Metal loses a
region between two blocks or beside one. Three blocks in a heap of three let the
middle one be freed last or first, which are the cases of `coalesce`. Five calls
fill the pool's budget, empty it and fill it again with another size; its sizes fit
a class exactly (4), with waste within the limit (3), and with too much (5, which
then shares nothing until the model's class of 6 is added). Three layers and a
capacity of three let two failing resizes leave three different capacities. Two
arrays and two tensors are a source with a transposed view and a copy with another
made from it; the third call may be the write or the move that disturbs them. Three
parameters put one that raises after two that do not, and `Clearable` leaves one
whose gradient `zero_grad()` cannot reach; two steps and two checkpoints are a step
before a state is saved or between saving and loading, and one after, by the same
optimizer or by another with the same dictionary. `LazyModes = {TRUE}` keeps the
arithmetic in lazy mode once it is entered (what was kept open by then is submitted
at some commit all the same); `CommitModes` has both. A matrix and a row with two
results are an operator, its temporaries and a second operator that recycles them. A
window of two under a text of five slides three times, and two blocks let a
dependence pass through a place in between. Five samples in batches of one, two and
three come out even and uneven. In each instance a thread may stop calling once the
bound is reached, hence `CHECK_DEADLOCK FALSE` in every configuration with bounded
calls; that nobody is stuck is stated by the liveness properties instead.

**Fairness.**  The memory and the Python modules state safety only. In
`Backpressure` a caller inside `acquire()` that is not asleep tests the predicate
and a releaser past its decrement notifies (weak fairness: a thread that can run is
scheduled): `ImplementsSemaphore` includes the semaphore's progress, that a free
slot and a waiting caller do not coexist for ever. In `WorkerThread` the worker's
loop, begun calls and the task itself make progress (weak fairness: a thread that
can run is scheduled; tasks end); nobody is obliged to call anything, and spurious
wake-ups are not promised. `LeftRunning` is a premise of the liveness of `drain` and
of accepted tasks: a worker that is stopped for good owes nothing. In
`CommandPipeline` each thread's begun call is weakly fair, and so is the GPU; that a
thread waiting for a slot gets one follows because callers run out (bounded calls),
not from strong fairness. `CallsReturn` has the premise that no exception has cost a
slot. `dispatch` has the fairness of the controller and of the worker together:
where one of them is not at work, none of the steps it speaks of can be taken as the
part starts, so that it asks nothing.

## 4. What is proved

For all values of the constants (any number of threads, slots, tasks, calls):

* `Backpressure_proofs`: `TypeCorrect`, `WakeupsNeverLost`, `RefinesSemaphore`.
  The invariant counts the free slots against the threads that will test or
  notify: sleeping threads are covered as long as each free slot has one.
* `WorkerThread_proofs`: `FifoOrder`, `StopWaits`, `DrainPops`.  `FifoExactlyOnce`
  is inductive by itself: what ran, what is in hand and the queue are
  1, 2, ... in order.  `StopDrains` needs `Lifecycle`, which ties the owner's place
  in `start()`/`stop()` to the worker's: an exited worker has left an
  empty queue, and no task accepted before the flag can come after it.
* `CommandPipeline_proofs`: `TypeCorrect`, `SlotsAccounted`, `SynchronizeWaits`
  and `ThrottleHolds`.  `IInv` adds to the types who may hold a slot at
  which step (`HeldByPC`), who holds the mutex (`MuHolder`), that a destructor
  has a scope to restore (`Destructing`), and that after its own commit
  `synchronize` leaves only younger buffers active (`SyncProgress`).  The slot balance
  is a statement about a cardinality: the set of holders (`SlotHolders`) gains or
  loses exactly one element with each change of `in_flight`.  `SyncComplete` then is
  arithmetic: a thread holding all the slots leaves none for a buffer,
  except those counted while it collected, which are younger than its mark.

* `PipelineScopes_proofs`: `ScopesAreRestored` and `CounterStaysBelow` for a
  pipeline in which one thread opens all the scopes while any number of others
  encode, record, flush and synchronize; `OuterEncoderStays` and
  `EagerWorkSubmitted` for a single thread that has no `BatchScope` inside an
  `EncoderScope`, while operations with encoders of their own, shared encoding,
  further encoder scopes and read-backs are all allowed there. The first hypothesis
  is `ScopeUser(s)`, the second `SoleUser(s)`; the instance of `pipeline_threads`
  satisfies the first and that of `dispatch` both. Neither can be dropped: section 5 lists
  what overlapping scopes and a batch inside an encoder scope do.
  `BufferBelowThreshold` and `EncodersLegal` are not theorems: they are false.
  `CounterStaysBelow` also takes `Threshold > 0`, since a threshold of 0 is reached
  before the first operation. The argument is about the stack of saved flags:
  `ScopesInv` says what each frame saved, in terms of the frames below it, at every
  step of the constructors and destructors, so that popping restores what the next
  one expects. For the counter it is `SomebodyCommits`: whoever has taken it to the
  threshold is still on the way to the commit that resets it. `SoleInv` adds where
  an encoder is open at each step, and that work not yet submitted belongs to a call
  under way.

* `Memory_proofs`, on the KV cache: `TypeCorrect`, `ReadsAreOwn`,
  `RefusalsComeFirst`, `CopiesAreInside`. `IInv` relates the shared length to the
  place of the pass (`LengthOfPass`: it runs ahead of every layer but the first, and
  never beyond the capacity), says that each layer holds what was appended to it
  (`Kept`) and that capacities agree unless a resize has failed (`Sized`).
  `resize()` keeps it because it is clamped to the shared length and not to what a
  layer holds.

* `Memory_proofs`, on the pool: `PoolTyped`, `FreeListsStayExact`,
  `HandlesStayExclusive`, `PoolStatsStay`, `RefusalsAreJustified`, for any size
  classes, budget (or none), requests and model. `GoodPool` says of a pool, whether
  it is the state or one on the way inside an operation, that its lists are exact,
  that its total is the bytes of the buffers that have memory and that the budget
  holds. Each helper of an operation keeps it (`PurgeFits`, `RoomFits`,
  `CreatedFits`, `TakenFits`, `GivenBackFits`, `ReleasedFits`), and each action is a
  composition of helpers. Bytes are a cardinality, so a sum over buffers changes by
  the lemmas on finite sets; the purge's filter of a list (`Among`) is characterised
  by the places it keeps, in their order. That a refusal is justified follows
  because after the purge only buffers in use have memory.

* `Python_proofs`, on the optimizers: `TypeCorrect`, `CountsStayRight` (from
  `CountsCover` and `CountsExact`), for any number of parameters, optimizers, steps
  and checkpoints, whichever parameters raise and whoever loads what was saved,
  whenever. Both properties relate an optimizer to a dictionary that others may
  hold, so the invariant has to say what becomes of everybody who shares it,
  checkpoints included: `SharersLose` (who shares with the one that steps is no
  longer `alone`, nor `steady`) and `StepMoves` (a step raises the count by one and
  each average by at most one, and by exactly one where it moves all).

* `Python_proofs`, on the configuration: `ConfigTyped`, `EditsSeenAtHome`, for any
  number of objects and edits. The invariant is `Sharing`: two objects with the same
  list come from the same dictionary. It needs `Sourced`, that what `from_dict()`
  was given is a dictionary that has its list from nobody.

* `Python_proofs`, on the wrappers: `RuntimeTyped`, `AvailableAnswers`.  The latter
  rests on `Works`: the extension and the device do not go away once they
  are there, and the wrappers whose bindings exist answer from then on.

* `Python_proofs`, on the package: `NamesTyped`, `ResolvedNamesStay`. Only the
  import of the submodule could rebind `mn.tensor`, and Python binds a submodule the
  first time only: `TensorLoaded` says that the name is a value only when that first
  time is over.

* `Tensor_proofs`, on the exchange: `ExchangeTyped`, `CopiesAreKept`,
  `MetadataIsNative`, `PreparedModelsKeepValues`, for any number of arrays, tensors
  and calls. Every array and tensor is a use of a buffer (`Uses`), and the invariant
  is about two uses of the same one: they are of one family (`Families`), and one
  that does not keep the memory shares it with a tensor on the MPS device, whose
  memory no copy is in (`Lent`, `CopiesOwn`). A write reaches its family only, which
  loses its `source` with it, so nobody else's numbers can change. Below it are the
  lemmas that `Decode` inverts `NumberWords` for each dtype, cell by cell, and that
  a transposition twice is none.

* `Tensor_proofs`, on arithmetic: `ArithTyped`, `ReadsAreExpected`, for any number
  of tensors, calls and waiting commands, in eager and in lazy mode. What a tensor
  should hold is a claim on its buffer (`Claims`), and while commands wait memory
  need not hold it yet; the buffer may even still have other work to do for tensors
  long dropped. The invariant `ArithInv` therefore looks ahead (`Foretold`): there
  is a sequence of memories, from the present one, each the next command's `Applied`
  to the one before, of which the last holds every claim. Around it, `Sound` says
  who has each buffer: the free list, one live tensor, or the call under way.
  Running a command takes the first memory off (`ForetoldRun`); encoding one adds a
  memory at the end and may overwrite only what nobody claims (`ForetoldEncoded`); a
  host write to a buffer no command uses commutes with all of them
  (`ForetoldWritten`), and nothing waits when the last memory is the present one, so
  a read shows the claims (`Ready`). A read for which no command is open finds
  nothing waiting (`NothingWaits`); of the open buffer the proof needs only that it
  holds no more than what waits (`OpenFits`). Each operator is `OneCommand` or
  `TwoCommands` with the proof that its kernel, on operands that hold what they
  claim, makes what is expected of the result. Buffers given back under waiting
  commands need no premise; a host write to one and a read over an open buffer do,
  and without `~raced` the property is false, as `arithmetic_race` and
  `pipeline_lazy_readback` show.

* `Allocator_proofs`: `AllocatorTyped`, `HeapsStayPartitioned`,
  `HeapsStayCoalesced`, `AllocatorStatsStay`, `BlocksServedAsAsked`,
  `ReclaimableStaysApart`, `UsedHeapsKept`, for any sizes of heaps and pages, any
  size classes and any number of calls and refusals. The invariant is `AllocInv`.
  Its typed part (`ClientsOK`, `BucketsOK`, `ReturnsOK`, `HeapsOK`, `OthersOK`)
  holds for ever and includes the byte counts of clients, buckets and heaps. The
  rest, `SoundHeaps`, holds until a heap has been renumbered under a block: the free
  regions of a heap and the regions of the blocks in it divide it (`Partitioned`),
  each heap's `alloc_count` is the number of counted blocks that name it, each block
  names the heap it lies in, `heap_bytes` is their bytes, and what was served has
  its page-rounded size in a heap of its mode (`AllServed`). Without the names and
  the counts it is not inductive: `release_empty_heaps()` drops heaps by their
  counts, and a block is returned by its name. A block is one of a client, one of a
  bucket not yet returned, or a lost region (`BlocksOf`), so a client taking from
  the cache or giving back to it moves a block between names and leaves the heaps as
  they are (`SoundSwap`), and cutting and returning are one lemma each for the heap
  (`PartitionCut`, `PartitionReturned`) whoever the block belongs to. `coalesce` is
  described by what it leaves: the same units covered, by regions of which no two
  touch (`CoalesceFits`). This follows from the sorted list being a permutation of
  the free regions (`SortedFits`) and each region of the result reaching from one
  start to the last region before the next (`MergedFits`, `MergedApart`). The best
  fit is any region found that is long enough, or a new heap that is (`PlaceFits`,
  `CarveFits`). The exception in `empty_cache()` needs a renumbering first
  (`ThrowsStale`). That two live allocations are disjoint is part of the partition;
  without `~stale` it is false, as `allocator_stale` shows.

* `Allocator_proofs`, the refinement: `RegionsArePromised`, that `SmartAllocator`
  implements `RegionAllocator`. The mapping takes each live allocation to its size
  and region and `stale` to the end of the promise. Both ways of serving a request,
  from the cache and from a heap, are a `Grant`, because in the state that follows
  the partition keeps all allocations apart (`LiveSeparate`) and the page rounding
  is never less than the size; both ways of giving back are `TakenBack`;
  `empty_cache()`, whose last step may also be `Distrust`, refusals and exceptions
  move nobody's region.

* `Python_proofs`, on the examples: `ContextIsWindow`, for any window, prompt,
  number of blocks and of new tokens: a place knows of itself and of places up to
  its own (`Known`), and of all of them after the first block. `AveragesAreExact`,
  for any number of samples, any batch size and any answers: the running sum is the
  right samples of the batches so far, in the weight of one batch (`Weighed`), a
  cardinality that grows by a disjoint batch at a time. `GenTyped` and `EpochTyped`
  bound the text by `max_new_tokens` and the sum by one for each batch, which the
  short last batch of an evaluation does not exceed since it has a sample
  (`SomeSample`).

The theorems assume only the named ASSUMEs of the modules (finitely many
threads, positive limits), which TLC evaluates on each run.

Only model-checked:

* liveness (`StopReturns`, `DrainReturns`, `AcceptedRuns`, `CallsReturn`), because
  fairness and ENABLED are out of the prover's reach. For the same reason
  `RefinesSemaphore` is the safety part of `ImplementsSemaphore`: initial states and
  steps.

## 5. Where the code departs from its documentation

With a run that shows it:

* `drain()` of one thread clears the flag another sleeps behind
  (`worker_thread.cpp:138`).
* two concurrent `synchronize()` calls can deadlock (`command_pipeline.mm:214`).
* in lazy mode, read-back does not see work in the open buffer
  (`core/device.mm:139`).
* `empty_cache()` renumbers the heaps of live allocations (`allocator.mm:236`).
* a tensor made from an array that is not row-major holds its elements in the order
  of memory (`tensor.py:104`, `bind_core.cpp:533`).
* a buffer recycled under waiting commands is filled by the host at once
  (`core/buffer.mm:79`).
* operations open an encoder of their own inside an `EncoderScope`
  (`ops/elementwise.mm:57`, against `command_pipeline.h:138`).
* the reset of the counter after a flush forgets operations of other threads, and the
  open buffer outgrows the threshold (`command_pipeline.mm:134`, against
  `command_pipeline.h:192-198`).

Part of the instances, outside what the properties promise, and without a run of
their own:

* `drain()` may return while the last task, already taken from the queue, still runs
  (`worker_thread.cpp:137`, against `worker_thread.h:56`); `DrainPopsAll` promises
  the taking only.
* `commit()` without an active buffer costs a slot (`command_pipeline.mm:172`),
  which from then on counts as a buffer in flight (against
  `command_pipeline.h:203`): the reason for `leaked`.
* in lazy mode `synchronize()` and `SynchronizeContext` leave the operations of the
  open buffer behind (`core/device.mm:139`, against `utils.py:21` and `:152`); the
  cause is that of `pipeline_lazy_readback`.
* a checkpoint's averages move with later steps and its count does not
  (`adam.py:176`): `sd = o.state_dict(); o.step(); o.load_state_dict(sd)` leaves one
  gradient more in the averages than the count the correction is made for.
  `CountsRight` excludes it by `alone` and `steady`.
* `evaluate()` gives a last, smaller batch the weight of a full one
  (`mnist_training.py:255`); `AverageExact` speaks of evaluations whose batches come
  out even.
* a `submit()` that races `stop()` leaves its task queued until the next `start()`
  (`worker_thread.cpp:120`).

Kept out of the instances:

* a `BatchScope` that ends inside an `EncoderScope` commits the buffer under the
  open encoder (`command_pipeline.mm:306`; the other flushes look at the scope,
  `command_pipeline.mm:130`): the instance of `dispatch` has none there, by
  `CallsInEncoder`.
* overlapping scopes of two threads restore each other's mode
  (`command_pipeline.mm:307`), and one thread's `synchronize()` may commit the
  buffer another is encoding into (`command_pipeline.mm:121`): the scopes of
  `dispatch` are those of one thread.

Part of their instances, and a premise of the properties there: a late `release()` of
a pool handle frees the buffer of its next owner (`activation_pool.mm:331`,
`misused`); a `resize()` that fails half-way leaves layers smaller than the
capacity `append()` checks (`kv_cache.mm:293`, `broken`); a tensor over MPS memory
may outlive it (`interop.py:76`, `borrowed`); bfloat16 is shown as float16
(`bind_core.cpp:455`, `bf16`); the elementwise kernels do not broadcast
(`elementwise_kernels.metal:14-32`, `exact`, against the shape computed at
`elementwise.mm:32`); parameters with `grad` but no `_grad` keep their
gradient in `zero_grad()` (`adam.py:85`).

In the Python package, without a run: `mn.tensor` is a module until a name of its
group is taken; variables for `kernel_cache` are ignored (`config.py:221`);
`reset_peak_stats()` is documented to reset the peak and only empties the cache
(`bind_core.cpp:494`); a native exception passes through `get_memory_info()`, which
catches `RuntimeError` (`utils.py:141`); `to_torch()` says "copy via NumPy" of a
conversion that shares memory (`interop.py:182`); `AdamW` documents a default
`weight_decay` of 0.01 and inherits 0.0 (`adam.py:202`); the profiler's bindings do
not exist; buffers with dotted names raise in `prepare_model()`
(`accelerate_plugin.py:100`); an empty YAML file raises `AttributeError`;
`train_epoch()` never updates a parameter and raises when the samples fill no batch.

## 6. Plan

In order; what is done is marked.

1. (done) `Backpressure` against `Semaphore`; `WorkerThread`; `CommandPipeline`,
   with proofs.
2. (done) `HeapManager` and `SmartAllocator`.
3. (done) `ActivationPool`; `KVCache`, with proofs.
4. (done) The Python package: `Package`, `Config`, `TensorExchange`,
   `TensorArithmetic` (buffers recycled under waiting commands), `Optimizers` with
   proofs, `Config` and `Runtime` with proofs; the two examples with state.
5. Proofs: (done) the scopes and encoders of the pipeline, the pool, the exchange,
   the package, the two examples, the allocator over its heaps, and the reads of
   `TensorArithmetic`.
6. `KernelRegistry` and `KernelCache` with the lock taken twice; `GraphCache` with
   its timer and files; `PhasePipeline`; `MemoryBudget`; `ActivationCache` and
   `QuantWeightCache`; `LazyGraph` passes against the evaluation of the graph.
7. (done) The abstract `RegionAllocator` (live regions are disjoint and stay) that
   `SmartAllocator` implements, with the proof.

## 7. Not modelled

The contents of kernels and shaders beyond the cells they read, the arithmetic of
the optimizers, losses and layers, profiling output and the future stubs are
numeric, textual or I/O code. `__torch_function__`, random tensors and the DLPack
methods that only raise are left out of the tensor; the vocabulary of the generation
example and the model of the training example are too. The remaining examples, the
benchmark and the chart script run straight through and keep no state a property
could be about. The C++ components without a module are listed with their reasons in
`PROJECT.json`. Memory ordering below the level of sequentially consistent atomics
is not modelled; nor are allocation failures of the C++ runtime. Metal itself is
external: its queue runs command buffers in the order of commitment and calls each
completion handler once.
