---------------------------- MODULE CommandPipeline ----------------------------
(***************************************************************************)
(* CommandPipeline (dispatch/command_pipeline.mm) as its client threads    *)
(* and the GPU's completion handlers see it.  A critical section of mu is  *)
(* one step unless it blocks in BackpressureController::acquire, in which  *)
(* case mu stays held between the two steps; reads and writes of atomics   *)
(* outside mu are steps of their own.  acquire() and release() themselves  *)
(* are the atomic steps of module Semaphore, which Backpressure shows      *)
(* backpressure.cpp to implement.                                          *)
(*                                                                         *)
(* Command buffers are numbered in the order of their creation.  The       *)
(* queue is external (Metal): it runs buffers in the order of commitment   *)
(* and calls the completion handler of each once.                          *)
(***************************************************************************)
EXTENDS Naturals, Sequences, FiniteSets

CONSTANTS Threads, NoThread,
          Calls,            \* Calls[t]: the operations thread t performs
          CallsInEncoder,   \* those a thread performs inside an EncoderScope
          Slots,            \* buffer_count
          Threshold,        \* auto_flush_threshold
          EncoderLimits,    \* values adaptive_encoder_max_ops may take
          MaxDepth,         \* bound: nesting of scopes in one thread
          MaxCalls          \* bound: operations performed by all threads

CallName == {"op", "opcommit", "encode", "commit", "flush", "sync", "record",
             "batch", "encoder", "readback"}

ASSUME PipelineAssumption ==
  /\ Slots \in Nat \ {0} /\ Threshold \in Nat /\ MaxCalls \in Nat /\ MaxDepth \in Nat
  /\ NoThread \notin Threads /\ IsFiniteSet(Threads)
  /\ Calls \in [Threads -> SUBSET CallName] /\ CallsInEncoder \subseteq CallName
  /\ EncoderLimits \subseteq Nat \ {0}

VARIABLES
  in_flight,             \* backpressure.in_flight_
  mu,                    \* the thread that holds mu across a blocking acquire
  active,                \* active_buffer, 0 when has_active is false
  created,               \* buffers created so far
  gpu,                   \* buffers committed and not completed
  dirty,                 \* history: <<t, b, n>>: t encoded into b, which has not completed,
                         \* in operation n
  active_encoder,        \* the buffer active_encoder is open on, 0 when nil
  encoder_scope_active, encoder_op_count,
  lazy0,                 \* history: the mode the client chose before its threads start
  lazy_commit, op_count,
  pc,                    \* where each thread is
  held,                  \* slots each thread took and has not passed on
  count,                 \* local: value of ++op_count
  buf,                   \* local: buffer an operation encodes into
  open,                  \* <<t, b>>: operation of t has an encoder open on b
  then,                  \* what a thread does after flush(), or after encoding
  scopes,                \* per thread, the scopes it is in, innermost first
  mark,                  \* history: created when synchronize() was called
  wait,                  \* buffers committed before a thread's barrier
  leaked,                \* history: slots taken that nobody will give back
  calls                  \* operations started, counted against MaxCalls

slotVars == <<in_flight, held, leaked>>
bufVars == <<active, created, gpu, dirty>>
encVars == <<active_encoder, encoder_scope_active, encoder_op_count, lazy0>>
cntVars == <<op_count, count>>
opVars == <<buf, open>>
ctlVars == <<then, scopes, mark, wait>>
vars == <<slotVars, mu, bufVars, encVars, lazy_commit, cntVars, pc, opVars, ctlVars, calls>>

PC == {"idle", "got", "encoding", "count", "decide", "cont_acquire", "cont_lock",
       "commit_acquire", "commit_lock", "flush_lock", "flush_acquire", "reset",
       "restore", "recorded", "sync_lock", "sync_acquire", "collect", "release",
       "barrier", "read", "batch_set", "encoder_lock", "rotate"}
Continuation == {"return", "reset", "restore", "continue", "commit"}
Scope == [kind : {"batch", "encoder"}, encoder : BOOLEAN, lazy : BOOLEAN]

SlotTypes ==
  in_flight \in 0 .. Slots /\ leaked \in Nat /\ held \in [Threads -> 0 .. Slots]
BufferTypes ==
  /\ created \in Nat /\ active \in {0, created}
  /\ gpu \subseteq 1 .. created /\ active \notin gpu /\ dirty \subseteq Threads \X Nat \X Nat
  /\ buf \in [Threads -> Nat] /\ open \subseteq Threads \X Nat
  /\ mark \in [Threads -> Nat] /\ wait \in [Threads -> SUBSET Nat]
ModeTypes ==
  /\ active_encoder \in Nat /\ encoder_scope_active \in BOOLEAN /\ encoder_op_count \in Nat
  /\ lazy_commit \in BOOLEAN /\ lazy0 \in BOOLEAN
  /\ op_count \in Nat /\ count \in [Threads -> Nat]
  /\ calls \in Nat /\ scopes \in [Threads -> Seq(Scope)]
PlaceTypes ==
  /\ mu \in Threads \cup {NoThread} /\ pc \in [Threads -> PC]
  /\ then \in [Threads -> Continuation]
TypeOK == SlotTypes /\ BufferTypes /\ ModeTypes /\ PlaceTypes

Init ==
  /\ in_flight = 0 /\ leaked = 0 /\ held = [t \in Threads |-> 0]
  /\ mu = NoThread /\ active = 0 /\ created = 0 /\ gpu = {} /\ dirty = {}
  /\ active_encoder = 0 /\ encoder_scope_active = FALSE /\ encoder_op_count = 0
  /\ lazy0 \in BOOLEAN /\ lazy_commit = lazy0
  /\ op_count = 0 /\ count = [t \in Threads |-> 0]
  /\ pc = [t \in Threads |-> "idle"] /\ buf = [t \in Threads |-> 0] /\ open = {}
  /\ then = [t \in Threads |-> "return"] /\ scopes = [t \in Threads |-> <<>>]
  /\ mark = [t \in Threads |-> 0] /\ wait = [t \in Threads |-> {}] /\ calls = 0

-------------------------------------------------------------------------------
Free == mu = NoThread
At(t, from) == pc[t] = from
Go(t, to) == pc' = [pc EXCEPT ![t] = to]
InScope(t, kind) == \E i \in DOMAIN scopes[t] : scopes[t][i].kind = kind

\* Thread t begins operation c.
Call(t, c) == /\ At(t, "idle")
              /\ c \in Calls[t]
              /\ InScope(t, "encoder") => c \in CallsInEncoder
              /\ calls < MaxCalls
              /\ calls' = calls + 1

HasSlot == in_flight < Slots

\* backpressure.acquire() by a thread that does not hold mu, or by synchronize()
\* as it collects the slots.
TakeSlot(t) == /\ HasSlot
               /\ in_flight' = in_flight + 1
               /\ held' = [held EXCEPT ![t] = @ + 1]
               /\ UNCHANGED leaked

\* The slot of t goes to the buffer it commits, or is lost with an exception.
PassSlot(t) == /\ held' = [held EXCEPT ![t] = @ - 1]
               /\ UNCHANGED <<in_flight, leaked>>
LoseSlot(t) == /\ held' = [held EXCEPT ![t] = @ - 1]
               /\ leaked' = leaked + 1
               /\ UNCHANGED in_flight

\* acquire() and commit with mu held throughout: the buffer gets the slot at once.
TakeSlotForBuffer == /\ HasSlot
                     /\ in_flight' = in_flight + 1
                     /\ UNCHANGED <<held, leaked>>

NewBuffer == active' = created + 1 /\ created' = created + 1
EnsureBuffer == IF active = 0 THEN NewBuffer ELSE UNCHANGED <<active, created>>

CommitActive == gpu' = gpu \cup {active}

-------------------------------------------------------------------------------
(* An operation of src/ops: current_buffer(), an encoder on that buffer, and  *)
(* commit_and_continue() ("op") or commit() ("opcommit").                     *)

OpBegin(t) ==
  \E c \in {"op", "opcommit"} :
    /\ Call(t, c) /\ Free
    /\ EnsureBuffer
    /\ buf' = [buf EXCEPT ![t] = active']
    /\ then' = [then EXCEPT ![t] = IF c = "op" THEN "continue" ELSE "commit"]
    /\ Go(t, "got")
    /\ UNCHANGED <<slotVars, mu, gpu, dirty, encVars, lazy_commit, cntVars, open,
                   scopes, mark, wait>>

OpOpen(t) ==
  /\ At(t, "got")
  /\ open' = open \cup {<<t, buf[t]>>}
  /\ Go(t, "encoding")
  /\ UNCHANGED <<slotVars, mu, bufVars, encVars, lazy_commit, cntVars, buf, ctlVars, calls>>

OpClose(t) ==
  /\ At(t, "encoding")
  /\ open' = open \ {<<t, buf[t]>>}
  /\ dirty' = dirty \cup {<<t, buf[t], calls>>}
  /\ Go(t, IF then[t] = "continue" THEN "count" ELSE "commit_acquire")
  /\ UNCHANGED <<slotVars, mu, active, created, gpu, encVars, lazy_commit, cntVars, buf,
                 ctlVars, calls>>

\* commit_and_continue(): ++op_count, the lazy-mode decision, and the commit.
ContCount(t) ==
  /\ At(t, "count")
  /\ op_count' = op_count + 1
  /\ count' = [count EXCEPT ![t] = op_count']
  /\ Go(t, "decide")
  /\ UNCHANGED <<slotVars, mu, bufVars, encVars, lazy_commit, opVars, ctlVars, calls>>

ContDecide(t) ==
  /\ At(t, "decide")
  /\ \/ /\ lazy_commit /\ (encoder_scope_active \/ count[t] < Threshold)
        /\ Go(t, "idle") /\ UNCHANGED then
     \/ /\ lazy_commit /\ ~encoder_scope_active /\ count[t] >= Threshold
        /\ then' = [then EXCEPT ![t] = "reset"]
        /\ Go(t, "flush_lock")
     \/ /\ ~lazy_commit
        /\ Go(t, "cont_acquire") /\ UNCHANGED then
  /\ UNCHANGED <<slotVars, mu, bufVars, encVars, lazy_commit, cntVars, opVars,
                 scopes, mark, wait, calls>>

\* op_count = 0 after flush() has returned.
ContReset(t) ==
  /\ At(t, "reset")
  /\ op_count' = 0
  /\ Go(t, "idle")
  /\ UNCHANGED <<slotVars, mu, bufVars, encVars, lazy_commit, count, opVars, ctlVars, calls>>

\* The slot is taken before mu.
AcquireFirst(t) ==
  /\ \/ At(t, "cont_acquire") /\ Go(t, "cont_lock")
     \/ At(t, "commit_acquire") /\ Go(t, "commit_lock")
  /\ TakeSlot(t)
  /\ UNCHANGED <<mu, bufVars, encVars, lazy_commit, cntVars, opVars, ctlVars, calls>>

\* "no active buffer to commit": the exception leaves the slot acquired.
NothingToCommit(t) ==
  /\ pc[t] \in {"cont_lock", "commit_lock"} /\ Free
  /\ active = 0
  /\ LoseSlot(t)
  /\ Go(t, "idle")
  /\ UNCHANGED <<mu, bufVars, encVars, lazy_commit, cntVars, opVars, ctlVars, calls>>

ContCommit(t) ==
  /\ At(t, "cont_lock") /\ Free
  /\ active # 0
  /\ CommitActive /\ PassSlot(t) /\ NewBuffer
  /\ op_count' = 0
  /\ Go(t, "idle")
  /\ UNCHANGED <<mu, dirty, encVars, lazy_commit, count, opVars, ctlVars, calls>>

CommitCall(t) ==
  /\ Call(t, "commit")
  /\ Go(t, "commit_acquire")
  /\ UNCHANGED <<slotVars, mu, bufVars, encVars, lazy_commit, cntVars, opVars, ctlVars>>

Commit(t) ==
  /\ At(t, "commit_lock") /\ Free
  /\ active # 0
  /\ CommitActive /\ PassSlot(t) /\ active' = 0
  /\ op_count' = 0
  /\ Go(t, "idle")
  /\ UNCHANGED <<mu, created, dirty, encVars, lazy_commit, count, opVars, ctlVars, calls>>

-------------------------------------------------------------------------------
(* flush() and its callers.                                                    *)

Resume(t) == Go(t, CASE then[t] = "reset" -> "reset"
                     [] then[t] = "restore" -> "restore"
                     [] OTHER -> "idle")

FlushCall(t) ==
  /\ Call(t, "flush")
  /\ then' = [then EXCEPT ![t] = "return"]
  /\ Go(t, "flush_lock")
  /\ UNCHANGED <<slotVars, mu, bufVars, encVars, lazy_commit, cntVars, opVars, scopes, mark, wait>>

FlushLock(t) ==
  /\ At(t, "flush_lock") /\ Free
  /\ \/ active = 0 /\ Resume(t) /\ UNCHANGED mu
     \/ active # 0 /\ Go(t, "flush_acquire") /\ mu' = t
  /\ UNCHANGED <<slotVars, bufVars, encVars, lazy_commit, cntVars, opVars, ctlVars, calls>>

\* Mutants of FlushCommit: the slot is not taken, the completion handler that returns
\* it is not added.
FlushUntracked(t) ==
  /\ At(t, "flush_acquire")
  /\ CommitActive /\ NewBuffer
  /\ op_count' = 0 /\ mu' = NoThread
  /\ Resume(t)
  /\ UNCHANGED <<slotVars, dirty, encVars, lazy_commit, count, opVars, ctlVars, calls>>

FlushForgetsHandler(t) ==
  /\ At(t, "flush_acquire") /\ HasSlot
  /\ in_flight' = in_flight + 1
  /\ NewBuffer
  /\ op_count' = 0 /\ mu' = NoThread
  /\ Resume(t)
  /\ UNCHANGED <<held, leaked, gpu, dirty, encVars, lazy_commit, count, opVars, ctlVars, calls>>

FlushCommit(t) ==
  /\ At(t, "flush_acquire")
  /\ TakeSlotForBuffer /\ CommitActive /\ NewBuffer
  /\ op_count' = 0 /\ mu' = NoThread
  /\ Resume(t)
  /\ UNCHANGED <<dirty, encVars, lazy_commit, count, opVars, ctlVars, calls>>

RecordCall(t) ==
  /\ Call(t, "record")
  /\ op_count' = op_count + 1
  /\ count' = [count EXCEPT ![t] = op_count']
  /\ Go(t, "recorded")
  /\ UNCHANGED <<slotVars, mu, bufVars, encVars, lazy_commit, opVars, ctlVars>>

\* Mutants of RecordDecide: the encoder scope is ignored, the threshold is off by one.
RecordIgnoresScope(t) ==
  /\ At(t, "recorded")
  /\ IF lazy_commit /\ count[t] >= Threshold /\ op_count = count[t]
       THEN op_count' = 0 /\ then' = [then EXCEPT ![t] = "return"] /\ Go(t, "flush_lock")
       ELSE Go(t, "idle") /\ UNCHANGED <<op_count, then>>
  /\ UNCHANGED <<slotVars, mu, bufVars, encVars, lazy_commit, count, opVars,
                 scopes, mark, wait, calls>>

RecordOffByOne(t) ==
  /\ At(t, "recorded")
  /\ IF lazy_commit /\ ~encoder_scope_active /\ count[t] > Threshold /\ op_count = count[t]
       THEN op_count' = 0 /\ then' = [then EXCEPT ![t] = "return"] /\ Go(t, "flush_lock")
       ELSE Go(t, "idle") /\ UNCHANGED <<op_count, then>>
  /\ UNCHANGED <<slotVars, mu, bufVars, encVars, lazy_commit, count, opVars,
                 scopes, mark, wait, calls>>

\* Only the thread whose compare-and-swap resets the counter flushes.
RecordDecide(t) ==
  /\ At(t, "recorded")
  /\ IF /\ lazy_commit /\ ~encoder_scope_active
        /\ count[t] >= Threshold /\ op_count = count[t]
       THEN /\ op_count' = 0
            /\ then' = [then EXCEPT ![t] = "return"]
            /\ Go(t, "flush_lock")
       ELSE Go(t, "idle") /\ UNCHANGED <<op_count, then>>
  /\ UNCHANGED <<slotVars, mu, bufVars, encVars, lazy_commit, count, opVars,
                 scopes, mark, wait, calls>>

-------------------------------------------------------------------------------
(* synchronize(): commit the active buffer under mu, then take all the slots   *)
(* and give them back.                                                         *)

SyncCall(t) ==
  /\ Call(t, "sync")
  /\ mark' = [mark EXCEPT ![t] = created]
  /\ Go(t, "sync_lock")
  /\ UNCHANGED <<slotVars, mu, bufVars, encVars, lazy_commit, cntVars, opVars, then, scopes, wait>>

SyncLock(t) ==
  /\ At(t, "sync_lock") /\ Free
  /\ \/ active = 0 /\ Go(t, "collect") /\ UNCHANGED mu
     \/ active # 0 /\ Go(t, "sync_acquire") /\ mu' = t
  /\ UNCHANGED <<slotVars, bufVars, encVars, lazy_commit, cntVars, opVars, ctlVars, calls>>

SyncCommit(t) ==
  /\ At(t, "sync_acquire")
  /\ TakeSlotForBuffer /\ CommitActive /\ active' = 0
  /\ mu' = NoThread
  /\ Go(t, "collect")
  /\ UNCHANGED <<created, dirty, encVars, lazy_commit, cntVars, opVars, ctlVars, calls>>

\* Mutant of Collect: the loop stops one slot early.
CollectOneShort(t) ==
  /\ At(t, "collect")
  /\ TakeSlot(t)
  /\ IF held'[t] >= Slots - 1 THEN Go(t, "release") ELSE UNCHANGED pc
  /\ UNCHANGED <<mu, bufVars, encVars, lazy_commit, cntVars, opVars, ctlVars, calls>>

Collect(t) ==
  /\ At(t, "collect")
  /\ TakeSlot(t)
  /\ IF held'[t] = Slots THEN Go(t, "release") ELSE UNCHANGED pc
  /\ UNCHANGED <<mu, bufVars, encVars, lazy_commit, cntVars, opVars, ctlVars, calls>>

Release(t) ==
  /\ At(t, "release")
  /\ in_flight' = in_flight - 1
  /\ held' = [held EXCEPT ![t] = @ - 1]
  /\ IF held'[t] = 0 THEN Go(t, "idle") ELSE UNCHANGED pc
  /\ UNCHANGED <<leaked, mu, bufVars, encVars, lazy_commit, cntVars, opVars, ctlVars, calls>>

-------------------------------------------------------------------------------
(* The RAII scopes.  Both destructors flush and then restore lazy_commit.      *)

BatchEnter(t) ==
  /\ Call(t, "batch") /\ Len(scopes[t]) < MaxDepth
  /\ scopes' = [scopes EXCEPT ![t] =
       <<[kind |-> "batch", encoder |-> FALSE, lazy |-> lazy_commit]>> \o @]
  /\ Go(t, "batch_set")
  /\ UNCHANGED <<slotVars, mu, bufVars, encVars, lazy_commit, cntVars, opVars, then, mark, wait>>

BatchSet(t) ==
  /\ At(t, "batch_set")
  /\ lazy_commit' = TRUE
  /\ Go(t, "idle")
  /\ UNCHANGED <<slotVars, mu, bufVars, encVars, cntVars, opVars, ctlVars, calls>>

\* Mutant of BatchExit: the destructor does not flush.
BatchExitUnflushed(t) ==
  /\ At(t, "idle") /\ scopes[t] # <<>> /\ Head(scopes[t]).kind = "batch"
  /\ Go(t, "restore")
  /\ UNCHANGED <<slotVars, mu, bufVars, encVars, lazy_commit, cntVars, opVars, ctlVars, calls>>

BatchExit(t) ==
  /\ At(t, "idle") /\ scopes[t] # <<>> /\ Head(scopes[t]).kind = "batch"
  /\ then' = [then EXCEPT ![t] = "restore"]
  /\ Go(t, "flush_lock")
  /\ UNCHANGED <<slotVars, mu, bufVars, encVars, lazy_commit, cntVars, opVars,
                 scopes, mark, wait, calls>>

\* Mutant of Restore: eager mode is restored whatever it was before.
RestoreEager(t) ==
  /\ At(t, "restore")
  /\ lazy_commit' = FALSE
  /\ scopes' = [scopes EXCEPT ![t] = Tail(@)]
  /\ Go(t, "idle")
  /\ UNCHANGED <<slotVars, mu, bufVars, encVars, cntVars, opVars, then, mark, wait, calls>>

Restore(t) ==
  /\ At(t, "restore")
  /\ lazy_commit' = Head(scopes[t]).lazy
  /\ scopes' = [scopes EXCEPT ![t] = Tail(@)]
  /\ Go(t, "idle")
  /\ UNCHANGED <<slotVars, mu, bufVars, encVars, cntVars, opVars, then, mark, wait, calls>>

\* The member initialisers read the two flags without mu.
EncoderEnter(t) ==
  /\ Call(t, "encoder") /\ Len(scopes[t]) < MaxDepth
  /\ scopes' = [scopes EXCEPT ![t] =
       <<[kind |-> "encoder", encoder |-> encoder_scope_active, lazy |-> lazy_commit]>> \o @]
  /\ Go(t, "encoder_lock")
  /\ UNCHANGED <<slotVars, mu, bufVars, encVars, lazy_commit, cntVars, opVars, then, mark, wait>>

EncoderOpen(t) ==
  /\ At(t, "encoder_lock") /\ Free
  /\ lazy_commit' = TRUE /\ encoder_scope_active' = TRUE
  /\ IF active_encoder = 0
       THEN EnsureBuffer /\ active_encoder' = active' /\ encoder_op_count' = 0
       ELSE UNCHANGED <<active, created, active_encoder, encoder_op_count>>
  /\ Go(t, "idle")
  /\ UNCHANGED <<slotVars, mu, gpu, dirty, lazy0, cntVars, opVars, ctlVars, calls>>

\* Mutant of EncoderExit: the outer scope's encoder is not reopened.
EncoderExitUnopened(t) ==
  /\ At(t, "idle") /\ scopes[t] # <<>> /\ Head(scopes[t]).kind = "encoder" /\ Free
  /\ encoder_scope_active' = Head(scopes[t]).encoder
  /\ active_encoder' = 0 /\ encoder_op_count' = 0
  /\ then' = [then EXCEPT ![t] = "restore"]
  /\ Go(t, IF encoder_scope_active' THEN "restore" ELSE "flush_lock")
  /\ UNCHANGED <<slotVars, mu, bufVars, lazy0, lazy_commit, cntVars, opVars, scopes,
                 mark, wait, calls>>

\* Ends the encoder; reopens one for an outer scope, else flushes.
EncoderExit(t) ==
  /\ At(t, "idle") /\ scopes[t] # <<>> /\ Head(scopes[t]).kind = "encoder" /\ Free
  /\ encoder_scope_active' = Head(scopes[t]).encoder
  /\ active_encoder' = IF encoder_scope_active' THEN active ELSE 0
  /\ encoder_op_count' = IF {active_encoder, active_encoder'} = {0} THEN encoder_op_count ELSE 0
  /\ then' = [then EXCEPT ![t] = "restore"]
  /\ Go(t, IF encoder_scope_active' THEN "restore" ELSE "flush_lock")
  /\ UNCHANGED <<slotVars, mu, bufVars, lazy0, lazy_commit, cntVars, opVars, scopes,
                 mark, wait, calls>>

\* current_encoder() by an operation that encodes into the shared encoder, which
\* is rotated once it holds adaptive_encoder_max_ops operations.
Encode(t) ==
  \E limit \in EncoderLimits :
    /\ Call(t, "encode") /\ Free
    /\ encoder_scope_active /\ active_encoder # 0
    /\ IF encoder_op_count >= limit
         THEN /\ active_encoder' = 0 /\ mu' = t
              /\ Go(t, "rotate")
              /\ UNCHANGED <<dirty, encoder_op_count>>
         ELSE /\ dirty' = dirty \cup {<<t, active_encoder, calls'>>}
              /\ encoder_op_count' = encoder_op_count + 1
              /\ UNCHANGED <<active_encoder, mu, pc>>
    /\ UNCHANGED <<slotVars, active, created, gpu, encoder_scope_active, lazy0, lazy_commit,
                   cntVars, opVars, ctlVars>>

\* Without an active buffer the handler is added to nil and the slot is lost.
Rotate(t) ==
  /\ At(t, "rotate")
  /\ \/ active # 0 /\ TakeSlotForBuffer /\ CommitActive
     \/ /\ active = 0 /\ HasSlot
        /\ in_flight' = in_flight + 1 /\ leaked' = leaked + 1
        /\ UNCHANGED <<held, gpu>>
  /\ NewBuffer
  /\ active_encoder' = active' /\ encoder_op_count' = 1
  /\ dirty' = dirty \cup {<<t, active', calls>>}
  /\ mu' = NoThread
  /\ Go(t, "idle")
  /\ UNCHANGED <<encoder_scope_active, lazy0, lazy_commit, cntVars, opVars, ctlVars, calls>>

-------------------------------------------------------------------------------
(* MNDevice::synchronize() as the read-back paths call it: an empty buffer on  *)
(* the same queue, whose completion follows that of all committed before it.   *)

ReadbackCall(t) ==
  /\ Call(t, "readback")
  /\ wait' = [wait EXCEPT ![t] = gpu]
  /\ Go(t, "barrier")
  /\ UNCHANGED <<slotVars, mu, bufVars, encVars, lazy_commit, cntVars, opVars, then, scopes, mark>>

ReadbackWait(t) ==
  /\ At(t, "barrier") /\ wait[t] \cap gpu = {}
  /\ Go(t, "read")
  /\ UNCHANGED <<slotVars, mu, bufVars, encVars, lazy_commit, cntVars, opVars, ctlVars, calls>>

ReadbackCopy(t) ==
  /\ At(t, "read")
  /\ Go(t, "idle")
  /\ UNCHANGED <<slotVars, mu, bufVars, encVars, lazy_commit, cntVars, opVars, ctlVars, calls>>

\* The queue completes its oldest buffer and calls the handler: release().
GpuComplete ==
  \E b \in gpu :
    /\ \A c \in gpu : b <= c
    /\ gpu' = gpu \ {b}
    /\ dirty' = {d \in dirty : d[2] # b}
    /\ in_flight' = in_flight - 1
    /\ UNCHANGED <<held, leaked, mu, active, created, encVars, lazy_commit, cntVars, pc,
                   opVars, ctlVars, calls>>

-------------------------------------------------------------------------------
\* The client starts a call or leaves a scope when it likes.
Client(t) ==
  \/ OpBegin(t) \/ CommitCall(t) \/ FlushCall(t) \/ RecordCall(t) \/ SyncCall(t)
  \/ BatchEnter(t) \/ BatchExit(t) \/ EncoderEnter(t) \/ EncoderExit(t)
  \/ Encode(t) \/ ReadbackCall(t)

\* A call under way goes on.
Step(t) ==
  \/ OpOpen(t) \/ OpClose(t) \/ ContCount(t) \/ ContDecide(t) \/ ContReset(t)
  \/ AcquireFirst(t) \/ NothingToCommit(t) \/ ContCommit(t) \/ Commit(t)
  \/ FlushLock(t) \/ FlushCommit(t) \/ RecordDecide(t)
  \/ SyncLock(t) \/ SyncCommit(t) \/ Collect(t) \/ Release(t)
  \/ BatchSet(t) \/ Restore(t) \/ EncoderOpen(t) \/ Rotate(t)
  \/ ReadbackWait(t) \/ ReadbackCopy(t)

Next == GpuComplete \/ \E t \in Threads : Client(t) \/ Step(t)

\* Running threads are scheduled, and the GPU finishes what it was given.
Fairness == WF_vars(GpuComplete) /\ \A t \in Threads : WF_vars(Step(t))

Spec == Init /\ [][Next]_vars /\ Fairness

-------------------------------------------------------------------------------
(* Properties.                                                                 *)

\* Every slot counted in in_flight_ belongs to a committed buffer, to a thread on
\* its way to pass it on or give it back, or was lost by commit(),
\* commit_and_continue() or the encoder rotation finding no buffer
\* (command_pipeline.mm:141-147, 168-174, 330-336).
SlotHolders ==
  ({"buffer"} \X gpu \X {0}) \cup ({"lost"} \X (1 .. leaked) \X {0})
    \cup {h \in {"thread"} \X Threads \X (1 .. Slots) : h[3] <= held[h[2]]}
SlotsConserved == in_flight = Cardinality(SlotHolders)

\* "Block until all in-flight command buffers have completed": once synchronize()
\* has collected the slots, no buffer that existed when it was called is still
\* active or on the GPU, whatever the other threads committed meanwhile
\* (command_pipeline.mm:192-220).
SyncComplete ==
  \A t \in Threads : pc[t] = "release" => \A b \in gpu \cup {active} : b = 0 \/ b > mark[t]

\* "Operations should check this before creating their own encoder": Metal has at most
\* one encoder open on a buffer, and none when the buffer is committed
\* (command_pipeline.h:134-141, 156-158, ops/elementwise.mm:56-78).
EncodersLegal ==
  /\ active_encoder \in {0, active}
  /\ \A o \in open : o[2] = active /\ active_encoder = 0
  /\ \A o, p \in open : o = p

\* A thread in an encoder scope always finds the scope's encoder open on the
\* active buffer, whatever operations it performed there and after any inner scope has
\* ended: the auto-flush leaves the buffer alone "to avoid invalidating the active
\* encoder" (command_pipeline.mm:124-137, 272-284, 410-444).
OuterScopeKeepsEncoder ==
  \A t \in Threads : pc[t] = "idle" /\ InScope(t, "encoder")
                       => encoder_scope_active /\ active_encoder = active /\ active # 0

\* Within any scope commits are lazy; once all are left, lazy_commit and the
\* encoder scope are what they were before (command_pipeline.mm:298-308, 410-444).
ScopesRestore ==
  (\A t \in Threads : pc[t] = "idle") =>
    IF \A t \in Threads : scopes[t] = <<>>
      THEN lazy_commit = lazy0 /\ ~encoder_scope_active /\ active_encoder = 0
      ELSE lazy_commit

\* Outside lazy mode a thread between calls has submitted all its work: whatever it
\* encoded, with an encoder of its own or with that of a scope, is in a buffer that was
\* committed (command_pipeline.mm:139-162, 305-307, 437-440).
WorkSubmitted ==
  \A t \in Threads : pc[t] = "idle" /\ scopes[t] = <<>> /\ ~lazy_commit
                       => \A d \in dirty : d[1] = t => d[2] \in gpu

\* A thread that reads a tensor back finds all its own work completed.
ReadbackSeesWork == \A t \in Threads : pc[t] = "read" => \A d \in dirty : d[1] # t

\* In lazy mode, when no call is under way, the counter is below the threshold, however
\* its updates and resets interleaved with flushes, scopes and synchronize(), which does
\* not reset it.  What the open buffer holds is another matter, see below
\* (command_pipeline.mm:124-137, 192-210, 272-284).
CounterBelowThreshold ==
  /\ lazy_commit /\ active # 0
  /\ \A t \in Threads : pc[t] = "idle" /\ scopes[t] = <<>>
  => op_count < Threshold

\* "Set the maximum number of operations before auto-flush": in lazy mode, when no call
\* is under way, the open buffer holds fewer operations than the threshold.  The reset
\* after flush() has returned also forgets what other threads have put into the new
\* buffer since (command_pipeline.h:192-198, command_pipeline.mm:132-135).
BufferBelowThreshold ==
  /\ lazy_commit /\ active # 0
  /\ \A t \in Threads : pc[t] = "idle" /\ scopes[t] = <<>>
  => Cardinality({d \in dirty : d[2] = active}) < Threshold

\* As long as no exception has cost a slot, every call returns: no thread waits
\* for ever for mu, for a slot or for the GPU (command_pipeline.mm:141-143,
\* 195-219, 247-250).
CallsReturn ==
  [](leaked = 0) => \A t \in Threads : pc[t] # "idle" ~> pc[t] = "idle"

\* Two calls of synchronize() never hold all the slots between them, each
\* waiting for those of the other.
SyncNotStuck ==
  ~ \E t, u \in Threads : /\ t # u /\ pc[t] = "collect" /\ pc[u] = "collect"
                          /\ held[t] + held[u] = Slots

-------------------------------------------------------------------------------
(* The inductive invariant behind TypeOK, SlotsConserved and SyncComplete.     *)

\* A thread holds slots only where the code is between acquire() and the commit
\* or the release() they are for.
HeldByPC ==
  \A t \in Threads :
    /\ pc[t] \in {"cont_lock", "commit_lock"} => held[t] = 1
    /\ pc[t] = "collect" => held[t] < Slots
    /\ pc[t] = "release" => held[t] > 0
    /\ pc[t] \notin {"cont_lock", "commit_lock", "collect", "release"} => held[t] = 0

\* mu is held across a blocking acquire, and the active buffer waits meanwhile.
MuHolder ==
  \A t \in Threads :
    /\ mu = t <=> pc[t] \in {"sync_acquire", "flush_acquire", "rotate"}
    /\ pc[t] \in {"sync_acquire", "flush_acquire"} => active # 0

\* A destructor restores the state its own scope saved.
Destructing ==
  \A t \in Threads :
    \/ pc[t] = "restore"
    \/ pc[t] \in {"flush_lock", "flush_acquire"} /\ then[t] = "restore"
    => scopes[t] # <<>>

\* Once its own commit is done, synchronize() leaves only later buffers behind.
SyncProgress ==
  \A t \in Threads :
    /\ mark[t] <= created
    /\ pc[t] \in {"collect", "release"} => active = 0 \/ active > mark[t]

IInv == /\ TypeOK /\ HeldByPC /\ MuHolder /\ Destructing
        /\ IsFiniteSet(SlotHolders) /\ SlotsConserved
        /\ SyncProgress /\ SyncComplete
===============================================================================
