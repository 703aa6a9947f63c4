----------------------------- MODULE WorkerThread -----------------------------
(***************************************************************************)
(* WorkerThread (dispatch/worker_thread.cpp): one worker, a FIFO of tasks  *)
(* under the mutex mu, two condition variables.  Any thread may submit()   *)
(* or drain(); one owner calls start() and stop().  A critical section of  *)
(* mu is one step, every atomic read or write outside it is another, and a *)
(* thread in a condition variable sleeps until it is notified (or wakes    *)
(* for no reason) and then tests its predicate again.                      *)
(*                                                                         *)
(* A task is the number of its acceptance: the n-th task pushed is n.      *)
(***************************************************************************)
EXTENDS Naturals, Sequences

CONSTANTS Submitters, Drainers,
          MaxTasks,   \* bound: submit() is called only below this many tasks
          MaxStops    \* bound: calls of stop() that find the thread running

ASSUME WorkerAssumption == MaxTasks \in Nat /\ MaxStops \in Nat

VARIABLES
  running,          \* atomic running
  drain_waiters,    \* atomic drain_waiters
  stop_requested,   \* guarded by mu
  queue,            \* guarded by mu
  worker,           \* where the worker thread is; "none" when not joinable
  current,          \* the task the worker has popped, 0 if none
  owner,            \* where the caller of start() and stop() is
  spc, dpc,         \* where the submitters and drainers are
  accepted,         \* history: tasks pushed so far
  executed,         \* history: tasks run to completion, in order
  stop_mark,        \* history: accepted when stop() set its flag
  drain_mark,       \* history: accepted when each drain() was called
  stops             \* stop() calls counted against MaxStops

workerVars == <<running, drain_waiters, stop_requested, queue, worker, current, owner,
                spc, dpc, accepted, executed, stop_mark, drain_mark, stops>>

WorkerPC == {"none", "loop", "asleep", "exec", "report", "notify", "exited"}
OwnerPC == {"idle", "clear", "spawn", "mark", "request", "wake", "join", "unmark"}
SubmitterPC == {"idle", "push", "wake"}
DrainerPC == {"idle", "lock", "asleep"}

WorkerTypeOK == /\ running \in BOOLEAN /\ drain_waiters \in BOOLEAN
                /\ stop_requested \in BOOLEAN
                /\ queue \in Seq(Nat \ {0}) /\ executed \in Seq(Nat \ {0})
                /\ accepted \in Nat
                /\ current \in Nat /\ (worker = "exec" <=> current # 0)
                /\ worker \in WorkerPC /\ owner \in OwnerPC
                /\ spc \in [Submitters -> SubmitterPC]
                /\ dpc \in [Drainers -> DrainerPC]
                /\ stop_mark \in Nat /\ stops \in Nat
                /\ drain_mark \in [Drainers -> Nat]

WorkerInit == /\ running = FALSE /\ drain_waiters = FALSE /\ stop_requested = FALSE
              /\ queue = <<>> /\ executed = <<>> /\ current = 0 /\ accepted = 0
              /\ worker = "none" /\ owner = "idle"
              /\ spc = [s \in Submitters |-> "idle"]
              /\ dpc = [d \in Drainers |-> "idle"]
              /\ stop_mark = 0 /\ stops = 0
              /\ drain_mark = [d \in Drainers |-> 0]

callers == <<owner, spc, dpc, drain_mark, stop_mark, stops>>

\* work_cv.notify_one(): only the worker ever waits on work_cv.
WakeWorker == worker' = IF worker = "asleep" THEN "loop" ELSE worker

-------------------------------------------------------------------------------
(* The worker loop, Impl::run *)

\* Mutant: the worker leaves as soon as a stop is requested.
ExitUndrained == /\ worker = "loop"
                 /\ stop_requested
                 /\ worker' = "exited"
                 /\ UNCHANGED <<running, drain_waiters, stop_requested, queue,
                                current, accepted, executed, callers>>

Exit == /\ worker = "loop"
        /\ stop_requested /\ queue = <<>>
        /\ worker' = "exited"
        /\ UNCHANGED <<running, drain_waiters, stop_requested, queue, current,
                       accepted, executed, callers>>

WaitForWork == /\ worker = "loop"
               /\ ~stop_requested /\ queue = <<>>
               /\ worker' = "asleep"
               /\ UNCHANGED <<running, drain_waiters, stop_requested, queue, current,
                              accepted, executed, callers>>

SpuriousWorkWake == /\ worker = "asleep"
                    /\ worker' = "loop"
                    /\ UNCHANGED <<running, drain_waiters, stop_requested, queue,
                                   current, accepted, executed, callers>>

\* Mutant: the newest task is taken.
TakeBack == /\ worker = "loop"
            /\ queue # <<>>
            /\ current' = queue[Len(queue)]
            /\ queue' = SubSeq(queue, 1, Len(queue) - 1)
            /\ worker' = "exec"
            /\ UNCHANGED <<running, drain_waiters, stop_requested, accepted,
                           executed, callers>>

Take == /\ worker = "loop"
        /\ queue # <<>>
        /\ current' = Head(queue)
        /\ queue' = Tail(queue)
        /\ worker' = "exec"
        /\ UNCHANGED <<running, drain_waiters, stop_requested, accepted, executed,
                       callers>>

\* The task runs outside mu and may take any time.
Execute == /\ worker = "exec"
           /\ executed' = Append(executed, current)
           /\ current' = 0
           /\ worker' = "report"
           /\ UNCHANGED <<running, drain_waiters, stop_requested, queue, accepted,
                          callers>>

\* drain_waiters is read before mu is taken.
Report == /\ worker = "report"
          /\ worker' = IF drain_waiters THEN "notify" ELSE "loop"
          /\ UNCHANGED <<running, drain_waiters, stop_requested, queue, current,
                         accepted, executed, callers>>

NotifyDrained == /\ worker = "notify"
                 /\ worker' = "loop"
                 /\ dpc' = IF queue = <<>>
                           THEN [d \in Drainers |->
                                   IF dpc[d] = "asleep" THEN "lock" ELSE dpc[d]]
                           ELSE dpc
                 /\ UNCHANGED <<running, drain_waiters, stop_requested, queue, current,
                                accepted, executed, owner, spc, drain_mark, stop_mark,
                                stops>>

Run == \/ Exit \/ WaitForWork \/ Take \/ Execute \/ Report \/ NotifyDrained
-------------------------------------------------------------------------------
(* submit() *)

\* running is tested without mu; below it the exception leaves no trace.
SubmitCheck(s) == /\ spc[s] = "idle"
                  /\ accepted < MaxTasks
                  /\ running
                  /\ spc' = [spc EXCEPT ![s] = "push"]
                  /\ UNCHANGED <<running, drain_waiters, stop_requested, queue, worker,
                                 current, owner, dpc, accepted, executed, stop_mark,
                                 drain_mark, stops>>

SubmitPush(s) == /\ spc[s] = "push"
                 /\ accepted' = accepted + 1
                 /\ queue' = Append(queue, accepted + 1)
                 /\ spc' = [spc EXCEPT ![s] = "wake"]
                 /\ UNCHANGED <<running, drain_waiters, stop_requested, worker, current,
                                owner, dpc, executed, stop_mark, drain_mark, stops>>

\* Mutant: notify only when the queue now holds a single task.
SubmitWakeIfFirst(s) ==
  /\ spc[s] = "wake"
  /\ spc' = [spc EXCEPT ![s] = "idle"]
  /\ IF Len(queue) = 1 THEN WakeWorker ELSE worker' = worker
  /\ UNCHANGED <<running, drain_waiters, stop_requested, queue, current, owner, dpc,
                 accepted, executed, stop_mark, drain_mark, stops>>

SubmitWake(s) == /\ spc[s] = "wake"
                 /\ spc' = [spc EXCEPT ![s] = "idle"]
                 /\ WakeWorker
                 /\ UNCHANGED <<running, drain_waiters, stop_requested, queue, current,
                                owner, dpc, accepted, executed, stop_mark, drain_mark,
                                stops>>

Submit(s) == SubmitCheck(s) \/ SubmitPush(s) \/ SubmitWake(s)
-------------------------------------------------------------------------------
(* drain() *)

\* The flag is set before mu is taken.
DrainFlag(d) == /\ dpc[d] = "idle"
                /\ drain_waiters' = TRUE
                /\ dpc' = [dpc EXCEPT ![d] = "lock"]
                /\ drain_mark' = [drain_mark EXCEPT ![d] = accepted]
                /\ UNCHANGED <<running, stop_requested, queue, worker, current, owner,
                               spc, accepted, executed, stop_mark, stops>>

\* Mutant: drain() clears its flag before going to sleep.
DrainTestClears(d) ==
  /\ dpc[d] = "lock"
  /\ dpc' = [dpc EXCEPT ![d] = IF queue = <<>> THEN "idle" ELSE "asleep"]
  /\ drain_waiters' = FALSE
  /\ UNCHANGED <<running, stop_requested, queue, worker, current, owner, spc,
                 accepted, executed, stop_mark, drain_mark, stops>>

\* Mutant: a worker between two tasks is taken for one that has drained the queue.
DrainTestOnce(d) ==
  /\ dpc[d] = "lock"
  /\ dpc' = [dpc EXCEPT ![d] = IF queue = <<>> \/ worker = "report" THEN "idle"
                               ELSE "asleep"]
  /\ drain_waiters' = (drain_waiters /\ dpc'[d] # "idle")
  /\ UNCHANGED <<running, stop_requested, queue, worker, current, owner, spc,
                 accepted, executed, stop_mark, drain_mark, stops>>

\* With mu held: the predicate, and when it holds the flag is cleared on the way out.
DrainTest(d) == /\ dpc[d] = "lock"
                /\ \/ /\ queue = <<>>
                      /\ dpc' = [dpc EXCEPT ![d] = "idle"]
                      /\ drain_waiters' = FALSE
                   \/ /\ queue # <<>>
                      /\ dpc' = [dpc EXCEPT ![d] = "asleep"]
                      /\ UNCHANGED drain_waiters
                /\ UNCHANGED <<running, stop_requested, queue, worker, current, owner,
                               spc, accepted, executed, stop_mark, drain_mark, stops>>

SpuriousDrainWake(d) == /\ dpc[d] = "asleep"
                        /\ dpc' = [dpc EXCEPT ![d] = "lock"]
                        /\ UNCHANGED <<running, drain_waiters, stop_requested, queue,
                                       worker, current, owner, spc, accepted, executed,
                                       stop_mark, drain_mark, stops>>

Drain(d) == DrainFlag(d) \/ DrainTest(d) \/ SpuriousDrainWake(d)
-------------------------------------------------------------------------------
(* start() and stop(), each a no-op when running says there is nothing to do *)

others == <<queue, current, spc, dpc, accepted, executed, drain_mark,
                drain_waiters>>

StartCheck == /\ owner = "idle" /\ ~running
              /\ owner' = "clear"
              /\ UNCHANGED <<running, stop_requested, worker, stop_mark, stops, others>>

StartClear == /\ owner = "clear"
              /\ stop_requested' = FALSE
              /\ owner' = "spawn"
              /\ UNCHANGED <<running, worker, stop_mark, stops, others>>

StartSpawn == /\ owner = "spawn"
              /\ worker' = "loop"
              /\ owner' = "mark"
              /\ UNCHANGED <<running, stop_requested, stop_mark, stops, others>>

StartMark == /\ owner = "mark"
             /\ running' = TRUE
             /\ owner' = "idle"
             /\ UNCHANGED <<stop_requested, worker, stop_mark, stops, others>>

StopCheck == /\ owner = "idle" /\ running /\ stops < MaxStops
             /\ stops' = stops + 1
             /\ owner' = "request"
             /\ UNCHANGED <<running, stop_requested, worker, stop_mark, others>>

StopRequest == /\ owner = "request"
               /\ stop_requested' = TRUE
               /\ stop_mark' = accepted
               /\ owner' = "wake"
               /\ UNCHANGED <<running, worker, stops, others>>

\* Mutant: stop() joins without waking the worker.
StopJoinsAsleep == /\ owner = "wake"
                   /\ owner' = "join"
                   /\ UNCHANGED <<running, worker, stop_requested, stop_mark, stops,
                                  others>>

StopWake == /\ owner = "wake"
            /\ WakeWorker
            /\ owner' = "join"
            /\ UNCHANGED <<running, stop_requested, stop_mark, stops, others>>

StopJoin == /\ owner = "join"
            /\ worker = "exited"
            /\ worker' = "none"
            /\ owner' = "unmark"
            /\ UNCHANGED <<running, stop_requested, stop_mark, stops, others>>

StopMark == /\ owner = "unmark"
            /\ running' = FALSE
            /\ owner' = "idle"
            /\ UNCHANGED <<stop_requested, worker, stop_mark, stops, others>>

Own == \/ StartCheck \/ StartClear \/ StartSpawn \/ StartMark
       \/ StopCheck \/ StopRequest \/ StopWake \/ StopJoin \/ StopMark
-------------------------------------------------------------------------------
WorkerNext == \/ Run \/ SpuriousWorkWake \/ Own
              \/ \E s \in Submitters : Submit(s)
              \/ \E d \in Drainers : Drain(d)

WorkerSafety == WorkerInit /\ [][WorkerNext]_workerVars

(* Threads that can run do run and tasks end; a call once begun goes on.   *)
(* Nobody is obliged to call submit(), drain(), stop(), and no spurious    *)
(* wake-up is promised.                                                    *)
WorkerFairness == /\ WF_workerVars(Run)
                  /\ \A s \in Submitters : WF_workerVars(SubmitPush(s) \/ SubmitWake(s))
                  /\ \A d \in Drainers : WF_workerVars(DrainTest(d))
                  /\ WF_workerVars(Own /\ owner # "idle")

WorkerSpec == WorkerSafety /\ WorkerFairness
-------------------------------------------------------------------------------
(* Properties *)

Numbered(seq, from) == \A i \in 1 .. Len(seq) : seq[i] = from + i

\* Tasks taken from the queue so far.
Popped == Len(executed) + (IF worker = "exec" THEN 1 ELSE 0)

(* Tasks run in the order of submission, each exactly once: what has run,  *)
(* the one in hand and the queue are together 1, 2, ..., accepted.         *)
FifoExactlyOnce ==
  /\ Numbered(executed, 0)
  /\ worker = "exec" => current = Popped
  /\ Numbered(queue, Popped)
  /\ accepted = Popped + Len(queue)

(* stop() "drains the queue first, then joins": once it has joined, every  *)
(* task accepted before it raised its flag has run.                        *)
StopDrains == owner = "unmark" => Len(executed) >= stop_mark

(* drain() never returns while a task submitted before the call has not    *)
(* even been taken from the queue.                                         *)
DrainPopsAll ==
  [][\A d \in Drainers :
       dpc[d] = "lock" /\ dpc'[d] = "idle" => drain_mark[d] <= Popped]_workerVars

(* How the owner's progress through start() and stop() confines the        *)
(* worker: what StopDrains needs to be inductive.                          *)
Lifecycle ==
  /\ stop_mark <= accepted
  /\ \A d \in Drainers : drain_mark[d] <= accepted
  /\ owner \in {"clear", "spawn"} => ~running
  /\ owner = "request" => running
  /\ owner = "spawn" => ~stop_requested
  /\ owner \in {"mark", "request"} \/ (owner = "idle" /\ running) =>
       ~stop_requested /\ worker \notin {"none", "exited"}
  /\ owner \in {"clear", "spawn", "unmark"} \/ (owner = "idle" /\ ~running) =>
       worker = "none"
  /\ owner = "unmark" \/ worker = "exited" => Len(executed) >= stop_mark

WorkerInv == WorkerTypeOK /\ FifoExactlyOnce /\ Lifecycle

(* stop() always returns from joining the worker (worker_thread.cpp:99-108).*)
StopReturns == owner = "join" ~> owner = "idle"

(* From some time on the worker is started and nobody stops it.            *)
LeftRunning == <>[](running /\ owner = "idle")

(* Then every call of drain() returns, and every task accepted runs, those *)
(* that a stop() raced with and left behind included.                      *)
DrainReturns == LeftRunning => \A d \in Drainers : dpc[d] # "idle" ~> dpc[d] = "idle"
AcceptedRuns == LeftRunning => \A n \in 1 .. MaxTasks : accepted >= n ~> Len(executed) >= n
===============================================================================
