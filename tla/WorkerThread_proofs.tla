-------------------------- MODULE WorkerThread_proofs --------------------------
(***************************************************************************)
(* Proofs about the worker thread, for any sets of submitters and drainers *)
(* and any number of tasks, stops and restarts.                            *)
(***************************************************************************)
EXTENDS WorkerThread, SequenceTheorems, TLAPS

Task == Nat \ {0}

LEMMA InitIInv == WorkerInit => WorkerInv
<1> SUFFICES ASSUME WorkerInit PROVE WorkerInv
  OBVIOUS
<1>1. WorkerTypeOK
  BY EmptySeq DEF WorkerInit, WorkerTypeOK, WorkerPC, OwnerPC, SubmitterPC, DrainerPC
<1>2. FifoExactlyOnce /\ Lifecycle
  BY EmptySeq DEF WorkerInit, FifoExactlyOnce, Popped, Numbered, Lifecycle
<1> QED BY <1>1, <1>2 DEF WorkerInv

(* Popping the head and pushing at the back keep a numbered queue numbered.*)
LEMMA NumberedTail ==
  ASSUME NEW q \in Seq(Task), q # <<>>, NEW n \in Nat, Numbered(q, n)
  PROVE  /\ Head(q) = n + 1 /\ Head(q) \in Task /\ Tail(q) \in Seq(Task)
         /\ Len(Tail(q)) = Len(q) - 1 /\ Len(q) \in Nat
         /\ Numbered(Tail(q), n + 1)
<1>1. /\ Tail(q) \in Seq(Task) /\ Len(Tail(q)) = Len(q) - 1 /\ Len(q) \in Nat \ {0}
      /\ Head(q) \in Task /\ \A i \in 1 .. Len(Tail(q)) : Tail(q)[i] = q[i + 1]
  BY HeadTailProperties, EmptySeq
<1>2. Head(q) = q[1]
  OBVIOUS
<1> QED BY <1>1, <1>2 DEF Numbered

LEMMA NumberedAppend ==
  ASSUME NEW T, NEW q \in Seq(T), NEW n \in Nat, Numbered(q, n),
         NEW x \in T, x = n + Len(q) + 1
  PROVE  /\ Append(q, x) \in Seq(T) /\ Len(q) \in Nat
         /\ Len(Append(q, x)) = Len(q) + 1
         /\ Numbered(Append(q, x), n)
BY AppendProperties, LenProperties DEF Numbered

LEMMA Lengths ==
  ASSUME WorkerTypeOK
  PROVE  Len(queue) \in Nat /\ Len(executed) \in Nat /\ Popped \in Nat
BY LenProperties DEF WorkerTypeOK, Popped

-------------------------------------------------------------------------------
(* One lemma per part of the program: the worker loop, the callers, the    *)
(* owner.                                                                  *)
LEMMA RunStep == WorkerInv /\ (Run \/ SpuriousWorkWake) => WorkerInv'
<1> SUFFICES ASSUME WorkerInv, Run \/ SpuriousWorkWake PROVE WorkerInv'
  OBVIOUS
<1> USE DEF WorkerInv, callers
<1>l. Len(queue) \in Nat /\ Len(executed) \in Nat /\ Popped \in Nat
  BY Lengths
<1>1. CASE Exit
  BY <1>1, <1>l DEF Exit, WorkerTypeOK, FifoExactlyOnce, Popped, Lifecycle, WorkerPC, OwnerPC
<1>2. CASE WaitForWork \/ SpuriousWorkWake \/ Report
  <2>1. /\ UNCHANGED <<running, drain_waiters, stop_requested, queue, current, accepted,
                         executed, callers>>
        /\ worker \in {"loop", "asleep", "report"}
        /\ worker' \in {"loop", "asleep", "notify"}
    BY <1>2 DEF WaitForWork, SpuriousWorkWake, Report
  <2>2. WorkerTypeOK'
    BY <2>1 DEF WorkerTypeOK, WorkerPC
  <2>3. FifoExactlyOnce' /\ Lifecycle'
    BY <2>1 DEF FifoExactlyOnce, Popped, Numbered, Lifecycle
  <2> QED BY <2>2, <2>3
<1>3. CASE Take
  <2>1. /\ Head(queue) = Popped + 1 /\ Head(queue) \in Task /\ Tail(queue) \in Seq(Task)
        /\ Len(Tail(queue)) = Len(queue) - 1 /\ Numbered(Tail(queue), Popped + 1)
    BY <1>3, <1>l, NumberedTail DEF Take, WorkerTypeOK, FifoExactlyOnce, Task
  <2>2. Popped' = Popped + 1
    BY <1>3, <1>l DEF Take, Popped, WorkerTypeOK
  <2>3. WorkerTypeOK'
    BY <1>3, <2>1 DEF Take, WorkerTypeOK, WorkerPC, Task
  <2>4. FifoExactlyOnce'
    BY <1>3, <1>l, <2>1, <2>2 DEF Take, FifoExactlyOnce, Numbered
  <2>5. Lifecycle'
    BY <1>3 DEF Take, Lifecycle
  <2> QED BY <2>3, <2>4, <2>5
<1>4. CASE Execute
  <2>0. current \in Nat /\ current = Len(executed) + 1 /\ Popped = Len(executed) + 1
    BY <1>4, <1>l DEF Execute, WorkerTypeOK, FifoExactlyOnce, Popped
  <2>1. /\ executed' \in Seq(Task) /\ Len(executed') = Len(executed) + 1
        /\ Numbered(executed', 0)
    <3>1. executed \in Seq(Task) /\ Numbered(executed, 0) /\ executed' = Append(executed, current)
      BY <1>4 DEF Execute, WorkerTypeOK, FifoExactlyOnce, Task
    <3>2. current \in Task /\ current = 0 + Len(executed) + 1
      BY <2>0, <1>l DEF Task
    <3> QED BY <3>1, <3>2, NumberedAppend
  <2>2. Popped' = Popped
    BY <1>4, <1>l, <2>0, <2>1 DEF Execute, Popped
  <2>3. WorkerTypeOK'
    BY <1>4, <2>1 DEF Execute, WorkerTypeOK, WorkerPC, Task
  <2>4. FifoExactlyOnce'
    BY <1>4, <2>1, <2>2 DEF Execute, FifoExactlyOnce, Numbered
  <2>5. Lifecycle'
    BY <1>4, <1>l, <2>1 DEF Execute, Lifecycle, WorkerTypeOK
  <2> QED BY <2>3, <2>4, <2>5
<1>5. CASE NotifyDrained
  <2>1. WorkerTypeOK'
    BY <1>5 DEF NotifyDrained, WorkerTypeOK, WorkerPC, DrainerPC
  <2> QED BY <1>5, <1>l, <2>1 DEF NotifyDrained, WorkerTypeOK, FifoExactlyOnce, Popped,
                                  Numbered, Lifecycle
<1> QED BY <1>1, <1>2, <1>3, <1>4, <1>5 DEF Run

LEMMA SubmitStep == ASSUME NEW s \in Submitters PROVE WorkerInv /\ Submit(s) => WorkerInv'
<1> SUFFICES ASSUME WorkerInv, Submit(s) PROVE WorkerInv'
  OBVIOUS
<1> USE DEF WorkerInv
<1>l. Len(queue) \in Nat /\ Len(executed) \in Nat /\ Popped \in Nat
  BY Lengths
<1>1. CASE SubmitCheck(s)
  <2>1. WorkerTypeOK'
    BY <1>1 DEF SubmitCheck, WorkerTypeOK, SubmitterPC
  <2> QED BY <1>1, <2>1 DEF SubmitCheck, FifoExactlyOnce, Popped, Numbered, Lifecycle
<1>2. CASE SubmitPush(s)
  <2>1. /\ queue' \in Seq(Task) /\ Len(queue') = Len(queue) + 1
        /\ Numbered(queue', Popped)
    <3>1. queue \in Seq(Task) /\ Numbered(queue, Popped) /\ queue' = Append(queue, accepted + 1)
      BY <1>2 DEF SubmitPush, WorkerTypeOK, FifoExactlyOnce, Task
    <3>2. accepted + 1 \in Task /\ accepted + 1 = Popped + Len(queue) + 1
      BY <1>l DEF WorkerTypeOK, FifoExactlyOnce, Task
    <3> QED BY <3>1, <3>2, <1>l, NumberedAppend
  <2>2. Popped' = Popped
    BY <1>2 DEF SubmitPush, Popped
  <2>3. WorkerTypeOK'
    BY <1>2, <2>1 DEF SubmitPush, WorkerTypeOK, SubmitterPC, Task
  <2>4. FifoExactlyOnce'
    BY <1>2, <1>l, <2>1, <2>2 DEF SubmitPush, FifoExactlyOnce, Numbered, WorkerTypeOK
  <2>5. Lifecycle'
    BY <1>2 DEF SubmitPush, Lifecycle, WorkerTypeOK
  <2> QED BY <2>3, <2>4, <2>5
<1>3. CASE SubmitWake(s)
  <2>1. WorkerTypeOK'
    BY <1>3 DEF SubmitWake, WakeWorker, WorkerTypeOK, SubmitterPC, WorkerPC
  <2> QED BY <1>3, <2>1 DEF SubmitWake, WakeWorker, FifoExactlyOnce, Popped, Numbered,
                            Lifecycle
<1> QED BY <1>1, <1>2, <1>3 DEF Submit

LEMMA DrainStep == ASSUME NEW d \in Drainers PROVE WorkerInv /\ Drain(d) => WorkerInv'
<1> SUFFICES ASSUME WorkerInv, Drain(d) PROVE WorkerInv'
  OBVIOUS
<1>1. WorkerTypeOK'
  BY DEF WorkerInv, Drain, DrainFlag, DrainTest, SpuriousDrainWake, WorkerTypeOK, DrainerPC
<1>2. UNCHANGED <<running, stop_requested, queue, worker, current, owner, accepted,
                  executed, stop_mark>>
  BY DEF Drain, DrainFlag, DrainTest, SpuriousDrainWake
<1>4. \A e \in Drainers : drain_mark'[e] <= accepted
  <2>1. accepted <= accepted /\ \A e \in Drainers : drain_mark[e] <= accepted
    BY DEF WorkerInv, WorkerTypeOK, Lifecycle
  <2>2. drain_mark' = drain_mark \/ drain_mark' = [drain_mark EXCEPT ![d] = accepted]
    BY DEF Drain, DrainFlag, DrainTest, SpuriousDrainWake
  <2> QED BY <2>1, <2>2 DEF WorkerInv, WorkerTypeOK
<1>3. FifoExactlyOnce' /\ Lifecycle'
  BY <1>2, <1>4 DEF WorkerInv, FifoExactlyOnce, Popped, Numbered, Lifecycle
<1> QED BY <1>1, <1>3 DEF WorkerInv

LEMMA OwnStep == WorkerInv /\ Own => WorkerInv'
<1> SUFFICES ASSUME WorkerInv, Own PROVE WorkerInv'
  OBVIOUS
<1> USE DEF WorkerInv, others
<1>l. Len(queue) \in Nat /\ Len(executed) \in Nat /\ Popped \in Nat
  BY Lengths
<1>0. /\ UNCHANGED <<queue, executed, current, accepted, spc, dpc, drain_mark, drain_waiters>>
      /\ worker' \in WorkerPC /\ (worker' = "exec" <=> worker = "exec")
  BY DEF Own, StartCheck, StartClear, StartSpawn, StartMark, StopCheck, StopRequest,
         StopWake, StopJoin, StopMark, WakeWorker, WorkerTypeOK, WorkerPC, Lifecycle
<1>1. WorkerTypeOK'
  <2>1. running' \in BOOLEAN /\ stop_requested' \in BOOLEAN /\ owner' \in OwnerPC
    BY DEF Own, StartCheck, StartClear, StartSpawn, StartMark, StopCheck, StopRequest,
           StopWake, StopJoin, StopMark, WorkerTypeOK, OwnerPC
  <2>2. stop_mark' \in Nat /\ stops' \in Nat
    BY DEF Own, StartCheck, StartClear, StartSpawn, StartMark, StopCheck, StopRequest,
           StopWake, StopJoin, StopMark, WorkerTypeOK
  <2> QED BY <1>0, <2>1, <2>2 DEF WorkerTypeOK
<1>2. FifoExactlyOnce'
  BY <1>0 DEF FifoExactlyOnce, Popped, Numbered
<1>3. Lifecycle'
  BY <1>l DEF Own, StartCheck, StartClear, StartSpawn, StartMark, StopCheck, StopRequest,
              StopWake, StopJoin, StopMark, WakeWorker, Lifecycle, WorkerTypeOK
<1> QED BY <1>1, <1>2, <1>3

LEMMA Inductive == WorkerInv /\ [WorkerNext]_workerVars => WorkerInv'
<1>1. WorkerInv /\ UNCHANGED workerVars => WorkerInv'
  BY DEF workerVars, WorkerInv, WorkerTypeOK, FifoExactlyOnce, Popped, Numbered, Lifecycle
<1> QED BY <1>1, RunStep, SubmitStep, DrainStep, OwnStep DEF WorkerNext

(* The worker and the owner are where their flags say in every state.      *)
THEOREM Invariance == WorkerSafety => []WorkerInv
BY InitIInv, Inductive, PTL DEF WorkerSafety

-------------------------------------------------------------------------------
(* submit() and the worker loop: tasks run in the order submitted, each    *)
(* exactly once, whatever stops and restarts come between.                 *)
THEOREM FifoOrder == WorkerSafety => []FifoExactlyOnce
BY Invariance, PTL DEF WorkerInv

(* stop() returns only after every task accepted before it was asked has   *)
(* run.                                                                    *)
THEOREM StopWaits == WorkerSafety => []StopDrains
<1>1. WorkerInv => StopDrains
  BY DEF WorkerInv, Lifecycle, StopDrains
<1> QED BY <1>1, Invariance, PTL

(* drain() returns only when every task submitted before the call has been *)
(* taken from the queue (the last one may still be running).               *)
THEOREM DrainPops == WorkerSafety => DrainPopsAll
<1>1. WorkerInv /\ [WorkerNext]_workerVars =>
        [\A d \in Drainers :
           dpc[d] = "lock" /\ dpc'[d] = "idle" => drain_mark[d] <= Popped]_workerVars
  <2> SUFFICES ASSUME WorkerInv, WorkerNext, NEW d \in Drainers, dpc[d] = "lock", dpc'[d] = "idle"
               PROVE  drain_mark[d] <= Popped
    OBVIOUS
  <2>1. DrainTest(d)
    <3>1. ASSUME NEW e \in Drainers, Drain(e) PROVE DrainTest(d)
      BY <3>1 DEF Drain, DrainFlag, DrainTest, SpuriousDrainWake, WorkerInv, WorkerTypeOK
    <3>2. ASSUME Run \/ SpuriousWorkWake PROVE FALSE
      BY <3>2 DEF Run, SpuriousWorkWake, Exit, WaitForWork, Take, Execute, Report,
                  NotifyDrained, callers, WorkerInv, WorkerTypeOK
    <3>3. ASSUME Own \/ \E s \in Submitters : Submit(s) PROVE FALSE
      BY <3>3 DEF Own, StartCheck, StartClear, StartSpawn, StartMark, StopCheck,
                  StopRequest, StopWake, StopJoin, StopMark, others, Submit, SubmitCheck,
                  SubmitPush, SubmitWake
    <3> QED BY <3>1, <3>2, <3>3 DEF WorkerNext
  <2>2. queue = <<>>
    BY <2>1 DEF DrainTest, WorkerInv, WorkerTypeOK
  <2>3. accepted = Popped
    BY <2>2, Lengths, EmptySeq DEF WorkerInv, FifoExactlyOnce
  <2> QED BY <2>3 DEF WorkerInv, Lifecycle
<1> QED BY <1>1, Invariance, PTL DEF DrainPopsAll, WorkerSafety
===============================================================================
