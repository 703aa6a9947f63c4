----------------------------- MODULE Backpressure -----------------------------
(***************************************************************************)
(* BackpressureController (dispatch/backpressure.cpp) at the grain of its  *)
(* mutex and condition variable.  Each critical section of mu_ is one      *)
(* step; cv_.wait(lock, pred) is a test of the predicate that either       *)
(* leaves or goes to sleep with mu_ released, and a sleeper tests again    *)
(* when it is woken.  release() unlocks before it calls notify_one, so the *)
(* decrement and the notification are two steps.                           *)
(***************************************************************************)
EXTENDS Naturals, FiniteSets

CONSTANTS Callers,      \* threads that call acquire()
          Releasers,    \* threads that call release(): completion handlers
          MaxInFlight   \* max_in_flight_

\* The constructor rejects a limit of zero (backpressure.cpp:15).
ASSUME BackpressureAssumption ==
  /\ MaxInFlight \in Nat \ {0}
  /\ IsFiniteSet(Callers)
  /\ IsFiniteSet(Releasers)

VARIABLES in_flight_,   \* in_flight_
          apc,          \* where each caller of acquire() is
          rpc           \* where each caller of release() is

controllerVars == <<in_flight_, apc, rpc>>

(* "test": about to lock mu_ and evaluate the wait predicate, on entry or  *)
(* after a wake-up; "sleep": inside cv_.wait.                              *)
ThreadPC == {"idle", "test", "sleep"}
ReleaserPC == {"idle", "notify", "threw"}

Sleeping == {t \in Callers : apc[t] = "sleep"}
Awake == {t \in Callers : apc[t] = "test"}
Notifying == {r \in Releasers : rpc[r] = "notify"}

ControllerTypeOK == /\ in_flight_ \in 0 .. MaxInFlight
                    /\ apc \in [Callers -> ThreadPC]
                    /\ rpc \in [Releasers -> ReleaserPC]

ControllerInit == /\ in_flight_ = 0
                  /\ apc = [t \in Callers |-> "idle"]
                  /\ rpc = [r \in Releasers |-> "idle"]

-------------------------------------------------------------------------------
(* acquire() *)

Acquire(t) == /\ apc[t] = "idle"
              /\ apc' = [apc EXCEPT ![t] = "test"]
              /\ UNCHANGED <<in_flight_, rpc>>

Below == in_flight_ < MaxInFlight

Proceed(t) == /\ apc[t] = "test"
              /\ Below
              /\ in_flight_' = in_flight_ + 1
              /\ apc' = [apc EXCEPT ![t] = "idle"]
              /\ UNCHANGED rpc

Sleep(t) == /\ apc[t] = "test"
            /\ ~Below
            /\ apc' = [apc EXCEPT ![t] = "sleep"]
            /\ UNCHANGED <<in_flight_, rpc>>

\* A condition variable may wake a waiter that nobody notified.
SpuriousWake(t) == /\ apc[t] = "sleep"
                   /\ apc' = [apc EXCEPT ![t] = "test"]
                   /\ UNCHANGED <<in_flight_, rpc>>

-------------------------------------------------------------------------------
(* release() *)

\* Mutant: notify only when the controller was full, to save a wake-up.
ReleaseNotifyIfFull(r) ==
  /\ rpc[r] = "idle"
  /\ in_flight_ > 0
  /\ in_flight_' = in_flight_ - 1
  /\ rpc' = [rpc EXCEPT ![r] = IF in_flight_ = MaxInFlight THEN "notify" ELSE "idle"]
  /\ UNCHANGED apc

\* Mutant: the MN_CHECK on in_flight_ is gone and the count stays saturated.
ReleaseUnchecked(r) ==
  /\ rpc[r] = "idle"
  /\ in_flight_' = IF in_flight_ > 0 THEN in_flight_ - 1 ELSE MaxInFlight + 1
  /\ rpc' = [rpc EXCEPT ![r] = "notify"]
  /\ UNCHANGED apc

release(r) == /\ rpc[r] = "idle"
              /\ in_flight_ > 0
              /\ in_flight_' = in_flight_ - 1
              /\ rpc' = [rpc EXCEPT ![r] = "notify"]
              /\ UNCHANGED apc

\* MN_CHECK(in_flight_ > 0) fails: the exception leaves before notify_one.
ReleaseRejected(r) == /\ rpc[r] = "idle"
                      /\ in_flight_ = 0
                      /\ rpc' = [rpc EXCEPT ![r] = "threw"]
                      /\ UNCHANGED <<in_flight_, apc>>

Caught(r) == /\ rpc[r] = "threw"
             /\ rpc' = [rpc EXCEPT ![r] = "idle"]
             /\ UNCHANGED <<in_flight_, apc>>

NotifyOne(r) == /\ rpc[r] = "notify"
                /\ rpc' = [rpc EXCEPT ![r] = "idle"]
                /\ \/ \E t \in Sleeping : apc' = [apc EXCEPT ![t] = "test"]
                   \/ Sleeping = {} /\ UNCHANGED apc
                /\ UNCHANGED in_flight_

-------------------------------------------------------------------------------
ControllerNext ==
  \/ \E t \in Callers : Acquire(t) \/ Proceed(t) \/ Sleep(t) \/ SpuriousWake(t)
  \/ \E r \in Releasers : release(r) \/ ReleaseRejected(r) \/ Caught(r) \/ NotifyOne(r)

(* A thread that can run does run: one that is inside acquire() and not    *)
(* asleep tests the predicate, one past its decrement notifies.  Nothing   *)
(* obliges anybody to call, and no wake-up is owed to chance.              *)
ControllerFairness ==
  /\ \A t \in Callers : WF_controllerVars(Proceed(t)) /\ WF_controllerVars(Sleep(t))
  /\ \A r \in Releasers : WF_controllerVars(NotifyOne(r))

ControllerSafety == ControllerInit /\ [][ControllerNext]_controllerVars
ControllerSpec == ControllerSafety /\ ControllerFairness

-------------------------------------------------------------------------------
(* Properties *)

(* No lost wake-up (release() notifies after unlocking, acquire() re-tests *)
(* after waking): while some thread sleeps, every free slot is matched by  *)
(* a thread about to test the predicate or by a notification still to come.*)
NoLostWakeup ==
  Sleeping # {} =>
    MaxInFlight - in_flight_ <= Cardinality(Awake) + Cardinality(Notifying)

(* backpressure.cpp implements the semaphore its header describes, with    *)
(* its progress guarantee: the callers inside acquire() are those not idle.*)
Sem == INSTANCE Semaphore WITH Threads <- Callers, in_flight <- in_flight_,
                               blocked <- Sleeping \cup Awake
ImplementsSemaphore == Sem!Spec
===============================================================================
