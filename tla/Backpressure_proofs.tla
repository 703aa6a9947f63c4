-------------------------- MODULE Backpressure_proofs --------------------------
(***************************************************************************)
(* Proofs about the backpressure controller, for any number of threads,    *)
(* completion handlers and slots.                                          *)
(***************************************************************************)
EXTENDS Backpressure, FiniteSetTheorems, TLAPS

(* Moving one thread into or out of a set named by its program counter     *)
(* changes the set's cardinality by one.                                   *)
LEMMA CardAdd ==
  ASSUME NEW S, IsFiniteSet(S), NEW x, x \notin S
  PROVE  /\ Cardinality(S) \in Nat
         /\ Cardinality(S \cup {x}) = Cardinality(S) + 1
BY FS_AddElement, FS_CardinalityType

LEMMA CardRemove ==
  ASSUME NEW S, IsFiniteSet(S), NEW x \in S
  PROVE  /\ Cardinality(S) \in Nat
         /\ Cardinality(S \ {x}) = Cardinality(S) - 1
BY FS_RemoveElement, FS_CardinalityType

LEMMA Finite ==
  /\ IsFiniteSet(Awake) /\ IsFiniteSet(Notifying)
  /\ Cardinality(Awake) \in Nat /\ Cardinality(Notifying) \in Nat
<1>1. Awake \subseteq Callers /\ Notifying \subseteq Releasers
  BY DEF Awake, Notifying
<1>2. IsFiniteSet(Awake) /\ IsFiniteSet(Notifying)
  BY <1>1, FS_Subset, BackpressureAssumption
<1> QED BY <1>2, FS_CardinalityType

-------------------------------------------------------------------------------
(* in_flight_ stays between 0 and max_in_flight_ and the program counters  *)
(* in their ranges: the MN_CHECK of release() never lets the count         *)
(* underflow, the wait predicate of acquire() never lets it pass the limit.*)
THEOREM TypeCorrect == ControllerSafety => []ControllerTypeOK
<1>1. ControllerInit => ControllerTypeOK
  BY BackpressureAssumption DEF ControllerInit, ControllerTypeOK, ThreadPC, ReleaserPC
<1>2. ControllerTypeOK /\ [ControllerNext]_controllerVars => ControllerTypeOK'
  BY BackpressureAssumption
  DEF ControllerTypeOK, ThreadPC, ReleaserPC, ControllerNext, controllerVars, Acquire, Proceed, Sleep,
      SpuriousWake, release, ReleaseRejected, Caught, NotifyOne, Below, Sleeping
<1> QED BY <1>1, <1>2, PTL DEF ControllerSafety

LEMMA WakeupStep ==
  ControllerTypeOK /\ ControllerTypeOK' /\ NoLostWakeup /\ [ControllerNext]_controllerVars
    => NoLostWakeup'
<1> SUFFICES ASSUME ControllerTypeOK, ControllerTypeOK', NoLostWakeup,
                    [ControllerNext]_controllerVars, Sleeping' # {}
             PROVE  MaxInFlight - in_flight_'
                      <= Cardinality(Awake') + Cardinality(Notifying')
  BY DEF NoLostWakeup
<1> USE BackpressureAssumption DEF ControllerTypeOK, ThreadPC, ReleaserPC
<1>f. /\ IsFiniteSet(Awake) /\ IsFiniteSet(Notifying)
      /\ Cardinality(Awake) \in Nat /\ Cardinality(Notifying) \in Nat
  BY Finite
<1>g. Awake' \subseteq Callers /\ Notifying' \subseteq Releasers
  BY DEF Awake, Notifying
<1>h. Cardinality(Awake') \in Nat /\ Cardinality(Notifying') \in Nat
  BY <1>g, FS_Subset, FS_CardinalityType
<1>i. in_flight_ \in Nat /\ MaxInFlight \in Nat /\ in_flight_ <= MaxInFlight
  OBVIOUS
<1>1. ASSUME NEW t \in Callers, Acquire(t) PROVE NoLostWakeup'
  <2>1. Awake' = Awake \cup {t} /\ t \notin Awake
    BY <1>1 DEF Acquire, Awake
  <2>2. Sleeping' = Sleeping /\ Notifying' = Notifying /\ in_flight_' = in_flight_
    BY <1>1 DEF Acquire, Sleeping, Notifying
  <2>3. Cardinality(Awake') = Cardinality(Awake) + 1
    BY <2>1, <1>f, CardAdd
  <2> QED BY <2>2, <2>3, <1>f, <1>i DEF NoLostWakeup
<1>2. ASSUME NEW t \in Callers, Proceed(t) PROVE NoLostWakeup'
  <2>1. Awake' = Awake \ {t} /\ t \in Awake
    BY <1>2 DEF Proceed, Awake
  <2>2. Sleeping' = Sleeping /\ Notifying' = Notifying /\ in_flight_' = in_flight_ + 1
    BY <1>2 DEF Proceed, Sleeping, Notifying
  <2>3. Cardinality(Awake') = Cardinality(Awake) - 1
    BY <2>1, <1>f, CardRemove
  <2> QED BY <2>2, <2>3, <1>f, <1>i DEF NoLostWakeup
<1>3. ASSUME NEW t \in Callers, Sleep(t) PROVE NoLostWakeup'
  <2>1. in_flight_' = in_flight_ /\ in_flight_ = MaxInFlight
    BY <1>3, <1>i DEF Sleep, Below
  <2> QED BY <2>1, <1>h, <1>i DEF NoLostWakeup
<1>4. ASSUME NEW t \in Callers, SpuriousWake(t) PROVE NoLostWakeup'
  <2>1. Awake' = Awake \cup {t} /\ t \notin Awake /\ Sleeping # {}
    BY <1>4 DEF SpuriousWake, Awake, Sleeping
  <2>2. Notifying' = Notifying /\ in_flight_' = in_flight_
    BY <1>4 DEF SpuriousWake, Notifying
  <2>3. Cardinality(Awake') = Cardinality(Awake) + 1
    BY <2>1, <1>f, CardAdd
  <2> QED BY <2>1, <2>2, <2>3, <1>f, <1>i DEF NoLostWakeup
<1>5. ASSUME NEW r \in Releasers, release(r) PROVE NoLostWakeup'
  <2>1. Notifying' = Notifying \cup {r} /\ r \notin Notifying
    BY <1>5 DEF release, Notifying
  <2>2. Sleeping' = Sleeping /\ Awake' = Awake /\ in_flight_' = in_flight_ - 1
    BY <1>5 DEF release, Sleeping, Awake
  <2>3. Cardinality(Notifying') = Cardinality(Notifying) + 1
    BY <2>1, <1>f, CardAdd
  <2> QED BY <2>2, <2>3, <1>f, <1>i DEF NoLostWakeup
<1>6. ASSUME NEW r \in Releasers, ReleaseRejected(r) \/ Caught(r) PROVE NoLostWakeup'
  <2>1. Notifying' = Notifying
    BY <1>6 DEF ReleaseRejected, Caught, Notifying
  <2>2. Sleeping' = Sleeping /\ Awake' = Awake /\ in_flight_' = in_flight_
    BY <1>6 DEF ReleaseRejected, Caught, Sleeping, Awake
  <2> QED BY <2>1, <2>2 DEF NoLostWakeup
<1>7. ASSUME NEW r \in Releasers, NotifyOne(r) PROVE NoLostWakeup'
  <2>1. Notifying' = Notifying \ {r} /\ r \in Notifying /\ in_flight_' = in_flight_
    BY <1>7 DEF NotifyOne, Notifying
  <2>2. Cardinality(Notifying') = Cardinality(Notifying) - 1
    BY <2>1, <1>f, CardRemove
  <2>3. CASE Sleeping = {}
    <3>1. Sleeping' = {}
      BY <1>7, <2>3 DEF NotifyOne, Sleeping
    <3> QED BY <3>1 DEF NoLostWakeup
  <2>4. CASE Sleeping # {}
    <3>1. PICK t \in Sleeping : apc' = [apc EXCEPT ![t] = "test"]
      BY <1>7, <2>4 DEF NotifyOne
    <3>2. Awake' = Awake \cup {t} /\ t \notin Awake
      BY <3>1 DEF Awake, Sleeping
    <3>3. Cardinality(Awake') = Cardinality(Awake) + 1
      BY <3>2, <1>f, CardAdd
    <3> QED BY <2>1, <2>2, <2>4, <3>3, <1>f, <1>i DEF NoLostWakeup
  <2> QED BY <2>3, <2>4
<1>8. CASE UNCHANGED controllerVars
  BY <1>8 DEF controllerVars, NoLostWakeup, Sleeping, Awake, Notifying
<1> QED BY <1>1, <1>2, <1>3, <1>4, <1>5, <1>6, <1>7, <1>8 DEF ControllerNext, NoLostWakeup

(* No lost wake-up: while a thread sleeps in acquire(), every free slot is *)
(* matched by a thread about to test or a notification still to come.      *)
THEOREM WakeupsNeverLost == ControllerSafety => []NoLostWakeup
<1>1. ControllerInit => NoLostWakeup
  BY DEF ControllerInit, NoLostWakeup, Sleeping
<1> QED BY <1>1, WakeupStep, TypeCorrect, PTL DEF ControllerSafety

-------------------------------------------------------------------------------
(* Safety half of ImplementsSemaphore: every step of backpressure.cpp is a *)
(* step of the semaphore the header describes, or invisible to it.         *)
THEOREM RefinesSemaphore == ControllerSafety => Sem!Init /\ [][Sem!Next]_(Sem!vars)
<1>1. ControllerInit => Sem!Init
  BY DEF ControllerInit, Sem!Init, Sleeping, Awake
<1>2. ControllerTypeOK /\ [ControllerNext]_controllerVars => [Sem!Next]_(Sem!vars)
  <2> SUFFICES ASSUME ControllerTypeOK, [ControllerNext]_controllerVars
               PROVE  Sem!Next \/ UNCHANGED Sem!vars
    OBVIOUS
  <2> USE DEF ControllerTypeOK, ThreadPC, ReleaserPC, Sleeping, Awake, Sem!vars
  <2>1. ASSUME NEW t \in Callers, Acquire(t) PROVE Sem!Ask(t)
    BY <2>1 DEF Acquire, Sem!Ask
  <2>2. ASSUME NEW t \in Callers, Proceed(t) PROVE Sem!Grant(t)
    BY <2>2 DEF Proceed, Below, Sem!Grant
  <2>3. ASSUME NEW t \in Callers, Sleep(t) \/ SpuriousWake(t)
        PROVE  UNCHANGED Sem!vars
    BY <2>3 DEF Sleep, SpuriousWake
  <2>4. ASSUME NEW r \in Releasers, release(r) PROVE Sem!GiveBack
    BY <2>4 DEF release, Sem!GiveBack
  <2>5. ASSUME NEW r \in Releasers, ReleaseRejected(r) \/ Caught(r)
        PROVE  UNCHANGED Sem!vars
    BY <2>5 DEF ReleaseRejected, Caught
  <2>6. ASSUME NEW r \in Releasers, NotifyOne(r) PROVE UNCHANGED Sem!vars
    BY <2>6 DEF NotifyOne
  <2>7. CASE UNCHANGED controllerVars
    BY <2>7 DEF controllerVars
  <2> QED BY <2>1, <2>2, <2>3, <2>4, <2>5, <2>6, <2>7
          DEF ControllerNext, Sem!Next, Sem!GrantSome
<1> QED BY <1>1, <1>2, TypeCorrect, PTL DEF ControllerSafety
===============================================================================
