------------------------------ MODULE Semaphore ------------------------------
(***************************************************************************)
(* What BackpressureController (dispatch/backpressure.h) promises: a       *)
(* counting semaphore.  acquire() blocks until a slot is free and takes    *)
(* it, release() gives one back, and a free slot never stays unused while  *)
(* a caller waits for it.  Which of several waiting callers goes first is  *)
(* left open, as it is by std::condition_variable::notify_one.             *)
(***************************************************************************)
EXTENDS Naturals

CONSTANTS Threads,      \* callers of acquire()
          MaxInFlight   \* max_in_flight_

VARIABLES in_flight,    \* slots taken
          blocked       \* callers inside acquire()

vars == <<in_flight, blocked>>

Init == in_flight = 0 /\ blocked = {}

Ask(t) == /\ t \notin blocked
          /\ blocked' = blocked \cup {t}
          /\ UNCHANGED in_flight

Grant(t) == /\ t \in blocked
            /\ in_flight < MaxInFlight
            /\ in_flight' = in_flight + 1
            /\ blocked' = blocked \ {t}

GiveBack == /\ in_flight > 0
            /\ in_flight' = in_flight - 1
            /\ UNCHANGED blocked

GrantSome == \E t \in Threads : Grant(t)

Next == \/ \E t \in Threads : Ask(t)
        \/ GrantSome
        \/ GiveBack

\* A free slot and a waiting caller do not coexist for ever.
Spec == Init /\ [][Next]_vars /\ WF_vars(GrantSome)
==============================================================================
