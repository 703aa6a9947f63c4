------------------------------- MODULE Optimizers -------------------------------
(***************************************************************************)
(* MetalAdam, MetalAdamW and MetalSGD (python/metal_native/optim): what a  *)
(* step does to its count, to the running averages and to the parameters,  *)
(* when it gets through them all and when one of them raises.              *)
(*                                                                         *)
(* The averages of a parameter are represented by the number of gradients  *)
(* that have entered them (m and v move together; SGD has its momentum     *)
(* buffer).  Adam divides them by 1 - beta^t, which is right when t is     *)
(* that number; t is one count for all parameters.  state_dict() gives     *)
(* away the dictionary itself with a copy of the count, so optimizers may  *)
(* come to share a dictionary, and a checkpoint ages with every step on it.*)
(***************************************************************************)
EXTENDS Integers, FiniteSets

CONSTANTS NumParams,     \* parameters, in the order of the list
          Optimizers,
          Kind,          \* "adam", "adamw" or "sgd", by optimizer
          Decay,         \* the optimizers with a weight_decay
          Outcome,       \* by parameter: "updates", or what raises: "no_numpy" when it is
                         \* read, "no_assign" when the result is written
          Clearable,     \* the parameters with an attribute _grad
          MaxSteps,      \* bound: calls of step()
          MaxCheckpoints \* bound: different checkpoints that are kept

Params == 1 .. NumParams

ASSUME OptimizersAssumption ==
  /\ NumParams \in Nat /\ MaxSteps \in Nat /\ MaxCheckpoints \in Nat
  /\ Kind \in [Optimizers -> {"adam", "adamw", "sgd"}] /\ Decay \subseteq Optimizers
  /\ Outcome \in [Params -> {"updates", "no_numpy", "no_assign"}] /\ Clearable \subseteq Params

VARIABLES
  has_grad,      \* the parameters whose grad is not None
  state,         \* by optimizer: its state dictionary, named for whose constructor made it
  seen,          \* by dictionary and parameter: gradients in the averages
  step_count,    \* _step_count
  updates,       \* by parameter: values written
  steps,         \* calls counted against MaxSteps
  checkpoints,   \* what state_dict() has returned: a dictionary and the count it had
  alone,         \* history: no step on the dictionary is missing from the optimizer's count
  steady         \* history: and every step on it has moved the averages of all parameters

claimVars == <<alone, steady>>
optimVars == <<has_grad, state, seen, step_count, updates, steps, checkpoints, claimVars>>

\* alone and steady go with a checkpoint as with an optimizer: they speak of its
\* dictionary and its count.  SGD's have no entry step_count, and other averages.
Checkpoint == [state : Optimizers, step_count : Nat, sgd : BOOLEAN,
               alone : BOOLEAN, steady : BOOLEAN]

OptimTypeOK ==
  /\ has_grad \subseteq Params
  /\ state \in [Optimizers -> Optimizers]
  /\ seen \in [Optimizers -> [Params -> Nat]] /\ step_count \in [Optimizers -> Nat]
  /\ updates \in [Params -> Nat] /\ steps \in Nat
  /\ checkpoints \subseteq Checkpoint
  /\ alone \in [Optimizers -> BOOLEAN] /\ steady \in [Optimizers -> BOOLEAN]

OptimInit ==
  /\ has_grad = {} /\ state = [o \in Optimizers |-> o]
  /\ seen = [o \in Optimizers |-> [p \in Params |-> 0]]
  /\ step_count = [o \in Optimizers |-> 0]
  /\ updates = [p \in Params |-> 0] /\ steps = 0 /\ checkpoints = {}
  /\ alone = [o \in Optimizers |-> TRUE] /\ steady = [o \in Optimizers |-> TRUE]

-------------------------------------------------------------------------------
(* The program's part                                                          *)

\* A backward pass gives some of the parameters a gradient.
Backward(some) ==
  /\ some # {} /\ has_grad' = has_grad \cup some
  /\ UNCHANGED <<state, seen, step_count, updates, steps, checkpoints, claimVars>>

\* zero_grad() looks for _grad; a parameter that has only grad keeps it.
zero_grad ==
  /\ has_grad' = has_grad \ Clearable
  /\ UNCHANGED <<state, seen, step_count, updates, steps, checkpoints, claimVars>>

-------------------------------------------------------------------------------
(* step()                                                                      *)

\* The loop skips parameters without a gradient and ends with the first that raises.
Reached(p) == /\ p \in has_grad
              /\ \A q \in 1 .. p - 1 : q \in has_grad => Outcome[q] = "updates"

\* L2 decay reads the parameter before the averages are touched, AdamW after.
DecaysFirst(o) == o \in Decay /\ Kind[o] # "adamw"

Averaged(o, p) == Reached(p) /\ (Outcome[p] = "no_numpy" => ~DecaysFirst(o))

\* Mutant of Counted: the count is the last thing a step does.
CountedAtEnd(o) ==
  IF Kind[o] = "sgd" \/ \E p \in Params : Reached(p) /\ Outcome[p] # "updates"
  THEN step_count[o] ELSE step_count[o] + 1

\* SGD counts nothing; Adam counts first, whatever becomes of the step.
Counted(o) == IF Kind[o] = "sgd" THEN step_count[o] ELSE step_count[o] + 1

\* A step moves the averages of everybody who has the dictionary, and one count.
Outlives(o, q) == q = o \/ state[q] # state[o]
MovesAll(o) == \A p \in Params : Averaged(o, p)

\* Every checkpoint of the dictionary ages: its averages move, its count does not.
Aged(o, c) == [c EXCEPT !.alone = @ /\ c.state # state[o], !.steady = @ /\ c.state # state[o]]

step(o) ==
  /\ steps < MaxSteps /\ steps' = steps + 1
  /\ step_count' = [step_count EXCEPT ![o] = Counted(o)]
  /\ seen' = [seen EXCEPT ![state[o]] =
                [p \in Params |-> @[p] + IF Averaged(o, p) THEN 1 ELSE 0]]
  /\ updates' = [p \in Params |->
                   IF Reached(p) /\ Outcome[p] = "updates" THEN updates[p] + 1 ELSE updates[p]]
  /\ checkpoints' = {Aged(o, c) : c \in checkpoints}
  /\ alone' = [q \in Optimizers |-> alone[q] /\ Outlives(o, q)]
  /\ steady' = [q \in Optimizers |-> steady[q] /\ Outlives(o, q) /\ (q = o => MovesAll(o))]
  /\ UNCHANGED <<has_grad, state>>

-------------------------------------------------------------------------------
(* state_dict() and load_state_dict()                                          *)

state_dict(o) ==
  /\ Cardinality(checkpoints) < MaxCheckpoints
  /\ checkpoints' = checkpoints \cup
       {[state |-> state[o], step_count |-> step_count[o], sgd |-> Kind[o] = "sgd",
         alone |-> alone[o], steady |-> steady[o]]}
  /\ UNCHANGED <<has_grad, state, seen, step_count, updates, steps, claimVars>>

\* A program loads what an optimizer of that kind has saved, itself or another.
Loadable(o, c) == c.sgd = (Kind[o] = "sgd")

\* The dictionary is adopted as it is now, with the count as it was.
load_state_dict(o, c) ==
  /\ Loadable(o, c)
  /\ state' = [state EXCEPT ![o] = c.state]
  /\ step_count' = [step_count EXCEPT ![o] = c.step_count]
  /\ alone' = [alone EXCEPT ![o] = c.alone]
  /\ steady' = [steady EXCEPT ![o] = c.steady]
  /\ UNCHANGED <<has_grad, seen, updates, steps, checkpoints>>

OptimNext ==
  \/ \E some \in SUBSET Params : Backward(some)
  \/ zero_grad
  \/ \E o \in Optimizers :
       step(o) \/ state_dict(o) \/ \E c \in checkpoints : load_state_dict(o, c)

OptimSpec == OptimInit /\ [][OptimNext]_optimVars

-------------------------------------------------------------------------------
(* Properties                                                                  *)

Adams == {o \in Optimizers : Kind[o] # "sgd"}

\* The correction 1 - beta^t is never made for fewer gradients than the averages hold,
\* and never with t = 0, also after steps that raised half-way and after a checkpoint was
\* loaded on whose dictionary nobody has stepped since state_dict(), unless another
\* optimizer steps on the dictionary (adam.py:101-149, 168-188, 223-261).
CountCovers == \A o \in Adams : alone[o] => \A p \in Params : seen[state[o]][p] <= step_count[o]

\* It is exact as long as every step found all gradients and moved all averages, across
\* such checkpoints too (adam.py:141-149, 255-261).
CountExact == \A o \in Adams : steady[o] => \A p \in Params : seen[state[o]][p] = step_count[o]

\* What the bias correction divides by is never too early and, where nothing was missed,
\* not late either (adam.py:101-149, 168-188, 223-261).
CountsRight == CountCovers /\ CountExact
===============================================================================
