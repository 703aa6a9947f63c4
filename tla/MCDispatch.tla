------------------------------ MODULE MCDispatch ------------------------------
(***************************************************************************)
(* The dispatch components on small instances: the backpressure controller *)
(* contended for by several threads, the worker thread with submitters, a  *)
(* drainer and an owner that stops and restarts it, and the scopes of one  *)
(* thread over the command pipeline.  A behaviour is one of them at work,  *)
(* chosen with the initial state, while the others are as they start: the  *)
(* pipeline meets its controller through the steps of module Semaphore,    *)
(* and nothing in the source uses the worker thread.                       *)
(***************************************************************************)
EXTENDS MCCommandPipeline, Backpressure, WorkerThread

CONSTANT Subjects     \* the components that are run

VARIABLE subject

DispatchInit ==
  /\ subject \in Subjects
  /\ ControllerInit /\ WorkerInit
  /\ Init /\ (subject # "pipeline" => ~lazy_commit)

ControllerRuns == subject = "controller" /\ ControllerNext /\ UNCHANGED <<workerVars, vars, subject>>
WorkerRuns == subject = "worker" /\ WorkerNext /\ UNCHANGED <<controllerVars, vars, subject>>
PipelineRuns == subject = "pipeline" /\ Next /\ UNCHANGED <<controllerVars, workerVars, subject>>

DispatchNext == ControllerRuns \/ WorkerRuns \/ PipelineRuns

(* The fairness of a component that is not run asks nothing: as it starts, *)
(* none of the steps that fairness is about can be taken.                  *)
DispatchSpec ==
  /\ DispatchInit
  /\ [][DispatchNext]_<<controllerVars, workerVars, vars, subject>>
  /\ ControllerFairness /\ WorkerFairness
================================================================================
