------------------------------- MODULE MCPython -------------------------------
(***************************************************************************)
(* The parts of the Python package, and its two examples, on small         *)
(* instances.  They share no state, so a behaviour is one of them at work, *)
(* chosen with the initial state, while the others are as they start.      *)
(***************************************************************************)
EXTENDS Package, Config, TensorExchange, Optimizers, TensorArithmetic, Runtime,
        TextGeneration, TrainingLoop

CONSTANT Subjects     \* the parts that are run

VARIABLE subject

\* Of the initial states of a part that is not run, one.
PythonInit ==
  /\ subject \in Subjects
  /\ PackageInit /\ (subject # "package" => ~ext /\ ~has_device)
  /\ ConfigInit /\ ExchangeInit /\ OptimInit
  /\ ArithInit
  /\ RunInit /\ (subject # "runtime" => ~loaded /\ ~device)
  /\ GenInit /\ (subject # "generation" => model.max_seq_len = 1 /\ model.n_layers = 0 /\ model.divides
                                         /\ request.max_new_tokens = 0 /\ request.top_k = 0
                                         /\ request.prompt = 0 /\ ~request.cold)
  /\ IF subject = "training" THEN EpochInit
     ELSE /\ training = TRUE /\ right = <<>> /\ order = <<>> /\ batch_size = 1
          /\ batch_idx = 0 /\ total_acc = 0 /\ epoch_pc = "batches"

PackageRuns ==
  /\ subject = "package" /\ PackageNext
  /\ UNCHANGED <<configVars, exchangeVars, optimVars, arithVars, runVars, genVars, epochVars, subject>>
ConfigRuns ==
  /\ subject = "config" /\ ConfigNext
  /\ UNCHANGED <<packageVars, exchangeVars, optimVars, arithVars, runVars, genVars, epochVars, subject>>
ExchangeRuns ==
  /\ subject = "exchange" /\ ExchangeNext
  /\ UNCHANGED <<packageVars, configVars, optimVars, arithVars, runVars, genVars, epochVars, subject>>
OptimizersRun ==
  /\ subject = "optimizers" /\ OptimNext
  /\ UNCHANGED <<packageVars, configVars, exchangeVars, arithVars, runVars, genVars, epochVars, subject>>
ArithmeticRuns ==
  /\ subject = "arithmetic" /\ ArithNext
  /\ UNCHANGED <<packageVars, configVars, exchangeVars, optimVars, runVars, genVars, epochVars, subject>>
RuntimeRuns ==
  /\ subject = "runtime" /\ RunNext
  /\ UNCHANGED <<packageVars, configVars, exchangeVars, optimVars, arithVars, genVars, epochVars, subject>>
GenerationRuns ==
  /\ subject = "generation" /\ GenNext
  /\ UNCHANGED <<packageVars, configVars, exchangeVars, optimVars, arithVars, runVars, epochVars, subject>>
TrainingRuns ==
  /\ subject = "training" /\ EpochNext
  /\ UNCHANGED <<packageVars, configVars, exchangeVars, optimVars, arithVars, runVars, genVars, subject>>

PythonNext ==
  \/ PackageRuns \/ ConfigRuns \/ ExchangeRuns \/ OptimizersRun
  \/ ArithmeticRuns \/ RuntimeRuns \/ GenerationRuns \/ TrainingRuns

PythonSpec ==
  /\ PythonInit
  /\ [][PythonNext]_<<packageVars, configVars, exchangeVars, optimVars, arithVars, runVars,
                      genVars, epochVars, subject>>

\* numpy knows float32, torch bfloat16 too, and an MPS tensor is shared.
SomeSources == {<<"numpy", "float32">>, <<"torch", "float32">>, <<"torch", "bfloat16">>,
                <<"mps", "float32">>}

\* Two Adam optimizers that may share a dictionary, one of them with an L2 decay, and
\* an SGD.  The last parameter has no numpy(): an L2 decay raises before its averages
\* are touched, the others raise after that, as with one that cannot be assigned to.
Kinds == [o \in Optimizers |-> CASE o = "o1" -> "adam" [] o = "o2" -> "adamw" [] o = "o3" -> "sgd"]
Outcomes == <<"updates", "updates", "no_numpy">>
OneOutcome == <<"updates">>

\* A matrix and a row to begin with.
MatrixAndRow == <<<<2, 2>>, <<2>>>>
Singles == {<<1>>}
NoInputs == <<>>
================================================================================
