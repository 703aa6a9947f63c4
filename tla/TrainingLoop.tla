------------------------------ MODULE TrainingLoop ------------------------------
(***************************************************************************)
(* train_epoch() and evaluate() of examples/mnist_training.py: which       *)
(* samples enter the averages, and with what weight.  The losses and the   *)
(* accuracies are averaged alike; here a sample is right or wrong, and     *)
(* everything is a whole number of 1/Scale.  The backward pass is a        *)
(* placeholder there: the parameters stay as they are.                     *)
(***************************************************************************)
EXTENDS Integers, Sequences, SequencesExt, FiniteSets

CONSTANTS MaxSamples,      \* bound: samples
          MaxBatch,        \* bound: batch_size
          Scale            \* a multiple of every batch size

ASSUME TrainingAssumption ==
  /\ MaxSamples \in Nat /\ MaxBatch \in Nat \ {0} /\ Scale \in Nat \ {0}
  /\ \A b \in 1 .. MaxBatch : Scale % b = 0

VARIABLES
  training,         \* train_epoch() or evaluate()
  right,            \* by sample: whether the model has it right
  order,            \* indices: the samples in the order they are taken
  batch_size, batch_idx,
  total_acc,        \* in 1/Scale
  epoch_pc

epochVars == <<training, right, order, batch_size, batch_idx, total_acc, epoch_pc>>

n_samples == Len(right)

\* np.random.permutation() in train_epoch(); evaluate() takes them as they come.
EpochInit ==
  /\ training \in BOOLEAN
  /\ right \in UNION {[1 .. n -> BOOLEAN] : n \in 0 .. MaxSamples}
  /\ order \in IF training THEN SetToSeqs(1 .. Len(right)) ELSE {[i \in 1 .. Len(right) |-> i]}
  /\ batch_size \in 1 .. MaxBatch
  /\ batch_idx = 0 /\ total_acc = 0 /\ epoch_pc = "batches"

-------------------------------------------------------------------------------
\* train_epoch() leaves out what does not fill a batch; the last batch of evaluate() may be
\* short.
FullBatches == n_samples \div batch_size
AllBatches == (n_samples + batch_size - 1) \div batch_size
n_batches == IF training THEN FullBatches ELSE AllBatches

\* Mutant of BatchStart: a batch begins with the last sample of the one before.
BatchOverlaps == IF batch_idx = 0 THEN 0 ELSE batch_idx * batch_size - 1

BatchStart == batch_idx * batch_size
BatchEnd == LET end == BatchStart + batch_size IN IF end < n_samples THEN end ELSE n_samples
Batch == {order[i] : i \in BatchStart + 1 .. BatchEnd}

\* One batch: forward pass, loss and accuracy, which is a mean over the batch.
RunBatch ==
  /\ epoch_pc = "batches" /\ batch_idx < n_batches
  /\ total_acc' = total_acc + Cardinality({s \in Batch : right[s]}) * (Scale \div Cardinality(Batch))
  /\ batch_idx' = batch_idx + 1
  /\ UNCHANGED <<training, right, order, batch_size, epoch_pc>>

\* total_acc / n_batches: without a batch, ZeroDivisionError.
Average ==
  /\ epoch_pc = "batches" /\ batch_idx = n_batches
  /\ epoch_pc' = IF n_batches = 0 THEN "raised" ELSE "returned"
  /\ UNCHANGED <<training, right, order, batch_size, batch_idx, total_acc>>

EpochNext == RunBatch \/ Average

EpochSpec == EpochInit /\ [][EpochNext]_epochVars

-------------------------------------------------------------------------------
(* Properties                                                                  *)

EpochTypeOK ==
  /\ training \in BOOLEAN /\ batch_idx \in 0 .. n_batches
  /\ total_acc \in 0 .. Scale * n_batches
  /\ epoch_pc \in {"batches", "returned", "raised"}

\* The samples an epoch is over: in training, those that fill batches.
Used == {order[i] : i \in 1 .. (IF training THEN batch_size * FullBatches ELSE n_samples)}

\* The accuracy returned is that of the samples used, each counted once: in training
\* whatever their number, in an evaluation if the batches come out even, since every
\* batch has the same weight (mnist_training.py:171-212, 228-257).
AverageExact ==
  epoch_pc = "returned" /\ (training \/ n_samples % batch_size = 0) =>
    total_acc * Cardinality(Used) = Scale * n_batches * Cardinality({s \in Used : right[s]})
===============================================================================
