------------------------ MODULE TrainingCheckpoints ------------------------
(***************************************************************************)
(* Neural training with an early stop and a checkpoint file that later     *)
(* workers of the same task resume from.  The file's name is the hash of   *)
(* the task, so all workers of one task share it and no other task does.   *)
(*                                                                         *)
(* Training is deterministic and a checkpoint restores weights, optimiser  *)
(* and every random state, so the losses are a function of the epoch,      *)
(* whoever computes them: loss is chosen once.  Epochs count from one.     *)
(* A worker may be killed between any two steps.                           *)
(***************************************************************************)
EXTENDS Integers

CONSTANTS
  Trainers,     \* worker processes that may take the task up, one after the other
  MaxEpochs,    \* the training budget
  Patience,     \* epochs without improvement that stop the training
  Every,        \* checkpoint_every_epochs
  LossValues    \* tuning losses an epoch may have

ASSUME EpochsAssumption == MaxEpochs \in Nat \ {0} /\ Patience \in Nat \ {0} /\ Every \in Nat \ {0}
ASSUME LossAssumption == LossValues \subseteq Int

Epochs == 1..MaxEpochs

\* TARCA_STAGE1B_RESUME_CHECKPOINTS unset, set (and Stage 2's default), and
\* Stage 2's DEVICE_MISMATCH_V1 recovery.
ResumeModes == {"never", "if_available", "complete_only"}

VARIABLES
  setup,   \* [resume, exclusive, nonfinite]: how the task is run, fixed
  loss,    \* loss[e]: the tuning loss after epoch e
  file,    \* the checkpoint file
  work     \* work[w]: a trainer's memory

trainingVars == <<setup, loss, file, work>>

\* What a checkpoint keeps of the state of training after an epoch.
\* best_epoch is 0 while there is no best state.
Fresh == [epoch |-> 0, bestEpoch |-> 0, stale |-> 0]
Absent == [status |-> "ABSENT", state |-> Fresh]

States == [epoch : 0..MaxEpochs, bestEpoch : 0..MaxEpochs, stale : 0..MaxEpochs]
Files == [status : {"ABSENT", "IN_PROGRESS", "COMPLETE"}, state : States]
Running == {"load", "hash_resumed", "train", "save", "hash_saved", "patience", "complete", "hash_complete"}
Steps == Running \cup {"idle", "done", "failed", "killed"}

TrainingTypeOK ==
  /\ setup \in [resume : ResumeModes, exclusive : BOOLEAN, nonfinite : 0..MaxEpochs]
  /\ loss \in [Epochs -> LossValues]
  /\ file \in Files
  /\ work \in [Trainers -> [pc : Steps, state : States, from : Files, sha : Files]]

TrainingInit ==
  /\ setup \in [resume : ResumeModes, exclusive : BOOLEAN, nonfinite : 0..MaxEpochs]
  /\ loss \in [Epochs -> LossValues]
  /\ file = Absent
  /\ work = [w \in Trainers |-> [pc |-> "idle", state |-> Fresh, from |-> Absent, sha |-> Absent]]

-----------------------------------------------------------------------------
(* train_candidate *)

At(w, pc) == work[w].pc = pc
Goes(w, pc) == work' = [work EXCEPT ![w].pc = pc]
Unshared == UNCHANGED <<setup, loss, file>>

\* The task is taken up; a second worker runs beside a first one only when the
\* ledger has taken a live worker for lost.
Begin(w) ==
  /\ At(w, "idle")
  /\ setup.exclusive => \A v \in Trainers : work[v].pc \notin Running
  /\ Goes(w, IF setup.resume # "never" /\ file # Absent THEN "load"
             ELSE IF setup.resume = "complete_only" THEN "failed"
             ELSE "train")
  /\ Unshared

\* Mutant: the patience already used up is not restored.
Forgetful(checkpoint) == [checkpoint.state EXCEPT !.stale = 0]

\* restore_checkpoint; the four hashes agree because the path is their hash.
Restored(checkpoint) == checkpoint.state

\* load_checkpoint and restore_checkpoint of the file as it is now.
Load(w) ==
  /\ At(w, "load")
  /\ work' = [work EXCEPT ![w] =
       IF setup.resume = "complete_only" /\ file.status # "COMPLETE"
         THEN [work[w] EXCEPT !.pc = "failed"]
         ELSE [work[w] EXCEPT !.pc = IF file.status = "COMPLETE" THEN "hash_resumed" ELSE "train",
                              !.state = Restored(file),
                              !.from = file]]
  /\ Unshared

\* The state of training after one more epoch: a strictly better loss is kept,
\* any other uses up patience.
AfterEpoch(s) ==
  LET e == s.epoch + 1
  IN IF s.bestEpoch = 0 \/ loss[e] < loss[s.bestEpoch]
       THEN [epoch |-> e, bestEpoch |-> e, stale |-> 0]
       ELSE [epoch |-> e, bestEpoch |-> s.bestEpoch, stale |-> s.stale + 1]

\* One epoch of the loop; a tuning loss that is not finite raises.
TrainEpoch(w) ==
  /\ At(w, "train")
  /\ work[w].state.epoch < MaxEpochs
  /\ LET e == work[w].state.epoch + 1
     IN work' = [work EXCEPT ![w] =
          IF e = setup.nonfinite THEN [work[w] EXCEPT !.pc = "failed"]
          ELSE [work[w] EXCEPT !.pc = IF e % Every = 0 THEN "save" ELSE "patience",
                               !.state = AfterEpoch(work[w].state)]]
  /\ Unshared

BudgetSpent(w) ==
  /\ At(w, "train")
  /\ work[w].state.epoch = MaxEpochs
  /\ Goes(w, "complete")
  /\ Unshared

\* atomic_torch_save, up to its os.replace ...
SaveProgress(w) ==
  /\ At(w, "save")
  /\ file' = [status |-> "IN_PROGRESS", state |-> work[w].state]
  /\ Goes(w, "hash_saved")
  /\ UNCHANGED <<setup, loss>>

SaveComplete(w) ==
  /\ At(w, "complete")
  /\ file' = [status |-> "COMPLETE", state |-> work[w].state]
  /\ Goes(w, "hash_complete")
  /\ UNCHANGED <<setup, loss>>

\* ... and its hash of whatever the path holds by then.
HashFile(w) ==
  /\ work[w].pc \in {"hash_saved", "hash_complete", "hash_resumed"}
  /\ work' = [work EXCEPT ![w] =
       [work[w] EXCEPT !.sha = file, !.pc = IF work[w].pc = "hash_saved" THEN "patience" ELSE "done"]]
  /\ Unshared

OutOfPatience(s) == s.stale >= Patience

CheckPatience(w) ==
  /\ At(w, "patience")
  /\ Goes(w, IF OutOfPatience(work[w].state) THEN "complete" ELSE "train")
  /\ Unshared

Killed(w) ==
  /\ work[w].pc \in Running
  /\ Goes(w, "killed")
  /\ Unshared

TrainingNext ==
  \E w \in Trainers :
    \/ Begin(w) \/ Load(w)
    \/ TrainEpoch(w) \/ BudgetSpent(w) \/ CheckPatience(w)
    \/ SaveProgress(w) \/ SaveComplete(w) \/ HashFile(w)
    \/ Killed(w)

TrainingSpec == TrainingInit /\ [][TrainingNext]_trainingVars

-----------------------------------------------------------------------------
(* What training promises *)

\* s is the state of an uninterrupted training after s.epoch epochs: the best
\* epoch is the first of the least losses and the stale epochs are those since.
IsStraight(s) ==
  \/ s = Fresh
  \/ /\ s.bestEpoch \in 1..s.epoch
     /\ s.stale = s.epoch - s.bestEpoch
     /\ \A e \in 1..s.epoch : loss[s.bestEpoch] <= loss[e]
     /\ \A e \in 1..(s.bestEpoch - 1) : loss[s.bestEpoch] < loss[e]

\* However often training is killed and resumed, and whoever else writes the
\* checkpoint, what a worker holds and what the file holds is what an
\* uninterrupted training of as many epochs would hold.  (train_candidate,
\* restore_checkpoint)
StraightTraining ==
  /\ IsStraight(file.state)
  /\ \A w \in Trainers : IsStraight(work[w].state)

\* The epoch after which an uninterrupted training stops.
StopEpoch ==
  CHOOSE e \in Epochs :
    /\ e = MaxEpochs \/ \E b \in 1..e : /\ e - b = Patience
                                        /\ \A i \in b..e : loss[b] <= loss[i]
                                        /\ \A i \in 1..(b - 1) : loss[b] < loss[i]
    /\ \A d \in 1..(e - 1) :
         ~ \E b \in 1..d : /\ d - b = Patience
                           /\ \A i \in b..d : loss[b] <= loss[i]
                           /\ \A i \in 1..(b - 1) : loss[b] < loss[i]

\* A training that ends has trained to the early stop and no further, unless it
\* resumed from a checkpoint saved at or after the stopping epoch: the loop
\* trains before it looks at the patience.
EpochsAsPlanned ==
  \A w \in Trainers :
    At(w, "done") =>
      \/ work[w].state.epoch = StopEpoch
      \/ /\ work[w].state.epoch > StopEpoch
         /\ work[w].from.state.epoch >= StopEpoch

\* While workers of a task never overlap, a training that ends returns the hash
\* of a complete checkpoint of the state it ended with, and that checkpoint
\* stays in place unless a later worker trains from scratch.
ReceiptNamesCheckpoint ==
  setup.exclusive =>
    \A w \in Trainers :
      At(w, "done") =>
        /\ work[w].sha = [status |-> "COMPLETE", state |-> work[w].state]
        /\ setup.resume # "never" => file = work[w].sha

\* What being killed and resumed may not change: where a training is, when it
\* stops, and which checkpoint its receipt names.  (train_candidate)
TrainingInv == TrainingTypeOK /\ StraightTraining /\ EpochsAsPlanned /\ ReceiptNamesCheckpoint
=============================================================================
