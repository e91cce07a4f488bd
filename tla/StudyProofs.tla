------------------------------ MODULE StudyProofs ------------------------------
(***************************************************************************)
(* The training of the predictors, for every budget, patience, checkpoint  *)
(* interval and loss curve, and the order of the two studies that select,  *)
(* freeze and judge them, for any seeds, models, scores and clock.         *)
(***************************************************************************)
EXTENDS TrainingCheckpoints, FormalStudy, WellFoundedInduction, FiniteSetTheorems, TLAPS

-----------------------------------------------------------------------------
(* Training.  A resumed training is in the state of an uninterrupted one.    *)

TrainerStep(w) ==
  \/ Begin(w) \/ Load(w)
  \/ TrainEpoch(w) \/ BudgetSpent(w) \/ CheckPatience(w)
  \/ SaveProgress(w) \/ SaveComplete(w) \/ HashFile(w)
  \/ Killed(w)

\* Every constant-level fact the steps below need about a trainer's record.
Work == [pc : Steps, state : States, from : Files, sha : Files]

\* One more epoch of a straight training is a straight training.
LEMMA AfterEpochStraight ==
  ASSUME TrainingTypeOK, NEW s \in States, s.epoch < MaxEpochs, IsStraight(s)
  PROVE  IsStraight(AfterEpoch(s)) /\ AfterEpoch(s) \in States
<1> DEFINE e == s.epoch + 1
           t == AfterEpoch(s)
<1>0. s.epoch \in 0..MaxEpochs /\ e \in 1..MaxEpochs /\ s.stale \in 0..MaxEpochs
  BY EpochsAssumption DEF States
<1>1. e \in Epochs /\ \A i \in 1..e : loss[i] \in Int
  <2>1. loss \in [1..MaxEpochs -> LossValues]
    BY DEF TrainingTypeOK, Epochs
  <2>2. \A i \in 1..e : i \in 1..MaxEpochs
    BY <1>0, EpochsAssumption
  <2>3. \A i \in 1..MaxEpochs : loss[i] \in Int
    BY <2>1, LossAssumption
  <2> QED BY <1>0, <2>2, <2>3 DEF Epochs
<1>2. s = Fresh \/ (s.bestEpoch \in 1..s.epoch /\ s.stale = s.epoch - s.bestEpoch)
  BY DEF IsStraight
<1>3. CASE s.bestEpoch = 0 \/ loss[e] < loss[s.bestEpoch]
  <2>1. t = [epoch |-> e, bestEpoch |-> e, stale |-> 0]
    BY <1>3 DEF AfterEpoch
  <2>2. \A i \in 1..s.epoch : loss[e] < loss[i]
    BY <1>1, <1>2, <1>3 DEF IsStraight, Fresh, States
  <2>3. e \in 1..e /\ e - e = 0 /\ t.bestEpoch = e /\ t.epoch = e /\ t.stale = 0
    BY <2>1 DEF States
  <2>4. \A i \in 1..e : loss[e] <= loss[i]
    BY <1>1, <2>2 DEF States
  <2>5. \A i \in 1..(e - 1) : loss[e] < loss[i]
    BY <2>2 DEF States
  <2>6. t \in States
    BY <2>1, EpochsAssumption DEF States
  <2> QED BY <2>3, <2>4, <2>5, <2>6 DEF IsStraight
<1>4. CASE ~(s.bestEpoch = 0 \/ loss[e] < loss[s.bestEpoch])
  <2>1. s.bestEpoch \in 1..s.epoch /\ s.stale = s.epoch - s.bestEpoch
    BY <1>2, <1>4 DEF Fresh
  <2>2. /\ t.epoch = e /\ t.bestEpoch = s.bestEpoch /\ t.stale = s.stale + 1
        /\ t \in States
    <3>1. t = [epoch |-> e, bestEpoch |-> s.bestEpoch, stale |-> s.stale + 1]
      BY <1>4 DEF AfterEpoch
    <3>2. s.stale + 1 \in 0..MaxEpochs
      BY <1>0, <2>1, EpochsAssumption
    <3>3. s.bestEpoch \in 0..MaxEpochs /\ e \in 0..MaxEpochs
      BY <1>0, EpochsAssumption DEF States
    <3> HIDE DEF t, e
    <3> QED BY <3>1, <3>2, <3>3 DEF States
  <2>3. \A i \in 1..s.epoch : loss[s.bestEpoch] <= loss[i]
    BY <2>1 DEF IsStraight, Fresh
  <2>4. \A i \in 1..e : loss[s.bestEpoch] <= loss[i]
    BY <1>1, <1>4, <2>1, <2>3 DEF States
  <2>5. \A i \in 1..(s.bestEpoch - 1) : loss[s.bestEpoch] < loss[i]
    BY <2>1 DEF IsStraight, Fresh
  <2>6. t.bestEpoch \in 1..t.epoch /\ t.stale = t.epoch - t.bestEpoch
    BY <2>1, <2>2 DEF States
  <2> QED BY <2>2, <2>4, <2>5, <2>6 DEF IsStraight
<1> QED BY <1>3, <1>4

StraightInv == TrainingTypeOK /\ StraightTraining

\* The file and the memories start empty.
LEMMA StraightInit == TrainingInit => StraightInv
BY EpochsAssumption
   DEF TrainingInit, StraightInv, TrainingTypeOK, StraightTraining, IsStraight,
       Absent, Fresh, Files, States, Steps

\* Every step takes the state of an uninterrupted training to another one.
LEMMA StraightStep == StraightInv /\ [TrainingNext]_trainingVars => StraightInv'
<1> SUFFICES ASSUME StraightInv, [TrainingNext]_trainingVars PROVE StraightInv'
  OBVIOUS
<1> USE DEF StraightInv
<1>0. \A v \in Trainers : /\ work[v] \in Work /\ work[v].state \in States
                          /\ IsStraight(work[v].state)
  BY DEF TrainingTypeOK, Work, StraightTraining
<1>f. file \in Files /\ file.state \in States /\ IsStraight(file.state)
  BY DEF TrainingTypeOK, Files, StraightTraining
<1>s. ASSUME UNCHANGED <<setup, loss>>, file' \in Files, IsStraight(file'.state),
             NEW w \in Trainers, NEW r \in Work, IsStraight(r.state),
             work' = [work EXCEPT ![w] = r]
      PROVE  StraightInv'
  BY <1>0, <1>s DEF TrainingTypeOK, StraightTraining, Work, IsStraight
<1>1. CASE UNCHANGED trainingVars
  BY <1>1 DEF trainingVars, TrainingTypeOK, StraightTraining, IsStraight
<1>2. CASE TrainingNext
  <2> PICK w \in Trainers : TrainerStep(w)
    BY <1>2 DEF TrainingNext, TrainerStep
  <2>p. ASSUME NEW pc \in Steps, Goes(w, pc), UNCHANGED <<setup, loss>>,
               file' \in Files, IsStraight(file'.state)
        PROVE  StraightInv'
    <3> DEFINE r == [work[w] EXCEPT !.pc = pc]
    <3>1. r \in Work /\ IsStraight(r.state)
      BY <1>0, <2>p DEF Work
    <3>2. work' = [work EXCEPT ![w] = r]
      BY <2>p, <1>0 DEF Goes, TrainingTypeOK
    <3> QED BY <1>s, <2>p, <3>1, <3>2
  <2>1. CASE Begin(w)
    BY <2>1, <2>p, <1>f DEF Begin, Unshared, Steps, Running, Files
  <2>2. CASE Load(w)
    <3> DEFINE r == IF setup.resume = "complete_only" /\ file.status # "COMPLETE"
                      THEN [work[w] EXCEPT !.pc = "failed"]
                      ELSE [work[w] EXCEPT !.pc = IF file.status = "COMPLETE" THEN "hash_resumed" ELSE "train",
                                           !.state = Restored(file),
                                           !.from = file]
    <3>1. r \in Work /\ IsStraight(r.state)
      BY <1>0, <1>f DEF Work, Restored, Steps, Running
    <3>2. work' = [work EXCEPT ![w] = r]
      BY <2>2, <1>0 DEF Load, TrainingTypeOK
    <3>3. UNCHANGED <<setup, loss, file>>
      BY <2>2 DEF Load, Unshared
    <3> HIDE DEF r
    <3> QED BY <1>s, <1>f, <3>1, <3>2, <3>3
  <2>3. CASE TrainEpoch(w)
    <3> DEFINE s == work[w].state
               r == IF s.epoch + 1 = setup.nonfinite THEN [work[w] EXCEPT !.pc = "failed"]
                    ELSE [work[w] EXCEPT !.pc = IF (s.epoch + 1) % Every = 0 THEN "save" ELSE "patience",
                                         !.state = AfterEpoch(s)]
    <3>1. IsStraight(AfterEpoch(s)) /\ AfterEpoch(s) \in States
      <4>1. s.epoch < MaxEpochs
        BY <2>3, <1>0, EpochsAssumption DEF TrainEpoch, States
      <4> QED BY <4>1, <1>0, AfterEpochStraight
    <3>2. r \in Work /\ IsStraight(r.state)
      BY <3>1, <1>0 DEF Work, Steps, Running
    <3>3. work' = [work EXCEPT ![w] = r]
      BY <2>3, <1>0 DEF TrainEpoch, TrainingTypeOK
    <3>4. UNCHANGED <<setup, loss, file>>
      BY <2>3 DEF TrainEpoch, Unshared
    <3> HIDE DEF r
    <3> QED BY <1>s, <1>f, <3>2, <3>3, <3>4
  <2>4. CASE BudgetSpent(w)
    BY <2>4, <2>p, <1>f DEF BudgetSpent, Unshared, Steps, Running
  <2>5. CASE CheckPatience(w)
    BY <2>5, <2>p, <1>f DEF CheckPatience, Unshared, Steps, Running
  <2>6. CASE SaveProgress(w)
    BY <2>6, <2>p, <1>0 DEF SaveProgress, Files, Steps, Running
  <2>7. CASE SaveComplete(w)
    BY <2>7, <2>p, <1>0 DEF SaveComplete, Files, Steps, Running
  <2>8. CASE HashFile(w)
    <3> DEFINE r == [work[w] EXCEPT !.sha = file,
                                    !.pc = IF work[w].pc = "hash_saved" THEN "patience" ELSE "done"]
    <3>1. r \in Work /\ IsStraight(r.state)
      BY <1>0, <1>f DEF Work, Steps, Running
    <3>2. work' = [work EXCEPT ![w] = r]
      BY <2>8, <1>0 DEF HashFile, TrainingTypeOK
    <3>3. UNCHANGED <<setup, loss, file>>
      BY <2>8 DEF HashFile, Unshared
    <3> HIDE DEF r
    <3> QED BY <1>s, <1>f, <3>1, <3>2, <3>3
  <2>9. CASE Killed(w)
    BY <2>9, <2>p, <1>f DEF Killed, Unshared, Steps, Running
  <2> QED BY <2>1, <2>2, <2>3, <2>4, <2>5, <2>6, <2>7, <2>8, <2>9 DEF TrainerStep
<1> QED BY <1>1, <1>2

\* Files and memories stay records of checkpoints.
THEOREM TrainingTyped == TrainingSpec => []TrainingTypeOK
<1>1. StraightInv => TrainingTypeOK
  BY DEF StraightInv
<1> QED BY <1>1, StraightInit, StraightStep, PTL DEF TrainingSpec

\* However often training is killed and resumed, and whoever else writes the
\* checkpoint, what is held and stored is a state of an uninterrupted training.
THEOREM TrainingIsStraight == TrainingSpec => []StraightTraining
<1>1. StraightInv => StraightTraining
  BY DEF StraightInv
<1> QED BY <1>1, StraightInit, StraightStep, PTL DEF TrainingSpec

-----------------------------------------------------------------------------
(* When training stops *)

\* Patience runs out at epoch e, and the epoch an uninterrupted training ends with.
RunsOut(e) ==
  \E b \in 1..e : /\ e - b = Patience
                  /\ \A i \in b..e : loss[b] <= loss[i]
                  /\ \A i \in 1..(b - 1) : loss[b] < loss[i]
Stops(e) ==
  /\ e = MaxEpochs \/ RunsOut(e)
  /\ \A d \in 1..(e - 1) : ~ RunsOut(d)

\* Every training stops: at the first epoch patience runs out, or with the budget.
LEMMA StopEpochStops == StopEpoch \in 1..MaxEpochs /\ Stops(StopEpoch)
<1>1. \E e \in Epochs : Stops(e)
  <2> DEFINE Outs == {e \in Epochs : RunsOut(e)}
  <2>1. CASE Outs = {}
    <3>1. MaxEpochs \in Epochs /\ \A d \in 1..(MaxEpochs - 1) : d \in Epochs
      BY EpochsAssumption DEF Epochs
    <3> QED BY <2>1, <3>1 DEF Stops
  <2>2. CASE Outs # {}
    <3>1. Outs \subseteq Nat
      BY EpochsAssumption DEF Epochs
    <3>2. \E x \in Outs : \A y \in Outs : ~(<<y, x>> \in OpToRel(<, Nat))
      <4> HIDE DEF Outs
      <4> QED BY <2>2, <3>1, NatLessThanWellFounded, WFMin
    <3>3. PICK x \in Outs : \A y \in Outs : ~(y < x)
      <4> HIDE DEF Outs
      <4> QED BY <3>1, <3>2 DEF OpToRel
    <3>4. \A d \in 1..(x - 1) : d \in Epochs /\ d < x
      BY EpochsAssumption DEF Epochs
    <3> QED BY <3>3, <3>4 DEF Stops
  <2> QED BY <2>1, <2>2
<1>2. StopEpoch = CHOOSE e \in Epochs : Stops(e)
  BY DEF StopEpoch, Stops, RunsOut
<1>3. StopEpoch \in Epochs /\ Stops(StopEpoch)
  <2> HIDE DEF Stops
  <2> QED BY <1>1, <1>2
<1> QED BY <1>3 DEF Epochs

\* A training out of patience is at its stopping epoch or beyond it ...
LEMMA OutOfPatienceStopped ==
  ASSUME TrainingTypeOK, NEW s \in States, IsStraight(s), OutOfPatience(s)
  PROVE  StopEpoch <= s.epoch
<1> DEFINE b == s.bestEpoch
           d == b + Patience
<1>1. s.epoch \in 0..MaxEpochs /\ StopEpoch \in 1..MaxEpochs /\ s.stale \in Nat
  BY StopEpochStops, EpochsAssumption DEF States
<1>2. /\ b \in 1..s.epoch /\ s.stale = s.epoch - b
      /\ \A e \in 1..s.epoch : loss[b] <= loss[e]
      /\ \A e \in 1..(b - 1) : loss[b] < loss[e]
  BY EpochsAssumption DEF IsStraight, OutOfPatience, Fresh
<1>3. d \in 1..s.epoch /\ d - b = Patience /\ b \in 1..d
  BY <1>1, <1>2, EpochsAssumption DEF OutOfPatience
<1>4. \A i \in b..d : i \in 1..s.epoch
  BY <1>1, <1>2, <1>3
<1>5. RunsOut(d)
  BY <1>2, <1>3, <1>4 DEF RunsOut
<1>6. ~(d \in 1..(StopEpoch - 1))
  BY <1>5, StopEpochStops DEF Stops
<1> QED BY <1>1, <1>2, <1>3, <1>6, EpochsAssumption

\* ... and one at its stopping epoch is out of patience or has spent the budget.
LEMMA StoppedOutOfPatience ==
  ASSUME TrainingTypeOK, NEW s \in States, IsStraight(s), s.epoch = StopEpoch
  PROVE  OutOfPatience(s) \/ s.epoch = MaxEpochs
<1> SUFFICES ASSUME s.epoch # MaxEpochs PROVE OutOfPatience(s)
  OBVIOUS
<1> DEFINE b == s.bestEpoch
<1>1. s.epoch \in 1..MaxEpochs
  BY StopEpochStops
<1>2. \A i \in 1..s.epoch : loss[i] \in Int
  <2>1. \A i \in 1..s.epoch : i \in 1..MaxEpochs
    BY <1>1, EpochsAssumption
  <2> QED BY <2>1, LossAssumption DEF TrainingTypeOK, Epochs
<1>3. /\ b \in 1..s.epoch /\ s.stale = s.epoch - b
      /\ \A e \in 1..s.epoch : loss[b] <= loss[e]
      /\ \A e \in 1..(b - 1) : loss[b] < loss[e]
  BY <1>1 DEF IsStraight, Fresh
<1>4. PICK c \in 1..s.epoch : /\ s.epoch - c = Patience
                              /\ \A i \in c..s.epoch : loss[c] <= loss[i]
                              /\ \A i \in 1..(c - 1) : loss[c] < loss[i]
  BY StopEpochStops DEF Stops, RunsOut
<1>5. ~(b < c)
  <2>1. b < c => b \in 1..(c - 1)
    BY <1>1, <1>3, EpochsAssumption
  <2>2. b < c => loss[c] < loss[b] /\ loss[b] <= loss[c]
    BY <2>1, <1>3, <1>4
  <2> QED BY <2>2, <1>2, <1>3
<1>6. ~(c < b)
  <2>1. c < b => c \in 1..(b - 1) /\ b \in c..s.epoch
    BY <1>1, <1>3, EpochsAssumption
  <2>2. c < b => loss[b] < loss[c] /\ loss[c] <= loss[b]
    BY <2>1, <1>3, <1>4
  <2> QED BY <2>2, <1>2, <1>3
<1> QED BY <1>1, <1>3, <1>4, <1>5, <1>6, EpochsAssumption DEF OutOfPatience

-----------------------------------------------------------------------------
(* Where a worker is, given when training stops *)

\* r's worker resumed from a checkpoint saved at or after the stopping epoch.
Overtook(r, stop) == r.from.state.epoch >= stop

Planned(r, stop) ==
  /\ r.from.state.epoch <= r.state.epoch
  /\ r.pc \in {"idle", "load"} => r.state.epoch = 0 /\ r.from.state.epoch = 0
  /\ r.pc = "train" =>
       \/ r.state.epoch < stop
       \/ r.state.epoch = stop /\ stop = MaxEpochs
       \/ Overtook(r, stop)
  /\ r.pc \in {"save", "hash_saved", "patience"} => r.state.epoch <= stop \/ Overtook(r, stop)
  /\ r.pc \in {"complete", "hash_complete", "hash_resumed", "done"} =>
       r.state.epoch >= stop /\ (r.state.epoch = stop \/ Overtook(r, stop))

PlannedInv ==
  /\ StraightInv
  /\ file.status = "COMPLETE" => file.state.epoch >= StopEpoch
  /\ \A w \in Trainers : Planned(work[w], StopEpoch)

LEMMA PlannedInit == TrainingInit => PlannedInv
<1> SUFFICES ASSUME TrainingInit PROVE PlannedInv
  OBVIOUS
<1>1. StopEpoch \in 1..MaxEpochs
  BY StopEpochStops
<1> QED BY <1>1, StraightInit DEF TrainingInit, PlannedInv, Planned, Absent, Fresh

\* Every step keeps each worker within the plan.
LEMMA PlannedStep == PlannedInv /\ [TrainingNext]_trainingVars => PlannedInv'
<1> SUFFICES ASSUME PlannedInv, [TrainingNext]_trainingVars PROVE PlannedInv'
  OBVIOUS
<1>a. StraightInv /\ StraightInv' /\ TrainingTypeOK
  BY StraightStep DEF PlannedInv, StraightInv
<1>b. StopEpoch \in 1..MaxEpochs /\ MaxEpochs \in Nat
  BY StopEpochStops, EpochsAssumption
<1>c. \A v \in Trainers : /\ work[v] \in Work /\ IsStraight(work[v].state)
                          /\ Planned(work[v], StopEpoch)
                          /\ work[v].state \in States /\ work[v].from \in Files
  BY <1>a DEF TrainingTypeOK, StraightInv, StraightTraining, PlannedInv, Work
<1>d. \A v \in Trainers : /\ work[v].state.epoch \in 0..MaxEpochs
                          /\ work[v].from.state.epoch \in 0..MaxEpochs
  BY <1>c DEF Files, States
<1>e. /\ file.state.epoch \in 0..MaxEpochs
      /\ file.status = "COMPLETE" => file.state.epoch >= StopEpoch
  BY <1>a DEF TrainingTypeOK, Files, States, PlannedInv
<1>n. loss' = loss => StopEpoch' = StopEpoch
  BY DEF StopEpoch
<1>s. ASSUME loss' = loss,
             file'.status = "COMPLETE" => file'.state.epoch >= StopEpoch,
             NEW w \in Trainers, NEW r \in Work, Planned(r, StopEpoch),
             work' = [work EXCEPT ![w] = r]
      PROVE  PlannedInv'
  <2>1. \A v \in Trainers : Planned(work'[v], StopEpoch)
    BY <1>s, <1>c, <1>a DEF TrainingTypeOK
  <2> QED BY <2>1, <1>s, <1>n, <1>a DEF PlannedInv
<1>1. CASE UNCHANGED trainingVars
  BY <1>1, <1>a, <1>n DEF trainingVars, PlannedInv
<1>2. CASE TrainingNext
  <2> PICK w \in Trainers : TrainerStep(w)
    BY <1>2 DEF TrainingNext, TrainerStep
  <2> DEFINE s == work[w].state
             f == work[w].from
  <2>w. /\ work[w] \in Work /\ Planned(work[w], StopEpoch)
        /\ s.epoch \in 0..MaxEpochs /\ f.state.epoch \in 0..MaxEpochs
    BY <1>c, <1>d
  <2>p. ASSUME NEW pc \in Steps, Goes(w, pc), loss' = loss,
               file'.status = "COMPLETE" => file'.state.epoch >= StopEpoch,
               NEW r \in Work, r = [work[w] EXCEPT !.pc = pc], Planned(r, StopEpoch)
        PROVE  PlannedInv'
    BY <1>s, <2>p DEF Goes
  <2>1. CASE Begin(w)
    <3>1. PICK pc \in {"load", "failed", "train"} : Goes(w, pc) /\ At(w, "idle")
      BY <2>1 DEF Begin
    <3> DEFINE r == [work[w] EXCEPT !.pc = pc]
    <3>2. r \in Work
      BY <2>w, <3>1 DEF Work, Steps, Running
    <3>3. Planned(r, StopEpoch)
      BY <2>w, <3>1, <1>b DEF Planned, At, Work
    <3>4. loss' = loss /\ file' = file /\ pc \in Steps
      BY <2>1, <3>1 DEF Begin, Unshared, Steps, Running
    <3> QED BY <2>p, <3>1, <3>2, <3>3, <3>4, <1>e
  <2>2. CASE Load(w)
    <3> DEFINE r == IF setup.resume = "complete_only" /\ file.status # "COMPLETE"
                      THEN [work[w] EXCEPT !.pc = "failed"]
                      ELSE [work[w] EXCEPT !.pc = IF file.status = "COMPLETE" THEN "hash_resumed" ELSE "train",
                                           !.state = Restored(file),
                                           !.from = file]
    <3>1. r \in Work
      BY <2>w, <1>a DEF TrainingTypeOK, Work, Restored, Steps, Running, Files
    <3>2. Planned(r, StopEpoch)
      BY <2>w, <1>b, <1>e DEF Planned, Overtook, Restored, Work
    <3>3. work' = [work EXCEPT ![w] = r] /\ loss' = loss /\ file' = file
      BY <2>2, <1>a DEF Load, Unshared
    <3> HIDE DEF r
    <3> QED BY <1>s, <1>e, <3>1, <3>2, <3>3
  <2>3. CASE TrainEpoch(w)
    <3> DEFINE r == IF s.epoch + 1 = setup.nonfinite THEN [work[w] EXCEPT !.pc = "failed"]
                    ELSE [work[w] EXCEPT !.pc = IF (s.epoch + 1) % Every = 0 THEN "save" ELSE "patience",
                                         !.state = AfterEpoch(s)]
    <3>1. s.epoch < MaxEpochs /\ At(w, "train")
      BY <2>3, <2>w, <1>b DEF TrainEpoch
    <3>2. AfterEpoch(s) \in States /\ AfterEpoch(s).epoch = s.epoch + 1
      <4>1. AfterEpoch(s) \in States
        BY <3>1, <1>a, <1>c, AfterEpochStraight
      <4>2. AfterEpoch(s).epoch = s.epoch + 1
        BY DEF AfterEpoch
      <4> QED BY <4>1, <4>2
    <3>3. r \in Work
      BY <2>w, <3>2 DEF Work, Steps, Running
    <3>4. Planned(r, StopEpoch)
      <4>1. s.epoch < StopEpoch \/ Overtook(work[w], StopEpoch)
        BY <2>w, <3>1, <1>b DEF Planned, At
      <4>2. CASE s.epoch + 1 = setup.nonfinite
        BY <4>2, <2>w DEF Planned, Work
      <4>3. CASE s.epoch + 1 # setup.nonfinite
        <5>1. /\ r.pc \in {"save", "patience"} /\ r.from = f
              /\ r.state.epoch = s.epoch + 1
          BY <4>3, <2>w, <3>2 DEF Work
        <5>2. f.state.epoch <= s.epoch
          BY <2>w DEF Planned
        <5> HIDE DEF r
        <5> QED BY <5>1, <5>2, <4>1, <2>w, <1>b DEF Planned, Overtook
      <4> QED BY <4>2, <4>3
    <3>5. work' = [work EXCEPT ![w] = r] /\ loss' = loss /\ file' = file
      BY <2>3 DEF TrainEpoch, Unshared
    <3> HIDE DEF r
    <3> QED BY <1>s, <1>e, <3>3, <3>4, <3>5
  <2>4. CASE BudgetSpent(w)
    <3> DEFINE r == [work[w] EXCEPT !.pc = "complete"]
    <3>1. r \in Work
      BY <2>w DEF Work, Steps, Running
    <3>2. Planned(r, StopEpoch)
      BY <2>4, <2>w, <1>b DEF BudgetSpent, At, Planned, Overtook, Work
    <3>3. loss' = loss /\ file' = file /\ Goes(w, "complete") /\ "complete" \in Steps
      BY <2>4 DEF BudgetSpent, Unshared, Steps, Running
    <3> QED BY <2>p, <3>1, <3>2, <3>3, <1>e
  <2>5. CASE CheckPatience(w)
    <3> DEFINE pc == IF OutOfPatience(s) THEN "complete" ELSE "train"
               r == [work[w] EXCEPT !.pc = pc]
    <3>1. r \in Work
      BY <2>w DEF Work, Steps, Running
    <3>2. /\ s.epoch <= StopEpoch \/ Overtook(work[w], StopEpoch)
          /\ f.state.epoch <= s.epoch
      BY <2>5, <2>w DEF CheckPatience, At, Planned
    <3>3. Planned(r, StopEpoch)
      <4>1. CASE OutOfPatience(s)
        <5>1. StopEpoch <= s.epoch
          BY <4>1, <1>a, <1>c, OutOfPatienceStopped
        <5> QED BY <5>1, <3>2, <4>1, <2>w, <1>b DEF Planned, Overtook, Work
      <4>2. CASE ~ OutOfPatience(s)
        <5>1. s.epoch = StopEpoch => s.epoch = MaxEpochs
          BY <4>2, <1>a, <1>c, StoppedOutOfPatience
        <5> QED BY <5>1, <3>2, <4>2, <2>w, <1>b DEF Planned, Overtook, Work
      <4> QED BY <4>1, <4>2
    <3>4. loss' = loss /\ file' = file /\ Goes(w, pc) /\ pc \in Steps
      BY <2>5 DEF CheckPatience, Unshared, Steps, Running
    <3> HIDE DEF pc
    <3> QED BY <2>p, <3>1, <3>3, <3>4, <1>e
  <2>6. CASE SaveProgress(w)
    <3> DEFINE r == [work[w] EXCEPT !.pc = "hash_saved"]
    <3>1. r \in Work
      BY <2>w DEF Work, Steps, Running
    <3>2. Planned(r, StopEpoch)
      BY <2>6, <2>w DEF SaveProgress, At, Planned, Overtook, Work
    <3>3. loss' = loss /\ file'.status # "COMPLETE" /\ Goes(w, "hash_saved") /\ "hash_saved" \in Steps
      BY <2>6 DEF SaveProgress, Steps, Running
    <3> QED BY <2>p, <3>1, <3>2, <3>3
  <2>7. CASE SaveComplete(w)
    <3> DEFINE r == [work[w] EXCEPT !.pc = "hash_complete"]
    <3>1. r \in Work
      BY <2>w DEF Work, Steps, Running
    <3>2. Planned(r, StopEpoch) /\ s.epoch >= StopEpoch
      BY <2>7, <2>w DEF SaveComplete, At, Planned, Overtook, Work
    <3>3. /\ loss' = loss /\ file'.state = s
          /\ Goes(w, "hash_complete") /\ "hash_complete" \in Steps
      BY <2>7 DEF SaveComplete, Steps, Running
    <3> QED BY <2>p, <3>1, <3>2, <3>3
  <2>8. CASE HashFile(w)
    <3> DEFINE r == [work[w] EXCEPT !.sha = file,
                                    !.pc = IF work[w].pc = "hash_saved" THEN "patience" ELSE "done"]
    <3>1. r \in Work
      BY <2>w, <1>a DEF TrainingTypeOK, Work, Steps, Running
    <3>2. Planned(r, StopEpoch)
      BY <2>8, <2>w DEF HashFile, Planned, Overtook, Work
    <3>3. work' = [work EXCEPT ![w] = r] /\ loss' = loss /\ file' = file
      BY <2>8 DEF HashFile, Unshared
    <3> HIDE DEF r
    <3> QED BY <1>s, <1>e, <3>1, <3>2, <3>3
  <2>9. CASE Killed(w)
    <3> DEFINE r == [work[w] EXCEPT !.pc = "killed"]
    <3>1. r \in Work
      BY <2>w DEF Work, Steps
    <3>2. Planned(r, StopEpoch)
      BY <2>w DEF Planned, Work
    <3>3. loss' = loss /\ file' = file /\ Goes(w, "killed") /\ "killed" \in Steps
      BY <2>9 DEF Killed, Unshared, Steps
    <3> QED BY <2>p, <3>1, <3>2, <3>3, <1>e
  <2> QED BY <2>1, <2>2, <2>3, <2>4, <2>5, <2>6, <2>7, <2>8, <2>9 DEF TrainerStep
<1> QED BY <1>1, <1>2

-----------------------------------------------------------------------------
(* Whose the file is while workers of a task never overlap *)

Completed(s) == [status |-> "COMPLETE", state |-> s]

Owned(r, f, resume) ==
  /\ r.pc \in {"hash_resumed", "hash_complete"} => f = Completed(r.state)
  /\ resume # "never" /\ r.pc \in {"train", "save", "hash_saved", "patience", "complete"} =>
       f.status # "COMPLETE"
  /\ r.pc = "done" => r.sha = Completed(r.state) /\ (resume # "never" => f = r.sha)

OneAtATime == \A v, w \in Trainers : work[v].pc \in Running /\ work[w].pc \in Running => v = w

OwnedInv ==
  /\ TrainingTypeOK
  /\ setup.exclusive => OneAtATime /\ \A w \in Trainers : Owned(work[w], file, setup.resume)

LEMMA OwnedInit == TrainingInit => OwnedInv
<1>1. TrainingInit => TrainingTypeOK
  BY StraightInit DEF StraightInv
<1> QED BY <1>1 DEF TrainingInit, OwnedInv, OneAtATime, Owned, Running

\* Every step leaves the file to the one worker that runs.
LEMMA OwnedStep ==
  OwnedInv /\ TrainingTypeOK' /\ [TrainingNext]_trainingVars => OwnedInv'
<1> SUFFICES ASSUME OwnedInv, TrainingTypeOK', [TrainingNext]_trainingVars PROVE OwnedInv'
  OBVIOUS
<1>1. CASE UNCHANGED trainingVars
  BY <1>1 DEF trainingVars, OwnedInv, OneAtATime
<1>2. CASE TrainingNext
  <2> PICK w \in Trainers : TrainerStep(w)
    BY <1>2 DEF TrainingNext, TrainerStep
  <2>1. setup' = setup /\ TrainingTypeOK
    BY DEF TrainerStep, Begin, Load, TrainEpoch, BudgetSpent, CheckPatience, SaveProgress,
           SaveComplete, HashFile, Killed, Unshared, OwnedInv
  <2> SUFFICES ASSUME setup.exclusive
               PROVE  OneAtATime' /\ \A v \in Trainers : Owned(work'[v], file', setup.resume)
    BY <2>1 DEF OwnedInv
  <2> DEFINE resume == setup.resume
  <2>2. OneAtATime /\ \A v \in Trainers : Owned(work[v], file, resume) /\ work[v] \in Work
    BY <2>1 DEF OwnedInv, TrainingTypeOK, Work
  <2>3. file \in Files
    BY <2>1 DEF TrainingTypeOK
  \* A step of w that turns its record into r and leaves the others to theirs.
  <2>s. ASSUME NEW r, work' = [work EXCEPT ![w] = r],
               Owned(r, file', resume),
               \A v \in Trainers \ {w} : Owned(work[v], file', resume),
               r.pc \in Running => work[w].pc \in Running \/ \A v \in Trainers : work[v].pc \notin Running
        PROVE  OneAtATime' /\ \A v \in Trainers : Owned(work'[v], file', resume)
    <3>1. \A v \in Trainers : work'[v] = IF v = w THEN r ELSE work[v]
      BY <2>s, <2>1 DEF TrainingTypeOK
    <3>2. OneAtATime'
      <4> SUFFICES ASSUME NEW u \in Trainers, NEW v \in Trainers,
                          work'[u].pc \in Running, work'[v].pc \in Running
                   PROVE  u = v
        BY DEF OneAtATime
      <4> QED BY <3>1, <2>s, <2>2 DEF OneAtATime
    <3> QED BY <3>1, <3>2, <2>s
  \* While w runs no other worker does.
  <2>o. ASSUME work[w].pc \in Running PROVE \A v \in Trainers \ {w} : work[v].pc \notin Running
    BY <2>2, <2>o DEF OneAtATime
  <2>4. CASE Begin(w)
    <3>1. PICK pc \in {"load", "failed", "train"} :
            /\ Goes(w, pc) /\ UNCHANGED file
            /\ pc = "train" /\ resume # "never" => file = Absent
            /\ \A v \in Trainers : work[v].pc \notin Running
      BY <2>4 DEF Begin, Unshared
    <3> DEFINE r == [work[w] EXCEPT !.pc = pc]
    <3>2. Owned(r, file', resume) /\ \A v \in Trainers \ {w} : Owned(work[v], file', resume)
      BY <2>2, <3>1 DEF Owned, Absent, Work
    <3> QED BY <2>s, <3>1, <3>2 DEF Goes
  <2>5. CASE Load(w)
    <3> DEFINE r == IF resume = "complete_only" /\ file.status # "COMPLETE"
                      THEN [work[w] EXCEPT !.pc = "failed"]
                      ELSE [work[w] EXCEPT !.pc = IF file.status = "COMPLETE" THEN "hash_resumed" ELSE "train",
                                           !.state = Restored(file),
                                           !.from = file]
    <3>1. work' = [work EXCEPT ![w] = r] /\ file' = file /\ work[w].pc \in Running
      BY <2>5 DEF Load, Unshared, At, Running
    <3>2. Owned(r, file', resume) /\ \A v \in Trainers \ {w} : Owned(work[v], file', resume)
      BY <2>2, <2>3, <3>1 DEF Owned, Completed, Restored, Work, Files
    <3> HIDE DEF r
    <3> QED BY <2>s, <3>1, <3>2
  <2>6. CASE TrainEpoch(w)
    <3> DEFINE s == work[w].state
               r == IF s.epoch + 1 = setup.nonfinite THEN [work[w] EXCEPT !.pc = "failed"]
                    ELSE [work[w] EXCEPT !.pc = IF (s.epoch + 1) % Every = 0 THEN "save" ELSE "patience",
                                         !.state = AfterEpoch(s)]
    <3>1. work' = [work EXCEPT ![w] = r] /\ file' = file /\ work[w].pc \in Running
      BY <2>6 DEF TrainEpoch, Unshared, At, Running
    <3>2. Owned(r, file', resume) /\ \A v \in Trainers \ {w} : Owned(work[v], file', resume)
      <4>1. r.pc \in {"failed", "save", "patience"}
        BY <2>2 DEF Work
      <4>2. resume # "never" => file.status # "COMPLETE"
        BY <2>2, <2>6 DEF Owned, TrainEpoch, At
      <4> HIDE DEF r
      <4> QED BY <2>2, <3>1, <4>1, <4>2 DEF Owned
    <3> HIDE DEF r
    <3> QED BY <2>s, <3>1, <3>2
  <2>7. CASE BudgetSpent(w) \/ CheckPatience(w)
    <3>1. PICK pc \in {"complete", "train"} :
            /\ Goes(w, pc) /\ file' = file
            /\ work[w].pc \in {"train", "patience"}
      BY <2>7 DEF BudgetSpent, CheckPatience, Unshared, At
    <3> DEFINE r == [work[w] EXCEPT !.pc = pc]
    <3>2. Owned(r, file', resume) /\ \A v \in Trainers \ {w} : Owned(work[v], file', resume)
      BY <2>2, <3>1 DEF Owned, Work
    <3> QED BY <2>s, <3>1, <3>2 DEF Goes, Running
  <2>8. CASE SaveProgress(w) \/ SaveComplete(w)
    <3>1. PICK pc \in {"hash_saved", "hash_complete"} :
            /\ Goes(w, pc) /\ file'.state = work[w].state
            /\ pc = "hash_saved" => file'.status # "COMPLETE"
            /\ pc = "hash_complete" => file' = Completed(work[w].state)
            /\ work[w].pc \in {"save", "complete"}
      BY <2>8 DEF SaveProgress, SaveComplete, At, Completed
    <3> DEFINE r == [work[w] EXCEPT !.pc = pc]
    <3>2. \A v \in Trainers \ {w} : Owned(work[v], file', resume)
      <4>1. \A v \in Trainers \ {w} : work[v].pc \notin Running
        BY <2>o, <3>1 DEF Running
      <4>2. resume # "never" => file.status # "COMPLETE"
        BY <2>2, <3>1 DEF Owned
      <4> QED BY <2>2, <4>1, <4>2 DEF Owned, Running, Completed
    <3>3. Owned(r, file', resume)
      BY <2>2, <3>1 DEF Owned, Work
    <3> QED BY <2>s, <3>1, <3>2, <3>3 DEF Goes, Running
  <2>9. CASE HashFile(w)
    <3> DEFINE r == [work[w] EXCEPT !.sha = file,
                                    !.pc = IF work[w].pc = "hash_saved" THEN "patience" ELSE "done"]
    <3>1. work' = [work EXCEPT ![w] = r] /\ file' = file /\ work[w].pc \in Running
      BY <2>9 DEF HashFile, Unshared, Running
    <3>2. Owned(r, file', resume) /\ \A v \in Trainers \ {w} : Owned(work[v], file', resume)
      BY <2>2, <2>9, <3>1 DEF Owned, HashFile, Work
    <3> HIDE DEF r
    <3> QED BY <2>s, <3>1, <3>2
  <2>10. CASE Killed(w)
    <3> DEFINE r == [work[w] EXCEPT !.pc = "killed"]
    <3>1. work' = [work EXCEPT ![w] = r] /\ file' = file /\ work[w].pc \in Running
      BY <2>10 DEF Killed, Unshared, Goes
    <3>2. Owned(r, file', resume) /\ \A v \in Trainers \ {w} : Owned(work[v], file', resume)
      BY <2>2, <3>1 DEF Owned, Work
    <3> QED BY <2>s, <3>1, <3>2
  <2> QED BY <2>4, <2>5, <2>6, <2>7, <2>8, <2>9, <2>10 DEF TrainerStep
<1> QED BY <1>1, <1>2

\* A training that ends stopped where an uninterrupted one stops, unless a
\* checkpoint took it beyond, and its receipt names the complete checkpoint.
THEOREM TrainingIsSafe == TrainingSpec => []TrainingInv
<1> DEFINE Inv == PlannedInv /\ OwnedInv
<1>1. TrainingInit => Inv
  BY PlannedInit, OwnedInit
<1>2. Inv /\ [TrainingNext]_trainingVars => Inv'
  <2>1. PlannedInv' => TrainingTypeOK'
    BY DEF PlannedInv, StraightInv
  <2> QED BY <2>1, PlannedStep, OwnedStep
<1>3. Inv => TrainingInv
  <2> SUFFICES ASSUME Inv PROVE TrainingInv
    OBVIOUS
  <2>1. TrainingTypeOK
    BY DEF OwnedInv
  <2>2. StopEpoch \in 1..MaxEpochs
    BY StopEpochStops
  <2>3. EpochsAsPlanned
    <3> SUFFICES ASSUME NEW w \in Trainers, At(w, "done")
                 PROVE  \/ work[w].state.epoch = StopEpoch
                        \/ /\ work[w].state.epoch > StopEpoch
                           /\ work[w].from.state.epoch >= StopEpoch
      BY DEF EpochsAsPlanned
    <3>1. work[w].state.epoch \in 0..MaxEpochs
      BY <2>1 DEF TrainingTypeOK, States
    <3>2. Planned(work[w], StopEpoch)
      BY DEF PlannedInv
    <3> QED BY <2>2, <3>1, <3>2, EpochsAssumption DEF Planned, Overtook, At
  <2>4. ReceiptNamesCheckpoint
    BY DEF OwnedInv, Owned, Completed, At, ReceiptNamesCheckpoint
  <2>5. StraightTraining
    BY DEF PlannedInv, StraightInv
  <2> QED BY <2>1, <2>3, <2>4, <2>5 DEF TrainingInv
<1> HIDE DEF Inv
<1> QED BY <1>1, <1>2, <1>3, PTL DEF TrainingSpec

-----------------------------------------------------------------------------
(* The studies.  A task is done after what it depends on and stays done, so  *)
(* what the manifest was written from cannot change any more.                *)

Done(t) == status[t] = "done"

OrderTypes ==
  /\ status \in [Tasks -> {"waiting", "retry", "done", "failed", "stuck"}]
  /\ manifest = [stage |-> manifest.stage, linear |-> manifest.linear, primary |-> manifest.primary]
  /\ hour \in Nat /\ grant \in Int

\* What the candidate is made from.
Material == {SelectLinear, SelectPrimary} \cup {Predict(q) : q \in Predictors}

\* The freeze follows the candidate, and the manifest names what was selected.
FrozenInOrder ==
  /\ Done(Candidate) => \A d \in Material : Done(d)
  /\ manifest.stage # "absent" => Done(Candidate)
  /\ manifest.stage \in {"absent", "made", "manifest", "complete"}
  /\ manifest.stage \in {"manifest", "complete"} =>
       manifest.linear = selected.linear /\ manifest.primary = selected.primary
  /\ Stage2Receipt \in writing => manifest.stage # "absent"
  /\ Done(Stage2Verify) => manifest.stage = "complete"

OrderInv == OrderTypes /\ FrozenInOrder

\* The tasks the order is about.
LEMMA TheTasks ==
  /\ Material \cup {Candidate, Stage2Receipt, Stage2Verify, Open} \subseteq Tasks
  /\ Material \subseteq Deps(Candidate) /\ Deps(Stage2Receipt) = {Candidate} /\ Stage2Verify \in Deps(Open)
<1>1. Material \cup {Candidate, Stage2Receipt, Stage2Verify, Open} \subseteq Tasks
  BY DEF Material, Tasks, Stage2Tasks, E02Tasks
<1>2. Deps(Stage2Receipt) = {Candidate}
  BY DEF Deps, Stage2Receipt, SelectLinear, SelectPrimary
<1>3. Material \subseteq Deps(Candidate)
  BY DEF Material, Deps, Candidate, SelectLinear, SelectPrimary
<1>4. Stage2Verify \in Deps(Open)
  BY DEF Deps, Open, SelectLinear, SelectPrimary
<1> QED BY <1>1, <1>2, <1>3, <1>4

\* Only the second task of E02 is the verification of the suite.
LEMMA OtherTasks ==
  /\ \A u : Upstream(u) # Stage2Verify /\ Source(u) # Stage2Verify
  /\ \A q : Train(q) # Stage2Verify /\ Fitted(q) # Stage2Verify /\ Predict(q) # Stage2Verify
  /\ \A r : PredictFormal(r) # Stage2Verify /\ ScoreFormal(r) # Stage2Verify
  /\ {Data, SelectLinear, SelectPrimary, Candidate, Stage2Receipt, GrantVerify, Open, Bootstrap, Decision,
      E02Receipt} \cap {Stage2Verify} = {}
  BY
     DEF Upstream, Source, Train, Fitted, Predict, PredictFormal, ScoreFormal, Data, SelectLinear,
         SelectPrimary,
         Candidate, Stage2Receipt, GrantVerify, Open, Bootstrap, Decision, E02Receipt, Stage2Verify

\* What may happen to a try instead of its end.
Mishap(t) == TransientTry(t) \/ PublishInVain(t) \/ DieUnreported(t) \/ RejectTry(t)

\* It ends the try without completing the task, and touches no result.
LEMMA Mishaps ==
  ASSUME NEW t, Mishap(t)
  PROVE  /\ Ready(t) /\ writing' = writing \ {t} /\ losses < MaxLosses /\ losses' = losses + 1
         /\ UNCHANGED <<score, selected, manifest, evidence, outcome, final, hour, grant>>
         /\ \/ status' = [status EXCEPT ![t] = AfterLoss(status[t])] /\ rejected' = rejected
            \/ status' = [status EXCEPT ![t] = "stuck"] /\ rejected' = rejected
            \/ status' = [status EXCEPT ![t] = "failed"] /\ rejected' = TRUE
         /\ published' = published \/ published' = published \cup {t}
  BY DEF Mishap, TransientTry, PublishInVain, DieUnreported, RejectTry, Lost, GoesWrong, Results

\* Each step is one of a ready task, which does not undo what is done.
InOrder ==
  /\ status' \in [Tasks -> {"waiting", "retry", "done", "failed", "stuck"}]
  /\ \A t \in Tasks : Done(t) => Done(t)'
  /\ \A t \in Tasks : Done(t)' => Done(t) \/ (Ready(t) /\ (t = Stage2Verify => Verified))

LEMMA OneTask ==
  ASSUME OrderTypes, NEW t, Ready(t), NEW new \in {"retry", "failed", "done", "stuck"},
         new = "done" /\ t = Stage2Verify => Verified,
         status' = [status EXCEPT ![t] = new]
  PROVE  InOrder
  BY DEF OrderTypes, InOrder, Done, Ready

LEMMA StepsInOrder ==
  ASSUME OrderTypes, StudyNext
  PROVE  InOrder
<1>0. UNCHANGED status => InOrder
  BY DEF OrderTypes, InOrder, Done
<1>1. \A t : Ready(t) /\ Publishes(t) /\ (t = Stage2Verify => Verified) => InOrder
  BY OneTask DEF Publishes
<1>2. \A t : Plain(t) /\ (t = Stage2Verify => Verified) => InOrder
  BY <1>1 DEF Plain
<1>3. \A s : AfterLoss(s) \in {"retry", "failed"}
  BY DEF AfterLoss
<1>4. CASE Jobs
  <2>1. CASE \/ \E u \in Upstreams : VerifyUpstream(u)
             \/ \E s \in Sources : VerifySource(s)
             \/ GenerateDevelopmentData
             \/ \E p \in Baselines : FitBaseline(p)
             \/ \E p \in Neural : TrainNeural(p) \/ ValidateCheckpoint(p)
             \/ \E p \in Predictors : PredictValidation(p)
             \/ FreezeCandidate \/ VerifyGrant \/ VerifyStage2
             \/ \E r \in Roles : PredictFormalModel(r) \/ ScoreTrajectories(r)
    <3>1. ASSUME NEW u, VerifyUpstream(u) \/ VerifySource(u) PROVE InOrder
      BY <1>2, <3>1, OtherTasks DEF VerifyUpstream, VerifySource
    <3>2. ASSUME NEW p, FitBaseline(p) \/ TrainNeural(p) \/ ValidateCheckpoint(p) \/ PredictValidation(p)
          PROVE  InOrder
      BY <1>2, <3>2, OtherTasks DEF FitBaseline, TrainNeural, ValidateCheckpoint, PredictValidation
    <3>3. ASSUME NEW r, PredictFormalModel(r) \/ ScoreTrajectories(r) PROVE InOrder
      BY <1>2, <3>3, OtherTasks DEF PredictFormalModel, ScoreTrajectories
    <3>4. CASE GenerateDevelopmentData \/ FreezeCandidate \/ VerifyGrant
      <4>1. Data # Stage2Verify /\ Candidate # Stage2Verify /\ GrantVerify # Stage2Verify
        BY OtherTasks
      <4>2. CASE GenerateDevelopmentData
        BY <1>2, <4>1, <4>2 DEF GenerateDevelopmentData
      <4>3. CASE FreezeCandidate
        BY <1>2, <4>1, <4>3 DEF FreezeCandidate
      <4>4. CASE VerifyGrant
        BY <1>2, <4>1, <4>4 DEF VerifyGrant
      <4> QED BY <3>4, <4>2, <4>3, <4>4
    <3>5. CASE VerifyStage2
      BY <1>2, <3>5 DEF VerifyStage2, SuiteIsBacked
    <3> QED BY <2>1, <3>1, <3>2, <3>3, <3>4, <3>5
  <2>2. CASE \/ \E t \in {SelectLinear, SelectPrimary} : SelectModel(t)
             \/ PublishStage2Receipt \/ PublishFormal \/ PairedBootstrap \/ Decide \/ PublishE02Receipt
    <3>1. \E t : Ready(t) /\ Publishes(t) /\ t # Stage2Verify
      BY <2>2, OtherTasks
         DEF SelectModel, PublishStage2Receipt, PublishFormal, PairedBootstrap, Decide, PublishE02Receipt
    <3> QED BY <1>1, <3>1
  <2>3. CASE MakeFreezeRoot \/ WriteFreeze \/ OpenFormal \/ WriteFinal
    <3>1. \/ UNCHANGED status
          \/ \E t : Ready(t) /\ status' = [status EXCEPT ![t] = "failed"]
          \/ Ready(Open) /\ status' = [status EXCEPT ![Open] = AfterLoss(status[Open])]
      BY <2>3 DEF MakeFreezeRoot, WriteFreeze, OpenFormal, WriteFinal
    <3> QED BY <1>0, <1>3, <3>1, OneTask
  <2>4. CASE \E t \in Tasks : PublishAgain(t)
    <3>1. PICK t \in Tasks : Ready(t) /\ status' = [status EXCEPT ![t] = AfterLoss(status[t])]
      BY <2>4 DEF PublishAgain
    <3> QED BY <1>3, <3>1, OneTask
  <2> QED BY <1>4, <2>1, <2>2, <2>3, <2>4 DEF Jobs
<1>5. CASE \E t \in Tasks : Mishap(t)
  <2>1. PICK t \in Tasks, new \in {"retry", "failed", "stuck"} : Ready(t) /\ status' = [status EXCEPT ![t] = new]
    BY <1>3, <1>5, Mishaps
  <2> QED BY <2>1, OneTask
<1>6. CASE LaunchE02 \/ TimePasses
  BY <1>0, <1>6 DEF LaunchE02, TimePasses
<1> QED BY <1>4, <1>5, <1>6 DEF StudyNext, Mishap

\* What the other variables of the order do.
FilesMove ==
  /\ manifest' = manifest \/ (MakeFreezeRoot \/ WriteFreeze)
  /\ selected' = selected \/ \E t \in {SelectLinear, SelectPrimary} : SelectModel(t)
  /\ Stage2Receipt \in writing' => Stage2Receipt \in writing \/ MakeFreezeRoot

LEMMA FilesInOrder ==
  ASSUME OrderTypes, StudyNext
  PROVE  FilesMove /\ hour' \in Nat /\ grant' \in Int
<1> USE DEF FilesMove, Plain, Results, Outside
<1>1. ASSUME Jobs PROVE FilesMove /\ UNCHANGED <<hour, grant>>
  <2>1. ASSUME NEW u, VerifyUpstream(u) \/ VerifySource(u) PROVE FilesMove /\ UNCHANGED <<hour, grant>>
    BY <2>1 DEF VerifyUpstream, VerifySource
  <2>2. ASSUME NEW p, FitBaseline(p) \/ TrainNeural(p) \/ ValidateCheckpoint(p) \/ PredictValidation(p)
        PROVE  FilesMove /\ UNCHANGED <<hour, grant>>
    BY <2>2 DEF FitBaseline, TrainNeural, ValidateCheckpoint, PredictValidation
  <2>3. ASSUME NEW r, PredictFormalModel(r) \/ ScoreTrajectories(r) PROVE FilesMove /\ UNCHANGED <<hour, grant>>
    BY <2>3 DEF PredictFormalModel, ScoreTrajectories
  <2>4. CASE GenerateDevelopmentData \/ FreezeCandidate \/ VerifyGrant \/ VerifyStage2
    BY <2>4 DEF GenerateDevelopmentData, FreezeCandidate, VerifyGrant, VerifyStage2
  <2>5. CASE \/ \E t \in {SelectLinear, SelectPrimary} : SelectModel(t)
             \/ PublishStage2Receipt \/ PublishFormal \/ PairedBootstrap \/ Decide \/ PublishE02Receipt
    BY <2>5 DEF SelectModel, PublishStage2Receipt, PublishFormal, PairedBootstrap, Decide, PublishE02Receipt
  <2>6. CASE MakeFreezeRoot \/ WriteFreeze \/ OpenFormal \/ WriteFinal
    <3>1. Open # Stage2Receipt /\ E02Receipt # Stage2Receipt
      BY DEF Open, E02Receipt, Stage2Receipt
    <3> QED BY <2>6, <3>1 DEF MakeFreezeRoot, WriteFreeze, OpenFormal, WriteFinal
  <2>7. ASSUME NEW t, PublishAgain(t) PROVE FilesMove /\ UNCHANGED <<hour, grant>>
    BY <2>7 DEF PublishAgain
  <2> QED BY <1>1, <2>1, <2>2, <2>3, <2>4, <2>5, <2>6, <2>7 DEF Jobs
<1>2. CASE LaunchE02 \/ TimePasses
  BY <1>2 DEF LaunchE02, TimePasses, OrderTypes
<1>3. CASE \E t \in Tasks : Mishap(t)
  BY <1>3, Mishaps DEF OrderTypes
<1> QED BY <1>1, <1>2, <1>3 DEF StudyNext, OrderTypes, Mishap

LEMMA OrderStep ==
  ASSUME OrderInv, [StudyNext]_studyVars
  PROVE  OrderInv'
<1>0. CASE UNCHANGED studyVars
  BY <1>0 DEF studyVars, OrderInv, OrderTypes, FrozenInOrder, Done, Results, Outside
<1>1. CASE StudyNext
  <2>1. InOrder
    BY <1>1, StepsInOrder DEF OrderInv
  <2>2. Done(Candidate)' => \A d \in Material : Done(d)'
    <3>1. Done(Candidate)' => \A d \in Material : Done(d)
      BY <2>1, TheTasks DEF OrderInv, FrozenInOrder, InOrder, Ready, Done
    <3> QED BY <2>1, <3>1, TheTasks DEF InOrder
  <2>3. /\ manifest' = manifest \/ (MakeFreezeRoot \/ WriteFreeze)
        /\ selected' = selected \/ \E t \in {SelectLinear, SelectPrimary} : SelectModel(t)
        /\ Stage2Receipt \in writing' => Stage2Receipt \in writing \/ MakeFreezeRoot
        /\ hour' \in Nat /\ grant' \in Int
    BY <1>1, FilesInOrder DEF OrderInv, FilesMove
  <2>4. Done(Candidate) => selected' = selected
    <3> SUFFICES ASSUME NEW t \in {SelectLinear, SelectPrimary}, SelectModel(t), Done(Candidate) PROVE FALSE
      BY <2>3
    <3>1. Done(t)
      BY DEF OrderInv, FrozenInOrder, Material
    <3> QED BY <3>1 DEF SelectModel, Ready, Done
  <2>5. Done(Candidate) => Done(Candidate)'
    BY <2>1, TheTasks DEF InOrder
  <2>6. Done(Stage2Verify)' => manifest.stage = "complete"
    BY <2>1, TheTasks DEF InOrder, OrderInv, FrozenInOrder, Verified
  <2>7. MakeFreezeRoot /\ manifest.stage # "absent" => writing' = writing
    BY DEF MakeFreezeRoot
  <2>8. MakeFreezeRoot /\ manifest.stage = "absent" => manifest' # manifest
    BY DEF MakeFreezeRoot, OrderInv, OrderTypes
  <2>9. CASE manifest' = manifest
    BY <2>1, <2>2, <2>3, <2>4, <2>5, <2>6, <2>7, <2>8, <2>9 DEF OrderInv, OrderTypes, FrozenInOrder, InOrder
  <2>10. CASE MakeFreezeRoot /\ manifest' # manifest
    <3>1. Done(Candidate) /\ manifest' = [manifest EXCEPT !.stage = "made"] /\ manifest.stage = "absent"
      BY <2>10, TheTasks DEF MakeFreezeRoot, Ready, Done
    <3>2. manifest' = [stage |-> "made", linear |-> manifest.linear, primary |-> manifest.primary]
      BY <3>1 DEF OrderInv, OrderTypes
    <3> QED BY <2>1, <2>2, <2>3, <2>5, <2>6, <3>1, <3>2 DEF OrderInv, OrderTypes, FrozenInOrder, InOrder
  <2>11. CASE WriteFreeze /\ manifest' # manifest
    <3>1. Done(Candidate) /\ manifest.stage \in {"made", "manifest"}
      BY <2>11, TheTasks DEF WriteFreeze, Ready, Done, OrderInv, FrozenInOrder
    <3>2. selected' = selected /\ Done(Candidate)' /\ ~Done(Stage2Verify)'
      BY <2>4, <2>5, <2>6, <3>1
    <3>3. CASE manifest.stage = "made"
      <4>1. manifest' = [stage |-> "manifest", linear |-> selected.linear, primary |-> selected.primary]
        BY <2>11, <3>3 DEF WriteFreeze
      <4> QED BY <2>1, <2>2, <2>3, <3>2, <4>1 DEF OrderInv, OrderTypes, FrozenInOrder, InOrder
    <3>4. CASE manifest.stage = "manifest"
      <4>1. manifest' = [manifest EXCEPT !.stage = "complete"]
        BY <2>11, <3>4 DEF WriteFreeze
      <4>2. manifest' = [stage |-> "complete", linear |-> manifest.linear, primary |-> manifest.primary]
        BY <4>1 DEF OrderInv, OrderTypes
      <4> QED BY <2>1, <2>2, <2>3, <3>2, <3>4, <4>2 DEF OrderInv, OrderTypes, FrozenInOrder, InOrder
    <3> QED BY <3>1, <3>3, <3>4
  <2> QED BY <2>3, <2>9, <2>10, <2>11
<1> QED BY <1>0, <1>1

\* The inductive invariant of the studies' order.
THEOREM StudiesInOrder == StudySpec => []OrderInv
<1>1. StudyInit => OrderInv
  BY TheTasks, NumbersAssumption DEF StudyInit, OrderInv, OrderTypes, FrozenInOrder, Done, None
<1> QED BY <1>1, OrderStep, PTL DEF StudySpec

\* Formal data are opened only under a current grant, and after the suite they
\* will judge has been frozen from every prediction, for any seeds, models,
\* scores, losses and clock (open_formal_job, freeze_stage2_suite).
THEOREM FormalDataAreSealed == StudySpec => FormalDataStaysSealed
<1>1. OrderInv /\ [StudyNext]_studyVars =>
        [(Open \in writing' \ writing) =>
           hour - grant \in 0..(Lifetime - 1) /\ SelectionIsFrozen]_studyVars
  <2> SUFFICES ASSUME OrderInv, StudyNext, Open \in writing' \ writing
               PROVE  hour - grant \in 0..(Lifetime - 1) /\ SelectionIsFrozen
    OBVIOUS
  <2>1. OpenFormal /\ Current
    <3>1. CASE Jobs
      <4>1. Open # Stage2Receipt /\ Open # E02Receipt
        BY DEF Open, E02Receipt, Stage2Receipt
      <4> QED BY <3>1, <4>1
          DEF Jobs, VerifyUpstream, VerifySource, GenerateDevelopmentData, FitBaseline, TrainNeural,
              ValidateCheckpoint, PredictValidation, SelectModel, FreezeCandidate, MakeFreezeRoot, WriteFreeze,
              PublishStage2Receipt, VerifyGrant, VerifyStage2, OpenFormal, PublishFormal, PredictFormalModel,
              ScoreTrajectories, PairedBootstrap, Decide, WriteFinal, PublishE02Receipt, PublishAgain, Plain
    <3>2. CASE LaunchE02 \/ TimePasses
      BY <3>2 DEF LaunchE02, TimePasses
    <3>3. CASE \E t \in Tasks : Mishap(t)
      BY <3>3, Mishaps
    <3> QED BY <3>1, <3>2, <3>3 DEF StudyNext, Mishap
  <2>2. hour - grant \in 0..(Lifetime - 1)
    BY <2>1, NumbersAssumption DEF Current, OrderInv, OrderTypes
  <2>3. Done(Stage2Verify)
    BY <2>1, TheTasks DEF OpenFormal, Ready, Done
  <2>4. /\ manifest.stage = "complete" /\ manifest.linear = selected.linear
        /\ manifest.primary = selected.primary /\ \A p \in Predictors : Done(Predict(p))
    BY <2>3 DEF OrderInv, FrozenInOrder, Material
  <2> QED BY <2>2, <2>4 DEF SelectionIsFrozen, OrderInv, OrderTypes, Done
<1> QED BY <1>1, StudiesInOrder, PTL DEF StudySpec, FormalDataStaysSealed

-----------------------------------------------------------------------------
(* Why runs fail.  Every task has two tries; without an error of its job     *)
(* only the opening of the formal data loses one, and a try repeated after   *)
(* its artifact was stored is lost as well.                                  *)

Expired == grant >= 0 /\ hour >= grant + Lifetime

\* What a failed task has met.
Cause(t) ==
  \/ rejected \/ losses >= 2
  \/ t = Stage2Receipt /\ manifest.stage # "absent"
  \/ t = Open /\ Expired
  \/ t \in published

\* A task on its second try has lost the first, or was refused the data.
FirstLost(t) == losses >= 1 \/ (t = Open /\ Expired)

TriesOK ==
  /\ losses \in Nat /\ Lifetime \in Nat /\ hour >= grant
  /\ published # {} => losses >= 1
  /\ \A t \in Tasks : status[t] = "failed" => Cause(t)
  /\ \A t \in Tasks : status[t] = "retry" => FirstLost(t)
  /\ final # "NONE" => Done(Decision) /\ final = outcome

TriesInv == OrderInv /\ TriesOK

\* Causes stay: losses and the clock only grow, the directory is never removed.
CausesStay ==
  /\ losses' \in Nat /\ losses' >= losses /\ hour' >= grant'
  /\ rejected => rejected'
  /\ published \subseteq published' /\ (published' # published => losses' = losses + 1)
  /\ manifest.stage # "absent" => manifest'.stage # "absent"
  /\ Expired => Expired'

LEMMA CausesMove ==
  ASSUME TriesInv, StudyNext
  PROVE  CausesStay
<1> USE DEF TriesInv, TriesOK, OrderInv, OrderTypes
<1>1. hour' \in Nat /\ grant' \in Int /\ FilesMove
  BY FilesInOrder
<1>2. manifest.stage # "absent" => manifest'.stage # "absent"
  <2>1. CASE manifest' = manifest
    BY <2>1
  <2>2. CASE MakeFreezeRoot /\ manifest' # manifest
    BY <2>2 DEF MakeFreezeRoot
  <2>3. CASE WriteFreeze /\ manifest' # manifest
    <3>1. \/ manifest' = [stage |-> "manifest", linear |-> selected.linear, primary |-> selected.primary]
          \/ manifest' = [manifest EXCEPT !.stage = "complete"]
      BY <2>3 DEF WriteFreeze
    <3>2. [manifest EXCEPT !.stage = "complete"].stage = "complete"
      OBVIOUS
    <3> QED BY <3>1, <3>2
  <2> QED BY <1>1, <2>1, <2>2, <2>3 DEF FilesMove
<1>3. /\ losses' \in Nat /\ losses' >= losses
      /\ rejected => rejected'
      /\ published \subseteq published' /\ (published' # published => losses' = losses + 1)
      /\ \/ UNCHANGED <<hour, grant>>
         \/ grant < 0 /\ grant' = hour /\ hour' = hour
         \/ grant' = grant /\ hour' = hour + 1
  <2>1. CASE Jobs
    <3>1. UNCHANGED <<hour, grant, published, rejected>> /\ (losses' = losses \/ losses' = losses + 1)
      <4>1. ASSUME NEW u, VerifyUpstream(u) \/ VerifySource(u) PROVE UNCHANGED Outside
        BY <4>1 DEF VerifyUpstream, VerifySource, Plain
      <4>2. ASSUME NEW p, FitBaseline(p) \/ TrainNeural(p) \/ ValidateCheckpoint(p) \/ PredictValidation(p)
            PROVE  UNCHANGED Outside
        BY <4>2 DEF FitBaseline, TrainNeural, ValidateCheckpoint, PredictValidation, Plain
      <4>3. ASSUME NEW r, PredictFormalModel(r) \/ ScoreTrajectories(r) PROVE UNCHANGED Outside
        BY <4>3 DEF PredictFormalModel, ScoreTrajectories, Plain
      <4>4. ASSUME NEW t, SelectModel(t) PROVE UNCHANGED Outside
        BY <4>4 DEF SelectModel
      <4>5. CASE GenerateDevelopmentData \/ FreezeCandidate \/ VerifyGrant \/ VerifyStage2
        BY <4>5 DEF GenerateDevelopmentData, FreezeCandidate, VerifyGrant, VerifyStage2, Plain, Outside
      <4>6. CASE MakeFreezeRoot \/ PublishStage2Receipt \/ OpenFormal \/ PublishFormal \/ PairedBootstrap \/ Decide
                 \/ WriteFinal \/ PublishE02Receipt
        BY <4>6
           DEF MakeFreezeRoot, PublishStage2Receipt, OpenFormal, PublishFormal, PairedBootstrap, Decide,
                    WriteFinal, PublishE02Receipt, Outside
      <4>7. CASE WriteFreeze
        BY <4>7 DEF WriteFreeze
      <4>8. ASSUME NEW t, PublishAgain(t) PROVE UNCHANGED Outside
        BY <4>8 DEF PublishAgain
      <4> QED BY <2>1, <4>1, <4>2, <4>3, <4>4, <4>5, <4>6, <4>7, <4>8 DEF Jobs, Outside
    <3> QED BY <3>1
  <2>2. CASE LaunchE02 \/ TimePasses
    BY <2>2 DEF LaunchE02, TimePasses
  <2>3. CASE \E t \in Tasks : Mishap(t)
    <3>1. PICK t \in Tasks : Mishap(t)
      BY <2>3
    <3>2. /\ losses' = losses + 1 /\ UNCHANGED <<hour, grant>>
          /\ published' = published \/ published' = published \cup {t}
          /\ rejected' = rejected \/ rejected' = TRUE
      BY <3>1, Mishaps
    <3>3. rejected => rejected'
      BY <3>2, Zenon
    <3> QED BY <3>2, <3>3
  <2> QED BY <2>1, <2>2, <2>3 DEF StudyNext, Mishap
<1> QED BY <1>1, <1>2, <1>3 DEF CausesStay, Expired

\* How a try ends: nothing but a refused opening, an artifact already stored or
\* a loss costs one of the two.
TryEnds ==
  \/ UNCHANGED status
  \/ \E t \in Tasks : Ready(t) /\ status' = [status EXCEPT ![t] = "stuck"]
  \/ \E t \in Tasks : Ready(t) /\ Publishes(t)
  \/ \E t \in Tasks : /\ Ready(t) /\ status' = [status EXCEPT ![t] = "failed"]
                      /\ rejected' \/ (t = Stage2Receipt /\ manifest.stage # "absent")
  \/ \E t \in Tasks : /\ Ready(t) /\ status' = [status EXCEPT ![t] = AfterLoss(status[t])]
                      /\ losses' = losses + 1 \/ (t = Open /\ Expired) \/ t \in published

LEMMA StudyTasks ==
  /\ \A u \in Upstreams : Upstream(u) \in Tasks
  /\ \A s \in Sources : Source(s) \in Tasks
  /\ \A p \in Neural : Train(p) \in Tasks /\ Fitted(p) \in Tasks
  /\ \A p \in Baselines : Fitted(p) \in Tasks
  /\ \A p \in Predictors : Predict(p) \in Tasks
  /\ \A r \in Roles : PredictFormal(r) \in Tasks /\ ScoreFormal(r) \in Tasks
  /\ {Data, SelectLinear, SelectPrimary, Candidate, Stage2Receipt, GrantVerify, Stage2Verify, Open, Bootstrap,
      Decision, E02Receipt} \subseteq Tasks
  /\ Decision \in Deps(E02Receipt) /\ Open \in E02Tasks
<1>1. Decision \in Deps(E02Receipt)
  BY DEF Deps, E02Receipt, Decision, SelectLinear, SelectPrimary
<1>2. Neural \subseteq Predictors /\ Baselines \subseteq Predictors
  BY DEF Predictors
<1>3. /\ Stage2Tasks \subseteq Tasks /\ E02Tasks \subseteq Tasks
  BY DEF Tasks
<1>4. /\ \A u \in Upstreams : Upstream(u) \in Stage2Tasks
      /\ \A s \in Sources : Source(s) \in Stage2Tasks
      /\ \A p \in Neural : Train(p) \in Stage2Tasks
      /\ \A p \in Predictors : Fitted(p) \in Stage2Tasks /\ Predict(p) \in Stage2Tasks
      /\ {Data, SelectLinear, SelectPrimary, Candidate, Stage2Receipt} \subseteq Stage2Tasks
  BY DEF Stage2Tasks
<1>5. /\ \A r \in Roles : PredictFormal(r) \in E02Tasks /\ ScoreFormal(r) \in E02Tasks
      /\ {GrantVerify, Stage2Verify, Open, Bootstrap, Decision, E02Receipt} \subseteq E02Tasks
  BY DEF E02Tasks
<1> QED BY <1>1, <1>2, <1>3, <1>4, <1>5

LEMMA TriesEnd ==
  ASSUME TriesInv, StudyNext
  PROVE  TryEnds
<1> USE DEF TriesInv, OrderInv
<1>1. \A t \in Tasks : Plain(t) => TryEnds
  BY DEF Plain, TryEnds
<1>2. CASE Jobs
  <2>1. CASE \/ \E u \in Upstreams : VerifyUpstream(u)
             \/ \E s \in Sources : VerifySource(s)
    BY <1>1, <2>1, StudyTasks DEF VerifyUpstream, VerifySource
  <2>2. CASE \/ \E p \in Baselines : FitBaseline(p)
             \/ \E p \in Neural : TrainNeural(p) \/ ValidateCheckpoint(p)
    BY <1>1, <2>2, StudyTasks DEF FitBaseline, TrainNeural, ValidateCheckpoint
  <2>3. CASE \/ \E p \in Predictors : PredictValidation(p)
             \/ \E r \in Roles : PredictFormalModel(r) \/ ScoreTrajectories(r)
    BY <1>1, <2>3, StudyTasks DEF PredictValidation, PredictFormalModel, ScoreTrajectories
  <2>4. CASE GenerateDevelopmentData \/ FreezeCandidate \/ VerifyGrant \/ VerifyStage2
    <3>1. Data \in Tasks /\ Candidate \in Tasks /\ GrantVerify \in Tasks /\ Stage2Verify \in Tasks
      BY StudyTasks
    <3> QED BY <1>1, <2>4, <3>1 DEF GenerateDevelopmentData, FreezeCandidate, VerifyGrant, VerifyStage2
  <2>5. CASE \/ \E t \in {SelectLinear, SelectPrimary} : SelectModel(t)
             \/ PublishStage2Receipt \/ PublishFormal \/ PairedBootstrap \/ Decide \/ PublishE02Receipt
    <3>1. \E t \in Tasks : Ready(t) /\ Publishes(t)
      BY <2>5, StudyTasks
         DEF SelectModel, PublishStage2Receipt, PublishFormal, PairedBootstrap, Decide, PublishE02Receipt
    <3> QED BY <3>1 DEF TryEnds
  <2>6. CASE MakeFreezeRoot \/ WriteFreeze
    <3>1. \/ UNCHANGED status
          \/ /\ Ready(Stage2Receipt) /\ manifest.stage # "absent"
             /\ status' = [status EXCEPT ![Stage2Receipt] = "failed"]
      BY <2>6 DEF MakeFreezeRoot, WriteFreeze, FrozenInOrder
    <3> QED BY <3>1, StudyTasks DEF TryEnds
  <2>7. CASE OpenFormal
    <3>1. \/ UNCHANGED status
          \/ Ready(Open) /\ ~Current /\ status' = [status EXCEPT ![Open] = AfterLoss(status[Open])]
      BY <2>7 DEF OpenFormal
    <3>2. Ready(Open) /\ ~Current => Expired
      BY StudyTasks DEF Ready, Current, Expired, TriesOK, OrderTypes
    <3> QED BY <3>1, <3>2, StudyTasks DEF TryEnds
  <2>8. CASE WriteFinal
    BY <2>8 DEF WriteFinal, SameFinal, TriesOK, TryEnds
  <2>9. CASE \E t \in Tasks : PublishAgain(t)
    BY <2>9 DEF PublishAgain, TryEnds
  <2> QED BY <1>2, <2>1, <2>2, <2>3, <2>4, <2>5, <2>6, <2>7, <2>8, <2>9 DEF Jobs
<1>3. CASE \E t \in Tasks : Mishap(t)
  <2> PICK t \in Tasks : Mishap(t)
    BY <1>3
  <2>1. \/ Ready(t) /\ rejected' /\ status' = [status EXCEPT ![t] = "failed"]
        \/ Ready(t) /\ status' = [status EXCEPT ![t] = "stuck"]
        \/ Ready(t) /\ losses' = losses + 1 /\ status' = [status EXCEPT ![t] = AfterLoss(status[t])]
    BY Mishaps
  <2> QED BY <2>1 DEF TryEnds
<1>4. CASE LaunchE02 \/ TimePasses
  BY <1>4 DEF LaunchE02, TimePasses, TryEnds
<1> QED BY <1>2, <1>3, <1>4 DEF StudyNext, Mishap

\* The final directory is the decision's, which is made once.
LEMMA FinalIsDecided ==
  ASSUME TriesInv, StudyNext
  PROVE  (final # "NONE" => Done(Decision) /\ final = outcome)'
<1> USE DEF TriesInv, TriesOK, OrderInv
<1>1. Done(Decision) => Done(Decision)'
  BY StepsInOrder, StudyTasks DEF InOrder
<1>2. CASE Jobs
  <2> USE DEF Results
  <2>1. ASSUME NEW t, Plain(t) PROVE UNCHANGED <<outcome, final>>
    BY <2>1 DEF Plain
  <2>2. CASE Decide
    <3>1. ~Done(Decision)
      BY <2>2 DEF Decide, Ready, Done
    <3> QED BY <2>2, <3>1 DEF Decide
  <2>3. CASE WriteFinal
    <3>1. Done(Decision)
      BY <2>3, StudyTasks DEF WriteFinal, Ready, Done
    <3> QED BY <1>1, <2>3, <3>1 DEF WriteFinal
  <2>4. CASE \/ \E t \in {SelectLinear, SelectPrimary} : SelectModel(t)
             \/ MakeFreezeRoot \/ WriteFreeze \/ PublishStage2Receipt \/ OpenFormal \/ PublishFormal
             \/ PairedBootstrap \/ PublishE02Receipt \/ \E t \in Tasks : PublishAgain(t)
    <3>1. UNCHANGED <<outcome, final>>
      BY <2>4 DEF SelectModel, MakeFreezeRoot, WriteFreeze, PublishStage2Receipt, OpenFormal, PublishFormal,
                  PairedBootstrap, PublishE02Receipt, PublishAgain
    <3> QED BY <1>1, <3>1
  <2>5. CASE \E t : Plain(t)
    BY <1>1, <2>1, <2>5
  <2>6. Jobs => (\E t : Plain(t)) \/ Decide \/ WriteFinal
                \/ (\E t \in {SelectLinear, SelectPrimary} : SelectModel(t))
                \/ MakeFreezeRoot \/ WriteFreeze \/ PublishStage2Receipt \/ OpenFormal \/ PublishFormal
                \/ PairedBootstrap \/ PublishE02Receipt \/ (\E t \in Tasks : PublishAgain(t))
    BY DEF Jobs, VerifyUpstream, VerifySource, GenerateDevelopmentData, FitBaseline, TrainNeural,
           ValidateCheckpoint, PredictValidation, FreezeCandidate, VerifyGrant, VerifyStage2,
           PredictFormalModel, ScoreTrajectories
  <2> QED BY <1>2, <2>2, <2>3, <2>4, <2>5, <2>6
<1>3. CASE LaunchE02 \/ TimePasses \/ \E t \in Tasks : Mishap(t)
  <2>1. UNCHANGED <<outcome, final>>
    BY <1>3, Mishaps DEF LaunchE02, TimePasses, Results
  <2> QED BY <1>1, <2>1
<1> QED BY <1>2, <1>3 DEF StudyNext, Mishap

LEMMA TriesStep ==
  ASSUME TriesInv, [StudyNext]_studyVars
  PROVE  TriesInv'
<1>0. OrderInv'
  BY OrderStep DEF TriesInv
<1>1. CASE UNCHANGED studyVars
  BY <1>0, <1>1 DEF studyVars, TriesInv, TriesOK, Cause, FirstLost, Expired, Done, Results, Outside
<1>2. CASE StudyNext
  <2>1. CausesStay /\ TryEnds /\ Lifetime \in Nat
    BY <1>2, CausesMove, TriesEnd DEF TriesInv, TriesOK
  <2>2. \A t : /\ Cause(t) => Cause(t)'
               /\ FirstLost(t) => FirstLost(t)'
    BY <2>1 DEF CausesStay, Cause, FirstLost, TriesInv, TriesOK
  <2>3. \A t \in Tasks : (status'[t] = "failed" => Cause(t)') /\ (status'[t] = "retry" => FirstLost(t)')
    <3>1. CASE UNCHANGED status
      BY <2>2, <3>1 DEF TriesInv, TriesOK
    <3>2. ASSUME NEW u \in Tasks, Ready(u), Publishes(u)
          PROVE  \A t \in Tasks : (status'[t] = "failed" => Cause(t)') /\ (status'[t] = "retry" => FirstLost(t)')
      BY <2>2, <3>2 DEF Publishes, TriesInv, TriesOK, OrderInv, OrderTypes
    <3>3. ASSUME NEW u \in Tasks, Ready(u), status' = [status EXCEPT ![u] = "failed"],
                 rejected' \/ (u = Stage2Receipt /\ manifest.stage # "absent")
          PROVE  \A t \in Tasks : (status'[t] = "failed" => Cause(t)') /\ (status'[t] = "retry" => FirstLost(t)')
      <4>1. Cause(u)'
        BY <2>1, <3>3 DEF CausesStay, Cause
      <4> QED BY <2>2, <3>3, <4>1 DEF TriesInv, TriesOK, OrderInv, OrderTypes
    <3>4. ASSUME NEW u \in Tasks, Ready(u), status' = [status EXCEPT ![u] = AfterLoss(status[u])],
                 losses' = losses + 1 \/ (u = Open /\ Expired) \/ u \in published
          PROVE  \A t \in Tasks : (status'[t] = "failed" => Cause(t)') /\ (status'[t] = "retry" => FirstLost(t)')
      <4>1. FirstLost(u)'
        BY <2>1, <3>4 DEF CausesStay, FirstLost, TriesInv, TriesOK
      <4>2. status[u] = "retry" => Cause(u)'
        BY <2>1, <3>4 DEF CausesStay, FirstLost, Cause, TriesInv, TriesOK
      <4>3. \/ status[u] = "waiting" /\ AfterLoss(status[u]) = "retry"
            \/ status[u] = "retry" /\ AfterLoss(status[u]) = "failed"
        BY <3>4 DEF Ready, AfterLoss
      <4> QED BY <2>2, <3>4, <4>1, <4>2, <4>3 DEF TriesInv, TriesOK, OrderInv, OrderTypes
    <3>5. ASSUME NEW u \in Tasks, Ready(u), status' = [status EXCEPT ![u] = "stuck"]
          PROVE  \A t \in Tasks : (status'[t] = "failed" => Cause(t)') /\ (status'[t] = "retry" => FirstLost(t)')
      BY <2>2, <3>5 DEF TriesInv, TriesOK, OrderInv, OrderTypes
    <3> QED BY <2>1, <3>1, <3>2, <3>3, <3>4, <3>5 DEF TryEnds
  <2>4. (final # "NONE" => Done(Decision) /\ final = outcome)'
    BY <1>2, FinalIsDecided
  <2>5. (published # {} => losses >= 1)'
    BY <2>1 DEF CausesStay, TriesInv, TriesOK
  <2> QED BY <1>0, <2>1, <2>3, <2>4, <2>5 DEF CausesStay, TriesInv, TriesOK
<1> QED BY <1>1, <1>2

LEMMA TriesInit == StudyInit => TriesInv
<1>1. StudyInit => OrderInv
  BY TheTasks, NumbersAssumption DEF StudyInit, OrderInv, OrderTypes, FrozenInOrder, Done, None
<1>2. StudyInit => TriesOK
  BY NumbersAssumption DEF StudyInit, TriesOK
<1> QED BY <1>1, <1>2 DEF TriesInv

\* A study fails for a cause: an error that is never retried, two lost tries, an
\* interrupted freeze, an expired grant, or a try lost between its artifact and
\* its row (compile_e02_ready, open_formal_job, freeze_stage2_suite,
\* write_final_e02, _atomic_link).
THEOREM FailuresHaveCauses == StudySpec => []FailureHasCause
<1>1. TriesInv => FailureHasCause
  BY DEF TriesInv, TriesOK, Cause, Expired, FailureHasCause, OrderInv, OrderTypes
<1> QED BY <1>1, TriesInit, TriesStep, PTL DEF StudySpec

-----------------------------------------------------------------------------
(* What E02 compares.  The selection is made once and before the manifest is *)
(* written, the evidence names what the manifest names, and the decision is  *)
(* made once from evidence that does not change any more.                    *)

LEMMA SeedsAreNumbered ==
  /\ Len(Seeds) \in Nat /\ Indices = 1..Len(Seeds) /\ Indices # {}
  /\ Indices \subseteq Nat /\ IsFiniteSet(Indices)
  /\ \A i \in Indices : Seeds[i] \in Inits /\ Seeds[i] # 0
<1>1. Len(Seeds) \in Nat /\ Indices = 1..Len(Seeds) /\ Len(Seeds) # 0
  BY SeedsAssumption DEF Indices
<1>2. IsFiniteSet(1..Len(Seeds))
  BY <1>1, FS_Interval
<1>3. \A i \in Indices : Seeds[i] \in Inits /\ Seeds[i] # 0
  BY SeedsAssumption DEF Inits, Indices
<1> QED BY <1>1, <1>2, <1>3

LEMMA LeastOf ==
  ASSUME NEW S, S \subseteq Nat, S # {}
  PROVE  \E x \in S : \A y \in S : x <= y
<1>1. PICK x \in S : \A y \in S : ~(<<y, x>> \in OpToRel(<, Nat))
  BY NatLessThanWellFounded, WFMin
<1>2. \A y \in S : ~(y < x)
  BY <1>1 DEF OpToRel
<1> QED BY <1>2

\* The primary initialization is the best, and the only one.
LEMMA BestIsChosen ==
  ASSUME score \in [Predictors -> Scores]
  PROVE  IsBest(PrimaryInitialization) /\ PrimaryInitialization \in Inits
<1>1. \A i \in Indices : Key(i) \in Nat
  BY SeedsAreNumbered, NumbersAssumption, FamiliesAssumption DEF Key, Predictors, Neural
<1> DEFINE Keys == {Key(i) : i \in Indices}
<1>2. PICK least \in Keys : \A k \in Keys : least <= k
  <2>1. Keys \subseteq Nat /\ Keys # {}
    BY <1>1, SeedsAreNumbered
  <2> HIDE DEF Keys
  <2> QED BY <2>1, LeastOf
<1> DEFINE Leasts == {i \in Indices : Key(i) = least}
<1>3. PICK first \in Leasts : \A i \in Leasts : first <= i
  <2>1. Leasts \subseteq Nat /\ Leasts # {}
    BY <1>2, SeedsAreNumbered
  <2> HIDE DEF Leasts
  <2> QED BY <2>1, LeastOf
<1> DEFINE Wins(i) == \A j \in Indices : Key(i) < Key(j) \/ (Key(i) = Key(j) /\ i <= j)
<1>4. Wins(first)
  <2> TAKE j \in Indices
  <2>1. Key(first) = least /\ least <= Key(j)
    BY <1>2, <1>3
  <2>2. Key(j) = least => first <= j
    BY <1>3
  <2>3. Key(first) \in Nat /\ Key(j) \in Nat
    BY <1>1, <1>3
  <2> HIDE DEF Key
  <2> QED BY <2>1, <2>2, <2>3
<1>5. PrimaryInitialization = Seeds[CHOOSE i \in Indices : Wins(i)]
  BY DEF PrimaryInitialization
<1> DEFINE winner == CHOOSE i \in Indices : Wins(i)
<1>6. winner \in Indices /\ Wins(winner)
  <2>1. \E i \in Indices : Wins(i)
    BY <1>3, <1>4
  <2> HIDE DEF Wins
  <2> QED BY <2>1
<1>7. \A j \in Indices : Key(winner) <= Key(j) /\ (j < winner => Key(winner) < Key(j))
  <2> TAKE j \in Indices
  <2>1. Key(winner) < Key(j) \/ (Key(winner) = Key(j) /\ winner <= j)
    BY <1>6
  <2>2. Key(winner) \in Nat /\ Key(j) \in Nat /\ winner \in Nat /\ j \in Nat
    BY <1>1, <1>6, SeedsAreNumbered
  <2> HIDE DEF Key, winner
  <2> QED BY <2>1, <2>2
<1>8. PrimaryInitialization = Seeds[winner] /\ Seeds[winner] \in Inits
  BY <1>5, <1>6, SeedsAreNumbered
<1> HIDE DEF winner
<1> QED BY <1>6, <1>7, <1>8 DEF IsBest

LEMMA OneIsBest ==
  ASSUME score \in [Predictors -> Scores],
         NEW i \in Indices, NEW j \in Indices, IsBest(Seeds[i]), IsBest(Seeds[j])
  PROVE  i = j
<1>1. \A k \in Indices : Key(k) \in Nat
  BY SeedsAreNumbered, NumbersAssumption, FamiliesAssumption DEF Key, Predictors, Neural
<1>2. \A k \in Indices : /\ Key(i) <= Key(k) /\ (k < i => Key(i) < Key(k))
                         /\ Key(j) <= Key(k) /\ (k < j => Key(j) < Key(k))
  BY SeedsAssumption DEF IsBest, Indices
<1>3. /\ Key(i) <= Key(j) /\ (j < i => Key(i) < Key(j))
      /\ Key(j) <= Key(i) /\ (i < j => Key(j) < Key(i))
  BY <1>2
<1>4. i \in Nat /\ j \in Nat /\ Key(i) \in Nat /\ Key(j) \in Nat
  BY <1>1, SeedsAreNumbered
<1> HIDE DEF Key
<1> QED BY <1>3, <1>4

\* A finite set has a subset of every smaller size.
LEMMA EnoughOf ==
  ASSUME NEW S, IsFiniteSet(S), NEW k \in Nat
  PROVE  Cardinality(S) >= k <=> \E T \in SUBSET S : Cardinality(T) = k
<1>1. ASSUME NEW T \in SUBSET S, Cardinality(T) = k PROVE Cardinality(S) >= k
  BY <1>1, FS_Subset, FS_CardinalityType
<1>2. ASSUME Cardinality(S) >= k PROVE \E T \in SUBSET S : Cardinality(T) = k
  <2> DEFINE n == Cardinality(S)
  <2>1. n \in Nat /\ \E f : f \in Bijection(1..n, S)
    BY FS_CardinalityType DEF ExistsBijection
  <2> PICK f : f \in Bijection(1..n, S)
    BY <2>1
  <2> DEFINE T == {f[x] : x \in 1..k}
             g == [x \in 1..k |-> f[x]]
  <2>2. 1..k \subseteq 1..n
    BY <1>2, <2>1
  <2>3. /\ f \in [1..n -> S] /\ \A x, y \in 1..n : f[x] = f[y] => x = y
    BY DEF Bijection, Injection, Surjection, IsInjective
  <2>4. g \in Bijection(1..k, T)
    <3> HIDE DEF n
    <3>1. g \in [1..k -> T] /\ \A t \in T : \E x \in 1..k : g[x] = t
      OBVIOUS
    <3>2. \A x, y \in 1..k : g[x] = g[y] => x = y
      BY <2>2, <2>3
    <3> HIDE DEF g, T
    <3> QED BY <3>1, <3>2 DEF Bijection, Injection, Surjection, IsInjective
  <2>5. Cardinality(T) = k
    <3>1. ExistsBijection(1..k, T)
      BY <2>4 DEF ExistsBijection
    <3> HIDE DEF T
    <3> QED BY <3>1, FS_CountingElements
  <2>6. T \in SUBSET S
    BY <2>2, <2>3
  <2> HIDE DEF T
  <2> QED BY <2>5, <2>6
<1> QED BY <1>1, <1>2

Evidences == [primary : Inits \cup {0}, linear : Linear \cup {"NONE"},
              skill : [Indices -> Skills \cup {0}], sound : BOOLEAN, lower : BOOLEAN]

\* What a PASS says, skill by skill.
LEMMA PassMeans ==
  ASSUME NEW e \in Evidences, NEW i \in Indices, e.primary = Seeds[i]
  PROVE  Judgement(e) = "PASS" <=>
           /\ e.sound /\ e.lower /\ e.skill[i] >= MinimumSkill
           /\ \E good \in SUBSET Indices : /\ Cardinality(good) = MinimumPositive
                                            /\ \A j \in good : e.skill[j] > 0
<1>1. PrimarySkill(e) = e.skill[i]
  <2>1. \A j \in Indices : Seeds[j] = e.primary <=> j = i
    BY SeedsAssumption DEF Indices
  <2>2. (CHOOSE j \in Indices : Seeds[j] = e.primary) = i
    BY <2>1
  <2> QED BY <2>2 DEF PrimarySkill
<1>2. e.skill[i] \in Int
  <2>1. e.skill \in [Indices -> Skills \cup {0}]
    BY DEF Evidences
  <2>2. e.skill[i] \in Skills \cup {0}
    BY <2>1
  <2>3. Skills \cup {0} \subseteq Int
    BY NumbersAssumption
  <2> QED BY <2>2, <2>3
<1> DEFINE Positive == {j \in Indices : e.skill[j] > 0}
<1>3. PositiveInits(e) >= MinimumPositive <=>
        \E good \in SUBSET Positive : Cardinality(good) = MinimumPositive
  <2>1. IsFiniteSet(Positive)
    BY SeedsAreNumbered, FS_Subset
  <2>2. PositiveInits(e) = Cardinality(Positive)
    BY DEF PositiveInits
  <2> HIDE DEF Positive
  <2> QED BY <2>1, <2>2, EnoughOf, NumbersAssumption
<1>4. (\E good \in SUBSET Positive : Cardinality(good) = MinimumPositive) <=>
        \E good \in SUBSET Indices : /\ Cardinality(good) = MinimumPositive
                                      /\ \A j \in good : e.skill[j] > 0
  OBVIOUS
<1>5. Judgement(e) = "PASS" <=> /\ e.sound /\ e.lower /\ PrimarySkill(e) >= MinimumSkill
                                /\ PositiveInits(e) >= MinimumPositive
  <2>1. PrimarySkill(e) >= MinimumSkill => ~(PrimarySkill(e) < 0)
    BY <1>1, <1>2, NumbersAssumption
  <2>2. e.sound \in BOOLEAN /\ e.lower \in BOOLEAN
    BY DEF Evidences
  <2> QED BY <2>1, <2>2 DEF Judgement
<1> HIDE DEF Positive
<1> QED BY <1>1, <1>3, <1>4, <1>5

ChosenOK ==
  /\ StudyTypeOK
  /\ Done(SelectLinear) => selected.linear = StrongestLinear
  /\ Done(SelectPrimary) => IsBest(selected.primary)
  /\ manifest.stage \in {"absent", "made"} => manifest.primary = 0
  /\ evidence # NoEvidence => IsBest(evidence.primary) /\ evidence.linear = StrongestLinear
  /\ Done(Bootstrap) => evidence.primary \in Inits
  /\ Done(Decision) => Done(Bootstrap) /\ outcome = Judgement(evidence)

ChosenInv == TriesInv /\ ChosenOK

\* The tasks whose jobs choose.
Choosing == {SelectLinear, SelectPrimary, Bootstrap, Decision}

LEMMA OthersDoNotChoose ==
  /\ \A u : Upstream(u) \notin Choosing /\ Source(u) \notin Choosing
  /\ \A q : Train(q) \notin Choosing /\ Fitted(q) \notin Choosing /\ Predict(q) \notin Choosing
  /\ \A r : PredictFormal(r) \notin Choosing /\ ScoreFormal(r) \notin Choosing
  /\ Data \notin Choosing /\ Candidate \notin Choosing /\ GrantVerify \notin Choosing
  /\ Stage2Verify \notin Choosing
  /\ Stage2Receipt \notin Choosing /\ Open \notin Choosing /\ E02Receipt \notin Choosing
<1>1. \A t \in Choosing : t[1] \in {"MODEL_SELECT", "PAIRED_BOOTSTRAP", "E02_DECISION"}
  BY DEF Choosing, SelectLinear, SelectPrimary, Bootstrap, Decision
<1>2. /\ \A u : Upstream(u)[1] = "UPSTREAM_VERIFY" /\ Source(u)[1] = "SOURCE_VERIFY"
      /\ \A q : /\ Train(q)[1] = "NEURAL_TRAIN" /\ Predict(q)[1] = "VALIDATION_PREDICT"
                /\ Fitted(q)[1] \in {"CHECKPOINT_VALIDATE", "BASELINE_FIT"}
      /\ \A r : PredictFormal(r)[1] = "FORMAL_PREDICT" /\ ScoreFormal(r)[1] = "TRAJECTORY_SCORE"
  BY DEF Upstream, Source, Train, Predict, Fitted, PredictFormal, ScoreFormal
<1>3. /\ Data[1] = "DEV_DATA" /\ Candidate[1] = "FREEZE_CANDIDATE" /\ GrantVerify[1] = "GRANT_VERIFY"
      /\ Stage2Verify[1] = "STAGE2_VERIFY" /\ Stage2Receipt[1] = "STAGE2_RECEIPT"
      /\ Open[1] = "FORMAL_OPEN" /\ E02Receipt[1] = "E02_RECEIPT"
  BY DEF Data, Candidate, GrantVerify, Stage2Verify, Stage2Receipt, Open, E02Receipt
<1>4. /\ \A u : Upstream(u) \notin Choosing /\ Source(u) \notin Choosing
  BY <1>1, <1>2
<1>5. \A q : Train(q) \notin Choosing /\ Fitted(q) \notin Choosing /\ Predict(q) \notin Choosing
  BY <1>1, <1>2
<1>6. \A r : PredictFormal(r) \notin Choosing /\ ScoreFormal(r) \notin Choosing
  BY <1>1, <1>2
<1>7. /\ Data \notin Choosing /\ Candidate \notin Choosing /\ GrantVerify \notin Choosing
      /\ Stage2Verify \notin Choosing
      /\ Stage2Receipt \notin Choosing /\ Open \notin Choosing /\ E02Receipt \notin Choosing
  BY <1>1, <1>3
<1> QED BY <1>4, <1>5, <1>6, <1>7

\* The jobs by what they do beyond completing a task.
LEMMA JobKinds ==
  ASSUME Jobs
  PROVE  \/ \E t \in Tasks \ Choosing : Plain(t)
         \/ \E t \in {SelectLinear, SelectPrimary} : SelectModel(t)
         \/ MakeFreezeRoot \/ WriteFreeze \/ PublishStage2Receipt \/ OpenFormal \/ PublishFormal
         \/ PairedBootstrap \/ Decide \/ WriteFinal \/ PublishE02Receipt
         \/ \E t \in Tasks : PublishAgain(t)
<1>1. CASE (\E u \in Upstreams : VerifyUpstream(u)) \/ (\E s \in Sources : VerifySource(s))
  BY <1>1, StudyTasks, OthersDoNotChoose DEF VerifyUpstream, VerifySource
<1>2. CASE (\E p \in Baselines : FitBaseline(p)) \/ (\E p \in Neural : TrainNeural(p) \/ ValidateCheckpoint(p))
  BY <1>2, StudyTasks, OthersDoNotChoose DEF FitBaseline, TrainNeural, ValidateCheckpoint
<1>3. CASE \/ \E p \in Predictors : PredictValidation(p)
           \/ \E r \in Roles : PredictFormalModel(r) \/ ScoreTrajectories(r)
  BY <1>3, StudyTasks, OthersDoNotChoose DEF PredictValidation, PredictFormalModel, ScoreTrajectories
<1>4. CASE GenerateDevelopmentData \/ FreezeCandidate \/ VerifyGrant \/ VerifyStage2
  <2>1. Data \in Tasks \ Choosing /\ Candidate \in Tasks \ Choosing /\ GrantVerify \in Tasks \ Choosing
        /\ Stage2Verify \in Tasks \ Choosing
    BY StudyTasks, OthersDoNotChoose
  <2> QED BY <1>4, <2>1 DEF GenerateDevelopmentData, FreezeCandidate, VerifyGrant, VerifyStage2
<1> QED BY <1>1, <1>2, <1>3, <1>4 DEF Jobs

\* A choice is made by the job that makes it.
LEMMA WhoChooses ==
  ASSUME OrderTypes, StudyNext, NEW c \in Choosing, ~Done(c), Done(c)'
  PROVE  \/ c \in {SelectLinear, SelectPrimary} /\ SelectModel(c)
         \/ c = Bootstrap /\ PairedBootstrap
         \/ c = Decision /\ Decide
<1>1. \A t, new : status' = [status EXCEPT ![t] = new] => c = t /\ new = "done"
  BY StudyTasks DEF OrderTypes, Choosing, Done
<1>2. status' # status
  BY DEF Done
<1>3. CASE Jobs
  <2>1. CASE \E t \in Tasks \ Choosing : Plain(t)
    BY <1>1, <2>1 DEF Plain, Publishes
  <2>2. CASE \E t \in {SelectLinear, SelectPrimary} : SelectModel(t)
    BY <1>1, <2>2 DEF SelectModel, Publishes
  <2>3. CASE MakeFreezeRoot \/ WriteFreeze \/ PublishStage2Receipt
    <3>1. \/ status' = status
          \/ \E new : status' = [status EXCEPT ![Stage2Receipt] = new]
      BY <2>3 DEF MakeFreezeRoot, WriteFreeze, PublishStage2Receipt, Publishes
    <3> QED BY <1>1, <1>2, <3>1, OthersDoNotChoose
  <2>4. CASE OpenFormal \/ PublishFormal
    <3>1. \/ status' = status
          \/ \E new : status' = [status EXCEPT ![Open] = new]
      BY <2>4 DEF OpenFormal, PublishFormal, Publishes
    <3> QED BY <1>1, <1>2, <3>1, OthersDoNotChoose
  <2>5. CASE WriteFinal \/ PublishE02Receipt
    <3>1. \/ status' = status
          \/ \E new : status' = [status EXCEPT ![E02Receipt] = new]
      BY <2>5 DEF WriteFinal, PublishE02Receipt, Publishes
    <3> QED BY <1>1, <1>2, <3>1, OthersDoNotChoose
  <2>6. CASE PairedBootstrap
    BY <1>1, <2>6 DEF PairedBootstrap, Publishes
  <2>7. CASE Decide
    BY <1>1, <2>7 DEF Decide, Publishes
  <2>8. CASE \E t \in Tasks : PublishAgain(t)
    <3>1. \E t \in Tasks, new \in {"retry", "failed"} : status' = [status EXCEPT ![t] = new]
      BY <2>8 DEF PublishAgain, AfterLoss
    <3> QED BY <1>1, <3>1
  <2> QED BY <1>3, <2>1, <2>2, <2>3, <2>4, <2>5, <2>6, <2>7, <2>8, JobKinds
<1>4. CASE \E t \in Tasks : Mishap(t)
  <2>1. \E t \in Tasks, new \in {"retry", "failed", "stuck"} : status' = [status EXCEPT ![t] = new]
    BY <1>4, Mishaps DEF AfterLoss
  <2> QED BY <1>1, <2>1
<1>5. CASE LaunchE02 \/ TimePasses
  BY <1>2, <1>5 DEF LaunchE02, TimePasses
<1> QED BY <1>3, <1>4, <1>5 DEF StudyNext, Mishap

\* The bootstrap finds the primary of the manifest among the seeds.
LEMMA BootstrapNamesPrimary ==
  ASSUME PairedBootstrap
  PROVE  /\ manifest.primary \in Inits
         /\ \E skill \in [Indices -> Skills], sound, lower \in BOOLEAN :
              evidence' = [primary |-> manifest.primary, linear |-> manifest.linear,
                           skill |-> skill, sound |-> sound, lower |-> lower]
<1>1. Cardinality(Flagged) = 1
  BY DEF PairedBootstrap
<1>2. PICK i \in Flagged : TRUE
  BY <1>1, FS_EmptySet
<1> DEFINE flag == CHOOSE j \in Flagged : TRUE
<1>3. flag \in Flagged
  BY <1>2
<1> HIDE DEF flag
<1>4. Seeds[flag] = manifest.primary /\ Seeds[flag] \in Inits
  BY <1>3, SeedsAreNumbered DEF Flagged
<1>5. \E skill \in [Indices -> Skills], sound, lower \in BOOLEAN :
        evidence' = [primary |-> Seeds[flag], linear |-> manifest.linear,
                     skill |-> skill, sound |-> sound, lower |-> lower]
  BY DEF PairedBootstrap, flag
<1> QED BY <1>4, <1>5

\* What a step does to the choices, and what it leaves alone.
ChoicesMove ==
  /\ score' = score
  /\ selected' = selected \/ \E t \in {SelectLinear, SelectPrimary} : SelectModel(t)
  /\ evidence' = evidence \/ PairedBootstrap
  /\ outcome' = outcome \/ Decide

LEMMA ChoicesInOrder ==
  ASSUME StudyNext
  PROVE  ChoicesMove
<1> USE DEF ChoicesMove, Results
<1>1. CASE Jobs
  <2>1. CASE \E t \in Tasks \ Choosing : Plain(t)
    BY <2>1 DEF Plain
  <2>2. CASE \/ \E t \in {SelectLinear, SelectPrimary} : SelectModel(t)
             \/ MakeFreezeRoot \/ WriteFreeze \/ PublishStage2Receipt \/ OpenFormal \/ PublishFormal
             \/ PairedBootstrap \/ Decide \/ WriteFinal \/ PublishE02Receipt
             \/ \E t \in Tasks : PublishAgain(t)
    BY <2>2 DEF SelectModel, MakeFreezeRoot, WriteFreeze, PublishStage2Receipt, OpenFormal, PublishFormal,
                PairedBootstrap, Decide, WriteFinal, PublishE02Receipt, PublishAgain
  <2> QED BY <1>1, <2>1, <2>2, JobKinds
<1>2. CASE LaunchE02 \/ TimePasses \/ \E t \in Tasks : Mishap(t)
  BY <1>2, Mishaps DEF LaunchE02, TimePasses
<1> QED BY <1>1, <1>2 DEF StudyNext, Mishap

\* What is selected, tried once.
LEMMA SelectionKeeps ==
  ASSUME ChosenInv, StudyNext
  PROVE  /\ selected' \in [linear : Linear \cup {"NONE"}, primary : Inits \cup {0}]
         /\ (Done(SelectLinear) => selected.linear = StrongestLinear)'
         /\ (Done(SelectPrimary) => IsBest(selected.primary))'
<1>1. InOrder /\ ChoicesMove
  BY StepsInOrder, ChoicesInOrder DEF ChosenInv, TriesInv, OrderInv
<1>2. /\ selected \in [linear : Linear \cup {"NONE"}, primary : Inits \cup {0}]
      /\ score \in [Predictors -> Scores]
      /\ Done(SelectLinear) => selected.linear = StrongestLinear
      /\ Done(SelectPrimary) => IsBest(selected.primary)
  BY DEF ChosenInv, ChosenOK, StudyTypeOK
<1>3. /\ StrongestLinear' = StrongestLinear
      /\ \A seed : IsBest(seed) => IsBest(seed)'
  BY <1>1 DEF ChoicesMove, StrongestLinear, IsBest, Key
<1>4. SelectLinear # SelectPrimary /\ SelectLinear \in Tasks /\ SelectPrimary \in Tasks
  BY StudyTasks DEF SelectLinear, SelectPrimary
<1>5. ASSUME NEW t \in {SelectLinear, SelectPrimary}, SelectModel(t)
      PROVE  /\ selected' \in [linear : Linear \cup {"NONE"}, primary : Inits \cup {0}]
             /\ (Done(SelectLinear) => selected.linear = StrongestLinear)'
             /\ (Done(SelectPrimary) => IsBest(selected.primary))'
  <2>1. status' = [status EXCEPT ![t] = "done"]
    BY <1>5 DEF SelectModel, Publishes
  <2>2. CASE t = SelectLinear
    <3>1. selected' = [selected EXCEPT !.linear = StrongestLinear]
      BY <1>5, <2>2 DEF SelectModel
    <3>2. StrongestLinear \in Linear
      BY DEF StrongestLinear, Linear
    <3>3. selected' = [linear |-> StrongestLinear, primary |-> selected.primary]
      BY <1>2, <3>1
    <3>4. Done(SelectPrimary)' => Done(SelectPrimary)
      BY <1>4, <2>1, <2>2 DEF Done
    <3> HIDE DEF IsBest, StrongestLinear
    <3> QED BY <1>2, <1>3, <3>2, <3>3, <3>4
  <2>3. CASE t = SelectPrimary
    <3>1. selected' = [selected EXCEPT !.primary = PrimaryInitialization]
      BY <1>4, <1>5, <2>3 DEF SelectModel
    <3>2. IsBest(PrimaryInitialization) /\ PrimaryInitialization \in Inits
      BY <1>2, BestIsChosen
    <3>3. selected' = [linear |-> selected.linear, primary |-> PrimaryInitialization]
      BY <1>2, <3>1
    <3>4. Done(SelectLinear)' => Done(SelectLinear)
      BY <1>4, <2>1, <2>3 DEF Done
    <3> QED BY <1>2, <1>3, <3>2, <3>3, <3>4
  <2> QED BY <1>5, <2>2, <2>3
<1>6. CASE ~\E t \in {SelectLinear, SelectPrimary} : SelectModel(t)
  <2>1. selected' = selected
    BY <1>1, <1>6 DEF ChoicesMove
  <2>2. \A t \in {SelectLinear, SelectPrimary} : Done(t)' => Done(t)
    <3>1. SelectLinear \notin {Bootstrap, Decision} /\ SelectPrimary \notin {Bootstrap, Decision}
      BY DEF SelectLinear, SelectPrimary, Bootstrap, Decision
    <3> QED BY <1>6, <3>1, WhoChooses DEF Choosing, ChosenInv, TriesInv, OrderInv
  <2> QED BY <1>2, <1>3, <2>1, <2>2
<1> QED BY <1>5, <1>6

\* The manifest holds no choice before it is written.
LEMMA ManifestKeeps ==
  ASSUME ChosenInv, StudyNext
  PROVE  manifest' \in Manifests /\ (manifest'.stage \in {"absent", "made"} => manifest'.primary = 0)
<1>1. /\ manifest' = manifest \/ (MakeFreezeRoot \/ WriteFreeze)
      /\ manifest \in Manifests /\ (manifest.stage \in {"absent", "made"} => manifest.primary = 0)
      /\ selected.linear \in Linear \cup {"NONE"} /\ selected.primary \in Inits \cup {0}
  BY FilesInOrder DEF FilesMove, ChosenInv, ChosenOK, TriesInv, OrderInv, StudyTypeOK
<1>2. manifest = [stage |-> manifest.stage, linear |-> manifest.linear, primary |-> manifest.primary]
  BY DEF ChosenInv, TriesInv, OrderInv, OrderTypes
<1>3. ASSUME NEW stage, manifest' = [manifest EXCEPT !.stage = stage]
      PROVE  manifest' = [stage |-> stage, linear |-> manifest.linear, primary |-> manifest.primary]
  BY <1>2, <1>3
<1>4. CASE manifest' = manifest
  BY <1>1, <1>4
<1>5. CASE MakeFreezeRoot /\ manifest' # manifest
  <2>1. manifest.stage = "absent" /\ manifest' = [manifest EXCEPT !.stage = "made"]
    BY <1>5 DEF MakeFreezeRoot
  <2> QED BY <1>1, <1>3, <2>1 DEF Manifests
<1>6. CASE WriteFreeze /\ manifest' # manifest
  <2>1. \/ manifest' = [stage |-> "manifest", linear |-> selected.linear, primary |-> selected.primary]
        \/ manifest' = [manifest EXCEPT !.stage = "complete"]
    BY <1>6 DEF WriteFreeze
  <2> QED BY <1>1, <1>3, <2>1 DEF Manifests
<1> QED BY <1>1, <1>4, <1>5, <1>6

\* The evidence is of what the manifest names, and the decision of the evidence.
LEMMA EvidenceKeeps ==
  ASSUME ChosenInv, StudyNext
  PROVE  /\ evidence' \in Evidences /\ outcome' \in Outcomes
         /\ (evidence # NoEvidence => IsBest(evidence.primary) /\ evidence.linear = StrongestLinear)'
         /\ (Done(Bootstrap) => evidence.primary \in Inits)'
         /\ (Done(Decision) => Done(Bootstrap) /\ outcome = Judgement(evidence))'
<1>1. InOrder /\ ChoicesMove
  BY StepsInOrder, ChoicesInOrder DEF ChosenInv, TriesInv, OrderInv
<1>2. /\ evidence \in Evidences /\ outcome \in Outcomes
      /\ evidence # NoEvidence => IsBest(evidence.primary) /\ evidence.linear = StrongestLinear
      /\ Done(Bootstrap) => evidence.primary \in Inits
      /\ Done(Decision) => Done(Bootstrap) /\ outcome = Judgement(evidence)
  BY DEF ChosenInv, ChosenOK, StudyTypeOK, Evidences
<1>3. /\ StrongestLinear' = StrongestLinear
      /\ \A seed : IsBest(seed) => IsBest(seed)'
  BY <1>1 DEF ChoicesMove, StrongestLinear, IsBest, Key
<1>4. /\ Bootstrap \in Tasks /\ Decision \in Tasks /\ Bootstrap # Decision
      /\ Bootstrap \notin {SelectLinear, SelectPrimary} /\ Decision \notin {SelectLinear, SelectPrimary}
      /\ Bootstrap \in Choosing /\ Decision \in Choosing
  BY StudyTasks DEF Bootstrap, Decision, SelectLinear, SelectPrimary, Choosing
<1>5. Bootstrap \in Deps(Decision)
  BY DEF Deps, Decision, SelectLinear, SelectPrimary
<1>6. /\ Done(Bootstrap)' => Done(Bootstrap) \/ PairedBootstrap
      /\ Done(Decision)' => Done(Decision) \/ Decide
      /\ Done(Bootstrap) => Done(Bootstrap)'
      /\ Done(Decision) => Done(Decision)'
  <2>1. Done(Bootstrap)' => Done(Bootstrap) \/ PairedBootstrap
    BY <1>4, WhoChooses DEF ChosenInv, TriesInv, OrderInv
  <2>2. Done(Decision)' => Done(Decision) \/ Decide
    BY <1>4, WhoChooses DEF ChosenInv, TriesInv, OrderInv
  <2> QED BY <1>1, <1>4, <2>1, <2>2 DEF InOrder
<1>7. CASE PairedBootstrap
  <2>1. PICK skill \in [Indices -> Skills], sound \in BOOLEAN, lower \in BOOLEAN :
          evidence' = [primary |-> manifest.primary, linear |-> manifest.linear,
                       skill |-> skill, sound |-> sound, lower |-> lower]
    BY <1>7, BootstrapNamesPrimary
  <2>2. manifest.primary \in Inits /\ manifest.primary # 0
    BY <1>7, BootstrapNamesPrimary, SeedsAssumption DEF Inits
  <2>3. /\ manifest.linear = selected.linear /\ manifest.primary = selected.primary
        /\ Done(SelectLinear) /\ Done(SelectPrimary)
    BY <2>2 DEF ChosenInv, ChosenOK, TriesInv, OrderInv, FrozenInOrder, Material
  <2>4. IsBest(manifest.primary) /\ manifest.linear = StrongestLinear /\ StrongestLinear \in Linear
    BY <2>3 DEF ChosenInv, ChosenOK, StrongestLinear, Linear
  <2>5. evidence' \in Evidences
    <3>1. skill \in [Indices -> Skills \cup {0}]
      OBVIOUS
    <3> QED BY <2>1, <2>2, <2>4, <3>1 DEF Evidences
  <2>6. ~Done(Decision)' /\ outcome' = outcome
    <3>1. ~Done(Bootstrap)
      BY <1>7 DEF PairedBootstrap, Ready, Done
    <3>2. status' = [status EXCEPT ![Bootstrap] = "done"] /\ outcome' = outcome
      BY <1>7 DEF PairedBootstrap, Publishes
    <3> QED BY <1>2, <1>4, <3>1, <3>2 DEF Done, ChosenInv, TriesInv, OrderInv, OrderTypes
  <2>7. evidence'.primary = manifest.primary /\ evidence'.linear = manifest.linear
    BY <2>1
  <2> HIDE DEF IsBest, StrongestLinear
  <2> QED BY <1>2, <1>3, <2>2, <2>4, <2>5, <2>6, <2>7
<1>8. CASE ~PairedBootstrap /\ Decide
  <2>1. Done(Bootstrap) /\ outcome' = Judgement(evidence) /\ evidence' = evidence
    BY <1>5, <1>8 DEF Decide, Ready, Done
  <2>2. Judgement(evidence) \in Outcomes
    BY DEF Judgement, Outcomes
  <2> HIDE DEF IsBest, StrongestLinear, Judgement
  <2>3. Done(Bootstrap)' /\ evidence.primary \in Inits
    BY <1>2, <1>6, <2>1
  <2>4. (evidence # NoEvidence => IsBest(evidence.primary) /\ evidence.linear = StrongestLinear)'
    BY <1>2, <1>3, <2>1
  <2>5. outcome' = Judgement(evidence')
    BY <2>1
  <2> QED BY <1>2, <2>1, <2>2, <2>3, <2>4, <2>5
<1>9. CASE ~PairedBootstrap /\ ~Decide
  <2>1. evidence' = evidence /\ outcome' = outcome
    BY <1>1, <1>9 DEF ChoicesMove
  <2> HIDE DEF IsBest, StrongestLinear, Judgement
  <2>2. (Done(Bootstrap) => evidence.primary \in Inits)'
    BY <1>2, <1>6, <1>9, <2>1
  <2>3. (evidence # NoEvidence => IsBest(evidence.primary) /\ evidence.linear = StrongestLinear)'
    BY <1>2, <1>3, <2>1
  <2>4. Done(Decision)' => Done(Bootstrap)' /\ outcome' = Judgement(evidence')
    BY <1>2, <1>6, <1>9, <2>1
  <2> QED BY <1>2, <2>1, <2>2, <2>3, <2>4
<1> QED BY <1>7, <1>8, <1>9

\* The bounds and the rest of the types.
LEMMA BoundsKeep ==
  ASSUME ChosenInv, StudyNext
  PROVE  /\ writing' \subseteq Tasks /\ published' \subseteq Tasks /\ final' \in Outcomes
         /\ hour' \in 0..LastHour /\ grant' \in -1..LastHour
         /\ losses' \in 0..MaxLosses /\ rejected' \in BOOLEAN
<1>1. /\ writing \subseteq Tasks /\ published \subseteq Tasks /\ final \in Outcomes /\ outcome \in Outcomes
      /\ hour \in 0..LastHour /\ grant \in -1..LastHour
      /\ losses \in 0..MaxLosses /\ rejected \in BOOLEAN
      /\ LastHour \in Nat /\ MaxLosses \in Nat
  BY NumbersAssumption DEF ChosenInv, ChosenOK, StudyTypeOK
<1>2. Stage2Receipt \in Tasks /\ Open \in Tasks /\ E02Receipt \in Tasks
  BY StudyTasks
<1> USE DEF Results, Outside
<1>3. CASE Jobs
  <2>1. CASE \/ \E t \in Tasks \ Choosing : Plain(t)
             \/ \E t \in {SelectLinear, SelectPrimary} : SelectModel(t)
    BY <1>1, <2>1 DEF Plain, SelectModel
  <2>2. CASE MakeFreezeRoot \/ PublishStage2Receipt \/ OpenFormal \/ PublishFormal \/ PublishE02Receipt
             \/ PairedBootstrap \/ Decide \/ WriteFinal
    BY <1>1, <1>2, <2>2
       DEF MakeFreezeRoot, PublishStage2Receipt, OpenFormal, PublishFormal, PublishE02Receipt,
                            PairedBootstrap, Decide, WriteFinal
  <2>3. CASE WriteFreeze
    BY <1>1, <2>3 DEF WriteFreeze
  <2>4. CASE \E t \in Tasks : PublishAgain(t)
    BY <1>1, <2>4 DEF PublishAgain
  <2> QED BY <1>3, <2>1, <2>2, <2>3, <2>4, JobKinds
<1>4. CASE LaunchE02 \/ TimePasses
  BY <1>1, <1>4 DEF LaunchE02, TimePasses
<1>5. CASE \E t \in Tasks : Mishap(t)
  <2> PICK t \in Tasks : Mishap(t)
    BY <1>5
  <2>1. /\ writing' = writing \ {t} /\ UNCHANGED <<final, hour, grant>>
        /\ losses < MaxLosses /\ losses' = losses + 1 /\ (rejected' = rejected \/ rejected' = TRUE)
        /\ published' = published \/ published' = published \cup {t}
    BY Mishaps
  <2>2. rejected' \in BOOLEAN
    BY <1>1, <2>1, Zenon
  <2>5. losses' \in 0..MaxLosses
    <3>1. losses < MaxLosses /\ losses' = losses + 1
      BY <2>1
    <3>2. losses \in 0..MaxLosses /\ MaxLosses \in Nat
      BY <1>1
    <3> QED BY <3>1, <3>2
  <2>3. writing' \subseteq Tasks /\ published' \subseteq Tasks
    BY <1>1, <2>1
  <2>4. final' \in Outcomes /\ hour' \in 0..LastHour /\ grant' \in -1..LastHour
    BY <1>1, <2>1
  <2> QED BY <2>2, <2>3, <2>4, <2>5
<1> QED BY <1>3, <1>4, <1>5 DEF StudyNext, Mishap

LEMMA ChosenStep ==
  ASSUME ChosenInv, [StudyNext]_studyVars
  PROVE  ChosenInv'
<1>0. TriesInv'
  BY TriesStep DEF ChosenInv
<1>1. CASE UNCHANGED studyVars
  <2>1. UNCHANGED <<status, score, selected, manifest, writing, hour, grant, evidence, outcome, final,
                    published, losses, rejected>>
    BY <1>1 DEF studyVars
  <2>2. StrongestLinear' = StrongestLinear /\ \A seed : IsBest(seed)' <=> IsBest(seed)
    BY <2>1 DEF StrongestLinear, IsBest, Key
  <2>3. StudyTypeOK'
    BY <2>1 DEF StudyTypeOK, ChosenInv, ChosenOK
  <2>4. (Done(Decision) => Done(Bootstrap) /\ outcome = Judgement(evidence))'
    BY <2>1 DEF ChosenInv, ChosenOK, Done
  <2> HIDE DEF StrongestLinear, IsBest, Judgement, StudyTypeOK
  <2> QED BY <1>0, <2>1, <2>2, <2>3, <2>4 DEF ChosenInv, ChosenOK, Done
<1>2. CASE StudyNext
  <2>1. status' \in [Tasks -> {"waiting", "retry", "done", "failed", "stuck"}] /\ score' \in [Predictors -> Scores]
    BY <1>2, StepsInOrder, ChoicesInOrder
       DEF ChosenInv, ChosenOK, StudyTypeOK, TriesInv, OrderInv, InOrder, ChoicesMove
  <2>2. StudyTypeOK'
    BY <1>2, <2>1, SelectionKeeps, ManifestKeeps, EvidenceKeeps, BoundsKeep DEF StudyTypeOK, Evidences
  <2>3. (manifest.stage \in {"absent", "made"} => manifest.primary = 0)'
    BY <1>2, ManifestKeeps
  <2>4. /\ (Done(SelectLinear) => selected.linear = StrongestLinear)'
        /\ (Done(SelectPrimary) => IsBest(selected.primary))'
    BY <1>2, SelectionKeeps
  <2>5. /\ (evidence # NoEvidence => IsBest(evidence.primary) /\ evidence.linear = StrongestLinear)'
        /\ (Done(Bootstrap) => evidence.primary \in Inits)'
        /\ (Done(Decision) => Done(Bootstrap) /\ outcome = Judgement(evidence))'
    BY <1>2, EvidenceKeeps
  <2> QED BY <1>0, <2>2, <2>3, <2>4, <2>5 DEF ChosenInv, ChosenOK
<1> QED BY <1>1, <1>2

\* What E02 compares is what validation chose, and its verdict is the one its
\* evidence earns, for any seeds, families, scores, skills and gate
\* (select_primary_initialization, score_job, evaluate_e02, write_final_e02).
THEOREM VerdictsAreEarned == StudySpec => []StudyInv
<1>1. StudyInit => ChosenInv
  <2> SUFFICES ASSUME StudyInit PROVE ChosenInv
    OBVIOUS
  <2>1. TriesInv
    BY TriesInit
  <2>2. \A t \in Tasks : ~Done(t)
    BY DEF StudyInit, Done
  <2>3. evidence = NoEvidence /\ NoEvidence \in Evidences
    BY DEF StudyInit, NoEvidence, Evidences
  <2>4. StudyTypeOK
    <3>1. /\ selected \in [linear : Linear \cup {"NONE"}, primary : Inits \cup {0}]
          /\ manifest \in Manifests /\ outcome \in Outcomes /\ final \in Outcomes
      BY DEF StudyInit, Manifests, Outcomes
    <3>2. hour \in 0..LastHour /\ grant \in -1..LastHour /\ losses \in 0..MaxLosses
      BY NumbersAssumption DEF StudyInit
    <3>3. /\ status \in [Tasks -> {"waiting", "retry", "done", "failed", "stuck"}]
          /\ score \in [Predictors -> Scores] /\ rejected \in BOOLEAN
          /\ writing \subseteq Tasks /\ published \subseteq Tasks
      BY DEF StudyInit
    <3> QED BY <2>3, <3>1, <3>2, <3>3 DEF StudyTypeOK, Evidences
  <2>5. manifest.primary = 0
    BY DEF StudyInit
  <2> QED BY <2>1, <2>2, <2>3, <2>4, <2>5, StudyTasks DEF ChosenInv, ChosenOK
<1>2. ChosenInv => StudyInv
  <2> SUFFICES ASSUME ChosenInv PROVE StudyInv
    OBVIOUS
  <2>1. ComparedAsSelected
    <3>1. score[<<"VAR", 0>>] \in Nat /\ score[<<"DLINEAR", 0>>] \in Nat
      <4>1. <<"VAR", 0>> \in Predictors /\ <<"DLINEAR", 0>> \in Predictors
        BY DEF Predictors, Baselines, Linear
      <4> QED BY <4>1, NumbersAssumption DEF ChosenInv, ChosenOK, StudyTypeOK
    <3>2. evidence # NoEvidence => IsBest(evidence.primary) /\ evidence.linear = StrongestLinear
      BY DEF ChosenInv, ChosenOK
    <3> QED BY <3>1, <3>2 DEF ComparedAsSelected, StrongestLinear
  <2>2. PassIsEarned
    <3> SUFFICES ASSUME final # "NONE"
                 PROVE  final = "PASS" <=>
                          /\ evidence.sound /\ evidence.lower
                          /\ \E i \in Indices : IsBest(Seeds[i]) /\ evidence.skill[i] >= MinimumSkill
                          /\ \E good \in SUBSET Indices : /\ Cardinality(good) = MinimumPositive
                                                           /\ \A i \in good : evidence.skill[i] > 0
      BY DEF PassIsEarned
    <3>1. final = Judgement(evidence) /\ evidence.primary \in Inits /\ evidence \in Evidences
      <4>1. Done(Decision) /\ final = outcome
        BY DEF ChosenInv, TriesInv, TriesOK
      <4>2. evidence \in Evidences
        BY DEF ChosenInv, ChosenOK, StudyTypeOK, Evidences
      <4>3. Done(Bootstrap) /\ outcome = Judgement(evidence)
        BY <4>1 DEF ChosenInv, ChosenOK
      <4>4. evidence.primary \in Inits
        BY <4>3 DEF ChosenInv, ChosenOK
      <4> QED BY <4>1, <4>2, <4>3, <4>4
    <3>2. PICK i \in Indices : evidence.primary = Seeds[i]
      BY <3>1 DEF Inits, Indices
    <3>3. IsBest(Seeds[i])
      <4>1. evidence # NoEvidence
        <5>1. evidence.primary # 0 /\ NoEvidence.primary = 0
          BY <3>1, SeedsAssumption DEF NoEvidence, Inits
        <5> QED BY <5>1
      <4> QED BY <3>2, <4>1 DEF ChosenInv, ChosenOK
    <3>4. \A j \in Indices : IsBest(Seeds[j]) => j = i
      BY <3>3, OneIsBest DEF ChosenInv, ChosenOK, StudyTypeOK
    <3> HIDE DEF IsBest
    <3> QED BY <3>1, <3>2, <3>3, <3>4, PassMeans
  <2> QED BY <2>1, <2>2 DEF StudyInv, ChosenInv, ChosenOK
<1> QED BY <1>1, <1>2, ChosenStep, PTL DEF StudySpec
=============================================================================
