---------------------------- MODULE RecordProofs ----------------------------
(***************************************************************************)
(* What is written to files and read again later, for any number of        *)
(* writers, stops and repetitions.  Three parts, one per component:        *)
(*                                                                         *)
(* The Stage 0 contract.  A record that was published leaves its file only *)
(* for the archive made for this freeze, which nothing else writes; as     *)
(* long as no command stops, each archive holds the receipt of the freeze  *)
(* that made the one before.                                               *)
(*                                                                         *)
(* The Stage 1B receipt.  Only the latest attempt ever works; while there  *)
(* is one driver and one hardware probe, the evidence on disk names that   *)
(* probe before the receipt's worker is started, and stays what the driver *)
(* measured.                                                               *)
(*                                                                         *)
(* The artifact store.  The payload file is a lock, a returned reference   *)
(* keeps verifying unless power fails, a verification is as good as an     *)
(* atomic one, and the store implements PublishedArtifacts.                *)
(***************************************************************************)
EXTENDS ResearchContract, QualificationReceipt, ArtifactPublication, TLAPS

-----------------------------------------------------------------------------
(* The Stage 0 contract *)

Freezing == {"bind", "environment", "related", "manifest", "index", "carry", "receipt"}
Commands == [at : OpSteps, claims : 0..2, archive : Nat, previous : Manifests \cup {NoFile},
             decision : Decisions \cup {NoFile}]

\* What a command has written when it is at a step.
StepInv ==
  /\ op \in Commands
  /\ op.at \in {"idle", "publish"} => op.archive = 0
  /\ op.archive # 0 => op.previous # NoFile
  /\ op.archive = 0 => op.decision = NoFile
  /\ op.at \in {"archive", "carry", "receipt"} => op.archive # 0
  /\ op.at = "archive" => history[op.archive] = Nothing
  /\ op.at \in {"archive", "bind", "environment"} => captures < MaxFreezes
  /\ op.at \in {"environment", "related", "manifest"} => op.claims # 0
  /\ op.at \in {"related", "manifest"} => file.environment # NoFile
  /\ op.at = "manifest" => file.related # NoFile
  /\ op.at \in {"index", "carry", "receipt", "publish"} => file.manifest # NoFile
  /\ op.at = "publish" => file.index # NoFile /\ file.decision # NoFile /\ file.completion = NoFile

\* Where records are.
InPlace(record) == record \in {file.manifest, file.overwrite, file.completion}
Archived(record) == \E k \in 1..Len(history), f \in Names : history[k][f] = record
KeptInv ==
  /\ file.manifest # NoFile => file.manifest \in issued
  /\ file.completion # NoFile => file.completion \in issued
  /\ \A record \in issued : InPlace(record) \/ Archived(record)

\* While no command has stopped, receipts lead from archive to archive.
TrailInv == stops = 0 =>
  /\ \A k \in 2..Len(history) :
       (op.at = "archive" /\ k = Len(history)) \/ Leads(history[k].overwrite, history[k].manifest, k - 1)
  /\ op.at \in {"idle", "publish"} /\ Len(history) # 0 =>
       file.manifest # NoFile /\ Leads(file.overwrite, file.manifest, Len(history))
  /\ op.at = "archive" => /\ op.archive = Len(history) /\ op.previous = file.manifest
                          /\ Len(history) >= 2 => Leads(file.overwrite, file.manifest, Len(history) - 1)
  /\ op.at \in Freezing =>
       op.archive = Len(history) /\ (op.archive # 0 => op.previous = history[op.archive].manifest)

RecordsInv == ContractTypeOK /\ StepInv /\ KeptInv /\ TrailInv

\* What a file may hold, by name.
LEMMA Holdings ==
  ASSUME NEW x, x = [f \in Names |-> x[f]]
  PROVE  x \in Directories <=>
           /\ x.environment \in Environments \cup {NoFile} /\ x.related \in RelatedWork \cup {NoFile}
           /\ x.manifest \in Manifests \cup {NoFile} /\ x.index \in Manifests \cup {NoFile}
           /\ x.decision \in Decisions \cup {NoFile} /\ x.overwrite \in OverwriteReceipts \cup {NoFile}
           /\ x.completion \in Completions \cup {NoFile}
  BY DEF Directories, Names

LEMMA NothingIsHeld == Nothing \in Directories
<1>1. Nothing = [f \in Names |-> Nothing[f]]
  BY DEF Nothing
<1> QED BY <1>1, Holdings DEF Nothing, Names

\* Any files of a directory make one.
LEMMA SomeFiles ==
  ASSUME file \in Directories, NEW moved \in SUBSET Names
  PROVE  [f \in Names |-> IF f \in moved THEN file[f] ELSE NoFile] \in Directories
<1> DEFINE x == [f \in Names |-> IF f \in moved THEN file[f] ELSE NoFile]
<1>1. x = [f \in Names |-> x[f]]
  OBVIOUS
<1>2. \A f \in Names : x[f] \in {file[f], NoFile}
  OBVIOUS
<1>3. file = [f \in Names |-> file[f]]
  BY DEF Directories, Names
<1> HIDE DEF x
<1>4. x \in Directories
  BY <1>1, <1>2, <1>3, Holdings DEF Names
<1> QED BY <1>4 DEF x

LEMMA Writing ==
  ASSUME file \in Directories, NEW f \in Names, NEW content, Write(f, content)
  PROVE  /\ file'[f] = content /\ \A g \in Names \ {f} : file'[g] = file[g]
         /\ file' = [g \in Names |-> file'[g]]
<1>1. file = [g \in Names |-> file[g]]
  BY DEF Directories, Names
<1> QED BY <1>1 DEF Write

LEMMA ClaimsAreBound ==
  ASSUME op \in Commands, NEW text \in 1..2
  PROVE  [op EXCEPT !.at = "environment", !.claims = text]
           = [at |-> "environment", claims |-> text, archive |-> op.archive, previous |-> op.previous,
              decision |-> op.decision]
<1> DEFINE bound == [op EXCEPT !.at = "environment"]
<1>1. bound = [at |-> "environment", claims |-> op.claims, archive |-> op.archive,
               previous |-> op.previous, decision |-> op.decision]
  BY DEF Commands
<1> HIDE DEF bound
<1>2. [bound EXCEPT !.claims = text]
        = [at |-> "environment", claims |-> text, archive |-> op.archive, previous |-> op.previous,
           decision |-> op.decision]
  BY <1>1
<1> QED BY <1>2 DEF bound

\* A freeze begins, with an archive of its own or none.
LEMMA BeginFreezeKeeps ==
  ASSUME RecordsInv, BeginFreeze
  PROVE  RecordsInv'
<1> USE ContractLimits, NoFileIsNoContent DEF RecordsInv
<1>0. /\ UNCHANGED <<docs, file, captures, issued, docEdits, stops>> /\ op.at = "idle"
      /\ \/ /\ history' = Append(history, Nothing) /\ Len(history') = Len(history) + 1
            /\ \A k \in 1..Len(history) : history'[k] = history[k]
            /\ op' = [at |-> "archive", claims |-> 0, archive |-> Len(history) + 1,
                      previous |-> file.manifest, decision |-> file.decision]
            /\ file.manifest # NoFile
         \/ op' = [op EXCEPT !.at = "bind"] /\ file.manifest = NoFile /\ UNCHANGED history
  BY DEF BeginFreeze, At, OpGoes, ContractTypeOK
<1>1. ContractTypeOK'
  <2>1. history' \in Seq(Directories)
    BY NothingIsHeld DEF BeginFreeze, ContractTypeOK
  <2>2. op'.at \in OpSteps /\ op'.claims \in 0..2 /\ op'.archive \in 0..Len(history')
    BY <1>0 DEF ContractTypeOK, OpSteps, StepInv, Commands
  <2> QED BY <1>0, <2>1, <2>2 DEF ContractTypeOK
<1>2. StepInv'
  BY
     DEF ContractTypeOK, Directories, Records, Names, OpSteps, StepInv, Commands, BeginFreeze, At, OpGoes,
         Nothing
<1>3. KeptInv'
  BY
     DEF ContractTypeOK, Directories, Records, Names, OpSteps, StepInv, KeptInv, InPlace, Archived,
         BeginFreeze, At, OpGoes, Nothing
<1>4. TrailInv'
  <2> SUFFICES ASSUME stops = 0 PROVE TrailInv'
    BY <1>0 DEF TrailInv
  <2>1. CASE history' = Append(history, Nothing) /\ op'.at = "archive"
    <3>1. \A k \in 2..Len(history) : Leads(history[k].overwrite, history[k].manifest, k - 1)'
      BY <1>0, <2>1 DEF TrailInv, Leads, ContractTypeOK
    <3>2. Len(history) # 0 =>
            file.overwrite = [previous |-> history'[Len(history)].manifest,
                              replacement |-> file.manifest, archive |-> Len(history)]
      BY <1>0, <2>1 DEF TrailInv, Leads, ContractTypeOK
    <3>3. Len(history') - 1 = Len(history)
      BY <1>0, <2>1 DEF ContractTypeOK
    <3> QED BY <1>0, <2>1, <3>1, <3>2, <3>3 DEF TrailInv, Leads, ContractTypeOK, Freezing
  <2>2. CASE UNCHANGED history /\ op' = [op EXCEPT !.at = "bind"] /\ file.manifest = NoFile
    <3>1. Len(history) = 0 /\ op'.archive = 0 /\ op'.at = "bind"
      BY <1>0, <2>2 DEF TrailInv, StepInv, Commands, ContractTypeOK
    <3> QED BY <2>2, <3>1 DEF TrailInv, Freezing
  <2> QED BY <1>0, <2>1, <2>2
<1> QED BY <1>1, <1>2, <1>3, <1>4

\* The files go to the archive, or some do and the command stops.
LEMMA MovingKeeps ==
  ASSUME RecordsInv, ArchiveFiles \/ StopArchiving
  PROVE  RecordsInv'
<1> USE ContractLimits, NoFileIsNoContent DEF RecordsInv
<1>0. PICK moved \in SUBSET Names :
        /\ history' = [history EXCEPT ![op.archive] =
                         [f \in Names |-> IF f \in moved THEN file[f] ELSE NoFile]]
        /\ file' = [f \in Names |-> IF f \in moved THEN NoFile ELSE file[f]]
        /\ UNCHANGED <<docs, captures, issued, docEdits>> /\ op.at = "archive"
        /\ \/ moved = Names /\ op' = [op EXCEPT !.at = "bind"] /\ UNCHANGED stops
           \/ op' = NoCommand /\ stops' = stops + 1 /\ stops < MaxStops
  <2>1. CASE ArchiveFiles
    BY <2>1 DEF ArchiveFiles, MoveFiles, ToArchive, At, OpGoes
  <2>2. CASE StopArchiving
    <3>1. PICK records \in SUBSET (ToArchive \ Rebuilt), rebuilt \in {{}, ToArchive \cap Rebuilt} :
            MoveFiles(records \cup rebuilt)
      BY <2>2 DEF StopArchiving
    <3>2. records \cup rebuilt \in SUBSET Names
      BY DEF ToArchive
    <3> QED BY <2>2, <3>1, <3>2 DEF StopArchiving, MoveFiles, At
  <2> QED BY <2>1, <2>2
<1>a. op.archive \in 1..Len(history)
  BY <1>0 DEF ContractTypeOK, StepInv, Commands
<1>b. /\ Len(history') = Len(history)
      /\ history'[op.archive] = [f \in Names |-> IF f \in moved THEN file[f] ELSE NoFile]
      /\ \A k \in 1..Len(history) : k # op.archive => history'[k] = history[k]
  BY <1>0, <1>a DEF ContractTypeOK
<1>c. \A f \in Names : file'[f] \in {file[f], NoFile} /\ (file[f] = file'[f] \/ file[f] = history'[op.archive][f])
  BY <1>0, <1>b
<1>1. ContractTypeOK'
  <2>1. [f \in Names |-> IF f \in moved THEN file[f] ELSE NoFile] \in Directories
    BY SomeFiles DEF ContractTypeOK
  <2>2. history' \in Seq(Directories)
    BY <1>0, <1>a, <2>1 DEF ContractTypeOK
  <2>3. file' \in Directories
    <3>1. file' = [f \in Names |-> IF f \in Names \ moved THEN file[f] ELSE NoFile]
      BY <1>0
    <3> QED BY <3>1, SomeFiles DEF ContractTypeOK
  <2>4. op'.at \in OpSteps /\ op'.claims \in 0..2 /\ op'.archive \in 0..Len(history')
    BY <1>0, <1>b DEF ContractTypeOK, OpSteps, StepInv, Commands, NoCommand
  <2> QED BY <1>0, <2>2, <2>3, <2>4 DEF ContractTypeOK
<1>2. StepInv'
  BY <1>0, <1>a DEF ContractTypeOK, StepInv, Commands, OpSteps, NoCommand
<1>3. KeptInv'
  <2>1. file'.manifest \in {file.manifest, NoFile} /\ file'.completion \in {file.completion, NoFile}
    BY <1>c DEF Names
  <2>2. ASSUME NEW record \in issued, InPlace(record) PROVE InPlace(record)' \/ Archived(record)'
    <3>1. PICK f \in {"manifest", "overwrite", "completion"} : file[f] = record
      BY <2>2 DEF InPlace
    <3>2. file'[f] = record \/ history'[op.archive][f] = record
      BY <1>c, <3>1 DEF Names
    <3> QED BY <1>a, <1>b, <3>2 DEF InPlace, Archived, Names
  <2>3. ASSUME NEW record \in issued, Archived(record) PROVE Archived(record)'
    <3>1. PICK k \in 1..Len(history), f \in Names : history[k][f] = record
      BY <2>3 DEF Archived
    <3>2. record # NoFile
      BY DEF ContractTypeOK
    <3>3. k # op.archive
      BY <1>0, <3>1, <3>2 DEF StepInv, Nothing
    <3> QED BY <1>b, <3>1, <3>3 DEF Archived
  <2> QED BY <1>0, <2>1, <2>2, <2>3 DEF KeptInv
<1>4. TrailInv'
  <2>0. \/ stops' # 0
        \/ stops = 0 /\ moved = Names /\ op' = [op EXCEPT !.at = "bind"]
    <3>1. stops \in Nat
      BY DEF ContractTypeOK
    <3> QED BY <1>0, <3>1
  <2> SUFFICES ASSUME stops = 0, moved = Names, op' = [op EXCEPT !.at = "bind"] PROVE TrailInv'
    BY <2>0 DEF TrailInv
  <2>1. op'.at = "bind" /\ op'.archive = op.archive /\ op'.previous = op.previous
    BY DEF StepInv, Commands
  <2>2. op.archive = Len(history) /\ op.previous = file.manifest
    BY <1>0 DEF TrailInv, ContractTypeOK
  <2>3. \A f \in Names : history'[Len(history)][f] = file[f]
    BY <1>b, <2>2
  <2>4. \A k \in 2..Len(history) : Leads(history[k].overwrite, history[k].manifest, k - 1)'
    <3> SUFFICES ASSUME NEW k \in 2..Len(history)
                 PROVE  history'[k].overwrite = [previous |-> history'[k - 1].manifest,
                                                 replacement |-> history'[k].manifest, archive |-> k - 1]
      BY DEF Leads
    <3>1. history'[k - 1] = history[k - 1] /\ Len(history) \in Nat
      BY <1>b, <2>2 DEF ContractTypeOK
    <3>2. CASE k = Len(history)
      BY <1>0, <2>3, <3>1, <3>2 DEF TrailInv, Leads, Names
    <3>3. CASE k # Len(history)
      BY <1>0, <1>b, <2>2, <3>1, <3>3 DEF TrailInv, Leads
    <3> QED BY <3>2, <3>3
  <2> QED BY <1>b, <2>1, <2>2, <2>3, <2>4 DEF TrailInv, Freezing, Names
<1> QED BY <1>1, <1>2, <1>3, <1>4

\* The claims are hashed.
LEMMA BindKeeps ==
  ASSUME RecordsInv, BindClaims
  PROVE  RecordsInv'
<1> USE ContractLimits, NoFileIsNoContent DEF RecordsInv
<1>0. /\ op' = [at |-> "environment", claims |-> docs.claims, archive |-> op.archive,
                 previous |-> op.previous, decision |-> op.decision]
      /\ docs.claims \in 1..2 /\ op.at = "bind"
  BY ClaimsAreBound DEF BindClaims, At, ContractTypeOK, Documents, StepInv
<1>1. ContractTypeOK'
  BY <1>0 DEF ContractTypeOK, OpSteps, BindClaims
<1>2. StepInv'
  <2>1. op' \in Commands
    BY <1>0 DEF StepInv, Commands, OpSteps
  <2>2. UNCHANGED <<file, history, captures>>
    BY DEF BindClaims
  <2>3. /\ op'.at = "environment" /\ op'.claims # 0 /\ op'.archive = op.archive
        /\ op'.previous = op.previous /\ op'.decision = op.decision
    BY <1>0
  <2> QED BY <1>0, <2>1, <2>2, <2>3 DEF StepInv
<1>3. KeptInv'
  BY
     DEF ContractTypeOK, Directories, Records, Names, OpSteps, StepInv, KeptInv, InPlace, Archived,
         BindClaims, At
<1>4. TrailInv'
  BY
     DEF ContractTypeOK, Directories, Records, Names, OpSteps, StepInv, TrailInv, Leads, Freezing,
         BindClaims, At
<1> QED BY <1>1, <1>2, <1>3, <1>4

\* The environment and the related work are written.
LEMMA EnvironmentKeeps ==
  ASSUME RecordsInv, WriteEnvironment \/ WriteRelated
  PROVE  RecordsInv'
<1> USE ContractLimits, NoFileIsNoContent DEF RecordsInv
<1>0. /\ \/ /\ op.at = "environment" /\ op' = [op EXCEPT !.at = "related"]
            /\ captures' = captures + 1
            /\ file'.environment \in Environments /\ file'.related = file.related
         \/ /\ op.at = "related" /\ op' = [op EXCEPT !.at = "manifest"] /\ UNCHANGED captures
            /\ file'.environment = file.environment /\ file'.related \in RelatedWork
      /\ UNCHANGED <<docs, history, issued, docEdits, stops>>
      /\ \A f \in Names \ {"environment", "related"} : file'[f] = file[f]
      /\ file' = [f \in Names |-> file'[f]]
  <2>1. CASE WriteEnvironment
    <3>1. [capture |-> captures + 1, lock |-> docs.lock] \in Environments
      BY <2>1 DEF WriteEnvironment, At, StepInv, ContractTypeOK, Documents, Environments
    <3> QED BY <2>1, <3>1, Writing DEF WriteEnvironment, At, OpGoes, Names, ContractTypeOK
  <2>2. CASE WriteRelated
    <3>1. [matrix |-> docs.matrix] \in RelatedWork
      BY DEF ContractTypeOK, Documents, RelatedWork
    <3> QED BY <2>2, <3>1, Writing DEF WriteRelated, At, OpGoes, Names, ContractTypeOK
  <2> QED BY <2>1, <2>2
<1>s. /\ \/ op'.at = "related" /\ op.at = "environment"
         \/ op'.at = "manifest" /\ op.at = "related"
      /\ op' \in Commands /\ op'.archive = op.archive /\ op'.previous = op.previous
      /\ op'.decision = op.decision /\ op'.claims = op.claims
  BY <1>0 DEF StepInv, Commands, OpSteps
<1>f. /\ file'.manifest = file.manifest /\ file'.index = file.index /\ file'.decision = file.decision
      /\ file'.overwrite = file.overwrite /\ file'.completion = file.completion
  BY <1>0 DEF Names
<1>1. ContractTypeOK'
  <2>1. file' \in Directories
    BY <1>0, <1>f, Holdings DEF ContractTypeOK, Directories
  <2>2. captures' \in 0..MaxFreezes
    BY <1>0 DEF ContractTypeOK, StepInv
  <2> QED BY <1>0, <1>s, <2>1, <2>2 DEF ContractTypeOK, Commands
<1>2. StepInv'
  <2>1. file'.environment # NoFile
    BY <1>0 DEF StepInv
  <2>2. op'.at = "manifest" => file'.related # NoFile
    BY <1>0, <1>s
  <2> QED BY <1>0, <1>s, <1>f, <2>1, <2>2 DEF StepInv
<1>3. KeptInv'
  BY <1>0, <1>f DEF KeptInv, InPlace, Archived
<1>4. TrailInv'
  BY <1>0, <1>s, <1>f DEF TrailInv, Leads, Freezing
<1> QED BY <1>1, <1>2, <1>3, <1>4

\* The manifest binds them.
LEMMA ManifestKeeps ==
  ASSUME RecordsInv, WriteManifest
  PROVE  RecordsInv'
<1> USE ContractLimits, NoFileIsNoContent DEF RecordsInv
<1>1. ContractTypeOK'
  BY
     DEF ContractTypeOK, Directories, Records, Names, OpSteps, StepInv, Commands, WriteManifest, At, OpGoes,
         Write, Issue, Manifests
<1>2. StepInv'
  <2>1. file'.manifest # NoFile
    <3>1. [claims |-> op.claims, environment |-> file.environment, related |-> file.related] \in Manifests
      BY DEF WriteManifest, At, StepInv, Commands, ContractTypeOK, Directories, Manifests
    <3> QED BY <3>1, Writing DEF WriteManifest, ContractTypeOK, Names, Records
  <2>2. op' \in Commands /\ op'.at = "index" /\ op'.archive = op.archive
        /\ op'.previous = op.previous /\ op'.decision = op.decision
    BY DEF WriteManifest, OpGoes, StepInv, Commands, OpSteps
  <2> QED BY <2>1, <2>2 DEF StepInv
<1>3. KeptInv'
  BY
     DEF ContractTypeOK, Directories, Records, Names, OpSteps, StepInv, KeptInv, InPlace, Archived,
         WriteManifest, At, OpGoes, Write, Issue, Manifests
<1>4. TrailInv'
  BY
     DEF ContractTypeOK, Directories, Records, Names, OpSteps, StepInv, TrailInv, Leads, Freezing,
         WriteManifest, At, OpGoes, Write, Issue, Manifests
<1> QED BY <1>1, <1>2, <1>3, <1>4

\* The index, and what follows it.
LEMMA IndexKeeps ==
  ASSUME RecordsInv, WriteIndex
  PROVE  RecordsInv'
<1> USE ContractLimits, NoFileIsNoContent DEF RecordsInv
<1>1. ContractTypeOK'
  BY
     DEF ContractTypeOK, Directories, Records, Names, OpSteps, StepInv, Commands, WriteIndex, AfterIndex,
         At, OpGoes, Write
<1>2. StepInv'
  BY
     DEF ContractTypeOK, Directories, Records, Names, OpSteps, StepInv, Commands, WriteIndex, AfterIndex,
         At, OpGoes, Write
<1>3. KeptInv'
  BY
     DEF ContractTypeOK, Directories, Records, Names, OpSteps, StepInv, KeptInv, InPlace, Archived,
         WriteIndex, AfterIndex, At, OpGoes, Write
<1>4. TrailInv'
  BY
     DEF ContractTypeOK, Directories, Records, Names, OpSteps, StepInv, TrailInv, Leads, Freezing,
         WriteIndex, AfterIndex, At, OpGoes, Write
<1> QED BY <1>1, <1>2, <1>3, <1>4

\* The decision is carried over.
LEMMA CarryKeeps ==
  ASSUME RecordsInv, CarryDecision
  PROVE  RecordsInv'
<1> USE ContractLimits, NoFileIsNoContent DEF RecordsInv
<1>1. ContractTypeOK'
  BY
     DEF ContractTypeOK, Directories, Records, Names, OpSteps, StepInv, Commands, CarryDecision,
         DecisionHolds, At, OpGoes, Write
<1>2. StepInv'
  BY
     DEF ContractTypeOK, Directories, Records, Names, OpSteps, StepInv, Commands, CarryDecision,
         DecisionHolds, At, OpGoes, Write
<1>3. KeptInv'
  BY
     DEF ContractTypeOK, Directories, Records, Names, OpSteps, StepInv, KeptInv, InPlace, Archived,
         CarryDecision, DecisionHolds, At, OpGoes, Write
<1>4. TrailInv'
  BY
     DEF ContractTypeOK, Directories, Records, Names, OpSteps, StepInv, TrailInv, Leads, Freezing,
         CarryDecision, DecisionHolds, At, OpGoes, Write
<1> QED BY <1>1, <1>2, <1>3, <1>4

\* The overwrite receipt.
LEMMA ReceiptKeeps ==
  ASSUME RecordsInv, WriteReceipt
  PROVE  RecordsInv'
<1> USE ContractLimits, NoFileIsNoContent DEF RecordsInv
<1>1. ContractTypeOK'
  BY
     DEF ContractTypeOK, Directories, Records, Names, OpSteps, StepInv, Commands, WriteReceipt, NoCommand,
         At, Write, Issue, OverwriteReceipts
<1>2. StepInv'
  BY
     DEF ContractTypeOK, Directories, Records, Names, OpSteps, StepInv, Commands, WriteReceipt, NoCommand,
         At, Write, Issue, OverwriteReceipts
<1>3. KeptInv'
  BY
     DEF ContractTypeOK, Directories, Records, Names, OpSteps, StepInv, KeptInv, InPlace, Archived,
         WriteReceipt, NoCommand, At, Write, Issue, OverwriteReceipts
<1>4. TrailInv'
  BY
     DEF ContractTypeOK, Directories, Records, Names, OpSteps, StepInv, TrailInv, Leads, Freezing,
         WriteReceipt, NoCommand, At, Write, Issue, OverwriteReceipts
<1> QED BY <1>1, <1>2, <1>3, <1>4

\* The completion is begun and published.
LEMMA CompleteKeeps ==
  ASSUME RecordsInv, BeginComplete \/ PublishCompletion
  PROVE  RecordsInv'
<1> USE ContractLimits, NoFileIsNoContent DEF RecordsInv
<1>0. /\ UNCHANGED <<docs, history, captures, docEdits, stops>>
      /\ op.at \in {"idle", "publish"} /\ op'.at \in {"idle", "publish"} /\ issued \subseteq issued'
      /\ \A f \in Names \ {"completion"} : file'[f] = file[f]
      /\ \/ file'.completion = file.completion
         \/ file.completion = NoFile /\ file'.completion \in issued'
  <2>1. CASE BeginComplete
    BY <2>1 DEF BeginComplete, At, OpGoes, StepInv, Commands
  <2>2. CASE PublishCompletion
    BY <2>2, Writing DEF PublishCompletion, At, Issue, NoCommand, StepInv, ContractTypeOK, Names
  <2> QED BY <2>1, <2>2
<1>f. file'.manifest = file.manifest /\ file'.overwrite = file.overwrite
  BY <1>0 DEF Names
<1>1. ContractTypeOK'
  BY
     DEF ContractTypeOK, Directories, Records, Names, OpSteps, StepInv, Commands, BeginComplete,
         PublishCompletion, CoreHolds, ContractHolds, DecisionHolds, NoCommand, At, OpGoes, Write, Issue,
         Completions
<1>2. StepInv'
  BY
     DEF ContractTypeOK, Directories, Records, Names, OpSteps, StepInv, Commands, BeginComplete,
         PublishCompletion, CoreHolds, ContractHolds, DecisionHolds, NoCommand, At, OpGoes, Write, Issue,
         Completions
<1>3. KeptInv'
  <2>1. ASSUME NEW record \in issued PROVE InPlace(record)' \/ Archived(record)'
    <3>1. record # NoFile
      BY DEF ContractTypeOK
    <3>2. InPlace(record) => InPlace(record)'
      BY <1>0, <1>f, <3>1 DEF InPlace
    <3>3. Archived(record) => Archived(record)'
      BY <1>0 DEF Archived
    <3> QED BY <3>2, <3>3 DEF KeptInv
  <2>2. ASSUME NEW record \in issued', record \notin issued PROVE InPlace(record)'
    <3>1. PublishCompletion
      BY <2>2 DEF BeginComplete
    <3> QED BY <2>2, <3>1, Writing DEF PublishCompletion, Issue, InPlace, Names, ContractTypeOK
  <2> QED BY <1>0, <1>f, <2>1, <2>2 DEF KeptInv
<1>4. TrailInv'
  BY <1>0, <1>f DEF TrailInv, Leads, Freezing
<1> QED BY <1>1, <1>2, <1>3, <1>4

\* A decision is written.
LEMMA DecideKeeps ==
  ASSUME RecordsInv, NEW passed \in BOOLEAN, Decide(passed)
  PROVE  RecordsInv'
<1> USE ContractLimits, NoFileIsNoContent DEF RecordsInv
<1>1. ContractTypeOK'
  <2>1. [claims |-> docs.claims, related |-> file.related, passed |-> passed] \in Decisions
    BY DEF Decide, ContractTypeOK, Documents, Directories, Decisions
  <2>2. file' \in Directories
    BY <2>1, Writing, Holdings DEF Decide, ContractTypeOK, Names, Directories
  <2> QED BY <2>2 DEF Decide, ContractTypeOK
<1>2. StepInv'
  BY
     DEF ContractTypeOK, Directories, Records, Names, OpSteps, StepInv, Commands, Decide, At, Write,
         Decisions, DecisionHolds
<1>3. KeptInv'
  BY
     DEF ContractTypeOK, Directories, Records, Names, OpSteps, StepInv, KeptInv, InPlace, Archived, Decide,
         At, Write, Decisions, DecisionHolds
<1>4. TrailInv'
  BY
     DEF ContractTypeOK, Directories, Records, Names, OpSteps, StepInv, TrailInv, Leads, Freezing, Decide,
         At, Write, Decisions, DecisionHolds
<1> QED BY <1>1, <1>2, <1>3, <1>4

\* A document is edited, or a command stops.
LEMMA PeopleKeep ==
  ASSUME RecordsInv, Stop \/ \E d \in Documents : EditDocument(d)
  PROVE  RecordsInv'
<1> USE ContractLimits, NoFileIsNoContent DEF RecordsInv
<1>0. /\ UNCHANGED <<file, history, issued>>
      /\ UNCHANGED <<op, stops>> \/ stops' # 0
  BY DEF Stop, EditDocument, ContractTypeOK
<1>1. ContractTypeOK'
  BY
     DEF ContractTypeOK, Directories, Records, Names, OpSteps, StepInv, Commands, Stop, EditDocument,
         NoCommand, Documents
<1>2. StepInv'
  BY
     DEF ContractTypeOK, Directories, Records, Names, OpSteps, StepInv, Commands, Stop, EditDocument,
         NoCommand, Documents
<1>3. KeptInv'
  BY <1>0 DEF KeptInv, InPlace, Archived
<1>4. TrailInv'
  BY <1>0 DEF TrailInv, Leads
<1> QED BY <1>1, <1>2, <1>3, <1>4

\* Through edits, stops and freezes: what each step has written, that a published
\* record is in place or archived, and that receipts lead from archive to archive
\* while no command stops (freeze_research_contract, complete_stage0).
THEOREM RecordsInvariant == ContractSpec => []RecordsInv
<1>1. ContractInit => RecordsInv
  <2> SUFFICES ASSUME ContractInit PROVE RecordsInv
    OBVIOUS
  <2>1. ContractTypeOK
    BY ContractLimits
       DEF ContractInit, ContractTypeOK, Directories, Nothing, Names, NoCommand, OpSteps, Documents
  <2>2. StepInv /\ KeptInv
    BY DEF ContractInit, StepInv, KeptInv, Commands, NoCommand, OpSteps, Nothing, Names
  <2>3. TrailInv
    BY DEF ContractInit, TrailInv, NoCommand, Freezing
  <2> QED BY <2>1, <2>2, <2>3 DEF RecordsInv
<1>2. RecordsInv /\ [ContractNext]_contractVars => RecordsInv'
  <2> SUFFICES ASSUME RecordsInv, [ContractNext]_contractVars PROVE RecordsInv'
    OBVIOUS
  <2>1. CASE ContractStep
    BY <2>1, BeginFreezeKeeps, MovingKeeps, BindKeeps, EnvironmentKeeps, ManifestKeeps, IndexKeeps,
       CarryKeeps, ReceiptKeeps, CompleteKeeps DEF ContractStep
  <2>2. CASE Decide(TRUE) \/ Decide(FALSE)
    BY <2>2, DecideKeeps
  <2>3. CASE Stop \/ StopArchiving \/ \E d \in Documents : EditDocument(d)
    BY <2>3, PeopleKeep, MovingKeeps
  <2>4. CASE UNCHANGED contractVars
    BY <2>4
       DEF contractVars, RecordsInv, ContractTypeOK, StepInv, KeptInv, TrailInv, InPlace, Archived, Leads
  <2> QED BY <2>1, <2>2, <2>3, <2>4 DEF ContractNext, ContractWork
<1> QED BY <1>1, <1>2, PTL DEF ContractSpec

\* Published manifests, receipts and completions are never lost; where no
\* command stops, a contract that verifies leads back through all its
\* archives; and what verifies was certified as it is (freeze_stage0,
\* complete_stage0, verify_stage0).
THEOREM ContractsAreAccountable == ContractSpec => []ContractInv
<1>1. RecordsInv => NoRecordLost
  <2> SUFFICES ASSUME RecordsInv, NEW record \in issued
               PROVE  \/ \E f \in Names : file[f] = record
                      \/ \E k \in 1..Len(history), f \in Names : history[k][f] = record
    BY DEF NoRecordLost
  <2>1. InPlace(record) => \E f \in Names : file[f] = record
    BY DEF InPlace, Names
  <2> QED BY <2>1 DEF RecordsInv, KeptInv, Archived
<1>2. RecordsInv => AuditTrail
  <2> SUFFICES ASSUME RecordsInv, stops = 0, At("idle"), history # <<>>
               PROVE  /\ Leads(file.overwrite, file.manifest, Len(history))
                      /\ \A k \in 2..Len(history) :
                           Leads(history[k].overwrite, history[k].manifest, k - 1)
    BY DEF AuditTrail
  <2>1. Len(history) # 0
    BY DEF RecordsInv, ContractTypeOK
  <2> QED BY <2>1 DEF RecordsInv, TrailInv, At
<1>3. RecordsInv => CertifiedAsItIs
  <2> SUFFICES ASSUME RecordsInv, Verified PROVE file.completion \in issued /\ file.manifest \in issued
    BY DEF CertifiedAsItIs
  <2>1. file.manifest # NoFile /\ file.index = file.manifest /\ file.decision # NoFile
    BY DEF Verified, CoreHolds, ContractHolds, DecisionHolds
  <2>2. file.completion \in Completions
    BY <2>1 DEF Verified, RecordsInv, ContractTypeOK, Directories, Completions
  <2> QED BY <2>1, <2>2, NoFileIsNoContent DEF RecordsInv, KeptInv, Records
<1> QED BY <1>1, <1>2, <1>3, RecordsInvariant, PTL DEF ContractInv, RecordsInv

-----------------------------------------------------------------------------
(* The Stage 1B receipt *)

Evidences == [hardware : Nat, capacity : SUBSET Drivers]
WorkerSteps == {"none", "gone", "begun", "measured", "proved", "published", "summarised"}
DriverSteps == {"off", "starting", "reading", "asking", "proving", "ticking"}
RowStates == {"NONE", "READY", "RUNNING", "LOST", "COMPLETED", "FAILED"}

Typed ==
  /\ hardware \in [serial : Nat, feasible : BOOLEAN]
  /\ troubles \in 0..MaxTroubles /\ hardware.serial <= troubles + 1
  /\ others \in BOOLEAN /\ ledger \in BOOLEAN
  /\ returned \in BOOLEAN /\ overlapped \in BOOLEAN /\ adopted \in BOOLEAN /\ doubled \in BOOLEAN
  /\ rest \in {"due", "running", "done"} /\ attempt \in 0..2 /\ summary \in 0..attempt
  /\ row \in RowStates
  /\ evidence \in Evidences /\ evidence.hardware <= hardware.serial
  /\ worker \in [AttemptNumbers -> [at : WorkerSteps, hardware : Nat, evidence : Evidences]]
  /\ driver \in [Drivers -> [at : DriverSteps, ready : BOOLEAN]]
  /\ DOMAIN receipts \subseteq AttemptNumbers

\* Workers are of the attempts there are; what a worker has published is a
\* receipt, and so is the summary.  Only a worker that was taken for lost runs
\* beside the row's own, or after it.
RowsInv ==
  /\ row = "NONE" => attempt = 0
  /\ row # "NONE" => attempt \in AttemptNumbers /\ rest = "done"
  /\ hardware.serial = 0 => ~hardware.feasible /\ row = "NONE" /\ Active = {}
  /\ \A a \in Working : a <= attempt
  /\ row = "READY" => attempt \notin Working
  /\ \A a \in Working : worker[a].at \in {"published", "summarised"} => a \in DOMAIN receipts
  /\ \A a \in Working : worker[a].at = "summarised" => summary # 0
  /\ summary # 0 => summary \in DOMAIN receipts
  /\ ~doubled => \A a \in Working :
                   a = attempt /\ row = "RUNNING" /\ (worker[a].at = "summarised" => summary = a)
  /\ SummaryIsReceipt

\* One probe and one driver: the evidence names the probe from the first claim
\* on, no job refuses it, and what loses an attempt - or leaves a running row
\* to a driver that starts - is a trouble of its own.
ProbedOnce == hardware.serial <= 1 /\ ~overlapped
Unattended ==
  attempt \notin Working \/ Active = {} \/ \E d \in Active : driver[d].at = "starting"
EarnedInv == ProbedOnce =>
  /\ \A d, e \in Active : d = e
  /\ Active # {} \/ row # "NONE" => hardware.feasible /\ hardware.serial = 1
  /\ row \notin {"NONE", "READY"} \/ attempt = 2 => evidence.hardware = 1
  /\ \A d \in Active : driver[d].at = "ticking" /\ row = "READY" => evidence.hardware = 1
  /\ \A d \in Active : driver[d].at = "asking" /\ row # "NONE" => driver[d].ready
  /\ \A d \in Active : driver[d].at = "proving" /\ row # "READY" => driver[d].ready
  /\ \A a \in Working : worker[a].at = "measured" => worker[a].hardware = 1
  /\ row # "FAILED"
  /\ attempt = 2 => troubles >= 1
  /\ row = "LOST" \/ (row = "RUNNING" /\ Unattended) => troubles >= attempt

\* What that driver measured is what its worker publishes, and what stays on disk.
StaysInv == ProbedOnce /\ ~adopted =>
  /\ ~doubled
  /\ \A d \in Active :
       /\ driver[d].at = "starting" => Working = {}
       /\ \/ Working # {}
          \/ row = "COMPLETED" /\ driver[d].at = "proving"
          \/ row # "NONE" /\ driver[d].at = "ticking"
          => evidence = Measured(d)
  /\ \A a \in Working :
       /\ worker[a].at = "proved" => worker[a].evidence = evidence
       /\ worker[a].at \in {"published", "summarised"} => receipts[a] = evidence
  /\ row = "COMPLETED" => receipts[attempt] = evidence

AgreeInv == Typed /\ RowsInv /\ EarnedInv /\ StaysInv

\* Records with fields set anew, written out.
LEMMA WorkerGone ==
  \A stage : [Nowhere EXCEPT !.at = stage] = [at |-> stage, hardware |-> 0, evidence |-> NoEvidence]
  BY DEF Nowhere

LEMMA NoEvidenceIsTyped == NoEvidence \in Evidences /\ NoEvidence.hardware = 0
  BY DEF NoEvidence, Evidences

LEMMA WorkerReads ==
  ASSUME Typed, NEW a \in AttemptNumbers
  PROVE  /\ [worker[a] EXCEPT !.at = "measured", !.hardware = hardware.serial]
              = [at |-> "measured", hardware |-> hardware.serial, evidence |-> worker[a].evidence]
         /\ [worker[a] EXCEPT !.at = "proved", !.evidence = evidence]
              = [at |-> "proved", hardware |-> worker[a].hardware, evidence |-> evidence]
<1> DEFINE reads(stage) == [worker[a] EXCEPT !.at = stage]
<1>1. \A stage : reads(stage)
                 = [at |-> stage, hardware |-> worker[a].hardware, evidence |-> worker[a].evidence]
  BY DEF Typed
<1> HIDE DEF reads
<1>2. [reads("measured") EXCEPT !.hardware = hardware.serial]
        = [at |-> "measured", hardware |-> hardware.serial, evidence |-> worker[a].evidence]
  BY <1>1
<1>3. [reads("proved") EXCEPT !.evidence = evidence]
        = [at |-> "proved", hardware |-> worker[a].hardware, evidence |-> evidence]
  BY <1>1
<1> QED BY <1>2, <1>3 DEF reads

\* A worker that goes to a step of its own, seen from outside.
LEMMA WorkerMoved ==
  ASSUME Typed, NEW a \in AttemptNumbers, NEW stage \in WorkerSteps, WorkerGoes(a, stage)
  PROVE  /\ worker' \in [AttemptNumbers -> [at : WorkerSteps, hardware : Nat, evidence : Evidences]]
         /\ worker'[a].at = stage
         /\ \A b \in AttemptNumbers \ {a} : worker'[b] = worker[b]
<1>1. worker' = [worker EXCEPT ![a] = [at |-> stage, hardware |-> 0, evidence |-> NoEvidence]]
  BY WorkerGone DEF WorkerGoes
<1> QED BY <1>1, NoEvidenceIsTyped DEF Typed

\* A driver that goes to its next step, seen from outside.
LEMMA DriverMoved ==
  ASSUME Typed, NEW d \in Drivers, NEW stage \in DriverSteps, DriverGoes(d, stage)
  PROVE  /\ driver' \in [Drivers -> [at : DriverSteps, ready : BOOLEAN]]
         /\ driver'[d].at = stage /\ (stage # "off" => driver'[d].ready = driver[d].ready)
         /\ \A e \in Drivers \ {d} : driver'[e] = driver[e]
<1>1. (driver[d].ready /\ stage # "off") \in BOOLEAN
  BY DEF Typed
<1>2. stage # "off" => (driver[d].ready /\ stage # "off") = driver[d].ready
  BY DEF Typed
<1> QED BY <1>1, <1>2 DEF Typed, DriverGoes

\* A probe, or the other receipts (run_preflight).
LEMMA ProbeKeeps ==
  ASSUME AgreeInv, ProbeHardware \/ WriteOthers
  PROVE  AgreeInv'
<1> USE TroublesAssumption DEF AgreeInv
<1>0. UNCHANGED <<ledger, rest, row, attempt, evidence, worker, receipts, summary, driver, returned,
                  overlapped, adopted, doubled>>
  BY DEF ProbeHardware, WriteOthers, histories
<1>1. Typed'
  <2>1. CASE ProbeHardware
    <3>1. PICK ok \in BOOLEAN : hardware' = [serial |-> hardware.serial + 1, feasible |-> ok]
      BY <2>1 DEF ProbeHardware
    <3>2. hardware' \in [serial : Nat, feasible : BOOLEAN]
      BY <3>1 DEF Typed
    <3>3. troubles' \in 0..MaxTroubles /\ hardware'.serial <= troubles' + 1
      BY <2>1, <3>1 DEF ProbeHardware, Trouble, Typed
    <3>4. evidence.hardware <= hardware'.serial
      BY <3>1 DEF Typed, Evidences
    <3> QED BY <1>0, <2>1, <3>2, <3>3, <3>4 DEF Typed, ProbeHardware
  <2>2. CASE WriteOthers
    BY <1>0, <2>2 DEF Typed, WriteOthers, histories
  <2> QED BY <2>1, <2>2
<1>h. \/ UNCHANGED <<hardware, troubles>>
      \/ hardware.serial # 0 /\ hardware'.serial > 1
      \/ hardware.serial = 0 /\ row = "NONE" /\ Active = {} /\ attempt = 0 /\ Working = {}
  <2>1. CASE ProbeHardware
    <3>1. PICK ok \in BOOLEAN : hardware' = [serial |-> hardware.serial + 1, feasible |-> ok]
      BY <2>1 DEF ProbeHardware
    <3>2. hardware'.serial = hardware.serial + 1 /\ hardware.serial \in Nat
      BY <3>1 DEF Typed
    <3>3. row = "NONE" => attempt = 0 /\ Working = {}
      BY DEF RowsInv, Working, AttemptNumbers
    <3> QED BY <3>2, <3>3 DEF RowsInv
  <2>2. CASE WriteOthers
    BY <2>2 DEF WriteOthers, histories
  <2> QED BY <2>1, <2>2
<1>a. Active' = Active /\ Working' = Working
  BY <1>0 DEF Active, Working
<1>2. RowsInv'
  BY <1>0, <1>1 DEF Typed, RowsInv, SummaryIsReceipt, Working, ProbeHardware, WriteOthers
<1>3. EarnedInv'
  <2>1. CASE UNCHANGED <<hardware, troubles>>
    BY <1>0, <1>a, <2>1 DEF EarnedInv, ProbedOnce, Unattended
  <2>2. CASE hardware'.serial > 1
    <3>1. ~ProbedOnce'
      BY <1>1, <2>2 DEF ProbedOnce, Typed
    <3> QED BY <3>1 DEF EarnedInv
  <2>3. CASE hardware.serial = 0 /\ row = "NONE" /\ Active = {} /\ attempt = 0 /\ Working = {}
    BY <1>0, <1>a, <2>3 DEF EarnedInv
  <2> QED BY <1>h, <2>1, <2>2, <2>3
<1>4. StaysInv'
  <2>1. CASE UNCHANGED <<hardware, troubles>>
    BY <1>0, <1>a, <2>1 DEF StaysInv, ProbedOnce, Measured
  <2>2. CASE hardware'.serial > 1
    <3>1. ~ProbedOnce'
      BY <1>1, <2>2 DEF ProbedOnce, Typed
    <3> QED BY <3>1 DEF StaysInv
  <2>3. CASE hardware.serial = 0 /\ row = "NONE" /\ Active = {} /\ attempt = 0 /\ Working = {}
    <3>1. ProbedOnce' /\ ~adopted' => ProbedOnce /\ ~adopted
      BY <1>0, <2>3 DEF ProbedOnce
    <3> QED BY <1>0, <1>a, <2>3, <3>1 DEF StaysInv
  <2> QED BY <1>h, <2>1, <2>2, <2>3
<1> QED BY <1>1, <1>2, <1>3, <1>4

\* launch and resume.
LEMMA StartKeeps ==
  ASSUME AgreeInv, NEW d \in Drivers, StartDriverOf(d)
  PROVE  AgreeInv'
<1> USE TroublesAssumption DEF AgreeInv
<1>0. /\ driver' = [driver EXCEPT ![d] = [at |-> "starting", ready |-> FALSE]]
      /\ UNCHANGED <<hardware, others, rest, row, attempt, evidence, worker, receipts, summary, doubled>>
      /\ driver[d].at = "off" /\ RequiredReceipts
      /\ overlapped' = (overlapped \/ Active # {}) /\ adopted' = (adopted \/ Working # {})
  BY DEF StartDriverOf
<1>1. Typed'
  <2>1. driver' \in [Drivers -> [at : DriverSteps, ready : BOOLEAN]]
    BY <1>0 DEF Typed, DriverSteps
  <2>2. troubles' \in 0..MaxTroubles /\ hardware.serial <= troubles' + 1 /\ ledger' \in BOOLEAN /\ returned' \in BOOLEAN
    BY DEF StartDriverOf, Typed, Trouble
  <2>3. overlapped' \in BOOLEAN /\ adopted' \in BOOLEAN
    BY <1>0 DEF Typed
  <2> QED BY <1>0, <2>1, <2>2, <2>3 DEF Typed
<1>s. /\ driver'[d].at = "starting" /\ \A e \in Drivers \ {d} : driver'[e] = driver[e]
      /\ Active' = Active \cup {d} /\ Working' = Working
  BY <1>0 DEF Typed, Active, Working
<1>2. RowsInv'
  BY <1>0, <1>s DEF RowsInv, SummaryIsReceipt, RequiredReceipts
<1>3. EarnedInv'
  <2> SUFFICES ASSUME ProbedOnce' PROVE EarnedInv'
    BY DEF EarnedInv
  <2>1. ProbedOnce /\ Active = {} /\ Active' = {d}
    BY <1>0, <1>s DEF ProbedOnce
  <2>2. troubles' >= troubles
    BY DEF StartDriverOf, Typed, Trouble
  <2>3. hardware.feasible /\ hardware.serial = 1
    <3>1. hardware.feasible
      BY <1>0 DEF RequiredReceipts
    <3>2. hardware.serial # 0 /\ hardware.serial <= 1
      BY <2>1, <3>1 DEF RowsInv, ProbedOnce
    <3>3. hardware.serial \in Nat
      BY DEF Typed
    <3> QED BY <3>1, <3>2, <3>3
  <2>t. troubles \in Nat /\ troubles' \in Nat /\ attempt \in Nat
    BY <1>1 DEF Typed
  <2>4. row = "LOST" \/ row = "RUNNING" => troubles' >= attempt
    <3>1. row = "LOST" \/ row = "RUNNING" => troubles >= attempt
      BY <2>1 DEF EarnedInv, Unattended
    <3> QED BY <2>t, <2>2, <3>1
  <2>5. attempt = 2 => troubles' >= 1
    <3>1. attempt = 2 => troubles >= 1
      BY <2>1 DEF EarnedInv
    <3> QED BY <2>t, <2>2, <3>1
  <2> QED BY <1>0, <1>s, <2>1, <2>3, <2>4, <2>5 DEF EarnedInv
<1>4. StaysInv'
  <2> SUFFICES ASSUME (ProbedOnce /\ ~adopted)' PROVE StaysInv'
    BY DEF StaysInv
  <2>1. ProbedOnce /\ ~adopted /\ Active' = {d} /\ Working = {}
    BY <1>0, <1>s DEF ProbedOnce
  <2> QED BY <1>0, <1>s, <2>1 DEF StaysInv
<1> QED BY <1>1, <1>2, <1>3, <1>4

\* reconcile_processes.
LEMMA ReconcileKeeps ==
  ASSUME AgreeInv, NEW d \in Drivers, ReconcileReceipt(d)
  PROVE  AgreeInv'
<1> USE TroublesAssumption DEF AgreeInv
<1>0. PICK slow \in BOOLEAN :
        /\ row' = Stalls(row = "RUNNING" /\ (slow \/ attempt \notin Working))
        /\ doubled' = (doubled \/ (row = "RUNNING" /\ slow /\ attempt \in Working))
  BY DEF ReconcileReceipt
<1>u. /\ UNCHANGED <<hardware, others, ledger, rest, attempt, evidence, worker, receipts, summary, returned,
                     overlapped, adopted, troubles>>
      /\ driver[d].at = "starting" /\ DriverGoes(d, "reading")
  BY DEF ReconcileReceipt
<1>d. /\ driver' \in [Drivers -> [at : DriverSteps, ready : BOOLEAN]]
      /\ driver'[d].at = "reading" /\ \A e \in Drivers \ {d} : driver'[e] = driver[e]
  BY <1>u, DriverMoved DEF DriverSteps
<1>s. Active' = Active /\ Working' = Working /\ d \in Active
  BY <1>u, <1>d DEF Active, Working
<1>r. \/ row' = row /\ doubled' = doubled
      \/ row = "RUNNING" /\ row' = "LOST" /\ (attempt \in Working => doubled') /\ (doubled => doubled')
  <2>1. CASE row = "RUNNING" /\ (slow \/ attempt \notin Working)
    <3>1. row' = "LOST"
      BY <1>0, <2>1 DEF Stalls
    <3>2. (attempt \in Working => doubled') /\ (doubled => doubled')
      BY <1>0, <2>1, Zenon
    <3> QED BY <2>1, <3>1, <3>2
  <2>2. CASE ~(row = "RUNNING" /\ (slow \/ attempt \notin Working))
    <3>1. row' = row
      BY <1>0, <2>2 DEF Stalls
    <3>2. doubled' = (doubled \/ FALSE)
      BY <1>0, <2>2, Zenon
    <3> QED BY <3>1, <3>2 DEF Typed
  <2> QED BY <2>1, <2>2
<1>1. Typed'
  <2>1. row' \in RowStates /\ doubled' \in BOOLEAN
    BY <1>0, <1>r DEF Typed, RowStates
  <2> QED BY <1>u, <1>d, <2>1 DEF Typed
<1>2. RowsInv'
  BY <1>u, <1>s, <1>r DEF RowsInv, SummaryIsReceipt
<1>3. EarnedInv'
  <2> SUFFICES ASSUME ProbedOnce PROVE EarnedInv'
    BY <1>u DEF EarnedInv, ProbedOnce
  <2>1. row' = "LOST" \/ row' = "RUNNING" => troubles >= attempt
    BY <1>r, <1>s, <1>u DEF EarnedInv, Unattended
  <2>2. \A e \in Active : e = d
    BY <1>s DEF EarnedInv
  <2> QED BY <1>u, <1>d, <1>s, <1>r, <2>1, <2>2 DEF EarnedInv
<1>4. StaysInv'
  <2> SUFFICES ASSUME ProbedOnce, ~adopted PROVE StaysInv'
    BY <1>u DEF StaysInv, ProbedOnce
  <2>1. Working = {} /\ ~doubled' /\ \A e \in Active : e = d
    BY <1>0, <1>u, <1>s DEF StaysInv, EarnedInv
  <2> QED BY <1>u, <1>d, <1>s, <1>r, <2>1 DEF StaysInv
<1> QED BY <1>1, <1>2, <1>3, <1>4

\* completed_artifacts, for the first time.
LEMMA ReadKeeps ==
  ASSUME AgreeInv, NEW d \in Drivers, ReadCompleted(d)
  PROVE  AgreeInv'
<1> USE TroublesAssumption DEF AgreeInv
<1>u. /\ UNCHANGED <<hardware, others, ledger, rest, row, attempt, evidence, worker, receipts, summary,
                     overlapped, adopted, doubled, troubles>>
      /\ returned' \in BOOLEAN /\ driver[d].at = "reading"
  BY DEF ReadCompleted, filesAndLedger, histories, Typed
<1>d. /\ driver' \in [Drivers -> [at : DriverSteps, ready : BOOLEAN]]
      /\ \A e \in Drivers \ {d} : driver'[e] = driver[e]
      /\ \/ driver'[d].at = "off" /\ row = "COMPLETED"
         \/ driver'[d].at = "asking" /\ row # "COMPLETED" /\ (rest = "done" => driver'[d].ready)
  <2>1. CASE Returns(d)
    <3>1. DriverGoes(d, "off") /\ row = "COMPLETED"
      BY <2>1 DEF ReadCompleted, Returns
    <3> QED BY <3>1, DriverMoved DEF DriverSteps
  <2>2. CASE ~Returns(d)
    <3>1. driver' = [driver EXCEPT ![d] = [at |-> "asking", ready |-> rest = "done"]] /\ row # "COMPLETED"
      BY <2>2 DEF ReadCompleted, Returns
    <3>2. (rest = "done") \in BOOLEAN
      OBVIOUS
    <3> QED BY <3>1, <3>2 DEF Typed, DriverSteps
  <2> QED BY <2>1, <2>2
<1>1. Typed'
  BY <1>u, <1>d DEF Typed
<1>s. Working' = Working /\ Active' \subseteq Active /\ d \in Active
  BY <1>u, <1>d DEF Active, Working
<1>2. RowsInv'
  BY <1>u, <1>s DEF RowsInv, SummaryIsReceipt
<1>3. EarnedInv'
  <2> SUFFICES ASSUME ProbedOnce PROVE EarnedInv'
    BY <1>u DEF EarnedInv, ProbedOnce
  <2>1. \A e \in Active : e = d
    BY <1>s DEF EarnedInv
  <2>2. row = "RUNNING" /\ Unattended' => Unattended
    <3> SUFFICES ASSUME row = "RUNNING", Unattended', attempt \in Working PROVE FALSE
      BY DEF Unattended
    <3>1. driver'[d].at = "asking" /\ d \in Active'
      BY <1>d DEF Active
    <3> QED BY <1>u, <1>s, <2>1, <3>1 DEF Unattended
  <2> QED BY <1>u, <1>d, <1>s, <2>1, <2>2 DEF EarnedInv, RowsInv
<1>4. StaysInv'
  <2> SUFFICES ASSUME ProbedOnce, ~adopted PROVE StaysInv'
    BY <1>u DEF StaysInv, ProbedOnce
  <2>1. \A e \in Active : e = d
    BY <1>s DEF EarnedInv
  <2> QED BY <1>u, <1>d, <1>s, <2>1 DEF StaysInv, Measured
<1> QED BY <1>1, <1>2, <1>3, <1>4

\* completed_artifacts and the compiler, for the second.
LEMMA EnqueueKeeps ==
  ASSUME AgreeInv, NEW d \in Drivers, EnqueueReady(d)
  PROVE  AgreeInv'
<1> USE TroublesAssumption DEF AgreeInv
<1>u. /\ UNCHANGED <<hardware, others, ledger, rest, evidence, worker, receipts, summary, returned,
                     overlapped, adopted, doubled, troubles>>
      /\ driver[d].at = "asking"
  BY DEF EnqueueReady, histories
<1>c. \/ row = "COMPLETED" /\ DriverGoes(d, "off") /\ UNCHANGED <<row, attempt>>
      \/ rest # "done" /\ row # "COMPLETED" /\ DriverGoes(d, "ticking") /\ UNCHANGED <<row, attempt>>
      \/ /\ rest = "done" /\ row # "COMPLETED" /\ DriverGoes(d, "proving")
         /\ \/ row = "NONE" /\ row' = "READY" /\ attempt' = 1
            \/ row # "NONE" /\ UNCHANGED <<row, attempt>>
  BY DEF EnqueueReady, Proves
<1>d. /\ driver' \in [Drivers -> [at : DriverSteps, ready : BOOLEAN]]
      /\ \A e \in Drivers \ {d} : driver'[e] = driver[e]
      /\ driver'[d].at # "off" => driver'[d].ready = driver[d].ready
      /\ driver'[d].at = "off" => DriverGoes(d, "off")
      /\ \/ driver'[d].at = "off" /\ row = "COMPLETED" /\ UNCHANGED <<row, attempt>>
         \/ driver'[d].at = "ticking" /\ rest # "done" /\ UNCHANGED <<row, attempt>>
         \/ /\ driver'[d].at = "proving" /\ rest = "done" /\ row # "COMPLETED"
            /\ \/ row = "NONE" /\ row' = "READY" /\ attempt' = 1
               \/ row # "NONE" /\ UNCHANGED <<row, attempt>>
  <2>1. DriverGoes(d, "off") \/ DriverGoes(d, "ticking") \/ DriverGoes(d, "proving")
    BY <1>c
  <2>2. "off" \in DriverSteps /\ "ticking" \in DriverSteps /\ "proving" \in DriverSteps
    BY DEF DriverSteps
  <2>3. \A stage \in {"off", "ticking", "proving"} :
          DriverGoes(d, stage) =>
            /\ driver' \in [Drivers -> [at : DriverSteps, ready : BOOLEAN]]
            /\ driver'[d].at = stage /\ (stage # "off" => driver'[d].ready = driver[d].ready)
            /\ \A e \in Drivers \ {d} : driver'[e] = driver[e]
    BY <2>2, DriverMoved
  <2> QED BY <1>c, <2>1, <2>3
<1>k. row = "NONE" => attempt = 0 /\ Working = {} /\ summary = 0
  BY DEF RowsInv, Working, Typed, AttemptNumbers
<1>s. Working' = Working /\ Active' \subseteq Active /\ d \in Active
  BY <1>u, <1>d DEF Active, Working
<1>1. Typed'
  <2>1. row' \in RowStates /\ attempt' \in 0..2 /\ summary \in 0..attempt'
    BY <1>d, <1>k DEF Typed, RowStates
  <2> QED BY <1>u, <1>d, <2>1 DEF Typed
<1>2. RowsInv'
  <2>1. CASE UNCHANGED <<row, attempt>>
    BY <1>u, <1>s, <2>1 DEF RowsInv, SummaryIsReceipt
  <2>2. CASE row = "NONE" /\ row' = "READY" /\ attempt' = 1 /\ rest = "done"
    <3>1. hardware.serial # 0
      BY <1>s DEF RowsInv
    <3> QED BY <1>u, <1>s, <1>k, <2>2, <3>1 DEF RowsInv, SummaryIsReceipt, AttemptNumbers
  <2> QED BY <1>d, <2>1, <2>2
<1>3. EarnedInv'
  <2> SUFFICES ASSUME ProbedOnce PROVE EarnedInv'
    BY <1>u DEF EarnedInv, ProbedOnce
  <2>1. \A e \in Active : e = d
    BY <1>s DEF EarnedInv
  <2>2. row' = "RUNNING" /\ Unattended' => row = "RUNNING" /\ attempt' = attempt /\ Unattended
    <3> SUFFICES ASSUME row' = "RUNNING", Unattended' PROVE row = "RUNNING" /\ attempt' = attempt /\ Unattended
      OBVIOUS
    <3>1. row = "RUNNING" /\ attempt' = attempt /\ driver'[d].at \in {"ticking", "proving"} /\ d \in Active'
      BY <1>d DEF Active
    <3> QED BY <1>u, <1>s, <2>1, <3>1 DEF Unattended
  <2>3. row # "NONE" => rest = "done"
    BY DEF RowsInv
  <2>4. hardware.feasible /\ hardware.serial = 1
    BY <1>s DEF EarnedInv
  <2>5. \A e \in Active' : driver'[e].at = "proving" /\ row' # "READY" => driver'[e].ready
    BY <1>d, <1>s, <1>u, <2>1 DEF EarnedInv
  <2>6. row' = "LOST" => row = "LOST" /\ attempt' = attempt
    BY <1>d
  <2> QED BY <1>u, <1>d, <1>s, <2>1, <2>2, <2>3, <2>4, <2>5, <2>6 DEF EarnedInv
<1>4. StaysInv'
  <2> SUFFICES ASSUME ProbedOnce, ~adopted PROVE StaysInv'
    BY <1>u DEF StaysInv, ProbedOnce
  <2>1. \A e \in Active : e = d
    BY <1>s DEF EarnedInv
  <2>2. rest # "done" => row = "NONE"
    BY DEF RowsInv
  <2> QED BY <1>u, <1>d, <1>s, <2>1, <2>2 DEF StaysInv, Measured
<1> QED BY <1>1, <1>2, <1>3, <1>4

\* _qualification_execution_evidence.
LEMMA EvidenceKeeps ==
  ASSUME AgreeInv, NEW d \in Drivers, WriteEvidence(d)
  PROVE  AgreeInv'
<1> USE TroublesAssumption DEF AgreeInv
<1>u. /\ UNCHANGED <<hardware, others, ledger, rest, row, attempt, worker, receipts, summary, returned,
                     overlapped, adopted, doubled, troubles>>
      /\ driver[d].at = "proving"
  BY DEF WriteEvidence, histories
<1>m. Measured(d) \in Evidences /\ Measured(d).hardware = hardware.serial
  BY DEF Measured, Typed, Evidences
<1>d. /\ driver' \in [Drivers -> [at : DriverSteps, ready : BOOLEAN]]
      /\ \A e \in Drivers \ {d} : driver'[e] = driver[e]
      /\ \/ driver'[d].at = "ticking" /\ evidence' = Measured(d)
         \/ driver'[d].at = "off" /\ evidence' = evidence /\ ~(driver[d].ready /\ hardware.feasible)
  <2>1. CASE driver[d].ready /\ hardware.feasible
    <3>1. evidence' = Measured(d) /\ DriverGoes(d, "ticking") /\ "ticking" \in DriverSteps
      BY <2>1 DEF WriteEvidence, DriverSteps
    <3> QED BY <3>1, DriverMoved
  <2>2. CASE ~(driver[d].ready /\ hardware.feasible)
    <3>1. evidence' = evidence /\ DriverGoes(d, "off") /\ "off" \in DriverSteps
      BY <2>2 DEF WriteEvidence, DriverSteps
    <3> QED BY <2>2, <3>1, DriverMoved
  <2> QED BY <2>1, <2>2
<1>1. Typed'
  <2>1. evidence' \in Evidences /\ evidence'.hardware <= hardware.serial
    BY <1>d, <1>m DEF Typed
  <2> QED BY <1>u, <1>d, <2>1 DEF Typed
<1>s. Working' = Working /\ Active' \subseteq Active /\ d \in Active
  BY <1>u, <1>d DEF Active, Working
<1>2. RowsInv'
  BY <1>u, <1>s DEF RowsInv, SummaryIsReceipt
<1>3. EarnedInv'
  <2> SUFFICES ASSUME ProbedOnce PROVE EarnedInv'
    BY <1>u DEF EarnedInv, ProbedOnce
  <2>1. (\A e \in Active : e = d) /\ hardware.feasible /\ hardware.serial = 1
    BY <1>s DEF EarnedInv
  <2>2. row = "RUNNING" => driver'[d].at = "ticking" /\ d \in Active'
    BY <1>d, <1>s, <1>u, <2>1 DEF EarnedInv, Active
  <2>3. row = "RUNNING" /\ Unattended' => Unattended
    BY <1>u, <1>s, <2>1, <2>2 DEF Unattended
  <2>4. evidence.hardware = 1 => evidence'.hardware = 1
    BY <1>d, <1>m, <2>1
  <2>5. driver'[d].at = "ticking" => evidence'.hardware = 1
    BY <1>d, <1>m, <2>1
  <2> QED BY <1>u, <1>d, <1>s, <2>1, <2>3, <2>4, <2>5 DEF EarnedInv
<1>4. StaysInv'
  <2> SUFFICES ASSUME ProbedOnce, ~adopted PROVE StaysInv'
    BY <1>u DEF StaysInv, ProbedOnce
  <2>1. \A e \in Active : e = d
    BY <1>s DEF EarnedInv
  <2>2. Working # {} \/ row = "COMPLETED" => evidence' = evidence
    BY <1>u, <1>d, <1>s DEF StaysInv
  <2>3. Measured(d)' = Measured(d)
    BY <1>u DEF Measured
  <2> QED BY <1>u, <1>d, <1>s, <2>1, <2>2, <2>3 DEF StaysInv
<1> QED BY <1>1, <1>2, <1>3, <1>4

\* run_until_terminal.
LEMMA TickKeeps ==
  ASSUME AgreeInv, NEW d \in Drivers, TickScheduler(d)
  PROVE  AgreeInv'
<1> USE TroublesAssumption DEF AgreeInv
<1>u. /\ UNCHANGED <<hardware, others, ledger, evidence, receipts, summary, returned, overlapped, adopted,
                     doubled, troubles>>
      /\ rest' \in {"due", "running", "done"} /\ (rest = "done" => rest' = "done") /\ driver[d].at = "ticking"
  BY DEF TickScheduler, histories, Typed
<1>s. d \in Active /\ \A e \in Active : e # d => driver[e].at # "off"
  BY <1>u DEF Active
<1>1. CASE /\ row = "READY" /\ row' = "RUNNING" /\ DriverGoes(d, "reading") /\ UNCHANGED attempt
           /\ worker' = [worker EXCEPT ![attempt] = [Nowhere EXCEPT !.at = "begun"]]
  <2>a. attempt \in AttemptNumbers /\ attempt \notin Working
    BY <1>1 DEF RowsInv
  <2>d. /\ driver' \in [Drivers -> [at : DriverSteps, ready : BOOLEAN]]
        /\ driver'[d].at = "reading" /\ \A e \in Drivers \ {d} : driver'[e] = driver[e]
    BY <1>1, DriverMoved DEF DriverSteps
  <2>w. /\ worker' \in [AttemptNumbers -> [at : WorkerSteps, hardware : Nat, evidence : Evidences]]
        /\ worker'[attempt].at = "begun" /\ \A b \in AttemptNumbers \ {attempt} : worker'[b] = worker[b]
    BY <1>1, <2>a, WorkerMoved DEF WorkerGoes, WorkerSteps
  <2>s. Active' = Active /\ Working' = Working \cup {attempt}
    BY <1>u, <2>a, <2>d, <2>w DEF Active, Working
  <2>1. Typed'
    BY <1>u, <1>1, <2>d, <2>w DEF Typed, RowStates
  <2>2. RowsInv'
    BY <1>u, <1>1, <2>a, <2>w, <2>s DEF RowsInv, SummaryIsReceipt, Typed
  <2>3. EarnedInv'
    <3> SUFFICES ASSUME ProbedOnce PROVE EarnedInv'
      BY <1>u DEF EarnedInv, ProbedOnce
    <3>1. \A e \in Active : e = d
      BY <1>s DEF EarnedInv
    <3>2. evidence.hardware = 1
      BY <1>1, <1>s, <1>u DEF EarnedInv
    <3>3. ~Unattended'
      BY <1>1, <1>s, <2>d, <2>s, <3>1 DEF Unattended
    <3> QED BY <1>u, <1>1, <2>d, <2>w, <2>s, <3>1, <3>2, <3>3 DEF EarnedInv
  <2>4. StaysInv'
    <3> SUFFICES ASSUME ProbedOnce, ~adopted PROVE StaysInv'
      BY <1>u DEF StaysInv, ProbedOnce
    <3>1. \A e \in Active : e = d
      BY <1>s DEF EarnedInv
    <3>2. evidence = Measured(d) /\ Measured(d)' = Measured(d)
      BY <1>u, <1>1, <1>s DEF StaysInv, Measured
    <3> QED BY <1>u, <1>1, <2>d, <2>w, <2>s, <3>1, <3>2 DEF StaysInv
  <2> QED BY <2>1, <2>2, <2>3, <2>4
<1>2. CASE row = "LOST" /\ attempt = 1 /\ row' = "READY" /\ attempt' = 2 /\ UNCHANGED <<worker, driver>>
  <2>s. Active' = Active /\ Working' = Working /\ 2 \notin Working
    BY <1>2 DEF Active, Working, RowsInv
  <2>1. Typed'
    BY <1>u, <1>2 DEF Typed, RowStates
  <2>2. RowsInv'
    <3>1. hardware.serial # 0 /\ 2 \in AttemptNumbers /\ rest' = "done"
      BY <1>u, <1>2 DEF RowsInv, AttemptNumbers
    <3>2. ~doubled => Working = {}
      BY <1>2 DEF RowsInv
    <3>3. \A a \in Working : a <= 2
      BY DEF Working, AttemptNumbers
    <3> QED BY <1>u, <1>2, <2>s, <3>1, <3>2, <3>3 DEF RowsInv, SummaryIsReceipt
  <2>3. EarnedInv'
    <3> SUFFICES ASSUME ProbedOnce PROVE EarnedInv'
      BY <1>u DEF EarnedInv, ProbedOnce
    <3>1. troubles >= 1 /\ evidence.hardware = 1
      BY <1>2 DEF EarnedInv
    <3>2. \A e \in Active : e = d
      BY <1>s DEF EarnedInv
    <3> QED BY <1>u, <1>2, <2>s, <3>1, <3>2 DEF EarnedInv
  <2>4. StaysInv'
    BY <1>u, <1>2, <2>s DEF StaysInv, ProbedOnce, Measured
  <2> QED BY <2>1, <2>2, <2>3, <2>4
<1>3. CASE /\ ReceiptFailed \/ row \in {"NONE", "RUNNING", "COMPLETED"}
           /\ (DriverGoes(d, "off") /\ ReceiptFailed) \/ DriverGoes(d, "reading")
           /\ UNCHANGED <<row, attempt, worker>>
  <2>d. /\ driver' \in [Drivers -> [at : DriverSteps, ready : BOOLEAN]]
        /\ driver'[d].at = "reading" \/ (driver'[d].at = "off" /\ ReceiptFailed)
        /\ \A e \in Drivers \ {d} : driver'[e] = driver[e]
    <3>1. "off" \in DriverSteps /\ "reading" \in DriverSteps
      BY DEF DriverSteps
    <3> QED BY <1>3, <3>1, DriverMoved
  <2>s. Active' \subseteq Active /\ Working' = Working
    BY <1>u, <1>3, <2>d DEF Active, Working
  <2>1. Typed'
    BY <1>u, <1>3, <2>d DEF Typed
  <2>2. RowsInv'
    BY <1>u, <1>3, <2>s DEF RowsInv, SummaryIsReceipt
  <2>3. EarnedInv'
    <3> SUFFICES ASSUME ProbedOnce PROVE EarnedInv'
      BY <1>u DEF EarnedInv, ProbedOnce
    <3>1. \A e \in Active : e = d
      BY <1>s DEF EarnedInv
    <3>2. row = "RUNNING" => driver'[d].at = "reading" /\ d \in Active'
      BY <2>d DEF ReceiptFailed, Active
    <3>3. row = "RUNNING" /\ Unattended' => Unattended
      BY <1>3, <2>s, <3>1, <3>2 DEF Unattended
    <3> QED BY <1>u, <1>3, <2>d, <2>s, <3>1, <3>3 DEF EarnedInv
  <2>4. StaysInv'
    <3> SUFFICES ASSUME ProbedOnce, ~adopted PROVE StaysInv'
      BY <1>u DEF StaysInv, ProbedOnce
    <3>1. \A e \in Active : e = d
      BY <1>s DEF EarnedInv
    <3> QED BY <1>u, <1>3, <2>d, <2>s, <3>1 DEF StaysInv, Measured
  <2> QED BY <2>1, <2>2, <2>3, <2>4
<1> QED BY <1>1, <1>2, <1>3 DEF TickScheduler

\* A driver dies; its workers go on.
LEMMA LoseDriverKeeps ==
  ASSUME AgreeInv, NEW d \in Drivers, LoseDriver(d)
  PROVE  AgreeInv'
<1> USE TroublesAssumption DEF AgreeInv
<1>u. /\ UNCHANGED <<hardware, others, ledger, rest, row, attempt, evidence, worker, receipts, summary,
                     returned, overlapped, adopted, doubled>>
      /\ d \in Active /\ DriverGoes(d, "off") /\ troubles < MaxTroubles /\ troubles' = troubles + 1
  BY DEF LoseDriver, filesAndLedger, Trouble
<1>d. /\ driver' \in [Drivers -> [at : DriverSteps, ready : BOOLEAN]]
      /\ driver'[d].at = "off" /\ \A e \in Drivers \ {d} : driver'[e] = driver[e]
  BY <1>u, DriverMoved DEF DriverSteps
<1>s. Active' \subseteq Active /\ Working' = Working
  BY <1>u, <1>d DEF Active, Working
<1>1. Typed'
  BY <1>u, <1>d DEF Typed
<1>2. RowsInv'
  BY <1>u, <1>s DEF RowsInv, SummaryIsReceipt
<1>3. EarnedInv'
  <2>1. attempt = 2 /\ EarnedInv /\ ProbedOnce => troubles >= 1
    BY DEF EarnedInv
  <2>2. EarnedInv /\ ProbedOnce => troubles' >= attempt
    BY <1>u, <2>1 DEF Typed
  <2>3. EarnedInv /\ ProbedOnce /\ attempt = 2 => troubles' >= 1
    BY <1>u, <2>1 DEF Typed
  <2> QED BY <1>u, <1>d, <1>s, <2>2, <2>3 DEF EarnedInv, ProbedOnce, Active
<1>4. StaysInv'
  BY <1>u, <1>d, <1>s DEF StaysInv, ProbedOnce, Measured, Active
<1> QED BY <1>1, <1>2, <1>3, <1>4

\* What a step of the job leaves alone.
LEMMA JobLeavesAlone ==
  ASSUME UnchangedByJob
  PROVE  /\ UNCHANGED <<hardware, others, ledger, rest, attempt, evidence, driver, returned, overlapped,
                        adopted, doubled, troubles>>
         /\ Active' = Active /\ \A d : Measured(d)' = Measured(d)
  BY DEF UnchangedByJob, histories, Active, Measured

\* _load_hardware_receipt in the job.
LEMMA HardwareKeeps ==
  ASSUME AgreeInv, NEW a \in AttemptNumbers, LoadHardware(a)
  PROVE  AgreeInv'
<1> USE TroublesAssumption DEF AgreeInv
<1>u. /\ UNCHANGED <<hardware, others, ledger, rest, attempt, evidence, driver, returned, overlapped,
                     adopted, doubled, troubles, receipts, summary>>
      /\ Active' = Active /\ \A d : Measured(d)' = Measured(d)
      /\ worker[a].at = "begun" /\ a \in Working
  BY JobLeavesAlone DEF LoadHardware, JobFails, Working
<1>w. /\ worker' \in [AttemptNumbers -> [at : WorkerSteps, hardware : Nat, evidence : Evidences]]
      /\ \A b \in AttemptNumbers \ {a} : worker'[b] = worker[b]
      /\ \/ worker'[a].at = "measured" /\ worker'[a].hardware = hardware.serial /\ row' = row
         \/ worker'[a].at = "gone" /\ row' = Closed(a, "FAILED") /\ ~hardware.feasible
  <2>1. CASE hardware.feasible
    <3>1. worker' = [worker EXCEPT ![a] = [at |-> "measured", hardware |-> hardware.serial,
                                           evidence |-> worker[a].evidence]] /\ row' = row
      BY <2>1, WorkerReads DEF LoadHardware
    <3>2. hardware.serial \in Nat /\ worker[a].evidence \in Evidences
      BY DEF Typed
    <3> QED BY <3>1, <3>2 DEF Typed, WorkerSteps
  <2>2. CASE ~hardware.feasible
    <3>1. WorkerGoes(a, "gone") /\ row' = Closed(a, "FAILED")
      BY <2>2 DEF LoadHardware, JobFails
    <3> QED BY <2>2, <3>1, WorkerMoved DEF WorkerSteps
  <2> QED BY <2>1, <2>2
<1>s. /\ Working' \subseteq Working /\ (row' = row \/ (row = "RUNNING" /\ row' = "FAILED" /\ a = attempt))
      /\ row' = row /\ hardware.feasible => Working' = Working
      /\ a \in Working' => worker'[a].at = "measured"
  BY <1>u, <1>w DEF Working, Closed
<1>1. Typed'
  BY <1>u, <1>w, <1>s DEF Typed, RowStates
<1>2. RowsInv'
  BY <1>u, <1>w, <1>s DEF RowsInv, SummaryIsReceipt, Working
<1>3. EarnedInv'
  <2> SUFFICES ASSUME ProbedOnce PROVE EarnedInv'
    BY <1>u DEF EarnedInv, ProbedOnce
  <2>1. hardware.feasible /\ hardware.serial = 1
    BY <1>u DEF EarnedInv, RowsInv, Working, AttemptNumbers
  <2>2. worker'[a].at = "measured" /\ worker'[a].hardware = 1 /\ row' = row /\ Working' = Working
    BY <1>w, <1>s, <2>1
  <2>3. Unattended' => Unattended
    BY <1>u, <2>2 DEF Unattended
  <2> QED BY <1>u, <1>w, <2>2, <2>3 DEF EarnedInv, Working
<1>4. StaysInv'
  <2>1. \A b \in Working' : b = a => worker'[b].at = "measured"
    BY <1>s
  <2> QED BY <1>u, <1>w, <1>s, <2>1 DEF StaysInv, ProbedOnce, Working
<1> QED BY <1>1, <1>2, <1>3, <1>4

\* The job reads the evidence.
LEMMA LoadKeeps ==
  ASSUME AgreeInv, NEW a \in AttemptNumbers, LoadEvidence(a)
  PROVE  AgreeInv'
<1> USE TroublesAssumption DEF AgreeInv
<1>u. /\ UNCHANGED <<hardware, others, ledger, rest, attempt, evidence, driver, returned, overlapped,
                     adopted, doubled, troubles, receipts, summary>>
      /\ Active' = Active /\ \A d : Measured(d)' = Measured(d)
      /\ worker[a].at = "measured" /\ a \in Working
  BY JobLeavesAlone DEF LoadEvidence, JobFails, Working
<1>w. /\ worker' \in [AttemptNumbers -> [at : WorkerSteps, hardware : Nat, evidence : Evidences]]
      /\ \A b \in AttemptNumbers \ {a} : worker'[b] = worker[b]
      /\ \/ worker'[a].at = "proved" /\ worker'[a].evidence = evidence /\ row' = row
         \/ /\ worker'[a].at = "gone" /\ row' = Closed(a, "FAILED")
            /\ evidence.hardware # worker[a].hardware
  <2>1. CASE evidence.hardware = worker[a].hardware
    <3>1. worker' = [worker EXCEPT ![a] = [at |-> "proved", hardware |-> worker[a].hardware,
                                           evidence |-> evidence]] /\ row' = row
      BY <2>1, WorkerReads DEF LoadEvidence
    <3>2. worker[a].hardware \in Nat /\ evidence \in Evidences
      BY DEF Typed
    <3> QED BY <3>1, <3>2 DEF Typed, WorkerSteps
  <2>2. CASE evidence.hardware # worker[a].hardware
    <3>1. WorkerGoes(a, "gone") /\ row' = Closed(a, "FAILED")
      BY <2>2 DEF LoadEvidence, JobFails
    <3> QED BY <2>2, <3>1, WorkerMoved DEF WorkerSteps
  <2> QED BY <2>1, <2>2
<1>s. /\ Working' \subseteq Working /\ (row' = row \/ (row = "RUNNING" /\ row' = "FAILED" /\ a = attempt))
      /\ worker'[a].at = "proved" => Working' = Working
      /\ a \in Working' => worker'[a].at = "proved" /\ worker'[a].evidence = evidence
  BY <1>u, <1>w DEF Working, Closed
<1>1. Typed'
  BY <1>u, <1>w, <1>s DEF Typed, RowStates
<1>2. RowsInv'
  BY <1>u, <1>w, <1>s DEF RowsInv, SummaryIsReceipt, Working
<1>3. EarnedInv'
  <2> SUFFICES ASSUME ProbedOnce PROVE EarnedInv'
    BY <1>u DEF EarnedInv, ProbedOnce
  <2>1. row # "NONE" /\ attempt \in 1..2 /\ (row = "READY" => attempt = 2)
    BY <1>u DEF RowsInv, Working, AttemptNumbers, Typed
  <2>2. evidence.hardware = 1 /\ worker[a].hardware = 1
    BY <1>u, <2>1 DEF EarnedInv
  <2>3. worker'[a].at = "proved" /\ row' = row /\ Working' = Working
    BY <1>w, <1>s, <2>2
  <2>4. Unattended' => Unattended
    BY <1>u, <2>3 DEF Unattended
  <2> QED BY <1>u, <1>w, <2>3, <2>4 DEF EarnedInv, Working
<1>4. StaysInv'
  <2>1. \A b \in Working' : b = a => worker'[b].at = "proved" /\ worker'[b].evidence = evidence
    BY <1>s
  <2> QED BY <1>u, <1>w, <1>s, <2>1 DEF StaysInv, ProbedOnce, Working
<1> QED BY <1>1, <1>2, <1>3, <1>4

\* The job publishes the receipt.
LEMMA PublishKeeps ==
  ASSUME AgreeInv, NEW a \in AttemptNumbers, PublishReceipt(a)
  PROVE  AgreeInv'
<1> USE TroublesAssumption DEF AgreeInv
<1>u. /\ UNCHANGED <<hardware, others, ledger, rest, attempt, evidence, driver, returned, overlapped,
                     adopted, doubled, troubles, row, summary>>
      /\ Active' = Active /\ \A d : Measured(d)' = Measured(d)
      /\ worker[a].at = "proved" /\ a \in Working
  BY JobLeavesAlone DEF PublishReceipt, Working
<1>w. /\ worker' \in [AttemptNumbers -> [at : WorkerSteps, hardware : Nat, evidence : Evidences]]
      /\ worker'[a].at = "published" /\ \A b \in AttemptNumbers \ {a} : worker'[b] = worker[b]
  BY WorkerMoved DEF PublishReceipt, WorkerSteps
<1>s. Working' = Working
  BY <1>u, <1>w DEF Working
<1>r. /\ DOMAIN receipts' = DOMAIN receipts \cup {a}
      /\ receipts'[a] = worker[a].evidence /\ \A b \in DOMAIN receipts \ {a} : receipts'[b] = receipts[b]
  BY DEF PublishReceipt
<1>1. Typed'
  BY <1>u, <1>w, <1>r DEF Typed
<1>2. RowsInv'
  <2>1. \A b \in Working : b = a \/ worker'[b] = worker[b]
    BY <1>w DEF Working
  <2> QED BY <1>u, <1>w, <1>s, <1>r, <2>1 DEF RowsInv, SummaryIsReceipt
<1>3. EarnedInv'
  BY <1>u, <1>w, <1>s DEF EarnedInv, ProbedOnce, Unattended, Working
<1>4. StaysInv'
  <2> SUFFICES ASSUME ProbedOnce, ~adopted PROVE StaysInv'
    BY <1>u DEF StaysInv, ProbedOnce
  <2>1. \A b \in Working : b = a /\ row = "RUNNING"
    BY <1>u DEF StaysInv, RowsInv
  <2>2. receipts'[a] = evidence
    BY <1>u, <1>r DEF StaysInv
  <2> QED BY <1>u, <1>w, <1>s, <2>1, <2>2 DEF StaysInv
<1> QED BY <1>1, <1>2, <1>3, <1>4

\* The job copies it.
LEMMA SummaryKeeps ==
  ASSUME AgreeInv, NEW a \in AttemptNumbers, WriteSummary(a)
  PROVE  AgreeInv'
<1> USE TroublesAssumption DEF AgreeInv
<1>u. /\ UNCHANGED <<hardware, others, ledger, rest, attempt, evidence, driver, returned, overlapped,
                     adopted, doubled, troubles, row, receipts>>
      /\ Active' = Active /\ \A d : Measured(d)' = Measured(d)
      /\ worker[a].at = "published" /\ a \in Working /\ summary' = a
  BY JobLeavesAlone DEF WriteSummary, Working, NewSummary
<1>w. /\ worker' \in [AttemptNumbers -> [at : WorkerSteps, hardware : Nat, evidence : Evidences]]
      /\ worker'[a].at = "summarised" /\ \A b \in AttemptNumbers \ {a} : worker'[b] = worker[b]
  BY WorkerMoved DEF WriteSummary, WorkerSteps
<1>s. Working' = Working
  BY <1>u, <1>w DEF Working
<1>a. a <= attempt /\ a \in 1..2 /\ a \in DOMAIN receipts
  BY <1>u DEF RowsInv, AttemptNumbers
<1>1. Typed'
  <2>1. summary' \in 0..attempt
    BY <1>u, <1>a DEF Typed
  <2> QED BY <1>u, <1>w, <2>1 DEF Typed
<1>2. RowsInv'
  <2>1. \A b \in Working : b = a \/ worker'[b] = worker[b]
    BY <1>w DEF Working
  <2>2. SummaryIsReceipt'
    <3> SUFFICES ASSUME row = "COMPLETED"
                 PROVE  {attempt, a} \subseteq DOMAIN receipts /\ (a # attempt => doubled /\ attempt = 2)
      BY <1>u DEF SummaryIsReceipt
    <3>1. doubled /\ attempt \in DOMAIN receipts
      BY <1>u DEF RowsInv, SummaryIsReceipt
    <3>2. attempt \in 0..2
      BY DEF Typed
    <3> QED BY <1>a, <3>1, <3>2
  <2>3. /\ \A b \in Working : worker'[b].at \in {"published", "summarised"} => b \in DOMAIN receipts
        /\ \A b \in Working : worker'[b].at = "summarised" => summary' # 0
        /\ summary' # 0 => summary' \in DOMAIN receipts
    <3>1. a # 0
      BY <1>a
    <3> QED BY <1>u, <1>w, <1>a, <2>1, <3>1 DEF RowsInv
  <2>4. ~doubled => \A b \in Working :
                      b = attempt /\ row = "RUNNING" /\ (worker'[b].at = "summarised" => summary' = b)
    BY <1>u DEF RowsInv
  <2> QED BY <1>u, <1>s, <2>2, <2>3, <2>4 DEF RowsInv
<1>3. EarnedInv'
  BY <1>u, <1>w, <1>s DEF EarnedInv, ProbedOnce, Unattended, Working
<1>4. StaysInv'
  BY <1>u, <1>w, <1>s DEF StaysInv, ProbedOnce, Working
<1> QED BY <1>1, <1>2, <1>3, <1>4

\* The worker closes its row.
LEMMA CompleteAgrees ==
  ASSUME AgreeInv, NEW a \in AttemptNumbers, CompleteReceipt(a)
  PROVE  AgreeInv'
<1> USE TroublesAssumption DEF AgreeInv
<1>u. /\ UNCHANGED <<hardware, others, ledger, rest, attempt, evidence, driver, returned, overlapped,
                     adopted, doubled, troubles, receipts, summary>>
      /\ Active' = Active /\ \A d : Measured(d)' = Measured(d)
      /\ worker[a].at = "summarised" /\ a \in Working
  BY JobLeavesAlone DEF CompleteReceipt, Working
<1>w. /\ worker' \in [AttemptNumbers -> [at : WorkerSteps, hardware : Nat, evidence : Evidences]]
      /\ worker'[a].at = "gone" /\ \A b \in AttemptNumbers \ {a} : worker'[b] = worker[b]
  BY WorkerMoved DEF CompleteReceipt, WorkerSteps
<1>s. Working' = Working \ {a}
  BY <1>u, <1>w DEF Working
<1>r. row' = row \/ (row = "RUNNING" /\ a = attempt /\ row' = "COMPLETED")
  BY DEF CompleteReceipt, Closed
<1>b. \A b \in Working' : worker'[b] = worker[b]
  BY <1>w, <1>s DEF Working
<1>1. Typed'
  BY <1>u, <1>w, <1>r DEF Typed, RowStates
<1>2. RowsInv'
  <2>1. SummaryIsReceipt'
    <3>1. CASE row' = row
      BY <1>u, <3>1 DEF RowsInv, SummaryIsReceipt
    <3>2. CASE row = "RUNNING" /\ a = attempt /\ row' = "COMPLETED"
      <4>1. {attempt, summary} \subseteq DOMAIN receipts
        BY <1>u, <3>2 DEF RowsInv
      <4>2. summary # attempt => doubled /\ attempt = 2
        BY <1>u, <3>2 DEF RowsInv, Typed
      <4> QED BY <1>u, <4>1, <4>2 DEF SummaryIsReceipt
    <3> QED BY <1>r, <3>1, <3>2
  <2>2. ~doubled => Working' = {}
    BY <1>u, <1>s DEF RowsInv
  <2> QED BY <1>u, <1>s, <1>b, <1>r, <2>1, <2>2 DEF RowsInv
<1>3. EarnedInv'
  <2>1. row' = row /\ a = attempt => row # "RUNNING"
    BY DEF CompleteReceipt, Closed
  <2>2. row' = "RUNNING" /\ Unattended' => Unattended
    BY <1>u, <1>s, <1>r, <2>1 DEF Unattended
  <2> QED BY <1>u, <1>s, <1>b, <1>r, <2>2 DEF EarnedInv, ProbedOnce
<1>4. StaysInv'
  <2> SUFFICES ASSUME ProbedOnce, ~adopted PROVE StaysInv'
    BY <1>u DEF StaysInv, ProbedOnce
  <2>1. a = attempt /\ row = "RUNNING" /\ receipts[a] = evidence
    BY <1>u DEF StaysInv, RowsInv
  <2>2. \A d \in Active : evidence = Measured(d)
    BY <1>u DEF StaysInv
  <2> QED BY <1>u, <1>s, <1>b, <1>r, <2>1, <2>2 DEF StaysInv
<1> QED BY <1>1, <1>2, <1>3, <1>4

\* A worker dies, or says that it failed.
LEMMA LoseWorkerKeeps ==
  ASSUME AgreeInv, NEW a \in AttemptNumbers, LoseWorker(a)
  PROVE  AgreeInv'
<1> USE TroublesAssumption DEF AgreeInv
<1>u. /\ UNCHANGED <<hardware, others, ledger, rest, attempt, evidence, driver, returned, overlapped,
                     adopted, doubled, receipts, summary>>
      /\ a \in Working /\ troubles < MaxTroubles /\ troubles' = troubles + 1
      /\ row' = row \/ (row = "RUNNING" /\ a = attempt /\ row' = "LOST")
  BY DEF LoseWorker, Trouble, Closed
<1>w. /\ worker' \in [AttemptNumbers -> [at : WorkerSteps, hardware : Nat, evidence : Evidences]]
      /\ worker'[a].at = "gone" /\ \A b \in AttemptNumbers \ {a} : worker'[b] = worker[b]
  BY WorkerMoved DEF LoseWorker, WorkerSteps
<1>s. Working' = Working \ {a} /\ Active' = Active
  BY <1>u, <1>w DEF Working, Active
<1>b. \A b \in Working' : worker'[b] = worker[b]
  BY <1>w, <1>s DEF Working
<1>1. Typed'
  BY <1>u, <1>w DEF Typed, RowStates
<1>2. RowsInv'
  <2>1. ~doubled => Working' = {}
    BY <1>u, <1>s DEF RowsInv
  <2> QED BY <1>u, <1>s, <1>b, <2>1 DEF RowsInv, SummaryIsReceipt
<1>3. EarnedInv'
  <2> SUFFICES ASSUME ProbedOnce PROVE EarnedInv'
    BY <1>u DEF EarnedInv, ProbedOnce
  <2>1. attempt = 2 => troubles >= 1
    BY DEF EarnedInv
  <2>2. troubles' >= attempt /\ (attempt = 2 => troubles' >= 1)
    BY <1>u, <2>1 DEF Typed
  <2> QED BY <1>u, <1>s, <1>b, <2>2 DEF EarnedInv
<1>4. StaysInv'
  BY <1>u, <1>s, <1>b DEF StaysInv, ProbedOnce, Measured
<1> QED BY <1>1, <1>2, <1>3, <1>4

\* Through probes, resumes that take live workers for lost, kills and full disks:
\* what each attempt has read and published, and what the row, the summary and
\* the evidence file owe to it (publish_qualification_receipt_job,
\* reconcile_processes, run_until_terminal).
THEOREM AgreeInvariant == ReceiptSpec => []AgreeInv
<1>1. ReceiptInit => AgreeInv
  <2> SUFFICES ASSUME ReceiptInit PROVE AgreeInv
    OBVIOUS
  <2>1. Working = {} /\ Active = {}
    BY DEF ReceiptInit, Working, Active, Nowhere
  <2>2. Typed
    <3>1. NoEvidence \in Evidences /\ NoEvidence.hardware = 0
      BY NoEvidenceIsTyped
    <3>2. worker \in [AttemptNumbers -> [at : WorkerSteps, hardware : Nat, evidence : Evidences]]
      BY <3>1 DEF ReceiptInit, Nowhere, WorkerSteps
    <3>3. driver \in [Drivers -> [at : DriverSteps, ready : BOOLEAN]]
      BY DEF ReceiptInit, DriverSteps
    <3>4. hardware \in [serial : Nat, feasible : BOOLEAN] /\ hardware.serial = 0
      BY DEF ReceiptInit
    <3>5. DOMAIN receipts = {}
      BY DEF ReceiptInit
    <3>6. troubles \in 0..MaxTroubles /\ hardware.serial <= troubles + 1 /\ summary \in 0..attempt
      BY <3>4, TroublesAssumption DEF ReceiptInit
    <3>7. /\ others \in BOOLEAN /\ ledger \in BOOLEAN
          /\ returned \in BOOLEAN /\ overlapped \in BOOLEAN /\ adopted \in BOOLEAN /\ doubled \in BOOLEAN
      BY DEF ReceiptInit
    <3>8. evidence \in Evidences /\ evidence.hardware <= hardware.serial
      BY <3>1, <3>4 DEF ReceiptInit
    <3>9. /\ rest \in {"due", "running", "done"} /\ attempt \in 0..2
          /\ row \in RowStates
      BY DEF ReceiptInit, RowStates
    <3> QED BY <3>2, <3>3, <3>4, <3>5, <3>6, <3>7, <3>8, <3>9 DEF Typed
  <2> QED BY <2>1, <2>2 DEF AgreeInv, RowsInv, EarnedInv, StaysInv, SummaryIsReceipt, ReceiptInit
<1>2. AgreeInv /\ [ReceiptNext]_receiptVars => AgreeInv'
  <2> SUFFICES ASSUME AgreeInv, [ReceiptNext]_receiptVars PROVE AgreeInv'
    OBVIOUS
  <2>1. ASSUME NEW d \in Drivers, DriverMoves(d) \/ LoseDriver(d) PROVE AgreeInv'
    BY <2>1, StartKeeps, ReconcileKeeps, ReadKeeps, EnqueueKeeps, EvidenceKeeps, TickKeeps,
       LoseDriverKeeps DEF DriverMoves
  <2>2. ASSUME NEW a \in AttemptNumbers, WorkerMoves(a) \/ LoseWorker(a) PROVE AgreeInv'
    BY <2>2, HardwareKeeps, LoadKeeps, PublishKeeps, SummaryKeeps, CompleteAgrees, LoseWorkerKeeps
    DEF WorkerMoves
  <2>3. CASE FinishRest
    BY <2>3 DEF FinishRest, histories, AgreeInv, Typed, RowsInv, EarnedInv, StaysInv,
       SummaryIsReceipt, ProbedOnce, Unattended, Measured, Working, Active
  <2>4. CASE UNCHANGED receiptVars
    BY <2>4 DEF receiptVars, AgreeInv, Typed, RowsInv, EarnedInv, StaysInv, SummaryIsReceipt,
       ProbedOnce, Unattended, Measured, Working, Active
  <2> QED BY <2>1, <2>2, <2>3, <2>4, ProbeKeeps DEF ReceiptNext
<1> QED BY <1>1, <1>2, PTL DEF ReceiptSpec

\* Once a run is complete its summary is a published receipt, and the one the
\* ledger names unless a first worker was taken for lost and went on; the
\* evidence file is the receipt's own unless hardware was probed again or drivers
\* came in between (publish_qualification_receipt_job, reconcile_processes).
THEOREM ReceiptsAgree == ReceiptSpec => []ReceiptInv
<1>1. AgreeInv => ReceiptInv
  <2> SUFFICES ASSUME AgreeInv PROVE ReceiptInv
    OBVIOUS
  <2>1. ReceiptTypeOK
    BY TroublesAssumption DEF AgreeInv, Typed, ReceiptTypeOK, Evidences, WorkerSteps, DriverSteps, RowStates
  <2>2. EvidenceStays
    BY DEF AgreeInv, StaysInv, ProbedOnce, EvidenceStays
  <2> QED BY <2>1, <2>2 DEF AgreeInv, RowsInv, ReceiptInv
<1> QED BY <1>1, AgreeInvariant, PTL

\* The receipt's task fails only after two troubles, a repeated probe or a second
\* driver: one worker lost, or one driver lost and its slow worker replaced, is
\* survived (run_scheduled_qualification, reconcile_processes).
THEOREM FailuresAreEarned == ReceiptSpec => []FailureIsEarned
<1>1. AgreeInv => FailureIsEarned
  BY DEF AgreeInv, Typed, EarnedInv, ProbedOnce, ReceiptFailed, FailureIsEarned
<1> QED BY <1>1, AgreeInvariant, PTL

-----------------------------------------------------------------------------
(* The artifact store *)

USE ContentAssumption, NoFileAssumption

LEMMA PublicationInitInv == PublicationInit => PublicationInv
<1> SUFFICES ASSUME PublicationInit PROVE PublicationInv
  OBVIOUS
<1>1. PublicationTypeOK
  BY DEF PublicationInit, PublicationTypeOK, MaybeCall, directory, CallSteps, Ends
<1>2. AtWork = {}
  BY DEF PublicationInit, AtWork
<1>3. SealedInOrder
  BY DEF PublicationInit, SealedInOrder, Sealed, directory
<1>4. ReadersEnd
  BY DEF PublicationInit, ReadersEnd
<1> QED
  BY <1>1, <1>2, <1>3, <1>4 DEF PublicationInv, OneAtWork, FoundInOrder

-----------------------------------------------------------------------------
(* What is preserved when one call, or nobody, moves. *)

\* A step that touches neither the files nor any call.
LEMMA NothingPublished ==
  ASSUME PublicationInv, UNCHANGED <<files, step, hashed>>, PublicationTypeOK', ReadersEnd',
         UNCHANGED disk \/ disk' = directory
  PROVE  PublicationInv'
<1> USE DEF PublicationInv, directory, files
<1>1. AtWork' = AtWork
  BY DEF AtWork
<1>2. SealedInOrder'
  BY DEF SealedInOrder, Sealed
<1> QED
  BY <1>1, <1>2 DEF OneAtWork, FoundInOrder

\* One step of a call, in the order of the code.
LEMMA CallTypeStep ==
  ASSUME PublicationInv, NEW c \in Calls,
         \/ LinkPayload(c) \/ LinkManifest(c) \/ HashManifest(c) \/ LinkMarker(c)
         \/ Return(c) \/ Raise(c) \/ Undo(c) \/ Kill(c)
  PROVE  PublicationTypeOK'
<1> USE DEF PublicationInv, PublicationTypeOK, MaybeCall, files, readerVars, Goto, CallSteps, Ends
<1>1. CASE LinkPayload(c)
  BY <1>1 DEF LinkPayload
<1>2. CASE LinkManifest(c)
  BY <1>2 DEF LinkManifest
<1>3. CASE HashManifest(c)
  BY <1>3 DEF HashManifest
<1>4. CASE LinkMarker(c)
  BY <1>4 DEF LinkMarker
<1>5. CASE Return(c) \/ Raise(c) \/ Kill(c)
  BY <1>5 DEF Return, Raise, Kill
<1>6. CASE Undo(c)
  BY <1>6 DEF Undo
<1> QED
  BY <1>1, <1>2, <1>3, <1>4, <1>5, <1>6

\* A call that is at work, or starts to be, is alone with its content.
LEMMA CallWorksAlone ==
  ASSUME PublicationInv, NEW c \in Calls,
         \/ LinkPayload(c) \/ LinkManifest(c) \/ HashManifest(c) \/ LinkMarker(c)
         \/ Return(c) \/ Raise(c) \/ Undo(c) \/ Kill(c)
  PROVE  /\ \A d \in Calls : d # c => step'[d] = step[d] /\ hashed'[d] = hashed[d]
         /\ \A k \in Contents : k # Content[c] =>
              payload'[k] = payload[k] /\ manifest'[k] = manifest[k] /\ marker'[k] = marker[k]
         /\ \A d \in AtWork : d # c /\ Content[d] = Content[c] =>
              c \notin AtWork' /\ UNCHANGED files
<1> USE DEF PublicationInv, PublicationTypeOK, MaybeCall, files, Goto, Ends, AtWork, OneAtWork
<1>1. CASE LinkPayload(c)
  BY <1>1 DEF LinkPayload
<1>2. CASE LinkManifest(c)
  BY <1>2 DEF LinkManifest
<1>3. CASE HashManifest(c)
  BY <1>3 DEF HashManifest
<1>4. CASE LinkMarker(c)
  BY <1>4 DEF LinkMarker
<1>5. CASE Return(c) \/ Kill(c)
  BY <1>5 DEF Return, Kill
<1>6. CASE Raise(c)
  <2>1. UNCHANGED files /\ UNCHANGED hashed /\ \A d \in Calls : d # c => step'[d] = step[d]
    BY <1>6 DEF Raise
  <2>2. c \in AtWork' => c \in AtWork
    BY <1>6 DEF Raise
  <2> QED
    BY <2>1, <2>2
<1>7. CASE Undo(c)
  BY <1>7 DEF Undo
<1> QED
  BY <1>1, <1>2, <1>3, <1>4, <1>5, <1>6, <1>7

\* The files of the content a call works on, after its step.
LEMMA CallKeepsOrder ==
  ASSUME PublicationInv, NEW c \in Calls,
         \/ LinkPayload(c) \/ LinkManifest(c) \/ HashManifest(c) \/ LinkMarker(c)
         \/ Return(c) \/ Raise(c) \/ Undo(c) \/ Kill(c)
  PROVE  /\ manifest'[Content[c]] # None => payload'[Content[c]]
         /\ marker'[Content[c]] # None => marker'[Content[c]] = manifest'[Content[c]]
         /\ c \in AtWork' =>
              /\ payload'[Content[c]]
              /\ step'[c] \in {"manifest", "undo payload"} => manifest'[Content[c]] = None
              /\ step'[c] \notin {"verify", "undo marker"} => marker'[Content[c]] = None
              /\ step'[c] = "marker" =>
                   hashed'[c] # None /\ hashed'[c] = manifest'[Content[c]]
<1> DEFINE k == Content[c]
<1>k. k \in Contents
  OBVIOUS
<1>p. /\ payload \in [Contents -> BOOLEAN] /\ DOMAIN manifest = Contents /\ DOMAIN marker = Contents
      /\ DOMAIN step = Calls /\ DOMAIN hashed = Calls
  BY DEF PublicationInv, PublicationTypeOK
<1>o. /\ manifest[k] # None => payload[k]
      /\ marker[k] # None => marker[k] = manifest[k]
  BY <1>k DEF PublicationInv, SealedInOrder, Sealed
<1>w. c \in AtWork =>
        /\ payload[k]
        /\ step[c] \in {"manifest", "undo payload"} => manifest[k] = None
        /\ step[c] \notin {"verify", "undo marker"} => marker[k] = None
        /\ step[c] = "marker" => hashed[c] # None /\ hashed[c] = manifest[k]
  BY DEF PublicationInv, OneAtWork, FoundInOrder
<1> HIDE DEF k
<1> SUFFICES /\ manifest'[k] # None => payload'[k]
             /\ marker'[k] # None => marker'[k] = manifest'[k]
             /\ c \in AtWork' =>
                  /\ payload'[k]
                  /\ step'[c] \in {"manifest", "undo payload"} => manifest'[k] = None
                  /\ step'[c] \notin {"verify", "undo marker"} => marker'[k] = None
                  /\ step'[c] = "marker" => hashed'[c] # None /\ hashed'[c] = manifest'[k]
  BY DEF k
<1> USE <1>k, <1>p, <1>o, <1>w DEF files, Goto, Ends, AtWork
<1>1. CASE LinkPayload(c)
  BY <1>1 DEF LinkPayload, k
<1>2. CASE LinkManifest(c)
  BY <1>2 DEF LinkManifest, k
<1>3. CASE HashManifest(c)
  BY <1>3 DEF HashManifest, k
<1>4. CASE LinkMarker(c)
  BY <1>4 DEF LinkMarker, k
<1>5. CASE Return(c) \/ Kill(c)
  BY <1>5 DEF Return, Kill
<1>6. CASE Raise(c)
  BY <1>6 DEF Raise
<1>7. CASE Undo(c)
  BY <1>7 DEF Undo, k
<1> QED
  BY <1>1, <1>2, <1>3, <1>4, <1>5, <1>6, <1>7

LEMMA CallStep ==
  ASSUME PublicationInv, NEW c \in Calls,
         \/ LinkPayload(c) \/ LinkManifest(c) \/ HashManifest(c) \/ LinkMarker(c)
         \/ Return(c) \/ Raise(c) \/ Undo(c) \/ Kill(c)
  PROVE  PublicationInv'
<1>1. PublicationTypeOK'
  BY CallTypeStep
<1>2. UNCHANGED disk
  BY DEF LinkPayload, LinkManifest, HashManifest, LinkMarker, Return, Raise, Undo, Kill
<1>a. /\ \A d \in Calls : d # c => step'[d] = step[d] /\ hashed'[d] = hashed[d]
      /\ \A k \in Contents : k # Content[c] =>
           payload'[k] = payload[k] /\ manifest'[k] = manifest[k] /\ marker'[k] = marker[k]
      /\ \A d \in AtWork : d # c /\ Content[d] = Content[c] =>
           c \notin AtWork' /\ UNCHANGED files
  BY CallWorksAlone
<1>k. /\ manifest'[Content[c]] # None => payload'[Content[c]]
      /\ marker'[Content[c]] # None => marker'[Content[c]] = manifest'[Content[c]]
      /\ c \in AtWork' =>
           /\ payload'[Content[c]]
           /\ step'[c] \in {"manifest", "undo payload"} => manifest'[Content[c]] = None
           /\ step'[c] \notin {"verify", "undo marker"} => marker'[Content[c]] = None
           /\ step'[c] = "marker" => hashed'[c] # None /\ hashed'[c] = manifest'[Content[c]]
  BY CallKeepsOrder
<1>m. \A d \in Calls : d # c => (d \in AtWork' <=> d \in AtWork)
  BY <1>a DEF AtWork
<1>3. SealedInOrder'
  BY <1>2, <1>a, <1>k DEF PublicationInv, SealedInOrder, Sealed
<1>4. \A d \in AtWork' : d # c => d \in AtWork /\ Content[d] \in Contents
  BY <1>m DEF AtWork
<1>5. OneAtWork'
  <2>1. ASSUME NEW d \in AtWork', NEW e \in AtWork', Content[d] = Content[e] PROVE d = e
    <3>1. CASE d # c /\ e # c
      BY <2>1, <3>1, <1>4 DEF PublicationInv, OneAtWork
    <3>2. CASE d = c \/ e = c
      BY <2>1, <3>2, <1>4, <1>a
    <3> QED
      BY <3>1, <3>2
  <2>2. ASSUME NEW d \in AtWork', d # c PROVE payload'[Content[d]]
    BY <2>2, <1>4, <1>a DEF PublicationInv, OneAtWork, files
  <2>3. \A d \in AtWork' : payload'[Content[d]]
    BY <2>2, <1>k
  <2> QED
    BY <2>1, <2>3 DEF OneAtWork
<1>6. FoundInOrder'
  <2> SUFFICES ASSUME NEW d \in AtWork'
               PROVE  /\ step'[d] \in {"manifest", "undo payload"} => manifest'[Content[d]] = None
                      /\ step'[d] \notin {"verify", "undo marker"} => marker'[Content[d]] = None
                      /\ step'[d] = "marker" =>
                           hashed'[d] # None /\ hashed'[d] = manifest'[Content[d]]
    BY Zenon DEF FoundInOrder
  <2>1. CASE d = c
    BY <2>1, <1>k
  <2>2. CASE d # c
    <3>1. /\ d \in AtWork /\ step'[d] = step[d] /\ hashed'[d] = hashed[d]
          /\ manifest'[Content[d]] = manifest[Content[d]] /\ marker'[Content[d]] = marker[Content[d]]
      BY <2>2, <1>4, <1>a DEF AtWork, files
    <3> QED
      BY <3>1 DEF PublicationInv, FoundInOrder
  <2> QED
    BY <2>1, <2>2
<1>7. ReadersEnd'
  BY DEF PublicationInv, ReadersEnd, readerVars, LinkPayload, LinkManifest, HashManifest, LinkMarker,
         Return, Raise, Undo, Kill
<1> QED
  BY <1>1, <1>3, <1>5, <1>6, <1>7 DEF PublicationInv

-----------------------------------------------------------------------------
(* The inductive invariant *)

\* Power loss leaves nobody at work and a directory that was sealed in order.
LEMMA PowerLossStep == PublicationInv /\ LosePower => PublicationInv'
<1> SUFFICES ASSUME PublicationInv, LosePower PROVE PublicationInv'
  OBVIOUS
<1>1. PublicationTypeOK'
  BY DEF PublicationInv, PublicationTypeOK, LosePower, CallSteps, Ends
<1>2. AtWork' = {}
  BY DEF LosePower, AtWork, Ends
<1>3. SealedInOrder'
  BY DEF PublicationInv, SealedInOrder, Sealed, LosePower
<1>4. ReadersEnd'
  BY DEF PublicationInv, PublicationTypeOK, ReadersEnd, LosePower
<1> QED
  BY <1>1, <1>2, <1>3, <1>4 DEF PublicationInv, OneAtWork, FoundInOrder

LEMMA PublicationNextInv == PublicationInv /\ [PublicationNext]_publicationVars => PublicationInv'
<1> SUFFICES ASSUME PublicationInv, [PublicationNext]_publicationVars PROVE PublicationInv'
  OBVIOUS
<1> USE DEF PublicationInv, PublicationTypeOK
<1>1. ASSUME NEW c \in Calls,
             \/ LinkPayload(c) \/ LinkManifest(c) \/ HashManifest(c) \/ LinkMarker(c)
             \/ Return(c) \/ Raise(c) \/ Undo(c) \/ Kill(c)
      PROVE  PublicationInv'
  BY <1>1, CallStep
<1>2. ASSUME NEW r \in Readers, ReadNext(r) PROVE PublicationInv'
  <2>1. Wanted[r] \in Contents
    OBVIOUS
  <2>2. position[r] \in 0..4
    BY <1>2 DEF ReadNext, ReadersEnd
  <2>3. PublicationTypeOK'
    BY <1>2, <2>1, <2>2 DEF ReadNext, MaybeCall, files
  <2>4. ReadersEnd'
    BY <1>2, <2>2 DEF ReadNext, ReadersEnd
  <2> QED
    BY <1>2, <2>3, <2>4, NothingPublished DEF ReadNext
<1>3. CASE WriteOut
  <2>1. PublicationTypeOK'
    BY <1>3 DEF WriteOut, directory, files, readerVars
  <2>2. ReadersEnd'
    BY <1>3 DEF WriteOut, readerVars, ReadersEnd
  <2> QED
    BY <1>3, <2>1, <2>2, NothingPublished DEF WriteOut
<1>4. CASE LosePower
  BY <1>4, PowerLossStep
<1>5. CASE UNCHANGED publicationVars
  <2>1. PublicationTypeOK'
    BY <1>5 DEF publicationVars, files, readerVars
  <2>2. ReadersEnd'
    BY <1>5 DEF publicationVars, readerVars, ReadersEnd
  <2> QED
    BY <1>5, <2>1, <2>2, NothingPublished DEF publicationVars
<1> QED
  BY <1>1, <1>2, <1>3, <1>4, <1>5 DEF PublicationNext

\* The payload file excludes other publications of its content, and a marker
\* never stands without the manifest it vouches for, in the directory as it is
\* and as power loss would leave it: _publish_payload, _publish_manifest,
\* _publish_completion_marker and the unlinks of their failures.
THEOREM PublicationInvariant == PublicationSpec => []PublicationInv
  BY PublicationInitInv, PublicationNextInv, PTL DEF PublicationSpec

\* A verification that read the files one by one accepts only an artifact that
\* is whole at that moment: _verified_payload reads the marker last.
THEOREM AcceptedIsWhole == PublicationSpec => AcceptsWhatVerifies
<1>1. PublicationInv /\ [PublicationNext]_publicationVars =>
        [\A r \in Readers : verdict[r] = "reading" /\ verdict'[r] = "accepted" =>
           Verifies(Wanted[r])]_publicationVars
  <2> SUFFICES ASSUME PublicationInv, PublicationNext, NEW r \in Readers,
                      verdict[r] = "reading", verdict'[r] = "accepted"
               PROVE  Verifies(Wanted[r])
    OBVIOUS
  <2>1. verdict \in [Readers -> {"reading", "accepted", "rejected"}] /\ Wanted[r] \in Contents
    BY DEF PublicationInv, PublicationTypeOK
  <2>2. ReadNext(r)
    <3>1. ~UNCHANGED readerVars /\ ~LosePower
      BY <2>1 DEF readerVars, LosePower
    <3>2. PICK s \in Readers : ReadNext(s)
      BY <3>1 DEF PublicationNext, LinkPayload, LinkManifest, HashManifest, LinkMarker, Return, Raise,
                  Undo, Kill, WriteOut
    <3>3. s = r
      BY <3>2, <2>1 DEF ReadNext
    <3> QED
      BY <3>2, <3>3
  <2>3. marker[Wanted[r]] # None
    <3>1. FileAt(4, Wanted[r]) = (marker[Wanted[r]] # None)
      BY DEF FileAt
    <3>2. position[r] = 4 /\ FileAt(position[r], Wanted[r])
      BY <2>1, <2>2 DEF ReadNext
    <3> QED
      BY <3>1, <3>2
  <2> QED
    BY <2>1, <2>3 DEF PublicationInv, SealedInOrder, Sealed, Verifies
<1> QED
  BY <1>1, PublicationInvariant, PTL DEF PublicationSpec, AcceptsWhatVerifies

-----------------------------------------------------------------------------
(* What a publisher was given, while power lasts *)

\* Nobody works on a content whose reference was returned.
ReturnedAlone ==
  \A c \in Calls : step[c] = "returned" =>
    /\ Verifies(Content[c])
    /\ \A d \in AtWork : Content[d] # Content[c]

ReturnedInv == PublicationInv /\ ReturnedAlone

LEMMA CallKeepsReturned ==
  ASSUME ReturnedInv, NEW c \in Calls,
         \/ LinkPayload(c) \/ LinkManifest(c) \/ HashManifest(c) \/ LinkMarker(c)
         \/ Return(c) \/ Raise(c) \/ Undo(c) \/ Kill(c)
  PROVE  ReturnedAlone'
<1>a. /\ \A d \in Calls : d # c => step'[d] = step[d] /\ hashed'[d] = hashed[d]
      /\ \A k \in Contents : k # Content[c] =>
           payload'[k] = payload[k] /\ manifest'[k] = manifest[k] /\ marker'[k] = marker[k]
      /\ \A d \in AtWork : d # c /\ Content[d] = Content[c] =>
           c \notin AtWork' /\ UNCHANGED files
  BY CallWorksAlone DEF ReturnedInv
<1>s. step \in [Calls -> CallSteps]
  BY DEF ReturnedInv, PublicationInv, PublicationTypeOK
<1> SUFFICES ASSUME NEW x \in Calls, step'[x] = "returned"
             PROVE  /\ Verifies(Content[x])'
                    /\ \A d \in AtWork' : Content[d] # Content[x]
  BY DEF ReturnedAlone
<1>1. CASE x = c
  <2>1. Return(c) /\ c \in AtWork
    BY <1>1, <1>s DEF LinkPayload, LinkManifest, HashManifest, LinkMarker, Return, Raise, Undo, Kill,
                      Goto, AtWork, Ends, CallSteps
  <2>2. Verifies(Content[x])'
    BY <1>1, <2>1 DEF Return, Verifies, files
  <2>3. ASSUME NEW d \in AtWork', Content[d] = Content[x] PROVE FALSE
    <3>1. d # c /\ d \in Calls
      BY <1>1 DEF AtWork, Ends
    <3>2. d \in AtWork
      BY <3>1, <1>a DEF AtWork
    <3> QED
      BY <1>1, <2>1, <2>3, <3>1, <3>2 DEF ReturnedInv, PublicationInv, OneAtWork
  <2> QED
    BY <2>2, <2>3
<1>2. CASE x # c
  <2>1. step[x] = "returned"
    BY <1>2, <1>a
  <2>2. Verifies(Content[x]) /\ \A d \in AtWork : Content[d] # Content[x]
    BY <2>1 DEF ReturnedInv, ReturnedAlone
  <2>3. CASE Content[c] # Content[x]
    <3>1. Verifies(Content[x])'
      BY <1>a, <2>2, <2>3 DEF Verifies
    <3>2. \A d \in AtWork' : d # c => d \in AtWork
      BY <1>a DEF AtWork
    <3> QED
      BY <2>2, <2>3, <3>1, <3>2
  <2>4. CASE Content[c] = Content[x]
    <3>1. c \notin AtWork /\ step[c] \in Ends \cup {"payload"}
      BY <2>2, <2>4 DEF AtWork
    <3>2. payload[Content[c]]
      BY <2>2, <2>4 DEF Verifies
    <3>3. UNCHANGED files /\ step'[c] \in Ends
      BY <3>1, <3>2, <1>s DEF LinkPayload, LinkManifest, HashManifest, LinkMarker, Return, Raise, Undo,
                              Kill, Goto, Ends, files
    <3>4. AtWork' \subseteq AtWork
      BY <3>3, <1>a DEF AtWork
    <3> QED
      BY <2>2, <3>3, <3>4 DEF Verifies, files
  <2> QED
    BY <2>3, <2>4
<1> QED
  BY <1>1, <1>2

LEMMA ReturnedNext ==
  ASSUME ~PowerFails
  PROVE  ReturnedInv /\ [PublicationNext]_publicationVars => ReturnedInv'
<1> SUFFICES ASSUME ReturnedInv, [PublicationNext]_publicationVars PROVE ReturnedInv'
  OBVIOUS
<1>1. PublicationInv'
  BY PublicationNextInv DEF ReturnedInv
<1>2. ReturnedAlone'
  <2>1. CASE UNCHANGED <<files, step>>
    <3>1. AtWork' = AtWork
      BY <2>1 DEF AtWork
    <3> QED
      BY <2>1, <3>1 DEF ReturnedInv, ReturnedAlone, Verifies, files
  <2>2. CASE \E c \in Calls :
               \/ LinkPayload(c) \/ LinkManifest(c) \/ HashManifest(c) \/ LinkMarker(c)
               \/ Return(c) \/ Raise(c) \/ Undo(c) \/ Kill(c)
    BY <2>2, CallKeepsReturned
  <2> QED
    BY <2>1, <2>2 DEF PublicationNext, publicationVars, ReadNext, WriteOut, LosePower
<1> QED
  BY <1>1, <1>2 DEF ReturnedInv

LEMMA ReturnedInvariant ==
  ASSUME ~PowerFails
  PROVE  PublicationSpec => []ReturnedInv
<1>1. PublicationInit => ReturnedInv
  BY PublicationInitInv DEF PublicationInit, ReturnedInv, ReturnedAlone
<1> QED
  BY <1>1, ReturnedNext, PTL DEF PublicationSpec

\* While power lasts, a reference publish_* returned keeps verifying whatever
\* other publications of its content try, undo or leave behind.
THEOREM ReturnedKeepsVerifying ==
  ASSUME ~PowerFails
  PROVE  PublicationSpec => []ReturnedVerifies
<1>1. ReturnedInv => ReturnedVerifies
  BY DEF ReturnedInv, ReturnedAlone, ReturnedVerifies
<1> QED
  BY <1>1, ReturnedInvariant, PTL

-----------------------------------------------------------------------------
(* Refinement *)

Visible == {k \in Contents : Verifies(k)}
Granted == {k \in Contents : \E c \in Calls : Content[c] = k /\ step[c] = "returned"}

\* Each step of a call is a step of PublishedArtifacts or leaves it alone.
LEMMA CallStepRefines ==
  ASSUME ReturnedInv, NEW c \in Calls,
         \/ LinkPayload(c) \/ LinkManifest(c) \/ HashManifest(c) \/ LinkMarker(c)
         \/ Return(c) \/ Raise(c) \/ Undo(c) \/ Kill(c)
  PROVE  [Published!PublishedNext]_<<Visible, Granted>>
<1> DEFINE k == Content[c]
<1>a. /\ \A d \in Calls : d # c => step'[d] = step[d]
      /\ \A j \in Contents : j # k => (Verifies(j)' <=> Verifies(j))
  BY CallWorksAlone DEF ReturnedInv, Verifies
<1>t. /\ k \in Contents /\ step \in [Calls -> CallSteps]
      /\ payload \in [Contents -> BOOLEAN] /\ DOMAIN manifest = Contents /\ DOMAIN marker = Contents
  BY DEF ReturnedInv, PublicationInv, PublicationTypeOK
<1>o. /\ manifest[k] # None => payload[k]
      /\ marker[k] # None => marker[k] = manifest[k]
  BY <1>t DEF ReturnedInv, PublicationInv, SealedInOrder, Sealed
<1>w. c \in AtWork =>
        /\ payload[k]
        /\ step[c] \in {"manifest", "undo payload"} => manifest[k] = None
        /\ step[c] \notin {"verify", "undo marker"} => marker[k] = None
        /\ step[c] = "marker" => hashed[c] # None /\ hashed[c] = manifest[k]
        /\ k \notin Granted
  BY DEF ReturnedInv, ReturnedAlone, PublicationInv, OneAtWork, FoundInOrder, Granted
<1>g. step'[c] # "returned" /\ step[c] # "returned" => Granted' = Granted
  BY <1>a DEF Granted
<1>v. (Verifies(k)' <=> Verifies(k)) => Visible' = Visible
  BY <1>a DEF Visible
<1> HIDE DEF k
<1> USE <1>t DEF Goto
<1>1. CASE LinkPayload(c)
  <2>1. Granted' = Granted
    BY <1>1, <1>g DEF LinkPayload
  <2>2. Verifies(k)' <=> Verifies(k)
    BY <1>1, <1>o DEF LinkPayload, Verifies, k
  <2> QED
    BY <2>1, <2>2, <1>v
<1>2. CASE LinkManifest(c)
  <2>1. Granted' = Granted
    BY <1>2, <1>g DEF LinkManifest
  <2>2. c \in AtWork /\ marker[k] = None
    BY <1>2, <1>w DEF LinkManifest, AtWork, Ends
  <2>3. Verifies(k)' <=> Verifies(k)
    BY <1>2, <2>2, NoFileAssumption DEF LinkManifest, Verifies, k
  <2> QED
    BY <2>1, <2>3, <1>v
<1>3. CASE LinkMarker(c)
  <2>1. Granted' = Granted
    BY <1>3, <1>g DEF LinkMarker
  <2>2. c \in AtWork /\ payload[k] /\ marker[k] = None /\ hashed[c] # None /\ hashed[c] = manifest[k]
    BY <1>3, <1>w DEF LinkMarker, AtWork, Ends
  <2>3. ~Verifies(k) /\ Verifies(k)'
    BY <1>3, <2>2 DEF LinkMarker, Verifies, k
  <2>4. Published!Appear(k)
    BY <2>1, <2>3, <1>a DEF Published!Appear, Visible, Granted
  <2> QED
    BY <2>4 DEF Published!PublishedNext
<1>4. CASE Return(c)
  <2>1. Visible' = Visible
    BY <1>4, <1>v DEF Return, Verifies, files
  <2>2. Granted' = Granted \cup {k}
    BY <1>4, <1>a DEF Return, Granted, k
  <2>3. k \in Visible
    BY <1>4 DEF Return, Visible, k
  <2>4. Published!Grant(k)
    BY <2>1, <2>2, <2>3 DEF Published!Grant, Visible, Granted
  <2> QED
    BY <2>4 DEF Published!PublishedNext
<1>5. CASE HashManifest(c) \/ Raise(c) \/ Kill(c)
  <2>1. Visible' = Visible
    BY <1>5, <1>v DEF HashManifest, Raise, Kill, Verifies, files
  <2>2. Granted' = Granted
    BY <1>5, <1>g DEF HashManifest, Raise, Kill, Ends
  <2> QED
    BY <2>1, <2>2
<1>6. CASE Undo(c)
  <2>1. Granted' = Granted /\ c \in AtWork
    BY <1>6, <1>g DEF Undo, AtWork, Ends
  <2>2. CASE step[c] = "undo marker"
    <3>1. ~Verifies(k)'
      BY <1>6, <2>2 DEF Undo, Verifies, k
    <3>2. CASE Verifies(k)
      <4>1. Published!Withdraw(k)
        BY <3>1, <3>2, <2>1, <1>w, <1>a DEF Published!Withdraw, Visible, Granted
      <4> QED
        BY <4>1 DEF Published!PublishedNext
    <3>3. CASE ~Verifies(k)
      BY <3>1, <3>3, <2>1, <1>v
    <3> QED
      BY <3>2, <3>3
  <2>3. CASE step[c] # "undo marker"
    <3>1. marker[k] = None /\ marker' = marker
      BY <1>6, <2>1, <2>3, <1>w DEF Undo
    <3>2. step[c] = "undo manifest" => manifest'[k] = None
      BY <1>6 DEF Undo, k
    <3>3. step[c] = "undo payload" => ~payload'[k]
      BY <1>6 DEF Undo, k
    <3>4. ~Verifies(k) /\ ~Verifies(k)'
      BY <1>6, <2>1, <2>3, <3>1, <3>2, <3>3, <1>w DEF Undo, Verifies
    <3> QED
      BY <2>1, <3>4, <1>v
  <2> QED
    BY <2>2, <2>3
<1> QED
  BY <1>1, <1>2, <1>3, <1>4, <1>5, <1>6

\* While power lasts, the three files of an artifact behave as one: it appears
\* and disappears in one step, and disappears only while nobody holds it.
THEOREM StoreImplementsPublished ==
  ASSUME ~PowerFails
  PROVE  PublicationSpec => ImplementsPublished
<1>1. PublicationInit => Published!PublishedInit
  BY DEF PublicationInit, Published!PublishedInit, Verifies
<1>2. ReturnedInv /\ [PublicationNext]_publicationVars =>
        [Published!PublishedNext]_<<Visible, Granted>>
  <2> SUFFICES ASSUME ReturnedInv, [PublicationNext]_publicationVars
               PROVE  [Published!PublishedNext]_<<Visible, Granted>>
    OBVIOUS
  <2>1. CASE UNCHANGED <<files, step>>
    BY <2>1 DEF Visible, Granted, Verifies, files
  <2>2. CASE \E c \in Calls :
               \/ LinkPayload(c) \/ LinkManifest(c) \/ HashManifest(c) \/ LinkMarker(c)
               \/ Return(c) \/ Raise(c) \/ Undo(c) \/ Kill(c)
    BY <2>2, CallStepRefines
  <2> QED
    BY <2>1, <2>2 DEF PublicationNext, publicationVars, ReadNext, WriteOut, LosePower
<1>3. ReturnedInv /\ [PublicationNext]_publicationVars =>
        [Published!PublishedNext]_Published!publishedVars
  BY <1>2 DEF Published!publishedVars, Visible, Granted
<1> QED
  BY <1>1, <1>3, ReturnedInvariant, PTL
  DEF PublicationSpec, ImplementsPublished, Published!PublishedSpec
=============================================================================
