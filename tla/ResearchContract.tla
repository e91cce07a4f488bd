-------------------------- MODULE ResearchContract --------------------------
(***************************************************************************)
(* Stage 0: the research contract is frozen, decided about, completed and  *)
(* verified (stage0/checks.py, contract.py and artifact_store.py, run by   *)
(* scripts/check_stage0.py).  Each command runs through files of one       *)
(* directory; an authorized overwrite first moves them, one by one, into   *)
(* an archive of their own.  A file stands for its content, and equal      *)
(* contents have equal hashes.  One command runs at a time; documents may  *)
(* be edited while it runs, and it may stop between any two file           *)
(* operations, killed or by an exception.                                  *)
(***************************************************************************)
EXTENDS Integers, Sequences

CONSTANTS
  NoFile,
  MaxDocEdits, MaxStops,   \* bounds on edits and on commands that stop half-way
  MaxFreezes               \* bound on freezes, more than the edits and stops call for

\* The gate is decided about claims and matrix; the lock is part of the environment.
Documents == {"claims", "matrix", "lock"}
Names == {"environment", "related", "manifest", "index", "decision", "overwrite", "completion"}
Rebuilt == {"environment", "related", "index"}   \* written anew by every freeze
Nothing == [f \in Names |-> NoFile]

\* What each file may hold.
Environments == [capture : 1..MaxFreezes, lock : 1..2]
RelatedWork == [matrix : 1..2]
Manifests == [claims : 1..2, environment : Environments, related : RelatedWork]
Decisions == [claims : 1..2, related : RelatedWork, passed : BOOLEAN]
OverwriteReceipts == [previous : Manifests, replacement : Manifests, archive : Nat]
Completions == [manifest : Manifests, decision : Decisions, index : Manifests]
Directories ==
  [environment : Environments \cup {NoFile}, related : RelatedWork \cup {NoFile},
   manifest : Manifests \cup {NoFile}, index : Manifests \cup {NoFile},
   decision : Decisions \cup {NoFile}, overwrite : OverwriteReceipts \cup {NoFile},
   completion : Completions \cup {NoFile}]
Records == Manifests \cup OverwriteReceipts \cup Completions

ASSUME NoFileIsNoContent == NoFile \notin Records \cup Environments \cup RelatedWork \cup Decisions
ASSUME ContractLimits == MaxFreezes \in Nat /\ MaxDocEdits \in Nat /\ MaxStops \in Nat

VARIABLES
  docs,      \* docs[d]: the text of a document, 1 or 2
  file,      \* file[f]: what artifacts/stage0/f holds, or NoFile
  history,   \* the archives, oldest first
  op,        \* the command that runs
  captures,  \* environment profiles captured: no two are equal
  issued,    \* history: manifests, receipts and completions ever published
  docEdits, stops

contractVars == <<docs, file, history, op, captures, issued, docEdits, stops>>

OpSteps == {"idle", "archive", "bind", "environment", "related", "manifest", "index", "carry",
            "receipt", "publish"}
NoCommand == [at |-> "idle", claims |-> 0, archive |-> 0, previous |-> NoFile, decision |-> NoFile]

ContractTypeOK ==
  /\ docs \in [Documents -> 1..2]
  /\ file \in Directories /\ history \in Seq(Directories) /\ issued \subseteq Records
  /\ op.at \in OpSteps /\ op.claims \in 0..2 /\ op.archive \in 0..Len(history)
  /\ captures \in 0..MaxFreezes /\ docEdits \in 0..MaxDocEdits /\ stops \in 0..MaxStops

ContractInit ==
  /\ docs = [d \in Documents |-> 1]
  /\ file = Nothing /\ history = <<>> /\ op = NoCommand
  /\ captures = 0 /\ issued = {} /\ docEdits = 0 /\ stops = 0

-----------------------------------------------------------------------------
(* What the commands check *)

\* verify_research_contract: every reference of the manifest and of its two
\* bundles still has the hash it was given.
ContractHolds ==
  /\ file.manifest # NoFile
  /\ file.manifest.claims = docs.claims
  /\ file.environment = file.manifest.environment /\ file.environment.lock = docs.lock
  /\ file.related = file.manifest.related /\ file.related.matrix = docs.matrix

\* _verify_gate0_decision: its evidence is the claims and the bundle of today.
DecisionHolds(d) == d # NoFile /\ d.passed /\ d.claims = docs.claims /\ d.related = file.related

\* _verify_authorized_overwrite_receipt: no receipt, or one that binds both manifests.
OverwriteHolds ==
  file.overwrite # NoFile =>
    /\ file.overwrite.replacement = file.manifest
    /\ history[file.overwrite.archive].manifest = file.overwrite.previous

\* _verify_stage0_core; the index lists the manifest's references and theirs.
CoreHolds ==
  /\ ContractHolds /\ OverwriteHolds
  /\ DecisionHolds(file.decision)
  /\ file.index = file.manifest

\* verify_stage0.
Verified ==
  /\ CoreHolds
  /\ file.completion = [manifest |-> file.manifest, decision |-> file.decision, index |-> file.index]

-----------------------------------------------------------------------------
(* freeze_stage0 *)

At(step) == op.at = step
OpGoes(step) == op' = [op EXCEPT !.at = step]
Write(f, content) == file' = [file EXCEPT ![f] = content]
Issue(content) == issued' = issued \cup {content}

\* A freeze is called for: there is no contract, or one that neither a decision
\* nor a completion can make verify.
Blocked ==
  \/ ~(ContractHolds /\ OverwriteHolds /\ file.index = file.manifest)
  \/ file.completion # NoFile /\ ~Verified

\* Over a frozen contract only with the user's authorization: the previous
\* manifest and decision are remembered and an archive is made for them.
BeginFreeze ==
  /\ At("idle") /\ Blocked /\ captures < MaxFreezes
  /\ IF file.manifest # NoFile
       THEN /\ history' = Append(history, Nothing)
            /\ op' = [at |-> "archive", claims |-> 0, archive |-> Len(history) + 1,
                      previous |-> file.manifest, decision |-> file.decision]
       ELSE OpGoes("bind") /\ UNCHANGED history
  /\ UNCHANGED <<docs, file, captures, issued, docEdits, stops>>

\* Mutant: only the manifest is moved out of the way.
ManifestOnly == {"manifest"}

\* Every file of the directory goes to the archive.
ToArchive == Names

\* The files move one by one, in whatever order the directory lists them.
\* Nothing else reads the directory meanwhile, so that a half-moved one shows
\* only where the command stops; of what every freeze writes anew, all or none
\* is then moved.
MoveFiles(moved) ==
  /\ history' = [history EXCEPT ![op.archive] = [f \in Names |-> IF f \in moved THEN file[f] ELSE NoFile]]
  /\ file' = [f \in Names |-> IF f \in moved THEN NoFile ELSE file[f]]
  /\ UNCHANGED <<docs, captures, issued, docEdits>>

ArchiveFiles == At("archive") /\ MoveFiles(ToArchive) /\ OpGoes("bind") /\ UNCHANGED stops

StopArchiving ==
  /\ At("archive") /\ stops < MaxStops /\ stops' = stops + 1
  /\ \E records \in SUBSET (ToArchive \ Rebuilt), rebuilt \in {{}, ToArchive \cap Rebuilt} :
       MoveFiles(records \cup rebuilt)
  /\ op' = NoCommand

\* freeze_research_contract refuses to run over a manifest, then hashes the claims ...
BindClaims ==
  /\ At("bind") /\ file.manifest = NoFile
  /\ op' = [op EXCEPT !.at = "environment", !.claims = docs.claims]
  /\ UNCHANGED <<docs, file, history, captures, issued, docEdits, stops>>

\* ... captures the environment (its profile and bundle overwrite what is there) ...
WriteEnvironment ==
  /\ At("environment") /\ captures' = captures + 1
  /\ Write("environment", [capture |-> captures + 1, lock |-> docs.lock])
  /\ OpGoes("related")
  /\ UNCHANGED <<docs, history, issued, docEdits, stops>>

\* ... and the related work (so does its bundle) ...
WriteRelated ==
  /\ At("related")
  /\ Write("related", [matrix |-> docs.matrix])
  /\ OpGoes("manifest")
  /\ UNCHANGED <<docs, history, captures, issued, docEdits, stops>>

\* ... and publishes the manifest that binds them, never over another.
WriteManifest ==
  /\ At("manifest") /\ file.manifest = NoFile
  /\ LET manifest == [claims |-> op.claims, environment |-> file.environment,
                      related |-> file.related]
     IN Write("manifest", manifest) /\ Issue(manifest)
  /\ OpGoes("index")
  /\ UNCHANGED <<docs, history, captures, docEdits, stops>>

\* Mutant: a contract whose decision is not carried over gets no receipt.
ReceiptIfDecided == IF op.decision # NoFile THEN "carry" ELSE "idle"

AfterIndex == IF op.decision # NoFile THEN "carry" ELSE IF op.archive # 0 THEN "receipt" ELSE "idle"

WriteIndex ==
  /\ At("index")
  /\ Write("index", file.manifest)
  /\ OpGoes(AfterIndex)
  /\ UNCHANGED <<docs, history, captures, issued, docEdits, stops>>

\* The previous decision is published again if it holds of the new contract.
CarryDecision ==
  /\ At("carry") /\ file.decision = NoFile
  /\ IF DecisionHolds(op.decision) THEN Write("decision", op.decision) ELSE UNCHANGED file
  /\ OpGoes("receipt")
  /\ UNCHANGED <<docs, history, captures, issued, docEdits, stops>>

WriteReceipt ==
  /\ At("receipt") /\ file.overwrite = NoFile
  /\ LET receipt == [previous |-> op.previous, replacement |-> file.manifest, archive |-> op.archive]
     IN Write("overwrite", receipt) /\ Issue(receipt)
  /\ op' = NoCommand
  /\ UNCHANGED <<docs, history, captures, docEdits, stops>>

-----------------------------------------------------------------------------
(* complete_stage0, and the people around the commands *)

BeginComplete ==
  /\ At("idle") /\ CoreHolds /\ file.completion = NoFile
  /\ OpGoes("publish")
  /\ UNCHANGED <<docs, file, history, captures, issued, docEdits, stops>>

\* The completion refers to the files as they are by then.
PublishCompletion ==
  /\ At("publish")
  /\ LET completion == [manifest |-> file.manifest, decision |-> file.decision, index |-> file.index]
     IN Write("completion", completion) /\ Issue(completion)
  /\ op' = NoCommand
  /\ UNCHANGED <<docs, history, captures, docEdits, stops>>

\* The human decision, written by hand between commands where none holds.
Decide(passed) ==
  /\ At("idle") /\ file.related # NoFile
  /\ IF passed THEN ~DecisionHolds(file.decision) ELSE file.decision = NoFile
  /\ Write("decision", [claims |-> docs.claims, related |-> file.related, passed |-> passed])
  /\ UNCHANGED <<docs, history, op, captures, issued, docEdits, stops>>

\* A document is edited, or an edit taken back.
EditDocument(d) ==
  /\ docEdits < MaxDocEdits /\ docEdits' = docEdits + 1
  /\ docs' = [docs EXCEPT ![d] = 3 - docs[d]]
  /\ UNCHANGED <<file, history, op, captures, issued, stops>>

Stop ==
  /\ op.at \notin {"idle", "archive"} /\ stops < MaxStops /\ stops' = stops + 1
  /\ op' = NoCommand
  /\ UNCHANGED <<docs, file, history, captures, issued, docEdits>>

ContractStep ==
  \/ BeginFreeze \/ ArchiveFiles \/ BindClaims
  \/ WriteEnvironment \/ WriteRelated \/ WriteManifest \/ WriteIndex
  \/ CarryDecision \/ WriteReceipt \/ BeginComplete \/ PublishCompletion

\* What an operator does who follows the messages of the script.
ContractWork == ContractStep \/ Decide(TRUE)

ContractNext == ContractWork \/ Decide(FALSE) \/ (\E d \in Documents : EditDocument(d))
                             \/ Stop \/ StopArchiving

ContractSpec == ContractInit /\ [][ContractNext]_contractVars
-----------------------------------------------------------------------------
\* Whatever stops or is edited, a manifest, an overwrite receipt or a completion
\* that was published once is in place or in an archive.  (freeze_stage0)
NoRecordLost ==
  \A record \in issued :
    \/ \E f \in Names : file[f] = record
    \/ \E k \in 1..Len(history), f \in Names : history[k][f] = record

\* Where no command stops half-way, a contract that verifies between commands
\* has its whole past: its receipt leads to the last archive, and each archived
\* contract's to the one before.  (freeze_stage0, _verify_authorized_overwrite_receipt)
Leads(receipt, manifest, k) ==
  receipt = [previous |-> history[k].manifest, replacement |-> manifest, archive |-> k]

AuditTrail ==
  stops = 0 /\ At("idle") /\ Verified /\ history # <<>> =>
    /\ Leads(file.overwrite, file.manifest, Len(history))
    /\ \A k \in 2..Len(history) : Leads(history[k].overwrite, history[k].manifest, k - 1)

\* A contract is never left half-replaced without this being seen: what verifies
\* was certified as it is, by a completion that read this manifest and decision.
CertifiedAsItIs == Verified => file.completion \in issued /\ file.manifest \in issued

ContractInv == ContractTypeOK /\ NoRecordLost /\ AuditTrail /\ CertifiedAsItIs

\* An operator who keeps following the script's messages ends with a contract
\* that verifies, wherever commands stopped and whatever was edited on the way.
ContractSettles == <>[]Verified
=============================================================================
