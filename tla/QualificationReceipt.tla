------------------------- MODULE QualificationReceipt -------------------------
(***************************************************************************)
(* The last task of a Stage 1B run.  Preflight writes hardware and other   *)
(* receipts (scripts/run_stage1b_runtime.py); a driver checks them, runs   *)
(* the graph and, when only the receipt is left, writes the execution      *)
(* evidence (stage1b/runtime_evidence.py); a worker reads both files       *)
(* again, publishes the receipt and copies it to the summary               *)
(* (publish_qualification_receipt_job in stage1b/jobs.py).                 *)
(*                                                                         *)
(* A driver that starts reconciles the ledger: a worker that reported no   *)
(* progress for ten seconds is taken for lost, and the receipt's worker    *)
(* never reports any.  Its attempt is then repeated beside it, while it    *)
(* goes on to the files.                                                   *)
(*                                                                         *)
(* The tasks before the receipt are one, "rest".  A driver's capacity is   *)
(* what it measured at its start: memory and disk free at that moment.     *)
(* It is told apart by driver: a start counts as another when it is        *)
(* another shell's.                                                        *)
(***************************************************************************)
EXTENDS Integers, FiniteSets

CONSTANTS
  Drivers,    \* shells that launch and resume
  MaxTroubles \* bound on kills, disk errors, repeated probes, drivers started beside another

ASSUME TroublesAssumption == MaxTroubles \in Nat

VARIABLES
  hardware,   \* hardware_probe_v2.json: [serial, feasible], serial 0 while absent
  others,     \* the other three receipts are there
  ledger,     \* execution.sqlite3 exists
  rest,       \* tasks before the receipt: "due", "running" or "done"
  row,        \* state of the receipt's latest attempt, "NONE" before it is enqueued,
              \* "LOST" when it is STALLED or its error is transient
  attempt,    \* its number
  evidence,   \* qualification_execution_evidence_v2.json: [hardware, capacity]
  worker,     \* worker[a] of attempt a: [at, hardware, evidence]
  receipts,   \* receipts[a]: evidence in the artifact attempt a published
  summary,    \* attempt whose receipt the summary file holds, 0 while there is none
  driver,     \* driver[d]: [at, ready]
  returned,   \* a command has returned the receipt
  overlapped, \* history: two drivers at once
  adopted,    \* history: a driver started while a worker ran
  doubled,    \* history: a worker was taken for lost and went on
  troubles
receiptVars == <<hardware, others, ledger, rest, row, attempt, evidence, worker, receipts, summary,
                 driver, returned, overlapped, adopted, doubled, troubles>>
filesAndLedger == <<hardware, others, ledger, rest, row, attempt, evidence, worker, receipts, summary>>
histories == <<overlapped, adopted, doubled, troubles>>

AttemptNumbers == 1..2
NoEvidence == [hardware |-> 0, capacity |-> {}]
Nowhere == [at |-> "none", hardware |-> 0, evidence |-> NoEvidence]
Active == {d \in Drivers : driver[d].at # "off"}
Working == {a \in AttemptNumbers : worker[a].at \notin {"none", "gone"}}
DriverGoes(d, step) ==
  driver' = [driver EXCEPT ![d] = [at |-> step, ready |-> driver[d].ready /\ step # "off"]]
WorkerGoes(a, step) == worker' = [worker EXCEPT ![a] = [Nowhere EXCEPT !.at = step]]

ReceiptTypeOK ==
  /\ hardware.serial \in 0..(MaxTroubles + 1) /\ others \in BOOLEAN /\ ledger \in BOOLEAN
  /\ rest \in {"due", "running", "done"} /\ attempt \in 0..2
  /\ row \in {"NONE", "READY", "RUNNING", "LOST", "COMPLETED", "FAILED"}
  /\ evidence.hardware \in 0..hardware.serial /\ DOMAIN receipts \subseteq AttemptNumbers
  /\ summary \in 0..attempt
  /\ \A d \in Drivers : driver[d].at \in {"off", "starting", "reading", "asking", "proving", "ticking"}
  /\ \A a \in AttemptNumbers :
       worker[a].at \in {"none", "gone", "begun", "measured", "proved", "published", "summarised"}

ReceiptInit ==
  /\ hardware = [serial |-> 0, feasible |-> FALSE] /\ others = FALSE
  /\ ledger = FALSE /\ rest = "due" /\ row = "NONE" /\ attempt = 0
  /\ evidence = NoEvidence /\ worker = [a \in AttemptNumbers |-> Nowhere]
  /\ receipts = [a \in {} |-> NoEvidence] /\ summary = 0
  /\ driver = [d \in Drivers |-> [at |-> "off", ready |-> FALSE]]
  /\ returned = FALSE /\ overlapped = FALSE /\ adopted = FALSE
  /\ doubled = FALSE /\ troubles = 0
Trouble == troubles < MaxTroubles /\ troubles' = troubles + 1
-----------------------------------------------------------------------------
(* run_preflight *)

\* The probe trains for real and ends in a receipt, feasible or not.
ProbeHardware ==
  /\ IF hardware.serial = 0 THEN UNCHANGED troubles ELSE Trouble
  /\ \E ok \in BOOLEAN : hardware' = [serial |-> hardware.serial + 1, feasible |-> ok]
  /\ UNCHANGED <<others, ledger, rest, row, attempt, evidence, worker, receipts, summary, driver,
                 returned, overlapped, adopted, doubled>>
\* Environment, precision and sources follow, one file each.
WriteOthers ==
  /\ hardware.serial > 0 /\ ~others /\ others' = TRUE
  /\ UNCHANGED <<hardware, ledger, rest, row, attempt, evidence, worker, receipts, summary, driver,
                 returned, histories>>

\* _required_receipts and _load_hardware_receipt
RequiredReceipts == others /\ hardware.feasible
-----------------------------------------------------------------------------
(* The driver *)

\* launch without a database, resume with one: this is all that tells them apart.
StartDriverOf(d) ==
  /\ driver[d].at = "off" /\ RequiredReceipts /\ ~returned
  /\ driver' = [driver EXCEPT ![d] = [at |-> "starting", ready |-> FALSE]]
  /\ ledger' = TRUE
  /\ overlapped' = (overlapped \/ Active # {})
  /\ IF Active # {} THEN Trouble ELSE UNCHANGED troubles
  /\ adopted' = (adopted \/ Working # {})
  /\ UNCHANGED <<hardware, others, rest, row, attempt, evidence, worker, receipts, summary, returned,
                 doubled>>

\* reconcile_processes: a running row is stalled when its worker is gone, and
\* also when it is merely slow.
Stalls(stalled) == IF stalled THEN "LOST" ELSE row
ReconcileReceipt(d) ==
  /\ driver[d].at = "starting" /\ DriverGoes(d, "reading")
  /\ \E slow \in BOOLEAN :
       /\ row' = Stalls(row = "RUNNING" /\ (slow \/ attempt \notin Working))
       /\ doubled' = (doubled \/ (row = "RUNNING" /\ slow /\ attempt \in Working))
  /\ UNCHANGED <<hardware, others, ledger, rest, attempt, evidence, worker, receipts, summary, returned,
                 overlapped, adopted, troubles>>

\* Mutant: a driver returns what it has seen coming only.
ReturnsOwn(d) == row = "COMPLETED" /\ driver[d].ready
Returns(d) == row = "COMPLETED"
\* completed_artifacts, for the first time in the round.
ReadCompleted(d) ==
  /\ driver[d].at = "reading"
  /\ IF Returns(d) THEN returned' = TRUE /\ DriverGoes(d, "off")
     ELSE /\ UNCHANGED returned
          /\ driver' = [driver EXCEPT ![d] = [at |-> "asking", ready |-> rest = "done"]]
  /\ UNCHANGED <<filesAndLedger, histories>>

\* latest_failed_attempts has nothing left to repeat.
ReceiptFailed == row = "FAILED" \/ (row = "LOST" /\ attempt = 2)

\* Mutant: evidence is written in the round that enqueues the receipt only.
ProvesOnce == row = "NONE"
\* In every round in which the receipt is the one ready task.
Proves == TRUE

\* _enqueue_ready_tasks reads again.  Nothing ready is an error: the receipt was
\* completed between the two readings.
EnqueueReady(d) ==
  /\ driver[d].at = "asking"
  /\ IF row = "COMPLETED" THEN DriverGoes(d, "off") /\ UNCHANGED <<row, attempt>>
     ELSE IF rest # "done" THEN DriverGoes(d, "ticking") /\ UNCHANGED <<row, attempt>>
     ELSE /\ DriverGoes(d, IF Proves THEN "proving" ELSE "ticking")
          /\ IF row = "NONE" THEN row' = "READY" /\ attempt' = 1 ELSE UNCHANGED <<row, attempt>>
  /\ UNCHANGED <<hardware, others, ledger, rest, evidence, worker, receipts, summary, returned, histories>>

Measured(d) == [hardware |-> hardware.serial, capacity |-> {d}]

\* _qualification_execution_evidence; the tasks completed at the first reading
\* have to be all but the receipt, and the hardware feasible, or the driver stops.
WriteEvidence(d) ==
  /\ driver[d].at = "proving"
  /\ IF driver[d].ready /\ hardware.feasible
       THEN evidence' = Measured(d) /\ DriverGoes(d, "ticking")
       ELSE UNCHANGED evidence /\ DriverGoes(d, "off")
  /\ UNCHANGED <<hardware, others, ledger, rest, row, attempt, worker, receipts, summary, returned, histories>>

\* run_until_terminal: what is READY is claimed and launched, a first attempt
\* that was lost is repeated at once, and a failed run ends the driver.
TickScheduler(d) ==
  /\ driver[d].at = "ticking"
  /\ rest' = IF rest = "due" THEN "running" ELSE rest
  /\ \/ /\ row = "READY" /\ row' = "RUNNING" /\ DriverGoes(d, "reading")
        /\ worker' = [worker EXCEPT ![attempt] = [Nowhere EXCEPT !.at = "begun"]]
        /\ UNCHANGED attempt
     \/ /\ row = "LOST" /\ attempt = 1 /\ row' = "READY" /\ attempt' = 2
        /\ UNCHANGED <<worker, driver>>
     \/ ReceiptFailed /\ DriverGoes(d, "off") /\ UNCHANGED <<row, attempt, worker>>
     \/ /\ row \in {"NONE", "RUNNING", "COMPLETED"} /\ DriverGoes(d, "reading")
        /\ UNCHANGED <<row, attempt, worker>>
  /\ UNCHANGED <<hardware, others, ledger, evidence, receipts, summary, returned, histories>>

FinishRest ==
  /\ rest = "running" /\ rest' = "done"
  /\ UNCHANGED <<hardware, others, ledger, row, attempt, evidence, worker, receipts, summary, driver,
                 returned, histories>>
-----------------------------------------------------------------------------
(* The receipt's worker *)

UnchangedByJob == UNCHANGED <<hardware, others, ledger, rest, attempt, evidence, driver, returned, histories>>

\* Mutant: whoever reports last has the row.
LastWord(a, state) == state
\* complete_attempt and fail_attempt: a row is closed by its own worker while it
\* is RUNNING; to a worker that was replaced the ledger says no, and that is all.
Closed(a, state) == IF a = attempt /\ row = "RUNNING" THEN state ELSE row

\* A RuntimeError of the job is not retried.
JobFails(a) ==
  /\ WorkerGoes(a, "gone")
  /\ row' = Closed(a, "FAILED") /\ UNCHANGED <<receipts, summary>>

LoadHardware(a) ==
  /\ worker[a].at = "begun" /\ UnchangedByJob
  /\ \/ /\ hardware.feasible
        /\ worker' = [worker EXCEPT ![a] = [worker[a] EXCEPT !.at = "measured", !.hardware = hardware.serial]]
        /\ UNCHANGED <<row, receipts, summary>>
     \/ ~hardware.feasible /\ JobFails(a)

\* The evidence has to be there and to name the hardware receipt just read.
LoadEvidence(a) ==
  /\ worker[a].at = "measured" /\ UnchangedByJob
  /\ \/ /\ evidence.hardware = worker[a].hardware
        /\ worker' = [worker EXCEPT ![a] = [worker[a] EXCEPT !.at = "proved", !.evidence = evidence]]
        /\ UNCHANGED <<row, receipts, summary>>
     \/ evidence.hardware # worker[a].hardware /\ JobFails(a)

\* Each receipt has its creation time, and so an artifact of its own.
PublishReceipt(a) ==
  /\ worker[a].at = "proved" /\ WorkerGoes(a, "published")
  /\ receipts' = [b \in DOMAIN receipts \cup {a} |-> IF b = a THEN worker[a].evidence ELSE receipts[b]]
  /\ UNCHANGED <<row, summary>> /\ UnchangedByJob

\* replace_json_file: whatever was there before.
NewSummary(a) == a
WriteSummary(a) ==
  /\ worker[a].at = "published" /\ WorkerGoes(a, "summarised")
  /\ summary' = NewSummary(a)
  /\ UNCHANGED <<row, receipts>> /\ UnchangedByJob

CompleteReceipt(a) ==
  /\ worker[a].at = "summarised" /\ WorkerGoes(a, "gone")
  /\ row' = Closed(a, "COMPLETED") /\ UNCHANGED <<receipts, summary>> /\ UnchangedByJob
-----------------------------------------------------------------------------
\* The worker dies, or the disk fails it and it says so.
LoseWorker(a) ==
  /\ a \in Working /\ Trouble /\ WorkerGoes(a, "gone")
  /\ \E reported \in BOOLEAN : row' = IF reported THEN Closed(a, "LOST") ELSE row
  /\ UNCHANGED <<hardware, others, ledger, rest, attempt, evidence, receipts, summary, driver,
                 returned, overlapped, adopted, doubled>>
\* Its workers go on.
LoseDriver(d) ==
  /\ d \in Active /\ Trouble /\ DriverGoes(d, "off")
  /\ UNCHANGED <<filesAndLedger, returned, overlapped, adopted, doubled>>

DriverMoves(d) ==
  StartDriverOf(d) \/ ReconcileReceipt(d) \/ ReadCompleted(d) \/ EnqueueReady(d) \/ WriteEvidence(d)
  \/ TickScheduler(d)
WorkerMoves(a) ==
  LoadHardware(a) \/ LoadEvidence(a) \/ PublishReceipt(a) \/ WriteSummary(a) \/ CompleteReceipt(a)
ReceiptNext ==
  \/ ProbeHardware \/ WriteOthers \/ FinishRest
  \/ \E d \in Drivers : DriverMoves(d) \/ LoseDriver(d)
  \/ \E a \in AttemptNumbers : WorkerMoves(a) \/ LoseWorker(a)
ReceiptSpec == ReceiptInit /\ [][ReceiptNext]_receiptVars
-----------------------------------------------------------------------------
(* Properties *)

\* The summary is a copy of the receipt the ledger completed with, whichever
\* attempt wrote a summary before and wherever its worker was lost - unless a
\* first worker was taken for lost and went on: then it may have the last word,
\* with a receipt the ledger does not name.
SummaryIsReceipt ==
  row = "COMPLETED" =>
    /\ {attempt, summary} \subseteq DOMAIN receipts
    /\ summary # attempt => doubled /\ attempt = 2

\* One mishap - a dead worker, a full disk, or a driver that dies and whose
\* slow worker is replaced by the next one - never costs the run its receipt;
\* a hardware probe repeated under the run, or two drivers at once, may.
FailureIsEarned ==
  ReceiptFailed => troubles >= 2 \/ hardware.serial > 1 \/ overlapped

\* The evidence file a receipt's hashes point to is still the evidence that is
\* in the receipt, unless hardware was probed again or a driver came to a
\* receipt task that was already running and wrote its own plan over it.
EvidenceStays ==
  row = "COMPLETED" /\ hardware.serial = 1 /\ ~overlapped /\ ~adopted => receipts[attempt] = evidence

\* The receipt, its summary and the evidence file it was made from agree once
\* the run is complete.  (_run_qualification_receipt)
ReceiptInv == ReceiptTypeOK /\ SummaryIsReceipt /\ EvidenceStays

\* A completed receipt is returned by a driver, the one that ran into "no ready
\* work" or a later one.
ReceiptReturned == (row = "COMPLETED") ~> (returned \/ ~RequiredReceipts)
=============================================================================
