---------------------------- MODULE DeviceRecovery ----------------------------
(***************************************************************************)
(* The one-off repair of a Stage 2 run whose six neural tasks failed on a  *)
(* device mismatch (stage2/recovery.py, stage2/recovery_archive.py):       *)
(* restore-input puts a known database back, repair adds six attempts to   *)
(* it and then writes its authorization, and resume runs the attempts, in  *)
(* recovery mode when it finds the authorization.  Restore-input, repair   *)
(* and resume are commands of several steps, each of which can be killed.  *)
(*                                                                         *)
(* The database is what its file holds and what a write-ahead log left     *)
(* beside it adds; the archive's snapshot decides whether there is one.    *)
(***************************************************************************)
EXTENDS Integers, FiniteSets

CONSTANTS Shells,   \* shells that run the commands
          MaxKills  \* bound

ASSUME RecoveryAssumption == MaxKills \in Nat

\* What a ledger holds: nothing, the archived rows, the archived rows and an
\* empty recovery_events or a driver's samples, the six new attempts.
Levels == {"absent", "source", "touched", "repaired"}

VARIABLES
  apart,      \* the shells' commands never overlap
  logged,     \* the database is in write-ahead mode
  main,       \* level of execution.sqlite3 itself, which is what a digest sees
  log,        \* level its log adds, "absent" while there is no log
  attempts,   \* the six second attempts: "none", "READY" or "ended"
  checkpoints,\* the six COMPLETE checkpoints are there and have their hashes
  restored,   \* recovery_input_receipt.json exists
  authorized, \* device_mismatch_recovery_receipt.json exists
  shell,      \* shell[s]: the step its command is at
  trained,    \* history: an optimizer step was taken for one of the six tasks
  kills, repairsKilled

recoveryVars == <<apart, logged, main, log, attempts, checkpoints, restored, authorized, shell,
                  trained, kills, repairsKilled>>

Steps == {"idle", "overwriting", "binding", "checked", "created", "inserted", "closed",
          "ordinary", "recovering"}

RecoveryTypeOK ==
  /\ apart \in BOOLEAN /\ logged \in BOOLEAN
  /\ main \in Levels /\ log \in Levels \ {"source"}
  /\ attempts \in {"none", "READY", "ended"}
  /\ checkpoints \in BOOLEAN /\ restored \in BOOLEAN /\ authorized \in BOOLEAN
  /\ shell \in [Shells -> Steps]
  /\ trained \in BOOLEAN /\ kills \in 0..MaxKills /\ repairsKilled \in BOOLEAN

RecoveryInit ==
  /\ apart \in BOOLEAN /\ logged \in BOOLEAN
  /\ main = "absent" /\ log = "absent" /\ attempts = "none" /\ checkpoints = FALSE
  /\ restored = FALSE /\ authorized = FALSE
  /\ shell = [s \in Shells |-> "idle"]
  /\ trained = FALSE /\ kills = 0 /\ repairsKilled = FALSE

Starts(s) == shell[s] = "idle" /\ (apart => \A r \in Shells : shell[r] = "idle")
Goto(s, step) == shell' = [shell EXCEPT ![s] = step]

\* What a connection reads, and what one that commits or closes leaves.
Ledger == IF log = "absent" THEN main ELSE log
Commit(level) == IF logged THEN log' = level /\ UNCHANGED main ELSE main' = level /\ UNCHANGED log
Close == main' = Ledger /\ log' = "absent"

-----------------------------------------------------------------------------
(* restore-input *)

\* The archive has its hash; nothing is overwritten once a repair is authorized.
\* Artifacts come first, checkpoints and receipts among them.
BeginRestore(s) ==
  /\ Starts(s) /\ ~authorized
  /\ checkpoints' = TRUE
  /\ Goto(s, "overwriting")
  /\ UNCHANGED <<apart, logged, main, log, attempts, restored, authorized, trained, kills, repairsKilled>>

\* The snapshot replaces the database file; a log beside it stays.
OverwriteDatabase(s) ==
  /\ shell[s] = "overwriting"
  /\ main' = "source"
  /\ attempts' = IF log = "repaired" THEN attempts ELSE "none"
  /\ Goto(s, "binding")
  /\ UNCHANGED <<apart, logged, log, checkpoints, restored, authorized, trained, kills, repairsKilled>>

\* The receipt is written when the checkpoints have their hashes.
BindInput(s) ==
  /\ shell[s] = "binding"
  /\ restored' = (restored \/ checkpoints)
  /\ Goto(s, "idle")
  /\ UNCHANGED <<apart, logged, main, log, attempts, checkpoints, authorized, trained, kills, repairsKilled>>

-----------------------------------------------------------------------------
(* repair *)

\* Without an authorization the input receipt, the database file's digest and
\* the checkpoints have to be the specification's.  With one, repair returns
\* it while the six attempts are READY and is refused later: no step.
Acceptable == ~authorized /\ restored /\ main = "source" /\ checkpoints

BeginRepair(s) ==
  /\ Starts(s) /\ Acceptable
  /\ Goto(s, "checked")
  /\ UNCHANGED <<apart, logged, main, log, attempts, checkpoints, restored, authorized, trained, kills,
                 repairsKilled>>

\* CREATE TABLE recovery_events commits on its own.
CreateEvents(s) ==
  /\ shell[s] = "checked"
  /\ IF Ledger = "source" THEN Commit("touched") ELSE UNCHANGED <<main, log>>
  /\ Goto(s, "created")
  /\ UNCHANGED <<apart, logged, attempts, checkpoints, restored, authorized, trained, kills, repairsKilled>>

\* The transaction looks at the run and the attempt counts again and adds the
\* six attempts and their events; otherwise it is rolled back and closed.
InsertAttempts(s) ==
  /\ shell[s] = "created"
  /\ \/ /\ Ledger = "touched"
        /\ Commit("repaired") /\ attempts' = "READY"
        /\ Goto(s, "inserted")
     \/ /\ Ledger # "touched"
        /\ Close /\ UNCHANGED attempts
        /\ Goto(s, "idle")
  /\ UNCHANGED <<apart, logged, checkpoints, restored, authorized, trained, kills, repairsKilled>>

CloseLedger(s) ==
  /\ shell[s] = "inserted"
  /\ Close
  /\ Goto(s, "closed")
  /\ UNCHANGED <<apart, logged, attempts, checkpoints, restored, authorized, trained, kills, repairsKilled>>

Authorize(s) ==
  /\ shell[s] = "closed"
  /\ authorized' = TRUE
  /\ Goto(s, "idle")
  /\ UNCHANGED <<apart, logged, main, log, attempts, checkpoints, restored, trained, kills, repairsKilled>>

-----------------------------------------------------------------------------
(* resume *)

\* Mutant: resume keeps the environment of the launch.
OrdinaryMode == "ordinary"

\* _resume_environment looks for the authorization and nowhere else.
ResumeMode == IF authorized THEN "recovering" ELSE "ordinary"

\* Opening the ledger, the driver commits its samples and alerts.
BeginResumed(s) ==
  /\ Starts(s) /\ main # "absent"
  /\ Commit(IF Ledger = "repaired" THEN "repaired" ELSE "touched")
  /\ Goto(s, ResumeMode)
  /\ UNCHANGED <<apart, logged, attempts, checkpoints, restored, authorized, trained, kills,
                 repairsKilled>>

\* The driver runs the six attempts if the ledger has them.  In recovery mode
\* a task without its COMPLETE checkpoint fails; otherwise it is trained.
RunAttempts(s) ==
  /\ shell[s] \in {"ordinary", "recovering"} /\ Ledger = "repaired" /\ attempts = "READY"
  /\ attempts' = "ended"
  /\ trained' = (trained \/ (shell[s] = "ordinary" /\ ~checkpoints))
  /\ UNCHANGED <<apart, logged, main, log, checkpoints, restored, authorized, shell, kills, repairsKilled>>

EndResumed(s) ==
  /\ shell[s] \in {"ordinary", "recovering"}
  /\ Close
  /\ Goto(s, "idle")
  /\ UNCHANGED <<apart, logged, attempts, checkpoints, restored, authorized, trained, kills, repairsKilled>>

-----------------------------------------------------------------------------
(* Faults *)

Killed(s) ==
  /\ shell[s] # "idle" /\ kills < MaxKills
  /\ kills' = kills + 1
  /\ repairsKilled' = (repairsKilled \/ shell[s] \in {"checked", "created", "inserted", "closed"})
  /\ Goto(s, "idle")
  /\ UNCHANGED <<apart, logged, main, log, attempts, checkpoints, restored, authorized, trained>>

LoseCheckpoint ==
  /\ checkpoints
  /\ checkpoints' = FALSE
  /\ UNCHANGED <<apart, logged, main, log, attempts, restored, authorized, shell, trained, kills,
                 repairsKilled>>

RecoveryNext ==
  \/ LoseCheckpoint
  \/ \E s \in Shells :
       \/ BeginRestore(s) \/ OverwriteDatabase(s) \/ BindInput(s)
       \/ BeginRepair(s) \/ CreateEvents(s) \/ InsertAttempts(s) \/ CloseLedger(s) \/ Authorize(s)
       \/ BeginResumed(s) \/ RunAttempts(s) \/ EndResumed(s) \/ Killed(s)

RecoverySpec == RecoveryInit /\ [][RecoveryNext]_recoveryVars

-----------------------------------------------------------------------------
(* Properties *)

\* An authorization stands for attempts that are in the database file, and
\* nothing takes them away again: not a repeated restore-input, not a driver
\* that closes late, not the log an earlier kill left.
AuthorizationMeansAttempts ==
  apart /\ authorized => main = "repaired" /\ Ledger = "repaired" /\ attempts # "none"

\* The six tasks are finished from their COMPLETE checkpoints with no
\* optimizer step, also when a checkpoint is lost after the repair, as long
\* as commands do not overlap and no repair was killed: a repair killed
\* between its commit and its receipt leaves attempts an ordinary resume runs.
NoStepOfTraining == apart /\ ~repairsKilled => ~trained

\* A repair neither loses its attempts nor trains anything.  (apply_recovery,
\* restore_recovery_input, resume_stage2)
RecoveryInv == RecoveryTypeOK /\ AuthorizationMeansAttempts /\ NoStepOfTraining
=============================================================================
