----------------------------- MODULE StageLaunch -----------------------------
(***************************************************************************)
(* The operator's commands of Stage 2, E01 v2 and E02: prepare, preflight, *)
(* launch and resume (stage2/runtime.py, e01/v2_runtime.py,                *)
(* e02/runtime.py), down to the run the execution database ends up with.   *)
(*                                                                         *)
(* Commands talk through files: the prepared and preflight receipts, E02's *)
(* server evidence and grant, the launch receipt and the database.  What a *)
(* graph's identity depends on is [inputs, grant]: a version of the        *)
(* configuration and the frozen inputs, and for E02 the grant file.        *)
(***************************************************************************)
EXTENDS Integers, FiniteSets

CONSTANTS
  Stages,     \* the stages of this instance
  Operators,  \* shells that run commands
  Absent,
  MaxEdits, MaxProbes, MaxCrashes   \* bounds

ASSUME StagesAssumption == Stages \subseteq {"stage2", "e01", "e02"}
ASSUME LimitsAssumption ==
  IsFiniteSet(Operators) /\ MaxEdits \in Nat /\ MaxProbes \in Nat /\ MaxCrashes \in Nat

Versions == 1..(MaxEdits + 1)
\* Every launch follows a crash but the first of each operator.
Grants == 0..(MaxCrashes + Cardinality(Operators))
Graphs == [inputs : Versions, grant : Grants]
Evidence == [inputs : Versions, serial : 1..MaxProbes]
Checks == [prepared : Versions, inputs : Versions, serial : 0..MaxProbes]
ASSUME AbsentAssumption == Absent \notin Versions \cup Graphs \cup Evidence \cup Checks

VARIABLES
  stage,      \* the stage of this behaviour
  inTurn,     \* commands of two operators never overlap, and nothing is edited meanwhile
  inputs,     \* version of the configuration and frozen inputs on disk
  probe,      \* bootstrap evidence: [inputs, serial], or Absent
  late,       \* the evidence's ETA no longer fits before the reset
  prepared,   \* version the prepared receipt names, or Absent
  preflight,  \* preflight receipt: [prepared, inputs, serial], or Absent
  passed,     \* history: versions a preflight has passed
  grant,      \* E02's grant file, numbered; 0 while there is none
  launch,     \* graph of the launch receipt, or Absent
  database,   \* execution.sqlite3 exists
  runs,       \* graphs the database holds runs of
  finished,   \* graphs whose run completed
  command,    \* command[o]: [at, graph] of the launch or resume o is in
  crashes

launchVars == <<stage, inTurn, inputs, probe, late, prepared, preflight, passed, grant, launch,
                database, runs, finished, command, crashes>>

Idle == [at |-> "idle", graph |-> Absent]
AtSteps == {"idle", "granting", "compiling", "opening", "creating", "running"}

LaunchTypeOK ==
  /\ stage \in Stages /\ inTurn \in BOOLEAN /\ inputs \in Versions
  /\ probe \in Evidence \cup {Absent}
  /\ late \in BOOLEAN /\ prepared \in Versions \cup {Absent}
  /\ preflight \in Checks \cup {Absent}
  /\ passed \subseteq Versions /\ grant \in Grants
  /\ launch \in Graphs \cup {Absent} /\ database \in BOOLEAN
  /\ runs \subseteq Graphs /\ finished \subseteq runs
  /\ command \in [Operators -> [at : AtSteps, graph : Graphs \cup {Absent}]]
  /\ crashes \in 0..MaxCrashes

LaunchInit ==
  /\ stage \in Stages /\ inTurn \in BOOLEAN
  /\ inputs = 1 /\ probe = Absent /\ late = FALSE
  /\ prepared = Absent /\ preflight = Absent /\ passed = {}
  /\ grant = 0 /\ launch = Absent /\ database = FALSE /\ runs = {} /\ finished = {}
  /\ command = [o \in Operators |-> Idle] /\ crashes = 0

Quiet == \A o \in Operators : command[o].at = "idle"
MayAct(o) == inTurn => \A p \in Operators \ {o} : command[p].at = "idle"

-----------------------------------------------------------------------------
(* The world around the commands *)

\* Somebody edits the configuration or a frozen input.
Edit ==
  /\ inputs + 1 \in Versions /\ (inTurn => Quiet)
  /\ inputs' = inputs + 1
  /\ UNCHANGED <<stage, inTurn, probe, late, prepared, preflight, passed, grant, launch, database,
                 runs, finished, command, crashes>>

\* The server probe replaces the bootstrap evidence, with the rental's current reset time.
Probe ==
  /\ stage = "e02" /\ (inTurn => Quiet)
  /\ LET serial == IF probe = Absent THEN 1 ELSE probe.serial + 1
     IN serial <= MaxProbes /\ probe' = [inputs |-> inputs, serial |-> serial]
  /\ late' = FALSE
  /\ UNCHANGED <<stage, inTurn, inputs, prepared, preflight, passed, grant, launch, database, runs,
                 finished, command, crashes>>

HoursPass ==
  /\ stage = "e02" /\ probe # Absent /\ ~late
  /\ late' = TRUE
  /\ UNCHANGED <<stage, inTurn, inputs, probe, prepared, preflight, passed, grant, launch, database,
                 runs, finished, command, crashes>>

-----------------------------------------------------------------------------
(* Prepare and preflight: one receipt each, written atomically *)

\* A prepared receipt is never replaced: with other inputs the command is refused.
Prepare ==
  /\ prepared = Absent /\ (inTurn => Quiet)
  /\ prepared' = inputs
  /\ UNCHANGED <<stage, inTurn, inputs, probe, late, preflight, passed, grant, launch, database, runs,
                 finished, command, crashes>>

\* E02's server evidence is of the inputs on disk and still ends before the reset.
ServerEvidence == probe # Absent /\ probe.inputs = inputs /\ ~late

\* E01's _verify_prepared recomputes what the receipt names; Stage 2 and E02 only read it.
VerifyPrepared == prepared # Absent /\ (stage = "e01" => prepared = inputs)

Preflight ==
  /\ VerifyPrepared /\ (inTurn => Quiet)
  /\ stage = "e02" => ServerEvidence
  /\ preflight' = [prepared |-> prepared, inputs |-> inputs,
                   serial |-> IF stage = "e02" THEN probe.serial ELSE 0]
  /\ passed' = passed \cup {inputs}
  /\ UNCHANGED <<stage, inTurn, inputs, probe, late, prepared, grant, launch, database, runs, finished,
                 command, crashes>>

-----------------------------------------------------------------------------
(* Launch and resume *)

\* Graph the compilers name: of the inputs and, for E02, of the grant file.
Compiled == [inputs |-> inputs, grant |-> IF stage = "e02" THEN grant ELSE 0]

\* Mutant: launch_e02 and resume_e02 only compare the evidence's hash.
HashedEvidence == preflight # Absent /\ probe # Absent /\ preflight.serial = probe.serial

\* The evidence file is the one the preflight receipt hashed, and it still holds.
EvidenceBinds == preflight # Absent /\ probe # Absent /\ preflight.serial = probe.serial /\ ServerEvidence

\* What each launch command reads before it writes anything.  The evidence
\* carries the hash of the frozen suite the preflight receipt names as well.
MayLaunch ==
  /\ VerifyPrepared /\ preflight # Absent /\ preflight.prepared = prepared
  /\ ~database
  /\ stage = "e02" => EvidenceBinds

\* E01 hands its verified configuration to run_formal, which compares the
\* graph with the preflight's before it opens the database.
BeginLaunch(o) ==
  /\ command[o].at = "idle" /\ MayAct(o) /\ MayLaunch
  /\ stage = "e01" => preflight.inputs = inputs
  /\ command' = [command EXCEPT ![o] =
       CASE stage = "e01" -> [at |-> "opening", graph |-> Compiled]
         [] stage = "e02" -> [at |-> "granting", graph |-> Absent]
         [] OTHER -> [at |-> "compiling", graph |-> Absent]]
  /\ UNCHANGED <<stage, inTurn, inputs, probe, late, prepared, preflight, passed, grant, launch,
                 database, runs, finished, crashes>>

\* E02 writes its authorization and a grant of its own.
IssueGrant(o) ==
  /\ command[o].at = "granting" /\ grant + 1 \in Grants
  /\ grant' = grant + 1
  /\ command' = [command EXCEPT ![o] = [at |-> "compiling", graph |-> Absent]]
  /\ UNCHANGED <<stage, inTurn, inputs, probe, late, prepared, preflight, passed, launch, database,
                 runs, finished, crashes>>

\* The graph is compiled from what is on disk now, and the launch receipt names it.
WriteLaunch(o) ==
  /\ command[o].at = "compiling"
  /\ launch' = Compiled
  /\ command' = [command EXCEPT ![o] = [at |-> "opening", graph |-> Compiled]]
  /\ UNCHANGED <<stage, inTurn, inputs, probe, late, prepared, preflight, passed, grant, database, runs,
                 finished, crashes>>

\* Mutant: resume_e02 does not compare the graph with the launch receipt.
ResumeAnyGraph ==
  /\ database
  /\ stage \in {"stage2", "e02"} => launch # Absent
  /\ stage = "e02" => EvidenceBinds
  /\ stage = "e01" => VerifyPrepared /\ preflight # Absent
                      /\ preflight.prepared = prepared /\ preflight.inputs = inputs

\* Stage 2 compiles and never compares; E02 compares with its launch receipt,
\* E01 with its preflight receipt.
MayResume ==
  /\ database
  /\ stage \in {"stage2", "e02"} => launch # Absent
  /\ stage = "e02" => EvidenceBinds /\ Compiled = launch
  /\ stage = "e01" => VerifyPrepared /\ preflight # Absent
                      /\ preflight.prepared = prepared /\ preflight.inputs = inputs

BeginResume(o) ==
  /\ command[o].at = "idle" /\ MayAct(o) /\ MayResume
  /\ command' = [command EXCEPT ![o] = [at |-> "opening", graph |-> Compiled]]
  /\ UNCHANGED <<stage, inTurn, inputs, probe, late, prepared, preflight, passed, grant, launch,
                 database, runs, finished, crashes>>

\* ExecutionStateStore creates the file and its schema ...
OpenStore(o) ==
  /\ command[o].at = "opening"
  /\ database' = TRUE
  /\ command' = [command EXCEPT ![o] = [at |-> "creating", graph |-> command[o].graph]]
  /\ UNCHANGED <<stage, inTurn, inputs, probe, late, prepared, preflight, passed, grant, launch, runs,
                 finished, crashes>>

\* ... create_run and register_run_plan add the run unless the file has it.
CreateRun(o) ==
  /\ command[o].at = "creating"
  /\ runs' = runs \cup {command[o].graph}
  /\ command' = [command EXCEPT ![o] = [at |-> "running", graph |-> command[o].graph]]
  /\ UNCHANGED <<stage, inTurn, inputs, probe, late, prepared, preflight, passed, grant, launch,
                 database, finished, crashes>>

\* The driver returns, with the run completed or not.
DriverReturns(o) ==
  /\ command[o].at = "running"
  /\ finished' \in {finished, finished \cup {command[o].graph}}
  /\ command' = [command EXCEPT ![o] = Idle]
  /\ UNCHANGED <<stage, inTurn, inputs, probe, late, prepared, preflight, passed, grant, launch,
                 database, runs, crashes>>

\* The shell, the host or the power is gone in the middle of a command.
Crash(o) ==
  /\ command[o].at # "idle" /\ crashes < MaxCrashes
  /\ crashes' = crashes + 1
  /\ command' = [command EXCEPT ![o] = Idle]
  /\ UNCHANGED <<stage, inTurn, inputs, probe, late, prepared, preflight, passed, grant, launch,
                 database, runs, finished>>

LaunchNext ==
  \/ Edit \/ Probe \/ HoursPass \/ Prepare \/ Preflight
  \/ \E o \in Operators :
       \/ BeginLaunch(o) \/ IssueGrant(o) \/ WriteLaunch(o) \/ BeginResume(o)
       \/ OpenStore(o) \/ CreateRun(o) \/ DriverReturns(o) \/ Crash(o)

LaunchSpec == LaunchInit /\ [][LaunchNext]_launchVars

-----------------------------------------------------------------------------
(* Properties *)

\* E01 compares the graph it resumes with the preflight and E02 with the
\* launch receipt; Stage 2 compares with nothing.
Guarded == stage = "e01" \/ (stage = "e02" /\ inTurn) \/ (stage = "stage2" /\ inputs = 1)

\* However launches, resumes, edits, repeated preflights and crashes follow
\* each other, a database never holds the runs of two graphs: E01 always, E02
\* while its commands do not overlap, Stage 2 while its inputs are not edited.
OneRunPerLedger == Guarded => Cardinality(runs) <= 1

\* What E01 and E02 run is what a preflight has passed: an edit after the
\* preflight stops launch and resume.
RunsWhatWasChecked ==
  stage = "e01" \/ (stage = "e02" /\ inTurn) => \A g \in runs : g.inputs \in passed

\* A crash never strands the database of a stage whose inputs stay as they
\* are: with commands in turn, the graph a resume compiles is the one the
\* launch receipt names and the only one the database holds.  For E02 this
\* means that no grant is issued once there is a database, because nothing
\* could resume a run opened under another grant.
CrashLeavesOneGraph ==
  inTurn /\ Quiet /\ database /\ inputs = 1 =>
    /\ runs \subseteq {Compiled}
    /\ stage # "e01" => launch = Compiled

\* One database, one graph: the one that can be resumed.  (launch and resume of
\* the three stages)
LaunchInv == LaunchTypeOK /\ OneRunPerLedger /\ CrashLeavesOneGraph
=============================================================================
