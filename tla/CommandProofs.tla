----------------------------- MODULE CommandProofs -----------------------------
(***************************************************************************)
(* What operators do with their commands and see of them, for any number:  *)
(*   - launch and resume, with any edits, probes and crashes;              *)
(*   - the repair of a Stage 2 run, with any kills and lost checkpoints;   *)
(*   - the restore of Stage 2's files on a server, with any kills and      *)
(*     foreign writes;                                                     *)
(*   - the dashboard, with any drops, refusals and late answers;           *)
(*   - the gate of E01, with any edits of the world and lost deciders.     *)
(***************************************************************************)
EXTENDS StageLaunch, DeviceRecovery, ServerHandoff, RuntimeMonitor, MechanismGate, FiniteSetTheorems, TLAPS

-----------------------------------------------------------------------------
(* Launch and resume.  What a database can hold is decided before it exists: *)
(* by the one prepared receipt in E01, by the one busy command and its       *)
(* launch receipt in E02, by the inputs in Stage 2.                          *)

Opened(o) == command[o].at \in {"opening", "creating", "running"}
Compiling(o) == command[o].at \in {"granting", "compiling"}

\* A graph of inputs that have been on disk; only E02 compiles a grant in.
Known(g) == g \in Graphs /\ g.inputs <= inputs /\ (stage # "e02" => g.grant = 0)

\* What holds of the graphs of all three stages.
GraphsInv ==
  /\ \A g \in runs : Known(g)
  /\ launch # Absent => Known(launch)
  /\ \A o \in Operators : Opened(o) => Known(command[o].graph)
  /\ \A o \in Operators : command[o].at \in {"creating", "running"} => database
  /\ \A o \in Operators : command[o].at = "running" => command[o].graph \in runs
  /\ runs # {} => database
  /\ stage # "e01" /\ (database \/ \E o \in Operators : Opened(o)) => launch # Absent

\* E01: the prepared receipt, once written, decides what can be run.
PreparedInv == stage = "e01" =>
  /\ preflight # Absent => prepared # Absent /\ preflight.inputs = prepared /\ prepared \in passed
  /\ \A o \in Operators : ~Compiling(o)
  /\ \A o \in Operators : Opened(o) => preflight # Absent /\ command[o].graph.inputs = prepared
  /\ \A g \in runs : preflight # Absent /\ g.inputs = prepared

\* E02, with commands in turn: the launch receipt decides.
ReceiptDecides == stage = "e02" /\ inTurn =>
  /\ \A o, p \in Operators : command[o].at # "idle" /\ command[p].at # "idle" => o = p
  /\ preflight # Absent => /\ preflight.inputs \in passed
                           /\ probe # Absent
                           /\ preflight.serial <= probe.serial
                           /\ preflight.serial = probe.serial => preflight.inputs = probe.inputs
  /\ \A o \in Operators : Compiling(o) => ~database /\ inputs \in passed
  /\ \A o \in Operators : Opened(o) => command[o].graph = launch
  /\ launch # Absent => launch.inputs \in passed
  /\ database \/ (\E o \in Operators : Opened(o)) => launch.grant = grant
  /\ runs \subseteq {launch}

CommandsInv == LaunchTypeOK /\ GraphsInv /\ PreparedInv /\ ReceiptDecides

LEMMA GrantsAreNumbers == Grants \subseteq Nat /\ 0 \in Grants /\ 1 \in Versions
<1>1. Cardinality(Operators) \in Nat
  BY FS_CardinalityType, LimitsAssumption
<1> QED BY <1>1, LimitsAssumption DEF Grants, Versions

LEMMA CommandsInit == LaunchInit => CommandsInv
<1> SUFFICES ASSUME LaunchInit PROVE CommandsInv
  OBVIOUS
<1>1. LaunchTypeOK
  <2>1. command \in [Operators -> [at : AtSteps, graph : Graphs \cup {Absent}]]
    BY DEF LaunchInit, Idle, AtSteps
  <2>2. inputs \in Versions /\ grant \in Grants /\ crashes \in 0..MaxCrashes
    BY GrantsAreNumbers, LimitsAssumption DEF LaunchInit
  <2> QED BY <2>1, <2>2 DEF LaunchInit, LaunchTypeOK
<1>2. \A o \in Operators : ~Opened(o) /\ ~Compiling(o) /\ command[o].at = "idle"
  BY DEF LaunchInit, Opened, Compiling, Idle
<1> QED BY <1>1, <1>2 DEF LaunchInit, CommandsInv, GraphsInv, PreparedInv, ReceiptDecides

\* The world around the commands and their two receipts: no command moves.
LEMMA WorldKeeps ==
  ASSUME CommandsInv, Edit \/ Probe \/ HoursPass \/ Prepare \/ Preflight
  PROVE  CommandsInv'
<1> USE GrantsAreNumbers, LimitsAssumption
<1>1. UNCHANGED <<stage, inTurn, grant, launch, database, runs, finished, command, crashes>>
  BY DEF Edit, Probe, HoursPass, Prepare, Preflight
<1>2. inputs \in Nat /\ inputs' \in Nat /\ inputs <= inputs'
  BY DEF Edit, Probe, HoursPass, Prepare, Preflight, CommandsInv, LaunchTypeOK, Versions
<1>3. LaunchTypeOK'
  <2>1. inputs' \in Versions /\ late' \in BOOLEAN
    BY DEF Edit, Probe, HoursPass, Prepare, Preflight, CommandsInv, LaunchTypeOK
  <2>2. probe' \in Evidence \cup {Absent}
    BY DEF Edit, Probe, HoursPass, Prepare, Preflight, CommandsInv, LaunchTypeOK, Evidence, Versions
  <2>3. prepared' \in Versions \cup {Absent}
    BY DEF Edit, Probe, HoursPass, Prepare, Preflight, CommandsInv, LaunchTypeOK
  <2>4. preflight' \in Checks \cup {Absent} /\ passed' \subseteq Versions
    BY DEF Edit, Probe, HoursPass, Prepare, Preflight, VerifyPrepared, ServerEvidence, CommandsInv,
           LaunchTypeOK, Evidence, Checks
  <2> QED BY <1>1, <2>1, <2>2, <2>3, <2>4 DEF CommandsInv, LaunchTypeOK
<1>4. \A g : Known(g) => Known(g)'
  BY <1>1, <1>2 DEF Known, Graphs, Versions
<1>5. GraphsInv'
  BY <1>1, <1>4 DEF CommandsInv, GraphsInv, Opened
<1>6. PreparedInv'
  <2> SUFFICES ASSUME stage = "e01" PROVE PreparedInv'
    BY <1>1 DEF PreparedInv
  <2>1. prepared # Absent => prepared' = prepared
    BY DEF Edit, Probe, HoursPass, Prepare, Preflight
  <2>2. CASE Preflight
    <3>1. /\ prepared # Absent /\ prepared = inputs /\ prepared' = prepared
          /\ preflight'.inputs = inputs /\ passed' = passed \cup {inputs}
      BY <2>2 DEF Preflight, VerifyPrepared
    <3>2. preflight' # Absent
      BY <1>3, <2>2, AbsentAssumption, GrantsAreNumbers
      DEF Preflight, VerifyPrepared, CommandsInv, LaunchTypeOK, Checks
    <3> QED BY <1>1, <3>1, <3>2 DEF CommandsInv, PreparedInv, Opened, Compiling
  <2>3. CASE ~Preflight
    BY <1>1, <2>1, <2>3
    DEF Edit, Probe, HoursPass, Prepare, CommandsInv, PreparedInv, Opened, Compiling
  <2> QED BY <2>2, <2>3
<1>7. ReceiptDecides'
  <2> SUFFICES ASSUME stage = "e02", inTurn PROVE ReceiptDecides'
    BY <1>1 DEF ReceiptDecides
  <2>1. passed \subseteq passed'
    BY DEF Edit, Probe, HoursPass, Prepare, Preflight
  <2>2. Quiet \/ inputs' = inputs
    BY DEF Edit, Probe, HoursPass, Prepare, Preflight
  <2>3. preflight' # Absent => /\ preflight'.inputs \in passed'
                               /\ probe' # Absent
                               /\ preflight'.serial <= probe'.serial
                               /\ preflight'.serial = probe'.serial => preflight'.inputs = probe'.inputs
    <3>1. CASE Preflight
      BY <3>1 DEF Preflight, ServerEvidence, CommandsInv, LaunchTypeOK, Evidence
    <3>2. CASE Probe
      BY <3>2, AbsentAssumption
      DEF Probe, CommandsInv, LaunchTypeOK, ReceiptDecides, Evidence, Checks
    <3>3. CASE Edit \/ HoursPass \/ Prepare
      <4>1. UNCHANGED <<probe, preflight, passed>>
        BY <3>3 DEF Edit, HoursPass, Prepare
      <4> QED BY <4>1 DEF CommandsInv, ReceiptDecides
    <3> QED BY <3>1, <3>2, <3>3
  <2>4. \A o \in Operators : Compiling(o) => inputs' \in passed'
    BY <2>1, <2>2 DEF Quiet, Compiling, CommandsInv, ReceiptDecides
  <2> QED BY <1>1, <2>1, <2>3, <2>4 DEF CommandsInv, ReceiptDecides, Opened, Compiling
<1> QED BY <1>3, <1>5, <1>6, <1>7 DEF CommandsInv

\* The other commands stand still, and in turn there is no other.
LEMMA OthersStand ==
  ASSUME CommandsInv, NEW o \in Operators, NEW c, command' = [command EXCEPT ![o] = c]
  PROVE  /\ command'[o] = c
         /\ \A p \in Operators : p # o => command'[p] = command[p]
  BY DEF CommandsInv, LaunchTypeOK

LEMMA CompiledIsKnown == CommandsInv => Known(Compiled)
  BY GrantsAreNumbers DEF CommandsInv, LaunchTypeOK, Known, Compiled, Graphs, Versions

\* Launch and resume may begin (launch_*, resume_*).
LEMMA BeginningKeeps ==
  ASSUME CommandsInv, NEW o \in Operators, BeginLaunch(o) \/ BeginResume(o)
  PROVE  CommandsInv'
<1>1. UNCHANGED <<stage, inTurn, inputs, probe, late, prepared, preflight, passed, grant, launch,
                  database, runs, finished, crashes>>
  BY DEF BeginLaunch, BeginResume
<1>2. PICK c \in [at : AtSteps, graph : Graphs \cup {Absent}] :
        /\ command' = [command EXCEPT ![o] = c]
        /\ \/ c.at = "opening" /\ c.graph = Compiled /\ (BeginResume(o) \/ stage = "e01")
           \/ c.at \in {"granting", "compiling"} /\ stage # "e01" /\ BeginLaunch(o)
  <2>1. \A c \in {[at |-> "opening", graph |-> Compiled], [at |-> "granting", graph |-> Absent],
                  [at |-> "compiling", graph |-> Absent]} :
          c \in [at : AtSteps, graph : Graphs \cup {Absent}]
    BY CompiledIsKnown DEF Known, AtSteps
  <2>2. CASE BeginResume(o)
    BY <2>1, <2>2 DEF BeginResume
  <2>3. CASE BeginLaunch(o) /\ stage = "e01"
    <3>1. command' = [command EXCEPT ![o] = [at |-> "opening", graph |-> Compiled]]
      BY <2>3 DEF BeginLaunch
    <3> QED BY <2>1, <2>3, <3>1
  <2>4. CASE BeginLaunch(o) /\ stage # "e01"
    <3>1. command' \in {[command EXCEPT ![o] = [at |-> "granting", graph |-> Absent]],
                        [command EXCEPT ![o] = [at |-> "compiling", graph |-> Absent]]}
      BY <2>4 DEF BeginLaunch
    <3> QED BY <2>1, <2>4, <3>1
  <2> QED BY <2>2, <2>3, <2>4
<1>3. /\ command'[o] = c
      /\ \A p \in Operators : p # o => command'[p] = command[p]
  BY <1>2, OthersStand
<1>4. c.at \in {"opening", "granting", "compiling"} /\ (c.at = "opening" => c.graph = Compiled)
  BY <1>2
<1>n. stage # "e01" => (c.at = "opening" <=> BeginResume(o)) /\ (c.at # "opening" => BeginLaunch(o))
  BY <1>2 DEF BeginLaunch, BeginResume, MayLaunch, MayResume
<1>5. LaunchTypeOK'
  BY <1>1, <1>2 DEF CommandsInv, LaunchTypeOK
<1>6. GraphsInv'
  <2>1. c.at = "opening" /\ stage # "e01" => launch # Absent
    BY <1>n, StagesAssumption DEF BeginResume, MayResume, CommandsInv, LaunchTypeOK
  <2> QED BY <1>1, <1>3, <1>4, <2>1, CompiledIsKnown DEF CommandsInv, GraphsInv, Opened, Known
<1>7. PreparedInv'
  <2> SUFFICES ASSUME stage = "e01" PROVE PreparedInv'
    BY <1>1 DEF PreparedInv
  <2>1. c.at = "opening" /\ preflight # Absent /\ Compiled.inputs = prepared
    BY <1>2 DEF BeginLaunch, BeginResume, MayLaunch, MayResume, VerifyPrepared, Compiled
  <2> QED BY <1>1, <1>3, <1>4, <2>1 DEF CommandsInv, PreparedInv, Opened, Compiling
<1>8. ReceiptDecides'
  <2> SUFFICES ASSUME stage = "e02", inTurn PROVE ReceiptDecides'
    BY <1>1 DEF ReceiptDecides
  <2>1. \A p \in Operators : command[p].at = "idle"
    BY DEF BeginLaunch, BeginResume, MayAct
  <2>2. \A p \in Operators : p # o => command'[p].at = "idle"
    BY <1>3, <2>1
  <2>3. c.at \in {"granting", "compiling"} => ~database /\ inputs \in passed
    BY <1>n DEF BeginLaunch, MayLaunch, EvidenceBinds, ServerEvidence, CommandsInv, ReceiptDecides
  <2>4. c.at = "opening" => database /\ Compiled = launch
    BY <1>n DEF BeginResume, MayResume
  <2> QED BY <1>1, <1>3, <1>4, <2>2, <2>3, <2>4 DEF CommandsInv, ReceiptDecides, Opened, Compiling
<1> QED BY <1>5, <1>6, <1>7, <1>8 DEF CommandsInv

\* A launch on its way to the store: the grant, then the receipt (launch_e02, launch_stage2).
LEMMA WritingKeeps ==
  ASSUME CommandsInv, NEW o \in Operators, IssueGrant(o) \/ WriteLaunch(o)
  PROVE  CommandsInv'
<1>1. /\ UNCHANGED <<stage, inTurn, inputs, probe, late, prepared, preflight, passed, database, runs,
                     finished, crashes>>
      /\ Compiling(o) /\ stage # "e01"
  BY DEF IssueGrant, WriteLaunch, Compiling, CommandsInv, PreparedInv
<1>2. CASE IssueGrant(o)
  <2>1. /\ command'[o] = [at |-> "compiling", graph |-> Absent]
        /\ \A p \in Operators : p # o => command'[p] = command[p]
    BY <1>2, OthersStand DEF IssueGrant
  <2>2. LaunchTypeOK'
    BY <1>1, <1>2 DEF IssueGrant, CommandsInv, LaunchTypeOK, AtSteps
  <2>3. GraphsInv'
    BY <1>1, <1>2, <2>1 DEF IssueGrant, CommandsInv, GraphsInv, Opened, Known
  <2>4. PreparedInv'
    BY <1>1 DEF PreparedInv
  <2>5. ReceiptDecides'
    <3> SUFFICES ASSUME stage = "e02", inTurn PROVE ReceiptDecides'
      BY <1>1 DEF ReceiptDecides
    <3>1. \A p \in Operators : p # o => command'[p].at = "idle"
      BY <1>1, <2>1 DEF Compiling, CommandsInv, ReceiptDecides
    <3> QED BY <1>1, <1>2, <2>1, <3>1
        DEF IssueGrant, CommandsInv, ReceiptDecides, Opened, Compiling
  <2> QED BY <2>2, <2>3, <2>4, <2>5 DEF CommandsInv
<1>3. CASE WriteLaunch(o)
  <2>1. /\ command'[o] = [at |-> "opening", graph |-> Compiled]
        /\ \A p \in Operators : p # o => command'[p] = command[p]
    BY <1>3, OthersStand DEF WriteLaunch
  <2>2. Known(Compiled) /\ Known(Compiled)' /\ Compiled # Absent /\ UNCHANGED grant
    BY <1>1, <1>3, CompiledIsKnown, AbsentAssumption DEF WriteLaunch, Known, Compiled
  <2>3. LaunchTypeOK'
    BY <1>1, <1>3, <2>2 DEF WriteLaunch, CommandsInv, LaunchTypeOK, AtSteps, Known
  <2>4. GraphsInv'
    BY <1>1, <1>3, <2>1, <2>2 DEF WriteLaunch, CommandsInv, GraphsInv, Opened, Known
  <2>5. PreparedInv'
    BY <1>1 DEF PreparedInv
  <2>6. ReceiptDecides'
    <3> SUFFICES ASSUME stage = "e02", inTurn PROVE ReceiptDecides'
      BY <1>1 DEF ReceiptDecides
    <3>1. \A p \in Operators : p # o => command'[p].at = "idle"
      BY <1>1, <2>1 DEF Compiling, CommandsInv, ReceiptDecides
    <3>2. ~database /\ inputs \in passed /\ runs = {}
      BY <1>1 DEF CommandsInv, ReceiptDecides, GraphsInv
    <3> QED BY <1>1, <1>3, <2>1, <2>2, <3>1, <3>2
        DEF WriteLaunch, CommandsInv, ReceiptDecides, Opened, Compiling, Compiled
  <2> QED BY <2>3, <2>4, <2>5, <2>6 DEF CommandsInv
<1> QED BY <1>2, <1>3

\* The store is opened and the run created (ExecutionStateStore, create_run).
LEMMA OpeningKeeps ==
  ASSUME CommandsInv, NEW o \in Operators, OpenStore(o) \/ CreateRun(o)
  PROVE  CommandsInv'
<1> DEFINE c == [at |-> IF OpenStore(o) THEN "creating" ELSE "running", graph |-> command[o].graph]
<1>0. /\ UNCHANGED <<stage, inTurn, inputs, probe, late, prepared, preflight, passed, grant, launch,
                     finished, crashes>>
      /\ Opened(o) /\ command' = [command EXCEPT ![o] = c]
  BY DEF OpenStore, CreateRun, Opened
<1>s. /\ database' /\ runs' \in {runs, runs \cup {command[o].graph}}
      /\ CreateRun(o) => command[o].graph \in runs'
  BY DEF OpenStore, CreateRun, CommandsInv, GraphsInv
<1>1. /\ UNCHANGED <<stage, inTurn, inputs, probe, late, prepared, preflight, passed, grant, launch,
                     finished, crashes>>
      /\ Opened(o) /\ database' /\ runs' \in {runs, runs \cup {command[o].graph}}
      /\ command'[o].at \in {"creating", "running"} /\ command'[o].graph = command[o].graph
      /\ command'[o].at = "running" => command[o].graph \in runs'
  <2>1. command'[o] = c
    BY <1>0 DEF CommandsInv, LaunchTypeOK
  <2>2. c.at \in {"creating", "running"} /\ (c.at = "running" => CreateRun(o))
    OBVIOUS
  <2>3. c.graph = command[o].graph
    OBVIOUS
  <2> HIDE DEF c
  <2> QED BY <1>0, <1>s, <2>1, <2>2, <2>3
<1>2. \A p \in Operators : p # o => command'[p] = command[p]
  BY <1>0, OthersStand
<1>3. Known(command[o].graph)
  BY <1>1 DEF CommandsInv, GraphsInv
<1>4. LaunchTypeOK'
  <2>1. c \in [at : AtSteps, graph : Graphs \cup {Absent}] /\ runs' \subseteq Graphs
    BY <1>1, <1>3 DEF Known, AtSteps, CommandsInv, LaunchTypeOK
  <2> QED BY <1>0, <1>1, <2>1 DEF CommandsInv, LaunchTypeOK
<1>5. GraphsInv'
  BY <1>1, <1>2, <1>3 DEF CommandsInv, GraphsInv, Opened, Known
<1>6. PreparedInv'
  BY <1>1, <1>2 DEF CommandsInv, PreparedInv, Opened, Compiling
<1>7. ReceiptDecides'
  <2> SUFFICES ASSUME stage = "e02", inTurn PROVE ReceiptDecides'
    BY <1>1 DEF ReceiptDecides
  <2>1. \A p \in Operators : p # o => command'[p].at = "idle"
    BY <1>1, <1>2 DEF Opened, CommandsInv, ReceiptDecides
  <2> QED BY <1>1, <1>2, <2>1 DEF CommandsInv, ReceiptDecides, Opened, Compiling
<1> QED BY <1>4, <1>5, <1>6, <1>7 DEF CommandsInv

\* A command ends, by itself or not.
LEMMA EndingKeeps ==
  ASSUME CommandsInv, NEW o \in Operators, DriverReturns(o) \/ Crash(o)
  PROVE  CommandsInv'
<1>1. /\ UNCHANGED <<stage, inTurn, inputs, probe, late, prepared, preflight, passed, grant, launch,
                     database, runs>>
      /\ command' = [command EXCEPT ![o] = Idle]
  BY DEF DriverReturns, Crash
<1>2. command'[o] = Idle /\ \A p \in Operators : p # o => command'[p] = command[p]
  BY <1>1, OthersStand
<1>3. LaunchTypeOK'
  <2>1. finished' \subseteq runs' /\ crashes' \in 0..MaxCrashes
    BY LimitsAssumption DEF DriverReturns, Crash, CommandsInv, LaunchTypeOK, GraphsInv
  <2> QED BY <1>1, <2>1 DEF CommandsInv, LaunchTypeOK, Idle, AtSteps
<1>4. GraphsInv'
  BY <1>1, <1>2 DEF CommandsInv, GraphsInv, Opened, Known, Idle
<1>5. PreparedInv'
  BY <1>1, <1>2 DEF CommandsInv, PreparedInv, Opened, Compiling, Idle
<1>6. ReceiptDecides'
  BY <1>1, <1>2 DEF CommandsInv, ReceiptDecides, Opened, Compiling, Idle
<1> QED BY <1>3, <1>4, <1>5, <1>6 DEF CommandsInv

\* The inductive invariant of launch and resume.
THEOREM CommandsInvariant == LaunchSpec => []CommandsInv
<1>1. CommandsInv /\ [LaunchNext]_launchVars => CommandsInv'
  <2> SUFFICES ASSUME CommandsInv, [LaunchNext]_launchVars PROVE CommandsInv'
    OBVIOUS
  <2>1. CASE Edit \/ Probe \/ HoursPass \/ Prepare \/ Preflight
    BY <2>1, WorldKeeps
  <2>2. ASSUME NEW o \in Operators,
               \/ BeginLaunch(o) \/ IssueGrant(o) \/ WriteLaunch(o) \/ BeginResume(o)
               \/ OpenStore(o) \/ CreateRun(o) \/ DriverReturns(o) \/ Crash(o)
        PROVE  CommandsInv'
    BY <2>2, BeginningKeeps, WritingKeeps, OpeningKeeps, EndingKeeps
  <2>3. CASE UNCHANGED launchVars
    BY <2>3 DEF launchVars, CommandsInv, LaunchTypeOK, GraphsInv, PreparedInv, ReceiptDecides, Known,
                Opened, Compiling
  <2> QED BY <2>1, <2>2, <2>3 DEF LaunchNext
<1> QED BY <1>1, CommandsInit, PTL DEF LaunchSpec

\* A database never holds the runs of two graphs, and after a crash its graph
\* is the one a resume compiles: E01 always, E02 with commands in turn, Stage 2
\* while its inputs are not edited (launch and resume of the three stages).
THEOREM OneGraphPerLedger == LaunchSpec => []LaunchInv
<1>1. CommandsInv => OneRunPerLedger
  <2> SUFFICES ASSUME CommandsInv, Guarded PROVE Cardinality(runs) <= 1
    BY DEF OneRunPerLedger
  <2>1. \A g, h \in runs : g = h
    <3>1. CASE stage = "e01" \/ (stage = "stage2" /\ inputs = 1)
      <4> SUFFICES ASSUME NEW g \in runs, NEW h \in runs PROVE g = h
        OBVIOUS
      <4>1. g \in Graphs /\ h \in Graphs /\ g.grant = 0 /\ h.grant = 0
        BY <3>1 DEF CommandsInv, GraphsInv, Known
      <4>2. g.inputs = h.inputs
        BY <3>1, <4>1 DEF CommandsInv, GraphsInv, PreparedInv, Known, Graphs, Versions
      <4> QED BY <4>1, <4>2 DEF Graphs
    <3>2. CASE stage = "e02" /\ inTurn
      BY <3>2 DEF CommandsInv, ReceiptDecides
    <3> QED BY <3>1, <3>2 DEF Guarded
  <2>2. CASE runs = {}
    BY <2>2, FS_EmptySet
  <2>3. CASE runs # {}
    <3>1. PICK g : runs = {g}
      BY <2>1, <2>3
    <3> QED BY <3>1, FS_Singleton
  <2> QED BY <2>2, <2>3
<1>2. CommandsInv => CrashLeavesOneGraph
  <2> SUFFICES ASSUME CommandsInv, inTurn, database, inputs = 1
               PROVE  runs \subseteq {Compiled} /\ (stage # "e01" => launch = Compiled)
    BY DEF CrashLeavesOneGraph
  <2>1. \A g : Known(g) /\ (stage = "e02" => g.grant = grant) => g = Compiled
    BY DEF Known, Graphs, Versions, Compiled
  <2>2. \A g \in runs : Known(g)
    BY DEF CommandsInv, GraphsInv
  <2>3. stage # "e01" => launch # Absent /\ Known(launch)
    BY DEF CommandsInv, GraphsInv
  <2>4. stage = "e02" => launch.grant = grant /\ runs \subseteq {launch}
    BY DEF CommandsInv, ReceiptDecides
  <2> QED BY <2>1, <2>2, <2>3, <2>4
<1> QED BY <1>1, <1>2, CommandsInvariant, PTL DEF LaunchInv, CommandsInv

\* What E01 and E02 run is what a preflight has passed, whatever was edited and
\* probed in between (_verify_prepared, validate_server_evidence).
THEOREM RunsWereChecked == LaunchSpec => []RunsWhatWasChecked
<1>1. CommandsInv => RunsWhatWasChecked
  <2> SUFFICES ASSUME CommandsInv, stage = "e01" \/ (stage = "e02" /\ inTurn), NEW g \in runs
               PROVE  g.inputs \in passed
    BY DEF RunsWhatWasChecked
  <2>1. CASE stage = "e01"
    BY <2>1 DEF CommandsInv, PreparedInv
  <2>2. CASE stage = "e02" /\ inTurn
    BY <2>2 DEF CommandsInv, ReceiptDecides, GraphsInv
  <2> QED BY <2>1, <2>2
<1> QED BY <1>1, CommandsInvariant, PTL

-----------------------------------------------------------------------------
(* The repair of a Stage 2 run.  Of commands that do not overlap, the one    *)
(* that is busy knows whether a repair has been authorized and where its     *)
(* attempts are; only a killed repair leaves attempts nobody vouches for.    *)

\* One command at a time, and what the busy one can rely on.
BusyInv == apart =>
  /\ \A r, s \in Shells : shell[r] # "idle" /\ shell[s] # "idle" => r = s
  /\ \A s \in Shells :
       /\ shell[s] \notin {"idle", "recovering"} => ~authorized
       /\ shell[s] \in {"inserted", "closed"} => Ledger = "repaired" /\ attempts # "none"
       /\ shell[s] = "closed" => main = "repaired"

\* Attempts are in the ledger by an authorization, by the repair at work, or
\* by one that was killed.
AttemptsHaveCause ==
  apart /\ ~repairsKilled /\ Ledger = "repaired" =>
    authorized \/ \E s \in Shells : shell[s] \in {"inserted", "closed"}

RepairInv == RecoveryInv /\ BusyInv /\ AttemptsHaveCause /\ (~logged => log = "absent")

LEMMA RepairInit == RecoveryInit => RepairInv
<1> SUFFICES ASSUME RecoveryInit PROVE RepairInv
  OBVIOUS
<1>1. RecoveryTypeOK
  <2>1. kills \in 0..MaxKills /\ shell \in [Shells -> Steps]
    BY RecoveryAssumption DEF RecoveryInit, Steps
  <2> QED BY <2>1, Zenon DEF RecoveryInit, RecoveryTypeOK, Levels
<1>2. Ledger = "absent" /\ ~authorized /\ ~trained /\ log = "absent" /\ \A s \in Shells : shell[s] = "idle"
  BY DEF RecoveryInit, Ledger
<1> QED BY <1>1, <1>2 DEF RepairInv, RecoveryInv, AuthorizationMeansAttempts, NoStepOfTraining, BusyInv,
                          AttemptsHaveCause

\* Where the shells go in a step of s that sends it to "step".
LEMMA ShellGoes ==
  ASSUME RecoveryTypeOK, NEW s \in Shells, NEW step \in Steps, Goto(s, step)
  PROVE  /\ shell' \in [Shells -> Steps] /\ shell'[s] = step
         /\ \A r \in Shells \ {s} : shell'[r] = shell[r]
  BY DEF RecoveryTypeOK, Goto

\* The restore, which needs that nothing is authorized.
LEMMA RestoringKeeps ==
  ASSUME RepairInv, NEW s \in Shells, BeginRestore(s) \/ OverwriteDatabase(s) \/ BindInput(s)
  PROVE  RepairInv'
<1> USE DEF RepairInv, RecoveryInv, RecoveryTypeOK, AuthorizationMeansAttempts, NoStepOfTraining, BusyInv,
            AttemptsHaveCause, Ledger
<1>1. CASE BeginRestore(s)
  <2>1. /\ shell' \in [Shells -> Steps] /\ shell'[s] = "overwriting"
        /\ \A r \in Shells \ {s} : shell'[r] = shell[r]
    BY <1>1, ShellGoes DEF BeginRestore, Steps
  <2> QED BY <1>1, <2>1 DEF BeginRestore, Starts
<1>2. CASE OverwriteDatabase(s)
  <2>1. /\ shell' \in [Shells -> Steps] /\ shell'[s] = "binding"
        /\ \A r \in Shells \ {s} : shell'[r] = shell[r]
    BY <1>2, ShellGoes DEF OverwriteDatabase, Steps
  <2> QED BY <1>2, <2>1 DEF OverwriteDatabase, Levels
<1>3. CASE BindInput(s)
  <2>1. /\ shell' \in [Shells -> Steps] /\ shell'[s] = "idle"
        /\ \A r \in Shells \ {s} : shell'[r] = shell[r]
    BY <1>3, ShellGoes DEF BindInput, Steps
  <2> QED BY <1>3, <2>1 DEF BindInput
<1> QED BY <1>1, <1>2, <1>3

\* The repair: its attempts are committed before its receipt is written.
LEMMA RepairingKeeps ==
  ASSUME RepairInv, NEW s \in Shells,
         BeginRepair(s) \/ CreateEvents(s) \/ InsertAttempts(s) \/ CloseLedger(s) \/ Authorize(s)
  PROVE  RepairInv'
<1> USE DEF RepairInv, RecoveryInv, RecoveryTypeOK, AuthorizationMeansAttempts, NoStepOfTraining, BusyInv,
            AttemptsHaveCause, Ledger
<1>1. CASE BeginRepair(s)
  <2>1. /\ shell' \in [Shells -> Steps] /\ shell'[s] = "checked"
        /\ \A r \in Shells \ {s} : shell'[r] = shell[r]
    BY <1>1, ShellGoes DEF BeginRepair, Steps
  <2> QED BY <1>1, <2>1 DEF BeginRepair, Starts, Acceptable
<1>2. CASE CreateEvents(s)
  <2>1. /\ shell' \in [Shells -> Steps] /\ shell'[s] = "created"
        /\ \A r \in Shells \ {s} : shell'[r] = shell[r]
    BY <1>2, ShellGoes DEF CreateEvents, Steps
  <2> QED BY <1>2, <2>1 DEF CreateEvents, Commit, Levels
<1>3. CASE InsertAttempts(s) /\ Ledger = "touched"
  <2>1. /\ shell' \in [Shells -> Steps] /\ shell'[s] = "inserted"
        /\ \A r \in Shells \ {s} : shell'[r] = shell[r]
    BY <1>3, ShellGoes DEF InsertAttempts, Steps
  <2> QED BY <1>3, <2>1 DEF InsertAttempts, Commit, Levels
<1>4. CASE InsertAttempts(s) /\ Ledger # "touched"
  <2>1. /\ shell' \in [Shells -> Steps] /\ shell'[s] = "idle"
        /\ \A r \in Shells \ {s} : shell'[r] = shell[r]
    BY <1>4, ShellGoes DEF InsertAttempts, Steps
  <2> QED BY <1>4, <2>1 DEF InsertAttempts, Close, Levels
<1>5. CASE CloseLedger(s)
  <2>1. /\ shell' \in [Shells -> Steps] /\ shell'[s] = "closed"
        /\ \A r \in Shells \ {s} : shell'[r] = shell[r]
    BY <1>5, ShellGoes DEF CloseLedger, Steps
  <2> QED BY <1>5, <2>1 DEF CloseLedger, Close, Levels
<1>6. CASE Authorize(s)
  <2>1. /\ shell' \in [Shells -> Steps] /\ shell'[s] = "idle"
        /\ \A r \in Shells \ {s} : shell'[r] = shell[r]
    BY <1>6, ShellGoes DEF Authorize, Steps
  <2> QED BY <1>6, <2>1 DEF Authorize
<1> QED BY <1>1, <1>2, <1>3, <1>4, <1>5, <1>6

\* The resume: in ordinary mode it finds no attempts but a killed repair's.
LEMMA ResumingKeeps ==
  ASSUME RepairInv, NEW s \in Shells, BeginResumed(s) \/ RunAttempts(s) \/ EndResumed(s)
  PROVE  RepairInv'
<1> USE DEF RepairInv, RecoveryInv, RecoveryTypeOK, AuthorizationMeansAttempts, NoStepOfTraining, BusyInv,
            AttemptsHaveCause, Ledger
<1>1. CASE BeginResumed(s)
  <2>1. /\ shell' \in [Shells -> Steps] /\ shell'[s] = ResumeMode
        /\ \A r \in Shells \ {s} : shell'[r] = shell[r]
    BY <1>1, ShellGoes DEF BeginResumed, ResumeMode, Steps
  <2> QED BY <1>1, <2>1 DEF BeginResumed, Starts, Commit, ResumeMode, Levels
<1>2. CASE RunAttempts(s)
  BY <1>2 DEF RunAttempts
<1>3. CASE EndResumed(s)
  <2>1. /\ shell' \in [Shells -> Steps] /\ shell'[s] = "idle"
        /\ \A r \in Shells \ {s} : shell'[r] = shell[r]
    BY <1>3, ShellGoes DEF EndResumed, Steps
  <2> QED BY <1>3, <2>1 DEF EndResumed, Close, Levels
<1> QED BY <1>1, <1>2, <1>3

\* Kills and lost checkpoints.
LEMMA RecoveryFaultsKeep ==
  ASSUME RepairInv, LoseCheckpoint \/ \E s \in Shells : Killed(s)
  PROVE  RepairInv'
<1> USE RecoveryAssumption DEF RepairInv, RecoveryInv, RecoveryTypeOK, AuthorizationMeansAttempts,
            NoStepOfTraining, BusyInv, AttemptsHaveCause, Ledger
<1>1. CASE LoseCheckpoint
  BY <1>1 DEF LoseCheckpoint
<1>2. ASSUME NEW s \in Shells, Killed(s) PROVE RepairInv'
  <2>1. /\ shell' \in [Shells -> Steps] /\ shell'[s] = "idle"
        /\ \A r \in Shells \ {s} : shell'[r] = shell[r]
    BY <1>2, ShellGoes DEF Killed, Steps
  <2> QED BY <1>2, <2>1 DEF Killed
<1> QED BY <1>1, <1>2

\* The inductive invariant of the repair.
THEOREM RepairInvariant == RecoverySpec => []RepairInv
<1>1. RepairInv /\ [RecoveryNext]_recoveryVars => RepairInv'
  <2> SUFFICES ASSUME RepairInv, [RecoveryNext]_recoveryVars PROVE RepairInv'
    OBVIOUS
  <2>1. CASE RecoveryNext
    BY <2>1, RestoringKeeps, RepairingKeeps, ResumingKeeps, RecoveryFaultsKeep DEF RecoveryNext
  <2>2. CASE UNCHANGED recoveryVars
    BY <2>2 DEF recoveryVars, RepairInv, RecoveryInv, RecoveryTypeOK, AuthorizationMeansAttempts,
                NoStepOfTraining, BusyInv, AttemptsHaveCause, Ledger
  <2> QED BY <2>1, <2>2
<1> QED BY <1>1, RepairInit, PTL DEF RecoverySpec

\* An authorized repair keeps its attempts through any restores, drivers, kills
\* and left-over logs, and no optimizer step is taken for the six tasks unless
\* a repair was killed (apply_recovery, restore_recovery_input, resume_stage2).
THEOREM RepairIsKept == RecoverySpec => []RecoveryInv
  BY RepairInvariant, PTL DEF RepairInv

-----------------------------------------------------------------------------
(* The restore on a server.  A restore knows of the files it has passed, and *)
(* after its first loop of all of them, as long as nobody else changes them. *)

Knows(r) ==
  /\ RestoreAt(r, "comparing") =>
       \A i \in 1..(restorer[r].next - 1) : Members[i] \in changed[r] \/ Tolerates(Members[i])
  /\ restorer[r].at \in {"looking", "replacing", "hashing"} =>
       /\ \A f \in HandoffFiles \ changed[r] : Tolerates(f)
       /\ \A i \in 1..(restorer[r].next - 1) :
            Members[i] \in changed[r] \/ disk[Members[i]] = "archived"
  /\ RestoreAt(r, "hashing") => Current(r) \in changed[r] \/ disk[Current(r)] = "archived"
  /\ restorer[r].at \in {"verifying", "receipt"} =>
       \A f \in HandoffFiles \ changed[r] : disk[f] = "archived"

\* Files become foreign by a foreign hand.
ForeignHand ==
  touches = 0 => (\A r \in Restorers : changed[r] = {}) /\ \A f \in HandoffFiles : disk[f] # "other"

RestoreInv ==
  HandoffTypeOK /\ (\A r \in Restorers : Knows(r)) /\ ForeignHand /\ StopsForCause /\ OneBundle

\* The files are the members up to the last.
LEMMA MembersAreFiles ==
  /\ Len(Members) \in Nat \ {0} /\ DOMAIN Members = 1..Len(Members)
  /\ \A i \in 1..Len(Members) : Members[i] \in HandoffFiles
  /\ \A f \in HandoffFiles : \E i \in 1..Len(Members) : f = Members[i]
<1>1. Len(Members) \in Nat /\ DOMAIN Members = 1..Len(Members)
  BY HandoffAssumption
<1>2. Len(Members) # 0
  BY HandoffAssumption
<1> QED BY <1>1, <1>2 DEF HandoffFiles

LEMMA RestoreBegins == HandoffInit => RestoreInv
<1> SUFFICES ASSUME HandoffInit PROVE RestoreInv
  OBVIOUS
<1>1. restorer \in [Restorers -> [at : RestoreSteps, next : DOMAIN Members]]
  BY MembersAreFiles DEF HandoffInit, RestoreSteps
<1>2. HandoffTypeOK
  <2>1. /\ touches \in 0..MaxTouches /\ restoreKills \in 0..MaxRestoreKills
        /\ checkout \in 1..(MaxUpgrades + 1) /\ bundle \in 1..(MaxUpgrades + 1)
        /\ verified \in 0..(MaxUpgrades + 1) /\ serverEvidence \in 0..(MaxUpgrades + 1)
    BY HandoffAssumption DEF HandoffInit
  <2>2. /\ disk \in [HandoffFiles -> {"absent", "archived", "other"}]
        /\ changed \in [Restorers -> SUBSET HandoffFiles]
    BY DEF HandoffInit
  <2>3. restoreReceipt \in BOOLEAN
    BY DEF HandoffInit
  <2> QED BY <1>1, <2>1, <2>2, <2>3 DEF HandoffTypeOK
<1>3. \A r \in Restorers : restorer[r].at = "idle"
  BY DEF HandoffInit
<1>4. ForeignHand /\ OneBundle
  BY DEF HandoffInit, ForeignHand, OneBundle
<1> QED BY <1>2, <1>3, <1>4 DEF RestoreInv, Knows, StopsForCause, RestoreAt

\* A step of r that leaves the files alone keeps all but, perhaps, what r knows.
LEMMA ReadingKeeps ==
  ASSUME RestoreInv, NEW r \in Restorers, NEW step \in RestoreSteps, NEW next \in 1..Len(Members),
         RestoreGoes(r, step, next),
         UNCHANGED <<disk, touches, checkout, bundle, verified, serverEvidence>>,
         changed' = changed \/ changed' = [changed EXCEPT ![r] = {}],
         restoreReceipt' \in BOOLEAN, restoreKills' \in 0..MaxRestoreKills,
         step = "stopped" => touches # 0,
         restorer'[r].at = step /\ restorer'[r].next = next => Knows(r)'
  PROVE  RestoreInv'
<1>1. /\ restorer' \in [Restorers -> [at : RestoreSteps, next : DOMAIN Members]]
      /\ restorer'[r].at = step /\ restorer'[r].next = next
      /\ \A q \in Restorers \ {r} : restorer'[q] = restorer[q]
  BY MembersAreFiles DEF RestoreInv, HandoffTypeOK, RestoreGoes
<1>2. /\ changed' \in [Restorers -> SUBSET HandoffFiles]
      /\ \A q \in Restorers \ {r} : changed'[q] = changed[q]
      /\ changed'[r] \in {changed[r], {}}
  BY DEF RestoreInv, HandoffTypeOK
<1>3. HandoffTypeOK'
  BY <1>1, <1>2 DEF RestoreInv, HandoffTypeOK
<1>4. ASSUME NEW q \in Restorers PROVE Knows(q)'
  <2>1. CASE q = r
    BY <1>1, <2>1
  <2>2. CASE q # r
    BY <1>1, <1>2, <2>2 DEF RestoreInv, Knows, RestoreAt, Tolerates, Current
  <2> QED BY <2>1, <2>2
<1>5. ForeignHand' /\ OneBundle'
  BY <1>2 DEF RestoreInv, ForeignHand, OneBundle
<1>6. StopsForCause'
  BY <1>1 DEF RestoreInv, StopsForCause, RestoreAt
<1> QED BY <1>3, <1>4, <1>5, <1>6 DEF RestoreInv

\* The position of a restore.
LEMMA PositionOf ==
  ASSUME RestoreInv, NEW r \in Restorers
  PROVE  /\ restorer[r].next \in 1..Len(Members) /\ 1 \in 1..Len(Members)
         /\ Current(r) \in HandoffFiles
         /\ restorer[r].next < Len(Members) => restorer[r].next + 1 \in 1..Len(Members)
         /\ disk[Current(r)] \in {"absent", "archived", "other"}
<1>1. restorer[r].next \in 1..Len(Members)
  BY MembersAreFiles DEF RestoreInv, HandoffTypeOK
<1>2. Current(r) \in HandoffFiles
  BY <1>1, MembersAreFiles DEF Current
<1> QED BY <1>1, <1>2, MembersAreFiles DEF RestoreInv, HandoffTypeOK

\* A file that r has looked at is one of those it has passed or the current one.
LEMMA AllPassed ==
  ASSUME RestoreInv, NEW r \in Restorers, NEW S, Current(r) \in S,
         \A i \in 1..(restorer[r].next - 1) : Members[i] \in S
  PROVE  /\ \A i \in 1..restorer[r].next : Members[i] \in S
         /\ ~(restorer[r].next < Len(Members)) => \A f \in HandoffFiles : f \in S
<1>1. restorer[r].next \in 1..Len(Members) /\ Len(Members) \in Nat
  BY PositionOf, MembersAreFiles
<1>2. \A i \in 1..restorer[r].next : i = restorer[r].next \/ i \in 1..(restorer[r].next - 1)
  BY <1>1
<1>3. \A i \in 1..restorer[r].next : Members[i] \in S
  BY <1>2 DEF Current
<1>4. ~(restorer[r].next < Len(Members)) => restorer[r].next = Len(Members)
  BY <1>1
<1> QED BY <1>3, <1>4, MembersAreFiles

\* The first loop and its neighbours.
LEMMA ComparingKeeps ==
  ASSUME RestoreInv, NEW r \in Restorers,
         BeginHandoff(r) \/ CompareMember(r) \/ VerifyRestored(r) \/ WriteRestored(r) \/ KillRestore(r)
  PROVE  RestoreInv'
<1>0. /\ restorer[r].next \in 1..Len(Members) /\ 1 \in 1..Len(Members)
      /\ Current(r) \in HandoffFiles
      /\ restorer[r].next < Len(Members) => restorer[r].next + 1 \in 1..Len(Members)
      /\ restoreReceipt \in BOOLEAN /\ restoreKills \in 0..MaxRestoreKills
  BY PositionOf DEF RestoreInv, HandoffTypeOK
<1> DEFINE Seen == {f \in HandoffFiles : f \in changed[r] \/ Tolerates(f)}
<1>1. CASE BeginHandoff(r)
  <2>1. restorer'[r].at = "comparing" /\ restorer'[r].next = 1 => Knows(r)'
    BY DEF Knows, RestoreAt
  <2> QED BY <1>0, <1>1, <2>1, ReadingKeeps DEF BeginHandoff, RestoreSteps
<1>2. CASE CompareMember(r) /\ ~Tolerates(Current(r))
  <2>1. touches # 0
    BY <1>0, <1>2 DEF RestoreInv, HandoffTypeOK, ForeignHand, Tolerates
  <2>2. restorer'[r].at = "stopped" => Knows(r)'
    BY DEF Knows, RestoreAt
  <2> QED BY <1>0, <1>2, <2>1, <2>2, ReadingKeeps DEF CompareMember, Rests, RestoreSteps
<1>3. CASE CompareMember(r) /\ Tolerates(Current(r))
  <2>1. UNCHANGED <<disk, changed>>
    BY <1>3 DEF CompareMember, Rests
  <2>2. Current(r) \in Seen /\ \A i \in 1..(restorer[r].next - 1) : Members[i] \in Seen
    <3>1. Current(r) \in Seen
      BY <1>0, <1>3
    <3>2. restorer[r].at = "comparing" /\ Knows(r)
      BY <1>3 DEF CompareMember, RestoreInv, RestoreAt
    <3>3. \A i \in 1..(restorer[r].next - 1) : Members[i] \in Seen
      BY <1>0, <3>2, MembersAreFiles DEF Knows, RestoreAt
    <3> QED BY <3>1, <3>3
  <2>3. /\ \A i \in 1..restorer[r].next : Members[i] \in Seen
        /\ ~(restorer[r].next < Len(Members)) => \A f \in HandoffFiles : f \in Seen
    <3> HIDE DEF Seen
    <3> QED BY <2>2, AllPassed
  <2>4. CASE restorer[r].next < Len(Members)
    <3>1. restorer'[r].at = "comparing" /\ restorer'[r].next = restorer[r].next + 1 => Knows(r)'
      BY <1>0, <2>1, <2>3 DEF Knows, RestoreAt, Tolerates
    <3> QED BY <1>0, <1>3, <2>4, <3>1, ReadingKeeps DEF CompareMember, Advance, Rests, RestoreSteps
  <2>5. CASE ~(restorer[r].next < Len(Members))
    <3>1. restorer'[r].at = "looking" /\ restorer'[r].next = 1 => Knows(r)'
      BY <2>1, <2>3, <2>5 DEF Knows, RestoreAt, Tolerates
    <3> QED BY <1>0, <1>3, <2>5, <3>1, ReadingKeeps DEF CompareMember, Advance, Rests, RestoreSteps
  <2> QED BY <2>4, <2>5
<1>4. CASE VerifyRestored(r) /\ FrozenVerifies
  <2>1. restorer'[r].at = "receipt" => Knows(r)'
    BY <1>4 DEF VerifyRestored, RestoreInv, Knows, RestoreAt, Rests
  <2> QED BY <1>0, <1>4, <2>1, ReadingKeeps DEF VerifyRestored, Rests, RestoreSteps
<1>5. CASE VerifyRestored(r) /\ ~FrozenVerifies
  <2>1. touches # 0
    BY <1>5, HandoffAssumption
       DEF VerifyRestored, RestoreInv, Knows, ForeignHand, FrozenVerifies, RestoreAt
  <2>2. restorer'[r].at = "stopped" => Knows(r)'
    BY DEF Knows, RestoreAt
  <2> QED BY <1>0, <1>5, <2>1, <2>2, ReadingKeeps DEF VerifyRestored, Rests, RestoreSteps
<1>6. CASE WriteRestored(r)
  <2>1. restorer'[r].at = "restored" => Knows(r)'
    BY DEF Knows, RestoreAt
  <2> QED BY <1>0, <1>6, <2>1, ReadingKeeps DEF WriteRestored, RestoreSteps
<1>7. CASE KillRestore(r)
  <2>1. restorer'[r].at = "idle" => Knows(r)'
    BY DEF Knows, RestoreAt
  <2>2. restoreKills' \in 0..MaxRestoreKills
    BY <1>0, <1>7, HandoffAssumption DEF KillRestore
  <2> QED BY <1>0, <1>7, <2>1, <2>2, ReadingKeeps DEF KillRestore, RestoreSteps
<1> QED BY <1>1, <1>2, <1>3, <1>4, <1>5, <1>6, <1>7

\* Passing over a file that is the archive's or was changed.
LEMMA PassingKeeps ==
  ASSUME RestoreInv, NEW r \in Restorers, Advance(r, "looking", "verifying"),
         restorer[r].at \in {"looking", "hashing"},
         Current(r) \in changed[r] \/ disk[Current(r)] = "archived", UNCHANGED disk, Rests
  PROVE  RestoreInv'
<1>0. /\ restorer[r].next \in 1..Len(Members) /\ 1 \in 1..Len(Members)
      /\ Current(r) \in HandoffFiles
      /\ restorer[r].next < Len(Members) => restorer[r].next + 1 \in 1..Len(Members)
      /\ restoreReceipt' \in BOOLEAN /\ restoreKills' \in 0..MaxRestoreKills
  BY PositionOf DEF RestoreInv, HandoffTypeOK, Rests
<1> DEFINE Right == {f \in HandoffFiles : f \in changed[r] \/ disk[f] = "archived"}
<1>1. UNCHANGED <<disk, changed>> /\ \A f \in HandoffFiles \ changed[r] : Tolerates(f)
  BY DEF Rests, RestoreInv, Knows
<1>2. Current(r) \in Right /\ \A i \in 1..(restorer[r].next - 1) : Members[i] \in Right
  <2>1. \A i \in 1..(restorer[r].next - 1) : Members[i] \in changed[r] \/ disk[Members[i]] = "archived"
    BY DEF RestoreInv, Knows
  <2>2. \A i \in 1..(restorer[r].next - 1) : Members[i] \in HandoffFiles
    BY <1>0, MembersAreFiles
  <2> QED BY <1>0, <2>1, <2>2
<1>3. /\ \A i \in 1..restorer[r].next : Members[i] \in Right
      /\ ~(restorer[r].next < Len(Members)) => \A f \in HandoffFiles : f \in Right
  <2> HIDE DEF Right
  <2> QED BY <1>2, AllPassed
<1>4. CASE restorer[r].next < Len(Members)
  <2>1. restorer'[r].at = "looking" /\ restorer'[r].next = restorer[r].next + 1 => Knows(r)'
    BY <1>0, <1>1, <1>3 DEF Knows, RestoreAt, Tolerates
  <2> QED BY <1>0, <1>4, <2>1, ReadingKeeps DEF Advance, Rests, RestoreSteps
<1>5. CASE ~(restorer[r].next < Len(Members))
  <2>1. restorer'[r].at = "verifying" => Knows(r)'
    BY <1>1, <1>3, <1>5 DEF Knows, RestoreAt
  <2> QED BY <1>0, <1>5, <2>1, ReadingKeeps DEF Advance, Rests, RestoreSteps
<1> QED BY <1>4, <1>5

\* The second loop: what is there is passed over, the rest is put there.
LEMMA ReplacingKeeps ==
  ASSUME RestoreInv, NEW r \in Restorers, LookForMember(r) \/ ReplaceMember(r) \/ HashMember(r)
  PROVE  RestoreInv'
<1>0. /\ restorer[r].next \in 1..Len(Members) /\ 1 \in 1..Len(Members)
      /\ Current(r) \in HandoffFiles /\ disk[Current(r)] \in {"absent", "archived", "other"}
      /\ restoreReceipt \in BOOLEAN /\ restoreKills \in 0..MaxRestoreKills
  BY PositionOf DEF RestoreInv, HandoffTypeOK
<1>1. CASE LookForMember(r) /\ disk[Current(r)] # "absent"
  <2>1. Current(r) \in changed[r] \/ disk[Current(r)] = "archived"
    BY <1>0, <1>1 DEF LookForMember, RestoreInv, Knows, RestoreAt, Tolerates
  <2> QED BY <1>1, <2>1, PassingKeeps DEF LookForMember, RestoreAt
<1>2. CASE LookForMember(r) /\ disk[Current(r)] = "absent"
  <2>1. restorer'[r].at = "replacing" /\ restorer'[r].next = restorer[r].next => Knows(r)'
    BY <1>2 DEF LookForMember, RestoreInv, Knows, RestoreAt, Tolerates, Rests
  <2> QED BY <1>0, <1>2, <2>1, ReadingKeeps DEF LookForMember, Rests, RestoreSteps
<1>3. CASE ReplaceMember(r)
  <2>1. /\ restorer' \in [Restorers -> [at : RestoreSteps, next : DOMAIN Members]]
        /\ restorer'[r].at = "hashing" /\ restorer'[r].next = restorer[r].next
        /\ \A q \in Restorers \ {r} : restorer'[q] = restorer[q]
    BY <1>3 DEF ReplaceMember, RestoreInv, HandoffTypeOK, RestoreGoes, RestoreSteps
  <2>2. /\ disk' \in [HandoffFiles -> {"absent", "archived", "other"}]
        /\ \A f \in HandoffFiles : disk'[f] \in {disk[f], "archived"}
        /\ disk'[Current(r)] = "archived"
    BY <1>0, <1>3 DEF ReplaceMember, RestoreInv, HandoffTypeOK
  <2>3. UNCHANGED <<changed, touches, restoreKills, restoreReceipt, checkout, bundle, verified,
                    serverEvidence>>
    BY <1>3 DEF ReplaceMember, Rests
  <2>4. HandoffTypeOK'
    BY <2>1, <2>2, <2>3 DEF RestoreInv, HandoffTypeOK
  <2>5. ASSUME NEW q \in Restorers PROVE Knows(q)'
    <3>1. restorer'[q].next = restorer[q].next /\ restorer[q].next \in 1..Len(Members) /\ Len(Members) \in Nat
      BY <2>1, PositionOf, MembersAreFiles
    <3>2. \A i \in 1..(restorer[q].next - 1) : Members[i] \in HandoffFiles
      BY <3>1, MembersAreFiles
    <3>3. CASE q = r
      <4>1. RestoreAt(r, "replacing") /\ Knows(r)
        BY <1>3 DEF ReplaceMember, RestoreInv
      <4> QED BY <2>1, <2>2, <2>3, <3>2, <3>3, <4>1 DEF Knows, RestoreAt, Tolerates, Current
    <3>4. CASE q # r
      <4>1. restorer'[q] = restorer[q] /\ Knows(q) /\ Current(q) \in HandoffFiles
        BY <2>1, <3>4, PositionOf DEF RestoreInv
      <4> QED BY <2>2, <2>3, <3>2, <4>1 DEF Knows, RestoreAt, Tolerates, Current
    <3> QED BY <3>3, <3>4
  <2>6. ForeignHand' /\ OneBundle'
    BY <2>2, <2>3 DEF RestoreInv, ForeignHand, OneBundle
  <2>7. StopsForCause'
    BY <2>1, <2>3 DEF RestoreInv, StopsForCause, RestoreAt
  <2> QED BY <2>4, <2>5, <2>6, <2>7 DEF RestoreInv
<1>4. CASE HashMember(r) /\ disk[Current(r)] = "archived"
  BY <1>4, PassingKeeps DEF HashMember, RestoreAt
<1>5. CASE HashMember(r) /\ disk[Current(r)] # "archived"
  <2>1. touches # 0
    BY <1>5 DEF HashMember, RestoreInv, Knows, ForeignHand, RestoreAt
  <2>2. restorer'[r].at = "stopped" => Knows(r)'
    BY DEF Knows, RestoreAt
  <2> QED BY <1>0, <1>5, <2>1, <2>2, ReadingKeeps DEF HashMember, Rests, RestoreSteps
<1> QED BY <1>1, <1>2, <1>3, <1>4, <1>5

\* The checkout, the preflight and foreign hands.
LEMMA ServerKeeps ==
  ASSUME RestoreInv, VerifyCheckout \/ RunPreflight \/ Upgrade \/ \E f \in HandoffFiles : Touch(f)
  PROVE  RestoreInv'
<1> USE HandoffAssumption
    DEF RestoreInv, HandoffTypeOK, Knows, ForeignHand, StopsForCause, OneBundle, RestoreAt, Current, Tolerates
<1>1. CASE VerifyCheckout
  BY <1>1 DEF VerifyCheckout, MayVerifyBundle
<1>2. CASE RunPreflight
  BY <1>2 DEF RunPreflight
<1>3. CASE Upgrade
  BY <1>3 DEF Upgrade
<1>4. ASSUME NEW f \in HandoffFiles, Touch(f) PROVE RestoreInv'
  <2>1. /\ disk' \in [HandoffFiles -> {"absent", "archived", "other"}]
        /\ \A e \in HandoffFiles \ {f} : disk'[e] = disk[e]
    BY <1>4 DEF Touch
  <2>2. /\ changed' \in [Restorers -> SUBSET HandoffFiles]
        /\ \A r \in Restorers : changed'[r] = changed[r] \cup {f}
    BY <1>4 DEF Touch
  <2>3. touches' # 0 /\ touches' \in 0..MaxTouches
    BY <1>4 DEF Touch
  <2>4. UNCHANGED <<restorer, restoreKills, restoreReceipt, checkout, bundle, verified, serverEvidence>>
    BY <1>4 DEF Touch
  <2>5. HandoffTypeOK' /\ ForeignHand' /\ StopsForCause' /\ OneBundle'
    BY <2>1, <2>2, <2>3, <2>4
  <2>6. ASSUME NEW r \in Restorers PROVE Knows(r)'
    <3>1. /\ restorer[r].next \in 1..Len(Members) /\ Len(Members) \in Nat /\ Current(r) \in HandoffFiles
          /\ \A i \in 1..Len(Members) : Members[i] \in HandoffFiles
      BY PositionOf, MembersAreFiles
    <3>2. \A i \in 1..(restorer[r].next - 1) : Members[i] \in HandoffFiles
      BY <3>1
    <3>3. \A e \in HandoffFiles : e \in changed'[r] \/ (disk'[e] = disk[e] /\ e \notin changed[r])
      BY <2>1, <2>2
    <3> QED BY <2>2, <2>4, <3>1, <3>2, <3>3
  <2> QED BY <2>5, <2>6
<1> QED BY <1>1, <1>2, <1>3, <1>4

\* A receipt is only written of files that are the archive's or were changed by
\* somebody else since, a foreign file is only replaced if it appeared while the
\* restore ran, restores do not stop each other, and a server's evidence names
\* one bundle (restore_stage2_complete_archive, verify_server_bundle_checkout,
\* run_e02_server_preflight).
THEOREM RestoresAreHonest == HandoffSpec => []HandoffInv
<1>1. RestoreInv /\ [HandoffNext]_handoffVars => RestoreInv'
  <2> SUFFICES ASSUME RestoreInv, [HandoffNext]_handoffVars PROVE RestoreInv'
    OBVIOUS
  <2>1. CASE HandoffNext
    BY <2>1, ComparingKeeps, ReplacingKeeps, ServerKeeps DEF HandoffNext
  <2>2. CASE UNCHANGED handoffVars
    BY <2>2 DEF handoffVars, RestoreInv, HandoffTypeOK, Knows, ForeignHand, StopsForCause, OneBundle,
                RestoreAt, Current, Tolerates
  <2> QED BY <2>1, <2>2
<1>2. RestoreInv => HandoffInv
  <2> SUFFICES ASSUME RestoreInv PROVE HandoffInv
    OBVIOUS
  <2>1. RestoredMeansArchived
    BY DEF RestoreInv, Knows, RestoredMeansArchived, RestoreAt
  <2>2. NothingOverwritten
    <3> SUFFICES ASSUME NEW r \in Restorers, RestoreAt(r, "replacing"), disk[Current(r)] = "other"
                 PROVE  Current(r) \in changed[r]
      BY DEF NothingOverwritten
    <3>1. Current(r) \in HandoffFiles
      BY MembersAreFiles DEF RestoreInv, HandoffTypeOK, Current
    <3> QED BY <3>1 DEF RestoreInv, Knows, RestoreAt, Tolerates
  <2> QED BY <2>1, <2>2 DEF RestoreInv, HandoffInv
<1> QED BY <1>1, <1>2, RestoreBegins, PTL DEF HandoffSpec

-----------------------------------------------------------------------------
(* The dashboard.  What it can show has been read from the ledger, and a     *)
(* ledger that was complete once does not move any more.                     *)

Views == 1..Now
OfViews(snapshots) == snapshots \in Seq(Nat) /\ \A i \in DOMAIN snapshots : snapshots[i] \in Views

\* Every view on its way to the page is one of the ledger's past.
ViewsOK ==
  /\ history \in Seq([Tasks -> {"PENDING", "COMPLETED", "FAILED"}]) /\ Now >= 1
  /\ shown \in {NotShown} \cup Views
  /\ OfViews(inbox)
  /\ DOMAIN promise = Promises /\ \A p \in Promises : OfViews(promise[p].waiting)
  /\ DOMAIN load = Loads
  /\ \A l \in Loads : load[l].seen \in {0} \cup Views

AllCompleted(rows) == \A t \in Tasks : rows[t] = "COMPLETED"

ShownInv == ViewsOK /\ \A v \in Views : AllCompleted(history[v]) => AllCompleted(Rows)

LEMMA ShownInit == MonitorInit => ShownInv
<1> SUFFICES ASSUME MonitorInit PROVE ShownInv
  OBVIOUS
<1>1. history \in Seq([Tasks -> {"PENDING", "COMPLETED", "FAILED"}]) /\ Now = 1
  BY DEF MonitorInit, Now
<1>2. /\ DOMAIN promise = Promises
      /\ \A p \in Promises : promise[p].waiting = <<>>
  BY DEF MonitorInit, Pending, Unused
<1>3. /\ DOMAIN load = Loads
      /\ \A l \in Loads : load[l].seen = 0
  BY DEF MonitorInit, NoLoad
<1>4. OfViews(<<>>) /\ inbox = <<>> /\ shown = NotShown
  BY DEF MonitorInit, OfViews
<1>5. ViewsOK
  BY <1>1, <1>2, <1>3, <1>4 DEF ViewsOK
<1>6. \A v \in Views : v = Now
  BY <1>1 DEF Views
<1> QED BY <1>5, <1>6 DEF ShownInv, Rows

\* The ledger moves on: what was on its way still is of its past, and nothing
\* before was complete.
LEMMA LedgerMovesOn ==
  ASSUME ShownInv, LedgerMoves
  PROVE  ShownInv'
<1> USE DEF ShownInv, ViewsOK
<1>1. PICK t \in Tasks, s \in {"PENDING", "COMPLETED", "FAILED"} :
        /\ Rows[t] \in {"PENDING", "FAILED"} /\ history' = Append(history, [Rows EXCEPT ![t] = s])
        /\ UNCHANGED Page
  BY DEF LedgerMoves, Finish, Retry, Tasks
<1>2. Rows \in [Tasks -> {"PENDING", "COMPLETED", "FAILED"}] /\ Now \in Nat
  BY DEF Rows, Now
<1>3. /\ history' \in Seq([Tasks -> {"PENDING", "COMPLETED", "FAILED"}])
      /\ Now' = Now + 1 /\ \A v \in Views : history'[v] = history[v]
  BY <1>1, <1>2 DEF Now, Views
<1>4. ~AllCompleted(Rows) /\ \A v \in Views : ~AllCompleted(history[v])
  BY <1>1 DEF AllCompleted
<1>5. Views' = Views \cup {Now'} /\ Rows' = history'[Now']
  BY <1>2, <1>3 DEF Views, Rows
<1>6. \A v \in Views' : AllCompleted(history'[v]) => AllCompleted(Rows')
  BY <1>3, <1>4, <1>5 DEF AllCompleted
<1>7. ViewsOK'
  <2>1. OfViews(inbox)' /\ \A p \in Promises : OfViews(promise[p].waiting)'
    BY <1>1, <1>5 DEF Page, OfViews
  <2> QED BY <1>1, <1>2, <1>3, <1>5, <2>1 DEF Page
<1> QED BY <1>6, <1>7 DEF AllCompleted

\* What a step of the page may change.
LEMMA PageStep ==
  ASSUME ShownInv, UNCHANGED history,
         shown' \in {shown} \cup Views,
         OfViews(inbox'),
         DOMAIN promise' = Promises, \A p \in Promises : OfViews(promise'[p].waiting),
         DOMAIN load' = Loads,
         \A l \in Loads : load'[l].seen \in {0} \cup Views
  PROVE  ShownInv'
<1>1. Views' = Views /\ Rows' = Rows /\ Now' = Now
  BY DEF Views, Rows, Now
<1>2. OfViews(inbox)' /\ \A p \in Promises : OfViews(promise[p].waiting)'
  BY <1>1 DEF OfViews
<1>3. shown' \in {NotShown} \cup Views
  BY DEF ShownInv, ViewsOK
<1> QED BY <1>1, <1>2, <1>3 DEF ShownInv, ViewsOK, AllCompleted

LEMMA SnapshotsOfViews ==
  ASSUME NEW snapshots, OfViews(snapshots), NEW v \in Views
  PROVE  /\ OfViews(<<>>) /\ OfViews(Append(snapshots, v))
         /\ snapshots # <<>> => /\ Head(snapshots) \in Views /\ OfViews(Tail(snapshots))
                                /\ snapshots[Len(snapshots)] \in Views
  BY DEF OfViews, Views

LEMMA PageMoves ==
  ASSUME ShownInv, MonitorNext, ~LedgerMoves
  PROVE  ShownInv'
<1> USE DEF ShownInv, ViewsOK
<1>0. Now \in Views /\ OfViews(<<>>) /\ Now # 0
  BY DEF Views, Now, OfViews
<1>1. CASE Open \/ Drop
  <2>1. UNCHANGED <<history, shown>> /\ promise' = [promise EXCEPT ![Fresh] = Pending]
    BY <1>1 DEF Open, Drop
  <2>2. /\ DOMAIN promise' = Promises
        /\ \A p \in Promises : promise'[p] = promise[p] \/ promise'[p].waiting = <<>>
    BY <2>1 DEF Pending
  <2>3. /\ DOMAIN load' = Loads
        /\ \A l \in Loads : load'[l] = load[l] \/ load'[l].seen = 0
    <3>1. CASE Open
      BY <3>1 DEF Open
    <3>2. CASE Drop
      <4> DEFINE first == [NoLoad EXCEPT !.state = "pending", !.promise = Fresh]
      <4>1. first.seen = 0
        BY DEF NoLoad
      <4> HIDE DEF first
      <4>2. load' = [load EXCEPT ![drops + 1] = first]
        BY <3>2 DEF Drop, first
      <4> QED BY <4>1, <4>2
    <3> QED BY <1>1, <3>1, <3>2
  <2>4. OfViews(inbox')
    BY <1>0, <1>1 DEF Open, Drop
  <2>5. \A p \in Promises : OfViews(promise'[p].waiting)
    BY <1>0, <2>2
  <2>6. \A l \in Loads : load'[l].seen \in {0} \cup Views
    BY <2>3
  <2>7. UNCHANGED history /\ shown' \in {shown} \cup Views
    BY <2>1
  <2> QED BY <2>2, <2>3, <2>4, <2>5, <2>6, <2>7, PageStep
<1>2. CASE ServerSend
  <2>1. OfViews(<<Now>>)
    BY <1>0 DEF OfViews, Views, Now
  <2> QED BY <1>2, <2>1, PageStep DEF ServerSend
<1>3. CASE Receive
  <2> DEFINE v == Head(inbox)
  <2>1. v \in Views /\ OfViews(inbox') /\ UNCHANGED <<history, load>>
    BY <1>0, <1>3, SnapshotsOfViews DEF Receive
  <2>2. shown' \in {shown, v}
    BY <1>3 DEF Receive, Show, ShowError
  <2> DEFINE kept == [promise[cached] EXCEPT !.waiting = Append(promise[cached].waiting, v)]
  <2>3. \/ promise' = promise
        \/ /\ promise' = [promise EXCEPT ![cached] = kept]
           /\ kept.waiting \in {Append(promise[cached].waiting, v), promise[cached].waiting}
    BY <1>3 DEF Receive
  <2> HIDE DEF v, kept
  <2>4. cached \in Promises => OfViews(Append(promise[cached].waiting, v)) /\ OfViews(promise[cached].waiting)
    BY <2>1, SnapshotsOfViews
  <2>5. DOMAIN promise' = Promises /\ \A p \in Promises : OfViews(promise'[p].waiting)
    BY <2>3, <2>4
  <2>6. shown' \in {shown} \cup Views
    BY <2>1, <2>2
  <2> QED BY <2>1, <2>5, <2>6, PageStep
<1>4. CASE Reconnect \/ Unmount
  <2>1. UNCHANGED <<history, shown, promise, load>> /\ OfViews(inbox')
    BY <1>0, <1>4 DEF Reconnect, Unmount
  <2>2. shown' \in {shown} \cup Views
    BY <2>1
  <2> QED BY <2>1, <2>2, PageStep
<1>5. ASSUME NEW p \in Promises, IdentityAnswered(p) \/ IdentityRefused(p)
      PROVE  ShownInv'
  <2>1. /\ UNCHANGED <<history, inbox, load>>
        /\ \/ promise' = [promise EXCEPT ![p] = [state |-> "ok", waiting |-> <<>>]]
           \/ promise' = [promise EXCEPT ![p] = [state |-> "rejected", waiting |-> <<>>]]
    BY <1>5 DEF IdentityAnswered, IdentityRefused
  <2>2. /\ DOMAIN promise' = Promises
        /\ \A q \in Promises : promise'[q] = promise[q] \/ promise'[q].waiting = <<>>
    BY <2>1
  <2>4. \A q \in Promises : OfViews(promise'[q].waiting)
    BY <1>0, <2>2
  <2>3. shown' \in {shown} \cup Views
    <3>1. promise[p].waiting # <<>> =>
            promise[p].waiting[Len(promise[p].waiting)] \in Views
      BY <1>0, SnapshotsOfViews
    <3> QED BY <1>5, <3>1 DEF IdentityAnswered, IdentityRefused, Show, ShowError
  <2> QED BY <2>1, <2>2, <2>3, <2>4, PageStep
<1>6. ASSUME NEW l \in Loads, LoadAnswered(l) \/ LoadRefused(l) \/ LoadSettles(l)
      PROVE  ShownInv'
  <2> DEFINE answered == [load[l] EXCEPT !.seen = Now]
  <2>1. /\ UNCHANGED <<history, inbox, promise>>
        /\ load' = [load EXCEPT ![l] = answered] \/ load' = [load EXCEPT ![l] = Ended]
    BY <1>6 DEF LoadAnswered, LoadRefused, LoadSettles
  <2>4. answered.seen \in {Now, load[l].seen} /\ Ended.seen = 0
    BY DEF Ended
  <2> HIDE DEF answered
  <2>2. /\ DOMAIN load' = Loads
        /\ \A k \in Loads : load'[k].seen \in {0} \cup Views
    BY <1>0, <2>1, <2>4
  <2>3. shown' \in {shown} \cup Views
    BY <1>6 DEF LoadAnswered, LoadRefused, LoadSettles, Show, ShowError
  <2> QED BY <2>1, <2>2, <2>3, PageStep
<1> QED BY <1>1, <1>2, <1>3, <1>4, <1>5, <1>6 DEF MonitorNext

\* A page that says COMPLETED says so of a run whose every planned task is
\* completed, for any plan and any drops, refusals and late answers
\* (loadSnapshot, subscribeToSnapshots, _run_view).
THEOREM CompletedIsNeverEarly == MonitorSpec => []CompletedIsTrue
<1>1. ShownInv /\ [MonitorNext]_monitorVars => ShownInv'
  <2>1. ASSUME ShownInv, UNCHANGED monitorVars PROVE ShownInv'
    <3>1. UNCHANGED <<history, shown, inbox, promise, load>>
      BY <2>1 DEF monitorVars
    <3> QED BY <2>1, <3>1, PageStep DEF ShownInv, ViewsOK
  <2> QED BY <2>1, LedgerMovesOn, PageMoves
<1>2. ShownInv => CompletedIsTrue
  BY DEF ShownInv, ViewsOK, CompletedIsTrue, RunStatus, AllCompleted
<1> QED BY <1>1, <1>2, ShownInit, PTL DEF MonitorSpec
-----------------------------------------------------------------------------
(* The gate of E01.  A report is made once, and says what its effects measure *)
(* if both are of one world; a verdict is made of all reports, which no later *)
(* step changes, so that it stays what they make of its world.  Without a     *)
(* verdict every try so far was lost.                                         *)

\* What the deciding job finds in a world with the reports there are.
LagsIn(v) == {s \in FormalSeeds : LagRecovered(s, v)}
PassesIn(v) == CountsSuffice /\ Enough(LagsIn(v)) /\ Bias <= MaxBias

LEMMA StatusSays == \A v : StatusIn(v) \in {"PASS", "FAIL"} /\ (StatusIn(v) = "PASS" <=> PassesIn(v))
  BY DEF StatusIn, PassesIn, LagsIn

ReportsOK ==
  /\ outcome \in [FormalSeeds -> Outcomes] /\ world \in WorldVersions /\ sound \in BOOLEAN
  /\ effects \in [FormalSeeds -> WorldVersions \cup {0}]
  /\ report \in [FormalSeeds -> [by : WorldVersions \cup {0},
                                 measured : [passes : SUBSET Judged, deviation : Int, lag : Int]]]
  /\ \A s \in FormalSeeds : report[s].by # 0 =>
       /\ effects[s] # 0 /\ report[s].measured.lag = outcome[s].lag
       /\ report[s].by = effects[s] => report[s].measured.passes = outcome[s].passes

\* A verdict is what all the reports make of its world; a try that goes on was
\* lost first, and has its reports.
VerdictsOK ==
  /\ decision \in {"WAITING", "COMPLETED", "FAILED", "REFUSED"}
  /\ decisions \in 0..MaxDecisions /\ losses \in 0..decisions /\ strays \subseteq WorldVersions
  /\ \A w \in verdicts : w \in [status : {"PASS", "FAIL"}, world : WorldVersions]
  /\ \A w \in verdicts : w.status = "PASS" <=> PassesIn(w.world)
  /\ verdicts # {} \/ strays # {} => Reported = FormalSeeds
  /\ strays # {} => losses # 0
  /\ decision = "COMPLETED" => verdicts # {}
  /\ losses = 0 /\ verdicts # {} => decision = "COMPLETED"
  /\ decision = "WAITING" /\ verdicts = {} => losses = decisions
  /\ decision = "FAILED" => verdicts # {} \/ losses = MaxDecisions

LEMMA GateStarts == GateInit => ReportsOK /\ VerdictsOK
<1> SUFFICES ASSUME GateInit PROVE ReportsOK /\ VerdictsOK
  OBVIOUS
<1>1. NoReport \in [by : WorldVersions \cup {0},
                    measured : [passes : SUBSET Judged, deviation : Int, lag : Int]] /\ NoReport.by = 0
  BY DEF NoReport, NoOutcome
<1>2. ReportsOK
  BY <1>1, WorldAssumption DEF GateInit, ReportsOK
<1> QED
  BY <1>2, DecisionsAssumption DEF GateInit, VerdictsOK

\* The bias of given reports.
BiasOf(reports) == LET sum == MapThenSumSet(LAMBDA s : reports[s].measured.deviation, FormalSeeds)
                   IN IF sum < 0 THEN -sum ELSE sum

LEMMA BiasIsOfReports == Bias = BiasOf(report)
BY DEF Bias, BiasOf

LEMMA SameReports ==
  ASSUME UNCHANGED report
  PROVE  /\ \A v : PassesIn(v)' <=> PassesIn(v)
         /\ Reported' = Reported
<1>1. CountsSuffice' <=> CountsSuffice
  BY DEF CountsSuffice, Enough
<1>2. \A v : LagsIn(v)' = LagsIn(v)
  BY DEF LagsIn, LagRecovered
<1>3. Bias' = Bias
  <2>1. (Bias = BiasOf(report))'
    BY BiasIsOfReports, PTL
  <2>2. BiasOf(report)' = BiasOf(report)
    OBVIOUS
  <2> QED
    BY <2>1, <2>2, BiasIsOfReports
<1>4. Reported' = Reported
  BY DEF Reported
<1> QED
  BY <1>1, <1>2, <1>3, <1>4 DEF PassesIn, Enough

\* What a try, a stray or an edit leaves as it is.
LEMMA JobsStay ==
  ASSUME ReportsOK, UNCHANGED jobs, world' \in WorldVersions, sound' \in BOOLEAN
  PROVE  ReportsOK' /\ UNCHANGED report
  BY DEF ReportsOK, jobs

\* One more verdict, if it is what the reports make of its world.
LEMMA OneMore ==
  ASSUME VerdictsOK, UNCHANGED report, Reported = FormalSeeds,
         NEW v \in WorldVersions, verdicts' = verdicts \cup {Verdict(v)}
  PROVE  /\ \A w \in verdicts' : w \in [status : {"PASS", "FAIL"}, world : WorldVersions]
         /\ \A w \in verdicts' : w.status = "PASS" <=> PassesIn(w.world)'
         /\ verdicts' # {} /\ Reported' = FormalSeeds
<1>1. Verdict(v).status = StatusIn(v) /\ Verdict(v).world = v
      /\ Verdict(v) \in [status : {"PASS", "FAIL"}, world : WorldVersions]
  BY StatusSays DEF Verdict
<1>2. Verdict(v).status = "PASS" <=> PassesIn(Verdict(v).world)
  BY <1>1, StatusSays
<1> HIDE DEF Verdict
<1> QED
  BY <1>1, <1>2, SameReports DEF VerdictsOK

\* A report made of effects that are there (analyze_e01a_v2_job).
LEMMA AnalysisKeeps ==
  ASSUME ReportsOK, VerdictsOK, NEW s \in FormalSeeds, AnalyzeSeed(s)
  PROVE  ReportsOK' /\ VerdictsOK'
<1> DEFINE Measured == [passes : SUBSET Judged, deviation : Int, lag : Int]
           Reports == [by : WorldVersions \cup {0}, measured : Measured]
<1>1. effects[s] # 0 /\ report[s].by = 0 /\ UNCHANGED <<outcome, world, sound, effects, decided>>
  BY DEF AnalyzeSeed
<1>2. PICK passes \in IF effects[s] = world THEN {outcome[s].passes} ELSE {Judged, {}} :
        report' = [report EXCEPT ![s] = [by |-> world,
                                         measured |-> [outcome[s] EXCEPT !.passes = passes]]]
  BY DEF AnalyzeSeed
<1>3. outcome[s] \in Measured
  BY OutcomesAssumption DEF ReportsOK
<1> DEFINE new == [by |-> world, measured |-> [outcome[s] EXCEPT !.passes = passes]]
<1>4. /\ new \in Reports /\ new.by = world
      /\ new.measured.passes = passes /\ new.measured.lag = outcome[s].lag
  BY <1>2, <1>3 DEF ReportsOK
<1> HIDE DEF new
<1>5. report'[s] = new /\ \A r \in FormalSeeds : r # s => report'[r] = report[r]
  BY <1>2 DEF ReportsOK, new
<1>6. report' \in [FormalSeeds -> Reports]
  BY <1>2, <1>4 DEF ReportsOK, new
<1>7. effects[s] = world => passes = outcome[s].passes
  BY <1>2
<1>8. ReportsOK'
  BY <1>1, <1>4, <1>5, <1>6, <1>7 DEF ReportsOK
<1>9. verdicts = {} /\ strays = {}
  BY <1>1 DEF VerdictsOK, Reported
<1>10. VerdictsOK'
  BY <1>1, <1>9 DEF VerdictsOK, decided
<1> QED
  BY <1>8, <1>10

\* A try of the deciding job (aggregate_e01_v2_job).
LEMMA TriesKeep ==
  ASSUME ReportsOK, VerdictsOK, Decide01 \/ DecideInVain \/ RefuseRecord \/ LoseDecision
  PROVE  ReportsOK' /\ VerdictsOK'
<1>1. /\ decision = "WAITING" /\ decisions < MaxDecisions /\ Reported = FormalSeeds
      /\ decisions' = decisions + 1 /\ UNCHANGED <<jobs, world, sound>>
  BY DEF Decide01, DecideInVain, RefuseRecord, LoseDecision, Tries
<1>2. ReportsOK' /\ UNCHANGED report /\ world \in WorldVersions
  <2>1. world \in WorldVersions /\ sound \in BOOLEAN
    BY DEF ReportsOK
  <2> QED
    BY <1>1, <2>1, JobsStay
<1>3. Reported' = FormalSeeds /\ \A v : PassesIn(v)' <=> PassesIn(v)
  BY <1>1, <1>2, SameReports
<1>4. /\ decisions \in Nat /\ MaxDecisions \in Nat /\ losses \in 0..decisions
      /\ decisions' \in 0..MaxDecisions
      /\ losses' = losses => losses' \in 0..decisions'
      /\ losses' = losses + 1 => losses' \in 0..decisions' /\ losses' # 0
  BY <1>1, DecisionsAssumption DEF VerdictsOK
<1>5. /\ AnotherTry \in {"WAITING", "FAILED"}
      /\ AnotherTry = "FAILED" => decisions' = MaxDecisions
  BY <1>1, <1>4 DEF AnotherTry
<1>6. CASE Decide01
  <2>1. /\ verdicts' = verdicts \cup {Verdict(world)} /\ decision' = "COMPLETED"
        /\ UNCHANGED <<losses, strays>>
    BY <1>6 DEF Decide01
  <2> QED
    BY <1>1, <1>2, <1>4, <2>1, OneMore DEF VerdictsOK
<1>7. CASE DecideInVain
  <2>1. Verdict(world) \in verdicts /\ decision' = AnotherTry /\ UNCHANGED <<verdicts, losses, strays>>
    BY <1>7 DEF DecideInVain
  <2> QED
    BY <1>1, <1>2, <1>3, <1>4, <1>5, <2>1 DEF VerdictsOK
<1>8. CASE RefuseRecord
  <2>1. decision' = "REFUSED" /\ UNCHANGED <<verdicts, losses, strays>>
    BY <1>8 DEF RefuseRecord
  <2> QED
    BY <1>1, <1>2, <1>3, <1>4, <2>1 DEF VerdictsOK
<1>9. CASE LoseDecision
  <2>1. /\ decision' = AnotherTry /\ losses' = losses + 1
        /\ \/ UNCHANGED <<verdicts, strays>>
           \/ verdicts' = verdicts \cup {Verdict(world)} /\ UNCHANGED strays
           \/ strays' = strays \cup {world} /\ UNCHANGED verdicts
    BY <1>9 DEF LoseDecision
  <2>2. strays' \subseteq WorldVersions
    BY <1>2, <2>1 DEF VerdictsOK
  <2>3. verdicts = {} => losses' = decisions'
    BY <1>1, <2>1 DEF VerdictsOK
  <2>4. verdicts' = {} => verdicts = {}
    BY <2>1
  <2>5. CASE verdicts' = verdicts
    BY <1>2, <1>3, <1>4, <1>5, <2>1, <2>2, <2>3, <2>5 DEF VerdictsOK
  <2>6. CASE verdicts' = verdicts \cup {Verdict(world)}
    BY <1>1, <1>2, <1>4, <1>5, <2>1, <2>2, <2>6, OneMore DEF VerdictsOK
  <2> QED
    BY <2>1, <2>5, <2>6
<1> QED
  BY <1>2, <1>6, <1>7, <1>8, <1>9

\* A try that was taken for lost comes to its end.
LEMMA StraysKeep ==
  ASSUME ReportsOK, VerdictsOK, NEW v \in WorldVersions, DecideLate(v)
  PROVE  ReportsOK' /\ VerdictsOK'
<1>1. /\ v \in strays /\ strays' = strays \ {v}
      /\ verdicts' = verdicts \/ verdicts' = verdicts \cup {Verdict(v)}
      /\ UNCHANGED <<jobs, world, sound, decision, decisions, losses>>
  BY DEF DecideLate
<1>2. ReportsOK' /\ UNCHANGED report
  <2>1. world \in WorldVersions /\ sound \in BOOLEAN
    BY DEF ReportsOK
  <2> QED
    BY <1>1, <2>1, JobsStay
<1>3. Reported = FormalSeeds /\ losses # 0
  BY <1>1 DEF VerdictsOK
<1>4. CASE verdicts' = verdicts
  BY <1>1, <1>2, <1>3, <1>4, SameReports DEF VerdictsOK
<1>5. CASE verdicts' = verdicts \cup {Verdict(v)}
  BY <1>1, <1>2, <1>3, <1>5, OneMore DEF VerdictsOK
<1> QED
  BY <1>1, <1>2, <1>4, <1>5

LEMMA GateStep ==
  ASSUME ReportsOK, VerdictsOK, [GateNext]_gateVars
  PROVE  ReportsOK' /\ VerdictsOK'
<1>1. ASSUME NEW s \in FormalSeeds, GenerateEffects(s) PROVE ReportsOK' /\ VerdictsOK'
  <2>1. /\ effects' = [effects EXCEPT ![s] = world] /\ effects[s] = 0
        /\ UNCHANGED <<outcome, world, sound, report, decided>>
    BY <1>1 DEF GenerateEffects
  <2>2. report[s].by = 0
    BY <2>1 DEF ReportsOK
  <2>3. ReportsOK'
    BY <2>1, <2>2, WorldAssumption DEF ReportsOK
  <2>4. VerdictsOK'
    BY <2>1, SameReports DEF VerdictsOK, decided
  <2> QED
    BY <2>3, <2>4
<1>2. CASE EditWorld \/ DriftRecord \/ UNCHANGED gateVars
  <2>1. UNCHANGED <<jobs, decided>> /\ world' \in WorldVersions /\ sound' \in BOOLEAN
    BY <1>2 DEF EditWorld, DriftRecord, gateVars, jobs, decided, ReportsOK
  <2>2. ReportsOK' /\ UNCHANGED report
    BY <2>1, JobsStay
  <2>3. VerdictsOK'
    BY <2>1, <2>2, SameReports DEF VerdictsOK, decided
  <2> QED
    BY <2>2, <2>3
<1> QED
  BY <1>1, <1>2, AnalysisKeeps, TriesKeep, StraysKeep DEF GateNext

\* Two criteria that each hold on enough seeds hold together on as many as the
\* margins leave.
LEMMA TwoMargins ==
  ASSUME NEW A \in SUBSET FormalSeeds, NEW B \in SUBSET FormalSeeds, Enough(A), Enough(B)
  PROVE  Cardinality(A \cap B) >= 2 * RequiredSeeds - Cardinality(FormalSeeds)
<1>1. /\ IsFiniteSet(A) /\ IsFiniteSet(B) /\ IsFiniteSet(A \cup B)
      /\ Cardinality(A \cup B) <= Cardinality(FormalSeeds)
  <2>1. IsFiniteSet(FormalSeeds) /\ A \cup B \subseteq FormalSeeds
    BY RequiredAssumption
  <2> QED
    BY <2>1, FS_Subset
<1>2. Cardinality(A \cup B) = Cardinality(A) + Cardinality(B) - Cardinality(A \cap B)
  BY <1>1, FS_Union
<1>3. /\ Cardinality(A) \in Nat /\ Cardinality(B) \in Nat /\ Cardinality(A \cap B) \in Nat
      /\ Cardinality(A \cup B) \in Nat /\ Cardinality(FormalSeeds) \in Nat
  <2>1. IsFiniteSet(A \cap B)
    BY <1>1, FS_Intersection
  <2> QED
    BY <1>1, <2>1, FS_CardinalityType, RequiredAssumption
<1> QED
  BY <1>1, <1>2, <1>3, RequiredAssumption DEF Enough

LEMMA MoreSeeds ==
  ASSUME NEW A \in SUBSET FormalSeeds, NEW B \in SUBSET A
  PROVE  /\ Cardinality(B) <= Cardinality(A)
         /\ Cardinality(A) \in Nat /\ Cardinality(B) \in Nat
         /\ Enough(B) => Enough(A)
<1>1. IsFiniteSet(A) /\ IsFiniteSet(B) /\ Cardinality(B) <= Cardinality(A)
  BY FS_Subset, RequiredAssumption
<1> QED
  BY <1>1, FS_CardinalityType, RequiredAssumption DEF Enough

\* The seeds a criterion is counted on, and those the effects measure it on:
\* apart from the seeds of two worlds they are the same.
Counted(c, v) == IF c = "lag" THEN LagsIn(v) ELSE {s \in FormalSeeds : c \in report[s].measured.passes}
Together(c, d, v) == Mixed \cup {s \in FormalSeeds : {c, d} \subseteq Meets(v, s)}

LEMMA CountedIsMeasured ==
  ASSUME ReportsOK, Reported = FormalSeeds, NEW v, NEW c \in Judged \cup {"lag"}, NEW d \in Judged \cup {"lag"}
  PROVE  /\ Counted(c, v) \in SUBSET FormalSeeds /\ Together(c, d, v) \in SUBSET FormalSeeds
         /\ Counted(c, v) \cap Counted(d, v) \subseteq Together(c, d, v)
<1>1. ASSUME NEW s \in FormalSeeds, s \notin Mixed, NEW k, s \in Counted(k, v) PROVE k \in Meets(v, s)
  <2>1. report[s].measured.lag = outcome[s].lag /\ report[s].measured.passes = outcome[s].passes
    BY <1>1 DEF ReportsOK, Reported, Mixed
  <2> QED
    BY <1>1, <2>1 DEF Counted, LagsIn, LagRecovered, Meets
<1>2. Counted(c, v) \in SUBSET FormalSeeds /\ Counted(d, v) \in SUBSET FormalSeeds
  BY DEF Counted, LagsIn
<1>3. Together(c, d, v) \in SUBSET FormalSeeds
  BY DEF Together, Mixed
<1> QED
  BY <1>1, <1>2, <1>3 DEF Together

LEMMA VerdictsAreRight ==
  ASSUME ReportsOK, VerdictsOK
  PROVE  GateInv
<1>1. ASSUME NEW v \in WorldVersions, NEW status, [status |-> status, world |-> v] \in verdicts
      PROVE  (status = "PASS" <=> PassesIn(v)) /\ Reported = FormalSeeds
  <2> DEFINE w == [status |-> status, world |-> v]
  <2>1. w.status = status /\ w.world = v
    OBVIOUS
  <2> HIDE DEF w
  <2>2. w \in verdicts
    BY <1>1 DEF w
  <2> QED
    BY <2>1, <2>2 DEF VerdictsOK
<1>2. GateTypeOK
  <2>1. \A w \in verdicts : w \in [status : {"PASS", "FAIL"}, world : WorldVersions]
    BY DEF VerdictsOK
  <2> QED
    BY <2>1 DEF ReportsOK, VerdictsOK, GateTypeOK
<1>3. PassedByMargins
  <2> SUFFICES ASSUME NEW v \in WorldVersions, Passed(v), NEW c \in Judged \cup {"lag"}, NEW d \in Judged \cup {"lag"}
               PROVE  Cardinality(Together(c, d, v))
                        >= IF c = d THEN RequiredSeeds ELSE 2 * RequiredSeeds - Cardinality(FormalSeeds)
    BY DEF PassedByMargins, Together
  <2>1. PassesIn(v) /\ Reported = FormalSeeds
    BY <1>1 DEF Passed
  <2>2. Enough(Counted(c, v)) /\ Enough(Counted(d, v))
    BY <2>1 DEF PassesIn, CountsSuffice, Counted
  <2>3. /\ Counted(c, v) \in SUBSET FormalSeeds /\ Counted(d, v) \in SUBSET FormalSeeds
        /\ Together(c, d, v) \in SUBSET FormalSeeds
        /\ Counted(c, v) \cap Counted(d, v) \subseteq Together(c, d, v)
    BY <2>1, CountedIsMeasured
  <2> DEFINE both == Counted(c, v) \cap Counted(d, v)
  <2>4. both \in SUBSET Together(c, d, v)
    BY <2>3
  <2>5. Cardinality(both) >= IF c = d THEN RequiredSeeds ELSE 2 * RequiredSeeds - Cardinality(FormalSeeds)
    <3>1. CASE c = d
      <4>1. both = Counted(c, v)
        BY <3>1
      <4> QED
        BY <2>2, <3>1, <4>1 DEF Enough
    <3>2. CASE c # d
      BY <2>2, <2>3, <3>2, TwoMargins
    <3> QED
      BY <3>1, <3>2
  <2> HIDE DEF both
  <2>6. /\ Cardinality(both) <= Cardinality(Together(c, d, v))
        /\ Cardinality(both) \in Nat /\ Cardinality(Together(c, d, v)) \in Nat
    BY <2>3, <2>4, MoreSeeds
  <2>7. RequiredSeeds \in Nat /\ Cardinality(FormalSeeds) \in Nat
    BY RequiredAssumption, FS_CardinalityType
  <2> QED
    BY <2>5, <2>6, <2>7
<1>4. SeedGatesCarry
  <2> SUFFICES ASSUME NEW v \in WorldVersions, Decided(v), Bias <= MaxBias,
                      Enough({s \in FormalSeeds : SeedPasses(s) /\ report[s].by = v})
               PROVE  Passed(v)
    BY DEF SeedGatesCarry
  <2>1. PICK status \in {"PASS", "FAIL"} : [status |-> status, world |-> v] \in verdicts
    BY DEF Decided
  <2>2. status = "PASS" <=> PassesIn(v)
    BY <1>1, <2>1
  <2> DEFINE all == {s \in FormalSeeds : SeedPasses(s) /\ report[s].by = v}
  <2>3. \A c \in Judged : all \subseteq {s \in FormalSeeds : c \in report[s].measured.passes}
    BY DEF SeedPasses
  <2>4. all \subseteq LagsIn(v)
    BY DEF SeedPasses, LagsIn
  <2> HIDE DEF all
  <2>5. CountsSuffice
    <3>1. ASSUME NEW c \in Judged PROVE Enough({s \in FormalSeeds : c \in report[s].measured.passes})
      <4> DEFINE more == {s \in FormalSeeds : c \in report[s].measured.passes}
      <4>1. more \in SUBSET FormalSeeds /\ all \in SUBSET more /\ Enough(all)
        BY <2>3 DEF all
      <4> HIDE DEF more
      <4>2. Enough(more)
        BY <4>1, MoreSeeds
      <4> QED
        BY <4>2 DEF more
    <3> QED
      BY <3>1 DEF CountsSuffice
  <2>6. Enough(LagsIn(v))
    <3>1. LagsIn(v) \in SUBSET FormalSeeds /\ Enough(all)
      BY DEF LagsIn, all
    <3> QED
      BY <2>4, <3>1, MoreSeeds
  <2> QED
    BY <2>1, <2>2, <2>5, <2>6 DEF PassesIn, Passed
<1>5. OneVerdict
  <2>1. ASSUME NEW v \in WorldVersions PROVE Cardinality({w \in verdicts : w.world = v}) <= 1
    <3> DEFINE of == {w \in verdicts : w.world = v}
    <3>1. \A w \in of, x \in of : w = x
      BY DEF VerdictsOK
    <3>2. of = {} \/ \E w : of = {w}
      BY <3>1
    <3> HIDE DEF of
    <3>3. CASE of = {}
      BY <3>3, FS_EmptySet DEF of
    <3>4. ASSUME NEW w, of = {w} PROVE Cardinality(of) <= 1
      BY <3>4, FS_Singleton
    <3> QED
      BY <3>2, <3>3, <3>4 DEF of
  <2> QED
    BY <2>1 DEF OneVerdict, VerdictsOK
<1> QED
  BY <1>2, <1>3, <1>4, <1>5 DEF GateInv

\* However the world is edited and put back, and however often the deciding job
\* is lost and run again: apart from seeds of two worlds a gate that passes in a
\* world has as many seeds behind any two criteria as their margins leave, there
\* is one verdict of a world, and a run that lost no try has it exactly when it
\* completed.  (evaluate_e01_v2_gate, aggregate_e01_v2_job)
THEOREM GateIsSound == GateSpec => []GateInv
<1>1. ReportsOK /\ VerdictsOK /\ [GateNext]_gateVars => (ReportsOK /\ VerdictsOK)'
  BY GateStep
<1>2. ReportsOK /\ VerdictsOK => GateInv
  BY VerdictsAreRight
<1> QED
  BY <1>1, <1>2, GateStarts, PTL DEF GateSpec
=============================================================================
