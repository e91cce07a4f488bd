---------------------------- MODULE StageOneProofs ----------------------------
(***************************************************************************)
(* What Stage 1B keeps on disk, for any number of commands and kills - the *)
(* frozen suite and the cache of its sources; how it qualifies worlds, for *)
(* any worlds, plans and measurements; and the data it, Stage 2 and E02    *)
(* make, for any design, pool and length.                                  *)
(***************************************************************************)
EXTENDS SuiteFreeze, SourceCache, Qualification, TrajectoryData, ResourcePlanProofs

-----------------------------------------------------------------------------
(* The freeze.  When operators take turns, the position of the one busy call *)
(* determines what stands in the directory, in the pointer and aside.        *)

\* Where the busy call stands in the exchange: _publish_freeze_directory.
Position(c) ==
  /\ c \in Qualified
  /\ pc[c] = "staged" => selected = pointer /\ named[c] = pointer
  /\ pc[c] \in {"aside", "installed", "undo", "restore"} =>
       aside[c] = pointer /\ named[c] = pointer
  /\ pc[c] \in {"aside", "restore"} => selected = NoSuite
  /\ pc[c] = "installed" => selected = c
  /\ pc[c] = "frozen" => selected = c /\ pointer = c

TurnsInv == alone =>
  /\ \A c, d \in Busy : c = d
  /\ \A c \in Busy : Position(c)
  /\ Busy = {} /\ kills = 0 => selected = pointer
  /\ pointer # NoSuite => selected = pointer \/ \E c \in Freezes : aside[c] = pointer

FreezeInv == FreezeTypeOK /\ TurnsInv

\* The variables keep their types (freeze_suite).
THEOREM FreezeTyped == FreezeSpec => []FreezeTypeOK
<1>1. FreezeInit => FreezeTypeOK
  BY KillsAssumption DEF FreezeInit, FreezeTypeOK, Held, FreezeSteps
<1>2. FreezeTypeOK /\ [FreezeNext]_freezeVars => FreezeTypeOK'
  <2> SUFFICES ASSUME FreezeTypeOK, [FreezeNext]_freezeVars PROVE FreezeTypeOK'
    OBVIOUS
  <2>1. ASSUME NEW c \in Freezes, NEW p \in Held, Stage(c, p) PROVE FreezeTypeOK'
    BY <2>1 DEF FreezeTypeOK, Stage, FreezeGoes, FreezeSteps
  <2>2. ASSUME NEW c \in Freezes, Exchange(c) PROVE FreezeTypeOK'
    BY <2>2 DEF FreezeTypeOK, Exchange, SetAside, Install, Point, RemoveSelected, Restore,
                DropBackup, FreezeGoes, FreezeSteps, Held
  <2>3. ASSUME NEW c \in Freezes, KillFreeze(c) PROVE FreezeTypeOK'
    BY <2>3, KillsAssumption DEF FreezeTypeOK, KillFreeze, FreezeGoes, FreezeSteps
  <2>4. CASE UNCHANGED freezeVars
    BY <2>4 DEF FreezeTypeOK, freezeVars
  <2> QED BY <2>1, <2>2, <2>3, <2>4 DEF FreezeNext
<1> QED BY <1>1, <1>2, PTL DEF FreezeSpec

LEMMA TurnsInit == FreezeInit => TurnsInv
  BY DEF FreezeInit, TurnsInv, Busy, Exchanging

LEMMA TurnsStep == FreezeTypeOK /\ TurnsInv /\ [FreezeNext]_freezeVars => TurnsInv'
<1> SUFFICES ASSUME FreezeTypeOK, TurnsInv, [FreezeNext]_freezeVars, alone' PROVE TurnsInv'
  BY DEF TurnsInv
<1> USE FreezesAssumption
<1>0. alone
  BY DEF FreezeNext, freezeVars, Stage, Exchange, SetAside, Install, Point, RemoveSelected, Restore,
         DropBackup, KillFreeze
<1>1. ASSUME NEW c \in Freezes, NEW p \in Held, Stage(c, p) PROVE TurnsInv'
  <2>1. Busy = {}
    BY <1>0, <1>1 DEF Stage, Turn, Busy, Exchanging
  <2>2. CASE pc'[c] = "staged"
    <3>1. /\ c \in Qualified /\ selected' = pointer' /\ named'[c] = pointer'
          /\ Busy' = {c}
      BY <1>1, <2>1, <2>2
      DEF Stage, FreezeGoes, Admissible, SuiteVerifies, FreezeTypeOK, Busy, Exchanging
    <3> QED BY <1>1, <2>2, <3>1 DEF TurnsInv, Position, Stage
  <2>3. CASE pc'[c] # "staged"
    <3>1. Busy' = {}
      BY <1>1, <2>1, <2>3 DEF Stage, FreezeGoes, FreezeTypeOK, Busy, Exchanging
    <3> QED BY <1>0, <1>1, <2>1, <3>1 DEF TurnsInv, Stage
  <2> QED BY <2>2, <2>3
<1>2. ASSUME NEW c \in Freezes, Exchange(c) PROVE TurnsInv'
  <2>1. /\ Busy = {c} /\ Position(c)
        /\ pointer # NoSuite => selected = pointer \/ \E d \in Freezes : aside[d] = pointer
    BY <1>0, <1>2 DEF TurnsInv, Busy, Exchanging, Exchange, SetAside, Install, Point,
                      RemoveSelected, Restore, DropBackup
  <2>2. \A d \in Freezes : d # c => pc'[d] = pc[d] /\ aside'[d] = aside[d]
    BY <1>2 DEF Exchange, SetAside, Install, Point, RemoveSelected, Restore, DropBackup,
                FreezeGoes, FreezeTypeOK
  <2>3. Busy' \subseteq {c}
    BY <2>1, <2>2 DEF Busy
  <2>4. CASE SetAside(c)
    BY <2>1, <2>2, <2>3, <2>4
    DEF TurnsInv, SetAside, FreezeGoes, Position, FreezeTypeOK, Busy, Exchanging, Held
  <2>5. CASE Install(c)
    BY <2>1, <2>2, <2>3, <2>5
    DEF TurnsInv, Install, FreezeGoes, Position, FreezeTypeOK, Busy, Exchanging, Held
  <2>6. CASE Point(c)
    BY <2>1, <2>2, <2>3, <2>6
    DEF TurnsInv, Point, FreezeGoes, Position, FreezeTypeOK, Busy, Exchanging, Held
  <2>7. CASE RemoveSelected(c)
    BY <2>1, <2>2, <2>3, <2>7
    DEF TurnsInv, RemoveSelected, FreezeGoes, Position, FreezeTypeOK, Busy, Exchanging, Held
  <2>8. CASE Restore(c)
    BY <2>1, <2>2, <2>3, <2>8
    DEF TurnsInv, Restore, FreezeGoes, Position, FreezeTypeOK, Busy, Exchanging, Held
  <2>9. CASE DropBackup(c)
    BY <2>1, <2>2, <2>3, <2>9
    DEF TurnsInv, DropBackup, FreezeGoes, Position, FreezeTypeOK, Busy, Exchanging, Held
  <2> QED BY <1>2, <2>4, <2>5, <2>6, <2>7, <2>8, <2>9 DEF Exchange
<1>3. ASSUME NEW c \in Freezes, KillFreeze(c) PROVE TurnsInv'
  <2>1. Busy = {c} /\ Position(c)
    BY <1>0, <1>3 DEF TurnsInv, KillFreeze
  <2>2. Busy' = {}
    BY <1>3, <2>1 DEF KillFreeze, FreezeGoes, Busy, FreezeTypeOK, Exchanging
  <2>3. kills' # 0
    BY <1>3, KillsAssumption DEF KillFreeze, FreezeTypeOK
  <2> QED BY <1>0, <1>3, <2>2, <2>3 DEF TurnsInv, KillFreeze
<1>4. CASE UNCHANGED freezeVars
  BY <1>4 DEF TurnsInv, freezeVars, Busy, Position
<1> QED BY <1>1, <1>2, <1>3, <1>4 DEF FreezeNext

\* Type and position of the busy call hold in every state (freeze_suite).
THEOREM FreezeInvariant == FreezeSpec => []FreezeInv
<1>1. FreezeSpec => []FreezeTypeOK
  BY FreezeTyped
<1>2. FreezeInit => TurnsInv
  BY TurnsInit
<1>3. FreezeTypeOK /\ TurnsInv /\ [FreezeNext]_freezeVars => TurnsInv'
  BY TurnsStep
<1> QED BY <1>1, <1>2, <1>3, PTL DEF FreezeSpec, FreezeInv

\* When operators take turns, every call that ends without a kill leaves a
\* suite that verifies or none (_publish_freeze_directory's handler).
THEOREM ExchangesAreUndone == FreezeSpec => []ExchangeIsUndone
<1>1. FreezeInv => ExchangeIsUndone
  <2> SUFFICES ASSUME FreezeInv, alone, kills = 0, Quiet PROVE selected = pointer
    BY DEF ExchangeIsUndone
  <2>1. CASE Busy = {}
    BY <2>1 DEF FreezeInv, TurnsInv
  <2>2. CASE \E c \in Freezes : c \in Busy /\ pc[c] = "staged"
    BY <2>2 DEF FreezeInv, TurnsInv, Position
  <2> QED BY <2>1, <2>2 DEF Quiet, Busy
<1> QED BY <1>1, FreezeInvariant, PTL

\* When operators take turns, the suite active.json names survives every kill:
\* it stands in place or aside (freeze_suite, _publish_freeze_directory).
THEOREM NamedSuiteAlwaysSurvives == FreezeSpec => []NamedSuiteSurvives
<1>1. FreezeInv => NamedSuiteSurvives
  BY DEF FreezeInv, TurnsInv, NamedSuiteSurvives
<1> QED BY <1>1, FreezeInvariant, PTL

\* Undone or interrupted, an exchange of suites loses nothing that active.json
\* names, whatever calls are made and killed (_publish_freeze_directory).
THEOREM FreezeIsSafe == FreezeSpec => []FreezeSafe
  BY FreezeTyped, ExchangesAreUndone, NamedSuiteAlwaysSurvives, PTL DEF FreezeSafe

\* When operators take turns, active.json moves only to a qualified suite, from
\* the suite the user's authorization names (freeze_suite).
THEOREM ReplacementsAreAuthorized == FreezeSpec => ReplacedByAuthorization
<1>1. FreezeInv /\ [FreezeNext]_freezeVars =>
        [alone /\ pointer' # pointer =>
           \E c \in Qualified : pointer' = c /\ named[c] = pointer]_freezeVars
  <2> SUFFICES ASSUME FreezeInv, FreezeNext, alone, pointer' # pointer
               PROVE \E c \in Qualified : pointer' = c /\ named[c] = pointer
    BY DEF freezeVars
  <2>1. PICK c \in Freezes : Point(c) /\ pointer' = c
    BY DEF FreezeNext, Stage, Exchange, SetAside, Install, Point, RemoveSelected, Restore,
           DropBackup, KillFreeze
  <2>2. Position(c)
    BY <2>1 DEF FreezeInv, TurnsInv, Point, Busy, Exchanging
  <2> QED BY <2>1, <2>2 DEF Position, Point
<1> QED BY <1>1, FreezeInvariant, PTL DEF FreezeSpec, ReplacedByAuthorization

-----------------------------------------------------------------------------
(* The sources.  Nothing removes a checkout, so an import is sure of those it *)
(* has passed; a receipt of two builds names one that has long written its    *)
(* archive and whose archive stands there no more.                            *)

Unwritten == {"idle", "check", "fetched"}

\* No receipt of two builds can meet the archive of its manifest.
Harmless(receipt) ==
  receipt.sha # receipt.manifest =>
    receipt.manifest \in Builders /\ proc[receipt.manifest].pc \notin Unwritten
    /\ archive # receipt.manifest

\* What an importer knows of the cache and of its receipt.
Informed(p) ==
  /\ Harmless(proc[p].receipt)
  /\ proc[p].pc \in {"compare", "look", "rename", "record", "verify"} =>
       proc[p].receipt.sha = proc[p].receipt.manifest
  /\ proc[p].pc \in {"idle", "hash", "unpack", "compare"} => proc[p].next = 1
  /\ proc[p].pc \in {"fetched", "rename"} => More(p)
  /\ proc[p].pc \in {"look", "rename"} => \A i \in 1..(proc[p].next - 1) : cache[Pins[i]] # "absent"
  /\ proc[p].pc \in {"record", "verify"} => \A s \in PinSet : cache[s] # "absent"

SourcesInv == CacheInv /\ Harmless(sidecar) /\ \A p \in Processes : Informed(p)

LEMMA PinsAreSources ==
  /\ Len(Pins) \in Nat /\ DOMAIN Pins = 1..Len(Pins)
  /\ \A i \in 1..Len(Pins) : Pins[i] \in PinSet
  /\ \A s \in PinSet : \E i \in 1..Len(Pins) : s = Pins[i]
  BY PinsAssumption DEF PinSet

LEMMA SourcesInit == CacheInit => SourcesInv
<1> SUFFICES ASSUME CacheInit PROVE SourcesInv
  OBVIOUS
<1>1. proc \in [Processes -> [pc : Ended \cup BuildSteps \cup ImportSteps,
                             next : 1..(Len(Pins) + 1), receipt : Receipts]]
  BY PinsAreSources DEF CacheInit, Ended, Receipts, NoReceipt, Capsules
<1>2. CacheTypeOK
  <2>1. drifts \in 0..MaxDrifts /\ deaths \in 0..MaxDeaths
    BY TurnsAssumption DEF CacheInit
  <2>2. archive \in Capsules /\ sidecar \in Receipts /\ imported \in Receipts
    BY DEF CacheInit, Capsules, Receipts, NoReceipt
  <2> QED BY <1>1, <2>1, <2>2 DEF CacheInit, CacheTypeOK
<1>3. /\ imported = NoReceipt /\ sidecar.sha = sidecar.manifest
      /\ \A p \in Processes : proc[p].pc = "idle" /\ proc[p].next = 1 /\ proc[p].receipt = NoReceipt
  BY DEF CacheInit
<1> QED BY <1>2, <1>3
   DEF SourcesInv, CacheInv, ReceiptMeansSources, ImportsAreConsistent, Harmless, Informed,
                          NoReceipt

\* A step of p keeps everything if p stays informed: checkouts are not removed,
\* and an archive is written by a build that has not written one.
Steps == Ended \cup BuildSteps \cup ImportSteps

LEMMA StepKeeps ==
  ASSUME SourcesInv, NEW p \in Processes,
         NEW at \in Steps, NEW n \in 1..(Len(Pins) + 1), NEW receipt \in Receipts,
         proc' = [proc EXCEPT ![p] = [pc |-> at, next |-> n, receipt |-> receipt]],
         at \in Unwritten => proc[p].pc \in Unwritten,
         cache' \in [PinSet -> {"absent", "whole", "drifted"}],
         \A s \in PinSet : cache[s] # "absent" => cache'[s] # "absent",
         archive' = archive \/ (archive' = p /\ p \in Builders /\ proc[p].pc \in Unwritten),
         sidecar' \in Receipts, Harmless(sidecar)',
         imported' = imported \/ (imported' = proc[p].receipt /\ proc[p].pc = "record"),
         UNCHANGED <<inTurn, drifts>>, deaths' \in 0..MaxDeaths,
         proc'[p] = [pc |-> at, next |-> n, receipt |-> receipt] => Informed(p)'
  PROVE  SourcesInv'
<1>1. /\ proc' \in [Processes -> [pc : Steps, next : 1..(Len(Pins) + 1), receipt : Receipts]]
      /\ proc'[p] = [pc |-> at, next |-> n, receipt |-> receipt]
      /\ \A q \in Processes \ {p} : proc'[q] = proc[q]
  BY DEF SourcesInv, CacheInv, CacheTypeOK, Steps
<1>2. Informed(p) /\ proc[p].receipt \in Receipts
  BY DEF SourcesInv, CacheInv, CacheTypeOK
<1>3. CacheTypeOK'
  <2>1. archive' \in Capsules /\ imported' \in Receipts
    BY <1>2 DEF SourcesInv, CacheInv, CacheTypeOK, Capsules
  <2> QED BY <1>1, <2>1 DEF SourcesInv, CacheInv, CacheTypeOK, Steps
<1>4. ReceiptMeansSources' /\ ImportsAreConsistent'
  BY <1>2 DEF SourcesInv, CacheInv, ReceiptMeansSources, ImportsAreConsistent, Informed
<1>5. ASSUME NEW q \in Processes \ {p} PROVE Informed(q)'
  <2>1. Informed(q) /\ proc'[q] = proc[q] /\ proc[q].next \in 1..(Len(Pins) + 1)
    BY <1>1 DEF SourcesInv, CacheInv, CacheTypeOK
  <2>2. Harmless(proc[q].receipt)'
    BY <1>1, <2>1 DEF Informed, Harmless, Processes
  <2>3. More(q) => More(q)'
    BY <2>1 DEF More
  <2>4. proc[q].pc \in {"look", "rename"} => \A i \in 1..(proc[q].next - 1) : cache'[Pins[i]] # "absent"
    <3>1. \A i \in 1..(proc[q].next - 1) : Pins[i] \in PinSet
      BY <2>1, PinsAreSources
    <3> QED BY <2>1, <3>1 DEF Informed
  <2>5. proc[q].pc \in {"record", "verify"} => \A s \in PinSet : cache'[s] # "absent"
    BY <2>1 DEF Informed
  <2> QED BY <2>1, <2>2, <2>3, <2>4, <2>5 DEF Informed
<1> QED BY <1>1, <1>3, <1>4, <1>5 DEF SourcesInv, CacheInv

\* The same for steps that change nothing but where p is.
LEMMA MoveKeeps ==
  ASSUME SourcesInv, NEW p \in Processes,
         NEW at \in Steps, NEW n \in 1..(Len(Pins) + 1), NEW receipt \in {proc[p].receipt, sidecar},
         proc' = [proc EXCEPT ![p] = [pc |-> at, next |-> n, receipt |-> receipt]],
         at \in Unwritten => proc[p].pc \in Unwritten,
         UNCHANGED <<cache, archive, sidecar, imported, inTurn, drifts>>, deaths' \in 0..MaxDeaths,
         at \in {"compare", "look", "rename", "record", "verify"} => receipt.sha = receipt.manifest,
         at \in {"idle", "hash", "unpack", "compare"} => n = 1,
         at \in {"fetched", "rename"} => n <= Len(Pins),
         at \in {"look", "rename"} => \A i \in 1..(n - 1) : cache[Pins[i]] # "absent",
         at \in {"record", "verify"} => \A s \in PinSet : cache[s] # "absent"
  PROVE  SourcesInv'
<1>1. /\ receipt \in Receipts /\ sidecar \in Receipts /\ Harmless(receipt) /\ Harmless(sidecar)
      /\ cache \in [PinSet -> {"absent", "whole", "drifted"}]
  BY DEF SourcesInv, CacheInv, CacheTypeOK, Informed
<1>2. \A q \in Builders : proc[q].pc \notin Unwritten => proc'[q].pc \notin Unwritten
  BY DEF SourcesInv, CacheInv, CacheTypeOK, Processes
<1>3. Harmless(receipt)' /\ Harmless(sidecar)'
  BY <1>1, <1>2 DEF Harmless
<1>4. proc'[p] = [pc |-> at, next |-> n, receipt |-> receipt] => Informed(p)'
  BY <1>3 DEF Informed, More, Harmless
<1> QED BY <1>1, <1>3, <1>4, StepKeeps

\* Moves and Advance as updates of the whole record.
LEMMA ProcessMoves ==
  ASSUME SourcesInv, NEW p \in Processes, NEW at
  PROVE  /\ proc[p].pc \in Steps /\ proc[p].next \in 1..(Len(Pins) + 1) /\ proc[p].receipt \in Receipts
         /\ Moves(p, at) =>
              proc' = [proc EXCEPT ![p] = [pc |-> at, next |-> proc[p].next, receipt |-> proc[p].receipt]]
         /\ Advance(p, at) =>
              proc' = [proc EXCEPT ![p] = [pc |-> at, next |-> proc[p].next + 1, receipt |-> proc[p].receipt]]
         /\ More(p) => proc[p].next + 1 \in 1..(Len(Pins) + 1)
<1>1. proc[p] \in [pc : Steps, next : 1..(Len(Pins) + 1), receipt : Receipts]
  BY DEF SourcesInv, CacheInv, CacheTypeOK, Steps
<1>2. [proc[p] EXCEPT !.pc = at] = [pc |-> at, next |-> proc[p].next, receipt |-> proc[p].receipt]
  BY <1>1
<1>3. [proc[p] EXCEPT !.pc = at, !.next = proc[p].next + 1]
        = [pc |-> at, next |-> proc[p].next + 1, receipt |-> proc[p].receipt]
  <2> DEFINE moved == [proc[p] EXCEPT !.pc = at]
  <2>1. moved = [pc |-> at, next |-> proc[p].next, receipt |-> proc[p].receipt]
    BY <1>2
  <2> HIDE DEF moved
  <2>2. [moved EXCEPT !.next = proc[p].next + 1]
          = [pc |-> at, next |-> proc[p].next + 1, receipt |-> proc[p].receipt]
    BY <2>1
  <2> QED BY <2>2 DEF moved
<1>4. More(p) => proc[p].next + 1 \in 1..(Len(Pins) + 1)
  BY <1>1, PinsAreSources DEF More
<1> QED BY <1>1, <1>2, <1>3, <1>4 DEF Moves, Advance

\* materialize_source and the archive.
LEMMA BuildKeeps ==
  ASSUME SourcesInv, NEW b \in Builders, Build(b)
  PROVE  SourcesInv'
<1>0. /\ b \in Processes /\ deaths \in 0..MaxDeaths /\ Informed(b)
      /\ proc[b].pc \in Steps /\ proc[b].next \in 1..(Len(Pins) + 1) /\ proc[b].receipt \in Receipts
      /\ Len(Pins) \in Nat /\ sidecar \in Receipts /\ archive \in Capsules
      /\ cache \in [PinSet -> {"absent", "whole", "drifted"}]
  BY ProcessMoves, PinsAreSources DEF SourcesInv, CacheInv, CacheTypeOK, Processes
<1>f. ASSUME Moves(b, "failed"), proc[b].pc \in BuildSteps,
             UNCHANGED <<cache, archive, sidecar, imported>>, Fixed
      PROVE  SourcesInv'
  <2>1. proc' = [proc EXCEPT ![b] = [pc |-> "failed", next |-> proc[b].next, receipt |-> proc[b].receipt]]
    BY <1>0, <1>f, ProcessMoves
  <2>2. "failed" \in Steps /\ "failed" \notin Unwritten
    BY DEF Steps, Ended, Unwritten
  <2>3. UNCHANGED <<cache, archive, sidecar, imported, inTurn, drifts>> /\ deaths' \in 0..MaxDeaths
    BY <1>0, <1>f DEF Fixed
  <2> QED BY <1>0, <2>1, <2>2, <2>3, MoveKeeps
<1>1. CASE MaterializeSource(b)
  <2>0. /\ UNCHANGED <<cache, archive, sidecar, imported, inTurn, drifts>> /\ deaths' \in 0..MaxDeaths
        /\ More(b) /\ proc[b].pc \in Unwritten /\ {"check", "fetched"} \subseteq Steps \cap Unwritten
    BY <1>0, <1>1 DEF MaterializeSource, Stands, Fixed, Steps, BuildSteps, Unwritten
  <2>1. CASE Advance(b, "check")
    <3>1. proc' = [proc EXCEPT ![b] = [pc |-> "check", next |-> proc[b].next + 1, receipt |-> proc[b].receipt]]
      BY <1>0, <2>1, ProcessMoves
    <3>2. proc[b].next + 1 \in 1..(Len(Pins) + 1)
      BY <1>0, <2>0, ProcessMoves
    <3> QED BY <1>0, <2>0, <3>1, <3>2, MoveKeeps
  <2>2. CASE Moves(b, "fetched")
    <3>1. proc' = [proc EXCEPT ![b] = [pc |-> "fetched", next |-> proc[b].next, receipt |-> proc[b].receipt]]
      BY <1>0, <2>2, ProcessMoves
    <3>2. proc[b].next <= Len(Pins)
      BY <2>0 DEF More
    <3> QED BY <1>0, <2>0, <3>1, <3>2, MoveKeeps
  <2> QED BY <1>1, <1>f, <2>1, <2>2 DEF MaterializeSource, Stands, BuildSteps
<1>2. CASE InstallCheckout(b)
  <2>1. CASE cache[InHand(b)] = "absent"
    <3>1. /\ cache' \in [PinSet -> {"absent", "whole", "drifted"}]
          /\ \A s \in PinSet : cache[s] # "absent" => cache'[s] # "absent"
      BY <1>0, <1>2, <2>1 DEF InstallCheckout
    <3>2. More(b) /\ Advance(b, "check")
      BY <1>0, <1>2, <2>1 DEF InstallCheckout, Stands, Informed
    <3>3. proc' = [proc EXCEPT ![b] = [pc |-> "check", next |-> proc[b].next + 1, receipt |-> proc[b].receipt]]
      BY <1>0, <3>2, ProcessMoves
    <3>4. Harmless(proc[b].receipt)' /\ Harmless(sidecar)'
      BY <1>0, <1>2, <2>1, <3>3
         DEF InstallCheckout, SourcesInv, CacheInv, CacheTypeOK, Informed, Harmless, Stands, Unwritten, Processes
    <3>5. proc'[b] = [pc |-> "check", next |-> proc[b].next + 1, receipt |-> proc[b].receipt] => Informed(b)'
      BY <3>4 DEF Informed, Harmless
    <3>6. /\ UNCHANGED <<archive, sidecar, imported, inTurn, drifts>> /\ deaths' \in 0..MaxDeaths
          /\ "check" \in Steps /\ proc[b].pc \in Unwritten
      BY <1>0, <1>2, <2>1 DEF InstallCheckout, Stands, Fixed, Steps, BuildSteps, Unwritten
    <3>7. proc[b].next + 1 \in 1..(Len(Pins) + 1)
      BY <1>0, <3>2, ProcessMoves
    <3> QED BY <1>0, <3>1, <3>3, <3>4, <3>5, <3>6, <3>7, StepKeeps
  <2> QED BY <1>2, <1>f, <2>1 DEF InstallCheckout, Fails, Stands, BuildSteps
<1>3. CASE WriteArchive(b)
  <2>1. CASE archive' = b /\ Moves(b, "describe") /\ UNCHANGED <<cache, sidecar, imported>>
    <3>1. proc' = [proc EXCEPT ![b] = [pc |-> "describe", next |-> proc[b].next, receipt |-> proc[b].receipt]]
      BY <1>0, <2>1, ProcessMoves
    <3>2. archive' = b /\ proc[b].pc = "check" /\ UNCHANGED <<cache, sidecar, imported>>
      BY <1>3, <2>1 DEF WriteArchive, Stands
    <3>3. ASSUME NEW receipt \in Receipts, Harmless(receipt) PROVE Harmless(receipt)'
      <4> SUFFICES ASSUME receipt.sha # receipt.manifest
                   PROVE  /\ receipt.manifest \in Builders /\ proc'[receipt.manifest].pc \notin Unwritten
                          /\ archive' # receipt.manifest
        BY DEF Harmless
      <4>1. receipt.manifest \in Builders /\ receipt.manifest # b
        BY <3>2, <3>3 DEF Harmless, Unwritten
      <4>2. proc'[receipt.manifest] = proc[receipt.manifest]
        BY <3>1, <4>1 DEF SourcesInv, CacheInv, CacheTypeOK, Processes
      <4> QED BY <3>2, <3>3, <4>1, <4>2 DEF Harmless
    <3>4. Harmless(sidecar)' /\ Harmless(proc[b].receipt)'
      <4>1. Harmless(sidecar) /\ Harmless(proc[b].receipt)
        BY <1>0 DEF SourcesInv, Informed
      <4>2. proc'[b].receipt = proc[b].receipt
        BY <1>0, <3>1 DEF SourcesInv, CacheInv, CacheTypeOK
      <4> QED BY <1>0, <3>2, <3>3, <4>1, <4>2 DEF Harmless
    <3>5. proc'[b] = [pc |-> "describe", next |-> proc[b].next, receipt |-> proc[b].receipt] => Informed(b)'
      BY <3>4 DEF Informed, Harmless
    <3>6. /\ UNCHANGED <<inTurn, drifts>> /\ deaths' \in 0..MaxDeaths
          /\ "describe" \in Steps \ Unwritten /\ proc[b].pc \in Unwritten
      BY <1>0, <1>3, <3>2 DEF WriteArchive, Fixed, Steps, BuildSteps, Unwritten
    <3> QED BY <1>0, <3>1, <3>2, <3>4, <3>5, <3>6, StepKeeps
  <2> QED BY <1>3, <1>f, <2>1 DEF WriteArchive, Fails, Stands, BuildSteps
<1>4. CASE WriteSidecar(b)
  <2>1. CASE /\ sidecar' = [sha |-> archive, manifest |-> b] /\ Moves(b, "done")
             /\ UNCHANGED <<cache, archive, imported>>
    <3>1. proc' = [proc EXCEPT ![b] = [pc |-> "done", next |-> proc[b].next, receipt |-> proc[b].receipt]]
      BY <1>0, <2>1, ProcessMoves
    <3>2. proc[b].pc = "describe" /\ UNCHANGED <<cache, archive, imported>>
      BY <1>4, <2>1 DEF WriteSidecar, Stands
    <3>3. Harmless(proc[b].receipt)'
      BY <1>0, <3>1, <3>2 DEF SourcesInv, CacheInv, CacheTypeOK, Informed, Harmless, Unwritten, Processes
    <3>4. sidecar' \in Receipts /\ Harmless(sidecar)'
      BY <1>0, <2>1, <3>1, <3>2
         DEF SourcesInv, CacheInv, CacheTypeOK, Harmless, Unwritten, Receipts, Capsules
    <3>5. proc'[b] = [pc |-> "done", next |-> proc[b].next, receipt |-> proc[b].receipt] => Informed(b)'
      BY <3>3 DEF Informed, Harmless
    <3>6. /\ UNCHANGED <<inTurn, drifts>> /\ deaths' \in 0..MaxDeaths /\ "done" \in Steps \ Unwritten
      BY <1>0, <1>4 DEF WriteSidecar, Fixed, Steps, Ended, Unwritten
    <3> QED BY <1>0, <3>1, <3>2, <3>4, <3>5, <3>6, StepKeeps
  <2> QED BY <1>4, <1>f, <2>1 DEF WriteSidecar, Fails, Stands, BuildSteps
<1> QED BY <1>1, <1>2, <1>3, <1>4 DEF Build

\* HashCapsule as an update of the whole record.
LEMMA HashedReceipt ==
  ASSUME SourcesInv, NEW p \in Processes, HashCapsule(p), sidecar # NoReceipt, archive = sidecar.sha
  PROVE  proc' = [proc EXCEPT ![p] = [pc |-> "unpack", next |-> proc[p].next, receipt |-> sidecar]]
<1> DEFINE moved == [proc[p] EXCEPT !.pc = "unpack"]
           hashed == [moved EXCEPT !.receipt = sidecar]
<1>1. moved = [pc |-> "unpack", next |-> proc[p].next, receipt |-> proc[p].receipt]
  BY DEF SourcesInv, CacheInv, CacheTypeOK
<1>2. proc' = [proc EXCEPT ![p] = hashed]
  BY DEF HashCapsule
<1> HIDE DEF moved
<1>3. hashed = [pc |-> "unpack", next |-> proc[p].next, receipt |-> sidecar]
  BY <1>1
<1> HIDE DEF hashed
<1> QED BY <1>2, <1>3

\* import_source_capsule.
LEMMA ImportKeeps ==
  ASSUME SourcesInv, NEW i \in Importers, Import(i)
  PROVE  SourcesInv'
<1>0. /\ i \in Processes /\ deaths \in 0..MaxDeaths /\ Informed(i)
      /\ proc[i].pc \in Steps /\ proc[i].next \in 1..(Len(Pins) + 1) /\ proc[i].receipt \in Receipts
      /\ Len(Pins) \in Nat /\ sidecar \in Receipts /\ archive \in Capsules
      /\ cache \in [PinSet -> {"absent", "whole", "drifted"}]
  BY ProcessMoves, PinsAreSources DEF SourcesInv, CacheInv, CacheTypeOK, Processes
<1>s. ImportSteps \cup {"failed", "done"} \subseteq Steps \ Unwritten
  BY DEF Steps, ImportSteps, Ended, Unwritten
<1>f. ASSUME Moves(i, "failed") \/ Moves(i, "done"), UNCHANGED <<cache, archive, sidecar, imported>>, Fixed
      PROVE  SourcesInv'
  <2>1. PICK at \in {"failed", "done"} :
          proc' = [proc EXCEPT ![i] = [pc |-> at, next |-> proc[i].next, receipt |-> proc[i].receipt]]
    BY <1>0, <1>f, ProcessMoves
  <2>2. UNCHANGED <<cache, archive, sidecar, imported, inTurn, drifts>> /\ deaths' \in 0..MaxDeaths
    BY <1>0, <1>f DEF Fixed
  <2> QED BY <1>0, <1>s, <2>1, <2>2, MoveKeeps
<1> DEFINE Still == UNCHANGED <<cache, archive, sidecar, imported, inTurn, drifts>> /\ deaths' \in 0..MaxDeaths
<1>1. CASE HashCapsule(i)
  <2>1. CASE sidecar # NoReceipt /\ archive = sidecar.sha
    <3>1. proc' = [proc EXCEPT ![i] = [pc |-> "unpack", next |-> proc[i].next, receipt |-> sidecar]]
      BY <1>0, <1>1, <2>1, HashedReceipt
    <3>2. Still /\ "unpack" \in Steps \ Unwritten
      BY <1>0, <1>1, <1>s, <2>1 DEF HashCapsule, Fixed, ImportSteps
    <3>3. proc[i].next = 1
      BY <1>0, <1>1 DEF HashCapsule, Informed, Stands
    <3> QED BY <1>0, <3>1, <3>2, <3>3, MoveKeeps
  <2> QED BY <1>1, <1>f, <2>1 DEF HashCapsule, Fails
<1>2. CASE Unpack(i)
  <2>1. CASE archive = proc[i].receipt.manifest
    <3>1. proc' = [proc EXCEPT ![i] = [pc |-> "compare", next |-> proc[i].next, receipt |-> proc[i].receipt]]
      BY <1>0, <1>2, <2>1, ProcessMoves DEF Unpack
    <3>2. Still /\ "compare" \in Steps \ Unwritten
      BY <1>0, <1>2, <1>s, <2>1 DEF Unpack, Fixed, ImportSteps
    <3>3. proc[i].receipt.sha = proc[i].receipt.manifest /\ proc[i].next = 1
      BY <1>0, <1>2, <2>1 DEF Unpack, Stands, Informed, Harmless
    <3> QED BY <1>0, <3>1, <3>2, <3>3, MoveKeeps
  <2> QED BY <1>2, <1>f, <2>1 DEF Unpack, Fails
<1>3. CASE CompareExisting(i)
  <2>1. CASE \A s \in PinSet : cache[s] # "drifted"
    <3>1. proc' = [proc EXCEPT ![i] = [pc |-> "look", next |-> proc[i].next, receipt |-> proc[i].receipt]]
      BY <1>0, <1>3, <2>1, ProcessMoves DEF CompareExisting
    <3>2. Still /\ "look" \in Steps \ Unwritten /\ proc[i].receipt.sha = proc[i].receipt.manifest
      BY <1>0, <1>3, <1>s, <2>1 DEF CompareExisting, Fixed, ImportSteps, Informed, Stands
    <3>3. \A j \in 1..(proc[i].next - 1) : cache[Pins[j]] # "absent"
      <4>1. proc[i].next = 1
        BY <1>0, <1>3 DEF CompareExisting, Informed, Stands
      <4> QED BY <4>1
    <3> QED BY <1>0, <3>1, <3>2, <3>3, MoveKeeps
  <2> QED BY <1>3, <1>f, <2>1 DEF CompareExisting, Fails
<1>4. CASE Look(i)
  <2>0. /\ proc[i].receipt.sha = proc[i].receipt.manifest /\ Still
        /\ "look" \in Steps \ Unwritten /\ "rename" \in Steps \ Unwritten /\ "record" \in Steps \ Unwritten
    BY <1>0, <1>4, <1>s DEF Look, Informed, Stands, Fixed, ImportSteps
  <2>1. CASE ~More(i)
    <3>1. proc' = [proc EXCEPT ![i] = [pc |-> "record", next |-> proc[i].next, receipt |-> proc[i].receipt]]
      BY <1>0, <1>4, <2>1, ProcessMoves DEF Look
    <3>2. \A s \in PinSet : cache[s] # "absent"
      <4>1. \A j \in 1..Len(Pins) : j \in 1..(proc[i].next - 1)
        BY <1>0, <2>1 DEF More
      <4> QED BY <1>0, <1>4, <4>1, PinsAreSources DEF Look, Stands, Informed
    <3> QED BY <1>0, <2>0, <3>1, <3>2, MoveKeeps
  <2>2. CASE More(i) /\ cache[InHand(i)] # "absent"
    <3>1. proc' = [proc EXCEPT ![i] = [pc |-> "look", next |-> proc[i].next + 1, receipt |-> proc[i].receipt]]
      BY <1>0, <1>4, <2>2, ProcessMoves DEF Look
    <3>2. proc[i].next + 1 \in 1..(Len(Pins) + 1)
      BY <1>0, <2>2, ProcessMoves
    <3>3. \A j \in 1..((proc[i].next + 1) - 1) : cache[Pins[j]] # "absent"
      <4>1. \A j \in 1..((proc[i].next + 1) - 1) : j = proc[i].next \/ j \in 1..(proc[i].next - 1)
        BY <1>0
      <4> QED BY <1>0, <1>4, <2>2, <4>1 DEF Look, Stands, Informed, InHand
    <3> DEFINE n == proc[i].next + 1
    <3>4. /\ proc' = [proc EXCEPT ![i] = [pc |-> "look", next |-> n, receipt |-> proc[i].receipt]]
          /\ n \in 1..(Len(Pins) + 1) /\ \A j \in 1..(n - 1) : cache[Pins[j]] # "absent"
      BY <3>1, <3>2, <3>3
    <3> HIDE DEF n
    <3> QED BY <1>0, <2>0, <3>4, MoveKeeps
  <2>3. CASE More(i) /\ cache[InHand(i)] = "absent"
    <3>1. proc' = [proc EXCEPT ![i] = [pc |-> "rename", next |-> proc[i].next, receipt |-> proc[i].receipt]]
      BY <1>0, <1>4, <2>3, ProcessMoves DEF Look
    <3>2. proc[i].next <= Len(Pins) /\ \A j \in 1..(proc[i].next - 1) : cache[Pins[j]] # "absent"
      BY <1>0, <1>4, <2>3 DEF Look, Stands, Informed, More
    <3> QED BY <1>0, <2>0, <3>1, <3>2, MoveKeeps
  <2> QED BY <2>1, <2>2, <2>3
<1>5. CASE RenameStaged(i)
  <2>1. CASE cache[InHand(i)] = "absent"
    <3>1. More(i) /\ Advance(i, "look") /\ Informed(i) /\ proc[i].pc = "rename" /\ InHand(i) \in PinSet
      BY <1>0, <1>5, <2>1, PinsAreSources DEF RenameStaged, Stands, Informed, More, InHand
    <3>2. cache' = [cache EXCEPT ![InHand(i)] = "whole"] /\ UNCHANGED <<archive, sidecar, imported>>
      BY <1>5, <2>1 DEF RenameStaged
    <3>3. /\ cache' \in [PinSet -> {"absent", "whole", "drifted"}] /\ cache'[InHand(i)] # "absent"
          /\ \A s \in PinSet : cache[s] # "absent" => cache'[s] # "absent"
      BY <1>0, <3>1, <3>2
    <3>4. proc' = [proc EXCEPT ![i] = [pc |-> "look", next |-> proc[i].next + 1, receipt |-> proc[i].receipt]]
      BY <1>0, <3>1, ProcessMoves
    <3>5. Harmless(proc[i].receipt)' /\ Harmless(sidecar)' /\ proc'[i].receipt = proc[i].receipt
      BY <1>0, <3>1, <3>2, <3>4
         DEF SourcesInv, CacheInv, CacheTypeOK, Informed, Harmless, Unwritten, Processes
    <3>6. \A j \in 1..((proc[i].next + 1) - 1) : cache'[Pins[j]] # "absent"
      <4>1. \A j \in 1..((proc[i].next + 1) - 1) : j = proc[i].next \/ j \in 1..(proc[i].next - 1)
        BY <1>0
      <4>2. \A j \in 1..(proc[i].next - 1) : Pins[j] \in PinSet
        BY <1>0, PinsAreSources
      <4> QED BY <3>1, <3>3, <4>1, <4>2 DEF Informed, InHand
    <3>7. proc'[i] = [pc |-> "look", next |-> proc[i].next + 1, receipt |-> proc[i].receipt] => Informed(i)'
      BY <3>1, <3>5, <3>6 DEF Informed, Harmless
    <3>8. /\ UNCHANGED <<inTurn, drifts>> /\ deaths' \in 0..MaxDeaths /\ "look" \in Steps \ Unwritten
          /\ proc[i].next + 1 \in 1..(Len(Pins) + 1)
      BY <1>0, <1>5, <1>s, <3>1, ProcessMoves DEF RenameStaged, Fixed, ImportSteps
    <3> QED BY <1>0, <3>2, <3>3, <3>4, <3>5, <3>7, <3>8, StepKeeps
  <2> QED BY <1>5, <1>f, <2>1 DEF RenameStaged, Fails
<1>6. CASE RecordImport(i)
  <2>1. proc' = [proc EXCEPT ![i] = [pc |-> "verify", next |-> proc[i].next, receipt |-> proc[i].receipt]]
    BY <1>0, <1>6, ProcessMoves DEF RecordImport
  <2>2. /\ proc[i].pc = "record" /\ imported' = proc[i].receipt
        /\ UNCHANGED <<cache, archive, sidecar, inTurn, drifts>> /\ deaths' \in 0..MaxDeaths
        /\ "verify" \in Steps \ Unwritten
    BY <1>0, <1>6, <1>s DEF RecordImport, Stands, Fixed, ImportSteps
  <2>3. Harmless(proc[i].receipt)' /\ Harmless(sidecar)'
    BY <1>0, <2>1, <2>2 DEF SourcesInv, CacheInv, CacheTypeOK, Informed, Harmless, Unwritten, Processes
  <2>4. proc'[i] = [pc |-> "verify", next |-> proc[i].next, receipt |-> proc[i].receipt] => Informed(i)'
    BY <1>0, <2>2, <2>3 DEF Informed, Harmless
  <2> QED BY <1>0, <2>1, <2>2, <2>3, <2>4, StepKeeps
<1>7. CASE VerifyImport(i)
  BY <1>7, <1>f DEF VerifyImport, Fails
<1> QED BY <1>1, <1>2, <1>3, <1>4, <1>5, <1>6, <1>7 DEF Import

\* The processes start and die, and checkouts are edited.
LEMMA SurroundingsKeep ==
  ASSUME SourcesInv,
         (\E p \in Processes : StartProcess(p) \/ Die(p)) \/ (\E s \in PinSet : Drift(s))
  PROVE  SourcesInv'
<1>1. ASSUME NEW p \in Processes, StartProcess(p) \/ Die(p) PROVE SourcesInv'
  <2>0. deaths \in 0..MaxDeaths /\ Informed(p) /\ proc[p].next \in 1..(Len(Pins) + 1)
    BY DEF SourcesInv, CacheInv, CacheTypeOK
  <2>1. CASE StartProcess(p)
    <3>1. PICK at \in {"check", "hash"} :
            proc' = [proc EXCEPT ![p] = [pc |-> at, next |-> proc[p].next, receipt |-> proc[p].receipt]]
      BY <2>1, ProcessMoves DEF StartProcess
    <3>2. /\ UNCHANGED <<cache, archive, sidecar, imported, inTurn, drifts>> /\ deaths' \in 0..MaxDeaths
          /\ proc[p].pc = "idle" /\ proc[p].next = 1
      BY <2>0, <2>1 DEF StartProcess, Fixed, Stands, Informed
    <3>3. {"check", "hash"} \subseteq Steps /\ "idle" \in Unwritten
      BY DEF Steps, BuildSteps, ImportSteps, Unwritten
    <3> QED BY <2>0, <3>1, <3>2, <3>3, MoveKeeps
  <2>2. CASE Die(p)
    <3>1. proc' = [proc EXCEPT ![p] = [pc |-> "dead", next |-> proc[p].next, receipt |-> proc[p].receipt]]
      BY <2>2, ProcessMoves DEF Die
    <3>2. UNCHANGED <<cache, archive, sidecar, imported, inTurn, drifts>> /\ deaths' \in 0..MaxDeaths
      BY <2>0, <2>2, TurnsAssumption DEF Die
    <3>3. "dead" \in Steps \ Unwritten
      BY DEF Steps, Ended, Unwritten
    <3> QED BY <2>0, <3>1, <3>2, <3>3, MoveKeeps
  <2> QED BY <1>1, <2>1, <2>2
<1>2. ASSUME NEW s \in PinSet, Drift(s) PROVE SourcesInv'
  <2>1. /\ cache' \in [PinSet -> {"absent", "whole", "drifted"}] /\ drifts' \in 0..MaxDrifts
        /\ \A q \in PinSet : cache[q] # "absent" => cache'[q] # "absent"
        /\ UNCHANGED <<archive, sidecar, imported, proc, inTurn, deaths>>
    BY <1>2, TurnsAssumption DEF Drift, SourcesInv, CacheInv, CacheTypeOK
  <2>2. CacheTypeOK' /\ ReceiptMeansSources' /\ ImportsAreConsistent' /\ Harmless(sidecar)'
    BY <2>1 DEF SourcesInv, CacheInv, CacheTypeOK, ReceiptMeansSources, ImportsAreConsistent, Harmless
  <2>3. ASSUME NEW q \in Processes PROVE Informed(q)'
    <3>1. Informed(q) /\ \A j \in 1..(proc[q].next - 1) : Pins[j] \in PinSet
      BY PinsAreSources DEF SourcesInv, CacheInv, CacheTypeOK
    <3> QED BY <2>1, <3>1 DEF Informed, Harmless, More
  <2> QED BY <2>2, <2>3 DEF SourcesInv, CacheInv
<1> QED BY <1>1, <1>2

\* The inductive invariant of the cache.
THEOREM SourcesInvariant == CacheSpec => []SourcesInv
<1>1. SourcesInv /\ [CacheNext]_cacheVars => SourcesInv'
  <2> SUFFICES ASSUME SourcesInv, [CacheNext]_cacheVars PROVE SourcesInv'
    OBVIOUS
  <2>1. CASE CacheNext
    BY <2>1, BuildKeeps, ImportKeeps, SurroundingsKeep DEF CacheNext
  <2>2. CASE UNCHANGED cacheVars
    BY <2>2 DEF cacheVars, SourcesInv, CacheInv, CacheTypeOK, ReceiptMeansSources, ImportsAreConsistent,
                Harmless, Informed, More
  <2> QED BY <2>1, <2>2
<1> QED BY <1>1, SourcesInit, PTL DEF CacheSpec

\* A recorded import is of one capsule, and of all its sources, whatever races
\* and kills came before it (import_source_capsule, build_source_capsule).
THEOREM RecordedImportsAreWhole == CacheSpec => []CacheInv
  BY SourcesInvariant, PTL DEF SourcesInv

\* Commands in turn: what the busy importer has seen is still so.
InTurnInv ==
  /\ drifts = 0 => \A s \in PinSet : cache[s] # "drifted"
  /\ inTurn => /\ \A p, q \in Alive : p = q
               /\ \A i \in Importers :
                    /\ Stands(i, "unpack") => archive = sidecar.sha /\ proc[i].receipt = sidecar
                    /\ Stands(i, "rename") => cache[InHand(i)] = "absent"

LEMMA InTurnStep ==
  ASSUME SourcesInv, InTurnInv, [CacheNext]_cacheVars
  PROVE  InTurnInv'
<1>1. ASSUME NEW p \in Processes, \A q \in Processes \ {p} : proc'[q] = proc[q],
             p \in Alive \/ (inTurn => Alive = {}), UNCHANGED inTurn,
             p \in Importers =>
               /\ proc'[p].pc = "unpack" => archive' = sidecar'.sha /\ proc'[p].receipt = sidecar'
               /\ proc'[p].pc = "rename" => cache'[InHand(p)'] = "absent",
             drifts' = 0 => \A s \in PinSet : cache'[s] # "drifted"
      PROVE  InTurnInv'
  <2>1. inTurn => \A q \in Processes \ {p} : proc'[q].pc \in Ended
    BY <1>1 DEF InTurnInv, Alive
  <2>2. \A q \in Processes \ {p} : proc'[q].pc \in Ended => proc'[q].pc \notin {"unpack", "rename"}
    BY DEF Ended
  <2>3. inTurn' => \A q, r \in Alive' : q = r
    BY <1>1, <2>1 DEF Alive
  <2> QED BY <1>1, <2>1, <2>2, <2>3 DEF InTurnInv, Stands, Processes
<1>2. ASSUME NEW p \in Processes, NEW at, Moves(p, at) \/ Advance(p, at),
             proc[p].pc \notin Ended \/ (inTurn => Alive = {}), at \notin {"unpack", "rename"},
             UNCHANGED <<inTurn, drifts>>,
             \A s \in PinSet : cache'[s] \in {cache[s], "whole"}
      PROVE  InTurnInv'
  <2>1. proc'[p].pc = at /\ \A q \in Processes \ {p} : proc'[q] = proc[q]
    <3>1. PICK n : proc' = [proc EXCEPT ![p] = [pc |-> at, next |-> n, receipt |-> proc[p].receipt]]
      BY <1>2, ProcessMoves
    <3> QED BY <3>1 DEF SourcesInv, CacheInv, CacheTypeOK
  <2>2. drifts' = 0 => \A s \in PinSet : cache'[s] # "drifted"
    BY <1>2 DEF InTurnInv
  <2> QED BY <1>1, <1>2, <2>1, <2>2 DEF Alive
<1>3. ASSUME NEW p \in Processes, StartProcess(p) \/ Die(p) PROVE InTurnInv'
  <2>1. PICK at \in {"check", "hash", "dead"} : Moves(p, at)
    BY <1>3 DEF StartProcess, Die
  <2> QED BY <1>2, <1>3, <2>1 DEF StartProcess, Die, Fixed, Alive
<1>4. ASSUME NEW b \in Builders, Build(b) PROVE InTurnInv'
  <2>1. b \in Processes /\ proc[b].pc \notin Ended
    BY <1>4
       DEF Build, MaterializeSource, InstallCheckout, WriteArchive, WriteSidecar, Stands, Processes, Ended
  <2>2. PICK at \in {"check", "fetched", "failed", "describe", "done"} : Moves(b, at) \/ Advance(b, at)
    BY <1>4 DEF Build, MaterializeSource, InstallCheckout, WriteArchive, WriteSidecar, Fails
  <2>3. UNCHANGED <<inTurn, drifts>>
    BY <1>4 DEF Build, MaterializeSource, InstallCheckout, WriteArchive, WriteSidecar, Fails, Fixed
  <2>4. \A s \in PinSet : cache'[s] \in {cache[s], "whole"}
    BY <1>4 DEF Build, MaterializeSource, InstallCheckout, WriteArchive, WriteSidecar, Fails,
               SourcesInv, CacheInv, CacheTypeOK
  <2> QED BY <1>2, <2>1, <2>2, <2>3, <2>4
<1>5. ASSUME NEW i \in Importers, Import(i) PROVE InTurnInv'
  <2>0. /\ i \in Processes /\ proc[i].pc \notin Ended /\ UNCHANGED <<inTurn, drifts>>
        /\ \A s \in PinSet : cache'[s] \in {cache[s], "whole"}
    <3>1. i \in Processes /\ proc[i].pc \notin Ended
      BY <1>5
         DEF Import, HashCapsule, Unpack, CompareExisting, Look, RenameStaged, RecordImport, VerifyImport,
                 Stands, Processes, Ended
    <3>2. UNCHANGED <<inTurn, drifts>>
      BY <1>5
         DEF Import, HashCapsule, Unpack, CompareExisting, Look, RenameStaged, RecordImport, VerifyImport,
                 Fixed
    <3>3. \A s \in PinSet : cache'[s] \in {cache[s], "whole"}
      BY <1>5
         DEF Import, HashCapsule, Unpack, CompareExisting, Look, RenameStaged, RecordImport, VerifyImport,
                 Fails, SourcesInv, CacheInv, CacheTypeOK
    <3> QED BY <3>1, <3>2, <3>3
  <2>1. CASE HashCapsule(i) /\ sidecar # NoReceipt /\ archive = sidecar.sha
    <3>1. UNCHANGED <<cache, archive, sidecar, imported>>
      BY <2>1 DEF HashCapsule
    <3>2. proc' = [proc EXCEPT ![i] = [pc |-> "unpack", next |-> proc[i].next, receipt |-> sidecar]]
      BY <2>0, <2>1, HashedReceipt
    <3>3. /\ proc'[i].pc = "unpack" /\ proc'[i].receipt = sidecar
          /\ \A q \in Processes \ {i} : proc'[q] = proc[q]
      BY <2>0, <3>2 DEF SourcesInv, CacheInv, CacheTypeOK
    <3> QED BY <1>1, <2>0, <2>1, <3>1, <3>3 DEF InTurnInv, Alive
  <2>2. CASE Look(i) /\ More(i) /\ cache[InHand(i)] = "absent"
    <3>1. Moves(i, "rename") /\ UNCHANGED <<cache, archive, sidecar, imported>>
      BY <2>2 DEF Look
    <3>2. proc' = [proc EXCEPT ![i] = [pc |-> "rename", next |-> proc[i].next, receipt |-> proc[i].receipt]]
      BY <2>0, <3>1, ProcessMoves
    <3>3. /\ proc'[i].pc = "rename" /\ proc'[i].next = proc[i].next
          /\ \A q \in Processes \ {i} : proc'[q] = proc[q]
      BY <2>0, <3>2 DEF SourcesInv, CacheInv, CacheTypeOK
    <3> QED BY <1>1, <2>0, <2>2, <3>1, <3>3 DEF InTurnInv, Alive, InHand
  <2>3. CASE ~(HashCapsule(i) /\ sidecar # NoReceipt /\ archive = sidecar.sha)
             /\ ~(Look(i) /\ More(i) /\ cache[InHand(i)] = "absent")
    <3>1. PICK at \in {"failed", "compare", "look", "record", "verify", "done"} : Moves(i, at) \/ Advance(i, at)
      BY <1>5, <2>3 DEF Import, HashCapsule, Unpack, CompareExisting, Look, RenameStaged, RecordImport,
                        VerifyImport, Fails
    <3> QED BY <1>2, <2>0, <3>1
  <2> QED BY <2>1, <2>2, <2>3
<1>6. ASSUME NEW s \in PinSet, Drift(s) PROVE InTurnInv'
  <2>1. drifts' # 0 /\ UNCHANGED <<archive, sidecar, proc, inTurn>>
    BY <1>6 DEF Drift, SourcesInv, CacheInv, CacheTypeOK
  <2>2. \A q : cache[q] = "absent" /\ q \in PinSet => cache'[q] = "absent"
    BY <1>6 DEF Drift, SourcesInv, CacheInv, CacheTypeOK
  <2>3. \A i \in Importers : Stands(i, "rename") => InHand(i) \in PinSet
    BY PinsAreSources DEF SourcesInv, CacheInv, CacheTypeOK, Informed, Stands, More, InHand, Processes
  <2> QED BY <2>1, <2>2, <2>3 DEF InTurnInv, Alive, Stands, InHand
<1>7. CASE UNCHANGED cacheVars
  BY <1>7 DEF cacheVars, InTurnInv, Alive, Stands, InHand
<1> QED BY <1>3, <1>4, <1>5, <1>6, <1>7 DEF CacheNext

\* Where commands run one at a time and nobody edits a checkout, an import of a
\* capsule whose two files agree does not fail, whatever was killed before
\* (import_source_capsule, _publish_checkouts).
THEOREM ImportsCanBeRepeated == CacheSpec => InterruptedImportRepeats
<1>1. CacheInit => InTurnInv
  BY DEF CacheInit, InTurnInv, Alive, Ended, Stands, Processes
<1>2. SourcesInv /\ InTurnInv /\ [CacheNext]_cacheVars =>
        [(inTurn /\ drifts = 0 /\ CapsuleAgrees) =>
           \A i \in Importers : Stands(i, "failed")' => Stands(i, "failed")]_cacheVars
  <2> SUFFICES ASSUME SourcesInv, InTurnInv, CacheNext, inTurn, drifts = 0, CapsuleAgrees,
                      NEW i \in Importers, proc'[i].pc = "failed", proc[i].pc # "failed"
               PROVE  FALSE
    BY DEF cacheVars, Stands
  <2>0. i \in Processes /\ i \notin Builders /\ Informed(i)
    BY BuildersAssumption DEF Processes, SourcesInv
  <2>1. ASSUME NEW p \in Processes, StartProcess(p) \/ Die(p) PROVE FALSE
    <3>1. PICK at \in {"check", "hash", "dead"} : Moves(p, at)
      BY <2>1 DEF StartProcess, Die
    <3> QED BY <2>0, <3>1 DEF Moves, SourcesInv, CacheInv, CacheTypeOK
  <2>2. ASSUME NEW b \in Builders, Build(b) PROVE FALSE
    <3>1. PICK at : Moves(b, at) \/ Advance(b, at)
      BY <2>2 DEF Build, MaterializeSource, InstallCheckout, WriteArchive, WriteSidecar, Fails
    <3> QED BY <2>0, <3>1 DEF Moves, Advance, SourcesInv, CacheInv, CacheTypeOK
  <2>3. ASSUME NEW s \in PinSet, Drift(s) PROVE FALSE
    BY <2>3 DEF Drift
  <2>4. ASSUME NEW j \in Importers, j # i, Import(j) PROVE FALSE
    <3>1. proc'[i] = proc[i]
      BY <2>0, <2>4 DEF Import, HashCapsule, Unpack, CompareExisting, Look, RenameStaged, RecordImport,
                        VerifyImport, Fails, Moves, Advance, SourcesInv, CacheInv, CacheTypeOK
    <3> QED BY <3>1
  <2>5. ~Import(i)
    <3>1. /\ \A s \in PinSet : cache[s] # "drifted" /\ cache[s] \in {"absent", "whole", "drifted"}
          /\ sidecar # NoReceipt /\ archive = sidecar.sha /\ archive = sidecar.manifest
      BY BuildersAssumption DEF InTurnInv, CapsuleAgrees, NoReceipt, SourcesInv, CacheInv, CacheTypeOK
    <3>2. SUFFICES ASSUME Import(i) PROVE \E at \in Steps \ {"failed"} : proc'[i].pc = at
      OBVIOUS
    <3>3. HashCapsule(i) => proc'[i].pc = "unpack"
      <4> SUFFICES ASSUME HashCapsule(i) PROVE proc'[i].pc = "unpack"
        OBVIOUS
      <4>1. proc' = [proc EXCEPT ![i] = [pc |-> "unpack", next |-> proc[i].next, receipt |-> sidecar]]
        BY <2>0, <3>1, HashedReceipt
      <4> QED BY <2>0, <4>1 DEF SourcesInv, CacheInv, CacheTypeOK
    <3>4. ~HashCapsule(i) => \E at \in Steps \ {"failed"} : Moves(i, at) \/ Advance(i, at)
      <4>1. Unpack(i) => Moves(i, "compare")
        BY <3>1 DEF InTurnInv, Unpack, Stands
      <4>2. CompareExisting(i) => Moves(i, "look")
        BY <3>1 DEF CompareExisting
      <4>3. Look(i) => \E at \in {"record", "look", "rename"} : Moves(i, at) \/ Advance(i, at)
        BY DEF Look
      <4>4. RenameStaged(i) => Advance(i, "look")
        BY DEF InTurnInv, RenameStaged, Stands
      <4>5. RecordImport(i) => Moves(i, "verify")
        BY DEF RecordImport
      <4>6. VerifyImport(i) => Moves(i, "done")
        BY <2>0, <3>1 DEF VerifyImport, Stands, Informed
      <4> QED BY <3>2, <4>1, <4>2, <4>3, <4>4, <4>5, <4>6 DEF Import, Steps, Ended, ImportSteps
    <3>5. \A at : Moves(i, at) \/ Advance(i, at) => proc'[i].pc = at
      <4> TAKE at
      <4>1. CASE Moves(i, at)
        BY <2>0, <4>1, ProcessMoves DEF SourcesInv, CacheInv, CacheTypeOK
      <4>2. CASE Advance(i, at)
        BY <2>0, <4>2, ProcessMoves DEF SourcesInv, CacheInv, CacheTypeOK
      <4> QED BY <4>1, <4>2
    <3>6. "unpack" \in Steps \ {"failed"}
      BY DEF Steps, ImportSteps
    <3> QED BY <3>3, <3>4, <3>5, <3>6
  <2> QED BY <2>1, <2>2, <2>3, <2>4, <2>5 DEF CacheNext
<1> QED BY <1>1, <1>2, InTurnStep, SourcesInvariant, PTL DEF CacheSpec, InterruptedImportRepeats
-----------------------------------------------------------------------------
(* Qualification.  Once every candidate has been tried, the checks of the    *)
(* gates succeed for those that have earned it; what is decided then rests on *)
(* nothing that changes any more, and every task is needed for the receipt.   *)

\* What a candidate has measured seed by seed, of which a total is the sum.
Scores(w, m, field) == [s \in plan.seeds |-> Value(w, s, m, field)]

LEMMA TotalIsSum ==
  ASSUME plan \in Plans, NEW compared, NEW w, NEW m, NEW field
  PROVE  Total(compared, w, m, field) = Sum(Scores(w, m, field), Rows(compared, w, m))
<1> DEFINE S == Rows(compared, w, m)
           v == Scores(w, m, field)
           Adds(iter) == iter = [s \in SUBSET S |->
              IF s = {} THEN 0 ELSE Value(w, Pick(s), m, field) + iter[s \ {Pick(s)}]]
           f == CHOOSE iter : Adds(iter)
<1>1. S \in SUBSET plan.seeds /\ IsFiniteSet(S)
  <2>1. S \in SUBSET plan.seeds
    BY DEF Rows
  <2> HIDE DEF S
  <2> QED BY <2>1, PlansAssumption, FS_Subset
<1>2. Total(compared, w, m, field) = f[S]
  BY DEF Total, MapThenSumSet, MapThenFoldSet, Pick
<1> HIDE DEF S
<1>3. ASSUME NEW g PROVE Adds(g) <=> AddsUp(g, S, v)
  <2>1. \A s \in SUBSET S : s # {} => v[Pick(s)] = Value(w, Pick(s), m, field)
    BY <1>1, PickIsIn DEF Scores
  <2> HIDE DEF v
  <2> QED BY <2>1 DEF AddsUp
<1> HIDE DEF v
<1>4. \E g : AddsUp(g, S, v)
  BY <1>1, SumExists
<1>5. AddsUp(f, S, v)
  <2>1. Adds(f)
    <3> HIDE DEF Adds
    <3> QED BY <1>3, <1>4
  <2> QED BY <1>3, <2>1
<1> HIDE DEF f
<1> DEFINE h == CHOOSE iter : AddsUp(iter, S, v)
<1>6. AddsUp(h, S, v) /\ Sum(v, S) = h[S]
  BY <1>4 DEF Sum
<1> HIDE DEF h
<1> QED BY <1>1, <1>2, <1>5, <1>6, AddsUpAlike DEF S, v

TotalsAddUp == plan \in Plans =>
  \A w, m, field : Total(Candidates, w, m, field) = Sum(Scores(w, m, field), Rows(Candidates, w, m))

LEMMA TotalsAreAddedUp == TotalsAddUp
BY TotalIsSum DEF TotalsAddUp

\* Of some numbers one is the greatest.
LEMMA GreatestNumber ==
  ASSUME NEW S, IsFiniteSet(S), S # {}, NEW f, \A x \in S : f[x] \in Int
  PROVE  \E x \in S : \A y \in S : f[x] >= f[y]
<1> DEFINE F == {s \in SUBSET S : s # {} /\ ~\E x \in s : \A y \in s : f[x] >= f[y]}
<1> SUFFICES ASSUME F # {} PROVE FALSE
  OBVIOUS
<1>1. PICK s \in F : \A u \in SUBSET s : u \in F => u = s
  <2> HIDE DEF F
  <2>1. F \in SUBSET SUBSET S
    BY DEF F
  <2> QED BY <2>1, SmallestSet
<1>2. PICK x \in s : TRUE
  OBVIOUS
<1>3. f[x] \in Int
  BY <1>2
<1>4. s \ {x} # {}
  BY <1>2, <1>3
<1>5. PICK y \in s \ {x} : \A z \in s \ {x} : f[y] >= f[z]
  <2>1. s \ {x} \in SUBSET s /\ s \ {x} # s
    BY <1>2
  <2> DEFINE rest == s \ {x}
  <2>2. rest \in SUBSET S /\ rest \notin F
    <3> HIDE DEF F
    <3>1. s \in SUBSET S
      BY DEF F
    <3> QED BY <1>1, <2>1, <3>1
  <2>3. rest # {}
    BY <1>4
  <2>4. \E a \in rest : \A b \in rest : f[a] >= f[b]
    <3> HIDE DEF rest
    <3> QED BY <2>2, <2>3
  <2> QED BY <2>4
<1>6. f[y] \in Int /\ \A z \in s : f[z] \in Int
  BY <1>5
<1> QED BY <1>2, <1>3, <1>5, <1>6

-----------------------------------------------------------------------------
(* The gates *)

\* Every candidate has been tried; what it measured are numbers.
Tried ==
  /\ plan \in Plans /\ DOMAIN measured = Candidates
  /\ \A c \in Candidates : measured[c] \in Measurements

LEMMA CandidatesAre ==
  ASSUME plan \in Plans
  PROVE  /\ \A w, s, m : <<w, s, m>> \in Candidates <=> w \in Targets /\ s \in plan.seeds /\ m \in plan.models
         /\ Targets \subseteq Primary
         /\ \A c \in Candidates : c = <<c[1], c[2], c[3]>>
BY PlansAssumption DEF Candidates, CandidatesOf, Targets, TargetsOf

LEMMA MeasuredAreNumbers ==
  ASSUME Tried, NEW w \in Targets, NEW m \in plan.models, NEW field \in {"seen", "unseen", "slack"}
  PROVE  /\ \A s \in plan.seeds : Value(w, s, m, field) \in Int
         /\ Rows(Candidates, w, m) = plan.seeds
         /\ Total(Candidates, w, m, field) \in Int
         /\ Skill(Candidates, w, m) \in Int
<1>1. Rows(Candidates, w, m) = plan.seeds
  BY CandidatesAre DEF Rows, Tried
<1>2. ASSUME NEW g \in {"seen", "unseen", "slack"}
      PROVE  /\ \A s \in plan.seeds : Value(w, s, m, g) \in Int
             /\ Total(Candidates, w, m, g) \in Int
  <2>1. \A s \in plan.seeds : measured[<<w, s, m>>] \in [seen : Int, unseen : Int, slack : Int]
    BY CandidatesAre, MeasurementsAssumption DEF Tried
  <2>2. \A s \in plan.seeds : Value(w, s, m, g) \in Int
    BY <2>1 DEF Value
  <2>3. \A s \in plan.seeds : Scores(w, m, g)[s] \in Int
    BY <2>2 DEF Scores
  <2>4. Sum(Scores(w, m, g), plan.seeds) \in Int
    BY <2>3, SumIsInt, PlansAssumption DEF Tried
  <2> QED BY <1>1, <2>2, <2>4, TotalIsSum DEF Tried
<1> QED BY <1>1, <1>2 DEF Skill

\* What the gates are given of the noted failures and the smoke tests.
Compared == Candidates \ noted
Operable(w) == {m \in plan.models : \A s \in plan.seeds : <<w, s, m>> \notin inoperable}

Deserves(w, m) == Earned(w, m) /\ Whole(w, m)

\* The checks of a candidate succeed when it has earned it and lost nothing.
LEMMA SuccessIsDeserved ==
  ASSUME Tried, NEW w \in Targets, NEW m \in plan.models
  PROVE  /\ Succeeds(Compared, Operable(w), w, m) <=> Deserves(w, m)
         /\ Deserves(w, m) => Skill(Compared, w, m) = Skill(Candidates, w, m)
<1>1. AllSeeds(Compared, w, m) <=> \A s \in plan.seeds : <<w, s, m>> \notin noted
  BY CandidatesAre DEF AllSeeds, Rows, Compared, Tried
<1>2. m \in Operable(w) <=> \A s \in plan.seeds : <<w, s, m>> \notin inoperable
  BY DEF Operable
<1>3. Whole(w, m) <=> AllSeeds(Compared, w, m) /\ m \in Operable(w)
  BY <1>1, <1>2 DEF Whole
<1>4. ASSUME AllSeeds(Compared, w, m)
      PROVE  /\ Succeeds(Compared, Operable(w), w, m) <=> Earned(w, m) /\ m \in Operable(w)
             /\ Skill(Compared, w, m) = Skill(Candidates, w, m)
  <2>1. Rows(Compared, w, m) = plan.seeds /\ Rows(Candidates, w, m) = plan.seeds
    BY <1>4, MeasuredAreNumbers DEF AllSeeds
  <2>2. \A field : Total(Compared, w, m, field) = Total(Candidates, w, m, field)
    BY <2>1, TotalIsSum DEF Tried
  <2>3. Skill(Compared, w, m) = Skill(Candidates, w, m)
    BY <2>2 DEF Skill
  <2> DEFINE won(field) == {s \in plan.seeds : Value(w, s, m, field) > 0}
             wins(field) == Cardinality(won(field))
             n == Cardinality(plan.seeds)
  <2>4. \A field : Won(Compared, w, m, field) = wins(field)
    BY <2>1 DEF Won
  <2>5. n \in Nat /\ \A field : wins(field) \in Nat
    <3>1. IsFiniteSet(plan.seeds)
      BY PlansAssumption DEF Tried
    <3>2. \A field : won(field) \in SUBSET plan.seeds
      OBVIOUS
    <3> HIDE DEF won
    <3>3. \A field : IsFiniteSet(won(field))
      BY <3>1, <3>2, FS_Subset
    <3> QED BY <3>1, <3>3, FS_CardinalityType
  <2>6. Earned(w, m) <=>
          /\ Skill(Candidates, w, m) > 0 /\ Total(Candidates, w, m, "slack") >= 0
          /\ 2 * n >= plan.minUnits
          /\ 100 * (wins("seen") + wins("unseen")) >= 130 * n
          /\ 2 * wins("seen") > n /\ 2 * wins("unseen") > n
    BY DEF Earned, Skill
  <2>7. Succeeds(Compared, Operable(w), w, m) <=>
          /\ 2 * n >= plan.minUnits
          /\ 100 * (wins("seen") + wins("unseen")) >= 65 * (2 * n)
          /\ 4 * wins("seen") > 2 * n /\ 4 * wins("unseen") > 2 * n
          /\ Skill(Candidates, w, m) > 0 /\ Total(Candidates, w, m, "slack") >= 0
          /\ m \in Operable(w)
    <3> HIDE DEF wins
    <3> QED BY <1>4, <2>1, <2>2, <2>3, <2>4 DEF Succeeds
  <2> HIDE DEF wins, n
  <2>8. /\ 4 * wins("seen") > 2 * n <=> 2 * wins("seen") > n
        /\ 4 * wins("unseen") > 2 * n <=> 2 * wins("unseen") > n
        /\ 65 * (2 * n) = 130 * n
    BY <2>5
  <2> QED BY <2>3, <2>6, <2>7, <2>8
<1>5. Succeeds(Compared, Operable(w), w, m) => AllSeeds(Compared, w, m)
  BY DEF Succeeds
<1> QED BY <1>3, <1>4, <1>5 DEF Deserves

Fate(w) == WorldDecision(Compared, Operable(w), Worlds \ unsound, w)

\* A sound world passes with a most skilful one of the models that deserve it.
LEMMA FateIsDeserved ==
  ASSUME Tried, NEW w \in Worlds
  PROVE  /\ Fate(w).world = w /\ Fate(w).status \in {"PASS", "FAIL", "EXEMPT"}
         /\ Fate(w).status = "PASS" <=> Fate(w).model # {}
         /\ Fate(w).status = "PASS" => Role[w] = "PRIMARY"
         /\ w \in Targets =>
              /\ Fate(w).status = "PASS" <=> w \notin unsound /\ \E m \in plan.models : Deserves(w, m)
              /\ \A m \in plan.models, n \in Fate(w).model :
                   Deserves(w, m) => Earned(w, n) /\ Skill(Candidates, w, n) >= Skill(Candidates, w, m)
<1> DEFINE passing == {m \in plan.models : Succeeds(Compared, Operable(w), w, m)}
           best == Selected(Compared, passing, w)
<1>1. Fate(w) = IF w \notin Worlds \ unsound THEN [world |-> w, status |-> "FAIL", model |-> {}]
                ELSE IF Role[w] # "PRIMARY" THEN [world |-> w, status |-> "EXEMPT", model |-> {}]
                ELSE IF passing = {} THEN [world |-> w, status |-> "FAIL", model |-> {}]
                ELSE [world |-> w, status |-> "PASS", model |-> {best}]
  BY DEF Fate, WorldDecision
<1>2. passing \subseteq plan.models
  OBVIOUS
<1>3. ASSUME w \in Targets PROVE \A m \in plan.models : m \in passing <=> Deserves(w, m)
  BY <1>3, SuccessIsDeserved
<1>4. ASSUME w \in Targets, passing # {}
      PROVE  best \in passing /\ \A n \in passing : Skill(Candidates, w, best) >= Skill(Candidates, w, n)
  <2> DEFINE f == [m \in plan.models |-> Skill(Candidates, w, m)]
  <2>1. \A m \in passing : f[m] \in Int /\ f[m] = Skill(Compared, w, m) /\ f[m] = Skill(Candidates, w, m)
    BY <1>2, <1>3, <1>4, SuccessIsDeserved, MeasuredAreNumbers
  <2>2. IsFiniteSet(passing)
    BY <1>2, PlansAssumption, FS_Subset DEF Tried
  <2> HIDE DEF passing, f
  <2>3. \E m \in passing : \A n \in passing : f[m] >= f[n]
    BY <1>4, <2>1, <2>2, GreatestNumber
  <2>4. \E m \in passing : \A n \in passing : Skill(Compared, w, m) >= Skill(Compared, w, n)
    BY <2>1, <2>3
  <2>5. best \in passing /\ \A n \in passing : Skill(Compared, w, best) >= Skill(Compared, w, n)
    BY <2>4 DEF Selected
  <2> QED BY <2>1, <2>5
<1> HIDE DEF passing, best
<1>5. ASSUME w \in Targets
      PROVE  /\ Fate(w).status = "PASS" <=> w \notin unsound /\ \E m \in plan.models : Deserves(w, m)
             /\ \A m \in plan.models, n \in Fate(w).model :
                  Deserves(w, m) => Earned(w, n) /\ Skill(Candidates, w, n) >= Skill(Candidates, w, m)
  <2>1. Role[w] = "PRIMARY"
    BY <1>5, CandidatesAre DEF Primary, Tried
  <2>2. Fate(w).status = "PASS" <=> w \notin unsound /\ \E m \in plan.models : Deserves(w, m)
    BY <1>1, <1>2, <1>3, <1>5, <2>1
  <2>3. ASSUME NEW m \in plan.models, NEW n \in Fate(w).model, Deserves(w, m)
        PROVE  Earned(w, n) /\ Skill(Candidates, w, n) >= Skill(Candidates, w, m)
    <3>1. passing # {} /\ n = best /\ m \in passing
      BY <1>1, <1>3, <1>5, <2>3
    <3>2. best \in passing /\ Skill(Candidates, w, best) >= Skill(Candidates, w, m)
      BY <1>4, <1>5, <3>1
    <3>3. Earned(w, best)
      BY <1>2, <1>3, <1>5, <3>2 DEF Deserves
    <3> QED BY <3>1, <3>2, <3>3
  <2> QED BY <2>2, <2>3
<1> QED BY <1>1, <1>5

RightlyPassed(decisions) ==
  \A w \in Targets : w \in PassedWorlds(decisions) <=> w \notin unsound /\ \E m \in plan.models : Deserves(w, m)
BestSelected(decisions) ==
  \A d \in decisions : d.status = "PASS" =>
    \A m \in plan.models, n \in d.model :
      Deserves(d.world, m) => Earned(d.world, n) /\ Skill(Candidates, d.world, n) >= Skill(Candidates, d.world, m)
Typed(decisions) ==
  \A d \in decisions : /\ d.world \in Worlds /\ d.status \in {"PASS", "FAIL", "EXEMPT"}
                       /\ d.status = "PASS" <=> d.model # {}
Fair(decisions) == Typed(decisions) /\ RightlyPassed(decisions) /\ BestSelected(decisions)

\* Decisions are fair when every target is decided, and no other primary world.
LEMMA DecisionsAreFair ==
  ASSUME Tried, NEW X \in SUBSET Worlds, Targets \subseteq X, \A w \in X : Role[w] = "PRIMARY" => w \in Targets,
         NEW decisions, \A d : d \in decisions <=> \E w \in X : d = Fate(w)
  PROVE  Fair(decisions)
<1>1. ASSUME NEW d \in decisions
      PROVE  /\ d.world \in X /\ d = Fate(d.world) /\ d.status \in {"PASS", "FAIL", "EXEMPT"}
             /\ d.status = "PASS" <=> d.model # {}
             /\ d.status = "PASS" => d.world \in Targets
  <2>1. PICK w \in X : d = Fate(w)
    OBVIOUS
  <2>2. w \in Worlds
    OBVIOUS
  <2> QED BY <2>1, <2>2, FateIsDeserved
<1>2. Typed(decisions)
  BY <1>1 DEF Typed
<1>3. RightlyPassed(decisions)
  <2> SUFFICES ASSUME NEW w \in Targets
               PROVE  w \in PassedWorlds(decisions) <=> w \notin unsound /\ \E m \in plan.models : Deserves(w, m)
    BY DEF RightlyPassed
  <2>1. w \in X /\ w \in Worlds /\ Fate(w) \in decisions /\ Fate(w).world = w
    BY FateIsDeserved
  <2>2. w \in PassedWorlds(decisions) <=> Fate(w).status = "PASS"
    BY <1>1, <2>1 DEF PassedWorlds
  <2> QED BY <2>1, <2>2, FateIsDeserved
<1>4. BestSelected(decisions)
  <2> SUFFICES ASSUME NEW d \in decisions, d.status = "PASS",
                      NEW m \in plan.models, NEW n \in d.model, Deserves(d.world, m)
               PROVE  Earned(d.world, n) /\ Skill(Candidates, d.world, n) >= Skill(Candidates, d.world, m)
    BY DEF BestSelected
  <2>1. d.world \in Worlds /\ d.world \in Targets /\ d = Fate(d.world)
    BY <1>1
  <2> DEFINE w == d.world
  <2>2. n \in Fate(w).model /\ w \in Worlds /\ w \in Targets /\ Deserves(w, m)
    BY <2>1
  <2> HIDE DEF w
  <2>3. Earned(w, n) /\ Skill(Candidates, w, n) >= Skill(Candidates, w, m)
    BY <2>2, FateIsDeserved
  <2> QED BY <2>3 DEF w
<1> QED BY <1>2, <1>3, <1>4 DEF Fair

\* There are n families if and only if n worlds can be kept of which no two
\* are of one family.
LEMMA FamiliesAreKept ==
  ASSUME NEW W, IsFiniteSet(W), NEW n \in Nat
  PROVE  Cardinality({Family[w] : w \in W}) >= n <=>
           \E chosen \in SUBSET W : Cardinality(chosen) = n /\ \A v, w \in chosen : v # w => Family[v] # Family[w]
<1> DEFINE F == {Family[w] : w \in W}
<1>1. IsFiniteSet(F)
  <2> DEFINE f == [w \in W |-> Family[w]]
  <2>1. f \in Surjection(W, F)
    BY DEF Surjection
  <2> HIDE DEF f, F
  <2> QED BY <2>1, FS_Surjection
<1>2. Cardinality(F) \in Nat /\ ExistsBijection(1..Cardinality(F), F)
  <2> HIDE DEF F
  <2> QED BY <1>1, FS_CardinalityType
<1>3. ASSUME NEW chosen \in SUBSET W, Cardinality(chosen) = n, \A v, w \in chosen : v # w => Family[v] # Family[w]
      PROVE  Cardinality(F) >= n
  <2> DEFINE f == [w \in chosen |-> Family[w]]
  <2>1. f \in Injection(chosen, F)
    BY <1>3 DEF Injection, IsInjective
  <2> HIDE DEF f, F
  <2> QED BY <1>1, <1>2, <1>3, <2>1, FS_Injection
<1>4. ASSUME Cardinality(F) >= n
      PROVE  \E chosen \in SUBSET W : Cardinality(chosen) = n /\ \A v, w \in chosen : v # w => Family[v] # Family[w]
  <2>1. PICK b \in Bijection(1..Cardinality(F), F) : TRUE
    BY <1>2 DEF ExistsBijection
  <2>2. /\ \A i \in 1..n : b[i] \in F
        /\ \A i, j \in 1..n : i # j => b[i] # b[j]
    <3>1. \A i \in 1..n : i \in 1..Cardinality(F)
      BY <1>2, <1>4
    <3> HIDE DEF F
    <3>2. b \in [1..Cardinality(F) -> F] /\ \A i, j \in 1..Cardinality(F) : b[i] = b[j] => i = j
      BY <2>1 DEF Bijection, Injection, IsInjective
    <3> QED BY <3>1, <3>2
  <2> DEFINE rep == [i \in 1..n |-> CHOOSE w \in W : Family[w] = b[i]]
             chosen == {rep[i] : i \in 1..n}
  <2>3. \A i \in 1..n : rep[i] \in W /\ Family[rep[i]] = b[i]
    <3> SUFFICES ASSUME NEW i \in 1..n PROVE rep[i] \in W /\ Family[rep[i]] = b[i]
      OBVIOUS
    <3>1. \E w \in W : Family[w] = b[i]
      BY <2>2
    <3>2. rep[i] = CHOOSE w \in W : Family[w] = b[i]
      OBVIOUS
    <3> HIDE DEF rep
    <3> QED BY <3>1, <3>2
  <2>4. rep \in Bijection(1..n, chosen)
    <3>1. rep \in [1..n -> chosen] /\ \A k \in chosen : \E i \in 1..n : rep[i] = k
      OBVIOUS
    <3>2. \A i, j \in 1..n : rep[i] = rep[j] => i = j
      <4> HIDE DEF rep
      <4> QED BY <2>2, <2>3
    <3> HIDE DEF rep, chosen
    <3> QED BY <3>1, <3>2 DEF Bijection, Injection, Surjection, IsInjective
  <2>5. \A k \in chosen : \E i \in 1..n : k = rep[i]
    OBVIOUS
  <2> HIDE DEF rep, chosen
  <2>6. Cardinality(chosen) = n
    <3>1. IsFiniteSet(1..n) /\ Cardinality(1..n) = n
      BY FS_Interval
    <3> QED BY <2>4, <3>1, FS_Bijection DEF ExistsBijection
  <2>7. chosen \in SUBSET W
    BY <2>3, <2>5
  <2>8. \A v, w \in chosen : v # w => Family[v] # Family[w]
    BY <2>2, <2>3, <2>5
  <2> QED BY <2>6, <2>7, <2>8
<1> QED BY <1>3, <1>4

\* The suite's verdict on some decisions.
SuiteOf(decisions) == IF Cardinality(PassedFamilies(decisions)) >= plan.minFamilies THEN "PASS" ELSE "FAIL"

LEMMA SuiteKeepsFamilies ==
  ASSUME plan \in Plans, NEW decisions, \A d \in decisions : d.world \in Worlds
  PROVE  SuiteOf(decisions) = "PASS" <=>
           \E chosen \in SUBSET PassedWorlds(decisions) :
             Cardinality(chosen) = plan.minFamilies /\ \A v, w \in chosen : v # w => Family[v] # Family[w]
<1> DEFINE W == PassedWorlds(decisions)
<1>1. W \in SUBSET Worlds /\ IsFiniteSet(W)
  <2>1. W \in SUBSET Worlds
    BY DEF PassedWorlds
  <2> HIDE DEF W
  <2> QED BY <2>1, WorldsAssumption, FS_Subset
<1>2. PassedFamilies(decisions) = {Family[w] : w \in W}
  BY DEF PassedFamilies, PassedWorlds
<1>3. plan.minFamilies \in Nat
  BY PlansAssumption
<1> HIDE DEF W
<1>4. Cardinality({Family[w] : w \in W}) >= plan.minFamilies <=>
           \E chosen \in SUBSET W :
             Cardinality(chosen) = plan.minFamilies /\ \A v, w \in chosen : v # w => Family[v] # Family[w]
  BY <1>1, <1>3, FamiliesAreKept
<1> QED BY <1>2, <1>4 DEF SuiteOf, W

-----------------------------------------------------------------------------
(* The two ways to a receipt *)

\* The receipt is fair once everything has been tried; tasks of the graph are
\* done after what they need, a loop does none of them.
Studied ==
  /\ QualificationTypeOK
  /\ way = "graph" => noted = {} /\ inoperable = {}
  /\ way = "loop" => finished = {}
  /\ \A t \in finished : Needs(plan, t) \subseteq finished
  /\ \A w \in Worlds : Health(w) \in finished => w \notin unsound
  /\ Receipt \in finished => ~broken
  /\ judgement # Open =>
       /\ DOMAIN measured = Candidates /\ (way = "graph" => Aggregate \in finished)
       /\ Fair(judgement.decisions) /\ judgement.suite = SuiteOf(judgement.decisions)

LEMMA StudyStarts == QualificationInit => Studied
<1> SUFFICES ASSUME QualificationInit PROVE Studied
  OBVIOUS
<1>1. DOMAIN measured = {}
  BY DEF QualificationInit
<1>2. unsound \subseteq Worlds
  BY PlansAssumption DEF QualificationInit, Considered, Primary
<1>3. QualificationTypeOK
  BY <1>1, <1>2 DEF QualificationInit, QualificationTypeOK, Open
<1> QED BY <1>3 DEF QualificationInit, Studied

LEMMA DeservedAlike ==
  ASSUME plan \in Plans, UNCHANGED <<plan, measured, noted, inoperable, unsound>>, NEW w, NEW m
  PROVE  /\ Deserves(w, m)' <=> Deserves(w, m)
         /\ Earned(w, m)' <=> Earned(w, m)
         /\ Skill(Candidates, w, m)' = Skill(Candidates, w, m)
<1>1. \A field : Total(Candidates, w, m, field)' = Total(Candidates, w, m, field)
  <2> SUFFICES ASSUME NEW field PROVE Total(Candidates, w, m, field)' = Total(Candidates, w, m, field)
    OBVIOUS
  <2>1. TotalsAddUp /\ TotalsAddUp'
    BY TotalsAreAddedUp, PTL
  <2>2. Scores(w, m, field)' = Scores(w, m, field)
    BY DEF Scores, Value
  <2>3. Rows(Candidates, w, m)' = Rows(Candidates, w, m)
    BY DEF Rows, Candidates
  <2> QED BY <2>1, <2>2, <2>3 DEF TotalsAddUp
<1>2. Skill(Candidates, w, m)' = Skill(Candidates, w, m)
  BY <1>1 DEF Skill
<1>3. Whole(w, m)' <=> Whole(w, m)
  BY DEF Whole
<1>4. Earned(w, m)' <=> Earned(w, m)
  <2> DEFINE Wins(field) == Cardinality({s \in plan.seeds : Value(w, s, m, field) > 0})
  <2>1. \A field : Wins(field)' = Wins(field)
    BY DEF Value
  <2>2. Earned(w, m) <=>
          /\ Total(Candidates, w, m, "seen") + Total(Candidates, w, m, "unseen") > 0
          /\ Total(Candidates, w, m, "slack") >= 0
          /\ 2 * Cardinality(plan.seeds) >= plan.minUnits
          /\ 100 * (Wins("seen") + Wins("unseen")) >= 130 * Cardinality(plan.seeds)
          /\ \A field \in {"seen", "unseen"} : 2 * Wins(field) > Cardinality(plan.seeds)
    BY DEF Earned
  <2>3. Earned(w, m)' <=>
          /\ Total(Candidates, w, m, "seen")' + Total(Candidates, w, m, "unseen")' > 0
          /\ Total(Candidates, w, m, "slack")' >= 0
          /\ 2 * Cardinality(plan'.seeds) >= plan'.minUnits
          /\ 100 * (Wins("seen")' + Wins("unseen")') >= 130 * Cardinality(plan'.seeds)
          /\ \A field \in {"seen", "unseen"} : 2 * Wins(field)' > Cardinality(plan'.seeds)
    BY DEF Earned
  <2> HIDE DEF Wins
  <2> QED BY <1>1, <2>1, <2>2, <2>3
<1> QED BY <1>2, <1>3, <1>4 DEF Deserves

LEMMA FairAlike ==
  ASSUME plan \in Plans, UNCHANGED <<plan, measured, noted, inoperable, unsound>>, NEW decisions
  PROVE  /\ Fair(decisions)' <=> Fair(decisions)
         /\ SuiteOf(decisions)' = SuiteOf(decisions)
<1>1. Typed(decisions)' <=> Typed(decisions)
  BY DEF Typed
<1>2. RightlyPassed(decisions)' <=> RightlyPassed(decisions)
  BY DeservedAlike DEF RightlyPassed, Targets
<1>3. BestSelected(decisions)' <=> BestSelected(decisions)
  BY DeservedAlike DEF BestSelected
<1> QED BY <1>1, <1>2, <1>3 DEF Fair, SuiteOf

JudgedFairly ==
  judgement # Open =>
    /\ DOMAIN measured = Candidates /\ (way = "graph" => Aggregate \in finished)
    /\ Fair(judgement.decisions) /\ judgement.suite = SuiteOf(judgement.decisions)

\* A judgement stays fair as long as nothing it rests on is changed.
LEMMA FairForGood ==
  ASSUME Studied, UNCHANGED <<plan, way, measured, noted, inoperable, unsound, judgement>>,
         finished \subseteq finished'
  PROVE  JudgedFairly'
<1>1. plan \in Plans /\ JudgedFairly
  BY DEF Studied, QualificationTypeOK, JudgedFairly
<1>2. Candidates' = Candidates
  BY DEF Candidates
<1>3. /\ Fair(judgement.decisions)' <=> Fair(judgement.decisions)
      /\ SuiteOf(judgement.decisions)' = SuiteOf(judgement.decisions)
  BY <1>1, FairAlike
<1> QED BY <1>1, <1>2, <1>3 DEF JudgedFairly

\* The measurements of more candidates are measurements of candidates.
LEMMA ExtendKeeps ==
  ASSUME Studied, NEW group \in SUBSET Candidates, NEW new \in [group -> Measurements], Extend(new)
  PROVE  /\ DOMAIN measured' = DOMAIN measured \cup group /\ DOMAIN measured' \subseteq Candidates
         /\ \A c \in DOMAIN measured' : measured'[c] \in Measurements
BY DEF Extend, Studied, QualificationTypeOK

LEMMA NextInTurn ==
  ASSUME Studied, Left # {}
  PROVE  InTurn \in Left /\ InTurn \in Candidates /\ Group(InTurn[1], InTurn[2]) \in SUBSET Candidates
<1>1. InTurn \in Left
  <2>1. \E c \in Left : (\E d \in Left : <<d[1], d[2]>> \in Visited) => <<c[1], c[2]>> \in Visited
    OBVIOUS
  <2> QED BY <2>1 DEF InTurn
<1>2. InTurn \in Candidates
  BY <1>1 DEF Left
<1>3. InTurn[1] \in Targets /\ InTurn[2] \in plan.seeds
  BY <1>2, CandidatesAre DEF Studied, QualificationTypeOK
<1> QED BY <1>1, <1>2, <1>3, CandidatesAre DEF Group, Studied, QualificationTypeOK

\* Who is judged: every target, and no other primary world.
LEMMA TargetsAreJudged ==
  ASSUME plan \in Plans, NEW X \in {Considered, Judged}
  PROVE  X \in SUBSET Worlds /\ Targets \subseteq X /\ \A w \in X : Role[w] = "PRIMARY" => w \in Targets
BY PlansAssumption DEF Considered, Judged, JudgedOf, Targets, TargetsOf, Primary

\* A judgement of all that is to be judged is fair.
LEMMA JudgingIsFair ==
  ASSUME Tried, NEW X \in {Considered, Judged}, NEW decisions, \A d : d \in decisions <=> \E w \in X : d = Fate(w)
  PROVE  /\ Fair(decisions)
         /\ SuiteDecision(decisions) = [decisions |-> decisions, suite |-> SuiteOf(decisions)]
<1>1. Fair(decisions)
  BY TargetsAreJudged, DecisionsAreFair DEF Tried
<1> QED BY <1>1 DEF SuiteDecision, SuiteOf

LEMMA LoopKeeps ==
  ASSUME Studied, NoteData \/ Qualify \/ JudgeLoop
  PROVE  Studied'
<1>0. /\ plan \in Plans /\ QualificationTypeOK /\ way = "loop" /\ finished = {}
      /\ UNCHANGED <<plan, way, unsound, finished, broken>>
  BY DEF Studied, QualificationTypeOK, NoteData, Qualify, JudgeLoop, UnchangedByLoop
<1>1. Candidates' = Candidates /\ GraphTasks' = GraphTasks
  BY <1>0 DEF Candidates, GraphTasks
<1>2. ASSUME Left # {} PROVE judgement = Open
  BY <1>2 DEF Studied, Left
<1>3. CASE NoteData
  <2> DEFINE group == Group(InTurn[1], InTurn[2])
  <2>1. PICK new \in [group -> Measurements] : Extend(new)
    BY <1>3 DEF NoteData
  <2>2. Left # {} /\ noted' = noted \cup group /\ UNCHANGED <<inoperable, judgement>>
    BY <1>3 DEF NoteData, UnchangedByLoop
  <2>3. group \in SUBSET Candidates
    BY <2>2, NextInTurn
  <2> HIDE DEF group
  <2>4. /\ DOMAIN measured' = DOMAIN measured \cup group /\ DOMAIN measured' \subseteq Candidates
        /\ \A c \in DOMAIN measured' : measured'[c] \in Measurements
    BY <2>1, <2>3, ExtendKeeps
  <2>5. QualificationTypeOK'
    BY <1>0, <1>1, <2>2, <2>4 DEF QualificationTypeOK
  <2> QED BY <1>0, <1>2, <2>2, <2>5 DEF Studied
<1>4. CASE Qualify
  <2>1. PICK r \in Measurements : Extend([d \in {InTurn} |-> r])
    BY <1>4 DEF Qualify
  <2>2. /\ Left # {} /\ UNCHANGED judgement
        /\ noted' \in {noted, noted \cup {InTurn}} /\ inoperable' \in {inoperable, inoperable \cup {InTurn}}
    BY <1>4 DEF Qualify, UnchangedByLoop
  <2>3. {InTurn} \in SUBSET Candidates /\ [d \in {InTurn} |-> r] \in [{InTurn} -> Measurements]
    BY <2>2, NextInTurn
  <2>4. /\ DOMAIN measured' = DOMAIN measured \cup {InTurn} /\ DOMAIN measured' \subseteq Candidates
        /\ \A c \in DOMAIN measured' : measured'[c] \in Measurements
    BY <2>1, <2>3, ExtendKeeps
  <2>5. QualificationTypeOK'
    BY <1>0, <1>1, <2>2, <2>4 DEF QualificationTypeOK
  <2> QED BY <1>0, <1>2, <2>2, <2>5 DEF Studied
<1>5. CASE JudgeLoop
  <2> DEFINE compared == DOMAIN measured \ noted
             operable(w) == {m \in plan.models : \A s \in plan.seeds : <<w, s, m>> \notin inoperable}
             decisions == {WorldDecision(compared, operable(w), Worlds \ unsound, w) : w \in Considered}
  <2>1. /\ Left = {} /\ UNCHANGED <<measured, noted, inoperable>>
        /\ judgement' = SuiteDecision(decisions)
    BY <1>5 DEF JudgeLoop
  <2>2. DOMAIN measured = Candidates /\ Tried
    BY <1>0, <2>1 DEF Left, QualificationTypeOK, Tried
  <2>3. \A d : d \in decisions <=> \E w \in Considered : d = Fate(w)
    BY <2>2 DEF Fate, Compared, Operable
  <2> HIDE DEF decisions
  <2>4. Fair(decisions) /\ judgement' = [decisions |-> decisions, suite |-> SuiteOf(decisions)]
    BY <2>1, <2>2, <2>3, JudgingIsFair
  <2>5. PICK ds : ds = decisions
    OBVIOUS
  <2>6. Fair(ds) /\ Fair(ds)' /\ SuiteOf(ds)' = SuiteOf(ds)
    BY <1>0, <2>1, <2>4, <2>5, FairAlike
  <2>7. judgement'.decisions = ds /\ judgement'.suite = SuiteOf(ds)
    BY <2>4, <2>5
  <2>8. JudgedFairly'
    BY <1>0, <1>1, <2>1, <2>2, <2>6, <2>7 DEF JudgedFairly
  <2>9. QualificationTypeOK'
    BY <1>0, <1>1, <2>1, <2>6, <2>7 DEF QualificationTypeOK, Fair, Typed, SuiteOf
  <2> QED BY <1>0, <2>8, <2>9 DEF Studied, JudgedFairly
<1> QED BY <1>3, <1>4, <1>5

\* What is done when a task is done, by compile_stage1b_graph.
LEMMA NeedsAre ==
  ASSUME NEW p
  PROVE  /\ \A x : Materialize(x) \in Needs(p, Reproduce(x))
         /\ \A w, s : /\ Task("DATA_GENERATE", w, s, "-") \in Needs(p, Task("DATA_VALIDATE", w, s, "-"))
                      /\ Task("DATA_VALIDATE", w, s, "-") \in Needs(p, Task("VAR_SCORE", w, s, "-"))
         /\ \A w, s, m :
              /\ Task("VAR_SCORE", w, s, "-") \in Needs(p, Task("SCORE_BOOTSTRAP", w, s, m))
              /\ Task("MODEL_FREEZE_CHECK", w, s, m) \in Needs(p, Task("SCORE_BOOTSTRAP", w, s, m))
              /\ Task("NEURAL_TRAIN", w, s, m) \in Needs(p, Task("MODEL_FREEZE_CHECK", w, s, m))
         /\ \A w \in JudgedOf(p) : Health(w) \in Needs(p, Aggregate)
         /\ \A c \in CandidatesOf(p) : Task("SCORE_BOOTSTRAP", c[1], c[2], c[3]) \in Needs(p, Aggregate)
         /\ Aggregate \in Needs(p, Receipt)
         /\ \A x \in SourcesOf(p) : Reproduce(x) \in Needs(p, Receipt)
<1>1. Aggregate.phase = "QUALIFICATION_AGGREGATE" /\ Receipt.phase = "QUALIFICATION_RECEIPT"
  BY DEF Aggregate, Receipt, Everywhere
<1>2. \A x : Materialize(x) \in Needs(p, Reproduce(x))
  BY <1>1 DEF Needs, Materialize, Reproduce, Task
<1>3. \A w, s : /\ Task("DATA_GENERATE", w, s, "-") \in Needs(p, Task("DATA_VALIDATE", w, s, "-"))
                /\ Task("DATA_VALIDATE", w, s, "-") \in Needs(p, Task("VAR_SCORE", w, s, "-"))
  BY <1>1 DEF Needs, Task
<1>4. \A w, s, m :
              /\ Task("VAR_SCORE", w, s, "-") \in Needs(p, Task("SCORE_BOOTSTRAP", w, s, m))
              /\ Task("MODEL_FREEZE_CHECK", w, s, m) \in Needs(p, Task("SCORE_BOOTSTRAP", w, s, m))
              /\ Task("NEURAL_TRAIN", w, s, m) \in Needs(p, Task("MODEL_FREEZE_CHECK", w, s, m))
  BY <1>1 DEF Needs, Task
<1>5. /\ \A w \in JudgedOf(p) : Health(w) \in Needs(p, Aggregate)
      /\ \A c \in CandidatesOf(p) : Task("SCORE_BOOTSTRAP", c[1], c[2], c[3]) \in Needs(p, Aggregate)
  BY <1>1 DEF Needs
<1>6. /\ Aggregate \in Needs(p, Receipt)
      /\ \A x \in SourcesOf(p) : Reproduce(x) \in Needs(p, Receipt)
  BY <1>1 DEF Needs
<1> QED BY <1>2, <1>3, <1>4, <1>5, <1>6

\* Every task of the graph is needed for the receipt.
LEMMA WholeGraph ==
  ASSUME Studied, Receipt \in finished
  PROVE  finished = GraphTasks
<1>0. /\ plan \in Plans /\ finished \subseteq GraphTasks
      /\ \A t \in finished : \A n \in Needs(plan, t) : n \in finished
  BY DEF Studied, QualificationTypeOK
<1>1. \A x \in SourcesOf(plan) : Reproduce(x) \in finished /\ Materialize(x) \in finished
  <2>1. \A x \in SourcesOf(plan) : Reproduce(x) \in finished
    BY <1>0, NeedsAre
  <2> QED BY <1>0, <2>1, NeedsAre
<1>2. Aggregate \in finished
  BY <1>0, NeedsAre
<1>3. \A w \in JudgedOf(plan) : Health(w) \in finished
  BY <1>0, <1>2, NeedsAre
<1>4. ASSUME NEW w \in TargetsOf(plan), NEW s \in plan.seeds, NEW m \in plan.models
      PROVE  /\ \A q \in Neural : Task(q, w, s, m) \in finished
             /\ \A q \in Plain : Task(q, w, s, "-") \in finished
  <2>1. Task("SCORE_BOOTSTRAP", w, s, m) \in finished
    <3>1. <<w, s, m>> \in CandidatesOf(plan)
      BY DEF CandidatesOf
    <3> DEFINE c == <<w, s, m>>
    <3>2. c[1] = w /\ c[2] = s /\ c[3] = m
      OBVIOUS
    <3> HIDE DEF c
    <3>3. c \in CandidatesOf(plan) => Task("SCORE_BOOTSTRAP", c[1], c[2], c[3]) \in finished
      BY <1>0, <1>2, NeedsAre
    <3> QED BY <3>1, <3>2, <3>3 DEF c
  <2>2. Task("VAR_SCORE", w, s, "-") \in finished /\ Task("MODEL_FREEZE_CHECK", w, s, m) \in finished
    BY <1>0, <2>1, NeedsAre
  <2>3. Task("NEURAL_TRAIN", w, s, m) \in finished /\ Task("DATA_VALIDATE", w, s, "-") \in finished
    BY <1>0, <2>2, NeedsAre
  <2>4. Task("DATA_GENERATE", w, s, "-") \in finished
    BY <1>0, <2>3, NeedsAre
  <2> QED BY <2>1, <2>2, <2>3, <2>4 DEF Neural, Plain
<1>5. \A w \in TargetsOf(plan), s \in plan.seeds, q \in Plain : Task(q, w, s, "-") \in finished
  BY <1>0, <1>4, PlansAssumption
<1>6. \A c \in CandidatesOf(plan), q \in Neural : Task(q, c[1], c[2], c[3]) \in finished
  BY <1>4 DEF CandidatesOf
<1>7. GraphTasks \subseteq finished
  <2> SUFFICES ASSUME NEW t \in GraphTasks PROVE t \in finished
    OBVIOUS
  <2>1. \/ \E x \in SourcesOf(plan) : t \in {Materialize(x), Reproduce(x)}
        \/ \E w \in JudgedOf(plan) : t = Health(w)
        \/ \E q \in Plain, w \in TargetsOf(plan), s \in plan.seeds : t = Task(q, w, s, "-")
        \/ \E q \in Neural, c \in CandidatesOf(plan) : t = Task(q, c[1], c[2], c[3])
        \/ t \in {Aggregate, Receipt}
    BY <1>0 DEF GraphTasks, GraphOf
  <2> QED BY <1>1, <1>2, <1>3, <1>5, <1>6, <2>1
<1> QED BY <1>0, <1>7

\* What is kept whenever a task publishes.
LEMMA PublishKeeps ==
  ASSUME Studied, NEW t, Due(t), Publish(t), UnchangedByTask,
         \A w \in Worlds : t = Health(w) => w \notin unsound
  PROVE  /\ plan \in Plans /\ way = "graph" /\ noted = {} /\ inoperable = {} /\ QualificationTypeOK
         /\ UNCHANGED <<plan, way, noted, inoperable, unsound, broken>>
         /\ Candidates' = Candidates /\ GraphTasks' = GraphTasks
         /\ finished' = finished \cup {t} /\ finished' \subseteq GraphTasks
         /\ \A r \in finished' : Needs(plan', r) \subseteq finished'
         /\ \A w \in Worlds : Health(w) \in finished' => w \notin unsound
         /\ ~broken'
<1>1. UNCHANGED <<plan, way, noted, inoperable, unsound, broken>> /\ QualificationTypeOK
  BY DEF UnchangedByTask, Studied
<1>2. way = "graph" /\ ~broken /\ t \in GraphTasks \ finished /\ Needs(plan, t) \subseteq finished
  BY DEF Due
<1>3. finished' = finished \cup {t}
  BY DEF Publish
<1>4. Candidates' = Candidates /\ GraphTasks' = GraphTasks
  BY <1>1 DEF Candidates, GraphTasks
<1>5. \A r \in finished' : Needs(plan', r) \subseteq finished'
  BY <1>1, <1>2, <1>3 DEF Studied
<1> QED BY <1>1, <1>2, <1>3, <1>4, <1>5 DEF Studied, QualificationTypeOK

LEMMA GraphKeeps ==
  ASSUME Studied, \/ \E c \in Candidates : ScoreBootstrap(c)
                  \/ AggregateGates
                  \/ \E w \in Judged : CheckHealth(w)
                  \/ \E t \in GraphTasks : RunPlain(t) \/ TaskFails(t)
  PROVE  Studied'
<1>1. ASSUME NEW t \in GraphTasks, RunPlain(t) PROVE Studied'
  <2>1. Due(t) /\ Publish(t) /\ UnchangedByTask /\ UNCHANGED <<measured, judgement>> /\ t.phase # "WORLD_HEALTH"
    BY <1>1 DEF RunPlain
  <2>2. \A w \in Worlds : t # Health(w)
    BY <2>1 DEF Health, Task
  <2>3. UNCHANGED <<plan, way, measured, noted, inoperable, unsound, judgement>> /\ finished \subseteq finished'
    BY <2>1, <2>2, PublishKeeps
  <2>4. JudgedFairly'
    BY <2>3, FairForGood
  <2>5. QualificationTypeOK'
    BY <2>1, <2>2, PublishKeeps DEF QualificationTypeOK
  <2> QED BY <2>1, <2>2, <2>4, <2>5, PublishKeeps DEF Studied, JudgedFairly
<1>2. ASSUME NEW w \in Judged, CheckHealth(w) PROVE Studied'
  <2>1. Due(Health(w)) /\ Publish(Health(w)) /\ UnchangedByTask /\ UNCHANGED <<measured, judgement>> /\ w \notin unsound
    BY <1>2 DEF CheckHealth
  <2>2. \A v \in Worlds : Health(w) = Health(v) => v \notin unsound
    BY <2>1 DEF Health, Task
  <2>3. UNCHANGED <<plan, way, measured, noted, inoperable, unsound, judgement>> /\ finished \subseteq finished'
    BY <2>1, <2>2, PublishKeeps
  <2>4. JudgedFairly'
    BY <2>3, FairForGood
  <2>5. QualificationTypeOK'
    BY <2>1, <2>2, PublishKeeps DEF QualificationTypeOK
  <2> QED BY <2>1, <2>2, <2>4, <2>5, PublishKeeps DEF Studied, JudgedFairly
<1>3. ASSUME NEW c \in Candidates, ScoreBootstrap(c) PROVE Studied'
  <2> DEFINE t == Task("SCORE_BOOTSTRAP", c[1], c[2], c[3])
  <2>1. Due(t) /\ Publish(t) /\ UnchangedByTask /\ UNCHANGED judgement
    BY <1>3 DEF ScoreBootstrap
  <2>2. PICK r \in Measurements : Extend([d \in {c} |-> r])
    BY <1>3 DEF ScoreBootstrap
  <2>3. \A w \in Worlds : t # Health(w)
    BY DEF Health, Task
  <2>4. t \in Needs(plan, Aggregate)
    BY NeedsAre DEF Candidates
  <2> HIDE DEF t
  <2>5. judgement = Open
    <3>1. Aggregate \notin finished /\ way = "graph"
      BY <2>1, <2>4 DEF Due, Studied
    <3> QED BY <3>1 DEF Studied
  <2>6. /\ DOMAIN measured' = DOMAIN measured \cup {c} /\ DOMAIN measured' \subseteq Candidates
        /\ \A d \in DOMAIN measured' : measured'[d] \in Measurements
    <3>1. {c} \in SUBSET Candidates /\ [d \in {c} |-> r] \in [{c} -> Measurements]
      OBVIOUS
    <3> QED BY <2>2, <3>1, ExtendKeeps
  <2>7. QualificationTypeOK'
    BY <2>1, <2>3, <2>6, PublishKeeps DEF QualificationTypeOK
  <2> QED BY <2>1, <2>3, <2>5, <2>7, PublishKeeps DEF Studied
<1>4. CASE AggregateGates
  <2> DEFINE decisions == {WorldDecision(DOMAIN measured, plan.models, Worlds, w) : w \in Judged}
  <2>1. /\ Due(Aggregate) /\ Publish(Aggregate) /\ UnchangedByTask /\ UNCHANGED measured
        /\ DOMAIN measured = Candidates /\ judgement' = SuiteDecision(decisions)
    BY <1>4 DEF AggregateGates
  <2>2. \A w \in Worlds : Aggregate # Health(w)
    BY DEF Health, Task, Aggregate, Everywhere
  <2>3. Tried
    BY <2>1 DEF Studied, QualificationTypeOK, Tried
  <2>4. ASSUME NEW w \in Judged PROVE WorldDecision(DOMAIN measured, plan.models, Worlds, w) = Fate(w)
    <3>1. w \in Worlds
      BY <2>3, TargetsAreJudged DEF Tried
    <3>2. Health(w) \in finished
      BY <2>1, NeedsAre DEF Due, Judged
    <3>3. w \notin unsound
      BY <3>1, <3>2 DEF Studied
    <3>4. noted = {} /\ inoperable = {}
      BY <2>1, <2>2, PublishKeeps
    <3>5. Compared = DOMAIN measured /\ Operable(w) = plan.models
      BY <2>1, <3>4 DEF Compared, Operable
    <3> QED BY <3>1, <3>3, <3>5 DEF Fate, WorldDecision
  <2>5. \A d : d \in decisions <=> \E w \in Judged : d = Fate(w)
    BY <2>4
  <2> HIDE DEF decisions
  <2>6. Fair(decisions) /\ judgement' = [decisions |-> decisions, suite |-> SuiteOf(decisions)]
    BY <2>1, <2>3, <2>5, JudgingIsFair
  <2>7. PICK ds : ds = decisions
    OBVIOUS
  <2>8. /\ plan \in Plans /\ Aggregate \in finished' /\ Candidates' = Candidates
        /\ UNCHANGED <<plan, measured, noted, inoperable, unsound>>
    BY <2>1, <2>2, PublishKeeps
  <2>9. Fair(ds) /\ Fair(ds)' /\ SuiteOf(ds)' = SuiteOf(ds)
    BY <2>6, <2>7, <2>8, FairAlike
  <2>10. judgement'.decisions = ds /\ judgement'.suite = SuiteOf(ds)
    BY <2>6, <2>7
  <2>11. JudgedFairly'
    BY <2>1, <2>8, <2>9, <2>10 DEF JudgedFairly
  <2>12. QualificationTypeOK'
    BY <2>1, <2>2, <2>9, <2>10, PublishKeeps DEF QualificationTypeOK, Fair, Typed, SuiteOf
  <2> QED BY <2>1, <2>2, <2>11, <2>12, PublishKeeps DEF Studied, JudgedFairly
<1>5. ASSUME NEW t \in GraphTasks, TaskFails(t) PROVE Studied'
  <2>1. /\ t \notin finished /\ UNCHANGED <<plan, way, measured, noted, inoperable, unsound, finished, judgement>>
        /\ broken' = TRUE
    BY <1>5 DEF TaskFails, Due
  <2>2. Receipt \notin finished
    BY <2>1, WholeGraph
  <2>3. JudgedFairly'
    BY <2>1, FairForGood
  <2>4. Candidates' = Candidates /\ GraphTasks' = GraphTasks
    BY <2>1 DEF Candidates, GraphTasks
  <2>5. QualificationTypeOK'
    BY <2>1, <2>4 DEF QualificationTypeOK, Studied
  <2> QED BY <2>1, <2>2, <2>3, <2>5 DEF Studied, JudgedFairly
<1> QED BY <1>1, <1>2, <1>3, <1>4, <1>5

LEMMA StudyStep == Studied /\ [QualificationNext]_qualificationVars => Studied'
<1> SUFFICES ASSUME Studied, [QualificationNext]_qualificationVars PROVE Studied'
  OBVIOUS
<1>1. CASE UNCHANGED qualificationVars
  <2>1. UNCHANGED <<plan, way, measured, noted, inoperable, unsound, finished, broken, judgement>>
    BY <1>1 DEF qualificationVars
  <2>2. JudgedFairly'
    BY <2>1, FairForGood
  <2>3. Candidates' = Candidates /\ GraphTasks' = GraphTasks
    BY <2>1 DEF Candidates, GraphTasks
  <2>4. QualificationTypeOK'
    BY <2>1, <2>3 DEF QualificationTypeOK, Studied
  <2> QED BY <2>1, <2>2, <2>4 DEF Studied, JudgedFairly
<1>2. CASE NoteData \/ Qualify \/ JudgeLoop
  BY <1>2, LoopKeeps
<1>3. CASE \/ \E c \in Candidates : ScoreBootstrap(c)
           \/ AggregateGates
           \/ \E w \in Judged : CheckHealth(w)
           \/ \E t \in GraphTasks : RunPlain(t) \/ TaskFails(t)
  BY <1>3, GraphKeeps
<1> QED BY <1>1, <1>2, <1>3 DEF QualificationNext

LEMMA StudiedIsRight == Studied => QualificationInv
<1> SUFFICES ASSUME Studied PROVE QualificationInv
  OBVIOUS
<1>1. QualificationTypeOK /\ plan \in Plans
  BY DEF Studied, QualificationTypeOK
<1>2. QualifiedAsMeasured
  BY DEF Studied, Fair, RightlyPassed, Deserves, QualifiedAsMeasured
<1>3. SelectedIsBest
  <2>1. CASE judgement = Open
    BY <2>1 DEF SelectedIsBest, Open
  <2>2. CASE judgement # Open
    BY <2>2 DEF Studied, Fair, BestSelected, Deserves, SelectedIsBest
  <2> QED BY <2>1, <2>2
<1>4. SuiteNeedsFamilies
  <2> SUFFICES ASSUME judgement # Open
               PROVE  judgement.suite = "PASS" <=>
                        \E chosen \in SUBSET PassedWorlds(judgement.decisions) :
                          /\ Cardinality(chosen) = plan.minFamilies
                          /\ \A v, w \in chosen : v # w => Family[v] # Family[w]
    BY DEF SuiteNeedsFamilies
  <2>1. judgement.suite = SuiteOf(judgement.decisions) /\ \A d \in judgement.decisions : d.world \in Worlds
    BY DEF Studied, Fair, Typed
  <2> QED BY <1>1, <2>1, SuiteKeepsFamilies
<1>5. ReceiptIsWhole
  BY WholeGraph DEF Studied, ReceiptIsWhole
<1> QED BY <1>1, <1>2, <1>3, <1>4, <1>5 DEF QualificationInv

\* The loop and the graph come to the decisions the measurements earn, world by
\* world, for the suite and in the receipt, for any worlds, plans, measurements
\* and failures.  (evaluate_world_gate, evaluate_suite_gate, run_qualification)
THEOREM QualificationIsRight == QualificationSpec => []QualificationInv
<1> QED BY StudyStarts, StudyStep, StudiedIsRight, PTL DEF QualificationSpec

-----------------------------------------------------------------------------
(* The data, for any worlds, designs, pools and lengths.  The sequences of the *)
(* model are filtered and flattened, so first what these operators return;     *)
(* then what the work, the windows, the artifacts and the scores of a design   *)
(* are; and last that makers hold a beginning of that work, and the store      *)
(* nothing but the one artifact a design can have.                             *)
(*                                                                             *)
(* FlattenSeq                                                                  *)

\* joined[i] is the concatenation of the first i sequences.
Joins(joined, seqs, n) ==
  joined = [i \in 1..n |-> IF i = 1 THEN seqs[i] ELSE joined[i - 1] \o seqs[i]]

\* The partial concatenations exist, whatever the sequences.
LEMMA JoinExists ==
  ASSUME NEW seqs, NEW n \in Nat
  PROVE  \E joined : Joins(joined, seqs, n)
<1> DEFINE F == {m \in Nat : ~\E joined : Joins(joined, seqs, m)}
<1> SUFFICES ASSUME F # {} PROVE FALSE
  OBVIOUS
<1>1. PICK m \in F : \A k \in F : m <= k
  <2>1. F \subseteq Nat
    OBVIOUS
  <2> HIDE DEF F
  <2> QED BY <2>1, LeastNumber
<1>2. CASE m = 0
  <2> DEFINE joined == [i \in 1..0 |-> seqs]
  <2>1. Joins(joined, seqs, 0)
    <3>1. joined = [i \in 1..0 |-> IF i = 1 THEN seqs[i] ELSE joined[i - 1] \o seqs[i]]
      OBVIOUS
    <3> QED BY <3>1 DEF Joins
  <2> QED BY <1>2, <2>1
<1>3. CASE m # 0
  <2>1. m - 1 \in Nat /\ m - 1 \notin F
    BY <1>1, <1>3
  <2>2. PICK f : Joins(f, seqs, m - 1)
    BY <2>1
  <2> DEFINE last == IF m = 1 THEN seqs[m] ELSE f[m - 1] \o seqs[m]
             joined == [i \in 1..m |-> IF i = m THEN last ELSE f[i]]
  <2>3. \A i \in 1..(m - 1) : f[i] = IF i = 1 THEN seqs[i] ELSE f[i - 1] \o seqs[i]
    BY <2>2 DEF Joins
  <2>4. ASSUME NEW i \in 1..m
        PROVE  joined[i] = IF i = 1 THEN seqs[i] ELSE joined[i - 1] \o seqs[i]
    BY <1>3, <2>3
  <2>5. joined = [i \in 1..m |-> IF i = 1 THEN seqs[i] ELSE joined[i - 1] \o seqs[i]]
    <3> HIDE DEF last
    <3> QED BY <2>4
  <2> HIDE DEF joined
  <2>6. Joins(joined, seqs, m)
    BY <2>5 DEF Joins
  <2> QED BY <2>6, <1>1
<1> QED BY <1>2, <1>3

\* No sequence has an element twice, no two share one.
Apart(seqs) ==
  /\ \A i \in DOMAIN seqs : IsInjective(seqs[i])
  /\ \A i, j \in DOMAIN seqs : i # j => Range(seqs[i]) \cap Range(seqs[j]) = {}

Joined(seqs, n, joined) ==
  /\ \A x : x \in Range(joined) <=> \E i \in 1..n : x \in Range(seqs[i])
  /\ Apart(seqs) => IsInjective(joined)

\* One more sequence.
LEMMA JoinsOneMore ==
  ASSUME NEW X, NEW s \in Seq(X), NEW t \in Seq(X)
  PROVE  /\ s \o t \in Seq(X)
         /\ \A x : x \in Range(s \o t) <=> x \in Range(s) \/ x \in Range(t)
         /\ (IsInjective(s) /\ IsInjective(t) /\ Range(s) \cap Range(t) = {}) => IsInjective(s \o t)
<1>1. s \o t \in Seq(X) /\ Len(s \o t) = Len(s) + Len(t) /\ DOMAIN (s \o t) = 1..(Len(s) + Len(t))
  OBVIOUS
<1>2. \A i \in 1..(Len(s) + Len(t)) : (s \o t)[i] = IF i <= Len(s) THEN s[i] ELSE t[i - Len(s)]
  OBVIOUS
<1>3. DOMAIN s = 1..Len(s) /\ DOMAIN t = 1..Len(t) /\ Len(s) \in Nat /\ Len(t) \in Nat
  OBVIOUS
<1> DEFINE u == s \o t
<1>4. \A i \in DOMAIN s : i \in DOMAIN u /\ u[i] = s[i]
  BY <1>1, <1>2, <1>3
<1>5. \A i \in DOMAIN t : i + Len(s) \in DOMAIN u /\ u[i + Len(s)] = t[i]
  BY <1>1, <1>2, <1>3
<1>6. \A i \in DOMAIN u : \/ i \in DOMAIN s /\ u[i] = s[i]
                          \/ i - Len(s) \in DOMAIN t /\ u[i] = t[i - Len(s)]
  BY <1>1, <1>2, <1>3
<1>7. DOMAIN u \subseteq Int
  BY <1>1, <1>3
<1> HIDE DEF u
<1>8. ASSUME NEW x PROVE x \in Range(u) <=> x \in Range(s) \/ x \in Range(t)
  BY <1>4, <1>5, <1>6 DEF Range
<1>9. ASSUME IsInjective(s), IsInjective(t), Range(s) \cap Range(t) = {},
             NEW i \in DOMAIN u, NEW j \in DOMAIN u, u[i] = u[j]
      PROVE  i = j
  <2>1. CASE i \in DOMAIN s /\ u[i] = s[i] /\ j \in DOMAIN s /\ u[j] = s[j]
    BY <2>1, <1>9 DEF IsInjective
  <2>2. CASE i - Len(s) \in DOMAIN t /\ u[i] = t[i - Len(s)] /\ j - Len(s) \in DOMAIN t /\ u[j] = t[j - Len(s)]
    <3>1. i - Len(s) = j - Len(s)
      BY <2>2, <1>9 DEF IsInjective
    <3> QED BY <3>1, <1>3, <1>7
  <2>3. CASE i \in DOMAIN s /\ u[i] = s[i] /\ j - Len(s) \in DOMAIN t /\ u[j] = t[j - Len(s)]
    BY <2>3, <1>9 DEF Range
  <2>4. CASE i - Len(s) \in DOMAIN t /\ u[i] = t[i - Len(s)] /\ j \in DOMAIN s /\ u[j] = s[j]
    BY <2>4, <1>9 DEF Range
  <2> QED BY <2>1, <2>2, <2>3, <2>4, <1>6
<1>10. (IsInjective(s) /\ IsInjective(t) /\ Range(s) \cap Range(t) = {}) => IsInjective(u)
  BY <1>9 DEF IsInjective
<1> QED BY <1>1, <1>8, <1>10 DEF u

\* What they contain.
LEMMA JoinIs ==
  ASSUME NEW X, NEW seqs \in Seq(Seq(X)), NEW joined, Joins(joined, seqs, Len(seqs)),
         NEW n \in 1..Len(seqs)
  PROVE  joined[n] \in Seq(X) /\ Joined(seqs, n, joined[n])
<1> DEFINE Good(k) == joined[k] \in Seq(X) /\ Joined(seqs, k, joined[k])
           F == {k \in 1..Len(seqs) : ~Good(k)}
<1>a. \A i \in 1..Len(seqs) : joined[i] = (IF i = 1 THEN seqs[i] ELSE joined[i - 1] \o seqs[i])
  BY DEF Joins
<1>b. \A i \in 1..Len(seqs) : seqs[i] \in Seq(X) /\ i \in Nat /\ i \in DOMAIN seqs
  OBVIOUS
<1>0. \A i \in 1..Len(seqs) :
         /\ joined[i] = (IF i = 1 THEN seqs[i] ELSE joined[i - 1] \o seqs[i])
         /\ seqs[i] \in Seq(X) /\ i \in Nat /\ i \in DOMAIN seqs
  BY <1>a, <1>b
<1> SUFFICES ASSUME F # {} PROVE FALSE
  OBVIOUS
<1>1. PICK k \in F : \A l \in F : k <= l
  <2>1. F \subseteq Nat
    BY <1>0
  <2> HIDE DEF F
  <2> QED BY <2>1, LeastNumber
<1>2. CASE k = 1
  <2>1. joined[1] = seqs[1] /\ seqs[1] \in Seq(X) /\ 1 \in DOMAIN seqs
    BY <1>0, <1>1, <1>2
  <2>2. \A i \in 1..1 : i = 1
    OBVIOUS
  <2>3. Good(1)
    BY <2>1, <2>2 DEF Joined, Apart
  <2> QED BY <2>3, <1>1, <1>2
<1>3. CASE k # 1
  <2>1. k \in 1..Len(seqs) /\ k - 1 \in 1..Len(seqs) /\ ~(k <= k - 1)
    BY <1>1, <1>3
  <2>2. Good(k - 1)
    BY <2>1, <1>1
  <2>3. joined[k] = joined[k - 1] \o seqs[k] /\ seqs[k] \in Seq(X) /\ k \in DOMAIN seqs
    BY <1>0, <2>1, <1>3
  <2>4. PICK s : s = joined[k - 1]
    OBVIOUS
  <2>5. PICK t : t = seqs[k]
    OBVIOUS
  <2>6. s \in Seq(X) /\ t \in Seq(X) /\ Joined(seqs, k - 1, s) /\ joined[k] = s \o t
    BY <2>2, <2>3, <2>4, <2>5
  <2>7. /\ s \o t \in Seq(X)
        /\ \A x : x \in Range(s \o t) <=> x \in Range(s) \/ x \in Range(t)
        /\ (IsInjective(s) /\ IsInjective(t) /\ Range(s) \cap Range(t) = {}) => IsInjective(s \o t)
    BY <2>6, JoinsOneMore
  <2>8. 1..k = (1..(k - 1)) \cup {k} /\ \A i \in 1..(k - 1) : i # k /\ i \in DOMAIN seqs
    BY <2>1
  <2>9. \A x : x \in Range(s) <=> \E i \in 1..(k - 1) : x \in Range(seqs[i])
    BY <2>6 DEF Joined
  <2>10. \A x : x \in Range(s \o t) <=> \E i \in 1..k : x \in Range(seqs[i])
    BY <2>7, <2>8, <2>9, <2>5
  <2>11. ASSUME Apart(seqs) PROVE IsInjective(s \o t)
    <3>1. IsInjective(s) /\ IsInjective(t)
      BY <2>11, <2>6, <2>5, <2>3 DEF Joined, Apart
    <3>2. \A i \in 1..(k - 1) : Range(seqs[i]) \cap Range(seqs[k]) = {}
      BY <2>11, <2>8, <2>3 DEF Apart
    <3>3. Range(s) \cap Range(t) = {}
      BY <3>2, <2>9, <2>5
    <3> QED BY <3>1, <3>3, <2>7
  <2>12. Good(k)
    BY <2>6, <2>7, <2>10, <2>11 DEF Joined
  <2> QED BY <2>12, <1>1
<1> QED BY <1>2, <1>3

\* What a comprehension over several sequences makes: their elements, and no
\* element twice when no two of them share one.
LEMMA FlattenSeqIs ==
  ASSUME NEW X, NEW seqs \in Seq(Seq(X))
  PROVE  /\ FlattenSeq(seqs) \in Seq(X)
         /\ \A x : x \in Range(FlattenSeq(seqs)) <=> \E i \in DOMAIN seqs : x \in Range(seqs[i])
         /\ Apart(seqs) => IsInjective(FlattenSeq(seqs))
<1>1. CASE Len(seqs) = 0
  <2>1. FlattenSeq(seqs) = << >> /\ seqs = << >>
    BY <1>1 DEF FlattenSeq
  <2> QED BY <2>1 DEF Range, IsInjective
<1>2. CASE Len(seqs) # 0
  <2> DEFINE n == Len(seqs)
             joined == CHOOSE f : f = [i \in 1..n |-> IF i = 1 THEN seqs[i] ELSE f[i - 1] \o seqs[i]]
  <2>1. n \in Nat /\ n \in 1..n /\ DOMAIN seqs = 1..n
    BY <1>2
  <2>2. FlattenSeq(seqs) = joined[n]
    BY <1>2 DEF FlattenSeq
  <2>3. \E f : f = [i \in 1..n |-> IF i = 1 THEN seqs[i] ELSE f[i - 1] \o seqs[i]]
    BY <2>1, JoinExists DEF Joins
  <2>4. joined = [i \in 1..n |-> IF i = 1 THEN seqs[i] ELSE joined[i - 1] \o seqs[i]]
    BY <2>3
  <2> HIDE DEF joined
  <2>5. Joins(joined, seqs, n)
    BY <2>4 DEF Joins
  <2>6. joined[n] \in Seq(X) /\ Joined(seqs, n, joined[n])
    BY <2>1, <2>5, JoinIs
  <2> QED BY <2>1, <2>2, <2>6 DEF Joined
<1> QED BY <1>1, <1>2

\* A function on 1..n is a sequence.
LEMMA SequenceIs ==
  ASSUME NEW S, NEW n \in Nat, NEW f \in [1..n -> S]
  PROVE  f \in Seq(S) /\ Len(f) = n /\ DOMAIN f = 1..n
  OBVIOUS

\* A filter keeps the elements that are asked for, and brings none twice.
LEMMA FilteredIs ==
  ASSUME NEW X, NEW seq \in Seq(X), NEW S
  PROVE  /\ Filtered(seq, S) \in Seq(X)
         /\ \A x : x \in Range(Filtered(seq, S)) <=> x \in Range(seq) /\ x \in S
         /\ IsInjective(seq) => IsInjective(Filtered(seq, S))
<1> DEFINE single == [i \in DOMAIN seq |-> IF seq[i] \in S THEN <<seq[i]>> ELSE << >>]
<1>1. DOMAIN seq = 1..Len(seq) /\ Len(seq) \in Nat /\ \A i \in DOMAIN seq : seq[i] \in X
  OBVIOUS
<1>2. \A x \in X : <<x>> \in Seq(X)
  OBVIOUS
<1>3. << >> \in Seq(X)
  OBVIOUS
<1>4. single \in [1..Len(seq) -> Seq(X)]
  BY <1>1, <1>2, <1>3
<1>5. single \in Seq(Seq(X)) /\ DOMAIN single = DOMAIN seq
  BY <1>1, <1>4, SequenceIs
<1>6. \A i \in DOMAIN seq : single[i] = IF seq[i] \in S THEN <<seq[i]>> ELSE << >>
  OBVIOUS
<1>7. Filtered(seq, S) = FlattenSeq(single)
  BY DEF Filtered
<1> HIDE DEF single
<1>8. \A x : Range(<<x>>) = {x} /\ IsInjective(<<x>>)
  BY DEF Range, IsInjective
<1>9. Range(<< >>) = {} /\ IsInjective(<< >>)
  BY DEF Range, IsInjective
<1>10. \A i \in DOMAIN seq : Range(single[i]) = (IF seq[i] \in S THEN {seq[i]} ELSE {}) /\ IsInjective(single[i])
  BY <1>6, <1>8, <1>9
<1>11. IsInjective(seq) => Apart(single)
  BY <1>5, <1>10 DEF Apart, IsInjective
<1>12. /\ FlattenSeq(single) \in Seq(X)
       /\ \A x : x \in Range(FlattenSeq(single)) <=> \E i \in DOMAIN single : x \in Range(single[i])
       /\ Apart(single) => IsInjective(FlattenSeq(single))
  BY <1>5, FlattenSeqIs
<1>13. \A x : x \in Range(FlattenSeq(single)) <=> \E i \in DOMAIN seq : seq[i] \in S /\ x = seq[i]
  <2>1. \A x : \A i \in DOMAIN seq : x \in Range(single[i]) <=> seq[i] \in S /\ x = seq[i]
    BY <1>10
  <2> QED BY <2>1, <1>12, <1>5
<1>14. \A x : x \in Range(FlattenSeq(single)) <=> x \in Range(seq) /\ x \in S
  BY <1>13 DEF Range
<1> QED BY <1>7, <1>11, <1>12, <1>14

-----------------------------------------------------------------------------
(* Counting *)

\* Two sets in one-to-one correspondence are of one size.
LEMMA SameSize ==
  ASSUME NEW S, NEW T, IsFiniteSet(S), NEW f \in [S -> T],
         \A x, y \in S : f[x] = f[y] => x = y,
         \A z \in T : \E x \in S : f[x] = z
  PROVE  IsFiniteSet(T) /\ Cardinality(T) = Cardinality(S)
<1>1. f \in Injection(S, T)
  BY DEF Injection, IsInjective
<1>2. f \in Surjection(S, T)
  BY DEF Surjection
<1> QED BY <1>1, <1>2, FS_Surjection

\* A set that fits into another is no larger.
LEMMA NotLarger ==
  ASSUME NEW S, NEW T, IsFiniteSet(T), NEW f \in [S -> T],
         \A x, y \in S : f[x] = f[y] => x = y
  PROVE  IsFiniteSet(S) /\ Cardinality(S) <= Cardinality(T)
<1>1. f \in Injection(S, T)
  BY DEF Injection, IsInjective
<1> QED BY <1>1, FS_Injection

\* A sequence without repetition is as long as it has elements.
LEMMA LengthIsSize ==
  ASSUME NEW X, NEW seq \in Seq(X), IsInjective(seq)
  PROVE  IsFiniteSet(Range(seq)) /\ Cardinality(Range(seq)) = Len(seq)
<1>1. Len(seq) \in Nat /\ DOMAIN seq = 1..Len(seq) /\ seq = [i \in 1..Len(seq) |-> seq[i]]
  OBVIOUS
<1>2. seq \in [1..Len(seq) -> Range(seq)]
  BY <1>1 DEF Range
<1>3. \A x, y \in 1..Len(seq) : seq[x] = seq[y] => x = y
  BY <1>1 DEF IsInjective
<1>4. \A z \in Range(seq) : \E x \in 1..Len(seq) : seq[x] = z
  BY <1>1 DEF Range
<1>5. IsFiniteSet(1..Len(seq)) /\ Cardinality(1..Len(seq)) = Len(seq)
  <2>1. PICK n \in Nat : n = Len(seq)
    BY <1>1
  <2>2. IsFiniteSet(1..n) /\ Cardinality(1..n) = n
    BY FS_Interval
  <2> QED BY <2>1, <2>2
<1> QED BY <1>2, <1>3, <1>4, <1>5, SameSize

-----------------------------------------------------------------------------
(* Taking turns *)

\* Division with remainder.
LEMMA DivisionIs ==
  ASSUME NEW L \in Nat \ {0}, NEW i \in Nat
  PROVE  \E q \in Nat : i = L * q + (i % L) /\ i % L \in 0..(L - 1)
<1>1. i \div L \in Int /\ i = L * (i \div L) + (i % L)
  OBVIOUS
<1>2. i % L \in 0..(L - 1)
  OBVIOUS
<1>3. i \div L \in Nat
  OBVIOUS
<1> QED BY <1>1, <1>2, <1>3

\* The remainder of a sum that is written as quotient and remainder.
LEMMA RemainderIs ==
  ASSUME NEW L \in Nat \ {0}, NEW q \in Nat, NEW k \in 0..(L - 1)
  PROVE  (L * q + k) % L = k
<1> DEFINE x == L * q + k
<1>1. x \in Nat
  OBVIOUS
<1> HIDE DEF x
<1>2. PICK r \in Nat : x = L * r + (x % L) /\ x % L \in 0..(L - 1)
  BY <1>1, DivisionIs
<1>3. PICK l \in 0..(L - 1) : l = x % L
  BY <1>2
<1>4. L * q + k = L * r + l
  BY <1>2, <1>3 DEF x
<1>5. k = l
  BY <1>4
<1> QED BY <1>3, <1>5 DEF x

\* Whose turn the i-th is, when L take turns.
WhoseTurn(i, L) == 1 + ((i - 1) % L)

\* Every number is somebody's turn.
LEMMA TurnIs ==
  ASSUME NEW L \in Nat \ {0}, NEW i \in Nat \ {0}
  PROVE  \E q \in Nat : i = L * q + WhoseTurn(i, L) /\ WhoseTurn(i, L) \in 1..L
<1>1. i - 1 \in Nat
  OBVIOUS
<1>2. PICK q \in Nat : i - 1 = L * q + ((i - 1) % L) /\ (i - 1) % L \in 0..(L - 1)
  BY <1>1, DivisionIs
<1>3. PICK k \in 0..(L - 1) : k = (i - 1) % L
  BY <1>2
<1>4. WhoseTurn(i, L) = 1 + k
  BY <1>3 DEF WhoseTurn
<1>5. L * q \in Nat
  OBVIOUS
<1>6. i = L * q + (1 + k) /\ 1 + k \in 1..L
  BY <1>2, <1>3, <1>5
<1> QED BY <1>4, <1>6

\* Who has the turn, from quotient and place.
LEMMA TurnOf ==
  ASSUME NEW L \in Nat \ {0}, NEW q \in Nat, NEW a \in 1..L
  PROVE  WhoseTurn(L * q + a, L) = a
<1>1. a - 1 \in 0..(L - 1) /\ L * q \in Nat /\ (L * q + a) - 1 = L * q + (a - 1)
  OBVIOUS
<1>2. (L * q + (a - 1)) % L = a - 1
  BY <1>1, RemainderIs
<1> QED BY <1>1, <1>2 DEF WhoseTurn

\* Who take turns are used equally often, or once less.
LEMMA TurnsAreEven ==
  ASSUME NEW L \in Nat \ {0}, NEW n \in Nat, NEW a \in 1..L, NEW b \in 1..L
  PROVE  Cardinality({i \in 1..n : WhoseTurn(i, L) = a}) <= 1 + Cardinality({i \in 1..n : WhoseTurn(i, L) = b})
<1> DEFINE A == {i \in 1..n : WhoseTurn(i, L) = a}
           B == {i \in 1..n : WhoseTurn(i, L) = b}
           d == IF b <= a THEN a - b ELSE a - b + L
           f == [i \in A \ {a} |-> i - d]
<1>1. IsFiniteSet(A) /\ IsFiniteSet(B)
  <2>1. IsFiniteSet(1..n)
    BY FS_Interval
  <2> QED BY <2>1, FS_Subset
<1>2. d \in 0..(L - 1)
  OBVIOUS
<1>3. ASSUME NEW i \in A \ {a} PROVE i - d \in B
  <2>1. i \in Nat \ {0} /\ WhoseTurn(i, L) = a /\ i # a /\ i <= n
    OBVIOUS
  <2>2. PICK q \in Nat : i = L * q + a
    BY <2>1, TurnIs
  <2>3. q # 0
    BY <2>1, <2>2
  <2>4. q - 1 \in Nat /\ L * (q - 1) = L * q - L /\ L * (q - 1) \in Nat /\ L * q \in Nat
    BY <2>3
  <2>5. CASE b <= a
    <3>1. i - d = L * q + b
      BY <2>2, <2>4, <2>5
    <3>2. WhoseTurn(i - d, L) = b
      BY <3>1, TurnOf
    <3>3. i - d \in 1..n
      BY <3>1, <2>1, <2>2, <2>4, <2>5
    <3> QED BY <3>2, <3>3
  <2>6. CASE ~(b <= a)
    <3>1. i - d = L * (q - 1) + b
      BY <2>2, <2>4, <2>6
    <3>2. WhoseTurn(i - d, L) = b
      BY <3>1, <2>4, TurnOf
    <3>3. i - d \in 1..n
      BY <3>1, <2>1, <2>2, <2>4, <2>6
    <3> QED BY <3>2, <3>3
  <2> QED BY <2>5, <2>6
<1>4. A \subseteq Nat
  OBVIOUS
<1> HIDE DEF A, B, d
<1>5. f \in [A \ {a} -> B]
  BY <1>3
<1>6. \A x, y \in A \ {a} : f[x] = f[y] => x = y
  BY <1>2, <1>4
<1> HIDE DEF f
<1>7. Cardinality(A \ {a}) <= Cardinality(B)
  BY <1>1, <1>5, <1>6, NotLarger
<1>8. Cardinality(A \ {a}) = IF a \in A THEN Cardinality(A) - 1 ELSE Cardinality(A)
  BY <1>1, FS_RemoveElement
<1>9. Cardinality(A) \in Nat /\ Cardinality(B) \in Nat
  BY <1>1, FS_CardinalityType
<1>10. Cardinality(A) <= 1 + Cardinality(B)
  BY <1>7, <1>8, <1>9
<1> QED BY <1>10 DEF A, B

-----------------------------------------------------------------------------
(* The design *)

\* The partitions of each task; the second is where a fault can be.
LEMMA PartitionsAre ==
  /\ Range(PartitionsOf("stage1b")) = {"TRAIN", "VALIDATION", "TEST_SEEN", "TEST_UNSEEN"}
  /\ Range(PartitionsOf("stage2")) = {"TRAIN", "VALIDATION"}
  /\ Range(PartitionsOf("e02")) = {"TEST_SEEN", "TEST_UNSEEN"}
  /\ \A t \in DataTasks :
       /\ PartitionsOf(t) \in Seq(Range(PartitionsOf(t))) /\ IsInjective(PartitionsOf(t))
       /\ 2 \in DOMAIN PartitionsOf(t)
<1> DEFINE P == PartitionOrder
<1>1. PartitionsOf("stage1b") = [i \in 1..4 |-> P[i]]
  BY DEF PartitionsOf, PartitionOrder
<1>2. PartitionsOf("stage2") = [i \in 1..2 |-> P[i]]
  BY DEF PartitionsOf, PartitionOrder
<1>3. PartitionsOf("e02") = [i \in 1..2 |-> P[i + 2]]
  BY DEF PartitionsOf, PartitionOrder
<1>4. P[1] = "TRAIN" /\ P[2] = "VALIDATION" /\ P[3] = "TEST_SEEN" /\ P[4] = "TEST_UNSEEN"
  BY DEF PartitionOrder
<1> HIDE DEF P
<1>5. /\ 1..4 = {1, 2, 3, 4} /\ 1..2 = {1, 2} /\ 1 + 2 = 3 /\ 2 + 2 = 4
  OBVIOUS
<1>6. Range(PartitionsOf("stage1b")) = {"TRAIN", "VALIDATION", "TEST_SEEN", "TEST_UNSEEN"}
  BY <1>1, <1>4, <1>5 DEF Range
<1>7. Range(PartitionsOf("stage2")) = {"TRAIN", "VALIDATION"}
  BY <1>2, <1>4, <1>5 DEF Range
<1>8. Range(PartitionsOf("e02")) = {"TEST_SEEN", "TEST_UNSEEN"}
  BY <1>3, <1>4, <1>5 DEF Range
<1>9. /\ PartitionsOf("stage1b") \in [1..4 -> Range(PartitionsOf("stage1b"))]
      /\ PartitionsOf("stage2") \in [1..2 -> Range(PartitionsOf("stage2"))]
      /\ PartitionsOf("e02") \in [1..2 -> Range(PartitionsOf("e02"))]
  BY <1>1, <1>2, <1>3 DEF Range
<1>10. /\ IsInjective(PartitionsOf("stage1b")) /\ IsInjective(PartitionsOf("stage2"))
       /\ IsInjective(PartitionsOf("e02"))
  BY <1>1, <1>2, <1>3, <1>4, <1>5 DEF IsInjective
<1>11. ASSUME NEW t \in DataTasks
       PROVE  /\ PartitionsOf(t) \in Seq(Range(PartitionsOf(t))) /\ IsInjective(PartitionsOf(t))
              /\ 2 \in DOMAIN PartitionsOf(t)
  <2>1. CASE t = "stage1b"
    <3>1. PICK f : f = PartitionsOf("stage1b")
      OBVIOUS
    <3>2. f \in [1..4 -> Range(f)]
      BY <3>1, <1>9
    <3>3. f \in Seq(Range(f)) /\ DOMAIN f = 1..4
      BY <3>2, SequenceIs
    <3> QED BY <2>1, <3>1, <3>3, <1>10
  <2>2. CASE t = "stage2"
    <3>1. PICK f : f = PartitionsOf("stage2")
      OBVIOUS
    <3>2. f \in [1..2 -> Range(f)]
      BY <3>1, <1>9
    <3>3. f \in Seq(Range(f)) /\ DOMAIN f = 1..2
      BY <3>2, SequenceIs
    <3> QED BY <2>2, <3>1, <3>3, <1>10
  <2>3. CASE t = "e02"
    <3>1. PICK f : f = PartitionsOf("e02")
      OBVIOUS
    <3>2. f \in [1..2 -> Range(f)]
      BY <3>1, <1>9
    <3>3. f \in Seq(Range(f)) /\ DOMAIN f = 1..2
      BY <3>2, SequenceIs
    <3> QED BY <2>3, <3>1, <3>3, <1>10
  <2> QED BY <2>1, <2>2, <2>3 DEF DataTasks
<1> QED BY <1>6, <1>7, <1>8, <1>11

\* The regimes of a partition are those of the world with its role, each once.
LEMMA EligibleIs ==
  ASSUME regimes \in WorldRegimes, NEW p
  PROVE  /\ Eligible(p) \in Seq(Range(regimes)) /\ IsInjective(Eligible(p))
         /\ \A r : r \in Range(Eligible(p)) <=> r \in Range(regimes) /\ r.role = RoleOfPartition(p)
<1> DEFINE S == {r \in Range(regimes) : r.role = RoleOfPartition(p)}
<1>1. regimes \in Seq(Range(regimes)) /\ IsInjective(regimes)
  BY RegimeAssumption
<1>2. Eligible(p) = Filtered(regimes, S)
  BY DEF Eligible
<1>3. \A r : r \in S <=> r \in Range(regimes) /\ r.role = RoleOfPartition(p)
  OBVIOUS
<1> HIDE DEF S
<1>4. /\ Filtered(regimes, S) \in Seq(Range(regimes))
      /\ \A x : x \in Range(Filtered(regimes, S)) <=> x \in Range(regimes) /\ x \in S
      /\ IsInjective(regimes) => IsInjective(Filtered(regimes, S))
  BY <1>1, FilteredIs
<1> QED BY <1>1, <1>2, <1>3, <1>4

\* The regime of the i-th trajectory, and the work that makes it.
RegimeOf(p, i) == Eligible(p)[WhoseTurn(i, Len(Eligible(p)))]
Item(t, s, p, i) == [task |-> t, seed |-> s, partition |-> p, index |-> i, regime |-> RegimeOf(p, i)]
Items(t) ==
  {Item(t, s, p, i) : s \in Range(DesignSeeds[t]), p \in Range(PartitionsOf(t)), i \in Nat \ {0}}

\* The regime of a trajectory is one of the partition, and of its role.
LEMMA RegimeIs ==
  ASSUME regimes \in WorldRegimes, NEW p, Eligible(p) # << >>, NEW i \in Nat \ {0}
  PROVE  /\ Len(Eligible(p)) \in Nat \ {0}
         /\ WhoseTurn(i, Len(Eligible(p))) \in 1..Len(Eligible(p))
         /\ RegimeOf(p, i) \in Range(Eligible(p)) /\ RegimeOf(p, i).role = RoleOfPartition(p)
<1>1. Eligible(p) \in Seq(Range(regimes))
  BY EligibleIs
<1>2. PICK L : L = Len(Eligible(p))
  OBVIOUS
<1>3. L \in Nat \ {0} /\ DOMAIN Eligible(p) = 1..L
  BY <1>1, <1>2
<1>4. WhoseTurn(i, L) \in 1..L
  BY <1>3, TurnIs
<1>5. RegimeOf(p, i) \in Range(Eligible(p))
  BY <1>2, <1>3, <1>4 DEF RegimeOf, Range
<1> QED BY <1>2, <1>3, <1>4, <1>5, EligibleIs

\* The work of a seed and a partition is its count of items.
LEMMA ShareIs ==
  ASSUME NEW t \in DataTasks, NEW s \in Range(DesignSeeds[t]), NEW p \in Range(PartitionsOf(t))
  PROVE  /\ Share(t, s, p) \in Seq(Items(t)) /\ IsInjective(Share(t, s, p))
         /\ \A x : x \in Range(Share(t, s, p)) <=> \E i \in 1..DesignCount[t][p] : x = Item(t, s, p, i)
<1>1. PICK n \in Nat : n = DesignCount[t][p]
  BY DesignAssumption
<1>2. Share(t, s, p) = [i \in 1..n |-> Item(t, s, p, i)]
  BY <1>1 DEF Share, Item, RegimeOf, WhoseTurn
<1>3. \A i \in 1..n : Item(t, s, p, i) \in Items(t)
  BY DEF Items
<1>4. Share(t, s, p) \in [1..n -> Items(t)]
  BY <1>2, <1>3
<1>5. Share(t, s, p) \in Seq(Items(t))
  BY <1>4, SequenceIs
<1>6. \A i, j : Item(t, s, p, i) = Item(t, s, p, j) => i = j
  BY DEF Item
<1> QED BY <1>1, <1>2, <1>5, <1>6 DEF IsInjective, Range

\* The work of one seed.
SeedShare(t, s) == FlattenSeq([q \in DOMAIN PartitionsOf(t) |-> Share(t, s, PartitionsOf(t)[q])])

\* The work of a seed is that of its partitions.
LEMMA SeedShareIs ==
  ASSUME NEW t \in DataTasks, NEW s \in Range(DesignSeeds[t])
  PROVE  /\ SeedShare(t, s) \in Seq(Items(t)) /\ IsInjective(SeedShare(t, s))
         /\ \A x : x \in Range(SeedShare(t, s)) <=>
                     \E p \in Range(PartitionsOf(t)) : \E i \in 1..DesignCount[t][p] : x = Item(t, s, p, i)
<1> DEFINE shares == [q \in DOMAIN PartitionsOf(t) |-> Share(t, s, PartitionsOf(t)[q])]
<1>1. PICK P : P = PartitionsOf(t)
  OBVIOUS
<1>2. P \in Seq(Range(P)) /\ IsInjective(P) /\ DOMAIN P = 1..Len(P) /\ Len(P) \in Nat
  BY <1>1, PartitionsAre
<1>3. \A q \in DOMAIN P : P[q] \in Range(PartitionsOf(t))
  BY <1>1 DEF Range
<1>4. DOMAIN shares = DOMAIN P /\ \A q \in DOMAIN P : shares[q] = Share(t, s, P[q])
  BY <1>1
<1>5. \A q \in DOMAIN P :
         /\ shares[q] \in Seq(Items(t)) /\ IsInjective(shares[q])
         /\ \A x : x \in Range(shares[q]) <=> \E i \in 1..DesignCount[t][P[q]] : x = Item(t, s, P[q], i)
  BY <1>3, <1>4, ShareIs
<1>6. shares \in [1..Len(P) -> Seq(Items(t))]
  BY <1>2, <1>4, <1>5
<1>7. SeedShare(t, s) = FlattenSeq(shares)
  BY DEF SeedShare
<1> HIDE DEF shares
<1>8. shares \in Seq(Seq(Items(t)))
  BY <1>2, <1>6, SequenceIs
<1>9. \A x : \A q \in DOMAIN P : x \in Range(shares[q]) => x.partition = P[q]
  BY <1>5 DEF Item
<1>10. \A q, r \in DOMAIN P : q # r => P[q] # P[r]
  BY <1>2 DEF IsInjective
<1>11. Apart(shares)
  BY <1>4, <1>5, <1>9, <1>10 DEF Apart
<1>12. /\ FlattenSeq(shares) \in Seq(Items(t))
       /\ \A x : x \in Range(FlattenSeq(shares)) <=> \E q \in DOMAIN shares : x \in Range(shares[q])
       /\ Apart(shares) => IsInjective(FlattenSeq(shares))
  BY <1>8, FlattenSeqIs
<1>13. ASSUME NEW x
       PROVE  x \in Range(FlattenSeq(shares)) <=>
                \E p \in Range(PartitionsOf(t)) : \E i \in 1..DesignCount[t][p] : x = Item(t, s, p, i)
  <2>1. x \in Range(FlattenSeq(shares)) <=> \E q \in DOMAIN P : \E i \in 1..DesignCount[t][P[q]] : x = Item(t, s, P[q], i)
    BY <1>4, <1>5, <1>12
  <2> QED BY <2>1, <1>1 DEF Range
<1> QED BY <1>7, <1>11, <1>12, <1>13

\* The work of a task is the design: every seed, partition and index, each once.
LEMMA WorkItemsAre ==
  ASSUME NEW t \in DataTasks
  PROVE  /\ WorkItems(t) \in Seq(Items(t)) /\ IsInjective(WorkItems(t))
         /\ \A x : x \in Range(WorkItems(t)) <=>
                     \E s \in Range(DesignSeeds[t]), p \in Range(PartitionsOf(t)) :
                       \E i \in 1..DesignCount[t][p] : x = Item(t, s, p, i)
<1> DEFINE shares == [k \in DOMAIN DesignSeeds[t] |-> SeedShare(t, DesignSeeds[t][k])]
<1>1. PICK D : D = DesignSeeds[t]
  OBVIOUS
<1>2. D \in Seq(Range(D)) /\ IsInjective(D) /\ DOMAIN D = 1..Len(D) /\ Len(D) \in Nat
  BY <1>1, DesignAssumption
<1>3. \A k \in DOMAIN D : D[k] \in Range(DesignSeeds[t])
  BY <1>1 DEF Range
<1>4. DOMAIN shares = DOMAIN D /\ \A k \in DOMAIN D : shares[k] = SeedShare(t, D[k])
  BY <1>1
<1>5. ASSUME NEW k \in DOMAIN D
      PROVE  /\ shares[k] \in Seq(Items(t)) /\ IsInjective(shares[k])
             /\ \A x : x \in Range(shares[k]) <=>
                         \E p \in Range(PartitionsOf(t)) : \E i \in 1..DesignCount[t][p] : x = Item(t, D[k], p, i)
  <2>1. PICK s \in Range(DesignSeeds[t]) : s = D[k]
    BY <1>3
  <2>2. shares[k] = SeedShare(t, s)
    BY <2>1, <1>4
  <2>3. /\ SeedShare(t, s) \in Seq(Items(t)) /\ IsInjective(SeedShare(t, s))
        /\ \A x : x \in Range(SeedShare(t, s)) <=>
                    \E p \in Range(PartitionsOf(t)) : \E i \in 1..DesignCount[t][p] : x = Item(t, s, p, i)
    BY SeedShareIs
  <2> QED BY <2>1, <2>2, <2>3
<1>6. shares \in [1..Len(D) -> Seq(Items(t))]
  BY <1>2, <1>4, <1>5
<1>7. WorkItems(t) = FlattenSeq(shares)
  BY DEF WorkItems, SeedShare
<1> HIDE DEF shares
<1>8. shares \in Seq(Seq(Items(t)))
  BY <1>2, <1>6, SequenceIs
<1>9. \A x : \A k \in DOMAIN D : x \in Range(shares[k]) => x.seed = D[k]
  BY <1>5 DEF Item
<1>10. \A k, l \in DOMAIN D : k # l => D[k] # D[l]
  BY <1>2 DEF IsInjective
<1>11. Apart(shares)
  BY <1>4, <1>5, <1>9, <1>10 DEF Apart
<1>12. /\ FlattenSeq(shares) \in Seq(Items(t))
       /\ \A x : x \in Range(FlattenSeq(shares)) <=> \E k \in DOMAIN shares : x \in Range(shares[k])
       /\ Apart(shares) => IsInjective(FlattenSeq(shares))
  BY <1>8, FlattenSeqIs
<1>13. ASSUME NEW x
       PROVE  x \in Range(FlattenSeq(shares)) <=>
                \E s \in Range(DesignSeeds[t]), p \in Range(PartitionsOf(t)) :
                  \E i \in 1..DesignCount[t][p] : x = Item(t, s, p, i)
  <2>1. x \in Range(FlattenSeq(shares)) <=>
          \E k \in DOMAIN D : \E p \in Range(PartitionsOf(t)) : \E i \in 1..DesignCount[t][p] : x = Item(t, D[k], p, i)
    BY <1>4, <1>5, <1>12
  <2> QED BY <2>1, <1>1 DEF Range
<1> QED BY <1>7, <1>11, <1>12, <1>13

\* An item is what names its trajectory.
LEMMA IdsAreApart ==
  ASSUME NEW t, NEW x \in Items(t), NEW y \in Items(t), TrajectoryId(x) = TrajectoryId(y)
  PROVE  x = y
<1>1. PICK s, p, i : x = Item(t, s, p, i)
  BY DEF Items
<1>2. PICK r, q, j : y = Item(t, r, q, j)
  BY DEF Items
<1>3. s = r /\ p = q /\ i = j
  BY <1>1, <1>2 DEF Item, TrajectoryId, Named
<1> QED BY <1>1, <1>2, <1>3

-----------------------------------------------------------------------------
(* Windows *)

WindowOf(x, k) == [id |-> TrajectoryId(x), regime |-> x.regime, start |-> k]
WindowsFor(t) == {WindowOf(x, k) : x \in Items(t), k \in Starts}

\* There is a first window, and they are numbered from nought.
LEMMA StartsAre ==
  /\ IsFiniteSet(Starts) /\ Cardinality(Starts) \in Nat \ {0}
  /\ Starts = 0..(Cardinality(Starts) - 1)
<1>1. PICK n \in Nat : n = Length - History - Horizon
  BY LengthAssumption
<1>2. Starts = 0..n
  BY <1>1 DEF Starts
<1>3. IsFiniteSet(0..n) /\ Cardinality(0..n) = n + 1
  BY FS_Interval
<1> QED BY <1>2, <1>3

\* A trajectory has a window at every start.
LEMMA WindowsOfAre ==
  ASSUME NEW t, NEW x \in Items(t)
  PROVE  /\ WindowsOf(x) \in Seq(WindowsFor(t)) /\ IsInjective(WindowsOf(x))
         /\ \A w : w \in Range(WindowsOf(x)) <=> \E k \in Starts : w = WindowOf(x, k)
<1>1. PICK n \in Nat \ {0} : n = Cardinality(Starts)
  BY StartsAre
<1>2. Starts = 0..(n - 1)
  BY <1>1, StartsAre
<1>3. WindowsOf(x) = [k \in 1..n |-> WindowOf(x, k - 1)]
  BY <1>1 DEF WindowsOf, WindowOf
<1>4. \A k \in 1..n : k - 1 \in Starts
  BY <1>2
<1>5. \A k \in Starts : k + 1 \in 1..n /\ (k + 1) - 1 = k
  BY <1>2
<1>6. \A k \in 1..n : WindowOf(x, k - 1) \in WindowsFor(t)
  BY <1>4 DEF WindowsFor
<1>7. WindowsOf(x) \in [1..n -> WindowsFor(t)]
  BY <1>3, <1>6
<1>8. WindowsOf(x) \in Seq(WindowsFor(t))
  BY <1>7, SequenceIs
<1>9. \A k, l \in 1..n : WindowOf(x, k - 1) = WindowOf(x, l - 1) => k = l
  BY DEF WindowOf
<1>10. IsInjective(WindowsOf(x))
  BY <1>3, <1>9 DEF IsInjective
<1>11. ASSUME NEW w PROVE w \in Range(WindowsOf(x)) <=> \E k \in Starts : w = WindowOf(x, k)
  <2>1. w \in Range(WindowsOf(x)) <=> \E k \in 1..n : w = WindowOf(x, k - 1)
    BY <1>3 DEF Range
  <2> QED BY <2>1, <1>4, <1>5
<1> QED BY <1>8, <1>10, <1>11

\* The records of a partition are those that say so.
LEMMA InPartitionIs ==
  ASSUME NEW X, NEW records \in Seq(X), NEW p
  PROVE  /\ InPartition(records, p) \in Seq(X)
         /\ \A x : x \in Range(InPartition(records, p)) <=> x \in Range(records) /\ x.partition = p
         /\ IsInjective(records) => IsInjective(InPartition(records, p))
<1> DEFINE S == {r \in Range(records) : r.partition = p}
<1>1. InPartition(records, p) = Filtered(records, S)
  BY DEF InPartition
<1>2. \A x : x \in S <=> x \in Range(records) /\ x.partition = p
  OBVIOUS
<1> HIDE DEF S
<1>3. /\ Filtered(records, S) \in Seq(X)
      /\ \A x : x \in Range(Filtered(records, S)) <=> x \in Range(records) /\ x \in S
      /\ IsInjective(records) => IsInjective(Filtered(records, S))
  BY FilteredIs
<1> QED BY <1>1, <1>2, <1>3

\* The windows of a partition are those of its records.
LEMMA WindowedIs ==
  ASSUME NEW t \in DataTasks, NEW records \in Seq(Items(t)), IsInjective(records),
         NEW p \in Range(PartitionsOf(t))
  PROVE  /\ Windowed(t, records)[p] \in Seq(WindowsFor(t)) /\ IsInjective(Windowed(t, records)[p])
         /\ \A w : w \in Range(Windowed(t, records)[p]) <=>
                     \E x \in Range(records) : x.partition = p /\ \E k \in Starts : w = WindowOf(x, k)
<1>1. PICK chosen : chosen = InPartition(records, p)
  OBVIOUS
<1>2. /\ chosen \in Seq(Items(t)) /\ IsInjective(chosen)
      /\ \A x : x \in Range(chosen) <=> x \in Range(records) /\ x.partition = p
  BY <1>1, InPartitionIs
<1> DEFINE cuts == [i \in DOMAIN chosen |-> WindowsOf(chosen[i])]
<1>3. Windowed(t, records)[p] = FlattenSeq(cuts)
  BY <1>1 DEF Windowed
<1>4. DOMAIN chosen = 1..Len(chosen) /\ Len(chosen) \in Nat /\ \A i \in DOMAIN chosen : chosen[i] \in Items(t)
  BY <1>2
<1>5. DOMAIN cuts = DOMAIN chosen /\ \A i \in DOMAIN chosen : cuts[i] = WindowsOf(chosen[i])
  OBVIOUS
<1>6. \A i \in DOMAIN chosen :
         /\ cuts[i] \in Seq(WindowsFor(t)) /\ IsInjective(cuts[i])
         /\ \A w : w \in Range(cuts[i]) <=> \E k \in Starts : w = WindowOf(chosen[i], k)
  BY <1>4, <1>5, WindowsOfAre
<1>7. cuts \in [1..Len(chosen) -> Seq(WindowsFor(t))]
  BY <1>4, <1>5, <1>6
<1> HIDE DEF cuts
<1>8. cuts \in Seq(Seq(WindowsFor(t)))
  BY <1>4, <1>7, SequenceIs
<1>9. \A i \in DOMAIN chosen : \A w \in Range(cuts[i]) : w.id = TrajectoryId(chosen[i])
  BY <1>6 DEF WindowOf
<1>10. \A i, j \in DOMAIN chosen : i # j => TrajectoryId(chosen[i]) # TrajectoryId(chosen[j])
  BY <1>2, <1>4, IdsAreApart DEF IsInjective
<1>11. Apart(cuts)
  BY <1>5, <1>6, <1>9, <1>10 DEF Apart
<1>12. /\ FlattenSeq(cuts) \in Seq(WindowsFor(t))
       /\ \A w : w \in Range(FlattenSeq(cuts)) <=> \E i \in DOMAIN cuts : w \in Range(cuts[i])
       /\ Apart(cuts) => IsInjective(FlattenSeq(cuts))
  BY <1>8, FlattenSeqIs
<1>13. ASSUME NEW w
       PROVE  w \in Range(FlattenSeq(cuts)) <=>
                \E x \in Range(records) : x.partition = p /\ \E k \in Starts : w = WindowOf(x, k)
  <2>1. w \in Range(FlattenSeq(cuts)) <=> \E i \in DOMAIN chosen : \E k \in Starts : w = WindowOf(chosen[i], k)
    BY <1>5, <1>6, <1>12
  <2>2. w \in Range(FlattenSeq(cuts)) <=> \E x \in Range(chosen) : \E k \in Starts : w = WindowOf(x, k)
    BY <2>1 DEF Range
  <2> QED BY <2>2, <1>2
<1> QED BY <1>3, <1>11, <1>12, <1>13

\* Which windows data made as designed have.
LEMMA DesignedWindows ==
  ASSUME NEW t \in DataTasks, NEW p \in Range(PartitionsOf(t))
  PROVE  /\ Windowed(t, WorkItems(t))[p] \in Seq(WindowsFor(t))
         /\ IsInjective(Windowed(t, WorkItems(t))[p])
         /\ \A w : w \in Range(Windowed(t, WorkItems(t))[p]) <=>
                     \E s \in Range(DesignSeeds[t]) : \E i \in 1..DesignCount[t][p] : \E k \in Starts :
                       w = WindowOf(Item(t, s, p, i), k)
<1>1. PICK records : records = WorkItems(t)
  OBVIOUS
<1>2. /\ records \in Seq(Items(t)) /\ IsInjective(records)
      /\ \A x : x \in Range(records) <=>
                  \E s \in Range(DesignSeeds[t]), q \in Range(PartitionsOf(t)) :
                    \E i \in 1..DesignCount[t][q] : x = Item(t, s, q, i)
  BY <1>1, WorkItemsAre
<1>3. /\ Windowed(t, records)[p] \in Seq(WindowsFor(t)) /\ IsInjective(Windowed(t, records)[p])
      /\ \A w : w \in Range(Windowed(t, records)[p]) <=>
                  \E x \in Range(records) : x.partition = p /\ \E k \in Starts : w = WindowOf(x, k)
  BY <1>2, WindowedIs
<1>4. \A x : x \in Range(records) /\ x.partition = p <=>
               \E s \in Range(DesignSeeds[t]) : \E i \in 1..DesignCount[t][p] : x = Item(t, s, p, i)
  <2>1. \A s, q, i : Item(t, s, q, i).partition = q
    BY DEF Item
  <2> QED BY <2>1, <1>2
<1>5. ASSUME NEW w
      PROVE  w \in Range(Windowed(t, records)[p]) <=>
               \E s \in Range(DesignSeeds[t]) : \E i \in 1..DesignCount[t][p] : \E k \in Starts :
                 w = WindowOf(Item(t, s, p, i), k)
  <2>1. ASSUME NEW x \in Range(records), x.partition = p, NEW k \in Starts, w = WindowOf(x, k)
        PROVE  \E s \in Range(DesignSeeds[t]) : \E i \in 1..DesignCount[t][p] : \E l \in Starts :
                 w = WindowOf(Item(t, s, p, i), l)
    <3>1. PICK s \in Range(DesignSeeds[t]), i \in 1..DesignCount[t][p] : x = Item(t, s, p, i)
      BY <2>1, <1>4
    <3> QED BY <3>1, <2>1
  <2>2. ASSUME NEW s \in Range(DesignSeeds[t]), NEW i \in 1..DesignCount[t][p]
        PROVE  Item(t, s, p, i) \in Range(records) /\ Item(t, s, p, i).partition = p
    BY <1>4
  <2> QED BY <2>1, <2>2, <1>3
<1> QED BY <1>1, <1>3, <1>5

\* What a window of an item says.
LEMMA WindowFields ==
  ASSUME NEW t, NEW s, NEW p, NEW i, NEW k
  PROVE  LET w == WindowOf(Item(t, s, p, i), k)
         IN  w.id = Named(t, s, p, i) /\ w.regime = RegimeOf(p, i) /\ w.start = k
  BY DEF WindowOf, Item, TrajectoryId

\* An identity has one trajectory, and with it one regime.
LEMMA WindowIsNamed ==
  ASSUME NEW t, NEW v \in WindowsFor(t), NEW w \in WindowsFor(t), v.id = w.id, v.start = w.start
  PROVE  v = w
<1>1. PICK x \in Items(t), k \in Starts : v = WindowOf(x, k)
  BY DEF WindowsFor
<1>2. PICK y \in Items(t), l \in Starts : w = WindowOf(y, l)
  BY DEF WindowsFor
<1>3. TrajectoryId(x) = TrajectoryId(y) /\ k = l
  BY <1>1, <1>2 DEF WindowOf
<1>4. x = y
  BY <1>3, IdsAreApart
<1> QED BY <1>1, <1>2, <1>3, <1>4

-----------------------------------------------------------------------------
(* Data made as designed *)

\* The windows of b are those of the work items of its task.
FromDesign(b) ==
  /\ b.task \in DataTasks /\ Designable(b.task)
  /\ b.windows = Windowed(b.task, WorkItems(b.task))

\* With how many turns which regime is used, for one seed.
LEMMA UsedInTurn ==
  ASSUME regimes \in WorldRegimes, NEW t \in DataTasks, NEW p \in Range(PartitionsOf(t)), Designable(t),
         NEW s \in Range(DesignSeeds[t]), NEW a \in DOMAIN Eligible(p)
  PROVE  LET used == {w \in Range(Windowed(t, WorkItems(t))[p]) :
                        w.id.seed = s /\ w.start = 0 /\ w.regime = Eligible(p)[a]}
         IN  Cardinality(used) = Cardinality({i \in 1..DesignCount[t][p] : WhoseTurn(i, Len(Eligible(p))) = a})
<1> DEFINE used == {w \in Range(Windowed(t, WorkItems(t))[p]) :
                      w.id.seed = s /\ w.start = 0 /\ w.regime = Eligible(p)[a]}
<1>1. PICK n \in Nat : n = DesignCount[t][p]
  BY DesignAssumption
<1>2. Eligible(p) # << >>
  BY DEF Designable
<1>3. IsInjective(Eligible(p)) /\ DOMAIN Eligible(p) = 1..Len(Eligible(p))
  BY EligibleIs
<1>4. \A i \in 1..n : WhoseTurn(i, Len(Eligible(p))) \in DOMAIN Eligible(p)
  BY <1>2, <1>3, RegimeIs
<1>5. \A i \in 1..n : RegimeOf(p, i) = Eligible(p)[a] <=> WhoseTurn(i, Len(Eligible(p))) = a
  BY <1>3, <1>4 DEF RegimeOf, IsInjective
<1> DEFINE turns == {i \in 1..n : WhoseTurn(i, Len(Eligible(p))) = a}
           f == [i \in turns |-> WindowOf(Item(t, s, p, i), 0)]
<1>6. 0 \in Starts
  BY StartsAre
<1>7. \A w : w \in Range(Windowed(t, WorkItems(t))[p]) <=>
               \E r \in Range(DesignSeeds[t]) : \E i \in 1..n : \E k \in Starts : w = WindowOf(Item(t, r, p, i), k)
  BY <1>1, DesignedWindows
<1>8. \A r, i, k : LET w == WindowOf(Item(t, r, p, i), k)
                   IN  w.id.seed = r /\ w.id.index = i /\ w.regime = RegimeOf(p, i) /\ w.start = k
  BY DEF WindowOf, Item, TrajectoryId, Named
<1>9. ASSUME NEW i \in turns PROVE f[i] \in used
  <2>1. i \in 1..n /\ RegimeOf(p, i) = Eligible(p)[a]
    BY <1>5
  <2> QED BY <2>1, <1>6, <1>7, <1>8
<1>10. ASSUME NEW w \in used PROVE \E i \in turns : f[i] = w
  <2>1. PICK r \in Range(DesignSeeds[t]), i \in 1..n, k \in Starts : w = WindowOf(Item(t, r, p, i), k)
    BY <1>7
  <2>2. r = s /\ k = 0 /\ RegimeOf(p, i) = Eligible(p)[a]
    BY <2>1, <1>8
  <2> QED BY <2>1, <2>2, <1>5
<1>11. \A i, j \in turns : f[i] = f[j] => i = j
  BY <1>8
<1>12. IsFiniteSet(turns)
  <2>1. IsFiniteSet(1..n)
    BY FS_Interval
  <2> QED BY <2>1, FS_Subset
<1> HIDE DEF used, turns
<1>13. f \in [turns -> used]
  BY <1>9
<1> HIDE DEF f
<1>14. Cardinality(used) = Cardinality(turns)
  BY <1>10, <1>11, <1>12, <1>13, SameSize
<1> QED BY <1>1, <1>14 DEF used, turns

\* For one seed, no regime has two trajectories more than another.
LEMMA RegimesAreEven ==
  ASSUME regimes \in WorldRegimes, NEW t \in DataTasks, NEW p \in Range(PartitionsOf(t)), Designable(t),
         NEW s \in Range(DesignSeeds[t]), NEW q \in Range(Eligible(p)), NEW r \in Range(Eligible(p)),
         NEW windows, windows = Windowed(t, WorkItems(t))[p]
  PROVE  Cardinality({w \in Range(windows) : w.id.seed = s /\ w.start = 0 /\ w.regime = q})
           <= 1 + Cardinality({w \in Range(windows) : w.id.seed = s /\ w.start = 0 /\ w.regime = r})
<1>1. PICK a \in DOMAIN Eligible(p) : q = Eligible(p)[a]
  BY DEF Range
<1>2. PICK b \in DOMAIN Eligible(p) : r = Eligible(p)[b]
  BY DEF Range
<1>3. PICK n \in Nat : n = DesignCount[t][p]
  BY DesignAssumption
<1>4. Eligible(p) # << >>
  BY DEF Designable
<1>5. Eligible(p) \in Seq(Range(regimes))
  BY EligibleIs
<1>6. PICK L : L = Len(Eligible(p))
  OBVIOUS
<1>7. L \in Nat \ {0} /\ a \in 1..L /\ b \in 1..L
  BY <1>4, <1>5, <1>6
<1>8. Cardinality({w \in Range(windows) : w.id.seed = s /\ w.start = 0 /\ w.regime = q})
        = Cardinality({i \in 1..n : WhoseTurn(i, L) = a})
  <2>1. Cardinality({w \in Range(Windowed(t, WorkItems(t))[p]) :
                       w.id.seed = s /\ w.start = 0 /\ w.regime = Eligible(p)[a]})
          = Cardinality({i \in 1..DesignCount[t][p] : WhoseTurn(i, Len(Eligible(p))) = a})
    BY UsedInTurn
  <2> QED BY <2>1, <1>1, <1>3, <1>6
<1>9. Cardinality({w \in Range(windows) : w.id.seed = s /\ w.start = 0 /\ w.regime = r})
        = Cardinality({i \in 1..n : WhoseTurn(i, L) = b})
  <2>1. Cardinality({w \in Range(Windowed(t, WorkItems(t))[p]) :
                       w.id.seed = s /\ w.start = 0 /\ w.regime = Eligible(p)[b]})
          = Cardinality({i \in 1..DesignCount[t][p] : WhoseTurn(i, Len(Eligible(p))) = b})
    BY UsedInTurn
  <2> QED BY <2>1, <1>2, <1>3, <1>6
<1>10. Cardinality({i \in 1..n : WhoseTurn(i, L) = a}) <= 1 + Cardinality({i \in 1..n : WhoseTurn(i, L) = b})
  BY <1>7, TurnsAreEven
<1> QED BY <1>8, <1>9, <1>10

\* Every trajectory of a partition has every window.
LEMMA WindowsAreWhole ==
  ASSUME NEW t \in DataTasks, NEW p \in Range(PartitionsOf(t)),
         NEW windows, windows = Windowed(t, WorkItems(t))[p]
  PROVE  Len(windows) = Cardinality(IdsOfWindows(windows)) * Cardinality(Starts)
<1> DEFINE ids == IdsOfWindows(windows)
           f == [w \in Range(windows) |-> <<w.id, w.start>>]
           g == [w \in Range(windows) |-> w.id]
<1>1. /\ windows \in Seq(WindowsFor(t)) /\ IsInjective(windows)
      /\ \A w : w \in Range(windows) <=>
                  \E s \in Range(DesignSeeds[t]) : \E i \in 1..DesignCount[t][p] : \E k \in Starts :
                    w = WindowOf(Item(t, s, p, i), k)
  <2>1. /\ Windowed(t, WorkItems(t))[p] \in Seq(WindowsFor(t)) /\ IsInjective(Windowed(t, WorkItems(t))[p])
        /\ \A w : w \in Range(Windowed(t, WorkItems(t))[p]) <=>
                    \E s \in Range(DesignSeeds[t]) : \E i \in 1..DesignCount[t][p] : \E k \in Starts :
                      w = WindowOf(Item(t, s, p, i), k)
    BY DesignedWindows
  <2> QED BY <2>1
<1>2. IsFiniteSet(Range(windows)) /\ Cardinality(Range(windows)) = Len(windows)
  BY <1>1, LengthIsSize
<1>3. Range(windows) \subseteq WindowsFor(t)
  BY <1>1 DEF Range
<1>4. \A w \in Range(windows) : w.start \in Starts
  BY <1>1, WindowFields
<1>5. f \in [Range(windows) -> ids \X Starts]
  BY <1>4 DEF IdsOfWindows
<1>6. \A v, w \in Range(windows) : f[v] = f[w] => v = w
  BY <1>3, WindowIsNamed
<1>7. ASSUME NEW z \in ids \X Starts PROVE \E w \in Range(windows) : f[w] = z
  <2>1. PICK v \in Range(windows), k \in Starts : z = <<v.id, k>>
    BY DEF IdsOfWindows
  <2>2. PICK s \in Range(DesignSeeds[t]), i \in 1..DesignCount[t][p], l \in Starts : v = WindowOf(Item(t, s, p, i), l)
    BY <1>1
  <2>3. PICK w : w = WindowOf(Item(t, s, p, i), k)
    OBVIOUS
  <2>4. w \in Range(windows)
    BY <2>3, <1>1
  <2>5. w.id = v.id /\ w.start = k
    BY <2>2, <2>3, WindowFields
  <2> QED BY <2>1, <2>4, <2>5
<1> HIDE DEF f
<1>8. Cardinality(ids \X Starts) = Cardinality(Range(windows))
  BY <1>2, <1>5, <1>6, <1>7, SameSize
<1>9. IsFiniteSet(ids)
  <2>1. g \in Surjection(Range(windows), ids)
    BY DEF Surjection, IdsOfWindows
  <2> QED BY <2>1, <1>2, FS_Surjection
<1> HIDE DEF ids
<1>10. Cardinality(ids \X Starts) = Cardinality(ids) * Cardinality(Starts)
  BY <1>9, StartsAre, FS_Product
<1> QED BY <1>2, <1>8, <1>10 DEF ids

\* Windows cut from the work of a task meet the design.
LEMMA DesignedIsMet ==
  ASSUME regimes \in WorldRegimes, NEW b, FromDesign(b)
  PROVE  DesignIsMet(b)
<1>1. PICK t \in DataTasks : t = b.task
  BY DEF FromDesign
<1>2. Designable(t) /\ b.windows = Windowed(t, WorkItems(t))
  BY <1>1 DEF FromDesign
<1>3. PICK P : P = Range(PartitionsOf(t))
  OBVIOUS
<1>4. DOMAIN b.windows = P
  BY <1>2, <1>3 DEF Windowed
<1>5. ASSUME NEW p \in P
      PROVE  \A w : w \in Range(b.windows[p]) <=>
                      \E s \in Range(DesignSeeds[t]) : \E i \in 1..DesignCount[t][p] : \E k \in Starts :
                        w = WindowOf(Item(t, s, p, i), k)
  BY <1>2, <1>3, DesignedWindows
<1>6. \A s, p, i, k : LET w == WindowOf(Item(t, s, p, i), k)
                      IN  w.id = Named(t, s, p, i) /\ w.regime = RegimeOf(p, i) /\ w.start = k
  BY WindowFields
<1>7. 0 \in Starts
  BY StartsAre
<1>8. UNION {IdsOfWindows(b.windows[p]) : p \in DOMAIN b.windows}
        = UNION {{Named(b.task, s, p, i) : s \in Range(DesignSeeds[b.task]), i \in 1..DesignCount[b.task][p]} :
                   p \in DOMAIN b.windows}
  <2> DEFINE left == UNION {IdsOfWindows(b.windows[p]) : p \in P}
             right == UNION {{Named(t, s, p, i) : s \in Range(DesignSeeds[t]), i \in 1..DesignCount[t][p]} : p \in P}
  <2>1. ASSUME NEW z \in left PROVE z \in right
    <3>1. PICK p \in P : \E w \in Range(b.windows[p]) : z = w.id
      BY DEF IdsOfWindows
    <3>2. PICK w \in Range(b.windows[p]) : z = w.id
      BY <3>1
    <3>3. PICK s \in Range(DesignSeeds[t]), i \in 1..DesignCount[t][p], k \in Starts : w = WindowOf(Item(t, s, p, i), k)
      BY <1>5
    <3>4. z = Named(t, s, p, i)
      BY <3>2, <3>3, <1>6
    <3> QED BY <3>4
  <2>2. ASSUME NEW z \in right PROVE z \in left
    <3>1. PICK p \in P : \E s \in Range(DesignSeeds[t]), i \in 1..DesignCount[t][p] : z = Named(t, s, p, i)
      OBVIOUS
    <3>2. PICK s \in Range(DesignSeeds[t]), i \in 1..DesignCount[t][p] : z = Named(t, s, p, i)
      BY <3>1
    <3>3. PICK w : w = WindowOf(Item(t, s, p, i), 0)
      OBVIOUS
    <3>4. w \in Range(b.windows[p]) /\ w.id = z
      BY <3>2, <3>3, <1>5, <1>6, <1>7
    <3> QED BY <3>4 DEF IdsOfWindows
  <2>3. left = right
    BY <2>1, <2>2
  <2> QED BY <2>3, <1>1, <1>4
<1>9. ASSUME NEW p \in P, NEW w \in Range(b.windows[p])
      PROVE  w.id.partition = p /\ w.regime.role = RoleOfPartition(p)
  <2>1. PICK s \in Range(DesignSeeds[t]), i \in 1..DesignCount[t][p], k \in Starts : w = WindowOf(Item(t, s, p, i), k)
    BY <1>5
  <2>2. i \in Nat \ {0}
    BY <1>3, DesignAssumption
  <2>3. Eligible(p) # << >>
    BY <1>2, <1>3 DEF Designable
  <2>4. RegimeOf(p, i).role = RoleOfPartition(p)
    BY <2>2, <2>3, RegimeIs
  <2>5. w.id = Named(t, s, p, i) /\ w.regime = RegimeOf(p, i)
    BY <2>1, <1>6
  <2> QED BY <2>4, <2>5 DEF Named
<1>10. ASSUME NEW p \in P
       PROVE  Len(b.windows[p]) = Cardinality(IdsOfWindows(b.windows[p])) * Cardinality(Starts)
  BY <1>2, <1>3, WindowsAreWhole
<1>11. ASSUME NEW p \in P, NEW s \in Range(DesignSeeds[t]), NEW q \in Range(Eligible(p)), NEW r \in Range(Eligible(p))
       PROVE  Cardinality({w \in Range(b.windows[p]) : w.id.seed = s /\ w.start = 0 /\ w.regime = q})
                <= 1 + Cardinality({w \in Range(b.windows[p]) : w.id.seed = s /\ w.start = 0 /\ w.regime = r})
  <2>1. PICK windows : windows = b.windows[p]
    OBVIOUS
  <2> QED BY <2>1, <1>2, <1>3, RegimesAreEven
<1>12. IdsAsDesigned(b)
  BY <1>8 DEF IdsAsDesigned
<1>13. ASSUME NEW p \in P PROVE InPlace(b, p)
  BY <1>9, <1>10 DEF InPlace
<1>14. ASSUME NEW p \in P PROVE UsedEvenly(b, p)
  BY <1>1, <1>11 DEF UsedEvenly, UsedBy
<1> QED BY <1>4, <1>12, <1>13, <1>14 DEF DesignIsMet

-----------------------------------------------------------------------------
(* Artifacts *)

\* On what the normaliser of a task's data is fitted.
Normalizer(t) == FittedOn(WorkItems(IF t = "e02" THEN "stage2" ELSE t))

\* The one artifact a task can have.
AsDesigned(t, a) ==
  /\ t \in DataTasks /\ Designable(t)
  /\ Bundle(t, WorkItems(t), Normalizer(t)) # RefusedData
  /\ a = Payload(Bundle(t, WorkItems(t), Normalizer(t)))

\* What a bundle has, when it is not refused.
LEMMA BundleIs ==
  ASSUME NEW t, NEW records, NEW normalizer, Bundle(t, records, normalizer) # RefusedData
  PROVE  Bundle(t, records, normalizer)
           = [task |-> t, records |-> records, normalizer |-> normalizer,
              windows |-> Windowed(t, records), manifest |-> Manifest(records, normalizer)]
  BY DEF Bundle

\* A published data set passes the check of its windows.
LEMMA DatasetIsAccepted ==
  ASSUME NEW t \in DataTasks, NEW a, a.windows = Windowed(t, WorkItems(t))
  PROVE  DatasetOf(a) = a
<1>1. PICK P : P = Range(PartitionsOf(t))
  OBVIOUS
<1>2. PICK windows : windows = Windowed(t, WorkItems(t))
  OBVIOUS
<1>3. DOMAIN windows = P
  BY <1>1, <1>2 DEF Windowed
<1>4. ASSUME NEW p \in P
      PROVE  IsInjective(windows[p]) /\ \A w \in Range(windows[p]) : w.id.partition = p
  <2>1. /\ IsInjective(Windowed(t, WorkItems(t))[p])
        /\ \A w : w \in Range(Windowed(t, WorkItems(t))[p]) <=>
                    \E s \in Range(DesignSeeds[t]) : \E i \in 1..DesignCount[t][p] : \E k \in Starts :
                      w = WindowOf(Item(t, s, p, i), k)
    BY <1>1, DesignedWindows
  <2>2. \A s, i, k : WindowOf(Item(t, s, p, i), k).id.partition = p
    BY DEF WindowOf, Item, TrajectoryId, Named
  <2> QED BY <2>1, <2>2, <1>2
<1>5. \A p \in P : \A w \in Range(windows[p]) : w.id.partition = p
  BY <1>4
<1>6. ASSUME NEW p \in P, NEW q \in P, NEW i \in DOMAIN windows[p], NEW j \in DOMAIN windows[q],
             windows[p][i] = windows[q][j]
      PROVE  p = q /\ i = j
  <2>1. windows[p][i] \in Range(windows[p]) /\ windows[q][j] \in Range(windows[q])
    BY DEF Range
  <2>2. p = q
    BY <2>1, <1>5, <1>6
  <2> QED BY <2>2, <1>4, <1>6 DEF IsInjective
<1> QED BY <1>2, <1>3, <1>5, <1>6 DEF DatasetOf

\* Reading an artifact back gives what was published.
LEMMA ReloadedIs ==
  ASSUME NEW t, NEW a, AsDesigned(t, a)
  PROVE  /\ a.task = t /\ Reloaded(a) # RefusedData
         /\ Reloaded(a).task = t
         /\ Reloaded(a).windows = Windowed(t, WorkItems(t))
         /\ Reloaded(a).normalizer = Normalizer(t)
         /\ t = "e02" => Reloaded(a).records = WorkItems(t)
<1>1. PICK records : records = WorkItems(t)
  OBVIOUS
<1>2. PICK normalizer : normalizer = Normalizer(t)
  OBVIOUS
<1>3. PICK windows : windows = Windowed(t, WorkItems(t))
  OBVIOUS
<1>4. PICK b : b = Bundle(t, records, normalizer)
  OBVIOUS
<1>5. b = [task |-> t, records |-> records, normalizer |-> normalizer,
           windows |-> windows, manifest |-> Manifest(records, normalizer)]
  BY <1>1, <1>2, <1>3, <1>4, BundleIs DEF AsDesigned
<1>6. t \in DataTasks /\ b # RefusedData /\ a = Payload(b)
  BY <1>1, <1>2, <1>4 DEF AsDesigned
<1>7. t # "REFUSED"
  BY <1>6 DEF DataTasks
<1>8. CASE t = "stage1b"
  <2>1. a = [task |-> t, records |-> << >>, normalizer |-> normalizer,
             windows |-> windows, manifest |-> Manifest(records, normalizer)]
    BY <1>5, <1>6, <1>8 DEF Payload, DatasetPayload
  <2>2. a.task = t /\ a.windows = windows /\ a.normalizer = normalizer
    BY <2>1
  <2>3. DatasetOf(a) = a
    BY <2>2, <1>3, <1>6, DatasetIsAccepted
  <2>4. Reloaded(a) = a
    BY <2>2, <2>3, <1>8 DEF Reloaded
  <2>5. a # RefusedData
    BY <2>2, <1>7 DEF RefusedData
  <2> QED BY <2>2, <2>4, <2>5, <1>2, <1>3, <1>8
<1>9. CASE t # "stage1b"
  <2>1. a = [task |-> t, records |-> records, normalizer |-> normalizer,
             windows |-> << >>, manifest |-> Manifest(records, normalizer)]
    BY <1>5, <1>6, <1>9 DEF Payload, BundlePayload
  <2>2. a.task = t /\ a.records = records /\ a.normalizer = normalizer /\ a.manifest = Manifest(records, normalizer)
    BY <2>1
  <2>3. BundleOf(a) = b
    BY <2>2, <1>4, <1>5, <1>6 DEF BundleOf
  <2>4. Reloaded(a) = b
    BY <2>2, <2>3, <1>9 DEF Reloaded
  <2> QED BY <2>2, <2>4, <1>1, <1>2, <1>3, <1>5, <1>6
<1> QED BY <1>8, <1>9

\* A task has one artifact.
LEMMA DesignedOnce ==
  ASSUME NEW t, NEW a, NEW b, AsDesigned(t, a), AsDesigned(t, b)
  PROVE  a = b
  BY DEF AsDesigned

\* What the normaliser saw.
LEMMA FittedOnAll ==
  ASSUME NEW t \in DataTasks, "TRAIN" \in Range(PartitionsOf(t))
  PROVE  Range(FittedOn(WorkItems(t)))
           = {Named(t, s, "TRAIN", i) : s \in Range(DesignSeeds[t]), i \in 1..DesignCount[t]["TRAIN"]}
<1>1. PICK records : records = WorkItems(t)
  OBVIOUS
<1>2. /\ records \in Seq(Items(t))
      /\ \A x : x \in Range(records) <=>
                  \E s \in Range(DesignSeeds[t]), p \in Range(PartitionsOf(t)) :
                    \E i \in 1..DesignCount[t][p] : x = Item(t, s, p, i)
  BY <1>1, WorkItemsAre
<1>3. PICK chosen : chosen = InPartition(records, "TRAIN")
  OBVIOUS
<1>4. \A x : x \in Range(chosen) <=> x \in Range(records) /\ x.partition = "TRAIN"
  BY <1>2, <1>3, InPartitionIs
<1>5. FittedOn(records) = [i \in DOMAIN chosen |-> TrajectoryId(chosen[i])]
  BY <1>3 DEF FittedOn, IdsOf
<1>6. \A z : z \in Range(FittedOn(records)) <=> \E x \in Range(chosen) : z = TrajectoryId(x)
  BY <1>5 DEF Range
<1>7. \A s, p, i : Item(t, s, p, i).partition = p /\ TrajectoryId(Item(t, s, p, i)) = Named(t, s, p, i)
  BY DEF Item, TrajectoryId
<1>8. ASSUME NEW z \in Range(FittedOn(records))
      PROVE  \E s \in Range(DesignSeeds[t]), i \in 1..DesignCount[t]["TRAIN"] : z = Named(t, s, "TRAIN", i)
  <2>1. PICK x \in Range(chosen) : z = TrajectoryId(x)
    BY <1>6
  <2>2. x \in Range(records) /\ x.partition = "TRAIN"
    BY <1>4
  <2>3. PICK s \in Range(DesignSeeds[t]), p \in Range(PartitionsOf(t)) :
          \E i \in 1..DesignCount[t][p] : x = Item(t, s, p, i)
    BY <2>2, <1>2
  <2>4. PICK i \in 1..DesignCount[t][p] : x = Item(t, s, p, i)
    BY <2>3
  <2>5. p = "TRAIN" /\ z = Named(t, s, p, i)
    BY <2>1, <2>2, <2>4, <1>7
  <2> QED BY <2>5
<1>9. ASSUME NEW s \in Range(DesignSeeds[t]), NEW i \in 1..DesignCount[t]["TRAIN"]
      PROVE  Named(t, s, "TRAIN", i) \in Range(FittedOn(records))
  <2>1. PICK x : x = Item(t, s, "TRAIN", i)
    OBVIOUS
  <2>2. x \in Range(records) /\ x.partition = "TRAIN" /\ TrajectoryId(x) = Named(t, s, "TRAIN", i)
    BY <2>1, <1>2, <1>7
  <2> QED BY <2>2, <1>4, <1>6
<1>10. \A z : z \in Range(FittedOn(records)) <=>
                z \in {Named(t, s, "TRAIN", i) : s \in Range(DesignSeeds[t]), i \in 1..DesignCount[t]["TRAIN"]}
  BY <1>8, <1>9
<1> QED BY <1>1, <1>10

\* The normaliser of an artifact was fitted on training trajectories alone.
LEMMA DesignedIsFitted ==
  ASSUME NEW t, NEW a, AsDesigned(t, a)
  PROVE  FittedOnTraining(Reloaded(a))
<1>1. PICK b : b = Reloaded(a)
  OBVIOUS
<1>2. b.task = t /\ b.normalizer = Normalizer(t) /\ t \in DataTasks
  BY <1>1, ReloadedIs DEF AsDesigned
<1>3. PICK source : source = (IF t = "e02" THEN "stage2" ELSE t)
  OBVIOUS
<1>4. source \in DataTasks /\ "TRAIN" \in Range(PartitionsOf(source))
  BY <1>2, <1>3, PartitionsAre DEF DataTasks
<1>5. b.normalizer = FittedOn(WorkItems(source))
  BY <1>2, <1>3 DEF Normalizer
<1>6. Range(FittedOn(WorkItems(source)))
        = {Named(source, s, "TRAIN", i) : s \in Range(DesignSeeds[source]), i \in 1..DesignCount[source]["TRAIN"]}
  BY <1>4, FittedOnAll
<1>7. FittedOnTraining(b)
  BY <1>2, <1>3, <1>5, <1>6 DEF FittedOnTraining
<1> QED BY <1>1, <1>7

\* An artifact of the store is as designed.
LEMMA DesignedIsGood ==
  ASSUME regimes \in WorldRegimes, NEW t, NEW a, AsDesigned(t, a)
  PROVE  Reloaded(a) # RefusedData /\ DesignIsMet(Reloaded(a)) /\ FittedOnTraining(Reloaded(a))
<1>1. PICK b : b = Reloaded(a)
  OBVIOUS
<1>2. FromDesign(b)
  BY <1>1, ReloadedIs DEF FromDesign, AsDesigned
<1>3. DesignIsMet(b)
  BY <1>2, DesignedIsMet
<1> QED BY <1>1, <1>3, ReloadedIs, DesignedIsFitted

-----------------------------------------------------------------------------
(* Scores *)

\* Each window once, and every trajectory with all of them.
EachOnce(windows) ==
  /\ IsInjective(windows)
  /\ \A v, w \in Range(windows) : v.id = w.id /\ v.start = w.start => v = w
  /\ \A w \in Range(windows) : w.start \in Starts
  /\ \A v \in Range(windows) : \A k \in Starts : \E w \in Range(windows) : w.id = v.id /\ w.start = k

\* One trajectory's row pairs each of its windows with its own forecast.
LEMMA RowIs ==
  ASSUME NEW X, NEW windows \in Seq(X), EachOnce(windows), NEW v \in Range(windows),
         NEW forecast, forecast = [i \in DOMAIN windows |-> WindowId(windows[i])]
  PROVE  ScoreRow(windows, forecast, v.id) = PairedRow(Range(windows), v.id)
<1>1. PICK id : id = v.id
  OBVIOUS
<1> DEFINE rows == {i \in DOMAIN windows : windows[i].id = id}
           mine == {u \in Range(windows) : u.id = id}
           f == [i \in rows |-> windows[i].start]
<1>2. DOMAIN windows = 1..Len(windows) /\ Len(windows) \in Nat
  OBVIOUS
<1>3. IsFiniteSet(rows)
  <2>1. IsFiniteSet(1..Len(windows))
    BY <1>2, FS_Interval
  <2> QED BY <2>1, <1>2, FS_Subset
<1>4. ASSUME NEW i \in rows PROVE windows[i] \in Range(windows) /\ windows[i].id = id /\ i \in DOMAIN windows
  BY DEF Range
<1>5. f \in [rows -> Starts]
  BY <1>4 DEF EachOnce
<1>6. ASSUME NEW i \in rows, NEW j \in rows, f[i] = f[j] PROVE i = j
  <2>1. windows[i] = windows[j]
    BY <1>4, <1>6 DEF EachOnce
  <2> QED BY <2>1, <1>4 DEF EachOnce, IsInjective
<1>7. ASSUME NEW k \in Starts PROVE \E i \in rows : f[i] = k
  <2>1. PICK w \in Range(windows) : w.id = id /\ w.start = k
    BY <1>1 DEF EachOnce
  <2>2. PICK i \in DOMAIN windows : w = windows[i]
    BY DEF Range
  <2> QED BY <2>1, <2>2
<1>8. \A u : u \in mine <=> \E i \in rows : u = windows[i]
  BY DEF Range
<1>9. \A i \in rows : forecast[i] = WindowId(windows[i])
  OBVIOUS
<1> HIDE DEF rows, mine, f
<1>10. Cardinality(rows) = Cardinality(Starts)
  BY <1>3, <1>5, <1>6, <1>7, SameSize
<1>11. {<<WindowId(windows[i]), forecast[i]>> : i \in rows} = {<<WindowId(u), WindowId(u)>> : u \in mine}
  BY <1>8, <1>9
<1>12. ScoreRow(windows, forecast, id)
         = [id |-> id, origins |-> Cardinality(rows), pairs |-> {<<WindowId(windows[i]), forecast[i]>> : i \in rows}]
  BY DEF ScoreRow, rows
<1>13. PairedRow(Range(windows), id)
         = [id |-> id, origins |-> Cardinality(Starts), pairs |-> {<<WindowId(u), WindowId(u)>> : u \in mine}]
  BY DEF PairedRow, mine
<1> QED BY <1>1, <1>10, <1>11, <1>12, <1>13

\* The windows E02, or Stage 1B, is judged on.
LEMMA FormalAreWhole ==
  ASSUME NEW t \in {"stage1b", "e02"}, NEW b, b.windows = Windowed(t, WorkItems(t))
  PROVE  /\ FormalWindows(b) \in Seq(WindowsFor(t)) /\ EachOnce(FormalWindows(b))
         /\ \A w : w \in Range(FormalWindows(b)) <=>
                     \E p \in {"TEST_SEEN", "TEST_UNSEEN"}, s \in Range(DesignSeeds[t]) :
                       \E i \in 1..DesignCount[t][p] : \E k \in Starts : w = WindowOf(Item(t, s, p, i), k)
<1> DEFINE P == {"TEST_SEEN", "TEST_UNSEEN"}
<1>1. t \in DataTasks /\ P \subseteq Range(PartitionsOf(t))
  BY PartitionsAre DEF DataTasks
<1>2. PICK seen : seen = b.windows["TEST_SEEN"]
  OBVIOUS
<1>3. PICK unseen : unseen = b.windows["TEST_UNSEEN"]
  OBVIOUS
<1>4. /\ seen \in Seq(WindowsFor(t)) /\ IsInjective(seen)
      /\ \A w : w \in Range(seen) <=>
                  \E s \in Range(DesignSeeds[t]) : \E i \in 1..DesignCount[t]["TEST_SEEN"] : \E k \in Starts :
                    w = WindowOf(Item(t, s, "TEST_SEEN", i), k)
  <2>1. PICK p \in Range(PartitionsOf(t)) : p = "TEST_SEEN"
    BY <1>1
  <2>2. /\ Windowed(t, WorkItems(t))[p] \in Seq(WindowsFor(t)) /\ IsInjective(Windowed(t, WorkItems(t))[p])
        /\ \A w : w \in Range(Windowed(t, WorkItems(t))[p]) <=>
                    \E s \in Range(DesignSeeds[t]) : \E i \in 1..DesignCount[t][p] : \E k \in Starts :
                      w = WindowOf(Item(t, s, p, i), k)
    BY <1>1, DesignedWindows
  <2> QED BY <2>1, <2>2, <1>2
<1>5. /\ unseen \in Seq(WindowsFor(t)) /\ IsInjective(unseen)
      /\ \A w : w \in Range(unseen) <=>
                  \E s \in Range(DesignSeeds[t]) : \E i \in 1..DesignCount[t]["TEST_UNSEEN"] : \E k \in Starts :
                    w = WindowOf(Item(t, s, "TEST_UNSEEN", i), k)
  <2>1. PICK p \in Range(PartitionsOf(t)) : p = "TEST_UNSEEN"
    BY <1>1
  <2>2. /\ Windowed(t, WorkItems(t))[p] \in Seq(WindowsFor(t)) /\ IsInjective(Windowed(t, WorkItems(t))[p])
        /\ \A w : w \in Range(Windowed(t, WorkItems(t))[p]) <=>
                    \E s \in Range(DesignSeeds[t]) : \E i \in 1..DesignCount[t][p] : \E k \in Starts :
                      w = WindowOf(Item(t, s, p, i), k)
    BY <1>1, DesignedWindows
  <2> QED BY <2>1, <2>2, <1>3
<1>6. \A s, p, i, k : WindowOf(Item(t, s, p, i), k).id.partition = p
  BY DEF WindowOf, Item, TrajectoryId, Named
<1>7. Range(seen) \cap Range(unseen) = {}
  BY <1>4, <1>5, <1>6
<1>8. PICK windows : windows = FormalWindows(b)
  OBVIOUS
<1>9. windows = seen \o unseen
  BY <1>2, <1>3, <1>8 DEF FormalWindows
<1>10. /\ windows \in Seq(WindowsFor(t)) /\ IsInjective(windows)
       /\ \A w : w \in Range(windows) <=> w \in Range(seen) \/ w \in Range(unseen)
  BY <1>4, <1>5, <1>7, <1>9, JoinsOneMore
<1>11. ASSUME NEW w
       PROVE  w \in Range(windows) <=>
                \E p \in P, s \in Range(DesignSeeds[t]) :
                  \E i \in 1..DesignCount[t][p] : \E k \in Starts : w = WindowOf(Item(t, s, p, i), k)
  BY <1>4, <1>5, <1>10
<1>12. Range(windows) \subseteq WindowsFor(t)
  BY <1>10 DEF Range
<1>13. \A v, w \in Range(windows) : v.id = w.id /\ v.start = w.start => v = w
  BY <1>12, WindowIsNamed
<1>14. \A s, p, i, k : WindowOf(Item(t, s, p, i), k).id = Named(t, s, p, i) /\ WindowOf(Item(t, s, p, i), k).start = k
  BY WindowFields
<1>15. \A w \in Range(windows) : w.start \in Starts
  BY <1>11, <1>14
<1>16. ASSUME NEW v \in Range(windows), NEW k \in Starts
       PROVE  \E w \in Range(windows) : w.id = v.id /\ w.start = k
  <2>1. PICK p \in P, s \in Range(DesignSeeds[t]) :
          \E i \in 1..DesignCount[t][p] : \E l \in Starts : v = WindowOf(Item(t, s, p, i), l)
    BY <1>11
  <2>2. PICK i \in 1..DesignCount[t][p], l \in Starts : v = WindowOf(Item(t, s, p, i), l)
    BY <2>1
  <2>3. PICK w : w = WindowOf(Item(t, s, p, i), k)
    OBVIOUS
  <2> QED BY <2>2, <2>3, <1>11, <1>14
<1>17. EachOnce(windows)
  BY <1>10, <1>13, <1>15, <1>16 DEF EachOnce
<1> QED BY <1>8, <1>10, <1>11, <1>17

\* Whose windows they are: of every trajectory of the formal data.
LEMMA FormalIds ==
  ASSUME NEW b, b.windows = Windowed("e02", WorkItems("e02")), b.records = WorkItems("e02")
  PROVE  Range(IdsOf(b.records)) = {w.id : w \in Range(FormalWindows(b))}
<1>1. \A w : w \in Range(FormalWindows(b)) <=>
               \E p \in {"TEST_SEEN", "TEST_UNSEEN"}, s \in Range(DesignSeeds["e02"]) :
                 \E i \in 1..DesignCount["e02"][p] : \E k \in Starts : w = WindowOf(Item("e02", s, p, i), k)
  BY FormalAreWhole
<1>2. PICK records : records = b.records
  OBVIOUS
<1>3. \A x : x \in Range(records) <=>
               \E s \in Range(DesignSeeds["e02"]), p \in {"TEST_SEEN", "TEST_UNSEEN"} :
                 \E i \in 1..DesignCount["e02"][p] : x = Item("e02", s, p, i)
  <2>1. PICK t \in DataTasks : t = "e02"
    BY DEF DataTasks
  <2>2. Range(PartitionsOf(t)) = {"TEST_SEEN", "TEST_UNSEEN"}
    BY <2>1, PartitionsAre
  <2>3. \A x : x \in Range(WorkItems(t)) <=>
                 \E s \in Range(DesignSeeds[t]), p \in Range(PartitionsOf(t)) :
                   \E i \in 1..DesignCount[t][p] : x = Item(t, s, p, i)
    BY WorkItemsAre
  <2> QED BY <2>1, <2>2, <2>3, <1>2
<1>4. \A z : z \in Range(IdsOf(records)) <=> \E x \in Range(records) : z = TrajectoryId(x)
  BY DEF Range, IdsOf
<1>5. \A s, p, i, k : WindowOf(Item("e02", s, p, i), k).id = TrajectoryId(Item("e02", s, p, i))
  BY DEF WindowOf
<1>6. 0 \in Starts
  BY StartsAre
<1>7. ASSUME NEW x \in Range(records) PROVE \E w \in Range(FormalWindows(b)) : w.id = TrajectoryId(x)
  <2>1. PICK s \in Range(DesignSeeds["e02"]), p \in {"TEST_SEEN", "TEST_UNSEEN"} :
          \E i \in 1..DesignCount["e02"][p] : x = Item("e02", s, p, i)
    BY <1>3
  <2>2. PICK i \in 1..DesignCount["e02"][p] : x = Item("e02", s, p, i)
    BY <2>1
  <2>3. WindowOf(Item("e02", s, p, i), 0) \in Range(FormalWindows(b))
    BY <1>1, <1>6
  <2> QED BY <2>2, <2>3, <1>5
<1>8. ASSUME NEW w \in Range(FormalWindows(b)) PROVE \E x \in Range(records) : w.id = TrajectoryId(x)
  <2>1. PICK p \in {"TEST_SEEN", "TEST_UNSEEN"}, s \in Range(DesignSeeds["e02"]) :
          \E i \in 1..DesignCount["e02"][p] : \E k \in Starts : w = WindowOf(Item("e02", s, p, i), k)
    BY <1>1
  <2>2. PICK i \in 1..DesignCount["e02"][p] : \E k \in Starts : w = WindowOf(Item("e02", s, p, i), k)
    BY <2>1
  <2>3. Item("e02", s, p, i) \in Range(records)
    BY <1>3
  <2> QED BY <2>2, <2>3, <1>5
<1>9. \A z : z \in Range(IdsOf(records)) <=> z \in {w.id : w \in Range(FormalWindows(b))}
  BY <1>4, <1>7, <1>8
<1> QED BY <1>2, <1>9

\* All rows of a comparison: the windows in their order are the forecast.
IdsInOrder(windows) == [i \in DOMAIN windows |-> WindowId(windows[i])]
RowsFor(windows, forecast) == {ScoreRow(windows, forecast, w.id) : w \in Range(windows)}
PairedRows(windows) == {PairedRow(Range(windows), w.id) : w \in Range(windows)}
LEMMA RowsAre ==
  ASSUME NEW X, NEW windows \in Seq(X), EachOnce(windows)
  PROVE  RowsFor(windows, IdsInOrder(windows)) = PairedRows(windows)
<1>1. PICK forecast : forecast = IdsInOrder(windows)
  OBVIOUS
<1>2. forecast = [i \in DOMAIN windows |-> WindowId(windows[i])]
  BY <1>1 DEF IdsInOrder
<1>3. \A w \in Range(windows) : ScoreRow(windows, forecast, w.id) = PairedRow(Range(windows), w.id)
  BY <1>2, RowIs
<1>4. RowsFor(windows, forecast) = PairedRows(windows)
  BY <1>3 DEF RowsFor, PairedRows
<1> QED BY <1>1, <1>4

-----------------------------------------------------------------------------
(* The invariant *)

\* No trajectory of the task fails.
Unhurt(t) == \A f \in faulty : f.task # t
\* The artifact of a task, if there can be one.
Good(t) ==
  {a \in {Payload(Bundle(t, WorkItems(t), Normalizer(t)))} : AsDesigned(t, a) /\ Unhurt(t)}
GoodOnes == UNION {Good(t) : t \in DataTasks}

ItemStates == {"queued", "running", "ready", "error", "cancelled"}
AllItems == UNION {Items(t) : t \in DataTasks}
MakerShape ==
  [pc : {"idle", "pool", "raising", "publish", "done", "failed", "killed"}, workers : Nat,
   items : Seq([what : AllItems, state : ItemStates]), records : Seq(AllItems),
   made : {NoArtifact} \cup GoodOnes]

\* What a maker in the midst of its work has: all items, and the first records.
InTheMidst(r, t) ==
  /\ Designable(t) /\ (t = "e02" => accepted["stage2"] # NoArtifact)
  /\ Len(r.items) = Len(WorkItems(t)) /\ Len(r.records) <= Len(r.items)
  /\ \A i \in 1..Len(r.items) :
       /\ r.items[i].what = WorkItems(t)[i]
       /\ r.items[i].state = "ready" => TrajectoryId(WorkItems(t)[i]) \notin faulty
  /\ \A i \in 1..Len(r.records) :
       r.records[i] = WorkItems(t)[i] /\ TrajectoryId(WorkItems(t)[i]) \notin faulty
Fine(r, t) ==
  /\ r.pc = "idle" => r = Idle
  /\ r.pc \in {"pool", "raising"} => InTheMidst(r, t)
  /\ r.pc \in {"publish", "done"} => r.made \in Good(t)

FaultsOK == \A f \in faulty : \E t \in DataTasks : f = Named(t, DesignSeeds[t][1], PartitionsOf(t)[2], 1)
SetupOK == makes \in Assignments /\ regimes \in WorldRegimes /\ FaultsOK
MakersOK ==
  /\ maker \in [DOMAIN makes -> MakerShape]
  /\ \A m \in DOMAIN makes : \A t \in DataTasks : makes[m] = t => Fine(maker[m], t)
StoreOK ==
  /\ kept \subseteq GoodOnes
  /\ accepted \in [DataTasks -> {NoArtifact} \cup GoodOnes]
  /\ \A t \in DataTasks :
       accepted[t] # NoArtifact => accepted[t] \in Good(t) /\ \E m \in DOMAIN makes : makes[m] = t

\* The windows judged on, what is forecast of them, and what it is scored.
FormalOf(t) == Windowed(t, WorkItems(t))["TEST_SEEN"] \o Windowed(t, WorkItems(t))["TEST_UNSEEN"]
ForecastOf(t) == IdsInOrder(FormalOf(t))
RowsOf(t) == PairedRows(FormalOf(t))
ForecastFine(f) ==
  \/ f.status = "pending"
  \/ f.status = "made" /\ accepted["e02"] # NoArtifact /\ f.windows = ForecastOf("e02")
ScoreFine(s) ==
  \/ s.status = "pending"
  \/ s.status = "made" /\ \E t \in {"stage1b", "e02"} : accepted[t] # NoArtifact /\ s.rows = RowsOf(t)
UseOK ==
  /\ crossFit.status \in {"pending", "made", "refused"} /\ DOMAIN crossFit = {"status", "seen"} /\ HeldOutWhole
  /\ DOMAIN forecasts = Contenders /\ \A c \in Contenders : ForecastFine(forecasts[c])
  /\ DOMAIN scored = Contenders /\ \A c \in Contenders : ScoreFine(scored[c])

DataIInv == SetupOK /\ MakersOK /\ StoreOK /\ UseOK

\* The design is that of the world, which stays.
LEMMA DesignStays ==
  ASSUME UNCHANGED <<makes, regimes, faulty>>
  PROVE  /\ \A t : WorkItems(t)' = WorkItems(t)
         /\ \A t : Items(t)' = Items(t)
         /\ \A t : Designable(t)' <=> Designable(t)
         /\ \A t : Good(t)' = Good(t)
         /\ \A t : ForecastOf(t)' = ForecastOf(t)
         /\ \A t : RowsOf(t)' = RowsOf(t)
         /\ GoodOnes' = GoodOnes /\ MakerShape' = MakerShape
<1>1. \A p : Eligible(p)' = Eligible(p)
  BY DEF Eligible
<1>2. \A p : \A i : RegimeOf(p, i)' = RegimeOf(p, i)
  BY <1>1 DEF RegimeOf
<1>3. \A t : Items(t)' = Items(t)
  BY <1>2 DEF Items, Item
<1>4. \A t : \A s : \A p : Share(t, s, p)' = Share(t, s, p)
  BY <1>1 DEF Share
<1>5. \A t : WorkItems(t)' = WorkItems(t)
  BY <1>4 DEF WorkItems
<1>6. \A t : Designable(t)' <=> Designable(t)
  BY <1>1 DEF Designable
<1>7. \A t : Normalizer(t)' = Normalizer(t)
  BY <1>5 DEF Normalizer
<1>8. \A t : Good(t)' = Good(t)
  BY <1>5, <1>6, <1>7 DEF Good, AsDesigned, Unhurt
<1>9. \A t : FormalOf(t)' = FormalOf(t)
  BY <1>5 DEF FormalOf
<1>12. /\ \A t : ForecastOf(t)' = ForecastOf(t)
       /\ \A t : RowsOf(t)' = RowsOf(t)
  BY <1>9 DEF ForecastOf, RowsOf, IdsInOrder, PairedRows
<1>10. GoodOnes' = GoodOnes
  BY <1>8 DEF GoodOnes
<1>11. MakerShape' = MakerShape
  BY <1>3, <1>10 DEF MakerShape, AllItems
<1> QED BY <1>3, <1>5, <1>6, <1>8, <1>10, <1>11, <1>12

-----------------------------------------------------------------------------
(* What a step leaves *)

\* When the world and the faults stay, and no accepted artifact is lost, so does
\* what is said of a maker.
LEMMA FineStays ==
  ASSUME UNCHANGED <<makes, regimes, faulty>>, NEW r, NEW t, Fine(r, t),
         accepted["stage2"] # NoArtifact => accepted'["stage2"] # NoArtifact
  PROVE  Fine(r, t)'
<1>1. WorkItems(t)' = WorkItems(t) /\ (Designable(t)' <=> Designable(t)) /\ Good(t)' = Good(t)
  BY DesignStays
<1> QED BY <1>1 DEF Fine, InTheMidst, Idle, NoArtifact

\* What was set up stays.
LEMMA SetupStays ==
  ASSUME UNCHANGED <<makes, regimes, faulty>>, SetupOK
  PROVE  SetupOK'
  BY DEF SetupOK, FaultsOK

\* What is said of the store stays with the store.
LEMMA StoreStays ==
  ASSUME UNCHANGED <<makes, regimes, faulty, kept, accepted>>, StoreOK
  PROVE  StoreOK'
<1>1. /\ \A t : Good(t)' = Good(t)
      /\ GoodOnes' = GoodOnes
  BY DesignStays
<1> QED BY <1>1 DEF StoreOK

\* A forecast stays one of the formal data.
LEMMA ForecastStays ==
  ASSUME UNCHANGED <<makes, regimes, faulty>>, NEW f, ForecastFine(f),
         accepted["e02"] # NoArtifact => accepted'["e02"] # NoArtifact
  PROVE  ForecastFine(f)'
<1>1. ForecastOf("e02")' = ForecastOf("e02")
  BY DesignStays
<1> QED BY <1>1 DEF ForecastFine, NoArtifact

\* Scores stay those of their data.
LEMMA ScoreStays ==
  ASSUME UNCHANGED <<makes, regimes, faulty>>, NEW s, ScoreFine(s),
         \A t \in {"stage1b", "e02"} : accepted[t] # NoArtifact => accepted'[t] # NoArtifact
  PROVE  ScoreFine(s)'
<1>1. \A t : RowsOf(t)' = RowsOf(t)
  BY DesignStays
<1> QED BY <1>1 DEF ScoreFine, NoArtifact

\* What was made of the data stays as it should be, while no artifact is lost.
LEMMA UseStays ==
  ASSUME UNCHANGED <<makes, regimes, faulty, crossFit, forecasts, scored>>, UseOK,
         \A t \in DataTasks : accepted[t] # NoArtifact => accepted'[t] # NoArtifact
  PROVE  UseOK'
<1>1. \A c \in Contenders : ForecastFine(forecasts[c])'
  <2> SUFFICES ASSUME NEW c \in Contenders PROVE ForecastFine(forecasts[c])'
    OBVIOUS
  <2>1. PICK f : f = forecasts[c]
    OBVIOUS
  <2>2. ForecastFine(f)
    BY <2>1 DEF UseOK
  <2>3. ForecastFine(f)'
    BY <2>2, ForecastStays DEF DataTasks
  <2> QED BY <2>1, <2>3 DEF ForecastFine
<1>2. \A c \in Contenders : ScoreFine(scored[c])'
  <2> SUFFICES ASSUME NEW c \in Contenders PROVE ScoreFine(scored[c])'
    OBVIOUS
  <2>1. PICK s : s = scored[c]
    OBVIOUS
  <2>2. ScoreFine(s)
    BY <2>1 DEF UseOK
  <2>3. ScoreFine(s)'
    BY <2>2, ScoreStays DEF DataTasks
  <2> QED BY <2>1, <2>3 DEF ScoreFine
<1> QED BY <1>1, <1>2 DEF UseOK, HeldOutWhole

\* A maker moves to a state that is in order: all makers are.
LEMMA MakersMove ==
  ASSUME DataIInv, UNCHANGED <<makes, regimes, faulty>>,
         accepted["stage2"] # NoArtifact => accepted'["stage2"] # NoArtifact,
         NEW m \in DOMAIN makes, NEW r \in MakerShape,
         \A t \in DataTasks : makes[m] = t => Fine(r, t),
         maker' = [maker EXCEPT ![m] = r]
  PROVE  MakersOK'
<1>1. maker' \in [DOMAIN makes' -> MakerShape']
  <2>1. MakerShape' = MakerShape
    BY DesignStays
  <2> QED BY <2>1 DEF DataIInv, MakersOK
<1>2. \A n \in DOMAIN makes' : \A t \in DataTasks : makes'[n] = t => Fine(maker[n], t)'
  <2> SUFFICES ASSUME NEW n \in DOMAIN makes, NEW t \in DataTasks, makes[n] = t
               PROVE  Fine(maker[n], t)'
    OBVIOUS
  <2>1. PICK x : x = maker'[n]
    OBVIOUS
  <2>2. Fine(x, t)
    BY <2>1 DEF DataIInv, MakersOK
  <2>3. Fine(x, t)'
    BY <2>2, FineStays
  <2> QED BY <2>1, <2>3 DEF Fine, InTheMidst
<1> QED BY <1>1, <1>2 DEF MakersOK

\* One maker moves, the others and the store stay.
LEMMA MakerMoves ==
  ASSUME DataIInv, UnchangedByPool, NEW m \in DOMAIN makes, NEW r \in MakerShape,
         \A t \in DataTasks : makes[m] = t => Fine(r, t),
         maker' = [maker EXCEPT ![m] = r]
  PROVE  DataIInv'
<1>1. SetupOK'
  BY SetupStays DEF DataIInv, UnchangedByPool
<1>2. StoreOK'
  BY StoreStays DEF DataIInv, UnchangedByPool
<1>3. UseOK'
  BY UseStays DEF DataIInv, UnchangedByPool
<1>4. MakersOK'
  BY MakersMove DEF UnchangedByPool
<1> QED BY <1>1, <1>2, <1>3, <1>4 DEF DataIInv

\* A maker that has not begun is in order.
LEMMA IdleShape == Idle \in MakerShape
  BY DEF Idle, MakerShape

\* What is known of one maker.
LEMMA MakersTasks ==
  ASSUME DataIInv, NEW m \in DOMAIN makes
  PROVE  makes[m] \in DataTasks /\ maker[m] \in MakerShape /\ Fine(maker[m], makes[m])
<1>1. makes[m] \in DataTasks
  BY AssignmentAssumption DEF DataIInv, SetupOK, Range
<1> QED BY <1>1 DEF DataIInv, MakersOK

\* The invariant holds at the start.
LEMMA DataStarts == DataInit => DataIInv
<1> SUFFICES ASSUME DataInit PROVE DataIInv
  OBVIOUS
<1>1. SetupOK
  <2>1. Range(makes) \subseteq DataTasks
    BY AssignmentAssumption DEF DataInit
  <2> QED BY <2>1 DEF DataInit, SetupOK, FaultsOK
<1>2. MakersOK
  BY IdleShape DEF DataInit, MakersOK, Fine, Idle
<1>3. StoreOK
  BY DEF DataInit, StoreOK
<1>4. UseOK
  BY DEF DataInit, UseOK, HeldOutWhole, ForecastFine, ScoreFine
<1> QED BY <1>1, <1>2, <1>3, <1>4 DEF DataIInv

\* What a sequence has.
LEMMA ElementsAre ==
  ASSUME NEW T, NEW seq \in Seq(T)
  PROVE  /\ DOMAIN seq = 1..Len(seq) /\ Len(seq) \in Nat
         /\ \A j \in 1..Len(seq) : seq[j] \in T
  OBVIOUS

WithState(items, i, s) == [items EXCEPT ![i].state = s]
OthersStay(new, items, i) ==
  \A j \in 1..Len(items) : new[j].what = items[j].what /\ (j # i => new[j].state = items[j].state)
\* One item gets another state, the others keep theirs, and all their work.
LEMMA StateSet ==
  ASSUME NEW items \in Seq([what : AllItems, state : ItemStates]), NEW i, NEW s \in ItemStates,
         NEW new, new = WithState(items, i, s)
  PROVE  /\ new \in Seq([what : AllItems, state : ItemStates]) /\ Len(new) = Len(items)
         /\ OthersStay(new, items, i)
<1>1. \A j \in 1..Len(items) : items[j] \in [what : AllItems, state : ItemStates]
  BY ElementsAre
<1>2. DOMAIN items = 1..Len(items) /\ Len(items) \in Nat
  OBVIOUS
<1>3. \A j \in 1..Len(items) : new[j] = IF j = i THEN [items[i] EXCEPT !.state = s] ELSE items[j]
  BY <1>2 DEF WithState
<1>4. \A j \in 1..Len(items) : /\ new[j] \in [what : AllItems, state : ItemStates] /\ new[j].what = items[j].what
                               /\ j # i => new[j] = items[j]
  <2> QED BY <1>1, <1>3
<1>5. new \in [1..Len(items) -> [what : AllItems, state : ItemStates]]
  <2>1. DOMAIN new = 1..Len(items) /\ new = [j \in 1..Len(items) |-> new[j]]
    BY <1>2 DEF WithState
  <2> QED BY <1>4, <2>1
<1>6. new \in Seq([what : AllItems, state : ItemStates]) /\ Len(new) = Len(items)
  BY <1>2, <1>5, SequenceIs
<1>7. OthersStay(new, items, i)
  BY <1>4 DEF OthersStay
<1> QED BY <1>6, <1>7

\* A try that fails or is killed.
LEMMA TryEnds ==
  ASSUME DataIInv, UnchangedByPool, NEW m \in DOMAIN makes, NEW at \in {"failed", "killed"}, DataEnds(m, at)
  PROVE  DataIInv'
<1> DEFINE r == [Idle EXCEPT !.pc = at, !.made = maker[m].made]
<1>1. r \in MakerShape
  BY MakersTasks, IdleShape DEF MakerShape
<1>2. \A t \in DataTasks : makes[m] = t => Fine(r, t)
  BY DEF Fine, Idle
<1> QED BY <1>1, <1>2, MakerMoves DEF DataEnds

\* Items change their states, and perhaps an error is raised.
LEMMA ItemsMove ==
  ASSUME DataIInv, UnchangedByPool, NEW m \in DOMAIN makes, maker[m].pc \in {"pool", "raising"},
         NEW at \in {"pool", "raising"}, NEW items \in Seq([what : AllItems, state : ItemStates]),
         Len(items) = Len(maker[m].items),
         \A j \in 1..Len(items) :
           /\ items[j].what = maker[m].items[j].what
           /\ items[j].state = "ready" =>
                maker[m].items[j].state = "ready" \/ TrajectoryId(items[j].what) \notin faulty,
         maker' = [maker EXCEPT ![m] = [maker[m] EXCEPT !.pc = at, !.items = items]]
  PROVE  DataIInv'
<1> DEFINE r == [maker[m] EXCEPT !.pc = at, !.items = items]
<1>1. maker[m] \in MakerShape /\ Fine(maker[m], makes[m])
  BY MakersTasks
<1>2. r \in MakerShape
  BY <1>1 DEF MakerShape
<1>3. /\ r.pc = at /\ r.items = items /\ r.records = maker[m].records
  BY <1>1 DEF MakerShape
<1>4. InTheMidst(maker[m], makes[m])
  BY <1>1 DEF Fine
<1>5. InTheMidst(r, makes[m])
  BY <1>3, <1>4 DEF InTheMidst
<1>6. \A t \in DataTasks : makes[m] = t => Fine(r, t)
  BY <1>3, <1>5 DEF Fine
<1> QED BY <1>2, <1>6, MakerMoves

\* One item moves; ready it becomes only when its simulation did not fail.
LEMMA OneItemMoves ==
  ASSUME DataIInv, UnchangedByPool, NEW m \in DOMAIN makes, maker[m].pc \in {"pool", "raising"},
         NEW i, NEW s \in ItemStates, Becomes(m, i, s),
         s = "ready" => i \in DOMAIN maker[m].items /\ TrajectoryId(maker[m].items[i].what) \notin faulty
  PROVE  DataIInv'
<1> DEFINE items == WithState(maker[m].items, i, s)
<1>1. maker[m] \in MakerShape
  BY MakersTasks
<1>2. maker[m].items \in Seq([what : AllItems, state : ItemStates])
  BY <1>1 DEF MakerShape
<1>3. /\ items \in Seq([what : AllItems, state : ItemStates]) /\ Len(items) = Len(maker[m].items)
      /\ \A j \in 1..Len(maker[m].items) :
           /\ items[j].what = maker[m].items[j].what
           /\ j # i => items[j].state = maker[m].items[j].state
  <2>1. PICK it : it = maker[m].items
    OBVIOUS
  <2>2. PICK new : new = WithState(it, i, s)
    OBVIOUS
  <2>3. it \in Seq([what : AllItems, state : ItemStates])
    BY <1>2, <2>1
  <2>4. new \in Seq([what : AllItems, state : ItemStates]) /\ Len(new) = Len(it) /\ OthersStay(new, it, i)
    BY <2>2, <2>3, StateSet
  <2> QED BY <2>1, <2>2, <2>4 DEF OthersStay
<1>6. \A j \in 1..Len(items) : j = i => items[j].state = s
  <2> SUFFICES ASSUME i \in 1..Len(maker[m].items)
               PROVE  items[i] = [maker[m].items[i] EXCEPT !.state = s]
                        /\ maker[m].items[i] \in [what : AllItems, state : ItemStates]
    <3> HIDE DEF items
    <3> QED BY <1>3
  <2> QED BY <1>2, ElementsAre DEF WithState
<1>4. \A j \in 1..Len(items) :
        /\ items[j].what = maker[m].items[j].what
        /\ items[j].state = "ready" =>
             maker[m].items[j].state = "ready" \/ TrajectoryId(items[j].what) \notin faulty
  <2> HIDE DEF items
  <2> QED BY <1>3, <1>6
<1>5. maker' = [maker EXCEPT ![m] = [maker[m] EXCEPT !.pc = maker[m].pc, !.items = items]]
  <2>1. [maker[m] EXCEPT !.pc = maker[m].pc, !.items = items] = [maker[m] EXCEPT !.items = items]
    BY <1>1 DEF MakerShape
  <2>2. maker' = [maker EXCEPT ![m] = [maker[m] EXCEPT !.items = items]]
    BY DEF Becomes, WithState
  <2> QED BY <2>1, <2>2
<1> HIDE DEF items
<1> QED BY <1>3, <1>4, <1>5, ItemsMove

\* Items are given up, together.
LEMMA AllItemsMove ==
  ASSUME DataIInv, UnchangedByPool, NEW m \in DOMAIN makes, maker[m].pc = "pool",
         NEW before, NEW s \in {"error", "cancelled"}, NEW at \in {"pool", "raising"},
         maker' = [maker EXCEPT ![m] = [maker[m] EXCEPT !.pc = at, !.items = AllBecome(m, before, s)]]
  PROVE  DataIInv'
<1> DEFINE items == AllBecome(m, before, s)
<1>1. maker[m] \in MakerShape
  BY MakersTasks
<1>2. maker[m].items \in Seq([what : AllItems, state : ItemStates])
  BY <1>1 DEF MakerShape
<1>3. \A j \in 1..Len(maker[m].items) : maker[m].items[j] \in [what : AllItems, state : ItemStates]
  BY <1>2, ElementsAre
<1>4. items \in [1..Len(maker[m].items) -> [what : AllItems, state : ItemStates]]
  BY <1>2, <1>3 DEF AllBecome, ItemStates
<1>5. items \in Seq([what : AllItems, state : ItemStates]) /\ Len(items) = Len(maker[m].items)
  BY <1>2, <1>4, SequenceIs
<1>6. \A j \in 1..Len(items) :
        /\ items[j].what = maker[m].items[j].what
        /\ items[j].state = "ready" =>
             maker[m].items[j].state = "ready" \/ TrajectoryId(items[j].what) \notin faulty
  BY <1>2, <1>3, <1>5 DEF AllBecome
<1>7. maker' = [maker EXCEPT ![m] = [maker[m] EXCEPT !.pc = at, !.items = items]]
  OBVIOUS
<1> HIDE DEF items
<1> QED BY <1>5, <1>6, <1>7, ItemsMove

-----------------------------------------------------------------------------
(* The steps of a maker *)

\* The work of a task is a sequence of items.
LEMMA WorkLength ==
  ASSUME NEW t \in DataTasks
  PROVE  /\ DOMAIN WorkItems(t) = 1..Len(WorkItems(t)) /\ Len(WorkItems(t)) \in Nat
         /\ \A i \in 1..Len(WorkItems(t)) : WorkItems(t)[i] \in AllItems
<1>1. \A i \in 1..Len(WorkItems(t)) : WorkItems(t)[i] \in Items(t)
  BY WorkItemsAre, ElementsAre
<1> QED BY <1>1, WorkItemsAre, ElementsAre DEF AllItems

\* What a try starts with.
Queued(t) == [i \in DOMAIN WorkItems(t) |-> [what |-> WorkItems(t)[i], state |-> "queued"]]

\* At first each item is queued.
LEMMA QueuedIs ==
  ASSUME NEW t \in DataTasks
  PROVE  /\ Queued(t) \in Seq([what : AllItems, state : ItemStates])
         /\ Len(Queued(t)) = Len(WorkItems(t))
         /\ \A i \in 1..Len(WorkItems(t)) : Queued(t)[i].what = WorkItems(t)[i] /\ Queued(t)[i].state = "queued"
<1>1. Queued(t) \in [1..Len(WorkItems(t)) -> [what : AllItems, state : ItemStates]]
  BY WorkLength DEF Queued, ItemStates
<1>2. \A i \in 1..Len(WorkItems(t)) : Queued(t)[i] = [what |-> WorkItems(t)[i], state |-> "queued"]
  BY WorkLength DEF Queued
<1>3. \A i \in 1..Len(WorkItems(t)) : Queued(t)[i].what = WorkItems(t)[i] /\ Queued(t)[i].state = "queued"
  <2> SUFFICES ASSUME NEW i \in 1..Len(WorkItems(t))
               PROVE  Queued(t)[i].what = WorkItems(t)[i] /\ Queued(t)[i].state = "queued"
    OBVIOUS
  <2>1. Queued(t)[i] = [what |-> WorkItems(t)[i], state |-> "queued"]
    BY <1>2
  <2> QED BY <2>1
<1> QED BY <1>1, <1>3, WorkLength, SequenceIs

\* The record of a try that starts.
LEMMA StartedIs ==
  ASSUME NEW n, NEW q
  PROVE  [Idle EXCEPT !.pc = "pool", !.workers = n, !.items = q]
           = [pc |-> "pool", workers |-> n, items |-> q, records |-> << >>, made |-> NoArtifact]
<1> DEFINE a == [Idle EXCEPT !.pc = "pool"]
           b == [a EXCEPT !.workers = n]
           c == [b EXCEPT !.items = q]
<1>1. a = [pc |-> "pool", workers |-> 0, items |-> << >>, records |-> << >>, made |-> NoArtifact]
  BY DEF Idle
<1> HIDE DEF a
<1>2. b = [pc |-> "pool", workers |-> n, items |-> << >>, records |-> << >>, made |-> NoArtifact]
  BY <1>1
<1> HIDE DEF b
<1>3. c = [pc |-> "pool", workers |-> n, items |-> q, records |-> << >>, made |-> NoArtifact]
  BY <1>2
<1> QED BY <1>3 DEF a, b

\* A try begins, or fails at once.
LEMMA BeginKeeps ==
  ASSUME DataIInv, NEW m \in DOMAIN makes, BeginData(m)
  PROVE  DataIInv'
<1> DEFINE t == makes[m]
<1>1. maker[m] = Idle /\ t \in DataTasks
  BY MakersTasks DEF Fine, BeginData, DataAt
<1>2. PICK setting \in PoolSizes :
        LET asked == Asked(t, setting)
            work == WorkItems(t)
        IN IF asked = 0 \/ ~Designable(t) THEN DataEnds(m, "failed")
           ELSE maker' = [maker EXCEPT ![m] =
                  [maker[m] EXCEPT !.pc = "pool", !.workers = MinOf(asked, Len(work)),
                                   !.items = [i \in DOMAIN work |-> [what |-> work[i], state |-> "queued"]]]]
  BY DEF BeginData
<1>3. UnchangedByPool
  BY DEF BeginData
<1>4. CASE DataEnds(m, "failed")
  BY <1>3, <1>4, TryEnds
<1>5. CASE ~DataEnds(m, "failed")
  <2> DEFINE workers == MinOf(Asked(t, setting), Len(WorkItems(t)))
             r == [Idle EXCEPT !.pc = "pool", !.workers = workers, !.items = Queued(t)]
  <2>1. Designable(t) /\ maker' = [maker EXCEPT ![m] = r]
    BY <1>1, <1>2, <1>5 DEF Queued
  <2>2. workers \in Nat
    BY <1>1, WorkLength, NumberAssumption DEF MinOf, Asked
  <2> HIDE DEF workers
  <2>3. r = [pc |-> "pool", workers |-> workers, items |-> Queued(t), records |-> << >>, made |-> NoArtifact]
    BY StartedIs
  <2> HIDE DEF r
  <2>4. r \in MakerShape
    <3>1. Queued(t) \in Seq([what : AllItems, state : ItemStates])
      BY <1>1, QueuedIs
    <3>2. << >> \in Seq(AllItems)
      OBVIOUS
    <3> QED BY <2>2, <2>3, <3>1, <3>2 DEF MakerShape
  <2>5. t = "e02" => accepted["stage2"] # NoArtifact
    BY DEF BeginData
  <2>6. InTheMidst(r, t)
    BY <2>1, <2>3, <2>5, <1>1, QueuedIs, WorkLength DEF InTheMidst
  <2>7. \A u \in DataTasks : makes[m] = u => Fine(r, u)
    BY <2>3, <2>6 DEF Fine
  <2> QED BY <1>3, <2>1, <2>4, <2>7, MakerMoves
<1> QED BY <1>4, <1>5

\* A process takes an item.
LEMMA TakeItemKeeps ==
  ASSUME DataIInv, NEW m \in DOMAIN makes, TakeItem(m)
  PROVE  DataIInv'
<1>1. PICK i : Becomes(m, i, "running")
  BY DEF TakeItem
<1> QED BY <1>1, OneItemMoves DEF TakeItem, DataAt, ItemStates

\* A process is done with an item.
LEMMA FinishKeeps ==
  ASSUME DataIInv, NEW m \in DOMAIN makes, NEW i, FinishItem(m, i)
  PROVE  DataIInv'
<1> DEFINE r == maker[m].items[i].what
           s == IF TrajectoryId(r) \in faulty \/ r.regime.role # RoleOfPartition(r.partition) THEN "error" ELSE "ready"
<1>1. Becomes(m, i, s) /\ UnchangedByPool /\ i \in DOMAIN maker[m].items /\ maker[m].pc \in {"pool", "raising"}
  BY DEF FinishItem, InState
<1>2. s \in ItemStates /\ (s = "ready" => TrajectoryId(r) \notin faulty)
  BY DEF ItemStates
<1> QED BY <1>1, <1>2, OneItemMoves

\* The pool breaks.
LEMMA BreakKeeps ==
  ASSUME DataIInv, NEW m \in DOMAIN makes, BreakPool(m)
  PROVE  DataIInv'
<1> DEFINE items == AllBecome(m, {"queued", "running"}, "error")
<1>1. maker[m] \in MakerShape /\ maker[m].pc = "pool"
  BY MakersTasks DEF BreakPool, DataAt
<1>2. [maker[m] EXCEPT !.pc = "pool", !.items = items] = [maker[m] EXCEPT !.items = items]
  BY <1>1 DEF MakerShape
<1>3. maker' = [maker EXCEPT ![m] = [maker[m] EXCEPT !.pc = "pool", !.items = items]]
  BY <1>2 DEF BreakPool
<1> QED BY <1>1, <1>3, AllItemsMove DEF BreakPool

\* A maker that took one more result.
LEMMA OneMoreRecord ==
  ASSUME DataIInv, UnchangedByPool, NEW m \in DOMAIN makes, maker[m].pc = "pool",
         NEW n, n = Len(maker[m].records) + 1, n <= Len(maker[m].items),
         maker[m].items[n].state = "ready",
         maker' = [maker EXCEPT ![m].records = Append(maker[m].records, maker[m].items[n].what)]
  PROVE  DataIInv'
<1> DEFINE t == makes[m]
           records == maker[m].records
           items == maker[m].items
           more == Append(records, items[n].what)
           r == [maker[m] EXCEPT !.records = more]
<1>1. t \in DataTasks /\ maker[m] \in MakerShape /\ InTheMidst(maker[m], t)
  BY MakersTasks DEF Fine
<1>2. records \in Seq(AllItems) /\ items \in Seq([what : AllItems, state : ItemStates])
  BY <1>1 DEF MakerShape
<1>3. n \in 1..Len(items) /\ Len(items) = Len(WorkItems(t)) /\ n = Len(records) + 1 /\ Len(records) \in Nat
  BY <1>1, <1>2, ElementsAre DEF InTheMidst
<1>4. items[n].what = WorkItems(t)[n] /\ TrajectoryId(WorkItems(t)[n]) \notin faulty
  BY <1>1, <1>3 DEF InTheMidst
<1>5. items[n].what \in AllItems
  BY <1>1, <1>3, <1>4, WorkLength
<1>6. more \in Seq(AllItems) /\ Len(more) = n
      /\ \A i \in 1..n : more[i] = IF i = n THEN items[n].what ELSE records[i]
  BY <1>2, <1>3, <1>5
<1>7. maker' = [maker EXCEPT ![m] = r] /\ r.pc = "pool" /\ r.items = items /\ r.records = more
  BY <1>1 DEF MakerShape
<1> HIDE DEF more
<1>8. r \in MakerShape
  BY <1>1, <1>6 DEF MakerShape
<1> HIDE DEF r
<1>9. \A i \in 1..n : more[i] = WorkItems(t)[i] /\ TrajectoryId(WorkItems(t)[i]) \notin faulty
  <2> SUFFICES ASSUME NEW i \in 1..n PROVE more[i] = WorkItems(t)[i] /\ TrajectoryId(WorkItems(t)[i]) \notin faulty
    OBVIOUS
  <2>1. CASE i = n
    BY <1>4, <1>6, <2>1
  <2>2. CASE i # n
    <3>1. i \in 1..Len(records) /\ more[i] = records[i]
      BY <1>3, <1>6, <2>2
    <3> QED BY <1>1, <3>1 DEF InTheMidst
  <2> QED BY <2>1, <2>2
<1>10. InTheMidst(r, t)
  BY <1>1, <1>3, <1>6, <1>7, <1>9 DEF InTheMidst
<1>11. \A u \in DataTasks : makes[m] = u => Fine(r, u)
  BY <1>7, <1>10 DEF Fine
<1> QED BY <1>7, <1>8, <1>11, MakerMoves

\* The next result is taken: a record, or the error of the whole.
LEMMA ResultKeeps ==
  ASSUME DataIInv, NEW m \in DOMAIN makes, TakeResult(m)
  PROVE  DataIInv'
<1> DEFINE n == Len(maker[m].records) + 1
<1>1. maker[m] \in MakerShape /\ maker[m].pc = "pool" /\ UnchangedByPool
  BY MakersTasks DEF TakeResult, DataAt
<1>2. n <= Len(maker[m].items)
  <2>1. Len(maker[m].records) \in Nat /\ Len(maker[m].items) \in Nat
    BY <1>1, ElementsAre DEF MakerShape
  <2> QED BY <2>1 DEF TakeResult
<1>3. CASE /\ maker[m].items[n].state = "ready"
           /\ maker' = [maker EXCEPT ![m].records = Append(maker[m].records, maker[m].items[n].what)]
  BY <1>1, <1>2, <1>3, OneMoreRecord
<1>4. CASE maker' = [maker EXCEPT ![m].pc = "raising", ![m].items = AllBecome(m, {"queued"}, "cancelled")]
  <2>1. maker' = [maker EXCEPT ![m] = [maker[m] EXCEPT !.pc = "raising", !.items = AllBecome(m, {"queued"}, "cancelled")]]
    BY <1>1, <1>4 DEF MakerShape
  <2> QED BY <1>1, <2>1, AllItemsMove
<1> QED BY <1>3, <1>4 DEF TakeResult, NextResult

\* A design whose every trajectory was simulated has no faulty one: the one that
\* may be faulty is among its work.
LEMMA AllDoneIsUnhurt ==
  ASSUME FaultsOK, NEW t \in DataTasks,
         \A i \in 1..Len(WorkItems(t)) : TrajectoryId(WorkItems(t)[i]) \notin faulty
  PROVE  Unhurt(t)
<1> SUFFICES ASSUME NEW f \in faulty, f.task = t PROVE FALSE
  BY DEF Unhurt
<1>1. PICK u \in DataTasks : f = Named(u, DesignSeeds[u][1], PartitionsOf(u)[2], 1)
  BY DEF FaultsOK
<1>2. u = t
  BY <1>1 DEF Named
<1> DEFINE s == DesignSeeds[t][1]
           p == PartitionsOf(t)[2]
           x == Item(t, s, p, 1)
<1>3. s \in Range(DesignSeeds[t])
  <2>1. DOMAIN DesignSeeds[t] = 1..Len(DesignSeeds[t]) /\ Len(DesignSeeds[t]) \in Nat /\ Len(DesignSeeds[t]) # 0
    BY DesignAssumption
  <2> QED BY <2>1 DEF Range
<1>4. p \in Range(PartitionsOf(t))
  BY PartitionsAre DEF Range
<1>5. 1 \in 1..DesignCount[t][p]
  BY <1>4, DesignAssumption
<1>6. x \in Range(WorkItems(t))
  BY <1>3, <1>4, <1>5, WorkItemsAre
<1>7. TrajectoryId(x) = f
  BY <1>1, <1>2 DEF TrajectoryId, Item
<1>8. PICK i \in DOMAIN WorkItems(t) : x = WorkItems(t)[i]
  BY <1>6 DEF Range
<1> HIDE DEF x
<1> QED BY <1>7, <1>8, WorkLength

\* A task's records, when all are there, are its work.
LEMMA RecordsAreWork ==
  ASSUME DataIInv, NEW m \in DOMAIN makes, maker[m].pc = "pool",
         Len(maker[m].records) = Len(maker[m].items)
  PROVE  maker[m].records = WorkItems(makes[m]) /\ Designable(makes[m]) /\ Unhurt(makes[m])
<1> DEFINE t == makes[m]
           records == maker[m].records
<1>1. t \in DataTasks /\ maker[m] \in MakerShape /\ InTheMidst(maker[m], t)
  BY MakersTasks DEF Fine
<1>2. records \in Seq(AllItems)
  BY <1>1 DEF MakerShape
<1>3. Len(records) = Len(WorkItems(t))
  BY <1>1 DEF InTheMidst
<1>4. \A i \in 1..Len(WorkItems(t)) :
        records[i] = WorkItems(t)[i] /\ TrajectoryId(WorkItems(t)[i]) \notin faulty
  BY <1>1, <1>3 DEF InTheMidst
<1>5. WorkItems(t) \in Seq(Items(t))
  BY <1>1, WorkItemsAre
<1>6. records = WorkItems(t)
  BY <1>2, <1>3, <1>4, <1>5
<1>7. Unhurt(t)
  BY <1>1, <1>4, AllDoneIsUnhurt DEF DataIInv, SetupOK
<1> QED BY <1>1, <1>6, <1>7 DEF InTheMidst

\* What the data of a task are normalised with.
LEMMA NormalizerIs ==
  ASSUME DataIInv, NEW t \in DataTasks, t = "e02" => accepted["stage2"] # NoArtifact
  PROVE  (IF t = "e02" THEN Reloaded(accepted["stage2"]).normalizer ELSE FittedOn(WorkItems(t))) = Normalizer(t)
<1>1. CASE t = "e02"
  <2>1. accepted["stage2"] \in Good("stage2")
    BY <1>1 DEF DataIInv, StoreOK, DataTasks
  <2>2. AsDesigned("stage2", accepted["stage2"])
    BY <2>1 DEF Good
  <2>3. Reloaded(accepted["stage2"]).normalizer = Normalizer("stage2")
    BY <2>2, ReloadedIs
  <2> QED BY <1>1, <2>3 DEF Normalizer
<1>2. CASE t # "e02"
  BY <1>2 DEF Normalizer
<1> QED BY <1>1, <1>2

\* The record of a try that keeps only what it made.
LEMMA OnlyMadeIs ==
  ASSUME NEW at, NEW a
  PROVE  [Idle EXCEPT !.pc = at, !.made = a]
           = [pc |-> at, workers |-> 0, items |-> << >>, records |-> << >>, made |-> a]
<1> DEFINE b == [Idle EXCEPT !.pc = at]
           c == [b EXCEPT !.made = a]
<1>1. b = [pc |-> at, workers |-> 0, items |-> << >>, records |-> << >>, made |-> NoArtifact]
  BY DEF Idle
<1> HIDE DEF b
<1>2. c = [pc |-> at, workers |-> 0, items |-> << >>, records |-> << >>, made |-> a]
  BY <1>1
<1> QED BY <1>2 DEF b

\* The bundle is that of the design, and whole; or the try fails.
LEMMA PrepareKeeps ==
  ASSUME DataIInv, NEW m \in DOMAIN makes, PrepareData(m)
  PROVE  DataIInv'
<1> DEFINE t == makes[m]
           bundle == Prepared(t, maker[m].records)
           r == [Idle EXCEPT !.pc = "publish", !.made = Payload(bundle)]
<1>1. t \in DataTasks /\ UnchangedByPool /\ InTheMidst(maker[m], t)
  BY MakersTasks DEF Fine, PrepareData, DataAt
<1>2. maker[m].records = WorkItems(t) /\ Designable(t) /\ Unhurt(t)
  BY RecordsAreWork DEF PrepareData, DataAt
<1>3. CASE bundle = RefusedData
  <2>1. DataEnds(m, "failed")
    BY <1>3 DEF PrepareData
  <2> QED BY <1>1, <2>1, TryEnds
<1>4. CASE bundle # RefusedData
  <2>1. bundle = Bundle(t, WorkItems(t), Normalizer(t))
    <3>1. bundle = Bundle(t, WorkItems(t), IF t = "e02" THEN Reloaded(accepted["stage2"]).normalizer
                                           ELSE FittedOn(WorkItems(t)))
      BY <1>2, <1>4 DEF Prepared
    <3>2. (IF t = "e02" THEN Reloaded(accepted["stage2"]).normalizer ELSE FittedOn(WorkItems(t))) = Normalizer(t)
      BY <1>1, NormalizerIs DEF InTheMidst
    <3> QED BY <3>1, <3>2
  <2>2. maker' = [maker EXCEPT ![m] = r]
    BY <1>4 DEF PrepareData
  <2>3. Payload(bundle) \in Good(t)
    <3>1. AsDesigned(t, Payload(bundle))
      <4> HIDE DEF bundle
      <4> QED BY <1>1, <1>2, <1>4, <2>1 DEF AsDesigned
    <3>2. Payload(bundle) = Payload(Bundle(t, WorkItems(t), Normalizer(t)))
      BY <2>1
    <3> HIDE DEF bundle
    <3> QED BY <1>2, <3>1, <3>2 DEF Good
  <2> HIDE DEF bundle
  <2>4. r \in MakerShape /\ r.pc = "publish" /\ r.made = Payload(bundle)
    <3>1. Payload(bundle) \in GoodOnes
      BY <1>1, <2>3 DEF GoodOnes
    <3>2. r = [pc |-> "publish", workers |-> 0, items |-> << >>, records |-> << >>, made |-> Payload(bundle)]
      BY OnlyMadeIs
    <3> HIDE DEF r
    <3>3. << >> \in Seq(AllItems) /\ << >> \in Seq([what : AllItems, state : ItemStates])
      OBVIOUS
    <3> QED BY <3>1, <3>2, <3>3 DEF MakerShape
  <2> HIDE DEF r
  <2>5. \A u \in DataTasks : makes[m] = u => Fine(r, u)
    BY <2>3, <2>4 DEF Fine
  <2> QED BY <1>1, <2>2, <2>4, <2>5, MakerMoves
<1> QED BY <1>3, <1>4

\* An artifact is published, by whichever try is first.
LEMMA PublishDataKeeps ==
  ASSUME DataIInv, NEW m \in DOMAIN makes, PublishData(m)
  PROVE  DataIInv'
<1> DEFINE t == makes[m]
           at == IF maker[m].made \in kept THEN "failed" ELSE "done"
           r == [Idle EXCEPT !.pc = at, !.made = maker[m].made]
<1>1. t \in DataTasks /\ maker[m] \in MakerShape /\ maker[m].made \in Good(t)
  BY MakersTasks DEF Fine, PublishData, DataAt
<1>2. maker' = [maker EXCEPT ![m] = r]
  BY DEF PublishData, DataEnds
<1>3. at \in {"failed", "done"}
  OBVIOUS
<1> HIDE DEF at
<1>4. r.pc = at /\ r.made = maker[m].made
  BY DEF Idle
<1>5. r \in MakerShape
  BY <1>1, <1>3, IdleShape DEF MakerShape
<1> HIDE DEF r
<1>6. \A u \in DataTasks : makes[m] = u => Fine(r, u)
  BY <1>1, <1>3, <1>4 DEF Fine
<1>7. MakersOK'
  BY <1>2, <1>5, <1>6, MakersMove DEF PublishData
<1>8. SetupOK'
  BY SetupStays DEF DataIInv, PublishData
<1>9. UseOK'
  BY UseStays DEF DataIInv, PublishData
<1>10. StoreOK'
  <2>1. /\ \A u : Good(u)' = Good(u)
        /\ GoodOnes' = GoodOnes
    BY DesignStays DEF PublishData
  <2>2. kept' \subseteq GoodOnes
    BY <1>1 DEF PublishData, DataIInv, StoreOK, GoodOnes
  <2> QED BY <2>1, <2>2 DEF PublishData, DataIInv, StoreOK
<1> QED BY <1>7, <1>8, <1>9, <1>10 DEF DataIInv

\* The ledger accepts what a try made.
LEMMA AcceptKeeps ==
  ASSUME DataIInv, NEW m \in DOMAIN makes, AcceptData(m)
  PROVE  DataIInv'
<1> DEFINE t == makes[m]
<1>1. t \in DataTasks /\ maker[m].made \in Good(t)
  BY MakersTasks DEF Fine, AcceptData, DataAt
<1>2. /\ accepted[t] = NoArtifact /\ accepted' = [accepted EXCEPT ![t] = maker[m].made]
      /\ UNCHANGED <<makes, regimes, faulty, maker, kept, crossFit, forecasts, scored>>
  BY DEF AcceptData
<1>3. accepted \in [DataTasks -> {NoArtifact} \cup GoodOnes]
  BY DEF DataIInv, StoreOK
<1>4. \A u \in DataTasks : accepted[u] # NoArtifact => accepted'[u] # NoArtifact
  BY <1>2, <1>3
<1>5. SetupOK'
  BY <1>2, SetupStays DEF DataIInv
<1>6. UseOK'
  BY <1>2, <1>4, UseStays DEF DataIInv
<1>7. MakersOK'
  <2>1. maker' = [maker EXCEPT ![m] = maker[m]]
    BY <1>2 DEF DataIInv, MakersOK
  <2>2. maker[m] \in MakerShape /\ \A u \in DataTasks : makes[m] = u => Fine(maker[m], u)
    BY MakersTasks
  <2>3. accepted["stage2"] # NoArtifact => accepted'["stage2"] # NoArtifact
    BY <1>4 DEF DataTasks
  <2>4. PICK r : r = maker[m]
    OBVIOUS
  <2> QED BY <1>2, <2>1, <2>2, <2>3, <2>4, MakersMove
<1>8. StoreOK'
  <2>1. /\ \A u : Good(u)' = Good(u)
        /\ GoodOnes' = GoodOnes
    BY <1>2, DesignStays
  <2>2. maker[m].made \in GoodOnes
    BY <1>1 DEF GoodOnes
  <2>3. accepted' \in [DataTasks -> {NoArtifact} \cup GoodOnes]
    BY <1>2, <1>3, <2>2
  <2>4. \A u \in DataTasks : accepted'[u] # NoArtifact =>
          accepted'[u] \in Good(u) /\ \E n \in DOMAIN makes : makes[n] = u
    BY <1>1, <1>2, <1>3 DEF DataIInv, StoreOK
  <2> QED BY <1>2, <2>1, <2>3, <2>4 DEF DataIInv, StoreOK
<1> QED BY <1>5, <1>6, <1>7, <1>8 DEF DataIInv

-----------------------------------------------------------------------------
(* The steps of those who use the data *)

\* Makers stay in order while they and the accepted artifacts stay.
LEMMA MakersStay ==
  ASSUME DataIInv, UNCHANGED <<makes, regimes, faulty, maker, accepted>>
  PROVE  MakersOK'
<1>1. maker' \in [DOMAIN makes' -> MakerShape']
  <2>1. MakerShape' = MakerShape
    BY DesignStays
  <2> QED BY <2>1 DEF DataIInv, MakersOK
<1>2. \A n \in DOMAIN makes' : \A t \in DataTasks : makes'[n] = t => Fine(maker[n], t)'
  <2> SUFFICES ASSUME NEW n \in DOMAIN makes, NEW t \in DataTasks, makes[n] = t
               PROVE  Fine(maker[n], t)'
    OBVIOUS
  <2>1. PICK x : x = maker[n]
    OBVIOUS
  <2>2. Fine(x, t)
    BY <2>1 DEF DataIInv, MakersOK
  <2>3. Fine(x, t)'
    BY <2>2, FineStays
  <2> QED BY <2>1, <2>3 DEF Fine, InTheMidst
<1> QED BY <1>1, <1>2 DEF MakersOK

\* What is made of the data leaves the data.
LEMMA UseMoves ==
  ASSUME DataIInv, UnchangedByUse, UseOK'
  PROVE  DataIInv'
<1>1. SetupOK'
  BY SetupStays DEF DataIInv, UnchangedByUse
<1>2. StoreOK'
  BY StoreStays DEF DataIInv, UnchangedByUse
<1>3. MakersOK'
  BY MakersStay DEF UnchangedByUse
<1> QED BY <1>1, <1>2, <1>3 DEF DataIInv

\* Forecasts and scores that are not touched stay as they should be.
LEMMA ForecastsStay ==
  ASSUME DataIInv, UnchangedByUse, NEW c \in Contenders, forecasts'[c] = forecasts[c]
  PROVE  ForecastFine(forecasts[c])'
<1>1. PICK f : f = forecasts[c]
  OBVIOUS
<1>2. ForecastFine(f)
  BY <1>1 DEF DataIInv, UseOK
<1>3. ForecastFine(f)'
  BY <1>2, ForecastStays DEF UnchangedByUse
<1> QED BY <1>1, <1>3 DEF ForecastFine

\* So do scores.
LEMMA ScoresStay ==
  ASSUME DataIInv, UnchangedByUse, NEW c \in Contenders, scored'[c] = scored[c]
  PROVE  ScoreFine(scored[c])'
<1>1. PICK s : s = scored[c]
  OBVIOUS
<1>2. ScoreFine(s)
  BY <1>1 DEF DataIInv, UseOK
<1>3. ScoreFine(s)'
  BY <1>2, ScoreStays DEF UnchangedByUse
<1> QED BY <1>1, <1>3 DEF ScoreFine

\* No trajectory is on both sides of a fold.
LEMMA FoldsKeep ==
  ASSUME DataIInv, FitCrossFolds
  PROVE  DataIInv'
<1> DEFINE train == Range(Reloaded(accepted["stage2"]).windows["TRAIN"])
<1>1. PICK foldOf \in [{w.id : w \in train} -> 1..FoldCount] :
        LET heldOut(k) == {w \in train : FoldOf(foldOf, w) = k}
        IN crossFit' = IF \E k \in 1..FoldCount : heldOut(k) \in {{}, train}
             THEN [crossFit EXCEPT !.status = "refused"]
             ELSE [status |-> "made",
                   seen |-> {<<w, train \ heldOut(FoldOf(foldOf, w))>> : w \in train}]
  BY DEF FitCrossFolds
<1> HIDE DEF train
<1>2. UnchangedByUse /\ forecasts' = forecasts /\ scored' = scored
  BY DEF FitCrossFolds
<1>3. CASE crossFit' = [crossFit EXCEPT !.status = "refused"]
  <2>1. DOMAIN crossFit = {"status", "seen"} /\ HeldOutWhole
    BY DEF DataIInv, UseOK
  <2>2. crossFit'.seen = crossFit.seen /\ crossFit'.status = "refused" /\ DOMAIN crossFit' = {"status", "seen"}
    BY <1>3, <2>1
  <2>3. HeldOutWhole'
    BY <2>1, <2>2 DEF HeldOutWhole
  <2>4. UseOK'
    BY <1>2, <2>2, <2>3, ForecastsStay, ScoresStay DEF DataIInv, UseOK
  <2> QED BY <1>2, <2>4, UseMoves
<1>4. CASE crossFit' = [status |-> "made",
                        seen |-> {<<w, train \ {v \in train : FoldOf(foldOf, v) = FoldOf(foldOf, w)}>> : w \in train}]
  <2>1. /\ crossFit'.seen = {<<w, train \ {v \in train : FoldOf(foldOf, v) = FoldOf(foldOf, w)}>> : w \in train}
        /\ crossFit'.status = "made" /\ DOMAIN crossFit' = {"status", "seen"}
    BY <1>4
  <2>2. HeldOutWhole'
    <3> SUFFICES ASSUME NEW f \in crossFit'.seen, NEW v \in f[2] PROVE v.id # f[1].id
      BY DEF HeldOutWhole
    <3>1. PICK w \in train : f = <<w, train \ {x \in train : FoldOf(foldOf, x) = FoldOf(foldOf, w)}>>
      BY <2>1
    <3>2. f[1] = w /\ f[2] = train \ {x \in train : FoldOf(foldOf, x) = FoldOf(foldOf, w)}
      BY <3>1
    <3>3. FoldOf(foldOf, v) # FoldOf(foldOf, w)
      BY <3>2
    <3> QED BY <3>2, <3>3 DEF FoldOf
  <2>3. UseOK'
    BY <1>2, <2>1, <2>2, ForecastsStay, ScoresStay DEF DataIInv, UseOK
  <2> QED BY <1>2, <2>3, UseMoves
<1> QED BY <1>1, <1>3, <1>4

\* An accepted artifact is that of its design.
LEMMA AcceptedIs ==
  ASSUME DataIInv, NEW t \in DataTasks, accepted[t] # NoArtifact
  PROVE  AsDesigned(t, accepted[t])
<1>1. accepted[t] \in Good(t)
  BY DEF DataIInv, StoreOK
<1> QED BY <1>1 DEF Good

\* What is judged on.
LEMMA FormalIs ==
  ASSUME DataIInv, NEW t \in {"stage1b", "e02"}, accepted[t] # NoArtifact
  PROVE  /\ FormalWindows(Reloaded(accepted[t])) = FormalOf(t)
         /\ FormalOf(t) \in Seq(WindowsFor(t)) /\ EachOnce(FormalOf(t))
<1>1. PICK b : b = Reloaded(accepted[t])
  OBVIOUS
<1>2. b.windows = Windowed(t, WorkItems(t))
  BY <1>1, AcceptedIs, ReloadedIs DEF DataTasks
<1>3. FormalWindows(b) \in Seq(WindowsFor(t)) /\ EachOnce(FormalWindows(b))
  BY <1>2, FormalAreWhole
<1>4. FormalWindows(b) = FormalOf(t)
  BY <1>2 DEF FormalWindows, FormalOf
<1> QED BY <1>1, <1>3, <1>4

\* A forecast is one of the formal windows, in their order.
LEMMA ForecastKeeps ==
  ASSUME DataIInv, NEW c \in Contenders, ForecastFormal(c)
  PROVE  DataIInv'
<1>1. UnchangedByUse /\ crossFit' = crossFit /\ scored' = scored /\ accepted["e02"] # NoArtifact
  BY DEF ForecastFormal
<1>2. FormalWindows(Reloaded(accepted["e02"])) = FormalOf("e02")
  BY <1>1, FormalIs
<1>3. forecasts' = [forecasts EXCEPT ![c] = [status |-> "made", windows |-> ForecastOf("e02")]]
  BY <1>2 DEF ForecastFormal, ForecastOf, IdsInOrder
<1>4. DOMAIN forecasts = Contenders
  BY DEF DataIInv, UseOK
<1>5. ForecastFine(forecasts[c])'
  <2>1. forecasts'[c].status = "made" /\ forecasts'[c].windows = ForecastOf("e02")
    BY <1>3, <1>4
  <2>2. ForecastOf("e02")' = ForecastOf("e02")
    BY <1>1, DesignStays DEF UnchangedByUse
  <2> QED BY <1>1, <2>1, <2>2 DEF ForecastFine, UnchangedByUse, NoArtifact
<1>6. \A d \in Contenders : ForecastFine(forecasts[d])'
  <2> SUFFICES ASSUME NEW d \in Contenders, d # c PROVE ForecastFine(forecasts[d])'
    BY <1>5
  <2>1. forecasts'[d] = forecasts[d]
    BY <1>3, <1>4
  <2> QED BY <1>1, <2>1, ForecastsStay
<1>7. UseOK'
  <2>1. \A d \in Contenders : ScoreFine(scored[d])'
    BY <1>1, ScoresStay
  <2> QED BY <1>1, <1>3, <1>4, <1>6, <2>1 DEF DataIInv, UseOK, HeldOutWhole
<1> QED BY <1>1, <1>7, UseMoves

\* The rows of a complete forecast.
LEMMA RowsOfForecast ==
  ASSUME DataIInv, NEW t \in {"stage1b", "e02"}, accepted[t] # NoArtifact
  PROVE  RowsFor(FormalOf(t), ForecastOf(t)) = RowsOf(t)
<1>1. PICK windows : windows = FormalOf(t)
  OBVIOUS
<1>2. windows \in Seq(WindowsFor(t)) /\ EachOnce(windows)
  BY <1>1, FormalIs
<1>3. RowsFor(windows, IdsInOrder(windows)) = PairedRows(windows)
  BY <1>2, RowsAre
<1> QED BY <1>1, <1>3 DEF RowsOf, ForecastOf

\* Rows by identity are rows by window.
RowsOfIds(windows, forecast, ids) == {ScoreRow(windows, forecast, id) : id \in ids}
LEMMA RowsById ==
  ASSUME NEW windows, NEW forecast, NEW ids, ids = IdsOfWindows(windows)
  PROVE  RowsOfIds(windows, forecast, ids) = RowsFor(windows, forecast)
<1>1. \A id \in ids : \E w \in Range(windows) : id = w.id
  BY DEF IdsOfWindows
<1>2. \A w \in Range(windows) : w.id \in ids
  BY DEF IdsOfWindows
<1> QED BY <1>1, <1>2 DEF RowsFor, RowsOfIds

\* Scores of formal data are in order.
LEMMA FineScores ==
  ASSUME DataIInv, UnchangedByUse, NEW c \in Contenders, NEW t \in {"stage1b", "e02"},
         accepted[t] # NoArtifact, scored'[c].status = "made", scored'[c].rows = RowsOf(t)
  PROVE  ScoreFine(scored[c])'
<1>1. RowsOf(t)' = RowsOf(t)
  BY DesignStays DEF UnchangedByUse
<1> QED BY <1>1 DEF ScoreFine, UnchangedByUse, NoArtifact

\* Scoring never refuses: forecasts and targets are of the same windows.
LEMMA ScoreKeeps ==
  ASSUME DataIInv, NEW c \in Contenders, ScoreFormalData(c)
  PROVE  DataIInv'
<1>1. /\ UnchangedByUse /\ crossFit' = crossFit /\ forecasts' = forecasts
      /\ accepted["e02"] # NoArtifact /\ forecasts[c].status = "made"
  BY DEF ScoreFormalData
<1>2. PICK b : b = Reloaded(accepted["e02"])
  OBVIOUS
<1>3. ScoredWindows(b) = FormalOf("e02") /\ FormalWindows(b) = FormalOf("e02")
  BY <1>1, <1>2, FormalIs DEF ScoredWindows, FormalWindows
<1>4. Range(IdsOf(b.records)) = IdsOfWindows(FormalOf("e02"))
  <2>1. AsDesigned("e02", accepted["e02"])
    BY <1>1, AcceptedIs DEF DataTasks
  <2>2. b.windows = Windowed("e02", WorkItems("e02")) /\ b.records = WorkItems("e02")
    BY <1>2, <2>1, ReloadedIs
  <2> QED BY <1>3, <2>2, FormalIds DEF IdsOfWindows
<1>5. forecasts[c].windows = ForecastOf("e02")
  BY <1>1 DEF DataIInv, UseOK, ForecastFine
<1>6. PICK windows, ids : windows = FormalOf("e02") /\ ids = IdsOfWindows(windows)
  OBVIOUS
<1>7. scored' = [scored EXCEPT ![c] =
                   [status |-> "made", rows |-> RowsOfIds(windows, forecasts[c].windows, ids)]]
  <2>1. ScoredWindows(b) = windows /\ Range(IdsOf(b.records)) = ids
    BY <1>3, <1>4, <1>6
  <2>2. [i \in DOMAIN windows |-> WindowId(windows[i])] = forecasts[c].windows
    BY <1>5, <1>6 DEF ForecastOf, IdsInOrder
  <2> QED BY <1>2, <1>6, <2>1, <2>2 DEF ScoreFormalData, RowsOfIds, IdsOfWindows
<1>8. RowsOfIds(windows, forecasts[c].windows, ids) = RowsOf("e02")
  <2>1. RowsOfIds(windows, forecasts[c].windows, ids) = RowsFor(windows, forecasts[c].windows)
    BY <1>6, RowsById
  <2>2. RowsFor(FormalOf("e02"), ForecastOf("e02")) = RowsOf("e02")
    BY <1>1, RowsOfForecast
  <2>3. RowsFor(windows, forecasts[c].windows) = RowsOf("e02")
    BY <1>5, <1>6, <2>2
  <2> QED BY <2>1, <2>3
<1>9. scored' = [scored EXCEPT ![c] = [status |-> "made", rows |-> RowsOf("e02")]]
  BY <1>7, <1>8
<1>10. DOMAIN scored = Contenders
  BY DEF DataIInv, UseOK
<1>11. \A d \in Contenders : ScoreFine(scored[d])'
  <2>1. scored'[c].status = "made" /\ scored'[c].rows = RowsOf("e02")
    BY <1>9, <1>10
  <2>2. ScoreFine(scored[c])'
    BY <1>1, <2>1, FineScores
  <2>3. ASSUME NEW d \in Contenders, d # c PROVE ScoreFine(scored[d])'
    <3>1. scored'[d] = scored[d]
      BY <1>9, <1>10, <2>3
    <3> QED BY <1>1, <3>1, ScoresStay
  <2> QED BY <2>2, <2>3
<1>12. UseOK'
  <2>1. \A d \in Contenders : ForecastFine(forecasts[d])'
    BY <1>1, ForecastsStay
  <2> QED BY <1>1, <1>9, <1>10, <1>11, <2>1 DEF DataIInv, UseOK, HeldOutWhole
<1> QED BY <1>1, <1>12, UseMoves

\* Both contenders are compared on the same windows.
LEMMA CompareKeeps ==
  ASSUME DataIInv, CompareQualified
  PROVE  DataIInv'
<1>1. UnchangedByUse /\ crossFit' = crossFit /\ forecasts' = forecasts /\ accepted["stage1b"] # NoArtifact
  BY DEF CompareQualified
<1>2. FormalWindows(Reloaded(accepted["stage1b"])) = FormalOf("stage1b")
  BY <1>1, FormalIs
<1>3. scored' = [c \in Contenders |->
        [status |-> "made",
         rows |-> RowsFor(FormalOf("stage1b"), ForecastOf("stage1b"))]]
  BY <1>2 DEF CompareQualified, ForecastOf, IdsInOrder, RowsFor
<1>4. scored' = [c \in Contenders |-> [status |-> "made", rows |-> RowsOf("stage1b")]]
  BY <1>1, <1>3, RowsOfForecast
<1>5. \A d \in Contenders : ScoreFine(scored[d])'
  <2> SUFFICES ASSUME NEW d \in Contenders PROVE ScoreFine(scored[d])'
    OBVIOUS
  <2>1. scored'[d].status = "made" /\ scored'[d].rows = RowsOf("stage1b")
    BY <1>4
  <2> QED BY <1>1, <2>1, FineScores
<1>6. UseOK'
  <2>1. \A d \in Contenders : ForecastFine(forecasts[d])'
    BY <1>1, ForecastsStay
  <2> QED BY <1>1, <1>4, <1>5, <2>1 DEF DataIInv, UseOK, HeldOutWhole
<1> QED BY <1>1, <1>6, UseMoves

-----------------------------------------------------------------------------
(* The theorem *)

\* Nothing moves.
LEMMA DataStutters ==
  ASSUME DataIInv, UNCHANGED dataVars
  PROVE  DataIInv'
<1>1. UnchangedByUse /\ UNCHANGED <<crossFit, forecasts, scored>>
  BY DEF dataVars, UnchangedByUse
<1>2. UseOK'
  BY <1>1, UseStays DEF DataIInv, UnchangedByUse
<1> QED BY <1>1, <1>2, UseMoves

\* Every step of the data keeps the invariant.
LEMMA DataSteps == DataIInv /\ [DataNext]_dataVars => DataIInv'
<1> SUFFICES ASSUME DataIInv, [DataNext]_dataVars PROVE DataIInv'
  OBVIOUS
<1>1. ASSUME NEW m \in DOMAIN makes, LeavePool(m) \/ KillMaker(m) PROVE DataIInv'
  BY <1>1, TryEnds DEF LeavePool, KillMaker
<1>2. ASSUME NEW m \in DOMAIN makes,
             \/ BeginData(m) \/ TakeItem(m) \/ \E i \in DOMAIN maker[m].items : FinishItem(m, i)
             \/ BreakPool(m) \/ TakeResult(m)
             \/ PrepareData(m) \/ PublishData(m) \/ AcceptData(m)
      PROVE  DataIInv'
  BY <1>2, BeginKeeps, TakeItemKeeps, FinishKeeps, BreakKeeps, ResultKeeps,
     PrepareKeeps, PublishDataKeeps, AcceptKeeps
<1>3. ASSUME FitCrossFolds \/ CompareQualified
                \/ \E c \in Contenders : ForecastFormal(c) \/ ScoreFormalData(c)
      PROVE  DataIInv'
  BY <1>3, FoldsKeep, CompareKeeps, ForecastKeeps, ScoreKeeps
<1>4. CASE UNCHANGED dataVars
  BY <1>4, DataStutters
<1> QED BY <1>1, <1>2, <1>3, <1>4 DEF DataNext

\* The invariant has the types,
LEMMA DataAreTyped == DataIInv => DataTypeOK
<1> SUFFICES ASSUME DataIInv PROVE DataTypeOK
  OBVIOUS
<1>1. makes \in Assignments /\ regimes \in WorldRegimes /\ DOMAIN accepted = DataTasks
  BY DEF DataIInv, SetupOK, StoreOK
<1>2. ASSUME NEW m \in DOMAIN makes
      PROVE  /\ maker[m].pc \in {"idle", "pool", "raising", "publish", "done", "failed", "killed"}
             /\ maker[m].workers \in Nat
             /\ \A i \in DOMAIN maker[m].items :
                  maker[m].items[i].state \in {"queued", "running", "ready", "error", "cancelled"}
  <2>1. maker[m] \in MakerShape
    BY MakersTasks
  <2>2. maker[m].items \in Seq([what : AllItems, state : ItemStates])
    BY <2>1 DEF MakerShape
  <2>3. \A i \in DOMAIN maker[m].items : maker[m].items[i] \in [what : AllItems, state : ItemStates]
    BY <2>2, ElementsAre
  <2>4. \A i \in DOMAIN maker[m].items : maker[m].items[i].state \in ItemStates
    BY <2>3
  <2> QED BY <2>1, <2>4 DEF MakerShape, ItemStates
<1>3. \A x \in {crossFit} \cup Range(forecasts) \cup Range(scored) : x.status \in {"pending", "made", "refused"}
  BY DEF DataIInv, UseOK, ForecastFine, ScoreFine, Range
<1> QED BY <1>1, <1>2, <1>3 DEF DataTypeOK

\* an artifact of the store is the one of its task,
LEMMA StoreIsGood ==
  ASSUME DataIInv, NEW a \in kept
  PROVE  a.task \in DataTasks /\ AsDesigned(a.task, a) /\ Unhurt(a.task)
<1>1. PICK t \in DataTasks : a \in Good(t)
  BY DEF DataIInv, StoreOK, GoodOnes
<1>2. AsDesigned(t, a) /\ Unhurt(t)
  BY <1>1 DEF Good
<1>3. a.task = t
  BY <1>2, ReloadedIs
<1> QED BY <1>2, <1>3

\* scores are pairs,
LEMMA ScoresPair == DataIInv => ScoresArePaired
<1> SUFFICES ASSUME DataIInv, NEW c \in Contenders, scored[c].status # "pending"
             PROVE  LET formal == Range(FormalWindows(Reloaded(accepted[IF "e02" \in Range(makes) THEN "e02"
                                                                        ELSE "stage1b"])))
                    IN  scored[c].rows = {PairedRow(formal, w.id) : w \in formal}
  BY DEF ScoresArePaired
<1>1. PICK t \in {"stage1b", "e02"} : accepted[t] # NoArtifact /\ scored[c].rows = RowsOf(t)
  BY DEF DataIInv, UseOK, ScoreFine
<1>2. t \in Range(makes)
  BY <1>1 DEF DataIInv, StoreOK, DataTasks, Range
<1>3. ~{"stage1b", "e02"} \subseteq Range(makes)
  BY AssignmentAssumption DEF DataIInv, SetupOK
<1>4. t = IF "e02" \in Range(makes) THEN "e02" ELSE "stage1b"
  BY <1>2, <1>3
<1>5. PICK windows : windows = FormalWindows(Reloaded(accepted[t]))
  OBVIOUS
<1>6. windows = FormalOf(t)
  BY <1>1, <1>5, FormalIs
<1>7. scored[c].rows = {PairedRow(Range(windows), w.id) : w \in Range(windows)}
  BY <1>1, <1>6 DEF RowsOf, PairedRows
<1> QED BY <1>4, <1>5, <1>7

\* and so the invariant has what the data promise.
LEMMA DataAsPromised == DataIInv => DataInv
<1> SUFFICES ASSUME DataIInv PROVE DataInv
  OBVIOUS
<1>1. DataTypeOK /\ ScoresArePaired
  BY DataAreTyped, ScoresPair
<1>2. OneContent
  BY StoreIsGood, DesignedOnce DEF OneContent
<1>3. NothingIsMissing
  BY StoreIsGood DEF NothingIsMissing, Unhurt
<1>4. HeldOutWhole
  BY DEF DataIInv, UseOK
<1>5. ASSUME NEW a \in kept
      PROVE  Reloaded(a) # RefusedData /\ DesignIsMet(Reloaded(a)) /\ FittedOnTraining(Reloaded(a))
  BY <1>5, StoreIsGood, DesignedIsGood DEF DataIInv, SetupOK
<1> QED BY <1>1, <1>2, <1>3, <1>4, <1>5 DEF DataInv

\* The data are as designed, whatever the pool and its processes do, however often
\* a task is tried or killed, for every world, design, pool and length: each
\* artifact has the whole design with its regimes in turn, each task one content,
\* the normaliser and the folds see none of what is judged, and every score pairs
\* a forecast with its own target (generate_world_split, prepare_stage2_bundle,
\* fit_dlinear_cross_fitted, _score_distributions).
THEOREM DataAreAsDesigned == DataSpec => []DataInv
<1>1. DataSpec => []DataIInv
  BY DataStarts, DataSteps, PTL DEF DataSpec
<1> QED BY <1>1, DataAsPromised, PTL
===============================================================================
