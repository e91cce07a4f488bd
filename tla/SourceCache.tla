----------------------------- MODULE SourceCache -----------------------------
(***************************************************************************)
(* Pinned third-party sources (stage1b/sources.py, source_capsules.py;     *)
(* stage2/sources.py wraps them).  An online builder fills a cache with    *)
(* one verified checkout per source and packs them into a capsule: an      *)
(* archive and a sidecar receipt.  An offline importer rebuilds the        *)
(* checkouts from a capsule, renames the missing ones into the cache and   *)
(* leaves an import receipt, which is what later gates look at.            *)
(*                                                                         *)
(* One cache serves both here: a builder may share it with importers, or a *)
(* capsule has been brought from a machine with a cache of its own.  A     *)
(* build is identified with the archive it writes.                         *)
(***************************************************************************)
EXTENDS Naturals, Sequences, FiniteSets

CONSTANTS
  Pins,         \* the registered sources, in order
  Builders, Importers,
  Brought,      \* the build on the other machine
  NoCapsule,
  MaxDrifts,    \* bound on checkouts edited by hand
  MaxDeaths     \* bound on processes killed

ASSUME PinsAssumption ==
  /\ Pins \in Seq({Pins[i] : i \in DOMAIN Pins})
  /\ \A i, j \in DOMAIN Pins : Pins[i] = Pins[j] => i = j
ASSUME BuildersAssumption ==
  /\ Builders \cap Importers = {}
  /\ NoCapsule \notin Builders \cup {Brought} /\ Brought \notin Builders
ASSUME TurnsAssumption == MaxDrifts \in Nat /\ MaxDeaths \in Nat

VARIABLES
  cache,      \* cache[s]: "absent", "whole" (commit, tree and assets verify), "drifted"
  archive,    \* the build whose bytes stand at the capsule's path
  sidecar,    \* the receipt beside it: [sha: of which archive, manifest: whose]
  imported,   \* the receipt of the last import into the cache
  proc,       \* proc[p]: [pc, next (index of the source in hand), receipt]
  inTurn,     \* operators run one command at a time; chosen once, in Init
  drifts, deaths

cacheVars == <<cache, archive, sidecar, imported, proc, inTurn, drifts, deaths>>

PinSet == {Pins[i] : i \in DOMAIN Pins}
Processes == Builders \cup Importers
Capsules == Builders \cup {Brought, NoCapsule}
Receipts == [sha : Capsules, manifest : Capsules]
NoReceipt == [sha |-> NoCapsule, manifest |-> NoCapsule]
Ended == {"idle", "done", "failed", "dead"}
BuildSteps == {"check", "fetched", "pack", "describe"}
ImportSteps == {"hash", "unpack", "compare", "look", "rename", "record", "verify"}

CacheTypeOK ==
  /\ cache \in [PinSet -> {"absent", "whole", "drifted"}]
  /\ archive \in Capsules /\ sidecar \in Receipts /\ imported \in Receipts
  /\ proc \in [Processes -> [pc : Ended \cup BuildSteps \cup ImportSteps,
                             next : 1..(Len(Pins) + 1), receipt : Receipts]]
  /\ inTurn \in BOOLEAN /\ drifts \in 0..MaxDrifts /\ deaths \in 0..MaxDeaths

CacheInit ==
  /\ cache = [s \in PinSet |-> "absent"]
  /\ archive \in {Brought, NoCapsule} /\ sidecar = [sha |-> archive, manifest |-> archive]
  /\ imported = NoReceipt
  /\ proc = [p \in Processes |-> [pc |-> "idle", next |-> 1, receipt |-> NoReceipt]]
  /\ inTurn \in BOOLEAN /\ drifts = 0 /\ deaths = 0

Stands(p, pc) == proc[p].pc = pc
Moves(p, pc) == proc' = [proc EXCEPT ![p] = [proc[p] EXCEPT !.pc = pc]]
Fails(p) == Moves(p, "failed") /\ UNCHANGED <<cache, archive, sidecar, imported>>
Fixed == UNCHANGED <<inTurn, drifts, deaths>>
Alive == {p \in Processes : proc[p].pc \notin Ended}

\* The source in hand; the process goes on to the next one, or past the last.
InHand(p) == Pins[proc[p].next]
More(p) == proc[p].next <= Len(Pins)

Advance(p, pc) == proc' = [proc EXCEPT ![p] = [proc[p] EXCEPT !.pc = pc, !.next = proc[p].next + 1]]

StartProcess(p) ==
  /\ Stands(p, "idle") /\ (inTurn => Alive = {})
  /\ Moves(p, IF p \in Builders THEN "check" ELSE "hash")
  /\ UNCHANGED <<cache, archive, sidecar, imported>> /\ Fixed

-----------------------------------------------------------------------------
(* build_source_capsule: materialize_source of each source, then the archive *)

\* A checkout that exists is verified; a missing one is fetched aside.
MaterializeSource(b) ==
  /\ Stands(b, "check") /\ More(b)
  /\ \/ cache[InHand(b)] = "whole" /\ Advance(b, "check")
     \/ cache[InHand(b)] = "absent" /\ Moves(b, "fetched")
     \/ cache[InHand(b)] # "whole" /\ Moves(b, "failed")    \* drifted, or no network
  /\ UNCHANGED <<cache, archive, sidecar, imported>> /\ Fixed

\* os.replace onto a checkout somebody else has put there meanwhile raises.
InstallCheckout(b) ==
  /\ Stands(b, "fetched") /\ Fixed
  /\ IF cache[InHand(b)] = "absent"
       THEN /\ cache' = [cache EXCEPT ![InHand(b)] = "whole"] /\ Advance(b, "check")
            /\ UNCHANGED <<archive, sidecar, imported>>
       ELSE Fails(b)

WriteArchive(b) ==
  /\ Stands(b, "check") /\ ~More(b) /\ Fixed
  /\ \/ archive' = b /\ Moves(b, "describe") /\ UNCHANGED <<cache, sidecar, imported>>
     \/ Fails(b)

\* The receipt hashes the archive that stands there by now and adds the
\* manifest and the sources of this build.
WriteSidecar(b) ==
  /\ Stands(b, "describe") /\ Fixed
  /\ \/ sidecar' = [sha |-> archive, manifest |-> b] /\ Moves(b, "done")
        /\ UNCHANGED <<cache, archive, imported>>
     \/ Fails(b)

-----------------------------------------------------------------------------
(* import_source_capsule *)

\* The archive has the hash the receipt beside it says.
HashCapsule(i) ==
  /\ Stands(i, "hash") /\ Fixed
  /\ IF sidecar # NoReceipt /\ archive = sidecar.sha
       THEN /\ proc' = [proc EXCEPT ![i] = [proc[i] EXCEPT !.pc = "unpack", !.receipt = sidecar]]
            /\ UNCHANGED <<cache, archive, sidecar, imported>>
       ELSE Fails(i)

\* Mutant: the bundles are taken as they are.
UnpackAnything(i) ==
  /\ Stands(i, "unpack") /\ Moves(i, "compare")
  /\ UNCHANGED <<cache, archive, sidecar, imported>> /\ Fixed

\* The archive is opened again; its manifest and bundles must be the receipt's.
Unpack(i) ==
  /\ Stands(i, "unpack") /\ Fixed
  /\ IF archive = proc[i].receipt.manifest
       THEN Moves(i, "compare") /\ UNCHANGED <<cache, archive, sidecar, imported>>
       ELSE Fails(i)

\* _publish_checkouts, first loop: what the cache already holds must verify.
CompareExisting(i) ==
  /\ Stands(i, "compare") /\ Fixed
  /\ IF \E s \in PinSet : cache[s] = "drifted"
       THEN Fails(i)
       ELSE Moves(i, "look") /\ UNCHANGED <<cache, archive, sidecar, imported>>

\* Mutant: a checkout that is already there is an error.
LookInsists(i) ==
  /\ Stands(i, "look") /\ Fixed
  /\ IF ~More(i)
       THEN Moves(i, "record") /\ UNCHANGED <<cache, archive, sidecar, imported>>
       ELSE IF cache[InHand(i)] # "absent"
              THEN Fails(i)
              ELSE Moves(i, "rename") /\ UNCHANGED <<cache, archive, sidecar, imported>>

\* Second loop: a checkout that exists is skipped ...
Look(i) ==
  /\ Stands(i, "look") /\ Fixed
  /\ IF ~More(i) THEN Moves(i, "record")
     ELSE IF cache[InHand(i)] # "absent" THEN Advance(i, "look")
     ELSE Moves(i, "rename")
  /\ UNCHANGED <<cache, archive, sidecar, imported>>

\* ... a missing one is renamed into place.
RenameStaged(i) ==
  /\ Stands(i, "rename") /\ Fixed
  /\ IF cache[InHand(i)] = "absent"
       THEN /\ cache' = [cache EXCEPT ![InHand(i)] = "whole"] /\ Advance(i, "look")
            /\ UNCHANGED <<archive, sidecar, imported>>
       ELSE Fails(i)

RecordImport(i) ==
  /\ Stands(i, "record") /\ imported' = proc[i].receipt /\ Moves(i, "verify")
  /\ UNCHANGED <<cache, archive, sidecar>> /\ Fixed

VerifyImport(i) ==
  /\ Stands(i, "verify") /\ Fixed
  /\ IF \A s \in PinSet : cache[s] = "whole"
       THEN Moves(i, "done") /\ UNCHANGED <<cache, archive, sidecar, imported>>
       ELSE Fails(i)

Import(i) == \/ HashCapsule(i) \/ Unpack(i) \/ CompareExisting(i) \/ Look(i)
             \/ RenameStaged(i) \/ RecordImport(i) \/ VerifyImport(i)

Build(b) == MaterializeSource(b) \/ InstallCheckout(b) \/ WriteArchive(b) \/ WriteSidecar(b)

Die(p) ==
  /\ p \in Alive /\ deaths < MaxDeaths /\ deaths' = deaths + 1 /\ Moves(p, "dead")
  /\ UNCHANGED <<cache, archive, sidecar, imported, inTurn, drifts>>

Drift(s) ==
  /\ cache[s] = "whole" /\ drifts < MaxDrifts /\ drifts' = drifts + 1
  /\ cache' = [cache EXCEPT ![s] = "drifted"]
  /\ UNCHANGED <<archive, sidecar, imported, proc, inTurn, deaths>>

CacheNext ==
  \/ \E p \in Processes : StartProcess(p) \/ Die(p)
  \/ \E b \in Builders : Build(b)
  \/ \E i \in Importers : Import(i)
  \/ \E s \in PinSet : Drift(s)

CacheSpec == CacheInit /\ [][CacheNext]_cacheVars

-----------------------------------------------------------------------------
(* What the cache promises *)

\* An import receipt stands only in a cache that holds every source, whoever
\* was killed or raced: verify_source_capsule_import looks at the receipt alone.
ReceiptMeansSources ==
  imported # NoReceipt => \A s \in PinSet : cache[s] # "absent"

\* Builders that race can leave a receipt with the hash of one archive and the
\* manifest of another; no such receipt, and no archive exchanged while it is
\* read, is ever imported.
ImportsAreConsistent == imported.sha = imported.manifest

\* Both together: an import that is recorded is of one capsule, and whole.
\* (import_source_capsule)
CacheInv == CacheTypeOK /\ ReceiptMeansSources /\ ImportsAreConsistent

\* Where commands are run one at a time and nobody edits a checkout, an import
\* of a capsule whose two files agree never fails, whatever an earlier import
\* or build that was killed has left behind.
CapsuleAgrees == archive # NoCapsule /\ sidecar = [sha |-> archive, manifest |-> archive]

InterruptedImportRepeats ==
  [][(inTurn /\ drifts = 0 /\ CapsuleAgrees) =>
       \A i \in Importers : Stands(i, "failed")' => Stands(i, "failed")]_cacheVars
=============================================================================
