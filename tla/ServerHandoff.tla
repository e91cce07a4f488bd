---------------------------- MODULE ServerHandoff ----------------------------
(***************************************************************************)
(* Bringing E02 to its server (e02/server_handoff.py and                   *)
(* e02/server_preflight.py): Stage 2's files are restored from an archive, *)
(* the checkout is compared with the server bundle, and the preflight      *)
(* reads both receipts and the frozen suite.  Restores take no lock and    *)
(* may be killed and repeated; other processes of the server share the     *)
(* files.                                                                  *)
(***************************************************************************)
EXTENDS Naturals, Sequences

CONSTANTS
  Members,      \* the archive's Stage 2 files, in its order
  FrozenFiles,  \* those the frozen manifest lists, which the verification hashes
  Restorers,    \* processes that run the restore
  MaxTouches, MaxRestoreKills, MaxUpgrades   \* bounds

HandoffFiles == {Members[i] : i \in DOMAIN Members}

ASSUME HandoffAssumption ==
  /\ Members \in Seq(HandoffFiles) /\ Members # <<>> /\ FrozenFiles \subseteq HandoffFiles
  /\ MaxTouches \in Nat /\ MaxRestoreKills \in Nat /\ MaxUpgrades \in Nat

VARIABLES
  disk,       \* disk[f]: "absent", "archived" (as in the archive) or "other"
  restorer,   \* restorer[r]: [at, next] of a restore, next the member it looks at
  changed,    \* changed[r]: files somebody else changed since r's restore began
  touches, restoreKills,
  restoreReceipt,  \* the restore receipt exists
  checkout,        \* version of the server's checkout
  bundle,          \* version of the server bundle
  verified,        \* version the bundle verification receipt names, 0 while there is none
  serverEvidence   \* bundle the preflight evidence names, 0 while there is none

handoffVars == <<disk, restorer, changed, touches, restoreKills, restoreReceipt, checkout, bundle,
                 verified, serverEvidence>>

RestoreSteps == {"idle", "comparing", "looking", "replacing", "hashing", "verifying", "receipt",
                 "restored", "stopped"}

HandoffTypeOK ==
  /\ disk \in [HandoffFiles -> {"absent", "archived", "other"}]
  /\ restorer \in [Restorers -> [at : RestoreSteps, next : DOMAIN Members]]
  /\ changed \in [Restorers -> SUBSET HandoffFiles]
  /\ touches \in 0..MaxTouches /\ restoreKills \in 0..MaxRestoreKills /\ restoreReceipt \in BOOLEAN
  /\ checkout \in 1..(MaxUpgrades + 1) /\ bundle \in 1..(MaxUpgrades + 1)
  /\ verified \in 0..(MaxUpgrades + 1)
  /\ serverEvidence \in 0..(MaxUpgrades + 1)

HandoffInit ==
  /\ disk = [f \in HandoffFiles |-> "absent"]
  /\ restorer = [r \in Restorers |-> [at |-> "idle", next |-> 1]]
  /\ changed = [r \in Restorers |-> {}]
  /\ touches = 0 /\ restoreKills = 0 /\ restoreReceipt = FALSE
  /\ checkout = 1 /\ bundle = 1 /\ verified = 0 /\ serverEvidence = 0

-----------------------------------------------------------------------------
(* restore_stage2_complete_archive *)

Rests == UNCHANGED <<changed, touches, restoreKills, restoreReceipt, checkout, bundle, verified, serverEvidence>>
RestoreAt(r, step) == restorer[r].at = step
Current(r) == Members[restorer[r].next]
RestoreGoes(r, step, next) == restorer' = [restorer EXCEPT ![r] = [at |-> step, next |-> next]]

\* The next member in a loop over the files, or what follows the loop.
Advance(r, loop, after) ==
  IF restorer[r].next < Len(Members) THEN RestoreGoes(r, loop, restorer[r].next + 1)
                                     ELSE RestoreGoes(r, after, 1)

BeginHandoff(r) ==
  /\ RestoreAt(r, "idle") /\ RestoreGoes(r, "comparing", 1)
  /\ changed' = [changed EXCEPT ![r] = {}]
  /\ UNCHANGED <<disk, touches, restoreKills, restoreReceipt, checkout, bundle, verified, serverEvidence>>

\* Mutant: what is on disk already is not compared.
TakesAny(f) == TRUE

Tolerates(f) == disk[f] \in {"absent", "archived"}

\* First loop: a file that is there and differs stops the restore before it writes.
CompareMember(r) ==
  /\ RestoreAt(r, "comparing")
  /\ IF Tolerates(Current(r)) THEN Advance(r, "comparing", "looking") ELSE RestoreGoes(r, "stopped", 1)
  /\ UNCHANGED disk /\ Rests

\* Second loop: a file that is there is passed over, whoever put it there ...
LookForMember(r) ==
  /\ RestoreAt(r, "looking")
  /\ IF disk[Current(r)] # "absent" THEN Advance(r, "looking", "verifying")
                                    ELSE RestoreGoes(r, "replacing", restorer[r].next)
  /\ UNCHANGED disk /\ Rests

\* ... another is written under a temporary name and renamed ...
ReplaceMember(r) ==
  /\ RestoreAt(r, "replacing")
  /\ disk' = [disk EXCEPT ![Current(r)] = "archived"]
  /\ RestoreGoes(r, "hashing", restorer[r].next)
  /\ Rests

\* ... and hashed where it stands.
HashMember(r) ==
  /\ RestoreAt(r, "hashing")
  /\ IF disk[Current(r)] = "archived" THEN Advance(r, "looking", "verifying")
                                      ELSE RestoreGoes(r, "stopped", 1)
  /\ UNCHANGED disk /\ Rests

\* verify_frozen_stage2_suite.
FrozenVerifies == \A f \in FrozenFiles : disk[f] = "archived"

VerifyRestored(r) ==
  /\ RestoreAt(r, "verifying")
  /\ RestoreGoes(r, IF FrozenVerifies THEN "receipt" ELSE "stopped", 1)
  /\ UNCHANGED disk /\ Rests

\* Every restore of one archive writes the same receipt, so an existing one is equal.
WriteRestored(r) ==
  /\ RestoreAt(r, "receipt") /\ RestoreGoes(r, "restored", 1)
  /\ restoreReceipt' = TRUE
  /\ UNCHANGED <<disk, changed, touches, restoreKills, checkout, bundle, verified, serverEvidence>>

\* A restore is killed, or repeated after it ended.
KillRestore(r) ==
  /\ ~RestoreAt(r, "idle") /\ restoreKills < MaxRestoreKills
  /\ restoreKills' = restoreKills + 1 /\ RestoreGoes(r, "idle", 1)
  /\ UNCHANGED <<disk, changed, touches, restoreReceipt, checkout, bundle, verified, serverEvidence>>

-----------------------------------------------------------------------------
(* The checkout, the preflight and the other processes *)

\* An existing receipt has to be the one this verification would write.
MayVerifyBundle == checkout = bundle /\ verified \in {0, bundle}

\* verify_server_bundle_checkout.
VerifyCheckout ==
  /\ MayVerifyBundle /\ verified' = bundle
  /\ UNCHANGED <<disk, restorer, changed, touches, restoreKills, restoreReceipt, checkout, bundle, serverEvidence>>

\* run_e02_server_preflight reads the receipts; of what they are about it looks
\* at the frozen suite only.
RunPreflight ==
  /\ restoreReceipt /\ verified # 0 /\ FrozenVerifies
  /\ serverEvidence' = verified
  /\ UNCHANGED <<disk, restorer, changed, touches, restoreKills, restoreReceipt, checkout, bundle, verified>>

\* Another process writes or removes one of the files.
Touch(f) ==
  /\ touches < MaxTouches /\ touches' = touches + 1
  /\ disk' \in {[disk EXCEPT ![f] = now] : now \in {"absent", "other"} \ {disk[f]}}
  /\ changed' = [r \in Restorers |-> changed[r] \cup {f}]
  /\ UNCHANGED <<restorer, restoreKills, restoreReceipt, checkout, bundle, verified, serverEvidence>>

\* A new bundle arrives, and the checkout follows it.
Upgrade ==
  /\ \/ bundle <= MaxUpgrades /\ bundle = checkout /\ bundle' = bundle + 1 /\ UNCHANGED checkout
     \/ checkout' = bundle /\ checkout # bundle /\ UNCHANGED bundle
  /\ UNCHANGED <<disk, restorer, changed, touches, restoreKills, restoreReceipt, verified, serverEvidence>>

HandoffNext ==
  \/ \E r \in Restorers :
       \/ BeginHandoff(r) \/ CompareMember(r) \/ LookForMember(r) \/ ReplaceMember(r) \/ HashMember(r)
       \/ VerifyRestored(r) \/ WriteRestored(r) \/ KillRestore(r)
  \/ VerifyCheckout \/ RunPreflight \/ Upgrade \/ (\E f \in HandoffFiles : Touch(f))

HandoffSpec == HandoffInit /\ [][HandoffNext]_handoffVars
-----------------------------------------------------------------------------
\* When a restore is about to say RESTORED, every file nobody else changed since
\* it began is the archive's, the files another restore wrote included.
RestoredMeansArchived ==
  \A r \in Restorers : RestoreAt(r, "receipt") => \A f \in HandoffFiles \ changed[r] : disk[f] = "archived"

\* A restore replaces a foreign file only if that appeared while it ran.
NothingOverwritten ==
  \A r \in Restorers :
    RestoreAt(r, "replacing") /\ disk[Current(r)] = "other" => Current(r) \in changed[r]

\* Kills, repetitions and restores at the same time never make one stop: it
\* takes a foreign hand.
StopsForCause == touches = 0 => \A r \in Restorers : ~RestoreAt(r, "stopped")

\* All evidence of a server names one bundle, the one the receipt was written of
\* first: a later bundle is refused until somebody removes the receipt.
OneBundle == serverEvidence # 0 => serverEvidence = verified

HandoffInv ==
  /\ HandoffTypeOK /\ RestoredMeansArchived /\ NothingOverwritten /\ StopsForCause /\ OneBundle
=============================================================================
