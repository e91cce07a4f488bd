----------------------------- MODULE SuiteFreeze -----------------------------
(***************************************************************************)
(* Freezing a qualified suite (stage1b/freeze.py).  A freeze checks its    *)
(* evidence, then exchanges the frozen directory in three file operations: *)
(* set the old directory aside, rename the staged one into place, replace  *)
(* active.json.  An exception in between undoes the exchange; a kill does  *)
(* not.  A call is identified with the manifest it would freeze.           *)
(*                                                                         *)
(* `alone` says whether operators take turns.  The code has no lock, so    *)
(* both worlds are explored; it is chosen once, in FreezeInit.             *)
(***************************************************************************)
EXTENDS Naturals, FiniteSets

CONSTANTS Freezes,      \* calls of freeze_suite, each with a receipt of its own
          Qualified,    \* those whose receipt passes every check of _validate_receipt
          NoSuite,
          MaxKills      \* bound on processes killed in the middle of a call

ASSUME FreezesAssumption == Qualified \subseteq Freezes /\ NoSuite \notin Freezes
ASSUME KillsAssumption == MaxKills \in Nat

VARIABLES selected,   \* the manifest in frozen/v2, NoSuite when the directory is missing
          pointer,    \* the manifest active.json names
          pc,         \* where each call stands
          named,      \* the prior manifest its user authorization names
          aside,      \* the directory the call set aside, under a hidden name
          alone, kills

freezeVars == <<selected, pointer, pc, named, aside, alone, kills>>

Held == Freezes \cup {NoSuite}
FreezeSteps == {"idle", "staged", "aside", "installed", "frozen", "undo", "restore",
                "done", "refused", "failed", "killed"}
Exchanging == {"aside", "installed", "frozen", "undo", "restore"}
Busy == {c \in Freezes : pc[c] \in Exchanging \cup {"staged"}}
Turn(c) == ~alone \/ Busy \subseteq {c}

FreezeTypeOK ==
  /\ selected \in Held /\ pointer \in Held
  /\ pc \in [Freezes -> FreezeSteps]
  /\ named \in [Freezes -> Held] /\ aside \in [Freezes -> Held]
  /\ alone \in BOOLEAN /\ kills \in 0..MaxKills

FreezeInit ==
  /\ selected = NoSuite /\ pointer = NoSuite
  /\ pc = [c \in Freezes |-> "idle"]
  /\ named = [c \in Freezes |-> NoSuite] /\ aside = [c \in Freezes |-> NoSuite]
  /\ alone \in BOOLEAN /\ kills = 0

\* The suite verifies: the pointer exists and names the manifest in the directory.
SuiteVerifies == pointer # NoSuite /\ selected = pointer

\* Mutant: the authorization is not compared with the pointer.
AdmissibleUnnamed(p) == IF pointer # NoSuite THEN SuiteVerifies ELSE p = NoSuite /\ selected = NoSuite

\* What the call may replace: a verified prior its authorization names, or
\* nothing at all when there is neither pointer, directory nor authorization.
Admissible(p) == IF pointer # NoSuite THEN SuiteVerifies /\ p = pointer
                                   ELSE p = NoSuite /\ selected = NoSuite

FreezeGoes(c, step) == pc' = [pc EXCEPT ![c] = step]

\* freeze_suite up to the exchange: evidence, prior pointer, staged directory.
Stage(c, p) ==
  /\ pc[c] = "idle" /\ Turn(c)
  /\ named' = [named EXCEPT ![c] = p]
  /\ \/ c \in Qualified /\ Admissible(p) /\ FreezeGoes(c, "staged")
     \/ ~(c \in Qualified /\ Admissible(p)) /\ FreezeGoes(c, "refused")
     \/ FreezeGoes(c, "failed")                       \* staging could not be written
  /\ UNCHANGED <<selected, pointer, aside, alone, kills>>

\* Mutant: the old directory is removed, not set aside.
Discard(c) ==
  /\ pc[c] = "staged" /\ selected' = NoSuite /\ FreezeGoes(c, "aside")
  /\ UNCHANGED <<pointer, named, aside, alone, kills>>

\* An error here is raised before the protected region: nothing is undone.
SetAside(c) ==
  /\ pc[c] = "staged"
  /\ \/ /\ selected' = NoSuite /\ aside' = [aside EXCEPT ![c] = selected]
        /\ FreezeGoes(c, "aside")
     \/ /\ selected # NoSuite /\ FreezeGoes(c, "failed") /\ UNCHANGED <<selected, aside>>
  /\ UNCHANGED <<pointer, named, alone, kills>>

\* Renaming onto a directory someone else put there fails as any other error.
Install(c) ==
  /\ pc[c] = "aside"
  /\ \/ selected = NoSuite /\ selected' = c /\ FreezeGoes(c, "installed")
     \/ FreezeGoes(c, "undo") /\ UNCHANGED selected
  /\ UNCHANGED <<pointer, named, aside, alone, kills>>

Point(c) ==
  /\ pc[c] = "installed"
  /\ \/ pointer' = c /\ FreezeGoes(c, "frozen")
     \/ FreezeGoes(c, "undo") /\ UNCHANGED pointer
  /\ UNCHANGED <<selected, named, aside, alone, kills>>

\* The exception handler removes whatever directory stands there ...
RemoveSelected(c) ==
  /\ pc[c] = "undo" /\ selected' = NoSuite /\ FreezeGoes(c, "restore")
  /\ UNCHANGED <<pointer, named, aside, alone, kills>>

\* ... and puts back what the call set aside, unless another has filled the place.
Restore(c) ==
  /\ pc[c] = "restore" /\ FreezeGoes(c, "failed")
  /\ IF aside[c] # NoSuite /\ selected = NoSuite
       THEN selected' = aside[c] /\ aside' = [aside EXCEPT ![c] = NoSuite]
       ELSE UNCHANGED <<selected, aside>>
  /\ UNCHANGED <<pointer, named, alone, kills>>

DropBackup(c) ==
  /\ pc[c] = "frozen" /\ aside' = [aside EXCEPT ![c] = NoSuite] /\ FreezeGoes(c, "done")
  /\ UNCHANGED <<selected, pointer, named, alone, kills>>

\* The process dies: no handler runs, what it set aside stays under its hidden name.
KillFreeze(c) ==
  /\ c \in Busy /\ kills < MaxKills /\ kills' = kills + 1 /\ FreezeGoes(c, "killed")
  /\ UNCHANGED <<selected, pointer, named, aside, alone>>

Exchange(c) == \/ SetAside(c) \/ Install(c) \/ Point(c)
               \/ RemoveSelected(c) \/ Restore(c) \/ DropBackup(c)

FreezeNext == \E c \in Freezes : \/ \E p \in Held : Stage(c, p)
                         \/ Exchange(c)
                         \/ KillFreeze(c)

FreezeSpec == FreezeInit /\ [][FreezeNext]_freezeVars
-----------------------------------------------------------------------------
Quiet == \A c \in Freezes : pc[c] \notin Exchanging

\* Where operators take turns and nobody is killed, every call that has ended -
\* frozen, refused or failed at any point of the exchange - leaves a suite that
\* verifies or none at all (the exception handler of _publish_freeze_directory).
ExchangeIsUndone == alone /\ kills = 0 /\ Quiet => selected = pointer

\* Where operators take turns, whatever is killed, the manifest active.json
\* names is never lost: it is in place or in a directory a call set aside.
NamedSuiteSurvives ==
  alone /\ pointer # NoSuite =>
    selected = pointer \/ \E c \in Freezes : aside[c] = pointer

\* Undone or interrupted, an exchange of suites loses nothing that active.json
\* names.  (_publish_freeze_directory)
FreezeSafe == FreezeTypeOK /\ ExchangeIsUndone /\ NamedSuiteSurvives

\* Where operators take turns, active.json moves only to a qualified suite and
\* only from the suite the user's authorization names (freeze_suite).
ReplacedByAuthorization ==
  [][alone /\ pointer' # pointer =>
       \E c \in Qualified : pointer' = c /\ named[c] = pointer]_freezeVars
=============================================================================
