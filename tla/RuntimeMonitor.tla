---------------------------- MODULE RuntimeMonitor ----------------------------
(***************************************************************************)
(* The runtime dashboard: a read-only server that projects the execution   *)
(* ledger (monitoring/repository.py, monitoring/api.py) and a page that    *)
(* joins five requests and a stream of snapshots into one view             *)
(* (frontend/stage1b-monitor/src/api.ts, useRuntimeSnapshot.ts).           *)
(*                                                                         *)
(* A ledger is the states of the latest attempts, and `history` all those  *)
(* it has been through: a snapshot is the index of the one it was read     *)
(* from.  The model follows the run summary; the tables beside it, and the *)
(* samples, alerts and estimates the server reads, are left out.          *)
(***************************************************************************)
EXTENDS Integers, Sequences

CONSTANTS
  Plan,        \* the run plan's tasks, each waiting for the one before it
  MaxMoves, MaxDrops, MaxFailures, MaxWaiting   \* bounds

Tasks == {Plan[i] : i \in DOMAIN Plan}
NotShown == 0

\* One promise of the page's first load, one of every opened socket, one of the
\* load after every drop.
Promises == 1..(2 * MaxDrops + 2)
Loads == 0..MaxDrops

VARIABLES
  history,   \* the ledger's past and present
  mounted,   \* the page's effect is active
  socket, timer,  \* the stream's socket; a reconnect is scheduled
  inbox,     \* snapshots on their way through the socket
  promise,   \* promise[p]: state of a runtime-identity request and the snapshots that wait for it
  cached,    \* runtimePromise; 0 for null
  load,      \* load[l]: the summary loadSnapshot has and the promise it joined
  shown, error,   \* what the page shows
  drops, failures

monitorVars == <<history, mounted, socket, timer, inbox, promise, cached, load, shown, error,
                 drops, failures>>

Now == Len(history)
Rows == history[Now]
Page == <<mounted, socket, timer, inbox, promise, cached, load, shown, error, drops, failures>>

Unused == [state |-> "unused", waiting |-> <<>>]
Pending == [state |-> "pending", waiting |-> <<>>]
Ended == [state |-> "ended", seen |-> 0, promise |-> 0]
NoLoad == [state |-> "unused", seen |-> 0, promise |-> 0]

MonitorInit ==
  /\ history = <<[t \in Tasks |-> "PENDING"]>>
  /\ mounted = TRUE /\ socket = "connecting" /\ timer = FALSE /\ inbox = <<>>
  /\ promise = [p \in Promises |-> IF p = 1 THEN Pending ELSE Unused] /\ cached = 1
  /\ load = [l \in Loads |-> IF l = 0 THEN [NoLoad EXCEPT !.state = "pending", !.promise = 1] ELSE NoLoad]
  /\ shown = NotShown /\ error = FALSE /\ drops = 0 /\ failures = 0

-----------------------------------------------------------------------------
(* The ledger the server reads; AttemptLedger has its detail *)

\* An attempt ends.  A task whose attempt is READY or RUNNING counts like one
\* without an attempt, and tasks end in the order of the plan.
Finish(i) ==
  /\ Now <= MaxMoves
  /\ Rows[Plan[i]] = "PENDING" /\ (i > 1 => Rows[Plan[i - 1]] = "COMPLETED")
  /\ \E s \in {"COMPLETED", "FAILED"} : history' = Append(history, [Rows EXCEPT ![Plan[i]] = s])
  /\ UNCHANGED Page

\* The next attempt replaces the failed one in the view.
Retry(t) ==
  /\ Rows[t] = "FAILED" /\ Now <= MaxMoves
  /\ history' = Append(history, [Rows EXCEPT ![t] = "PENDING"])
  /\ UNCHANGED Page

-----------------------------------------------------------------------------
(* The server's projection *)

\* Mutant: the total counts the tasks that have an attempt.
StatusOfAttempts(rows) ==
  LET seen == {t \in Tasks : rows[t] # "PENDING"}
  IN IF \E t \in seen : rows[t] = "FAILED" THEN "FAILED"
     ELSE IF seen # {} /\ \A t \in seen : rows[t] = "COMPLETED" THEN "COMPLETED"
     ELSE "ACTIVE"

\* _run_view: one failed latest attempt fails the run, also while it may be
\* retried; a planned task without an attempt counts as unfinished.
RunStatus(rows) ==
  IF \E t \in Tasks : rows[t] = "FAILED" THEN "FAILED"
  ELSE IF \A t \in Tasks : rows[t] = "COMPLETED" THEN "COMPLETED"
  ELSE "ACTIVE"

-----------------------------------------------------------------------------
(* The page *)

Show(view) ==
  IF mounted THEN shown' = view /\ error' = FALSE ELSE UNCHANGED <<shown, error>>
ShowError == (IF mounted THEN error' = TRUE ELSE UNCHANGED error) /\ UNCHANGED shown

Fresh == CHOOSE p \in Promises : promise[p] = Unused /\ \A q \in Promises : q < p => promise[q] # Unused

\* onopen: the identity is asked for again, for this and later snapshots.
Open ==
  /\ socket = "connecting" /\ mounted
  /\ socket' = "open"
  /\ promise' = [promise EXCEPT ![Fresh] = Pending] /\ cached' = Fresh
  /\ UNCHANGED <<history, mounted, timer, inbox, load, shown, error, drops, failures>>

\* The server takes a snapshot every two seconds and sends it.
ServerSend ==
  /\ socket = "open" /\ inbox = <<>>
  /\ inbox' = <<Now>>
  /\ UNCHANGED <<history, mounted, socket, timer, promise, cached, load, shown, error, drops, failures>>

\* onmessage: the snapshot is shown once the cached identity is there.  A
\* rejected one stays cached and turns every snapshot into an error.
Receive ==
  /\ inbox # <<>>
  /\ LET v == Head(inbox)
         identity == promise[cached]
     IN \/ /\ identity.state = "ok" /\ Show(v) /\ UNCHANGED promise
        \/ /\ identity.state = "rejected" /\ ShowError /\ UNCHANGED promise
        \/ /\ identity.state = "pending" /\ Len(identity.waiting) < MaxWaiting
           /\ promise' = [promise EXCEPT ![cached].waiting = Append(identity.waiting, v)]
           /\ UNCHANGED <<shown, error>>
  /\ inbox' = Tail(inbox)
  /\ UNCHANGED <<history, mounted, socket, timer, cached, load, drops, failures>>

\* Mutant: a closed socket is neither replaced nor made up for by a load.
KeepOld ==
  /\ mounted /\ socket \in {"connecting", "open"} /\ drops < MaxDrops
  /\ drops' = drops + 1
  /\ socket' = "closed" /\ inbox' = <<>>
  /\ UNCHANGED <<history, mounted, timer, promise, cached, load, shown, error, failures>>

\* onclose, of a socket that failed to open as well: forget the identity, load
\* a snapshot by requests and schedule a reconnect.
Drop ==
  /\ mounted /\ socket \in {"connecting", "open"} /\ drops < MaxDrops
  /\ drops' = drops + 1
  /\ socket' = "closed" /\ inbox' = <<>> /\ timer' = TRUE
  /\ promise' = [promise EXCEPT ![Fresh] = Pending] /\ cached' = Fresh
  /\ load' = [load EXCEPT ![drops + 1] = [NoLoad EXCEPT !.state = "pending", !.promise = Fresh]]
  /\ UNCHANGED <<history, mounted, shown, error, failures>>

Reconnect ==
  /\ timer
  /\ timer' = FALSE /\ socket' = IF mounted THEN "connecting" ELSE socket
  /\ UNCHANGED <<history, mounted, inbox, promise, cached, load, shown, error, drops, failures>>

\* The answer to an identity request, and what waited for it, in order.
IdentityAnswered(p) ==
  /\ promise[p].state = "pending"
  /\ promise' = [promise EXCEPT ![p] = [state |-> "ok", waiting |-> <<>>]]
  /\ LET waiting == promise[p].waiting
     IN IF waiting = <<>> THEN UNCHANGED <<shown, error>>
        ELSE Show(waiting[Len(waiting)])
  /\ UNCHANGED <<history, mounted, socket, timer, inbox, cached, load, drops, failures>>

IdentityRefused(p) ==
  /\ promise[p].state = "pending" /\ failures < MaxFailures /\ failures' = failures + 1
  /\ promise' = [promise EXCEPT ![p] = [state |-> "rejected", waiting |-> <<>>]]
  /\ IF promise[p].waiting = <<>> THEN UNCHANGED <<shown, error>> ELSE ShowError
  /\ UNCHANGED <<history, mounted, socket, timer, inbox, cached, load, drops>>

\* loadSnapshot: the summary's request is answered from a snapshot of its own,
\* as those for the jobs, the resources and the alerts are.
LoadAnswered(l) ==
  /\ load[l].state = "pending" /\ load[l].seen = 0
  /\ load' = [load EXCEPT ![l] = [load[l] EXCEPT !.seen = Now]]
  /\ UNCHANGED <<history, mounted, socket, timer, inbox, promise, cached, shown, error, drops, failures>>

LoadRefused(l) ==
  /\ load[l].state = "pending" /\ load[l].seen = 0
  /\ failures < MaxFailures /\ failures' = failures + 1
  /\ load' = [load EXCEPT ![l] = Ended]
  /\ ShowError
  /\ UNCHANGED <<history, mounted, socket, timer, inbox, promise, cached, drops>>

\* Promise.all has every answer, or the identity was refused.
LoadSettles(l) ==
  /\ load[l].state = "pending"
  /\ LET identity == promise[load[l].promise].state
     IN \/ /\ identity = "ok" /\ load[l].seen # 0
           /\ Show(load[l].seen)
        \/ identity = "rejected" /\ ShowError
  /\ load' = [load EXCEPT ![l] = Ended]
  /\ UNCHANGED <<history, mounted, socket, timer, inbox, promise, cached, drops, failures>>

\* The effect's cleanup: no callback is listened to, the reconnect is cleared
\* and the socket closed, with an onclose that returns at once.
Unmount ==
  /\ mounted
  /\ mounted' = FALSE /\ timer' = FALSE /\ socket' = "closed" /\ inbox' = <<>>
  /\ UNCHANGED <<history, promise, cached, load, shown, error, drops, failures>>

LedgerMoves ==
  \/ \E i \in DOMAIN Plan : Finish(i)
  \/ \E t \in Tasks : Retry(t)

MonitorNext ==
  \/ LedgerMoves
  \/ Open \/ ServerSend \/ Receive \/ Drop \/ Reconnect \/ Unmount
  \/ \E p \in Promises : IdentityAnswered(p) \/ IdentityRefused(p)
  \/ \E l \in Loads : LoadAnswered(l) \/ LoadRefused(l) \/ LoadSettles(l)

MonitorSpec == MonitorInit /\ [][MonitorNext]_monitorVars

\* The server answers, the browser's timers fire and its callbacks run.
MonitorFairness ==
  /\ WF_monitorVars(Open) /\ WF_monitorVars(Reconnect)
  /\ WF_monitorVars(ServerSend) /\ WF_monitorVars(Receive)
  /\ \A p \in Promises : WF_monitorVars(IdentityAnswered(p))

FairMonitorSpec == MonitorSpec /\ MonitorFairness

-----------------------------------------------------------------------------
(* What the page promises *)

\* A page that says COMPLETED says so of a run whose every planned task is
\* completed, whichever request or message brought the summary and however old
\* it is.  (_job_records counts the plan, not the attempts.)
CompletedIsTrue ==
  shown # NotShown /\ RunStatus(history[shown]) = "COMPLETED" =>
    \A t \in Tasks : Rows[t] = "COMPLETED"

\* Whatever drops, fails and overtakes, an open page ends up showing the
\* ledger as it is, without an error.  The one exception is an identity request
\* that is refused for a socket that stays open: its rejection stays cached.
CatchesUp ==
  \/ <>~mounted
  \/ <>[](promise[cached].state = "rejected")
  \/ <>[](shown = Now /\ ~error)
=============================================================================
