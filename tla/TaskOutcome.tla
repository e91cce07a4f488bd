---------------------------- MODULE TaskOutcome ----------------------------
(***************************************************************************)
(* What the execution state store promises a research graph, with no       *)
(* attempts, workers or retries in sight: every task is admitted at most   *)
(* once, it is admitted with exactly the artifacts its dependencies        *)
(* produced, and it produces at most one artifact, for ever.  The detailed *)
(* AttemptLedger is shown to implement this module.                        *)
(***************************************************************************)
CONSTANTS
  Tasks,      \* task identifiers of the graph
  Deps,       \* Deps[t]: the tasks whose artifacts t consumes
  Artifacts,  \* artifact references
  Output,     \* Output[t]: the artifacts of t's output type
  None        \* "no artifact"

VARIABLES
  admitted,   \* tasks bound to their inputs
  given,      \* given[t][d]: the artifact of d that t consumes
  outcome     \* outcome[t]: the artifact t produced, or None

taskVars == <<admitted, given, outcome>>

NoInput == [d \in Tasks |-> None]

TaskInit ==
  /\ admitted = {}
  /\ given = [t \in Tasks |-> NoInput]
  /\ outcome = [t \in Tasks |-> None]

\* A task enters the run once every dependency has produced its artifact.
Admit(t) ==
  /\ t \notin admitted
  /\ \A d \in Deps[t] : outcome[d] # None
  /\ admitted' = admitted \cup {t}
  /\ given' = [given EXCEPT ![t] = [d \in Tasks |-> IF d \in Deps[t] THEN outcome[d] ELSE None]]
  /\ UNCHANGED outcome

\* An admitted task produces its only artifact.
Produce(t, x) ==
  /\ t \in admitted
  /\ outcome[t] = None
  /\ x \in Output[t]
  /\ outcome' = [outcome EXCEPT ![t] = x]
  /\ UNCHANGED <<admitted, given>>

TaskNext == \E t \in Tasks : Admit(t) \/ \E x \in Artifacts : Produce(t, x)

TaskSpec == TaskInit /\ [][TaskNext]_taskVars
=============================================================================
