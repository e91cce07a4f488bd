------------------------------ MODULE RunPlan ------------------------------
(***************************************************************************)
(* Binding a run to its graph and its immutable plan                       *)
(* (StatePlanMixin.create_run and register_run_plan): validation in the    *)
(* caller's memory, then one transaction, for drivers that may die between *)
(* the two calls and others that bring a plan of their own.                *)
(***************************************************************************)
EXTENDS Naturals, Sequences, FiniteSets, FiniteSetsExt

CONSTANTS
  Planners,   \* drivers that open the run
  Offers      \* Offers[p]: what p may bring, [graph, plan], where a plan is a
              \* sequence of nodes [task, deps], valid or not

\* A plan is a sequence, and no graph's fingerprint is the mark of absence.
ASSUME OffersAssumption ==
  \A p \in Planners : \A o \in Offers[p] :
    /\ o = [graph |-> o.graph, plan |-> o.plan] /\ o.graph # "none"
    /\ o.plan \in Seq({o.plan[i] : i \in DOMAIN o.plan})

VARIABLES
  runGraph,   \* the graph of the run's row, or "none"
  rows,       \* the run's plan in the database, <<>> while there is none
  planner     \* planner[p]: [at, graph, plan] of the driver p

planVars == <<runGraph, rows, planner>>

Offered == UNION {Offers[p] : p \in Planners}
Away == [at |-> "away", graph |-> "none", plan |-> <<>>]

PlanTypeOK ==
  /\ runGraph \in {o.graph : o \in Offered} \cup {"none"}
  /\ rows \in {o.plan : o \in Offered} \cup {<<>>}
  /\ \A p \in Planners :
       /\ planner[p].at \in {"away", "creating", "validating", "binding", "bound", "refused"}
       /\ planner[p].at # "away" => [graph |-> planner[p].graph, plan |-> planner[p].plan] \in Offers[p]

PlanInit == runGraph = "none" /\ rows = <<>> /\ planner = [p \in Planners |-> Away]

-----------------------------------------------------------------------------
(* Validation *)

TaskIds(plan) == {plan[i].task : i \in DOMAIN plan}
UniqueIds(plan) == Cardinality(TaskIds(plan)) = Len(plan)
KnownDependencies(plan) == \A i \in DOMAIN plan : plan[i].deps \subseteq TaskIds(plan)

\* In the dictionary of dependencies the last node of a name would win.
DependenciesOf(plan, t) == plan[CHOOSE i \in DOMAIN plan : plan[i].task = t].deps

Entered(search, t) == [search EXCEPT !.visiting = search.visiting \cup {t}]

\* Mutant: a task stays on the path after its dependencies are done.
Kept(search, t) == [search EXCEPT !.visited = search.visited \cup {t}]

Left(search, t) == [search EXCEPT !.visiting = search.visiting \ {t}, !.visited = search.visited \cup {t}]

Searches(plan) == [visiting : SUBSET TaskIds(plan), visited : SUBSET TaskIds(plan), cycle : BOOLEAN]

\* visit: depth first, failing on a task that is on the path already;
\* Visit(plan)[search][t] is what visiting t makes of a search.
Visit(plan) ==
  LET visit[search \in Searches(plan)] == [t \in TaskIds(plan) |->
        IF search.cycle \/ t \in search.visiting THEN [search EXCEPT !.cycle = TRUE]
        ELSE IF t \in search.visited THEN search
        ELSE LET below == FoldSet(LAMBDA d, s : visit[s][d], Entered(search, t), DependenciesOf(plan, t))
             IN IF below.cycle THEN below ELSE Left(below, t)]
  IN visit

NewSearch == [visiting |-> {}, visited |-> {}, cycle |-> FALSE]

Acyclic(plan) == ~FoldSet(LAMBDA t, s : Visit(plan)[s][t], NewSearch, TaskIds(plan)).cycle

Accepts(plan) == Len(plan) > 0 /\ UniqueIds(plan) /\ KnownDependencies(plan) /\ Acyclic(plan)

-----------------------------------------------------------------------------
(* The two calls *)

MovePlanner(p, step) == planner' = [planner EXCEPT ![p] = [planner[p] EXCEPT !.at = step]]

Bring(p, offer) ==
  /\ planner[p].at = "away"
  /\ planner' = [planner EXCEPT ![p] = [at |-> "creating", graph |-> offer.graph, plan |-> offer.plan]]
  /\ UNCHANGED <<runGraph, rows>>

\* create_run: inserts the run, or finds it bound to this graph.
BindGraph(p) ==
  /\ planner[p].at = "creating"
  /\ IF runGraph \in {"none", planner[p].graph}
       THEN runGraph' = planner[p].graph /\ MovePlanner(p, "validating")
       ELSE MovePlanner(p, "refused") /\ UNCHANGED runGraph
  /\ UNCHANGED rows

Validate(p) ==
  /\ planner[p].at = "validating"
  /\ MovePlanner(p, IF Accepts(planner[p].plan) THEN "binding" ELSE "refused")
  /\ UNCHANGED <<runGraph, rows>>

RowsAgree(plan) == rows = <<>> \/ rows = plan

\* register_run_plan's transaction.
BindPlan(p) ==
  /\ planner[p].at = "binding"
  /\ IF RowsAgree(planner[p].plan)
       THEN rows' = planner[p].plan /\ MovePlanner(p, "bound")
       ELSE MovePlanner(p, "refused") /\ UNCHANGED rows
  /\ UNCHANGED runGraph

\* The driver dies and is started again, with a graph that may be another one.
PlannerDies(p) ==
  /\ planner[p].at \in {"creating", "validating", "binding"}
  /\ planner' = [planner EXCEPT ![p] = Away]
  /\ UNCHANGED <<runGraph, rows>>

PlanNext ==
  \E p \in Planners :
    \/ \E offer \in Offers[p] : Bring(p, offer)
    \/ BindGraph(p) \/ Validate(p) \/ BindPlan(p) \/ PlannerDies(p)

PlanSpec == PlanInit /\ [][PlanNext]_planVars
-----------------------------------------------------------------------------
\* A plan that can be carried out: in every set of its tasks there is one that
\* waits for none of the others.
Feasible(plan) ==
  /\ plan # <<>> /\ UniqueIds(plan) /\ KnownDependencies(plan)
  /\ \A S \in (SUBSET TaskIds(plan)) \ {{}} : \E t \in S : DependenciesOf(plan, t) \cap S = {}

\* The search refuses exactly the plans no scheduler could finish.
SearchIsExact == \A p \in Planners : planner[p].at = "validating" =>
                   (Accepts(planner[p].plan) <=> Feasible(planner[p].plan))

\* Every driver that was let through runs the graph and the plan the database
\* holds, then and for ever after, whoever else opened the run or died at it.
OnePlanForAll ==
  /\ rows # <<>> => Feasible(rows)
  /\ \A p \in Planners : planner[p].at = "bound" => rows = planner[p].plan /\ runGraph = planner[p].graph

PlanInv == PlanTypeOK /\ SearchIsExact /\ OnePlanForAll
=============================================================================
