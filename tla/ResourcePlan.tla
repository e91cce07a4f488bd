---------------------------- MODULE ResourcePlan ----------------------------
(***************************************************************************)
(* plan_resources, the admission policy of the scheduler: which of the     *)
(* queued requests start now, on which card, next to what already runs.    *)
(*                                                                         *)
(* A request is [cpu, memory, gpus, vram]; an active grant is              *)
(* [holder, request, cards]; a host is [physical, reserved, ceiling,       *)
(* available, limit, cards, storage], where cards[g] is the memory of card *)
(* g.  Memory is counted in one unit throughout, so the code's GiB-to-byte *)
(* rounding has nothing to do; what a grant copies from its request (its   *)
(* CPU threads, its memory limit) is read from the request.                *)
(***************************************************************************)
EXTENDS Integers, Sequences, FiniteSets, FiniteSetsExt

\* What ResourceRequest and ResourceCapacity let through.
IsRequest(request) ==
  /\ request \in [cpu : Nat \ {0}, memory : Nat \ {0}, gpus : Nat, vram : Nat]
  /\ request.gpus = 0 <=> request.vram = 0

IsHost(host) ==
  /\ DOMAIN host.cards \subseteq Nat
  /\ host \in [physical : Nat \ {0}, reserved : Nat, ceiling : Nat, available : Nat \ {0}, limit : Nat,
              cards : [DOMAIN host.cards -> Nat \ {0}], storage : BOOLEAN]

\* Data cores left after the scheduler, monitor and I/O reserve.
UsableCores(host) == Min({host.ceiling, host.physical - host.reserved})

MemoryBudget(host) == Min({host.available, host.limit})

Cards(host) == DOMAIN host.cards

\* Totals over a set of running grants.
ActiveCores(active) == MapThenSumSet(LAMBDA grant : grant.request.cpu, active)
ActiveMemory(active) == MapThenSumSet(LAMBDA grant : grant.request.memory, active)

\* Mutant: the cards of running attempts are forgotten.
NoActiveCards(active) == {}

\* The cards they hold.
ActiveCards(active) == UNION {grant.cards : grant \in active}

CardsClaimedTwice(active) ==
  \E g, h \in active : g # h /\ g.cards \cap h.cards # {}

\* What runs already exceeds what the host admits.
OverCommitted(host, active) ==
  \/ ActiveCores(active) > UsableCores(host)
  \/ ActiveMemory(active) > MemoryBudget(host)

\* The inputs for which plan_resources raises ResourcePlanningError.
Refused(host, queue, active) ==
  \/ ~host.storage
  \/ UsableCores(host) <= 0
  \/ \E grant \in active : Cardinality(grant.cards) # grant.request.gpus
                           \/ ~(grant.cards \subseteq Cards(host))
  \/ CardsClaimedTwice(active)
  \/ OverCommitted(host, active)
  \/ \E i \in DOMAIN queue : \/ queue[i].cpu > UsableCores(host)
                             \/ queue[i].memory > MemoryBudget(host)
                             \/ queue[i].gpus > 1

\* What is left of a host while its queue is planned.
Remaining(host, active) ==
  [cores |-> UsableCores(host) - ActiveCores(active),
   memory |-> MemoryBudget(host) - ActiveMemory(active),
   free |-> Cards(host) \ ActiveCards(active),
   grants |-> << >>]

\* Mutant: a card has to be larger than the request.
LargerCards(host, left, request) == {g \in left.free : host.cards[g] > request.vram}

\* The free cards large enough for the request.
FittingCards(host, left, request) ==
  {g \in left.free : host.cards[g] >= request.vram}

\* A card, if one is asked for, and enough cores and memory are left.
Fits(host, left, request) ==
  /\ request.gpus > 0 => FittingCards(host, left, request) # {}
  /\ request.cpu <= left.cores
  /\ request.memory <= left.memory

\* One step of the planner's loop: a request that does not fit is skipped and
\* the next one is considered.  A fitting card is the lowest-numbered one.
Place(host, left, i, request) ==
  IF ~Fits(host, left, request) THEN left
  ELSE LET cards == IF request.gpus = 0 THEN {} ELSE {Min(FittingCards(host, left, request))}
       IN [cores |-> left.cores - request.cpu,
           memory |-> left.memory - request.memory,
           free |-> left.free \ cards,
           grants |-> Append(left.grants, [index |-> i, cards |-> cards])]

\* What is left after the first n requests of the queue.
After(host, queue, active, n) ==
  LET after[i \in 0..n] == IF i = 0 THEN Remaining(host, active)
                           ELSE Place(host, after[i - 1], i, queue[i])
  IN after[n]

\* Mutant: the last request of the queue is never considered.
PlanAllButLast(host, queue, active) == After(host, queue, active, Len(queue) - 1).grants

\* plan_resources, for inputs it does not refuse.
PlanResources(host, queue, active) ==
  After(host, queue, active, Len(queue)).grants
=============================================================================
