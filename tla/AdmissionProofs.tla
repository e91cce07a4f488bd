-------------------------- MODULE AdmissionProofs --------------------------
(***************************************************************************)
(* What is let in.  Jobs to the host: the scheduler never overcommits it,  *)
(* whatever is submitted, whatever ends and however often the driver is    *)
(* restarted, for a restarted driver may measure less memory than is       *)
(* there, never more.                                                      *)
(*                                                                         *)
(* Plans to the database: the depth-first search refuses exactly the plans *)
(* whose tasks wait for each other in a circle, and every driver that was  *)
(* let through runs the graph and the plan that are there.  The search is  *)
(* a recursive function; it exists because its path grows with every call, *)
(* which the searches of a given depth show one after another.             *)
(***************************************************************************)
EXTENDS HostAdmission, RunPlan, ResourcePlanProofs


-----------------------------------------------------------------------------
(* Among *)

\* kept holds what is kept of each of the first n elements.
Filters(kept, seq, S, n) ==
  kept = [i \in 0..n |-> IF i = 0 THEN << >>
                         ELSE IF seq[i] \in S THEN Append(kept[i - 1], seq[i])
                         ELSE kept[i - 1]]

LEMMA FilterExists ==
  ASSUME NEW seq, NEW S, NEW n \in Nat
  PROVE  \E kept : Filters(kept, seq, S, n)
<1> DEFINE F == {m \in Nat : ~\E kept : Filters(kept, seq, S, m)}
<1> SUFFICES ASSUME F # {} PROVE FALSE
  OBVIOUS
<1>1. PICK m \in F : \A k \in F : m <= k
  <2>1. F \subseteq Nat
    OBVIOUS
  <2> HIDE DEF F
  <2> QED BY <2>1, LeastNumber
<1>2. CASE m = 0
  <2> DEFINE kept == [i \in 0..0 |-> << >>]
  <2>1. Filters(kept, seq, S, 0)
    <3>1. kept = [i \in 0..0 |-> IF i = 0 THEN << >>
                                 ELSE IF seq[i] \in S THEN Append(kept[i - 1], seq[i])
                                 ELSE kept[i - 1]]
      OBVIOUS
    <3> QED BY <3>1 DEF Filters
  <2> QED BY <1>2, <2>1
<1>3. CASE m # 0
  <2>1. m - 1 \in Nat /\ m - 1 \notin F
    BY <1>1, <1>3
  <2>2. PICK f : Filters(f, seq, S, m - 1)
    BY <2>1
  <2> DEFINE last == IF seq[m] \in S THEN Append(f[m - 1], seq[m]) ELSE f[m - 1]
             kept == [i \in 0..m |-> IF i = m THEN last ELSE f[i]]
  <2>3. \A i \in 0..(m - 1) :
           f[i] = IF i = 0 THEN << >>
                  ELSE IF seq[i] \in S THEN Append(f[i - 1], seq[i]) ELSE f[i - 1]
    BY <2>2 DEF Filters
  <2>4. ASSUME NEW i \in 0..m
        PROVE  kept[i] = IF i = 0 THEN << >>
                         ELSE IF seq[i] \in S THEN Append(kept[i - 1], seq[i]) ELSE kept[i - 1]
    BY <1>3, <2>3
  <2>5. Filters(kept, seq, S, m)
    BY <2>4 DEF Filters
  <2> QED BY <2>5
<1> QED BY <1>2, <1>3

NoRepetition(seq) == \A i, j \in 1..Len(seq) : seq[i] = seq[j] => i = j

\* Of the first n elements of seq those in S are kept, each as often as it occurs.
KeepsOf(seq, S, T, n, kept) ==
  /\ kept \in Seq(T)
  /\ \A x : (\E k \in 1..Len(kept) : kept[k] = x) <=> x \in S /\ \E i \in 1..n : seq[i] = x
  /\ NoRepetition(seq) => NoRepetition(kept)

LEMMA KeepsOneMore ==
  ASSUME NEW T, NEW seq \in Seq(T), NEW S, NEW n \in 1..Len(seq), NEW kept,
         KeepsOf(seq, S, T, n - 1, kept), seq[n] \in S
  PROVE  KeepsOf(seq, S, T, n, Append(kept, seq[n]))
<1> DEFINE further == Append(kept, seq[n])
<1>1. n \in Nat /\ seq[n] \in T /\ kept \in Seq(T)
  BY DEF KeepsOf
<1>2. /\ further \in Seq(T) /\ Len(further) = Len(kept) + 1 /\ Len(kept) \in Nat
      /\ further[Len(kept) + 1] = seq[n]
      /\ \A k \in 1..Len(kept) : further[k] = kept[k]
  BY <1>1
<1> HIDE DEF further
<1>3. \A x : (\E k \in 1..Len(kept) : kept[k] = x) <=> x \in S /\ \E i \in 1..(n - 1) : seq[i] = x
  BY DEF KeepsOf
<1>4. \A x : (\E k \in 1..Len(further) : further[k] = x)
               <=> (\E k \in 1..Len(kept) : kept[k] = x) \/ x = seq[n]
  BY <1>2
<1>5. \A x : (\E i \in 1..n : seq[i] = x) <=> (\E i \in 1..(n - 1) : seq[i] = x) \/ x = seq[n]
  BY <1>1
<1>6. ASSUME NoRepetition(seq) PROVE NoRepetition(further)
  <2>1. \A k \in 1..Len(kept) : kept[k] # seq[n]
    <3>1. \A i \in 1..(n - 1) : seq[i] # seq[n]
      BY <1>6 DEF NoRepetition
    <3> QED BY <1>3, <3>1
  <2>2. NoRepetition(kept)
    BY <1>6 DEF KeepsOf
  <2> QED BY <1>2, <2>1, <2>2 DEF NoRepetition
<1>7. KeepsOf(seq, S, T, n, further)
  BY <1>2, <1>3, <1>4, <1>5, <1>6 DEF KeepsOf
<1> QED BY <1>7 DEF further

\* Among keeps the elements in S, and repeats none if nothing was repeated.
LEMMA AmongKeeps ==
  ASSUME NEW T, NEW seq \in Seq(T), NEW S
  PROVE  KeepsOf(seq, S, T, Len(seq), Among(seq, S))
<1> DEFINE f == CHOOSE kept : Filters(kept, seq, S, Len(seq))
<1>1. Filters(f, seq, S, Len(seq)) /\ Among(seq, S) = f[Len(seq)]
  <2>1. Filters(f, seq, S, Len(seq))
    BY FilterExists
  <2> QED BY <2>1 DEF Among, Filters
<1> HIDE DEF f
<1>2. \A i \in 0..Len(seq) :
        f[i] = IF i = 0 THEN << >>
               ELSE IF seq[i] \in S THEN Append(f[i - 1], seq[i]) ELSE f[i - 1]
  BY <1>1 DEF Filters
<1> DEFINE F == {i \in 0..Len(seq) : ~KeepsOf(seq, S, T, i, f[i])}
<1>3. ASSUME F # {} PROVE FALSE
  <2>1. PICK n \in F : \A k \in F : n <= k
    <3>1. F \subseteq Nat
      OBVIOUS
    <3> HIDE DEF F
    <3> QED BY <1>3, <3>1, LeastNumber
  <2>2. CASE n = 0
    <3>1. f[0] = << >>
      BY <1>2
    <3>2. KeepsOf(seq, S, T, 0, << >>)
      BY DEF KeepsOf, NoRepetition
    <3> QED BY <2>2, <3>1, <3>2
  <2>3. CASE n # 0
    <3>1. n \in 1..Len(seq) /\ n - 1 \in 0..Len(seq) /\ n - 1 \notin F
      BY <2>1, <2>3
    <3>2. KeepsOf(seq, S, T, n - 1, f[n - 1])
      BY <3>1
    <3>3. f[n] = IF seq[n] \in S THEN Append(f[n - 1], seq[n]) ELSE f[n - 1]
      BY <1>2, <2>3
    <3>4. CASE seq[n] \in S
      BY <3>1, <3>2, <3>3, <3>4, KeepsOneMore
    <3>5. CASE seq[n] \notin S
      <4>1. KeepsOf(seq, S, T, n, f[n - 1])
        <5>1. \A x : x \in S => ((\E i \in 1..n : seq[i] = x) <=> \E i \in 1..(n - 1) : seq[i] = x)
          BY <3>1, <3>5
        <5> QED BY <3>2, <5>1 DEF KeepsOf
      <4> QED BY <3>3, <3>5, <4>1
    <3> QED BY <3>4, <3>5
  <2> QED BY <2>2, <2>3
<1> QED BY <1>1, <1>3

-----------------------------------------------------------------------------
(* The host *)

\* A driver's view of the host: less memory perhaps, otherwise the same.
LEMMA CapacityOffers ==
  ASSUME available \in Int, available <= Host.available
  PROVE  /\ CanOffer(Capacity) /\ CanOffer(Host)
         /\ Cards(Capacity) = Cards(Host) /\ Capacity.cards = Host.cards
         /\ UsableCores(Capacity) = UsableCores(Host)
         /\ MemoryBudget(Capacity) <= MemoryBudget(Host)
<1> DEFINE ids == DOMAIN Host.cards
<1>1. /\ ids \subseteq Nat
      /\ Host \in [physical : Nat \ {0}, reserved : Nat, ceiling : Nat, available : Nat \ {0}, limit : Nat,
                   cards : [ids -> Nat \ {0}], storage : BOOLEAN]
  BY HostAssumption DEF IsHost
<1>2. /\ Capacity.physical = Host.physical /\ Capacity.reserved = Host.reserved
      /\ Capacity.ceiling = Host.ceiling /\ Capacity.limit = Host.limit
      /\ Capacity.cards = Host.cards /\ Capacity.available = available
  BY <1>1 DEF Capacity
<1>3. /\ Host.ceiling \in Int /\ Host.physical - Host.reserved \in Int
      /\ Host.limit \in Int /\ Host.available \in Int
  BY <1>1
<1>4. UsableCores(Capacity) = UsableCores(Host) /\ UsableCores(Host) \in Int
  BY <1>2, <1>3, LesserOfTwo DEF UsableCores
<1>5. /\ MemoryBudget(Capacity) = IF available <= Host.limit THEN available ELSE Host.limit
      /\ MemoryBudget(Host) = IF Host.available <= Host.limit THEN Host.available ELSE Host.limit
  BY <1>2, <1>3, LesserOfTwo DEF MemoryBudget
<1>6. Cards(Capacity) = Cards(Host) /\ Cards(Host) \subseteq Nat
  BY <1>1, <1>2 DEF Cards
<1> QED BY <1>2, <1>3, <1>4, <1>5, <1>6 DEF CanOffer

LEMMA JobsAsk == \A j \in Jobs : Asks(Request[j]) /\ Request[j].gpus \in {0, 1}
<1> SUFFICES ASSUME NEW j \in Jobs PROVE Asks(Request[j]) /\ Request[j].gpus \in {0, 1}
  OBVIOUS
<1>1. Request[j] \in [cpu : Nat \ {0}, memory : Nat \ {0}, gpus : Nat, vram : Nat] /\ Request[j].gpus <= 1
  BY RequestAssumption DEF IsRequest
<1> QED BY <1>1 DEF Asks

-----------------------------------------------------------------------------
(* The invariant *)

\* A job waits at most once.
QueueOK == queue \in Seq(Jobs) /\ NoRepetition(queue)

\* No job waits while it runs, and what runs holds what its request asks for.
GrantsOK ==
  /\ IsGrants(running)
  /\ \A grant \in running : /\ grant.holder \in Jobs /\ grant.holder \notin InQueue
                            /\ Suits(Host, grant.request, grant.cards)

\* No driver believes the host to be larger than it is.
MemoryOK == available \in Int /\ available <= Host.available

AdmissionInv == QueueOK /\ GrantsOK /\ MemoryOK /\ HostNeverOvercommitted

LEMMA AdmissionStarts == AdmissionInit => AdmissionInv
<1> SUFFICES ASSUME AdmissionInit PROVE AdmissionInv
  OBVIOUS
<1>1. QueueOK
  BY DEF AdmissionInit, QueueOK, NoRepetition
<1>2. GrantsOK
  BY NoGrants DEF AdmissionInit, GrantsOK
<1>3. Host.available \in Int
  BY HostAssumption DEF IsHost
<1>4. MemoryOK
  BY <1>3 DEF AdmissionInit, MemoryOK
<1>5. ~OverCommitted(Host, {})
  <2>1. UsableCores(Host) \in Int /\ MemoryBudget(Host) \in Int
    BY <1>4, CapacityOffers DEF MemoryOK, CanOffer
  <2>2. 0 <= UsableCores(Host) /\ 0 <= MemoryBudget(Host)
    <3>1. Host.available \in Nat /\ Host.limit \in Nat
      BY HostAssumption DEF IsHost
    <3>2. 0 <= MemoryBudget(Host)
      BY <3>1, LesserOfTwo DEF MemoryBudget
    <3> QED BY <2>1, <3>2, HostAssumption
  <2> QED BY <2>1, <2>2, NoGrants DEF OverCommitted
<1>6. HostNeverOvercommitted
  BY <1>5 DEF AdmissionInit, HostNeverOvercommitted, CardsClaimedTwice
<1> QED BY <1>1, <1>2, <1>4, <1>6 DEF AdmissionInv

-----------------------------------------------------------------------------
(* A tick *)

\* The order of a tick is that of the queue as far as its members go.
LEMMA OrderOfQueue ==
  ASSUME QueueOK
  PROVE  /\ GpuFirst \in Seq(Jobs) /\ NoRepetition(GpuFirst)
         /\ DOMAIN GpuFirst = 1..Len(GpuFirst) /\ Len(GpuFirst) \in Nat
         /\ \A j : (\E k \in 1..Len(GpuFirst) : GpuFirst[k] = j) <=> j \in InQueue
<1> DEFINE front == Among(queue, GpuJobs)
           back == Among(queue, Jobs \ GpuJobs)
           m == Len(front)
           n == Len(back)
<1>1. /\ KeepsOf(queue, GpuJobs, Jobs, Len(queue), front)
      /\ KeepsOf(queue, Jobs \ GpuJobs, Jobs, Len(queue), back)
  BY AmongKeeps DEF QueueOK
<1>2. /\ front \in Seq(Jobs) /\ NoRepetition(front) /\ back \in Seq(Jobs) /\ NoRepetition(back)
      /\ \A j : (\E k \in 1..m : front[k] = j) <=> j \in GpuJobs /\ \E i \in 1..Len(queue) : queue[i] = j
      /\ \A j : (\E k \in 1..n : back[k] = j) <=> j \in Jobs \ GpuJobs /\ \E i \in 1..Len(queue) : queue[i] = j
  BY <1>1 DEF KeepsOf, QueueOK
<1>3. GpuFirst = front \o back
  BY DEF GpuFirst
<1> HIDE DEF front, back
<1>4. /\ GpuFirst \in Seq(Jobs) /\ Len(GpuFirst) = m + n /\ m \in Nat /\ n \in Nat
      /\ DOMAIN GpuFirst = 1..Len(GpuFirst)
      /\ \A k \in 1..m : GpuFirst[k] = front[k]
      /\ \A k \in (m + 1)..(m + n) : GpuFirst[k] = back[k - m]
  BY <1>2, <1>3
<1>5. \A j : j \in InQueue <=> \E i \in 1..Len(queue) : queue[i] = j
  BY DEF QueueOK, InQueue
<1>6. ASSUME NEW j
      PROVE  (\E k \in 1..Len(GpuFirst) : GpuFirst[k] = j) <=> j \in InQueue
  <2>1. ASSUME NEW k \in 1..Len(GpuFirst), GpuFirst[k] = j PROVE j \in InQueue
    <3>1. CASE k \in 1..m
      BY <1>2, <1>4, <1>5, <2>1, <3>1
    <3>2. CASE k \notin 1..m
      <4>1. k \in (m + 1)..(m + n) /\ k - m \in 1..n
        BY <1>4, <3>2
      <4> QED BY <1>2, <1>4, <1>5, <2>1, <4>1
    <3> QED BY <3>1, <3>2
  <2>2. ASSUME j \in InQueue PROVE \E k \in 1..Len(GpuFirst) : GpuFirst[k] = j
    <3>1. j \in Jobs /\ \E i \in 1..Len(queue) : queue[i] = j
      BY <1>5, <2>2 DEF QueueOK
    <3>2. CASE j \in GpuJobs
      <4>1. PICK k \in 1..m : front[k] = j
        BY <1>2, <3>1, <3>2
      <4>2. k \in 1..Len(GpuFirst)
        BY <1>4
      <4> QED BY <1>4, <4>1, <4>2
    <3>3. CASE j \notin GpuJobs
      <4>1. PICK k \in 1..n : back[k] = j
        BY <1>2, <3>1, <3>3
      <4>2. k + m \in (m + 1)..(m + n) /\ (k + m) - m = k /\ k + m \in 1..Len(GpuFirst)
        BY <1>4
      <4> QED BY <1>4, <4>1, <4>2
    <3> QED BY <3>2, <3>3
  <2> QED BY <2>1, <2>2
<1>7. NoRepetition(GpuFirst)
  <2>1. \A k \in 1..m : front[k] \in GpuJobs
    BY <1>2
  <2>2. \A k \in 1..n : back[k] \notin GpuJobs
    BY <1>2
  <2> SUFFICES ASSUME NEW i \in 1..Len(GpuFirst), NEW j \in 1..Len(GpuFirst), GpuFirst[i] = GpuFirst[j]
               PROVE  i = j
    BY DEF NoRepetition
  <2>3. /\ i \in 1..m \/ (i \in (m + 1)..(m + n) /\ i - m \in 1..n)
        /\ j \in 1..m \/ (j \in (m + 1)..(m + n) /\ j - m \in 1..n)
    BY <1>4
  <2>4. CASE i \in 1..m /\ j \in 1..m
    BY <1>2, <1>4, <2>4 DEF NoRepetition
  <2>5. CASE i \notin 1..m /\ j \notin 1..m
    <3>1. back[i - m] = back[j - m]
      BY <1>4, <2>3, <2>5
    <3>2. i - m = j - m
      BY <1>2, <2>3, <2>5, <3>1 DEF NoRepetition
    <3> QED BY <1>4, <3>2
  <2> QED BY <1>4, <2>1, <2>2, <2>3, <2>4, <2>5
<1> QED BY <1>4, <1>6, <1>7

\* What the planner is asked is what it can plan.
LEMMA TickPlans ==
  ASSUME AdmissionInv, Tick
  PROVE  /\ Plannable(Capacity, Requests(GpuFirst), running, GpuFirst)
         /\ Len(Requests(GpuFirst)) = Len(GpuFirst)
         /\ \A i \in 1..Len(GpuFirst) : Requests(GpuFirst)[i] = Request[GpuFirst[i]]
<1> DEFINE order == GpuFirst
           asked == Requests(GpuFirst)
<1>1. /\ order \in Seq(Jobs) /\ NoRepetition(order) /\ DOMAIN order = 1..Len(order) /\ Len(order) \in Nat
      /\ \A j : (\E k \in 1..Len(order) : order[k] = j) <=> j \in InQueue
  BY OrderOfQueue DEF AdmissionInv
<1>2. /\ asked = [i \in 1..Len(order) |-> Request[order[i]]]
      /\ ~Refused(Capacity, asked, running)
  BY <1>1 DEF Requests, Tick
<1> HIDE DEF order, asked
<1>3. Len(asked) = Len(order) /\ DOMAIN asked = 1..Len(order)
  BY <1>1, <1>2
<1>4. \A i \in 1..Len(order) : asked[i] = Request[order[i]] /\ order[i] \in Jobs
  BY <1>1, <1>2
<1>5. IsQueue(asked)
  BY <1>1, <1>3, <1>4, JobsAsk DEF IsQueue
<1>6. Waiting(order, asked, running)
  BY <1>1, <1>3 DEF Waiting, NoRepetition, AdmissionInv, GrantsOK
<1>7. CanOffer(Capacity) /\ IsGrants(running)
  BY CapacityOffers DEF AdmissionInv, MemoryOK, GrantsOK
<1>8. Plannable(Capacity, asked, running, order)
  BY <1>2, <1>5, <1>6, <1>7 DEF Plannable
<1> QED BY <1>3, <1>4, <1>8 DEF order, asked

\* What a tick starts is what the planner granted.
LEMMA TickStarts ==
  ASSUME AdmissionInv, Tick
  PROVE  LET asked == Requests(GpuFirst)
             granted == Started(GpuFirst, asked, PlanResources(Capacity, asked, running))
         IN /\ Balanced(Capacity, asked, running, GpuFirst, Len(asked))
            /\ running' = running \cup granted
            /\ running' = Now(Capacity, asked, running, GpuFirst, Len(asked))
            /\ queue' = Among(queue, Jobs \ {grant.holder : grant \in granted})
            /\ \A grant \in granted : \E k \in 1..Len(GpuFirst) : /\ grant.holder = GpuFirst[k]
                                                                 /\ Suits(Host, grant.request, grant.cards)
<1> DEFINE order == GpuFirst
           asked == Requests(GpuFirst)
           plan == PlanResources(Capacity, asked, running)
           granted == Started(order, asked, plan)
           n == Len(asked)
<1>1. /\ Plannable(Capacity, asked, running, order)
      /\ Len(asked) = Len(order)
      /\ \A i \in 1..Len(order) : asked[i] = Request[order[i]]
  BY TickPlans
<1>2. n \in Nat
  BY <1>1 DEF Plannable, IsQueue
<1>3. Balanced(Capacity, asked, running, order, n)
  BY <1>1, <1>2, PlanBalances
<1>4. plan = After(Capacity, asked, running, n).grants
  BY DEF PlanResources
<1>5. IsPlanOf(Capacity, asked, n, plan)
  BY <1>3, <1>4 DEF Balanced
<1>6. Now(Capacity, asked, running, order, n) = running \cup granted
  BY <1>4 DEF Now
<1>7. NextGrants = {[holder |-> order[plan[k].index], request |-> Request[order[plan[k].index]],
                     cards |-> plan[k].cards] : k \in DOMAIN plan}
  BY DEF NextGrants
<1>8. /\ running' = running \cup NextGrants
      /\ queue' = Among(queue, Jobs \ {grant.holder : grant \in NextGrants})
  BY DEF Tick
<1> HIDE DEF order, asked, plan, n
<1>9. /\ DOMAIN plan = 1..Len(plan)
      /\ \A k \in 1..Len(plan) : plan[k].index \in 1..Len(order) /\ Suits(Capacity, asked[plan[k].index], plan[k].cards)
  <2> DEFINE S == [index : 1..n, cards : SUBSET Cards(Capacity)]
  <2>1. plan \in Seq(S)
    BY <1>5 DEF IsPlanOf
  <2>2. DOMAIN plan = 1..Len(plan) /\ \A k \in 1..Len(plan) : plan[k] \in S
    <3> HIDE DEF S
    <3> QED BY <2>1
  <2>3. \A k \in 1..Len(plan) : Suits(Capacity, asked[plan[k].index], plan[k].cards)
    BY <1>5 DEF IsPlanOf
  <2>4. n = Len(order)
    BY <1>1 DEF n
  <2> QED BY <2>2, <2>3, <2>4
<1>10. granted = NextGrants
  <2>1. \A k \in 1..Len(plan) : asked[plan[k].index] = Request[order[plan[k].index]]
    BY <1>1, <1>9
  <2> QED BY <1>7, <1>9, <2>1 DEF Started
<1>11. \A cards, r : Suits(Capacity, r, cards) => Suits(Host, r, cards)
  BY CapacityOffers DEF AdmissionInv, MemoryOK, Suits
<1>12. ASSUME NEW grant \in granted
       PROVE  \E k \in 1..Len(order) : grant.holder = order[k] /\ Suits(Host, grant.request, grant.cards)
  <2>1. PICK k \in 1..Len(plan) : grant = [holder |-> order[plan[k].index], request |-> asked[plan[k].index],
                                          cards |-> plan[k].cards]
    BY <1>9 DEF Started
  <2>2. plan[k].index \in 1..Len(order) /\ Suits(Capacity, asked[plan[k].index], plan[k].cards)
    BY <1>9
  <2> QED BY <1>11, <2>1, <2>2
<1> HIDE DEF granted
<1>13. running' = running \cup granted /\ queue' = Among(queue, Jobs \ {grant.holder : grant \in granted})
  BY <1>8, <1>10, Zenon
<1>14. running' = Now(Capacity, asked, running, order, n)
  BY <1>6, <1>13, Zenon
<1> QED BY <1>3, <1>12, <1>13, <1>14 DEF order, asked, plan, granted, n

-----------------------------------------------------------------------------
(* No step overcommits *)

LEMMA HostIsLarger ==
  ASSUME AdmissionInv, NEW active, IsGrants(active), ~OverCommitted(Capacity, active)
  PROVE  ~OverCommitted(Host, active)
<1>1. /\ UsableCores(Capacity) = UsableCores(Host) /\ MemoryBudget(Capacity) <= MemoryBudget(Host)
      /\ MemoryBudget(Capacity) \in Int /\ MemoryBudget(Host) \in Int
  BY CapacityOffers DEF AdmissionInv, MemoryOK, CanOffer
<1>2. ActiveMemory(active) \in Nat
  BY FewerGrants
<1> QED BY <1>1, <1>2 DEF OverCommitted

LEMMA TickKeeps ==
  ASSUME AdmissionInv, Tick
  PROVE  AdmissionInv'
<1> DEFINE asked == Requests(GpuFirst)
           granted == Started(GpuFirst, asked, PlanResources(Capacity, asked, running))
           rest == Jobs \ {grant.holder : grant \in granted}
<1>1. /\ Balanced(Capacity, asked, running, GpuFirst, Len(asked))
      /\ running' = running \cup granted
      /\ running' = Now(Capacity, asked, running, GpuFirst, Len(asked))
      /\ queue' = Among(queue, rest)
      /\ \A grant \in granted : \E k \in 1..Len(GpuFirst) : /\ grant.holder = GpuFirst[k]
                                                           /\ Suits(Host, grant.request, grant.cards)
  BY TickStarts
<1>2. IsGrants(running') /\ ~OverCommitted(Capacity, running') /\ ~CardsClaimedTwice(running')
  BY <1>1 DEF Balanced
<1>3. UNCHANGED available
  BY DEF Tick
<1> HIDE DEF asked, granted
<1>4. KeepsOf(queue, rest, Jobs, Len(queue), queue')
  BY <1>1, AmongKeeps DEF AdmissionInv, QueueOK
<1>5. QueueOK'
  BY <1>4 DEF KeepsOf, AdmissionInv, QueueOK, NoRepetition
<1>6. \A j \in InQueue' : j \in InQueue /\ j \in rest
  <2>1. /\ \A j : j \in InQueue' <=> \E k \in 1..Len(queue') : queue'[k] = j
        /\ \A j : j \in InQueue <=> \E k \in 1..Len(queue) : queue[k] = j
    BY <1>5 DEF QueueOK, InQueue, AdmissionInv
  <2> HIDE DEF rest
  <2> QED BY <1>4, <2>1 DEF KeepsOf
<1>7. \A grant \in granted : grant.holder \in Jobs /\ Suits(Host, grant.request, grant.cards)
  <2>1. GpuFirst \in Seq(Jobs)
    BY OrderOfQueue DEF AdmissionInv
  <2> QED BY <1>1, <2>1
<1>8. GrantsOK'
  <2>1. \A grant \in granted : grant.holder \notin InQueue'
    BY <1>6
  <2>2. \A grant \in running : /\ grant.holder \in Jobs /\ grant.holder \notin InQueue'
                               /\ Suits(Host, grant.request, grant.cards)
    BY <1>6 DEF AdmissionInv, GrantsOK
  <2> QED BY <1>1, <1>2, <1>7, <2>1, <2>2 DEF GrantsOK
<1>9. MemoryOK'
  BY <1>3 DEF AdmissionInv, MemoryOK
<1>10. HostNeverOvercommitted'
  <2>1. ~OverCommitted(Host, running')
    BY <1>2, HostIsLarger
  <2> QED BY <1>2, <1>8, <2>1 DEF HostNeverOvercommitted, GrantsOK, Suits
<1> QED BY <1>5, <1>8, <1>9, <1>10 DEF AdmissionInv

LEMMA AdmissionStep ==
  ASSUME AdmissionInv, [AdmissionNext]_admissionVars
  PROVE  AdmissionInv'
<1>1. ASSUME NEW j \in Jobs, Submit(j) PROVE AdmissionInv'
  <2>1. queue' = Append(queue, j) /\ UNCHANGED <<running, available>> /\ j \notin InQueue /\ j \notin Running
    BY <1>1 DEF Submit
  <2>2. /\ queue \in Seq(Jobs) /\ NoRepetition(queue)
        /\ InQueue = {queue[i] : i \in 1..Len(queue)}
    BY DEF AdmissionInv, QueueOK, InQueue
  <2>3. /\ queue' \in Seq(Jobs) /\ Len(queue') = Len(queue) + 1
        /\ queue'[Len(queue) + 1] = j /\ \A i \in 1..Len(queue) : queue'[i] = queue[i]
        /\ DOMAIN queue' = 1..(Len(queue) + 1) /\ Len(queue) \in Nat
    BY <2>1, <2>2
  <2>4. NoRepetition(queue')
    BY <2>1, <2>2, <2>3 DEF NoRepetition
  <2>5. InQueue' = InQueue \cup {j}
    BY <2>2, <2>3 DEF InQueue
  <2>6. GrantsOK'
    BY <2>1, <2>5 DEF AdmissionInv, GrantsOK, Running
  <2> QED BY <2>1, <2>3, <2>4, <2>6 DEF AdmissionInv, QueueOK, MemoryOK, HostNeverOvercommitted
<1>2. CASE Tick
  BY <1>2, TickKeeps
<1>3. ASSUME NEW grant \in running, Finish(grant) PROVE AdmissionInv'
  <2>1. running' = running \ {grant} /\ UNCHANGED <<queue, available>>
    BY <1>3 DEF Finish
  <2>2. /\ IsGrants(running')
        /\ ActiveCores(running') \in Nat /\ ActiveCores(running) \in Nat
        /\ ActiveMemory(running') \in Nat /\ ActiveMemory(running) \in Nat
        /\ ActiveCores(running') <= ActiveCores(running)
        /\ ActiveMemory(running') <= ActiveMemory(running)
    BY <2>1, FewerGrants DEF AdmissionInv, GrantsOK
  <2>3. UsableCores(Host) \in Int /\ MemoryBudget(Host) \in Int
    BY CapacityOffers DEF AdmissionInv, MemoryOK, CanOffer
  <2>4. ~OverCommitted(Host, running')
    BY <2>2, <2>3 DEF AdmissionInv, HostNeverOvercommitted, OverCommitted
  <2>5. ~CardsClaimedTwice(running')
    BY <2>1 DEF AdmissionInv, HostNeverOvercommitted, CardsClaimedTwice
  <2>6. GrantsOK'
    BY <2>1, <2>2 DEF AdmissionInv, GrantsOK, InQueue
  <2> QED BY <2>1, <2>4, <2>5, <2>6 DEF AdmissionInv, QueueOK, MemoryOK, HostNeverOvercommitted
<1>4. CASE Restart
  <2>1. available' = Host.available - ActiveMemory(running) /\ UNCHANGED <<queue, running>>
    BY <1>4 DEF Restart
  <2>2. ActiveMemory(running) \in Nat
    BY FewerGrants DEF AdmissionInv, GrantsOK
  <2>3. Host.available \in Int
    BY HostAssumption DEF IsHost
  <2> QED BY <2>1, <2>2, <2>3 DEF AdmissionInv, QueueOK, GrantsOK, InQueue, MemoryOK, HostNeverOvercommitted
<1>5. CASE UNCHANGED admissionVars
  BY <1>5 DEF admissionVars, AdmissionInv, QueueOK, GrantsOK, InQueue, MemoryOK, HostNeverOvercommitted
<1> QED BY <1>1, <1>2, <1>3, <1>4, <1>5 DEF AdmissionNext

\* Whatever is submitted and however often a driver measures the host anew,
\* the running attempts never share a card and never add up to more than the
\* host admits.  (Scheduler.tick, plan_resources)
THEOREM NeverOvercommitted == AdmissionSpec => []HostNeverOvercommitted
<1>1. AdmissionInv => HostNeverOvercommitted
  BY DEF AdmissionInv
<1> QED BY <1>1, AdmissionStarts, AdmissionStep, PTL DEF AdmissionSpec

-----------------------------------------------------------------------------
(* Every tick is greedy *)

LEMMA TickStartsWhatFits ==
  ASSUME AdmissionInv, Tick, NEW i \in DOMAIN GpuFirst
  PROVE  LET ahead == {GpuFirst[k] : k \in 1..(i - 1)}
             before == running \cup {grant \in running' : grant.holder \in ahead}
         IN GpuFirst[i] \in Running' <=>
              Fits(Capacity, Remaining(Capacity, before), Request[GpuFirst[i]])
<1> DEFINE order == GpuFirst
           asked == Requests(GpuFirst)
           N(k) == Now(Capacity, asked, running, order, k)
           n == Len(asked)
           ahead == {order[k] : k \in 1..(i - 1)}
           before == running \cup {grant \in running' : grant.holder \in ahead}
<1>1. /\ Plannable(Capacity, asked, running, order)
      /\ n = Len(order) /\ \A k \in 1..Len(order) : asked[k] = Request[order[k]]
  BY TickPlans
<1>2. running' = N(n)
  BY TickStarts
<1>3. i \in 1..n /\ n \in Nat
  <2>1. DOMAIN order = 1..Len(order) /\ Len(order) \in Nat
    BY OrderOfQueue DEF AdmissionInv
  <2> QED BY <1>1, <2>1
<1> HIDE DEF order, asked, N, n
<1>4. before = N(i - 1)
  <2>1. i - 1 \in 0..n /\ n \in 0..n
    BY <1>3
  <2>2. \A grant : grant \in N(i - 1)
                       <=> grant \in running
                           \/ (grant \in N(n) /\ \E k \in 1..(i - 1) : grant.holder = order[k])
    BY <1>1, <2>1, NowGrows DEF N, n
  <2>3. \A grant : grant \in before
                       <=> grant \in running
                           \/ (grant \in N(n) /\ \E k \in 1..(i - 1) : grant.holder = order[k])
    BY <1>2
  <2> QED BY <2>2, <2>3
<1>5. (\E grant \in N(n) : grant.holder = order[i])
        <=> Fits(Capacity, Remaining(Capacity, N(i - 1)), asked[i])
  BY <1>1, <1>3, PlanIsGreedy DEF N, n
<1>6. order[i] \in Running' <=> \E grant \in N(n) : grant.holder = order[i]
  BY <1>2 DEF Running
<1>7. asked[i] = Request[order[i]]
  BY <1>1, <1>3
<1>8. order[i] \in Running' <=> Fits(Capacity, Remaining(Capacity, before), Request[order[i]])
  BY <1>4, <1>5, <1>6, <1>7
<1> QED BY <1>8 DEF order

\* A tick starts exactly the jobs that one finds to fit who goes through the
\* queue in order and counts anew what runs before each: no job that fits is
\* left waiting and none overtakes it.  (Scheduler.tick, plan_resources)
THEOREM TicksAreGreedy == AdmissionSpec => TickIsGreedy
<1>1. ASSUME AdmissionInv
      PROVE  Tick =>
               LET order == GpuFirst
               IN \A i \in DOMAIN order :
                    LET ahead == {order[k] : k \in 1..(i - 1)}
                        before == running \cup {grant \in running' : grant.holder \in ahead}
                    IN order[i] \in Running' <=>
                         Fits(Capacity, Remaining(Capacity, before), Request[order[i]])
  <2> SUFFICES ASSUME Tick, NEW i \in DOMAIN GpuFirst
               PROVE  LET ahead == {GpuFirst[k] : k \in 1..(i - 1)}
                          before == running \cup {grant \in running' : grant.holder \in ahead}
                      IN GpuFirst[i] \in Running' <=>
                           Fits(Capacity, Remaining(Capacity, before), Request[GpuFirst[i]])
    BY Zenon
  <2> QED BY <1>1, TickStartsWhatFits
<1> QED BY <1>1, AdmissionStarts, AdmissionStep, PTL DEF AdmissionSpec, TickIsGreedy

-----------------------------------------------------------------------------
(* Folds *)

\* g applied to the elements of a set, one after another.
Fold(g, base, S) == FoldSet(LAMBDA d, s : g[s][d], base, S)

Folds(iter, g, base, S) ==
  iter = [s \in SUBSET S |-> IF s = {} THEN base ELSE g[iter[s \ {Pick(s)}]][Pick(s)]]

LEMMA FoldsAlike ==
  ASSUME NEW S, IsFiniteSet(S), NEW T, NEW base, NEW g, NEW f, NEW h,
         Folds(f, g, base, S), Folds(h, g, base, T)
  PROVE  \A s \in SUBSET S : s \subseteq T => f[s] = h[s]
<1> DEFINE F == {s \in SUBSET S : s \subseteq T /\ f[s] # h[s]}
<1> SUFFICES ASSUME F # {} PROVE FALSE
  OBVIOUS
<1>1. PICK s \in F : \A u \in SUBSET s : u \in F => u = s
  <2> HIDE DEF F
  <2>1. F \in SUBSET SUBSET S
    BY DEF F
  <2> QED BY <2>1, SmallestSet
<1>2. f[s] = IF s = {} THEN base ELSE g[f[s \ {Pick(s)}]][Pick(s)]
  BY DEF Folds
<1>3. h[s] = IF s = {} THEN base ELSE g[h[s \ {Pick(s)}]][Pick(s)]
  BY DEF Folds
<1>4. CASE s # {}
  <2>1. s \ {Pick(s)} \in SUBSET s /\ s \ {Pick(s)} # s
    BY <1>4, PickIsIn
  <2>2. f[s \ {Pick(s)}] = h[s \ {Pick(s)}]
    BY <1>1, <2>1
  <2> QED BY <1>2, <1>3, <1>4, <2>2
<1> QED BY <1>2, <1>3, <1>4

FoldOf(g, base, S) == (CHOOSE iter : Folds(iter, g, base, S))[S]

LEMMA FoldExists ==
  ASSUME NEW S, IsFiniteSet(S), NEW base, NEW g
  PROVE  \E iter : Folds(iter, g, base, S)
<1> DEFINE F == {s \in SUBSET S : ~\E iter : Folds(iter, g, base, s)}
<1> SUFFICES ASSUME F # {} PROVE FALSE
  OBVIOUS
<1>1. PICK T \in F : \A u \in SUBSET T : u \in F => u = T
  <2> HIDE DEF F
  <2>1. F \in SUBSET SUBSET S
    BY DEF F
  <2> QED BY <2>1, SmallestSet
<1>2. \A u \in SUBSET T : u # T => Folds(CHOOSE iter : Folds(iter, g, base, u), g, base, u)
  BY <1>1
<1>3. \A u \in SUBSET T : IsFiniteSet(u)
  BY FS_Subset
<1> DEFINE iter == [s \in SUBSET T |-> IF s = {} THEN base ELSE g[FoldOf(g, base, s \ {Pick(s)})][Pick(s)]]
<1>4. ASSUME NEW u \in SUBSET T, u # T PROVE iter[u] = FoldOf(g, base, u)
  <2> DEFINE below == CHOOSE h : Folds(h, g, base, u)
  <2>1. Folds(below, g, base, u) /\ FoldOf(g, base, u) = below[u]
    BY <1>2, <1>4 DEF FoldOf
  <2> HIDE DEF below
  <2>2. below[u] = IF u = {} THEN base ELSE g[below[u \ {Pick(u)}]][Pick(u)]
    BY <2>1 DEF Folds
  <2>3. CASE u # {}
    <3> DEFINE rest == u \ {Pick(u)}
           further == CHOOSE h : Folds(h, g, base, rest)
    <3>1. rest \in SUBSET T /\ rest # T /\ rest \in SUBSET u
      BY <1>4, <2>3, PickIsIn
    <3>2. Folds(further, g, base, rest) /\ FoldOf(g, base, rest) = further[rest]
      BY <1>2, <3>1 DEF FoldOf
    <3> HIDE DEF rest, further
    <3>3. below[rest] = further[rest]
      BY <1>3, <2>1, <3>1, <3>2, FoldsAlike
    <3> QED BY <2>1, <2>2, <2>3, <3>2, <3>3 DEF rest
  <2> QED BY <2>1, <2>2, <2>3
<1>5. ASSUME NEW s \in SUBSET T, s # {} PROVE s \ {Pick(s)} \in SUBSET T /\ s \ {Pick(s)} # T
  BY <1>5, PickIsIn
<1>6. Folds(iter, g, base, T)
  <2>1. \A s \in SUBSET T : iter[s] = IF s = {} THEN base ELSE g[iter[s \ {Pick(s)}]][Pick(s)]
    BY <1>4, <1>5
  <2> QED BY <2>1 DEF Folds
<1> QED BY <1>6

\* What holds at first and is kept by every application holds in the end; holds[s]
\* is what holds once the elements of s are done.
LEMMA FoldKeeps ==
  ASSUME NEW S, IsFiniteSet(S), NEW base, NEW g, NEW holds, base \in holds[{}],
         \A s \in SUBSET S, x \in S : \A b \in holds[s] : g[b][x] \in holds[s \cup {x}]
  PROVE  Fold(g, base, S) \in holds[S]
<1> DEFINE f == CHOOSE iter : Folds(iter, g, base, S)
<1>1. Fold(g, base, S) = f[S]
  BY DEF Fold, FoldSet, MapThenFoldSet, Folds, Pick
<1>2. Folds(f, g, base, S)
  BY FoldExists
<1> HIDE DEF f
<1> DEFINE F == {s \in SUBSET S : f[s] \notin holds[s]}
<1>3. F = {}
  <2> SUFFICES ASSUME F # {} PROVE FALSE
    OBVIOUS
  <2>1. PICK s \in F : \A u \in SUBSET s : u \in F => u = s
    <3> HIDE DEF F
    <3>1. F \in SUBSET SUBSET S
      BY DEF F
    <3> QED BY <3>1, SmallestSet
  <2>2. f[s] = IF s = {} THEN base ELSE g[f[s \ {Pick(s)}]][Pick(s)]
    BY <1>2 DEF Folds
  <2>3. CASE s # {}
    <3> DEFINE x == Pick(s)
               rest == s \ {x}
    <3>1. x \in s /\ rest \in SUBSET s /\ rest # s /\ rest \cup {x} = s
      BY <2>3, PickIsIn
    <3>2. f[rest] \in holds[rest]
      BY <2>1, <3>1
    <3>3. f[s] = g[f[rest]][x]
      BY <2>2, <2>3
    <3> HIDE DEF rest, x
    <3>4. x \in S /\ rest \in SUBSET S
      BY <3>1
    <3>5. g[f[rest]][x] \in holds[rest \cup {x}]
      BY <3>2, <3>4
    <3> QED BY <3>1, <3>3, <3>5
  <2> QED BY <2>2, <2>3
<1> QED BY <1>1, <1>3

\* Two folds are the same when what they apply agrees wherever they get.
LEMMA FoldsAgree ==
  ASSUME NEW S, IsFiniteSet(S), NEW base, NEW g, NEW h, NEW good, base \in good,
         \A x \in S : \A b \in good : g[b][x] \in good /\ g[b][x] = h[b][x]
  PROVE  Fold(g, base, S) = Fold(h, base, S)
<1> DEFINE f == CHOOSE iter : Folds(iter, g, base, S)
           e == CHOOSE iter : Folds(iter, h, base, S)
<1>1. Fold(g, base, S) = f[S] /\ Fold(h, base, S) = e[S]
  BY DEF Fold, FoldSet, MapThenFoldSet, Folds, Pick
<1>2. Folds(f, g, base, S) /\ Folds(e, h, base, S)
  BY FoldExists
<1> HIDE DEF f, e
<1> DEFINE F == {s \in SUBSET S : ~(f[s] \in good /\ f[s] = e[s])}
<1>3. F = {}
  <2> SUFFICES ASSUME F # {} PROVE FALSE
    OBVIOUS
  <2>1. PICK s \in F : \A u \in SUBSET s : u \in F => u = s
    <3> HIDE DEF F
    <3>1. F \in SUBSET SUBSET S
      BY DEF F
    <3> QED BY <3>1, SmallestSet
  <2>2. /\ f[s] = IF s = {} THEN base ELSE g[f[s \ {Pick(s)}]][Pick(s)]
        /\ e[s] = IF s = {} THEN base ELSE h[e[s \ {Pick(s)}]][Pick(s)]
    BY <1>2 DEF Folds
  <2>3. CASE s # {}
    <3> DEFINE x == Pick(s)
               rest == s \ {x}
    <3>1. x \in s /\ rest \in SUBSET s /\ rest # s
      BY <2>3, PickIsIn
    <3>2. f[rest] \in good /\ f[rest] = e[rest]
      BY <2>1, <3>1
    <3>3. f[s] = g[f[rest]][x] /\ e[s] = h[e[rest]][x]
      BY <2>2, <2>3
    <3> HIDE DEF rest, x
    <3> QED BY <3>1, <3>2, <3>3
  <2> QED BY <2>2, <2>3
<1> QED BY <1>1, <1>3
-----------------------------------------------------------------------------
(* The search *)

IsPlan(list) == list \in Seq({list[i] : i \in DOMAIN list})

LEMMA TasksAreFinite ==
  ASSUME NEW list, IsPlan(list)
  PROVE  /\ IsFiniteSet(TaskIds(list))
         /\ KnownDependencies(list) =>
              \A t \in TaskIds(list) : DependenciesOf(list, t) \in SUBSET TaskIds(list)
<1>1. DOMAIN list = 1..Len(list) /\ Len(list) \in Nat
  BY DEF IsPlan
<1> DEFINE name == [i \in 1..Len(list) |-> list[i].task]
<1>2. name \in Surjection(1..Len(list), TaskIds(list))
  BY <1>1 DEF TaskIds, Surjection
<1>3. IsFiniteSet(1..Len(list))
  BY <1>1, FS_Interval
<1>4. IsFiniteSet(TaskIds(list))
  <2> HIDE DEF name
  <2> QED BY <1>2, <1>3, FS_Surjection
<1>5. ASSUME KnownDependencies(list), NEW t \in TaskIds(list)
      PROVE  DependenciesOf(list, t) \in SUBSET TaskIds(list)
  <2>1. \E i \in DOMAIN list : list[i].task = t
    BY DEF TaskIds
  <2> DEFINE k == CHOOSE i \in DOMAIN list : list[i].task = t
  <2>2. k \in DOMAIN list
    BY <2>1
  <2> HIDE DEF k
  <2>3. list[k].deps \in SUBSET TaskIds(list)
    BY <1>5, <2>2 DEF KnownDependencies
  <2> QED BY <2>3 DEF DependenciesOf, k
<1> QED BY <1>4, <1>5

\* What visiting a task makes of a search, if f tells it of the visits below.
Visited(list, f, search, t) ==
  IF search.cycle \/ t \in search.visiting THEN [search EXCEPT !.cycle = TRUE]
  ELSE IF t \in search.visited THEN search
  ELSE LET below == Fold(f, Entered(search, t), DependenciesOf(list, t))
       IN IF below.cycle THEN below ELSE Left(below, t)

Visits(list, f) == f = [search \in Searches(list) |-> [t \in TaskIds(list) |-> Visited(list, f, search, t)]]

LEMMA VisitIs == \A list : Visit(list) = CHOOSE f : Visits(list, f)
BY DEF Visit, Visits, Visited, Fold

\* Tasks that are not on the path: the depth that is left.
Depth(list, search) == Cardinality(TaskIds(list) \ search.visiting)

LEMMA DepthShrinks ==
  ASSUME NEW list, IsPlan(list), NEW search \in Searches(list), NEW t \in TaskIds(list)
  PROVE  /\ Depth(list, search) \in Nat /\ Depth(list, search) <= Cardinality(TaskIds(list))
         /\ Entered(search, t) \in Searches(list)
         /\ Entered(search, t).visiting = search.visiting \cup {t}
         /\ Entered(search, t).visited = search.visited
         /\ Entered(search, t).cycle = search.cycle
         /\ t \notin search.visiting => Depth(list, Entered(search, t)) = Depth(list, search) - 1
<1> DEFINE rest == TaskIds(list) \ search.visiting
<1>1. IsFiniteSet(TaskIds(list))
  BY TasksAreFinite
<1>2. rest \in SUBSET TaskIds(list)
  OBVIOUS
<1>3. /\ Entered(search, t) \in Searches(list)
      /\ Entered(search, t).visiting = search.visiting \cup {t}
      /\ Entered(search, t).visited = search.visited
      /\ Entered(search, t).cycle = search.cycle
  BY DEF Entered, Searches
<1>4. t \notin search.visiting => t \in rest
  OBVIOUS
<1>5. TaskIds(list) \ Entered(search, t).visiting = rest \ {t}
  BY <1>3
<1> HIDE DEF rest
<1>6. IsFiniteSet(rest) /\ Cardinality(rest) <= Cardinality(TaskIds(list))
  BY <1>1, <1>2, FS_Subset
<1>7. Cardinality(rest) \in Nat
  BY <1>6, FS_CardinalityType
<1>8. t \in rest => Cardinality(rest \ {t}) = Cardinality(rest) - 1
  BY <1>6, FS_RemoveElement
<1> QED BY <1>3, <1>4, <1>5, <1>6, <1>7, <1>8 DEF Depth, rest

\* f is right about the searches of fewer than n tasks that are off the path.
Right(list, f, n) ==
  /\ f \in [Searches(list) -> [TaskIds(list) -> Searches(list)]]
  /\ \A search \in Searches(list), t \in TaskIds(list) :
       /\ search.cycle \/ Depth(list, search) < n => f[search][t] = Visited(list, f, search, t)
       /\ f[search][t].cycle \/ f[search][t].visiting = search.visiting

\* Searches that are back where the visits below a task began.
BackAt(list, search) == {s \in Searches(list) : s.cycle \/ s.visiting = search.visiting}

LEMMA BackAgain ==
  ASSUME NEW list, IsPlan(list), KnownDependencies(list), NEW f, NEW n \in Nat, Right(list, f, n),
         NEW search \in Searches(list), NEW t \in TaskIds(list)
  PROVE  /\ Fold(f, Entered(search, t), DependenciesOf(list, t)) \in BackAt(list, Entered(search, t))
         /\ \A d \in DependenciesOf(list, t), s \in BackAt(list, Entered(search, t)) :
              f[s][d] \in BackAt(list, Entered(search, t))
<1> DEFINE deps == DependenciesOf(list, t)
           start == Entered(search, t)
           back == BackAt(list, start)
           holds == [s \in SUBSET deps |-> back]
<1>1. deps \in SUBSET TaskIds(list) /\ IsFiniteSet(deps)
  BY TasksAreFinite, FS_Subset
<1>2. start \in back
  BY DepthShrinks DEF BackAt
<1>3. ASSUME NEW d \in deps, NEW s \in back PROVE f[s][d] \in back
  <2>1. s \in Searches(list) /\ d \in TaskIds(list) /\ (s.cycle \/ s.visiting = start.visiting)
    BY <1>1 DEF BackAt
  <2> HIDE DEF back, start, deps
  <2>2. f[s][d] \in Searches(list)
    BY <2>1 DEF Right
  <2>3. CASE s.cycle
    <3>1. f[s][d] = [s EXCEPT !.cycle = TRUE]
      BY <2>1, <2>3 DEF Right, Visited
    <3>2. f[s][d].cycle
      BY <2>1, <3>1 DEF Searches
    <3> QED BY <2>2, <3>2 DEF BackAt, back
  <2>4. CASE ~s.cycle
    BY <2>1, <2>2, <2>4 DEF Right, BackAt, back
  <2> QED BY <2>3, <2>4
<1> HIDE DEF back, start, deps
<1>4. Fold(f, start, deps) \in holds[deps]
  <2>1. start \in holds[{}]
    BY <1>2
  <2>2. \A s \in SUBSET deps, d \in deps : \A b \in holds[s] : f[b][d] \in holds[s \cup {d}]
    BY <1>3
  <2> HIDE DEF holds
  <2> QED BY <1>1, <2>1, <2>2, FoldKeeps
<1> QED BY <1>3, <1>4 DEF back, start, deps

LEMMA RightAtFirst ==
  ASSUME NEW list, IsPlan(list)
  PROVE  Right(list, [search \in Searches(list) |-> [t \in TaskIds(list) |-> [search EXCEPT !.cycle = TRUE]]], 0)
<1>1. \A search \in Searches(list) : [search EXCEPT !.cycle = TRUE] \in Searches(list)
                                     /\ [search EXCEPT !.cycle = TRUE].cycle
  BY DEF Searches
<1>2. \A search \in Searches(list), t \in TaskIds(list) : ~(Depth(list, search) < 0)
  BY DepthShrinks
<1> QED BY <1>1, <1>2 DEF Right, Visited

LEMMA RightFurther ==
  ASSUME NEW list, IsPlan(list), KnownDependencies(list), NEW f, NEW n \in Nat, Right(list, f, n)
  PROVE  Right(list, [search \in Searches(list) |-> [t \in TaskIds(list) |-> Visited(list, f, search, t)]], n + 1)
<1> DEFINE h == [search \in Searches(list) |-> [t \in TaskIds(list) |-> Visited(list, f, search, t)]]
<1>1. ASSUME NEW search \in Searches(list), NEW t \in TaskIds(list)
      PROVE  /\ h[search][t] \in Searches(list)
             /\ h[search][t].cycle \/ h[search][t].visiting = search.visiting
  <2> DEFINE below == Fold(f, Entered(search, t), DependenciesOf(list, t))
  <2>1. h[search][t] = Visited(list, f, search, t)
    OBVIOUS
  <2>2. below \in Searches(list) /\ (below.cycle \/ below.visiting = search.visiting \cup {t})
    BY BackAgain, DepthShrinks DEF BackAt
  <2> HIDE DEF below, h
  <2>3. CASE search.cycle \/ t \in search.visiting
    BY <2>1, <2>3 DEF Visited, Searches
  <2>4. CASE ~search.cycle /\ t \notin search.visiting /\ t \in search.visited
    BY <2>1, <2>4 DEF Visited
  <2>5. CASE ~search.cycle /\ t \notin search.visiting /\ t \notin search.visited
    <3>1. h[search][t] = IF below.cycle THEN below ELSE Left(below, t)
      BY <2>1, <2>5 DEF Visited, below
    <3>2. CASE below.cycle
      BY <2>2, <3>1, <3>2
    <3>3. CASE ~below.cycle
      <4>1. Left(below, t) \in Searches(list) /\ Left(below, t).visiting = below.visiting \ {t}
        BY <2>2 DEF Left, Searches
      <4> QED BY <2>2, <2>5, <3>1, <3>3, <4>1
    <3> QED BY <3>2, <3>3
  <2> QED BY <2>3, <2>4, <2>5
<1>2. ASSUME NEW search \in Searches(list), NEW t \in TaskIds(list),
             search.cycle \/ Depth(list, search) < n + 1
      PROVE  Visited(list, f, search, t) = Visited(list, h, search, t)
  <2> DEFINE deps == DependenciesOf(list, t)
             start == Entered(search, t)
             back == BackAt(list, start)
  <2>1. CASE search.cycle \/ t \in search.visiting
    BY <2>1 DEF Visited
  <2>2. CASE ~search.cycle /\ t \notin search.visiting
    <3>1. Depth(list, start) < n /\ start \in back
      <4>1. Depth(list, search) \in Nat /\ Depth(list, start) = Depth(list, search) - 1 /\ start \in Searches(list)
        BY <2>2, DepthShrinks
      <4>2. Depth(list, search) < n + 1
        BY <1>2, <2>2
      <4> QED BY <4>1, <4>2 DEF BackAt
    <3>2. deps \in SUBSET TaskIds(list) /\ IsFiniteSet(deps)
      BY TasksAreFinite, FS_Subset
    <3>3. ASSUME NEW d \in deps, NEW s \in back PROVE f[s][d] \in back /\ f[s][d] = h[s][d]
      <4>1. s \in Searches(list) /\ (s.cycle \/ s.visiting = start.visiting) /\ d \in TaskIds(list)
        BY <3>2 DEF BackAt
      <4>2. s.cycle \/ Depth(list, s) < n
        BY <3>1, <4>1 DEF Depth
      <4>3. f[s][d] = Visited(list, f, s, d)
        BY <4>1, <4>2 DEF Right
      <4> QED BY <4>1, <4>3, BackAgain
    <3> HIDE DEF deps, start, back, h
    <3>4. Fold(f, start, deps) = Fold(h, start, deps)
      BY <3>1, <3>2, <3>3, FoldsAgree
    <3> QED BY <2>2, <3>4 DEF Visited, deps, start
  <2> QED BY <2>1, <2>2
<1>3. h \in [Searches(list) -> [TaskIds(list) -> Searches(list)]]
  BY <1>1
<1> QED BY <1>1, <1>2, <1>3 DEF Right

LEMMA VisitExists ==
  ASSUME NEW list, IsPlan(list), KnownDependencies(list)
  PROVE  Visits(list, Visit(list))
<1> DEFINE missing == {n \in Nat : ~\E f : Right(list, f, n)}
           all == Cardinality(TaskIds(list)) + 1
<1>1. missing = {}
  <2> SUFFICES ASSUME missing # {} PROVE FALSE
    OBVIOUS
  <2>1. PICK n \in missing : \A m \in missing : n <= m
    <3> HIDE DEF missing
    <3>1. missing \subseteq Nat
      BY DEF missing
    <3> QED BY <3>1, LeastNumber
  <2>2. n # 0
    BY RightAtFirst
  <2>3. n - 1 \in Nat /\ n - 1 \notin missing /\ (n - 1) + 1 = n
    BY <2>1, <2>2
  <2>4. PICK f : Right(list, f, n - 1)
    BY <2>3
  <2>5. \E h : Right(list, h, (n - 1) + 1)
    <3> HIDE DEF missing
    <3> QED BY <2>3, <2>4, RightFurther
  <2> QED BY <2>3, <2>5
<1>2. all \in Nat
  BY TasksAreFinite, FS_CardinalityType
<1>3. PICK f : Right(list, f, all)
  <2> HIDE DEF all
  <2> QED BY <1>1, <1>2
<1>4. \A search \in Searches(list), t \in TaskIds(list) : f[search][t] = Visited(list, f, search, t)
  <2>1. Cardinality(TaskIds(list)) \in Nat
    BY TasksAreFinite, FS_CardinalityType
  <2>2. \A search \in Searches(list), t \in TaskIds(list) : Depth(list, search) < all
    BY <2>1, DepthShrinks
  <2> HIDE DEF all
  <2> QED BY <1>3, <2>2 DEF Right
<1>5. Visits(list, f)
  <2>1. f \in [Searches(list) -> [TaskIds(list) -> Searches(list)]]
    BY <1>3 DEF Right
  <2>2. \A search \in Searches(list) : f[search] = [t \in TaskIds(list) |-> Visited(list, f, search, t)]
    BY <1>4, <2>1
  <2> QED BY <2>1, <2>2 DEF Visits
<1> QED BY <1>5, VisitIs

-----------------------------------------------------------------------------
(* What the search finds *)

\* Tasks of which every one waits for another of them.
Circling(list, S) == S # {} /\ \A t \in S : DependenciesOf(list, t) \cap S # {}
Stuck(list) == \E S \in SUBSET TaskIds(list) : Circling(list, S)

\* Tasks whose dependencies are among them, and none of which wait in a circle.
Settled(list, V) ==
  /\ \A t \in V : DependenciesOf(list, t) \subseteq V
  /\ \A S \in SUBSET V : ~Circling(list, S)

\* Every task on the path waits for one on it or for t, which comes next.
LeadsTo(list, path, t) == \A u \in path : DependenciesOf(list, u) \cap (path \cup {t}) # {}

\* What a search may be that started with this path: it met a circle, or is
\* back there and has settled what it visited.
Fine(list, path, V) ==
  {s \in Searches(list) : IF s.cycle THEN Stuck(list)
                          ELSE s.visiting = path /\ Settled(list, s.visited) /\ V \subseteq s.visited}

LEMMA SettledGrows ==
  ASSUME NEW list, NEW V, Settled(list, V), NEW t, DependenciesOf(list, t) \subseteq V
  PROVE  Settled(list, V \cup {t})
<1>1. CASE t \in V
  <2>1. V \cup {t} = V
    BY <1>1
  <2> QED BY <2>1
<1>2. CASE t \notin V
  <2>1. ASSUME NEW S \in SUBSET (V \cup {t}), Circling(list, S) PROVE FALSE
    <3>1. PICK u \in S : u # t
      <4>1. SUFFICES ASSUME S = {t} PROVE FALSE
        BY <2>1 DEF Circling
      <4>2. DependenciesOf(list, t) \cap {t} # {}
        BY <2>1, <4>1 DEF Circling
      <4> QED BY <1>2, <4>2
    <3>2. Circling(list, S \ {t})
      <4>1. ASSUME NEW v \in S \ {t} PROVE DependenciesOf(list, v) \cap (S \ {t}) # {}
        <5>1. DependenciesOf(list, v) \cap S # {}
          BY <2>1 DEF Circling
        <5>2. DependenciesOf(list, v) \subseteq V
          BY DEF Settled
        <5> QED BY <1>2, <5>1, <5>2
      <4> QED BY <3>1, <4>1 DEF Circling
    <3>3. S \ {t} \in SUBSET V
      OBVIOUS
    <3> QED BY <3>2, <3>3 DEF Settled
  <2>2. \A u \in V \cup {t} : DependenciesOf(list, u) \subseteq V \cup {t}
    BY DEF Settled
  <2> QED BY <2>1, <2>2 DEF Settled
<1> QED BY <1>1, <1>2

\* Visits to some tasks that are fine each are fine together.
LEMMA FineTogether ==
  ASSUME NEW list, NEW f, NEW S, IsFiniteSet(S), NEW path, NEW V, NEW start \in Fine(list, path, V),
         \A s \in Fine(list, path, V), t \in S : \A W :
            s \in Fine(list, path, W) => f[s][t] \in Fine(list, path, W \cup {t})
  PROVE  Fold(f, start, S) \in Fine(list, path, V \cup S)
<1> DEFINE holds == [s \in SUBSET S |-> Fine(list, path, V \cup s)]
<1>1. start \in holds[{}]
  <2>1. V \cup {} = V
    OBVIOUS
  <2> QED BY <2>1
<1>2. ASSUME NEW s \in SUBSET S, NEW x \in S, NEW b \in holds[s] PROVE f[b][x] \in holds[s \cup {x}]
  <2>1. b \in Fine(list, path, V \cup s) /\ b \in Fine(list, path, V)
    BY DEF Fine
  <2>2. f[b][x] \in Fine(list, path, (V \cup s) \cup {x})
    BY <2>1
  <2>3. (V \cup s) \cup {x} = V \cup (s \cup {x}) /\ s \cup {x} \in SUBSET S
    OBVIOUS
  <2> QED BY <2>2, <2>3
<1> HIDE DEF holds
<1>3. Fold(f, start, S) \in holds[S]
  BY <1>1, <1>2, FoldKeeps
<1> QED BY <1>3 DEF holds

LEMMA VisitIsFine ==
  ASSUME NEW list, IsPlan(list), KnownDependencies(list),
         NEW search \in Searches(list), NEW t \in TaskIds(list), NEW V,
         LeadsTo(list, search.visiting, t), search \in Fine(list, search.visiting, V)
  PROVE  Visit(list)[search][t] \in Fine(list, search.visiting, V \cup {t})
<1> DEFINE f == Visit(list)
           Claim(s, u) == \A W : /\ LeadsTo(list, s.visiting, u)
                                 /\ s \in Fine(list, s.visiting, W)
                                 => f[s][u] \in Fine(list, s.visiting, W \cup {u})
           open == {n \in Nat : \E s \in Searches(list), u \in TaskIds(list) :
                      Depth(list, s) = n /\ ~Claim(s, u)}
<1>1. \A s \in Searches(list), u \in TaskIds(list) : f[s][u] = Visited(list, f, s, u)
  BY VisitExists DEF Visits
<1> HIDE DEF f
<1>2. open = {}
  <2> SUFFICES ASSUME open # {} PROVE FALSE
    OBVIOUS
  <2>1. PICK n \in open : \A m \in open : n <= m
    <3> HIDE DEF open
    <3>1. open \subseteq Nat
      BY DEF open
    <3> QED BY <3>1, LeastNumber
  <2>8. n \in Nat
    OBVIOUS
  <2>2. PICK s \in Searches(list), u \in TaskIds(list) : Depth(list, s) = n /\ ~Claim(s, u)
    BY <2>1
  <2>3. PICK W : /\ LeadsTo(list, s.visiting, u) /\ s \in Fine(list, s.visiting, W)
                 /\ f[s][u] \notin Fine(list, s.visiting, W \cup {u})
    BY <2>2
  <2> DEFINE start == Entered(s, u)
             deps == DependenciesOf(list, u)
             path == start.visiting
             below == Fold(f, start, deps)
  <2>4. CASE s.cycle
    <3>1. f[s][u] = [s EXCEPT !.cycle = TRUE]
      BY <1>1, <2>4 DEF Visited
    <3>2. [s EXCEPT !.cycle = TRUE] \in Searches(list) /\ [s EXCEPT !.cycle = TRUE].cycle
      BY DEF Searches
    <3> QED BY <2>3, <2>4, <3>1, <3>2 DEF Fine
  <2>5. CASE ~s.cycle /\ u \in s.visiting
    <3>1. f[s][u] = [s EXCEPT !.cycle = TRUE]
      BY <1>1, <2>5 DEF Visited
    <3>2. [s EXCEPT !.cycle = TRUE] \in Searches(list) /\ [s EXCEPT !.cycle = TRUE].cycle
      BY DEF Searches
    <3>3. Circling(list, s.visiting)
      <4>1. s.visiting \cup {u} = s.visiting
        BY <2>5
      <4> QED BY <2>3, <2>5, <4>1 DEF LeadsTo, Circling
    <3>4. s.visiting \in SUBSET TaskIds(list)
      BY DEF Searches
    <3> QED BY <2>3, <3>1, <3>2, <3>3, <3>4 DEF Fine, Stuck
  <2>6. CASE ~s.cycle /\ u \notin s.visiting /\ u \in s.visited
    <3>1. f[s][u] = s
      BY <1>1, <2>6 DEF Visited
    <3> QED BY <2>3, <2>6, <3>1 DEF Fine
  <2>7. CASE ~s.cycle /\ u \notin s.visiting /\ u \notin s.visited
    <3>1. /\ start \in Searches(list) /\ ~start.cycle /\ path = s.visiting \cup {u}
          /\ start.visited = s.visited /\ Depth(list, start) \in Nat /\ Depth(list, start) < n
      <4>1. Depth(list, start) = n - 1 /\ Depth(list, start) \in Nat /\ start \in Searches(list)
        BY <2>2, <2>7, DepthShrinks
      <4>2. start.cycle = s.cycle /\ path = s.visiting \cup {u} /\ start.visited = s.visited
        <5> HIDE DEF open
        <5> QED BY DepthShrinks
      <4> HIDE DEF start, path, open
      <4> QED BY <2>7, <2>8, <4>1, <4>2
    <3>2. deps \in SUBSET TaskIds(list) /\ IsFiniteSet(deps)
      BY TasksAreFinite, FS_Subset
    <3>3. f[s][u] = IF below.cycle THEN below ELSE Left(below, u)
      BY <1>1, <2>7 DEF Visited
    <3>4. start \in Fine(list, path, W)
      BY <2>3, <2>7, <3>1 DEF Fine
    <3>5. ASSUME NEW b \in Fine(list, path, W), NEW d \in deps, NEW X, b \in Fine(list, path, X)
          PROVE  f[b][d] \in Fine(list, path, X \cup {d})
      <4>1. b \in Searches(list) /\ d \in TaskIds(list)
        BY <3>2 DEF Fine
      <4>2. CASE b.cycle
        <5>1. f[b][d] = [b EXCEPT !.cycle = TRUE]
          BY <1>1, <4>1, <4>2 DEF Visited
        <5>2. [b EXCEPT !.cycle = TRUE] \in Searches(list) /\ [b EXCEPT !.cycle = TRUE].cycle
          BY <4>1 DEF Searches
        <5> QED BY <4>2, <5>1, <5>2 DEF Fine
      <4>3. CASE ~b.cycle
        <5>1. b.visiting = path
          BY <4>3 DEF Fine
        <5>2. LeadsTo(list, path, d)
          <6>1. ASSUME NEW v \in path PROVE DependenciesOf(list, v) \cap (path \cup {d}) # {}
            <7>1. CASE v = u
              BY <7>1
            <7>2. CASE v \in s.visiting
              BY <2>3, <3>1, <7>2 DEF LeadsTo
            <7> QED BY <3>1, <7>1, <7>2
          <6> QED BY <6>1 DEF LeadsTo
        <5>3. Depth(list, b) = Depth(list, start)
          BY <5>1 DEF Depth
        <5>4. Claim(b, d)
          <6>1. Depth(list, b) \in Nat /\ ~(n <= Depth(list, b))
            <7> HIDE DEF start, path, open
            <7> QED BY <2>8, <3>1, <5>3
          <6>2. Depth(list, b) \notin open
            <7> HIDE DEF open
            <7> QED BY <2>1, <6>1
          <6> HIDE DEF Claim
          <6> QED BY <4>1, <6>1, <6>2
        <5> HIDE DEF path
        <5> QED BY <3>5, <5>1, <5>2, <5>4
      <4> QED BY <4>2, <4>3
    <3>6. below \in Fine(list, path, W \cup deps)
      <4> HIDE DEF path, start, deps, Claim, open
      <4> QED BY <3>2, <3>4, <3>5, FineTogether
    <3>7. CASE below.cycle
      <4>1. below \in Fine(list, s.visiting, W \cup {u})
        <5> HIDE DEF below
        <5> QED BY <3>6, <3>7 DEF Fine
      <4> QED BY <2>3, <3>3, <3>7, <4>1
    <3>8. CASE ~below.cycle
      <4>1. /\ below \in Searches(list) /\ below.visiting = s.visiting \cup {u}
            /\ Settled(list, below.visited) /\ W \subseteq below.visited /\ deps \subseteq below.visited
        <5> HIDE DEF below, deps, path
        <5> QED BY <3>1, <3>6, <3>8 DEF Fine
      <4>2. f[s][u] = Left(below, u)
        BY <3>3, <3>8
      <4> HIDE DEF below
      <4>3. /\ Left(below, u) \in Searches(list) /\ Left(below, u).visiting = s.visiting
            /\ Left(below, u).visited = below.visited \cup {u} /\ ~Left(below, u).cycle
        BY <2>7, <3>8, <4>1 DEF Left, Searches
      <4>4. Settled(list, below.visited \cup {u})
        BY <4>1, SettledGrows
      <4> QED BY <2>3, <4>1, <4>2, <4>3, <4>4 DEF Fine
    <3> QED BY <3>7, <3>8
  <2> QED BY <2>4, <2>5, <2>6, <2>7
<1>3. Depth(list, search) \in Nat
  BY DepthShrinks
<1>4. Claim(search, t)
  <2> HIDE DEF Claim
  <2> QED BY <1>2, <1>3
<1> QED BY <1>4 DEF f

\* The search refuses a graph exactly when some of its tasks wait in a circle.
\* (register_run_plan's visit)
THEOREM SearchFindsCircles ==
  ASSUME NEW list, IsPlan(list), KnownDependencies(list)
  PROVE  Acyclic(list) <=> ~Stuck(list)
<1> DEFINE f == Visit(list)
           T == TaskIds(list)
           end == Fold(f, NewSearch, T)
<1>1. Acyclic(list) <=> ~end.cycle
  BY DEF Acyclic, Fold
<1>2. NewSearch \in Fine(list, {}, {})
  BY DEF NewSearch, Fine, Searches, Settled, Circling
<1>7. \A s \in Searches(list), t \in T : f[s][t] = Visited(list, f, s, t)
  BY VisitExists DEF Visits
<1> HIDE DEF f
<1>3. ASSUME NEW s \in Fine(list, {}, {}), NEW t \in T, NEW W, s \in Fine(list, {}, W)
      PROVE  f[s][t] \in Fine(list, {}, W \cup {t})
  <2>1. s \in Searches(list)
    BY DEF Fine
  <2>2. CASE s.cycle
    <3>1. f[s][t] = [s EXCEPT !.cycle = TRUE]
      BY <1>7, <2>1, <2>2 DEF Visited
    <3>2. [s EXCEPT !.cycle = TRUE] \in Searches(list) /\ [s EXCEPT !.cycle = TRUE].cycle
      BY <2>1 DEF Searches
    <3> QED BY <2>2, <3>1, <3>2 DEF Fine
  <2>3. CASE ~s.cycle
    <3>1. s.visiting = {}
      BY <2>3 DEF Fine
    <3> QED BY <1>3, <2>1, <3>1, VisitIsFine DEF LeadsTo, f
  <2> QED BY <2>2, <2>3
<1>4. end \in Fine(list, {}, {} \cup T)
  <2>1. IsFiniteSet(T)
    BY TasksAreFinite
  <2> HIDE DEF f, T
  <2> QED BY <1>2, <1>3, <2>1, FineTogether
<1> HIDE DEF end
<1>5. CASE end.cycle
  BY <1>1, <1>4, <1>5 DEF Fine
<1>6. CASE ~end.cycle
  BY <1>1, <1>4, <1>6 DEF Fine, Settled, Stuck
<1> QED BY <1>5, <1>6

\* The search accepts exactly the plans that can be carried out.
LEMMA AcceptsTheFeasible ==
  ASSUME NEW list, IsPlan(list)
  PROVE  Accepts(list) <=> Feasible(list)
<1>1. Len(list) > 0 <=> list # <<>>
  BY DEF IsPlan
<1>2. (\A S \in (SUBSET TaskIds(list)) \ {{}} : \E t \in S : DependenciesOf(list, t) \cap S = {}) <=> ~Stuck(list)
  BY DEF Stuck, Circling
<1> QED BY <1>1, <1>2, SearchFindsCircles DEF Accepts, Feasible

-----------------------------------------------------------------------------
(* One plan for all *)

Graphs == {o.graph : o \in Offered} \cup {"none"}
Plans == {o.plan : o \in Offered} \cup {<<>>}
PlannerSteps == {"away", "creating", "validating", "binding", "bound", "refused"}

\* A driver past create_run found its graph in the database, one past the
\* validation has a plan that can be carried out.
BindingInv ==
  /\ PlanTypeOK
  /\ planner \in [Planners -> [at : PlannerSteps, graph : Graphs, plan : Plans]]
  /\ \A p \in Planners :
       /\ planner[p].at \in {"validating", "binding", "bound"} => runGraph = planner[p].graph
       /\ planner[p].at \in {"binding", "bound"} => Feasible(planner[p].plan)
  /\ OnePlanForAll

LEMMA OffersAre ==
  ASSUME NEW p \in Planners, NEW o \in Offers[p]
  PROVE  /\ o.graph \in Graphs \ {"none"} /\ o.plan \in Plans /\ IsPlan(o.plan)
         /\ o = [graph |-> o.graph, plan |-> o.plan]
<1>1. o \in Offered
  BY DEF Offered
<1> QED BY <1>1, OffersAssumption DEF Graphs, Plans, IsPlan

LEMMA BroughtAre ==
  ASSUME BindingInv, NEW p \in Planners, planner[p].at # "away"
  PROVE  /\ planner[p].graph \in Graphs \ {"none"} /\ planner[p].plan \in Plans /\ IsPlan(planner[p].plan)
         /\ [graph |-> planner[p].graph, plan |-> planner[p].plan] \in Offers[p]
<1>1. [graph |-> planner[p].graph, plan |-> planner[p].plan] \in Offers[p]
  BY DEF BindingInv, PlanTypeOK
<1> QED BY <1>1, OffersAre

LEMMA BindingStep ==
  ASSUME BindingInv, [PlanNext]_planVars
  PROVE  BindingInv'
<1>1. ASSUME NEW p \in Planners, NEW offer \in Offers[p], Bring(p, offer) PROVE BindingInv'
  <2>1. planner'[p] = [at |-> "creating", graph |-> offer.graph, plan |-> offer.plan]
    BY <1>1 DEF Bring, BindingInv
  <2>2. \A q \in Planners : q # p => planner'[q] = planner[q]
    BY <1>1 DEF Bring, BindingInv
  <2>3. offer.graph \in Graphs /\ offer.plan \in Plans /\ offer = [graph |-> offer.graph, plan |-> offer.plan]
    BY OffersAre
  <2>4. planner' \in [Planners -> [at : PlannerSteps, graph : Graphs, plan : Plans]]
    BY <1>1, <2>3 DEF Bring, BindingInv, PlannerSteps
  <2> QED BY <1>1, <2>1, <2>2, <2>3, <2>4 DEF Bring, BindingInv, PlanTypeOK, OnePlanForAll
<1>2. ASSUME NEW p \in Planners, NEW to \in PlannerSteps, MovePlanner(p, to)
      PROVE  /\ planner'[p].at = to /\ planner'[p].graph = planner[p].graph /\ planner'[p].plan = planner[p].plan
             /\ \A q \in Planners : q # p => planner'[q] = planner[q]
             /\ planner' \in [Planners -> [at : PlannerSteps, graph : Graphs, plan : Plans]]
  BY <1>2 DEF MovePlanner, BindingInv
<1>3. ASSUME NEW p \in Planners, BindGraph(p) PROVE BindingInv'
  <2>1. /\ planner[p].graph \in Graphs \ {"none"}
        /\ [graph |-> planner[p].graph, plan |-> planner[p].plan] \in Offers[p]
    BY <1>3, BroughtAre DEF BindGraph
  <2>2. \A q \in Planners : planner[q].at # "away" => planner[q].graph # "none"
    BY BroughtAre
  <2>3. CASE runGraph \in {"none", planner[p].graph}
    <3>1. runGraph' = planner[p].graph /\ MovePlanner(p, "validating") /\ rows' = rows
      BY <1>3, <2>3 DEF BindGraph
    <3>2. /\ planner'[p].at = "validating" /\ planner'[p].graph = planner[p].graph /\ planner'[p].plan = planner[p].plan
          /\ \A q \in Planners : q # p => planner'[q] = planner[q]
          /\ planner' \in [Planners -> [at : PlannerSteps, graph : Graphs, plan : Plans]]
      BY <1>2, <3>1 DEF PlannerSteps
    <3>3. \A q \in Planners : planner[q].at \in {"validating", "binding", "bound"} => runGraph' = planner[q].graph
      BY <2>2, <2>3, <3>1 DEF BindingInv
    <3>4. OnePlanForAll'
      BY <3>1, <3>2, <3>3 DEF BindingInv, OnePlanForAll
    <3>5. PlanTypeOK'
      <4>1. runGraph' \in {o.graph : o \in Offered} \cup {"none"}
        BY <2>1, <3>1 DEF Graphs
      <4> QED BY <2>1, <3>1, <3>2, <4>1 DEF BindingInv, PlanTypeOK
    <3>6. \A q \in Planners : planner'[q].at \in {"validating", "binding", "bound"} => runGraph' = planner'[q].graph
      BY <3>1, <3>2, <3>3
    <3>7. \A q \in Planners : planner'[q].at \in {"binding", "bound"} => Feasible(planner'[q].plan)
      BY <3>2 DEF BindingInv
    <3> QED BY <3>2, <3>4, <3>5, <3>6, <3>7 DEF BindingInv
  <2>4. CASE runGraph \notin {"none", planner[p].graph}
    <3>1. runGraph' = runGraph /\ MovePlanner(p, "refused") /\ rows' = rows
      BY <1>3, <2>4 DEF BindGraph
    <3>2. /\ planner'[p].at = "refused" /\ planner'[p].graph = planner[p].graph /\ planner'[p].plan = planner[p].plan
          /\ \A q \in Planners : q # p => planner'[q] = planner[q]
          /\ planner' \in [Planners -> [at : PlannerSteps, graph : Graphs, plan : Plans]]
      BY <1>2, <3>1 DEF PlannerSteps
    <3> QED BY <2>1, <3>1, <3>2 DEF BindingInv, PlanTypeOK, OnePlanForAll
  <2> QED BY <2>3, <2>4
<1>4. ASSUME NEW p \in Planners, Validate(p) PROVE BindingInv'
  <2> DEFINE to == IF Accepts(planner[p].plan) THEN "binding" ELSE "refused"
  <2>1. /\ planner[p].at = "validating" /\ IsPlan(planner[p].plan)
        /\ [graph |-> planner[p].graph, plan |-> planner[p].plan] \in Offers[p]
    BY <1>4, BroughtAre DEF Validate
  <2>2. runGraph' = runGraph /\ rows' = rows /\ MovePlanner(p, to)
    BY <1>4 DEF Validate
  <2>3. to = "binding" => Feasible(planner[p].plan)
    BY <2>1, AcceptsTheFeasible
  <2>4. to \in {"binding", "refused"}
    OBVIOUS
  <2> HIDE DEF to
  <2>5. /\ planner'[p].at = to /\ planner'[p].graph = planner[p].graph /\ planner'[p].plan = planner[p].plan
        /\ \A q \in Planners : q # p => planner'[q] = planner[q]
        /\ planner' \in [Planners -> [at : PlannerSteps, graph : Graphs, plan : Plans]]
    BY <1>2, <2>2, <2>4 DEF PlannerSteps
  <2> QED BY <2>1, <2>2, <2>3, <2>4, <2>5 DEF BindingInv, PlanTypeOK, OnePlanForAll
<1>5. ASSUME NEW p \in Planners, BindPlan(p) PROVE BindingInv'
  <2>1. /\ planner[p].at = "binding" /\ Feasible(planner[p].plan) /\ planner[p].plan \in Plans
        /\ [graph |-> planner[p].graph, plan |-> planner[p].plan] \in Offers[p]
        /\ runGraph = planner[p].graph
    BY <1>5, BroughtAre DEF BindPlan, BindingInv
  <2>2. CASE RowsAgree(planner[p].plan)
    <3>1. runGraph' = runGraph /\ rows' = planner[p].plan /\ MovePlanner(p, "bound")
      BY <1>5, <2>2 DEF BindPlan
    <3>2. /\ planner'[p].at = "bound" /\ planner'[p].graph = planner[p].graph /\ planner'[p].plan = planner[p].plan
          /\ \A q \in Planners : q # p => planner'[q] = planner[q]
          /\ planner' \in [Planners -> [at : PlannerSteps, graph : Graphs, plan : Plans]]
      BY <1>2, <3>1 DEF PlannerSteps
    <3>3. \A q \in Planners : planner[q].at = "bound" => rows' = planner[q].plan
      <4>1. \A q \in Planners : planner[q].at = "bound" => rows = planner[q].plan /\ planner[q].plan # <<>>
        BY DEF BindingInv, OnePlanForAll, Feasible
      <4> QED BY <2>2, <3>1, <4>1 DEF RowsAgree
    <3> QED BY <2>1, <3>1, <3>2, <3>3 DEF BindingInv, PlanTypeOK, OnePlanForAll, Plans
  <2>3. CASE ~RowsAgree(planner[p].plan)
    <3>1. runGraph' = runGraph /\ rows' = rows /\ MovePlanner(p, "refused")
      BY <1>5, <2>3 DEF BindPlan
    <3>2. /\ planner'[p].at = "refused" /\ planner'[p].graph = planner[p].graph /\ planner'[p].plan = planner[p].plan
          /\ \A q \in Planners : q # p => planner'[q] = planner[q]
          /\ planner' \in [Planners -> [at : PlannerSteps, graph : Graphs, plan : Plans]]
      BY <1>2, <3>1 DEF PlannerSteps
    <3> QED BY <2>1, <3>1, <3>2 DEF BindingInv, PlanTypeOK, OnePlanForAll
  <2> QED BY <2>2, <2>3
<1>6. ASSUME NEW p \in Planners, PlannerDies(p) PROVE BindingInv'
  <2>1. planner'[p] = Away /\ \A q \in Planners : q # p => planner'[q] = planner[q]
    BY <1>6 DEF PlannerDies, BindingInv
  <2>2. planner' \in [Planners -> [at : PlannerSteps, graph : Graphs, plan : Plans]]
    BY <1>6 DEF PlannerDies, BindingInv, Away, PlannerSteps, Graphs, Plans
  <2> QED BY <1>6, <2>1, <2>2 DEF PlannerDies, Away, BindingInv, PlanTypeOK, OnePlanForAll
<1>7. CASE UNCHANGED planVars
  BY <1>7 DEF planVars, BindingInv, PlanTypeOK, OnePlanForAll
<1> QED BY <1>1, <1>3, <1>4, <1>5, <1>6, <1>7 DEF PlanNext

\* Whichever drivers open a run, in any order, and whichever die at it: the search
\* refuses exactly the plans no scheduler could finish, and whoever was let
\* through runs the one graph and the one plan of the database.  (create_run,
\* register_run_plan)
THEOREM OnePlanEver == PlanSpec => []PlanInv
<1>1. PlanInit => BindingInv
  BY DEF PlanInit, BindingInv, PlanTypeOK, OnePlanForAll, Away, PlannerSteps, Graphs, Plans
<1>2. BindingInv /\ [PlanNext]_planVars => BindingInv'
  BY BindingStep
<1>3. BindingInv => PlanInv
  <2>1. ASSUME BindingInv, NEW p \in Planners, planner[p].at = "validating"
        PROVE  Accepts(planner[p].plan) <=> Feasible(planner[p].plan)
    BY <2>1, BroughtAre, AcceptsTheFeasible
  <2> QED BY <2>1 DEF PlanInv, SearchIsExact, BindingInv
<1> QED BY <1>1, <1>2, <1>3, PTL DEF PlanSpec
=============================================================================
