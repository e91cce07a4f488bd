------------------------- MODULE ResourcePlanProofs -------------------------
(***************************************************************************)
(* What plan_resources grants fits next to what is running: the cores and  *)
(* the memory that are left after some requests are those that the grants  *)
(* made so far leave, the free cards those that nobody holds.              *)
(*                                                                         *)
(* Totals over sets and the planner's loop are recursive functions.  That  *)
(* the functions exist, and what they add up to, is shown by considering a *)
(* smallest set or number for which it would be otherwise.                 *)
(***************************************************************************)
EXTENDS ResourcePlan, FiniteSetTheorems, WellFoundedInduction, TLAPS

\* Of the numbers in a set there is a least one.
LEMMA LeastNumber ==
  ASSUME NEW S, S \subseteq Nat, S # {}
  PROVE  \E n \in S : \A m \in S : n <= m
<1>1. PICK n \in S : \A m \in S : ~(<<m, n>> \in OpToRel(<, Nat))
  BY NatLessThanWellFounded, WFMin
<1>2. \A m \in S : ~(m < n)
  BY <1>1 DEF OpToRel
<1> QED BY <1>2

\* Of the finite sets in a family there is one that includes none of the others.
LEMMA SmallestSet ==
  ASSUME NEW S, IsFiniteSet(S), NEW F \in SUBSET SUBSET S, F # {}
  PROVE  \E T \in F : \A U \in SUBSET T : U \in F => U = T
<1>1. \A T \in F : IsFiniteSet(T) /\ Cardinality(T) \in Nat
  BY FS_Subset, FS_CardinalityType
<1> DEFINE N == {Cardinality(T) : T \in F}
<1>2. PICK n \in N : \A m \in N : n <= m
  <2> HIDE DEF N
  <2>1. N \in SUBSET Nat /\ N # {}
    BY <1>1 DEF N
  <2> QED BY <2>1, LeastNumber
<1>3. PICK T \in F : Cardinality(T) = n
  OBVIOUS
<1>4. ASSUME NEW U \in SUBSET T, U \in F PROVE U = T
  <2>1. Cardinality(T) <= Cardinality(U)
    BY <1>2, <1>3, <1>4
  <2>2. Cardinality(U) <= Cardinality(T) /\ (Cardinality(T) = Cardinality(U) => T = U)
    BY <1>1, <1>4, FS_Subset
  <2> QED BY <1>1, <1>4, <2>1, <2>2
<1> QED BY <1>4

-----------------------------------------------------------------------------
(* Sums over finite sets *)

Pick(s) == CHOOSE x \in s : TRUE

\* iter adds up the weights w over the subsets of S, one element after another.
AddsUp(iter, S, w) ==
  iter = [s \in SUBSET S |-> IF s = {} THEN 0 ELSE w[Pick(s)] + iter[s \ {Pick(s)}]]

Sum(w, S) == (CHOOSE iter : AddsUp(iter, S, w))[S]

LEMMA PickIsIn == \A s : s # {} => Pick(s) \in s
  BY DEF Pick

\* There is only one way to add up.
LEMMA AddsUpAlike ==
  ASSUME NEW S, IsFiniteSet(S), NEW T, NEW w, NEW f, NEW g, AddsUp(f, S, w), AddsUp(g, T, w)
  PROVE  \A s \in SUBSET S : s \subseteq T => f[s] = g[s]
<1> DEFINE F == {s \in SUBSET S : s \subseteq T /\ f[s] # g[s]}
<1> SUFFICES ASSUME F # {} PROVE FALSE
  OBVIOUS
<1>1. PICK s \in F : \A u \in SUBSET s : u \in F => u = s
  <2> HIDE DEF F
  <2>1. F \in SUBSET SUBSET S
    BY DEF F
  <2> QED BY <2>1, SmallestSet
<1>2. f[s] = IF s = {} THEN 0 ELSE w[Pick(s)] + f[s \ {Pick(s)}]
  BY DEF AddsUp
<1>3. g[s] = IF s = {} THEN 0 ELSE w[Pick(s)] + g[s \ {Pick(s)}]
  BY DEF AddsUp
<1>4. CASE s # {}
  <2>1. s \ {Pick(s)} \in SUBSET s /\ s \ {Pick(s)} # s
    BY <1>4, PickIsIn
  <2>2. f[s \ {Pick(s)}] = g[s \ {Pick(s)}]
    BY <1>1, <2>1
  <2> QED BY <1>2, <1>3, <1>4, <2>2
<1> QED BY <1>2, <1>3, <1>4

\* Whatever is added up can be added up, and is what its first element and the
\* rest add up to.
LEMMA SumExists ==
  ASSUME NEW S, IsFiniteSet(S), NEW w
  PROVE  \E iter : AddsUp(iter, S, w)
<1> DEFINE F == {s \in SUBSET S : ~\E iter : AddsUp(iter, s, w)}
<1> SUFFICES ASSUME F # {} PROVE FALSE
  OBVIOUS
<1>1. PICK T \in F : \A u \in SUBSET T : u \in F => u = T
  <2> HIDE DEF F
  <2>1. F \in SUBSET SUBSET S
    BY DEF F
  <2> QED BY <2>1, SmallestSet
<1>2. \A u \in SUBSET T : u # T => AddsUp(CHOOSE iter : AddsUp(iter, u, w), u, w)
  BY <1>1
<1>3. \A u \in SUBSET T : IsFiniteSet(u)
  BY FS_Subset
<1> DEFINE iter == [s \in SUBSET T |-> IF s = {} THEN 0 ELSE w[Pick(s)] + Sum(w, s \ {Pick(s)})]
<1>4. ASSUME NEW u \in SUBSET T, u # T PROVE iter[u] = Sum(w, u)
  <2> DEFINE below == CHOOSE g : AddsUp(g, u, w)
  <2>1. AddsUp(below, u, w) /\ Sum(w, u) = below[u]
    BY <1>2, <1>4 DEF Sum
  <2> HIDE DEF below
  <2>2. below[u] = IF u = {} THEN 0 ELSE w[Pick(u)] + below[u \ {Pick(u)}]
    BY <2>1 DEF AddsUp
  <2>3. CASE u # {}
    <3> DEFINE rest == u \ {Pick(u)}
           further == CHOOSE g : AddsUp(g, rest, w)
    <3>1. rest \in SUBSET T /\ rest # T /\ rest \in SUBSET u
      BY <1>4, <2>3, PickIsIn
    <3>2. AddsUp(further, rest, w) /\ Sum(w, rest) = further[rest]
      BY <1>2, <3>1 DEF Sum
    <3> HIDE DEF rest, further
    <3>3. below[rest] = further[rest]
      BY <1>3, <2>1, <3>1, <3>2, AddsUpAlike
    <3> QED BY <2>1, <2>2, <2>3, <3>2, <3>3 DEF rest
  <2> QED BY <2>1, <2>2, <2>3
<1>5. ASSUME NEW s \in SUBSET T, s # {} PROVE s \ {Pick(s)} \in SUBSET T /\ s \ {Pick(s)} # T
  BY <1>5, PickIsIn
<1>6. AddsUp(iter, T, w)
  <2>1. \A s \in SUBSET T : iter[s] = IF s = {} THEN 0 ELSE w[Pick(s)] + iter[s \ {Pick(s)}]
    BY <1>4, <1>5
  <2> QED BY <2>1 DEF AddsUp
<1> QED BY <1>6

LEMMA SumOfRest ==
  ASSUME NEW S, IsFiniteSet(S), NEW w
  PROVE  Sum(w, S) = IF S = {} THEN 0 ELSE w[Pick(S)] + Sum(w, S \ {Pick(S)})
<1> DEFINE f == CHOOSE iter : AddsUp(iter, S, w)
       rest == S \ {Pick(S)}
       g == CHOOSE iter : AddsUp(iter, rest, w)
<1>1. AddsUp(f, S, w) /\ Sum(w, S) = f[S]
  BY SumExists DEF Sum
<1>2. IsFiniteSet(rest) /\ rest \in SUBSET S
  BY FS_Subset
<1>3. AddsUp(g, rest, w) /\ Sum(w, rest) = g[rest]
  BY <1>2, SumExists DEF Sum
<1> HIDE DEF f, g
<1>4. f[rest] = g[rest]
  <2> HIDE DEF rest
  <2> QED BY <1>1, <1>2, <1>3, AddsUpAlike
<1>5. f[S] = IF S = {} THEN 0 ELSE w[Pick(S)] + f[rest]
  BY <1>1 DEF AddsUp
<1> QED BY <1>1, <1>3, <1>4, <1>5

LEMMA SumIsInt ==
  ASSUME NEW S, IsFiniteSet(S), NEW w, \A x \in S : w[x] \in Int
  PROVE  Sum(w, S) \in Int
<1> DEFINE F == {s \in SUBSET S : Sum(w, s) \notin Int}
<1> SUFFICES ASSUME F # {} PROVE FALSE
  OBVIOUS
<1>1. PICK s \in F : \A u \in SUBSET s : u \in F => u = s
  <2> HIDE DEF F
  <2>1. F \in SUBSET SUBSET S
    BY DEF F
  <2> QED BY <2>1, SmallestSet
<1>2. Sum(w, s) = IF s = {} THEN 0 ELSE w[Pick(s)] + Sum(w, s \ {Pick(s)})
  BY FS_Subset, SumOfRest
<1>3. CASE s # {}
  <2>1. Pick(s) \in s /\ s \ {Pick(s)} \in SUBSET s /\ s \ {Pick(s)} # s
    BY <1>3, PickIsIn
  <2>2. Sum(w, s \ {Pick(s)}) \in Int /\ w[Pick(s)] \in Int
    BY <1>1, <2>1
  <2> QED BY <1>2, <1>3, <2>2
<1> QED BY <1>2, <1>3

\* Any element may be the first.
LEMMA SumSplits ==
  ASSUME NEW S, IsFiniteSet(S), NEW w, \A y \in S : w[y] \in Int, NEW x \in S
  PROVE  Sum(w, S) = w[x] + Sum(w, S \ {x})
<1> DEFINE F == {s \in SUBSET S : \E y \in s : Sum(w, s) # w[y] + Sum(w, s \ {y})}
<1> SUFFICES ASSUME F # {} PROVE FALSE
  OBVIOUS
<1>1. PICK s \in F : \A u \in SUBSET s : u \in F => u = s
  <2> HIDE DEF F
  <2>1. F \in SUBSET SUBSET S
    BY DEF F
  <2> QED BY <2>1, SmallestSet
<1>2. PICK y \in s : Sum(w, s) # w[y] + Sum(w, s \ {y})
  OBVIOUS
<1> DEFINE p == Pick(s)
<1>3. p \in s
  BY <1>2, PickIsIn
<1>4. \A u \in SUBSET S : IsFiniteSet(u) /\ Sum(w, u) \in Int
  BY FS_Subset, SumIsInt
<1>5. Sum(w, s) = w[p] + Sum(w, s \ {p})
  BY <1>2, <1>4, SumOfRest
<1>6. p # y
  BY <1>2, <1>5
<1> HIDE DEF p
<1>7. \A u \in SUBSET s : u # s => \A z \in u : Sum(w, u) = w[z] + Sum(w, u \ {z})
  BY <1>1
<1>8. Sum(w, s \ {p}) = w[y] + Sum(w, (s \ {p}) \ {y})
  <2>1. s \ {p} \in SUBSET s /\ s \ {p} # s /\ y \in s \ {p}
    BY <1>3, <1>6
  <2> HIDE DEF F
  <2> QED BY <1>7, <2>1
<1> DEFINE r == (s \ {p}) \ {y}
<1>9. Sum(w, s \ {y}) = w[p] + Sum(w, r)
  <2>1. s \ {y} \in SUBSET s /\ s \ {y} # s /\ p \in s \ {y}
    BY <1>3, <1>6
  <2>2. Sum(w, s \ {y}) = w[p] + Sum(w, (s \ {y}) \ {p})
    <3> HIDE DEF F
    <3> QED BY <1>7, <2>1
  <2>3. (s \ {y}) \ {p} = r
    OBVIOUS
  <2> HIDE DEF F, r
  <2> QED BY <2>2, <2>3, Zenon
<1>10. w[p] \in Int /\ w[y] \in Int /\ Sum(w, r) \in Int
  BY <1>3, <1>4
<1>11. Sum(w, s \ {p}) = w[y] + Sum(w, r)
  BY <1>8
<1> HIDE DEF r, F
<1> QED BY <1>2, <1>5, <1>9, <1>10, <1>11

LEMMA SumOfSame ==
  ASSUME NEW S, IsFiniteSet(S), NEW v, NEW w, \A x \in S : v[x] = w[x]
  PROVE  Sum(v, S) = Sum(w, S)
<1> DEFINE F == {s \in SUBSET S : Sum(v, s) # Sum(w, s)}
<1> SUFFICES ASSUME F # {} PROVE FALSE
  OBVIOUS
<1>1. PICK s \in F : \A u \in SUBSET s : u \in F => u = s
  <2> HIDE DEF F
  <2>1. F \in SUBSET SUBSET S
    BY DEF F
  <2> QED BY <2>1, SmallestSet
<1>2. /\ Sum(v, s) = IF s = {} THEN 0 ELSE v[Pick(s)] + Sum(v, s \ {Pick(s)})
      /\ Sum(w, s) = IF s = {} THEN 0 ELSE w[Pick(s)] + Sum(w, s \ {Pick(s)})
  BY FS_Subset, SumOfRest
<1>3. CASE s # {}
  <2>1. Pick(s) \in s /\ s \ {Pick(s)} \in SUBSET s /\ s \ {Pick(s)} # s
    BY <1>3, PickIsIn
  <2>2. Sum(v, s \ {Pick(s)}) = Sum(w, s \ {Pick(s)}) /\ v[Pick(s)] = w[Pick(s)]
    BY <1>1, <2>1
  <2> QED BY <1>2, <1>3, <2>2
<1> QED BY <1>2, <1>3

\* Of natural numbers a part adds up to no more than the whole.
LEMMA SumOfPart ==
  ASSUME NEW S, IsFiniteSet(S), NEW w, \A x \in S : w[x] \in Nat, NEW T \in SUBSET S
  PROVE  Sum(w, T) <= Sum(w, S)
<1> DEFINE F == {s \in SUBSET S : T \subseteq s /\ ~(Sum(w, T) <= Sum(w, s))}
<1> SUFFICES ASSUME F # {} PROVE FALSE
  OBVIOUS
<1>1. PICK s \in F : \A u \in SUBSET s : u \in F => u = s
  <2> HIDE DEF F
  <2>1. F \in SUBSET SUBSET S
    BY DEF F
  <2> QED BY <2>1, SmallestSet
<1>2. \A u \in SUBSET S : IsFiniteSet(u) /\ Sum(w, u) \in Int
  BY FS_Subset, SumIsInt
<1>3. PICK x \in s : x \notin T
  BY <1>2
<1>4. Sum(w, s) = w[x] + Sum(w, s \ {x})
  BY <1>2, SumSplits
<1>5. Sum(w, T) <= Sum(w, s \ {x})
  BY <1>1, <1>3
<1>6. w[x] \in Nat /\ Sum(w, s \ {x}) \in Int /\ Sum(w, T) \in Int
  BY <1>2
<1> QED BY <1>4, <1>5, <1>6

-----------------------------------------------------------------------------
(* Totals over grants *)

CoresOf(D) == [grant \in D |-> grant.request.cpu]
MemoryOf(D) == [grant \in D |-> grant.request.memory]

Asks(r) == r.cpu \in Nat /\ r.memory \in Nat /\ r.gpus \in Nat
IsGrants(active) == IsFiniteSet(active) /\ \A grant \in active : Asks(grant.request)

LEMMA TotalsAreSums ==
  ASSUME NEW D, NEW active \in SUBSET D, IsFiniteSet(active)
  PROVE  /\ ActiveCores(active) = Sum(CoresOf(D), active)
         /\ ActiveMemory(active) = Sum(MemoryOf(D), active)
<1>0. \A s \in SUBSET active : s # {} => Pick(s) \in D
  BY PickIsIn
<1>1. ActiveCores(active) = Sum(CoresOf(D), active)
  <2> DEFINE Adds(iter) == iter = [s \in SUBSET active |->
                 IF s = {} THEN 0 ELSE Pick(s).request.cpu + iter[s \ {Pick(s)}]]
             f == CHOOSE iter : Adds(iter)
  <2>1. ActiveCores(active) = f[active]
    BY DEF ActiveCores, MapThenSumSet, MapThenFoldSet, Pick
  <2>2. ASSUME NEW g PROVE Adds(g) <=> AddsUp(g, active, CoresOf(D))
    BY <1>0 DEF AddsUp, CoresOf
  <2>3. \E g : AddsUp(g, active, CoresOf(D))
    BY SumExists
  <2>4. Adds(f)
    <3> HIDE DEF Adds
    <3> QED BY <2>2, <2>3
  <2>5. AddsUp(f, active, CoresOf(D))
    BY <2>2, <2>4
  <2> HIDE DEF f
  <2> DEFINE h == CHOOSE iter : AddsUp(iter, active, CoresOf(D))
  <2>6. AddsUp(h, active, CoresOf(D)) /\ Sum(CoresOf(D), active) = h[active]
    BY <2>3 DEF Sum
  <2> HIDE DEF h
  <2> QED BY <2>1, <2>5, <2>6, AddsUpAlike
<1>2. ActiveMemory(active) = Sum(MemoryOf(D), active)
  <2> DEFINE Adds(iter) == iter = [s \in SUBSET active |->
                 IF s = {} THEN 0 ELSE Pick(s).request.memory + iter[s \ {Pick(s)}]]
             f == CHOOSE iter : Adds(iter)
  <2>1. ActiveMemory(active) = f[active]
    BY DEF ActiveMemory, MapThenSumSet, MapThenFoldSet, Pick
  <2>2. ASSUME NEW g PROVE Adds(g) <=> AddsUp(g, active, MemoryOf(D))
    BY <1>0 DEF AddsUp, MemoryOf
  <2>3. \E g : AddsUp(g, active, MemoryOf(D))
    BY SumExists
  <2>4. Adds(f)
    <3> HIDE DEF Adds
    <3> QED BY <2>2, <2>3
  <2>5. AddsUp(f, active, MemoryOf(D))
    BY <2>2, <2>4
  <2> HIDE DEF f
  <2> DEFINE h == CHOOSE iter : AddsUp(iter, active, MemoryOf(D))
  <2>6. AddsUp(h, active, MemoryOf(D)) /\ Sum(MemoryOf(D), active) = h[active]
    BY <2>3 DEF Sum
  <2> HIDE DEF h
  <2> QED BY <2>1, <2>5, <2>6, AddsUpAlike
<1> QED BY <1>1, <1>2

LEMMA NoGrants == IsGrants({}) /\ ActiveCores({}) = 0 /\ ActiveMemory({}) = 0
<1>1. IsFiniteSet({})
  BY FS_EmptySet
<1>2. Sum(CoresOf({}), {}) = 0 /\ Sum(MemoryOf({}), {}) = 0
  BY <1>1, SumOfRest
<1> QED BY <1>1, <1>2, TotalsAreSums DEF IsGrants

\* One more grant takes what its request asks for.
LEMMA OneMoreGrant ==
  ASSUME NEW active, IsGrants(active), NEW grant, Asks(grant.request), grant \notin active
  PROVE  /\ IsGrants(active \cup {grant})
         /\ ActiveCores(active \cup {grant}) = ActiveCores(active) + grant.request.cpu
         /\ ActiveMemory(active \cup {grant}) = ActiveMemory(active) + grant.request.memory
<1> DEFINE D == active \cup {grant}
<1>1. IsFiniteSet(D) /\ active \in SUBSET D /\ grant \in D /\ D \ {grant} = active
  BY FS_AddElement DEF IsGrants
<1>2. IsGrants(D)
  BY <1>1 DEF IsGrants
<1>3. \A x \in D : CoresOf(D)[x] \in Int /\ MemoryOf(D)[x] \in Int
  BY <1>2 DEF IsGrants, Asks, CoresOf, MemoryOf
<1>4. CoresOf(D)[grant] = grant.request.cpu /\ MemoryOf(D)[grant] = grant.request.memory
  BY DEF CoresOf, MemoryOf
<1>5. /\ ActiveCores(D) = Sum(CoresOf(D), D) /\ ActiveCores(active) = Sum(CoresOf(D), active)
      /\ ActiveMemory(D) = Sum(MemoryOf(D), D) /\ ActiveMemory(active) = Sum(MemoryOf(D), active)
  BY <1>1, TotalsAreSums DEF IsGrants
<1>6. \A w : (\A x \in D : w[x] \in Int) => Sum(w, D) = w[grant] + Sum(w, D \ {grant})
  <2> HIDE DEF D
  <2> QED BY <1>1, SumSplits
<1>7. \A w : (\A x \in D : w[x] \in Int) => Sum(w, active) \in Int
  BY <1>1, FS_Subset, SumIsInt
<1>8. grant.request.cpu \in Int /\ grant.request.memory \in Int
  BY DEF Asks
<1>9. /\ Sum(CoresOf(D), D) = grant.request.cpu + Sum(CoresOf(D), active)
      /\ Sum(CoresOf(D), active) \in Int
  <2> HIDE DEF D
  <2> QED BY <1>1, <1>3, <1>4, <1>6, <1>7
<1>10. /\ Sum(MemoryOf(D), D) = grant.request.memory + Sum(MemoryOf(D), active)
       /\ Sum(MemoryOf(D), active) \in Int
  <2> HIDE DEF D
  <2> QED BY <1>1, <1>3, <1>4, <1>6, <1>7
<1> HIDE DEF D
<1>11. /\ ActiveCores(D) = ActiveCores(active) + grant.request.cpu
       /\ ActiveMemory(D) = ActiveMemory(active) + grant.request.memory
  BY <1>5, <1>8, <1>9, <1>10
<1> QED BY <1>2, <1>11 DEF D

\* Fewer grants take no more.
LEMMA FewerGrants ==
  ASSUME NEW active, IsGrants(active), NEW some \in SUBSET active
  PROVE  /\ IsGrants(some)
         /\ ActiveCores(some) \in Nat /\ ActiveCores(active) \in Nat
         /\ ActiveMemory(some) \in Nat /\ ActiveMemory(active) \in Nat
         /\ ActiveCores(some) <= ActiveCores(active)
         /\ ActiveMemory(some) <= ActiveMemory(active)
<1>1. IsGrants(some)
  BY FS_Subset DEF IsGrants
<1> DEFINE v == CoresOf(active)
           w == MemoryOf(active)
<1>2. \A x \in active : v[x] \in Nat /\ w[x] \in Nat
  BY DEF IsGrants, Asks, CoresOf, MemoryOf
<1>3. /\ ActiveCores(active) = Sum(v, active) /\ ActiveCores(some) = Sum(v, some)
      /\ ActiveMemory(active) = Sum(w, active) /\ ActiveMemory(some) = Sum(w, some)
  BY <1>1, TotalsAreSums DEF IsGrants
<1> HIDE DEF v, w
<1>4. ASSUME NEW u, \A x \in active : u[x] \in Nat
      PROVE  /\ Sum(u, some) \in Nat /\ Sum(u, active) \in Nat
             /\ Sum(u, some) <= Sum(u, active)
  <2>1. Sum(u, {}) = 0
    BY FS_EmptySet, SumOfRest
  <2>2. Sum(u, {}) <= Sum(u, some) /\ Sum(u, some) <= Sum(u, active)
    BY <1>1, <1>4, SumOfPart DEF IsGrants
  <2>3. Sum(u, some) \in Int /\ Sum(u, active) \in Int
    BY <1>1, <1>4, SumIsInt DEF IsGrants
  <2> QED BY <2>1, <2>2, <2>3
<1> QED BY <1>1, <1>2, <1>3, <1>4

-----------------------------------------------------------------------------
(* The loop of plan_resources *)

\* after holds what is left after each of the first n requests.
Runs(after, host, queue, active, n) ==
  after = [i \in 0..n |-> IF i = 0 THEN Remaining(host, active)
                          ELSE Place(host, after[i - 1], i, queue[i])]

LEMMA RunsAlike ==
  ASSUME NEW host, NEW queue, NEW active, NEW m \in Nat, NEW n \in Nat, m <= n,
         NEW f, NEW g, Runs(f, host, queue, active, m), Runs(g, host, queue, active, n)
  PROVE  \A i \in 0..m : f[i] = g[i]
<1> DEFINE F == {i \in 0..m : f[i] # g[i]}
<1> SUFFICES ASSUME F # {} PROVE FALSE
  OBVIOUS
<1>1. PICK i \in F : \A k \in F : i <= k
  <2>1. F \subseteq Nat
    OBVIOUS
  <2> HIDE DEF F
  <2> QED BY <2>1, LeastNumber
<1>2. /\ f[i] = IF i = 0 THEN Remaining(host, active) ELSE Place(host, f[i - 1], i, queue[i])
      /\ g[i] = IF i = 0 THEN Remaining(host, active) ELSE Place(host, g[i - 1], i, queue[i])
  BY DEF Runs
<1>3. CASE i # 0
  <2>1. i - 1 \in 0..m /\ ~(i <= i - 1)
    BY <1>3
  <2>2. f[i - 1] = g[i - 1]
    BY <1>1, <2>1
  <2> QED BY <1>2, <1>3, <2>2
<1> QED BY <1>2, <1>3

LEMMA RunExists ==
  ASSUME NEW host, NEW queue, NEW active, NEW n \in Nat
  PROVE  \E after : Runs(after, host, queue, active, n)
<1> DEFINE F == {m \in Nat : ~\E after : Runs(after, host, queue, active, m)}
<1> SUFFICES ASSUME F # {} PROVE FALSE
  OBVIOUS
<1>1. PICK m \in F : \A k \in F : m <= k
  <2>1. F \subseteq Nat
    OBVIOUS
  <2> HIDE DEF F
  <2> QED BY <2>1, LeastNumber
<1>2. CASE m = 0
  <2> DEFINE after == [i \in 0..0 |-> Remaining(host, active)]
  <2>1. after = [i \in 0..0 |-> IF i = 0 THEN Remaining(host, active)
                                ELSE Place(host, after[i - 1], i, queue[i])]
    OBVIOUS
  <2>2. Runs(after, host, queue, active, 0)
    BY <2>1 DEF Runs
  <2> QED BY <1>2, <2>2
<1>3. CASE m # 0
  <2>1. m - 1 \in Nat /\ m - 1 \notin F
    BY <1>1, <1>3
  <2>2. PICK f : Runs(f, host, queue, active, m - 1)
    BY <2>1
  <2> DEFINE after == [i \in 0..m |-> IF i = m THEN Place(host, f[m - 1], m, queue[m]) ELSE f[i]]
  <2>3. \A i \in 0..(m - 1) :
           f[i] = IF i = 0 THEN Remaining(host, active) ELSE Place(host, f[i - 1], i, queue[i])
    BY <2>2 DEF Runs
  <2>4. ASSUME NEW i \in 0..m
        PROVE  after[i] = IF i = 0 THEN Remaining(host, active)
                          ELSE Place(host, after[i - 1], i, queue[i])
    BY <1>3, <2>3
  <2>5. Runs(after, host, queue, active, m)
    BY <2>4 DEF Runs
  <2> QED BY <2>5
<1> QED BY <1>2, <1>3

\* After, unrolled.
LEMMA AfterSteps ==
  ASSUME NEW host, NEW queue, NEW active
  PROVE  /\ After(host, queue, active, 0) = Remaining(host, active)
         /\ \A n \in Nat \ {0} : After(host, queue, active, n)
                                  = Place(host, After(host, queue, active, n - 1), n, queue[n])
<1> DEFINE f(n) == CHOOSE after : Runs(after, host, queue, active, n)
<1>1. ASSUME NEW n \in Nat
      PROVE  Runs(f(n), host, queue, active, n) /\ After(host, queue, active, n) = f(n)[n]
  <2>1. Runs(f(n), host, queue, active, n)
    BY RunExists
  <2>2. After(host, queue, active, n) = f(n)[n]
    BY DEF After, Runs
  <2> QED BY <2>1, <2>2
<1> HIDE DEF f
<1>2. After(host, queue, active, 0) = Remaining(host, active)
  BY <1>1 DEF Runs
<1>3. ASSUME NEW n \in Nat \ {0}
      PROVE  After(host, queue, active, n) = Place(host, After(host, queue, active, n - 1), n, queue[n])
  <2>1. f(n)[n] = Place(host, f(n)[n - 1], n, queue[n])
    BY <1>1 DEF Runs
  <2>2. f(n - 1)[n - 1] = f(n)[n - 1]
    BY <1>1, RunsAlike
  <2> QED BY <1>1, <2>1, <2>2
<1> QED BY <1>2, <1>3

-----------------------------------------------------------------------------
(* What the planner grants *)

\* A host whose cards are numbered and whose capacity can be counted.
CanOffer(host) ==
  UsableCores(host) \in Int /\ MemoryBudget(host) \in Int /\ Cards(host) \subseteq Nat

IsQueue(queue) ==
  /\ Len(queue) \in Nat /\ DOMAIN queue = 1..Len(queue)
  /\ \A i \in 1..Len(queue) : Asks(queue[i])

\* The grants of a plan as those of running attempts; name[i] is the attempt
\* that queue[i] is the request of.
Started(name, queue, grants) ==
  {[holder |-> name[grants[k].index], request |-> queue[grants[k].index],
    cards |-> grants[k].cards] : k \in DOMAIN grants}

\* Every attempt waits once and none of them runs.
Waiting(name, queue, active) ==
  /\ \A i, j \in 1..Len(queue) : name[i] = name[j] => i = j
  /\ \A i \in 1..Len(queue), grant \in active : grant.holder # name[i]

Award(i, cards) == [index |-> i, cards |-> cards]
GrantOf(name, queue, i, cards) == [holder |-> name[i], request |-> queue[i], cards |-> cards]

\* As many cards as the request asks for, each of them large enough.
Suits(host, r, cards) == Cardinality(cards) = r.gpus /\ \A g \in cards : host.cards[g] >= r.vram

\* The request r, i-th in the queue, is given these cards.
Gives(host, left, i, r, next, cards) ==
  /\ cards \subseteq left.free
  /\ next.cores = left.cores - r.cpu /\ next.memory = left.memory - r.memory
  /\ next.free = left.free \ cards
  /\ next.grants = Append(left.grants, Award(i, cards))
  /\ Suits(host, r, cards)

LEMMA LesserOfTwo ==
  ASSUME NEW a \in Int, NEW b \in Int
  PROVE  Min({a, b}) = IF a <= b THEN a ELSE b
BY DEF Min

LEMMA PlaceSteps ==
  ASSUME NEW host, CanOffer(host), NEW left, left.free \subseteq Cards(host), NEW i, NEW r,
         r.gpus \in {0, 1}, Fits(host, left, r), NEW next, next = Place(host, left, i, r)
  PROVE  \E cards : Gives(host, left, i, r, next, cards)
<1> DEFINE fitting == FittingCards(host, left, r)
           cards == IF r.gpus = 0 THEN {} ELSE {Min(fitting)}
<1>1. /\ next.cores = left.cores - r.cpu /\ next.memory = left.memory - r.memory
      /\ next.free = left.free \ cards
      /\ next.grants = Append(left.grants, Award(i, cards))
  BY DEF Place, Award
<1>2. CASE r.gpus = 0
  <2>1. cards = {}
    BY <1>2
  <2>2. Cardinality(cards) = r.gpus
    BY <1>2, <2>1, FS_EmptySet
  <2>3. \A g \in cards : g \in left.free /\ host.cards[g] >= r.vram
    BY <2>1
  <2> HIDE DEF cards
  <2>4. Gives(host, left, i, r, next, cards)
    BY <1>1, <2>2, <2>3 DEF Gives, Suits
  <2> QED BY <2>4
<1>3. CASE r.gpus = 1
  <2>1. fitting # {} /\ fitting \subseteq Nat /\ fitting \subseteq left.free
    BY <1>3 DEF Fits, FittingCards, CanOffer
  <2>2. Min(fitting) \in fitting
    <3> HIDE DEF fitting
    <3> QED BY <2>1, LeastNumber DEF Min
  <2>3. Cardinality(cards) = 1
    <3>1. cards = {Min(fitting)}
      BY <1>3
    <3> HIDE DEF cards, fitting
    <3> QED BY <3>1, FS_Singleton
  <2>4. \A g \in cards : g \in left.free /\ host.cards[g] >= r.vram
    BY <1>3, <2>2 DEF FittingCards
  <2> HIDE DEF cards
  <2>5. Gives(host, left, i, r, next, cards)
    BY <1>1, <1>3, <2>3, <2>4 DEF Gives, Suits
  <2> QED BY <2>5
<1> QED BY <1>2, <1>3

\* The grants of the first n requests.
IsPlanOf(host, queue, n, grants) ==
  /\ grants \in Seq([index : 1..n, cards : SUBSET Cards(host)])
  /\ \A j, k \in 1..Len(grants) : j < k => grants[j].index < grants[k].index
  /\ \A k \in 1..Len(grants) : Suits(host, queue[grants[k].index], grants[k].cards)

LEMMA PlanWidens ==
  ASSUME NEW host, NEW queue, NEW n \in Nat \ {0}, NEW grants, IsPlanOf(host, queue, n - 1, grants)
  PROVE  IsPlanOf(host, queue, n, grants)
<1> DEFINE Sooner == [index : 1..(n - 1), cards : SUBSET Cards(host)]
           Later == [index : 1..n, cards : SUBSET Cards(host)]
<1>1. Sooner \subseteq Later
  <2>1. 1..(n - 1) \subseteq 1..n
    OBVIOUS
  <2> QED BY <2>1
<1>2. grants \in Seq(Sooner)
  BY DEF IsPlanOf
<1>3. grants \in Seq(Later)
  <2> HIDE DEF Sooner, Later
  <2> QED BY <1>1, <1>2
<1> QED BY <1>3 DEF IsPlanOf

\* One request later.
LEMMA PlanGrows ==
  ASSUME NEW host, NEW queue, NEW n \in Nat \ {0}, NEW grants, IsPlanOf(host, queue, n - 1, grants),
         NEW cards \in SUBSET Cards(host), Suits(host, queue[n], cards),
         NEW further, further = Append(grants, Award(n, cards))
  PROVE  IsPlanOf(host, queue, n, further)
<1> DEFINE last == [index |-> n, cards |-> cards]
           Later == [index : 1..n, cards : SUBSET Cards(host)]
<1>1. grants \in Seq(Later) /\ last \in Later
  <2>1. grants \in Seq(Later)
    BY PlanWidens DEF IsPlanOf
  <2>2. last \in Later
    OBVIOUS
  <2> QED BY <2>1, <2>2
<1>2. /\ further \in Seq(Later) /\ Len(further) = Len(grants) + 1 /\ Len(grants) \in Nat
      /\ further[Len(grants) + 1] = last
      /\ \A k \in 1..Len(grants) : further[k] = grants[k]
      /\ DOMAIN further = 1..(Len(grants) + 1) /\ DOMAIN grants = 1..Len(grants)
  <2>1. further = Append(grants, last)
    BY DEF Award
  <2> HIDE DEF last, Later
  <2> QED BY <1>1, <2>1
<1>3. /\ \A k \in 1..Len(grants) : grants[k].index \in 1..(n - 1)
      /\ \A j, k \in 1..Len(grants) : j < k => grants[j].index < grants[k].index
      /\ \A k \in 1..Len(grants) : Suits(host, queue[grants[k].index], grants[k].cards)
  <2> DEFINE Sooner == [index : 1..(n - 1), cards : SUBSET Cards(host)]
  <2>1. grants \in Seq(Sooner)
    BY DEF IsPlanOf
  <2>2. \A k \in 1..Len(grants) : grants[k] \in Sooner
    <3> HIDE DEF Sooner
    <3> QED BY <2>1
  <2> QED BY <2>2 DEF IsPlanOf
<1>4. ASSUME NEW j \in 1..Len(further), NEW k \in 1..Len(further), j < k
      PROVE  further[j].index < further[k].index
  <2>1. j \in 1..Len(grants)
    BY <1>2, <1>4
  <2>2. CASE k \in 1..Len(grants)
    BY <1>2, <1>3, <1>4, <2>1, <2>2
  <2>3. CASE k = Len(grants) + 1
    BY <1>2, <1>3, <2>1, <2>3
  <2> QED BY <1>2, <2>2, <2>3
<1>5. ASSUME NEW k \in 1..Len(further)
      PROVE  Suits(host, queue[further[k].index], further[k].cards)
  <2>1. CASE k \in 1..Len(grants)
    BY <1>2, <1>3, <2>1
  <2>2. CASE k = Len(grants) + 1
    BY <1>2, <2>2
  <2> QED BY <1>2, <2>1, <2>2
<1> QED BY <1>2, <1>4, <1>5 DEF IsPlanOf

LEMMA StartedGrows ==
  ASSUME NEW S, NEW grants \in Seq(S), NEW last \in S, NEW name, NEW queue, NEW g
  PROVE  g \in Started(name, queue, Append(grants, last))
           <=> g \in Started(name, queue, grants) \/ g = GrantOf(name, queue, last.index, last.cards)
<1> DEFINE further == Append(grants, last)
           At(s, k) == GrantOf(name, queue, s[k].index, s[k].cards)
<1>1. /\ \A k \in 1..Len(grants) : further[k] = grants[k]
      /\ further[Len(grants) + 1] = last /\ Len(grants) \in Nat
      /\ DOMAIN further = 1..(Len(grants) + 1) /\ DOMAIN grants = 1..Len(grants)
  OBVIOUS
<1> HIDE DEF further
<1>2. g \in Started(name, queue, further) <=> \E k \in 1..(Len(grants) + 1) : g = At(further, k)
  BY <1>1 DEF Started, GrantOf
<1>3. g \in Started(name, queue, grants) <=> \E k \in 1..Len(grants) : g = At(grants, k)
  BY <1>1 DEF Started, GrantOf
<1>4. \A k \in 1..Len(grants) : At(further, k) = At(grants, k)
  BY <1>1
<1>5. At(further, Len(grants) + 1) = GrantOf(name, queue, last.index, last.cards)
  BY <1>1
<1>6. \A k : k \in 1..(Len(grants) + 1) <=> k \in 1..Len(grants) \/ k = Len(grants) + 1
  BY <1>1
<1> HIDE DEF At
<1>7. g \in Started(name, queue, further)
        <=> g \in Started(name, queue, grants) \/ g = GrantOf(name, queue, last.index, last.cards)
  BY <1>2, <1>3, <1>4, <1>5, <1>6
<1> QED BY <1>7 DEF further

\* Inputs the planner accepts.
Plannable(host, queue, active, name) ==
  /\ CanOffer(host) /\ IsQueue(queue) /\ IsGrants(active) /\ Waiting(name, queue, active)
  /\ ~Refused(host, queue, active)

\* What runs once the grants of the first n requests have been started.
Now(host, queue, active, name, n) ==
  active \cup Started(name, queue, After(host, queue, active, n).grants)

\* The planner's books are right and what it granted fits.
Balanced(host, queue, active, name, n) ==
  LET left == After(host, queue, active, n)
      now == Now(host, queue, active, name, n)
  IN /\ IsPlanOf(host, queue, n, left.grants)
     /\ IsGrants(now)
     /\ left.cores = UsableCores(host) - ActiveCores(now)
     /\ left.memory = MemoryBudget(host) - ActiveMemory(now)
     /\ left.free = Cards(host) \ ActiveCards(now)
     /\ ~OverCommitted(host, now) /\ ~CardsClaimedTwice(now)

\* Place looks at what is left, not at the grants that left it.
LEMMA FitsAlike ==
  ASSUME NEW host, NEW queue, NEW active, NEW name, NEW n, Balanced(host, queue, active, name, n), NEW r
  PROVE  Fits(host, After(host, queue, active, n), r)
           <=> Fits(host, Remaining(host, Now(host, queue, active, name, n)), r)
<1> DEFINE left == After(host, queue, active, n)
           now == Now(host, queue, active, name, n)
<1>1. left.cores = Remaining(host, now).cores /\ left.memory = Remaining(host, now).memory
      /\ left.free = Remaining(host, now).free
  BY DEF Balanced, Remaining
<1> HIDE DEF left, now
<1>2. FittingCards(host, left, r) = FittingCards(host, Remaining(host, now), r)
  BY <1>1 DEF FittingCards
<1>3. Fits(host, left, r) <=> Fits(host, Remaining(host, now), r)
  BY <1>1, <1>2 DEF Fits
<1> QED BY <1>3 DEF left, now

\* One request more or less: it starts if and only if it fits next to what runs
\* and what was granted before it.
LEMMA PlanStep ==
  ASSUME NEW host, NEW queue, NEW active, NEW name, Plannable(host, queue, active, name),
         NEW n \in 1..Len(queue), Balanced(host, queue, active, name, n - 1)
  PROVE  LET before == Now(host, queue, active, name, n - 1)
             now == Now(host, queue, active, name, n)
         IN /\ Balanced(host, queue, active, name, n)
            /\ \/ /\ Fits(host, Remaining(host, before), queue[n])
                  /\ \E cards : now = before \cup {GrantOf(name, queue, n, cards)}
               \/ /\ ~Fits(host, Remaining(host, before), queue[n])
                  /\ now = before
            /\ \A grant \in before : grant.holder # name[n]
<1> DEFINE left == After(host, queue, active, n - 1)
           before == Now(host, queue, active, name, n - 1)
           next == After(host, queue, active, n)
           now == Now(host, queue, active, name, n)
<1>1. n \in Nat \ {0} /\ next = Place(host, left, n, queue[n])
  <2>1. n \in Nat \ {0}
    BY DEF Plannable, IsQueue
  <2> QED BY <2>1, AfterSteps
<1>2. /\ IsPlanOf(host, queue, n - 1, left.grants)
      /\ IsGrants(before)
      /\ left.cores = UsableCores(host) - ActiveCores(before)
      /\ left.memory = MemoryBudget(host) - ActiveMemory(before)
      /\ left.free = Cards(host) \ ActiveCards(before)
      /\ ~OverCommitted(host, before) /\ ~CardsClaimedTwice(before)
  BY DEF Balanced
<1>3. before = active \cup Started(name, queue, left.grants) /\ now = active \cup Started(name, queue, next.grants)
  BY DEF Now
<1>4. Fits(host, left, queue[n]) <=> Fits(host, Remaining(host, before), queue[n])
  BY FitsAlike
<1>5. Balanced(host, queue, active, name, n)
        <=> /\ IsPlanOf(host, queue, n, next.grants)
            /\ IsGrants(now)
            /\ next.cores = UsableCores(host) - ActiveCores(now)
            /\ next.memory = MemoryBudget(host) - ActiveMemory(now)
            /\ next.free = Cards(host) \ ActiveCards(now)
            /\ ~OverCommitted(host, now) /\ ~CardsClaimedTwice(now)
  BY DEF Balanced
<1> HIDE DEF left, before, next, now
<1>6. Asks(queue[n]) /\ queue[n].gpus \in {0, 1}
  BY DEF Plannable, IsQueue, Asks, Refused
<1>7. \A k \in 1..Len(left.grants) : left.grants[k].index \in 1..(n - 1)
  <2> DEFINE Sooner == [index : 1..(n - 1), cards : SUBSET Cards(host)]
  <2>1. left.grants \in Seq(Sooner)
    BY <1>2 DEF IsPlanOf
  <2>2. \A k \in 1..Len(left.grants) : left.grants[k] \in Sooner
    <3> HIDE DEF Sooner
    <3> QED BY <2>1
  <2> QED BY <2>2
<1>8. \A grant \in before : grant.holder # name[n]
  <2>1. \A grant \in active : grant.holder # name[n]
    BY DEF Plannable, Waiting
  <2>2. DOMAIN left.grants = 1..Len(left.grants)
    BY <1>2 DEF IsPlanOf
  <2>3. \A i \in 1..(n - 1) : i \in 1..Len(queue) /\ name[i] # name[n]
    BY DEF Plannable, Waiting, IsQueue
  <2>4. \A grant \in Started(name, queue, left.grants) : grant.holder # name[n]
    BY <1>7, <2>2, <2>3 DEF Started
  <2> QED BY <1>3, <2>1, <2>4
<1>9. CASE ~Fits(host, left, queue[n])
  <2>1. next = left
    BY <1>1, <1>9 DEF Place
  <2>2. now = before
    BY <1>3, <2>1
  <2>3. IsPlanOf(host, queue, n, left.grants)
    BY <1>1, <1>2, PlanWidens
  <2>4. Balanced(host, queue, active, name, n)
    BY <1>2, <1>5, <2>1, <2>2, <2>3
  <2> QED BY <1>4, <1>8, <1>9, <2>2, <2>4 DEF before, now
<1>10. CASE Fits(host, left, queue[n])
  <2>0. PICK cards : Gives(host, left, n, queue[n], next, cards)
    <3>1. CanOffer(host) /\ left.free \subseteq Cards(host)
      BY <1>2 DEF Plannable
    <3> QED BY <1>1, <1>6, <1>10, <3>1, PlaceSteps
  <2>1. /\ cards \subseteq left.free
        /\ next.cores = left.cores - queue[n].cpu /\ next.memory = left.memory - queue[n].memory
        /\ next.free = left.free \ cards
        /\ next.grants = Append(left.grants, Award(n, cards))
        /\ Suits(host, queue[n], cards)
    BY <2>0 DEF Gives
  <2> DEFINE grant == GrantOf(name, queue, n, cards)
  <2>2. /\ IsPlanOf(host, queue, n, next.grants)
        /\ \A g : g \in Started(name, queue, next.grants) <=> g \in Started(name, queue, left.grants) \/ g = grant
    <3> DEFINE further == next.grants
    <3>1. further = Append(left.grants, Award(n, cards)) /\ cards \in SUBSET Cards(host)
      BY <1>2, <2>1
    <3>2. IsPlanOf(host, queue, n - 1, left.grants)
      BY <1>2
    <3> HIDE DEF further
    <3>3. IsPlanOf(host, queue, n, further)
      BY <1>1, <2>1, <3>1, <3>2, PlanGrows
    <3>4. ASSUME NEW g
          PROVE  g \in Started(name, queue, further) <=> g \in Started(name, queue, left.grants) \/ g = grant
      <4> DEFINE S == [index : 1..n, cards : SUBSET Cards(host)]
                 last == Award(n, cards)
      <4>1. left.grants \in Seq(S)
        BY <1>1, <1>2, PlanWidens DEF IsPlanOf
      <4>2. last \in S
        BY <1>1, <3>1 DEF Award
      <4>3. last.index = n /\ last.cards = cards
        BY DEF Award
      <4> HIDE DEF S, last
      <4> QED BY <3>1, <4>1, <4>2, <4>3, StartedGrows DEF last
    <3> QED BY <3>3, <3>4 DEF further
  <2>3. now = before \cup {grant} /\ grant \notin before /\ Asks(grant.request)
    BY <1>3, <1>6, <1>8, <2>2 DEF GrantOf
  <2>4. /\ IsGrants(now)
        /\ ActiveCores(now) = ActiveCores(before) + queue[n].cpu
        /\ ActiveMemory(now) = ActiveMemory(before) + queue[n].memory
    <3>1. grant.request = queue[n]
      BY DEF GrantOf
    <3> HIDE DEF grant
    <3> QED BY <1>2, <2>3, <3>1, OneMoreGrant
  <2>5. ActiveCores(before) \in Nat /\ ActiveMemory(before) \in Nat
    BY <1>2, FewerGrants
  <2>6. /\ next.cores = UsableCores(host) - ActiveCores(now)
        /\ next.memory = MemoryBudget(host) - ActiveMemory(now)
    <3>1. next.cores = left.cores - queue[n].cpu /\ next.memory = left.memory - queue[n].memory
      BY <2>1
    <3>2. queue[n].cpu \in Int /\ queue[n].memory \in Int /\ UsableCores(host) \in Int /\ MemoryBudget(host) \in Int
      BY <1>6 DEF Plannable, CanOffer, Asks
    <3>3. /\ left.cores = UsableCores(host) - ActiveCores(before)
          /\ left.memory = MemoryBudget(host) - ActiveMemory(before)
      BY <1>2
    <3> QED BY <2>4, <2>5, <3>1, <3>2, <3>3
  <2>7. ~OverCommitted(host, now)
    <3>1. queue[n].cpu <= left.cores /\ queue[n].memory <= left.memory
      BY <1>10 DEF Fits
    <3> QED BY <1>2, <1>6, <2>4, <2>5, <3>1 DEF OverCommitted, Plannable, CanOffer, Asks
  <2>8. ActiveCards(now) = ActiveCards(before) \cup cards
    BY <2>3 DEF ActiveCards, GrantOf
  <2>9. next.free = Cards(host) \ ActiveCards(now)
    BY <1>2, <2>1, <2>8
  <2>10. ~CardsClaimedTwice(now)
    <3>1. \A g \in before : g.cards \cap cards = {}
      BY <1>2, <2>1 DEF ActiveCards
    <3>2. grant.cards = cards
      BY DEF GrantOf
    <3> HIDE DEF grant
    <3> QED BY <1>2, <2>3, <3>1, <3>2 DEF CardsClaimedTwice
  <2>11. Balanced(host, queue, active, name, n)
    BY <1>5, <2>2, <2>4, <2>6, <2>7, <2>9, <2>10
  <2> QED BY <1>4, <1>8, <1>10, <2>3, <2>11 DEF before, now
<1> QED BY <1>9, <1>10

LEMMA PlanBalances ==
  ASSUME NEW host, NEW queue, NEW active, NEW name, Plannable(host, queue, active, name)
  PROVE  /\ Now(host, queue, active, name, 0) = active
         /\ \A n \in 0..Len(queue) : Balanced(host, queue, active, name, n)
<1>1. Now(host, queue, active, name, 0) = active /\ After(host, queue, active, 0).grants = << >>
  BY AfterSteps DEF Now, Started, Remaining
<1>2. Balanced(host, queue, active, name, 0)
  <2> DEFINE left == After(host, queue, active, 0)
  <2>1. left = Remaining(host, active)
    BY AfterSteps
  <2>2. IsPlanOf(host, queue, 0, << >>)
    <3>1. << >> \in Seq([index : 1..0, cards : SUBSET Cards(host)]) /\ Len(<< >>) = 0
      OBVIOUS
    <3> QED BY <3>1 DEF IsPlanOf
  <2>3. /\ left.cores = UsableCores(host) - ActiveCores(active)
        /\ left.memory = MemoryBudget(host) - ActiveMemory(active)
        /\ left.free = Cards(host) \ ActiveCards(active)
    BY <2>1 DEF Remaining
  <2>4. IsGrants(active) /\ ~OverCommitted(host, active) /\ ~CardsClaimedTwice(active)
    BY DEF Plannable, Refused
  <2> QED BY <1>1, <2>2, <2>3, <2>4 DEF Balanced
<1> DEFINE F == {n \in 0..Len(queue) : ~Balanced(host, queue, active, name, n)}
<1>3. ASSUME F # {} PROVE FALSE
  <2>0. Len(queue) \in Nat
    BY DEF Plannable, IsQueue
  <2>1. PICK n \in F : \A k \in F : n <= k
    <3>1. F \subseteq Nat
      BY <2>0
    <3> HIDE DEF F
    <3> QED BY <1>3, <3>1, LeastNumber
  <2>2. n # 0
    BY <1>2
  <2>3. n \in 1..Len(queue) /\ n - 1 \in 0..Len(queue) /\ n - 1 \notin F
    BY <2>0, <2>1, <2>2
  <2>4. Balanced(host, queue, active, name, n - 1)
    BY <2>3
  <2> QED BY <2>3, <2>4, PlanStep
<1> QED BY <1>1, <1>3

\* What the first i requests were granted is told from the rest by its holders.
LEMMA NowGrows ==
  ASSUME NEW host, NEW queue, NEW active, NEW name, Plannable(host, queue, active, name),
         NEW n \in 0..Len(queue), NEW i \in 0..n, NEW grant
  PROVE  grant \in Now(host, queue, active, name, i)
           <=> \/ grant \in active
               \/ /\ grant \in Now(host, queue, active, name, n)
                  /\ \E k \in 1..i : grant.holder = name[k]
<1> DEFINE N(k) == Now(host, queue, active, name, k)
           Told(m, j, g) == g \in N(j) <=> g \in active \/ (g \in N(m) /\ \E k \in 1..j : g.holder = name[k])
           F == {m \in 0..Len(queue) : \E j \in 0..m : \E g : ~Told(m, j, g)}
<1>0. Len(queue) \in Nat
  BY DEF Plannable, IsQueue
<1>1. ASSUME F # {} PROVE FALSE
  <2>1. PICK m \in F : \A k \in F : m <= k
    <3>1. F \subseteq Nat
      BY <1>0
    <3> HIDE DEF F
    <3> QED BY <1>1, <3>1, LeastNumber
  <2>2. m \in 0..Len(queue) /\ m \in Nat
    BY <1>0
  <2>0. PICK j \in 0..m : \E g : ~Told(m, j, g)
    BY <2>1
  <2>3. PICK g : ~Told(m, j, g)
    BY <2>0
  <2>4. N(0) = active /\ \A k \in 0..Len(queue) : active \subseteq N(k)
    BY PlanBalances DEF Now
  <2>5. m # 0
    <3> HIDE DEF N
    <3> QED BY <2>3, <2>4
  <2>6. m \in 1..Len(queue) /\ m - 1 \in 0..Len(queue) /\ m - 1 \notin F
    BY <1>0, <2>1, <2>2, <2>5
  <2>7. \A k \in 0..(m - 1) : \A h : Told(m - 1, k, h)
    BY <2>6
  <2>8. \A h \in N(m) : h \in N(m - 1) \/ h.holder = name[m]
    <3>1. Balanced(host, queue, active, name, m - 1)
      BY <2>6, PlanBalances
    <3>2. N(m) = N(m - 1) \/ \E cards : N(m) = N(m - 1) \cup {GrantOf(name, queue, m, cards)}
      BY <2>6, <3>1, PlanStep
    <3> HIDE DEF N
    <3> QED BY <3>2 DEF GrantOf
  <2>9. N(m - 1) \subseteq N(m)
    <3>1. Balanced(host, queue, active, name, m - 1)
      BY <2>6, PlanBalances
    <3>2. N(m) = N(m - 1) \/ \E cards : N(m) = N(m - 1) \cup {GrantOf(name, queue, m, cards)}
      BY <2>6, <3>1, PlanStep
    <3> HIDE DEF N
    <3> QED BY <3>2
  <2>10. \A k \in 1..(m - 1) : name[k] # name[m]
    BY <1>0, <2>6 DEF Plannable, Waiting
  <2> HIDE DEF N, F
  <2>11. CASE j = m
    <3>1. Told(m - 1, m - 1, g)
      BY <2>2, <2>5, <2>7
    <3>2. m \in 1..m /\ \A k \in 1..(m - 1) : k \in 1..m
      BY <2>2, <2>5
    <3> QED BY <2>2, <2>3, <2>4, <2>8, <2>11, <3>1, <3>2
  <2>12. CASE j # m
    <3>1. j \in 0..(m - 1) /\ \A k \in 1..j : k \in 1..(m - 1)
      BY <2>2, <2>3, <2>12
    <3>2. Told(m - 1, j, g)
      BY <2>7, <3>1
    <3> QED BY <2>3, <2>8, <2>9, <2>10, <3>1, <3>2
  <2> QED BY <2>11, <2>12
<1>2. Told(n, i, grant)
  BY <1>1
<1> QED BY <1>2

\* The planner is greedy: a request is granted if and only if it fits next to
\* what runs and what was granted to the requests before it.
LEMMA PlanIsGreedy ==
  ASSUME NEW host, NEW queue, NEW active, NEW name, Plannable(host, queue, active, name),
         NEW i \in 1..Len(queue)
  PROVE  (\E grant \in Now(host, queue, active, name, Len(queue)) : grant.holder = name[i])
           <=> Fits(host, Remaining(host, Now(host, queue, active, name, i - 1)), queue[i])
<1> DEFINE N(k) == Now(host, queue, active, name, k)
           n == Len(queue)
<1>0. n \in Nat /\ n \in 0..n /\ i \in 0..n /\ i - 1 \in 0..n /\ i \in 1..i
  BY DEF Plannable, IsQueue
<1>1. \A g : g \in N(i) <=> g \in active \/ (g \in N(n) /\ \E k \in 1..i : g.holder = name[k])
  BY <1>0, NowGrows
<1>2. active \subseteq N(n)
  BY DEF Now
<1>3. /\ \/ /\ Fits(host, Remaining(host, N(i - 1)), queue[i])
            /\ \E cards : N(i) = N(i - 1) \cup {GrantOf(name, queue, i, cards)}
         \/ /\ ~Fits(host, Remaining(host, N(i - 1)), queue[i])
            /\ N(i) = N(i - 1)
      /\ \A grant \in N(i - 1) : grant.holder # name[i]
  <2>1. Balanced(host, queue, active, name, i - 1)
    BY <1>0, PlanBalances
  <2> QED BY <2>1, PlanStep
<1> HIDE DEF N, n
<1>4. CASE Fits(host, Remaining(host, N(i - 1)), queue[i])
  <2>1. PICK cards : N(i) = N(i - 1) \cup {GrantOf(name, queue, i, cards)}
    BY <1>3, <1>4
  <2>2. GrantOf(name, queue, i, cards) \in N(n) /\ GrantOf(name, queue, i, cards).holder = name[i]
    BY <1>1, <1>2, <2>1 DEF GrantOf
  <2> QED BY <1>4, <2>2 DEF N, n
<1>5. CASE ~Fits(host, Remaining(host, N(i - 1)), queue[i])
  <2>1. \A g \in N(n) : g.holder # name[i]
    BY <1>0, <1>1, <1>3, <1>5
  <2> QED BY <1>5, <2>1 DEF N, n
<1> QED BY <1>4, <1>5
=============================================================================
