------------------------- MODULE TrainingDataProofs -------------------------
(***************************************************************************)
(* Proofs about what a network is trained with: the modules EvalCache,     *)
(* MoveData and Preprocess, whose names are kept apart for this.           *)
(*                                                                         *)
(* EvalCache, for any services, any finite set of positions, any budgets   *)
(* and any number of requests of a call: an answer was searched with all   *)
(* that its requests ask for, and no row in memory becomes shallower.      *)
(*                                                                         *)
(* MoveData, for any games, positions, evaluations and scores: the rows of *)
(* a game are the user's moves, the label of a datum is the slot of the    *)
(* played move, and the bot plays the move that it likes best.             *)
(*                                                                         *)
(* Preprocess, for any games, any ids of moves, pages of any size and any  *)
(* failures: a step that ends without an error has left no row of its      *)
(* source behind, and no step takes away what the engine computed.         *)
(*                                                                         *)
(* Jobs and rows are functions computed by recursion over requests and     *)
(* plies.  What they have is shown by induction, which is stated here for  *)
(* a set of numbers, since a set is a fact's parameter and a formula is    *)
(* not; for the same reason an order is here a set of pairs.               *)
(***************************************************************************)
EXTENDS EvalCache, MoveData, Preprocess, WellFoundedInduction, FiniteSetTheorems, TLAPS

LEMMA CacheConstants ==
  /\ IsFiniteSet(Positions) /\ Plies \subseteq Nat /\ MaxPly \in Nat
  /\ Budgets \subseteq Nat /\ Capacity \in Nat
  /\ MaxBatch \in Nat /\ MaxAsks \in Nat /\ MaxFaults \in Nat
BY CacheAssumption

-----------------------------------------------------------------------------
(* Numbers.                                                                *)

Less == {ss \in Nat \X Nat : ss[1] < ss[2]}

LEMMA LessWellFounded == IsWellFoundedOn(Less, Nat)
<1>1. Less = OpToRel(<, Nat)
  BY Zenon DEF Less, OpToRel
<1> QED BY <1>1, NatLessThanWellFounded, Zenon

LEMMA NatSmallest ==
  ASSUME NEW T \in SUBSET Nat, T # {}
  PROVE  \E x \in T : \A y \in T : x <= y
<1>1. PICK x \in T : \A y \in T : ~(<<y, x>> \in Less)
  BY LessWellFounded, WFMin
<1>2. \A y \in T : ~(y < x)
  BY <1>1 DEF Less
<1> QED BY <1>1, <1>2

\* A set with 0 and the successors of its elements has every number.
LEMMA NumbersByInduction ==
  ASSUME NEW T, 0 \in T, \A n \in Nat : n \in T => n + 1 \in T
  PROVE  Nat \subseteq T
<1> SUFFICES ASSUME NEW m \in Nat, m \notin T PROVE FALSE
  OBVIOUS
<1> DEFINE S == {n \in Nat : n \notin T}
<1>1. PICK x \in S : \A y \in S : x <= y
  <2>1. S # {} /\ S \in SUBSET Nat
    OBVIOUS
  <2> HIDE DEF S
  <2> QED BY <2>1, NatSmallest
<1>2. x # 0
  OBVIOUS
<1>3. x - 1 \in Nat /\ x - 1 \notin S
  BY <1>1, <1>2
<1> QED BY <1>3

\* A set of numbers that has a bound has a greatest one, which is Max.
LEMMA BoundedTop ==
  ASSUME NEW T \in SUBSET Nat, T # {}, NEW b \in Nat, \A x \in T : x <= b
  PROVE  \E z \in T : \A y \in T : z >= y
<1> DEFINE S == {b - x : x \in T}
<1>1. S # {} /\ S \in SUBSET Nat
  <2>1. PICK z \in T : TRUE
    OBVIOUS
  <2>2. b - z \in S
    OBVIOUS
  <2>3. \A x \in T : b - x \in Nat
    OBVIOUS
  <2> QED BY <2>2, <2>3
<1>2. PICK m \in S : \A y \in S : m <= y
  <2> HIDE DEF S
  <2> QED BY <1>1, NatSmallest
<1>3. PICK x \in T : m = b - x
  OBVIOUS
<1>4. \A y \in T : b - x <= b - y
  BY <1>2, <1>3
<1>5. \A y \in T : x >= y
  BY <1>4
<1> QED BY <1>5

LEMMA BoundedMax ==
  ASSUME NEW T \in SUBSET Nat, T # {}, NEW b \in Nat, \A x \in T : x <= b
  PROVE  Max(T) \in T /\ Max(T) <= b
<1>1. \E z \in T : \A y \in T : z >= y
  BY BoundedTop
<1>2. Max(T) \in T
  BY <1>1 DEF Max
<1> QED BY <1>2

LEMMA MaxOfTwo ==
  ASSUME NEW a \in Nat, NEW b \in Nat
  PROVE  Max({a, b}) \in {a, b} /\ Max({a, b}) >= a /\ Max({a, b}) >= b
<1>1. \E z \in {a, b} : \A y \in {a, b} : z >= y
  <2>1. CASE a >= b
    BY <2>1
  <2>2. CASE b >= a
    BY <2>2
  <2> QED BY <2>1, <2>2
<1>2. Max({a, b}) \in {a, b} /\ \A y \in {a, b} : Max({a, b}) >= y
  BY <1>1 DEF Max
<1> QED BY <1>2

LEMMA MinOfTwo ==
  ASSUME NEW a \in Nat, NEW b \in Nat
  PROVE  Min({a, b}) \in {a, b}
<1>1. \E z \in {a, b} : \A y \in {a, b} : z =< y
  <2>1. CASE a >= b
    BY <2>1
  <2>2. CASE b >= a
    BY <2>2
  <2> QED BY <2>1, <2>2
<1> QED BY <1>1 DEF Min

LEMMA MinIs ==
  ASSUME NEW a \in Nat, NEW b \in Nat
  PROVE  (a <= b => Min({a, b}) = a) /\ (~(a <= b) => Min({a, b}) = b)
<1>1. \E z \in {a, b} : \A y \in {a, b} : z =< y
  <2>1. CASE a >= b
    BY <2>1
  <2>2. CASE b >= a
    BY <2>2
  <2> QED BY <2>1, <2>2
<1>2. Min({a, b}) \in {a, b} /\ \A y \in {a, b} : Min({a, b}) =< y
  BY <1>1 DEF Min
<1> QED BY <1>2

-----------------------------------------------------------------------------
(* Tables.                                                                 *)

\* A table of values has them at some of the positions.
Tables(V) == UNION {[P -> V] : P \in SUBSET Positions}

LEMMA TableOf ==
  ASSUME NEW V, NEW f \in Tables(V)
  PROVE  /\ DOMAIN f \in SUBSET Positions /\ f \in [DOMAIN f -> V]
         /\ \A p \in DOMAIN f : f[p] \in V
<1>1. PICK P \in SUBSET Positions : f \in [P -> V]
  BY DEF Tables
<1> QED BY <1>1

LEMMA IsTable ==
  ASSUME NEW V, NEW P \in SUBSET Positions, NEW f \in [P -> V]
  PROVE  f \in Tables(V)
BY DEF Tables

LEMMA EmptyTable == ASSUME NEW V PROVE Empty \in Tables(V) /\ DOMAIN Empty = {}
<1>1. Empty \in [{} -> V]
  BY DEF Empty
<1>2. {} \in SUBSET Positions
  OBVIOUS
<1> QED BY <1>1, <1>2, IsTable

LEMMA OverTable ==
  ASSUME NEW V, NEW f \in Tables(V), NEW g \in Tables(V)
  PROVE  Over(g, f) \in Tables(V)
<1> DEFINE D == DOMAIN g \cup DOMAIN f
<1>1. D \in SUBSET Positions /\ (\A p \in DOMAIN f : f[p] \in V) /\ (\A p \in DOMAIN g : g[p] \in V)
  BY TableOf
<1>2. Over(g, f) \in [D -> V]
  BY <1>1 DEF Over
<1> HIDE DEF D
<1> QED BY <1>1, <1>2, IsTable

LEMMA RestrictTable ==
  ASSUME NEW V, NEW f \in Tables(V), NEW D \in SUBSET DOMAIN f
  PROVE  Restrict(f, D) \in Tables(V)
<1>1. D \in SUBSET Positions /\ \A p \in DOMAIN f : f[p] \in V
  BY TableOf
<1>2. Restrict(f, D) \in [D -> V]
  BY <1>1 DEF Restrict
<1> QED BY <1>1, <1>2, IsTable

-----------------------------------------------------------------------------
(* The jobs of a call.                                                     *)

LEMMA SoonerType ==
  ASSUME NEW a \in Plies, NEW b \in Plies
  PROVE  Sooner(a, b) \in Plies
<1>1. a \in Nat /\ b \in Nat
  BY CacheConstants
<1>2. CASE a = NoPly
  BY <1>2 DEF Sooner
<1>3. CASE a # NoPly /\ b = NoPly
  BY <1>3 DEF Sooner
<1>4. CASE a # NoPly /\ b # NoPly
  <2>1. Sooner(a, b) = Min({a, b})
    BY <1>4 DEF Sooner
  <2> QED BY <1>1, <2>1, MinOfTwo
<1> QED BY <1>2, <1>3, <1>4

Rebudgeted(job, ply, depth, nodes) == [job EXCEPT !.ply = ply, !.depth = depth, !.nodes = nodes]

LEMMA RebudgetedType ==
  ASSUME NEW job \in Request, NEW ply \in Plies, NEW depth \in Budgets, NEW nodes \in Budgets
  PROVE  /\ Rebudgeted(job, ply, depth, nodes) \in Request
         /\ Rebudgeted(job, ply, depth, nodes).pos = job.pos
         /\ Rebudgeted(job, ply, depth, nodes).depth = depth
         /\ Rebudgeted(job, ply, depth, nodes).nodes = nodes
BY DEF Rebudgeted, Request

\* A joined job asks for all that the job and the request asked for.
LEMMA JoinedAsks ==
  ASSUME NEW job \in Request, NEW r \in Request
  PROVE  /\ Joined(job, r) \in Request /\ Joined(job, r).pos = job.pos
         /\ Joined(job, r).depth >= job.depth /\ Joined(job, r).nodes >= job.nodes
         /\ Joined(job, r).depth >= r.depth /\ Joined(job, r).nodes >= r.nodes
<1> DEFINE ply == Sooner(r.ply, job.ply)
           depth == Max({job.depth, r.depth})
           nodes == Max({job.nodes, r.nodes})
<1>1. /\ job.ply \in Plies /\ r.ply \in Plies
      /\ job.depth \in Budgets /\ r.depth \in Budgets /\ job.nodes \in Budgets /\ r.nodes \in Budgets
  BY DEF Request
<1>2. ply \in Plies
  BY <1>1, SoonerType
<1>3. depth \in Budgets /\ depth >= job.depth /\ depth >= r.depth
  BY <1>1, MaxOfTwo, CacheConstants
<1>4. nodes \in Budgets /\ nodes >= job.nodes /\ nodes >= r.nodes
  BY <1>1, MaxOfTwo, CacheConstants
<1>5. Joined(job, r) = [job EXCEPT !.ply = ply, !.depth = depth, !.nodes = nodes]
  BY DEF Joined
<1>6. Joined(job, r) = Rebudgeted(job, ply, depth, nodes)
  BY <1>5 DEF Rebudgeted
<1> HIDE DEF ply, depth, nodes
<1> QED BY <1>2, <1>3, <1>4, <1>6, RebudgetedType

LEMMA JobsOf ==
  ASSUME NEW js \in Tables(Request), NEW p \in DOMAIN js
  PROVE  js[p] \in Request /\ js[p].depth \in Nat /\ js[p].nodes \in Nat
<1>1. js[p] \in Request
  BY TableOf
<1> QED BY <1>1, CacheConstants DEF Request

\* The jobs after one more request.
Grown(before, r) ==
  LET job == IF r.pos \in DOMAIN before THEN Joined(before[r.pos], r) ELSE r
  IN Over([p \in {r.pos} |-> job], before)

LEMMA GrownAsks ==
  ASSUME NEW before \in Tables(Request), NEW r \in Request
  PROVE  /\ Grown(before, r) \in Tables(Request)
         /\ DOMAIN Grown(before, r) = DOMAIN before \cup {r.pos}
         /\ Grown(before, r)[r.pos].depth >= r.depth /\ Grown(before, r)[r.pos].nodes >= r.nodes
         /\ \A p \in DOMAIN before : /\ Grown(before, r)[p].depth >= before[p].depth
                                     /\ Grown(before, r)[p].nodes >= before[p].nodes
<1> DEFINE job == IF r.pos \in DOMAIN before THEN Joined(before[r.pos], r) ELSE r
           one == [p \in {r.pos} |-> job]
<1>1. r.pos \in Positions /\ r.depth \in Nat /\ r.nodes \in Nat
  BY CacheConstants DEF Request
<1>2. \A p \in DOMAIN before : before[p] \in Request
  BY TableOf
<1>3. /\ job \in Request /\ job.depth >= r.depth /\ job.nodes >= r.nodes
      /\ r.pos \in DOMAIN before => job.depth >= before[r.pos].depth /\ job.nodes >= before[r.pos].nodes
  BY <1>1, <1>2, JoinedAsks
<1>4. Grown(before, r) = Over(one, before)
  BY DEF Grown
<1> HIDE DEF job
<1>5. one \in Tables(Request) /\ DOMAIN one = {r.pos} /\ one[r.pos] = job
  <2>1. one \in [{r.pos} -> Request]
    BY <1>3
  <2>2. {r.pos} \in SUBSET Positions
    BY <1>1
  <2> HIDE DEF one
  <2>3. one \in Tables(Request)
    BY <2>1, <2>2, IsTable
  <2> QED BY <2>1, <2>3 DEF one
<1> HIDE DEF one
<1>6. Over(one, before) \in Tables(Request)
  <2>1. one \in Tables(Request)
    BY <1>5
  <2> QED BY <2>1, OverTable
<1>7. \A p \in DOMAIN before : before[p].depth \in Nat /\ before[p].nodes \in Nat
  BY <1>2, CacheConstants DEF Request
<1>8. DOMAIN Grown(before, r) = DOMAIN before \cup {r.pos} /\ Grown(before, r)[r.pos] = job
  BY <1>4, <1>5 DEF Over
<1>9. ASSUME NEW p \in DOMAIN before
      PROVE  Grown(before, r)[p].depth >= before[p].depth /\ Grown(before, r)[p].nodes >= before[p].nodes
  <2>1. CASE p = r.pos
    BY <1>3, <1>8, <2>1
  <2>2. CASE p # r.pos
    <3>1. Grown(before, r)[p] = before[p]
      BY <1>4, <1>5, <2>2 DEF Over
    <3> QED BY <1>7, <3>1
  <2> QED BY <2>1, <2>2
<1> QED BY <1>3, <1>4, <1>6, <1>8, <1>9

\* g has the jobs after each number of requests.
IsGrouping(g, requests) ==
  g = [n \in 0..Len(requests) |-> IF n = 0 THEN Empty ELSE Grown(g[n - 1], requests[n])]

LEMMA GroupRequestsOf ==
  ASSUME NEW requests
  PROVE  GroupRequests(requests) = (CHOOSE g : IsGrouping(g, requests))[Len(requests)]
BY DEF GroupRequests, IsGrouping, Grown

\* The first n of the loop's steps.
IsPart(g, n, requests) ==
  /\ g \in [0..n -> Tables(Request)]
  /\ g[0] = Empty /\ \A k \in 1..n : g[k] = Grown(g[k - 1], requests[k])

LEMMA GroupingExists ==
  ASSUME NEW m \in Nat, NEW requests \in [1..m -> Request], Len(requests) = m
  PROVE  \E g : IsGrouping(g, requests)
<1> DEFINE T == {n \in Nat : n <= m => \E g : IsPart(g, n, requests)}
<1>1. 0 \in T
  <2> DEFINE g == [k \in 0..0 |-> Empty]
  <2>1. g \in [0..0 -> Tables(Request)] /\ g[0] = Empty
    BY EmptyTable
  <2>2. IsPart(g, 0, requests)
    BY <2>1 DEF IsPart
  <2> QED BY <2>2
<1>2. ASSUME NEW n \in Nat, n \in T PROVE n + 1 \in T
  <2> SUFFICES ASSUME n + 1 <= m PROVE \E g : IsPart(g, n + 1, requests)
    OBVIOUS
  <2>1. PICK g : IsPart(g, n, requests)
    BY <1>2
  <2> DEFINE h == [k \in 0..(n + 1) |-> IF k <= n THEN g[k] ELSE Grown(g[n], requests[n + 1])]
  <2>2. g \in [0..n -> Tables(Request)] /\ g[n] \in Tables(Request) /\ requests[n + 1] \in Request
    BY <2>1 DEF IsPart
  <2>3. Grown(g[n], requests[n + 1]) \in Tables(Request)
    BY <2>2, GrownAsks
  <2>4. h \in [0..(n + 1) -> Tables(Request)]
    BY <2>2, <2>3
  <2>5. h[0] = Empty /\ \A k \in 1..n : h[k] = Grown(h[k - 1], requests[k])
    BY <2>1 DEF IsPart
  <2>6. h[n + 1] = Grown(h[n], requests[n + 1])
    OBVIOUS
  <2> HIDE DEF h
  <2>7. \A k \in 1..(n + 1) : k \in 1..n \/ k = n + 1
    OBVIOUS
  <2>8. n + 1 - 1 = n
    OBVIOUS
  <2>9. IsPart(h, n + 1, requests)
    BY <2>4, <2>5, <2>6, <2>7, <2>8 DEF IsPart
  <2> QED BY <2>9
<1>3. Nat \subseteq T
  <2> HIDE DEF T
  <2> QED BY <1>1, <1>2, NumbersByInduction
<1>4. PICK g : IsPart(g, m, requests)
  BY <1>3
<1>5. IsGrouping(g, requests)
  <2>1. DOMAIN g = 0..Len(requests) /\ g = [k \in 0..m |-> g[k]]
    BY <1>4 DEF IsPart
  <2>2. \A k \in 0..m : g[k] = IF k = 0 THEN Empty ELSE Grown(g[k - 1], requests[k])
    BY <1>4 DEF IsPart
  <2> QED BY <2>1, <2>2 DEF IsGrouping
<1> QED BY <1>5

\* The jobs of the first n requests: one for each of their positions, which asks
\* for all that they ask for.
AsksAll(js, n, requests) ==
  /\ js \in Tables(Request)
  /\ \A p \in DOMAIN js : \E i \in 1..n : requests[i].pos = p
  /\ \A i \in 1..n : /\ requests[i].pos \in DOMAIN js
                     /\ js[requests[i].pos].depth >= requests[i].depth
                     /\ js[requests[i].pos].nodes >= requests[i].nodes

LEMMA GrownAsksAll ==
  ASSUME NEW m \in Nat, NEW requests \in [1..m -> Request], NEW n \in Nat, n + 1 <= m,
         NEW js, AsksAll(js, n, requests)
  PROVE  AsksAll(Grown(js, requests[n + 1]), n + 1, requests)
<1> DEFINE r == requests[n + 1]
           after == Grown(js, r)
<1>1. r \in Request /\ js \in Tables(Request) /\ \A i \in 1..n : requests[i] \in Request
  BY DEF AsksAll
<1>2. /\ after \in Tables(Request) /\ DOMAIN after = DOMAIN js \cup {r.pos}
      /\ after[r.pos].depth >= r.depth /\ after[r.pos].nodes >= r.nodes
      /\ \A p \in DOMAIN js : after[p].depth >= js[p].depth /\ after[p].nodes >= js[p].nodes
  BY <1>1, GrownAsks
<1>3. \A p \in DOMAIN after : after[p].depth \in Nat /\ after[p].nodes \in Nat
  BY <1>2, JobsOf
<1>4. \A p \in DOMAIN js : js[p].depth \in Nat /\ js[p].nodes \in Nat
  BY <1>1, JobsOf
<1>5. \A i \in 1..n : requests[i].depth \in Nat /\ requests[i].nodes \in Nat
  BY <1>1, CacheConstants DEF Request
<1>6. \A i \in 1..(n + 1) : i \in 1..n \/ i = n + 1
  OBVIOUS
<1>7. n + 1 \in 1..(n + 1) /\ \A i \in 1..n : i \in 1..(n + 1)
  OBVIOUS
<1> HIDE DEF after
<1>8. ASSUME NEW p \in DOMAIN after PROVE \E i \in 1..(n + 1) : requests[i].pos = p
  <2>1. CASE p \in DOMAIN js
    <3>1. PICK i \in 1..n : requests[i].pos = p
      BY <2>1 DEF AsksAll
    <3> QED BY <1>7, <3>1
  <2>2. CASE p = r.pos
    BY <1>7, <2>2
  <2>3. p \in DOMAIN js \/ p = r.pos
    BY <1>2
  <2> QED BY <2>1, <2>2, <2>3
<1>9. ASSUME NEW i \in 1..n
      PROVE  /\ requests[i].pos \in DOMAIN after
             /\ after[requests[i].pos].depth >= requests[i].depth
             /\ after[requests[i].pos].nodes >= requests[i].nodes
  <2>1. /\ requests[i].pos \in DOMAIN js
        /\ js[requests[i].pos].depth >= requests[i].depth
        /\ js[requests[i].pos].nodes >= requests[i].nodes
    BY DEF AsksAll
  <2>2. requests[i].pos \in DOMAIN after
    BY <1>2, <2>1
  <2>3. after[requests[i].pos].depth >= js[requests[i].pos].depth
    BY <1>2, <2>1
  <2>4. after[requests[i].pos].nodes >= js[requests[i].pos].nodes
    BY <1>2, <2>1
  <2> QED BY <1>3, <1>4, <1>5, <2>1, <2>2, <2>3, <2>4
<1>10. /\ requests[n + 1].pos \in DOMAIN after
       /\ after[requests[n + 1].pos].depth >= requests[n + 1].depth
       /\ after[requests[n + 1].pos].nodes >= requests[n + 1].nodes
  BY <1>2
<1>11. AsksAll(after, n + 1, requests)
  BY <1>2, <1>6, <1>8, <1>9, <1>10 DEF AsksAll
<1> QED BY <1>11 DEF after

\* GroupRequests, by induction over the requests.
LEMMA GroupRequestsAsksAll ==
  ASSUME NEW m \in Nat, NEW requests \in [1..m -> Request], Len(requests) = m
  PROVE  AsksAll(GroupRequests(requests), m, requests)
<1> DEFINE g == CHOOSE h : IsGrouping(h, requests)
           T == {n \in Nat : n <= m => AsksAll(g[n], n, requests)}
<1>1. IsGrouping(g, requests)
  BY GroupingExists
<1> HIDE DEF g
<1>2. g[0] = Empty /\ \A n \in Nat : n + 1 <= m => g[n + 1] = Grown(g[n], requests[n + 1])
  <2>1. \A k \in 0..m : g[k] = IF k = 0 THEN Empty ELSE Grown(g[k - 1], requests[k])
    BY <1>1 DEF IsGrouping
  <2>2. 0 \in 0..m
    OBVIOUS
  <2>3. ASSUME NEW n \in Nat, n + 1 <= m PROVE g[n + 1] = Grown(g[n], requests[n + 1])
    <3>1. n + 1 \in 0..m /\ n + 1 # 0 /\ n + 1 - 1 = n
      BY <2>3
    <3>2. g[n + 1] = Grown(g[n + 1 - 1], requests[n + 1])
      BY <2>1, <3>1
    <3> QED BY <3>1, <3>2
  <2> QED BY <2>1, <2>2, <2>3
<1>3. 0 \in T
  <2>1. AsksAll(Empty, 0, requests)
    BY EmptyTable DEF AsksAll
  <2> QED BY <1>2, <2>1
<1>4. ASSUME NEW n \in Nat, n \in T PROVE n + 1 \in T
  <2> SUFFICES ASSUME n + 1 <= m PROVE AsksAll(g[n + 1], n + 1, requests)
    OBVIOUS
  <2>1. AsksAll(g[n], n, requests)
    BY <1>4
  <2> QED BY <1>2, <2>1, GrownAsksAll
<1>5. Nat \subseteq T
  <2> HIDE DEF T
  <2> QED BY <1>3, <1>4, NumbersByInduction
<1>6. AsksAll(g[m], m, requests)
  BY <1>5
<1> QED BY <1>6, GroupRequestsOf DEF g

\* What is needed is a number for each position with a job, and no more than the
\* job asks for.
JobsCover(wanted, js) ==
  /\ DOMAIN wanted = DOMAIN js
  /\ \A p \in DOMAIN js : /\ wanted[p].depth \in Nat /\ wanted[p].depth <= js[p].depth
                          /\ wanted[p].nodes \in Nat /\ wanted[p].nodes <= js[p].nodes

LEMMA GroupRequestsCover ==
  ASSUME NEW m \in Nat, NEW requests \in [1..m -> Request], Len(requests) = m
  PROVE  /\ GroupRequests(requests) \in Tables(Request)
         /\ JobsCover(Needed(requests), GroupRequests(requests))
<1> DEFINE js == GroupRequests(requests)
           wanted == Needed(requests)
           mine(p) == {r \in Range(requests) : r.pos = p}
<1>1. AsksAll(js, m, requests)
  BY GroupRequestsAsksAll
<1> HIDE DEF js
<1>2. js \in Tables(Request)
  BY <1>1 DEF AsksAll
<1>3. \A r : r \in Range(requests) <=> \E i \in 1..m : r = requests[i]
  BY DEF Range
<1>4. \A r \in Range(requests) :
        /\ r \in Request /\ r.pos \in DOMAIN js
        /\ r.depth \in Nat /\ r.depth <= js[r.pos].depth
        /\ r.nodes \in Nat /\ r.nodes <= js[r.pos].nodes
  <2> SUFFICES ASSUME NEW i \in 1..m
               PROVE  /\ requests[i] \in Request /\ requests[i].pos \in DOMAIN js
                      /\ requests[i].depth \in Nat /\ requests[i].depth <= js[requests[i].pos].depth
                      /\ requests[i].nodes \in Nat /\ requests[i].nodes <= js[requests[i].pos].nodes
    BY <1>3
  <2>1. requests[i].depth \in Nat /\ requests[i].nodes \in Nat
    BY CacheConstants DEF Request
  <2>2. /\ requests[i].pos \in DOMAIN js
        /\ js[requests[i].pos].depth >= requests[i].depth
        /\ js[requests[i].pos].nodes >= requests[i].nodes
    BY <1>1 DEF AsksAll
  <2>3. js[requests[i].pos].depth \in Nat /\ js[requests[i].pos].nodes \in Nat
    BY <1>2, <2>2, JobsOf
  <2> QED BY <2>1, <2>2, <2>3
<1>5. wanted = [p \in {r.pos : r \in Range(requests)} |->
                  [depth |-> Max({r.depth : r \in mine(p)}), nodes |-> Max({r.nodes : r \in mine(p)})]]
  BY DEF Needed
<1>6. DOMAIN wanted = DOMAIN js
  <2>1. \A p : p \in DOMAIN wanted <=> \E r \in Range(requests) : r.pos = p
    BY <1>5
  <2>2. \A p \in DOMAIN js : \E r \in Range(requests) : r.pos = p
    BY <1>1, <1>3 DEF AsksAll
  <2> HIDE DEF wanted
  <2>3. \A p : p \in DOMAIN wanted <=> p \in DOMAIN js
    BY <1>4, <2>1, <2>2
  <2> QED BY <2>3
<1>7. ASSUME NEW p \in DOMAIN js
      PROVE  /\ wanted[p].depth \in Nat /\ wanted[p].depth <= js[p].depth
             /\ wanted[p].nodes \in Nat /\ wanted[p].nodes <= js[p].nodes
  <2> DEFINE depths == {r.depth : r \in mine(p)}
             nodes  == {r.nodes : r \in mine(p)}
  <2>1. p \in {r.pos : r \in Range(requests)}
    BY <1>1, <1>3 DEF AsksAll
  <2>2. wanted[p].depth = Max(depths) /\ wanted[p].nodes = Max(nodes)
    BY <1>5, <2>1
  <2>3. js[p].depth \in Nat /\ js[p].nodes \in Nat
    BY <1>2, JobsOf
  <2>4. depths \in SUBSET Nat /\ depths # {} /\ \A x \in depths : x <= js[p].depth
    BY <1>4, <2>1
  <2>5. nodes \in SUBSET Nat /\ nodes # {} /\ \A x \in nodes : x <= js[p].nodes
    BY <1>4, <2>1
  <2> HIDE DEF wanted, depths, nodes
  <2>6. Max(depths) \in Nat /\ Max(depths) <= js[p].depth
    BY <2>3, <2>4, BoundedMax
  <2>7. Max(nodes) \in Nat /\ Max(nodes) <= js[p].nodes
    BY <2>3, <2>5, BoundedMax
  <2> QED BY <2>2, <2>6, <2>7
<1>8. JobsCover(wanted, js)
  <2> HIDE DEF wanted
  <2> QED BY <1>6, <1>7 DEF JobsCover
<1> QED BY <1>2, <1>8 DEF js

-----------------------------------------------------------------------------
(* Rows.                                                                   *)

\* The rows of a table were searched with at least what they state.
DeepTable(f) ==
  /\ f \in Tables(Row)
  /\ \A p \in DOMAIN f : f[p].eval >= f[p].depth /\ f[p].cand >= f[p].nodes

LEMMA RowsAreTables == Rows = Tables(Row)
BY DEF Rows, Tables

LEMMA RowOf ==
  ASSUME NEW f \in Tables(Row), NEW p \in DOMAIN f
  PROVE  /\ f[p] \in Row /\ f[p].eval \in Nat /\ f[p].depth \in Nat
         /\ f[p].cand \in Nat /\ f[p].nodes \in Nat
<1>1. f[p] \in Row
  BY TableOf
<1> QED BY <1>1, CacheConstants DEF Row

LEMMA DeepEmpty == DeepTable(Empty) /\ DOMAIN Empty = {}
BY EmptyTable DEF DeepTable

LEMMA DeepOver ==
  ASSUME NEW f, NEW g, DeepTable(f), DeepTable(g)
  PROVE  DeepTable(Over(g, f))
<1>1. Over(g, f) \in Tables(Row)
  BY OverTable DEF DeepTable
<1>2. \A p \in DOMAIN Over(g, f) :
        (p \in DOMAIN g /\ Over(g, f)[p] = g[p]) \/ (p \in DOMAIN f /\ Over(g, f)[p] = f[p])
  BY DEF Over
<1> QED BY <1>1, <1>2 DEF DeepTable

LEMMA DeepRestrict ==
  ASSUME NEW f, DeepTable(f), NEW D \in SUBSET DOMAIN f
  PROVE  DeepTable(Restrict(f, D))
<1>1. Restrict(f, D) \in Tables(Row)
  BY RestrictTable DEF DeepTable
<1>2. DOMAIN Restrict(f, D) = D /\ \A p \in D : Restrict(f, D)[p] = f[p]
  BY DEF Restrict
<1> QED BY <1>1, <1>2 DEF DeepTable

\* No row that stays states less.
Deepens(after, before) ==
  \A p \in DOMAIN before \cap DOMAIN after :
    after[p].depth >= before[p].depth /\ after[p].nodes >= before[p].nodes

LEMMA DeepensSelf == ASSUME NEW f, DeepTable(f) PROVE Deepens(f, f)
<1>1. \A p \in DOMAIN f : f[p].depth \in Nat /\ f[p].nodes \in Nat
  BY RowOf DEF DeepTable
<1> QED BY <1>1 DEF Deepens

LEMMA DeepensRestrict ==
  ASSUME NEW f, DeepTable(f), NEW D \in SUBSET DOMAIN f
  PROVE  Deepens(Restrict(f, D), f)
<1>1. \A p \in DOMAIN f : f[p].depth \in Nat /\ f[p].nodes \in Nat
  BY RowOf DEF DeepTable
<1>2. DOMAIN Restrict(f, D) = D /\ \A p \in D : Restrict(f, D)[p] = f[p]
  BY DEF Restrict
<1> QED BY <1>1, <1>2 DEF Deepens

-----------------------------------------------------------------------------
(* The invariant of a call.                                                *)

\* The answers o have what the jobs js ask for.
Answers(o, js) ==
  /\ DOMAIN o \subseteq DOMAIN js
  /\ \A p \in DOMAIN o : o[p].eval >= js[p].depth /\ o[p].cand >= js[p].nodes

\* Of the positions with a job, what the memory holds is what the call has found.
FromMemory(m, js, f) ==
  \A p \in DOMAIN m \cap DOMAIN js : p \in DOMAIN f /\ f[p] = m[p]

\* A call at l, with memory m, needs, jobs, rows found and answers.
CallOK(m, wanted, js, f, o, l) ==
  /\ DeepTable(m) /\ DeepTable(f) /\ DeepTable(o)
  /\ js \in Tables(Request) /\ JobsCover(wanted, js)
  /\ DOMAIN f \subseteq DOMAIN js /\ Answers(o, js)
  /\ l \in {"idle", "read", "compute"} => o = Empty
  /\ l \in {"read", "compute"} => FromMemory(m, js, f)

IsArray(f) == f = [s \in Services |-> f[s]]

CacheInv ==
  /\ IsArray(memory) /\ IsArray(need) /\ IsArray(jobs) /\ IsArray(found) /\ IsArray(out)
  /\ pc \in [Services -> {"idle", "read", "compute", "write", "count", "evict", "done"}]
  /\ DeepTable(table)
  /\ \A s \in Services : CallOK(memory[s], need[s], jobs[s], found[s], out[s], pc[s])

LEMMA Updated ==
  ASSUME NEW f, IsArray(f), NEW s \in Services, NEW v, NEW g, g = [f EXCEPT ![s] = v]
  PROVE  IsArray(g) /\ g[s] = v /\ \A t \in Services : t # s => g[t] = f[t]
BY DEF IsArray

\* The call of s is at fault or goes on, and no other call is touched.
CallMoves(s) ==
  /\ IsArray(memory)' /\ IsArray(need)' /\ IsArray(jobs)' /\ IsArray(found)' /\ IsArray(out)'
  /\ pc' \in [Services -> {"idle", "read", "compute", "write", "count", "evict", "done"}]
  /\ \A t \in Services : t # s =>
       /\ memory'[t] = memory[t] /\ need'[t] = need[t] /\ jobs'[t] = jobs[t]
       /\ found'[t] = found[t] /\ out'[t] = out[t] /\ pc'[t] = pc[t]

\* What a step of s has to show.
CallKept(s) ==
  /\ CallMoves(s) /\ DeepTable(table')
  /\ CallOK(memory'[s], need'[s], jobs'[s], found'[s], out'[s], pc'[s])
  /\ Deepens(memory'[s], memory[s])

LEMMA CallKeptIsEnough ==
  ASSUME CacheInv, NEW s \in Services, CallKept(s)
  PROVE  CacheInv' /\ \A t \in Services : Deepens(memory'[t], memory[t])
<1>1. \A t \in Services : CallOK(memory[t], need[t], jobs[t], found[t], out[t], pc[t])
  BY DEF CacheInv
<1>2. \A t \in Services : CallOK(memory'[t], need'[t], jobs'[t], found'[t], out'[t], pc'[t])
  BY <1>1 DEF CallKept, CallMoves
<1>3. \A t \in Services : DeepTable(memory[t])
  BY <1>1 DEF CallOK
<1>4. \A t \in Services : Deepens(memory'[t], memory[t])
  BY <1>3, DeepensSelf DEF CallKept, CallMoves
<1> QED BY <1>2, <1>4 DEF CacheInv, CallKept, CallMoves

-----------------------------------------------------------------------------
(* The steps of a call.                                                    *)

LEMMA EmptyCall == ASSUME NEW m, DeepTable(m), NEW l, l = "idle"
  PROVE  CallOK(m, Empty, Empty, Empty, Empty, l)
<1>1. Empty \in Tables(Request)
  BY EmptyTable
<1> QED BY <1>1, DeepEmpty DEF CallOK, JobsCover, Answers

LEMMA AskKept == ASSUME CacheInv, NEW s \in Services, Ask(s) PROVE CallKept(s)
<1>1. PICK n \in 1..MaxBatch : \E requests \in [1..n -> Request] :
        /\ need' = [need EXCEPT ![s] = Needed(requests)]
        /\ jobs' = [jobs EXCEPT ![s] = GroupRequests(requests)]
        /\ found' = [found EXCEPT ![s] =
             Restrict(memory[s], DOMAIN memory[s] \cap DOMAIN GroupRequests(requests))]
  BY DEF Ask
<1>2. PICK requests \in [1..n -> Request] :
        /\ need' = [need EXCEPT ![s] = Needed(requests)]
        /\ jobs' = [jobs EXCEPT ![s] = GroupRequests(requests)]
        /\ found' = [found EXCEPT ![s] =
             Restrict(memory[s], DOMAIN memory[s] \cap DOMAIN GroupRequests(requests))]
  BY <1>1
<1> DEFINE js == GroupRequests(requests)
           wanted == Needed(requests)
           m == memory[s]
           f == Restrict(m, DOMAIN m \cap DOMAIN js)
<1>3. n \in Nat /\ Len(requests) = n
  BY CacheConstants
<1>4. js \in Tables(Request) /\ JobsCover(wanted, js)
  BY <1>3, GroupRequestsCover
<1>5. /\ need' = [need EXCEPT ![s] = wanted] /\ jobs' = [jobs EXCEPT ![s] = js]
      /\ found' = [found EXCEPT ![s] = f]
  BY <1>2
<1> HIDE DEF js, wanted
<1>6. CallOK(m, need[s], jobs[s], found[s], out[s], "idle") /\ pc[s] = "idle" /\ pc' = [pc EXCEPT ![s] = "read"]
  BY DEF Ask, CacheInv, Go
<1>7. DeepTable(m) /\ out[s] = Empty
  BY <1>6 DEF CallOK
<1>8. DeepTable(f)
  BY <1>7, DeepRestrict
<1>9. DOMAIN f = DOMAIN m \cap DOMAIN js /\ FromMemory(m, js, f)
  BY DEF Restrict, FromMemory
<1> HIDE DEF f
<1>10. CallOK(m, wanted, js, f, Empty, "read")
  BY <1>4, <1>7, <1>8, <1>9, DeepEmpty DEF CallOK, Answers
<1>11. UNCHANGED <<memory, table, out>>
  BY DEF Ask
<1>12. /\ need'[s] = wanted /\ jobs'[s] = js /\ found'[s] = f /\ pc'[s] = "read"
       /\ CallMoves(s)
  BY <1>5, <1>6, <1>11 DEF CallMoves, CacheInv, IsArray
<1> QED BY <1>7, <1>10, <1>11, <1>12, DeepensSelf DEF CallKept, CacheInv

LEMMA ReadTableKept == ASSUME CacheInv, NEW s \in Services, ReadTable(s) PROVE CallKept(s)
<1> DEFINE part == Restrict(table, DOMAIN table \cap DOMAIN jobs[s])
           f == Over(found[s], part)
<1>0. UNCHANGED <<memory, table, need, jobs, out>>
  BY DEF ReadTable
<1>1. /\ CallOK(memory[s], need[s], jobs[s], found[s], out[s], "read")
      /\ pc[s] = "read" /\ pc' = [pc EXCEPT ![s] = "compute"]
  BY DEF ReadTable, CacheInv, Go
<1>2. DeepTable(memory[s])
  BY <1>1 DEF CallOK
<1>3. ASSUME NEW g, DeepTable(g), DOMAIN g \subseteq DOMAIN jobs[s],
             \A p \in DOMAIN found[s] : p \in DOMAIN g /\ g[p] = found[s][p],
             found' = [found EXCEPT ![s] = g]
      PROVE  CallKept(s)
  <2>1. CallOK(memory[s], need[s], jobs[s], g, out[s], "compute")
    BY <1>1, <1>3 DEF CallOK, FromMemory
  <2>2. found'[s] = g /\ pc'[s] = "compute" /\ CallMoves(s)
    BY <1>0, <1>1, <1>3 DEF CallMoves, CacheInv, IsArray
  <2> QED BY <1>0, <1>2, <2>1, <2>2, DeepensSelf DEF CallKept, CacheInv
<1>4. CASE found' = [found EXCEPT ![s] = f]
  <2>1. DeepTable(part)
    BY DeepRestrict DEF CacheInv
  <2>2. DOMAIN part = DOMAIN table \cap DOMAIN jobs[s]
    BY DEF Restrict
  <2>3. DeepTable(found[s]) /\ DOMAIN found[s] \subseteq DOMAIN jobs[s]
    BY <1>1 DEF CallOK
  <2> HIDE DEF part
  <2>4. DeepTable(f)
    BY <2>1, <2>3, DeepOver
  <2>5. DOMAIN f \subseteq DOMAIN jobs[s] /\ \A p \in DOMAIN found[s] : p \in DOMAIN f /\ f[p] = found[s][p]
    BY <2>2, <2>3 DEF Over
  <2> HIDE DEF f
  <2> QED BY <1>3, <1>4, <2>4, <2>5
<1>5. CASE UNCHANGED found
  <2>1. found' = [found EXCEPT ![s] = found[s]]
    BY <1>5 DEF CacheInv, IsArray
  <2>2. DeepTable(found[s]) /\ DOMAIN found[s] \subseteq DOMAIN jobs[s]
    BY <1>1 DEF CallOK
  <2> QED BY <1>3, <2>1, <2>2
<1> QED BY <1>4, <1>5 DEF ReadTable

\* A row that is computed has what its job asks for, and no less than the row
\* that was found.
LEMMA ComputedRow ==
  ASSUME NEW s \in Services, DeepTable(found[s]), jobs[s] \in Tables(Request),
         NEW p \in ToCompute(s), NEW d \in Budgets, d >= jobs[s][p].depth
  PROVE  /\ p \in DOMAIN jobs[s] /\ Computed(s, p, d) \in Row
         /\ Computed(s, p, d).eval >= Computed(s, p, d).depth
         /\ Computed(s, p, d).cand >= Computed(s, p, d).nodes
         /\ Computed(s, p, d).eval >= jobs[s][p].depth
         /\ Computed(s, p, d).cand >= jobs[s][p].nodes
         /\ p \in DOMAIN found[s] => /\ Computed(s, p, d).depth >= found[s][p].depth
                                     /\ Computed(s, p, d).nodes >= found[s][p].nodes
<1> DEFINE j == jobs[s][p]
           f == found[s][p]
           c == Computed(s, p, d)
<1>1. p \in DOMAIN jobs[s]
  BY DEF ToCompute
<1>2. /\ j \in Request /\ j.depth \in Budgets /\ j.nodes \in Budgets
      /\ j.depth \in Nat /\ j.nodes \in Nat /\ d \in Nat
  BY <1>1, JobsOf, CacheConstants DEF Request
<1>3. p \in DOMAIN found[s] =>
        /\ f \in Row /\ f.eval \in Nat /\ f.depth \in Nat /\ f.cand \in Nat /\ f.nodes \in Nat
        /\ f.eval >= f.depth /\ f.cand >= f.nodes
  BY RowOf DEF DeepTable
<1>4. c.eval = (IF NeedScalar(s, p) THEN d ELSE f.eval) /\ c.depth = (IF NeedScalar(s, p) THEN j.depth ELSE f.depth)
  BY DEF Computed
<1>5. c.cand = (IF NeedCandidates(s, p) THEN j.nodes ELSE f.cand) /\ c.nodes = (IF NeedCandidates(s, p) THEN j.nodes ELSE f.nodes)
  BY DEF Computed
<1>6. /\ NeedScalar(s, p) <=> (p \notin DOMAIN found[s] \/ f.depth < j.depth)
      /\ NeedCandidates(s, p) <=> (p \notin DOMAIN found[s] \/ f.nodes < j.nodes)
  BY DEF NeedScalar, NeedCandidates
<1>7. c = [eval |-> c.eval, depth |-> c.depth, cand |-> c.cand, nodes |-> c.nodes]
  BY DEF Computed
<1> HIDE DEF j, f, c
<1>8. c.eval \in Budgets /\ c.depth \in Budgets /\ c.eval >= c.depth /\ c.eval >= j.depth
  <2>1. CASE NeedScalar(s, p)
    BY <1>2, <1>4, <2>1 DEF j
  <2>2. CASE ~NeedScalar(s, p)
    BY <1>2, <1>3, <1>4, <1>6, <2>2 DEF Row
  <2> QED BY <2>1, <2>2
<1>9. c.cand \in Budgets /\ c.nodes \in Budgets /\ c.cand >= c.nodes /\ c.cand >= j.nodes
  <2>1. CASE NeedCandidates(s, p)
    BY <1>2, <1>5, <2>1
  <2>2. CASE ~NeedCandidates(s, p)
    BY <1>2, <1>3, <1>5, <1>6, <2>2 DEF Row
  <2> QED BY <2>1, <2>2
<1>10. c \in Row
  BY <1>7, <1>8, <1>9 DEF Row
<1>11. p \in DOMAIN found[s] => c.depth >= f.depth /\ c.nodes >= f.nodes
  <2>1. p \in DOMAIN found[s] => c.depth >= f.depth
    BY <1>2, <1>3, <1>4, <1>6
  <2>2. p \in DOMAIN found[s] => c.nodes >= f.nodes
    BY <1>2, <1>3, <1>5, <1>6
  <2> QED BY <2>1, <2>2
<1> QED BY <1>1, <1>8, <1>9, <1>10, <1>11 DEF c, f, j

LEMMA ComputeKept == ASSUME CacheInv, NEW s \in Services, Compute(s) PROVE CallKept(s)
<1> DEFINE C == ToCompute(s)
           js == jobs[s]
           f == found[s]
           m == memory[s]
           good == Restrict(f, DOMAIN f \ C)
<1>1. PICK lost \in SUBSET C, d \in [C -> {jobs[s][p].depth : p \in C}] :
        LET new == [p \in C \ lost |-> Computed(s, p, d[p])]
        IN /\ \A p \in C : d[p] >= jobs[s][p].depth
           /\ out' = [out EXCEPT ![s] = Over(new, good)]
           /\ memory' = [memory EXCEPT ![s] = Over(new, @)]
  BY DEF Compute
<1> DEFINE new == [p \in C \ lost |-> Computed(s, p, d[p])]
<1>2. /\ \A p \in C : d[p] >= js[p].depth
      /\ out' = [out EXCEPT ![s] = Over(new, good)]
      /\ memory' = [memory EXCEPT ![s] = Over(new, m)]
  BY <1>1
<1>3. /\ CallOK(m, need[s], js, f, out[s], "compute")
      /\ pc[s] = "compute" /\ pc' = [pc EXCEPT ![s] = "write"]
      /\ UNCHANGED <<table, need, jobs, found>>
  BY DEF Compute, CacheInv, Go
<1>4. /\ DeepTable(m) /\ DeepTable(f) /\ js \in Tables(Request)
      /\ JobsCover(need[s], js) /\ DOMAIN f \subseteq DOMAIN js /\ FromMemory(m, js, f)
  BY <1>3 DEF CallOK
<1>5. \A p \in C : p \in DOMAIN js /\ d[p] \in Budgets
  <2>1. \A p \in C : p \in DOMAIN js /\ js[p].depth \in Budgets
    BY <1>4, JobsOf DEF ToCompute, Request
  <2> QED BY <2>1
<1>6. ASSUME NEW p \in C
      PROVE  /\ Computed(s, p, d[p]) \in Row
             /\ Computed(s, p, d[p]).eval >= Computed(s, p, d[p]).depth
             /\ Computed(s, p, d[p]).cand >= Computed(s, p, d[p]).nodes
             /\ Computed(s, p, d[p]).eval >= js[p].depth
             /\ Computed(s, p, d[p]).cand >= js[p].nodes
             /\ p \in DOMAIN f => /\ Computed(s, p, d[p]).depth >= f[p].depth
                                  /\ Computed(s, p, d[p]).nodes >= f[p].nodes
  <2>1. d[p] \in Budgets /\ d[p] >= js[p].depth
    BY <1>2, <1>5
  <2> QED BY <1>4, <2>1, ComputedRow
<1>7. /\ DOMAIN new = C \ lost
      /\ \A p \in C \ lost :
           /\ new[p] \in Row /\ new[p].eval >= new[p].depth /\ new[p].cand >= new[p].nodes
           /\ new[p].eval >= js[p].depth /\ new[p].cand >= js[p].nodes
           /\ p \in DOMAIN f => new[p].depth >= f[p].depth /\ new[p].nodes >= f[p].nodes
  BY <1>6
<1>8. C \ lost \subseteq DOMAIN js /\ DOMAIN js \in SUBSET Positions
  BY <1>4, <1>5, TableOf
<1>9. new \in Tables(Row)
  <2>1. new \in [C \ lost -> Row]
    BY <1>6
  <2>2. C \ lost \in SUBSET Positions
    BY <1>8
  <2> HIDE DEF new, C
  <2> QED BY <2>1, <2>2, IsTable
<1> HIDE DEF new
<1>10. DeepTable(new)
  BY <1>7, <1>9 DEF DeepTable
<1>11. DeepTable(Over(new, m))
  BY <1>4, <1>10, DeepOver
<1>12. DeepTable(good) /\ DOMAIN good = DOMAIN f \ C /\ \A p \in DOMAIN good : good[p] = f[p]
  <2>1. DeepTable(good)
    BY <1>4, DeepRestrict
  <2> QED BY <2>1 DEF Restrict
<1>13. \A p \in DOMAIN f \ C : f[p].eval >= js[p].depth /\ f[p].cand >= js[p].nodes
  <2> SUFFICES ASSUME NEW p \in DOMAIN f, p \notin C
               PROVE  f[p].eval >= js[p].depth /\ f[p].cand >= js[p].nodes
    OBVIOUS
  <2>1. ~(f[p].depth < js[p].depth) /\ ~(f[p].nodes < js[p].nodes)
    BY <1>4 DEF ToCompute, NeedScalar, NeedCandidates
  <2>2. p \in DOMAIN js
    BY <1>4
  <2>3. js[p].depth \in Nat /\ js[p].nodes \in Nat
    BY <1>4, <2>2, JobsOf
  <2>4. /\ f[p].eval \in Nat /\ f[p].depth \in Nat /\ f[p].cand \in Nat /\ f[p].nodes \in Nat
        /\ f[p].eval >= f[p].depth /\ f[p].cand >= f[p].nodes
    BY <1>4, RowOf DEF DeepTable
  <2> QED BY <2>1, <2>3, <2>4
<1> HIDE DEF good, C
<1>14. DeepTable(Over(new, good))
  BY <1>10, <1>12, DeepOver
<1>15. Answers(Over(new, good), js)
  <2>1. \A p \in DOMAIN Over(new, good) :
          \/ p \in C \ lost /\ Over(new, good)[p] = new[p]
          \/ p \in DOMAIN f \ C /\ Over(new, good)[p] = f[p]
    BY <1>7, <1>12 DEF Over
  <2> QED BY <1>4, <1>7, <1>8, <1>13, <2>1 DEF Answers
<1>16. Deepens(Over(new, m), m)
  <2> SUFFICES ASSUME NEW p \in DOMAIN m
               PROVE  /\ Over(new, m)[p].depth >= m[p].depth
                      /\ Over(new, m)[p].nodes >= m[p].nodes
    BY DEF Deepens
  <2>1. CASE p \in DOMAIN new
    <3>1. p \in DOMAIN f /\ f[p] = m[p]
      BY <1>4, <1>7, <1>8, <2>1 DEF FromMemory
    <3>2. Over(new, m)[p] = new[p]
      BY <2>1 DEF Over
    <3> QED BY <1>7, <2>1, <3>1, <3>2
  <2>2. CASE p \notin DOMAIN new
    <3>1. Over(new, m)[p] = m[p]
      BY <2>2 DEF Over
    <3>2. m[p].depth \in Nat /\ m[p].nodes \in Nat
      BY <1>4, RowOf DEF DeepTable
    <3> QED BY <3>1, <3>2
  <2> QED BY <2>1, <2>2
<1>17. CallOK(Over(new, m), need[s], js, f, Over(new, good), "write")
  BY <1>4, <1>11, <1>14, <1>15 DEF CallOK
<1>18. /\ memory'[s] = Over(new, m) /\ out'[s] = Over(new, good) /\ pc'[s] = "write"
       /\ CallMoves(s)
  <2> DEFINE mm == Over(new, m)
             oo == Over(new, good)
  <2>1. memory' = [memory EXCEPT ![s] = mm] /\ out' = [out EXCEPT ![s] = oo]
    BY <1>2
  <2> HIDE DEF mm, oo
  <2>2. memory'[s] = mm /\ out'[s] = oo /\ pc'[s] = "write" /\ CallMoves(s)
    BY <1>3, <2>1 DEF CallMoves, CacheInv, IsArray
  <2> QED BY <2>2 DEF mm, oo
<1> QED BY <1>3, <1>16, <1>17, <1>18 DEF CallKept, CacheInv

\* Steps that leave the tables of the call as they are.
LEMMA GoesOn ==
  ASSUME CacheInv, NEW s \in Services, UNCHANGED <<memory, need, jobs, found, out>>, DeepTable(table'),
         pc[s] \notin {"idle", "read", "compute"}, NEW l \in {"count", "evict", "done"}, Go(s, l)
  PROVE  CallKept(s)
<1>1. CallOK(memory[s], need[s], jobs[s], found[s], out[s], pc[s])
  BY DEF CacheInv
<1>2. CallOK(memory[s], need[s], jobs[s], found[s], out[s], l) /\ DeepTable(memory[s])
  BY <1>1 DEF CallOK
<1>3. pc'[s] = l /\ CallMoves(s)
  BY DEF Go, CallMoves, CacheInv, IsArray
<1> QED BY <1>2, <1>3, DeepensSelf DEF CallKept

LEMMA WriteKept == ASSUME CacheInv, NEW s \in Services, Write(s) PROVE CallKept(s)
<1>1. DeepTable(table) /\ DeepTable(out[s])
  BY DEF CacheInv, CallOK
<1>2. pc[s] = "write" /\ UNCHANGED <<memory, need, jobs, found, out>>
  BY DEF Write
<1>3. CASE table' = Over(Restrict(out[s], Writes(s)), table) /\ Go(s, "count")
  <2>1. Writes(s) \in SUBSET DOMAIN out[s]
    BY DEF Writes
  <2>2. DeepTable(table')
    BY <1>1, <1>3, <2>1, DeepRestrict, DeepOver
  <2> QED BY <1>2, <1>3, <2>2, GoesOn
<1>4. CASE UNCHANGED table /\ Go(s, "done")
  BY <1>1, <1>2, <1>4, GoesOn
<1> QED BY <1>3, <1>4 DEF Write

LEMMA CountKept == ASSUME CacheInv, NEW s \in Services, Count(s) \/ CountFits(s) PROVE CallKept(s)
<1>1. /\ pc[s] = "count" /\ UNCHANGED <<memory, table, need, jobs, found, out>>
      /\ Go(s, "evict") \/ Go(s, "done")
  BY DEF Count, CountFits
<1>2. DeepTable(table)
  BY DEF CacheInv
<1> QED BY <1>1, <1>2, GoesOn

LEMMA EvictKept == ASSUME CacheInv, NEW s \in Services, Evict(s) PROVE CallKept(s)
<1>1. pc[s] = "evict" /\ UNCHANGED <<memory, need, jobs, found, out>> /\ Go(s, "done")
  BY DEF Evict
<1>2. DeepTable(table)
  BY DEF CacheInv
<1>3. UNCHANGED table \/ \E kept \in SUBSET DOMAIN table : table' = Restrict(table, kept)
  BY DEF Evict, AllBut
<1>4. DeepTable(table')
  BY <1>2, <1>3, DeepRestrict
<1> QED BY <1>1, <1>4, GoesOn

\* A call that ends, with the memory m that it leaves.
LEMMA CallEnds ==
  ASSUME CacheInv, NEW s \in Services, NEW m, DeepTable(m), Deepens(m, memory[s]),
         memory' = [memory EXCEPT ![s] = m], Go(s, "idle"), UNCHANGED table,
         need' = [need EXCEPT ![s] = Empty], jobs' = [jobs EXCEPT ![s] = Empty],
         found' = [found EXCEPT ![s] = Empty], out' = [out EXCEPT ![s] = Empty]
  PROVE  CallKept(s)
<1>1. /\ memory'[s] = m /\ need'[s] = Empty /\ jobs'[s] = Empty /\ found'[s] = Empty
      /\ out'[s] = Empty /\ pc'[s] = "idle" /\ CallMoves(s)
  BY DEF Go, CallMoves, CacheInv, IsArray
<1> QED BY <1>1, EmptyCall DEF CallKept, CacheInv

LEMMA ReturnKept == ASSUME CacheInv, NEW s \in Services, Return(s) PROVE CallKept(s)
<1>1. DeepTable(memory[s])
  BY DEF CacheInv, CallOK
<1>2. PICK kept \in SUBSET DOMAIN memory[s] : memory' = [memory EXCEPT ![s] = Restrict(memory[s], kept)]
  BY DEF Return, AllBut
<1>3. DeepTable(Restrict(memory[s], kept)) /\ Deepens(Restrict(memory[s], kept), memory[s])
  BY <1>1, DeepRestrict, DeepensRestrict
<1> QED BY <1>2, <1>3, CallEnds DEF Return

LEMMA RestartKept == ASSUME CacheInv, NEW s \in Services, Restart(s) PROVE CallKept(s)
<1>1. DeepTable(Empty) /\ Deepens(Empty, memory[s])
  BY DeepEmpty DEF Deepens
<1> QED BY <1>1, CallEnds DEF Restart

-----------------------------------------------------------------------------
(* Every step.                                                             *)

LEMMA CacheInit == ASSUME Init PROVE CacheInv
<1>1. /\ IsArray(memory) /\ IsArray(need) /\ IsArray(jobs) /\ IsArray(found) /\ IsArray(out)
      /\ pc \in [Services -> {"idle", "read", "compute", "write", "count", "evict", "done"}]
  BY DEF Init, IsArray
<1>2. \A s \in Services : CallOK(memory[s], need[s], jobs[s], found[s], out[s], pc[s])
  BY EmptyCall, DeepEmpty DEF Init
<1> QED BY <1>1, <1>2, DeepEmpty DEF Init, CacheInv

LEMMA StepKept == ASSUME CacheInv, Next PROVE \E s \in Services : CallKept(s)
BY AskKept, ReadTableKept, ComputeKept, WriteKept, CountKept, EvictKept, ReturnKept, RestartKept DEF Next

LEMMA CacheNext ==
  ASSUME CacheInv, [Next]_vars
  PROVE  CacheInv' /\ \A t \in Services : Deepens(memory'[t], memory[t])
<1>1. CASE Next
  BY <1>1, StepKept, CallKeptIsEnough
<1>2. CASE UNCHANGED vars
  <2>1. CacheInv'
    BY <1>2 DEF vars, CacheInv, IsArray
  <2>2. \A t \in Services : DeepTable(memory[t])
    BY DEF CacheInv, CallOK
  <2>3. \A t \in Services : Deepens(memory'[t], memory[t])
    BY <1>2, <2>2, DeepensSelf DEF vars
  <2> QED BY <2>1, <2>3
<1> QED BY <1>1, <1>2

\* The counters, of which extra never exceeds the table.
CountersOK ==
  /\ extra \in [Services -> 0..Cardinality(Positions)]
  /\ asks \in 0..MaxAsks /\ faults \in 0..MaxFaults

LEMMA CountersNext ==
  ASSUME CacheInv, CountersOK, [Next]_vars PROVE CountersOK'
<1>0. Cardinality(Positions) \in Nat
  BY CacheConstants, FS_CardinalityType
<1>1. ASSUME NEW s \in Services, Ask(s)
      PROVE  asks' \in 0..MaxAsks /\ UNCHANGED <<extra, faults>>
  <2>1. asks < MaxAsks /\ asks' = asks + 1 /\ UNCHANGED <<extra, faults>>
    BY <1>1 DEF Ask
  <2> QED BY <2>1, CacheConstants DEF CountersOK
<1>2. ASSUME Fault PROVE faults' \in 0..MaxFaults
  BY <1>2, CacheConstants DEF Fault, CountersOK
<1>3. ASSUME NEW s \in Services, ReadTable(s) \/ Compute(s) \/ Write(s) \/ CountFits(s)
      PROVE  (UNCHANGED faults \/ Fault) /\ UNCHANGED <<extra, asks>>
  <2>1. CASE Compute(s)
    <3>1. UNCHANGED faults \/ Fault
      BY <2>1, Zenon DEF Compute
    <3> QED BY <2>1, <3>1 DEF Compute
  <2>2. CASE ReadTable(s) \/ Write(s) \/ CountFits(s)
    BY <2>2 DEF ReadTable, Write, CountFits
  <2> QED BY <1>3, <2>1, <2>2
<1>4. ASSUME NEW s \in Services, Count(s)
      PROVE  extra' \in [Services -> 0..Cardinality(Positions)] /\ UNCHANGED <<asks, faults>>
  <2>1. /\ Cardinality(DOMAIN table) > Capacity
        /\ extra' = [extra EXCEPT ![s] = Cardinality(DOMAIN table) - Capacity]
        /\ UNCHANGED <<asks, faults>>
    BY <1>4 DEF Count
  <2>2. DOMAIN table \in SUBSET Positions
    BY TableOf DEF CacheInv, DeepTable
  <2>3. Cardinality(DOMAIN table) \in Nat /\ Cardinality(DOMAIN table) <= Cardinality(Positions)
    BY <2>2, CacheConstants, FS_Subset, FS_CardinalityType
  <2> QED BY <1>0, <2>1, <2>3, CacheConstants DEF CountersOK
<1>5. ASSUME NEW s \in Services, Evict(s) \/ Return(s) \/ Restart(s)
      PROVE  /\ UNCHANGED extra \/ extra' = [extra EXCEPT ![s] = 0]
             /\ UNCHANGED faults \/ Fault
             /\ UNCHANGED asks
  BY <1>5 DEF Evict, Return, Restart
<1>6. \A s \in Services : [extra EXCEPT ![s] = 0] \in [Services -> 0..Cardinality(Positions)]
  BY <1>0 DEF CountersOK
<1>7. CASE UNCHANGED vars
  BY <1>7 DEF vars, CountersOK
<1>8. CASE Next
  <2>1. PICK s \in Services : \/ Ask(s) \/ ReadTable(s) \/ Compute(s) \/ Write(s) \/ Count(s)
                              \/ CountFits(s) \/ Evict(s) \/ Return(s) \/ Restart(s)
    BY <1>8 DEF Next
  <2> QED BY <1>1, <1>2, <1>3, <1>4, <1>5, <1>6, <2>1 DEF CountersOK
<1> QED BY <1>7, <1>8

-----------------------------------------------------------------------------
(* The theorems.                                                           *)

\* The memories, the table and the calls of all services keep their types.
THEOREM CacheTypeOK == Spec => []TypeOK
<1>1. Init => CacheInv /\ CountersOK
  <2> SUFFICES ASSUME Init PROVE CountersOK
    BY CacheInit
  <2>1. Cardinality(Positions) \in Nat
    BY CacheConstants, FS_CardinalityType
  <2> QED BY <2>1, CacheConstants DEF Init, CountersOK
<1>2. CacheInv /\ CountersOK /\ [Next]_vars => (CacheInv /\ CountersOK)'
  BY CacheNext, CountersNext
<1>3. CacheInv /\ CountersOK => TypeOK
  <2> SUFFICES ASSUME CacheInv, CountersOK PROVE TypeOK
    OBVIOUS
  <2>1. \A s \in Services :
          /\ memory[s] \in Tables(Row) /\ found[s] \in Tables(Row) /\ out[s] \in Tables(Row)
          /\ jobs[s] \in Tables(Request)
    BY DEF CacheInv, CallOK, DeepTable
  <2>2. /\ memory \in [Services -> Tables(Row)] /\ found \in [Services -> Tables(Row)]
        /\ out \in [Services -> Tables(Row)] /\ jobs \in [Services -> Tables(Request)]
    BY <2>1 DEF CacheInv, IsArray
  <2>3. Tables(Request) = UNION {[P -> Request] : P \in SUBSET Positions} /\ table \in Tables(Row)
    BY DEF Tables, CacheInv, DeepTable
  <2> QED BY <2>2, <2>3, RowsAreTables DEF TypeOK, CacheInv, CountersOK
<1> QED BY <1>1, <1>2, <1>3, PTL DEF Spec

\* What a call answers was searched with the depth and the nodes that each of
\* its requests asks for: the jobs of GroupRequests ask for all of it, and a row
\* that memory, table or engine gave has at least what it states.
THEOREM AnswersAreDeepEnough == Spec => []AnswersMeetBudgets
<1>1. Init => CacheInv
  BY CacheInit
<1>2. CacheInv /\ [Next]_vars => CacheInv'
  BY CacheNext
<1>3. CacheInv => AnswersMeetBudgets
  <2> SUFFICES ASSUME CacheInv, NEW s \in Services, NEW p \in DOMAIN out[s]
               PROVE  out[s][p].eval >= need[s][p].depth /\ out[s][p].cand >= need[s][p].nodes
    BY DEF AnswersMeetBudgets
  <2>1. /\ out[s] \in Tables(Row) /\ jobs[s] \in Tables(Request)
        /\ JobsCover(need[s], jobs[s]) /\ Answers(out[s], jobs[s])
    BY DEF CacheInv, CallOK, DeepTable
  <2>2. out[s][p].eval \in Nat /\ out[s][p].cand \in Nat
    BY <2>1, RowOf
  <2>3. /\ p \in DOMAIN jobs[s]
        /\ out[s][p].eval >= jobs[s][p].depth /\ out[s][p].cand >= jobs[s][p].nodes
    BY <2>1 DEF Answers
  <2>4. jobs[s][p].depth \in Nat /\ jobs[s][p].nodes \in Nat
    BY <2>1, <2>3, JobsOf
  <2>5. /\ need[s][p].depth \in Nat /\ need[s][p].depth <= jobs[s][p].depth
        /\ need[s][p].nodes \in Nat /\ need[s][p].nodes <= jobs[s][p].nodes
    BY <2>1, <2>3 DEF JobsCover
  <2> QED BY <2>2, <2>3, <2>4, <2>5
<1> QED BY <1>1, <1>2, <1>3, PTL DEF Spec

\* No call makes a row in the memory of its process shallower: a row that is
\* computed keeps the half that was deep enough, and the row it starts from is
\* the one in memory.
THEOREM MemoryDeepens == Spec => MemoryOnlyDeepens
<1>1. Init => CacheInv
  BY CacheInit
<1>2. CacheInv /\ [Next]_vars => CacheInv'
  BY CacheNext
<1>3. CacheInv /\ [Next]_vars =>
        [\A s \in Services : \A p \in DOMAIN memory[s] \cap DOMAIN memory'[s] :
           /\ memory'[s][p].depth >= memory[s][p].depth
           /\ memory'[s][p].nodes >= memory[s][p].nodes]_vars
  BY CacheNext DEF Deepens
<1> QED BY <1>1, <1>2, <1>3, PTL DEF Spec, MemoryOnlyDeepens

-----------------------------------------------------------------------------
(* Places in an order.                                                     *)

\* R is a strict and total order of S.
Orders(R, S) ==
  /\ \A x \in S : <<x, x>> \notin R
  /\ \A x, y, z \in S : <<x, y>> \in R /\ <<y, z>> \in R => <<x, z>> \in R
  /\ \A x, y \in S : x # y => <<x, y>> \in R \/ <<y, x>> \in R

Ahead(R, S, u) == {v \in S : <<v, u>> \in R}
Place(R, S, u) == Cardinality(Ahead(R, S, u))

LEMMA FirstNumbers ==
  ASSUME NEW n \in Nat
  PROVE  IsFiniteSet(0..(n - 1)) /\ Cardinality(0..(n - 1)) = n
<1>1. n - 1 \in Int /\ 0 \in Int
  OBVIOUS
<1>2. IsFiniteSet(0..(n - 1))
  BY <1>1, FS_Interval
<1>3. Cardinality(0..(n - 1)) = IF 0 > n - 1 THEN 0 ELSE (n - 1) - 0 + 1
  BY <1>1, FS_Interval
<1> QED BY <1>2, <1>3

LEMMA PlaceBounds ==
  ASSUME NEW S, IsFiniteSet(S), NEW R, Orders(R, S), NEW u \in S
  PROVE  Place(R, S, u) \in Nat /\ Place(R, S, u) < Cardinality(S)
<1>1. Ahead(R, S, u) \in SUBSET S /\ u \notin Ahead(R, S, u)
  BY DEF Ahead, Orders
<1>2. /\ IsFiniteSet(Ahead(R, S, u))
      /\ Cardinality(Ahead(R, S, u)) <= Cardinality(S)
      /\ Cardinality(S) = Cardinality(Ahead(R, S, u)) => S = Ahead(R, S, u)
  BY <1>1, FS_Subset
<1>3. Cardinality(Ahead(R, S, u)) \in Nat /\ Cardinality(S) \in Nat
  BY <1>2, FS_CardinalityType
<1>4. Cardinality(S) # Cardinality(Ahead(R, S, u))
  BY <1>1, <1>2
<1> QED BY <1>2, <1>3, <1>4 DEF Place

\* Who is ahead of another has a smaller place.
LEMMA PlaceMonotone ==
  ASSUME NEW S, IsFiniteSet(S), NEW R, Orders(R, S), NEW u \in S, NEW w \in S, <<u, w>> \in R
  PROVE  Place(R, S, u) < Place(R, S, w)
<1> DEFINE U == Ahead(R, S, u)
           W == Ahead(R, S, w)
<1>1. W \in SUBSET S /\ U \in SUBSET W /\ u \in W /\ u \notin U
  BY DEF Ahead, Orders
<1>2. IsFiniteSet(W)
  BY <1>1, FS_Subset
<1>3. IsFiniteSet(U) /\ Cardinality(U) <= Cardinality(W) /\ (Cardinality(W) = Cardinality(U) => W = U)
  BY <1>1, <1>2, FS_Subset
<1>4. Cardinality(U) \in Nat /\ Cardinality(W) \in Nat
  BY <1>2, <1>3, FS_CardinalityType
<1>5. Cardinality(U) # Cardinality(W)
  BY <1>1, <1>3
<1> QED BY <1>3, <1>4, <1>5 DEF Place

LEMMA PlacesDiffer ==
  ASSUME NEW S, IsFiniteSet(S), NEW R, Orders(R, S), NEW u \in S, NEW w \in S,
         Place(R, S, u) = Place(R, S, w)
  PROVE  u = w
<1> SUFFICES ASSUME u # w PROVE FALSE
  OBVIOUS
<1>1. <<u, w>> \in R \/ <<w, u>> \in R
  BY DEF Orders
<1>2. Place(R, S, u) \in Nat /\ Place(R, S, w) \in Nat
  BY PlaceBounds
<1> QED BY <1>1, <1>2, PlaceMonotone

\* Every place is taken.
LEMMA PlacesTaken ==
  ASSUME NEW S, IsFiniteSet(S), NEW R, Orders(R, S), NEW k \in Nat, k < Cardinality(S)
  PROVE  \E u \in S : Place(R, S, u) = k
<1> DEFINE n == Cardinality(S)
           P == 0..(n - 1)
           place == [u \in S |-> Place(R, S, u)]
<1>1. n \in Nat
  BY FS_CardinalityType
<1>2. \A u \in S : Place(R, S, u) \in P
  BY <1>1, PlaceBounds
<1>3. place \in Injection(S, P)
  <2>1. place \in [S -> P]
    BY <1>2
  <2>2. \A a, b \in S : place[a] = place[b] => a = b
    BY PlacesDiffer
  <2> HIDE DEF P, place
  <2> QED BY <2>1, <2>2 DEF Injection, IsInjective
<1>4. IsFiniteSet(P) /\ Cardinality(P) = n
  BY <1>1, FirstNumbers, Zenon
<1>5. place \in Surjection(S, P)
  <2> HIDE DEF P, place
  <2> QED BY <1>3, <1>4, FS_Injection
<1>6. \E u \in S : place[u] = k
  <2>1. k \in P
    BY <1>1
  <2> HIDE DEF P, place
  <2> QED BY <1>5, <2>1 DEF Surjection
<1> QED BY <1>6

\* f lists the elements of S, each once.
Lists(f, S) ==
  /\ Cardinality(S) \in Nat /\ f \in Seq(S)
  /\ DOMAIN f = 1..Cardinality(S) /\ Len(f) = Cardinality(S)
  /\ \A i \in 1..Cardinality(S) : f[i] \in S
  /\ \A u \in S : \E i \in 1..Cardinality(S) : f[i] = u
  /\ \A i, j \in 1..Cardinality(S) : f[i] = f[j] => i = j

LEMMA ListRange ==
  ASSUME NEW S, NEW f, Lists(f, S)
  PROVE  Range(f) = S
<1>1. ASSUME NEW x \in Range(f) PROVE x \in S
  BY DEF Range, Lists
<1>2. ASSUME NEW x \in S PROVE x \in Range(f)
  <2>1. PICK i \in DOMAIN f : f[i] = x
    BY DEF Lists
  <2> QED BY <2>1 DEF Range
<1> QED BY <1>1, <1>2

\* The elements of S by their places, which is what InOrder does.
Ordered(R, S) == [i \in 1..Cardinality(S) |-> CHOOSE u \in S : Place(R, S, u) = i - 1]

LEMMA OrderedPlaces ==
  ASSUME NEW S, IsFiniteSet(S), NEW R, Orders(R, S)
  PROVE  Lists(Ordered(R, S), S)
<1> DEFINE n == Cardinality(S)
           f == Ordered(R, S)
<1>1. n \in Nat
  BY FS_CardinalityType
<1>2. ASSUME NEW i \in 1..n PROVE f[i] \in S /\ Place(R, S, f[i]) = i - 1
  <2>1. \E u \in S : Place(R, S, u) = i - 1
    BY <1>1, PlacesTaken
  <2>2. f[i] = CHOOSE u \in S : Place(R, S, u) = i - 1
    BY DEF Ordered
  <2> QED BY <2>1, <2>2
<1>3. DOMAIN f = 1..n /\ f = [i \in 1..n |-> f[i]]
  BY DEF Ordered
<1>4. f \in [1..n -> S]
  <2> HIDE DEF f
  <2> QED BY <1>2, <1>3
<1>5. f \in Seq(S) /\ Len(f) = n
  <2> HIDE DEF f
  <2> QED BY <1>1, <1>4
<1>6. ASSUME NEW u \in S PROVE \E i \in 1..n : f[i] = u
  <2> DEFINE i == Place(R, S, u) + 1
  <2>1. i \in 1..n
    BY <1>1, PlaceBounds
  <2>2. Place(R, S, f[i]) = Place(R, S, u) /\ f[i] \in S
    <3>1. Place(R, S, u) \in Nat
      BY PlaceBounds
    <3> QED BY <1>2, <2>1, <3>1
  <2>3. f[i] = u
    <3> HIDE DEF f, i
    <3> QED BY <2>2, PlacesDiffer
  <2> QED BY <2>1, <2>3
<1>7. ASSUME NEW i \in 1..n, NEW j \in 1..n, f[i] = f[j] PROVE i = j
  <2>1. i - 1 = j - 1
    BY <1>2, <1>7
  <2> QED BY <1>1, <2>1
<1> HIDE DEF f
<1>8. Lists(f, S)
  BY <1>1, <1>2, <1>3, <1>5, <1>6, <1>7 DEF Lists
<1> QED BY <1>8 DEF f

\* The first n of a set: as many as there are, up to n, and no other is ahead
\* of one of them.
FirstOf(R, S, n) == {u \in S : Place(R, S, u) < n}

LEMMA FirstOnes ==
  ASSUME NEW S, IsFiniteSet(S), NEW R, Orders(R, S), NEW n \in Nat
  PROVE  /\ IsFiniteSet(FirstOf(R, S, n)) /\ FirstOf(R, S, n) \subseteq S
         /\ Cardinality(FirstOf(R, S, n)) = (IF n <= Cardinality(S) THEN n ELSE Cardinality(S))
         /\ \A u \in FirstOf(R, S, n), v \in S \ FirstOf(R, S, n) : <<u, v>> \in R
<1> DEFINE F == FirstOf(R, S, n)
           c == Cardinality(S)
           m == IF n <= c THEN n ELSE c
           P == 0..(m - 1)
           place == [u \in F |-> Place(R, S, u)]
<1>1. c \in Nat /\ m \in Nat
  BY FS_CardinalityType
<1>2. F \subseteq S /\ IsFiniteSet(F)
  BY FS_Subset DEF FirstOf
<1>3. \A u \in F : Place(R, S, u) \in P
  <2> TAKE u \in F
  <2>1. u \in S /\ Place(R, S, u) < n
    BY DEF FirstOf
  <2>2. Place(R, S, u) \in Nat /\ Place(R, S, u) < c
    BY <2>1, PlaceBounds
  <2> QED BY <1>1, <2>1, <2>2
<1>4. place \in [F -> P] /\ \A a, b \in F : place[a] = place[b] => a = b
  <2>1. place \in [F -> P]
    BY <1>3
  <2> QED BY <1>2, <2>1, PlacesDiffer
<1>5. \A k \in P : \E u \in F : place[u] = k
  <2> TAKE k \in P
  <2>1. k \in Nat /\ k < c /\ k < n
    BY <1>1
  <2>2. PICK u \in S : Place(R, S, u) = k
    BY <2>1, PlacesTaken
  <2>3. u \in F
    BY <2>1, <2>2 DEF FirstOf
  <2> QED BY <2>2, <2>3
<1>6. place \in Bijection(F, P)
  <2> HIDE DEF F, P, place
  <2> QED BY <1>4, <1>5 DEF Bijection, Injection, IsInjective, Surjection
<1>7. Cardinality(F) = m
  <2>1. Cardinality(P) = m
    BY <1>1, FirstNumbers, Zenon
  <2>2. ExistsBijection(F, P)
    BY <1>6 DEF ExistsBijection
  <2> HIDE DEF F, P
  <2> QED BY <1>2, <2>1, <2>2, FS_Bijection
<1>8. ASSUME NEW u \in F, NEW v \in S \ F PROVE <<u, v>> \in R
  <2>1. u \in S /\ v \in S /\ u # v /\ Place(R, S, u) < n /\ ~(Place(R, S, v) < n)
    BY DEF FirstOf
  <2>2. Place(R, S, u) \in Nat /\ Place(R, S, v) \in Nat
    BY <2>1, PlaceBounds
  <2>3. ~(<<v, u>> \in R)
    <3>1. SUFFICES ASSUME <<v, u>> \in R PROVE FALSE
      OBVIOUS
    <3>2. Place(R, S, v) < Place(R, S, u)
      BY <2>1, <3>1, PlaceMonotone
    <3> QED BY <2>1, <2>2, <3>2
  <2> QED BY <2>1, <2>3 DEF Orders
<1> QED BY <1>2, <1>7, <1>8

-----------------------------------------------------------------------------
(* The rows of a game.                                                     *)

Moved(st, sans, user, k) ==
  IF (k - 1) % 2 = user THEN UserMove(st, k) ELSE OpponentMove(st, k, sans[k])

\* g has what the extraction carries after each number of plies.
IsWalk(g, sans, user, n) ==
  g = [k \in 0..n |-> IF k = 0 THEN Start ELSE Moved(g[k - 1], sans, user, k)]

LEMMA RowsOfWalk ==
  ASSUME NEW sans, NEW user, NEW n
  PROVE  RowsOf(sans, user, n) = (CHOOSE g : IsWalk(g, sans, user, n))[n].rows
BY DEF RowsOf, IsWalk, Moved

LEMMA WalkExists ==
  ASSUME NEW sans, NEW user, NEW m \in Nat
  PROVE  \E g : IsWalk(g, sans, user, m)
<1> DEFINE T == {n \in Nat : \E g : IsWalk(g, sans, user, n)}
<1>1. 0 \in T
  <2> DEFINE g == [k \in 0..0 |-> Start]
  <2>1. g = [k \in 0..0 |-> IF k = 0 THEN Start ELSE Moved(g[k - 1], sans, user, k)]
    OBVIOUS
  <2>2. IsWalk(g, sans, user, 0)
    BY <2>1 DEF IsWalk
  <2> QED BY <2>2
<1>2. ASSUME NEW n \in Nat, n \in T PROVE n + 1 \in T
  <2>1. PICK g : IsWalk(g, sans, user, n)
    BY <1>2
  <2> DEFINE h == [k \in 0..(n + 1) |-> IF k <= n THEN g[k] ELSE Moved(g[n], sans, user, n + 1)]
  <2>2. \A k \in 0..n : g[k] = IF k = 0 THEN Start ELSE Moved(g[k - 1], sans, user, k)
    BY <2>1 DEF IsWalk
  <2>3. ASSUME NEW k \in 0..(n + 1)
        PROVE  h[k] = IF k = 0 THEN Start ELSE Moved(h[k - 1], sans, user, k)
    <3>1. CASE k <= n
      <4>1. k \in 0..n /\ h[k] = g[k] /\ (k # 0 => h[k - 1] = g[k - 1])
        BY <3>1
      <4> HIDE DEF h
      <4> QED BY <2>2, <4>1
    <3>2. CASE k = n + 1
      <4>1. h[k] = Moved(g[n], sans, user, n + 1) /\ h[n] = g[n] /\ k - 1 = n /\ k # 0
        BY <3>2
      <4> HIDE DEF h
      <4> QED BY <3>2, <4>1
    <3> QED BY <3>1, <3>2
  <2>4. h = [k \in 0..(n + 1) |-> h[k]]
    OBVIOUS
  <2>5. IsWalk(h, sans, user, n + 1)
    <3> HIDE DEF h
    <3> QED BY <2>3, <2>4 DEF IsWalk
  <2> QED BY <2>5
<1>3. Nat \subseteq T
  <2> HIDE DEF T
  <2> QED BY <1>1, <1>2, NumbersByInduction
<1> QED BY <1>3

LEMMA Parity ==
  ASSUME NEW k \in Nat
  PROVE  /\ k % 2 \in {0, 1} /\ (k + 1) % 2 = 1 - (k % 2)
         /\ k = 2 * (k \div 2) + (k % 2) /\ k \div 2 \in Nat
OBVIOUS

Captured(sans, k) == k > 0 /\ sans[k] = "capture"

MoveRow == [move_nr : Nat, ply : Nat, previous : Nat, captured : BOOLEAN]

\* The row of the i-th move of the user.
UserRow(sans, user, i) ==
  [move_nr |-> i, ply |-> 2 * i - 1 + user,
   previous |-> 2 * i - 2 + user, captured |-> Captured(sans, 2 * i - 2 + user)]

\* What the extraction carries after k plies.
AfterPlies(st, sans, user, k) ==
  /\ st \in [rows : Seq(MoveRow), previous : Nat, captured : BOOLEAN]
  /\ k % 2 = user => /\ st.previous = k /\ st.captured = Captured(sans, k)
                     /\ 2 * Len(st.rows) = k - user
  /\ k % 2 # user => 2 * Len(st.rows) = k + 1 - user
  /\ \A i \in 1..Len(st.rows) : st.rows[i] = UserRow(sans, user, i)

LEMMA StartIsRight ==
  ASSUME NEW sans, NEW user \in {0, 1}
  PROVE  AfterPlies(Start, sans, user, 0)
<1>1. 0 % 2 = 0
  OBVIOUS
<1>2. Start \in [rows : Seq(MoveRow), previous : Nat, captured : BOOLEAN] /\ Len(Start.rows) = 0
  BY DEF Start
<1>3. Start.previous = 0 /\ Start.captured = FALSE
  BY DEF Start
<1>4. ~Captured(sans, 0) /\ Captured(sans, 0) \in BOOLEAN
  BY DEF Captured
<1> QED BY <1>1, <1>2, <1>3, <1>4 DEF AfterPlies

LEMMA MovedIsRight ==
  ASSUME NEW sans, NEW user \in {0, 1}, NEW k \in Nat, NEW st, AfterPlies(st, sans, user, k)
  PROVE  AfterPlies(Moved(st, sans, user, k + 1), sans, user, k + 1)
<1> DEFINE States == [rows : Seq(MoveRow), previous : Nat, captured : BOOLEAN]
           next == Moved(st, sans, user, k + 1)
           len == Len(st.rows)
<1>1. k + 1 - 1 = k /\ k % 2 \in {0, 1} /\ (k + 1) % 2 = 1 - (k % 2)
  BY Parity
<1>2. st \in States /\ len \in Nat /\ st.rows \in Seq(MoveRow)
  BY DEF AfterPlies
<1>3. \A i \in 1..len : st.rows[i] = UserRow(sans, user, i)
  BY DEF AfterPlies
<1>4. CASE k % 2 = user
  <2> DEFINE row == [move_nr |-> len + 1, ply |-> k + 1,
                     previous |-> st.previous, captured |-> st.captured]
  <2>1. st.previous = k /\ st.captured = Captured(sans, k) /\ 2 * len = k - user
    BY <1>4 DEF AfterPlies
  <2>2. next = [st EXCEPT !.rows = Append(@, row)]
    BY <1>1, <1>4 DEF Moved, UserMove
  <2>3. row \in MoveRow
    BY <1>2 DEF MoveRow
  <2>4. next \in States /\ next.rows = Append(st.rows, row)
    BY <1>2, <2>2, <2>3
  <2>5. row = UserRow(sans, user, len + 1)
    <3>1. 2 * (len + 1) - 1 + user = k + 1 /\ 2 * (len + 1) - 2 + user = k
      BY <1>2, <2>1
    <3> QED BY <2>1, <3>1 DEF UserRow
  <2>6. /\ Len(next.rows) = len + 1
        /\ \A i \in 1..(len + 1) : next.rows[i] = UserRow(sans, user, i)
    <3>1. Len(next.rows) = len + 1 /\ next.rows[len + 1] = row
      BY <1>2, <2>3, <2>4
    <3>2. \A i \in 1..len : next.rows[i] = st.rows[i]
      BY <1>2, <2>3, <2>4
    <3>3. \A i \in 1..(len + 1) : i \in 1..len \/ i = len + 1
      BY <1>2
    <3> HIDE DEF next, row
    <3>4. ASSUME NEW i \in 1..(len + 1) PROVE next.rows[i] = UserRow(sans, user, i)
      <4>1. CASE i = len + 1
        BY <2>5, <3>1, <4>1
      <4>2. CASE i \in 1..len
        BY <1>3, <3>2, <4>2
      <4> QED BY <3>3, <4>1, <4>2
    <3> QED BY <3>1, <3>4
  <2>7. (k + 1) % 2 # user /\ 2 * Len(next.rows) = (k + 1) + 1 - user
    <3>1. (k + 1) % 2 # user
      BY <1>1, <1>4
    <3>2. Len(next.rows) = len + 1
      BY <2>6
    <3> HIDE DEF next, len
    <3>3. 2 * Len(next.rows) = (k + 1) + 1 - user
      BY <1>2, <2>1, <3>2
    <3> QED BY <3>1, <3>3
  <2> HIDE DEF next
  <2>8. AfterPlies(next, sans, user, k + 1)
    BY <2>4, <2>6, <2>7 DEF AfterPlies
  <2> QED BY <2>8 DEF next
<1>5. CASE k % 2 # user
  <2>1. 2 * len = k + 1 - user
    BY <1>5 DEF AfterPlies
  <2>2. next = [st EXCEPT !.previous = k + 1, !.captured = sans[k + 1] = "capture"]
    BY <1>1, <1>5 DEF Moved, OpponentMove
  <2>3. /\ next \in States /\ next.rows = st.rows /\ next.previous = k + 1
        /\ next.captured = (sans[k + 1] = "capture")
    <3>1. /\ DOMAIN st = {"rows", "previous", "captured"} /\ k + 1 \in Nat
          /\ st = [x \in {"rows", "previous", "captured"} |-> st[x]]
      BY <1>2
    <3>2. next.rows = st.rows
      BY <2>2, <3>1
    <3>3. next.previous = k + 1
      BY <2>2, <3>1
    <3>4. next.captured = (sans[k + 1] = "capture")
      BY <2>2, <3>1, Zenon
    <3>5. next = [rows |-> next.rows, previous |-> next.previous, captured |-> next.captured]
      BY <2>2, <3>1
    <3> HIDE DEF next
    <3>6. next \in States
      BY <1>2, <3>1, <3>2, <3>3, <3>4, <3>5
    <3> QED BY <3>2, <3>3, <3>4, <3>6
  <2>6. Captured(sans, k + 1) = (sans[k + 1] = "capture")
    BY DEF Captured
  <2>4. (k + 1) % 2 = user
    BY <1>1, <1>5
  <2> HIDE DEF next
  <2>5. AfterPlies(next, sans, user, k + 1)
    BY <1>3, <2>1, <2>3, <2>4, <2>6 DEF AfterPlies
  <2> QED BY <2>5 DEF next
<1> QED BY <1>4, <1>5

LEMMA RowsOfIsRight ==
  ASSUME NEW sans, NEW user \in {0, 1}, NEW n \in Nat
  PROVE  \E st : AfterPlies(st, sans, user, n) /\ RowsOf(sans, user, n) = st.rows
<1> DEFINE g == CHOOSE h : IsWalk(h, sans, user, n)
           T == {k \in Nat : k <= n => AfterPlies(g[k], sans, user, k)}
<1>1. IsWalk(g, sans, user, n)
  BY WalkExists
<1>2. RowsOf(sans, user, n) = g[n].rows
  BY RowsOfWalk
<1> HIDE DEF g
<1>3. \A k \in 0..n : g[k] = IF k = 0 THEN Start ELSE Moved(g[k - 1], sans, user, k)
  BY <1>1 DEF IsWalk
<1>4. 0 \in T
  <2>1. 0 \in 0..n
    OBVIOUS
  <2>2. g[0] = Start
    BY <1>3, <2>1
  <2> QED BY <2>2, StartIsRight
<1>5. ASSUME NEW k \in Nat, k \in T PROVE k + 1 \in T
  <2> SUFFICES ASSUME k + 1 <= n PROVE AfterPlies(g[k + 1], sans, user, k + 1)
    OBVIOUS
  <2>1. k + 1 \in 0..n /\ k + 1 # 0 /\ k + 1 - 1 = k
    OBVIOUS
  <2>2. g[k + 1] = Moved(g[k + 1 - 1], sans, user, k + 1)
    BY <1>3, <2>1
  <2>3. g[k + 1] = Moved(g[k], sans, user, k + 1)
    BY <2>1, <2>2
  <2> QED BY <1>5, <2>3, MovedIsRight
<1>6. Nat \subseteq T
  <2> HIDE DEF T
  <2> QED BY <1>4, <1>5, NumbersByInduction
<1>7. AfterPlies(g[n], sans, user, n)
  BY <1>6
<1> QED BY <1>2, <1>7

\* How many of the first n plies are the user's.
LEMMA UserPlies ==
  ASSUME NEW user \in {0, 1}, NEW n \in Nat, NEW c \in Nat,
         n % 2 = user => 2 * c = n - user,
         n % 2 # user => 2 * c = n + 1 - user
  PROVE  Cardinality({p \in 1..n : p % 2 # user}) = c
<1> DEFINE S == {p \in 1..n : p % 2 # user}
           f == [i \in 1..c |-> 2 * i - 1 + user]
<1>1. ASSUME NEW i \in 1..c PROVE f[i] \in S
  <2>1. (2 * i - 1 + user) % 2 = 1 - user
    OBVIOUS
  <2>2. 2 * i - 1 + user \in 1..n
    <3>1. n % 2 \in {0, 1}
      BY Parity
    <3> QED BY <3>1
  <2> QED BY <2>1, <2>2
<1>2. ASSUME NEW p \in S PROVE \E i \in 1..c : f[i] = p
  <2> DEFINE q == p \div 2
  <2>1. p % 2 \in {0, 1} /\ p = 2 * q + (p % 2) /\ q \in Nat /\ p % 2 = 1 - user
    BY Parity
  <2>2. n % 2 \in {0, 1}
    BY Parity
  <2>3. p <= n /\ p >= 1
    OBVIOUS
  <2> HIDE DEF q, S, f
  <2>4. q + 1 - user \in 1..c
    BY <2>1, <2>2, <2>3
  <2>5. 2 * (q + 1 - user) - 1 + user = p
    BY <2>1
  <2> QED BY <2>4, <2>5 DEF f
<1>3. \A i, j \in 1..c : f[i] = f[j] => i = j
  OBVIOUS
<1>4. f \in Bijection(1..c, S)
  <2>1. f \in [1..c -> S]
    BY <1>1
  <2> HIDE DEF f, S
  <2> QED BY <1>2, <1>3, <2>1 DEF Bijection, Injection, IsInjective, Surjection
<1>5. ExistsBijection(1..c, S)
  BY <1>4 DEF ExistsBijection
<1> HIDE DEF S
<1>6. Cardinality(S) = c
  BY <1>5, FS_CountingElements
<1> QED BY <1>6 DEF S

\* The plies of a row.
LEMMA RowCounts ==
  ASSUME NEW user \in {0, 1}, NEW n \in Nat, NEW i \in Nat \ {0}, 2 * i - 1 + user <= n
  PROVE  /\ 2 * i - 1 + user \in {p \in 1..n : p % 2 # user}
         /\ Cardinality({p \in {q \in 1..n : q % 2 # user} : p < 2 * i - 1 + user}) = i - 1
<1> DEFINE k == 2 * i - 2 + user
<1>1. (2 * i - 1 + user) % 2 = 1 - user /\ k % 2 = user /\ k \in Nat
  OBVIOUS
<1>2. {p \in {q \in 1..n : q % 2 # user} : p < 2 * i - 1 + user} = {p \in 1..k : p % 2 # user}
  OBVIOUS
<1>3. 2 * (i - 1) = k - user /\ i - 1 \in Nat
  OBVIOUS
<1>5. 2 * i - 1 + user \in 1..n
  OBVIOUS
<1> HIDE DEF k
<1>4. Cardinality({p \in 1..k : p % 2 # user}) = i - 1
  BY <1>1, <1>3, UserPlies
<1>6. 2 * i - 1 + user \in {p \in 1..n : p % 2 # user}
  BY <1>1, <1>5
<1>7. Cardinality({p \in {q \in 1..n : q % 2 # user} : p < 2 * i - 1 + user}) = i - 1
  BY <1>2, <1>4
<1> QED BY <1>6, <1>7

\* The parser reads as far as the first move that cannot be read.
LEMMA ReadsAsPlayed ==
  ASSUME NEW sans \in Games
  PROVE  /\ Max(Readable(sans)) \in Readable(sans) /\ Readable(sans) \subseteq Nat
         /\ Played(sans) = Max(Readable(sans))
<1>1. PICK m \in 0..MaxPlies : sans \in [1..m -> Tokens]
  BY DEF Games
<1>2. m \in Nat /\ Len(sans) = m
  BY <1>1, MoveAssumption
<1> DEFINE T == Readable(sans)
           Stops(n) == n = Len(sans) \/ sans[n + 1] = "bad"
<1>3. T \in SUBSET Nat /\ 0 \in T /\ \A n \in T : n <= m
  BY <1>2 DEF Readable
<1>4. Max(T) \in T
  <2>1. T # {}
    BY <1>3
  <2> HIDE DEF T
  <2> QED BY <1>2, <1>3, <2>1, BoundedMax
<1>5. \A n \in T : n <= Max(T)
  <2>1. PICK z \in T : \A n \in T : z >= n
    <3>1. T # {}
      BY <1>3
    <3> HIDE DEF T
    <3> QED BY <1>2, <1>3, <3>1, BoundedTop
  <2>2. Max(T) = z \/ \A n \in T : Max(T) >= n
    <3> HIDE DEF T
    <3> QED BY <2>1 DEF Max
  <2> QED BY <1>3, <2>1, <2>2
<1>6. Stops(Max(T))
  <2> SUFFICES ASSUME Max(T) # m, sans[Max(T) + 1] # "bad" PROVE FALSE
    BY <1>2
  <2>1. Max(T) \in Nat /\ Max(T) <= m /\ \A k \in 1..Max(T) : sans[k] # "bad"
    BY <1>2, <1>4 DEF Readable
  <2>2. Max(T) + 1 \in 0..m /\ \A k \in 1..(Max(T) + 1) : k \in 1..Max(T) \/ k = Max(T) + 1
    BY <1>2, <2>1
  <2>3. Max(T) + 1 \in T
    BY <1>2, <2>1, <2>2 DEF Readable
  <2>4. Max(T) + 1 <= Max(T)
    BY <1>5, <2>3
  <2> QED BY <2>1, <2>4
<1>7. ASSUME NEW n \in T, Stops(n) PROVE n = Max(T)
  <2> SUFFICES ASSUME n # Max(T) PROVE FALSE
    OBVIOUS
  <2>1. n \in Nat /\ Max(T) \in Nat /\ n < Max(T) /\ Max(T) <= m
    BY <1>3, <1>4, <1>5
  <2>2. n + 1 \in 1..Max(T) /\ n # Len(sans)
    BY <1>2, <2>1
  <2>3. sans[n + 1] # "bad"
    BY <1>4, <2>2 DEF Readable
  <2> QED BY <1>7, <2>2, <2>3
<1>8. Played(sans) = CHOOSE n \in T : Stops(n)
  BY DEF Played
<1>9. Played(sans) \in T /\ Stops(Played(sans))
  <2> HIDE DEF T, Stops
  <2> QED BY <1>4, <1>6, <1>8
<1> QED BY <1>3, <1>4, <1>7, <1>9

\* What RowsAreTheUsersMoves says, of any rows.
AreUsersRows(rows, sans, user) ==
  LET plies == {k \in 1..Played(sans) : k % 2 # user}
  IN /\ Len(rows) = Cardinality(plies)
     /\ \A i \in 1..Len(rows) :
          LET k == rows[i].ply
          IN /\ k \in plies /\ rows[i].move_nr = i
             /\ Cardinality({p \in plies : p < k}) = i - 1
             /\ rows[i].previous = k - 1
             /\ rows[i].captured = (k > 1 /\ sans[k - 1] = "capture")

LEMMA ExtractsUsersRows ==
  ASSUME NEW sans \in Games, NEW user \in {0, 1}
  PROVE  AreUsersRows(RowsOf(sans, user, Max(Readable(sans))), sans, user)
<1> DEFINE n == Max(Readable(sans))
           rows == RowsOf(sans, user, n)
           plies == {k \in 1..n : k % 2 # user}
<1>1. n \in Nat /\ Played(sans) = n
  BY ReadsAsPlayed
<1> HIDE DEF n
<1>2. PICK st : AfterPlies(st, sans, user, n) /\ rows = st.rows
  BY <1>1, RowsOfIsRight
<1> HIDE DEF rows
<1>3. /\ Len(rows) \in Nat
      /\ n % 2 = user => 2 * Len(rows) = n - user
      /\ n % 2 # user => 2 * Len(rows) = n + 1 - user
      /\ \A i \in 1..Len(rows) : rows[i] = UserRow(sans, user, i)
  BY <1>2 DEF AfterPlies
<1>4. Cardinality(plies) = Len(rows)
  BY <1>1, <1>3, UserPlies
<1>5. ASSUME NEW i \in 1..Len(rows)
      PROVE  LET k == rows[i].ply
             IN /\ k \in plies /\ rows[i].move_nr = i
                /\ Cardinality({p \in plies : p < k}) = i - 1
                /\ rows[i].previous = k - 1
                /\ rows[i].captured = (k > 1 /\ sans[k - 1] = "capture")
  <2> DEFINE k == 2 * i - 1 + user
  <2>1. i \in Nat \ {0} /\ i <= Len(rows)
    BY <1>3
  <2>2. k <= n
    <3>1. n % 2 \in {0, 1}
      BY <1>1, Parity
    <3> QED BY <1>1, <1>3, <2>1, <3>1
  <2>3. k \in plies /\ Cardinality({p \in plies : p < k}) = i - 1
    BY <1>1, <2>1, <2>2, RowCounts
  <2>4. rows[i] = UserRow(sans, user, i)
    BY <1>3
  <2>5. /\ rows[i].ply = k /\ rows[i].move_nr = i /\ rows[i].previous = k - 1
        /\ rows[i].captured = Captured(sans, k - 1)
    <3>1. 2 * i - 2 + user = k - 1
      BY <2>1
    <3> QED BY <2>4, <3>1 DEF UserRow
  <2>6. Captured(sans, k - 1) = (k > 1 /\ sans[k - 1] = "capture")
    <3>1. (k - 1 > 0) = (k > 1)
      BY <2>1
    <3> HIDE DEF k
    <3> QED BY <3>1, Zenon DEF Captured
  <2> HIDE DEF k, plies
  <2> QED BY <2>3, <2>5, <2>6
<1>6. AreUsersRows(rows, sans, user)
  BY <1>1, <1>4, <1>5, Zenon DEF AreUsersRows
<1> QED BY <1>6 DEF rows, n

-----------------------------------------------------------------------------
(* Moves in their orders.                                                  *)

SmallerOn(S) == {p \in S \X S : p[1] < p[2]}

LEMMA ByUciLists ==
  ASSUME NEW S \in SUBSET Nat, IsFiniteSet(S)
  PROVE  Lists(ByUci(S), S) /\ Range(ByUci(S)) = S
<1> DEFINE R == SmallerOn(S)
<1>1. Orders(R, S)
  BY DEF Orders, SmallerOn
<1>2. \A u \in S : Ahead(R, S, u) = {v \in S : v < u}
  BY DEF Ahead, SmallerOn
<1>3. ByUci(S) = Ordered(R, S)
  <2>1. \A u \in S : Place(R, S, u) = Cardinality({v \in S : v < u})
    BY <1>2 DEF Place
  <2>2. \A k : (CHOOSE u \in S : Cardinality({v \in S : v < u}) = k - 1) = (CHOOSE u \in S : Place(R, S, u) = k - 1)
    <3> HIDE DEF R
    <3> QED BY <2>1
  <2>3. ByUci(S) = [i \in 1..Cardinality(S) |-> CHOOSE u \in S : Cardinality({v \in S : v < u}) = i - 1]
    BY DEF ByUci, InOrder
  <2> HIDE DEF R
  <2> QED BY <2>2, <2>3 DEF Ordered
<1> HIDE DEF R
<1>4. Lists(ByUci(S), S)
  BY <1>1, <1>3, OrderedPlaces
<1>5. Range(ByUci(S)) = S
  BY <1>4, ListRange
<1> QED BY <1>4, <1>5

BetterOn(rows, S) == {p \in S \X S : Better(rows, p[1], p[2])}

LEMMA BetterOrders ==
  ASSUME NEW S \in SUBSET Nat, NEW rows, \A u \in S : rows[u].ev \in Int
  PROVE  /\ Orders(BetterOn(rows, S), S)
         /\ \A n : Best(rows, S, n) = FirstOf(BetterOn(rows, S), S, n)
<1> DEFINE R == BetterOn(rows, S)
<1>1. \A u, v \in S : <<u, v>> \in R <=> Better(rows, u, v)
  BY DEF BetterOn
<1>0. \A u \in S : u \in Nat /\ rows[u].ev \in Int
  OBVIOUS
<1>2. \A u \in S : ~Better(rows, u, u)
  BY <1>0 DEF Better
<1>3. \A u, v, w \in S : Better(rows, u, v) /\ Better(rows, v, w) => Better(rows, u, w)
  BY <1>0 DEF Better
<1>4. ASSUME NEW u \in S, NEW v \in S, u # v PROVE Better(rows, u, v) \/ Better(rows, v, u)
  <2>1. u \in Nat /\ v \in Nat /\ rows[u].ev \in Int /\ rows[v].ev \in Int
    BY <1>0
  <2> DEFINE a == rows[u].ev
             b == rows[v].ev
  <2>2. a > b \/ b > a \/ (a = b /\ (u < v \/ v < u))
    <3> HIDE DEF a, b
    <3> QED BY <1>4, <2>1 DEF a, b
  <2> QED BY <2>2 DEF Better
<1> HIDE DEF R
<1>5. Orders(R, S)
  BY <1>1, <1>2, <1>3, <1>4 DEF Orders
<1>6. \A u \in S : Place(R, S, u) = Cardinality({v \in S : Better(rows, v, u)})
  <2> TAKE u \in S
  <2>1. Ahead(R, S, u) = {v \in S : Better(rows, v, u)}
    BY <1>1 DEF Ahead
  <2> QED BY <2>1 DEF Place
<1>7. \A n : Best(rows, S, n) = FirstOf(R, S, n)
  BY <1>6 DEF Best, FirstOf
<1> QED BY <1>5, <1>7 DEF R

\* The best moves: as many as there is room for, and no other is better.
LEMMA BestOnes ==
  ASSUME NEW S \in SUBSET Nat, IsFiniteSet(S), NEW rows, \A u \in S : rows[u].ev \in Int,
         NEW n \in Nat
  PROVE  /\ IsFiniteSet(Best(rows, S, n)) /\ Best(rows, S, n) \subseteq S
         /\ Cardinality(Best(rows, S, n)) = (IF n <= Cardinality(S) THEN n ELSE Cardinality(S))
         /\ \A u \in Best(rows, S, n), v \in S \ Best(rows, S, n) : rows[u].ev >= rows[v].ev
<1> DEFINE R == BetterOn(rows, S)
           B == Best(rows, S, n)
<1>1. Orders(R, S) /\ B = FirstOf(R, S, n)
  BY BetterOrders
<1> HIDE DEF R, B
<1>2. /\ IsFiniteSet(B) /\ B \subseteq S
      /\ Cardinality(B) = (IF n <= Cardinality(S) THEN n ELSE Cardinality(S))
      /\ \A u \in B, v \in S \ B : <<u, v>> \in R
  BY <1>1, FirstOnes
<1>3. \A u \in B, v \in S \ B : rows[u].ev >= rows[v].ev
  <2> TAKE u \in B, v \in S \ B
  <2>1. u \in S /\ v \in S /\ <<u, v>> \in R
    BY <1>2
  <2>2. Better(rows, u, v)
    BY <2>1 DEF R, BetterOn
  <2> QED BY <2>1, <2>2 DEF Better
<1> QED BY <1>2, <1>3 DEF B

\* The greatest value is that of a move.
LEMMA TopValue ==
  ASSUME NEW S \in SUBSET Nat, IsFiniteSet(S), S # {}, NEW f, \A u \in S : f[u] \in Int
  PROVE  \E u \in S : f[u] = Max({f[v] : v \in S}) /\ \A v \in S : f[u] >= f[v]
<1> DEFINE rows == [u \in S |-> [ev |-> f[u]]]
           B == Best(rows, S, 1)
           T == {f[v] : v \in S}
<1>1. \A u \in S : rows[u].ev = f[u]
  OBVIOUS
<1>2. Cardinality(S) \in Nat /\ Cardinality(S) # 0
  BY FS_CardinalityType, FS_EmptySet
<1> HIDE DEF rows
<1>3. /\ IsFiniteSet(B) /\ B \subseteq S
      /\ Cardinality(B) = (IF 1 <= Cardinality(S) THEN 1 ELSE Cardinality(S))
      /\ \A u \in B, v \in S \ B : rows[u].ev >= rows[v].ev
  <2>1. \A u \in S : rows[u].ev \in Int
    BY <1>1
  <2> HIDE DEF B
  <2> QED BY <2>1, BestOnes DEF B
<1> HIDE DEF B
<1>4. Cardinality(B) = 1
  BY <1>2, <1>3
<1>5. PICK u : B = {u}
  BY <1>3, <1>4, FS_Singleton
<1>6. u \in S /\ \A v \in S : f[u] >= f[v]
  <2>1. u \in B /\ u \in S
    BY <1>3, <1>5
  <2>2. ASSUME NEW v \in S PROVE f[u] >= f[v]
    <3>1. CASE v = u
      BY <2>1, <3>1
    <3>2. CASE v # u
      <4>1. rows[u].ev >= rows[v].ev
        BY <1>3, <1>5, <2>1, <3>2
      <4> QED BY <4>1, <1>1, <2>1
    <3> QED BY <3>1, <3>2
  <2> QED BY <2>1, <2>2
<1>7. f[u] \in T /\ \A x \in T : f[u] >= x
  BY <1>6
<1>8. Max(T) \in T /\ \A x \in T : Max(T) >= x
  <2> HIDE DEF T
  <2> QED BY <1>7 DEF Max
<1>9. Max(T) = f[u]
  <2>1. Max(T) \in Int /\ f[u] \in Int
    BY <1>6, <1>8
  <2> HIDE DEF T
  <2> QED BY <1>7, <1>8, <2>1
<1> QED BY <1>6, <1>9

-----------------------------------------------------------------------------
(* Candidates and their slots.                                             *)

LEMMA MoveConstants ==
  /\ Legal \in SUBSET Nat /\ IsFiniteSet(Legal) /\ Stray \in SUBSET Nat /\ IsFiniteSet(Stray)
  /\ Pawns \subseteq Int /\ MaxCandidates \in Nat \ {0} /\ TopExtra \in Nat /\ MaxPlies \in Nat
BY MoveAssumption

\* Evaluations that a position can come with.
Evals == UNION {[M -> Pawns] : M \in SUBSET (Legal \cup Stray)}

\* The legal moves that have one.
Rated(evals) == DOMAIN evals \cap Legal

LEMMA RatedMoves ==
  ASSUME NEW evals \in Evals
  PROVE  /\ Rated(evals) \in SUBSET Nat /\ IsFiniteSet(Rated(evals))
         /\ \A u \in DOMAIN evals, white \in {TRUE, FALSE} : UserPov(evals[u], white) \in Int
<1>1. PICK M \in SUBSET (Legal \cup Stray) : evals \in [M -> Pawns]
  BY DEF Evals
<1>2. Rated(evals) \in SUBSET Legal
  BY DEF Rated
<1>3. IsFiniteSet(Rated(evals))
  BY <1>2, MoveConstants, FS_Subset
<1>4. \A u \in DOMAIN evals : evals[u] \in Int
  BY <1>1, MoveConstants
<1>5. ASSUME NEW u \in DOMAIN evals, NEW white \in {TRUE, FALSE} PROVE UserPov(evals[u], white) \in Int
  <2>1. CASE white
    BY <1>4, <2>1 DEF UserPov
  <2>2. CASE ~white
    BY <1>4, <2>2 DEF UserPov
  <2> QED BY <2>1, <2>2
<1> QED BY <1>2, <1>3, <1>5, MoveConstants

\* How far a move is from the best of the moves in S.
GapIn(evals, white, S, u) == UserPov(evals[u], white) - Max({UserPov(evals[v], white) : v \in S})

\* What CandidateRows makes of the moves of M.
IsRows(rows, evals, white, M) ==
  /\ M \in SUBSET Rated(evals) /\ DOMAIN rows = M
  /\ \A u \in M : /\ rows[u].ev = UserPov(evals[u], white) /\ rows[u].ev \in Int
                  /\ rows[u].delta = GapIn(evals, white, M, u)

LEMMA RowsOfCandidates ==
  ASSUME NEW evals \in Evals, NEW white \in {TRUE, FALSE}, NEW A \in SUBSET Legal,
         NEW M, M = DOMAIN evals \cap A
  PROVE  IsRows(CandidateRows(evals, white, A), evals, white, M)
<1> DEFINE rows == CandidateRows(evals, white, A)
<1>1. \A u \in M : UserPov(evals[u], white) \in Int
  BY RatedMoves
<1>2. M \in SUBSET Rated(evals)
  BY DEF Rated
<1>3. rows = [u \in M |-> [ev |-> UserPov(evals[u], white),
                          delta |-> UserPov(evals[u], white) - Max({UserPov(evals[v], white) : v \in M})]]
  BY DEF CandidateRows
<1> HIDE DEF rows
<1>4. DOMAIN rows = M
  BY <1>3
<1>5. \A u \in M : /\ rows[u].ev = UserPov(evals[u], white)
                   /\ rows[u].delta = GapIn(evals, white, M, u)
  BY <1>3 DEF GapIn
<1>6. IsRows(rows, evals, white, M)
  BY <1>1, <1>2, <1>4, <1>5 DEF IsRows
<1> QED BY <1>6 DEF rows

\* Moves among which is a best one measure the same gaps.
LEMMA SameGaps ==
  ASSUME NEW evals \in Evals, NEW white \in {TRUE, FALSE},
         NEW M \in SUBSET Rated(evals), M # {}, NEW B \in SUBSET M, B # {},
         \A u \in B, v \in M \ B : UserPov(evals[u], white) >= UserPov(evals[v], white)
  PROVE  \A u \in M : GapIn(evals, white, B, u) = GapIn(evals, white, M, u)
<1> DEFINE f == [u \in M |-> UserPov(evals[u], white)]
<1>1. /\ M \in SUBSET Nat /\ IsFiniteSet(M) /\ B \in SUBSET Nat /\ IsFiniteSet(B)
      /\ \A u \in M : f[u] \in Int
  <2>1. Rated(evals) \in SUBSET Nat /\ IsFiniteSet(Rated(evals))
    BY RatedMoves
  <2>2. \A u \in M : f[u] \in Int
    BY RatedMoves DEF Rated
  <2>3. IsFiniteSet(M)
    BY <2>1, FS_Subset
  <2>4. IsFiniteSet(B)
    BY <2>3, FS_Subset
  <2> QED BY <2>1, <2>2, <2>3, <2>4
<1>2. /\ {f[v] : v \in M} = {UserPov(evals[v], white) : v \in M}
      /\ {f[v] : v \in B} = {UserPov(evals[v], white) : v \in B}
      /\ \A u \in B, v \in M \ B : f[u] >= f[v]
  OBVIOUS
<1>3. \A u \in M : f[u] = UserPov(evals[u], white)
  OBVIOUS
<1> HIDE DEF f
<1>4. PICK x \in M : f[x] = Max({f[v] : v \in M}) /\ \A v \in M : f[x] >= f[v]
  BY <1>1, TopValue
<1>5. PICK y \in B : f[y] = Max({f[v] : v \in B}) /\ \A v \in B : f[y] >= f[v]
  <2>1. \A u \in B : f[u] \in Int
    BY <1>1
  <2> QED BY <1>1, <2>1, TopValue
<1>6. f[x] = f[y]
  <2>1. f[x] \in Int /\ f[y] \in Int /\ f[x] >= f[y]
    BY <1>1, <1>4, <1>5
  <2>2. f[y] >= f[x]
    <3>1. CASE x \in B
      BY <1>5, <3>1
    <3>2. CASE x \notin B
      BY <1>2, <3>2
    <3> QED BY <3>1, <3>2
  <2> QED BY <2>1, <2>2
<1> QED BY <1>2, <1>4, <1>5, <1>6 DEF GapIn

\* Trimmed keeps as many as there is room for, the user's move among them, and
\* of the others the best.
IsTrimmed(T, rows, M, user) ==
  /\ T \in SUBSET M /\ user \in T /\ IsFiniteSet(T)
  /\ Cardinality(T) = Min({MaxCandidates, Cardinality(M)})
  /\ Cardinality(M) <= MaxCandidates => T = M
  /\ \A u \in T \ {user}, v \in M \ T : rows[u].ev >= rows[v].ev

LEMMA TrimmedMoves ==
  ASSUME NEW evals \in Evals, NEW white \in {TRUE, FALSE},
         NEW M, NEW rows, IsRows(rows, evals, white, M), NEW user \in M
  PROVE  M \subseteq Nat /\ IsFiniteSet(M) /\ IsTrimmed(Trimmed(rows, user), rows, M, user)
<1> DEFINE T == Trimmed(rows, user)
           B == Best(rows, M \ {user}, MaxCandidates - 1)
<1>1. DOMAIN rows = M /\ \A u \in M : rows[u].ev \in Int
  BY DEF IsRows
<1>2. M \in SUBSET Nat /\ IsFiniteSet(M) /\ Cardinality(M) \in Nat
  <2>1. Rated(evals) \in SUBSET Nat /\ IsFiniteSet(Rated(evals)) /\ M \in SUBSET Rated(evals)
    BY RatedMoves DEF IsRows
  <2>2. IsFiniteSet(M)
    BY <2>1, FS_Subset
  <2> QED BY <2>1, <2>2, FS_CardinalityType
<1>3. user \in M /\ MaxCandidates \in Nat \ {0}
  BY MoveConstants
<1> HIDE DEF T
<1>4. CASE Cardinality(M) <= MaxCandidates
  <2>1. T = M
    BY <1>1, <1>4 DEF Trimmed, T
  <2>2. Cardinality(M) = Min({MaxCandidates, Cardinality(M)})
    BY <1>2, <1>3, <1>4, MinIs
  <2> QED BY <1>2, <1>3, <2>1, <2>2 DEF IsTrimmed, T
<1>5. CASE ~(Cardinality(M) <= MaxCandidates)
  <2>1. T = {user} \cup B
    BY <1>1, <1>5 DEF Trimmed, T
  <2>2. /\ M \ {user} \in SUBSET Nat /\ IsFiniteSet(M \ {user})
        /\ Cardinality(M \ {user}) = Cardinality(M) - 1
    BY <1>2, <1>3, FS_RemoveElement
  <2>3. MaxCandidates - 1 \in Nat /\ MaxCandidates - 1 <= Cardinality(M \ {user})
    BY <1>2, <1>3, <1>5, <2>2
  <2>4. /\ IsFiniteSet(B) /\ B \subseteq M \ {user} /\ Cardinality(B) = MaxCandidates - 1
        /\ \A u \in B, v \in (M \ {user}) \ B : rows[u].ev >= rows[v].ev
    <3>1. \A u \in M \ {user} : rows[u].ev \in Int
      BY <1>1
    <3>2. /\ IsFiniteSet(B) /\ B \subseteq M \ {user}
          /\ Cardinality(B) = (IF MaxCandidates - 1 <= Cardinality(M \ {user})
                               THEN MaxCandidates - 1 ELSE Cardinality(M \ {user}))
          /\ \A u \in B, v \in (M \ {user}) \ B : rows[u].ev >= rows[v].ev
      BY <2>2, <2>3, <3>1, BestOnes, Zenon
    <3> HIDE DEF B
    <3> QED BY <2>3, <3>2
  <2> HIDE DEF B
  <2>5. user \notin B /\ B \cup {user} = T
    BY <2>1, <2>4
  <2>6. IsFiniteSet(T) /\ Cardinality(T) = MaxCandidates
    <3>1. IsFiniteSet(B \cup {user}) /\ Cardinality(B \cup {user}) = Cardinality(B) + 1
      BY <2>4, <2>5, FS_AddElement
    <3>2. IsFiniteSet(T) /\ Cardinality(T) = Cardinality(B) + 1
      BY <2>5, <3>1, Zenon
    <3> QED BY <1>3, <2>4, <3>2
  <2>7. MaxCandidates = Min({MaxCandidates, Cardinality(M)})
    BY <1>2, <1>3, <1>5, MinIs
  <2>8. T \in SUBSET M /\ user \in T /\ T \ {user} = B /\ M \ T = (M \ {user}) \ B
    BY <1>3, <2>1, <2>4
  <2>9. IsTrimmed(T, rows, M, user)
    BY <1>2, <1>5, <2>4, <2>6, <2>7, <2>8 DEF IsTrimmed
  <2> QED BY <1>2, <2>9 DEF T
<1> QED BY <1>4, <1>5

\* The slots hold what Trimmed keeps, by UCI, and the label is the slot of the
\* user's move.
IsPacked(packed, T, user, evals, white, M) ==
  /\ packed.label \in 1..Cardinality(T) /\ ByUci(T)[packed.label] = user
  /\ DOMAIN packed.slots = 1..Cardinality(T) /\ Len(packed.slots) = Cardinality(T)
  /\ \A i \in 1..Cardinality(T) :
       /\ packed.slots[i].uci = ByUci(T)[i]
       /\ packed.slots[i].delta = GapIn(evals, white, M, ByUci(T)[i])

LEMMA PackedSlots ==
  ASSUME NEW evals \in Evals, NEW white \in {TRUE, FALSE}, NEW A \in SUBSET Legal,
         NEW M, M = DOMAIN evals \cap A, NEW user \in M,
         NEW T, T = Trimmed(CandidateRows(evals, white, A), user)
  PROVE  /\ T \subseteq Nat /\ Lists(ByUci(T), T) /\ Range(ByUci(T)) = T
         /\ IsPacked(PackCandidates(evals, white, A, user), T, user, evals, white, M)
<1> DEFINE rows == CandidateRows(evals, white, A)
           ucis == ByUci(T)
           label == {i \in DOMAIN ucis : ucis[i] = user}
           slots == [i \in DOMAIN ucis |-> [uci |-> ucis[i], delta |-> rows[ucis[i]].delta]]
           n == Cardinality(T)
           packed == PackCandidates(evals, white, A, user)
<1>1. IsRows(rows, evals, white, M)
  BY RowsOfCandidates, Zenon
<1>2. packed = IF user \notin DOMAIN rows \/ label = {} THEN Unusable ELSE [slots |-> slots, label |-> Max(label)]
  BY DEF PackCandidates
<1>3. T = Trimmed(rows, user)
  OBVIOUS
<1> HIDE DEF rows, packed
<1>4. M \subseteq Nat /\ T \in SUBSET M /\ user \in T /\ IsFiniteSet(T)
  <2>1. M \subseteq Nat /\ IsTrimmed(Trimmed(rows, user), rows, M, user)
    BY <1>1, TrimmedMoves
  <2> QED BY <1>3, <2>1 DEF IsTrimmed
<1>5. T \subseteq Nat
  BY <1>4
<1>6. Lists(ucis, T) /\ Range(ucis) = T
  <2>1. T \in SUBSET Nat
    BY <1>5
  <2> QED BY <1>4, <2>1, ByUciLists
<1>7. /\ n \in Nat /\ DOMAIN ucis = 1..n /\ \A i \in 1..n : ucis[i] \in T
      /\ \A u \in T : \E i \in 1..n : ucis[i] = u
      /\ \A i, j \in 1..n : ucis[i] = ucis[j] => i = j
  <2> HIDE DEF ucis
  <2> QED BY <1>6 DEF Lists
<1> HIDE DEF ucis, n
<1>8. PICK k \in 1..n : ucis[k] = user
  BY <1>4, <1>7
<1>9. label = {k}
  BY <1>7, <1>8
<1>10. Max(label) = k
  BY <1>7, <1>8, <1>9 DEF Max
<1>11. DOMAIN slots = 1..n /\ Len(slots) = n
  BY <1>7
<1>12. \A i \in 1..n : slots[i].uci = ucis[i] /\ slots[i].delta = rows[ucis[i]].delta
  BY <1>7
<1>13. \A i \in 1..n : slots[i].delta = GapIn(evals, white, M, ucis[i])
  BY <1>1, <1>4, <1>7, <1>12 DEF IsRows
<1>14. user \in DOMAIN rows /\ label # {}
  BY <1>1, <1>4, <1>9 DEF IsRows
<1>15. packed = [slots |-> slots, label |-> Max(label)]
  BY <1>2, <1>14
<1>16. packed.slots = slots /\ packed.label = k
  BY <1>10, <1>15
<1> HIDE DEF slots, label
<1>17. IsPacked(packed, T, user, evals, white, M)
  BY <1>7, <1>8, <1>11, <1>12, <1>13, <1>16 DEF IsPacked, ucis, n
<1> QED BY <1>5, <1>6, <1>17 DEF packed, ucis

\* What LabelIsThePlayedMove says, of any slots.
IsLabelled(packed, evals, white, user, moves) ==
  LET slots == packed.slots
      kept  == {slots[i].uci : i \in 1..Len(slots)}
  IN IF user \notin moves THEN packed = Unusable
     ELSE /\ packed.label \in 1..Len(slots)
          /\ slots[packed.label].uci = user
          /\ Len(slots) = Min({MaxCandidates, Cardinality(moves)})
          /\ Cardinality(kept) = Len(slots) /\ kept \subseteq moves
          /\ \A i \in 1..Len(slots) : slots[i].delta = GapIn(evals, white, moves, slots[i].uci)
          /\ \A u \in kept \ {user}, v \in moves \ kept :
               GapIn(evals, white, moves, u) >= GapIn(evals, white, moves, v)

\* The better move has the greater gap.
LEMMA GapsCompare ==
  ASSUME NEW evals \in Evals, NEW white \in {TRUE, FALSE}, NEW M \in SUBSET Rated(evals),
         NEW u \in M, NEW v \in M, UserPov(evals[u], white) >= UserPov(evals[v], white)
  PROVE  GapIn(evals, white, M, u) >= GapIn(evals, white, M, v)
<1> DEFINE f == [w \in M |-> UserPov(evals[w], white)]
           top == Max({UserPov(evals[w], white) : w \in M})
<1>1. M \in SUBSET Nat /\ IsFiniteSet(M)
  <2>1. Rated(evals) \in SUBSET Nat /\ IsFiniteSet(Rated(evals))
    BY RatedMoves
  <2> QED BY <2>1, FS_Subset
<1>2. \A w \in M : f[w] \in Int
  BY RatedMoves DEF Rated
<1>3. top = Max({f[w] : w \in M})
  <2>1. {f[w] : w \in M} = {UserPov(evals[w], white) : w \in M}
    OBVIOUS
  <2> QED BY <2>1
<1>4. f[u] = UserPov(evals[u], white) /\ f[v] = UserPov(evals[v], white)
  OBVIOUS
<1>5. GapIn(evals, white, M, u) = f[u] - top /\ GapIn(evals, white, M, v) = f[v] - top
  BY <1>4 DEF GapIn
<1> HIDE DEF f, top
<1>6. top \in Int
  <2>1. \E w \in M : f[w] = Max({f[x] : x \in M}) /\ \A x \in M : f[w] >= f[x]
    BY <1>1, <1>2, TopValue
  <2> QED BY <1>2, <1>3, <2>1
<1>7. f[u] \in Int /\ f[v] \in Int /\ f[u] >= f[v]
  BY <1>2, <1>4
<1> QED BY <1>5, <1>6, <1>7

LEMMA PacksLabelled ==
  ASSUME NEW evals \in Evals, NEW white \in {TRUE, FALSE}, NEW user \in Legal,
         NEW M, M = DOMAIN evals \cap Legal
  PROVE  IsLabelled(PackCandidates(evals, white, Legal, user), evals, white, user, M)
<1> DEFINE rows == CandidateRows(evals, white, Legal)
           T == Trimmed(rows, user)
           packed == PackCandidates(evals, white, Legal, user)
           slots == packed.slots
           kept == {slots[i].uci : i \in 1..Len(slots)}
<1>1. Legal \in SUBSET Legal
  OBVIOUS
<1>2. IsRows(rows, evals, white, M)
  BY <1>1, RowsOfCandidates, Zenon
<1>3. CASE user \notin M
  <2>1. packed = Unusable
    BY <1>2, <1>3 DEF PackCandidates, IsRows
  <2> QED BY <1>3, <2>1 DEF IsLabelled
<1>4. CASE user \in M
  <2>1. /\ T \subseteq Nat /\ Lists(ByUci(T), T) /\ Range(ByUci(T)) = T
        /\ IsPacked(packed, T, user, evals, white, M)
    BY <1>1, <1>4, PackedSlots
  <2> HIDE DEF rows
  <2>2. M \subseteq Nat /\ IsFiniteSet(M) /\ IsTrimmed(T, rows, M, user)
    BY <1>2, <1>4, TrimmedMoves
  <2> HIDE DEF T, packed
  <2>3. \A u \in T \ {user}, v \in M \ T : GapIn(evals, white, M, u) >= GapIn(evals, white, M, v)
    <3> TAKE u \in T \ {user}, v \in M \ T
    <3>1. u \in M /\ v \in M /\ rows[u].ev >= rows[v].ev
      BY <2>2 DEF IsTrimmed
    <3>2. UserPov(evals[u], white) >= UserPov(evals[v], white) /\ M \in SUBSET Rated(evals)
      BY <1>2, <3>1 DEF IsRows
    <3> QED BY <3>1, <3>2, GapsCompare
  <2>4. /\ packed.label \in 1..Len(slots) /\ Len(slots) = Cardinality(T)
        /\ \A i \in 1..Len(slots) : /\ slots[i].uci = ByUci(T)[i]
                                    /\ slots[i].delta = GapIn(evals, white, M, slots[i].uci)
        /\ ByUci(T)[packed.label] = user
    BY <2>1 DEF IsPacked
  <2>5. slots[packed.label].uci = user
    BY <2>4
  <2>6. kept = T
    <3>1. \A i \in 1..Len(slots) : slots[i].uci \in T
      BY <2>1, <2>4 DEF Lists
    <3>2. \A u \in T : \E i \in 1..Len(slots) : slots[i].uci = u
      BY <2>1, <2>4 DEF Lists
    <3> QED BY <3>1, <3>2
  <2>7. T \subseteq M /\ Len(slots) = Min({MaxCandidates, Cardinality(M)})
    BY <2>2, <2>4 DEF IsTrimmed
  <2> HIDE DEF slots, kept
  <2>8. IsLabelled(packed, evals, white, user, M)
    BY <1>4, <2>3, <2>4, <2>5, <2>6, <2>7 DEF IsLabelled, slots, kept
  <2> QED BY <2>8 DEF packed
<1> QED BY <1>3, <1>4

-----------------------------------------------------------------------------
(* The live move.                                                          *)

\* B has room in the slots and holds the best of M.
IsOffer(B, evals, white, M) ==
  /\ B \in SUBSET M /\ B # {} /\ IsFiniteSet(B) /\ Cardinality(B) <= MaxCandidates
  /\ \A u \in B, v \in M \ B : UserPov(evals[u], white) >= UserPov(evals[v], white)

OfferOf(rows, M) == IF Cardinality(M) <= MaxCandidates THEN M ELSE Best(rows, M, MaxCandidates)

LEMMA OfferedMoves ==
  ASSUME NEW evals \in Evals, NEW white \in {TRUE, FALSE},
         NEW M, M # {}, NEW rows, IsRows(rows, evals, white, M)
  PROVE  IsOffer(OfferOf(rows, M), evals, white, M) /\ Offered(rows) = ByUci(OfferOf(rows, M))
<1> DEFINE B == OfferOf(rows, M)
<1>1. DOMAIN rows = M /\ \A u \in M : rows[u].ev \in Int /\ rows[u].ev = UserPov(evals[u], white)
  BY DEF IsRows
<1>2. M \in SUBSET Nat /\ IsFiniteSet(M) /\ Cardinality(M) \in Nat
  <2>1. Rated(evals) \in SUBSET Nat /\ IsFiniteSet(Rated(evals)) /\ M \in SUBSET Rated(evals)
    BY RatedMoves DEF IsRows
  <2>2. IsFiniteSet(M)
    BY <2>1, FS_Subset
  <2> QED BY <2>1, <2>2, FS_CardinalityType
<1>3. MaxCandidates \in Nat \ {0}
  BY MoveConstants
<1>4. Offered(rows) = ByUci(B)
  BY <1>1 DEF Offered, OfferOf
<1>5. CASE Cardinality(M) <= MaxCandidates
  <2>1. B = M
    BY <1>5 DEF OfferOf
  <2>2. IsOffer(B, evals, white, M)
    BY <1>2, <1>5, <2>1 DEF IsOffer
  <2> QED BY <1>4, <2>2
<1>6. CASE ~(Cardinality(M) <= MaxCandidates)
  <2>1. B = Best(rows, M, MaxCandidates)
    BY <1>6 DEF OfferOf
  <2>2. /\ IsFiniteSet(B) /\ B \subseteq M
        /\ Cardinality(B) = (IF MaxCandidates <= Cardinality(M) THEN MaxCandidates ELSE Cardinality(M))
        /\ \A u \in B, v \in M \ B : rows[u].ev >= rows[v].ev
    <3>1. MaxCandidates \in Nat /\ \A u \in M : rows[u].ev \in Int
      BY <1>1, <1>3
    <3> HIDE DEF B
    <3> QED BY <1>2, <2>1, <3>1, BestOnes
  <2> HIDE DEF B
  <2>3. Cardinality(B) = MaxCandidates
    BY <1>2, <1>3, <1>6, <2>2
  <2>4. B # {}
    BY <1>3, <2>3, FS_EmptySet
  <2>5. IsOffer(B, evals, white, M)
    BY <1>1, <1>3, <2>2, <2>3, <2>4 DEF IsOffer
  <2> QED BY <1>4, <2>5 DEF B
<1> QED BY <1>5, <1>6

\* What Live gives: the moves of an offer, each in its slot.
IsLive(live, B) ==
  /\ live.ucis = ByUci(B) /\ Lists(live.ucis, B) /\ Range(live.ucis) = B
  /\ Cardinality(B) \in Nat \ {0}
  /\ \A i \in 1..Cardinality(B) : live.slots[i].uci = live.ucis[i]

LEMMA LiveSlots ==
  ASSUME NEW evals \in Evals, NEW white \in {TRUE, FALSE}, NEW M, M = DOMAIN evals \cap Legal
  PROVE  /\ M = {} => Live(evals, white).ucis = <<>>
         /\ M # {} => \E B : IsOffer(B, evals, white, M) /\ IsLive(Live(evals, white), B)
<1> DEFINE rows == CandidateRows(evals, white, Legal)
           live == Live(evals, white)
<1>1. IsRows(rows, evals, white, M)
  <2>1. Legal \in SUBSET Legal
    OBVIOUS
  <2> QED BY <2>1, RowsOfCandidates, Zenon
<1>2. DOMAIN rows = M
  BY <1>1 DEF IsRows
<1>3. CASE M = {}
  BY <1>2, <1>3 DEF Live, NoCandidates
<1>4. CASE M # {}
  <2> DEFINE ucis == Offered(rows)
             packed == PackCandidates(evals, white, Range(ucis), ucis[1])
  <2>1. live = IF DOMAIN rows = {} \/ packed = Unusable THEN NoCandidates
               ELSE [ucis |-> ucis, slots |-> packed.slots]
    BY DEF Live
  <2> HIDE DEF rows
  <2>2. PICK B : IsOffer(B, evals, white, M) /\ ucis = ByUci(B)
    <3>1. M # {} /\ evals \in Evals /\ white \in {TRUE, FALSE}
      BY <1>4
    <3>2. IsOffer(OfferOf(rows, M), evals, white, M)
      BY <1>1, <3>1, OfferedMoves
    <3>3. ucis = ByUci(OfferOf(rows, M))
      BY <1>1, <3>1, OfferedMoves
    <3> QED BY <3>2, <3>3
  <2>3. B \in SUBSET M /\ B # {} /\ IsFiniteSet(B) /\ Cardinality(B) <= MaxCandidates
    BY <2>2 DEF IsOffer
  <2>4. M \subseteq Nat
    BY MoveConstants
  <2>5. B \in SUBSET Nat /\ B \in SUBSET Legal /\ B = DOMAIN evals \cap B
    BY <2>3, <2>4
  <2>6. Lists(ucis, B) /\ Range(ucis) = B
    BY <2>2, <2>3, <2>5, ByUciLists
  <2>7. Cardinality(B) \in Nat \ {0}
    BY <2>3, FS_CardinalityType, FS_EmptySet
  <2> DEFINE user == ucis[1]
             own == CandidateRows(evals, white, B)
             T == Trimmed(own, user)
  <2>8. user \in B
    <3>1. 1 \in 1..Cardinality(B)
      BY <2>7
    <3> HIDE DEF ucis
    <3> QED BY <2>6, <3>1 DEF Lists
  <2> HIDE DEF ucis, user
  <2>9. IsRows(own, evals, white, B)
    BY <2>5, RowsOfCandidates, Zenon
  <2>10. T = B
    BY <2>3, <2>9 DEF Trimmed, IsRows
  <2>11. IsPacked(PackCandidates(evals, white, B, user), B, user, evals, white, B)
    BY <2>5, <2>8, <2>10, PackedSlots
  <2>12. packed = PackCandidates(evals, white, B, user)
    BY <2>6 DEF user
  <2>13. packed # Unusable
    <3>1. packed.label \in 1..Cardinality(B)
      BY <2>11, <2>12 DEF IsPacked
    <3>2. packed.label # 0
      BY <2>7, <3>1
    <3> HIDE DEF packed
    <3> QED BY <3>2 DEF Unusable
  <2>14. live.ucis = ucis /\ live.slots = packed.slots
    BY <1>2, <1>4, <2>1, <2>13
  <2>15. \A i \in 1..Cardinality(B) : live.slots[i].uci = live.ucis[i]
    BY <2>2, <2>11, <2>12, <2>14 DEF IsPacked
  <2> HIDE DEF live, packed
  <2>16. IsLive(live, B)
    BY <2>2, <2>6, <2>7, <2>14, <2>15 DEF IsLive
  <2> QED BY <1>4, <2>2, <2>16 DEF live
<1> QED BY <1>3, <1>4

LikedMore(score, S) ==
  {p \in S \X S : score[p[1]] > score[p[2]] \/ (score[p[1]] = score[p[2]] /\ p[1] < p[2])}

\* The slots by their score, as the panel has them.
LEMMA LikedOrder ==
  ASSUME NEW S \in SUBSET Nat, IsFiniteSet(S), NEW score, \A i \in S : score[i] \in Int
  PROVE  Lists(ByScore(score, S), S)
<1> DEFINE R == LikedMore(score, S)
           Liked(a, b) == score[a] > score[b] \/ (score[a] = score[b] /\ a < b)
<1>0. \A a \in S : a \in Nat /\ score[a] \in Int
  OBVIOUS
<1>1. \A a, b \in S : <<a, b>> \in R <=> Liked(a, b)
  BY DEF LikedMore
<1>2. ASSUME NEW a \in S PROVE ~Liked(a, a)
  BY <1>0
<1>3. ASSUME NEW a \in S, NEW b \in S, NEW c \in S, Liked(a, b), Liked(b, c) PROVE Liked(a, c)
  BY <1>0, <1>3
<1>4. ASSUME NEW a \in S, NEW b \in S, a # b PROVE Liked(a, b) \/ Liked(b, a)
  BY <1>0, <1>4
<1> HIDE DEF R
<1>5. Orders(R, S)
  <2> HIDE DEF Liked
  <2> QED BY <1>1, <1>2, <1>3, <1>4 DEF Orders
<1>6. \A u \in S : Place(R, S, u) = Cardinality({v \in S : Liked(v, u)})
  <2> TAKE u \in S
  <2> HIDE DEF Liked
  <2>1. Ahead(R, S, u) = {v \in S : Liked(v, u)}
    BY <1>1 DEF Ahead
  <2> QED BY <2>1 DEF Place
<1>7. ByScore(score, S) = [i \in 1..Cardinality(S) |-> CHOOSE u \in S : Cardinality({v \in S : Liked(v, u)}) = i - 1]
  BY DEF ByScore, InOrder
<1>8. ByScore(score, S) = Ordered(R, S)
  <2>1. \A k : (CHOOSE u \in S : Cardinality({v \in S : Liked(v, u)}) = k - 1) = (CHOOSE u \in S : Place(R, S, u) = k - 1)
    BY <1>6
  <2> QED BY <1>7, <2>1 DEF Ordered
<1> QED BY <1>5, <1>8, OrderedPlaces

\* What BotPlaysWhatItLikes says of a panel.
IsPanel(panel, played, evals, white, M) ==
  /\ Len(panel) \in Nat /\ panel[1].uci = played
  /\ \A i \in 1..Len(panel) : panel[i].delta = GapIn(evals, white, M, panel[i].uci)
  /\ \A i, j \in 1..Len(panel) : i # j => panel[i].uci # panel[j].uci

LEMMA PanelOfMoves ==
  ASSUME NEW evals \in Evals, NEW white \in {TRUE, FALSE}, NEW M, M = DOMAIN evals \cap Legal,
         NEW B, IsOffer(B, evals, white, M), NEW live, IsLive(live, B),
         NEW score \in [1..Cardinality(B) -> {0, 1}], NEW k \in 1..Cardinality(B)
  PROVE  IsPanel(Panel(live, score, live.ucis[k], evals, white), live.ucis[k], evals, white, M)
<1> DEFINE n == Cardinality(B)
           ucis == live.ucis
           played == ucis[k]
           rows == CandidateRows(evals, white, Range(ucis))
           seen == {i \in DOMAIN ucis : ucis[i] \in DOMAIN rows}
           delta(u) == IF u \in DOMAIN rows THEN rows[u].delta ELSE 0
           S == {i \in seen : ucis[i] # played}
           others == ByScore(score, S)
           top == Min({TopExtra, Len(others)})
           more == [j \in 1..top |-> [uci |-> ucis[others[j]], delta |-> delta(ucis[others[j]])]]
           panel == Panel(live, score, played, evals, white)
<1>1. panel = <<[uci |-> played, delta |-> delta(played)]>> \o more
  BY DEF Panel
<1>2. /\ n \in Nat \ {0} /\ DOMAIN ucis = 1..n /\ \A i \in 1..n : ucis[i] \in B
      /\ \A i, j \in 1..n : ucis[i] = ucis[j] => i = j
      /\ Range(ucis) = B
  BY DEF IsLive, Lists
<1>3. B \in SUBSET M /\ M \in SUBSET Rated(evals) /\ B # {} /\ B \in SUBSET Legal /\ B = DOMAIN evals \cap B
  BY DEF IsOffer, Rated
<1>4. rows = CandidateRows(evals, white, B)
  BY <1>2
<1> HIDE DEF rows
<1>5. IsRows(rows, evals, white, B)
  BY <1>3, <1>4, RowsOfCandidates, Zenon
<1>6. DOMAIN rows = B
  BY <1>5 DEF IsRows
<1>7. ASSUME NEW u \in B PROVE delta(u) = GapIn(evals, white, M, u)
  <2>1. delta(u) = GapIn(evals, white, B, u)
    BY <1>5, <1>6 DEF IsRows
  <2>2. \A w \in M : GapIn(evals, white, B, w) = GapIn(evals, white, M, w)
    <3>1. \A x \in B, y \in M \ B : UserPov(evals[x], white) >= UserPov(evals[y], white)
      BY DEF IsOffer
    <3>2. M # {}
      BY <1>3
    <3> QED BY <1>3, <3>1, <3>2, SameGaps
  <2> QED BY <1>3, <2>1, <2>2
<1>8. seen = 1..n
  BY <1>2, <1>6
<1>9. S \in SUBSET Nat /\ IsFiniteSet(S) /\ \A i \in S : score[i] \in Int /\ i \in 1..n /\ ucis[i] # played
  <2>1. S \in SUBSET (1..n)
    BY <1>8
  <2>2. IsFiniteSet(1..n)
    BY <1>2, FS_Interval
  <2>3. IsFiniteSet(S)
    <3> HIDE DEF S
    <3> QED BY <2>1, <2>2, FS_Subset
  <2> QED BY <1>2, <2>1, <2>3
<1> HIDE DEF S
<1>10. Lists(others, S)
  BY <1>9, LikedOrder
<1>11. Len(others) \in Nat /\ top \in Nat /\ top <= Len(others)
  <2>1. Len(others) \in Nat
    BY <1>10 DEF Lists
  <2>2. TopExtra \in Nat
    BY MoveConstants
  <2> HIDE DEF others
  <2> QED BY <2>1, <2>2, MinIs
<1> HIDE DEF others, delta, top
<1>12. /\ \A j \in 1..top : others[j] \in S
       /\ \A i, j \in 1..top : others[i] = others[j] => i = j
  <2>1. \A j \in 1..top : j \in 1..Cardinality(S)
    BY <1>10, <1>11 DEF Lists
  <2> QED BY <1>10, <2>1 DEF Lists
<1>13. more \in Seq({more[j] : j \in 1..top}) /\ Len(more) = top
  BY <1>11
<1>14. \A j \in 1..top : more[j].uci = ucis[others[j]] /\ more[j].delta = delta(ucis[others[j]])
  OBVIOUS
<1>15. \A j \in 1..top : more[j].uci \in B /\ more[j].uci # played
                         /\ more[j].delta = GapIn(evals, white, M, more[j].uci)
  BY <1>2, <1>7, <1>9, <1>12, <1>14
<1>16. ASSUME NEW i \in 1..top, NEW j \in 1..top, more[i].uci = more[j].uci PROVE i = j
  <2>1. ucis[others[i]] = ucis[others[j]]
    BY <1>14, <1>16
  <2>2. others[i] \in 1..n /\ others[j] \in 1..n
    BY <1>9, <1>12
  <2>3. others[i] = others[j]
    BY <1>2, <2>1, <2>2
  <2> QED BY <1>12, <2>3
<1> DEFINE first == [uci |-> played, delta |-> delta(played)]
<1>17. first.uci = played /\ first.delta = GapIn(evals, white, M, played)
  BY <1>2, <1>7
<1> HIDE DEF more, first, panel, played, ucis
<1>18. /\ Len(panel) = top + 1 /\ panel[1] = first
       /\ \A i \in 2..(top + 1) : panel[i] = more[i - 1]
  <2>1. panel = <<first>> \o more
    BY <1>1 DEF first
  <2> QED BY <1>11, <1>13, <2>1
<1>19. \A i \in 1..(top + 1) : i = 1 \/ (i \in 2..(top + 1) /\ i - 1 \in 1..top)
  BY <1>11
<1>20. ASSUME NEW i \in 1..Len(panel) PROVE panel[i].delta = GapIn(evals, white, M, panel[i].uci)
  <2>1. CASE i = 1
    BY <1>17, <1>18, <2>1
  <2>2. CASE i # 1
    <3>1. i - 1 \in 1..top /\ panel[i] = more[i - 1]
      BY <1>18, <1>19, <2>2
    <3> QED BY <1>15, <3>1
  <2> QED BY <2>1, <2>2
<1>21. ASSUME NEW i \in 1..Len(panel), NEW j \in 1..Len(panel), i # j
       PROVE  panel[i].uci # panel[j].uci
  <2>1. CASE i = 1
    <3>1. j - 1 \in 1..top /\ panel[j] = more[j - 1]
      BY <1>18, <1>19, <1>21, <2>1
    <3> QED BY <1>15, <1>17, <1>18, <2>1, <3>1
  <2>2. CASE j = 1
    <3>1. i - 1 \in 1..top /\ panel[i] = more[i - 1]
      BY <1>18, <1>19, <1>21, <2>2
    <3> QED BY <1>15, <1>17, <1>18, <2>2, <3>1
  <2>3. CASE i # 1 /\ j # 1
    <3>1. /\ i - 1 \in 1..top /\ panel[i] = more[i - 1]
          /\ j - 1 \in 1..top /\ panel[j] = more[j - 1] /\ i - 1 # j - 1
      BY <1>18, <1>19, <1>21, <2>3
    <3> QED BY <1>16, <3>1
  <2> QED BY <2>1, <2>2, <2>3
<1>22. Len(panel) \in Nat /\ panel[1].uci = played
  BY <1>11, <1>17, <1>18
<1>23. IsPanel(panel, played, evals, white, M)
  BY <1>20, <1>21, <1>22 DEF IsPanel
<1> QED BY <1>23 DEF panel, played, ucis

-----------------------------------------------------------------------------
(* The theorems about MoveData.                                            *)

MoveInputs == input \in GameInputs \cup PositionInputs

LEMMA GameInput ==
  ASSUME MoveInputs, input.kind = "game"
  PROVE  input.sans \in Games /\ input.user \in {0, 1} /\ input.variant \in {"standard", "other"}
<1>1. ASSUME input \in PositionInputs PROVE FALSE
  <2>1. PICK D \in SUBSET (Legal \cup Stray) :
          input \in [kind : {"position"}, evals : [D -> Pawns], white : {TRUE, FALSE}]
    BY <1>1 DEF PositionInputs
  <2>2. input.kind = "position"
    BY <2>1
  <2> QED BY <2>2
<1> QED BY <1>1 DEF MoveInputs, GameInputs

LEMMA PositionInput ==
  ASSUME MoveInputs, input.kind = "position"
  PROVE  input.evals \in Evals /\ input.white \in {TRUE, FALSE}
<1>1. input \notin GameInputs
  BY DEF GameInputs
<1>2. PICK D \in SUBSET (Legal \cup Stray) :
        input \in [kind : {"position"}, evals : [D -> Pawns], white : {TRUE, FALSE}]
  BY <1>1 DEF MoveInputs, PositionInputs
<1> QED BY <1>2 DEF Evals

LEMMA InputsStay == MoveSpec => []MoveInputs
<1>1. MoveInit => MoveInputs
  BY DEF MoveInit, MoveInputs
<1>2. MoveInputs /\ [MoveNext]_moveVars => MoveInputs'
  BY DEF MoveInputs, MoveNext, Extract, Pack, Choose, moveVars
<1> QED BY <1>1, <1>2, PTL DEF MoveSpec

LEMMA ChooseIsChosen == ASSUME Choose PROVE output'.fn = "chosen"
<1> DEFINE live == Live(input.evals, input.white)
           n == Len(live.ucis)
<1>1. CASE n = 0
  <2>1. PICK m \in Legal : output' = [fn |-> "chosen", liked |-> m, played |-> m, panel |-> <<>>]
    BY <1>1 DEF Choose
  <2> QED BY <2>1
<1>2. CASE n # 0
  <2>1. \E liked, played, panel :
          output' = [fn |-> "chosen", liked |-> liked, played |-> played, panel |-> panel]
    BY <1>2 DEF Choose
  <2> QED BY <2>1
<1> QED BY <1>1, <1>2

LEMMA RowsInvariantIs ==
  LET Right(in, result) == result.fn = "rows" =>
        IF in.variant = "other" THEN result.rows = <<>> ELSE AreUsersRows(result.rows, in.sans, in.user)
  IN /\ RowsAreTheUsersMoves <=> Right(input, output)
     /\ RowsAreTheUsersMoves' <=> Right(input', output')
BY DEF RowsAreTheUsersMoves, AreUsersRows

LEMMA ExtractRows ==
  ASSUME MoveInputs, Extract
  PROVE  RowsAreTheUsersMoves'
<1> DEFINE rows == ExtractUserMoves(input.sans, input.user, input.variant)
<1>1. /\ input' = input /\ output' = [fn |-> "rows", rows |-> rows]
      /\ input.sans \in Games /\ input.user \in {0, 1} /\ input.variant \in {"standard", "other"}
  BY GameInput DEF Extract
<1>2. output'.fn = "rows" /\ output'.rows = rows
  BY <1>1
<1>3. CASE input.variant = "other"
  <2>1. rows = <<>>
    BY <1>3 DEF ExtractUserMoves
  <2> HIDE DEF rows
  <2> QED BY <1>1, <1>2, <1>3, <2>1 DEF RowsAreTheUsersMoves
<1>4. CASE input.variant # "other"
  <2>1. rows = RowsOf(input.sans, input.user, Max(Readable(input.sans)))
    BY <1>1, <1>4 DEF ExtractUserMoves
  <2>2. AreUsersRows(rows, input.sans, input.user)
    BY <1>1, <2>1, ExtractsUsersRows
  <2> HIDE DEF rows
  <2> QED BY <1>1, <1>2, <1>4, <2>2 DEF RowsAreTheUsersMoves, AreUsersRows
<1> QED BY <1>3, <1>4

\* Whatever the game, the rows are the user's moves before it breaks off.
THEOREM RowsAreUsersMoves == MoveSpec => []RowsAreTheUsersMoves
<1>1. MoveInit => RowsAreTheUsersMoves
  BY DEF MoveInit, RowsAreTheUsersMoves
<1>2. MoveInputs /\ RowsAreTheUsersMoves /\ [MoveNext]_moveVars => RowsAreTheUsersMoves'
  <2> SUFFICES ASSUME MoveInputs, RowsAreTheUsersMoves, [MoveNext]_moveVars
               PROVE  RowsAreTheUsersMoves'
    OBVIOUS
  <2>1. CASE Extract
    BY <2>1, ExtractRows
  <2>2. CASE Pack
    <3>1. output'.fn # "rows"
      BY <2>2 DEF Pack
    <3> QED BY <3>1 DEF RowsAreTheUsersMoves
  <2>3. CASE Choose
    <3>1. output'.fn # "rows"
      BY <2>3, ChooseIsChosen
    <3> QED BY <3>1 DEF RowsAreTheUsersMoves
  <2>4. CASE UNCHANGED moveVars
    <3>1. input' = input /\ output' = output
      BY <2>4 DEF moveVars
    <3> QED BY <3>1, RowsInvariantIs
  <2> QED BY <2>1, <2>2, <2>3, <2>4 DEF MoveNext
<1> QED BY <1>1, <1>2, InputsStay, PTL DEF MoveSpec

LEMMA GapIsGapIn ==
  /\ \A u : Gap(u) = GapIn(input.evals, input.white, DOMAIN input.evals \cap Legal, u)
  /\ \A u : Gap(u)' = GapIn(input'.evals, input'.white, DOMAIN input'.evals \cap Legal, u)
BY DEF Gap, GapIn

LEMMA LabelInvariantIs ==
  LET Right(in, result) == result.fn = "packed" =>
        IsLabelled(result.packed, in.evals, in.white, result.user, DOMAIN in.evals \cap Legal)
  IN /\ LabelIsThePlayedMove <=> Right(input, output)
     /\ LabelIsThePlayedMove' <=> Right(input', output')
BY GapIsGapIn DEF LabelIsThePlayedMove, IsLabelled

LEMMA PackLabels ==
  ASSUME MoveInputs, Pack
  PROVE  LabelIsThePlayedMove'
<1>1. input.evals \in Evals /\ input.white \in {TRUE, FALSE} /\ input' = input
  BY PositionInput DEF Pack
<1>2. PICK user \in Legal :
        output' = [fn |-> "packed", user |-> user,
                   packed |-> PackCandidates(input.evals, input.white, Legal, user)]
  BY DEF Pack
<1> DEFINE M == DOMAIN input.evals \cap Legal
<1>3. IsLabelled(PackCandidates(input.evals, input.white, Legal, user), input.evals, input.white, user, M)
  BY <1>1, PacksLabelled
<1>4. /\ output'.user = user
      /\ output'.packed = PackCandidates(input.evals, input.white, Legal, user)
  BY <1>2
<1>5. IsLabelled(output'.packed, input.evals, input.white, output'.user, M)
  BY <1>3, <1>4
<1>6. \A u : Gap(u)' = GapIn(input.evals, input.white, M, u)
  BY <1>1 DEF Gap, GapIn
<1> QED BY <1>1, <1>5, <1>6 DEF LabelIsThePlayedMove, IsLabelled

\* Whatever the position and its evaluations, the label is the slot of the
\* user's move, and the slots hold the best of the others.
THEOREM LabelIsPlayedMove == MoveSpec => []LabelIsThePlayedMove
<1>1. MoveInit => LabelIsThePlayedMove
  BY DEF MoveInit, LabelIsThePlayedMove
<1>2. MoveInputs /\ LabelIsThePlayedMove /\ [MoveNext]_moveVars => LabelIsThePlayedMove'
  <2> SUFFICES ASSUME MoveInputs, LabelIsThePlayedMove, [MoveNext]_moveVars
               PROVE  LabelIsThePlayedMove'
    OBVIOUS
  <2>1. CASE Extract
    <3>1. output'.fn # "packed"
      BY <2>1 DEF Extract
    <3> QED BY <3>1 DEF LabelIsThePlayedMove
  <2>2. CASE Pack
    BY <2>2, PackLabels
  <2>3. CASE Choose
    <3>1. output'.fn # "packed"
      BY <2>3, ChooseIsChosen
    <3> QED BY <3>1 DEF LabelIsThePlayedMove
  <2>4. CASE UNCHANGED moveVars
    <3>1. input' = input /\ output' = output
      BY <2>4 DEF moveVars
    <3> QED BY <3>1, LabelInvariantIs
  <2> QED BY <2>1, <2>2, <2>3, <2>4 DEF MoveNext
<1> QED BY <1>1, <1>2, InputsStay, PTL DEF MoveSpec

\* The first slot with the greatest score is one.
LEMMA FirstBest ==
  ASSUME NEW n \in Nat \ {0}, NEW score \in [1..n -> {0, 1}]
  PROVE  Min({i \in 1..n : score[i] = Max({score[j] : j \in 1..n})}) \in 1..n
<1> DEFINE T == {score[j] : j \in 1..n}
           S == {i \in 1..n : score[i] = Max(T)}
<1>1. 1 \in 1..n /\ T \in SUBSET Nat /\ \A x \in T : x <= 1
  OBVIOUS
<1>2. T # {}
  BY <1>1
<1>3. Max(T) \in T
  <2> HIDE DEF T
  <2> QED BY <1>1, <1>2, BoundedMax
<1>4. S \in SUBSET Nat /\ S # {}
  <2>1. PICK j \in 1..n : Max(T) = score[j]
    BY <1>3
  <2>2. j \in S
    BY <2>1
  <2>3. S \in SUBSET Nat
    OBVIOUS
  <2> HIDE DEF S
  <2> QED BY <2>2, <2>3
<1>5. \E x \in S : \A y \in S : x <= y
  <2> HIDE DEF S
  <2> QED BY <1>4, NatSmallest
<1>6. Min(S) \in S
  <2> HIDE DEF S
  <2> QED BY <1>5 DEF Min
<1> QED BY <1>6

LEMMA ChoosePlays ==
  ASSUME MoveInputs, Choose
  PROVE  BotPlaysWhatItLikes'
<1>1. input.evals \in Evals /\ input.white \in {TRUE, FALSE} /\ input' = input
  BY PositionInput DEF Choose
<1> DEFINE evals == input.evals
           white == input.white
           M == DOMAIN evals \cap Legal
           live == Live(evals, white)
           n == Len(live.ucis)
<1>2. IF n = 0
        THEN \E m \in Legal : output' = [fn |-> "chosen", liked |-> m, played |-> m, panel |-> <<>>]
        ELSE \E score \in [1..n -> {0, 1}] :
               LET best   == Max({score[i] : i \in 1..n})
                   idx    == Min({i \in 1..n : score[i] = best})
                   played == live.ucis[idx]
               IN output' = [fn |-> "chosen", liked |-> live.slots[idx].uci, played |-> played,
                             panel |-> Panel(live, score, played, evals, white)]
  BY DEF Choose
<1>3. \A u : Gap(u)' = GapIn(evals, white, M, u)
  BY <1>1 DEF Gap, GapIn
<1>4. CASE n = 0
  <2>1. PICK m \in Legal : output' = [fn |-> "chosen", liked |-> m, played |-> m, panel |-> <<>>]
    BY <1>2, <1>4
  <2> QED BY <2>1 DEF BotPlaysWhatItLikes
<1>5. CASE n # 0
  <2>1. M # {}
    <3>1. M = {} => live.ucis = <<>>
      BY <1>1, LiveSlots
    <3> HIDE DEF live, M
    <3> QED BY <1>5, <3>1
  <2>2. PICK B : IsOffer(B, evals, white, M) /\ IsLive(live, B)
    BY <1>1, <2>1, LiveSlots
  <2> HIDE DEF live
  <2>3. n = Cardinality(B) /\ n \in Nat \ {0} /\ \A i \in 1..n : live.ucis[i] \in B /\ live.slots[i].uci = live.ucis[i]
    BY <2>2 DEF IsLive, Lists
  <2>4. PICK score \in [1..n -> {0, 1}] :
          LET best   == Max({score[i] : i \in 1..n})
              idx    == Min({i \in 1..n : score[i] = best})
              played == live.ucis[idx]
          IN output' = [fn |-> "chosen", liked |-> live.slots[idx].uci, played |-> played,
                        panel |-> Panel(live, score, played, evals, white)]
    BY <1>2, <1>5
  <2> DEFINE k == Min({i \in 1..n : score[i] = Max({score[j] : j \in 1..n})})
  <2>5. output' = [fn |-> "chosen", liked |-> live.slots[k].uci, played |-> live.ucis[k],
                   panel |-> Panel(live, score, live.ucis[k], evals, white)]
    BY <2>4
  <2>6. k \in 1..n
    BY <2>3, FirstBest
  <2> HIDE DEF k
  <2>7. IsPanel(Panel(live, score, live.ucis[k], evals, white), live.ucis[k], evals, white, M)
    BY <1>1, <2>2, <2>3, <2>6, PanelOfMoves
  <2>8. /\ output'.liked = live.ucis[k] /\ output'.played = live.ucis[k]
        /\ output'.panel = Panel(live, score, live.ucis[k], evals, white)
    BY <2>3, <2>5, <2>6
  <2>9. IsPanel(output'.panel, output'.played, evals, white, M)
    BY <2>7, <2>8
  <2>10. output'.played \in Legal
    <3>1. B \in SUBSET M
      BY <2>2 DEF IsOffer
    <3> QED BY <2>3, <2>6, <2>8, <3>1
  <2> QED BY <1>3, <2>8, <2>9, <2>10 DEF BotPlaysWhatItLikes, IsPanel
<1> QED BY <1>4, <1>5

\* Whatever the position and the scores, the bot plays the move that it liked
\* best, and its panel shows that move and others, with the gaps of them all.
THEOREM BotPlaysLiked == MoveSpec => []BotPlaysWhatItLikes
<1>1. MoveInit => BotPlaysWhatItLikes
  BY DEF MoveInit, BotPlaysWhatItLikes
<1>2. MoveInputs /\ BotPlaysWhatItLikes /\ [MoveNext]_moveVars => BotPlaysWhatItLikes'
  <2> SUFFICES ASSUME MoveInputs, BotPlaysWhatItLikes, [MoveNext]_moveVars
               PROVE  BotPlaysWhatItLikes'
    OBVIOUS
  <2>1. CASE Extract
    <3>1. output'.fn # "chosen"
      BY <2>1 DEF Extract
    <3> QED BY <3>1 DEF BotPlaysWhatItLikes
  <2>2. CASE Pack
    <3>1. output'.fn # "chosen"
      BY <2>2 DEF Pack
    <3> QED BY <3>1 DEF BotPlaysWhatItLikes
  <2>3. CASE Choose
    BY <2>3, ChoosePlays
  <2>4. CASE UNCHANGED moveVars
    BY <2>4 DEF BotPlaysWhatItLikes, Gap, moveVars
  <2> QED BY <2>1, <2>2, <2>3, <2>4 DEF MoveNext
<1> QED BY <1>1, <1>2, InputsStay, PTL DEF MoveSpec

-----------------------------------------------------------------------------
(* Preprocessing: the pages of a step.                                     *)

PipelineModes == {"incremental", "retry", "reprocess", "full_reload"}

LEMMA PreConstants ==
  /\ MaxGame \in Nat /\ NoPgn \subseteq AccountGames
  /\ PageSize \in Nat /\ PageSize > 0 /\ MaxRetries \in Nat /\ MaxFailures \in Nat
  /\ Modes \subseteq PipelineModes
  /\ AccountGames \subseteq Nat \ {0}
  /\ Moves \subseteq AccountGames \X (1..MaxGame)
  /\ \A m \in Moves : m[1] \in AccountGames
  /\ \A m \in Moves : Rank[m] \in Nat \ {0}
  /\ \A m, o \in Moves : Rank[m] = Rank[o] => m = o
BY PreprocessAssumption DEF AccountGames, Moves, PipelineModes

LEMMA MovesAreFinite == IsFiniteSet(AccountGames) /\ IsFiniteSet(Moves)
<1>1. IsFiniteSet(AccountGames) /\ IsFiniteSet(1..MaxGame)
  BY PreConstants, FS_Interval DEF AccountGames
<1>2. IsFiniteSet(AccountGames \X (1..MaxGame))
  BY <1>1, FS_Product
<1>3. IsFiniteSet(Moves)
  BY <1>2, PreConstants, FS_Subset
<1> QED BY <1>1, <1>3

\* What a step reads is finite, and each row has a number of its own as its key.
LEMMA SourceKeys ==
  ASSUME PreTypes, NEW s \in Steps
  PROVE  /\ IsFiniteSet(Source(s))
         /\ \A x \in Source(s) : Key(s, x) \in Nat \ {0}
         /\ Source(s) \subseteq IF s \in {"games", "moves"} THEN AccountGames ELSE Moves
<1> DEFINE W == IF s \in {"games", "moves"} THEN AccountGames ELSE Moves
<1>1. Source(s) \subseteq W
  BY DEF Source, Steps, PreTypes
<1>2. IsFiniteSet(W)
  BY MovesAreFinite
<1>3. \A x \in W : Key(s, x) \in Nat \ {0}
  BY PreConstants DEF Key
<1> HIDE DEF W
<1>4. IsFiniteSet(Source(s))
  BY <1>1, <1>2, FS_Subset
<1> QED BY <1>1, <1>3, <1>4 DEF W

LEMMA RemainingKeys ==
  ASSUME PreTypes, NEW s \in Steps
  PROVE  /\ IsFiniteSet(Remaining(s)) /\ Remaining(s) \subseteq Source(s)
         /\ \A x \in Remaining(s) : Key(s, x) \in Nat
         /\ \A x : IsFiniteSet(Before(s, x)) /\ Cardinality(Before(s, x)) \in Nat
         /\ Page(s) \subseteq Remaining(s) /\ IsFiniteSet(Page(s))
<1>1. Remaining(s) \subseteq Source(s)
  BY DEF Remaining
<1>2. IsFiniteSet(Remaining(s)) /\ \A x \in Remaining(s) : Key(s, x) \in Nat
  BY <1>1, SourceKeys, FS_Subset
<1>3. ASSUME NEW x PROVE IsFiniteSet(Before(s, x)) /\ Cardinality(Before(s, x)) \in Nat
  <2>1. Before(s, x) \subseteq Remaining(s)
    BY DEF Before
  <2>2. IsFiniteSet(Before(s, x))
    BY <2>1, <1>2, FS_Subset
  <2> QED BY <2>2, FS_CardinalityType
<1>4. Page(s) \subseteq Remaining(s)
  BY DEF Page
<1>5. IsFiniteSet(Page(s))
  BY <1>4, <1>2, FS_Subset
<1> QED BY <1>1, <1>2, <1>3, <1>4, <1>5

\* There is a page as long as there are rows: the one with the least key is on it.
LEMMA PageWhileRows ==
  ASSUME PreTypes, NEW s \in Steps, Remaining(s) # {}
  PROVE  Page(s) # {}
<1> DEFINE K == {Key(s, x) : x \in Remaining(s)}
<1>1. K \in SUBSET Nat /\ K # {}
  BY RemainingKeys
<1>2. \E k \in K : \A l \in K : k <= l
  BY <1>1, NatSmallest
<1>3. PICK x \in Remaining(s) : \A y \in Remaining(s) : Key(s, x) <= Key(s, y)
  BY <1>2
<1>4. Before(s, x) = {}
  BY <1>3, RemainingKeys DEF Before
<1>5. Cardinality(Before(s, x)) < PageSize
  BY <1>4, FS_EmptySet, PreConstants
<1> QED BY <1>3, <1>5 DEF Page

\* The page is closed under rows before one of its own.
LEMMA PageIsFirst ==
  ASSUME PreTypes, NEW s \in Steps, NEW z \in Page(s),
         NEW x \in Remaining(s), Key(s, x) <= Key(s, z)
  PROVE  x \in Page(s)
<1>1. z \in Remaining(s) /\ Cardinality(Before(s, z)) < PageSize
  BY DEF Page
<1>2. Before(s, x) \subseteq Before(s, z)
  BY <1>1, RemainingKeys DEF Before
<1>3. IsFiniteSet(Before(s, z))
  BY RemainingKeys
<1>4. Cardinality(Before(s, x)) <= Cardinality(Before(s, z))
  BY <1>2, <1>3, FS_Subset
<1>5. Cardinality(Before(s, x)) < PageSize
  BY <1>1, <1>4, RemainingKeys, PreConstants
<1> QED BY <1>5 DEF Page

\* A finite set of rows has one with the greatest key: the one with the fewest
\* rows that are not before it.
LEMMA LastOfPage ==
  ASSUME NEW P, IsFiniteSet(P), P # {}, NEW s, \A x \in P : Key(s, x) \in Nat
  PROVE  \E z \in P : \A x \in P : Key(s, x) <= Key(s, z)
<1> DEFINE From(x) == {y \in P : Key(s, x) <= Key(s, y)}
           C == {Cardinality(From(x)) : x \in P}
<1>1. \A x : IsFiniteSet(From(x)) /\ Cardinality(From(x)) \in Nat
  <2> SUFFICES ASSUME NEW x PROVE IsFiniteSet(From(x)) /\ Cardinality(From(x)) \in Nat
    OBVIOUS
  <2>1. From(x) \subseteq P
    OBVIOUS
  <2>2. IsFiniteSet(From(x))
    BY <2>1, FS_Subset
  <2> QED BY <2>2, FS_CardinalityType
<1>2. C \in SUBSET Nat /\ C # {}
  BY <1>1
<1>3. \E c \in C : \A d \in C : c <= d
  BY <1>2, NatSmallest
<1>4. PICK z \in P : \A x \in P : Cardinality(From(z)) <= Cardinality(From(x))
  BY <1>3
<1>5. ASSUME NEW x \in P, ~(Key(s, x) <= Key(s, z)) PROVE FALSE
  <2>1. From(x) \subseteq From(z) /\ z \in From(z) /\ z \notin From(x)
    BY <1>5
  <2>2. From(x) # From(z)
    BY <2>1
  <2>3. Cardinality(From(x)) <= Cardinality(From(z))
    BY <2>1, <1>1, FS_Subset
  <2>4. Cardinality(From(x)) # Cardinality(From(z))
    BY <2>1, <2>2, <1>1, FS_Subset
  <2>5. Cardinality(From(z)) <= Cardinality(From(x))
    BY <1>4
  <2> HIDE DEF From
  <2> QED BY <2>3, <2>4, <2>5, <1>1
<1> QED BY <1>4, <1>5

\* The key that a page is left with is the greatest of its rows'.
LEMMA LastKeyIs ==
  ASSUME PreTypes, NEW s \in Steps, Page(s) # {}
  PROVE  /\ LastKey(s, Page(s)) \in Nat
         /\ \E z \in Page(s) : LastKey(s, Page(s)) = Key(s, z)
<1> DEFINE K == {Key(s, x) : x \in Page(s)}
<1>1. IsFiniteSet(Page(s)) /\ \A x \in Page(s) : Key(s, x) \in Nat
  BY RemainingKeys
<1>2. \E z \in Page(s) : \A x \in Page(s) : Key(s, x) <= Key(s, z)
  BY <1>1, LastOfPage
<1>3. \E k \in K : \A x \in Page(s) : Key(s, x) <= k
  BY <1>2
<1>4. LastKey(s, Page(s)) = CHOOSE k \in K : \A x \in Page(s) : Key(s, x) <= k
  BY DEF LastKey
<1>5. LastKey(s, Page(s)) \in K
  BY <1>3, <1>4
<1> QED BY <1>1, <1>5

\* So no row is passed over: one up to that key is on the page or was on one before.
LEMMA NoneBetween ==
  ASSUME PreTypes, NEW s \in Steps, Page(s) # {},
         NEW x \in Source(s), Key(s, x) <= LastKey(s, Page(s))
  PROVE  x \in Page(s) \/ Key(s, x) <= afterKey
<1>1. PICK z \in Page(s) : LastKey(s, Page(s)) = Key(s, z)
  BY LastKeyIs
<1>2. Key(s, x) \in Nat /\ afterKey \in Nat
  BY SourceKeys DEF PreTypes
<1>3. CASE Key(s, x) <= afterKey
  BY <1>3
<1>4. CASE ~(Key(s, x) <= afterKey)
  <2>1. x \in Remaining(s)
    BY <1>2, <1>4 DEF Remaining
  <2> QED BY <2>1, <1>1, PageIsFirst
<1> QED BY <1>3, <1>4

-----------------------------------------------------------------------------
(* Preprocessing: what a step has done up to its last key.                 *)

\* The moves of a game come together, a row has its source, and the page that has
\* been checkpointed is the one that is saved.
RowsHaveSources ==
  /\ \A m, o \in Moves : m[1] = o[1] /\ m \in userMoves => o \in userMoves
  /\ characteristics \subseteq userMoves /\ evaluated \subseteq candidates
  /\ stored = "yes" => step = "expensive" /\ Page("expensive") \subseteq candidates

MovesDone == \A m \in Moves : m[1] \in games /\ m[1] <= afterKey => m \in userMoves
CheapDone == \A m \in userMoves : Rank[m] <= afterKey => m \in characteristics
ExpensiveDone ==
  \A m \in characteristics : Rank[m] <= afterKey => m \in evaluated \cap candidates

PagesSaved ==
  /\ step = "moves" => MovesDone
  /\ step = "cheap" => CheapDone
  /\ step = "expensive" => ExpensiveDone

PreInv == PreTypes /\ RowsHaveSources /\ PagesSaved

LEMMA PreInitial == PreInit => PreInv
BY PreConstants
DEF PreInit, PreInv, PreTypes, RowsHaveSources, PagesSaved, Steps

\* At the start of a step no page is saved and none is stored.
LEMMA StartOfStep ==
  ASSUME PreTypes, RowsHaveSources, UNCHANGED tables, stored' = "no", afterKey' = 0
  PROVE  RowsHaveSources' /\ PagesSaved'
<1>1. userMoves \subseteq Moves /\ characteristics \subseteq Moves
  BY DEF PreTypes
<1>2. ASSUME NEW m \in Moves PROVE ~(Rank[m] <= 0) /\ ~(m[1] <= 0)
  <2>1. Rank[m] \in Nat \ {0} /\ m[1] \in Nat \ {0}
    BY PreConstants
  <2> QED BY <2>1
<1>3. PagesSaved'
  BY <1>1, <1>2 DEF PagesSaved, MovesDone, CheapDone, ExpensiveDone, tables
<1>4. RowsHaveSources'
  BY DEF RowsHaveSources, tables
<1> QED BY <1>3, <1>4

\* The pages of a step are those of the tables and of the last key.
LEMMA SamePages ==
  ASSUME PreTypes, RowsHaveSources,
         UNCHANGED <<userMoves, characteristics, evaluated, afterKey, mode>>,
         evaluated' \subseteq candidates'
  PROVE  Page("expensive")' = Page("expensive")
<1>1. evaluated' \cap candidates' = evaluated \cap candidates
  BY DEF RowsHaveSources
<1>2. Source("expensive")' = Source("expensive")
  BY <1>1 DEF Source, Unless, Incremental
<1>3. Remaining("expensive")' = Remaining("expensive")
  BY <1>2 DEF Remaining, Key
<1>4. \A x : Before("expensive", x)' = Before("expensive", x)
  BY <1>3 DEF Before, Key
<1> QED BY <1>3, <1>4 DEF Page

\* What a step reads, by the step.
LEMMA Sources ==
  ASSUME PreTypes
  PROVE  /\ \A g \in games : g \in Source("moves")
              \/ \E m \in userMoves : m[1] = g
         /\ \A m \in userMoves : Page("cheap") # {} =>
              m \in Source("cheap") \/ m \in characteristics
         /\ Source("cheap") \subseteq userMoves
         /\ \A m \in characteristics \cap userMoves :
              m \in Source("expensive") \/ m \in evaluated \cap candidates
<1>1. Page("cheap") # {} => Source("cheap") # {}
  BY DEF Page, Remaining
<1> QED BY <1>1 DEF Source, Unless

\* The types after a page has been saved, and the rest of what that leaves alone.
LEMMA SaveTypes ==
  ASSUME PreTypes, NEW s \in Steps, SavePage(s)
  PROVE  /\ step = s /\ step' = s /\ Page(s) # {}
         /\ afterKey' = LastKey(s, Page(s)) /\ afterKey' \in Nat
         /\ stored' = "no" /\ mode' = mode /\ attempt' = attempt /\ failures' = failures
         /\ Page(s) \subseteq IF s \in {"games", "moves"} THEN AccountGames ELSE Moves
<1>1. Page(s) \subseteq Source(s)
  BY RemainingKeys
<1> QED BY <1>1, LastKeyIs, SourceKeys DEF SavePage

-----------------------------------------------------------------------------
(* Preprocessing: every step keeps the types.                              *)

LEMMA RaiseTypes ==
  ASSUME PreTypes, Raise
  PROVE  /\ step' \in Steps \cup {"idle", "split"} /\ stored' = "no"
         /\ attempt' \in 0..MaxRetries /\ afterKey' = 0 /\ mode' = mode /\ UNCHANGED tables
BY PreConstants DEF PreTypes, Raise, Goto

LEMMA PreTypeStep ==
  ASSUME PreTypes, [PreNext]_preVars
  PROVE  PreTypes'
<1> USE PreConstants DEF PreTypes, tables, local
<1>1. ASSUME NEW g \in AccountGames, Ingest(g) PROVE PreTypes'
  BY <1>1 DEF Ingest
<1>2. ASSUME NEW m \in Modes, StartRun(m) PROVE PreTypes'
  BY <1>2 DEF StartRun, Goto, Steps, PipelineModes
<1>3. CASE EndStep
  <2>1. NextStep[step] \in Steps \cup {"idle", "split"}
    BY <1>3 DEF EndStep, NextStep, Steps
  <2> QED BY <1>3, <2>1 DEF EndStep, Goto
<1>4. CASE RawGamesToGames
  BY <1>4, SaveTypes DEF RawGamesToGames, Steps
<1>5. CASE ExtractMoves
  BY <1>5, SaveTypes DEF ExtractMoves, Steps
<1>6. CASE EnrichCheap
  BY <1>6, SaveTypes DEF EnrichCheap, EngineColumns, Steps
<1>7. CASE Checkpoint
  <2>1. Page("expensive") \subseteq Moves
    BY RemainingKeys, SourceKeys DEF Steps
  <2> QED BY <1>7, <2>1 DEF Checkpoint
<1>8. CASE EnrichExpensive
  BY <1>8, SaveTypes DEF EnrichExpensive, Steps
<1>9. CASE AssignGameSplits
  BY <1>9 DEF AssignGameSplits, Goto
<1>10. CASE MergeRefused
  BY <1>10, RaiseTypes DEF MergeRefused
<1>11. CASE PageFails
  BY <1>11, RaiseTypes DEF PageFails
<1>12. CASE Crash
  BY <1>12 DEF Crash, Goto
<1>13. CASE UNCHANGED preVars
  BY <1>13 DEF preVars
<1> QED BY <1>1, <1>2, <1>3, <1>4, <1>5, <1>6, <1>7, <1>8, <1>9, <1>10, <1>11, <1>12,
    <1>13 DEF PreNext

-----------------------------------------------------------------------------
(* Preprocessing: every step keeps what has been done.                     *)

LEMMA ExtractKept ==
  ASSUME PreInv, ExtractMoves
  PROVE  RowsHaveSources' /\ PagesSaved'
<1> USE DEF PreInv
<1> DEFINE new == {m \in Moves : m[1] \in Page("moves")}
<1>1. SavePage("moves") /\ userMoves' = userMoves \cup new
      /\ UNCHANGED <<games, characteristics, evaluated, candidates>>
  BY DEF ExtractMoves
<1>2. step = "moves" /\ step' = "moves" /\ stored' = "no" /\ Page("moves") # {}
      /\ afterKey' = LastKey("moves", Page("moves"))
  BY <1>1, SaveTypes DEF Steps
<1>3. ASSUME NEW m \in Moves, m[1] \in games, m[1] <= afterKey' PROVE m \in userMoves'
  <2>1. CASE \E o \in userMoves : o[1] = m[1]
    BY <2>1, <1>1 DEF RowsHaveSources, PreTypes
  <2>2. CASE m[1] \in Source("moves")
    <3>1. Key("moves", m[1]) = m[1]
      BY DEF Key
    <3>2. m[1] \in Page("moves") \/ m[1] <= afterKey
      BY <1>2, <1>3, <2>2, <3>1, NoneBetween DEF Steps
    <3>3. CASE m[1] \in Page("moves")
      BY <3>3, <1>1
    <3>4. CASE m[1] <= afterKey
      BY <3>4, <1>1, <1>2, <1>3 DEF PagesSaved, MovesDone
    <3> QED BY <3>2, <3>3, <3>4
  <2> QED BY <1>3, <2>1, <2>2, Sources
<1>4. PagesSaved'
  BY <1>1, <1>2, <1>3 DEF PagesSaved, MovesDone
<1>5. RowsHaveSources'
  BY <1>1, <1>2 DEF RowsHaveSources
<1> QED BY <1>4, <1>5

LEMMA EnrichCheapKept ==
  ASSUME PreInv, EnrichCheap
  PROVE  RowsHaveSources' /\ PagesSaved'
<1> USE DEF PreInv
<1>1. SavePage("cheap") /\ characteristics' = characteristics \cup Page("cheap")
      /\ UNCHANGED <<games, userMoves, evaluated, candidates>>
  BY DEF EnrichCheap, EngineColumns
<1>2. step = "cheap" /\ step' = "cheap" /\ stored' = "no" /\ Page("cheap") # {}
      /\ afterKey' = LastKey("cheap", Page("cheap"))
  BY <1>1, SaveTypes DEF Steps
<1>3. ASSUME NEW m \in userMoves, Rank[m] <= afterKey' PROVE m \in characteristics'
  <2>1. CASE m \in characteristics
    BY <2>1, <1>1
  <2>2. CASE m \in Source("cheap")
    <3>1. Key("cheap", m) = Rank[m]
      BY DEF Key
    <3>2. m \in Page("cheap") \/ Rank[m] <= afterKey
      BY <1>2, <1>3, <2>2, <3>1, NoneBetween DEF Steps
    <3> QED BY <3>2, <1>1, <1>2 DEF PagesSaved, CheapDone
  <2> QED BY <1>2, <2>1, <2>2, Sources
<1>4. PagesSaved'
  BY <1>1, <1>2, <1>3 DEF PagesSaved, CheapDone
<1>5. Page("cheap") \subseteq userMoves
  BY RemainingKeys, Sources DEF Steps
<1>6. RowsHaveSources'
  BY <1>1, <1>2, <1>5 DEF RowsHaveSources
<1> QED BY <1>4, <1>6

LEMMA CheckpointKept ==
  ASSUME PreInv, Checkpoint
  PROVE  RowsHaveSources' /\ PagesSaved'
<1> USE DEF PreInv
<1>1. step = "expensive" /\ candidates' = candidates \cup Page("expensive")
      /\ UNCHANGED <<userMoves, characteristics, evaluated, step, afterKey, mode>>
  BY DEF Checkpoint
<1>2. evaluated' \subseteq candidates'
  BY <1>1 DEF RowsHaveSources
<1>3. Page("expensive")' = Page("expensive")
  BY <1>1, <1>2, SamePages
<1>4. RowsHaveSources'
  BY <1>1, <1>2, <1>3 DEF RowsHaveSources
<1>5. PagesSaved'
  BY <1>1 DEF PagesSaved, ExpensiveDone
<1> QED BY <1>4, <1>5

LEMMA EnrichExpensiveKept ==
  ASSUME PreInv, EnrichExpensive
  PROVE  RowsHaveSources' /\ PagesSaved'
<1> USE DEF PreInv
<1>1. SavePage("expensive") /\ evaluated' = evaluated \cup Page("expensive") /\ stored = "yes"
      /\ UNCHANGED <<games, userMoves, characteristics, candidates>>
  BY DEF EnrichExpensive
<1>2. step = "expensive" /\ step' = "expensive" /\ stored' = "no" /\ Page("expensive") # {}
      /\ afterKey' = LastKey("expensive", Page("expensive"))
  BY <1>1, SaveTypes DEF Steps
<1>3. Page("expensive") \subseteq candidates
  BY <1>1 DEF RowsHaveSources
<1>4. ASSUME NEW m \in characteristics, Rank[m] <= afterKey'
      PROVE  m \in evaluated' \cap candidates'
  <2>1. CASE m \in evaluated \cap candidates
    BY <2>1, <1>1
  <2>2. CASE m \in Source("expensive")
    <3>1. Key("expensive", m) = Rank[m]
      BY DEF Key
    <3>2. m \in Page("expensive") \/ Rank[m] <= afterKey
      BY <1>2, <1>4, <2>2, <3>1, NoneBetween DEF Steps
    <3> QED BY <3>2, <1>1, <1>2, <1>3 DEF PagesSaved, ExpensiveDone
  <2>3. m \in characteristics \cap userMoves
    BY DEF RowsHaveSources
  <2> QED BY <2>1, <2>2, <2>3, Sources
<1>5. PagesSaved'
  BY <1>1, <1>2, <1>4 DEF PagesSaved, ExpensiveDone
<1>6. RowsHaveSources'
  BY <1>1, <1>2, <1>3 DEF RowsHaveSources
<1> QED BY <1>5, <1>6

LEMMA PreStep ==
  ASSUME PreInv, [PreNext]_preVars
  PROVE  PreInv'
<1> SUFFICES RowsHaveSources' /\ PagesSaved'
  BY PreTypeStep DEF PreInv
<1> DEFINE Kept == RowsHaveSources' /\ PagesSaved'
<1>0. PreTypes /\ RowsHaveSources /\ PagesSaved
  BY DEF PreInv
<1>1. ASSUME NEW g \in AccountGames, Ingest(g) PROVE Kept
  <2>1. UNCHANGED <<games, userMoves, characteristics, evaluated, candidates, step, stored,
                    mode, afterKey>>
    BY <1>1 DEF Ingest, local
  <2>2. Page("expensive")' = Page("expensive")
    BY <1>0, <2>1, SamePages DEF RowsHaveSources
  <2> QED BY <1>0, <2>1, <2>2
          DEF RowsHaveSources, PagesSaved, MovesDone, CheapDone, ExpensiveDone
<1>2. ASSUME NEW m \in Modes, StartRun(m) PROVE Kept
  BY <1>0, <1>2, StartOfStep DEF StartRun, Goto
<1>3. CASE EndStep
  BY <1>0, <1>3, StartOfStep DEF EndStep, Goto
<1>4. CASE RawGamesToGames
  <2>1. UNCHANGED <<userMoves, characteristics, evaluated, candidates>>
    BY <1>4 DEF RawGamesToGames
  <2>2. step' = "games" /\ stored' = "no"
    BY <1>0, <1>4, SaveTypes DEF RawGamesToGames, Steps
  <2> QED BY <1>0, <2>1, <2>2 DEF RowsHaveSources, PagesSaved
<1>5. CASE ExtractMoves
  BY <1>5, ExtractKept
<1>6. CASE EnrichCheap
  BY <1>6, EnrichCheapKept
<1>7. CASE Checkpoint
  BY <1>7, CheckpointKept
<1>8. CASE EnrichExpensive
  BY <1>8, EnrichExpensiveKept
<1>9. CASE AssignGameSplits
  <2>1. /\ UNCHANGED <<userMoves, characteristics, evaluated, candidates>>
        /\ step' = "idle" /\ stored' = "no"
    BY <1>9 DEF AssignGameSplits, Goto
  <2> QED BY <1>0, <2>1 DEF RowsHaveSources, PagesSaved
<1>10. CASE MergeRefused
  BY <1>0, <1>10, RaiseTypes, StartOfStep DEF MergeRefused
<1>11. CASE PageFails
  BY <1>0, <1>11, RaiseTypes, StartOfStep DEF PageFails
<1>12. CASE Crash
  BY <1>0, <1>12, StartOfStep DEF Crash, Goto
<1>13. CASE UNCHANGED preVars
  <2>1. UNCHANGED <<games, userMoves, characteristics, evaluated, candidates, step, stored,
                    mode, afterKey>>
    BY <1>13 DEF preVars, tables, local
  <2>2. Page("expensive")' = Page("expensive")
    BY <1>0, <2>1, SamePages DEF RowsHaveSources
  <2> QED BY <1>0, <2>1, <2>2
          DEF RowsHaveSources, PagesSaved, MovesDone, CheapDone, ExpensiveDone
<1> QED BY <1>1, <1>2, <1>3, <1>4, <1>5, <1>6, <1>7, <1>8, <1>9, <1>10, <1>11, <1>12,
    <1>13 DEF PreNext

-----------------------------------------------------------------------------
(* Preprocessing: the theorems.                                            *)

\* The two counts are equal only when every move has its row.
LEMMA EqualCounts ==
  ASSUME PreInv, AllHaveRows
  PROVE  userMoves \subseteq characteristics
<1>1. IsFiniteSet(userMoves) /\ characteristics \subseteq userMoves
  BY MovesAreFinite, FS_Subset DEF PreInv, PreTypes, RowsHaveSources
<1> QED BY <1>1, FS_Subset DEF AllHaveRows

\* A step without a page has done the rows that it would read.
LEMMA NoPageLeft ==
  ASSUME PreInv, NEW s \in Steps, Page(s) = {}
  PROVE  \A x \in Source(s) : Key(s, x) <= afterKey
<1>1. Remaining(s) = {}
  BY PageWhileRows DEF PreInv
<1>2. afterKey \in Nat /\ \A x \in Source(s) : Key(s, x) \in Nat
  BY SourceKeys DEF PreInv, PreTypes
<1> QED BY <1>1, <1>2 DEF Remaining

LEMMA EndIsComplete ==
  ASSUME PreInv, EndStep
  PROVE  Complete(step)
<1>0. PreTypes /\ RowsHaveSources /\ PagesSaved
  BY DEF PreInv
<1>1. step \in Steps /\ \A x \in Source(step) : Key(step, x) <= afterKey
  BY NoPageLeft DEF EndStep
<1>2. CASE step = "games"
  BY <1>2 DEF Complete
<1>3. CASE step = "moves"
  <2>1. ASSUME NEW m \in Moves, m[1] \in games PROVE m \in userMoves
    <3>1. CASE \E o \in userMoves : o[1] = m[1]
      BY <1>0, <3>1 DEF RowsHaveSources, PreTypes
    <3>2. CASE m[1] \in Source("moves")
      <4>1. m[1] <= afterKey
        BY <1>1, <1>3, <3>2 DEF Key
      <4> QED BY <1>0, <1>3, <2>1, <4>1 DEF PagesSaved, MovesDone
    <3> QED BY <1>0, <2>1, <3>1, <3>2, Sources
  <2> QED BY <1>3, <2>1 DEF Complete
<1>4. CASE step = "cheap"
  <2>1. ASSUME NEW m \in userMoves PROVE m \in characteristics
    <3>1. CASE AllHaveRows
      BY <3>1, EqualCounts
    <3>2. CASE ~AllHaveRows
      <4>1. m \in Source("cheap") \/ m \in characteristics
        BY <3>2 DEF Source, Unless
      <4>2. CASE m \in Source("cheap")
        <5>1. Rank[m] <= afterKey
          BY <1>1, <1>4, <4>2 DEF Key
        <5> QED BY <1>0, <1>4, <5>1 DEF PagesSaved, CheapDone
      <4> QED BY <4>1, <4>2
    <3> QED BY <3>1, <3>2
  <2> QED BY <1>4, <2>1 DEF Complete
<1>5. CASE step = "expensive"
  <2>1. ASSUME NEW m \in characteristics PROVE m \in evaluated \cap candidates
    <3>1. m \in Source("expensive") \/ m \in evaluated \cap candidates
      BY <1>0, Sources DEF RowsHaveSources
    <3>2. CASE m \in Source("expensive")
      <4>1. Rank[m] <= afterKey
        BY <1>1, <1>5, <3>2 DEF Key
      <4> QED BY <1>0, <1>5, <4>1 DEF PagesSaved, ExpensiveDone
    <3> QED BY <3>1, <3>2
  <2> QED BY <1>5, <2>1 DEF Complete
<1> QED BY <1>1, <1>2, <1>3, <1>4, <1>5 DEF Steps

\* The tables hold games and moves of the account, and the last key, the attempt
\* and the stage of the run stay in their ranges.
THEOREM PreprocessTypes == PreSpec => []PreTypes
<1>1. PreInv /\ [PreNext]_preVars => PreInv'
  BY PreStep
<1>2. PreInv => PreTypes
  BY DEF PreInv
<1> QED BY PreInitial, <1>1, <1>2, PTL DEF PreSpec

\* A step that runs out of pages has left no row behind, for any games, any ids of
\* the moves, and pages of any size (TransformStep.run and its keyset pages, the
\* anti-joins, and the equal counts that the cheap step is skipped for).
THEOREM StepsAreComplete == PreSpec => EndedStepIsComplete
<1>1. PreInv /\ [PreNext]_preVars => PreInv'
  BY PreStep
<1>2. PreInv => [EndStep => Complete(step)]_preVars
  BY EndIsComplete
<1> QED BY PreInitial, <1>1, <1>2, PTL DEF PreSpec, EndedStepIsComplete

\* No step takes away what the engine has computed, in any mode.
THEOREM EngineWorkStays == PreSpec => EngineWorkIsKept
<1> DEFINE Kept == candidates \subseteq candidates' /\ evaluated \subseteq evaluated'
<1>1. [PreNext]_preVars => [Kept]_preVars
  <2> SUFFICES ASSUME PreNext PROVE Kept
    OBVIOUS
  <2>1. \/ UNCHANGED <<evaluated, candidates>>
        \/ EnrichCheap \/ Checkpoint \/ EnrichExpensive
    BY DEF PreNext, Ingest, StartRun, EndStep, RawGamesToGames, ExtractMoves,
           AssignGameSplits, MergeRefused, PageFails, Crash, Raise, tables
  <2> QED BY <2>1 DEF EnrichCheap, Checkpoint, EnrichExpensive, EngineColumns
<1> QED BY <1>1, PTL DEF PreSpec, EngineWorkIsKept
=============================================================================
