----------------------------- MODULE EvalCache -----------------------------
(***************************************************************************)
(* The cache of engine evaluations (pipelines/fen_eval_cache): one service *)
(* per process with its rows in memory, and the table that all of them     *)
(* share.  A row has two halves, a scalar searched to a depth and the      *)
(* candidates searched with a number of nodes; a request that needs more   *)
(* of one half has that half computed and keeps the other.                 *)
(*                                                                         *)
(* A row is [eval, depth, cand, nodes]: the depth and nodes that it states *)
(* and those its halves were really searched with.  An engine is started   *)
(* with the greatest depth of its jobs, so a scalar can be deeper than its *)
(* row states.  Which rows an eviction takes is left open.                 *)
(***************************************************************************)
EXTENDS Naturals, FiniteSets, Sequences, Functions, FiniteSetsExt

CONSTANTS
  Services,   \* processes with a service
  Positions,  \* cache keys (EPD)
  Plies,      \* plies of a request; NoPly is None
  MaxPly,     \* greatest ply that inserts
  Budgets,    \* depths and numbers of nodes of a request
  Capacity,   \* rows of the table, and of each memory
  MaxBatch,   \* requests of a call (bound)
  MaxAsks,    \* calls (bound)
  MaxFaults   \* failing reads, writes and searches (bound)

NoPly == 0

ASSUME CacheAssumption ==
  /\ IsFiniteSet(Positions) /\ Plies \subseteq Nat /\ MaxPly \in Nat
  /\ Budgets \subseteq Nat /\ Capacity \in Nat \ {0}
  /\ MaxBatch \in Nat /\ MaxAsks \in Nat /\ MaxFaults \in Nat

VARIABLES
  memory,   \* service -> position -> row, of the positions it holds
  table,    \* position -> row, of the positions in the table
  pc,       \* service -> where its call is
  need,     \* service -> position -> budgets that the call's requests ask for
  jobs,     \* service -> job per position of its call
  found,    \* service -> rows that the call has found
  out,      \* service -> answers of the call
  extra,    \* service -> rows beyond the capacity that the eviction counted
  asks, faults

vars == <<memory, table, pc, need, jobs, found, out, extra, asks, faults>>

Row     == [eval : Budgets, depth : Budgets, cand : Budgets, nodes : Budgets]
Rows    == UNION {[P -> Row] : P \in SUBSET Positions}
Request == [pos : Positions, ply : Plies, depth : Budgets, nodes : Budgets]
Empty   == [p \in {} |-> 0]

TypeOK ==
  /\ memory \in [Services -> Rows] /\ table \in Rows
  /\ pc \in [Services -> {"idle", "read", "compute", "write", "count", "evict", "done"}]
  /\ jobs \in [Services -> UNION {[P -> Request] : P \in SUBSET Positions}]
  /\ found \in [Services -> Rows] /\ out \in [Services -> Rows]
  /\ extra \in [Services -> 0..Cardinality(Positions)]
  /\ asks \in 0..MaxAsks /\ faults \in 0..MaxFaults

Init ==
  /\ memory = [s \in Services |-> Empty] /\ table = Empty
  /\ pc = [s \in Services |-> "idle"]
  /\ need = [s \in Services |-> Empty] /\ jobs = [s \in Services |-> Empty]
  /\ found = [s \in Services |-> Empty] /\ out = [s \in Services |-> Empty] /\ extra = [s \in Services |-> 0]
  /\ asks = 0 /\ faults = 0

Fault    == faults < MaxFaults /\ faults' = faults + 1
Go(s, l) == pc' = [pc EXCEPT ![s] = l]

\* f with the rows of g over its own
Over(g, f) == [p \in DOMAIN g \cup DOMAIN f |-> IF p \in DOMAIN g THEN g[p] ELSE f[p]]

-----------------------------------------------------------------------------
(* One job per position.                                                   *)

\* The ply that inserts sooner; None stands behind every ply.
Sooner(a, b) ==
  CASE a = NoPly -> b [] b = NoPly -> a [] OTHER -> Min({a, b})

\* Mutant of Joined: the job keeps the budgets of the first request.
JoinedAsFirst(job, r) == [job EXCEPT !.ply = Sooner(r.ply, job.ply)]
\* A request joins the job of its position.
Joined(job, r) ==
  [job EXCEPT !.ply = Sooner(r.ply, job.ply),
              !.depth = Max({job.depth, r.depth}), !.nodes = Max({job.nodes, r.nodes})]

GroupRequests(requests) ==
  LET group[n \in 0..Len(requests)] ==
        IF n = 0 THEN Empty
        ELSE LET r == requests[n]
                 before == group[n - 1]
                 job == IF r.pos \in DOMAIN before THEN Joined(before[r.pos], r) ELSE r
             IN Over([p \in {r.pos} |-> job], before)
  IN group[Len(requests)]

NeedScalar(s, p)     == p \notin DOMAIN found[s] \/ found[s][p].depth < jobs[s][p].depth
NeedCandidates(s, p) == p \notin DOMAIN found[s] \/ found[s][p].nodes < jobs[s][p].nodes

\* Positions that what the call has found does not answer.
ToCompute(s) == {p \in DOMAIN jobs[s] : NeedScalar(s, p) \/ NeedCandidates(s, p)}

\* Mutant of Computed: the row states what was asked for.
ComputedAsAsked(s, p, d) ==
  [eval  |-> IF NeedScalar(s, p) THEN d ELSE found[s][p].eval,
   depth |-> jobs[s][p].depth,
   cand  |-> IF NeedCandidates(s, p) THEN jobs[s][p].nodes ELSE found[s][p].cand,
   nodes |-> jobs[s][p].nodes]
\* The halves that a job needs, by an engine of depth d, and the others of the
\* row that was found.
Computed(s, p, d) ==
  [eval  |-> IF NeedScalar(s, p) THEN d ELSE found[s][p].eval,
   depth |-> IF NeedScalar(s, p) THEN jobs[s][p].depth ELSE found[s][p].depth,
   cand  |-> IF NeedCandidates(s, p) THEN jobs[s][p].nodes ELSE found[s][p].cand,
   nodes |-> IF NeedCandidates(s, p) THEN jobs[s][p].nodes ELSE found[s][p].nodes]

\* A position that was found is written whatever its ply.
ShouldPersist(ply, existing) == existing \/ (ply # NoPly /\ ply <= MaxPly)

Writes(s) ==
  {p \in DOMAIN out[s] \cap ToCompute(s) : ShouldPersist(jobs[s][p].ply, p \in DOMAIN found[s])}

\* What the requests of a call ask for, of which GroupRequests makes its jobs.
Needed(requests) ==
  [p \in {r.pos : r \in Range(requests)} |->
     LET mine == {r \in Range(requests) : r.pos = p}
     IN [depth |-> Max({r.depth : r \in mine}), nodes |-> Max({r.nodes : r \in mine})]]

-----------------------------------------------------------------------------
(* evaluate_many.                                                          *)

Ask(s) ==
  /\ pc[s] = "idle" /\ asks < MaxAsks /\ asks' = asks + 1
  /\ \E n \in 1..MaxBatch : \E requests \in [1..n -> Request] :
       LET grouped == GroupRequests(requests)
       IN /\ need' = [need EXCEPT ![s] = Needed(requests)]
          /\ jobs' = [jobs EXCEPT ![s] = grouped]
          /\ found' = [found EXCEPT ![s] = Restrict(memory[s], DOMAIN memory[s] \cap DOMAIN grouped)]
  /\ Go(s, "read")
  /\ UNCHANGED <<memory, table, out, extra, faults>>

\* The table is read for the positions that the memory does not have.
ReadTable(s) ==
  /\ pc[s] = "read" /\ Go(s, "compute")
  /\ \/ /\ found' = [found EXCEPT ![s] = Over(@, Restrict(table, DOMAIN table \cap DOMAIN jobs[s]))]
        /\ UNCHANGED faults
     \/ Fault /\ UNCHANGED found
  /\ UNCHANGED <<memory, table, need, jobs, out, extra, asks>>

\* The rows found that are good enough are answers.  The others are computed, by
\* one engine or by several with some of the jobs each; a search may give none.
Compute(s) ==
  /\ pc[s] = "compute" /\ Go(s, "write")
  /\ \E lost \in SUBSET ToCompute(s), d \in [ToCompute(s) -> {jobs[s][p].depth : p \in ToCompute(s)}] :
       LET new == [p \in ToCompute(s) \ lost |-> Computed(s, p, d[p])]
       IN /\ \A p \in ToCompute(s) : d[p] >= jobs[s][p].depth
          /\ IF lost = {} THEN UNCHANGED faults ELSE Fault
          /\ out' = [out EXCEPT ![s] = Over(new, Restrict(found[s], DOMAIN found[s] \ ToCompute(s)))]
          /\ memory' = [memory EXCEPT ![s] = Over(new, @)]
  /\ UNCHANGED <<table, need, jobs, found, extra, asks>>

\* One merge; nothing to write, or one that fails, ends the call.
Write(s) ==
  /\ pc[s] = "write"
  /\ \/ /\ Writes(s) # {} /\ table' = Over(Restrict(out[s], Writes(s)), table)
        /\ Go(s, "count") /\ UNCHANGED faults
     \/ Writes(s) = {} /\ Go(s, "done") /\ UNCHANGED <<table, faults>>
     \/ Writes(s) # {} /\ Go(s, "done") /\ Fault /\ UNCHANGED table
  /\ UNCHANGED <<memory, need, jobs, found, out, extra, asks>>

\* evict counts the rows, and deletes that many in another statement.
Count(s) ==
  /\ pc[s] = "count" /\ Cardinality(DOMAIN table) > Capacity
  /\ extra' = [extra EXCEPT ![s] = Cardinality(DOMAIN table) - Capacity] /\ Go(s, "evict")
  /\ UNCHANGED <<memory, table, need, jobs, found, out, asks, faults>>

CountFits(s) ==
  /\ pc[s] = "count" /\ Go(s, "done")
  /\ \/ Cardinality(DOMAIN table) <= Capacity /\ UNCHANGED faults
     \/ Fault
  /\ UNCHANGED <<memory, table, need, jobs, found, out, extra, asks>>

\* Of the rows in P, all but n.
AllBut(n, P) == {Q \in SUBSET P : Cardinality(Q) = (IF n > Cardinality(P) THEN 0 ELSE Cardinality(P) - n)}

Evict(s) ==
  /\ pc[s] = "evict" /\ Go(s, "done") /\ extra' = [extra EXCEPT ![s] = 0]
  /\ \/ /\ \E kept \in AllBut(extra[s], DOMAIN table) : table' = Restrict(table, kept)
        /\ UNCHANGED faults
     \/ Fault /\ UNCHANGED table
  /\ UNCHANGED <<memory, need, jobs, found, out, asks>>

\* The memory is evicted, and the call returns.
Return(s) ==
  /\ pc[s] = "done" /\ Go(s, "idle")
  /\ LET beyond == Max({Cardinality(DOMAIN memory[s]), Capacity}) - Capacity
     IN \E kept \in AllBut(beyond, DOMAIN memory[s]) :
          memory' = [memory EXCEPT ![s] = Restrict(@, kept)]
  /\ need' = [need EXCEPT ![s] = Empty] /\ jobs' = [jobs EXCEPT ![s] = Empty]
  /\ found' = [found EXCEPT ![s] = Empty] /\ out' = [out EXCEPT ![s] = Empty]
  /\ UNCHANGED <<table, extra, asks, faults>>

\* A process ends, and another starts with an empty memory.
Restart(s) ==
  /\ Fault /\ Go(s, "idle") /\ memory' = [memory EXCEPT ![s] = Empty]
  /\ need' = [need EXCEPT ![s] = Empty] /\ jobs' = [jobs EXCEPT ![s] = Empty]
  /\ found' = [found EXCEPT ![s] = Empty] /\ out' = [out EXCEPT ![s] = Empty]
  /\ extra' = [extra EXCEPT ![s] = 0]
  /\ UNCHANGED <<table, asks>>

Next ==
  \E s \in Services :
    \/ Ask(s) \/ ReadTable(s) \/ Compute(s) \/ Write(s) \/ Count(s) \/ CountFits(s)
    \/ Evict(s) \/ Return(s) \/ Restart(s)

Spec == Init /\ [][Next]_vars

-----------------------------------------------------------------------------
(* Properties.                                                             *)

\* An answer was really searched with the depth and the nodes that every
\* request of its position asks for, whatever halves of it came from rows that
\* other calls and other processes left behind.
AnswersMeetBudgets ==
  \A s \in Services : \A p \in DOMAIN out[s] :
    out[s][p].eval >= need[s][p].depth /\ out[s][p].cand >= need[s][p].nodes

\* While a process lives, no call makes one of its rows shallower: what it has
\* paid for is not computed again until it is evicted.
MemoryOnlyDeepens ==
  [][\A s \in Services : \A p \in DOMAIN memory[s] \cap DOMAIN memory'[s] :
       /\ memory'[s][p].depth >= memory[s][p].depth
       /\ memory'[s][p].nodes >= memory[s][p].nodes]_vars
=============================================================================
