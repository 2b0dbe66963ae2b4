------------------------------ MODULE UserJobs ------------------------------
(***************************************************************************)
(* The pipeline jobs of the users: the dispatcher CronJob that creates one *)
(* per user and day (scripts/entrypoints/dispatcher.py), the web page that *)
(* creates one on request (streamlit_pages/pipeline.py), the Kubernetes    *)
(* Job with its one retry (orchestration), and the run inside of it        *)
(* (scripts/entrypoints/pipeline.py, pipelines/runner.py), which reads the *)
(* user's accounts through a cache, works under the locks of its pipelines *)
(* and leaves the run that the dispatcher's cooldown counts from.          *)
(*                                                                         *)
(* Time goes by in slots of DISPATCH_INTERVAL.  An age is a number of      *)
(* slots since an event, up to the cooldown, a day less a slot, from which *)
(* on no guard tells one age from another.  The pipelines of all accounts  *)
(* are the stage "ingest", the user's training is the stage "train".       *)
(***************************************************************************)
EXTENDS Naturals

CONSTANTS
  Users,
  Day,        \* slots of a day (48 in the code; bound)
  Cron,       \* cron_time of each user, a slot
  LockSlots,  \* lock_timeout_hours in slots (2 in the code)
  MaxJobs,    \* unfinished jobs of one user (bound)
  MaxFaults   \* killed pods, failed pipelines and missed slots (bound)

ASSUME JobsAssumption ==
  /\ Day \in Nat \ {0, 1} /\ Cron \in [Users -> 0..Day-1]
  /\ LockSlots \in 1..Day-1 /\ MaxJobs \in Nat /\ MaxFaults \in Nat

Jobs   == 1..MaxJobs
Cooldown == Day - 1
Ages   == 0..Cooldown
Never  == Cooldown + 1
Stages == {"ingest", "train"}
Nobody == 0
Dead   == MaxJobs + 1  \* a run whose pod was killed

VARIABLES
  slot,        \* the time of the day
  dispatcher,  \* [due, active: the users in the list of active jobs, todo]
  job,         \* user -> job -> [st, tries, stage, sub, best]
  lock,        \* user -> stage -> [by, age] of the newest unfinished run row
  latest,      \* user -> age of latest_pipeline_run.started_at
  linked,      \* user -> whether an account is linked
  cache,       \* user -> the cached accounts: none, no account, an account
  page,        \* user -> where the run of the page's script is
  faults

vars == <<slot, dispatcher, job, lock, latest, linked, cache, page, faults>>

\* sub: age of the pipeline that is running; best: of the last that succeeded.
NoJob == [st |-> "none", tries |-> 0, stage |-> "none", sub |-> 0, best |-> Never]
Free  == [by |-> Nobody, age |-> 0]

TypeOK ==
  /\ slot \in 0..Day-1 /\ faults \in 0..MaxFaults
  /\ dispatcher \in [due : {"no", "yes"}, active : SUBSET Users, todo : SUBSET Users]
  /\ job \in [Users -> [Jobs ->
       [st : {"none", "created", "active", "backoff"}, tries : 0..2,
        stage : {"none", "accounts", "ingested", "trained"} \cup Stages, sub : Ages, best : 0..Never]]]
  /\ lock \in [Users -> [Stages -> [by : 0..Dead, age : 0..LockSlots]]]
  /\ latest \in [Users -> Ages]
  /\ linked \in [Users -> {"no", "yes"}]
  /\ cache \in [Users -> {"none", "no", "yes"}]
  /\ page \in [Users -> {"idle", "fill_no", "fill_yes", "free"}]

Init ==
  /\ slot = 0 /\ faults = 0
  /\ dispatcher = [due |-> "yes", active |-> {}, todo |-> {}]
  /\ job = [u \in Users |-> [j \in Jobs |-> NoJob]]
  /\ lock = [u \in Users |-> [s \in Stages |-> Free]]
  /\ latest = [u \in Users |-> Cooldown]
  /\ linked = [u \in Users |-> "no"]
  /\ cache = [u \in Users |-> "none"]
  /\ page = [u \in Users |-> "idle"]

Fault == faults < MaxFaults /\ faults' = faults + 1

-----------------------------------------------------------------------------
(* Time.                                                                   *)

Older(a) == IF a < Cooldown THEN a + 1 ELSE a

\* The next slot, in which the CronJob creates the dispatcher's pod.  A pod
\* that has not come up in its slot is a fault; a scan fits in a slot.
Tick ==
  /\ slot' = (slot + 1) % Day
  /\ dispatcher.todo = {}
  /\ IF dispatcher.due = "yes" THEN Fault ELSE UNCHANGED faults
  /\ dispatcher' = [dispatcher EXCEPT !.due = "yes"]
  /\ job' = [u \in Users |-> [j \in Jobs |->
       LET r == job[u][j] IN
       IF r.st = "none" THEN r ELSE
         [r EXCEPT !.sub = IF r.stage \in Stages THEN Older(@) ELSE @,
                   !.best = IF @ < Cooldown THEN @ + 1 ELSE @]]]
  /\ lock' = [u \in Users |-> [s \in Stages |->
       IF lock[u][s].by = Nobody THEN Free
       ELSE [lock[u][s] EXCEPT !.age = IF @ < LockSlots THEN @ + 1 ELSE @]]]
  /\ latest' = [u \in Users |-> Older(latest[u])]
  /\ UNCHANGED <<linked, cache, page>>

-----------------------------------------------------------------------------
(* Creating a job.                                                         *)

Put(u, j, r) == job' = [job EXCEPT ![u][j] = r]

\* create_pipeline_job.  A job's name holds the second: another create in the
\* same second is answered 409, and the caller is told the name.
Create(u) ==
  \/ \E j \in Jobs :
       /\ job[u][j].st = "none"
       /\ \A i \in Jobs : i < j => job[u][i].st # "none"
       /\ Put(u, j, [NoJob EXCEPT !.st = "created"])
  \/ /\ \E j \in Jobs : job[u][j].st = "created"
     /\ UNCHANGED job

\* list_active_pipeline_jobs: a job whose pod has not been made yet, or whose
\* next pod has not, has no active pod.
ActiveJobs == {u \in Users : \E j \in Jobs : job[u][j].st = "active"}

\* pipeline_job_state: between two pods a job counts as failed.
PendingOrRunning(u) == \E j \in Jobs : job[u][j].st \in {"created", "active"}

\* Mutant of IsCronDue: the end of the window as a time of the day.
IsCronDueByTime(u) == Cron[u] <= slot /\ slot < (Cron[u] + 1) % Day
\* The slot of the user's cron_time, on this date.
IsCronDue(u) == Cron[u] <= slot /\ slot < Cron[u] + 1

\* The cooldown of a day less a slot, from the start of the latest run.
PipelineAllowedToRun(u) == latest[u] >= Cooldown

DispatchList ==
  /\ dispatcher.due = "yes"
  /\ dispatcher' = [due |-> "no", active |-> ActiveJobs, todo |-> Users]
  /\ UNCHANGED <<slot, job, lock, latest, linked, cache, page, faults>>

\* The list goes with the last user, and the script ends.
Done(u) ==
  LET rest == dispatcher.todo \ {u}
  IN dispatcher' = [due |-> "no", todo |-> rest,
                    active |-> IF rest = {} THEN {} ELSE dispatcher.active]

SkipForCooldown(u) ==
  /\ u \in dispatcher.todo
  /\ IsCronDue(u) /\ ~PipelineAllowedToRun(u)
  /\ Done(u)
  /\ UNCHANGED <<slot, job, lock, latest, linked, cache, page, faults>>

SkipOther(u) ==
  /\ u \in dispatcher.todo
  /\ ~IsCronDue(u) \/ (PipelineAllowedToRun(u) /\ u \in dispatcher.active)
  /\ Done(u)
  /\ UNCHANGED <<slot, job, lock, latest, linked, cache, page, faults>>

Dispatch(u) ==
  /\ u \in dispatcher.todo
  /\ IsCronDue(u) /\ PipelineAllowedToRun(u) /\ u \notin dispatcher.active
  /\ Create(u) /\ Done(u)
  /\ UNCHANGED <<slot, lock, latest, linked, cache, page, faults>>

-----------------------------------------------------------------------------
(* The user's web pages.                                                   *)

\* link_account: the bridge row, then the cached accounts are deleted.
LinkAccount(u) ==
  /\ linked[u] = "no"
  /\ linked' = [linked EXCEPT ![u] = "yes"]
  /\ cache' = [cache EXCEPT ![u] = "none"]
  /\ UNCHANGED <<slot, dispatcher, job, lock, latest, page, faults>>

\* get_linked_accounts on a miss: the rows are read, then cached.
PageReads(u) ==
  /\ page[u] = "idle" /\ cache[u] = "none"
  /\ page' = [page EXCEPT ![u] = IF linked[u] = "yes" THEN "fill_yes" ELSE "fill_no"]
  /\ UNCHANGED <<slot, dispatcher, job, lock, latest, linked, cache, faults>>

PageFills(u) ==
  /\ page[u] \in {"fill_yes", "fill_no"}
  /\ cache' = [cache EXCEPT ![u] = IF page[u] = "fill_yes" THEN "yes" ELSE "no"]
  /\ page' = [page EXCEPT ![u] = "idle"]
  /\ UNCHANGED <<slot, dispatcher, job, lock, latest, linked, faults>>

\* TTL of half an hour.
CacheExpires(u) ==
  /\ cache[u] # "none" /\ cache' = [cache EXCEPT ![u] = "none"]
  /\ UNCHANGED <<slot, dispatcher, job, lock, latest, linked, page, faults>>

\* list_user_pipeline_jobs by a run of the script with accounts, in which the
\* button was pressed; the job is created later in the same run.
PageLists(u) ==
  /\ page[u] = "idle" /\ cache[u] = "yes" /\ ~PendingOrRunning(u)
  /\ page' = [page EXCEPT ![u] = "free"]
  /\ UNCHANGED <<slot, dispatcher, job, lock, latest, linked, cache, faults>>

PageCreates(u) ==
  /\ page[u] = "free" /\ Create(u)
  /\ page' = [page EXCEPT ![u] = "idle"]
  /\ UNCHANGED <<slot, dispatcher, lock, latest, linked, cache, faults>>

-----------------------------------------------------------------------------
(* The pod of job j, and the run in it.                                    *)

At(u, j, stage) == job[u][j].st = "active" /\ job[u][j].stage = stage

\* The Job controller makes the first pod, or the second.
PodStarts(u, j) ==
  /\ job[u][j].st \in {"created", "backoff"}
  /\ Put(u, j, [NoJob EXCEPT !.st = "active", !.tries = job[u][j].tries + 1, !.stage = "accounts"])
  /\ UNCHANGED <<slot, dispatcher, lock, latest, linked, cache, page, faults>>

\* backoffLimit 1: the pod is made once more, then the Job has failed.
PodFails(u, j) ==
  Put(u, j, IF job[u][j].tries < 2
              THEN [NoJob EXCEPT !.st = "backoff", !.tries = job[u][j].tries] ELSE NoJob)

\* A row younger than the timeout refuses the run; older ones are deleted.
Fresh(u, s) == lock[u][s].by # Nobody /\ lock[u][s].age < LockSlots

\* Mutant of Acquire: the second pod does not look for an unfinished run.
AcquireOnRetry(u, j, s) ==
  /\ job[u][j].tries = 2 \/ ~Fresh(u, s)
  /\ lock' = [lock EXCEPT ![u][s] = [by |-> j, age |-> 0]]
  /\ Put(u, j, [job[u][j] EXCEPT !.stage = s, !.sub = 0])
Acquire(u, j, s) ==
  /\ ~Fresh(u, s)
  /\ lock' = [lock EXCEPT ![u][s] = [by |-> j, age |-> 0]]
  /\ Put(u, j, [job[u][j] EXCEPT !.stage = s, !.sub = 0])

Release(u, j, s) ==
  IF lock[u][s].by = j THEN [lock EXCEPT ![u][s] = Free] ELSE lock

\* The accounts, from the cache or from the rows, which are cached.
AccountsOf(u) == IF cache[u] = "none" THEN linked[u] ELSE cache[u]

\* No account: nothing runs, and no run is stamped.
RunsNothing(u, j) ==
  /\ At(u, j, "accounts") /\ AccountsOf(u) = "no"
  /\ Put(u, j, NoJob)
  /\ cache' = [cache EXCEPT ![u] = "none"]
  /\ UNCHANGED <<slot, dispatcher, lock, latest, linked, page, faults>>

IngestStarts(u, j) ==
  /\ At(u, j, "accounts") /\ AccountsOf(u) = "yes"
  /\ Acquire(u, j, "ingest")
  /\ cache' = [cache EXCEPT ![u] = "yes"]
  /\ UNCHANGED <<slot, dispatcher, latest, linked, page, faults>>

\* PipelineLockError leaves the process: the pod fails, and what its pipelines
\* did before is not stamped.
Refused(u, j) ==
  /\ \/ At(u, j, "accounts") /\ AccountsOf(u) = "yes" /\ Fresh(u, "ingest")
     \/ At(u, j, "ingested") /\ Fresh(u, "train")
  /\ PodFails(u, j)
  /\ UNCHANGED <<slot, dispatcher, lock, latest, linked, cache, page, faults>>

TrainStarts(u, j) ==
  /\ At(u, j, "ingested") /\ Acquire(u, j, "train")
  /\ UNCHANGED <<slot, dispatcher, latest, linked, cache, page, faults>>

\* The pipeline of stage s has run; one that failed does not stop the next.
StageEnds(u, j, s, next) ==
  /\ At(u, j, s)
  /\ \/ UNCHANGED faults /\ Put(u, j, [job[u][j] EXCEPT !.stage = next, !.best = job[u][j].sub, !.sub = 0])
     \/ Fault /\ Put(u, j, [job[u][j] EXCEPT !.stage = next, !.sub = 0])
  /\ lock' = Release(u, j, s)
  /\ UNCHANGED <<slot, dispatcher, latest, linked, cache, page>>

IngestEnds(u, j) == StageEnds(u, j, "ingest", "ingested")
TrainEnds(u, j)  == StageEnds(u, j, "train", "trained")

\* latest_successful_run_id is the successful pipeline that finished last, and
\* the cooldown counts from its started_at.  Then the user's caches are deleted.
Finish(u, j) ==
  /\ At(u, j, "trained")
  /\ latest' = IF job[u][j].best = Never THEN latest
                 ELSE [latest EXCEPT ![u] = job[u][j].best]
  /\ Put(u, j, NoJob)
  /\ cache' = [cache EXCEPT ![u] = "none"]
  /\ UNCHANGED <<slot, dispatcher, lock, linked, page, faults>>

\* The pod is killed: its unfinished row stays.
Kill(u, j) ==
  /\ job[u][j].st = "active" /\ Fault
  /\ PodFails(u, j)
  /\ lock' = [lock EXCEPT ![u] = [s \in Stages |->
       IF lock[u][s].by = j THEN [lock[u][s] EXCEPT !.by = Dead] ELSE lock[u][s]]]
  /\ UNCHANGED <<slot, dispatcher, latest, linked, cache, page>>

PodSteps(u, j) ==
  \/ PodStarts(u, j) \/ RunsNothing(u, j) \/ IngestStarts(u, j) \/ Refused(u, j)
  \/ TrainStarts(u, j) \/ IngestEnds(u, j) \/ TrainEnds(u, j) \/ Finish(u, j)

Dispatching ==
  \/ DispatchList
  \/ \E u \in Users : SkipForCooldown(u) \/ SkipOther(u) \/ Dispatch(u)

Next ==
  \/ Tick \/ DispatchList
  \/ \E u \in Users :
       \/ SkipForCooldown(u) \/ SkipOther(u) \/ Dispatch(u)
       \/ LinkAccount(u) \/ PageReads(u) \/ PageFills(u) \/ CacheExpires(u)
       \/ PageLists(u) \/ PageCreates(u)
       \/ \E j \in Jobs :
            \/ PodStarts(u, j) \/ RunsNothing(u, j) \/ IngestStarts(u, j) \/ Refused(u, j)
            \/ TrainStarts(u, j) \/ IngestEnds(u, j) \/ TrainEnds(u, j) \/ Finish(u, j)
            \/ Kill(u, j)

Spec == Init /\ [][Next]_vars

\* Time, the dispatcher and the pods go on, a page's script ends, and an entry
\* of the cache expires in the end.  Nobody has to press a button.
FairSpec ==
  /\ Spec
  /\ WF_vars(Tick) /\ SF_vars(Dispatching)
  /\ \A u \in Users :
       /\ WF_vars(PageFills(u)) /\ SF_vars(CacheExpires(u))
       /\ \A j \in Jobs : WF_vars(PodSteps(u, j))

-----------------------------------------------------------------------------
(* Properties.                                                             *)

\* A user with an account is served again and again: a run of the user comes to
\* its end with pipelines that succeeded, whatever the caches held, whichever
\* pod was killed or refused, and however the page and the dispatcher got in
\* each other's way.
Served(u) == \E j \in Jobs : At(u, j, "trained") /\ job[u][j].best # Never
LinkedUserIsServed == \A u \in Users : (linked[u] = "yes") ~> Served(u)

\* Two jobs of a user do not work on the user's games at the same time, unless
\* one of them has been at it for longer than the lock's timeout.
OneIngests ==
  \A u \in Users : \A i, j \in Jobs :
    i # j /\ At(u, i, "ingest") /\ At(u, j, "ingest")
      => \E k \in {i, j} : job[u][k].sub >= LockSlots
=============================================================================
