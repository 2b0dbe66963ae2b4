-------------------------- MODULE UserJobsProofs ---------------------------
(***************************************************************************)
(* Proofs about UserJobs, for any users, any number of jobs of a user, any *)
(* length of the day and any timeout of the lock up to the cooldown: two   *)
(* jobs of a user do not ingest together before the timeout.               *)
(***************************************************************************)
EXTENDS UserJobs, TLAPS

LEMMA JobsConstants ==
  /\ Day \in Nat /\ Day > 1 /\ Cron \in [Users -> 0..Day-1]
  /\ LockSlots \in Nat /\ LockSlots > 0 /\ Cooldown \in Nat /\ LockSlots <= Cooldown
  /\ MaxJobs \in Nat /\ MaxFaults \in Nat
BY JobsAssumption DEF Cooldown

JobRecord ==
  [st : {"none", "created", "active", "backoff"}, tries : 0..2,
   stage : {"none", "accounts", "ingested", "trained"} \cup Stages, sub : Ages, best : 0..Never]
LockRow == [by : 0..Dead, age : 0..LockSlots]

\* A job that waits for a pod has one left.
PodLeft == \A u \in Users : \A j \in Jobs :
  job[u][j].st \in {"created", "backoff"} => job[u][j].tries < 2

JobsInv == TypeOK /\ PodLeft

\* A run that has been in stage s for less than the timeout holds the row of the
\* stage, and the row is not older than the run's time in it.
Holding(u, j, s) ==
  At(u, j, s) /\ job[u][j].sub < LockSlots => lock[u][s].by = j /\ lock[u][s].age <= job[u][j].sub
HolderIsFresh == \A u \in Users : \A j \in Jobs : \A s \in Stages : Holding(u, j, s)

-----------------------------------------------------------------------------
(* Records.                                                                *)

LEMMA RecordTypes ==
  /\ NoJob \in JobRecord /\ Free \in LockRow
  /\ \A j \in Jobs : j \in 0..Dead /\ j # Nobody /\ j # Dead
  /\ Dead \in 0..Dead /\ 0 \in 0..LockSlots /\ 0 \in Ages
<1> USE JobsConstants
<1>1. NoJob \in JobRecord
  BY DEF NoJob, JobRecord, Ages, Never
<1>2. Free \in LockRow
  BY DEF Free, LockRow, Nobody, Dead
<1>3. \A j \in Jobs : j \in 0..Dead /\ j # Nobody /\ j # Dead
  BY DEF Jobs, Dead, Nobody
<1>4. Dead \in 0..Dead /\ 0 \in 0..LockSlots /\ 0 \in Ages
  BY DEF Dead, Ages
<1> QED BY <1>1, <1>2, <1>3, <1>4

\* The type of a state's tables, by parts.
LEMMA TypeParts ==
  ASSUME TypeOK, NEW u \in Users
  PROVE  /\ \A j \in Jobs : job[u][j] \in JobRecord
         /\ \A s \in Stages : lock[u][s] \in LockRow
         /\ latest[u] \in Ages
BY DEF TypeOK, JobRecord, LockRow

\* Putting a record into the table of jobs.
LEMMA PutType ==
  ASSUME JobsInv, NEW u \in Users, NEW j \in Jobs, NEW r \in JobRecord, Put(u, j, r),
         r.st \in {"created", "backoff"} => r.tries < 2
  PROVE  /\ job' \in [Users -> [Jobs -> JobRecord]]
         /\ \A v \in Users : \A i \in Jobs :
              job'[v][i].st \in {"created", "backoff"} => job'[v][i].tries < 2
         /\ job'[u][j] = r
         /\ \A v \in Users : \A i \in Jobs : v # u \/ i # j => job'[v][i] = job[v][i]
<1>1. job \in [Users -> [Jobs -> JobRecord]]
  BY DEF JobsInv, TypeOK, JobRecord
<1>2. /\ job' \in [Users -> [Jobs -> JobRecord]]
      /\ job'[u][j] = r
      /\ \A v \in Users : \A i \in Jobs : v # u \/ i # j => job'[v][i] = job[v][i]
  BY <1>1 DEF Put
<1>3. \A v \in Users : \A i \in Jobs :
        job'[v][i].st \in {"created", "backoff"} => job'[v][i].tries < 2
  BY <1>2 DEF JobsInv, PodLeft
<1> QED BY <1>2, <1>3

\* A new job waits for its first pod.
LEMMA CreatePuts ==
  ASSUME JobsInv, NEW u \in Users, Create(u)
  PROVE  \/ UNCHANGED job
         \/ \E j \in Jobs : job[u][j].st = "none" /\ Put(u, j, [NoJob EXCEPT !.st = "created"])
BY DEF Create

\* What a failed pod leaves: a job with one pod left, or none.
PodFailed(r) == IF r.tries < 2 THEN [NoJob EXCEPT !.st = "backoff", !.tries = r.tries] ELSE NoJob

LEMMA PodFailedType ==
  ASSUME NEW r \in JobRecord
  PROVE  /\ PodFailed(r) \in JobRecord /\ PodFailed(r).st # "active"
         /\ PodFailed(r).st \in {"created", "backoff"} => PodFailed(r).tries < 2
<1>1. CASE r.tries < 2
  BY <1>1, RecordTypes, JobsConstants DEF PodFailed, JobRecord, NoJob, Ages
<1>2. CASE ~(r.tries < 2)
  BY <1>2, RecordTypes DEF PodFailed, NoJob
<1> QED BY <1>1, <1>2

-----------------------------------------------------------------------------
(* What the steps do to a user's jobs and locks.                           *)

\* Nothing happens to the jobs or the locks, or they grow older, or one job of
\* one user moves on: it leaves or enters the stages, or its pipeline ends.
Rest == UNCHANGED <<job, lock>>

Moves(u, j, r, l) ==
  /\ Put(u, j, r) /\ r \in JobRecord /\ (r.st \in {"created", "backoff"} => r.tries < 2)
  /\ l \in [Stages -> LockRow] /\ lock' = [lock EXCEPT ![u] = l]

\* The job is in no stage of a pipeline, and no row of another run is touched.
Outside(u, j) == \E r, l :
  /\ Moves(u, j, r, l) /\ ~(r.st = "active" /\ r.stage \in Stages)
  /\ \A s \in Stages : lock[u][s].by # j => l[s] = lock[u][s]

\* The job enters stage s, in which no row is fresh.
Enters(u, j) == \E r, l : \E s \in Stages :
  /\ Moves(u, j, r, l) /\ ~Fresh(u, s)
  /\ r.stage = s /\ r.sub = 0
  /\ l[s] = [by |-> j, age |-> 0] /\ \A t \in Stages : t # s => l[t] = lock[u][t]

\* A job that was not touched keeps its holding, if its row was not taken.
LEMMA OutsideKeeps ==
  ASSUME JobsInv, HolderIsFresh, NEW u \in Users, NEW j \in Jobs, Outside(u, j)
  PROVE  HolderIsFresh'
<1>1. PICK r, l : /\ Moves(u, j, r, l) /\ ~(r.st = "active" /\ r.stage \in Stages)
                  /\ \A s \in Stages : lock[u][s].by # j => l[s] = lock[u][s]
  BY DEF Outside
<1>2. /\ job'[u][j] = r
      /\ \A v \in Users : \A i \in Jobs : v # u \/ i # j => job'[v][i] = job[v][i]
  BY <1>1, PutType DEF Moves
<1>3. lock'[u] = l /\ \A v \in Users : v # u => lock'[v] = lock[v]
  BY <1>1 DEF Moves, JobsInv, TypeOK
<1> SUFFICES ASSUME NEW v \in Users, NEW i \in Jobs, NEW s \in Stages, Holding(v, i, s)
             PROVE  Holding(v, i, s)'
  BY DEF HolderIsFresh
<1>4. CASE v # u
  BY <1>2, <1>3, <1>4 DEF Holding, At
<1>5. CASE v = u /\ i = j
  BY <1>1, <1>2, <1>5 DEF Holding, At
<1>6. CASE v = u /\ i # j
  BY <1>1, <1>2, <1>3, <1>6 DEF Holding, At
<1> QED BY <1>4, <1>5, <1>6

LEMMA EntersKeeps ==
  ASSUME JobsInv, HolderIsFresh, NEW u \in Users, NEW j \in Jobs, Enters(u, j)
  PROVE  HolderIsFresh'
<1>1. PICK r, l : \E s \in Stages :
        /\ Moves(u, j, r, l) /\ ~Fresh(u, s)
        /\ r.stage = s /\ r.sub = 0
        /\ l[s] = [by |-> j, age |-> 0] /\ \A t \in Stages : t # s => l[t] = lock[u][t]
  BY DEF Enters
<1>2. PICK e \in Stages :
        /\ Moves(u, j, r, l) /\ ~Fresh(u, e)
        /\ r.stage = e /\ r.sub = 0
        /\ l[e] = [by |-> j, age |-> 0] /\ \A t \in Stages : t # e => l[t] = lock[u][t]
  BY <1>1
<1>3. /\ job'[u][j] = r
      /\ \A v \in Users : \A i \in Jobs : v # u \/ i # j => job'[v][i] = job[v][i]
  BY <1>2, PutType DEF Moves
<1>4. lock'[u] = l /\ \A v \in Users : v # u => lock'[v] = lock[v]
  BY <1>2 DEF Moves, JobsInv, TypeOK
<1> SUFFICES ASSUME NEW v \in Users, NEW i \in Jobs, NEW s \in Stages, Holding(v, i, s)
             PROVE  Holding(v, i, s)'
  BY DEF HolderIsFresh
<1>5. CASE v # u
  BY <1>3, <1>4, <1>5 DEF Holding, At
<1>6. CASE v = u /\ i = j
  BY <1>2, <1>3, <1>4, <1>6 DEF Holding, At
<1>7. CASE v = u /\ i # j /\ s = e
  <2>1. lock[u][s].age \in Nat /\ job[u][i].sub \in Nat /\ lock[u][s].by \in Nat
    BY TypeParts, JobsConstants DEF JobsInv, JobRecord, LockRow, Ages
  <2>2. ~(At(u, i, s) /\ job[u][i].sub < LockSlots)
    BY <1>2, <1>7, <2>1, RecordTypes, JobsConstants DEF Holding, Fresh
  <2> QED BY <1>3, <1>7, <2>2 DEF Holding, At
<1>8. CASE v = u /\ i # j /\ s # e
  BY <1>2, <1>3, <1>4, <1>8 DEF Holding, At
<1> QED BY <1>5, <1>6, <1>7, <1>8

LEMMA RestKeeps == ASSUME HolderIsFresh, Rest PROVE HolderIsFresh'
BY DEF HolderIsFresh, Holding, At, Rest

-----------------------------------------------------------------------------
(* Time.                                                                   *)

LEMMA DayWraps == \A n \in Nat : n % Day \in 0..Day-1
BY JobsConstants

LEMMA Aging == \A a \in Ages : Older(a) \in Ages
BY JobsConstants DEF Older, Ages

\* A record a slot later.
Later(r) ==
  IF r.st = "none" THEN r ELSE
    [r EXCEPT !.sub = IF r.stage \in Stages THEN Older(@) ELSE @,
              !.best = IF @ < Cooldown THEN @ + 1 ELSE @]

LEMMA LaterType ==
  ASSUME NEW r \in JobRecord
  PROVE  /\ Later(r) \in JobRecord
         /\ Later(r).st = r.st /\ Later(r).stage = r.stage /\ Later(r).tries = r.tries
         /\ r.st # "none" /\ r.stage \in Stages => Later(r).sub = Older(r.sub)
<1>1. CASE r.st = "none"
  BY <1>1 DEF Later
<1>2. CASE r.st # "none"
  <2> DEFINE sub == IF r.stage \in Stages THEN Older(r.sub) ELSE r.sub
             best == IF r.best < Cooldown THEN r.best + 1 ELSE r.best
  <2>1. sub \in Ages
    BY Aging DEF JobRecord
  <2>2. best \in 0..Never
    BY JobsConstants DEF JobRecord, Never
  <2>3. Later(r) = [r EXCEPT !.sub = sub, !.best = best]
    BY <1>2 DEF Later
  <2> HIDE DEF sub, best
  <2>4. Later(r) \in JobRecord
    BY <2>1, <2>2, <2>3 DEF JobRecord
  <2>5. Later(r).st = r.st /\ Later(r).stage = r.stage /\ Later(r).tries = r.tries /\ Later(r).sub = sub
    BY <2>3 DEF JobRecord
  <2> QED BY <2>4, <2>5 DEF sub
<1> QED BY <1>1, <1>2

OlderRow(r) ==
  IF r.by = Nobody THEN Free ELSE [r EXCEPT !.age = IF @ < LockSlots THEN @ + 1 ELSE @]

LEMMA OlderRowType ==
  ASSUME NEW r \in LockRow
  PROVE  /\ OlderRow(r) \in LockRow
         /\ r.by # Nobody => OlderRow(r).by = r.by /\ OlderRow(r).age <= r.age + 1
BY RecordTypes, JobsConstants DEF OlderRow, LockRow

LEMMA TickTables ==
  ASSUME JobsInv, Tick
  PROVE  /\ job' \in [Users -> [Jobs -> JobRecord]]
         /\ lock' \in [Users -> [Stages -> LockRow]]
         /\ \A u \in Users : \A j \in Jobs : job'[u][j] = Later(job[u][j])
         /\ \A u \in Users : \A s \in Stages : lock'[u][s] = OlderRow(lock[u][s])
<1>1. job' = [u \in Users |-> [j \in Jobs |-> Later(job[u][j])]]
  BY DEF Tick, Later
<1>2. lock' = [u \in Users |-> [s \in Stages |-> OlderRow(lock[u][s])]]
  BY DEF Tick, OlderRow
<1>3. \A u \in Users : \A j \in Jobs : Later(job[u][j]) \in JobRecord
  BY TypeParts, LaterType DEF JobsInv
<1>4. \A u \in Users : \A s \in Stages : OlderRow(lock[u][s]) \in LockRow
  BY TypeParts, OlderRowType DEF JobsInv
<1> QED BY <1>1, <1>2, <1>3, <1>4

LEMMA TickKeeps ==
  ASSUME JobsInv, HolderIsFresh, Tick
  PROVE  HolderIsFresh'
<1> SUFFICES ASSUME NEW u \in Users, NEW j \in Jobs, NEW s \in Stages, Holding(u, j, s),
                    At(u, j, s)', job'[u][j].sub < LockSlots
             PROVE  lock'[u][s].by = j /\ lock'[u][s].age <= job'[u][j].sub
  BY DEF HolderIsFresh, Holding
<1>1. /\ job[u][j] \in JobRecord /\ job'[u][j] = Later(job[u][j])
      /\ lock[u][s] \in LockRow /\ lock'[u][s] = OlderRow(lock[u][s])
  BY TypeParts, TickTables DEF JobsInv
<1>2. At(u, j, s) /\ job'[u][j].sub = Older(job[u][j].sub)
  BY <1>1, LaterType DEF At
<1>3. /\ job[u][j].sub \in Ages /\ lock[u][s].age \in 0..LockSlots
      /\ job[u][j].sub \in Nat /\ lock[u][s].age \in Nat
  BY <1>1, JobsConstants DEF JobRecord, LockRow, Ages
<1>4. job[u][j].sub < LockSlots
  BY <1>2, <1>3, JobsConstants DEF Older, Ages
<1>5. lock[u][s].by = j /\ lock[u][s].age <= job[u][j].sub
  BY <1>2, <1>4 DEF Holding
<1>6. Older(job[u][j].sub) = job[u][j].sub + 1
  BY <1>3, <1>4, <1>5, JobsConstants DEF Older, Ages
<1>7. lock'[u][s].by = j /\ lock'[u][s].age <= lock[u][s].age + 1
  BY <1>1, <1>5, OlderRowType, RecordTypes
<1>8. lock'[u][s].age \in Nat
  BY <1>1, OlderRowType DEF LockRow
<1> QED BY <1>2, <1>3, <1>5, <1>6, <1>7, <1>8

\* A record whose job moves on to another stage, with or without a success.
Staged(r, t)    == [r EXCEPT !.stage = t, !.sub = 0]
Succeeded(r, t) == [r EXCEPT !.stage = t, !.best = r.sub, !.sub = 0]

LEMMA StagedType ==
  ASSUME NEW r \in JobRecord, NEW t \in {"none", "accounts", "ingested", "trained"} \cup Stages
  PROVE  /\ Staged(r, t) \in JobRecord /\ Staged(r, t).st = r.st
         /\ Staged(r, t).stage = t /\ Staged(r, t).sub = 0
         /\ Succeeded(r, t) \in JobRecord /\ Succeeded(r, t).st = r.st /\ Succeeded(r, t).stage = t
<1>1. 0 \in Ages /\ r.sub \in 0..Never
  BY JobsConstants DEF JobRecord, Ages, Never
<1> QED BY <1>1 DEF JobRecord, Staged, Succeeded

\* The record of a job whose pod starts.
LEMMA StartedType ==
  ASSUME NEW n \in 0..2
  PROVE  /\ [NoJob EXCEPT !.st = "active", !.tries = n, !.stage = "accounts"] \in JobRecord
         /\ [NoJob EXCEPT !.st = "active", !.tries = n, !.stage = "accounts"].st = "active"
         /\ [NoJob EXCEPT !.st = "active", !.tries = n, !.stage = "accounts"].stage = "accounts"
BY RecordTypes DEF NoJob, JobRecord

-----------------------------------------------------------------------------
(* The steps of the pods.                                                  *)

LEMMA OutsideFrame ==
  ASSUME JobsInv, NEW u \in Users, NEW j \in Jobs, NEW r \in JobRecord,
         Put(u, j, r), r.st \in {"created", "backoff"} => r.tries < 2,
         ~(r.st = "active" /\ r.stage \in Stages), UNCHANGED lock
  PROVE  Outside(u, j)
<1>1. lock[u] \in [Stages -> LockRow] /\ lock' = [lock EXCEPT ![u] = lock[u]]
  BY DEF JobsInv, TypeOK, LockRow
<1>2. Moves(u, j, r, lock[u])
  BY <1>1 DEF Moves
<1> QED BY <1>2 DEF Outside

LEMMA CreateIsOutside ==
  ASSUME JobsInv, NEW u \in Users, Create(u), UNCHANGED lock
  PROVE  Rest \/ \E j \in Jobs : Outside(u, j)
<1> DEFINE r == [NoJob EXCEPT !.st = "created"]
<1>1. r \in JobRecord /\ r.st = "created" /\ r.tries = 0
  BY JobsConstants DEF NoJob, JobRecord, Ages, Never
<1>2. ASSUME NEW j \in Jobs, Put(u, j, r) PROVE Outside(u, j)
  <2> HIDE DEF r
  <2> QED BY <1>1, <1>2, OutsideFrame
<1> QED BY <1>2, CreatePuts DEF Rest

LEMMA PodStartsIsOutside ==
  ASSUME JobsInv, NEW u \in Users, NEW j \in Jobs, PodStarts(u, j) PROVE Outside(u, j)
<1> DEFINE r == [NoJob EXCEPT !.st = "active", !.tries = job[u][j].tries + 1, !.stage = "accounts"]
<1>1. job[u][j].tries \in 0..2 /\ job[u][j].tries < 2
  BY TypeParts DEF PodStarts, JobsInv, PodLeft, JobRecord
<1>2. r \in JobRecord /\ r.st = "active" /\ r.stage = "accounts"
  <2>1. job[u][j].tries + 1 \in 0..2
    BY <1>1
  <2> QED BY <2>1, StartedType
<1>3. Put(u, j, r) /\ UNCHANGED lock
  BY DEF PodStarts
<1> HIDE DEF r
<1> QED BY <1>2, <1>3, OutsideFrame DEF Stages

LEMMA EndsIsOutside ==
  ASSUME JobsInv, NEW u \in Users, NEW j \in Jobs, RunsNothing(u, j) \/ Finish(u, j) PROVE Outside(u, j)
<1>1. Put(u, j, NoJob) /\ UNCHANGED lock
  BY DEF RunsNothing, Finish
<1>2. NoJob \in JobRecord /\ NoJob.st = "none"
  BY RecordTypes DEF NoJob
<1> QED BY <1>1, <1>2, OutsideFrame

LEMMA RefusedIsOutside ==
  ASSUME JobsInv, NEW u \in Users, NEW j \in Jobs, Refused(u, j) PROVE Outside(u, j)
<1>1. Put(u, j, PodFailed(job[u][j])) /\ UNCHANGED lock
  BY DEF Refused, PodFails, PodFailed
<1>2. job[u][j] \in JobRecord
  BY TypeParts DEF JobsInv
<1> QED BY <1>1, <1>2, PodFailedType, OutsideFrame

LEMMA KillIsOutside ==
  ASSUME JobsInv, NEW u \in Users, NEW j \in Jobs, Kill(u, j) PROVE Outside(u, j)
<1> DEFINE r == PodFailed(job[u][j])
           l == [s \in Stages |-> IF lock[u][s].by = j THEN [lock[u][s] EXCEPT !.by = Dead] ELSE lock[u][s]]
<1>1. Put(u, j, r) /\ lock' = [lock EXCEPT ![u] = l]
  BY DEF Kill, PodFails, PodFailed
<1>2. job[u][j] \in JobRecord /\ \A s \in Stages : lock[u][s] \in LockRow
  BY TypeParts DEF JobsInv
<1>3. l \in [Stages -> LockRow]
  BY <1>2, RecordTypes DEF LockRow
<1>4. \A s \in Stages : lock[u][s].by # j => l[s] = lock[u][s]
  OBVIOUS
<1>5. r \in JobRecord /\ r.st # "active" /\ (r.st \in {"created", "backoff"} => r.tries < 2)
  BY <1>2, PodFailedType
<1> HIDE DEF r, l
<1>6. Moves(u, j, r, l)
  BY <1>1, <1>3, <1>5 DEF Moves
<1> QED BY <1>4, <1>5, <1>6 DEF Outside

LEMMA StageEndsIsOutside ==
  ASSUME JobsInv, NEW u \in Users, NEW j \in Jobs, NEW s \in Stages,
         NEW next \in {"ingested", "trained"}, StageEnds(u, j, s, next)
  PROVE  Outside(u, j)
<1> DEFINE good == Succeeded(job[u][j], next)
           bad  == Staged(job[u][j], next)
           l    == IF lock[u][s].by = j THEN [lock[u] EXCEPT ![s] = Free] ELSE lock[u]
<1>1. job[u][j] \in JobRecord /\ job[u][j].st = "active" /\ lock[u] \in [Stages -> LockRow]
  BY TypeParts DEF StageEnds, At, JobsInv, TypeOK, LockRow
<1>2. /\ good \in JobRecord /\ good.st = "active" /\ good.stage = next
      /\ bad \in JobRecord /\ bad.st = "active" /\ bad.stage = next
  BY <1>1, StagedType
<1>3. l \in [Stages -> LockRow]
  BY <1>1, RecordTypes
<1>4. \A t \in Stages : lock[u][t].by # j => l[t] = lock[u][t]
  BY <1>1
<1>5. lock \in [Users -> [Stages -> LockRow]]
  BY DEF JobsInv, TypeOK, LockRow
<1>6. lock' = [lock EXCEPT ![u] = l]
  BY <1>5 DEF StageEnds, Release
<1>7. Put(u, j, good) \/ Put(u, j, bad)
  BY DEF StageEnds, Succeeded, Staged
<1> HIDE DEF good, bad, l
<1>8. next \notin Stages
  BY DEF Stages
<1>9. Moves(u, j, good, l) \/ Moves(u, j, bad, l)
  BY <1>2, <1>3, <1>6, <1>7 DEF Moves
<1> QED BY <1>2, <1>4, <1>8, <1>9 DEF Outside

\* Acquire puts the job into the stage, with a new row.
LEMMA AcquireEnters ==
  ASSUME JobsInv, NEW u \in Users, NEW j \in Jobs, NEW s \in Stages,
         job[u][j].st = "active", Acquire(u, j, s)
  PROVE  Enters(u, j)
<1> DEFINE r == Staged(job[u][j], s)
           row == [by |-> j, age |-> 0]
           l == [lock[u] EXCEPT ![s] = row]
<1>1. job[u][j] \in JobRecord /\ lock[u] \in [Stages -> LockRow]
  BY TypeParts DEF JobsInv, TypeOK, LockRow
<1>2. r \in JobRecord /\ r.st = "active" /\ r.stage = s /\ r.sub = 0
  BY <1>1, StagedType
<1>3. row \in LockRow
  BY RecordTypes DEF LockRow
<1>4. Put(u, j, r) /\ ~Fresh(u, s) /\ lock' = [lock EXCEPT ![u][s] = row]
  BY DEF Acquire, Staged
<1>5. lock \in [Users -> [Stages -> LockRow]]
  BY DEF JobsInv, TypeOK, LockRow
<1> HIDE DEF r, row
<1>6. lock' = [lock EXCEPT ![u] = l]
  BY <1>4, <1>5
<1>7. l \in [Stages -> LockRow] /\ l[s] = row /\ \A t \in Stages : t # s => l[t] = lock[u][t]
  BY <1>1, <1>3
<1> HIDE DEF l
<1>8. Moves(u, j, r, l)
  BY <1>2, <1>4, <1>6, <1>7 DEF Moves
<1> QED BY <1>2, <1>4, <1>7, <1>8 DEF Enters, row

-----------------------------------------------------------------------------
(* Every step.                                                             *)

\* What a step of the dispatcher, of a page or of a pod does to the tables.
LEMMA StepCases ==
  ASSUME JobsInv, [Next]_vars
  PROVE  Tick \/ Rest \/ \E u \in Users, j \in Jobs : Outside(u, j) \/ Enters(u, j)
<1>1. CASE UNCHANGED vars \/ DispatchList
  BY <1>1 DEF vars, Rest, DispatchList
<1>2. ASSUME NEW u \in Users,
             \/ SkipForCooldown(u) \/ SkipOther(u) \/ LinkAccount(u) \/ PageReads(u)
             \/ PageFills(u) \/ CacheExpires(u) \/ PageLists(u)
      PROVE  Rest
  BY <1>2 DEF Rest, SkipForCooldown, SkipOther, LinkAccount, PageReads, PageFills, CacheExpires, PageLists
<1>3. ASSUME NEW u \in Users, Dispatch(u) \/ PageCreates(u)
      PROVE  Rest \/ \E j \in Jobs : Outside(u, j)
  BY <1>3, CreateIsOutside DEF Dispatch, PageCreates
<1>4. ASSUME NEW u \in Users, NEW j \in Jobs,
             \/ PodStarts(u, j) \/ RunsNothing(u, j) \/ Refused(u, j) \/ Finish(u, j) \/ Kill(u, j)
      PROVE  Outside(u, j)
  BY <1>4, PodStartsIsOutside, EndsIsOutside, RefusedIsOutside, KillIsOutside
<1>5. ASSUME NEW u \in Users, NEW j \in Jobs, IngestEnds(u, j) \/ TrainEnds(u, j)
      PROVE  Outside(u, j)
  BY <1>5, StageEndsIsOutside DEF IngestEnds, TrainEnds, Stages
<1>6. ASSUME NEW u \in Users, NEW j \in Jobs, IngestStarts(u, j) \/ TrainStarts(u, j)
      PROVE  Enters(u, j)
  BY <1>6, AcquireEnters DEF IngestStarts, TrainStarts, At, Stages
<1> QED BY <1>1, <1>2, <1>3, <1>4, <1>5, <1>6 DEF Next

\* The tables after a step.
LEMMA StepTables ==
  ASSUME JobsInv, [Next]_vars
  PROVE  /\ job' \in [Users -> [Jobs -> JobRecord]]
         /\ lock' \in [Users -> [Stages -> LockRow]]
         /\ PodLeft'
<1>0. lock \in [Users -> [Stages -> LockRow]] /\ job \in [Users -> [Jobs -> JobRecord]]
  BY DEF JobsInv, TypeOK, LockRow, JobRecord
<1>1. CASE Tick
  <2>1. \A u \in Users : \A j \in Jobs :
          job'[u][j].st = job[u][j].st /\ job'[u][j].tries = job[u][j].tries
    BY <1>1, TickTables, TypeParts, LaterType DEF JobsInv
  <2> QED BY <1>1, <2>1, TickTables DEF JobsInv, PodLeft
<1>2. CASE Rest
  BY <1>0, <1>2 DEF Rest, JobsInv, PodLeft
<1>3. ASSUME NEW u \in Users, NEW j \in Jobs, NEW r, NEW l, Moves(u, j, r, l)
      PROVE  /\ job' \in [Users -> [Jobs -> JobRecord]]
             /\ lock' \in [Users -> [Stages -> LockRow]]
             /\ PodLeft'
  <2>1. lock' \in [Users -> [Stages -> LockRow]]
    BY <1>0, <1>3 DEF Moves
  <2> QED BY <1>3, <2>1, PutType DEF Moves, PodLeft
<1> QED BY <1>1, <1>2, <1>3, StepCases DEF Outside, Enters

\* The clock, the dispatcher, the caches and the pages.
LEMMA StepScalars ==
  ASSUME JobsInv, [Next]_vars
  PROVE  /\ slot' \in 0..Day-1 /\ faults' \in 0..MaxFaults
         /\ dispatcher' \in [due : {"no", "yes"}, active : SUBSET Users, todo : SUBSET Users]
         /\ latest' \in [Users -> Ages]
         /\ linked' \in [Users -> {"no", "yes"}]
         /\ cache' \in [Users -> {"none", "no", "yes"}]
         /\ page' \in [Users -> {"idle", "fill_no", "fill_yes", "free"}]
<1>0. /\ slot \in 0..Day-1 /\ faults \in 0..MaxFaults
      /\ dispatcher \in [due : {"no", "yes"}, active : SUBSET Users, todo : SUBSET Users]
      /\ latest \in [Users -> Ages]
      /\ linked \in [Users -> {"no", "yes"}]
      /\ cache \in [Users -> {"none", "no", "yes"}]
      /\ page \in [Users -> {"idle", "fill_no", "fill_yes", "free"}]
      /\ \A u \in Users : AccountsOf(u) \in {"none", "no", "yes"}
  BY DEF JobsInv, TypeOK, AccountsOf
<1>1. CASE Tick
  <2>1. slot' \in 0..Day-1
    <3>1. slot' = (slot + 1) % Day
      BY <1>1 DEF Tick
    <3>2. slot + 1 \in Nat
      BY <1>0, JobsConstants
    <3> QED BY <3>1, <3>2, DayWraps
  <2>2. faults' \in 0..MaxFaults
    <3>1. Fault \/ UNCHANGED faults
      BY <1>1 DEF Tick
    <3> QED BY <1>0, <3>1, JobsConstants DEF Fault
  <2>3. latest' \in [Users -> Ages]
    BY <1>0, <1>1, Aging DEF Tick
  <2> QED BY <1>0, <1>1, <2>1, <2>2, <2>3 DEF Tick
<1>2. CASE UNCHANGED vars \/ DispatchList
  BY <1>0, <1>2 DEF vars, DispatchList, ActiveJobs
<1>3. ASSUME NEW u \in Users, SkipForCooldown(u) \/ SkipOther(u) \/ Dispatch(u)
      PROVE  /\ dispatcher' \in [due : {"no", "yes"}, active : SUBSET Users, todo : SUBSET Users]
             /\ UNCHANGED <<slot, latest, linked, cache, page, faults>>
  BY <1>0, <1>3 DEF SkipForCooldown, SkipOther, Dispatch, Done
<1>4. ASSUME NEW u \in Users,
             \/ LinkAccount(u) \/ PageReads(u) \/ PageFills(u) \/ CacheExpires(u)
             \/ PageLists(u) \/ PageCreates(u)
      PROVE  /\ linked' \in [Users -> {"no", "yes"}]
             /\ cache' \in [Users -> {"none", "no", "yes"}]
             /\ page' \in [Users -> {"idle", "fill_no", "fill_yes", "free"}]
             /\ UNCHANGED <<slot, dispatcher, latest, faults>>
  BY <1>0, <1>4 DEF LinkAccount, PageReads, PageFills, CacheExpires, PageLists, PageCreates
<1>5. ASSUME NEW u \in Users, NEW j \in Jobs,
             PodStarts(u, j) \/ RunsNothing(u, j) \/ Refused(u, j) \/ IngestStarts(u, j) \/ TrainStarts(u, j)
      PROVE  /\ cache' \in [Users -> {"none", "no", "yes"}]
             /\ UNCHANGED <<slot, dispatcher, latest, linked, page, faults>>
  BY <1>0, <1>5 DEF PodStarts, RunsNothing, Refused, IngestStarts, TrainStarts
<1>6. ASSUME NEW u \in Users, NEW j \in Jobs, IngestEnds(u, j) \/ TrainEnds(u, j) \/ Kill(u, j)
      PROVE  faults' \in 0..MaxFaults /\ UNCHANGED <<slot, dispatcher, latest, linked, cache, page>>
  BY <1>0, <1>6, JobsConstants DEF IngestEnds, TrainEnds, StageEnds, Kill, Fault
<1>7. ASSUME NEW u \in Users, NEW j \in Jobs, Finish(u, j)
      PROVE  /\ latest' \in [Users -> Ages]
             /\ cache' \in [Users -> {"none", "no", "yes"}]
             /\ UNCHANGED <<slot, dispatcher, linked, page, faults>>
  <2>1. job[u][j].best \in 0..Never
    BY TypeParts DEF JobsInv, JobRecord
  <2>2. job[u][j].best # Never => job[u][j].best \in Ages
    BY <2>1, JobsConstants DEF Never, Ages
  <2> QED BY <1>0, <1>7, <2>2 DEF Finish
<1> QED BY <1>0, <1>1, <1>2, <1>3, <1>4, <1>5, <1>6, <1>7 DEF Next

LEMMA JobsInvInit == ASSUME Init PROVE JobsInv /\ HolderIsFresh
<1>1. /\ job \in [Users -> [Jobs -> JobRecord]]
      /\ lock \in [Users -> [Stages -> LockRow]]
  BY RecordTypes DEF Init
<1>2. TypeOK
  BY <1>1, JobsConstants DEF Init, TypeOK, Ages, JobRecord, LockRow
<1>3. PodLeft /\ HolderIsFresh
  BY DEF Init, PodLeft, HolderIsFresh, Holding, At, NoJob
<1> QED BY <1>2, <1>3 DEF JobsInv

LEMMA JobsInvNext == ASSUME JobsInv, [Next]_vars PROVE JobsInv'
BY StepTables, StepScalars DEF JobsInv, TypeOK, JobRecord, LockRow

LEMMA HolderNext == ASSUME JobsInv, HolderIsFresh, [Next]_vars PROVE HolderIsFresh'
BY StepCases, TickKeeps, RestKeeps, OutsideKeeps, EntersKeeps

-----------------------------------------------------------------------------
(* The theorems.                                                           *)

\* The clock, the dispatcher, the jobs, the rows of the locks and the caches of
\* the users keep their types, and no job is given a third pod.
THEOREM JobsTypeOK == Spec => []TypeOK
<1>1. Init => JobsInv
  BY JobsInvInit
<1>2. JobsInv /\ [Next]_vars => JobsInv'
  BY JobsInvNext
<1>3. JobsInv => TypeOK
  BY DEF JobsInv
<1> QED BY <1>1, <1>2, <1>3, PTL DEF Spec

\* Two jobs of a user, made by the dispatcher, by the page or by the retry of a
\* pod, do not ingest at the same time while both are within the lock's timeout:
\* the row of the stage can only be held by one of them.
THEOREM OneJobIngests == Spec => []OneIngests
<1>1. Init => JobsInv /\ HolderIsFresh
  BY JobsInvInit
<1>2. JobsInv /\ HolderIsFresh /\ [Next]_vars => (JobsInv /\ HolderIsFresh)'
  BY JobsInvNext, HolderNext
<1>3. JobsInv /\ HolderIsFresh => OneIngests
  <2> SUFFICES ASSUME JobsInv, HolderIsFresh, NEW u \in Users, NEW i \in Jobs, NEW j \in Jobs,
                      i # j, At(u, i, "ingest"), At(u, j, "ingest"),
                      ~(job[u][i].sub >= LockSlots), ~(job[u][j].sub >= LockSlots)
               PROVE  FALSE
    BY DEF OneIngests
  <2>1. job[u][i].sub \in Nat /\ job[u][j].sub \in Nat
    BY TypeParts, JobsConstants DEF JobsInv, JobRecord, Ages
  <2>2. job[u][i].sub < LockSlots /\ job[u][j].sub < LockSlots
    BY <2>1, JobsConstants
  <2>3. lock[u]["ingest"].by = i /\ lock[u]["ingest"].by = j
    BY <2>2 DEF HolderIsFresh, Holding, Stages
  <2> QED BY <2>3
<1> QED BY <1>1, <1>2, <1>3, PTL DEF Spec
=============================================================================
