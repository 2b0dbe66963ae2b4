---------------------------- MODULE PipelineLock ----------------------------
(***************************************************************************)
(* The lock every pipeline run takes: a row of platform.pipeline_runs that  *)
(* is active (finished_at = EPOCH) while the run works and holds the run's  *)
(* result afterwards (pipeline_base.py).  Reading the active rows, deleting *)
(* stale ones and inserting the own one are three statements in three       *)
(* transactions.  The maintenance pipeline deletes active rows that are     *)
(* older than a day.                                                       *)
(*                                                                         *)
(* The model is of one lock key (name, user_id, account_id): every          *)
(* statement names the whole key, so keys do not meet.  A run is one run    *)
(* id; age[r] is now - started_at and stops counting at MaxAge.             *)
(*                                                                         *)
(* The names of the specification are the lock's own, so that a module can  *)
(* EXTEND this one and PipelineRun.                                        *)
(***************************************************************************)
EXTENDS Integers, FiniteSets

CONSTANTS Runs,         \* run ids
          LockTimeout,  \* lock_timeout_hours
          SweepAfter,   \* ClearOrphanedPipelineRunLocksStep._RETENTION_PERIOD
          RunLimit,     \* the longest a run goes from started_at to its last step
          Serialised    \* TRUE: the caller lets one run at a time take the lock

(***************************************************************************)
(* RunLimit is the callers' choice of lock_timeout_hours, not a deadline    *)
(* of the code.                                                            *)
(***************************************************************************)
ASSUME LockAssumption ==
  /\ LockTimeout \in Nat \ {0} /\ SweepAfter \in Nat /\ RunLimit \in Nat
  /\ RunLimit < LockTimeout /\ LockTimeout <= SweepAfter
  /\ Serialised \in BOOLEAN

VARIABLES
  row,    \* the row of each run id: none, active, or finished
  age,    \* time since the run's started_at
  pc,     \* where each run is
  seen    \* the active rows the run read

lockVars == <<row, age, pc, seen>>

Taking == {"read", "decide", "clear", "insert"}
Labels == Taking \cup {"steps", "save", "release", "ended"}

MaxAge == SweepAfter + 1

LockTypes ==
  /\ row \in [Runs -> {"none", "active", "finished"}]
  /\ age \in [Runs -> 0..MaxAge]
  /\ pc \in [Runs -> Labels]
  /\ seen \in [Runs -> SUBSET Runs]

LockInit ==
  /\ row = [r \in Runs |-> "none"]
  /\ age = [r \in Runs |-> 0]
  /\ pc = [r \in Runs |-> "ended"]
  /\ seen = [r \in Runs |-> {}]

Goto(r, label) == pc' = [pc EXCEPT ![r] = label]

Active == {r \in Runs : row[r] = "active"}
\* Mutant of Fresh: the stale comparison the wrong way round.
Stale(locks) == {r \in locks : age[r] >= LockTimeout}
Fresh(locks) == {r \in locks : age[r] < LockTimeout}

-----------------------------------------------------------------------------
(* Pipeline._acquire_lock *)

(***************************************************************************)
(* Pipeline.run notes started_at, checks the database and the storage.  The *)
(* run id is a new uuid: no row has it and no run has read it.              *)
(***************************************************************************)
Begin(r) ==
  /\ pc[r] = "ended" /\ row[r] # "active" /\ \A s \in Runs : r \notin seen[s]
  /\ Serialised => \A s \in Runs : pc[s] \notin Taking
  /\ row' = [row EXCEPT ![r] = "none"]
  /\ age' = [age EXCEPT ![r] = 0]
  /\ Goto(r, "read")
  /\ UNCHANGED seen

ReadLocks(r) ==
  /\ pc[r] = "read"
  /\ seen' = [seen EXCEPT ![r] = Active]
  /\ Goto(r, "decide")
  /\ UNCHANGED <<row, age>>

\* PipelineLockError; the run has no run id, so nothing is saved or released.
Refuse(r) ==
  /\ pc[r] = "decide" /\ Fresh(seen[r]) # {}
  /\ seen' = [seen EXCEPT ![r] = {}]
  /\ Goto(r, "ended")
  /\ UNCHANGED <<row, age>>

Decide(r) ==
  /\ pc[r] = "decide" /\ Fresh(seen[r]) = {}
  /\ Goto(r, IF seen[r] = {} THEN "insert" ELSE "clear")
  /\ seen' = [seen EXCEPT ![r] = {}]
  /\ UNCHANGED <<row, age>>

\* Mutant of DeleteLocks: the delete without EPOCH in its WHERE.
DeleteAllRows(r) ==
  /\ pc[r] = "clear"
  /\ row' = [s \in Runs |-> "none"]
  /\ Goto(r, "insert")
  /\ UNCHANGED <<age, seen>>

\* The delete names the key and EPOCH, not the rows that were read.
DeleteLocks(r) ==
  /\ pc[r] = "clear"
  /\ row' = [s \in Runs |-> IF row[s] = "active" THEN "none" ELSE row[s]]
  /\ Goto(r, "insert")
  /\ UNCHANGED <<age, seen>>

Insert(r) ==
  /\ pc[r] = "insert"
  /\ row' = [row EXCEPT ![r] = "active"]
  /\ Goto(r, "steps")
  /\ UNCHANGED <<age, seen>>

\* A statement fails before the run id is noted; the insert may have committed.
TakeFails(r) ==
  /\ pc[r] \in Taking
  /\ row' \in {row} \cup
              IF pc[r] = "insert" THEN {[row EXCEPT ![r] = "active"]} ELSE {}
  /\ seen' = [seen EXCEPT ![r] = {}]
  /\ Goto(r, "ended")
  /\ UNCHANGED age

-----------------------------------------------------------------------------
(* The end of Pipeline.run *)

StepsEnd(r) ==
  /\ pc[r] = "steps"
  /\ Goto(r, "save")
  /\ UNCHANGED <<row, age, seen>>

\* A merge on run_id: the row is written again if somebody deleted it.
SaveRunResult(r) ==
  /\ pc[r] = "save"
  /\ row' = [row EXCEPT ![r] = "finished"]
  /\ Goto(r, "release")
  /\ UNCHANGED <<age, seen>>

\* The merge, or one of the step results after it, fails.
SaveFails(r) ==
  /\ pc[r] = "save"
  /\ row' \in {row, [row EXCEPT ![r] = "finished"]}
  /\ Goto(r, "release")
  /\ UNCHANGED <<age, seen>>

ReleaseRow(r) ==
  /\ pc[r] = "release"
  /\ row' = [row EXCEPT ![r] = IF row[r] = "active" THEN "none" ELSE row[r]]
  /\ Goto(r, "ended")
  /\ UNCHANGED <<age, seen>>

ReleaseFails(r) ==
  /\ pc[r] = "release"
  /\ Goto(r, "ended")
  /\ UNCHANGED <<row, age, seen>>

Crash(r) ==
  /\ pc[r] # "ended"
  /\ Goto(r, "ended")
  /\ seen' = [seen EXCEPT ![r] = {}]
  /\ UNCHANGED <<row, age>>

-----------------------------------------------------------------------------
\* Mutants of ClearOrphanedLocks: an age no row is counted to, and no age at all.
ClearTooLate ==
  /\ \E r \in Active : age[r] > MaxAge
  /\ row' = [r \in Runs |-> IF row[r] = "active" /\ age[r] > MaxAge THEN "none" ELSE row[r]]
  /\ UNCHANGED <<age, pc, seen>>

ClearAnyLock ==
  /\ row' = [r \in Runs |-> IF row[r] = "active" THEN "none" ELSE row[r]]
  /\ UNCHANGED <<age, pc, seen>>

\* ClearOrphanedPipelineRunLocksStep of the maintenance pipeline.
ClearOrphanedLocks ==
  /\ \E r \in Active : age[r] > SweepAfter
  /\ row' = [r \in Runs |-> IF row[r] = "active" /\ age[r] > SweepAfter
                            THEN "none" ELSE row[r]]
  /\ UNCHANGED <<age, pc, seen>>

\* Time passes, but not past RunLimit for a run that is still working.
Tick ==
  /\ \A r \in Runs : pc[r] # "ended" => age[r] < RunLimit
  /\ age' = [r \in Runs |-> IF age[r] < MaxAge THEN age[r] + 1 ELSE MaxAge]
  /\ UNCHANGED <<row, pc, seen>>

LockStep(r) ==
  \/ ReadLocks(r) \/ Refuse(r) \/ Decide(r) \/ DeleteLocks(r) \/ Insert(r) \/ TakeFails(r)
  \/ StepsEnd(r) \/ SaveRunResult(r) \/ SaveFails(r) \/ ReleaseRow(r) \/ ReleaseFails(r)

LockNext ==
  \/ Tick \/ ClearOrphanedLocks
  \/ \E r \in Runs : Begin(r) \/ LockStep(r) \/ Crash(r)

LockSpec == LockInit /\ [][LockNext]_lockVars

\* Runs that are not killed go on, clocks advance, and maintenance runs.
Fairness ==
  /\ WF_lockVars(Tick) /\ WF_lockVars(ClearOrphanedLocks)
  /\ \A r \in Runs : WF_lockVars(LockStep(r))

LockFairSpec == LockSpec /\ Fairness

-----------------------------------------------------------------------------
(***************************************************************************)
(* Two runs never work on the same key at once: _acquire_lock "raises       *)
(* immediately to prevent concurrent runs" (pipeline_base.py:244).         *)
(***************************************************************************)
Working(r) == pc[r] \in {"steps", "save"}

OneRunWorks == \A r, s \in Runs : Working(r) /\ Working(s) => r = s

(***************************************************************************)
(* Nobody deletes the active row of a run that is working and has not       *)
(* passed the timeout: only rows "older than lock_timeout_hours" are        *)
(* abandoned (pipeline_base.py:247).                                       *)
(***************************************************************************)
FreshLockIsKept ==
  [][\A r \in Runs : Working(r) /\ Working(r)' /\ row[r] = "active" => row'[r] = "active"]_lockVars

(***************************************************************************)
(* However a run ended - refused, killed, its insert or its release          *)
(* answered by an error - its active row goes away in the end.              *)
(***************************************************************************)
DanglingLockGoes ==
  \A r \in Runs : pc[r] = "ended" /\ row[r] = "active" ~> row[r] # "active"

(***************************************************************************)
(* A saved result is not lost to the lock's own deletes, by this run's      *)
(* release, another run's take-over or the maintenance sweep.  (Begin uses  *)
(* the name of an ended run for the new uuid of the next.)                  *)
(***************************************************************************)
ResultIsKept ==
  [][\A r \in Runs : row[r] = "finished" /\ ~Begin(r) => row'[r] = "finished"]_lockVars
=============================================================================
