-------------------------- MODULE PipelineRunProofs --------------------------
(***************************************************************************)
(* Proofs about a pipeline run, for every set of pipelines of any length    *)
(* and any number of retries, and about the lock that runs take, for any    *)
(* number of runs (the second half).  RunInv relates the runner's two summaries    *)
(* of the past, skip_until_flagged and pipeline_result, to the outcomes of  *)
(* the steps behind it; the outcomes ahead of it are still empty.          *)
(***************************************************************************)
EXTENDS PipelineRun, PipelineLock, TLAPS

StepActions == SkipStep \/ StartStep \/ StartProcessFails \/ StepSucceeds \/ Retry
               \/ StepFails \/ RunnerRaises
EndActions  == AllStepsDone \/ PostRun \/ PostRunFails \/ Cleanup \/ ReleaseLock \/ Killed

LEMMA NextIsSplit == Next <=> PreRun \/ PreRunFails \/ StepActions \/ EndActions \/ ChildDies
  BY DEF Next, RunStep, StepActions, EndActions

\* The current step exists while the runner is at one.
AtStep == phase = "execute" => at <= Len(steps)

LEMMA StepsAreSteps ==
  ASSUME TypeOK
  PROVE  /\ steps \in Seq(Step) /\ Len(steps) \in Nat
         /\ \A i \in 1..Len(steps) : steps[i] \in Step
  BY PipelinesAssumption DEF TypeOK

LEMMA RunTypeInit == Init => TypeOK /\ AtStep
<1> SUFFICES ASSUME Init PROVE TypeOK /\ AtStep
  OBVIOUS
<1>1. steps \in Seq(Step) /\ Len(steps) \in Nat
  BY PipelinesAssumption DEF Init
<1> QED BY <1>1 DEF Init, TypeOK, AtStep, Phases

LEMMA RunTypeStep ==
  ASSUME TypeOK, AtStep, [Next]_vars PROVE TypeOK' /\ AtStep'
<1>1. Len(steps) \in Nat /\ \A i \in 1..Len(steps) : steps[i] \in Step
  BY StepsAreSteps
<1> USE <1>1 DEF TypeOK, AtStep, Phases
<1> SUFFICES ASSUME Next PROVE TypeOK' /\ AtStep'
  BY DEF vars
<1>2. CASE PreRun \/ PreRunFails \/ ChildDies
  BY <1>2 DEF PreRun, PreRunFails, ChildDies
<1>3. CASE StepActions
  <2>1. CASE SkipStep
    BY <2>1 DEF SkipStep, Proceed, Abort
  <2>2. CASE StartStep \/ StartProcessFails \/ Retry \/ RunnerRaises
    BY <2>2 DEF StartStep, StartProcessFails, Retry, RunnerRaises, WillRun, Abort
  <2>3. CASE StepSucceeds
    BY <2>3 DEF StepSucceeds, Proceed, Abort
  <2>4. CASE StepFails
    BY <2>4 DEF StepFails, Proceed, Abort, Step
  <2> QED BY <1>3, <2>1, <2>2, <2>3, <2>4 DEF StepActions
<1>4. CASE EndActions
  BY <1>4 DEF EndActions, AllStepsDone, PostRun, PostRunFails, Cleanup, ReleaseLock, Killed
<1> QED BY <1>2, <1>3, <1>4, NextIsSplit

(***************************************************************************)
(* Every variable of a run keeps its type, whatever pipeline it runs.       *)
(***************************************************************************)
THEOREM RunTypeOK == Spec => []TypeOK
<1>1. Spec => [](TypeOK /\ AtStep)
  BY RunTypeInit, RunTypeStep, PTL DEF Spec
<1> QED BY <1>1, PTL

-----------------------------------------------------------------------------
(***************************************************************************)
(* The induction.  Steps ahead of the runner have no outcome; the runner is  *)
(* in mode "flagged" exactly when a critical step behind it failed; a step   *)
(* behind it that its mode let run has an outcome; only a clean past is      *)
(* reported as success; and a run that comes to its end without an error     *)
(* has all its steps behind it.                                            *)
(***************************************************************************)
Ended == phase \in {"post_run", "cleanup", "release", "end"}

AheadIsEmpty == \A i \in 1..Len(steps) : i >= at => outcome[i] = "none"
ModeIsPast   == mode = "flagged" <=> \E j \in 1..(at - 1) : Critical(j) /\ Failed(j)
PastHasRun   == \A i \in 1..(at - 1) : (AfterFailure(i) => Always(i)) <=> outcome[i] # "none"
ResultIsPast == result = "success" =>
                  mode = "all" /\ \A i \in 1..(at - 1) : outcome[i] = "success"
EndIsReached == Ended /\ (error = "none" \/ result = "success") => at > Len(steps)
NotRunning   == phase = "pre_run" => at = 1 /\ child = "none"
ExecutesAllowed == phase = "execute" => RunsIn(at, mode)

RunInv ==
  /\ TypeOK /\ AtStep /\ AheadIsEmpty /\ ModeIsPast /\ PastHasRun /\ ResultIsPast
  /\ EndIsReached /\ NotRunning /\ ExecutesAllowed /\ NoIdleChild

LEMMA RunInvStutter == ASSUME RunInv, UNCHANGED vars PROVE RunInv'
<1>1. UNCHANGED <<steps, at, phase, attempt, outcome, mode, result, error, child, closers, lock>>
  BY DEF vars
<1>2. (TypeOK /\ AtStep /\ EndIsReached /\ NotRunning)'
  BY <1>1 DEF RunInv, TypeOK, AtStep, EndIsReached, NotRunning, Ended
<1>3. (AheadIsEmpty /\ ModeIsPast /\ PastHasRun /\ ResultIsPast)'
  BY <1>1 DEF RunInv, AheadIsEmpty, ModeIsPast, PastHasRun, ResultIsPast, AfterFailure, Critical,
              Failed, Always
<1>4. (ExecutesAllowed /\ NoIdleChild)'
  BY <1>1 DEF RunInv, ExecutesAllowed, NoIdleChild, RunsIn, Always, Holds
<1> QED BY <1>2, <1>3, <1>4 DEF RunInv

LEMMA RunInvStep == ASSUME RunInv, [Next]_vars PROVE RunInv'
<1>1. Len(steps) \in Nat /\ \A i \in 1..Len(steps) : steps[i] \in Step
  BY StepsAreSteps DEF RunInv
<1>2. TypeOK' /\ AtStep'
  BY RunTypeStep DEF RunInv
<1> USE <1>1 DEF RunInv
<1> USE DEF TypeOK, AtStep, Phases, Critical, Always, Failed, AfterFailure, RunsIn, Ended
<1> DEFINE Past == AheadIsEmpty /\ ModeIsPast /\ PastHasRun /\ ResultIsPast
<1> SUFFICES ASSUME Next
    PROVE (Past /\ EndIsReached /\ NotRunning /\ ExecutesAllowed /\ NoIdleChild)'
  <2>1. CASE UNCHANGED vars
    BY <2>1, RunInvStutter
  <2>2. ASSUME (Past /\ EndIsReached /\ NotRunning /\ ExecutesAllowed /\ NoIdleChild)'
        PROVE  RunInv'
    BY <1>2, <2>2
  <2> QED BY <2>1, <2>2
<1> USE DEF AheadIsEmpty, ModeIsPast, PastHasRun, ResultIsPast
<1>3. CASE PreRun \/ PreRunFails \/ ChildDies
  BY <1>3 DEF PreRun, PreRunFails, ChildDies, EndIsReached, NotRunning, ExecutesAllowed, NoIdleChild
<1>4. CASE EndActions
  BY <1>4 DEF EndActions, AllStepsDone, PostRun, PostRunFails, Cleanup, ReleaseLock, Killed,
     EndIsReached, NotRunning, ExecutesAllowed, NoIdleChild
<1>5. CASE StartStep \/ StartProcessFails \/ Retry \/ RunnerRaises
  BY <1>5 DEF StartStep, StartProcessFails, Retry, RunnerRaises, WillRun, Abort,
     EndIsReached, NotRunning, ExecutesAllowed, NoIdleChild
<1>6. ASSUME NEW m, Proceed(m), m = mode', phase' = "next", UNCHANGED steps
      PROVE  NoIdleChild'
  BY <1>6 DEF Proceed, NoIdleChild, StillNeeded, Holds
<1>7. CASE SkipStep
  <2>1. /\ at \in 1..Len(steps) /\ at' = at + 1 /\ mode = "flagged" /\ ~ Always(at)
        /\ outcome[at] = "none" /\ UNCHANGED <<steps, outcome, mode>>
        /\ result' = "success" => result = "success"
    BY <1>7 DEF SkipStep, Proceed, Abort
  <2>2. AheadIsEmpty' /\ ResultIsPast'
    BY <2>1
  <2>5. ModeIsPast'
    <3>1. \E j \in 1..(at - 1) : Critical(j) /\ Failed(j)
      BY <2>1
    <3> QED BY <2>1, <3>1
  <2>3. \A i \in 1..at : AfterFailure(i)' <=> AfterFailure(i)
    BY <2>1
  <2>4. PastHasRun'
    <3> SUFFICES ASSUME NEW i \in 1..at
        PROVE  (AfterFailure(i) => Always(i)) <=> outcome[i] # "none"
      BY <2>1, <2>3
    <3>1. CASE i = at
      BY <2>1, <3>1
    <3> QED BY <2>1, <3>1
  <2> QED BY <1>7, <2>2, <2>4, <2>5, <1>6 DEF SkipStep, Abort, EndIsReached, NotRunning, ExecutesAllowed, NoIdleChild, Proceed
<1>8. ASSUME NEW o \in {"success", "failure"}, phase = "execute", UNCHANGED steps,
             outcome' = [outcome EXCEPT ![at] = o], at' = at + 1,
             mode' = IF o = "failure" /\ Critical(at) THEN "flagged" ELSE mode,
             result' = "success" => o = "success" /\ result = "success"
       PROVE Past'
  <2>1. at \in 1..Len(steps) /\ outcome'[at] = o /\ \A i \in 1..(at - 1) : outcome'[i] = outcome[i]
    BY <1>8
  <2>2. AheadIsEmpty'
    BY <1>8, <2>1
  <2>3. ModeIsPast'
    BY <1>8, <2>1
  <2>4. \A i \in 1..at : AfterFailure(i)' <=> AfterFailure(i)
    BY <1>8, <2>1
  <2>5. PastHasRun'
    <3> SUFFICES ASSUME NEW i \in 1..at
        PROVE  (AfterFailure(i) => Always(i)) <=> outcome'[i] # "none"
      BY <1>8, <2>1, <2>4
    <3>1. CASE i = at
      BY <1>8, <2>1, <3>1 DEF ExecutesAllowed
    <3> QED BY <1>8, <2>1, <3>1
  <2>6. ResultIsPast'
    BY <1>8, <2>1
  <2> QED BY <2>2, <2>3, <2>5, <2>6
<1>9. CASE StepSucceeds
  <2>1. Past'
    <3>1. /\ phase = "execute" /\ UNCHANGED <<steps, mode>> /\ at' = at + 1
          /\ outcome' = [outcome EXCEPT ![at] = "success"]
          /\ result' = "success" => result = "success"
      BY <1>9 DEF StepSucceeds, Proceed, Abort
    <3> HIDE DEF Past
    <3> QED BY <3>1, <1>8
  <2> QED BY <1>9, <2>1, <1>6 DEF StepSucceeds, Abort, EndIsReached, NotRunning, ExecutesAllowed, NoIdleChild, Proceed
<1>10. CASE StepFails
  <2>1. Past'
    BY <1>10, <1>8 DEF StepFails, Proceed, Abort, ExecutesAllowed
  <2> QED BY <1>10, <2>1, <1>6 DEF StepFails, Abort, EndIsReached, NotRunning, ExecutesAllowed, NoIdleChild, Proceed
<1> QED BY <1>3, <1>4, <1>5, <1>7, <1>9, <1>10, NextIsSplit DEF StepActions

LEMMA RunInvariant == Spec => []RunInv
<1>1. Init => RunInv
  BY RunTypeInit DEF Init, RunInv, AheadIsEmpty, ModeIsPast, PastHasRun, ResultIsPast,
     EndIsReached, NotRunning, ExecutesAllowed, NoIdleChild, Ended
<1> QED BY <1>1, RunInvStep, PTL DEF Spec

(***************************************************************************)
(* In a pipeline of any length, the child is running between two steps only *)
(* if a step that will still run carries it.                               *)
(***************************************************************************)
THEOREM NoIdleChildBetweenSteps == Spec => []NoIdleChild
  BY RunInvariant, PTL DEF RunInv

(***************************************************************************)
(* After a critical failure exactly the flagged steps run, and a run that   *)
(* gets through its steps ran all of those.                                *)
(***************************************************************************)
THEOREM OnlyFlaggedStepsAfterFailure == Spec => []FlaggedStepsOnly
<1>1. RunInv => FlaggedStepsOnly
  <2> SUFFICES ASSUME RunInv, NEW i \in 1..Len(steps)
      PROVE  /\ outcome[i] # "none" /\ AfterFailure(i) => Always(i)
             /\ phase = "end" /\ error = "none" /\ (AfterFailure(i) => Always(i))
                  => outcome[i] # "none"
    BY DEF FlaggedStepsOnly
  <2>1. Len(steps) \in Nat /\ at \in Nat
    BY StepsAreSteps DEF RunInv, TypeOK
  <2>2. CASE i >= at
    BY <2>1, <2>2 DEF RunInv, AheadIsEmpty, EndIsReached, Ended
  <2>3. CASE i < at
    BY <2>1, <2>3 DEF RunInv, PastHasRun
  <2> QED BY <2>1, <2>2, <2>3
<1> QED BY <1>1, RunInvariant, PTL

(***************************************************************************)
(* A run that reports success executed every step and none of them failed.  *)
(***************************************************************************)
THEOREM SuccessMeansNoFailure == Spec => []SuccessIsHonest
<1>1. RunInv => SuccessIsHonest
  <2> SUFFICES ASSUME RunInv, phase = "end", result = "success", NEW i \in 1..Len(steps)
      PROVE  outcome[i] = "success"
    BY DEF SuccessIsHonest
  <2>1. Len(steps) \in Nat /\ at \in Nat /\ at > Len(steps)
    BY StepsAreSteps DEF RunInv, TypeOK, EndIsReached, Ended
  <2> QED BY <2>1 DEF RunInv, ResultIsPast
<1> QED BY <1>1, RunInvariant, PTL
-----------------------------------------------------------------------------
(***************************************************************************)
(* The child and its cleanup.  A child that runs was started with a close   *)
(* registered for it; from the cleanups on there is none, and nothing starts *)
(* one any more.  A killed run is the exception: its child is an orphan.    *)
(***************************************************************************)
RunningHasCloser == child = "running" /\ phase # "killed" => closers > 0
NoneAfterCleanup == phase \in {"pre_run", "release", "end"} => child # "running"

ChildInv == TypeOK /\ AtStep /\ RunningHasCloser /\ NoneAfterCleanup

LEMMA ChildInvStep == ASSUME ChildInv, [Next]_vars PROVE ChildInv'
<1> USE DEF ChildInv, RunningHasCloser, NoneAfterCleanup
<1>1. TypeOK' /\ AtStep'
  BY RunTypeStep
<1> USE <1>1 DEF TypeOK, Phases
<1> SUFFICES ASSUME Next PROVE (RunningHasCloser /\ NoneAfterCleanup)'
  BY DEF vars
<1>2. CASE PreRun \/ PreRunFails \/ ChildDies
  BY <1>2 DEF PreRun, PreRunFails, ChildDies
<1>3. CASE SkipStep \/ StepSucceeds \/ StepFails
  BY <1>3 DEF SkipStep, StepSucceeds, StepFails, Proceed, Abort
<1>4. CASE StartStep \/ StartProcessFails \/ Retry \/ RunnerRaises
  BY <1>4 DEF StartStep, StartProcessFails, WillRun, Retry, RunnerRaises, Abort
<1>5. CASE AllStepsDone \/ PostRun \/ PostRunFails \/ Cleanup \/ ReleaseLock \/ Killed
  BY <1>5 DEF AllStepsDone, PostRun, PostRunFails, Cleanup, ReleaseLock, Killed
<1> QED BY <1>2, <1>3, <1>4, <1>5 DEF Next, RunStep

(***************************************************************************)
(* A run of any pipeline that comes to its end has closed its child or lost *)
(* it, whichever step, start, close or save raised on the way.             *)
(***************************************************************************)
THEOREM EndedRunsLeaveNoChild == Spec => []NoChildLeft
<1>1. Init => ChildInv
  BY RunTypeInit DEF Init, ChildInv, RunningHasCloser, NoneAfterCleanup
<1>2. ChildInv => NoChildLeft
  BY DEF ChildInv, NoneAfterCleanup, NoChildLeft
<1> QED BY <1>1, <1>2, ChildInvStep, PTL DEF Spec

-----------------------------------------------------------------------------
(***************************************************************************)
(* What the pipeline lock gives when its callers take it one at a time:     *)
(* for every set of runs and every timeout that no run outlives, one run    *)
(* works and nobody deletes its lock.  The invariant says why: a run that   *)
(* has read the locks has read the row of every run that works, and a run   *)
(* that is past the decision knows that none does.                         *)
(***************************************************************************)

LEMMA LockTypeInit == LockInit => LockTypes
  BY LockAssumption DEF LockInit, LockTypes, Labels, Taking, MaxAge

LEMMA LockTypeStep == ASSUME LockTypes, [LockNext]_lockVars PROVE LockTypes'
<1> USE LockAssumption DEF LockTypes, Labels, Taking, MaxAge, Goto
<1> SUFFICES ASSUME LockNext PROVE LockTypes'
  BY DEF lockVars
<1>1. CASE Tick \/ ClearOrphanedLocks
  BY <1>1 DEF Tick, ClearOrphanedLocks
<1>2. ASSUME NEW r \in Runs, Begin(r) \/ Crash(r)
      PROVE  LockTypes'
  BY <1>2 DEF Begin, Crash
<1>3. ASSUME NEW r \in Runs, LockStep(r)
      PROVE  LockTypes'
  BY <1>3 DEF LockStep, ReadLocks, Active, Refuse, Decide, DeleteLocks, Insert, TakeFails,
              StepsEnd, SaveRunResult, SaveFails, ReleaseRow, ReleaseFails
<1> QED BY <1>1, <1>2, <1>3 DEF LockNext

(***************************************************************************)
(* Rows, ages and program counters keep their types.                       *)
(***************************************************************************)
THEOREM LockTypeOK == LockSpec => []LockTypes
  BY LockTypeInit, LockTypeStep, PTL DEF LockSpec

-----------------------------------------------------------------------------
OneRunTakes == \A r, s \in Runs : pc[r] \in Taking /\ pc[s] \in Taking => r = s
InTime == \A r \in Runs : pc[r] # "ended" => age[r] <= RunLimit
WorkIsLocked == \A r \in Runs : Working(r) => row[r] = "active"
ReadsEveryWorker ==
  \A r, s \in Runs : pc[r] = "decide" /\ Working(s) => s \in seen[r]
DecidedAlone ==
  \A r, s \in Runs : pc[r] \in {"clear", "insert"} => ~ Working(s)

LockInv ==
  LockTypes /\ OneRunTakes /\ InTime /\ WorkIsLocked /\ ReadsEveryWorker /\ DecidedAlone /\ OneRunWorks

LEMMA LockInvStep == ASSUME Serialised, LockInv, [LockNext]_lockVars PROVE LockInv'
<1> USE LockAssumption DEF LockInv, Working, Taking, Labels, LockTypes, Goto
<1>1. LockTypes'
  BY LockTypeStep
<1> USE DEF OneRunTakes, InTime, WorkIsLocked, ReadsEveryWorker, DecidedAlone, OneRunWorks
<1> SUFFICES ASSUME LockNext PROVE LockInv'
  BY <1>1 DEF lockVars
<1>2. CASE Tick
  BY <1>1, <1>2 DEF Tick
<1>3. CASE ClearOrphanedLocks
  BY <1>1, <1>3 DEF ClearOrphanedLocks
<1>4. ASSUME NEW r \in Runs, Begin(r)
      PROVE  LockInv'
  BY <1>1, <1>4 DEF Begin
<1>5. ASSUME NEW r \in Runs, Crash(r)
      PROVE  LockInv'
  BY <1>1, <1>5 DEF Crash
<1>6. ASSUME NEW r \in Runs, LockStep(r)
      PROVE  LockInv'
  <2>1. CASE ReadLocks(r)
    BY <1>1, <2>1 DEF ReadLocks, Active
  <2>2. CASE Refuse(r)
    BY <1>1, <2>2 DEF Refuse
  <2>3. CASE Decide(r)
    <3>1. \A s \in Runs : ~ Working(s)
      BY <2>3 DEF Decide, Fresh
    <3> QED BY <1>1, <2>3, <3>1 DEF Decide
  <2>4. CASE DeleteLocks(r)
    BY <1>1, <2>4 DEF DeleteLocks
  <2>5. CASE Insert(r)
    BY <1>1, <2>5 DEF Insert
  <2>6. CASE TakeFails(r)
    BY <1>1, <2>6 DEF TakeFails
  <2>7. CASE StepsEnd(r) \/ SaveRunResult(r) \/ SaveFails(r)
    BY <1>1, <2>7 DEF StepsEnd, SaveRunResult, SaveFails
  <2>8. CASE ReleaseRow(r) \/ ReleaseFails(r)
    BY <1>1, <2>8 DEF ReleaseRow, ReleaseFails
  <2> QED BY <1>6, <2>1, <2>2, <2>3, <2>4, <2>5, <2>6, <2>7, <2>8 DEF LockStep
<1> QED BY <1>2, <1>3, <1>4, <1>5, <1>6 DEF LockNext

LEMMA LockInvariant == ASSUME Serialised PROVE LockSpec => []LockInv
<1>1. LockInit => LockInv
  BY LockTypeInit, LockAssumption
  DEF LockInit, LockInv, OneRunTakes, InTime, WorkIsLocked, ReadsEveryWorker, DecidedAlone,
      OneRunWorks, Working, Taking
<1>2. LockInv /\ [LockNext]_lockVars => LockInv'
  BY LockInvStep
<1> QED BY <1>1, <1>2, PTL DEF LockSpec

(***************************************************************************)
(* Callers that take the lock one at a time never work on the same key at   *)
(* once, for every timeout that no run outlives.                           *)
(***************************************************************************)
THEOREM SerialisedRunsExclude ==
  ASSUME Serialised PROVE LockSpec => []OneRunWorks
<1>1. LockInv => OneRunWorks
  BY DEF LockInv
<1> QED BY <1>1, LockInvariant, PTL

(***************************************************************************)
(* Nor does one of them lose its lock row to a take-over or to the sweep.   *)
(***************************************************************************)
THEOREM SerialisedLocksAreKept ==
  ASSUME Serialised PROVE LockSpec => FreshLockIsKept
<1>1. LockInv /\ LockInv' =>
        [\A r \in Runs : Working(r) /\ Working(r)' /\ row[r] = "active"
            => row'[r] = "active"]_lockVars
  BY DEF LockInv, WorkIsLocked, Working
<1> QED BY <1>1, LockInvariant, PTL DEF FreshLockIsKept
-----------------------------------------------------------------------------
(***************************************************************************)
(* Results, for callers in any interleaving.  A row is finished only once   *)
(* its run has saved; until then the deletes and the insert of the lock can *)
(* meet no result, and afterwards they look for active rows only.           *)
(***************************************************************************)
FinishedIsSaved ==
  \A r \in Runs : pc[r] \in Taking \cup {"steps", "save"} => row[r] # "finished"

ResultInv == LockTypes /\ FinishedIsSaved

LEMMA ResultInvStep ==
  ASSUME ResultInv, LockNext
  PROVE  /\ ResultInv'
         /\ \A r \in Runs : row[r] = "finished" /\ ~Begin(r) => row'[r] = "finished"
<1> USE DEF ResultInv, FinishedIsSaved, LockTypes, Labels, Taking, Goto
<1>1. LockTypes'
  BY LockTypeStep
<1> DEFINE Kept == \A r \in Runs : row[r] = "finished" /\ ~Begin(r) => row'[r] = "finished"
<1> SUFFICES FinishedIsSaved' /\ Kept
  BY <1>1
<1>2. CASE Tick \/ ClearOrphanedLocks
  BY <1>2 DEF Tick, ClearOrphanedLocks
<1>3. ASSUME NEW r \in Runs, Begin(r)
      PROVE  FinishedIsSaved' /\ Kept
  <2>1. \A s \in Runs \ {r} : row'[s] = row[s] /\ pc'[s] = pc[s]
    BY <1>3 DEF Begin
  <2>2. row'[r] = "none"
    BY <1>3 DEF Begin
  <2> QED BY <1>3, <2>1, <2>2
<1>4. ASSUME NEW r \in Runs, Crash(r)
      PROVE  FinishedIsSaved' /\ Kept
  BY <1>4 DEF Crash
<1>5. ASSUME NEW r \in Runs, LockStep(r)
      PROVE  FinishedIsSaved' /\ Kept
  <2>1. CASE ReadLocks(r) \/ Refuse(r) \/ Decide(r) \/ StepsEnd(r) \/ ReleaseFails(r)
    BY <2>1 DEF ReadLocks, Refuse, Decide, StepsEnd, ReleaseFails
  <2>2. CASE DeleteLocks(r) \/ Insert(r)
    BY <2>2 DEF DeleteLocks, Insert
  <2>3. CASE TakeFails(r)
    BY <2>3 DEF TakeFails
  <2>4. CASE SaveRunResult(r) \/ SaveFails(r) \/ ReleaseRow(r)
    BY <2>4 DEF SaveRunResult, SaveFails, ReleaseRow
  <2> QED BY <1>5, <2>1, <2>2, <2>3, <2>4 DEF LockStep
<1> QED BY <1>2, <1>3, <1>4, <1>5 DEF LockNext

LEMMA ResultInvariant == LockSpec => []ResultInv
<1>1. LockInit => ResultInv
  BY LockTypeInit DEF LockInit, ResultInv, FinishedIsSaved, Taking
<1>2. ResultInv /\ [LockNext]_lockVars => ResultInv'
  <2>1. ResultInv /\ UNCHANGED lockVars => ResultInv'
    BY DEF ResultInv, FinishedIsSaved, LockTypes, lockVars
  <2> QED BY <2>1, ResultInvStep
<1> QED BY <1>1, <1>2, PTL DEF LockSpec

(***************************************************************************)
(* No release, take-over or sweep deletes a result that was saved, with     *)
(* callers in any number and any interleaving: no assumption on how they    *)
(* take the lock.                                                          *)
(***************************************************************************)
THEOREM SavedResultsAreKept == LockSpec => ResultIsKept
<1>1. ResultInv /\ [LockNext]_lockVars =>
        [\A r \in Runs : row[r] = "finished" /\ ~Begin(r) => row'[r] = "finished"]_lockVars
  BY ResultInvStep
<1> QED BY <1>1, ResultInvariant, PTL DEF LockSpec, ResultIsKept
=============================================================================
