----------------------------- MODULE PipelineRun -----------------------------
(***************************************************************************)
(* One run of a pipeline: Pipeline.run and PipelineStep.execute             *)
(* (pipeline_base.py).  The runner takes the lock, executes the steps in    *)
(* order with their retries, goes from a failed critical step on to the     *)
(* steps that run after a failure, starts the child interpreter that some   *)
(* steps share on first use and exits it when no step that will still run   *)
(* carries it, and saves, cleans up and unlocks whatever happened.          *)
(*                                                                         *)
(* What a step does is its own module's business; here an attempt           *)
(* succeeds, raises an error that is retried, or raises one that is not.    *)
(***************************************************************************)
EXTENDS Integers, Sequences, FiniteSets

CONSTANT Pipelines   \* the pipelines a run may be of: sequences of steps

(***************************************************************************)
(* A step: whether it is critical, run_if_earlier_step_failed (always), and *)
(* a holder of the shared child process (child), and its max_retries.       *)
(***************************************************************************)
Step == [flags : SUBSET {"critical", "always", "child"}, retries : Nat]

ASSUME PipelinesAssumption == Pipelines \subseteq Seq(Step)

VARIABLES
  steps,     \* the pipeline's steps
  at,        \* the index of the current step
  phase,     \* where Pipeline.run is
  attempt,   \* execute's attempt counter
  outcome,   \* step_results: what became of each step
  mode,      \* "flagged" once skip_until_flagged is set
  result,    \* pipeline_result
  error,     \* "raised" once run_error is set or the finally block raised
  child,     \* the shared child process
  closers,   \* cleanups registered for it
  lock       \* this run's lock row: none, active, finished

vars == <<steps, at, phase, attempt, outcome, mode, result, error, child, closers, lock>>

Phases == {"pre_run", "next", "execute", "post_run", "cleanup", "release", "end", "killed"}

TypeOK ==
  /\ steps \in Pipelines
  /\ at \in 1..(Len(steps) + 1)
  /\ phase \in Phases
  /\ attempt \in Nat
  /\ outcome \in [1..Len(steps) -> {"none", "success", "failure"}]
  /\ mode \in {"all", "flagged"}
  /\ result \in {"success", "partial", "failure"}
  /\ error \in {"none", "raised"}
  /\ child \in {"none", "running", "stuck"}
  /\ closers \in Nat
  /\ lock \in {"none", "active", "finished"}

Init ==
  /\ steps \in Pipelines
  /\ at = 1 /\ phase = "pre_run" /\ attempt = 0
  /\ outcome = [i \in 1..Len(steps) |-> "none"]
  /\ mode = "all" /\ result = "success" /\ error = "none"
  /\ child = "none" /\ closers = 0 /\ lock = "none"

-----------------------------------------------------------------------------
Critical(i) == "critical" \in steps[i].flags
Always(i)   == "always" \in steps[i].flags
Holds(i)    == "child" \in steps[i].flags

\* Step i is executed in mode m, the runner's or the one it is about to be in.
RunsIn(i, m) == m = "flagged" => Always(i)

\* Mutant of StillNeeded: a skipped holder counts as one.
StillCarried(from, m) == \E i \in from..Len(steps) : Holds(i)

\* _process_still_needed: a step after the current one will run and carries the child.
StillNeeded(from, m) ==
  \E i \in from..Len(steps) : Holds(i) /\ RunsIn(i, m)

\* The exception handler of run: the rest of the steps is not even looked at.
Abort ==
  /\ result' = "failure" /\ error' = "raised"
  /\ phase' = "post_run"

(***************************************************************************)
(* _release_finished_processes after the current step, and on to the next.  *)
(* A child that neither obeys nor dies in time is forgotten and raises.     *)
(***************************************************************************)
Proceed(m) ==
  /\ at' = at + 1 /\ attempt' = 0
  /\ IF child = "running" /\ ~ StillNeeded(at + 1, m)
     THEN child' \in {"none", "stuck"} ELSE child' = child

-----------------------------------------------------------------------------
\* _pre_run: a failed check, a refused lock or an insert whose answer is an error
\* ends the run without a run id.
PreRunFails ==
  /\ phase = "pre_run"
  /\ lock' \in {"none", "active"}
  /\ error' = "raised" /\ result' = "failure" /\ phase' = "end"
  /\ UNCHANGED <<steps, at, attempt, outcome, mode, child, closers>>

PreRun ==
  /\ phase = "pre_run"
  /\ lock' = "active" /\ phase' = "next"
  /\ UNCHANGED <<steps, at, attempt, outcome, mode, result, error, child, closers>>

SkipStep ==
  /\ phase = "next" /\ at <= Len(steps)
  /\ ~ RunsIn(at, mode)
  /\ Proceed("flagged")
  /\ IF child' = "stuck" THEN Abort ELSE UNCHANGED <<phase, result, error>>
  /\ UNCHANGED <<steps, outcome, mode, closers, lock>>

WillRun == phase = "next" /\ at <= Len(steps) /\ RunsIn(at, mode)

\* _ensure_step_process, then execute.
StartStep ==
  /\ WillRun
  /\ phase' = "execute"
  /\ IF Holds(at) /\ child # "running"
     THEN child' = "running" /\ closers' = closers + 1
     ELSE UNCHANGED <<child, closers>>
  /\ UNCHANGED <<steps, at, attempt, outcome, mode, result, error, lock>>

StartProcessFails ==
  /\ WillRun /\ Holds(at) /\ child # "running"
  /\ Abort
  /\ UNCHANGED <<steps, at, attempt, outcome, mode, child, closers, lock>>

StepSucceeds ==
  /\ phase = "execute"
  /\ outcome' = [outcome EXCEPT ![at] = "success"]
  /\ Proceed(mode)
  /\ IF child' = "stuck" THEN Abort ELSE phase' = "next" /\ UNCHANGED <<result, error>>
  /\ UNCHANGED <<steps, mode, closers, lock>>

\* An error outside no_retry_on, with attempts left.
Retry ==
  /\ phase = "execute" /\ attempt < steps[at].retries
  /\ attempt' = attempt + 1
  /\ UNCHANGED <<steps, at, phase, outcome, mode, result, error, child, closers, lock>>

\* Mutant of StepFails: a failure that is not critical clears skip_until_flagged.
StepFailsForgetting ==
  /\ phase = "execute"
  /\ outcome' = [outcome EXCEPT ![at] = "failure"]
  /\ mode' = IF Critical(at) THEN "flagged" ELSE "all"
  /\ Proceed(mode')
  /\ IF child' = "stuck" THEN Abort
     ELSE /\ result' = IF Critical(at) THEN "failure" ELSE "partial"
          /\ phase' = "next" /\ UNCHANGED error
  /\ UNCHANGED <<steps, closers, lock>>

\* Mutant of StepFails: a failure that is not critical leaves the result alone.
StepFailsQuietly ==
  /\ phase = "execute"
  /\ outcome' = [outcome EXCEPT ![at] = "failure"]
  /\ mode' = IF Critical(at) THEN "flagged" ELSE mode
  /\ Proceed(mode')
  /\ IF child' = "stuck" THEN Abort
     ELSE /\ result' = IF Critical(at) THEN "failure" ELSE result
          /\ phase' = "next" /\ UNCHANGED error
  /\ UNCHANGED <<steps, closers, lock>>

(***************************************************************************)
(* The last attempt raises, or one raises an error in no_retry_on.  A       *)
(* critical step makes the run a failure, another one makes it partial.     *)
(***************************************************************************)
StepFails ==
  /\ phase = "execute"
  /\ outcome' = [outcome EXCEPT ![at] = "failure"]
  /\ mode' = IF Critical(at) THEN "flagged" ELSE mode
  /\ Proceed(mode')
  /\ IF child' = "stuck" THEN Abort
     ELSE /\ result' = IF Critical(at) THEN "failure" ELSE "partial"
          /\ phase' = "next" /\ UNCHANGED error
  /\ UNCHANGED <<steps, closers, lock>>

\* Anything else raises: the progress window writes to a pipe its reader closed.
RunnerRaises ==
  /\ phase \in {"next", "execute"}
  /\ Abort
  /\ UNCHANGED <<steps, at, attempt, outcome, mode, child, closers, lock>>

\* The host kills the child, between steps or under one.
ChildDies ==
  /\ child = "running"
  /\ child' = "none"
  /\ UNCHANGED <<steps, at, phase, attempt, outcome, mode, result, error, closers, lock>>

\* Mutant of AllStepsDone: the last step is taken for the end.
AllButOneDone ==
  /\ phase = "next" /\ at = Len(steps)
  /\ phase' = "post_run"
  /\ UNCHANGED <<steps, at, attempt, outcome, mode, result, error, child, closers, lock>>

AllStepsDone ==
  /\ phase = "next" /\ at > Len(steps)
  /\ phase' = "post_run"
  /\ UNCHANGED <<steps, at, attempt, outcome, mode, result, error, child, closers, lock>>

-----------------------------------------------------------------------------
(* The finally block: save, clean up, unlock, each whatever the others did. *)

PostRun ==
  /\ phase = "post_run"
  /\ lock' = "finished" /\ phase' = "cleanup"
  /\ UNCHANGED <<steps, at, attempt, outcome, mode, result, error, child, closers>>

PostRunFails ==
  /\ phase = "post_run"
  /\ lock' \in {lock, "finished"} /\ error' = "raised" /\ phase' = "cleanup"
  /\ UNCHANGED <<steps, at, attempt, outcome, mode, result, child, closers>>

\* Mutant of Cleanup: the closes are not run.
CleanupNothing ==
  /\ phase = "cleanup"
  /\ phase' = "release"
  /\ UNCHANGED <<steps, at, attempt, outcome, mode, result, error, child, closers, lock>>

\* Every registered close; one that raises does not skip the rest.
Cleanup ==
  /\ phase = "cleanup"
  /\ IF closers > 0 /\ child = "running" THEN child' \in {"none", "stuck"} ELSE child' = child
  /\ closers' = 0
  /\ phase' = "release"
  /\ UNCHANGED <<steps, at, attempt, outcome, mode, result, error, lock>>

ReleaseLock ==
  /\ phase = "release"
  /\ lock' \in {lock, IF lock = "active" THEN "none" ELSE lock}
  /\ phase' = "end"
  /\ UNCHANGED <<steps, at, attempt, outcome, mode, result, error, child, closers>>

Killed ==
  /\ phase \notin {"end", "killed"}
  /\ phase' = "killed"
  /\ UNCHANGED <<steps, at, attempt, outcome, mode, result, error, child, closers, lock>>

RunStep ==
  \/ PreRun \/ PreRunFails \/ SkipStep \/ StartStep \/ StartProcessFails
  \/ StepSucceeds \/ Retry \/ StepFails \/ AllStepsDone
  \/ PostRun \/ PostRunFails \/ Cleanup \/ ReleaseLock

Next == RunStep \/ RunnerRaises \/ ChildDies \/ Killed

Spec == Init /\ [][Next]_vars

\* The runner goes on; it is not bound to raise, nor the host to kill anything.

FairSpec == Spec /\ WF_vars(RunStep)

-----------------------------------------------------------------------------
Failed(i) == outcome[i] = "failure"

\* A critical step before i failed.
AfterFailure(i) == \E j \in 1..(i - 1) : Critical(j) /\ Failed(j)

(***************************************************************************)
(* Between two steps the child runs only if a step that will still run      *)
(* carries it, so the step after the last holder finds its memory free      *)
(* (the training slot is given back on that reliance).                     *)
(***************************************************************************)
NoIdleChild ==
  phase = "next" /\ child = "running" =>
    \E i \in at..Len(steps) : Holds(i) /\ RunsIn(i, mode)

(***************************************************************************)
(* A run that is over left no child that it could have closed, whichever    *)
(* step, start, close or save raised on the way.                          *)
(***************************************************************************)
NoChildLeft == phase = "end" => child # "running"

(***************************************************************************)
(* After a critical failure exactly the steps flagged to run after one are  *)
(* executed, all of them if the run gets through its steps.                *)
(***************************************************************************)
FlaggedStepsOnly ==
  \A i \in 1..Len(steps) :
    /\ outcome[i] # "none" /\ AfterFailure(i) => Always(i)
    /\ phase = "end" /\ error = "none" /\ (AfterFailure(i) => Always(i)) => outcome[i] # "none"

\* A run that reports success had no failed step and no error.
SuccessIsHonest ==
  phase = "end" /\ result = "success" => \A i \in 1..Len(steps) : outcome[i] = "success"

(***************************************************************************)
(* A run in which a critical step failed is a failure, as the tests say of  *)
(* a run that goes on to a flagged step (tests/utils/test_pipeline_utils).  *)
(***************************************************************************)
CriticalFailureIsFailure ==
  phase = "end" /\ (\E i \in 1..Len(steps) : Critical(i) /\ Failed(i))
    => result = "failure"

\* A run that is not killed gets to its end, through retries, failures and skips.
RunEnds == <>(phase \in {"end", "killed"})
=============================================================================
