---------------------------- MODULE TrainingSlot ----------------------------
(***************************************************************************)
(* The global training slot: one Postgres row (training_slot.py) that       *)
(* every training pipeline asks for before its TensorFlow child may fit,    *)
(* the steps that wait for it and give it back (scheme_steps.py), and the   *)
(* child whose lifetime it is meant to wrap (pipeline_base.py,              *)
(* step_process.py).                                                        *)
(*                                                                         *)
(* A run is one pipeline run id.  Time is counted in ticks; the ages are    *)
(* kept relative to now, so that the state space is finite without a last   *)
(* instant.  Age counters stop at the first value the code cannot tell      *)
(* from a later one.                                                        *)
(***************************************************************************)
EXTENDS Integers, FiniteSetsExt

CONSTANTS Runs,        \* pipeline run ids
          Nobody,      \* holder_run_id IS NULL
          StaleAfter,  \* TRAINING_SLOT_STALE_AFTER
          WaitLimit,   \* TRAINING_SLOT_WAIT_LIMIT
          PollTime,    \* TRAINING_SLOT_POLL_SECONDS
          FitLimit,    \* the longest a run uses TensorFlow after it took the slot
          MaxLag       \* the longest a statement takes after its clock was read

(***************************************************************************)
(* FitLimit is not enforced by the code: it is the comment "a fit is well   *)
(* under an hour" that the stale window of three hours rests on.           *)
(***************************************************************************)
ASSUME RunsAssumption == Nobody \notin Runs
ASSUME TimeAssumption ==
  /\ StaleAfter \in Nat /\ WaitLimit \in Nat /\ PollTime \in Nat \ {0}
  /\ FitLimit \in Nat /\ MaxLag \in Nat
  /\ MaxLag <= FitLimit
ASSUME FitAssumption == FitLimit <= StaleAfter

VARIABLES
  holder,    \* holder_run_id of the slot row
  slotAge,   \* now - acquired_at
  pc,        \* where each run is
  waited,    \* time since the run entered the wait loop
  nap,       \* what is left of the run's sleep
  lag,       \* time since the run read the clock for its UPDATE
  skip,      \* the run's SKIP_KEY, and who set it
  child      \* the run's TensorFlow child process

vars == <<holder, slotAge, pc, waited, nap, lag, skip, child>>

TfSteps == {"TrainModel", "ScoreEvaluation", "ScoreParentBaseline"}
Waiting == {"ask", "update", "poll", "sleep"}
Labels  == TfSteps \cup Waiting \cup
           {"count", "memory", "close", "ReleaseTrainingSlot", "done", "gone"}

MaxAge == StaleAfter + MaxLag + 1
Older(age, limit) == IF age < limit THEN age + 1 ELSE age

TypeOK ==
  /\ holder \in Runs \cup {Nobody}
  /\ slotAge \in 0..MaxAge
  /\ pc \in [Runs -> Labels]
  /\ waited \in [Runs -> 0..WaitLimit]
  /\ nap \in [Runs -> 0..PollTime]
  /\ lag \in [Runs -> 0..MaxLag]
  /\ skip \in [Runs -> {"no", "checked", "empty"}]
  /\ child \in [Runs -> {"none", "idle", "ready", "busy"}]

Init ==
  /\ holder = Nobody /\ slotAge = 0
  /\ pc = [r \in Runs |-> "count"]
  /\ waited = [r \in Runs |-> 0]
  /\ nap = [r \in Runs |-> 0]
  /\ lag = [r \in Runs |-> 0]
  /\ skip = [r \in Runs |-> "no"]
  /\ child = [r \in Runs |-> "none"]

Goto(r, label) == pc' = [pc EXCEPT ![r] = label]
slot  == <<holder, slotAge>>
timer == <<waited, nap, lag>>

-----------------------------------------------------------------------------
(* The slot row: DbTrainingSlot. *)

\* Mutants of MayTake: the stale clause without its window, and no stale clause.
MayTakeAnyAge(r) == holder \in {Nobody, r} \/ slotAge > lag[r]
MayTakeNeverStale(r) == holder \in {Nobody, r}

(***************************************************************************)
(* try_acquire's WHERE, as the row looks to a run whose clock reading is    *)
(* lag[r] old.                                                             *)
(***************************************************************************)
MayTake(r) == holder \in {Nobody, r} \/ slotAge - lag[r] > StaleAfter

Take(r) == holder' = r /\ slotAge' = lag[r]

\* Mutant of GiveBack: the UPDATE without the holder in its WHERE.
GiveBackAlways(r) == holder' = Nobody /\ slotAge' = 0

GiveBack(r) ==
  IF holder = r THEN holder' = Nobody /\ slotAge' = 0 ELSE UNCHANGED slot

-----------------------------------------------------------------------------
(* WaitForTrainingSlotStep *)

\* Too few pending moves: the check is recorded and the round is skipped.
TooFewPending(r) ==
  /\ pc[r] = "count"
  /\ skip' = [skip EXCEPT ![r] = "checked"]
  /\ Goto(r, "TrainModel")
  /\ UNCHANGED <<slot, timer, child>>

EnoughPending(r) ==
  /\ pc[r] = "count"
  /\ Goto(r, "ask")
  /\ UNCHANGED <<slot, timer, skip, child>>

ReadClock(r) ==
  /\ pc[r] = "ask"
  /\ Goto(r, "update")
  /\ UNCHANGED <<slot, timer, skip, child>>

\* The UPDATE of try_acquire and the row count it returns.
TryAcquire(r) ==
  /\ pc[r] = "update"
  /\ IF MayTake(r) THEN Take(r) /\ Goto(r, "memory")
                   ELSE UNCHANGED slot /\ Goto(r, "poll")
  /\ lag' = [lag EXCEPT ![r] = 0]
  /\ UNCHANGED <<waited, nap, skip, child>>

EnoughMemory(r) ==
  /\ pc[r] = "memory"
  /\ waited' = [waited EXCEPT ![r] = 0]
  /\ Goto(r, "TrainModel")
  /\ UNCHANGED <<slot, nap, lag, skip, child>>

TooLittleMemory(r) ==
  /\ pc[r] = "memory"
  /\ GiveBack(r)
  /\ Goto(r, "poll")
  /\ UNCHANGED <<timer, skip, child>>

\* Mutant of GiveUp: the limit compared with > instead of >=.
GiveUpLate(r) ==
  /\ pc[r] = "poll" /\ waited[r] > WaitLimit
  /\ skip' = [skip EXCEPT ![r] = "checked"]
  /\ waited' = [waited EXCEPT ![r] = 0]
  /\ Goto(r, "TrainModel")
  /\ UNCHANGED <<slot, nap, lag, child>>

GiveUp(r) ==
  /\ pc[r] = "poll" /\ waited[r] >= WaitLimit
  /\ skip' = [skip EXCEPT ![r] = "checked"]
  /\ waited' = [waited EXCEPT ![r] = 0]
  /\ Goto(r, "TrainModel")
  /\ UNCHANGED <<slot, nap, lag, child>>

Sleep(r) ==
  /\ pc[r] = "poll" /\ waited[r] < WaitLimit
  /\ nap' = [nap EXCEPT ![r] = Min({PollTime, WaitLimit - waited[r]})]
  /\ Goto(r, "sleep")
  /\ UNCHANGED <<slot, waited, lag, skip, child>>

Wake(r) ==
  /\ pc[r] = "sleep" /\ nap[r] = 0
  /\ Goto(r, "ask")
  /\ UNCHANGED <<slot, timer, skip, child>>

(***************************************************************************)
(* A statement of the wait step fails.  The step has no retries and is      *)
(* critical, so the runner goes on to the next step that runs after a       *)
(* failure.  An UPDATE whose reply is lost may have taken the slot.         *)
(***************************************************************************)
WaitFails(r) ==
  /\ pc[r] \in {"count", "ask", "update", "memory"}
  /\ \/ UNCHANGED slot
     \/ pc[r] = "update" /\ MayTake(r) /\ Take(r)
  /\ waited' = [waited EXCEPT ![r] = 0]
  /\ lag' = [lag EXCEPT ![r] = 0]
  /\ Goto(r, "ReleaseTrainingSlot")
  /\ UNCHANGED <<nap, skip, child>>

-----------------------------------------------------------------------------
(* The steps that carry the TensorFlow child. *)

AfterTf(step) ==
  CASE step = "TrainModel" -> {"ScoreEvaluation"}
    [] step = "ScoreEvaluation" -> {"ScoreParentBaseline", "close"}
    [] OTHER -> {"close"}

(***************************************************************************)
(* _ensure_step_process: the runner starts the child, or finds it running,  *)
(* whatever SKIP_KEY says.  A child is idle between steps, ready inside a   *)
(* step that has not called it, and busy during the call.                   *)
(***************************************************************************)
EnsureChild(r) ==
  /\ pc[r] \in TfSteps /\ child[r] \in {"none", "idle"}
  /\ child' = [child EXCEPT ![r] = "ready"]
  /\ UNCHANGED <<slot, pc, timer, skip>>

\* Popen raises outside a step: the run ends without its flagged steps.
StartChildFails(r) ==
  /\ pc[r] \in TfSteps /\ child[r] = "none"
  /\ Goto(r, "gone")
  /\ UNCHANGED <<slot, timer, skip, child>>

StepSkips(r) ==
  /\ pc[r] \in TfSteps /\ child[r] = "ready" /\ skip[r] # "no"
  /\ child' = [child EXCEPT ![r] = "idle"]
  /\ \E next \in AfterTf(pc[r]) : Goto(r, next)
  /\ UNCHANGED <<slot, timer, skip>>

\* TrainModel finds no datums and skips the round while it holds the slot.
NoDatums(r) ==
  /\ pc[r] = "TrainModel" /\ child[r] = "ready" /\ skip[r] = "no"
  /\ skip' = [skip EXCEPT ![r] = "empty"]
  /\ child' = [child EXCEPT ![r] = "idle"]
  /\ Goto(r, "ScoreEvaluation")
  /\ UNCHANGED <<slot, timer>>

Submit(r) ==
  /\ pc[r] \in TfSteps /\ child[r] = "ready" /\ skip[r] = "no"
  /\ child' = [child EXCEPT ![r] = "busy"]
  /\ UNCHANGED <<slot, pc, timer, skip>>

Receive(r) ==
  /\ pc[r] \in TfSteps /\ child[r] = "busy"
  /\ child' = [child EXCEPT ![r] = "idle"]
  /\ \E next \in AfterTf(pc[r]) : Goto(r, next)
  /\ UNCHANGED <<slot, timer, skip>>

\* The step raises: before its call, with an error reply, or with a dead child.
TfStepFails(r) ==
  /\ pc[r] \in TfSteps /\ child[r] \in {"ready", "busy"} /\ skip[r] = "no"
  /\ \E c \in {"idle", "none"} : child' = [child EXCEPT ![r] = c]
  /\ Goto(r, "close")
  /\ UNCHANGED <<slot, timer, skip>>

\* The host kills a child between steps; the next step that carries it starts another.
ChildKilled(r) ==
  /\ child[r] = "idle"
  /\ child' = [child EXCEPT ![r] = "none"]
  /\ UNCHANGED <<slot, pc, timer, skip>>

\* _release_finished_processes after the last step that needs the child.
CloseChild(r) ==
  /\ pc[r] = "close"
  /\ child' = [child EXCEPT ![r] = "none"]
  /\ Goto(r, "ReleaseTrainingSlot")
  /\ UNCHANGED <<slot, timer, skip>>

\* Neither shutdown nor kill is answered in time: the run ends here.
CloseChildFails(r) ==
  /\ pc[r] = "close" /\ child[r] = "idle"
  /\ Goto(r, "gone")
  /\ UNCHANGED <<slot, timer, skip, child>>

-----------------------------------------------------------------------------
(* ReleaseTrainingSlotStep, and the ends of a run. *)

ReleaseTrainingSlot(r) ==
  /\ pc[r] = "ReleaseTrainingSlot"
  /\ GiveBack(r)
  /\ Goto(r, "done")
  /\ UNCHANGED <<timer, skip, child>>

\* No retries, not critical: the run goes on without having given the slot back.
ReleaseFails(r) ==
  /\ pc[r] = "ReleaseTrainingSlot"
  /\ Goto(r, "done")
  /\ UNCHANGED <<slot, timer, skip, child>>

\* The run is killed; a child in the middle of a call may outlive it.
Crash(r) ==
  /\ pc[r] \notin {"done", "gone"}
  /\ Goto(r, "gone")
  /\ child' \in {child, [child EXCEPT ![r] = "none"]}
  /\ waited' = [waited EXCEPT ![r] = 0]
  /\ nap' = [nap EXCEPT ![r] = 0]
  /\ lag' = [lag EXCEPT ![r] = 0]
  /\ UNCHANGED <<slot, skip>>

\* An orphan reads EOF, or cannot write its reply, and exits.
OrphanExits(r) ==
  /\ pc[r] = "gone" /\ child[r] # "none"
  /\ child' = [child EXCEPT ![r] = "none"]
  /\ UNCHANGED <<slot, pc, timer, skip>>

\* The next run of a cron, under an id that is not in the slot row.
NextRun(r) ==
  /\ pc[r] \in {"done", "gone"} /\ child[r] = "none" /\ holder # r
  /\ skip' = [skip EXCEPT ![r] = "no"]
  /\ Goto(r, "count")
  /\ UNCHANGED <<slot, timer, child>>

-----------------------------------------------------------------------------
\* r took the slot and may still have a TensorFlow call running on it.
Using(r) ==
  \/ pc[r] = "memory"
  \/ pc[r] \in TfSteps /\ skip[r] = "no"
  \/ child[r] = "busy"

(***************************************************************************)
(* Time passes, but not past MaxLag for a statement in flight nor past      *)
(* FitLimit for the run that is using the slot.                             *)
(***************************************************************************)
Tick ==
  /\ \A r \in Runs : pc[r] = "update" => lag[r] < MaxLag
  /\ \A r \in Runs : holder = r /\ Using(r) => slotAge < FitLimit
  /\ slotAge' = IF holder = Nobody THEN 0 ELSE Older(slotAge, MaxAge)
  /\ waited' = [r \in Runs |-> IF pc[r] \in Waiting
                               THEN Older(waited[r], WaitLimit) ELSE waited[r]]
  /\ nap' = [r \in Runs |-> IF nap[r] > 0 THEN nap[r] - 1 ELSE 0]
  /\ lag' = [r \in Runs |-> IF pc[r] = "update" THEN lag[r] + 1 ELSE lag[r]]
  /\ UNCHANGED <<holder, pc, skip, child>>

WaitStep(r) ==
  \/ TooFewPending(r) \/ EnoughPending(r) \/ ReadClock(r) \/ TryAcquire(r)
  \/ EnoughMemory(r) \/ TooLittleMemory(r) \/ GiveUp(r) \/ Sleep(r) \/ Wake(r)
  \/ WaitFails(r)

TfStep(r) ==
  \/ EnsureChild(r) \/ StartChildFails(r) \/ StepSkips(r) \/ NoDatums(r)
  \/ Submit(r) \/ Receive(r) \/ TfStepFails(r) \/ CloseChild(r) \/ CloseChildFails(r)

ReleaseStep(r) == ReleaseTrainingSlot(r) \/ ReleaseFails(r)

RunStep(r) == WaitStep(r) \/ TfStep(r) \/ ReleaseStep(r)

Next ==
  \/ Tick
  \/ \E r \in Runs :
       RunStep(r) \/ ChildKilled(r) \/ Crash(r) \/ OrphanExits(r) \/ NextRun(r)

Spec == Init /\ [][Next]_vars

(***************************************************************************)
(* A run that is not killed takes its next step, clocks advance, an orphan  *)
(* exits, and the dispatcher keeps starting runs.                           *)
(***************************************************************************)
Fairness ==
  /\ WF_vars(Tick)
  /\ \A r \in Runs :
       WF_vars(RunStep(r)) /\ WF_vars(OrphanExits(r)) /\ WF_vars(NextRun(r))

FairSpec == Spec /\ Fairness

-----------------------------------------------------------------------------
(***************************************************************************)
(* A run that is using the slot, before, between and in its TensorFlow      *)
(* calls, is the holder, whatever crashes and lost replies came before: no  *)
(* late release of an old holder, no take-over and no memory check that     *)
(* gives the slot back takes it from under a fit, and two runs never fit at *)
(* once on a host that has memory for one.                                  *)
(***************************************************************************)
UserHoldsSlot == \A r \in Runs : Using(r) => holder = r

(***************************************************************************)
(* After a stale take-over the old holder's release must not free the new   *)
(* holder's slot: the slot becomes free only by a step of the run that      *)
(* holds it.                                                               *)
(***************************************************************************)
OnlyHolderFrees ==
  [][\A r \in Runs : holder = r /\ holder' = Nobody => pc'[r] # pc[r]]_vars

\* A run leaves the wait loop: with the slot, by giving up, or by failing.
WaitEnds == \A r \in Runs : pc[r] \in Waiting ~> pc[r] \notin Waiting

(***************************************************************************)
(* A slot that a killed run, a failed start of the child or a failed        *)
(* release left behind does not refuse for ever the runs that keep asking.  *)
(***************************************************************************)
LeakedSlotRecovers ==
  ([]<><<\E s \in Runs : TryAcquire(s)>>_vars)
    => \A r \in Runs : holder = r /\ pc[r] \in {"done", "gone"} ~> holder # r

(***************************************************************************)
(* "The training slot wraps that window" (scheme_steps.py:609), the window  *)
(* from the start of the child to its exit.                                 *)
(***************************************************************************)
SlotWrapsChild == \A r \in Runs : pc[r] \in TfSteps /\ child[r] # "none" => holder = r

\* The slot as a refinement: the run inside a TensorFlow call.
User ==
  IF \E r \in Runs : child[r] = "busy"
  THEN CHOOSE r \in Runs : child[r] = "busy" ELSE Nobody

Exclusive == INSTANCE ExclusiveFit WITH user <- User

\* Every TensorFlow call of the host starts while no other one is running.
ImplementsExclusiveFit == Exclusive!Spec
=============================================================================
