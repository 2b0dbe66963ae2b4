------------------------- MODULE TrainingSlotProofs -------------------------
(***************************************************************************)
(* Proofs about the training slot for every set of runs and every choice    *)
(* of the time limits that satisfies the assumptions of TrainingSlot.       *)
(*                                                                         *)
(* Mutual exclusion is not inductive as it stands: a state in which a run   *)
(* fits, holds the slot, and has held it for longer than the stale window   *)
(* satisfies it and has a successor that does not.  SlotInv adds how old    *)
(* the slot of a using run can be, which is what the choice of the stale    *)
(* window rests on.                                                        *)
(***************************************************************************)
EXTENDS TrainingSlot, TLAPS

\* The delay of a sleep is one of the two durations it is the minimum of.
LEMMA MinOfTwo ==
  ASSUME NEW a \in Nat, NEW b \in Nat
  PROVE  Min({a, b}) \in {a, b} /\ Min({a, b}) <= a /\ Min({a, b}) <= b
<1>1. \E x \in {a, b} : \A y \in {a, b} : x <= y
  OBVIOUS
<1> QED BY <1>1 DEF Min

LEMMA TypeInit == Init => TypeOK
  BY RunsAssumption, TimeAssumption
  DEF Init, TypeOK, Labels, TfSteps, Waiting, MaxAge

LEMMA TypeStep == ASSUME TypeOK, [Next]_vars PROVE TypeOK'
<1> USE RunsAssumption, TimeAssumption
    DEF TypeOK, Labels, TfSteps, Waiting, MaxAge, Goto, slot, timer
<1> SUFFICES ASSUME Next PROVE TypeOK'
  BY DEF vars
<1>1. CASE Tick
  BY <1>1 DEF Tick, Older
<1>2. ASSUME NEW r \in Runs, WaitStep(r)
      PROVE  TypeOK'
  <2>1. CASE TooFewPending(r) \/ EnoughPending(r) \/ ReadClock(r) \/ Wake(r)
    BY <2>1 DEF TooFewPending, EnoughPending, ReadClock, Wake
  <2>2. CASE TryAcquire(r)
    BY <2>2 DEF TryAcquire, MayTake, Take
  <2>3. CASE EnoughMemory(r) \/ TooLittleMemory(r)
    BY <2>3 DEF EnoughMemory, TooLittleMemory, GiveBack
  <2>4. CASE GiveUp(r)
    BY <2>4 DEF GiveUp
  <2>5. CASE Sleep(r)
    <3>1. Min({PollTime, WaitLimit - waited[r]}) \in 0..PollTime
      BY <2>5, MinOfTwo DEF Sleep
    <3> QED BY <2>5, <3>1 DEF Sleep
  <2>6. CASE WaitFails(r)
    BY <2>6 DEF WaitFails, MayTake, Take
  <2> QED BY <1>2, <2>1, <2>2, <2>3, <2>4, <2>5, <2>6 DEF WaitStep
<1>3. ASSUME NEW r \in Runs, TfStep(r)
      PROVE  TypeOK'
  BY <1>3 DEF TfStep, AfterTf, EnsureChild, StartChildFails, StepSkips, NoDatums,
              Submit, Receive, TfStepFails, CloseChild, CloseChildFails
<1>4. ASSUME NEW r \in Runs, ReleaseStep(r)
      PROVE  TypeOK'
  BY <1>4 DEF ReleaseStep, ReleaseTrainingSlot, ReleaseFails, GiveBack
<1>5. ASSUME NEW r \in Runs, ChildKilled(r) \/ Crash(r) \/ OrphanExits(r) \/ NextRun(r)
      PROVE  TypeOK'
  BY <1>5 DEF ChildKilled, Crash, OrphanExits, NextRun
<1> QED BY <1>1, <1>2, <1>3, <1>4, <1>5 DEF Next, RunStep

(***************************************************************************)
(* Every variable keeps its type: no age, wait or sleep counter leaves the  *)
(* range in which the code compares it.                                    *)
(***************************************************************************)
THEOREM SlotTypeOK == Spec => []TypeOK
  BY TypeInit, TypeStep, PTL DEF Spec

-----------------------------------------------------------------------------
(***************************************************************************)
(* The strengthening.  A run that is using the slot holds it, and has not   *)
(* held it for longer than a fit takes; a call is only in flight inside a   *)
(* step that carries the child, or after its run is gone.                   *)
(***************************************************************************)
BusyInStep == \A r \in Runs : child[r] = "busy" => pc[r] \in TfSteps \cup {"gone"}
UseInTime  == \A r \in Runs : Using(r) => holder = r /\ slotAge <= FitLimit

SlotInv == TypeOK /\ BusyInStep /\ UseInTime

LEMMA SlotInvInit == Init => SlotInv
  BY TypeInit DEF Init, SlotInv, BusyInStep, UseInTime, Using, TfSteps

LEMMA SlotInvStep == ASSUME SlotInv, [Next]_vars PROVE SlotInv'
<1> USE RunsAssumption, TimeAssumption, FitAssumption
    DEF SlotInv, TypeOK, TfSteps, Waiting, Goto, slot, timer
<1>1. TypeOK'
  BY TypeStep DEF SlotInv
<1> SUFFICES ASSUME Next PROVE (BusyInStep /\ UseInTime)'
  BY <1>1 DEF vars, BusyInStep, UseInTime, Using
<1> USE DEF BusyInStep, UseInTime, Using
<1>2. CASE Tick
  BY <1>2, <1>1 DEF Tick, Older
<1>3. ASSUME NEW r \in Runs, WaitStep(r)
      PROVE  (BusyInStep /\ UseInTime)'
  <2>1. CASE TooFewPending(r) \/ EnoughPending(r) \/ ReadClock(r) \/ Wake(r)
    BY <2>1 DEF TooFewPending, EnoughPending, ReadClock, Wake
  <2>2. \A s \in Runs \ {r} : Using(s) => ~ MayTake(r)
    BY DEF MayTake
  <2>3. CASE TryAcquire(r)
    BY <2>2, <2>3 DEF TryAcquire, Take
  <2>4. CASE EnoughMemory(r) \/ TooLittleMemory(r) \/ GiveUp(r) \/ Sleep(r)
    BY <2>4 DEF EnoughMemory, TooLittleMemory, GiveBack, GiveUp, Sleep
  <2>5. CASE WaitFails(r)
    BY <2>2, <2>5 DEF WaitFails, Take
  <2> QED BY <1>3, <2>1, <2>3, <2>4, <2>5 DEF WaitStep
<1>4. ASSUME NEW r \in Runs, TfStep(r)
      PROVE  (BusyInStep /\ UseInTime)'
  BY <1>4 DEF TfStep, AfterTf, EnsureChild, StartChildFails, StepSkips, NoDatums,
              Submit, Receive, TfStepFails, CloseChild, CloseChildFails
<1>5. ASSUME NEW r \in Runs, ReleaseStep(r)
      PROVE  (BusyInStep /\ UseInTime)'
  BY <1>5 DEF ReleaseStep, ReleaseTrainingSlot, ReleaseFails, GiveBack
<1>6. ASSUME NEW r \in Runs, ChildKilled(r) \/ Crash(r) \/ OrphanExits(r) \/ NextRun(r)
      PROVE  (BusyInStep /\ UseInTime)'
  BY <1>6 DEF ChildKilled, Crash, OrphanExits, NextRun
<1> QED BY <1>1, <1>2, <1>3, <1>4, <1>5, <1>6 DEF Next, RunStep

LEMMA SlotInvariant == Spec => []SlotInv
  BY SlotInvInit, SlotInvStep, PTL DEF Spec

(***************************************************************************)
(* A run that is using the slot holds it, whatever crashes, lost replies    *)
(* and stale take-overs came before: no step takes it from under a fit.     *)
(***************************************************************************)
THEOREM UsersHoldTheSlot == Spec => []UserHoldsSlot
<1>1. SlotInv => UserHoldsSlot
  BY DEF SlotInv, UseInTime, UserHoldsSlot
<1> QED BY <1>1, SlotInvariant, PTL

-----------------------------------------------------------------------------
(* The slot implements ExclusiveFit. *)

LEMMA UserIsTheFit ==
  ASSUME UserHoldsSlot, NEW r \in Runs, child[r] = "busy"
  PROVE  User = r
  BY DEF UserHoldsSlot, Using, User

LEMMA NoFitNoUser ==
  ASSUME \A r \in Runs : child[r] # "busy"
  PROVE  User = Nobody
  BY DEF User

LEMMA FitStep ==
  ASSUME SlotInv, SlotInv', [Next]_vars
  PROVE  [Exclusive!Next]_User
<1> USE DEF SlotInv, TypeOK, UseInTime, Using
<1>1. UserHoldsSlot /\ UserHoldsSlot'
  BY DEF UserHoldsSlot
<1>2. CASE child' = child
  BY <1>2 DEF User
<1>3. ASSUME child' # child
      PROVE \E r \in Runs, c \in {"none", "idle", "ready", "busy"} :
               /\ child' = [child EXCEPT ![r] = c]
               /\ c = "busy" /\ child[r] # "busy" => Using(r)
  BY <1>3 DEF Next, Tick, RunStep, WaitStep, TooFewPending, EnoughPending, ReadClock,
     TryAcquire, EnoughMemory, TooLittleMemory, GiveUp, Sleep, Wake, WaitFails, TfStep,
     EnsureChild, StartChildFails, StepSkips, NoDatums, Submit, Receive, TfStepFails,
     CloseChild, CloseChildFails, ReleaseStep, ReleaseTrainingSlot, ReleaseFails,
     ChildKilled, Crash, OrphanExits, NextRun, vars
<1>4. CASE child' # child
  <2>1. PICK r \in Runs, c \in {"none", "idle", "ready", "busy"} :
               /\ child' = [child EXCEPT ![r] = c]
               /\ c = "busy" /\ child[r] # "busy" => Using(r)
    BY <1>3, <1>4
  <2>2. CASE child[r] # "busy" /\ c = "busy"
    <3>1. \A s \in Runs : child[s] # "busy"
      BY <2>1, <2>2
    <3>2. User = Nobody
      BY <3>1, NoFitNoUser
    <3>3. child'[r] = "busy" /\ \A s \in Runs : child'[s] = "busy" => s = r
      BY <2>1, <2>2, <3>1
    <3>4. User' = r
      BY <3>3 DEF User
    <3> QED BY <3>2, <3>4 DEF Exclusive!Next, Exclusive!Start
  <2>3. CASE child[r] = "busy" /\ c # "busy"
    <3>1. User = r
      BY <1>1, <2>3, UserIsTheFit
    <3>2. \A s \in Runs : child'[s] # "busy"
      BY <2>1, <2>3
    <3>3. User' = Nobody
      BY <3>2 DEF User
    <3> QED BY <3>1, <3>3 DEF Exclusive!Next, Exclusive!Finish
  <2>4. CASE (child[r] = "busy") <=> (c = "busy")
    <3>1. \A s \in Runs : (child'[s] = "busy") <=> (child[s] = "busy")
      BY <2>1, <2>4
    <3>2. User' = User
      BY <3>1 DEF User
    <3> QED BY <3>2
  <2> QED BY <2>2, <2>3, <2>4
<1> QED BY <1>2, <1>4

(***************************************************************************)
(* Every TensorFlow call of the host starts while no other one is running:  *)
(* the slot, its waiting runs and its crashes implement ExclusiveFit.       *)
(***************************************************************************)
THEOREM SlotImplementsExclusiveFit == Spec => ImplementsExclusiveFit
<1>1. Init => Exclusive!Init
  BY NoFitNoUser DEF Init, Exclusive!Init
<1> QED BY <1>1, FitStep, SlotInvariant, PTL DEF Spec, ImplementsExclusiveFit, Exclusive!Spec
-----------------------------------------------------------------------------
(* The slot becomes free by its holder alone. *)

LEMMA FreeingStep ==
  ASSUME TypeOK, Next, NEW r \in Runs, holder = r, holder' = Nobody
  PROVE  pc'[r] # pc[r]
<1> USE RunsAssumption DEF TypeOK, Goto, slot
<1>1. CASE Tick
  BY <1>1 DEF Tick
<1>2. ASSUME NEW s \in Runs, WaitStep(s)
      PROVE  pc'[r] # pc[r]
  <2>1. TooLittleMemory(s)
    BY <1>2 DEF WaitStep, TooFewPending, EnoughPending, ReadClock, TryAcquire, Take,
       EnoughMemory, GiveUp, Sleep, Wake, WaitFails
  <2> QED BY <2>1 DEF TooLittleMemory, GiveBack
<1>3. ASSUME NEW s \in Runs, TfStep(s)
      PROVE  pc'[r] # pc[r]
  BY <1>3 DEF TfStep, EnsureChild, StartChildFails, StepSkips, NoDatums, Submit, Receive,
     TfStepFails, CloseChild, CloseChildFails
<1>4. ASSUME NEW s \in Runs, ReleaseStep(s)
      PROVE  pc'[r] # pc[r]
  BY <1>4 DEF ReleaseStep, ReleaseTrainingSlot, ReleaseFails, GiveBack
<1>5. ASSUME NEW s \in Runs, ChildKilled(s) \/ Crash(s) \/ OrphanExits(s) \/ NextRun(s)
      PROVE  pc'[r] # pc[r]
  BY <1>5 DEF ChildKilled, Crash, OrphanExits, NextRun
<1> QED BY <1>1, <1>2, <1>3, <1>4, <1>5 DEF Next, RunStep

(***************************************************************************)
(* The slot becomes free only by a step of the run that holds it: a late    *)
(* release after a take-over frees nobody else's slot, for any number of    *)
(* runs and whatever the time limits are.                                  *)
(***************************************************************************)
THEOREM SlotFreedByHolder == Spec => OnlyHolderFrees
<1>1. TypeOK /\ [Next]_vars =>
        [\A r \in Runs : holder = r /\ holder' = Nobody => pc'[r] # pc[r]]_vars
  BY FreeingStep
<1> QED BY <1>1, SlotTypeOK, PTL DEF Spec, OnlyHolderFrees
=============================================================================
