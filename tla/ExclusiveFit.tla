---------------------------- MODULE ExclusiveFit ----------------------------
(***************************************************************************)
(* What the global training slot promises, with no slot in it: the host    *)
(* runs at most one TensorFlow call at a time.  A run starts a call only    *)
(* while nobody else is in one, and every call ends.  TrainingSlot          *)
(* implements this specification.                                          *)
(***************************************************************************)
CONSTANTS Runs,     \* pipeline runs that may fit a model
          Nobody    \* the value of user while no call is running

VARIABLE user       \* the run whose TensorFlow call is running, or Nobody

Init == user = Nobody

Start(r) == user = Nobody /\ user' = r

Finish(r) == user = r /\ user' = Nobody

Next == \E r \in Runs : Start(r) \/ Finish(r)

Spec == Init /\ [][Next]_user
=============================================================================
