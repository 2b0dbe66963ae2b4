----------------------------- MODULE MCUserJobs -----------------------------
(* Instances of UserJobs for TLC: one user, whose slot is the day's last.   *)
EXTENDS UserJobs
MCUsers == {"u1"}
MCCron == [u \in MCUsers |-> Day - 1]
=============================================================================
