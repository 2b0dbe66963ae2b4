--------------------------- MODULE MCJobsCooldown ---------------------------
(* UserJobs with a history: when the runs of the entrypoint started.        *)
EXTENDS UserJobs

VARIABLES
  run,      \* user -> job -> age of the run in the job's pod
  lastRun   \* user -> age of the run that left latest_pipeline_run

MCUsers == {"u1"}
MCCron == [u \in MCUsers |-> Day - 1]

HInit == Init /\ run = [u \in Users |-> [j \in Jobs |-> 0]] /\ lastRun = latest

Aged(a) == IF slot' # slot THEN Older(a) ELSE a

Stamped(u, j) ==
  At(u, j, "trained") /\ job[u][j].best # Never /\ job'[u][j] = NoJob

HNext ==
  /\ Next
  /\ run' = [u \in Users |-> [j \in Jobs |->
       IF job[u][j].st = "active" /\ job'[u][j].st = "active" THEN Aged(run[u][j]) ELSE 0]]
  /\ lastRun' = [u \in Users |->
       IF \E j \in Jobs : Stamped(u, j)
         THEN run[u][CHOOSE j \in Jobs : Stamped(u, j)] ELSE Aged(lastRun[u])]

HSpec == HInit /\ [][HNext]_<<vars, run, lastRun>>

\* user.py:256: the cooldown is measured from when the latest run started, so a
\* long run does not push the next daily slot past the window: a user is not
\* skipped in the slot a day after the one in which the latest run started.
LongRunKeepsSlot ==
  [][\A u \in Users : SkipForCooldown(u) => lastRun[u] < Day - 1]_vars
=============================================================================
