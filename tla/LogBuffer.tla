------------------------------ MODULE LogBuffer ------------------------------
(***************************************************************************)
(* Application logs, from the process that writes a record to the table    *)
(* the nightly job loads it into (utils/logging, maintenance).             *)
(*                                                                         *)
(* The processes of one host share a buffer directory.  The first of them  *)
(* claims active/.writer.lock, writes active/app.log and ships closed      *)
(* segments; a process that finds a live holder writes worker-<pid>.log    *)
(* instead.  A segment that is rotated is renamed into closed/ under a     *)
(* name with the second in it, uploaded to object storage under a key      *)
(* derived from that name, and deleted.  Every night the objects are       *)
(* loaded into logs.raw_logs and moved to processed/.                      *)
(*                                                                         *)
(* A process is its pid: one that starts again has the same pid, as pid 1  *)
(* of a container has.  A segment, a file or an object is the set of its   *)
(* records, and an absent one is {}: no empty segment is ever rotated.     *)
(***************************************************************************)
EXTENDS Naturals, FiniteSets

CONSTANTS
  Procs,        \* the pids of the processes that share the directory
  MaxRecords,   \* records a pid writes (bound)
  MaxNow,       \* seconds the clock runs (bound)
  MaxStarts,    \* process starts (bound)
  ClaimsApart   \* TRUE: no process starts while another claims the lock

ASSUME LogAssumption ==
  /\ "app" \notin Procs /\ "none" \notin Procs
  /\ {MaxRecords, MaxNow, MaxStarts} \subseteq Nat
  /\ ClaimsApart \in BOOLEAN

Paths   == Procs \cup {"app"}              \* app.log and the worker-<pid>.log
Names   == Paths \X (0..MaxNow)            \* closed segments, and their keys
Records == Procs \X (1..MaxRecords)

VARIABLES
  now,         \* the wall clock, in seconds
  starts,      \* processes started so far
  lock,        \* .writer.lock: absent ("none") or the pid that created it
  blank,       \* whether the lock file holds no pid yet
  ownLock,     \* the pids whose .writer.<pid>.lock exists
  pc,          \* where each process is
  shut,        \* shutdown_logging of each: "no", in the "drain", or "done"
  written,     \* records handed to a stream
  active,      \* active file -> its records
  ready,       \* closed segment in the buffer -> its records
  sent,        \* uploads stored and not yet unlinked: <<process, name>>
  closed,      \* object under closed/ -> its records
  processed,   \* object under processed/ -> its records
  quarantine,  \* object under quarantine/ -> its records
  rows,        \* logs.raw_logs: <<record, source_file>>
  moving,      \* keys the nightly step has loaded and has still to move
  used,        \* names a rotation has used (history)
  twice        \* records of segments that shared a name (history)

claimVars  == <<starts, lock, blank, ownLock>>
bufferVars == <<now, claimVars, pc, shut, written, active, used, twice>>
nightVars  == <<processed, quarantine, rows, moving>>
vars == <<bufferVars, ready, sent, closed, nightVars>>

TypeOK ==
  /\ now \in 0..MaxNow /\ starts \in 0..MaxStarts
  /\ lock \in Procs \cup {"none"}
  /\ blank \in BOOLEAN /\ ownLock \subseteq Procs
  /\ pc \in [Procs -> {"off", "write", "unlink", "create", "refused",
                      "primary", "auxiliary", "mute"}]
  /\ shut \in [Procs -> {"no", "drain", "done"}]
  /\ written \subseteq Records
  /\ active \in [Paths -> SUBSET Records]
  /\ {ready, closed, processed, quarantine} \subseteq [Names -> SUBSET Records]
  /\ sent \subseteq Procs \X Names
  /\ rows \subseteq Records \X Names
  /\ moving \subseteq Names
  /\ used \subseteq Names
  /\ twice \subseteq Records

None(S) == [s \in S |-> {}]
Filled(f) == {n \in DOMAIN f : f[n] # {}}
All(f) == UNION {f[n] : n \in DOMAIN f}
Loaded == {row[1] : row \in rows}

Init ==
  /\ now = 0 /\ starts = 0 /\ lock = "none" /\ blank = FALSE /\ ownLock = {} /\ shut = [p \in Procs |-> "no"]
  /\ pc = [p \in Procs |-> "off"]
  /\ written = {} /\ active = None(Paths)
  /\ ready = None(Names) /\ closed = None(Names)
  /\ processed = None(Names) /\ quarantine = None(Names)
  /\ sent = {} /\ rows = {} /\ moving = {} /\ used = {} /\ twice = {}

-----------------------------------------------------------------------------
(* The writer lock.  A file is created empty and its pid is written next,  *)
(* and a holder that is not found alive has its file unlinked.  Two claims *)
(* that overlap can end with two holders; ClaimsApart excludes that.       *)

Alive(p) == pc[p] # "off"
Claiming(p) == pc[p] \in {"write", "unlink", "create"}
Goto(p, l) == pc' = [pc EXCEPT ![p] = l]
BufferOnly == UNCHANGED <<ready, sent, closed, nightVars>>

\* holder_pid: NULL ("none") for an absent and for an empty file.
HolderPid == IF blank THEN "none" ELSE lock
HolderLives == HolderPid # "none" /\ Alive(HolderPid)

\* acquire, when the file exists: it is refused for a file with the pid of
\* this process, and for one with a pid that lives.
\* Mutant of Refused: a live holder's lock is taken as well.
RefusedByOwnPid(p) == HolderPid = p
Refused(p) == HolderPid = p \/ HolderLives

Create(p) == lock' = p /\ blank' = TRUE /\ Goto(p, "write")

Start(p) ==
  /\ pc[p] = "off" /\ starts < MaxStarts
  /\ ClaimsApart => \A q \in Procs : ~Claiming(q)
  /\ starts' = starts + 1
  /\ IF lock = "none" THEN Create(p)
     ELSE UNCHANGED <<lock, blank>> /\ Goto(p, IF Refused(p) THEN "refused" ELSE "unlink")
  /\ UNCHANGED <<now, ownLock, shut, written, active, used, twice>>
  /\ BufferOnly

UnlinkLock(p) ==
  /\ pc[p] = "unlink"
  /\ lock' = "none" /\ blank' = FALSE
  /\ Goto(p, "create")
  /\ UNCHANGED <<now, starts, ownLock, shut, written, active, used, twice>>
  /\ BufferOnly

CreateAgain(p) ==
  /\ pc[p] = "create"
  /\ IF lock = "none" THEN Create(p) ELSE UNCHANGED <<lock, blank>> /\ Goto(p, "refused")
  /\ UNCHANGED <<now, starts, ownLock, shut, written, active, used, twice>>
  /\ BufferOnly

\* The pid goes into the file that was created, which another process may
\* have unlinked since.
WritePid(p) ==
  /\ pc[p] = "write"
  /\ blank' = (blank /\ lock # p)
  /\ Goto(p, "primary")
  /\ UNCHANGED <<now, starts, lock, ownLock, shut, written, active, used, twice>>
  /\ BufferOnly

\* writer_mode "auto" after a refusal: the holder is read a second time.  A
\* live foreign one makes this process an auxiliary writer; its own
\* .writer.<pid>.lock left by an earlier process of this pid is refused, which
\* ends the process.  Any other holder, and none, leaves it mute.
Choose(p) ==
  /\ pc[p] = "refused"
  /\ IF HolderPid # p /\ HolderLives
       THEN IF p \in ownLock
              THEN Goto(p, "off") /\ UNCHANGED ownLock
              ELSE Goto(p, "auxiliary") /\ ownLock' = ownLock \cup {p}
       ELSE Goto(p, "mute") /\ UNCHANGED ownLock
  /\ UNCHANGED <<now, starts, lock, blank, shut, written, active, used, twice>>
  /\ BufferOnly

-----------------------------------------------------------------------------
(* Records and segments.                                                   *)

Owns(p) == pc[p] \in {"primary", "auxiliary"}
ActivePath(p) == IF pc[p] = "primary" THEN "app" ELSE p

\* _rotate_locked on file f that holds recs: an empty file is only reopened;
\* replace() drops a segment that already has this name.
Rotate(f, recs) ==
  IF recs = {}
    THEN UNCHANGED <<active, ready, used, twice>>
    ELSE LET name == <<f, now>> IN
         /\ active' = [active EXCEPT ![f] = {}]
         /\ ready' = [ready EXCEPT ![name] = recs]
         /\ used' = used \cup {name}
         /\ twice' = IF name \in used THEN twice \cup recs \cup ready[name] ELSE twice

\* emit: write, flush, and rotate when the segment is old or large enough.
\* (A rename that is refused only leaves the file open: it is the first case.)
Emit(p) ==
  /\ Owns(p)
  /\ \E k \in 1..MaxRecords :
       LET f == ActivePath(p)
           recs == active[f] \cup {<<p, k>>}
       IN  /\ <<p, k>> \notin written
           /\ k = 1 \/ <<p, k - 1>> \in written
           /\ written' = written \cup {<<p, k>>}
           /\ \/ active' = [active EXCEPT ![f] = recs] /\ UNCHANGED <<ready, used, twice>>
              \/ Rotate(f, recs)
  /\ UNCHANGED <<now, claimVars, pc, shut, sent, closed, nightVars>>

\* shutdown_logging, once, at exit or from the signal handler, which returns to
\* the program: the process may write on afterwards.
Shutdown(p) ==
  /\ Owns(p) /\ shut[p] = "no"
  /\ shut' = [shut EXCEPT ![p] = IF pc[p] = "primary" THEN "drain" ELSE "done"]
  /\ Rotate(ActivePath(p), active[ActivePath(p)])
  /\ UNCHANGED <<now, claimVars, pc, written, sent, closed, nightVars>>

\* stop_and_drain ends: nothing is pending, or its time is up.
EndDrain(p) ==
  /\ shut[p] = "drain"
  /\ shut' = [shut EXCEPT ![p] = "done"]
  /\ UNCHANGED <<now, claimVars, pc, written, active, used, twice>>
  /\ BufferOnly

\* The atexit hooks after shutdown_logging: release unlinks a lock of our own.
Exit(p) ==
  /\ \/ Owns(p) /\ shut[p] = "done"
     \/ pc[p] = "mute"
  /\ Goto(p, "off")
  /\ lock' = IF pc[p] = "primary" /\ HolderPid = p THEN "none" ELSE lock
  /\ ownLock' = IF pc[p] = "auxiliary" THEN ownLock \ {p} ELSE ownLock
  /\ shut' = [shut EXCEPT ![p] = "no"]
  /\ sent' = {s \in sent : s[1] # p}
  /\ UNCHANGED <<now, starts, blank, written, active, used, twice, ready, closed, nightVars>>

\* SIGKILL, at any point: the files stay.
Crash(p) ==
  /\ Alive(p)
  /\ Goto(p, "off")
  /\ shut' = [shut EXCEPT ![p] = "no"]
  /\ sent' = {s \in sent : s[1] # p}
  /\ UNCHANGED <<now, claimVars, written, active, used, twice, ready, closed, nightVars>>

-----------------------------------------------------------------------------
(* Shipping.  The primary writer scans every closed segment of the         *)
(* directory, the auxiliaries' too: in a thread while it runs, and in the  *)
(* drain of the shutdown.                                                  *)

\* _upload_segment up to the PUT; an existing key is an error and a failure
\* leaves the segment for the next scan.
\* Mutant of KeyIsFree: a key that was ever archived is refused as well.
KeyWasFree(n) == closed[n] = {} /\ processed[n] = {}
KeyIsFree(n) == closed[n] = {}

Ships(p) == pc[p] = "primary" /\ shut[p] # "done"

Upload(p, n) ==
  /\ Ships(p)
  /\ ready[n] # {} /\ <<p, n>> \notin sent /\ KeyIsFree(n)
  /\ closed' = [closed EXCEPT ![n] = ready[n]]
  /\ sent' = sent \cup {<<p, n>>}
  /\ UNCHANGED <<bufferVars, ready, nightVars>>

\* Mutant of Unlink: the scan unlinks a segment whose upload was refused.
UnlinkAny(p, n) ==
  /\ Ships(p) /\ ready[n] # {}
  /\ ready' = [ready EXCEPT ![n] = {}]
  /\ sent' = sent \ {<<p, n>>}
  /\ UNCHANGED <<bufferVars, closed, nightVars>>
Unlink(p, n) ==
  /\ <<p, n>> \in sent
  /\ ready' = [ready EXCEPT ![n] = {}]
  /\ sent' = sent \ {<<p, n>>}
  /\ UNCHANGED <<bufferVars, closed, nightVars>>

-----------------------------------------------------------------------------
(* The nightly step load_raw_logs (one run at a time, by the run lock).    *)

Drop(f, K) == [n \in DOMAIN f |-> IF n \in K THEN {} ELSE f[n]]
Put(f, g, K) == [n \in DOMAIN f |-> IF n \in K THEN g[n] ELSE f[n]]
\* A destination that exists gets a unique suffix: nothing is replaced.
PutBeside(f, g, K) == [n \in DOMAIN f |-> IF n \in K THEN f[n] \cup g[n] ELSE f[n]]

\* Mutant of AlreadyLoaded: every key counts as loaded.
EveryKey == Names
AlreadyLoaded == {row[2] : row \in rows}

\* run up to the commit: keys already loaded are moved without a download
\* (stale, those whose move succeeds), unreadable ones are quarantined (bad),
\* the rest is saved in one transaction.
\* Mutant of LoadLogs: loaded keys are skipped and stay in closed/.
LoadNewLogs(stale, bad) ==
  LET good == Filled(closed) \ (AlreadyLoaded \cup bad)
  IN  /\ moving = {} /\ good \cup bad # {}
      /\ rows' = rows \cup UNION {closed[n] \X {n} : n \in good}
      /\ quarantine' = PutBeside(quarantine, closed, bad)
      /\ closed' = Drop(closed, bad)
      /\ moving' = good
      /\ UNCHANGED <<bufferVars, ready, sent, processed>>
LoadLogs(stale, bad) ==
  LET keys == Filled(closed)
      good == keys \ (AlreadyLoaded \cup bad)
  IN  /\ moving = {} /\ keys # {}
      /\ rows' = rows \cup UNION {closed[n] \X {n} : n \in good}
      /\ processed' = Put(processed, closed, stale)
      /\ quarantine' = PutBeside(quarantine, closed, bad)
      /\ closed' = Drop(closed, stale \cup bad)
      /\ moving' = good
      /\ UNCHANGED <<bufferVars, ready, sent>>

\* The save raises: the keys it read go to quarantine, those that can be moved.
SaveFails(stale, moved) ==
  /\ moving = {} /\ moved # {}
  /\ processed' = Put(processed, closed, stale)
  /\ quarantine' = PutBeside(quarantine, closed, moved)
  /\ closed' = Drop(closed, stale \cup moved)
  /\ UNCHANGED <<bufferVars, ready, sent, rows, moving>>

\* _move_keys_to_processed for one key: a copy, then a delete.
MoveKey(n) ==
  /\ n \in moving
  /\ moving' = moving \ {n}
  /\ processed' = [processed EXCEPT ![n] = closed[n]]
  /\ closed' = [closed EXCEPT ![n] = {}]
  /\ UNCHANGED <<bufferVars, ready, sent, quarantine, rows>>

\* The copy or the delete fails: logged, and the step goes on.
MoveFails(n) ==
  /\ n \in moving
  /\ moving' = moving \ {n}
  /\ \/ processed' = [processed EXCEPT ![n] = closed[n]]
     \/ UNCHANGED processed
  /\ UNCHANGED <<bufferVars, ready, sent, closed, quarantine, rows>>

NightCrash ==
  /\ moving # {}
  /\ moving' = {}
  /\ UNCHANGED <<bufferVars, ready, sent, closed, processed, quarantine, rows>>

Tick ==
  /\ now < MaxNow
  /\ now' = now + 1
  /\ UNCHANGED <<claimVars, pc, shut, written, active, used, twice>>
  /\ BufferOnly

Night ==
  \/ \E stale \in SUBSET (Filled(closed) \cap AlreadyLoaded),
        keys \in SUBSET (Filled(closed) \ AlreadyLoaded) :
       LoadLogs(stale, keys) \/ SaveFails(stale, keys)
  \/ \E n \in Names : MoveKey(n) \/ MoveFails(n)
  \/ NightCrash

Next ==
  \/ \E p \in Procs :
       \/ Start(p) \/ UnlinkLock(p) \/ CreateAgain(p) \/ WritePid(p) \/ Choose(p)
       \/ Emit(p) \/ Shutdown(p) \/ EndDrain(p) \/ Exit(p) \/ Crash(p)
       \/ \E n \in Names : Upload(p, n) \/ Unlink(p, n)
  \/ Night
  \/ Tick

Spec == Init /\ [][Next]_vars

\* The scans of a living primary writer and the nightly job come again and
\* again, and neither storage nor the database fails for ever.
Fairness ==
  /\ \A p \in Procs :
       /\ WF_vars(\E n \in Names : Upload(p, n))
       /\ WF_vars(\E n \in Names : Unlink(p, n))
  /\ WF_vars(LoadLogs(Filled(closed) \cap AlreadyLoaded, {}))
  /\ WF_vars(\E n \in Names : MoveKey(n) \/ MoveFails(n))

FairSpec == Spec /\ Fairness

-----------------------------------------------------------------------------
(* Properties.                                                             *)

\* One process claims app.log at a time, and its claim stays in the lock file
\* for as long as it writes (the "exclusive claim" of LogBufferWriterLock).
OneAppWriter ==
  /\ \A p, q \in Procs : pc[p] = "primary" /\ pc[q] = "primary" => p = q
  /\ \A p \in Procs : pc[p] = "primary" => lock = p

\* A record that was written is in the buffer, in storage or in the table for
\* ever after, whatever crashes or fails: only two rotations of one file in
\* the same second can cost one (replace() in _rotate_locked).
NothingLost ==
  written \subseteq
    All(active) \cup All(ready) \cup All(closed) \cup All(quarantine) \cup Loaded \cup twice

\* What lies in processed/, where nothing reads it again, is in raw_logs.
ArchivedIsLoaded == All(processed) \subseteq Loaded \cup twice

Shipping == \E p \in Procs : Ships(p)

\* While there is a primary writer whose shipper runs, the buffer is drained again and again: a
\* segment whose upload was stored but not unlinked is refused until the
\* nightly job has moved the object away.
BufferDrains == []<>(Filled(ready) = {} \/ ~Shipping)

\* Every object shipped is in the table or in quarantine in the end, and then
\* leaves closed/.
ObjectsAreLoaded == []<>(Filled(closed) = {} /\ All(processed) \subseteq Loaded \cup twice)

=============================================================================
