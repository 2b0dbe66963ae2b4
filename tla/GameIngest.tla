----------------------------- MODULE GameIngest -----------------------------
(***************************************************************************)
(* Ingestion of one account's games (pipelines/ingestion), as the runs of  *)
(* the user pipeline repeat it: fetch the games since the watermark into a *)
(* file under ingested/, advance the watermark, load every file of the     *)
(* mode's folders into games.raw_games, archive the files by outcome.      *)
(*                                                                         *)
(* Game g ends at second g.  A file is the games in it and a number that   *)
(* tells it from another file of the same games: a third copy of the same  *)
(* games makes no difference under ingested/, nor a second one elsewhere.  *)
(* A retry of a step starts the step again.                                *)
(***************************************************************************)
EXTENDS Naturals, FiniteSets

CONSTANTS
  MaxGame,     \* the games that are played
  MaxNow,      \* seconds the clock runs (bound)
  MaxRetries,  \* retries of a step (bound; 3 in the code)
  MaxFaults,   \* calls that fail and processes that are killed (bound)
  Modes        \* the modes that runs are started in

AllModes == {"incremental", "retry", "reprocess", "full_reload"}

ASSUME IngestAssumption ==
  /\ MaxGame \in Nat /\ MaxNow \in Nat /\ MaxRetries \in Nat /\ MaxFaults \in Nat
  /\ Modes \subseteq AllModes

Games   == 1..MaxGame
Files   == ((SUBSET Games) \ {{}}) \X {1, 2}
Folders == {"ingested", "failed", "processed"}
Keys    == Folders \X Files

VARIABLES
  now,       \* the wall clock
  latest,    \* accounts.latest_ingestion; 0 is NULL
  store,     \* folder -> the files under it
  raw,       \* games.raw_games
  pc,        \* where the account's run is
  mode,      \* PipelineMode of the run
  attempt,   \* retries the step has used
  since,     \* watermark the fetch starts from
  sinceNew,  \* watermark the fetch will leave
  got,       \* games the adapter returned
  keys,      \* _loaded_keys: <<folder it was listed under, file>>
  faults,    \* calls that have failed, and kills
  error      \* what the load step will raise after its finally clause

local == <<pc, mode, attempt, since, sinceNew, got, keys, error>>
vars  == <<now, latest, store, raw, faults, local>>

TypeOK ==
  /\ now \in 0..MaxNow /\ {latest, since, sinceNew} \subseteq 0..MaxNow
  /\ store \in [Folders -> SUBSET Files]
  /\ raw \subseteq Games /\ got \subseteq Games
  /\ pc \in {"idle", "begin", "fetch", "write", "stamp", "load", "save", "archive", "sweep"}
  /\ mode \in AllModes
  /\ attempt \in 0..MaxRetries /\ faults \in 0..MaxFaults
  /\ keys \subseteq Keys
  /\ error \in {"none", "retryable", "fatal"}

Init ==
  /\ now = 0 /\ latest = 0 /\ raw = {} /\ faults = 0
  /\ store = [d \in Folders |-> {}]
  /\ pc = "idle" /\ mode = "incremental" /\ attempt = 0
  /\ since = 0 /\ sinceNew = 0 /\ got = {} /\ keys = {} /\ error = "none"

-----------------------------------------------------------------------------
\* The games of a set of files, and of a set of keys.
Content(fs) == UNION {f[1] : f \in fs}
Loaded(ks) == UNION {k[2][1] : k \in ks}

\* The files moved to d, where one copy stands for all.
Archived(fs) == {<<f[1], 1>> : f \in fs}
Moved(st, ks, d) ==
  [e \in Folders |->
     IF e = d THEN st[e] \cup Archived({k[2] : k \in ks})
              ELSE st[e] \ {k[2] : k \in {i \in ks : i[1] = e}}]

Fault == faults < MaxFaults /\ faults' = faults + 1

\* Every key is moved; a move that fails is only logged.
MoveKeys(ks, d) ==
  \/ store' = Moved(store, ks, d) /\ UNCHANGED faults
  \/ Fault /\ \E stay \in (SUBSET ks) \ {{}} : store' = Moved(store, ks \ stay, d)

\* A step is over: the next one starts with no retry used and nothing loaded.
Goto(l) ==
  /\ pc' = l /\ attempt' = 0
  /\ since' = 0 /\ sinceNew' = 0 /\ got' = {} /\ keys' = {} /\ error' = "none"

\* PipelineStep.execute after an exception in the step that starts at l: a
\* retryable one is tried again, then the step fails and ends the pipeline.
Raise(l) ==
  IF attempt < MaxRetries
    THEN /\ pc' = l /\ attempt' = attempt + 1
         /\ since' = 0 /\ sinceNew' = 0 /\ got' = {} /\ keys' = {} /\ error' = "none"
    ELSE Goto("idle")

Tick ==
  /\ now < MaxNow /\ now' = now + 1
  /\ UNCHANGED <<faults, latest, store, raw, local>>

StartRun(m) ==
  /\ pc = "idle"
  /\ mode' = m /\ Goto("begin")
  /\ UNCHANGED <<faults, now, latest, store, raw>>

-----------------------------------------------------------------------------
(* IngestionFromAPIStreamStep.run.                                         *)

\* The watermark that was left, and the one this fetch will leave, before it.
Begin ==
  /\ pc = "begin" /\ pc' = "fetch"
  /\ since' = latest /\ sinceNew' = now
  /\ UNCHANGED <<faults, now, latest, store, raw, mode, attempt, got, keys, error>>

\* get_records, with times cut to the second: the games that ended in `since`
\* or later.  A game of this very second may end after the answer.
\* Mutant of From: the games after `since`.
AfterSince(g) == since < g
From(g) == since <= g
Answers == LET S == {g \in Games : From(g) /\ g <= now} IN {S, S \ {now}}

\* Nothing to write is a success that leaves the watermark alone.
Fetch ==
  /\ pc = "fetch"
  /\ \E answer \in Answers :
       IF answer = {}
         THEN Goto("load")
         ELSE pc' = "write" /\ got' = answer /\ UNCHANGED <<attempt, since, sinceNew, keys, error>>
  /\ UNCHANGED <<faults, now, latest, store, raw, mode>>

\* A new file, under a name of its own.
Write ==
  /\ pc = "write" /\ pc' = "stamp"
  /\ \E n \in {1, 2} :
       /\ <<got, n>> \notin store["ingested"] \/ {<<got, 1>>, <<got, 2>>} \subseteq store["ingested"]
       /\ store' = [store EXCEPT !["ingested"] = @ \cup {<<got, n>>}]
  /\ UNCHANGED <<faults, now, latest, raw, mode, attempt, since, sinceNew, got, keys, error>>

\* Mutant of Stamp: the watermark is the time of the stamp.
StampNow ==
  /\ pc = "stamp"
  /\ latest' = now
  /\ Goto("load")
  /\ UNCHANGED <<faults, now, store, raw, mode>>
Stamp ==
  /\ pc = "stamp"
  /\ latest' = sinceNew
  /\ Goto("load")
  /\ UNCHANGED <<faults, now, store, raw, mode>>

\* The account cannot be read or stamped, the platform does not answer, or the
\* storage does not take the file.
FetchStepFails ==
  /\ pc \in {"begin", "fetch", "write", "stamp"}
  /\ Fault /\ Raise("begin")
  /\ UNCHANGED <<now, latest, store, raw, mode>>

\* A 4xx answer other than 429: AdapterClientError is not retried.
ClientError ==
  /\ pc = "fetch" /\ Fault /\ Goto("idle")
  /\ UNCHANGED <<now, latest, store, raw, mode>>

-----------------------------------------------------------------------------
(* LoadIngestedFilesToDB.run.                                              *)

SourceFolders ==
  CASE mode = "incremental" -> {"ingested"}
    [] mode = "retry" -> {"ingested", "failed"}
    [] OTHER -> Folders

Listed == UNION {{d} \X store[d] : d \in SourceFolders}

\* Every listed file is read; one that cannot be read goes to failed/ at once.
ReadFiles ==
  /\ pc = "load"
  /\ \E bad \in SUBSET Listed :
       /\ IF bad = {} THEN UNCHANGED faults ELSE Fault
       /\ store' = Moved(store, bad, "failed")
       /\ keys' = Listed \ bad
       /\ pc' = IF Listed = bad THEN "sweep" ELSE "save"
  /\ UNCHANGED <<now, latest, raw, mode, attempt, since, sinceNew, got, error>>

\* The account cannot be read: outside the try, so nothing is swept.
ResolveFails ==
  /\ pc = "load" /\ Fault /\ Raise("load")
  /\ UNCHANGED <<now, latest, store, raw, mode>>

\* The table cannot be prepared: inside the try, before any key is listed.
PrepareFails ==
  /\ pc = "load" /\ Fault /\ pc' = "sweep" /\ error' = "retryable"
  /\ UNCHANGED <<now, latest, store, raw, mode, attempt, since, sinceNew, got, keys>>

\* ExtractFileMetadata finds the account only in a key under ingested/: for
\* any other key the platform is unknown, and no game id can be extracted.
Parsable == \A k \in keys : k[1] = "ingested"

\* AssertUniqueColumns on the primary key of the rows of all files.
NoGameTwice == \A k, l \in keys : k = l \/ k[2][1] \cap l[2][1] = {}

\* full_sync adds match_condition to the ON of the MERGE, where its account_id
\* is a column of both sides: the statement is refused.
Mergeable == mode # "full_reload"

\* MergeStrategy.upsert: matched rows are updated, the others inserted.
Upsert(table, rows) == table \cup rows

\* The rows of all files in one MERGE.
Save ==
  /\ pc = "save" /\ Parsable /\ NoGameTwice /\ Mergeable
  /\ raw' = Upsert(raw, Loaded(keys))
  /\ pc' = "archive"
  /\ UNCHANGED <<faults, now, latest, store, mode, attempt, since, sinceNew, got, keys, error>>

\* Mutant of SavedOrNot: the loaded keys are archived whatever the save did.
AlwaysSaved(e) == "processed"
\* Where the loaded keys go after an exception.
SavedOrNot(e) == "failed"

SaveRaises(e, moved) ==
  /\ store' = Moved(store, moved, SavedOrNot(e))
  /\ error' = e /\ keys' = {} /\ pc' = "sweep"
  /\ UNCHANGED <<now, latest, raw, mode, attempt, since, sinceNew, got>>

\* The database does not take the rows; the storage may not move the files.
SaveFails == pc = "save" /\ Fault /\ \E moved \in {keys, {}} : SaveRaises("retryable", moved)

SaveRejected ==
  /\ pc = "save" /\ UNCHANGED faults
  /\ \/ ~Parsable /\ SaveRaises("retryable", keys)
     \/ Parsable /\ ~NoGameTwice /\ SaveRaises("fatal", keys)
     \/ Parsable /\ NoGameTwice /\ ~Mergeable /\ SaveRaises("retryable", keys)

\* _move_keys to processed/, one key at a time.
Archive ==
  /\ pc = "archive"
  /\ \E k \in keys :
       /\ MoveKeys({k}, "processed")
       /\ keys' = keys \ {k}
       /\ pc' = IF keys = {k} THEN "sweep" ELSE "archive"
  /\ UNCHANGED <<now, latest, raw, mode, attempt, since, sinceNew, got, error>>

\* _ensure_ingested_empty, and the exception the step was about to raise.
Sweep ==
  /\ pc = "sweep"
  /\ MoveKeys({"ingested"} \X store["ingested"], "failed")
  /\ IF error = "retryable" THEN Raise("load") ELSE Goto("idle")
  /\ UNCHANGED <<now, latest, raw, mode>>

\* The process is killed; between the copy and the delete of a move, too.
Crash ==
  /\ pc # "idle" /\ Fault
  /\ \/ UNCHANGED store
     \/ pc = "archive" /\ \E k \in keys :
          store' = [store EXCEPT !["processed"] = @ \cup Archived({k[2]})]
     \/ pc = "sweep" /\ \E f \in store["ingested"] :
          store' = [store EXCEPT !["failed"] = @ \cup Archived({f})]
  /\ Goto("idle")
  /\ UNCHANGED <<now, latest, raw, mode>>

Next ==
  \/ Tick \/ \E m \in Modes : StartRun(m)
  \/ Begin \/ Fetch \/ Write \/ Stamp \/ FetchStepFails \/ ClientError
  \/ ReadFiles \/ ResolveFails \/ PrepareFails
  \/ Save \/ SaveFails \/ SaveRejected \/ Archive \/ Sweep
  \/ Crash

Spec == Init /\ [][Next]_vars

Step ==
  \/ Begin \/ Fetch \/ Write \/ Stamp
  \/ ReadFiles \/ Save \/ SaveRejected \/ Archive \/ Sweep

\* Runs are started every day, in every mode of Modes, and a run goes on.
FairSpec ==
  /\ Spec
  /\ WF_vars(Tick) /\ WF_vars(Step)
  /\ \A m \in Modes : SF_vars(StartRun(m))

-----------------------------------------------------------------------------
(* Properties.                                                             *)

\* No game is skipped: one that ended before the watermark, which no later
\* fetch asks for, is in raw_games or in a file, whatever failed or was killed
\* between the fetch, the file and the stamp.
NothingSkipped ==
  \A g \in Games : g < latest => g \in raw \cup Content(UNION {store[d] : d \in Folders})

\* A file is archived only when its games are in raw_games: the retries, the
\* modes and the kills between its moves included.
ArchivedIsLoaded == Content(store["processed"]) \subseteq raw

\* Every game that was played reaches raw_games, or a file that was set aside.
GamesArrive ==
  <>[](\A g \in Games : g \in raw \cup Content(store["failed"]))
=============================================================================
