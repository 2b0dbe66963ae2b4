-------------------------- MODULE GameIngestProofs --------------------------
(***************************************************************************)
(* Proofs about GameIngest, for any games, any number of retries and       *)
(* faults and any set of modes: the watermark never passes a game that is  *)
(* in no file and no row, and what is archived is in the table.            *)
(***************************************************************************)
EXTENDS GameIngest, TLAPS

LEMMA IngestConstants ==
  MaxGame \in Nat /\ MaxNow \in Nat /\ MaxRetries \in Nat /\ MaxFaults \in Nat /\ Modes \subseteq AllModes
BY IngestAssumption

Places == {"idle", "begin", "fetch", "write", "stamp", "load", "save", "archive", "sweep"}

-----------------------------------------------------------------------------
(* Files and moves.                                                        *)

\* A moved file keeps its games.
LEMMA FileOfGames ==
  /\ \A f \in Files : f[1] \subseteq Games /\ <<f[1], 1>> \in Files
  /\ \A k \in Keys : k[1] \in Folders /\ k[2] \in Files
BY DEF Files, Keys

LEMMA MovedType ==
  ASSUME NEW st \in [Folders -> SUBSET Files], NEW ks \in SUBSET Keys, NEW d \in Folders
  PROVE  /\ Moved(st, ks, d) \in [Folders -> SUBSET Files]
         /\ st[d] \subseteq Moved(st, ks, d)[d]
         /\ \A k \in ks : <<k[2][1], 1>> \in Moved(st, ks, d)[d]
         /\ \A f \in Moved(st, ks, d)[d] : f \in st[d] \/ \E k \in ks : f = <<k[2][1], 1>>
         /\ \A e \in Folders : e # d => Moved(st, ks, d)[e] \subseteq st[e]
         /\ \A e \in Folders : \A f : f \in st[e] /\ f \notin Moved(st, ks, d)[e] => \E k \in ks : k[2] = f
<1>1. Archived({k[2] : k \in ks}) \subseteq Files
  BY FileOfGames DEF Archived
<1>2. Moved(st, ks, d) \in [Folders -> SUBSET Files]
  BY <1>1 DEF Moved
<1>3. Moved(st, ks, d)[d] = st[d] \cup Archived({k[2] : k \in ks})
  BY DEF Moved
<1>4. ASSUME NEW e \in Folders, e # d
      PROVE  Moved(st, ks, d)[e] = st[e] \ {k[2] : k \in {i \in ks : i[1] = e}}
  BY <1>4 DEF Moved
<1>5. \A e \in Folders : e # d => Moved(st, ks, d)[e] \subseteq st[e]
  BY <1>4
<1>6. ASSUME NEW e \in Folders, NEW f \in st[e], f \notin Moved(st, ks, d)[e]
      PROVE  \E k \in ks : k[2] = f
  <2>1. e # d
    BY <1>3, <1>6
  <2>2. f \in {k[2] : k \in {i \in ks : i[1] = e}}
    BY <1>4, <1>6, <2>1
  <2> QED BY <2>2
<1>7. \A k \in ks : <<k[2][1], 1>> \in Moved(st, ks, d)[d]
  BY <1>3 DEF Archived
<1>8. \A f \in Moved(st, ks, d)[d] : f \in st[d] \/ \E k \in ks : f = <<k[2][1], 1>>
  BY <1>3 DEF Archived
<1> QED BY <1>2, <1>3, <1>5, <1>6, <1>7, <1>8

\* A move changes no other folder but to take files out of it, and the files that
\* come into the destination are those of the keys.
LEMMA MovedIn ==
  ASSUME NEW st \in [Folders -> SUBSET Files], NEW ks \in SUBSET Keys, NEW d \in Folders
  PROVE  /\ \A e \in Folders : e # d => Moved(st, ks, d)[e] \subseteq st[e]
         /\ Content(Moved(st, ks, d)[d]) \subseteq Content(st[d]) \cup Loaded(ks)
<1>1. \A e \in Folders : e # d => Moved(st, ks, d)[e] \subseteq st[e]
  BY MovedType
<1>2. ASSUME NEW g \in Content(Moved(st, ks, d)[d])
      PROVE  g \in Content(st[d]) \cup Loaded(ks)
  <2>1. PICK f \in Moved(st, ks, d)[d] : g \in f[1]
    BY <1>2 DEF Content
  <2>2. CASE f \in st[d]
    BY <2>1, <2>2 DEF Content
  <2>3. CASE \E k \in ks : f = <<k[2][1], 1>>
    <3>1. PICK k \in ks : f = <<k[2][1], 1>>
      BY <2>3
    <3>2. g \in k[2][1]
      BY <2>1, <3>1
    <3> QED BY <3>2 DEF Loaded
  <2> QED BY <2>1, <2>2, <2>3, MovedType
<1> QED BY <1>1, <1>2

\* The games of all files of the storage.
Stored(st) == Content(UNION {st[d] : d \in Folders})

LEMMA StoredIn ==
  ASSUME NEW st
  PROVE  \A g : g \in Stored(st) <=> \E d \in Folders : \E f \in st[d] : g \in f[1]
BY DEF Stored, Content

\* No move loses a game.
LEMMA MovedKeeps ==
  ASSUME NEW st \in [Folders -> SUBSET Files], NEW ks \in SUBSET Keys, NEW d \in Folders
  PROVE  Stored(st) \subseteq Stored(Moved(st, ks, d))
<1> SUFFICES ASSUME NEW g \in Stored(st) PROVE g \in Stored(Moved(st, ks, d))
  OBVIOUS
<1>1. PICK e \in Folders : \E f \in st[e] : g \in f[1]
  BY StoredIn
<1>2. PICK f \in st[e] : g \in f[1]
  BY <1>1
<1>3. CASE f \in Moved(st, ks, d)[e]
  BY <1>2, <1>3, StoredIn
<1>4. CASE f \notin Moved(st, ks, d)[e]
  <2>1. e # d /\ \E k \in ks : k[2] = f
    BY <1>4, MovedType
  <2>2. PICK k \in ks : k[2] = f
    BY <2>1
  <2>3. <<f[1], 1>> \in Moved(st, ks, d)[d]
    BY <2>2, MovedType
  <2>4. g \in <<f[1], 1>>[1]
    BY <1>2
  <2> QED BY <2>3, <2>4, StoredIn
<1> QED BY <1>3, <1>4

\* A move of keys, whichever of them fail.
LEMMA MoveKeysIs ==
  ASSUME NEW ks, NEW d, MoveKeys(ks, d)
  PROVE  \E moved \in SUBSET ks : store' = Moved(store, moved, d)
BY DEF MoveKeys

LEMMA MoveKeysFaults ==
  ASSUME TypeOK, NEW ks, NEW d, MoveKeys(ks, d)
  PROVE  faults' \in 0..MaxFaults
BY IngestConstants DEF MoveKeys, Fault, TypeOK

LEMMA ListedType ==
  ASSUME TypeOK
  PROVE  Listed \in SUBSET Keys /\ {"ingested"} \X store["ingested"] \in SUBSET Keys
BY DEF TypeOK, Listed, SourceFolders, Folders, Keys

-----------------------------------------------------------------------------
(* Types.                                                                  *)

\* No file is written for an empty answer: without it the types are not kept.
Answered == pc = "write" => got # {}

LEMMA IngestTypeInit == Init => TypeOK
BY IngestConstants DEF Init, TypeOK, AllModes

LEMMA GotoType ==
  ASSUME NEW l \in Places, Goto(l)
  PROVE  /\ pc' \in Places /\ attempt' \in 0..MaxRetries
         /\ since' \in 0..MaxNow /\ sinceNew' \in 0..MaxNow
         /\ got' = {} /\ keys' = {} /\ error' = "none"
BY IngestConstants DEF Goto

LEMMA RaiseType ==
  ASSUME TypeOK, NEW l \in Places, Raise(l)
  PROVE  /\ pc' \in {l, "idle"} /\ attempt' \in 0..MaxRetries
         /\ since' \in 0..MaxNow /\ sinceNew' \in 0..MaxNow
         /\ got' = {} /\ keys' = {} /\ error' = "none"
BY IngestConstants DEF Raise, Goto, TypeOK

LEMMA FaultType ==
  ASSUME TypeOK, Fault PROVE faults' \in 0..MaxFaults
BY IngestConstants DEF Fault, TypeOK

\* What each move of the storage leaves there.
LEMMA StoreType ==
  ASSUME TypeOK, NEW ks \in SUBSET Keys, NEW d \in Folders
  PROVE  /\ Moved(store, ks, d) \in [Folders -> SUBSET Files]
         /\ MoveKeys(ks, d) => store' \in [Folders -> SUBSET Files]
<1>1. \A moved \in SUBSET ks : Moved(store, moved, d) \in [Folders -> SUBSET Files]
  BY MovedType DEF TypeOK
<1> QED BY <1>1, MoveKeysIs

LEMMA IngestTypeFetch ==
  ASSUME TypeOK, Answered,
         \/ Tick \/ (\E m \in Modes : StartRun(m)) \/ Begin \/ Fetch \/ Write \/ Stamp
         \/ FetchStepFails \/ ClientError
  PROVE  TypeOK'
<1> USE IngestConstants
<1>1. CASE Tick
  BY <1>1 DEF Tick, TypeOK, local
<1>2. ASSUME NEW m \in Modes, StartRun(m) PROVE TypeOK'
  BY <1>2, GotoType DEF StartRun, TypeOK, Places
<1>3. CASE Begin
  BY <1>3 DEF Begin, TypeOK
<1>4. CASE Fetch
  <2>1. PICK answer \in Answers :
           IF answer = {} THEN Goto("load")
           ELSE pc' = "write" /\ got' = answer /\ UNCHANGED <<attempt, since, sinceNew, keys, error>>
    BY <1>4 DEF Fetch
  <2>2. answer \subseteq Games
    BY DEF Answers
  <2>3. CASE Goto("load")
    BY <1>4, <2>3, GotoType DEF Fetch, TypeOK, Places
  <2>4. CASE pc' = "write" /\ got' = answer /\ UNCHANGED <<attempt, since, sinceNew, keys, error>>
    BY <1>4, <2>2, <2>4 DEF Fetch, TypeOK
  <2> QED BY <2>1, <2>3, <2>4
<1>5. CASE Write
  <2>1. pc = "write"
    BY <1>5 DEF Write
  <2>2. PICK n \in {1, 2} : store' = [store EXCEPT !["ingested"] = @ \cup {<<got, n>>}]
    BY <1>5 DEF Write
  <2>3. got # {} => <<got, n>> \in Files
    BY DEF TypeOK, Files
  <2>4. store' \in [Folders -> SUBSET Files]
    BY <2>1, <2>2, <2>3 DEF Answered, TypeOK, Folders
  <2> QED BY <1>5, <2>1, <2>4 DEF Write, TypeOK
<1>6. CASE Stamp
  BY <1>6, GotoType DEF Stamp, TypeOK, Places
<1>7. CASE FetchStepFails
  BY <1>7, FaultType, RaiseType DEF FetchStepFails, TypeOK, Places
<1>8. CASE ClientError
  BY <1>8, FaultType, GotoType DEF ClientError, TypeOK, Places
<1> QED BY <1>1, <1>2, <1>3, <1>4, <1>5, <1>6, <1>7, <1>8

LEMMA IngestTypeLoad ==
  ASSUME TypeOK,
         \/ ReadFiles \/ ResolveFails \/ PrepareFails \/ Save \/ SaveFails \/ SaveRejected
         \/ Archive \/ Sweep \/ Crash
  PROVE  TypeOK'
<1> USE IngestConstants
<1>0. "failed" \in Folders /\ "processed" \in Folders /\ keys \in SUBSET Keys
  BY DEF Folders, TypeOK
<1>1. CASE ReadFiles
  <2>1. PICK bad \in SUBSET Listed :
          /\ IF bad = {} THEN UNCHANGED faults ELSE Fault
          /\ store' = Moved(store, bad, "failed")
          /\ keys' = Listed \ bad
          /\ pc' = IF Listed = bad THEN "sweep" ELSE "save"
    BY <1>1 DEF ReadFiles
  <2>2. bad \in SUBSET Keys /\ keys' \in SUBSET Keys
    BY <2>1, ListedType
  <2>3. store' \in [Folders -> SUBSET Files]
    BY <1>0, <2>1, <2>2, StoreType
  <2>4. faults' \in 0..MaxFaults
    BY <2>1, FaultType DEF TypeOK
  <2> QED BY <1>1, <2>1, <2>2, <2>3, <2>4 DEF ReadFiles, TypeOK
<1>2. CASE ResolveFails
  BY <1>2, FaultType, RaiseType DEF ResolveFails, TypeOK, Places
<1>3. CASE PrepareFails
  BY <1>3, FaultType DEF PrepareFails, TypeOK
<1>4. CASE Save
  <2>1. Loaded(keys) \subseteq Games
    BY <1>0, FileOfGames DEF Loaded
  <2> QED BY <1>4, <2>1 DEF Save, Upsert, TypeOK
<1>5. CASE SaveFails \/ SaveRejected
  <2>1. PICK e \in {"retryable", "fatal"}, moved \in {keys, {}} : SaveRaises(e, moved)
    BY <1>5 DEF SaveFails, SaveRejected
  <2>2. store' \in [Folders -> SUBSET Files]
    BY <1>0, <2>1, StoreType DEF SaveRaises, SavedOrNot
  <2>3. faults' \in 0..MaxFaults
    BY <1>5, FaultType DEF SaveFails, SaveRejected, TypeOK
  <2> QED BY <2>1, <2>2, <2>3 DEF SaveRaises, TypeOK
<1>6. CASE Archive
  <2>1. PICK k \in keys :
          /\ MoveKeys({k}, "processed") /\ keys' = keys \ {k}
          /\ pc' = IF keys = {k} THEN "sweep" ELSE "archive"
    BY <1>6 DEF Archive
  <2>2. store' \in [Folders -> SUBSET Files] /\ faults' \in 0..MaxFaults
    BY <1>0, <2>1, StoreType, MoveKeysFaults
  <2> QED BY <1>0, <1>6, <2>1, <2>2 DEF Archive, TypeOK
<1>7. CASE Sweep
  <2>1. store' \in [Folders -> SUBSET Files] /\ faults' \in 0..MaxFaults
    BY <1>0, <1>7, ListedType, StoreType, MoveKeysFaults DEF Sweep
  <2>2. Raise("load") \/ Goto("idle")
    BY <1>7 DEF Sweep
  <2>3. /\ pc' \in Places /\ attempt' \in 0..MaxRetries
        /\ since' \in 0..MaxNow /\ sinceNew' \in 0..MaxNow
        /\ got' = {} /\ keys' = {} /\ error' = "none"
    BY <2>2, RaiseType, GotoType DEF Places
  <2> QED BY <1>7, <2>1, <2>3 DEF Sweep, TypeOK, Places
<1>8. CASE Crash
  <2>1. store' \in [Folders -> SUBSET Files]
    <3>1. \A k \in keys : Archived({k[2]}) \subseteq Files
      BY <1>0, FileOfGames DEF Archived
    <3>2. \A f \in store["ingested"] : Archived({f}) \subseteq Files
      <4>1. store["ingested"] \subseteq Files
        BY DEF TypeOK, Folders
      <4> QED BY <4>1, FileOfGames DEF Archived
    <3>3. \/ UNCHANGED store
          \/ \E fs \in SUBSET Files, d \in Folders : store' = [store EXCEPT ![d] = @ \cup fs]
      BY <1>0, <1>8, <3>1, <3>2 DEF Crash
    <3> QED BY <3>3 DEF TypeOK
  <2> QED BY <1>8, <2>1, FaultType, GotoType DEF Crash, TypeOK, Places
<1> QED BY <1>1, <1>2, <1>3, <1>4, <1>5, <1>6, <1>7, <1>8

LEMMA AnsweredStep ==
  ASSUME Answered, [Next]_vars PROVE Answered'
BY DEF Answered, Next, vars, local, Tick, StartRun, Begin, Fetch, Write, Stamp, FetchStepFails,
  ClientError, ReadFiles, ResolveFails, PrepareFails, Save, SaveFails, SaveRejected, SaveRaises,
  Archive, Sweep, Crash, Goto, Raise

LEMMA IngestTyped == Spec => [](TypeOK /\ Answered)
<1>1. Init => TypeOK /\ Answered
  BY IngestTypeInit DEF Init, Answered
<1>2. TypeOK /\ Answered /\ [Next]_vars => TypeOK'
  <2>1. TypeOK /\ UNCHANGED vars => TypeOK'
    BY DEF TypeOK, vars, local
  <2> QED BY <2>1, IngestTypeFetch, IngestTypeLoad DEF Next
<1> QED BY <1>1, <1>2, AnsweredStep, PTL DEF Spec

(***************************************************************************)
(* Every variable keeps its type, in every mode and for any number of      *)
(* games, retries and faults; no empty answer becomes a file.              *)
(***************************************************************************)
THEOREM IngestTypeOK == Spec => []TypeOK
BY IngestTyped, PTL

-----------------------------------------------------------------------------
(* The watermark and the archive.                                          *)

Kept(g) == g \in raw \cup Stored(store)

\* The fetch starts from the watermark it found, asks for every game from there
\* to a time before the call, and the file is there before the watermark moves;
\* keys on their way to the archive are in the table.
IngestInv ==
  /\ \A g \in Games : g < latest => Kept(g)
  /\ pc \in {"fetch", "write", "stamp"} => since = latest /\ sinceNew <= now
  /\ pc \in {"write", "stamp"} => \A g \in Games : since <= g /\ g < sinceNew => g \in got
  /\ pc = "stamp" => \A g \in got : Kept(g)
  /\ pc = "archive" => Loaded(keys) \subseteq raw
  /\ Content(store["processed"]) \subseteq raw

LEMMA ContentGrows ==
  ASSUME NEW S, NEW T, S \subseteq T PROVE Content(S) \subseteq Content(T)
BY DEF Content

LEMMA FolderNames ==
  /\ Folders = {"ingested", "failed", "processed"}
  /\ "ingested" \in Folders /\ "failed" \in Folders /\ "processed" \in Folders
BY DEF Folders

\* Files that are added to a folder take nothing away.
LEMMA AddedKeeps ==
  ASSUME NEW st \in [Folders -> SUBSET Files], NEW d \in Folders, NEW fs
  PROVE  Stored(st) \subseteq Stored([st EXCEPT ![d] = @ \cup fs])
<1> DEFINE st2 == [st EXCEPT ![d] = @ \cup fs]
<1>1. \A e \in Folders : st[e] \subseteq st2[e]
  OBVIOUS
<1> HIDE DEF st2
<1>2. Stored(st) \subseteq Stored(st2)
  BY <1>1, StoredIn
<1> QED BY <1>2 DEF st2

\* A step that keeps the rows and the files, archives nothing new and ends outside
\* the fetch and the archive.
LEMMA QuietStep ==
  ASSUME IngestInv, latest' = latest, raw \subseteq raw', Stored(store) \subseteq Stored(store'),
         Content(store'["processed"]) \subseteq raw',
         pc' \notin {"fetch", "write", "stamp", "archive"}
  PROVE  IngestInv'
BY DEF IngestInv, Kept

\* Moves to failed/ and steps that move nothing archive nothing.
LEMMA FailedMoves ==
  ASSUME TypeOK, IngestInv, NEW ks \in SUBSET Keys, store' = Moved(store, ks, "failed")
  PROVE  /\ Stored(store) \subseteq Stored(store')
         /\ Content(store'["processed"]) \subseteq raw
<1>1. store \in [Folders -> SUBSET Files]
  BY DEF TypeOK
<1>2. Stored(store) \subseteq Stored(store')
  BY <1>1, FolderNames, MovedKeeps
<1>3. store'["processed"] \subseteq store["processed"]
  BY <1>1, FolderNames, MovedIn
<1> QED BY <1>2, <1>3, ContentGrows DEF IngestInv

LEMMA IngestFetchStep ==
  ASSUME TypeOK, IngestInv, Tick \/ Begin \/ Fetch \/ Write \/ Stamp
  PROVE  IngestInv'
<1> USE IngestConstants DEF TypeOK
<1>1. CASE Tick
  BY <1>1 DEF Tick, IngestInv, Kept, local
<1>2. CASE Begin
  BY <1>2 DEF Begin, IngestInv, Kept
<1>3. CASE Fetch
  <2>1. PICK answer \in Answers :
           IF answer = {} THEN Goto("load")
           ELSE pc' = "write" /\ got' = answer /\ UNCHANGED <<attempt, since, sinceNew, keys, error>>
    BY <1>3 DEF Fetch
  <2>2. /\ pc = "fetch" /\ UNCHANGED <<now, latest, store, raw>>
    BY <1>3 DEF Fetch
  <2>3. CASE Goto("load")
    BY <2>2, <2>3, QuietStep DEF Goto, IngestInv
  <2>4. CASE pc' = "write" /\ got' = answer /\ UNCHANGED <<attempt, since, sinceNew, keys, error>>
    <3>1. since = latest /\ sinceNew <= now
      BY <2>2 DEF IngestInv
    <3>2. \A g \in Games : since <= g /\ g < sinceNew => g \in answer
      BY <3>1 DEF Answers, From, Games
    <3> QED BY <2>2, <2>4, <3>1, <3>2 DEF IngestInv, Kept
  <2> QED BY <2>1, <2>3, <2>4
<1>4. CASE Write
  <2>1. PICK n \in {1, 2} : store' = [store EXCEPT !["ingested"] = @ \cup {<<got, n>>}]
    BY <1>4 DEF Write
  <2>2. Stored(store) \subseteq Stored(store')
    BY <2>1, FolderNames, AddedKeeps
  <2>3. \A g \in got : g \in Stored(store')
    <3>1. <<got, n>> \in store'["ingested"] /\ <<got, n>>[1] = got
      BY <2>1, FolderNames
    <3> QED BY <3>1, FolderNames, StoredIn
  <2>4. store'["processed"] = store["processed"]
    BY <2>1, FolderNames
  <2>5. /\ pc = "write" /\ pc' = "stamp" /\ UNCHANGED <<now, latest, raw, since, sinceNew, got>>
    BY <1>4 DEF Write
  <2> QED BY <2>2, <2>3, <2>4, <2>5 DEF IngestInv, Kept
<1>5. CASE Stamp
  <2>1. /\ pc = "stamp" /\ pc' = "load" /\ latest' = sinceNew /\ UNCHANGED <<store, raw>>
    BY <1>5 DEF Stamp, Goto
  <2>2. ASSUME NEW g \in Games, g < sinceNew PROVE Kept(g)
    <3>1. since = latest /\ (g < latest => Kept(g)) /\ (since <= g => g \in got)
      BY <2>1, <2>2 DEF IngestInv
    <3>2. g < latest \/ since <= g
      BY <3>1 DEF Games
    <3> QED BY <2>1, <3>1, <3>2 DEF IngestInv
  <2>3. Content(store'["processed"]) \subseteq raw'
    BY <2>1 DEF IngestInv
  <2> QED BY <2>1, <2>2, <2>3 DEF IngestInv, Kept
<1> QED BY <1>1, <1>2, <1>3, <1>4, <1>5

LEMMA IngestLoadStep ==
  ASSUME TypeOK, IngestInv,
         \/ \E m \in Modes : StartRun(m)
         \/ FetchStepFails \/ ClientError \/ ReadFiles \/ ResolveFails \/ PrepareFails
         \/ SaveFails \/ SaveRejected \/ Sweep \/ Crash
  PROVE  IngestInv'
<1>1. CASE \/ \E m \in Modes : StartRun(m)
           \/ FetchStepFails \/ ClientError \/ ResolveFails \/ PrepareFails
  <2>1. UNCHANGED <<latest, store, raw>> /\ pc' \in {"begin", "load", "idle", "sweep"}
    BY <1>1 DEF StartRun, FetchStepFails, ClientError, ResolveFails, PrepareFails, Raise, Goto
  <2> QED BY <2>1, QuietStep DEF IngestInv
<1>2. CASE ReadFiles
  <2>1. PICK bad \in SUBSET Listed : store' = Moved(store, bad, "failed")
    BY <1>2 DEF ReadFiles
  <2>2. /\ UNCHANGED <<latest, raw>> /\ pc' \in {"sweep", "save"}
    BY <1>2 DEF ReadFiles
  <2>3. bad \in SUBSET Keys
    BY ListedType
  <2> QED BY <2>1, <2>2, <2>3, FailedMoves, QuietStep
<1>3. CASE SaveFails \/ SaveRejected
  <2>1. PICK e \in {"retryable", "fatal"}, moved \in {keys, {}} : SaveRaises(e, moved)
    BY <1>3 DEF SaveFails, SaveRejected
  <2>2. moved \in SUBSET Keys /\ store' = Moved(store, moved, "failed")
    BY <2>1 DEF SaveRaises, SavedOrNot, TypeOK
  <2>3. UNCHANGED <<latest, raw>> /\ pc' = "sweep"
    BY <2>1 DEF SaveRaises
  <2> QED BY <2>2, <2>3, FailedMoves, QuietStep
<1>4. CASE Sweep
  <2>1. PICK moved \in SUBSET ({"ingested"} \X store["ingested"]) : store' = Moved(store, moved, "failed")
    BY <1>4, MoveKeysIs DEF Sweep
  <2>2. moved \in SUBSET Keys
    BY ListedType
  <2>3. UNCHANGED <<latest, raw>> /\ pc' \in {"load", "idle"}
    BY <1>4 DEF Sweep, Raise, Goto
  <2> QED BY <2>1, <2>2, <2>3, FailedMoves, QuietStep
<1>5. CASE Crash
  <2>1. UNCHANGED <<latest, raw>> /\ pc' = "idle"
    BY <1>5 DEF Crash, Goto
  <2>2. store \in [Folders -> SUBSET Files]
    BY DEF TypeOK
  <2>3. CASE store' = store
    BY <2>1, <2>3, QuietStep DEF IngestInv
  <2>4. ASSUME pc = "archive", NEW k \in keys,
               store' = [store EXCEPT !["processed"] = @ \cup Archived({k[2]})]
        PROVE  IngestInv'
    <3>1. Stored(store) \subseteq Stored(store')
      BY <2>2, <2>4, FolderNames, AddedKeeps
    <3>2. store'["processed"] = store["processed"] \cup {<<k[2][1], 1>>}
      BY <2>2, <2>4, FolderNames DEF Archived
    <3>3. k[2][1] \subseteq raw
      BY <2>4 DEF IngestInv, Loaded
    <3>4. Content(store'["processed"]) \subseteq raw
      <4>1. SUFFICES ASSUME NEW f \in store'["processed"], NEW g \in f[1] PROVE g \in raw
        BY DEF Content
      <4>2. CASE f \in store["processed"]
        BY <4>2 DEF IngestInv, Content
      <4> QED BY <3>2, <3>3, <4>2
    <3> QED BY <2>1, <3>1, <3>4, QuietStep
  <2>5. ASSUME NEW f \in store["ingested"],
               store' = [store EXCEPT !["failed"] = @ \cup Archived({f})]
        PROVE  IngestInv'
    <3>1. Stored(store) \subseteq Stored(store')
      BY <2>2, <2>5, FolderNames, AddedKeeps
    <3>2. store'["processed"] = store["processed"]
      BY <2>2, <2>5, FolderNames
    <3> QED BY <2>1, <3>1, <3>2, QuietStep DEF IngestInv
  <2> QED BY <1>5, <2>3, <2>4, <2>5 DEF Crash
<1> QED BY <1>1, <1>2, <1>3, <1>4, <1>5

LEMMA IngestSaveStep ==
  ASSUME TypeOK, IngestInv, Save \/ Archive
  PROVE  IngestInv'
<1>1. CASE Save
  <2>1. /\ raw' = raw \cup Loaded(keys) /\ pc' = "archive" /\ UNCHANGED <<latest, store, keys>>
    BY <1>1 DEF Save, Upsert
  <2> QED BY <2>1 DEF IngestInv, Kept
<1>2. CASE Archive
  <2>1. PICK k \in keys : MoveKeys({k}, "processed") /\ keys' = keys \ {k}
    BY <1>2 DEF Archive
  <2>2. pc = "archive" /\ pc' \in {"sweep", "archive"} /\ UNCHANGED <<latest, raw>>
    BY <1>2 DEF Archive
  <2>3. PICK moved \in SUBSET {k} : store' = Moved(store, moved, "processed")
    BY <2>1, MoveKeysIs
  <2>4. moved \in SUBSET Keys /\ store \in [Folders -> SUBSET Files]
    BY DEF TypeOK
  <2>5. Stored(store) \subseteq Stored(store')
    BY <2>3, <2>4, FolderNames, MovedKeeps
  <2>6. Loaded(keys) \subseteq raw
    BY <2>2 DEF IngestInv
  <2>7. Loaded(moved) \subseteq raw /\ Loaded(keys') \subseteq raw
    BY <2>1, <2>6 DEF Loaded
  <2>8. Content(store'["processed"]) \subseteq raw
    <3>1. Content(store'["processed"]) \subseteq Content(store["processed"]) \cup Loaded(moved)
      BY <2>3, <2>4, FolderNames, MovedIn
    <3> QED BY <2>7, <3>1 DEF IngestInv
  <2> QED BY <2>2, <2>5, <2>7, <2>8 DEF IngestInv, Kept
<1> QED BY <1>1, <1>2

LEMMA IngestInvariant == Spec => []IngestInv
<1>1. Init => IngestInv
  <2> SUFFICES ASSUME Init PROVE IngestInv
    OBVIOUS
  <2>1. store["processed"] = {}
    BY FolderNames DEF Init
  <2> QED BY <2>1, IngestConstants DEF Init, IngestInv, Content, Games
<1>2. TypeOK /\ IngestInv /\ [Next]_vars => IngestInv'
  <2>1. IngestInv /\ UNCHANGED vars => IngestInv'
    BY DEF IngestInv, Kept, vars, local
  <2> QED BY <2>1, IngestFetchStep, IngestLoadStep, IngestSaveStep DEF Next
<1> QED BY <1>1, <1>2, IngestTypeOK, PTL DEF Spec

(***************************************************************************)
(* No game is skipped: one that ended before the watermark is in a file or *)
(* in the table, for any run of fetches, retries, failures and kills.      *)
(***************************************************************************)
THEOREM NoGameSkipped == Spec => []NothingSkipped
<1>1. IngestInv => NothingSkipped
  BY DEF IngestInv, NothingSkipped, Kept, Stored
<1> QED BY <1>1, IngestInvariant, PTL

(***************************************************************************)
(* An archived file has its games in the table, whichever mode read it and *)
(* wherever the run that moved it was killed.                              *)
(***************************************************************************)
THEOREM ArchivedFilesAreLoaded == Spec => []ArchivedIsLoaded
<1>1. IngestInv => ArchivedIsLoaded
  BY DEF IngestInv, ArchivedIsLoaded
<1> QED BY <1>1, IngestInvariant, PTL
=============================================================================
