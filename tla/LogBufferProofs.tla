-------------------------- MODULE LogBufferProofs --------------------------
(***************************************************************************)
(* Proofs about LogBuffer, for any set of pids and any bounds: with claims *)
(* of the lock that do not overlap there is one writer of app.log, and,    *)
(* with no such assumption, no record is lost but by two rotations of a    *)
(* file in one second, and what is archived is loaded.                     *)
(***************************************************************************)
EXTENDS LogBuffer, TLAPS

LEMMA LogConstants ==
  /\ "app" \notin Procs /\ "none" \notin Procs
  /\ MaxRecords \in Nat /\ MaxNow \in Nat /\ MaxStarts \in Nat
BY LogAssumption

\* The active file a process writes is one of the directory.
LEMMA PathType == \A p \in Procs : ActivePath(p) \in Paths
BY DEF ActivePath, Paths

\* The steps, with the process, the segment or the keys they are about.
LEMMA StepCases ==
  ASSUME [Next]_vars
  PROVE  \/ \E p \in Procs :
              \/ Start(p) \/ UnlinkLock(p) \/ CreateAgain(p) \/ WritePid(p) \/ Choose(p)
              \/ EndDrain(p) \/ Exit(p) \/ Crash(p)
         \/ \E p \in Procs : Emit(p) \/ Shutdown(p)
         \/ \E p \in Procs, n \in Names : Upload(p, n) \/ Unlink(p, n)
         \/ \E stale \in SUBSET (Filled(closed) \cap AlreadyLoaded),
               keys \in SUBSET (Filled(closed) \ AlreadyLoaded) :
              LoadLogs(stale, keys) \/ SaveFails(stale, keys)
         \/ \E n \in Names : MoveKey(n) \/ MoveFails(n)
         \/ NightCrash \/ Tick \/ UNCHANGED vars
<1>1. CASE Night
  BY <1>1 DEF Night
<1>2. CASE Tick \/ UNCHANGED vars
  BY <1>2
<1>3. ASSUME NEW p \in Procs,
             \/ Start(p) \/ UnlinkLock(p) \/ CreateAgain(p) \/ WritePid(p) \/ Choose(p)
             \/ Emit(p) \/ Shutdown(p) \/ EndDrain(p) \/ Exit(p) \/ Crash(p)
             \/ \E n \in Names : Upload(p, n) \/ Unlink(p, n)
      PROVE  \/ \E q \in Procs :
                   \/ Start(q) \/ UnlinkLock(q) \/ CreateAgain(q) \/ WritePid(q) \/ Choose(q)
                   \/ EndDrain(q) \/ Exit(q) \/ Crash(q)
             \/ \E q \in Procs : Emit(q) \/ Shutdown(q)
             \/ \E q \in Procs, n \in Names : Upload(q, n) \/ Unlink(q, n)
  BY <1>3
<1> QED BY <1>1, <1>2, <1>3 DEF Next

-----------------------------------------------------------------------------
(* Types.                                                                  *)

LEMMA LogTypeInit == Init => TypeOK
<1> SUFFICES ASSUME Init PROVE TypeOK
  OBVIOUS
<1>1. \A S : None(S) \in [S -> SUBSET Records]
  BY DEF None
<1>2. active \in [Paths -> SUBSET Records]
  BY <1>1 DEF Init
<1>3. {ready, closed, processed, quarantine} \subseteq [Names -> SUBSET Records]
  BY <1>1 DEF Init
<1>4. now \in 0..MaxNow /\ starts \in 0..MaxStarts /\ lock \in Procs \cup {"none"}
  BY LogConstants DEF Init
<1>5. blank \in BOOLEAN /\ ownLock \subseteq Procs
  BY DEF Init
<1>6. /\ pc \in [Procs -> {"off", "write", "unlink", "create", "refused",
                          "primary", "auxiliary", "mute"}]
      /\ shut \in [Procs -> {"no", "drain", "done"}]
  BY DEF Init
<1>7. /\ written \subseteq Records /\ sent \subseteq Procs \X Names
      /\ rows \subseteq Records \X Names /\ moving \subseteq Names
      /\ used \subseteq Names /\ twice \subseteq Records
  BY DEF Init
<1> QED BY <1>2, <1>3, <1>4, <1>5, <1>6, <1>7 DEF TypeOK

\* What a rotation leaves: the segment's own name, and what it replaces.
LEMMA RotateType ==
  ASSUME TypeOK, NEW f \in Paths, NEW recs \in SUBSET Records, Rotate(f, recs)
  PROVE  /\ active' \in [Paths -> SUBSET Records]
         /\ ready' \in [Names -> SUBSET Records]
         /\ used' \subseteq Names /\ twice' \subseteq Records
<1>1. <<f, now>> \in Names
  BY DEF TypeOK, Names
<1> HIDE DEF Names
<1>2. /\ active \in [Paths -> SUBSET Records] /\ ready \in [Names -> SUBSET Records]
      /\ used \subseteq Names /\ twice \subseteq Records
  BY DEF TypeOK
<1> QED BY <1>1, <1>2 DEF Rotate

\* A process step changes what a process keeps, and the buffer by a rotation.
LEMMA LogTypeClaim ==
  ASSUME TypeOK, NEW p \in Procs,
         \/ Start(p) \/ UnlinkLock(p) \/ CreateAgain(p) \/ WritePid(p) \/ Choose(p)
         \/ EndDrain(p) \/ Exit(p) \/ Crash(p)
  PROVE  TypeOK'
<1> USE LogConstants DEF TypeOK, Goto, BufferOnly, claimVars, nightVars
<1>1. CASE Start(p)
  <2>1. /\ blank' \in BOOLEAN /\ lock' \in Procs \cup {"none"}
        /\ pc' \in [Procs -> {"off", "write", "unlink", "create", "refused",
                             "primary", "auxiliary", "mute"}]
    <3>1. CASE lock = "none"
      BY <1>1, <3>1 DEF Start, Create
    <3>2. CASE lock # "none"
      BY <1>1, <3>2 DEF Start
    <3> QED BY <3>1, <3>2
  <2> QED BY <1>1, <2>1 DEF Start
<1>2. CASE UnlinkLock(p)
  BY <1>2 DEF UnlinkLock
<1>3. CASE CreateAgain(p)
  <2>1. /\ blank' \in BOOLEAN /\ lock' \in Procs \cup {"none"}
        /\ pc' \in [Procs -> {"off", "write", "unlink", "create", "refused",
                             "primary", "auxiliary", "mute"}]
    <3>1. CASE lock = "none"
      BY <1>3, <3>1 DEF CreateAgain, Create
    <3>2. CASE lock # "none"
      BY <1>3, <3>2 DEF CreateAgain
    <3> QED BY <3>1, <3>2
  <2> QED BY <1>3, <2>1 DEF CreateAgain
<1>4. CASE WritePid(p)
  BY <1>4 DEF WritePid
<1>5. CASE Choose(p)
  BY <1>5 DEF Choose
<1>6. CASE EndDrain(p)
  BY <1>6 DEF EndDrain
<1>7. CASE Exit(p)
  BY <1>7 DEF Exit
<1>8. CASE Crash(p)
  BY <1>8 DEF Crash
<1> QED BY <1>1, <1>2, <1>3, <1>4, <1>5, <1>6, <1>7, <1>8

LEMMA LogTypeWrite ==
  ASSUME TypeOK, NEW p \in Procs, Emit(p) \/ Shutdown(p)
  PROVE  TypeOK'
<1> USE LogConstants DEF claimVars, nightVars
<1>1. CASE Emit(p)
  <2>1. PICK k \in 1..MaxRecords :
          /\ written' = written \cup {<<p, k>>}
          /\ \/ /\ active' = [active EXCEPT ![ActivePath(p)] = active[ActivePath(p)] \cup {<<p, k>>}]
                /\ UNCHANGED <<ready, used, twice>>
             \/ Rotate(ActivePath(p), active[ActivePath(p)] \cup {<<p, k>>})
    BY <1>1 DEF Emit
  <2>2. <<p, k>> \in Records /\ ActivePath(p) \in Paths
    BY PathType DEF Records
  <2>3. active[ActivePath(p)] \cup {<<p, k>>} \in SUBSET Records
    BY <2>2 DEF TypeOK
  <2>4. /\ active' \in [Paths -> SUBSET Records]
        /\ ready' \in [Names -> SUBSET Records]
        /\ used' \subseteq Names /\ twice' \subseteq Records
    BY <2>1, <2>2, <2>3, RotateType DEF TypeOK
  <2> QED BY <1>1, <2>1, <2>2, <2>4 DEF Emit, TypeOK
<1>2. CASE Shutdown(p)
  <2>1. Rotate(ActivePath(p), active[ActivePath(p)])
    BY <1>2 DEF Shutdown
  <2>2. /\ active' \in [Paths -> SUBSET Records]
        /\ ready' \in [Names -> SUBSET Records]
        /\ used' \subseteq Names /\ twice' \subseteq Records
    BY <2>1, PathType, RotateType DEF TypeOK
  <2> QED BY <1>2, <2>2 DEF Shutdown, TypeOK
<1> QED BY <1>1, <1>2

LEMMA LogTypeShip ==
  ASSUME TypeOK, NEW p \in Procs, NEW n \in Names, Upload(p, n) \/ Unlink(p, n)
  PROVE  TypeOK'
BY DEF Upload, Unlink, TypeOK, bufferVars, claimVars, nightVars

LEMMA DropType ==
  ASSUME NEW f \in [Names -> SUBSET Records], NEW g \in [Names -> SUBSET Records], NEW K
  PROVE  /\ Drop(f, K) \in [Names -> SUBSET Records]
         /\ Put(f, g, K) \in [Names -> SUBSET Records]
         /\ PutBeside(f, g, K) \in [Names -> SUBSET Records]
BY DEF Drop, Put, PutBeside

LEMMA LogTypeNight ==
  ASSUME TypeOK, NEW stale, NEW keys, LoadLogs(stale, keys) \/ SaveFails(stale, keys)
  PROVE  TypeOK'
<1> DEFINE good == Filled(closed) \ (AlreadyLoaded \cup keys)
<1>1. /\ closed \in [Names -> SUBSET Records] /\ processed \in [Names -> SUBSET Records]
      /\ quarantine \in [Names -> SUBSET Records] /\ rows \subseteq Records \X Names
  BY DEF TypeOK
<1>2. /\ processed' \in [Names -> SUBSET Records] /\ quarantine' \in [Names -> SUBSET Records]
      /\ closed' \in [Names -> SUBSET Records]
  BY <1>1, DropType DEF LoadLogs, SaveFails
<1>3. good \subseteq Names
  BY <1>1 DEF Filled
<1>4. UNION {closed[n] \X {n} : n \in good} \subseteq Records \X Names
  BY <1>1, <1>3
<1>5. rows' \subseteq Records \X Names /\ moving' \subseteq Names
  BY <1>1, <1>3, <1>4 DEF LoadLogs, SaveFails, TypeOK
<1> QED BY <1>2, <1>5 DEF LoadLogs, SaveFails, TypeOK, bufferVars, claimVars

LEMMA LogTypeMove ==
  ASSUME TypeOK, NEW n \in Names, MoveKey(n) \/ MoveFails(n)
  PROVE  TypeOK'
BY DEF MoveKey, MoveFails, TypeOK, bufferVars, claimVars

LEMMA LogTypeStep ==
  ASSUME TypeOK, [Next]_vars PROVE TypeOK'
<1>1. NightCrash \/ Tick \/ UNCHANGED vars => TypeOK'
  BY LogConstants DEF TypeOK, NightCrash, Tick, BufferOnly, vars, bufferVars, claimVars, nightVars
<1> QED BY <1>1, StepCases, LogTypeClaim, LogTypeWrite, LogTypeShip, LogTypeNight, LogTypeMove

(***************************************************************************)
(* Every variable keeps its type: any number of processes, records and     *)
(* seconds.                                                                *)
(***************************************************************************)
THEOREM LogTypeOK == Spec => []TypeOK
BY LogTypeInit, LogTypeStep, PTL DEF Spec

-----------------------------------------------------------------------------
(* The writer lock.                                                        *)

\* At most one process is claiming, a claim is in the lock file from the moment
\* it is created, and nobody unlinks or creates while there is a primary writer.
ClaimInv ==
  /\ \A p, q \in Procs : Claiming(p) /\ Claiming(q) => p = q
  /\ \A p \in Procs : pc[p] = "write" => lock = p /\ blank
  /\ \A p \in Procs : pc[p] = "primary" => lock = p /\ ~blank
  /\ \A p, q \in Procs : pc[p] \in {"unlink", "create"} => pc[q] # "primary"

\* The claims a step may leave as they were: no process starts or claims.
LEMMA ClaimFrame ==
  ASSUME TypeOK, ClaimInv, UNCHANGED <<lock, blank>>,
         NEW p \in Procs, NEW l \in {"off", "auxiliary", "mute", "refused"},
         pc' = [pc EXCEPT ![p] = l] \/ pc' = pc
  PROVE  ClaimInv'
<1>1. \A q \in Procs : pc'[q] = pc[q] \/ pc'[q] = l
  BY DEF TypeOK
<1>2. l \notin {"write", "unlink", "create", "primary"}
  OBVIOUS
<1>3. \A q \in Procs : Claiming(q)' => Claiming(q)
  BY <1>1, <1>2 DEF Claiming
<1> QED BY <1>1, <1>2, <1>3 DEF ClaimInv

LEMMA ClaimStep ==
  ASSUME TypeOK, ClaimInv, ClaimsApart, [Next]_vars
  PROVE  ClaimInv'
<1>0. "none" \notin Procs
  BY LogConstants
<1>1. ASSUME UNCHANGED <<lock, blank, pc>>
      PROVE  ClaimInv'
  BY <1>1 DEF ClaimInv, Claiming
\* A process that creates the file while nobody claims or writes holds it.
<1>2. ASSUME NEW p \in Procs, Create(p), lock = "none",
             \A q \in Procs : Claiming(q) => q = p
      PROVE  ClaimInv'
  <2>1. \A q \in Procs : pc[q] # "primary"
    BY <1>0, <1>2 DEF ClaimInv
  <2>2. lock' = p /\ blank' = TRUE /\ pc'[p] = "write" /\ \A q \in Procs : q # p => pc'[q] = pc[q]
    BY <1>2 DEF Create, Goto, TypeOK
  <2>3. \A q \in Procs : q # p => pc'[q] \notin {"write", "unlink", "create", "primary"}
    BY <1>2, <2>1, <2>2 DEF Claiming
  <2>4. \A q \in Procs : Claiming(q)' => q = p
    BY <2>3 DEF Claiming
  <2> QED BY <2>2, <2>3, <2>4 DEF ClaimInv
<1>3. ASSUME NEW p \in Procs, Start(p) PROVE ClaimInv'
  <2>1. \A q \in Procs : ~Claiming(q)
    BY <1>3 DEF Start
  <2>2. CASE lock = "none"
    BY <1>2, <1>3, <2>1, <2>2 DEF Start
  <2>3. CASE lock # "none" /\ Refused(p)
    <3>1. pc' = [pc EXCEPT ![p] = "refused"] /\ UNCHANGED <<lock, blank>>
      BY <1>3, <2>3 DEF Start, Goto
    <3> QED BY <3>1, ClaimFrame
  <2>4. CASE lock # "none" /\ ~Refused(p)
    <3>1. pc' = [pc EXCEPT ![p] = "unlink"] /\ UNCHANGED <<lock, blank>>
      BY <1>3, <2>4 DEF Start, Goto
    <3>2. \A q \in Procs : pc[q] # "primary"
      <4>1. ASSUME NEW q \in Procs, pc[q] = "primary" PROVE FALSE
        <5>1. HolderPid = q
          BY <4>1 DEF ClaimInv, HolderPid
        <5> QED BY <1>0, <2>4, <4>1, <5>1 DEF Refused, HolderLives, Alive
      <4> QED BY <4>1
    <3>3. \A q \in Procs : q # p => pc'[q] = pc[q]
      BY <3>1 DEF TypeOK
    <3>4. pc'[p] = "unlink"
      BY <3>1 DEF TypeOK
    <3> QED BY <2>1, <3>1, <3>2, <3>3, <3>4 DEF ClaimInv, Claiming
  <2> QED BY <2>2, <2>3, <2>4
<1>4. ASSUME NEW p \in Procs, UnlinkLock(p) PROVE ClaimInv'
  <2>1. pc[p] = "unlink" /\ pc'[p] = "create" /\ \A q \in Procs : q # p => pc'[q] = pc[q]
    BY <1>4 DEF UnlinkLock, Goto, TypeOK
  <2>2. \A q \in Procs : pc[q] # "primary"
    BY <2>1 DEF ClaimInv
  <2>3. \A q \in Procs : q # p => ~Claiming(q)
    BY <2>1 DEF ClaimInv, Claiming
  <2> QED BY <2>1, <2>2, <2>3 DEF ClaimInv, Claiming
<1>5. ASSUME NEW p \in Procs, CreateAgain(p) PROVE ClaimInv'
  <2>1. pc[p] = "create"
    BY <1>5 DEF CreateAgain
  <2>2. CASE lock = "none"
    <3>1. \A q \in Procs : Claiming(q) => q = p
      BY <2>1 DEF ClaimInv, Claiming
    <3> QED BY <1>2, <1>5, <2>2, <3>1 DEF CreateAgain
  <2>3. CASE lock # "none"
    <3>1. pc' = [pc EXCEPT ![p] = "refused"] /\ UNCHANGED <<lock, blank>>
      BY <1>5, <2>3 DEF CreateAgain, Goto
    <3> QED BY <3>1, ClaimFrame
  <2> QED BY <2>2, <2>3
<1>6. ASSUME NEW p \in Procs, WritePid(p) PROVE ClaimInv'
  <2>1. /\ pc[p] = "write" /\ pc'[p] = "primary" /\ lock' = lock /\ lock = p
        /\ \A q \in Procs : q # p => pc'[q] = pc[q]
    BY <1>6 DEF WritePid, Goto, TypeOK, ClaimInv
  <2>2. blank' = FALSE
    BY <1>6, <2>1 DEF WritePid
  <2>3. \A q \in Procs : q # p => pc[q] # "primary" /\ ~Claiming(q)
    BY <2>1 DEF ClaimInv, Claiming
  <2>4. \A q \in Procs : ~Claiming(q)'
    BY <2>1, <2>3 DEF Claiming
  <2> QED BY <2>1, <2>2, <2>3, <2>4 DEF ClaimInv, Claiming
<1>7. ASSUME NEW p \in Procs, Choose(p) PROVE ClaimInv'
  <2>1. /\ UNCHANGED <<lock, blank>>
        /\ \E l \in {"off", "auxiliary", "mute"} : pc' = [pc EXCEPT ![p] = l]
    BY <1>7 DEF Choose, Goto
  <2> QED BY <2>1, ClaimFrame
<1>8. ASSUME NEW p \in Procs, Exit(p) PROVE ClaimInv'
  <2>1. pc' = [pc EXCEPT ![p] = "off"] /\ blank' = blank
    BY <1>8 DEF Exit, Goto
  <2>2. CASE lock' = lock
    BY <2>1, <2>2, ClaimFrame
  <2>3. CASE lock' # lock
    <3>1. pc[p] = "primary" /\ lock = p
      BY <1>8, <2>3 DEF Exit, ClaimInv
    <3>2. \A q \in Procs : pc[q] # "write" /\ (q # p => pc[q] # "primary")
      BY <3>1 DEF ClaimInv
    <3>3. pc'[p] = "off" /\ \A q \in Procs : q # p => pc'[q] = pc[q]
      BY <2>1 DEF TypeOK
    <3> QED BY <3>2, <3>3 DEF ClaimInv, Claiming
  <2> QED BY <2>2, <2>3
<1>9. ASSUME NEW p \in Procs, Crash(p) PROVE ClaimInv'
  <2>1. pc' = [pc EXCEPT ![p] = "off"] /\ UNCHANGED <<lock, blank>>
    BY <1>9 DEF Crash, Goto, claimVars
  <2> QED BY <2>1, ClaimFrame
<1>10. ASSUME NEW p \in Procs, Emit(p) \/ Shutdown(p) \/ EndDrain(p) PROVE ClaimInv'
  BY <1>1, <1>10 DEF Emit, Shutdown, EndDrain, claimVars
<1>11. ASSUME NEW p \in Procs, NEW n \in Names, Upload(p, n) \/ Unlink(p, n) PROVE ClaimInv'
  BY <1>1, <1>11 DEF Upload, Unlink, bufferVars, claimVars
<1>12. ASSUME NEW stale, NEW keys, LoadLogs(stale, keys) \/ SaveFails(stale, keys) PROVE ClaimInv'
  BY <1>1, <1>12 DEF LoadLogs, SaveFails, bufferVars, claimVars
<1>13. ASSUME NEW n \in Names, MoveKey(n) \/ MoveFails(n) PROVE ClaimInv'
  BY <1>1, <1>13 DEF MoveKey, MoveFails, bufferVars, claimVars
<1>14. ASSUME NightCrash \/ Tick \/ UNCHANGED vars PROVE ClaimInv'
  BY <1>1, <1>14 DEF NightCrash, Tick, vars, bufferVars, claimVars
<1> QED BY <1>3, <1>4, <1>5, <1>6, <1>7, <1>8, <1>9, <1>10, <1>11, <1>12, <1>13, <1>14, StepCases

(***************************************************************************)
(* One process writes app.log at a time and its pid stays in the lock file, *)
(* for any processes that start one after the other, crash at any point    *)
(* and come back under the same pid.                                       *)
(***************************************************************************)
THEOREM OneWriterOfAppLog == ASSUME ClaimsApart PROVE Spec => []OneAppWriter
<1>1. Init => ClaimInv
  BY DEF Init, ClaimInv, Claiming
<1>2. TypeOK /\ ClaimInv /\ [Next]_vars => ClaimInv'
  BY ClaimStep
<1>3. ClaimInv => OneAppWriter
  BY DEF ClaimInv, OneAppWriter
<1> QED BY <1>1, <1>2, <1>3, LogTypeOK, PTL DEF Spec

-----------------------------------------------------------------------------
(* The way of a record.                                                    *)

\* What may lie under one name in the buffer, in storage and in the table: an
\* object is at least the segment it was uploaded from, and once the name is in
\* the table its records are, except those of segments that shared the name.
SegmentInv(n) ==
  /\ n \notin used => ready[n] = {} /\ closed[n] = {} /\ n \notin AlreadyLoaded
  /\ closed[n] # {} => ready[n] \subseteq closed[n] \cup twice
  /\ n \in AlreadyLoaded => ready[n] \cup closed[n] \subseteq Loaded \cup twice
  /\ processed[n] \subseteq Loaded \cup twice

\* A segment about to be unlinked is somewhere else.
SentInv ==
  \A p \in Procs, n \in Names : <<p, n>> \in sent =>
    /\ n \in used
    /\ ready[n] \subseteq closed[n] \cup quarantine[n] \cup Loaded \cup twice

Kept(r) ==
  \/ \E f \in Paths : r \in active[f]
  \/ \E n \in Names : r \in ready[n] \cup closed[n] \cup quarantine[n]
  \/ r \in Loaded \cup twice

BufferInv ==
  /\ \A n \in Names : SegmentInv(n)
  /\ SentInv
  /\ moving \subseteq AlreadyLoaded
  /\ \A r \in written : Kept(r)

LEMMA BufferTypes ==
  ASSUME TypeOK
  PROVE  /\ active \in [Paths -> SUBSET Records] /\ ready \in [Names -> SUBSET Records]
         /\ closed \in [Names -> SUBSET Records] /\ processed \in [Names -> SUBSET Records]
         /\ quarantine \in [Names -> SUBSET Records]
         /\ sent \subseteq Procs \X Names /\ rows \subseteq Records \X Names
         /\ moving \subseteq Names /\ used \subseteq Names
BY DEF TypeOK

\* The table does not change, and nothing else but uploads that are given up
\* and keys no longer to be moved.
LEMMA BufferFrame ==
  ASSUME BufferInv, sent' \subseteq sent, moving' \subseteq moving,
         UNCHANGED <<active, ready, closed, processed, quarantine, rows, used, twice, written>>
  PROVE  BufferInv'
BY DEF BufferInv, SegmentInv, SentInv, Kept, AlreadyLoaded, Loaded

\* A rotation keeps what the file held, and what a segment it replaces held
\* counts as rotated twice.
LEMMA RotateStep ==
  ASSUME TypeOK, BufferInv, NEW f \in Paths, NEW recs \in SUBSET Records, active[f] \subseteq recs,
         \/ active' = [active EXCEPT ![f] = recs] /\ UNCHANGED <<ready, used, twice>>
         \/ Rotate(f, recs),
         UNCHANGED <<sent, closed, processed, quarantine, rows, moving>>
  PROVE  /\ \A n \in Names : SegmentInv(n)'
         /\ SentInv'
         /\ moving' \subseteq AlreadyLoaded'
         /\ \A r : Kept(r) \/ r \in recs => Kept(r)'
<1> USE BufferTypes
<1>0. AlreadyLoaded' = AlreadyLoaded /\ Loaded' = Loaded
  BY DEF AlreadyLoaded, Loaded
<1>1. CASE /\ active' = [active EXCEPT ![f] = recs] \/ (recs \subseteq active[f] /\ active' = active)
           /\ UNCHANGED <<ready, used, twice>>
  <2>1. /\ \A n \in Names : SegmentInv(n)'
        /\ SentInv' /\ moving' \subseteq AlreadyLoaded'
    BY <1>0, <1>1 DEF BufferInv, SegmentInv, SentInv
  <2>2. \A g \in Paths : active[g] \subseteq active'[g]
    BY <1>1
  <2>3. recs \subseteq active'[f]
    BY <1>1
  <2>4. \A r : Kept(r) \/ r \in recs => Kept(r)'
    BY <1>0, <1>1, <2>2, <2>3 DEF Kept
  <2> QED BY <2>1, <2>4
<1>2. CASE Rotate(f, recs) /\ recs # {}
  <2> DEFINE name == <<f, now>>
  <2>1. name \in Names
    BY DEF TypeOK, Names
  <2>2. /\ active' = [active EXCEPT ![f] = {}] /\ ready' = [ready EXCEPT ![name] = recs]
        /\ used' = used \cup {name}
        /\ twice' = IF name \in used THEN twice \cup recs \cup ready[name] ELSE twice
    BY <1>2 DEF Rotate
  <2> HIDE DEF name
  <2>3. /\ ready'[name] = recs /\ \A n \in Names : n # name => ready'[n] = ready[n]
        /\ \A g \in Paths : g # f => active'[g] = active[g]
    BY <2>1, <2>2
  <2>4. twice \subseteq twice' /\ (name \in used => recs \cup ready[name] \subseteq twice')
    BY <2>2
  <2>5. name \notin used => ready[name] = {} /\ closed[name] = {} /\ name \notin AlreadyLoaded
    BY <2>1 DEF BufferInv, SegmentInv
  <2>6. ASSUME NEW n \in Names PROVE SegmentInv(n)'
    <3>1. SegmentInv(n)
      BY DEF BufferInv
    <3>2. CASE n # name
      BY <1>0, <2>2, <2>3, <2>4, <3>1, <3>2 DEF SegmentInv
    <3>3. CASE n = name /\ name \in used
      BY <1>0, <2>2, <2>3, <2>4, <3>1, <3>3 DEF SegmentInv
    <3>4. CASE n = name /\ name \notin used
      BY <1>0, <2>2, <2>3, <2>4, <2>5, <3>1, <3>4 DEF SegmentInv
    <3> QED BY <3>2, <3>3, <3>4
  <2>7. SentInv'
    <3>1. SUFFICES ASSUME NEW p \in Procs, NEW n \in Names, <<p, n>> \in sent
                   PROVE  /\ n \in used'
                          /\ ready'[n] \subseteq closed[n] \cup quarantine[n] \cup Loaded \cup twice'
      BY <1>0 DEF SentInv
    <3>2. /\ n \in used
          /\ ready[n] \subseteq closed[n] \cup quarantine[n] \cup Loaded \cup twice
      BY <3>1 DEF BufferInv, SentInv
    <3>3. CASE n = name
      BY <2>2, <2>3, <2>4, <3>2, <3>3
    <3>4. CASE n # name
      BY <2>2, <2>3, <2>4, <3>2, <3>4
    <3> QED BY <3>3, <3>4
  <2>8. \A r : Kept(r) \/ r \in recs => Kept(r)'
    <3>1. ASSUME NEW r \in recs PROVE Kept(r)'
      BY <2>1, <2>3, <3>1 DEF Kept
    <3>2. ASSUME NEW r, r \notin recs, Kept(r) PROVE Kept(r)'
      <4>1. CASE \E g \in Paths : r \in active[g]
        BY <2>3, <3>2, <4>1 DEF Kept
      <4>2. ASSUME NEW n \in Names, r \in ready[n] PROVE Kept(r)'
        BY <2>3, <2>4, <2>5, <4>2 DEF Kept
      <4>3. CASE (\E n \in Names : r \in closed[n] \cup quarantine[n]) \/ r \in Loaded \cup twice
        BY <1>0, <2>4, <4>3 DEF Kept
      <4> QED BY <3>2, <4>1, <4>2, <4>3 DEF Kept
    <3> QED BY <3>1, <3>2
  <2>9. moving' \subseteq AlreadyLoaded'
    BY <1>0 DEF BufferInv
  <2> QED BY <2>6, <2>7, <2>8, <2>9
<1> QED BY <1>1, <1>2 DEF Rotate

LEMMA BufferWrite ==
  ASSUME TypeOK, BufferInv, NEW p \in Procs, Emit(p) \/ Shutdown(p)
  PROVE  BufferInv'
<1> DEFINE f == ActivePath(p)
<1>1. f \in Paths
  BY PathType
<1> HIDE DEF f
<1>2. CASE Emit(p)
  <2>1. PICK k \in 1..MaxRecords :
          /\ written' = written \cup {<<p, k>>}
          /\ \/ /\ active' = [active EXCEPT ![f] = active[f] \cup {<<p, k>>}]
                /\ UNCHANGED <<ready, used, twice>>
             \/ Rotate(f, active[f] \cup {<<p, k>>})
    BY <1>2 DEF Emit, f
  <2> DEFINE recs == active[f] \cup {<<p, k>>}
  <2>2. recs \in SUBSET Records
    BY <1>1, BufferTypes DEF Records
  <2>3. active[f] \subseteq recs /\ <<p, k>> \in recs
    OBVIOUS
  <2>4. UNCHANGED <<sent, closed, processed, quarantine, rows, moving>>
    BY <1>2 DEF Emit, nightVars
  <2>5. \/ active' = [active EXCEPT ![f] = recs] /\ UNCHANGED <<ready, used, twice>>
        \/ Rotate(f, recs)
    BY <2>1
  <2> HIDE DEF recs
  <2>6. /\ \A n \in Names : SegmentInv(n)'
        /\ SentInv'
        /\ moving' \subseteq AlreadyLoaded'
        /\ \A r : Kept(r) \/ r \in recs => Kept(r)'
    BY <1>1, <2>2, <2>3, <2>4, <2>5, RotateStep
  <2> QED BY <2>1, <2>3, <2>6 DEF BufferInv
<1>3. CASE Shutdown(p)
  <2>1. Rotate(f, active[f]) /\ written' = written
    BY <1>3 DEF Shutdown, f
  <2>2. UNCHANGED <<sent, closed, processed, quarantine, rows, moving>>
    BY <1>3 DEF Shutdown, nightVars
  <2>3. active[f] \in SUBSET Records
    BY <1>1, BufferTypes
  <2>4. /\ \A n \in Names : SegmentInv(n)'
        /\ SentInv'
        /\ moving' \subseteq AlreadyLoaded'
        /\ \A r : Kept(r) => Kept(r)'
    BY <1>1, <2>1, <2>2, <2>3, RotateStep
  <2> QED BY <2>1, <2>4 DEF BufferInv
<1> QED BY <1>2, <1>3

LEMMA BufferShip ==
  ASSUME TypeOK, BufferInv, NEW p \in Procs, NEW n \in Names, Upload(p, n) \/ Unlink(p, n)
  PROVE  BufferInv'
<1> USE BufferTypes
<1>0. /\ UNCHANGED <<active, quarantine, processed, rows, used, twice, written, moving>>
      /\ AlreadyLoaded' = AlreadyLoaded /\ Loaded' = Loaded
  BY DEF Upload, Unlink, bufferVars, nightVars, AlreadyLoaded, Loaded
<1>1. SegmentInv(n) /\ \A m \in Names : SegmentInv(m)
  BY DEF BufferInv
<1>2. CASE Upload(p, n)
  <2>1. /\ ready' = ready /\ sent' = sent \cup {<<p, n>>} /\ ready[n] # {} /\ closed[n] = {}
        /\ closed'[n] = ready[n] /\ \A m \in Names : m # n => closed'[m] = closed[m]
    BY <1>2 DEF Upload, KeyIsFree
  <2>2. n \in used
    BY <1>1, <2>1 DEF SegmentInv
  <2>3. ASSUME NEW m \in Names PROVE SegmentInv(m)'
    BY <1>0, <1>1, <2>1, <2>2 DEF SegmentInv
  <2>4. SentInv'
    <3>1. SUFFICES ASSUME NEW q \in Procs, NEW m \in Names, <<q, m>> \in sent'
                   PROVE  /\ m \in used
                          /\ ready[m] \subseteq closed'[m] \cup quarantine[m] \cup Loaded \cup twice
      BY <1>0, <2>1 DEF SentInv
    <3>2. CASE m = n
      BY <2>1, <2>2, <3>2
    <3>3. CASE m # n
      <4>1. <<q, m>> \in sent
        BY <2>1, <3>1, <3>3
      <4> QED BY <2>1, <3>3, <4>1 DEF BufferInv, SentInv
    <3> QED BY <3>2, <3>3
  <2>5. \A r \in written' : Kept(r)'
    BY <1>0, <2>1 DEF BufferInv, Kept
  <2> QED BY <1>0, <2>3, <2>4, <2>5 DEF BufferInv
<1>3. CASE Unlink(p, n)
  <2>1. /\ closed' = closed /\ sent' \subseteq sent /\ <<p, n>> \in sent
        /\ ready'[n] = {} /\ \A m \in Names : m # n => ready'[m] = ready[m]
    BY <1>3 DEF Unlink
  <2>2. ready[n] \subseteq closed[n] \cup quarantine[n] \cup Loaded \cup twice
    BY <2>1 DEF BufferInv, SentInv
  <2>3. ASSUME NEW m \in Names PROVE SegmentInv(m)'
    BY <1>0, <1>1, <2>1 DEF SegmentInv
  <2>4. SentInv'
    BY <1>0, <2>1 DEF BufferInv, SentInv
  <2>5. ASSUME NEW r \in written PROVE Kept(r)'
    <3>1. CASE r \in ready[n]
      BY <1>0, <2>1, <2>2, <3>1 DEF Kept
    <3>2. CASE r \notin ready[n]
      BY <1>0, <2>1, <3>2 DEF BufferInv, Kept
    <3> QED BY <3>1, <3>2
  <2> QED BY <1>0, <2>3, <2>4, <2>5 DEF BufferInv
<1> QED BY <1>2, <1>3

\* What a save adds to the table: the keys it read, with all their records.
LEMMA LoadedRows ==
  ASSUME TypeOK, NEW good \in SUBSET Filled(closed),
         rows' = rows \cup UNION {closed[n] \X {n} : n \in good}
  PROVE  /\ Loaded \subseteq Loaded' /\ \A n \in good : closed[n] \subseteq Loaded'
         /\ AlreadyLoaded' = AlreadyLoaded \cup good
<1>1. good \subseteq Names /\ \A n \in good : closed[n] # {}
  BY BufferTypes DEF Filled
<1>2. ASSUME NEW n \in good, NEW r \in closed[n]
      PROVE  r \in Loaded' /\ n \in AlreadyLoaded'
  <2>1. <<r, n>> \in rows'
    BY <1>2
  <2>2. <<r, n>>[1] = r /\ <<r, n>>[2] = n
    OBVIOUS
  <2> QED BY <2>1, <2>2 DEF Loaded, AlreadyLoaded
<1>3. Loaded \subseteq Loaded' /\ AlreadyLoaded \subseteq AlreadyLoaded'
  BY DEF Loaded, AlreadyLoaded
<1>4. ASSUME NEW m \in AlreadyLoaded' PROVE m \in AlreadyLoaded \cup good
  <2>1. PICK row \in rows' : m = row[2]
    BY DEF AlreadyLoaded
  <2>2. CASE row \in rows
    BY <2>1, <2>2 DEF AlreadyLoaded
  <2>3. CASE \E n \in good : row \in closed[n] \X {n}
    BY <2>1, <2>3
  <2> QED BY <2>2, <2>3
<1> QED BY <1>1, <1>2, <1>3, <1>4

\* Both ends of the nightly save, on the keys it leaves, archives and quarantines.
LEMMA BufferNight ==
  ASSUME TypeOK, BufferInv,
         NEW stale \in SUBSET (Filled(closed) \cap AlreadyLoaded),
         NEW keys \in SUBSET (Filled(closed) \ AlreadyLoaded),
         LoadLogs(stale, keys) \/ SaveFails(stale, keys)
  PROVE  BufferInv'
<1> USE BufferTypes
<1>1. /\ UNCHANGED <<active, ready, sent, used, twice, written>>
      /\ closed' = Drop(closed, stale \cup keys)
      /\ processed' = Put(processed, closed, stale)
      /\ quarantine' = PutBeside(quarantine, closed, keys)
  BY DEF LoadLogs, SaveFails, bufferVars
<1>2. /\ Loaded \subseteq Loaded'
      /\ AlreadyLoaded \subseteq AlreadyLoaded'
      /\ moving' \subseteq AlreadyLoaded'
      /\ \A n \in Names : n \in AlreadyLoaded' \ AlreadyLoaded =>
            closed[n] \subseteq Loaded' /\ closed[n] # {}
  <2>1. CASE LoadLogs(stale, keys)
    <3> DEFINE good == Filled(closed) \ (AlreadyLoaded \cup keys)
    <3>1. rows' = rows \cup UNION {closed[n] \X {n} : n \in good} /\ moving' = good
      BY <2>1 DEF LoadLogs
    <3>2. /\ Loaded \subseteq Loaded' /\ \A n \in good : closed[n] \subseteq Loaded'
          /\ AlreadyLoaded' = AlreadyLoaded \cup good
      BY <3>1, LoadedRows
    <3> QED BY <3>1, <3>2 DEF Filled
  <2>2. CASE SaveFails(stale, keys)
    <3>1. rows' = rows /\ moving' = moving
      BY <2>2 DEF SaveFails
    <3>2. Loaded' = Loaded /\ AlreadyLoaded' = AlreadyLoaded
      BY <3>1 DEF Loaded, AlreadyLoaded
    <3> QED BY <3>1, <3>2 DEF BufferInv
  <2> QED BY <2>1, <2>2
<1>3. \A n \in Names :
        /\ closed'[n] = IF n \in stale \cup keys THEN {} ELSE closed[n]
        /\ processed'[n] = IF n \in stale THEN closed[n] ELSE processed[n]
        /\ quarantine'[n] = IF n \in keys THEN quarantine[n] \cup closed[n] ELSE quarantine[n]
  <2>1. \A n \in Names : closed'[n] = IF n \in stale \cup keys THEN {} ELSE closed[n]
    BY <1>1 DEF Drop
  <2>2. \A n \in Names : processed'[n] = IF n \in stale THEN closed[n] ELSE processed[n]
    BY <1>1 DEF Put
  <2>3. \A n \in Names : quarantine'[n] = IF n \in keys THEN quarantine[n] \cup closed[n] ELSE quarantine[n]
    BY <1>1 DEF PutBeside
  <2> QED BY <2>1, <2>2, <2>3
<1>4. \A n \in stale : n \in Names /\ n \in AlreadyLoaded
  BY DEF Filled
<1>5. ASSUME NEW n \in Names PROVE SegmentInv(n)'
  <2>1. SegmentInv(n)
    BY DEF BufferInv
  <2>2. n \notin used' => n \notin AlreadyLoaded'
    BY <1>1, <1>2, <2>1 DEF SegmentInv
  <2>3. processed'[n] \subseteq Loaded' \cup twice'
    BY <1>1, <1>2, <1>3, <1>4, <2>1 DEF SegmentInv
  <2>4. n \in AlreadyLoaded' => ready[n] \cup closed[n] \subseteq Loaded' \cup twice
    BY <1>2, <2>1 DEF SegmentInv
  <2> QED BY <1>1, <1>3, <2>1, <2>2, <2>3, <2>4 DEF SegmentInv
<1>6. ASSUME NEW n \in Names
      PROVE  closed[n] \subseteq closed'[n] \cup quarantine'[n] \cup Loaded' \cup twice
  <2>1. CASE n \in stale
    <3>1. closed[n] \subseteq Loaded \cup twice
      BY <1>4, <2>1 DEF BufferInv, SegmentInv
    <3> QED BY <1>2, <3>1
  <2>2. CASE n \notin stale
    BY <1>3, <2>2
  <2> QED BY <2>1, <2>2
<1>7. \A n \in Names : quarantine[n] \subseteq quarantine'[n]
  BY <1>3
<1>8. SentInv'
  <2>1. SUFFICES ASSUME NEW p \in Procs, NEW n \in Names, <<p, n>> \in sent
                 PROVE  /\ n \in used
                        /\ ready[n] \subseteq closed'[n] \cup quarantine'[n] \cup Loaded' \cup twice
    BY <1>1 DEF SentInv
  <2>2. n \in used /\ ready[n] \subseteq closed[n] \cup quarantine[n] \cup Loaded \cup twice
    BY <2>1 DEF BufferInv, SentInv
  <2> QED BY <1>2, <1>6, <1>7, <2>2
<1>9. ASSUME NEW r \in written PROVE Kept(r)'
  <2>1. Kept(r)
    BY DEF BufferInv
  <2> QED BY <1>1, <1>2, <1>6, <1>7, <2>1 DEF Kept
<1> QED BY <1>1, <1>2, <1>5, <1>8, <1>9 DEF BufferInv

LEMMA BufferMove ==
  ASSUME TypeOK, BufferInv, NEW n \in Names, MoveKey(n) \/ MoveFails(n)
  PROVE  BufferInv'
<1> USE BufferTypes
<1>1. /\ UNCHANGED <<active, ready, sent, used, twice, written, quarantine, rows>>
      /\ AlreadyLoaded' = AlreadyLoaded /\ Loaded' = Loaded
      /\ n \in moving /\ moving' \subseteq moving
  BY DEF MoveKey, MoveFails, bufferVars, AlreadyLoaded, Loaded
<1>2. /\ \A m \in Names : m # n => closed'[m] = closed[m] /\ processed'[m] = processed[m]
      /\ closed'[n] \in {{}, closed[n]} /\ processed'[n] \in {processed[n], closed[n]}
  BY DEF MoveKey, MoveFails
<1>3. n \in AlreadyLoaded /\ ready[n] \cup closed[n] \subseteq Loaded \cup twice
  BY <1>1 DEF BufferInv, SegmentInv
<1>4. ASSUME NEW m \in Names PROVE SegmentInv(m)'
  BY <1>1, <1>2, <1>3 DEF BufferInv, SegmentInv
<1>5. SentInv'
  <2>1. SUFFICES ASSUME NEW p \in Procs, NEW m \in Names, <<p, m>> \in sent
                 PROVE  /\ m \in used
                        /\ ready[m] \subseteq closed'[m] \cup quarantine[m] \cup Loaded \cup twice
    BY <1>1 DEF SentInv
  <2> QED BY <1>2, <1>3, <2>1 DEF BufferInv, SentInv
<1>6. ASSUME NEW r \in written PROVE Kept(r)'
  <2>1. Kept(r)
    BY DEF BufferInv
  <2> QED BY <1>1, <1>2, <1>3, <2>1 DEF Kept
<1> QED BY <1>1, <1>4, <1>5, <1>6 DEF BufferInv

LEMMA BufferStep ==
  ASSUME TypeOK, BufferInv, [Next]_vars PROVE BufferInv'
<1>1. ASSUME NEW p \in Procs,
             \/ Start(p) \/ UnlinkLock(p) \/ CreateAgain(p) \/ WritePid(p) \/ Choose(p)
             \/ EndDrain(p) \/ Exit(p) \/ Crash(p)
      PROVE  BufferInv'
  <2>1. /\ UNCHANGED <<active, ready, closed, processed, quarantine, rows, used, twice, written, moving>>
        /\ sent' \subseteq sent
    BY <1>1 DEF Start, UnlinkLock, CreateAgain, WritePid, Choose, EndDrain, Exit, Crash, BufferOnly,
      nightVars
  <2> QED BY <2>1, BufferFrame
<1>2. CASE NightCrash \/ Tick \/ UNCHANGED vars
  <2>1. /\ UNCHANGED <<active, ready, closed, processed, quarantine, rows, used, twice, written, sent>>
        /\ moving' \subseteq moving
    BY <1>2 DEF NightCrash, Tick, BufferOnly, vars, bufferVars, nightVars
  <2> QED BY <2>1, BufferFrame
<1> QED BY <1>1, <1>2, StepCases, BufferWrite, BufferShip, BufferNight, BufferMove

LEMMA BufferInvariant == Spec => []BufferInv
<1>1. Init => BufferInv
  <2> SUFFICES ASSUME Init PROVE BufferInv
    OBVIOUS
  <2>1. \A n \in Names : ready[n] = {} /\ closed[n] = {} /\ processed[n] = {}
    BY DEF Init, None
  <2>2. AlreadyLoaded = {} /\ written = {} /\ sent = {} /\ moving = {}
    BY DEF Init, AlreadyLoaded
  <2> QED BY <2>1, <2>2 DEF BufferInv, SegmentInv, SentInv
<1>2. TypeOK /\ BufferInv /\ [Next]_vars => BufferInv'
  BY BufferStep
<1> QED BY <1>1, <1>2, LogTypeOK, PTL DEF Spec

(***************************************************************************)
(* A record a process has written is in the buffer, in storage or in the   *)
(* table ever after: whatever crashes, is uploaded twice, fails to be      *)
(* saved or moved, and with any number of writers of app.log at once.      *)
(***************************************************************************)
THEOREM NoRecordLost == Spec => []NothingLost
<1>1. TypeOK /\ BufferInv => NothingLost
  <2> SUFFICES ASSUME TypeOK, BufferInv, NEW r \in written
               PROVE  r \in All(active) \cup All(ready) \cup All(closed) \cup All(quarantine)
                             \cup Loaded \cup twice
    BY DEF NothingLost
  <2>1. Kept(r)
    BY DEF BufferInv
  <2> QED BY <2>1, BufferTypes DEF Kept, All
<1> QED BY <1>1, LogTypeOK, BufferInvariant, PTL

(***************************************************************************)
(* What is archived, where nothing reads it again, has been loaded into    *)
(* raw_logs: keys skipped as loaded, keys moved late and keys moved twice  *)
(* included.                                                               *)
(***************************************************************************)
THEOREM ArchiveIsLoaded == Spec => []ArchivedIsLoaded
<1>1. TypeOK /\ BufferInv => ArchivedIsLoaded
  BY BufferTypes DEF BufferInv, SegmentInv, ArchivedIsLoaded, All
<1> QED BY <1>1, LogTypeOK, BufferInvariant, PTL
=============================================================================
