------------------------ MODULE TrainingRoundProofs ------------------------
(***************************************************************************)
(* Proofs about TrainingRound, for any games, any number of versions and   *)
(* any minimum and limit.  A mark says "in the served model"; it stays     *)
(* true because a round fits from a parent that knows every game marked,   *)
(* and for the user that is what the alignment with the parent baseline is *)
(* for: AlignInv follows it through the platform's steps.                  *)
(***************************************************************************)
EXTENDS TrainingRound, TLAPS

USE TrainingRoundAssumption

\* The round has a parent and a batch.
Holding(p) == pc[p] \in {"record", "decide", "apply", "promote", "mark", "reject"}

\* It has inserted its candidate as well.
Recorded(p) == Holding(p) /\ pc[p] # "record"

\* What the parts about the marks rest on; the others hold without it.
Careful == AtomicPromotion /\ StableAlign

\* The part of the invariant a scope keeps alone.
ScopeInv(p) ==
    /\ \A v, w \in Served(p) : v = w
    /\ Careful /\ pc[p] # "promote" /\ mark[p] # {} =>
         \E v \in Served(p) : mark[p] \subseteq model[p][v].weights
    /\ Careful /\ Holding(p) => mark[p] \subseteq copy[p].weights
    /\ Recorded(p) =>
         /\ cand[p] \in Versions
         /\ copy[p].weights \cup batch[p] \subseteq model[p][cand[p]].weights
         /\ p = "user" => model[p][cand[p]].lineage = copy[p].lineage
         /\ parent[p].kind = p => parent[p].key # cand[p]
    /\ pc[p] = "mark" => cand[p] \in Served(p)
    /\ pc[p] = "promote" => Served(p) \subseteq {cand[p]}
    /\ Holding(p) /\ parent[p].kind = p =>
         /\ parent[p].key \in Versions
         /\ model[p][parent[p].key].status # "none"
         /\ pc[p] \in {"record", "decide"} => Served(p) \subseteq {parent[p].key}
         /\ pc[p] = "apply" => Served(p) \subseteq {parent[p].key, cand[p]}

\* The user's marks are in the served model, or there are none, or that model
\* descends from b.
Continues(b) == mark["user"] = {} \/ \A u \in Served("user") : model["user"][u].lineage = b

\* The parts that tie the user's queue to the platform's parent baseline.
RowsInv ==
    \A v \in Versions :
      /\ model["platform"][v].status = "none" =>
           model["platform"][v].pointer = "no" /\ v # aligned /\ v # seen
      /\ model["platform"][v].status # "none" => model["platform"][v].lineage = v

\* A new platform row has never been the parent baseline, nor been aligned to.
CandInv ==
    Recorded("platform") \/ pc["platform"] \in {"adopt", "clear"} =>
      /\ cand["platform"] \in Versions
      /\ model["platform"][cand["platform"]].status # "none"
      /\ model["platform"][cand["platform"]].pointer = "no"
      /\ cand["platform"] # aligned /\ cand["platform"] # seen

\* Archiving the copy of the parent brings back no pointer.
CopyInv ==
    Holding("platform") /\ parent["platform"].kind = "platform" =>
      /\ copy["platform"].lineage = parent["platform"].key
      /\ copy["platform"].pointer = "yes" =>
           model["platform"][parent["platform"].key].pointer = "yes"

StampInv == Careful /\ pc["user"] = "stamp" => seen # 0 /\ Holders \subseteq {seen} /\ Continues(seen)
PrepareInv == Careful /\ pc["user"] = "prepare" => \A b \in Holders : Continues(b)
AlignedInv == Careful /\ aligned \in Holders => Continues(aligned)
FlightInv == Holding("user") /\ aligned \in Holders => copy["user"].lineage = aligned
UserInv == mark["user"] \subseteq UserGames /\ (Holding("user") => batch["user"] \subseteq UserGames)

AlignInv ==
    /\ OnePointer
    /\ RowsInv /\ CandInv /\ CopyInv
    /\ StampInv /\ PrepareInv /\ AlignedInv /\ FlightInv /\ UserInv

Inv == TypeOK /\ (\A p \in Scopes : ScopeInv(p)) /\ AlignInv

-----------------------------------------------------------------------------
\* Writing one row leaves the others alone.
LEMMA WriteType ==
  ASSUME TypeOK, NEW p \in Scopes, NEW v, NEW row, v \in Versions => row \in Row,
         Write(p, v, row)
  PROVE  model' \in [Scopes -> [Versions -> Row]]
BY DEF TypeOK, Write

LEMMA WriteRow ==
  ASSUME TypeOK, NEW p \in Scopes, NEW v \in Versions, NEW row, Write(p, v, row)
  PROVE  /\ model'[p][v] = row
         /\ \A q \in Scopes, w \in Versions : q # p \/ w # v => model'[q][w] = model[q][w]
         /\ \A q \in Scopes : q # p => model'[q] = model[q]
BY DEF TypeOK, Write

LEMMA RowFields ==
  ASSUME NEW r \in Row
  PROVE  /\ r.status \in Statuses /\ r.pointer \in {"yes", "no"}
         /\ r.lineage \in 0..MaxVersion /\ r.weights \subseteq Games
BY DEF Row

LEMMA RowUpdates ==
  ASSUME NEW r \in Row
  PROVE  /\ [r EXCEPT !.status = "archived"] \in Row
         /\ [r EXCEPT !.status = "production"] \in Row
         /\ [r EXCEPT !.pointer = "yes"] \in Row
         /\ [r EXCEPT !.pointer = "no"] \in Row
BY DEF Row, Statuses

LEMMA RowOfModel ==
  ASSUME TypeOK, NEW p \in Scopes, NEW v \in Versions
  PROVE  /\ model[p][v] \in Row
         /\ [model[p][v] EXCEPT !.status = "archived"] \in Row
         /\ [model[p][v] EXCEPT !.status = "production"] \in Row
         /\ [model[p][v] EXCEPT !.pointer = "yes"] \in Row
         /\ [model[p][v] EXCEPT !.pointer = "no"] \in Row
<1> DEFINE r == model[p][v]
<1>1. r \in Row
  BY DEF TypeOK
<1> HIDE DEF r
<1>2. /\ [r EXCEPT !.status = "archived"] \in Row
      /\ [r EXCEPT !.status = "production"] \in Row
      /\ [r EXCEPT !.pointer = "yes"] \in Row
      /\ [r EXCEPT !.pointer = "no"] \in Row
  BY <1>1, RowUpdates
<1> QED BY <1>1, <1>2 DEF r

LEMMA LatestServedType ==
  ASSUME NEW p \in Scopes, NEW v \in LatestServed(p)
  PROVE  \/ v = 0 /\ Served(p) = {}
         \/ v \in Served(p) /\ v \in Versions /\ v # 0
BY DEF LatestServed, Served, With, Versions

LEMMA ParentBaselineType ==
  ASSUME NEW b \in ParentBaseline
  PROVE  \/ b = 0 /\ Holders = {}
         \/ b \in Holders /\ b \in Versions /\ b # 0
BY DEF ParentBaseline, Holders, Versions

\* The handle is none, or names a row: the scope's served one, or for the user
\* a platform row, when nothing is served or the parent baseline is another.
LEMMA ParentIsARow ==
  ASSUME NEW p \in Scopes, NEW h \in Parents(p)
  PROVE  \/ h = NoParent /\ Served(p) = {} /\ (p = "user" => Holders = {})
         \/ /\ h = [kind |-> p, key |-> h.key]
            /\ h.key \in Served(p) /\ h.key \in Versions /\ h.key # 0
            /\ p = "user" => \E b \in ParentBaseline : b = 0 \/ model[p][h.key].lineage = b
         \/ /\ p = "user" /\ h = [kind |-> "platform", key |-> h.key]
            /\ h.key \in Versions /\ h.key # 0
            /\ \/ Served("user") = {}
               \/ /\ h.key \in Holders
                  /\ \E u \in Served("user") : model["user"][u].lineage # h.key
            /\ Holders # {} => h.key \in Holders
            /\ h.key \in Holders \cup Served("platform")
<1>1. Scopes = {"platform", "user"}
  BY DEF Scopes
<1>2. PICK b \in ParentBaseline, u \in LatestServed("user"), s \in LatestServed("platform") :
        h = ResolveParent(p, b, u, s)
  BY DEF Parents
<1>3. \/ u = 0 /\ Served("user") = {}
      \/ u \in Served("user") /\ u \in Versions /\ u # 0
  BY LatestServedType, <1>1
<1>4. \/ s = 0 /\ Served("platform") = {}
      \/ s \in Served("platform") /\ s \in Versions /\ s # 0
  BY LatestServedType, <1>1
<1>5. \/ b = 0 /\ Holders = {}
      \/ b \in Holders /\ b \in Versions /\ b # 0
  BY ParentBaselineType
<1>6. \A q \in Scopes, v \in Versions : v # 0 =>
         Handle(q, v) = [kind |-> q, key |-> v] /\ Handle(q, v).key = v
  BY DEF Handle
<1>7. \A q \in Scopes : Handle(q, 0) = NoParent
  BY DEF Handle
<1>8. CASE p = "platform"
  <2>1. h = Handle("platform", s)
    BY <1>2, <1>8 DEF ResolveParent
  <2> QED BY <1>1, <1>4, <1>6, <1>7, <1>8, <2>1
<1>9. CASE p = "user" /\ b # 0 /\ u # 0 /\ Lineage("user", u) = b
  <2>1. h = Handle("user", u)
    BY <1>2, <1>9 DEF ResolveParent
  <2> QED BY <1>1, <1>3, <1>6, <1>9, <2>1 DEF Lineage
<1>10. CASE p = "user" /\ b # 0 /\ ~(u # 0 /\ Lineage("user", u) = b)
  <2>1. h = Handle("platform", b)
    BY <1>2, <1>10 DEF ResolveParent
  <2> QED BY <1>1, <1>3, <1>5, <1>6, <1>10, <2>1 DEF Lineage
<1>11. CASE p = "user" /\ b = 0 /\ u # 0
  <2>1. h = Handle("user", u)
    BY <1>2, <1>11 DEF ResolveParent
  <2> QED BY <1>1, <1>3, <1>6, <1>11, <2>1
<1>12. CASE p = "user" /\ b = 0 /\ u = 0
  <2>1. h = Handle("platform", s)
    BY <1>2, <1>12 DEF ResolveParent
  <2> QED BY <1>1, <1>3, <1>4, <1>5, <1>6, <1>7, <1>12, <2>1
<1> QED BY <1>1, <1>8, <1>9, <1>10, <1>11, <1>12

LEMMA RoundTypeInit == Init => TypeOK
BY DEF Init, TypeOK, Row, NoRow, NoParent, Statuses, Steps, Scopes

LEMMA RoundTypeStep ==
  ASSUME TypeOK, [Next]_vars PROVE TypeOK'
<1> USE DEF TypeOK, Goto
<1>0. Scopes = {"platform", "user"} /\ "platform" \in Scopes /\ "user" \in Scopes
  BY DEF Scopes
<1>1. ASSUME NEW g \in Games \ queued, AssignTrain(g) PROVE TypeOK'
  BY <1>1 DEF AssignTrain
<1>2. ASSUME NEW p \in Scopes, Begin(p) PROVE TypeOK'
  BY <1>2, <1>0 DEF Begin, Steps
<1>3. ASSUME NEW p \in Scopes, PrepareTraining(p) PROVE TypeOK'
  <2>1. PICK h \in Parents(p), games \in TrainBatch(p) :
          /\ parent' = [parent EXCEPT ![p] = h]
          /\ copy' = [copy EXCEPT ![p] = IF h.key = 0 THEN NoRow ELSE model[h.kind][h.key]]
          /\ batch' = [batch EXCEPT ![p] = games]
    BY <1>3 DEF PrepareTraining
  <2>2. h = NoParent \/ \E k \in Scopes, v \in Versions : h = [kind |-> k, key |-> v]
    BY ParentIsARow, <1>0
  <2>3. h \in [kind : Scopes \cup {"none"}, key : 0..MaxVersion]
    BY <2>2 DEF NoParent, Versions
  <2>4. NoRow \in Row /\ NoParent.key = 0
    BY DEF NoRow, Row, NoParent, Statuses
  <2>5. (IF h.key = 0 THEN NoRow ELSE model[h.kind][h.key]) \in Row
    BY <2>2, <2>4
  <2>6. games \in SUBSET Games
    BY <1>0 DEF TrainBatch, Pending, Untried, Unmarked, Pool
  <2> QED BY <1>0, <1>3, <2>1, <2>3, <2>5, <2>6 DEF PrepareTraining, Steps
<1>4. ASSUME NEW p \in Scopes, NEW l \in {"decide", "record"}, RecordCandidate(p, l) PROVE TypeOK'
  <2>1. PICK v \in Versions : Write(p, v, CandidateRow(p, v)) /\ cand' = [cand EXCEPT ![p] = v]
    BY <1>4 DEF RecordCandidate
  <2>2. CandidateRow(p, v) \in Row
    <3>1. copy[p].lineage \in 0..MaxVersion /\ copy[p].weights \cup batch[p] \subseteq Games
      BY RowFields
    <3> QED BY <3>1 DEF CandidateRow, Row, Statuses, Versions
  <2>3. model' \in [Scopes -> [Versions -> Row]]
    BY <2>1, <2>2, WriteType
  <2> QED BY <1>0, <1>4, <2>1, <2>3 DEF RecordCandidate, Steps, Versions
<1>5. ASSUME NEW p \in Scopes, DecideFromScores(p) PROVE TypeOK'
  BY <1>0, <1>5 DEF DecideFromScores, Steps
<1>6. ASSUME NEW p \in Scopes, ArchiveServed(p) PROVE TypeOK'
  <2>1. CASE parent[p].kind = p
    <3>1. [copy[p] EXCEPT !.status = "archived"] \in Row
      BY RowUpdates
    <3>2. model' \in [Scopes -> [Versions -> Row]]
      BY <1>6, <2>1, <3>1, WriteType DEF ArchiveServed
    <3> QED BY <1>0, <1>6, <3>2 DEF ArchiveServed, Steps
  <2>2. CASE parent[p].kind # p
    <3>1. PICK v \in LatestServed(p) :
             IF v \in {0, cand[p]} THEN UNCHANGED model
             ELSE Write(p, v, [model[p][v] EXCEPT !.status = "archived"])
      BY <1>6, <2>2 DEF ArchiveServed
    <3>2. v \in Versions => [model[p][v] EXCEPT !.status = "archived"] \in Row
      BY RowOfModel
    <3>3. model' \in [Scopes -> [Versions -> Row]]
      BY <3>1, <3>2, WriteType
    <3> QED BY <1>0, <1>6, <3>3 DEF ArchiveServed, Steps
  <2> QED BY <2>1, <2>2
<1>7. ASSUME NEW p \in Scopes, NEW l \in {"mark", "apply"}, PromoteCandidate(p, l) PROVE TypeOK'
  <2>1. cand[p] \in Versions => [model[p][cand[p]] EXCEPT !.status = "production"] \in Row
    BY RowOfModel
  <2>2. model' \in [Scopes -> [Versions -> Row]]
    BY <1>7, <2>1, WriteType DEF PromoteCandidate
  <2> QED BY <1>0, <1>7, <2>2 DEF PromoteCandidate, Steps
<1>8. ASSUME NEW p \in Scopes, MarkTrained(p) PROVE TypeOK'
  BY <1>0, <1>8 DEF MarkTrained, Steps
<1>9. ASSUME NEW p \in Scopes, NEW l \in {"idle", "reject"}, NoteRejected(p, l) PROVE TypeOK'
  BY <1>0, <1>9 DEF NoteRejected, Steps
<1>10. ASSUME NEW p \in Scopes, Abandon(p) PROVE TypeOK'
  BY <1>0, <1>10 DEF Abandon, Steps
<1>11. CASE AlignPersonalQueue
  <2>1. PICK b \in ParentBaseline :
        IF b \in {0, aligned}
        THEN Goto("user", "prepare") /\ UNCHANGED <<mark, tries, seen>>
        ELSE /\ seen' = b
             /\ Goto("user", "stamp")
             /\ IF KeepsMarks(b) THEN UNCHANGED <<mark, tries>>
                ELSE /\ mark' = [mark EXCEPT !["user"] = @ \ UserGames]
                     /\ tries' = [tries EXCEPT !["user"] =
                          [g \in Games |-> IF g \in UserGames THEN 0 ELSE @[g]]]
    BY <1>11 DEF AlignPersonalQueue
  <2>2. b \in 0..MaxVersion
    BY ParentBaselineType DEF Versions
  <2>3. mark' \in [Scopes -> SUBSET Games] /\ tries' \in [Scopes -> [Games -> Nat]]
    BY <1>0, <2>1
  <2>4. seen' \in 0..MaxVersion /\ pc' \in [Scopes -> Steps] /\ pc'["platform"] = pc["platform"]
        /\ pc'["user"] \in {"prepare", "stamp"}
    BY <1>0, <2>1, <2>2 DEF Steps
  <2> QED BY <1>11, <2>3, <2>4 DEF AlignPersonalQueue
<1>12. CASE StampQueueBaseline
  BY <1>0, <1>12 DEF StampQueueBaseline, Steps
<1>13. CASE DecideParentBaseline
  BY <1>0, <1>13 DEF DecideParentBaseline, Steps
<1>14. CASE ClearHolder
  <2>1. PICK v \in Holders \ {cand["platform"]} :
          Write("platform", v, [model["platform"][v] EXCEPT !.pointer = "no"])
    BY <1>14 DEF ClearHolder
  <2>2. v \in Versions => [model["platform"][v] EXCEPT !.pointer = "no"] \in Row
    BY <1>0, RowOfModel
  <2>3. model' \in [Scopes -> [Versions -> Row]]
    BY <1>0, <2>1, <2>2, WriteType
  <2> QED BY <1>14, <2>3 DEF ClearHolder
<1>15. CASE SetPointer
  <2>1. cand["platform"] \in Versions =>
          [model["platform"][cand["platform"]] EXCEPT !.pointer = "yes"] \in Row
    BY <1>0, RowOfModel
  <2>2. model' \in [Scopes -> [Versions -> Row]]
    BY <1>0, <1>15, <2>1, WriteType DEF SetPointer
  <2> QED BY <1>0, <1>15, <2>2 DEF SetPointer, Steps
<1>16. CASE UNCHANGED vars
  BY <1>16 DEF vars
<1> QED
  BY <1>1, <1>2, <1>3, <1>4, <1>5, <1>6, <1>7, <1>8, <1>9, <1>10, <1>11, <1>12, <1>13,
     <1>14, <1>15, <1>16 DEF Next

(***************************************************************************)
(* Every variable keeps its type, and each scope's round stays within the   *)
(* steps of its own.                                                       *)
(***************************************************************************)
THEOREM RoundTypeOK == Spec => []TypeOK
BY RoundTypeInit, RoundTypeStep, PTL DEF Spec

-----------------------------------------------------------------------------
LEMMA TwoScopes ==
  /\ Scopes = {"platform", "user"} /\ "platform" \in Scopes /\ "user" \in Scopes
  /\ \A p \in Scopes : p = "platform" \/ p = "user"
BY DEF Scopes

LEMMA RoundInvInit == Init => Inv
<1> SUFFICES ASSUME Init PROVE Inv
  OBVIOUS
<1>1. TypeOK
  BY RoundTypeInit
<1>2. Served("platform") = {} /\ Served("user") = {} /\ Holders = {}
  BY TwoScopes DEF Init, Served, With, Holders, NoRow
<1>3. \A p \in Scopes : ScopeInv(p)
  BY <1>2, TwoScopes DEF Init, ScopeInv, Holding, Recorded
<1>4. AlignInv
  BY <1>2, TwoScopes DEF Init, AlignInv, OnePointer, RowsInv, CandInv, CopyInv, StampInv,
    PrepareInv, AlignedInv, FlightInv, UserInv, Holding, Recorded, NoRow, Versions
<1> QED BY <1>1, <1>3, <1>4 DEF Inv

\* A scope whose row of every variable stays keeps its part.
LEMMA ScopeFrame ==
  ASSUME NEW q \in Scopes, ScopeInv(q), model'[q] = model[q], pc'[q] = pc[q],
         mark'[q] = mark[q], parent'[q] = parent[q], copy'[q] = copy[q],
         batch'[q] = batch[q], cand'[q] = cand[q]
  PROVE  ScopeInv(q)'
BY DEF ScopeInv, Holding, Recorded, Served, With

\* The steps of a scope that move only its program counter.
LEMMA MoveOn ==
  ASSUME Inv, NEW p \in Scopes,
         Begin(p) \/ DecideFromScores(p) \/ Abandon(p) \/ NoteRejected(p, "idle")
         \/ NoteRejected(p, "reject") \/ (p = "platform" /\ DecideParentBaseline)
  PROVE  (\A q \in Scopes : ScopeInv(q)') /\ AlignInv'
<1> USE TwoScopes DEF Inv, TypeOK
<1>1. /\ UNCHANGED <<model, mark, aligned, seen, parent, copy, batch, cand>>
      /\ \A q \in Scopes : q # p => pc'[q] = pc[q]
      /\ \/ (Careful => pc[p] # "promote") /\ pc'[p] \in {"idle", "align", "reject"} /\ (p = "platform" => pc'[p] # "align")
            /\ (pc'[p] = "reject" => pc[p] \in {"decide", "reject"})
         \/ pc[p] = "idle" /\ pc'[p] = "prepare" /\ p = "platform"
         \/ pc[p] = "decide" /\ pc'[p] = "apply"
         \/ pc[p] = "adopt" /\ pc'[p] = "clear"
  BY DEF Begin, DecideFromScores, Abandon, NoteRejected, DecideParentBaseline, Goto, Careful
<1>2. \A q \in Scopes : Served(q)' = Served(q)
  BY <1>1 DEF Served, With
<1>3. Holders' = Holders
  BY <1>1 DEF Holders
<1>4. \A q \in Scopes : q # p => ScopeInv(q)'
  BY <1>1, ScopeFrame
<1>5. ScopeInv(p)'
  BY <1>1, <1>2 DEF ScopeInv, Holding, Recorded
<1>6. AlignInv'
  <2> USE <1>1, <1>2, <1>3 DEF AlignInv
  <2>1. (OnePointer /\ RowsInv /\ AlignedInv)'
    BY DEF OnePointer, RowsInv, AlignedInv, Continues
  <2>2. (CandInv /\ CopyInv)'
    BY DEF CandInv, CopyInv, Holding, Recorded
  <2>3. (StampInv /\ PrepareInv)'
    BY DEF StampInv, PrepareInv, Continues
  <2>4. (FlightInv /\ UserInv)'
    BY DEF FlightInv, UserInv, Holding
  <2> QED BY <2>1, <2>2, <2>3, <2>4
<1> QED BY <1>4, <1>5, <1>6

LEMMA AlignStep ==
  ASSUME Inv, AlignPersonalQueue \/ StampQueueBaseline
  PROVE  (\A q \in Scopes : ScopeInv(q)') /\ AlignInv'
<1> USE TwoScopes DEF Inv, TypeOK
<1>1. /\ UNCHANGED <<model, parent, copy, batch, cand>>
      /\ pc["user"] \in {"align", "stamp"} /\ pc'["user"] \in {"stamp", "prepare"}
      /\ pc'["platform"] = pc["platform"] /\ mark'["platform"] = mark["platform"]
      /\ mark'["user"] \in {mark["user"], mark["user"] \ UserGames}
  BY DEF AlignPersonalQueue, StampQueueBaseline, Goto
<1>2. Served("user")' = Served("user") /\ Holders' = Holders
  BY <1>1 DEF Served, With, Holders
<1>3. mark["user"] \subseteq UserGames
  BY DEF AlignInv, UserInv
<1>4. ScopeInv("platform")'
  BY <1>1, ScopeFrame
<1>5. ScopeInv("user")'
  BY <1>1, <1>2, <1>3 DEF ScopeInv, Holding, Recorded
<1>6. ASSUME AlignPersonalQueue PROVE AlignInv'
  <2>1. PICK b \in ParentBaseline :
        IF b \in {0, aligned}
        THEN Goto("user", "prepare") /\ UNCHANGED <<mark, tries, seen>>
        ELSE /\ seen' = b
             /\ Goto("user", "stamp")
             /\ IF KeepsMarks(b) THEN UNCHANGED <<mark, tries>>
                ELSE /\ mark' = [mark EXCEPT !["user"] = @ \ UserGames]
                     /\ tries' = [tries EXCEPT !["user"] =
                          [g \in Games |-> IF g \in UserGames THEN 0 ELSE @[g]]]
    BY <1>6 DEF AlignPersonalQueue
  <2>2. \/ b = 0 /\ Holders = {}
        \/ b \in Holders /\ b \in Versions /\ b # 0
    BY ParentBaselineType
  <2>3. Holders \subseteq {b}
    BY <2>2 DEF AlignInv, OnePointer
  <2>4. aligned' = aligned
    BY <1>6 DEF AlignPersonalQueue
  <2>5. CASE b \in {0, aligned}
    <3>1. pc'["user"] = "prepare" /\ mark' = mark /\ seen' = seen
      BY <2>1, <2>5 DEF Goto
    <3>2. Careful => \A c \in Holders : Continues(c)
      BY <2>2, <2>3, <2>5 DEF AlignInv, AlignedInv
    <3> QED BY <1>1, <1>2, <2>4, <3>1, <3>2 DEF AlignInv, OnePointer, RowsInv, CandInv, CopyInv,
          StampInv, PrepareInv, AlignedInv, FlightInv, UserInv, Continues, Holding, Recorded
  <2>6. CASE b \notin {0, aligned}
    <3>1. pc'["user"] = "stamp" /\ seen' = b /\ b \in Holders /\ b \in Versions
      BY <2>1, <2>2, <2>6 DEF Goto
    <3>2. \/ KeepsMarks(b) /\ mark' = mark
          \/ mark'["user"] = {}
      BY <1>3, <2>1, <2>6
    <3>3. KeepsMarks(b) => Continues(b)
      <4>1. SUFFICES ASSUME KeepsMarks(b), NEW w \in Served("user")
                     PROVE  model["user"][w].lineage = b
        BY DEF Continues
      <4>2. PICK u \in LatestServed("user") : u # 0 /\ Lineage("user", u) = b
        BY <4>1 DEF KeepsMarks
      <4>3. u \in Served("user")
        BY <4>2, LatestServedType
      <4>4. u = w
        BY <4>1, <4>3 DEF ScopeInv
      <4> QED BY <4>2, <4>4 DEF Lineage
    <3>4. Continues(b)'
      BY <1>1, <1>2, <3>2, <3>3, <2>6 DEF Continues, KeepsMarks
    <3>5. (StampInv /\ PrepareInv)'
      BY <1>2, <2>3, <2>6, <3>1, <3>4 DEF StampInv, PrepareInv
    <3>6. (OnePointer /\ RowsInv)'
      BY <1>1, <1>2, <2>4, <3>1 DEF AlignInv, OnePointer, RowsInv, Holders
    <3>7. (CandInv /\ CopyInv)'
      BY <1>1, <2>4, <3>1 DEF AlignInv, CandInv, CopyInv, Holders, Holding, Recorded
    <3>8. AlignedInv'
      BY <1>1, <1>2, <2>4, <3>2 DEF AlignInv, AlignedInv, Continues
    <3>9. (FlightInv /\ UserInv)'
      BY <1>1, <1>3, <3>1 DEF FlightInv, UserInv, Holding
    <3> QED BY <3>5, <3>6, <3>7, <3>8, <3>9 DEF AlignInv
  <2> QED BY <2>5, <2>6
<1>7. ASSUME StampQueueBaseline PROVE AlignInv'
  <2>1. /\ pc["user"] = "stamp" /\ pc'["user"] = "prepare"
        /\ aligned' = seen /\ seen' = seen /\ mark' = mark
    BY <1>7 DEF StampQueueBaseline, Goto
  <2>2. Careful => Holders \subseteq {seen} /\ Continues(seen)
    BY <2>1 DEF AlignInv, StampInv
  <2> USE <1>1, <1>2, <2>1, <2>2 DEF AlignInv
  <2>3. (OnePointer /\ RowsInv /\ CandInv /\ CopyInv)'
    BY DEF OnePointer, RowsInv, CandInv, CopyInv, Holding, Recorded
  <2>4. (StampInv /\ PrepareInv /\ AlignedInv /\ FlightInv /\ UserInv)'
    BY DEF StampInv, PrepareInv, AlignedInv, FlightInv, UserInv, Continues, Holding
  <2> QED BY <2>3, <2>4
<1> QED BY <1>4, <1>5, <1>6, <1>7

LEMMA PrepareStep ==
  ASSUME Inv, NEW p \in Scopes, PrepareTraining(p)
  PROVE  (\A q \in Scopes : ScopeInv(q)') /\ AlignInv'
<1> USE TwoScopes DEF Inv, TypeOK
<1>1. PICK h \in Parents(p), games \in TrainBatch(p) :
        /\ parent' = [parent EXCEPT ![p] = h]
        /\ copy' = [copy EXCEPT ![p] = IF h.key = 0 THEN NoRow ELSE model[h.kind][h.key]]
        /\ batch' = [batch EXCEPT ![p] = games]
  BY DEF PrepareTraining
<1>2. /\ UNCHANGED <<model, mark, aligned, seen, cand>>
      /\ pc[p] = "prepare" /\ pc'[p] = "record" /\ \A q \in Scopes : q # p => pc'[q] = pc[q]
  BY DEF PrepareTraining, Goto
<1>3. (\A q \in Scopes : Served(q)' = Served(q)) /\ Holders' = Holders
  BY <1>2 DEF Served, With, Holders
<1>4. \A q \in Scopes : q # p => ScopeInv(q)'
  BY <1>1, <1>2, ScopeFrame
<1>5. parent'[p] = h /\ copy'[p] = (IF h.key = 0 THEN NoRow ELSE model[h.kind][h.key])
      /\ batch'[p] = games
  BY <1>1
<1>6. games \subseteq Pool(p)
  BY DEF TrainBatch, Pending, Untried, Unmarked
<1>7. \/ h = NoParent /\ Served(p) = {} /\ (p = "user" => Holders = {})
      \/ /\ h = [kind |-> p, key |-> h.key]
         /\ h.key \in Served(p) /\ h.key \in Versions /\ h.key # 0
         /\ p = "user" => \E b \in ParentBaseline : b = 0 \/ model[p][h.key].lineage = b
      \/ /\ p = "user" /\ h = [kind |-> "platform", key |-> h.key]
         /\ h.key \in Versions /\ h.key # 0
         /\ \/ Served("user") = {}
            \/ /\ h.key \in Holders
               /\ \E u \in Served("user") : model["user"][u].lineage # h.key
         /\ Holders # {} => h.key \in Holders
  BY ParentIsARow
<1>8. Careful /\ Served(p) = {} => mark[p] = {}
  BY <1>2 DEF ScopeInv
<1>9. ASSUME Careful PROVE mark[p] \subseteq copy'[p].weights
  <2>1. CASE Served(p) = {}
    BY <1>8, <1>9, <2>1
  <2>2. CASE h = [kind |-> p, key |-> h.key] /\ h.key \in Served(p) /\ h.key # 0
    <3>1. mark[p] # {} => mark[p] \subseteq model[p][h.key].weights
      BY <1>2, <1>9, <2>2 DEF ScopeInv
    <3>2. copy'[p] = model[p][h.key]
      BY <1>5, <2>2
    <3> QED BY <3>1, <3>2
  <2>3. CASE p = "user" /\ h.key \in Holders
             /\ \E u \in Served("user") : model["user"][u].lineage # h.key
    BY <1>2, <1>9, <2>3 DEF AlignInv, PrepareInv, Continues
  <2> QED BY <1>7, <2>1, <2>2, <2>3
<1>10. ScopeInv(p)'
  <2>1. h.kind = p => /\ h.key \in Versions /\ h.key \in Served(p)
                      /\ model[p][h.key].status # "none"
    BY <1>7 DEF NoParent, Served, With
  <2>2. \A v, w \in Served(p) : v = w
    BY DEF ScopeInv
  <2>3. h.kind = p => Served(p) \subseteq {h.key}
    BY <2>1, <2>2
  <2>4. Careful /\ mark[p] # {} => \E v \in Served(p) : mark[p] \subseteq model[p][v].weights
    BY <1>2 DEF ScopeInv
  <2> QED BY <1>2, <1>3, <1>5, <1>9, <2>1, <2>2, <2>3, <2>4 DEF ScopeInv, Holding, Recorded
<1>11. (OnePointer /\ RowsInv /\ AlignedInv)'
  BY <1>2, <1>3 DEF AlignInv, OnePointer, RowsInv, AlignedInv, Continues
<1>12. (CandInv /\ StampInv /\ PrepareInv)'
  BY <1>2, <1>3 DEF AlignInv, CandInv, StampInv, PrepareInv, Continues, Holding, Recorded
<1>13. CopyInv'
  <2>1. CASE p = "user"
    BY <1>1, <1>2, <2>1 DEF AlignInv, CopyInv, Holding
  <2>2. CASE p = "platform" /\ h.kind = "platform"
    <3>1. /\ h.key \in Versions /\ h.key # 0 /\ model["platform"][h.key].status # "none"
      BY <1>7, <2>2 DEF NoParent, Served, With
    <3>2. copy'["platform"] = model["platform"][h.key] /\ parent'["platform"].key = h.key
      BY <1>5, <2>2, <3>1
    <3>3. model["platform"][h.key].lineage = h.key
      BY <3>1 DEF AlignInv, RowsInv
    <3> QED BY <1>2, <3>2, <3>3 DEF CopyInv
  <2>3. CASE p = "platform" /\ h.kind # "platform"
    BY <1>5, <2>3 DEF CopyInv
  <2> QED BY <2>1, <2>2, <2>3
<1>14. UserInv'
  BY <1>1, <1>2, <1>6 DEF AlignInv, UserInv, Holding, Pool
<1>15. FlightInv'
  <2>1. CASE p = "platform"
    BY <1>1, <1>2, <1>3, <2>1 DEF AlignInv, FlightInv, Holding
  <2>2. CASE p = "user" /\ aligned \in Holders
    <3>1. \A w \in Holders : w = aligned
      BY <2>2, Zenon DEF AlignInv, OnePointer
    <3>2. \A b \in ParentBaseline : b = aligned /\ b # 0
      BY <2>2, <3>1, ParentBaselineType
    <3>3. CASE h.kind = "user"
      <4>1. h.key # 0 /\ model["user"][h.key].lineage = aligned
        BY <1>7, <2>2, <3>2, <3>3 DEF NoParent
      <4>2. copy'["user"] = model["user"][h.key]
        BY <1>5, <2>2, <3>3, <4>1
      <4> QED BY <1>2, <4>1, <4>2 DEF FlightInv
    <3>4. CASE h.kind # "user"
      <4>1. h = [kind |-> "platform", key |-> h.key] /\ h.key \in Versions /\ h.key # 0
            /\ h.key = aligned
        BY <1>7, <2>2, <3>1, <3>4 DEF NoParent
      <4>2. model["platform"][h.key].lineage = h.key
        BY <4>1, <3>1 DEF AlignInv, RowsInv, Holders
      <4> QED BY <1>2, <1>5, <2>2, <4>1, <4>2 DEF FlightInv
    <3> QED BY <3>3, <3>4
  <2>3. CASE aligned \notin Holders
    BY <1>2, <1>3, <2>3 DEF FlightInv
  <2> QED BY <2>1, <2>2, <2>3
<1> QED BY <1>4, <1>10, <1>11, <1>12, <1>13, <1>14, <1>15 DEF AlignInv

LEMMA RecordStep ==
  ASSUME Inv, NEW p \in Scopes, NEW l \in {"decide", "record"}, RecordCandidate(p, l)
  PROVE  (\A q \in Scopes : ScopeInv(q)') /\ AlignInv'
<1> USE TwoScopes DEF Inv, TypeOK
<1>1. PICK v \in Versions :
        IsNextVersion(p, v) /\ Write(p, v, CandidateRow(p, v)) /\ cand' = [cand EXCEPT ![p] = v]
  BY DEF RecordCandidate
<1>2. /\ UNCHANGED <<mark, aligned, seen, parent, copy, batch>>
      /\ pc[p] = "record" /\ pc'[p] = l /\ \A q \in Scopes : q # p => pc'[q] = pc[q]
      /\ cand'[p] = v /\ \A q \in Scopes : q # p => cand'[q] = cand[q]
  BY <1>1 DEF RecordCandidate, Goto
<1>3. model[p][v].status = "none"
  <2>1. model[p][v].status # "none" <=> v < v
    BY <1>1 DEF IsNextVersion
  <2> QED BY <2>1 DEF Versions
<1>4. /\ model'[p][v] = CandidateRow(p, v)
      /\ \A q \in Scopes, w \in Versions : q # p \/ w # v => model'[q][w] = model[q][w]
      /\ \A q \in Scopes : q # p => model'[q] = model[q]
  BY <1>1, WriteRow
<1>5. /\ CandidateRow(p, v).status = "candidate" /\ CandidateRow(p, v).pointer = "no"
      /\ CandidateRow(p, v).weights = copy[p].weights \cup batch[p]
      /\ CandidateRow(p, v).lineage = IF p = "platform" THEN v ELSE copy[p].lineage
  BY DEF CandidateRow
<1>6. \A q \in Scopes : Served(q)' = Served(q) /\ (v \notin Served(q) \/ q # p)
  BY <1>3, <1>4, <1>5 DEF Served, With
<1>7. Holders' \subseteq Holders /\ (p = "platform" => v \notin Holders)
  BY <1>3, <1>4, <1>5 DEF Holders, AlignInv, RowsInv
<1>8. \A q \in Scopes : q # p => ScopeInv(q)'
  BY <1>2, <1>4, ScopeFrame
<1>9. ScopeInv(p)'
  <2>1. \A a, b \in Served(p) : a = b
    BY DEF ScopeInv
  <2>2. Careful /\ mark[p] # {} => \E w \in Served(p) : w \in Versions /\ mark[p] \subseteq model'[p][w].weights
    <3>1. Careful /\ mark[p] # {} => \E w \in Served(p) : mark[p] \subseteq model[p][w].weights
      BY <1>2 DEF ScopeInv
    <3>2. \A w \in Served(p) : w \in Versions /\ w # v
      BY <1>6 DEF Served, With
    <3> QED BY <1>4, <3>1, <3>2
  <2>3. Careful => mark[p] \subseteq copy[p].weights
    BY <1>2 DEF ScopeInv, Holding
  <2>4. parent[p].kind = p => /\ parent[p].key \in Versions /\ parent[p].key # v
                              /\ model'[p][parent[p].key].status # "none"
                              /\ Served(p) \subseteq {parent[p].key}
    BY <1>2, <1>3, <1>4 DEF ScopeInv, Holding
  <2>5. (p = "user" => model'[p][v].lineage = copy[p].lineage)
        /\ copy[p].weights \cup batch[p] \subseteq model'[p][v].weights
    BY <1>4, <1>5
  <2> QED BY <1>2, <1>6, <2>1, <2>2, <2>3, <2>4, <2>5 DEF ScopeInv, Holding, Recorded
<1>10. (OnePointer /\ RowsInv)'
  BY <1>2, <1>3, <1>4, <1>5, <1>7 DEF AlignInv, OnePointer, RowsInv
<1>11. CandInv'
  <2>1. CASE p = "platform"
    BY <1>2, <1>3, <1>4, <1>5, <2>1 DEF AlignInv, RowsInv, CandInv
  <2>2. CASE p = "user"
    BY <1>2, <1>4, <2>2 DEF AlignInv, CandInv, Recorded, Holding
  <2> QED BY <2>1, <2>2
<1>12. CopyInv'
  <2>1. CASE p = "platform"
    <3>1. ASSUME parent["platform"].kind = "platform"
          PROVE  model'["platform"][parent["platform"].key] = model["platform"][parent["platform"].key]
      BY <1>2, <1>3, <1>4, <2>1, <3>1 DEF ScopeInv, Holding
    <3> QED BY <1>2, <2>1, <3>1 DEF AlignInv, CopyInv, Holding
  <2>2. CASE p = "user"
    BY <1>2, <1>4, <2>2 DEF AlignInv, CopyInv, Holding
  <2> QED BY <2>1, <2>2
<1>13. \A b : Continues(b) => Continues(b)'
  <2>1. \A w \in Served("user") : model'["user"][w] = model["user"][w]
    BY <1>4, <1>6 DEF Served, With
  <2> QED BY <1>2, <1>6, <2>1 DEF Continues
<1>14. (StampInv /\ PrepareInv /\ AlignedInv)'
  BY <1>2, <1>7, <1>13 DEF AlignInv, StampInv, PrepareInv, AlignedInv
<1>15. (FlightInv /\ UserInv)'
  BY <1>2, <1>7 DEF AlignInv, FlightInv, UserInv, Holding
<1> QED BY <1>8, <1>9, <1>10, <1>11, <1>12, <1>14, <1>15 DEF AlignInv

LEMMA MarkStep ==
  ASSUME Inv, NEW p \in Scopes, MarkTrained(p)
  PROVE  (\A q \in Scopes : ScopeInv(q)') /\ AlignInv'
<1> USE TwoScopes DEF Inv, TypeOK
<1>1. /\ UNCHANGED <<model, aligned, seen, parent, copy, batch, cand>>
      /\ pc[p] = "mark" /\ \A q \in Scopes : q # p => pc'[q] = pc[q]
      /\ pc'[p] = IF p = "platform" THEN "adopt" ELSE "idle"
      /\ mark'[p] = mark[p] \cup batch[p] /\ \A q \in Scopes : q # p => mark'[q] = mark[q]
  BY DEF MarkTrained, Goto
<1>2. (\A q \in Scopes : Served(q)' = Served(q)) /\ Holders' = Holders
  BY <1>1 DEF Served, With, Holders
<1>3. \A q \in Scopes : q # p => ScopeInv(q)'
  BY <1>1, ScopeFrame
<1>4. cand[p] \in Served(p) /\ (Careful => mark'[p] \subseteq model[p][cand[p]].weights)
  BY <1>1 DEF ScopeInv, Holding, Recorded
<1>5. ScopeInv(p)'
  BY <1>1, <1>2, <1>4 DEF ScopeInv, Holding, Recorded
<1>6. (OnePointer /\ RowsInv /\ CandInv /\ CopyInv)'
  BY <1>1, <1>2 DEF AlignInv, OnePointer, RowsInv, CandInv, CopyInv, Holding, Recorded
<1>7. (StampInv /\ PrepareInv)'
  BY <1>1, <1>2 DEF AlignInv, StampInv, PrepareInv, Continues
<1>8. AlignedInv'
  <2>1. CASE p = "platform"
    BY <1>1, <1>2, <2>1 DEF AlignInv, AlignedInv, Continues
  <2>2. CASE p = "user" /\ aligned \in Holders
    <3>1. model["user"][cand["user"]].lineage = aligned
      BY <1>1, <2>2 DEF ScopeInv, AlignInv, FlightInv, Holding, Recorded
    <3>2. \A u \in Served("user") : u = cand["user"]
      BY <1>4, <2>2 DEF ScopeInv
    <3> QED BY <1>1, <1>2, <3>1, <3>2 DEF AlignedInv, Continues
  <2>3. CASE aligned \notin Holders
    BY <1>1, <1>2, <2>3 DEF AlignedInv
  <2> QED BY <2>1, <2>2, <2>3
<1>9. (FlightInv /\ UserInv)'
  BY <1>1, <1>2 DEF AlignInv, FlightInv, UserInv, Holding
<1> QED BY <1>3, <1>5, <1>6, <1>7, <1>8, <1>9 DEF AlignInv

\* After the first save only the candidate can be the served row.
LEMMA ArchivedRows ==
  ASSUME Inv, NEW p \in Scopes, ArchiveServed(p)
  PROVE  /\ Served(p)' \subseteq Served(p) /\ Served(p)' \subseteq {cand[p]}
         /\ model'[p][cand[p]] = model[p][cand[p]]
         /\ \A w \in Versions :
              /\ model'[p][w].status = "none" <=> model[p][w].status = "none"
              /\ model[p][w].status = "none" => model'[p][w] = model[p][w]
              /\ p = "platform" => /\ model'[p][w].lineage = model[p][w].lineage
                                   /\ model'[p][w].pointer = "yes" => model[p][w].pointer = "yes"
         /\ parent[p].kind = p => model'[p][parent[p].key].pointer = copy[p].pointer
         /\ \A q \in Scopes : q # p => model'[q] = model[q]
<1> USE TwoScopes DEF Inv, TypeOK
<1>1. pc[p] = "apply" /\ cand[p] \in Versions
  BY DEF ArchiveServed, ScopeInv, Holding, Recorded
<1>2. CASE parent[p].kind = p
  <2> DEFINE k == parent[p].key
             r == [copy[p] EXCEPT !.status = "archived"]
  <2>1. /\ k \in Versions /\ k # cand[p] /\ model[p][k].status # "none"
        /\ Served(p) \subseteq {k, cand[p]}
    BY <1>1, <1>2 DEF ScopeInv, Holding, Recorded
  <2>2. Write(p, k, r)
    BY <1>2 DEF ArchiveServed
  <2>3. /\ r.status = "archived" /\ r.pointer = copy[p].pointer /\ r.lineage = copy[p].lineage
    BY DEF Row
  <2>4. p = "platform" => /\ copy[p].lineage = k /\ model[p][k].lineage = k
                          /\ copy[p].pointer = "yes" => model[p][k].pointer = "yes"
    BY <1>1, <1>2, <2>1 DEF AlignInv, CopyInv, RowsInv, Holding
  <2> HIDE DEF k, r
  <2>5. /\ model'[p][k] = r
        /\ \A w \in Versions : w # k => model'[p][w] = model[p][w]
        /\ \A q \in Scopes : q # p => model'[q] = model[q]
    BY <2>1, <2>2, WriteRow
  <2>6. \A w \in Served(p)' : w \in Served(p) /\ w # k
    BY <2>3, <2>5 DEF Served, With
  <2> QED BY <1>1, <2>1, <2>3, <2>4, <2>5, <2>6 DEF k
<1>3. CASE parent[p].kind # p
  <2>1. PICK v \in LatestServed(p) :
          IF v \in {0, cand[p]} THEN UNCHANGED model
          ELSE Write(p, v, [model[p][v] EXCEPT !.status = "archived"])
    BY <1>3 DEF ArchiveServed
  <2>2. \A a, b \in Served(p) : a = b
    BY DEF ScopeInv
  <2>3. CASE v \in {0, cand[p]}
    <3>1. model' = model
      BY <2>1, <2>3
    <3>2. Served(p)' = Served(p)
      BY <3>1 DEF Served, With
    <3>3. Served(p) \subseteq {cand[p]}
      BY <1>1, <2>2, <2>3, LatestServedType DEF Versions
    <3> QED BY <1>3, <3>1, <3>2, <3>3
  <2>4. CASE v \notin {0, cand[p]}
    <3> DEFINE r == [model[p][v] EXCEPT !.status = "archived"]
    <3>1. v \in Served(p) /\ v \in Versions /\ Served(p) \subseteq {v}
      BY <2>2, <2>4, LatestServedType
    <3>2. model[p][v] \in Row
      BY <3>1, RowOfModel
    <3>3. r.status = "archived" /\ r.pointer = model[p][v].pointer /\ r.lineage = model[p][v].lineage
      BY <3>2 DEF Row
    <3>4. Write(p, v, r)
      BY <2>1, <2>4
    <3> HIDE DEF r
    <3>5. /\ model'[p][v] = r
          /\ \A w \in Versions : w # v => model'[p][w] = model[p][w]
          /\ \A q \in Scopes : q # p => model'[q] = model[q]
      BY <3>1, <3>4, WriteRow
    <3>6. \A w \in Served(p)' : w \in Served(p) /\ w # v
      BY <3>3, <3>5 DEF Served, With
    <3>7. model[p][v].status = "production"
      BY <3>1 DEF Served, With
    <3> QED BY <1>1, <1>3, <2>4, <3>1, <3>3, <3>5, <3>6, <3>7
  <2> QED BY <2>3, <2>4
<1> QED BY <1>2, <1>3

LEMMA ArchiveStep ==
  ASSUME Inv, NEW p \in Scopes, ArchiveServed(p)
  PROVE  (\A q \in Scopes : ScopeInv(q)') /\ AlignInv'
<1> USE TwoScopes DEF Inv, TypeOK
<1>1. /\ UNCHANGED <<mark, aligned, seen, parent, copy, batch, cand>>
      /\ pc[p] = "apply" /\ pc'[p] = "promote" /\ \A q \in Scopes : q # p => pc'[q] = pc[q]
  BY DEF ArchiveServed, Goto
<1>2. /\ Served(p)' \subseteq Served(p) /\ Served(p)' \subseteq {cand[p]}
      /\ model'[p][cand[p]] = model[p][cand[p]]
      /\ \A w \in Versions :
           /\ model'[p][w].status = "none" <=> model[p][w].status = "none"
           /\ model[p][w].status = "none" => model'[p][w] = model[p][w]
           /\ p = "platform" => /\ model'[p][w].lineage = model[p][w].lineage
                                /\ model'[p][w].pointer = "yes" => model[p][w].pointer = "yes"
      /\ parent[p].kind = p => model'[p][parent[p].key].pointer = copy[p].pointer
      /\ \A q \in Scopes : q # p => model'[q] = model[q]
  BY ArchivedRows
<1>3. \A q \in Scopes : q # p => ScopeInv(q)'
  BY <1>1, <1>2, ScopeFrame
<1>4. ScopeInv(p)'
  <2>1. \A a, b \in Served(p)' : a = b
    BY <1>2
  <2> QED BY <1>1, <1>2, <2>1 DEF ScopeInv, Holding, Recorded
<1>5. Holders' \subseteq Holders
  BY <1>2 DEF Holders
<1>6. RowsInv'
  BY <1>1, <1>2 DEF AlignInv, RowsInv
<1>7. CandInv'
  BY <1>1, <1>2 DEF AlignInv, CandInv, Holding, Recorded
<1>8. CopyInv'
  BY <1>1, <1>2 DEF AlignInv, CopyInv, Holding
<1>9. \A b : Continues(b) => Continues(b)'
  <2>1. \A w \in Served("user")' : w \in Served("user") /\ model'["user"][w] = model["user"][w]
    <3>1. CASE p = "user"
      BY <1>2, <3>1
    <3>2. CASE p = "platform"
      BY <1>2, <3>2 DEF Served, With
    <3> QED BY <3>1, <3>2
  <2> QED BY <1>1, <2>1 DEF Continues
<1>10. (OnePointer /\ StampInv /\ PrepareInv /\ AlignedInv)'
  BY <1>1, <1>5, <1>9 DEF AlignInv, OnePointer, StampInv, PrepareInv, AlignedInv
<1>11. (FlightInv /\ UserInv)'
  BY <1>1, <1>5 DEF AlignInv, FlightInv, UserInv, Holding
<1> QED BY <1>3, <1>4, <1>6, <1>7, <1>8, <1>10, <1>11 DEF AlignInv

LEMMA PromoteStep ==
  ASSUME Inv, NEW p \in Scopes, NEW l \in {"mark", "apply"}, PromoteCandidate(p, l)
  PROVE  (\A q \in Scopes : ScopeInv(q)') /\ AlignInv'
<1> USE TwoScopes DEF Inv, TypeOK
<1>1. /\ UNCHANGED <<mark, aligned, seen, parent, copy, batch, cand>>
      /\ pc[p] = "promote" /\ pc'[p] = l /\ \A q \in Scopes : q # p => pc'[q] = pc[q]
  BY DEF PromoteCandidate, Goto
<1> DEFINE c == cand[p]
           r == [model[p][c] EXCEPT !.status = "production"]
<1>2. c \in Versions /\ Served(p) \subseteq {c}
  BY <1>1 DEF ScopeInv, Holding, Recorded
<1>3. model[p][c] \in Row
  BY <1>2, RowOfModel
<1>4. /\ r.status = "production" /\ r.pointer = model[p][c].pointer
      /\ r.lineage = model[p][c].lineage /\ r.weights = model[p][c].weights
  BY <1>3 DEF Row
<1>5. Write(p, c, r)
  BY DEF PromoteCandidate
<1>6. c = cand[p] /\ cand'[p] = c
  BY <1>1
<1> HIDE DEF c, r
<1>7. /\ model'[p][c] = r
      /\ \A w \in Versions : w # c => model'[p][w] = model[p][w]
      /\ \A q \in Scopes : q # p => model'[q] = model[q]
  BY <1>2, <1>5, WriteRow
<1>8. Served(p)' = {c}
  BY <1>2, <1>4, <1>7 DEF Served, With
<1>9. (Careful => mark[p] \subseteq copy[p].weights) /\ copy[p].weights \subseteq model[p][c].weights
  BY <1>1, <1>6 DEF ScopeInv, Holding, Recorded
<1>10. \A w \in Versions :
         /\ model'[p][w].pointer = model[p][w].pointer /\ model'[p][w].lineage = model[p][w].lineage
         /\ model[p][w].status # "none" => model'[p][w].status # "none"
         /\ model'[p][w].status = "none" => model'[p][w] = model[p][w]
         /\ model'[p][w].weights = model[p][w].weights
  BY <1>4, <1>7
<1>11. \A q \in Scopes : q # p => ScopeInv(q)'
  BY <1>1, <1>7, ScopeFrame
<1>12. ScopeInv(p)'
  <2>1. \A a, b \in Served(p)' : a = b
    BY <1>8
  <2>2. Careful => \E v \in Served(p)' : mark[p] \subseteq model'[p][v].weights
    BY <1>2, <1>8, <1>9, <1>10
  <2>3. parent[p].kind = p => /\ parent[p].key \in Versions
                              /\ model'[p][parent[p].key].status # "none"
    BY <1>1, <1>10 DEF ScopeInv, Holding
  <2> QED BY <1>1, <1>2, <1>6, <1>8, <1>10, <2>1, <2>2, <2>3 DEF ScopeInv, Holding, Recorded
<1>13. Holders' = Holders
  BY <1>7, <1>10 DEF Holders
<1>14. RowsInv'
  <2>1. p = "platform" => model[p][c].status # "none"
    BY <1>1, <1>6 DEF AlignInv, CandInv, Holding, Recorded
  <2> QED BY <1>1, <1>7, <1>10, <2>1 DEF AlignInv, RowsInv
<1>15. CandInv'
  BY <1>1, <1>6, <1>7, <1>10 DEF AlignInv, CandInv, Holding, Recorded
<1>16. CopyInv'
  <2>1. CASE p = "platform"
    BY <1>1, <1>10, <2>1 DEF AlignInv, CopyInv, Holding, ScopeInv
  <2>2. CASE p = "user"
    BY <1>1, <1>7, <2>2 DEF AlignInv, CopyInv, Holding
  <2> QED BY <2>1, <2>2
<1>17. p = "platform" => Served("user")' = Served("user") /\ model'["user"] = model["user"]
  BY <1>7 DEF Served, With
<1>18. (OnePointer /\ StampInv /\ PrepareInv)'
  BY <1>1, <1>13, <1>17 DEF AlignInv, OnePointer, StampInv, PrepareInv, Continues
<1>19. AlignedInv'
  <2>1. CASE p = "platform"
    BY <1>1, <1>13, <1>17, <2>1 DEF AlignInv, AlignedInv, Continues
  <2>2. CASE p = "user" /\ aligned \in Holders
    <3>1. model["user"][c].lineage = aligned
      BY <1>1, <1>6, <2>2 DEF ScopeInv, AlignInv, FlightInv, Holding, Recorded
    <3> QED BY <1>1, <1>2, <1>8, <1>10, <2>2, <3>1 DEF AlignedInv, Continues
  <2>3. CASE aligned \notin Holders
    BY <1>1, <1>13, <2>3 DEF AlignedInv
  <2> QED BY <2>1, <2>2, <2>3
<1>20. (FlightInv /\ UserInv)'
  BY <1>1, <1>13 DEF AlignInv, FlightInv, UserInv, Holding
<1> QED BY <1>11, <1>12, <1>14, <1>15, <1>16, <1>18, <1>19, <1>20 DEF AlignInv

\* The steps of AdoptParentBaseline change one pointer and nothing else.
LEMMA PointerRows ==
  ASSUME TypeOK, NEW v \in Versions, NEW a \in {"yes", "no"},
         Write("platform", v, [model["platform"][v] EXCEPT !.pointer = a])
  PROVE  /\ model'["user"] = model["user"]
         /\ model'["platform"][v].pointer = a
         /\ \A w \in Versions :
              /\ w # v => model'["platform"][w] = model["platform"][w]
              /\ model'["platform"][w].status = model["platform"][w].status
              /\ model'["platform"][w].lineage = model["platform"][w].lineage
              /\ model'["platform"][w].weights = model["platform"][w].weights
         /\ \A q \in Scopes : Served(q)' = Served(q)
<1> USE TwoScopes
<1> DEFINE r == [model["platform"][v] EXCEPT !.pointer = a]
<1>1. model["platform"][v] \in Row
  BY RowOfModel
<1>2. /\ r.pointer = a /\ r.status = model["platform"][v].status
      /\ r.lineage = model["platform"][v].lineage /\ r.weights = model["platform"][v].weights
  BY <1>1 DEF Row
<1>3. Write("platform", v, r)
  OBVIOUS
<1> HIDE DEF r
<1>4. /\ model'["platform"][v] = r
      /\ \A w \in Versions : w # v => model'["platform"][w] = model["platform"][w]
      /\ model'["user"] = model["user"]
  BY <1>3, WriteRow
<1>5. \A q \in Scopes : Served(q)' = Served(q)
  BY <1>2, <1>4 DEF Served, With
<1> QED BY <1>2, <1>4, <1>5

LEMMA PointerStep ==
  ASSUME Inv, ClearHolder \/ SetPointer
  PROVE  (\A q \in Scopes : ScopeInv(q)') /\ AlignInv'
<1> USE TwoScopes DEF Inv, TypeOK
<1> DEFINE c == cand["platform"]
<1>1. /\ UNCHANGED <<mark, aligned, seen, parent, copy, batch, cand>>
      /\ pc["platform"] = "clear" /\ pc'["platform"] \in {"clear", "idle"}
      /\ pc'["user"] = pc["user"]
  BY DEF ClearHolder, SetPointer, Goto
<1>2. c \in Versions /\ model["platform"][c].status # "none" /\ c # aligned /\ c # seen
  BY <1>1 DEF AlignInv, CandInv
<1>3. PICK v \in Versions, a \in {"yes", "no"} :
        /\ Write("platform", v, [model["platform"][v] EXCEPT !.pointer = a])
        /\ \/ a = "no" /\ v \in Holders /\ v # c
           \/ /\ a = "yes" /\ v = c /\ Holders \subseteq {c} /\ pc'["platform"] = "idle"
              /\ Careful => pc["user"] \notin {"stamp", "prepare"}
  BY <1>2 DEF ClearHolder, SetPointer, Goto, Holders, Careful
<1>4. /\ model'["user"] = model["user"]
      /\ model'["platform"][v].pointer = a
      /\ \A w \in Versions :
           /\ w # v => model'["platform"][w] = model["platform"][w]
           /\ model'["platform"][w].status = model["platform"][w].status
           /\ model'["platform"][w].lineage = model["platform"][w].lineage
           /\ model'["platform"][w].weights = model["platform"][w].weights
      /\ \A q \in Scopes : Served(q)' = Served(q)
  BY <1>3, PointerRows
<1> HIDE DEF c
<1>5. /\ \A w \in Holders' : w \in Holders \/ w = c
      /\ a = "no" => Holders' \subseteq Holders
      /\ a = "yes" => Holders' \subseteq {c}
  BY <1>3, <1>4 DEF Holders
<1>6. ScopeInv("user")'
  BY <1>1, <1>4, ScopeFrame
<1>7. ScopeInv("platform")'
  BY <1>1, <1>4 DEF ScopeInv, Holding, Recorded, Served, With
<1>8. OnePointer'
  BY <1>5, <1>3 DEF AlignInv, OnePointer
<1>9. RowsInv'
  <2>1. \A w \in Versions : model["platform"][w].status = "none" => w # v
    BY <1>2, <1>3 DEF AlignInv, RowsInv, Holders
  <2> QED BY <1>1, <1>4, <2>1 DEF AlignInv, RowsInv
<1>10. CandInv'
  BY <1>1, <1>2, <1>3, <1>4 DEF AlignInv, CandInv, Holding, Recorded, c
<1>11. CopyInv'
  BY <1>1 DEF CopyInv, Holding
<1>12. \A b : Continues(b)' <=> Continues(b)
  BY <1>1, <1>4 DEF Continues
<1>13. aligned \in Holders' => aligned \in Holders
  BY <1>2, <1>5
<1>14. (StampInv /\ PrepareInv)'
  BY <1>1, <1>3, <1>5, <1>12 DEF AlignInv, StampInv, PrepareInv
<1>15. (AlignedInv /\ FlightInv /\ UserInv)'
  BY <1>1, <1>12, <1>13 DEF AlignInv, AlignedInv, FlightInv, UserInv, Holding
<1> QED BY <1>6, <1>7, <1>8, <1>9, <1>10, <1>11, <1>14, <1>15 DEF AlignInv

LEMMA RoundInvStep ==
  ASSUME Inv, [Next]_vars
  PROVE  Inv'
<1>1. TypeOK'
  BY RoundTypeStep DEF Inv
<1>2. ASSUME (\E g \in Games \ queued : AssignTrain(g)) \/ UNCHANGED vars
      PROVE  (\A q \in Scopes : ScopeInv(q)') /\ AlignInv'
  <2>1. UNCHANGED <<model, mark, aligned, pc, seen, parent, copy, batch, cand>>
    BY <1>2 DEF AssignTrain, vars
  <2>2. \A q \in Scopes : ScopeInv(q)'
    BY <2>1, ScopeFrame DEF Inv
  <2>3. AlignInv'
    BY <2>1 DEF Inv, AlignInv, OnePointer, RowsInv, CandInv, CopyInv, StampInv, PrepareInv,
      AlignedInv, FlightInv, UserInv, Continues, Served, With, Holders, Holding, Recorded
  <2> QED BY <2>2, <2>3
<1>3. ASSUME NEW p \in Scopes,
             \/ Begin(p) \/ DecideFromScores(p) \/ Abandon(p)
             \/ NoteRejected(p, "idle") \/ NoteRejected(p, "reject")
      PROVE  (\A q \in Scopes : ScopeInv(q)') /\ AlignInv'
  BY <1>3, MoveOn
<1>4. DecideParentBaseline => (\A q \in Scopes : ScopeInv(q)') /\ AlignInv'
  BY MoveOn, TwoScopes
<1>5. ASSUME NEW p \in Scopes, PrepareTraining(p)
      PROVE  (\A q \in Scopes : ScopeInv(q)') /\ AlignInv'
  BY <1>5, PrepareStep
<1>6. ASSUME NEW p \in Scopes, RecordCandidate(p, "decide") \/ RecordCandidate(p, "record")
      PROVE  (\A q \in Scopes : ScopeInv(q)') /\ AlignInv'
  BY <1>6, RecordStep
<1>7. ASSUME NEW p \in Scopes, ArchiveServed(p)
      PROVE  (\A q \in Scopes : ScopeInv(q)') /\ AlignInv'
  BY <1>7, ArchiveStep
<1>8. ASSUME NEW p \in Scopes, PromoteCandidate(p, "mark") \/ PromoteCandidate(p, "apply")
      PROVE  (\A q \in Scopes : ScopeInv(q)') /\ AlignInv'
  BY <1>8, PromoteStep
<1>9. ASSUME NEW p \in Scopes, MarkTrained(p)
      PROVE  (\A q \in Scopes : ScopeInv(q)') /\ AlignInv'
  BY <1>9, MarkStep
<1>10. AlignPersonalQueue \/ StampQueueBaseline => (\A q \in Scopes : ScopeInv(q)') /\ AlignInv'
  BY AlignStep
<1>11. ClearHolder \/ SetPointer => (\A q \in Scopes : ScopeInv(q)') /\ AlignInv'
  BY PointerStep
<1>12. (\A q \in Scopes : ScopeInv(q)') /\ AlignInv'
  BY <1>2, <1>3, <1>4, <1>5, <1>6, <1>7, <1>8, <1>9, <1>10, <1>11 DEF Next
<1>13. (\A q \in Scopes : ScopeInv(q))'
  BY <1>12
<1> QED BY <1>1, <1>12, <1>13 DEF Inv

\* The three properties are conjuncts of the invariant.
LEMMA RoundInvGives ==
  ASSUME Inv
  PROVE  OneServed /\ OnePointer /\ (Careful => MarkedGamesAreServed)
BY DEF Inv, ScopeInv, AlignInv, OneServed, MarkedGamesAreServed

LEMMA RoundInv == Spec => []Inv
<1>1. Inv /\ [Next]_vars => Inv'
  BY RoundInvStep
<1> QED BY <1>1, RoundInvInit, PTL DEF Spec

(***************************************************************************)
(* A scope serves one model at most, also when rounds die between the two  *)
(* saves of a promotion, repeat them, or start from a parent of the other  *)
(* scope.                                                                  *)
(***************************************************************************)
THEOREM RoundServesOne == Spec => []OneServed
BY RoundInv, RoundInvGives, PTL

(***************************************************************************)
(* The parent baseline is one row at most: the copy promote_over writes    *)
(* back, hours old, never restores a pointer that was moved meanwhile.     *)
(***************************************************************************)
THEOREM RoundHasOnePointer == Spec => []OnePointer
BY RoundInv, RoundInvGives, PTL

(***************************************************************************)
(* A game a scope has marked is in the weights it serves, whatever the     *)
(* interleaving of the platform's promotions and parent-baseline changes   *)
(* with the user's alignment, fit, promotion and marks, provided a round   *)
(* never ends between the two saves of a promotion, nor does the parent    *)
(* baseline move between the two reads of it in PrepareTraining.           *)
(***************************************************************************)
THEOREM RoundMarksAreServed ==
  ASSUME AtomicPromotion, StableAlign
  PROVE  Spec => []MarkedGamesAreServed
<1>1. Inv => MarkedGamesAreServed
  BY RoundInvGives DEF Careful
<1> QED BY <1>1, RoundInv, PTL

-----------------------------------------------------------------------------
(* The lineage of the personal rows.  A platform row that was promoted once  *)
(* stays promoted, and its weights never change.                             *)

Promoted == Served("platform") \cup With("platform", "archived")

Honest(l, games) == l # 0 => l \in Promoted /\ model["platform"][l].weights \subseteq games

LineageInv ==
    /\ \A v \in Versions : Honest(model["user"][v].lineage, model["user"][v].weights)
    /\ Holding("user") => Honest(copy["user"].lineage, copy["user"].weights)
    /\ Holders \subseteq Promoted
    /\ pc["platform"] \in {"mark", "adopt", "clear"} => cand["platform"] \in Promoted
    /\ Holding("platform") /\ parent["platform"].kind = "platform" =>
         /\ parent["platform"].key \in Promoted
         /\ copy["platform"].weights = model["platform"][parent["platform"].key].weights

\* Every way a step changes a row.
RowStep(p, w) ==
    \/ model'[p][w] = model[p][w]
    \/ /\ pc[p] = "record" /\ model[p][w].status = "none"
       /\ model'[p][w] = CandidateRow(p, w)
    \/ /\ pc[p] = "apply" /\ pc'[p] = "promote" /\ parent[p].kind = p /\ parent[p].key = w
       /\ model'[p][w] = [copy[p] EXCEPT !.status = "archived"]
    \/ /\ model[p][w].status = "production" \/ (pc[p] = "promote" /\ w = cand[p])
       /\ \E st \in {"archived", "production"} :
            /\ model'[p][w] = [model[p][w] EXCEPT !.status = st]
            /\ pc[p] = "promote" => st = "production"
            /\ st = "archived" => pc'[p] = "promote"
    \/ /\ p = "platform"
       /\ \E a \in {"yes", "no"} : /\ model'[p][w] = [model[p][w] EXCEPT !.pointer = a]
                                   /\ a = "yes" => pc[p] = "clear" /\ w = cand[p]

LEMMA RowsStep ==
  ASSUME Inv, [Next]_vars, NEW p \in Scopes, NEW w \in Versions
  PROVE  RowStep(p, w)
<1> USE TwoScopes DEF Inv
<1>1. CASE UNCHANGED model
  BY <1>1 DEF RowStep
<1>2. ASSUME NEW q \in Scopes, NEW l \in {"decide", "record"}, RecordCandidate(q, l)
      PROVE  RowStep(p, w)
  <2>1. PICK v \in Versions : IsNextVersion(q, v) /\ Write(q, v, CandidateRow(q, v))
    BY <1>2 DEF RecordCandidate
  <2>2. model[q][v].status = "none" /\ pc[q] = "record"
    <3>1. model[q][v].status # "none" <=> v < v
      BY <2>1 DEF IsNextVersion
    <3> QED BY <1>2, <3>1 DEF Versions, RecordCandidate
  <2> QED BY <2>1, <2>2, WriteRow DEF RowStep
<1>3. ASSUME NEW q \in Scopes, ArchiveServed(q)
      PROVE  RowStep(p, w)
  <2>1. pc[q] = "apply" /\ pc'[q] = "promote"
    BY <1>3 DEF ArchiveServed, Goto, TypeOK
  <2>2. CASE parent[q].kind = q
    <3>1. parent[q].key \in Versions
      BY <2>1, <2>2 DEF ScopeInv, Holding
    <3>2. Write(q, parent[q].key, [copy[q] EXCEPT !.status = "archived"])
      BY <1>3, <2>2 DEF ArchiveServed
    <3> QED BY <2>1, <2>2, <3>1, <3>2, WriteRow DEF RowStep
  <2>3. CASE parent[q].kind # q
    <3>1. PICK v \in LatestServed(q) :
            IF v \in {0, cand[q]} THEN UNCHANGED model
            ELSE Write(q, v, [model[q][v] EXCEPT !.status = "archived"])
      BY <1>3, <2>3 DEF ArchiveServed
    <3>2. CASE v \in {0, cand[q]}
      BY <3>1, <3>2 DEF RowStep
    <3>3. CASE v \notin {0, cand[q]}
      <4>1. v \in Versions /\ model[q][v].status = "production"
        BY <3>3, LatestServedType DEF Served, With
      <4> QED BY <2>1, <3>1, <3>3, <4>1, WriteRow DEF RowStep
    <3> QED BY <3>2, <3>3
  <2> QED BY <2>2, <2>3
<1>4. ASSUME NEW q \in Scopes, NEW l \in {"mark", "apply"}, PromoteCandidate(q, l)
      PROVE  RowStep(p, w)
  <2>1. pc[q] = "promote" /\ cand[q] \in Versions
    BY <1>4 DEF PromoteCandidate, ScopeInv, Holding, Recorded
  <2>2. Write(q, cand[q], [model[q][cand[q]] EXCEPT !.status = "production"])
    BY <1>4 DEF PromoteCandidate
  <2> QED BY <2>1, <2>2, WriteRow DEF RowStep
<1>5. CASE ClearHolder
  <2>1. PICK v \in Holders : Write("platform", v, [model["platform"][v] EXCEPT !.pointer = "no"])
    BY <1>5 DEF ClearHolder
  <2> QED BY <2>1, WriteRow DEF RowStep, Holders
<1>6. CASE SetPointer
  <2>1. cand["platform"] \in Versions /\ pc["platform"] = "clear"
    BY <1>6 DEF SetPointer, AlignInv, CandInv
  <2>2. Write("platform", cand["platform"],
              [model["platform"][cand["platform"]] EXCEPT !.pointer = "yes"])
    BY <1>6 DEF SetPointer
  <2> QED BY <2>1, <2>2, WriteRow DEF RowStep
<1>7. \/ UNCHANGED model \/ ClearHolder \/ SetPointer
      \/ \E q \in Scopes : \/ RecordCandidate(q, "decide") \/ RecordCandidate(q, "record")
                           \/ ArchiveServed(q)
                           \/ PromoteCandidate(q, "mark") \/ PromoteCandidate(q, "apply")
  BY DEF Next, vars, AssignTrain, Begin, PrepareTraining, DecideFromScores, MarkTrained,
    NoteRejected, Abandon, AlignPersonalQueue, StampQueueBaseline, DecideParentBaseline
<1> QED BY <1>1, <1>2, <1>3, <1>4, <1>5, <1>6, <1>7

\* After the second save the candidate is served.
LEMMA PromoteServes ==
  ASSUME Inv, NEW q \in Scopes, NEW l \in {"mark", "apply"}, PromoteCandidate(q, l)
  PROVE  /\ pc[q] = "promote" /\ cand[q] \in Served(q)' /\ cand' = cand
         /\ copy' = copy /\ parent' = parent
         /\ pc'[q] = l /\ \A o \in Scopes : o # q => pc'[o] = pc[o]
<1> USE TwoScopes DEF Inv, TypeOK
<1>1. pc[q] = "promote" /\ cand[q] \in Versions
  BY DEF PromoteCandidate, ScopeInv, Holding, Recorded
<1>2. Write(q, cand[q], [model[q][cand[q]] EXCEPT !.status = "production"])
  BY DEF PromoteCandidate
<1>3. model[q][cand[q]] \in Row
  BY <1>1, RowOfModel
<1>4. model'[q][cand[q]] = [model[q][cand[q]] EXCEPT !.status = "production"]
  BY <1>1, <1>2, WriteRow
<1>5. model'[q][cand[q]].status = "production"
  BY <1>3, <1>4 DEF Row
<1> QED BY <1>1, <1>5 DEF PromoteCandidate, Goto, Served, With

\* What a round holds is set by PrepareTraining; the platform's candidate is
\* promoted before it is considered as parent baseline.
LEMMA RegistersStep ==
  ASSUME Inv, [Next]_vars, NEW p \in Scopes
  PROVE  /\ \/ PrepareTraining(p)
            \/ Holding(p)' => Holding(p) /\ copy'[p] = copy[p] /\ parent'[p] = parent[p]
         /\ p = "platform" /\ pc'[p] \in {"mark", "adopt", "clear"} =>
              /\ cand'[p] = cand[p]
              /\ \/ pc[p] \in {"mark", "adopt", "clear"}
                 \/ pc[p] = "promote" /\ cand[p] \in Served(p)'
<1> USE TwoScopes DEF Inv, TypeOK
<1>1. ASSUME NEW q \in Scopes, NEW l \in {"mark", "apply"}, PromoteCandidate(q, l)
      PROVE  /\ pc[q] = "promote" /\ cand[q] \in Served(q)' /\ cand' = cand
             /\ copy' = copy /\ parent' = parent
             /\ pc'[q] = l /\ \A o \in Scopes : o # q => pc'[o] = pc[o]
  BY <1>1, PromoteServes DEF Inv
<1>2. ASSUME NEW q \in Scopes, PrepareTraining(q)
      PROVE  /\ pc'[q] = "record" /\ cand' = cand
             /\ \A o \in Scopes : o # q => pc'[o] = pc[o] /\ copy'[o] = copy[o] /\ parent'[o] = parent[o]
  BY <1>2 DEF PrepareTraining, Goto
<1>3. ASSUME NEW q \in Scopes, NEW l \in {"decide", "record"}, RecordCandidate(q, l)
      PROVE  /\ pc[q] = "record" /\ pc'[q] = l /\ copy' = copy /\ parent' = parent
             /\ \A o \in Scopes : o # q => pc'[o] = pc[o] /\ cand'[o] = cand[o]
  BY <1>3 DEF RecordCandidate, Goto
<1>4. ASSUME NEW q \in Scopes,
             \/ Begin(q) \/ DecideFromScores(q) \/ ArchiveServed(q) \/ MarkTrained(q)
             \/ NoteRejected(q, "idle") \/ NoteRejected(q, "reject") \/ Abandon(q)
      PROVE  /\ copy' = copy /\ parent' = parent /\ cand' = cand
             /\ \A o \in Scopes : o # q => pc'[o] = pc[o]
             /\ Holding(q)' => Holding(q)
             /\ pc'[q] \in {"mark", "adopt", "clear"} => pc[q] = "mark"
  BY <1>4 DEF Begin, DecideFromScores, ArchiveServed, MarkTrained, NoteRejected, Abandon, Goto, Holding
<1>5. ASSUME \/ AlignPersonalQueue \/ StampQueueBaseline \/ DecideParentBaseline
             \/ ClearHolder \/ SetPointer \/ UNCHANGED vars
             \/ \E g \in Games \ queued : AssignTrain(g)
      PROVE  /\ copy' = copy /\ parent' = parent /\ cand' = cand
             /\ \A o \in Scopes : Holding(o)' => Holding(o)
             /\ pc'["platform"] \in {"mark", "adopt", "clear"} =>
                  pc["platform"] \in {"mark", "adopt", "clear"}
  BY <1>5 DEF AlignPersonalQueue, StampQueueBaseline, DecideParentBaseline, ClearHolder, SetPointer,
    AssignTrain, vars, Goto, Holding
<1> QED BY <1>1, <1>2, <1>3, <1>4, <1>5 DEF Next, Holding

LEMMA RowExcept ==
  ASSUME NEW r \in Row, NEW st \in Statuses, NEW a \in {"yes", "no"}
  PROVE  /\ [r EXCEPT !.status = st].status = st
         /\ [r EXCEPT !.status = st].pointer = r.pointer
         /\ [r EXCEPT !.status = st].lineage = r.lineage
         /\ [r EXCEPT !.status = st].weights = r.weights
         /\ [r EXCEPT !.pointer = a].status = r.status
         /\ [r EXCEPT !.pointer = a].pointer = a
         /\ [r EXCEPT !.pointer = a].weights = r.weights
BY DEF Row

\* RowStep, field by field.
LEMMA RowCases ==
  ASSUME Inv, [Next]_vars, NEW p \in Scopes, NEW w \in Versions
  PROVE  \/ model'[p][w] = model[p][w]
         \/ /\ pc[p] = "record" /\ model[p][w].status = "none"
            /\ model'[p][w] = CandidateRow(p, w)
         \/ /\ pc[p] = "apply" /\ parent[p].kind = p /\ parent[p].key = w
            /\ model'[p][w].status = "archived" /\ model'[p][w].pointer = copy[p].pointer
            /\ model'[p][w].lineage = copy[p].lineage /\ model'[p][w].weights = copy[p].weights
         \/ /\ model'[p][w].status \in {"archived", "production"}
            /\ model'[p][w].pointer = model[p][w].pointer
            /\ model'[p][w].lineage = model[p][w].lineage
            /\ model'[p][w].weights = model[p][w].weights
         \/ /\ p = "platform"
            /\ model'[p][w].status = model[p][w].status
            /\ model'[p][w].weights = model[p][w].weights
            /\ model'[p][w].pointer = "yes" => pc[p] = "clear" /\ w = cand[p]
<1>1. model[p][w] \in Row /\ copy[p] \in Row
  BY DEF Inv, TypeOK
<1>2. "archived" \in Statuses /\ "production" \in Statuses
  BY DEF Statuses
<1>3. RowStep(p, w)
  BY RowsStep
<1>4. CASE pc[p] = "apply" /\ parent[p].kind = p /\ parent[p].key = w
           /\ model'[p][w] = [copy[p] EXCEPT !.status = "archived"]
  BY <1>1, <1>2, <1>4, RowExcept
<1>5. ASSUME NEW st \in {"archived", "production"},
             model'[p][w] = [model[p][w] EXCEPT !.status = st]
      PROVE  /\ model'[p][w].status \in {"archived", "production"}
             /\ model'[p][w].pointer = model[p][w].pointer
             /\ model'[p][w].lineage = model[p][w].lineage
             /\ model'[p][w].weights = model[p][w].weights
  BY <1>1, <1>2, <1>5, RowExcept
<1>6. ASSUME NEW a \in {"yes", "no"}, model'[p][w] = [model[p][w] EXCEPT !.pointer = a]
      PROVE  /\ model'[p][w].status = model[p][w].status
             /\ model'[p][w].weights = model[p][w].weights
             /\ model'[p][w].pointer = a
  BY <1>1, <1>2, <1>6, RowExcept
<1> QED BY <1>3, <1>4, <1>5, <1>6 DEF RowStep

LEMMA PromotedKept ==
  ASSUME Inv, LineageInv, [Next]_vars, NEW v \in Promoted
  PROVE  v \in Promoted' /\ model'["platform"][v].weights = model["platform"][v].weights
<1>1. v \in Versions /\ model["platform"][v].status \in {"production", "archived"}
  BY DEF Promoted, Served, With
<1>2. pc["platform"] = "apply" /\ parent["platform"].kind = "platform" /\ parent["platform"].key = v =>
        copy["platform"].weights = model["platform"][v].weights
  BY DEF LineageInv, Holding
<1>3. /\ model'["platform"][v].status \in {"production", "archived"}
      /\ model'["platform"][v].weights = model["platform"][v].weights
  BY <1>1, <1>2, RowCases, TwoScopes
<1> QED BY <1>1, <1>3 DEF Promoted, Served, With

LEMMA HonestKept ==
  ASSUME Inv, LineageInv, [Next]_vars, NEW l, NEW games, Honest(l, games)
  PROVE  l # 0 => l \in Promoted' /\ model'["platform"][l].weights \subseteq games
BY PromotedKept DEF Honest

LEMMA LineageStep ==
  ASSUME Inv, LineageInv, [Next]_vars
  PROVE  LineageInv'
<1> USE TwoScopes
<1>1. ASSUME NEW v \in Versions
      PROVE  Honest(model["user"][v].lineage, model["user"][v].weights)'
  <2>1. Honest(model["user"][v].lineage, model["user"][v].weights)
    BY DEF LineageInv
  <2>2. pc["user"] \in {"record", "apply"} => Honest(copy["user"].lineage, copy["user"].weights)
    BY DEF LineageInv, Holding
  <2>3. \/ /\ model'["user"][v].lineage = model["user"][v].lineage
           /\ model'["user"][v].weights = model["user"][v].weights
        \/ /\ pc["user"] \in {"record", "apply"}
           /\ model'["user"][v].lineage = copy["user"].lineage
           /\ copy["user"].weights \subseteq model'["user"][v].weights
    <3>1. /\ CandidateRow("user", v).lineage = copy["user"].lineage
          /\ copy["user"].weights \subseteq CandidateRow("user", v).weights
      BY DEF CandidateRow
    <3> QED BY <3>1, RowCases
  <2>4. CASE /\ model'["user"][v].lineage = model["user"][v].lineage
             /\ model'["user"][v].weights = model["user"][v].weights
    BY <2>1, <2>4, HonestKept DEF Honest
  <2>5. CASE /\ pc["user"] \in {"record", "apply"}
             /\ model'["user"][v].lineage = copy["user"].lineage
             /\ copy["user"].weights \subseteq model'["user"][v].weights
    <3>1. copy["user"].lineage # 0 =>
            /\ copy["user"].lineage \in Promoted'
            /\ model'["platform"][copy["user"].lineage].weights \subseteq copy["user"].weights
      BY <2>2, <2>5, HonestKept
    <3> QED BY <2>5, <3>1 DEF Honest
  <2> QED BY <2>3, <2>4, <2>5
<1>2. ASSUME Holding("user")'
      PROVE  Honest(copy["user"].lineage, copy["user"].weights)'
  <2>1. CASE ~ PrepareTraining("user")
    <3>1. copy'["user"] = copy["user"] /\ Honest(copy["user"].lineage, copy["user"].weights)
      BY <1>2, <2>1, RegistersStep DEF LineageInv
    <3> QED BY <3>1, HonestKept DEF Honest
  <2>2. CASE PrepareTraining("user")
    <3>1. PICK h \in Parents("user") :
            copy' = [copy EXCEPT !["user"] = IF h.key = 0 THEN NoRow ELSE model[h.kind][h.key]]
      BY <2>2 DEF PrepareTraining
    <3>2. copy'["user"] = (IF h.key = 0 THEN NoRow ELSE model[h.kind][h.key])
      BY <3>1 DEF Inv, TypeOK
    <3>3. \/ h = NoParent
          \/ h = [kind |-> "user", key |-> h.key] /\ h.key \in Versions /\ h.key # 0
          \/ /\ h = [kind |-> "platform", key |-> h.key] /\ h.key \in Versions /\ h.key # 0
             /\ h.key \in Holders \cup Served("platform")
      BY ParentIsARow
    <3>4. CASE h = NoParent
      BY <3>2, <3>4 DEF NoParent, NoRow, Honest
    <3>5. CASE h = [kind |-> "user", key |-> h.key] /\ h.key \in Versions /\ h.key # 0
      <4>1. copy'["user"] = model["user"][h.key]
        BY <3>2, <3>5
      <4>2. Honest(model["user"][h.key].lineage, model["user"][h.key].weights)
        BY <3>5 DEF LineageInv
      <4> QED BY <4>1, <4>2, HonestKept DEF Honest
    <3>6. CASE /\ h = [kind |-> "platform", key |-> h.key] /\ h.key \in Versions /\ h.key # 0
               /\ h.key \in Holders \cup Served("platform")
      <4>1. copy'["user"] = model["platform"][h.key]
        BY <3>2, <3>6
      <4>2. h.key \in Promoted
        BY <3>6 DEF LineageInv, Promoted
      <4>3. model["platform"][h.key].lineage = h.key
        BY <3>6, <4>2 DEF Inv, AlignInv, RowsInv, Promoted, Served, With
      <4>4. Honest(h.key, model["platform"][h.key].weights)
        BY <4>2 DEF Honest
      <4> QED BY <4>1, <4>3, <4>4, HonestKept DEF Honest
    <3> QED BY <3>3, <3>4, <3>5, <3>6
  <2> QED BY <2>1, <2>2
<1>3. (Holders \subseteq Promoted)'
  <2>1. SUFFICES ASSUME NEW w \in Versions, model'["platform"][w].pointer = "yes"
                 PROVE  w \in Promoted'
    BY DEF Holders
  <2>2. CASE model["platform"][w].pointer = "yes"
    BY <2>2, PromotedKept DEF LineageInv, Holders
  <2>3. CASE model["platform"][w].pointer # "yes"
    <3>1. \/ pc["platform"] = "clear" /\ w = cand["platform"]
          \/ pc["platform"] = "apply" /\ parent["platform"].kind = "platform"
             /\ parent["platform"].key = w
      <4>1. CandidateRow("platform", w).pointer = "no"
        BY DEF CandidateRow
      <4> QED BY <2>1, <2>3, <4>1, RowCases
    <3>2. w \in Promoted
      BY <3>1 DEF LineageInv, Holding
    <3> QED BY <3>2, PromotedKept
  <2> QED BY <2>2, <2>3
<1>4. (pc["platform"] \in {"mark", "adopt", "clear"} => cand["platform"] \in Promoted)'
  <2>1. SUFFICES ASSUME pc'["platform"] \in {"mark", "adopt", "clear"}
                 PROVE  cand'["platform"] \in Promoted'
    OBVIOUS
  <2>2. /\ cand'["platform"] = cand["platform"]
        /\ \/ pc["platform"] \in {"mark", "adopt", "clear"}
           \/ cand["platform"] \in Served("platform")'
    BY <2>1, RegistersStep
  <2>3. CASE cand["platform"] \in Served("platform")'
    BY <2>2, <2>3 DEF Promoted
  <2>4. CASE pc["platform"] \in {"mark", "adopt", "clear"}
    BY <2>2, <2>4, PromotedKept DEF LineageInv
  <2> QED BY <2>2, <2>3, <2>4
<1>5. ASSUME Holding("platform")', parent'["platform"].kind = "platform"
      PROVE  /\ parent'["platform"].key \in Promoted'
             /\ copy'["platform"].weights = model'["platform"][parent'["platform"].key].weights
  <2>1. /\ parent'["platform"].key \in Promoted
        /\ copy'["platform"].weights = model["platform"][parent'["platform"].key].weights
    <3>1. CASE ~ PrepareTraining("platform")
      BY <1>5, <3>1, RegistersStep DEF LineageInv
    <3>2. CASE PrepareTraining("platform")
      <4>1. PICK h \in Parents("platform") :
              /\ parent' = [parent EXCEPT !["platform"] = h]
              /\ copy' = [copy EXCEPT !["platform"] =
                            IF h.key = 0 THEN NoRow ELSE model[h.kind][h.key]]
        BY <3>2 DEF PrepareTraining
      <4>2. /\ parent'["platform"] = h
            /\ copy'["platform"] = (IF h.key = 0 THEN NoRow ELSE model[h.kind][h.key])
        BY <4>1 DEF Inv, TypeOK
      <4>3. h = NoParent \/ (h.key \in Served("platform") /\ h.key # 0)
        BY ParentIsARow
      <4> QED BY <1>5, <4>2, <4>3 DEF NoParent, Promoted
    <3> QED BY <3>1, <3>2
  <2> QED BY <2>1, PromotedKept
<1> QED BY <1>1, <1>2, <1>3, <1>4, <1>5 DEF LineageInv

LEMMA LineageInit == Init => LineageInv
<1> SUFFICES ASSUME Init PROVE LineageInv
  OBVIOUS
<1>1. Holders = {}
  BY TwoScopes DEF Init, Holders, NoRow
<1> QED BY <1>1, TwoScopes DEF Init, LineageInv, Honest, Holding, NoRow, NoParent

(***************************************************************************)
(* parent_baseline_version never lies: the platform row it names was       *)
(* promoted, and the personal weights hold all that row had learned,       *)
(* however old the handle the lineage was copied from.                     *)
(***************************************************************************)
THEOREM RoundLineageIsHonest == Spec => []LineageIsHonest
<1>1. Inv /\ LineageInv /\ [Next]_vars => LineageInv'
  BY LineageStep
<1>2. Inv /\ LineageInv => LineageIsHonest
  BY DEF LineageInv, LineageIsHonest, Honest, Promoted, Served, With, Lineage
<1> QED BY <1>1, <1>2, LineageInit, RoundInv, PTL DEF Spec

-----------------------------------------------------------------------------
(* The chain of the platform's promotions.                                 *)

\* What the platform serves is above all it ever promoted, outside the two saves;
\* the parent of a round in progress is, but for the round's own candidate.
ChainInv ==
    /\ PromotionsBuildOnEachOther
    /\ pc["platform"] # "promote" => \A v \in Promoted : \E s \in Served("platform") : v <= s
    /\ Holding("platform") => \A v \in Promoted :
         \/ Recorded("platform") /\ v = cand["platform"]
         \/ parent["platform"].kind = "platform" /\ v <= parent["platform"].key
    /\ Recorded("platform") => \A v \in Promoted : v <= cand["platform"]

PromotedIn(v) == v \in Versions /\ model["platform"][v].status \in {"production", "archived"}

LEMMA PromotedMeans == \A v : v \in Promoted <=> PromotedIn(v)
BY DEF Promoted, PromotedIn, Served, With

\* Only the second save of promote_over adds to the promoted rows.
LEMMA PromotedGains ==
  ASSUME Inv, LineageInv, [Next]_vars, NEW w \in Promoted'
  PROVE  w \in Promoted \/ (pc["platform"] = "promote" /\ w = cand["platform"])
<1>1. w \in Versions /\ model'["platform"][w].status \in {"production", "archived"}
  BY DEF Promoted, Served, With
<1>2. RowStep("platform", w) /\ model["platform"][w] \in Row
  BY <1>1, RowsStep, TwoScopes DEF Inv, TypeOK
<1>3. CASE model'["platform"][w].status = model["platform"][w].status
  BY <1>1, <1>3, PromotedMeans DEF PromotedIn
<1>4. CASE model'["platform"][w] = CandidateRow("platform", w)
  BY <1>1, <1>4 DEF CandidateRow
<1>5. CASE pc["platform"] = "apply" /\ parent["platform"].kind = "platform" /\ parent["platform"].key = w
  BY <1>5 DEF LineageInv, Holding
<1>6. CASE model["platform"][w].status = "production" \/ (pc["platform"] = "promote" /\ w = cand["platform"])
  BY <1>1, <1>6, PromotedMeans DEF PromotedIn
<1>7. ASSUME NEW a \in {"yes", "no"}, model'["platform"][w] = [model["platform"][w] EXCEPT !.pointer = a]
      PROVE  model'["platform"][w].status = model["platform"][w].status
  BY <1>2, <1>7 DEF Row
<1> QED BY <1>2, <1>3, <1>4, <1>5, <1>6, <1>7 DEF RowStep

\* The platform leaves the two saves by the second one, and only the first takes
\* away what it serves.
LEMMA ServedStep ==
  ASSUME Inv, AtomicPromotion, [Next]_vars, pc'["platform"] # "promote"
  PROVE  \/ pc["platform"] = "promote" /\ cand["platform"] \in Served("platform")'
         \/ pc["platform"] # "promote" /\ Served("platform") \subseteq Served("platform")'
<1> USE TwoScopes
<1>1. CASE pc["platform"] = "promote"
  <2>1. PICK l \in {"mark", "apply"} : PromoteCandidate("platform", l)
    BY <1>1 DEF Inv, TypeOK, Next, vars, AssignTrain, Begin, PrepareTraining, RecordCandidate,
      DecideFromScores, ArchiveServed, PromoteCandidate, MarkTrained, NoteRejected, Abandon,
      AlignPersonalQueue, StampQueueBaseline, DecideParentBaseline, ClearHolder, SetPointer, Goto
  <2> QED BY <1>1, <2>1, PromoteServes
<1>2. ASSUME pc["platform"] # "promote", NEW w \in Served("platform")
      PROVE  w \in Served("platform")'
  <2>1. w \in Versions /\ model["platform"][w].status = "production"
    BY DEF Served, With
  <2>2. RowStep("platform", w) /\ model["platform"][w] \in Row
    BY <2>1, RowsStep DEF Inv, TypeOK
  <2>3. ASSUME NEW a, model'["platform"][w] = [model["platform"][w] EXCEPT !.pointer = a]
        PROVE  model'["platform"][w].status = "production"
    BY <2>1, <2>2, <2>3 DEF Row
  <2>4. ASSUME model'["platform"][w] = [model["platform"][w] EXCEPT !.status = "production"]
        PROVE  model'["platform"][w].status = "production"
    BY <2>2, <2>4 DEF Row
  <2>5. model'["platform"][w].status = "production"
    BY <1>2, <2>1, <2>2, <2>3, <2>4 DEF RowStep
  <2> QED BY <2>1, <2>5 DEF Served, With
<1> QED BY <1>1, <1>2

\* The candidate is recorded above every row there is.
LEMMA RecordedStep ==
  ASSUME Inv, LineageInv, [Next]_vars, Recorded("platform")'
  PROVE  \/ Recorded("platform") /\ cand'["platform"] = cand["platform"]
         \/ pc["platform"] = "record" /\ \A v \in Promoted : v < cand'["platform"]
<1> USE TwoScopes DEF Inv, TypeOK
<1>1. ASSUME NEW l \in {"decide", "record"}, RecordCandidate("platform", l)
      PROVE  pc["platform"] = "record" /\ \A v \in Promoted : v < cand'["platform"]
  <2>1. PICK v \in Versions : IsNextVersion("platform", v) /\ cand' = [cand EXCEPT !["platform"] = v]
    BY <1>1 DEF RecordCandidate
  <2>2. cand'["platform"] = v
    BY <2>1
  <2>3. \A w \in Promoted : w \in Versions /\ model["platform"][w].status # "none"
    BY DEF Promoted, Served, With
  <2> QED BY <1>1, <2>1, <2>2, <2>3 DEF IsNextVersion, RecordCandidate
<1>2. CASE ~(RecordCandidate("platform", "decide") \/ RecordCandidate("platform", "record"))
  BY <1>2 DEF Next, vars, AssignTrain, Begin, PrepareTraining, RecordCandidate,
    DecideFromScores, ArchiveServed, PromoteCandidate, MarkTrained, NoteRejected, Abandon,
    AlignPersonalQueue, StampQueueBaseline, DecideParentBaseline, ClearHolder, SetPointer, Goto,
    Recorded, Holding
<1> QED BY <1>1, <1>2

\* A recorded candidate stays the round's as long as the round holds on.
LEMMA StaysRecorded ==
  ASSUME Inv, [Next]_vars, Recorded("platform"), Holding("platform")'
  PROVE  Recorded("platform")' /\ cand'["platform"] = cand["platform"]
BY TwoScopes DEF Inv, TypeOK, Next, vars, AssignTrain, Begin, PrepareTraining, RecordCandidate,
  DecideFromScores, ArchiveServed, PromoteCandidate, MarkTrained, NoteRejected, Abandon,
  AlignPersonalQueue, StampQueueBaseline, DecideParentBaseline, ClearHolder, SetPointer, Goto,
  Recorded, Holding

LEMMA ChainStep ==
  ASSUME Inv, LineageInv, ChainInv, AtomicPromotion, [Next]_vars
  PROVE  ChainInv'
<1> USE TwoScopes
<1>1. \A v \in Promoted' : v \in Versions /\
        (v \in Promoted \/ (pc["platform"] = "promote" /\ v = cand["platform"]))
  BY PromotedGains DEF Promoted, Served, With
<1>2. \A v \in Promoted : v \in Versions /\ v \in Promoted' /\
        model'["platform"][v].weights = model["platform"][v].weights
  BY PromotedKept DEF Promoted, Served, With
<1>3. pc["platform"] = "promote" =>
        /\ cand["platform"] \in Versions
        /\ \A v \in Promoted : v <= cand["platform"]
  BY DEF ChainInv, Recorded, Holding, Inv, ScopeInv
\* What the candidate was fitted from had learned all that was promoted before.
<1>4. ASSUME pc["platform"] = "promote", NEW v \in Promoted, v # cand["platform"]
      PROVE  model["platform"][v].weights \subseteq model'["platform"][cand["platform"]].weights
  <2>1. /\ parent["platform"].kind = "platform" /\ v <= parent["platform"].key
        /\ parent["platform"].key \in Promoted
        /\ copy["platform"].weights = model["platform"][parent["platform"].key].weights
        /\ copy["platform"].weights \subseteq model["platform"][cand["platform"]].weights
    BY <1>4 DEF ChainInv, LineageInv, Inv, ScopeInv, Recorded, Holding
  <2>2. model["platform"][v].weights \subseteq model["platform"][parent["platform"].key].weights
    <3>1. parent["platform"].key \in Versions /\ v \in Versions
      BY <1>2, <2>1
    <3>2. v = parent["platform"].key \/ v < parent["platform"].key
      BY <2>1, <3>1 DEF Versions
    <3> QED BY <2>1, <3>2 DEF ChainInv, PromotionsBuildOnEachOther, Promoted
  <2>3. model'["platform"][cand["platform"]].weights = model["platform"][cand["platform"]].weights
    BY <1>3, <1>4, RowCases
  <2> QED BY <2>1, <2>2, <2>3
<1>5. PromotionsBuildOnEachOther'
  <2>1. SUFFICES ASSUME NEW v \in Promoted', NEW w \in Promoted', v < w
                 PROVE  model'["platform"][v].weights \subseteq model'["platform"][w].weights
    BY DEF PromotionsBuildOnEachOther, Promoted
  <2>2. CASE v \in Promoted /\ w \in Promoted
    BY <1>2, <2>1, <2>2 DEF ChainInv, PromotionsBuildOnEachOther, Promoted
  <2>3. CASE v \in Promoted /\ pc["platform"] = "promote" /\ w = cand["platform"]
    <3>1. v \in Versions /\ v # cand["platform"]
      BY <1>1, <2>1, <2>3 DEF Versions
    <3> QED BY <1>2, <1>4, <2>3, <3>1
  <2>4. CASE w \in Promoted /\ pc["platform"] = "promote" /\ v = cand["platform"]
    BY <1>1, <1>3, <2>1, <2>4 DEF Versions
  <2>5. CASE v = cand["platform"] /\ w = cand["platform"]
    BY <2>5
  <2> QED BY <1>1, <2>2, <2>3, <2>4, <2>5
<1>6. ASSUME pc'["platform"] # "promote", NEW v \in Promoted'
      PROVE  \E s \in Served("platform")' : v <= s
  <2>1. CASE pc["platform"] = "promote"
    <3>1. cand["platform"] \in Served("platform")'
      BY <1>6, <2>1, ServedStep
    <3>2. v <= cand["platform"]
      BY <1>1, <1>3, <2>1 DEF Versions
    <3> QED BY <3>1, <3>2
  <2>2. CASE pc["platform"] # "promote"
    <3>1. Served("platform") \subseteq Served("platform")'
      BY <1>6, <2>2, ServedStep
    <3>2. PICK s \in Served("platform") : v <= s
      BY <1>1, <2>2 DEF ChainInv
    <3> QED BY <3>1, <3>2
  <2> QED BY <2>1, <2>2
<1>7. ASSUME Recorded("platform")'
      PROVE  \A v \in Promoted' : v <= cand'["platform"]
  <2>1. CASE Recorded("platform") /\ cand'["platform"] = cand["platform"]
    BY <1>1, <1>3, <2>1 DEF ChainInv, Versions
  <2>2. CASE pc["platform"] = "record" /\ \A v \in Promoted : v < cand'["platform"]
    <3>1. cand'["platform"] \in Versions
      BY <1>7, RoundInvStep DEF Inv, ScopeInv
    <3> QED BY <1>1, <2>2, <3>1 DEF Versions
  <2> QED BY <1>7, <2>1, <2>2, RecordedStep
<1>8. ASSUME Holding("platform")', NEW v \in Promoted'
      PROVE  \/ Recorded("platform")' /\ v = cand'["platform"]
             \/ parent'["platform"].kind = "platform" /\ v <= parent'["platform"].key
  <2>1. CASE PrepareTraining("platform")
    <3>1. PICK h \in Parents("platform") : parent' = [parent EXCEPT !["platform"] = h]
      BY <2>1 DEF PrepareTraining
    <3>2. parent'["platform"] = h /\ pc["platform"] = "prepare"
      BY <2>1, <3>1 DEF Inv, TypeOK, PrepareTraining
    <3>3. v \in Promoted
      BY <1>1, <3>2
    <3>4. PICK s \in Served("platform") : v <= s
      BY <3>2, <3>3 DEF ChainInv
    <3>5. h.kind = "platform" /\ h.key \in Served("platform")
      BY <3>4, ParentIsARow
    <3>6. h.key = s
      BY <3>4, <3>5 DEF Inv, ScopeInv
    <3> QED BY <3>2, <3>4, <3>5, <3>6
  <2>2. CASE ~PrepareTraining("platform")
    <3>1. Holding("platform") /\ parent'["platform"] = parent["platform"]
      BY <1>8, <2>2, RegistersStep
    <3>2. CASE v \in Promoted /\ parent["platform"].kind = "platform" /\ v <= parent["platform"].key
      BY <3>1, <3>2
    <3>3. CASE Recorded("platform") /\ v = cand["platform"]
      <4>1. Recorded("platform")' /\ cand'["platform"] = cand["platform"]
        BY <1>8, <3>3, StaysRecorded
      <4> QED BY <3>3, <4>1
    <3>4. CASE pc["platform"] = "promote"
      <4>1. Recorded("platform")
        BY <3>4 DEF Recorded, Holding
      <4> QED BY <1>1, <3>1, <3>2, <3>3, <3>4, <4>1 DEF ChainInv
    <3> QED BY <1>1, <3>1, <3>2, <3>3, <3>4 DEF ChainInv
  <2> QED BY <2>1, <2>2
<1> QED BY <1>5, <1>6, <1>7, <1>8 DEF ChainInv

(***************************************************************************)
(* Promotions build on each other: when no round ends between the two      *)
(* saves of promote_over, a platform model promoted later was fitted on    *)
(* all that one promoted before it had been fitted on.                     *)
(***************************************************************************)
THEOREM RoundPromotionsChain ==
  ASSUME AtomicPromotion PROVE Spec => []PromotionsBuildOnEachOther
<1>1. Init => ChainInv
  <2> SUFFICES ASSUME Init PROVE ChainInv
    OBVIOUS
  <2>1. Promoted = {}
    BY TwoScopes DEF Init, Promoted, Served, With, NoRow
  <2> QED BY <2>1, TwoScopes DEF Init, ChainInv, PromotionsBuildOnEachOther, Promoted, Holding, Recorded
<1>2. Inv /\ LineageInv /\ ChainInv /\ [Next]_vars => ChainInv'
  BY ChainStep
<1>3. Inv /\ LineageInv /\ [Next]_vars => LineageInv'
  BY LineageStep
<1>4. ChainInv => PromotionsBuildOnEachOther
  BY DEF ChainInv
<1> QED BY <1>1, <1>2, <1>3, <1>4, LineageInit, RoundInv, PTL DEF Spec
=============================================================================
