--------------------------- MODULE TrainingRound ---------------------------
(***************************************************************************)
(* A training round of pipelines/neural_network: the platform scope and    *)
(* one user's scope, run by the same steps (scheme_steps.py) over the same *)
(* scheme (schemes.py), on the model rows (models.py) and the queue of     *)
(* train games (split_registry.py).                                        *)
(*                                                                         *)
(* One round per scope at a time: that is what PipelineLock grants.  The   *)
(* two scopes interleave, and the user's reads what the platform's writes. *)
(* A model URI is abstracted to what its weights were fitted on, a set of  *)
(* games; a game is one move for the minimum and the limit.  Every row is  *)
(* compatible with the running code.  Each database call is one step.      *)
(***************************************************************************)
EXTENDS Naturals, FiniteSets

CONSTANTS
    Games,            \* the games of every account
    UserGames,        \* those of the user's linked accounts
    MaxVersion,       \* bound: versions a scope may reach
    MaxTries,         \* bound: the attempt counters saturate here
    MinNewMoves,      \* min_new_moves, per scope
    BatchLimit,       \* MAX_MOVES_PER_BASELINE_BATCH
    AtomicPromotion,  \* TRUE: no round ends between the two saves of promote_over
    StableAlign       \* TRUE: the parent baseline is not set between the read of
                      \* align_personal_queue and that of resolve_parent

Scopes == {"platform", "user"}
Versions == 1..MaxVersion
Statuses == {"none", "candidate", "production", "archived"}
NoParent == [kind |-> "none", key |-> 0]

Row == [status : Statuses, pointer : {"yes", "no"},
        lineage : 0..MaxVersion, weights : SUBSET Games]
NoRow == [status |-> "none", pointer |-> "no", lineage |-> 0, weights |-> {}]

ASSUME TrainingRoundAssumption ==
    /\ UserGames \subseteq Games
    /\ MaxVersion \in Nat /\ MaxTries \in Nat /\ BatchLimit \in Nat
    /\ MinNewMoves \in [Scopes -> Nat]
    /\ AtomicPromotion \in BOOLEAN /\ StableAlign \in BOOLEAN

VARIABLES
    model,    \* the rows of baseline_models and of personal_models, by version
    queued,   \* games assigned to the train bucket
    mark,     \* games with the scope's already_processed flag
    tries,    \* the scope's train_attempts column
    aligned,  \* personal_queue_baseline of the user's TrainingState, 0 is NULL
    pc,       \* the call the scope's round makes next
    seen,     \* the parent baseline align_personal_queue has read
    parent,   \* extras["parent"]: kind and version
    copy,     \* the row that handle carries as payload
    batch,    \* extras["train_game_ids"]
    cand      \* version of extras["candidate"]

tables == <<model, queued, mark, tries, aligned>>
round == <<pc, seen, parent, copy, batch, cand>>
vars == <<model, queued, mark, tries, aligned, pc, seen, parent, copy, batch, cand>>

Steps == {"idle", "align", "stamp", "prepare", "record", "decide", "apply",
          "promote", "mark", "reject", "adopt", "clear"}

With(p, s) == {v \in Versions : model[p][v].status = s}
Served(p) == With(p, "production")

\* The row ORDER BY trained_at DESC LIMIT 1 returns, 0 when there is none: rows
\* are written in the order of their versions.
LatestServed(p) ==
    IF Served(p) = {} THEN {0} ELSE {v \in Served(p) : \A w \in Served(p) : w <= v}

Holders == {v \in Versions : model["platform"][v].pointer = "yes"}
ParentBaseline ==
    IF Holders = {} THEN {0} ELSE {v \in Holders : \A w \in Holders : w <= v}

\* The highest version of the scope, plus one: versions have no gap.
IsNextVersion(p, v) == \A w \in Versions : model[p][w].status # "none" <=> w < v

Lineage(p, v) == IF v = 0 THEN 0 ELSE model[p][v].lineage

Handle(p, v) == IF v = 0 THEN NoParent ELSE [kind |-> p, key |-> v]

\* resolve_training_parent, from the parent baseline b, the user's served model
\* u and the served platform model s (0 for none).
ResolveParent(p, b, u, s) ==
    IF p = "platform" THEN Handle("platform", s)
    ELSE IF b # 0 THEN IF u # 0 /\ Lineage("user", u) = b THEN Handle("user", u)
                       ELSE Handle("platform", b)
    ELSE IF u # 0 THEN Handle("user", u) ELSE Handle("platform", s)

Parents(p) ==
    {ResolveParent(p, b, u, s) : b \in ParentBaseline,
                                 u \in LatestServed("user"), s \in LatestServed("platform")}

Pool(p) == IF p = "platform" THEN queued ELSE queued \cap UserGames
Unmarked(p) == Pool(p) \ mark[p]
Untried(p) == {g \in Unmarked(p) : tries[p][g] = 0}

\* Never-tried games while there are enough of them, else every unmarked game.
Pending(p) == IF Cardinality(Untried(p)) >= MinNewMoves[p] THEN Untried(p) ELSE Unmarked(p)

\* The front of the queue, fewest attempts first.
TrainBatch(p) ==
    {b \in SUBSET Pending(p) :
        /\ Cardinality(b) <= BatchLimit
        /\ b # Pending(p) => Cardinality(b) = BatchLimit
        /\ \A g \in b, h \in Pending(p) \ b : tries[p][g] <= tries[p][h]}

Init ==
    /\ model = [p \in Scopes |-> [v \in Versions |-> NoRow]]
    /\ queued = {}
    /\ mark = [p \in Scopes |-> {}]
    /\ tries = [p \in Scopes |-> [g \in Games |-> 0]]
    /\ aligned = 0
    /\ pc = [p \in Scopes |-> "idle"]
    /\ seen = 0
    /\ parent = [p \in Scopes |-> NoParent]
    /\ copy = [p \in Scopes |-> NoRow]
    /\ batch = [p \in Scopes |-> {}]
    /\ cand = [p \in Scopes |-> 0]

Goto(p, l) == pc' = [pc EXCEPT ![p] = l]
Write(p, v, row) == model' = [model EXCEPT ![p] = [@ EXCEPT ![v] = row]]

\* The daily user pipeline gives a new game its bucket.
AssignTrain(g) ==
    /\ queued' = queued \cup {g}
    /\ UNCHANGED <<model, mark, tries, aligned, pc, seen, parent, copy, batch, cand>>

Begin(p) ==
    /\ pc[p] = "idle"
    /\ Goto(p, IF p = "user" THEN "align" ELSE "prepare")
    /\ UNCHANGED <<model, queued, mark, tries, aligned, seen, parent, copy, batch, cand>>

-----------------------------------------------------------------------------
(* PrepareTraining                                                         *)

\* Mutant of KeepsMarks: every first alignment keeps the marks.
KeepsFirstMarks(b) == aligned = 0

\* The marks stay when the queue was never aligned and the served model already
\* descends from the parent baseline b.
KeepsMarks(b) == aligned = 0 /\ \E u \in LatestServed("user") : u # 0 /\ Lineage("user", u) = b

\* align_personal_queue up to the clear of the user's marks and attempts, which
\* is a transaction of its own.
AlignPersonalQueue ==
    /\ pc["user"] = "align"
    /\ \E b \in ParentBaseline :
        IF b \in {0, aligned}
        THEN Goto("user", "prepare") /\ UNCHANGED <<mark, tries, seen>>
        ELSE /\ seen' = b
             /\ Goto("user", "stamp")
             /\ IF KeepsMarks(b) THEN UNCHANGED <<mark, tries>>
                ELSE /\ mark' = [mark EXCEPT !["user"] = @ \ UserGames]
                     /\ tries' = [tries EXCEPT !["user"] =
                          [g \in Games |-> IF g \in UserGames THEN 0 ELSE @[g]]]
    /\ UNCHANGED <<model, queued, aligned, parent, copy, batch, cand>>

\* The save of the TrainingState row that follows.
StampQueueBaseline ==
    /\ pc["user"] = "stamp"
    /\ aligned' = seen
    /\ Goto("user", "prepare")
    /\ UNCHANGED <<model, queued, mark, tries, seen, parent, copy, batch, cand>>

\* The rest of PrepareTraining: enough pending moves, the parent, the batch.
\* The fit that follows takes hours and changes no table.
PrepareTraining(p) ==
    /\ pc[p] = "prepare"
    /\ Cardinality(Pending(p)) >= MinNewMoves[p]
    /\ \E h \in Parents(p), games \in TrainBatch(p) :
        /\ games # {}
        /\ parent' = [parent EXCEPT ![p] = h]
        /\ copy' = [copy EXCEPT ![p] = IF h.key = 0 THEN NoRow ELSE model[h.kind][h.key]]
        /\ batch' = [batch EXCEPT ![p] = games]
    /\ Goto(p, "record")
    /\ UNCHANGED <<model, queued, mark, tries, aligned, seen, cand>>

-----------------------------------------------------------------------------
(* RecordCandidate, DecideFromScores, ApplyPromotion                       *)

\* Mutant of CandidateRow: the fit does not load the parent's weights.
ColdCandidateRow(p, v) ==
    [status |-> "candidate", pointer |-> "no",
     lineage |-> IF p = "platform" THEN v ELSE copy[p].lineage,
     weights |-> batch[p]]

\* Mutant of CandidateRow: the lineage is the parent baseline of the moment.
CurrentLineageRow(p, v) ==
    [status |-> "candidate", pointer |-> "no",
     lineage |-> IF p = "platform" THEN v ELSE CHOOSE b \in ParentBaseline : TRUE,
     weights |-> copy[p].weights \cup batch[p]]

\* The row insert_candidate writes.  A personal row copies the lineage of the
\* handle it was fitted from; that of a platform handle is its version.
CandidateRow(p, v) ==
    [status |-> "candidate", pointer |-> "no",
     lineage |-> IF p = "platform" THEN v ELSE copy[p].lineage,
     weights |-> copy[p].weights \cup batch[p]]

\* after = "decide": the step succeeds.  after = "record": the insert commits and
\* a later part of the step fails, so the retry records the fit once more.
RecordCandidate(p, after) ==
    /\ pc[p] = "record"
    /\ \E v \in Versions :
        /\ IsNextVersion(p, v)
        /\ Write(p, v, CandidateRow(p, v))
        /\ cand' = [cand EXCEPT ![p] = v]
    /\ Goto(p, after)
    /\ UNCHANGED <<queued, mark, tries, aligned, seen, parent, copy, batch>>

\* The gate compares scores, which may go either way; a cold start passes it.
DecideFromScores(p) ==
    /\ pc[p] = "decide"
    /\ \/ Goto(p, "apply")
       \/ parent[p] # NoParent /\ Goto(p, "reject")
    /\ UNCHANGED <<model, queued, mark, tries, aligned, seen, parent, copy, batch, cand>>

\* Mutant of ArchiveServed: only a parent of the scope is archived.
ArchiveParentOnly(p) ==
    /\ pc[p] = "apply"
    /\ IF parent[p].kind = p
       THEN Write(p, parent[p].key, [copy[p] EXCEPT !.status = "archived"])
       ELSE UNCHANGED model
    /\ Goto(p, "promote")
    /\ UNCHANGED <<queued, mark, tries, aligned, seen, parent, copy, batch, cand>>

\* The first save of promote_over.  The row archived is the parent as
\* PrepareTraining read it, or the served row of the scope, read now, when the
\* parent is not of this scope.
ArchiveServed(p) ==
    /\ pc[p] = "apply"
    /\ IF parent[p].kind = p
       THEN Write(p, parent[p].key, [copy[p] EXCEPT !.status = "archived"])
       ELSE \E v \in LatestServed(p) :
              IF v \in {0, cand[p]} THEN UNCHANGED model
              ELSE Write(p, v, [model[p][v] EXCEPT !.status = "archived"])
    /\ Goto(p, "promote")
    /\ UNCHANGED <<queued, mark, tries, aligned, seen, parent, copy, batch, cand>>

\* The second save.  after = "mark": the step succeeds.  after = "apply": the
\* reply is lost and the step is retried.
PromoteCandidate(p, after) ==
    /\ pc[p] = "promote"
    /\ Write(p, cand[p], [model[p][cand[p]] EXCEPT !.status = "production"])
    /\ Goto(p, after)
    /\ UNCHANGED <<queued, mark, tries, aligned, seen, parent, copy, batch, cand>>

-----------------------------------------------------------------------------
(* AdvanceTrainingCursor                                                   *)

MarkTrained(p) ==
    /\ pc[p] = "mark"
    /\ mark' = [mark EXCEPT ![p] = @ \cup batch[p]]
    /\ Goto(p, IF p = "platform" THEN "adopt" ELSE "idle")
    /\ UNCHANGED <<model, queued, tries, aligned, seen, parent, copy, batch, cand>>

\* after = "reject": the counters are committed and the step is retried.
NoteRejected(p, after) ==
    /\ pc[p] = "reject"
    /\ tries' = [tries EXCEPT ![p] = [g \in Games |->
          IF g \in batch[p] \ mark[p] /\ @[g] < MaxTries THEN @[g] + 1 ELSE @[g]]]
    /\ Goto(p, after)
    /\ UNCHANGED <<model, queued, mark, aligned, seen, parent, copy, batch, cand>>

-----------------------------------------------------------------------------
(* AdoptParentBaseline, on the platform only                               *)

\* The strict gate; without a parent baseline it always passes.
DecideParentBaseline ==
    /\ pc["platform"] = "adopt"
    /\ \/ Goto("platform", "clear")
       \/ ParentBaseline # {0} /\ Goto("platform", "idle")
    /\ UNCHANGED <<model, queued, mark, tries, aligned, seen, parent, copy, batch, cand>>

ClearHolder ==
    /\ pc["platform"] = "clear"
    /\ \E v \in Holders \ {cand["platform"]} :
        Write("platform", v, [model["platform"][v] EXCEPT !.pointer = "no"])
    /\ UNCHANGED <<queued, mark, tries, aligned, pc, seen, parent, copy, batch, cand>>

\* Mutant of SetPointer: the pointer is set before it is taken from the others.
SetPointerFirst ==
    /\ pc["platform"] = "clear"
    /\ StableAlign => pc["user"] \notin {"stamp", "prepare"}
    /\ Write("platform", cand["platform"],
             [model["platform"][cand["platform"]] EXCEPT !.pointer = "yes"])
    /\ Goto("platform", "idle")
    /\ UNCHANGED <<queued, mark, tries, aligned, seen, parent, copy, batch, cand>>

SetPointer ==
    /\ pc["platform"] = "clear"
    /\ Holders \subseteq {cand["platform"]}
    /\ StableAlign => pc["user"] \notin {"stamp", "prepare"}
    /\ Write("platform", cand["platform"],
             [model["platform"][cand["platform"]] EXCEPT !.pointer = "yes"])
    /\ Goto("platform", "idle")
    /\ UNCHANGED <<queued, mark, tries, aligned, seen, parent, copy, batch, cand>>

-----------------------------------------------------------------------------
\* The round ends early: it is skipped, a step has used its retries, or its
\* process dies.  Nothing is undone.
Abandon(p) ==
    /\ pc[p] # "idle"
    /\ AtomicPromotion => pc[p] # "promote"
    /\ Goto(p, "idle")
    /\ UNCHANGED <<model, queued, mark, tries, aligned, seen, parent, copy, batch, cand>>

Next ==
    \/ \E g \in Games \ queued : AssignTrain(g)
    \/ \E p \in Scopes :
        \/ Begin(p) \/ PrepareTraining(p)
        \/ RecordCandidate(p, "decide") \/ RecordCandidate(p, "record")
        \/ DecideFromScores(p) \/ ArchiveServed(p)
        \/ PromoteCandidate(p, "mark") \/ PromoteCandidate(p, "apply")
        \/ MarkTrained(p)
        \/ NoteRejected(p, "idle") \/ NoteRejected(p, "reject")
        \/ Abandon(p)
    \/ AlignPersonalQueue \/ StampQueueBaseline
    \/ DecideParentBaseline \/ ClearHolder \/ SetPointer

Spec == Init /\ [][Next]_vars

-----------------------------------------------------------------------------
\* Every variable stays in its domain, and a step of the platform's own is
\* never reached by the user's round, nor the other way round.
TypeOK ==
    /\ model \in [Scopes -> [Versions -> Row]]
    /\ queued \subseteq Games
    /\ mark \in [Scopes -> SUBSET Games]
    /\ tries \in [Scopes -> [Games -> Nat]]
    /\ aligned \in 0..MaxVersion /\ seen \in 0..MaxVersion
    /\ pc \in [Scopes -> Steps]
    /\ pc["platform"] \notin {"align", "stamp"} /\ pc["user"] \notin {"adopt", "clear"}
    /\ parent \in [Scopes -> [kind : Scopes \cup {"none"}, key : 0..MaxVersion]]
    /\ copy \in [Scopes -> Row]
    /\ batch \in [Scopes -> SUBSET Games]
    /\ cand \in [Scopes -> 0..MaxVersion]

\* A scope serves at most one model, whatever its rounds warm-started from: the
\* row promote_over archives, a copy hours old or a fresh read, is the served one.
OneServed == \A p \in Scopes : \A v, w \in Served(p) : v = w

\* At most one platform row is the parent baseline: promote_over writes the whole
\* of a row read before the fit, and never brings back a pointer taken from it.
OnePointer == \A v, w \in Holders : v = w

\* already_processed means "in the served model": the weights served for a scope
\* have been fitted on every game the scope has marked, except while its round is
\* between the two saves of a promotion.
MarkedGamesAreServed ==
    \A p \in Scopes : pc[p] # "promote" /\ mark[p] # {} =>
        \E v \in Served(p) : mark[p] \subseteq model[p][v].weights

\* Promotions form one chain: a platform model promoted later has learned all that
\* one promoted before it had.
PromotionsBuildOnEachOther ==
    \A v, w \in Served("platform") \cup With("platform", "archived") :
        v < w => model["platform"][v].weights \subseteq model["platform"][w].weights

\* parent_baseline_version is the ancestor it claims to be: the platform row was
\* promoted, and the personal weights hold all it had learned.
LineageIsHonest ==
    \A v \in Versions : LET l == Lineage("user", v) IN l # 0 =>
        /\ model["platform"][l].status \in {"production", "archived"}
        /\ model["platform"][l].weights \subseteq model["user"][v].weights

\* The marks align_personal_queue leaves are "already in the model we continue
\* from": with the queue aligned to the parent baseline, the user is served a
\* model of that lineage fitted on every game marked.
KeptMarksAreInTheModel ==
    Holders = {aligned} /\ pc["user"] # "promote" /\ mark["user"] # {} =>
        \E v \in Served("user") :
            Lineage("user", v) = aligned /\ mark["user"] \subseteq model["user"][v].weights

\* "A platform run warm-starts from the latest platform promotion": the parent of
\* a platform fit is the last row that ever was promoted.
PlatformWarmStarts ==
    pc["platform"] = "record" =>
        \A v \in Served("platform") \cup With("platform", "archived") :
            parent["platform"].kind = "platform" /\ v <= parent["platform"].key

\* Between rounds an unmarked game is not in the served baseline.
UnmarkedGamesAreNotServed ==
    pc["platform"] = "idle" =>
        \A v \in Served("platform"), g \in queued :
            g \in model["platform"][v].weights => g \in mark["platform"]
=============================================================================
