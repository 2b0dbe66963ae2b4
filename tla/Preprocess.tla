----------------------------- MODULE Preprocess -----------------------------
(***************************************************************************)
(* Preprocessing of one account (pipelines/preprocessing): raw_games are   *)
(* made into games, games into moves, moves into characteristics rows, the *)
(* engine's columns of those rows are filled, and the games that training  *)
(* may use are entered in the split registry.  Every step reads its source *)
(* in keyset pages and saves each page; a step that fails starts again     *)
(* from its first page, and a run that is killed leaves what it saved.     *)
(*                                                                         *)
(* A characteristics row has two engine columns, which are null at first:  *)
(* evaluation_after and candidate_evaluations.  A checkpoint writes the    *)
(* second before the page is saved.                                        *)
(*                                                                         *)
(* The names of the specification are this module's own, so that a module  *)
(* can EXTEND it beside EvalCache and MoveData.                            *)
(***************************************************************************)
EXTENDS Naturals, FiniteSets

CONSTANTS
  MaxGame,     \* games of the account; a game's id is its rank as a key
  NoPgn,       \* the games without a PGN, which never become a row of games
  MovesOf,     \* user moves of each game
  Rank,        \* rank of each move's id, a hash that mixes the games
  PageSize,    \* batch_size of the steps (500 and 2000 in the code)
  MaxRetries,  \* retries of a step (bound; 3 in the code)
  MaxFailures, \* pages that fail and processes that are killed (bound)
  Modes        \* the modes that runs are started in

AccountGames == 1..MaxGame
Moves == {m \in AccountGames \X (1..MaxGame) : m[2] <= MovesOf[m[1]]}
Steps == {"games", "moves", "cheap", "expensive"}

ASSUME PreprocessAssumption ==
  /\ MaxGame \in Nat /\ NoPgn \subseteq AccountGames
  /\ MovesOf \in [AccountGames -> 0..MaxGame]
  /\ Rank \in [Moves -> Nat \ {0}]
  /\ \A m, o \in Moves : Rank[m] = Rank[o] => m = o
  /\ PageSize \in Nat \ {0} /\ MaxRetries \in Nat /\ MaxFailures \in Nat
  /\ Modes \subseteq {"incremental", "retry", "reprocess", "full_reload"}

VARIABLES
  raw,              \* games.raw_games
  games,            \* games.games
  userMoves,        \* games.moves
  characteristics,  \* games.move_characteristics
  evaluated,        \* the rows with evaluation_after
  candidates,       \* the rows with candidate_evaluations
  split,            \* ml.game_split_assignments
  step,             \* the step the run is in
  stored,           \* whether the page's candidates have been checkpointed
  mode,             \* PipelineMode of the run
  attempt,          \* retries the step has used
  afterKey,         \* rank of after_key; 0 is None
  failures          \* pages that have failed, and kills

tables  == <<raw, games, userMoves, characteristics, evaluated, candidates, split>>
local   == <<step, stored, mode, attempt, afterKey, failures>>
preVars == <<tables, local>>

PreTypes ==
  /\ {raw, games, split} \subseteq SUBSET AccountGames
  /\ {userMoves, characteristics, evaluated, candidates} \subseteq SUBSET Moves
  /\ step \in Steps \cup {"idle", "split"} /\ stored \in {"yes", "no"}
  /\ mode \in {"incremental", "retry", "reprocess", "full_reload"}
  /\ attempt \in 0..MaxRetries /\ failures \in 0..MaxFailures
  /\ afterKey \in Nat

PreInit ==
  /\ raw = {} /\ games = {} /\ userMoves = {} /\ characteristics = {}
  /\ evaluated = {} /\ candidates = {} /\ split = {}
  /\ step = "idle" /\ stored = "no" /\ mode = "incremental"
  /\ attempt = 0 /\ afterKey = 0 /\ failures = 0

-----------------------------------------------------------------------------
(* Reading a page.                                                         *)

\* games and raw_games are paged by the game id, the others by the move id.
Key(s, x) == IF s \in {"games", "moves"} THEN x ELSE Rank[x]

\* modes.preprocessing_transform_config: only what the target does not hold.
Incremental == mode \in {"incremental", "retry"}
Unless(S) == IF Incremental THEN S ELSE {}

\* Mutant of AllHaveRows: that the target has rows is taken for all rows.
AnyHasRow == userMoves = {} \/ characteristics # {}
\* The cheap step compares the two counts before it looks for missing rows.
AllHaveRows == userMoves = {} \/ Cardinality(userMoves) = Cardinality(characteristics)

Source(s) ==
  CASE s = "games" -> raw \ Unless(games)
    [] s = "moves" -> games \ Unless({m[1] : m \in userMoves})
    [] s = "cheap" -> IF Incremental /\ afterKey = 0 /\ AllHaveRows
                        THEN {} ELSE userMoves \ Unless(characteristics)
    [] s = "expensive" ->
         (characteristics \cap userMoves) \ Unless(evaluated \cap candidates)

\* The source rows past the last key of the page before, and the first PageSize
\* of them.
Remaining(s) == {x \in Source(s) : Key(s, x) > afterKey}
Before(s, x) == {y \in Remaining(s) : Key(s, y) < Key(s, x)}
Page(s) == {x \in Remaining(s) : Cardinality(Before(s, x)) < PageSize}

\* after_key is taken from the source page, before rows are dropped.
\* Mutant of LastKey: from the rows that are left to save.
LastSavedKey(s, page) ==
  LET Kept == {Key(s, x) : x \in IF s = "games" THEN page \ NoPgn ELSE page}
  IN  IF Kept = {} THEN afterKey ELSE CHOOSE k \in Kept : \A l \in Kept : l <= k
LastKey(s, page) ==
  CHOOSE k \in {Key(s, x) : x \in page} : \A x \in page : Key(s, x) <= k

NextStep ==
  [games |-> "moves", moves |-> "cheap", cheap |-> "expensive", expensive |-> "split"]

Goto(s) == step' = s /\ attempt' = 0 /\ afterKey' = 0 /\ stored' = "no"

-----------------------------------------------------------------------------
(* A run.                                                                  *)

\* Ingestion of the account, this run's or another's.
Ingest(g) ==
  /\ g \notin raw /\ raw' = raw \cup {g}
  /\ UNCHANGED <<games, userMoves, characteristics, evaluated, candidates, split, local>>

StartRun(m) ==
  /\ step = "idle" /\ mode' = m /\ Goto("games")
  /\ UNCHANGED <<tables, failures>>

\* No page is left: the next step starts.
EndStep ==
  /\ step \in Steps /\ Page(step) = {}
  /\ Goto(NextStep[step])
  /\ UNCHANGED <<tables, mode, failures>>

SavePage(s) ==
  /\ step = s /\ Page(s) # {}
  /\ afterKey' = LastKey(s, Page(s)) /\ stored' = "no"
  /\ UNCHANGED <<step, mode, attempt, failures>>

\* full_sync adds match_condition to the ON of the MERGE, where its account_id
\* is a column of both sides: the statement is refused.
Mergeable == mode # "full_reload"

RawGamesToGames ==
  /\ SavePage("games")
  /\ Mergeable \/ Page("games") \subseteq NoPgn
  /\ games' = games \cup (Page("games") \ NoPgn)
  /\ UNCHANGED <<raw, userMoves, characteristics, evaluated, candidates, split>>

ExtractMoves ==
  /\ SavePage("moves")
  /\ LET new == {m \in Moves : m[1] \in Page("moves")}
     IN  (Mergeable \/ new = {}) /\ userMoves' = userMoves \cup new
  /\ UNCHANGED <<raw, games, characteristics, evaluated, candidates, split>>

\* The columns of the frame, which are not the engine's, are set in the rows.
\* Mutant of EngineColumns: the other columns of the rows are set to null.
NullColumns(old, page) == old \ page
EngineColumns(old, page) == old

EnrichCheap ==
  /\ SavePage("cheap") /\ Mergeable
  /\ characteristics' = characteristics \cup Page("cheap")
  /\ evaluated' = EngineColumns(evaluated, Page("cheap"))
  /\ candidates' = EngineColumns(candidates, Page("cheap"))
  /\ UNCHANGED <<raw, games, userMoves, split>>

\* CandidateEvaluations writes its column into the rows of the page.
Checkpoint ==
  /\ step = "expensive" /\ stored = "no" /\ Page(step) # {}
  /\ stored' = "yes"
  /\ candidates' = candidates \cup Page(step)
  /\ UNCHANGED <<raw, games, userMoves, characteristics, evaluated, split>>
  /\ UNCHANGED <<step, mode, attempt, afterKey, failures>>

\* The save of the page, which is an upsert in every mode.
EnrichExpensive ==
  /\ SavePage("expensive") /\ stored = "yes"
  /\ evaluated' = evaluated \cup Page("expensive")
  /\ UNCHANGED <<raw, games, userMoves, characteristics, candidates, split>>

\* AssignGameSplits, also after a step that failed: a game is eligible from
\* its first move with candidates on.
AssignGameSplits ==
  /\ step = "split"
  /\ split' = split \cup {m[1] : m \in candidates}
  /\ Goto("idle")
  /\ UNCHANGED <<raw, games, userMoves, characteristics, evaluated, candidates>>
  /\ UNCHANGED <<mode, failures>>

-----------------------------------------------------------------------------
(* Failures.                                                               *)

\* The steps after one that has failed are skipped, but for the last.
Raise ==
  /\ IF attempt < MaxRetries
       THEN step' = step /\ attempt' = attempt + 1 /\ afterKey' = 0 /\ stored' = "no"
       ELSE Goto(IF step = "split" THEN "idle" ELSE "split")
  /\ UNCHANGED <<tables, mode>>

PageFails ==
  /\ step # "idle" /\ failures < MaxFailures /\ failures' = failures + 1
  /\ Raise

\* In mode full_reload the page of a step with full_sync cannot be merged.
MergeRefused ==
  /\ step \in {"games", "moves", "cheap"} /\ ~Mergeable
  /\ CASE step = "games" -> ~(Page(step) \subseteq NoPgn)
       [] step = "moves" -> \E m \in Moves : m[1] \in Page(step)
       [] step = "cheap" -> Page(step) # {}
  /\ UNCHANGED failures /\ Raise

Crash ==
  /\ step # "idle" /\ failures < MaxFailures /\ failures' = failures + 1
  /\ Goto("idle")
  /\ UNCHANGED <<tables, mode>>

Step ==
  \/ EndStep \/ RawGamesToGames \/ ExtractMoves \/ EnrichCheap
  \/ Checkpoint \/ EnrichExpensive \/ AssignGameSplits \/ MergeRefused

PreNext ==
  \/ \E g \in AccountGames : Ingest(g)
  \/ \E m \in Modes : StartRun(m)
  \/ EndStep \/ RawGamesToGames \/ ExtractMoves \/ EnrichCheap
  \/ Checkpoint \/ EnrichExpensive \/ AssignGameSplits \/ MergeRefused
  \/ PageFails
  \/ Crash

PreSpec == PreInit /\ [][PreNext]_preVars

\* Runs are started in every mode of Modes, and a run goes on.
PreFairSpec ==
  /\ PreSpec
  /\ WF_preVars(Step)
  /\ \A m \in Modes : SF_preVars(StartRun(m))

-----------------------------------------------------------------------------
(* Properties.                                                             *)

Derived(g) ==
  /\ g \in games
  /\ \A m \in Moves : m[1] = g =>
       m \in userMoves \cap characteristics \cap evaluated \cap candidates
  /\ (\E m \in Moves : m[1] = g) => g \in split

\* Every game with a PGN that is in raw_games is a row of games in the end, and
\* all its moves have rows with both engine columns, whatever page failed in
\* which run: no page is skipped, and none without output stops the ones after.
EveryGameIsDerived ==
  \A g \in AccountGames \ NoPgn : (g \in raw) ~> Derived(g)

\* A step that ends without an error has left nothing of its source behind,
\* whatever the mode: neither the page that is taken after the last key of the
\* page before, nor the step that is skipped when the two counts are equal, nor
\* the anti-join that takes a game with one move for done loses a row.  Of
\* raw_games it promises nothing: ingestion adds games whose page is past.
Complete(s) ==
  CASE s = "games" -> TRUE
    [] s = "moves" -> {m \in Moves : m[1] \in games} \subseteq userMoves
    [] s = "cheap" -> userMoves \subseteq characteristics
    [] s = "expensive" -> characteristics \subseteq evaluated \cap candidates
EndedStepIsComplete == [][EndStep => Complete(step)]_preVars

\* What the engine has computed is never lost: the cheap step, which writes the
\* same rows again in mode reprocess, leaves its columns alone.
EngineWorkIsKept ==
  [][candidates \subseteq candidates' /\ evaluated \subseteq evaluated']_preVars
=============================================================================
