----------------------------- MODULE MoveData ------------------------------
(***************************************************************************)
(* The functions that make the network's inputs of a move: the rows of a   *)
(* user's moves out of the text of a game (preprocessing/                  *)
(* move_extraction.py), the candidates of a position packed in slots for   *)
(* training, and the same for a live move, with the choice of the bot and  *)
(* the panel that explains it (neural_network/candidate_eval.py,           *)
(* bots/neural_baseline_bot.py, bots/move_analysis.py).                    *)
(*                                                                         *)
(* A behaviour picks an input and applies one of the functions to it.      *)
(* Moves are numbers, of which the order is that of their UCI names; a     *)
(* score of the network is a number too.  Only what places, keeps or drops *)
(* a move is kept of its features: its evaluation and how far that is from *)
(* the best one.                                                           *)
(*                                                                         *)
(* The library's sorts have no definition that a proof can use.  A sorted  *)
(* sequence is here a set with an order: each element stands behind those  *)
(* that come before it.  The names of the specification are this module's  *)
(* own, so that a module can EXTEND it and EvalCache.                      *)
(***************************************************************************)
EXTENDS Integers, FiniteSets, Sequences, Functions, FiniteSetsExt

CONSTANTS
  MaxPlies,       \* plies of a game (bound)
  Legal,          \* legal moves of the position
  Stray,          \* moves with an evaluation that are not legal
  Pawns,          \* evaluations, in pawns
  MaxCandidates,  \* slots
  TopExtra        \* rows of the panel beside the played move

Tokens == {"quiet", "capture", "bad"}
NoMove == 0

ASSUME MoveAssumption ==
  /\ MaxPlies \in Nat /\ IsFiniteSet(Legal) /\ IsFiniteSet(Stray)
  /\ Legal \subseteq Nat \ {NoMove} /\ Stray \subseteq Nat \ {NoMove} /\ Legal \cap Stray = {}
  /\ Pawns \subseteq Int /\ MaxCandidates \in Nat \ {0} /\ TopExtra \in Nat

VARIABLES
  input,  \* [kind, ...] what the functions are applied to
  output  \* [fn, ...] what the last of them returned

moveVars == <<input, output>>

Games == UNION {[1..n -> Tokens] : n \in 0..MaxPlies}
GameInputs ==
  [kind : {"game"}, sans : Games, user : {0, 1}, variant : {"standard", "other"}]
PositionInputs ==
  UNION {[kind : {"position"}, evals : [M -> Pawns], white : {TRUE, FALSE}]
           : M \in SUBSET (Legal \cup Stray)}

MoveInit ==
  /\ input \in GameInputs \cup PositionInputs
  /\ output = [fn |-> "none"]

-----------------------------------------------------------------------------
(* The user's moves of a game.                                             *)

\* What the extraction carries along: the rows so far, and the last move of the
\* opponent, which is a ply, with whether it captured.
Start == [rows |-> <<>>, previous |-> 0, captured |-> FALSE]

\* Mutant of OpponentMove: a capture is remembered for good.
StickyCapture(st, ply, token) ==
  [st EXCEPT !.previous = ply, !.captured = @ \/ token = "capture"]
OpponentMove(st, ply, token) ==
  [st EXCEPT !.previous = ply, !.captured = token = "capture"]

UserMove(st, ply) ==
  [st EXCEPT !.rows = Append(@, [move_nr |-> Len(st.rows) + 1, ply |-> ply,
                                 previous |-> st.previous, captured |-> st.captured])]

\* The rows of the first n plies.
RowsOf(sans, user, n) ==
  LET upto[k \in 0..n] ==
        IF k = 0 THEN Start
        ELSE IF (k - 1) % 2 = user THEN UserMove(upto[k - 1], k)
        ELSE OpponentMove(upto[k - 1], k, sans[k])
  IN upto[n].rows

\* A move that cannot be read: the PGN parser takes over, which ends the game
\* before it.
Readable(sans) == {n \in 0..Len(sans) : \A k \in 1..n : sans[k] # "bad"}

ExtractUserMoves(sans, user, variant) ==
  IF variant # "standard" THEN <<>> ELSE RowsOf(sans, user, Max(Readable(sans)))

Extract ==
  /\ input.kind = "game"
  /\ output' = [fn |-> "rows", rows |-> ExtractUserMoves(input.sans, input.user, input.variant)]
  /\ UNCHANGED input

-----------------------------------------------------------------------------
(* Candidates.                                                             *)

UserPov(eval, white) == IF white THEN eval ELSE -eval

\* The elements of S in an order: the i-th has i - 1 before it.
InOrder(S, Before(_, _)) ==
  [i \in 1..Cardinality(S) |->
     CHOOSE u \in S : Cardinality({v \in S : Before(v, u)}) = i - 1]

ByUci(S) == InOrder(S, LAMBDA a, b : a < b)

\* Rows [ev, delta] of the allowed moves with an evaluation.
CandidateRows(evals, white, allowed) ==
  LET moves == DOMAIN evals \cap allowed
      ev(u) == UserPov(evals[u], white)
  IN [u \in moves |-> [ev |-> ev(u), delta |-> ev(u) - Max({ev(v) : v \in moves})]]

\* Python's sort is stable, and stays so when it is reversed.
Better(rows, u, v) == rows[u].ev > rows[v].ev \/ (rows[u].ev = rows[v].ev /\ u < v)
\* The n best moves of S.
Best(rows, S, n) == {u \in S : Cardinality({v \in S : Better(rows, v, u)}) < n}

\* Mutant of Trimmed: the best ones are kept, whether the user's move is one of
\* them or not.
TrimmedToBest(rows, user) ==
  IF Cardinality(DOMAIN rows) <= MaxCandidates THEN DOMAIN rows
  ELSE Best(rows, DOMAIN rows, MaxCandidates)
\* At most MaxCandidates moves, the user's among them.
Trimmed(rows, user) ==
  IF Cardinality(DOMAIN rows) <= MaxCandidates THEN DOMAIN rows
  ELSE {user} \cup Best(rows, DOMAIN rows \ {user}, MaxCandidates - 1)

Unusable == [slots |-> <<>>, label |-> 0]

\* Slots by UCI and the label, which is the slot of the user's move.
PackCandidates(evals, white, allowed, user) ==
  LET rows  == CandidateRows(evals, white, allowed)
      ucis  == ByUci(Trimmed(rows, user))
      label == {i \in DOMAIN ucis : ucis[i] = user}
  IN IF user \notin DOMAIN rows \/ label = {} THEN Unusable
     ELSE [slots |-> [i \in DOMAIN ucis |-> [uci |-> ucis[i], delta |-> rows[ucis[i]].delta]],
           label |-> Max(label)]

\* candidate_style_target, of the move that the user played.
Pack ==
  /\ input.kind = "position"
  /\ \E user \in Legal :
       output' = [fn |-> "packed", user |-> user,
                  packed |-> PackCandidates(input.evals, input.white, Legal, user)]
  /\ UNCHANGED input

-----------------------------------------------------------------------------
(* A live move.                                                            *)

\* Mutant of Offered: the candidates stay in the order in which they were cut.
OfferedByEval(rows) ==
  IF Cardinality(DOMAIN rows) <= MaxCandidates THEN ByUci(DOMAIN rows)
  ELSE InOrder(Best(rows, DOMAIN rows, MaxCandidates), LAMBDA u, v : Better(rows, u, v))
\* The moves that the network is asked about, by UCI.
Offered(rows) ==
  IF Cardinality(DOMAIN rows) <= MaxCandidates THEN ByUci(DOMAIN rows)
  ELSE ByUci(Best(rows, DOMAIN rows, MaxCandidates))

NoCandidates == [ucis |-> <<>>, slots |-> <<>>]

\* live_candidate_tensors: the names, and the slots that the network sees.
Live(evals, white) ==
  LET rows   == CandidateRows(evals, white, Legal)
      ucis   == Offered(rows)
      packed == PackCandidates(evals, white, Range(ucis), ucis[1])
  IN IF DOMAIN rows = {} \/ packed = Unusable THEN NoCandidates
     ELSE [ucis |-> ucis, slots |-> packed.slots]

\* Slots by their score, the first of two that have the same.
ByScore(score, S) ==
  InOrder(S, LAMBDA a, b : score[a] > score[b] \/ (score[a] = score[b] /\ a < b))

\* The panel: the played move, which is at 0 if it has no row, then the others by
\* their score.
Panel(live, score, played, evals, white) ==
  LET rows   == CandidateRows(evals, white, Range(live.ucis))
      seen   == {i \in DOMAIN live.ucis : live.ucis[i] \in DOMAIN rows}
      delta(u) == IF u \in DOMAIN rows THEN rows[u].delta ELSE 0
      others == ByScore(score, {i \in seen : live.ucis[i] # played})
  IN <<[uci |-> played, delta |-> delta(played)]>>
     \o [k \in 1..Min({TopExtra, Len(others)}) |->
           [uci |-> live.ucis[others[k]], delta |-> delta(live.ucis[others[k]])]]

\* choose_move at temperature 0: the first slot with the greatest score; any
\* legal move when there is no candidate.  The network scores what is in a slot.
Choose ==
  /\ input.kind = "position"
  /\ LET live == Live(input.evals, input.white)
         n    == Len(live.ucis)
     IN IF n = 0
          THEN \E m \in Legal :
                 output' = [fn |-> "chosen", liked |-> m, played |-> m,
                            panel |-> <<>>]
          ELSE \E score \in [1..n -> {0, 1}] :
                 LET best   == Max({score[i] : i \in 1..n})
                     idx    == Min({i \in 1..n : score[i] = best})
                     played == live.ucis[idx]
                 IN output' = [fn |-> "chosen", liked |-> live.slots[idx].uci, played |-> played,
                               panel |-> Panel(live, score, played, input.evals, input.white)]
  /\ UNCHANGED input

MoveNext == Extract \/ Pack \/ Choose

MoveSpec == MoveInit /\ [][MoveNext]_moveVars

-----------------------------------------------------------------------------
(* Properties.                                                             *)

\* The readable plies of a game, without the one that breaks it off.
Played(sans) == CHOOSE n \in Readable(sans) : n = Len(sans) \/ sans[n + 1] = "bad"

\* One row for every move that the user played before the game breaks off, in
\* order, with the opponent's move right before it and whether that one took.
RowsAreTheUsersMoves ==
  output.fn = "rows" =>
    LET plies == {k \in 1..Played(input.sans) : k % 2 # input.user}
        rows  == output.rows
    IN IF input.variant = "other" THEN rows = <<>>
       ELSE /\ Len(rows) = Cardinality(plies)
            /\ \A i \in 1..Len(rows) :
                 LET k == rows[i].ply
                 IN /\ k \in plies /\ rows[i].move_nr = i
                    /\ Cardinality({p \in plies : p < k}) = i - 1
                    /\ rows[i].previous = k - 1
                    /\ rows[i].captured = (k > 1 /\ input.sans[k - 1] = "capture")

\* How far a move is from the best legal one that has an evaluation.
Gap(u) ==
  UserPov(input.evals[u], input.white)
    - Max({UserPov(input.evals[v], input.white) : v \in DOMAIN input.evals \cap Legal})

\* A datum is dropped only when the user's move has no evaluation; otherwise
\* its label is the slot of that move, and the slots hold as many of the best
\* moves as there is room for, each with its distance to the best of all.
LabelIsThePlayedMove ==
  output.fn = "packed" =>
    LET slots == output.packed.slots
        kept  == {slots[i].uci : i \in 1..Len(slots)}
        moves == DOMAIN input.evals \cap Legal
    IN IF output.user \notin moves THEN output.packed = Unusable
       ELSE /\ output.packed.label \in 1..Len(slots)
            /\ slots[output.packed.label].uci = output.user
            /\ Len(slots) = Min({MaxCandidates, Cardinality(moves)})
            /\ Cardinality(kept) = Len(slots) /\ kept \subseteq moves
            /\ \A i \in 1..Len(slots) : slots[i].delta = Gap(slots[i].uci)
            /\ \A u \in kept \ {output.user}, v \in moves \ kept : Gap(u) >= Gap(v)

\* The bot plays the move that its network scored, and the panel shows that move
\* first and no move twice, each with its distance to the best legal move.
BotPlaysWhatItLikes ==
  output.fn = "chosen" =>
    LET panel == output.panel
    IN /\ output.played = output.liked /\ output.played \in Legal
       /\ panel # <<>> =>
            /\ panel[1].uci = output.played
            /\ \A i \in 1..Len(panel) : panel[i].delta = Gap(panel[i].uci)
            /\ \A i, j \in 1..Len(panel) : i # j => panel[i].uci # panel[j].uci
=============================================================================
