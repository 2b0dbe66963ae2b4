------------------------------ MODULE PlayPage ------------------------------
(***************************************************************************)
(* The play page (streamlit_pages/play.py) with a neural opponent: one     *)
(* browser session, the runs of the page's script, the board component,    *)
(* and the worker process that holds the bot (bots/process_bot.py,         *)
(* bots/play_worker.py, utils/pipeline_utils/step_process.py).             *)
(*                                                                         *)
(* Streamlit runs the script again for every interaction.  One that comes  *)
(* during a run ends that run at its next st call, an access to            *)
(* session_state among them.  What the script has pushed on the board,     *)
(* which is the object of the session, stays then; the rest of its locals  *)
(* are lost.  A bot that no name holds any more has its pipes closed.      *)
(*                                                                         *)
(* A position is its number of plies, of which the user makes the even or  *)
(* the odd ones; after MaxPly plies the game is over.                      *)
(***************************************************************************)
EXTENDS Naturals

CONSTANTS
  MaxPly,     \* plies of a game (bound)
  Workers,    \* worker processes alive at a time (bound)
  MaxFaults   \* workers that die, and interactions during a run (bound)

NoBot == "none"

ASSUME PlayAssumption == MaxPly \in Nat /\ MaxFaults \in Nat /\ NoBot \notin Workers

VARIABLES
  game,      \* whether the session has a game
  side,      \* parity of the user's plies
  board,     \* plies on the session's board
  state,     \* [inst, pending, resigned] of the session's PlayGameState
  bot,       \* the session's bot
  pc,        \* where the run of the script is
  rerun,     \* whether a run is requested
  click,     \* the button that was pressed for the run
  rendered,  \* whether the run has rendered the board
  local,     \* the bot in a local name of the run
  event,     \* value of the component: [inst, st]
  shown,     \* the board in the browser: [inst, st]
  worker,    \* worker -> state of the process
  server,    \* whether the Streamlit process is up
  faults

page == <<game, side, board, state>>
run  == <<rerun, click, rendered>>
vars == <<page, bot, pc, run, local, event, shown, worker, server, faults>>

NoEvent == [inst |-> 0, st |-> "none"]
Hidden  == [inst |-> 0, st |-> "hidden"]

TypeOK ==
  /\ game \in {"none", "on"} /\ side \in {0, 1} /\ board \in 0..MaxPly
  /\ state \in [inst : 0..MaxPly, pending : {"yes", "no"}, resigned : {"yes", "no"}]
  /\ {bot, local} \subseteq Workers \cup {NoBot}
  /\ pc \in {"idle", "start", "create", "load", "made", "draw", "turn", "think", "botmoved",
             "usermoved", "reset", "setup"}
  /\ rerun \in {"yes", "no"} /\ rendered \in {"yes", "no"}
  /\ click \in {"none", "start", "new", "resign"}
  /\ event \in [inst : 0..MaxPly, st : {"none", "fresh", "used"}]
  /\ shown \in [inst : 0..MaxPly, st : {"hidden", "enabled", "disabled"}]
  /\ worker \in [Workers -> {"gone", "idle", "loading", "thinking", "replied"}]
  /\ server \in {"up", "down"} /\ faults \in 0..MaxFaults

Init ==
  /\ game = "none" /\ side = 0 /\ board = 0
  /\ state = [inst |-> 0, pending |-> "no", resigned |-> "no"]
  /\ bot = NoBot /\ pc = "idle" /\ rerun = "yes" /\ click = "none" /\ rendered = "no"
  /\ local = NoBot /\ event = NoEvent /\ shown = Hidden
  /\ worker = [w \in Workers |-> "gone"] /\ server = "up" /\ faults = 0

Fault == faults < MaxFaults /\ faults' = faults + 1

-----------------------------------------------------------------------------
(* The game.                                                               *)

GameOver   == board = MaxPly
Finished   == state.resigned = "yes" \/ GameOver
UsersTurn  == board % 2 = side
IsUserTurn == state.resigned = "no" /\ UsersTurn /\ ~GameOver
Thinking   == state.pending = "yes" /\ ~GameOver /\ state.resigned = "no"

\* Mutant of Running: a bot whose process has died is kept.
HasBot(b) == b # NoBot
\* StepProcess.running
Running(b) == b # NoBot /\ worker[b] # "gone"

-----------------------------------------------------------------------------
(* The browser.                                                            *)

\* An interaction asks for a run; one that comes during a run is a fault of the
\* bound.
Ask ==
  /\ server = "up" /\ rerun' = "yes"
  /\ IF pc = "idle" /\ rerun = "no" THEN UNCHANGED faults ELSE Fault

\* A move on the board, as often as the user likes on the same rendering.
BoardEvent ==
  /\ shown.st = "enabled" /\ Ask
  /\ event' = [inst |-> shown.inst, st |-> "fresh"]
  /\ UNCHANGED <<page, bot, pc, click, rendered, local, shown, worker, server>>

\* A button of the page that is shown, or a visit of the page.
Click(button) ==
  /\ CASE button = "start" -> shown.st = "hidden"
       [] button \in {"new", "resign"} -> shown.st # "hidden"
       [] OTHER -> TRUE
  /\ Ask /\ click' = button
  /\ UNCHANGED <<page, bot, pc, rendered, local, event, shown, worker, server>>

-----------------------------------------------------------------------------
(* The runs of the script.                                                 *)

\* The run is over.  The value of a component that it has not rendered goes.
EndRun(again) ==
  /\ pc' = "idle" /\ rerun' = again /\ click' = "none" /\ rendered' = "no"
  /\ local' = NoBot
  /\ event' = IF rendered = "yes" THEN event ELSE NoEvent

StartRun ==
  /\ pc = "idle" /\ rerun = "yes" /\ server = "up"
  /\ pc' = "start" /\ rerun' = "no"
  /\ UNCHANGED <<page, bot, click, rendered, local, event, shown, worker, server, faults>>

\* The st calls that a request for another run can end the run at.
Calls == {"start", "made", "draw", "turn", "botmoved", "usermoved", "reset", "setup"}

Interrupt ==
  /\ pc \in Calls /\ rerun = "yes"
  /\ pc' = "start" /\ rerun' = "no" /\ rendered' = "no" /\ local' = NoBot
  /\ event' = IF rendered = "yes" THEN event ELSE NoEvent
  /\ UNCHANGED <<page, bot, click, shown, worker, server, faults>>

At(l) == pc = l /\ rerun = "no" /\ server = "up"

\* No game: the setup page.
ShowSetup ==
  /\ At("start") /\ game = "none" /\ pc' = "setup" /\ shown' = Hidden
  /\ UNCHANGED <<page, bot, run, local, event, worker, server, faults>>

SetupEnds ==
  /\ At("setup") /\ click # "start" /\ EndRun("no")
  /\ UNCHANGED <<page, bot, shown, worker, server, faults>>

StartNewGame ==
  /\ At("setup") /\ click = "start"
  /\ \E s \in {0, 1} :
       /\ side' = s
       /\ state' = [inst |-> 0, pending |-> IF s = 1 THEN "yes" ELSE "no", resigned |-> "no"]
  /\ game' = "on" /\ board' = 0 /\ pc' = "start" /\ click' = "none"
  /\ UNCHANGED <<bot, rerun, rendered, local, event, shown, worker, server, faults>>

\* StepProcess.close waits for the child to exit and kills one that does not.
Closed(b) == IF b = NoBot THEN worker ELSE [worker EXCEPT ![b] = "gone"]

\* A game that goes on needs a bot that runs; one that is over needs none.
EnsureBot ==
  /\ At("start") /\ game = "on"
  /\ IF Finished
       THEN pc' = "draw" /\ bot' = NoBot /\ worker' = Closed(bot)
     ELSE IF Running(bot)
       THEN pc' = "draw" /\ UNCHANGED <<bot, worker>>
       ELSE pc' = "create" /\ worker' = Closed(bot) /\ UNCHANGED bot
  /\ UNCHANGED <<page, run, local, event, shown, server, faults>>

CreateBot ==
  /\ pc = "create" /\ server = "up"
  /\ \E w \in Workers :
       /\ worker[w] = "gone" /\ bot # w
       /\ worker' = [worker EXCEPT ![w] = "loading"] /\ local' = w
  /\ pc' = "load"
  /\ UNCHANGED <<page, bot, run, event, shown, server, faults>>

\* The reply to "load".  Without one the bot is closed, and the run ends with
\* an error.
Loaded ==
  /\ pc = "load" /\ server = "up"
  /\ IF worker[local] = "gone"
       THEN EndRun(rerun) /\ UNCHANGED worker
       ELSE /\ worker[local] = "replied" /\ worker' = [worker EXCEPT ![local] = "idle"]
            /\ pc' = "made" /\ UNCHANGED <<run, local, event>>
  /\ UNCHANGED <<page, bot, shown, server, faults>>

\* The session takes the bot after the status on the page has been updated.
SetBot ==
  /\ At("made") /\ bot' = local /\ local' = NoBot /\ pc' = "draw"
  /\ UNCHANGED <<page, run, event, shown, worker, server, faults>>

Draw ==
  /\ At("draw") /\ pc' = "turn" /\ rendered' = "yes"
  /\ shown' = [inst |-> state.inst, st |-> IF IsUserTurn THEN "enabled" ELSE "disabled"]
  /\ UNCHANGED <<page, bot, rerun, click, local, event, worker, server, faults>>

Resign ==
  /\ At("turn") /\ click = "resign" /\ ~Finished
  /\ state' = [state EXCEPT !.pending = "no", !.resigned = "yes"]
  /\ EndRun("yes")
  /\ UNCHANGED <<game, side, board, bot, shown, worker, server, faults>>

NoGame ==
  /\ game' = "none" /\ board' = 0 /\ side' = 0
  /\ state' = [inst |-> 0, pending |-> "no", resigned |-> "no"]

\* _reset_game closes the bot, then clears the session's game.
NewGame ==
  /\ At("turn") /\ click = "new"
  /\ worker' = Closed(bot) /\ pc' = "reset"
  /\ UNCHANGED <<page, bot, run, local, event, shown, server, faults>>

ResetGame ==
  /\ At("reset") /\ bot' = NoBot /\ NoGame
  /\ EndRun("yes")
  /\ UNCHANGED <<shown, worker, server, faults>>

NoButton == At("turn") /\ click # "new" /\ (click # "resign" \/ Finished)

\* apply_bot_move, when the bot has moved in a run that was ended after it.
BotHasMoved ==
  /\ NoButton /\ Thinking /\ UsersTurn
  /\ state' = [state EXCEPT !.pending = "no"] /\ EndRun("yes")
  /\ UNCHANGED <<game, side, board, bot, shown, worker, server, faults>>

\* StepProcess.submit; a child that is gone ends the run with an error.
AskBot ==
  /\ NoButton /\ Thinking /\ ~UsersTurn
  /\ IF worker[bot] # "gone"
       THEN worker' = [worker EXCEPT ![bot] = "thinking"] /\ pc' = "think" /\ UNCHANGED <<run, local, event>>
       ELSE EndRun("no") /\ UNCHANGED worker
  /\ UNCHANGED <<page, bot, shown, server, faults>>

\* StepProcess.receive, and the bot's move is pushed on the session's board.
BotAnswered ==
  /\ pc = "think" /\ server = "up" /\ worker[bot] = "replied"
  /\ worker' = [worker EXCEPT ![bot] = "idle"]
  /\ board' = board + 1 /\ pc' = "botmoved"
  /\ UNCHANGED <<game, side, state, bot, run, local, event, shown, server, faults>>

BotIsGone ==
  /\ pc = "think" /\ server = "up" /\ worker[bot] = "gone"
  /\ EndRun(rerun)
  /\ UNCHANGED <<page, bot, shown, worker, server, faults>>

Moved(pending) ==
  /\ state' = [state EXCEPT !.inst = @ + 1, !.pending = pending]
  /\ EndRun("yes")
  /\ UNCHANGED <<game, side, board, bot, shown, worker, server, faults>>

BotMoveSet == At("botmoved") /\ Moved("no")

\* Mutant of Current: any value of the component is taken.
AnyValue == event.st # "none"
\* A value of another instance of the board is ignored.
Current == event.st # "none" /\ event.inst = state.inst

UserMoves ==
  /\ NoButton /\ ~Thinking /\ IsUserTurn /\ Current
  /\ board' = board + 1 /\ event' = [event EXCEPT !.st = "used"] /\ pc' = "usermoved"
  /\ UNCHANGED <<game, side, state, bot, run, local, shown, worker, server, faults>>

UserMoveSet == At("usermoved") /\ Moved(IF GameOver THEN "no" ELSE "yes")

\* No move to make, or an illegal one.
TurnEnds ==
  /\ NoButton /\ ~Thinking /\ EndRun("no")
  /\ UNCHANGED <<page, bot, shown, worker, server, faults>>

-----------------------------------------------------------------------------
(* The worker process.                                                     *)

Held(w) == server = "up" /\ w \in {bot, local}

\* serve: an operation is done and its reply flushed.
Reply(w) ==
  /\ worker[w] \in {"loading", "thinking"}
  /\ worker' = [worker EXCEPT ![w] = "replied"]
  /\ UNCHANGED <<page, bot, pc, run, local, event, shown, server, faults>>

\* Mutant of SeesEnd: the watch on the parent process alone.
SeesParentGone(w) == server = "down"
\* The end of stdin, which a child that waits for a request reads; or the watch
\* on the parent process, in any state.
SeesEnd(w) == server = "down" \/ (worker[w] = "idle" /\ ~Held(w))

Exit(w) ==
  /\ worker[w] # "gone" /\ SeesEnd(w)
  /\ worker' = [worker EXCEPT ![w] = "gone"]
  /\ UNCHANGED <<page, bot, pc, run, local, event, shown, server, faults>>

WorkerDies(w) ==
  /\ worker[w] # "gone" /\ Fault
  /\ worker' = [worker EXCEPT ![w] = "gone"]
  /\ UNCHANGED <<page, bot, pc, run, local, event, shown, server>>

NoSession ==
  /\ NoGame /\ bot' = NoBot /\ local' = NoBot /\ event' = NoEvent /\ shown' = Hidden
  /\ pc' = "idle" /\ click' = "none" /\ rendered' = "no"

\* The user signs out, which closes the bot, or leaves.
SessionEnds ==
  /\ pc = "idle" /\ server = "up" /\ Fault
  /\ NoSession /\ rerun' = "yes"
  /\ worker' \in {worker, Closed(bot)}
  /\ UNCHANGED server

ServerDies ==
  /\ server = "up" /\ Fault /\ server' = "down"
  /\ NoSession /\ rerun' = "no"
  /\ UNCHANGED worker

-----------------------------------------------------------------------------
Script ==
  \/ StartRun \/ Interrupt \/ ShowSetup \/ SetupEnds \/ StartNewGame \/ EnsureBot
  \/ CreateBot \/ Loaded \/ SetBot \/ Draw \/ Resign \/ NewGame \/ ResetGame
  \/ BotHasMoved \/ AskBot \/ BotAnswered \/ BotIsGone \/ BotMoveSet
  \/ UserMoves \/ UserMoveSet \/ TurnEnds

Next ==
  \/ BoardEvent \/ \E b \in {"none", "start", "new", "resign"} : Click(b)
  \/ StartRun \/ Interrupt \/ ShowSetup \/ SetupEnds \/ StartNewGame \/ EnsureBot
  \/ CreateBot \/ Loaded \/ SetBot \/ Draw \/ Resign \/ NewGame \/ ResetGame
  \/ BotHasMoved \/ AskBot \/ BotAnswered \/ BotIsGone \/ BotMoveSet
  \/ UserMoves \/ UserMoveSet \/ TurnEnds
  \/ \E w \in Workers : Reply(w) \/ Exit(w) \/ WorkerDies(w)
  \/ SessionEnds \/ ServerDies

Spec == Init /\ [][Next]_vars

\* A run of the script goes on, a worker answers or exits, and the user looks
\* at the page again when a run has ended with an error.
FairSpec ==
  /\ Spec
  /\ WF_vars(Script) /\ SF_vars(Click("none"))
  /\ \A w \in Workers : WF_vars(Reply(w)) /\ WF_vars(Exit(w))

-----------------------------------------------------------------------------
(* Properties.                                                             *)

\* A move of the user is made at most once: the component keeps its value over
\* the runs of the script, those that were ended in the middle included.
EventOnce == [][UserMoves => event.st = "fresh"]_vars

\* The bot's turn ends, whichever worker died and whichever run was ended by
\* the next one before the session had the bot or its move.
BotAnswers == Thinking ~> ~Thinking

\* A worker that no session and no run of a script holds exits, so what it
\* allocated goes back to the host.
WorkersEnd == \A w \in Workers : ~Held(w) ~> worker[w] = "gone"
=============================================================================
