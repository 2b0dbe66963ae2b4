--------------------------- MODULE PlayPageProofs ---------------------------
(***************************************************************************)
(* Proofs about PlayPage, for a game of any length, any worker processes   *)
(* and any number of faults: the types of its state, and that a move of    *)
(* the user is made at most once.                                          *)
(*                                                                         *)
(* A value of the board component is used once it has been pushed on the   *)
(* board, and Streamlit keeps it over the runs of the script.  That it is  *)
(* not taken again rests on two counts: the turn that follows is the       *)
(* bot's, for as long as the instance of the component is the value's; and *)
(* the instance has grown when the turn is the user's again.  The runs     *)
(* that are ended between the push and the new instance make both need the *)
(* parity of the board.                                                    *)
(***************************************************************************)
EXTENDS PlayPage, TLAPS

Buttons   == {"none", "start", "new", "resign"}
GameState == [inst : 0..MaxPly, pending : {"yes", "no"}, resigned : {"yes", "no"}]

\* What the place of the run in the script says of the session and the page.
GamePcs  == {"create", "load", "made", "draw", "turn", "think", "botmoved", "usermoved",
             "reset"}
ShownPcs == {"turn", "think", "botmoved", "usermoved", "reset"}
FreshPcs == {"idle", "start", "create", "load", "made", "draw", "setup"}

PageInv ==
  /\ pc \in GamePcs => game = "on"
  /\ pc = "setup" => game = "none"
  /\ pc \in ShownPcs => shown.st # "hidden"
  /\ pc \in FreshPcs => rendered = "no"
  /\ pc = "think" => Thinking /\ ~UsersTurn
  /\ IF game = "on" THEN state.inst <= board ELSE state.inst = 0 /\ board = 0
  /\ pc \in {"botmoved", "usermoved"} => state.inst < board

\* A used value of the current instance is a move after which it is the bot's
\* turn, and which the session has not noted yet.  No used value is there when
\* a game starts: its first instance may be the one of the value.
EventInv ==
  /\ game = "on" /\ event.st = "used" =>
       /\ event.inst <= state.inst
       /\ event.inst = state.inst => state.pending = "no" /\ ~UsersTurn
  /\ shown.st = "hidden" /\ event.st = "used" => pc = "setup"
  /\ game = "none" /\ click = "start" /\ event.st = "used" =>
       pc = "setup" /\ rerun = "yes"

-----------------------------------------------------------------------------
(* The initial states.                                                     *)

LEMMA InitInv == Init => TypeOK /\ PageInv /\ EventInv
BY PlayAssumption
DEF Init, TypeOK, PageInv, EventInv, NoEvent, Hidden, GamePcs, ShownPcs, FreshPcs

-----------------------------------------------------------------------------
(* Lemmas about the end of a run and the board.                            *)

\* A step that ends the run keeps the types of what it sets.
LEMMA EndRunTypes ==
  ASSUME TypeOK, NEW again \in {"yes", "no"}, EndRun(again)
  PROVE  /\ pc' = "idle" /\ rerun' = again /\ click' = "none" /\ rendered' = "no"
         /\ local' = NoBot
         /\ event' \in [inst : 0..MaxPly, st : {"none", "fresh", "used"}]
         /\ event' = event \/ event'.st = "none"
BY PlayAssumption DEF EndRun, TypeOK, NoEvent

\* A ply gives the turn to the other side.
LEMMA TurnChanges ==
  ASSUME NEW b \in Nat
  PROVE  (b + 1) % 2 # b % 2
OBVIOUS

\* A position before the last has one after it.
LEMMA NextPly ==
  ASSUME NEW b \in 0..MaxPly, b # MaxPly
  PROVE  b + 1 \in 0..MaxPly
BY PlayAssumption

-----------------------------------------------------------------------------
(* Every step keeps the types.                                             *)

LEMMA TypeStep ==
  ASSUME TypeOK, PageInv, [Next]_vars
  PROVE  TypeOK'
<1> USE PlayAssumption DEF TypeOK, PageInv, vars, page, run, GameOver, Thinking,
    IsUserTurn
<1>1. CASE BoardEvent
  BY <1>1 DEF BoardEvent, Ask, Fault
<1>2. ASSUME NEW button \in Buttons, Click(button) PROVE TypeOK'
  BY <1>2 DEF Click, Buttons, Ask, Fault
<1>3. CASE StartRun
  BY <1>3 DEF StartRun
<1>4. CASE Interrupt
  BY <1>4 DEF Interrupt, Calls, NoEvent
<1>5. CASE ShowSetup
  BY <1>5 DEF ShowSetup, At, Hidden
<1>6. CASE SetupEnds
  BY <1>6 DEF SetupEnds, At, EndRun, NoEvent
<1>7. CASE StartNewGame
  BY <1>7 DEF StartNewGame, At
<1>8. CASE EnsureBot
  BY <1>8 DEF EnsureBot, At, Closed
<1>9. CASE CreateBot
  BY <1>9 DEF CreateBot
<1>10. CASE Loaded
  BY <1>10 DEF Loaded, EndRun, NoEvent
<1>11. CASE SetBot
  BY <1>11 DEF SetBot, At
<1>12. CASE Draw
  BY <1>12 DEF Draw, At
<1>13. CASE Resign
  <2>1. state' \in GameState
    BY <1>13 DEF Resign, GameState
  <2> QED BY <1>13, <2>1, EndRunTypes DEF Resign, GameState
<1>14. CASE NewGame
  BY <1>14 DEF NewGame, At, Closed
<1>15. CASE ResetGame
  BY <1>15 DEF ResetGame, At, NoGame, EndRun, NoEvent
<1>16. CASE BotHasMoved
  BY <1>16 DEF BotHasMoved, NoButton, At, EndRun, NoEvent
<1>17. CASE AskBot
  BY <1>17 DEF AskBot, NoButton, At, EndRun, NoEvent
<1>18. CASE BotAnswered
  <2>1. board' \in 0..MaxPly
    BY <1>18, NextPly DEF BotAnswered
  <2>2. worker' \in [Workers -> {"gone", "idle", "loading", "thinking", "replied"}]
    BY <1>18 DEF BotAnswered
  <2> QED BY <1>18, <2>1, <2>2 DEF BotAnswered
<1>19. CASE BotIsGone
  BY <1>19 DEF BotIsGone, EndRun, NoEvent
<1>20. CASE BotMoveSet
  <2> DEFINE p == "no"
  <2>1. Moved(p) /\ state.inst < board /\ p \in {"yes", "no"}
    BY <1>20 DEF BotMoveSet, At
  <2>2. state.inst + 1 \in 0..MaxPly
    BY <2>1
  <2> HIDE DEF p
  <2>3. state' \in GameState
    BY <2>1, <2>2 DEF Moved, GameState
  <2> QED BY <2>1, <2>3, EndRunTypes DEF Moved, GameState
<1>21. CASE UserMoves
  BY <1>21 DEF UserMoves, NoButton, At, Current
<1>22. CASE UserMoveSet
  <2> DEFINE p == IF GameOver THEN "no" ELSE "yes"
  <2>1. Moved(p) /\ state.inst < board /\ p \in {"yes", "no"}
    BY <1>22 DEF UserMoveSet, At
  <2>2. state.inst + 1 \in 0..MaxPly
    BY <2>1
  <2> HIDE DEF p
  <2>3. state' \in GameState
    BY <2>1, <2>2 DEF Moved, GameState
  <2> QED BY <2>1, <2>3, EndRunTypes DEF Moved, GameState
<1>23. CASE TurnEnds
  BY <1>23 DEF TurnEnds, NoButton, At, EndRun, NoEvent
<1>24. ASSUME NEW w \in Workers, Reply(w) PROVE TypeOK'
  BY <1>24 DEF Reply
<1>25. ASSUME NEW w \in Workers, Exit(w) PROVE TypeOK'
  BY <1>25 DEF Exit
<1>26. ASSUME NEW w \in Workers, WorkerDies(w) PROVE TypeOK'
  BY <1>26 DEF WorkerDies, Fault
<1>27. CASE SessionEnds
  BY <1>27 DEF SessionEnds, Fault, NoSession, NoGame, NoEvent, Hidden, Closed
<1>28. CASE ServerDies
  BY <1>28 DEF ServerDies, Fault, NoSession, NoGame, NoEvent, Hidden
<1>29. CASE UNCHANGED vars
  BY <1>29
<1> QED BY <1>1, <1>2, <1>3, <1>4, <1>5, <1>6, <1>7, <1>8, <1>9, <1>10, <1>11, <1>12,
    <1>13, <1>14, <1>15, <1>16, <1>17, <1>18, <1>19, <1>20, <1>21, <1>22, <1>23, <1>24,
    <1>25, <1>26, <1>27, <1>28, <1>29 DEF Next, Buttons

-----------------------------------------------------------------------------
(* Every step keeps what the page and the session have to do with each other. *)

LEMMA PageStep ==
  ASSUME TypeOK, PageInv, [Next]_vars
  PROVE  PageInv'
<1> USE PlayAssumption DEF TypeOK, PageInv, GamePcs, ShownPcs, FreshPcs, vars, page,
    run, Thinking, UsersTurn, GameOver
<1>1. CASE BoardEvent
  BY <1>1 DEF BoardEvent, Ask, Fault
<1>2. ASSUME NEW button \in Buttons, Click(button) PROVE PageInv'
  BY <1>2 DEF Click, Buttons, Ask, Fault
<1>3. CASE StartRun
  BY <1>3 DEF StartRun
<1>4. CASE Interrupt
  BY <1>4 DEF Interrupt, Calls, NoEvent
<1>5. CASE ShowSetup
  BY <1>5 DEF ShowSetup, At, Hidden
<1>6. CASE SetupEnds
  BY <1>6 DEF SetupEnds, At, EndRun, NoEvent
<1>7. CASE StartNewGame
  BY <1>7 DEF StartNewGame, At
<1>8. CASE EnsureBot
  BY <1>8 DEF EnsureBot, At, Closed
<1>9. CASE CreateBot
  BY <1>9 DEF CreateBot
<1>10. CASE Loaded
  BY <1>10 DEF Loaded, EndRun, NoEvent
<1>11. CASE SetBot
  BY <1>11 DEF SetBot, At
<1>12. CASE Draw
  BY <1>12 DEF Draw, At
<1>13. CASE Resign
  BY <1>13 DEF Resign, At, EndRun, NoEvent
<1>14. CASE NewGame
  BY <1>14 DEF NewGame, At, Closed
<1>15. CASE ResetGame
  BY <1>15 DEF ResetGame, At, NoGame, EndRun, NoEvent
<1>16. CASE BotHasMoved
  BY <1>16 DEF BotHasMoved, NoButton, At, EndRun, NoEvent
<1>17. CASE AskBot
  BY <1>17 DEF AskBot, NoButton, At, EndRun, NoEvent
<1>18. CASE BotAnswered
  BY <1>18 DEF BotAnswered
<1>19. CASE BotIsGone
  BY <1>19 DEF BotIsGone, EndRun, NoEvent
<1>20. CASE BotMoveSet
  BY <1>20 DEF BotMoveSet, Moved, At, EndRun, NoEvent
<1>21. CASE UserMoves
  BY <1>21 DEF UserMoves, NoButton, At, Current
<1>22. CASE UserMoveSet
  BY <1>22 DEF UserMoveSet, Moved, At, EndRun, NoEvent
<1>23. CASE TurnEnds
  BY <1>23 DEF TurnEnds, NoButton, At, EndRun, NoEvent
<1>24. ASSUME NEW w \in Workers, Reply(w) PROVE PageInv'
  BY <1>24 DEF Reply
<1>25. ASSUME NEW w \in Workers, Exit(w) PROVE PageInv'
  BY <1>25 DEF Exit
<1>26. ASSUME NEW w \in Workers, WorkerDies(w) PROVE PageInv'
  BY <1>26 DEF WorkerDies, Fault
<1>27. CASE SessionEnds
  BY <1>27 DEF SessionEnds, Fault, NoSession, NoGame, NoEvent, Hidden, Closed
<1>28. CASE ServerDies
  BY <1>28 DEF ServerDies, Fault, NoSession, NoGame, NoEvent, Hidden
<1>29. CASE UNCHANGED vars
  BY <1>29
<1> QED BY <1>1, <1>2, <1>3, <1>4, <1>5, <1>6, <1>7, <1>8, <1>9, <1>10, <1>11, <1>12,
    <1>13, <1>14, <1>15, <1>16, <1>17, <1>18, <1>19, <1>20, <1>21, <1>22, <1>23, <1>24,
    <1>25, <1>26, <1>27, <1>28, <1>29 DEF Next, Buttons

-----------------------------------------------------------------------------
(* Every step keeps what is known of a used value of the component.       *)

LEMMA EventStep ==
  ASSUME TypeOK, PageInv, EventInv, [Next]_vars
  PROVE  EventInv'
<1> USE PlayAssumption DEF TypeOK, PageInv, EventInv, GamePcs, ShownPcs, FreshPcs, vars,
    page, run, Thinking, UsersTurn, GameOver, IsUserTurn
<1>1. CASE BoardEvent
  BY <1>1 DEF BoardEvent, Ask, Fault
<1>2. ASSUME NEW button \in Buttons, Click(button) PROVE EventInv'
  BY <1>2 DEF Click, Buttons, Ask, Fault
<1>3. CASE StartRun
  BY <1>3 DEF StartRun
<1>4. CASE Interrupt
  BY <1>4 DEF Interrupt, Calls, NoEvent
<1>5. CASE ShowSetup
  BY <1>5 DEF ShowSetup, At, Hidden
<1>6. CASE SetupEnds
  BY <1>6 DEF SetupEnds, At, EndRun, NoEvent
<1>7. CASE StartNewGame
  BY <1>7 DEF StartNewGame, At
<1>8. CASE EnsureBot
  BY <1>8 DEF EnsureBot, At, Closed
<1>9. CASE CreateBot
  BY <1>9 DEF CreateBot
<1>10. CASE Loaded
  BY <1>10 DEF Loaded, EndRun, NoEvent
<1>11. CASE SetBot
  BY <1>11 DEF SetBot, At
<1>12. CASE Draw
  BY <1>12 DEF Draw, At
<1>13. CASE Resign
  BY <1>13 DEF Resign, At, EndRun, NoEvent
<1>14. CASE NewGame
  BY <1>14 DEF NewGame, At, Closed
<1>15. CASE ResetGame
  BY <1>15 DEF ResetGame, At, NoGame, EndRun, NoEvent
<1>16. CASE BotHasMoved
  BY <1>16 DEF BotHasMoved, NoButton, At, EndRun, NoEvent
<1>17. CASE AskBot
  BY <1>17 DEF AskBot, NoButton, At, EndRun, NoEvent
<1>18. CASE BotAnswered
  BY <1>18 DEF BotAnswered
<1>19. CASE BotIsGone
  BY <1>19 DEF BotIsGone, EndRun, NoEvent
<1>20. CASE BotMoveSet
  BY <1>20 DEF BotMoveSet, Moved, At, EndRun, NoEvent
<1>21. CASE UserMoves
  <2>1. state.pending = "no" /\ UsersTurn /\ event.inst = state.inst
    BY <1>21 DEF UserMoves, NoButton, At, Current
  <2>2. board % 2 = side /\ board' % 2 # side
    BY <1>21, <2>1, TurnChanges DEF UserMoves
  <2>3. (~UsersTurn)'
    BY <1>21, <2>2 DEF UserMoves
  <2> QED BY <1>21, <2>1, <2>3 DEF UserMoves, NoButton, At
<1>22. CASE UserMoveSet
  BY <1>22 DEF UserMoveSet, Moved, At, EndRun, NoEvent
<1>23. CASE TurnEnds
  BY <1>23 DEF TurnEnds, NoButton, At, EndRun, NoEvent
<1>24. ASSUME NEW w \in Workers, Reply(w) PROVE EventInv'
  BY <1>24 DEF Reply
<1>25. ASSUME NEW w \in Workers, Exit(w) PROVE EventInv'
  BY <1>25 DEF Exit
<1>26. ASSUME NEW w \in Workers, WorkerDies(w) PROVE EventInv'
  BY <1>26 DEF WorkerDies, Fault
<1>27. CASE SessionEnds
  BY <1>27 DEF SessionEnds, Fault, NoSession, NoGame, NoEvent, Hidden, Closed
<1>28. CASE ServerDies
  BY <1>28 DEF ServerDies, Fault, NoSession, NoGame, NoEvent, Hidden
<1>29. CASE UNCHANGED vars
  BY <1>29
<1> QED BY <1>1, <1>2, <1>3, <1>4, <1>5, <1>6, <1>7, <1>8, <1>9, <1>10, <1>11, <1>12,
    <1>13, <1>14, <1>15, <1>16, <1>17, <1>18, <1>19, <1>20, <1>21, <1>22, <1>23, <1>24,
    <1>25, <1>26, <1>27, <1>28, <1>29 DEF Next, Buttons

-----------------------------------------------------------------------------
(* The theorems.                                                           *)

\* The state of the page, of the board component and of the workers has its
\* types: no ply is pushed after the last one of the game, and the instance of
\* the component counts the moves of one game only.
THEOREM PlayTypes == Spec => []TypeOK
<1>1. TypeOK /\ PageInv /\ [Next]_vars => (TypeOK /\ PageInv)'
  BY TypeStep, PageStep
<1> QED BY InitInv, <1>1, PTL DEF Spec

\* A move that the user makes on the board is pushed at most once, whichever
\* runs of the script were ended after the push and before the session had it,
\* and although the component keeps its value (apply_user_board_event).
THEOREM UserMovesOnce == Spec => EventOnce
<1>1. TypeOK /\ PageInv /\ EventInv /\ [Next]_vars => (TypeOK /\ PageInv /\ EventInv)'
  BY TypeStep, PageStep, EventStep
<1>2. TypeOK /\ PageInv /\ EventInv /\ UserMoves => event.st = "fresh"
  BY DEF TypeOK, PageInv, GamePcs, EventInv, UserMoves, Current, IsUserTurn, NoButton, At
<1>3. TypeOK /\ PageInv /\ EventInv => [UserMoves => event.st = "fresh"]_vars
  BY <1>2
<1> QED BY InitInv, <1>1, <1>3, PTL DEF Spec, EventOnce
=============================================================================
