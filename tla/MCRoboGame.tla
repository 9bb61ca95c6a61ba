----------------------------- MODULE MCRoboGame -----------------------------
(***************************************************************************)
(* RoboGame for TLC: its invariants, its refinement of RunnerRules and     *)
(* what the fair scheduling of CPU and button guarantees.                  *)
(***************************************************************************)
EXTENDS RoboGame, Sequences

(* calculate_collision compares the robot with hurdle_position[0] only,    *)
(* "closest hurdle" (line 223): no live hurdle lies between the robot and  *)
(* that one.  So it is for some 970 frames; then it fails, as the spawn    *)
(* position wraps in a cycle of 39 columns and the robot in one of 40.     *)
Ahead(c) == (c - robo_position.col) % COLS
ClosestFirst ==
  main = "calculate_collision" =>
    \A i \in 0 .. (hurdle_count - 1) :
      Ahead(hurdle_position[0]) <= Ahead(hurdle_position[i])

\* The game while nobody resets the board.
OneGame == MainStep \/ Press \/ Irq \/ ExitIrq
OneGameSpec == Init /\ [][OneGame]_vars

-----------------------------------------------------------------------------
(* Refinement: the queue that the bytes stand for.  In the middle of the   *)
(* shift, slots from y on have not been moved yet.                         *)

LiveSlot(i) == IF main = "clean_stale_hurdles_loop" /\ i >= y THEN i + 1 ELSE i

Phase ==
  IF ~Booted THEN "off"
  ELSE IF main \in {"draw_robo_sprite", "handle_robo_jump_time"} THEN "move"
  ELSE IF main \in {"draw_robo_sprite_redraw", "draw_score",
                    "calculate_collision", "jump_check"} THEN "judge"
  ELSE IF main \in {"game_over", "game_over_message_draw", "game_over_loop"}
       THEN "over"
  ELSE "course"

Queue ==
  IF Booted THEN [i \in 1 .. hurdle_count |-> hurdle_position[LiveSlot(i - 1)]]
            ELSE << >>

Column ==
  IF ~Booted THEN 1
  ELSE IF main = "handle_robo_jump_time" THEN x
  ELSE robo_position.col

Airborne ==
  Playing /\ 1 = IF main = "draw_robo_sprite_redraw" THEN robo_position.row
                                                    ELSE robo_drawn.row

Rules == INSTANCE RunnerRules WITH
  MAX_HURDLES <- HURDLE_POSITION_BYTES - 1,
  phase    <- Phase,
  hurdles  <- Queue,
  robo     <- Column,
  left     <- IF Booted THEN robo_jump_time ELSE 0,
  airborne <- Airborne,
  score    <- IF Booted THEN robo_score ELSE 0

(* The draw loop, its list of bytes and the interrupt handler implement    *)
(* the queue, the jump budget and the frame of RunnerRules, step by step.  *)
ImplementsRules == Rules!Spec

-----------------------------------------------------------------------------
(* Frames go on for ever unless the game is over or the player keeps       *)
(* resetting: no interrupt pattern and no list content stops the loop.     *)
(* (The last disjunct is the model's bound on the score, not the code's.)  *)
FramesGoOn ==
  []<>(main = "reset") \/ <>[](main = "game_over_loop")
    \/ []<>(main = "draw_hurdle") \/ <>[](robo_score = MaxScore)

(* A press while no jump is in progress starts one, however the handler    *)
(* and the draw loop interleave, unless a reset takes it back.             *)
PressIsHonoured ==
  (ca1 /\ ier /\ robo_jump_time = 0) ~> (robo_jump_time > 0 \/ main = "reset")

=============================================================================
