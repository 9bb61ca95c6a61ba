---------------------------- MODULE MCRoboScreen ----------------------------
(* RoboScreen for TLC: what is on the display agrees with the game's RAM.  *)
EXTENDS RoboScreen, MCRoboGame

(* The CPU runs: it takes a pending interrupt and leaves the handler, and  *)
(* the loop gets on whenever handlers keep ending (strong fairness: the    *)
(* edges of a contact come in finite bursts, so they cannot fill every gap *)
(* between two handlers).  Presses, NMIs and resets need never happen, and *)
(* drawing is part of the game's steps.                                    *)
FairScreenSpec == ScreenSpec /\ SF_vars(MainStep) /\ WF_vars(Irq) /\ WF_vars(ExitIrq)

\* A frame is on the display and no message over it.
Drawn == main \in {"draw_score", "calculate_collision", "jump_check",
                   "clean_stale_hurdles_loop", "wait", "game_over"}

Cells(row, sprite) == { c \in Cols : row[c] = sprite }

(* The robot alone is where the game last put it, in the second column of  *)
(* the window.                                                             *)
RobotAlone ==
  /\ Cells(ground, "robo") = IF robo_drawn.row = 2 THEN {robo_drawn.col} ELSE {}
  /\ Cells(air, "robo") = IF robo_drawn.row = 1 THEN {robo_drawn.col} ELSE {}
  /\ robo_drawn.col = (window + 1) % COLS

\* The frame that follows draw_init_screen.
FirstFrame == hurdle_spacing_count = 1 /\ hurdle_position[0] = Empty

(* Once a frame is drawn exactly one robot is on the display: erasing the  *)
(* previous sprite (lines 146-154) leaves no afterimage over a jump, a     *)
(* landing, the wrap of the display memory or a reset.  Not so in the      *)
(* first frame: the loop that draws the first screen compares              *)
(* robo_position with the cursor of the turn before (lines 71-86), puts    *)
(* the robot one column too far right, and a jump begun before the first   *)
(* frame leaves that sprite on the ground under the robot in the air.      *)
OneRobot == Drawn /\ ~FirstFrame => RobotAlone

(* When the collision is judged, the hurdles on the display are the        *)
(* hurdles of the list, except one the robot's sprite stands on: the       *)
(* player sees every hurdle that can end the game, and no other.  So for   *)
(* the first 930 frames; see MCHiddenHurdle.cfg for what comes then.       *)
HurdlesShown ==
  main = "calculate_collision" =>
    Cells(ground, "hurdle") =
      { hurdle_position[i] : i \in 0 .. (hurdle_count - 1) }
        \ (IF robo_drawn.row = 2 THEN {robo_drawn.col} ELSE {})

(* After draw_score the only digits on the display are the score's, in the *)
(* last columns of the window, whichever side of the wrap they are on.     *)
ScoreShown ==
  main \in {"calculate_collision", "jump_check", "game_over"} =>
    Cells(air, "digit") =
      {(window + 15) % COLS}
        \cup (IF robo_score >= 10 THEN {(window + 14) % COLS} ELSE {})

(* The game-over message starts above the robot and runs on in the first   *)
(* row, over its end if need be, without touching the score.               *)
MessageShown ==
  main = "game_over_loop" =>
    /\ Cells(air, "text") =
         { (robo_position.col + i) % COLS : i \in 0 .. (MESSAGE_CHARS - 1) }
    /\ Cells(air, "digit") # {}
=============================================================================
