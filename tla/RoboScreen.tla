----------------------------- MODULE RoboScreen -----------------------------
(***************************************************************************)
(* What the player sees: RoboGame together with the display memory of the  *)
(* 1602A LCD that its subroutines draw in.  The controller keeps two rows  *)
(* of COLS cells and shows a window of them that "shift display left"      *)
(* moves; every draw goes to an address (set_cursor_address) and prints    *)
(* one character there (print_char).                                       *)
(***************************************************************************)
EXTENDS RoboGame

VARIABLES
  ground,  \* row 2 of the display memory
  air,     \* row 1
  window   \* first column shown

screen == << ground, air, window >>

Sprites == {"blank", "ground", "hurdle", "robo", "digit", "text"}

PrevCol(c) == IF c = 0 THEN COLS - 1 ELSE c - 1

\* print_char with the cursor at address p
PrintAt(p, sprite) ==
  /\ ground' = IF p.row = 2 THEN [ground EXCEPT ![p.col] = sprite] ELSE ground
  /\ air'    = IF p.row = 1 THEN [air    EXCEPT ![p.col] = sprite] ELSE air

ScreenInit ==
  /\ Init
  /\ ground = [c \in Cols |-> "text"]   \* leftovers, until the LCD is cleared
  /\ air = [c \in Cols |-> "text"]
  /\ window = 0

\* The last LCD instruction of bootstrap.s clears the display and unshifts it.
ClearDisplay ==
  /\ Bootstrap
  /\ ground' = [c \in Cols |-> "blank"]
  /\ air' = [c \in Cols |-> "blank"]
  /\ window' = 0

DrawCourseChar ==
  /\ DrawInitCourse
  /\ PrintAt([row |-> 2, col |-> init_draw_cursor],
           IF a = robo_position.col THEN "robo" ELSE "ground")
  /\ UNCHANGED window

\* Mutant: the cursor is set before the spawn position moves.
SpawnCellLate == hurdle_spawn_position

\* The column draw_hurdle prints at.
SpawnCell == NextSpawn(hurdle_spawn_position)

DrawSpawnCell ==
  /\ DrawHurdle
  /\ PrintAt([row |-> 2, col |-> SpawnCell],
           IF HurdleDue THEN "hurdle" ELSE "ground")
  /\ UNCHANGED window

\* Mutant: nothing is erased in the top row.
ErasedAirUnchanged == air

\* "Clear previous robo sprite" in the top row.
ErasedAir == [air EXCEPT ![x] = "blank"]

\* Both cells at the previous column are overwritten, the display is shifted,
\* and only then is the robot printed.
DrawRobot ==
  LET under == [ground EXCEPT ![x] = "ground"]
      c     == robo_position.col
  IN /\ DrawRoboSpriteRedraw
     /\ ground' = IF robo_position.row = 2 THEN [under EXCEPT ![c] = "robo"] ELSE under
     /\ air'    = IF robo_position.row = 1 THEN [ErasedAir EXCEPT ![c] = "robo"] ELSE ErasedAir
     /\ window' = NextCol(window)

\* Mutant: only the ones cell of the old score is cleared.
OldScoreOnes == {robo_score_display_position}

\* The cells of the old score.
OldScore == {robo_score_display_position, PrevCol(robo_score_display_position)}

\* The two cells of the old score are cleared, the digits go one column right.
DrawDigits ==
  LET ones == NextCol(robo_score_display_position)
      tens == robo_score_display_position
  IN /\ DrawScore
     /\ air' = [c \in Cols |->
                  IF c = ones \/ (c = tens /\ robo_score >= 10) THEN "digit"
                  ELSE IF c \in OldScore THEN "blank" ELSE air[c]]
     /\ UNCHANGED << ground, window >>

DrawMessageChar ==
  /\ GameOverMessageDraw
  /\ IF x < MESSAGE_CHARS THEN PrintAt([row |-> 1, col |-> y], "text")
                          ELSE UNCHANGED << ground, air >>
  /\ UNCHANGED window

Undrawn ==
  \/ /\ \/ DrawInitScreen \/ DrawRoboSprite \/ HandleRoboJumpTime
        \/ CalculateCollision \/ GameOver \/ CleanStaleHurdles
        \/ CleanStaleHurdlesLoop \/ Wait \/ GameOverFlicker
     /\ UNCHANGED screen
  \/ Press /\ UNCHANGED screen
  \/ Irq /\ UNCHANGED screen
  \/ ExitIrq /\ UNCHANGED screen
  \/ Nmi /\ UNCHANGED screen
  \/ ResetButton /\ UNCHANGED screen

ScreenNext ==
  \/ ClearDisplay \/ DrawCourseChar \/ DrawSpawnCell \/ DrawRobot
  \/ DrawDigits \/ DrawMessageChar \/ Undrawn

ScreenSpec == ScreenInit /\ [][ScreenNext]_<< vars, screen >>
=============================================================================
