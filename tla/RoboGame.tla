------------------------------ MODULE RoboGame ------------------------------
(***************************************************************************)
(* The robo-runner game (src/src/robo-runner.s): the RAM it keeps from     *)
(* $0200 on, its draw loop, and the button interrupt that shares one byte, *)
(* robo_jump_time, with that loop.                                         *)
(*                                                                         *)
(* main is the label the interrupted program is at; a step runs from one   *)
(* label to the next and contains at most one access to the shared byte,   *)
(* so every order in which an interrupt can fall between two accesses is a *)
(* behaviour of the model.  A cursor address is a row and a column (bit 6  *)
(* of the byte is the row); an address that is always in the second row is *)
(* its column alone.  What the LCD shows is added by RoboScreen.           *)
(***************************************************************************)
EXTENDS Integers

CONSTANTS
  COLS,                   \* columns of one LCD row in its memory (40)
  ROBO_JUMP_UP_TIME,      \* frames one jump lasts
  HURDLE_SPACING,         \* frames between two hurdles
  HURDLE_POSITION_BYTES,  \* bytes of hurdle_position
  BYTE,                   \* values of one byte (256)
  SCORE_BYTE,             \* values of the score byte: BYTE, or fewer to wrap sooner
  MaxScore,               \* bound: no hurdle is scored from this score on
  MESSAGE_CHARS,          \* characters of game_over_message
  PowerOnBytes,           \* what a byte of RAM may hold at power-on
  Lines                   \* lines something outside drives: "nmi", "reset"

ASSUME GameAssumption ==
  /\ COLS \in Nat /\ COLS > 17
  /\ BYTE \in Nat
  /\ ROBO_JUMP_UP_TIME \in Nat \ {0} /\ ROBO_JUMP_UP_TIME < BYTE
  /\ HURDLE_SPACING \in Nat \ {0} /\ HURDLE_SPACING < BYTE
  /\ HURDLE_POSITION_BYTES \in Nat /\ HURDLE_POSITION_BYTES > 2
  /\ HURDLE_POSITION_BYTES < BYTE
  /\ SCORE_BYTE \in Nat \ {0} /\ SCORE_BYTE <= BYTE
  /\ MaxScore \in Nat
  /\ MESSAGE_CHARS \in Nat

ASSUME PowerOnAssumption ==
  PowerOnBytes \subseteq 0 .. (SCORE_BYTE - 1) /\ PowerOnBytes # {}

ASSUME LinesAssumption == Lines \subseteq {"nmi", "reset"}

VARIABLES
  main,                         \* label of the interrupted program
  a, x, y,                      \* the registers, where they live across labels
  robo_position,                \* [row, col]
  robo_jump_time,
  hurdle_spacing_count,
  hurdle_spawn_position,        \* column in row 2
  init_draw_cursor,             \* column in row 2
  hurdle_count,
  robo_score_display_position,  \* column in row 1
  robo_score,
  hurdle_position,              \* columns in row 2, Empty is the zero byte
  robo_drawn,                   \* [row, col] of the robot sprite last printed
  ier,                          \* the VIA's CA1 interrupt is enabled
  ca1,                          \* the VIA's CA1 flag: a button edge is pending
  in_irq                        \* the handler runs and the loop is suspended

course   == << hurdle_spacing_count, hurdle_spawn_position, hurdle_count,
               hurdle_position >>
scoring  == << robo_score_display_position, robo_score >>
regs     == << a, x, y >>
button   == << ier, ca1, in_irq >>
vars     == << main, regs, robo_position, robo_jump_time, course,
               init_draw_cursor, scoring, robo_drawn, button >>

Cols   == 0 .. (COLS - 1)
SpawnCols == 0 .. (COLS - 2)  \* the last column is never reached
Byte   == 0 .. (BYTE - 1)
Slots  == 0 .. (HURDLE_POSITION_BYTES - 1)
Addr   == [row : {1, 2}, col : Cols]
Empty  == -1
Labels == { "reset", "draw_init_screen", "draw_init_course", "draw_hurdle",
            "draw_robo_sprite", "handle_robo_jump_time",
            "draw_robo_sprite_redraw", "draw_score", "calculate_collision",
            "jump_check", "clean_stale_hurdles_loop", "wait", "game_over",
            "game_over_message_draw", "game_over_loop" }

\* The program is at label l and no handler has suspended it.
At(l) == main = l /\ ~in_irq

\* Mutant: the end of the row is not looked for.
NextColUnwrapped(c) == c + 1

\* The address counters of the LCD wrap after the last column of a row.
NextCol(c) == IF c + 1 = COLS THEN 0 ELSE c + 1

\* The spawn position is reset when it reaches the last column, not past it.
NextSpawn(c) == IF c + 1 = COLS - 1 THEN 0 ELSE c + 1

\* inc and dec of a byte.
IncByte(n) == IF n + 1 = BYTE THEN 0 ELSE n + 1
DecByte(n) == IF n = 0 THEN BYTE - 1 ELSE n - 1

\* cmp #HURDLE_SPACING / bmi: the sign bit of the byte difference.
BelowSpacing(n) ==
  IF n >= HURDLE_SPACING THEN 2 * (n - HURDLE_SPACING) >= BYTE
                         ELSE 2 * (n - HURDLE_SPACING + BYTE) >= BYTE

-----------------------------------------------------------------------------
(* Power-on, the boot code and the first screen.                           *)

Init ==
  /\ main = "reset"
  /\ a = 0 /\ x = 0 /\ y = 0
  /\ robo_position = [row |-> 2, col |-> 0]
  /\ robo_jump_time \in PowerOnBytes
  /\ hurdle_spacing_count \in PowerOnBytes
  /\ hurdle_spawn_position = 0
  /\ init_draw_cursor = 0
  /\ hurdle_count \in PowerOnBytes
  /\ robo_score_display_position = 0
  /\ robo_score \in PowerOnBytes
  /\ hurdle_position \in { [i \in Slots |-> v] : v \in {Empty, 0} }
  /\ robo_drawn = [row |-> 2, col |-> 0]
  /\ ier = FALSE /\ ca1 = FALSE /\ in_irq = FALSE

\* reset in bootstrap.s: interrupts are on before the game's RAM is set up.
Bootstrap ==
  /\ At("reset")
  /\ main' = "draw_init_screen"
  /\ ier' = TRUE
  /\ UNCHANGED << regs, robo_position, robo_jump_time, course,
                  init_draw_cursor, scoring, robo_drawn, ca1, in_irq >>

\* Mutant: hurdle_spacing_count is not cleared.
ZeroBytesButOne ==
  /\ hurdle_count' = 0 /\ robo_score' = 0 /\ robo_jump_time' = 0
  /\ UNCHANGED hurdle_spacing_count

\* The bytes of RAM that start at zero.
ZeroBytes ==
  /\ hurdle_count' = 0 /\ robo_score' = 0 /\ robo_jump_time' = 0
  /\ hurdle_spacing_count' = 0

DrawInitScreen ==
  /\ At("draw_init_screen")
  /\ main' = "draw_init_course"
  /\ robo_score_display_position' = 15
  /\ ZeroBytes
  /\ hurdle_position' = [i \in Slots |-> Empty]
  /\ hurdle_spawn_position' = 16
  /\ init_draw_cursor' = 0
  /\ robo_position' = [row |-> 2, col |-> 1]
  /\ a' = 0
  /\ x' = HURDLE_POSITION_BYTES
  /\ UNCHANGED << y, robo_drawn, button >>

\* One character of the course.  a is what the cursor was compared with: the
\* cursor itself on the first turn, the cursor before its increment later.
\* The LCD prints at init_draw_cursor, its own address counter.
DrawInitCourse ==
  /\ At("draw_init_course")
  /\ robo_drawn' = IF a = robo_position.col
                   THEN [row |-> 2, col |-> init_draw_cursor] ELSE robo_drawn
  /\ a' = init_draw_cursor
  /\ init_draw_cursor' = NextCol(init_draw_cursor)
  /\ main' = IF init_draw_cursor = COLS - 1 THEN "draw_hurdle"
                                            ELSE "draw_init_course"
  /\ UNCHANGED << x, y, robo_position, robo_jump_time, course, scoring, button >>

-----------------------------------------------------------------------------
(* The draw loop.                                                          *)

\* Mutant: the list may fill up to its last byte.
HurdleDueUnbounded == ~BelowSpacing(IncByte(hurdle_spacing_count))

\* hurdle_spacing_count has run out and the list has room for one more.
HurdleDue == /\ ~BelowSpacing(IncByte(hurdle_spacing_count))
             /\ hurdle_count # HURDLE_POSITION_BYTES - 1

\* Mutant: inc hurdle_count is missing.
AddHurdleUncounted(c) ==
  /\ hurdle_position' = [hurdle_position EXCEPT ![hurdle_count] = c]
  /\ UNCHANGED hurdle_count

\* The end of draw_hurdle_draw.  The list is the last thing in RAM: a count beyond its
\* bytes would write above it, where the game keeps nothing.
AddHurdle(c) ==
  /\ hurdle_position' = [hurdle_position EXCEPT ![hurdle_count] = c]
  /\ hurdle_count' = IncByte(hurdle_count)

SpawnHurdle ==
  /\ HurdleDue
  /\ hurdle_spacing_count' = 0
  /\ AddHurdle(NextSpawn(hurdle_spawn_position))
  /\ y' = hurdle_count

\* draw_hurdle_end: the same cell shows the ground.
SpawnGround ==
  /\ ~HurdleDue
  /\ hurdle_spacing_count' = IncByte(hurdle_spacing_count)
  /\ UNCHANGED << hurdle_position, hurdle_count, y >>

DrawHurdle ==
  /\ At("draw_hurdle")
  /\ main' = "draw_robo_sprite"
  /\ hurdle_spawn_position' = NextSpawn(hurdle_spawn_position)
  /\ SpawnHurdle \/ SpawnGround
  /\ UNCHANGED << a, x, robo_position, robo_jump_time, init_draw_cursor,
                  scoring, robo_drawn, button >>

\* draw_robo_sprite up to the branch on robo_jump_time.
DrawRoboSprite ==
  /\ At("draw_robo_sprite")
  /\ x' = robo_position.col
  /\ robo_position' = [row |-> 2, col |-> NextCol(robo_position.col)]
  /\ main' = IF robo_jump_time = 0 THEN "draw_robo_sprite_redraw"
                                   ELSE "handle_robo_jump_time"
  /\ UNCHANGED << a, y, robo_jump_time, course, init_draw_cursor, scoring,
                  robo_drawn, button >>

HandleRoboJumpTime ==
  /\ At("handle_robo_jump_time")
  /\ robo_jump_time' = DecByte(robo_jump_time)
  /\ robo_position' = [robo_position EXCEPT !.row = 1]
  /\ main' = "draw_robo_sprite_redraw"
  /\ UNCHANGED << regs, course, init_draw_cursor, scoring, robo_drawn, button >>

\* The robot is printed where it is now; then its position is on the ground.
DrawRoboSpriteRedraw ==
  /\ At("draw_robo_sprite_redraw")
  /\ robo_drawn' = robo_position
  /\ robo_position' = [robo_position EXCEPT !.row = 2]
  /\ main' = "draw_score"
  /\ UNCHANGED << regs, robo_jump_time, course, init_draw_cursor, scoring, button >>

\* Mutant: the score's position does not wrap at the end of the row.
NextScoreUnwrapped == robo_score_display_position + 1

\* The score's position in the frame being drawn.
NextScorePosition == NextCol(robo_score_display_position)

\* The score moves one column right with the window (its digits: ScoreDisplay).
DrawScore ==
  /\ At("draw_score")
  /\ robo_score_display_position' = NextScorePosition
  /\ main' = "calculate_collision"
  /\ UNCHANGED << regs, robo_position, robo_jump_time, course, init_draw_cursor,
                  robo_score, robo_drawn, button >>

CalculateCollision ==
  /\ At("calculate_collision")
  /\ main' = IF robo_position.col = hurdle_position[0] THEN "jump_check"
                                                       ELSE "wait"
  /\ UNCHANGED << regs, robo_position, robo_jump_time, course, init_draw_cursor,
                  scoring, robo_drawn, button >>

\* jump_check finds the robot on the ground.
GameOver ==
  /\ At("jump_check")
  /\ robo_jump_time = 0
  /\ main' = "game_over"
  /\ UNCHANGED << regs, robo_position, robo_jump_time, course, init_draw_cursor,
                  scoring, robo_drawn, button >>

\* dec hurdle_count
HurdlesLeft == DecByte(hurdle_count)

\* clean_stale_hurdles, up to its loop.
CleanStaleHurdles ==
  /\ At("jump_check")
  /\ robo_jump_time # 0
  /\ robo_score < MaxScore
  /\ x' = 1 /\ y' = 0
  /\ hurdle_count' = HurdlesLeft
  /\ robo_score' = IF robo_score + 1 = SCORE_BYTE THEN 0 ELSE robo_score + 1
  /\ main' = "clean_stale_hurdles_loop"
  /\ UNCHANGED << a, robo_position, robo_jump_time, hurdle_spacing_count,
                  hurdle_spawn_position, hurdle_position, init_draw_cursor,
                  robo_score_display_position, robo_drawn, button >>

\* Mutant: sta hurdle_position,x puts the hurdle back where it was.
UnshiftedList == hurdle_position

\* lda hurdle_position,x / sta hurdle_position,y
ShiftedList == [hurdle_position EXCEPT ![y] = hurdle_position[x]]

\* Mutant: the two indexes stay where they are.
SameSlots == x' = x /\ y' = y

NextSlots == x' = x + 1 /\ y' = y + 1

\* One turn of the loop: move slot x to slot y, then peek at the slot after x.
CleanStaleHurdlesLoop ==
  /\ At("clean_stale_hurdles_loop")
  /\ hurdle_position' = ShiftedList
  /\ NextSlots
  /\ main' = IF hurdle_position[x + 1] = Empty THEN "wait"
                                               ELSE "clean_stale_hurdles_loop"
  /\ UNCHANGED << a, robo_position, robo_jump_time, hurdle_spacing_count,
                  hurdle_spawn_position, hurdle_count, init_draw_cursor,
                  scoring, robo_drawn, button >>

\* The delay at the end of a frame; it uses x and y up.
Wait ==
  /\ At("wait")
  /\ main' = "draw_hurdle"
  /\ x' = 0 /\ y' = 0
  /\ UNCHANGED << a, robo_position, robo_jump_time, course, init_draw_cursor,
                  scoring, robo_drawn, button >>

\* Mutant: the message starts at the robot's next column.
MessageStartLate == NextCol(robo_position.col)

\* The cursor address in y when the message begins.
MessageStart == robo_position.col

\* game_over: the display flickers, then the message starts above the robot.
GameOverFlicker ==
  /\ At("game_over")
  /\ x' = 0 /\ y' = MessageStart
  /\ main' = "game_over_message_draw"
  /\ UNCHANGED << a, robo_position, robo_jump_time, course, init_draw_cursor,
                  scoring, robo_drawn, button >>

\* One character of the message; the cursor column y stays in the first row.
GameOverMessageDraw ==
  /\ At("game_over_message_draw")
  /\ \/ /\ x < MESSAGE_CHARS
        /\ x' = x + 1 /\ y' = NextCol(y)
        /\ main' = main
     \/ /\ x = MESSAGE_CHARS
        /\ main' = "game_over_loop"
        /\ UNCHANGED << x, y >>
  /\ UNCHANGED << a, robo_position, robo_jump_time, course, init_draw_cursor,
                  scoring, robo_drawn, button >>

-----------------------------------------------------------------------------
(* The button, the interrupt handler and the reset line.                   *)

\* Mutant: every press extends the jump.
AddRoboJumpTime == robo_jump_time' = robo_jump_time + ROBO_JUMP_UP_TIME

\* Mutant: the branch on robo_jump_time is the wrong way round.
SetRoboJumpTimeAgain ==
  robo_jump_time' = IF robo_jump_time = 0 THEN 0 ELSE ROBO_JUMP_UP_TIME

\* set_robo_jump_time: a jump in progress is not extended.
SetRoboJumpTime ==
  robo_jump_time' = IF robo_jump_time = 0 THEN ROBO_JUMP_UP_TIME
                                          ELSE robo_jump_time

loop == << main, regs, robo_position, course, init_draw_cursor, scoring,
           robo_drawn >>

\* A falling edge on CA1 sets the VIA's flag, whether or not it was set.
Press ==
  /\ ca1' = TRUE
  /\ UNCHANGED << loop, robo_jump_time, ier, in_irq >>

\* The CPU takes the interrupt and runs the handler as far as set_robo_jump_time.
Irq ==
  /\ ier /\ ca1 /\ ~in_irq
  /\ in_irq' = TRUE
  /\ SetRoboJumpTime
  /\ UNCHANGED << loop, ier, ca1 >>

\* exit_irq: reading PORTA clears the flag, and with it every edge since.
ExitIrq ==
  /\ in_irq
  /\ in_irq' = FALSE
  /\ ca1' = FALSE
  /\ UNCHANGED << loop, robo_jump_time, ier >>

\* nmi has no rti of its own: it runs the irq handler, and cannot be masked.
Nmi ==
  /\ "nmi" \in Lines
  /\ SetRoboJumpTime
  /\ ca1' = FALSE
  /\ UNCHANGED << loop, ier, in_irq >>

\* The reset button: the CPU and the VIA start again, RAM keeps its contents.
ResetButton ==
  /\ "reset" \in Lines
  /\ main # "reset"
  /\ main' = "reset"
  /\ a' = 0 /\ x' = 0 /\ y' = 0
  /\ ier' = FALSE /\ ca1' = FALSE /\ in_irq' = FALSE
  /\ UNCHANGED << robo_position, robo_jump_time, course, init_draw_cursor,
                  scoring, robo_drawn >>

MainStep ==
  \/ Bootstrap \/ DrawInitScreen \/ DrawInitCourse
  \/ DrawHurdle \/ DrawRoboSprite \/ HandleRoboJumpTime \/ DrawRoboSpriteRedraw
  \/ DrawScore \/ CalculateCollision \/ GameOver
  \/ CleanStaleHurdles \/ CleanStaleHurdlesLoop \/ Wait
  \/ GameOverFlicker \/ GameOverMessageDraw

Next == MainStep \/ Press \/ Irq \/ ExitIrq \/ Nmi \/ ResetButton

Spec == Init /\ [][Next]_vars

-----------------------------------------------------------------------------
(* What is true of the game at every step.                                 *)

Booted  == main \notin {"reset", "draw_init_screen"}
Playing == Booted /\ main # "draw_init_course"

(* Type invariant of the game's RAM, registers and interrupt state.        *)
TypeOK ==
  /\ main \in Labels /\ a \in Cols /\ x \in Nat /\ y \in Nat
  /\ robo_position \in Addr /\ robo_drawn \in Addr
  /\ robo_jump_time \in Byte
  /\ hurdle_position \in [Slots -> Cols \cup {Empty}]
  /\ hurdle_spacing_count \in Byte /\ hurdle_count \in Byte
  /\ hurdle_spawn_position \in SpawnCols /\ init_draw_cursor \in Cols
  /\ robo_score_display_position \in Cols
  /\ robo_score \in 0 .. (SCORE_BYTE - 1)
  /\ ier \in BOOLEAN /\ ca1 \in BOOLEAN /\ in_irq \in BOOLEAN

(* The dec in handle_robo_jump_time (line 141) runs after the test of      *)
(* robo_jump_time at line 137 with interrupts on in between; whatever      *)
(* interrupt falls there, and whatever RAM held before a reset, the byte   *)
(* is between 1 and ROBO_JUMP_UP_TIME when it is decremented, and it is    *)
(* never above ROBO_JUMP_UP_TIME once the game is set up.                  *)
JumpTimeInRange ==
  /\ Booted => robo_jump_time <= ROBO_JUMP_UP_TIME
  /\ main = "handle_robo_jump_time" => robo_jump_time > 0

(* hurdle_position (line 24) ends in a zero byte, and the loop that shifts *)
(* the list stops at it: it reads and writes inside the list, though no    *)
(* turn of it looks at hurdle_count.                                       *)
ListInBounds ==
  Booted =>
    /\ hurdle_position[HURDLE_POSITION_BYTES - 1] = Empty
    /\ main = "clean_stale_hurdles_loop" =>
         x = y + 1 /\ x + 1 < HURDLE_POSITION_BYTES

(* The robot meets a hurdle only while the list has one: never the copy   *)
(* that an earlier shift left in hurdle_position[0].  If it did,           *)
(* hurdle_count (line 233) would go below zero and the next hurdle be      *)
(* written outside the list (line 113).                                    *)
NoPhantomHurdle == main = "jump_check" => hurdle_count > 0

(* hurdle_count is the number of hurdles at the front of the list, in      *)
(* every interleaving of spawning, shifting and starting again.            *)
HurdleListSound ==
  Booted =>
    /\ hurdle_count \in 0 .. (HURDLE_POSITION_BYTES - 1)
    /\ main # "clean_stale_hurdles_loop" =>
         \A i \in 0 .. (hurdle_count - 1) : hurdle_position[i] # Empty

(* A hurdle, once laid, stays where it is: the draw loop and the shift of  *)
(* the list move hurdles between slots, and a column enters the list only  *)
(* as the spawn position of draw_hurdle.                                   *)
Listed == { hurdle_position[i] : i \in Slots } \ {Empty}
HurdlesAppearAtSpawn ==
  [][Playing /\ main' # "reset" =>
       Listed' \subseteq Listed \cup {NextSpawn(hurdle_spawn_position)}]_vars

(* draw_init_screen leaves nothing of the RAM it finds: every game begins  *)
(* in the same state, after power-on as after a reset in mid-game.  The    *)
(* jump time alone may already have been set by the button.                *)
SameGameEveryTime ==
  main = "draw_init_course" =>
    /\ robo_position = [row |-> 2, col |-> 1]
    /\ hurdle_spacing_count = 0 /\ hurdle_spawn_position = 16
    /\ hurdle_count = 0 /\ hurdle_position = [i \in Slots |-> Empty]
    /\ robo_score = 0 /\ robo_score_display_position = 15
    /\ robo_jump_time \in {0, ROBO_JUMP_UP_TIME}

(* The robot and the score move in step for ever: the score is drawn       *)
(* fourteen columns right of the robot whenever a frame is complete, the   *)
(* two counters wrapping at different labels and different steps.          *)
ScoreInStep ==
  main \in {"draw_hurdle", "draw_robo_sprite", "calculate_collision",
            "jump_check", "wait"} =>
    robo_score_display_position =
      IF robo_position.col + 14 < COLS THEN robo_position.col + 14
                                       ELSE robo_position.col + 14 - COLS
=============================================================================
