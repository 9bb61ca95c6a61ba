--------------------------- MODULE RoboGameProofs ---------------------------
(***************************************************************************)
(* Proofs about RoboGame and RoboScreen for every value of their           *)
(* constants: any width of display, length of jump, spacing, size of       *)
(* hurdle_position and contents of RAM at power-on, with or without NMI    *)
(* and reset.  In four parts: the game's invariants; that it implements    *)
(* RunnerRules, each step of loop, handler and reset button being a step   *)
(* of the rules or invisible in them; for how long the list keeps its      *)
(* course; and that the picture says what RAM says.                        *)
(*                                                                         *)
(* In the first two parts the list has one hypothesis, that the robot      *)
(* never meets the copy a shift leaves behind.  The third says for how     *)
(* long that is so, and proves it of every game that is short enough,      *)
(* without a hypothesis on how the game is played.                         *)
(***************************************************************************)
EXTENDS MCRoboScreen, SequenceTheorems, TLAPS

\* What the operators on one byte and one column return.
LEMMA ByteOps ==
  /\ \A n \in Byte : IncByte(n) \in Byte /\ DecByte(n) \in Byte
  /\ 0 \in Byte /\ ROBO_JUMP_UP_TIME \in Byte
  BY GameAssumption DEF GameAssumption, Byte, IncByte, DecByte

\* What the operators on a column return.
LEMMA ColOps ==
  /\ \A c \in Cols : NextCol(c) \in Cols
  /\ \A c \in SpawnCols : NextSpawn(c) \in SpawnCols
  /\ {0, 1, 15} \subseteq Cols /\ {0, 16} \subseteq SpawnCols
  /\ SpawnCols \subseteq Cols /\ Empty \notin Cols
<1> USE GameAssumption DEF GameAssumption, Cols, SpawnCols
<1>1. /\ \A c \in Cols : NextCol(c) \in Cols
      /\ \A c \in SpawnCols : NextSpawn(c) \in SpawnCols
  BY DEF NextCol, NextSpawn
<1>2. /\ {0, 1, 15} \subseteq Cols /\ {0, 16} \subseteq SpawnCols
      /\ SpawnCols \subseteq Cols
  OBVIOUS
<1>3. Empty \notin Cols
  BY DEF Empty
<1>. QED
  BY <1>1, <1>2, <1>3

\* An index less than one row past the end of a row wraps once.
LEMMA Wrap ==
  ASSUME NEW n \in Nat \ {0}, NEW i \in 0 .. (2 * n - 1)
  PROVE  i % n = IF i < n THEN i ELSE i - n
<1>1. CASE i < n
  BY <1>1
<1>2. CASE i >= n
  <2>1. PICK j \in 0 .. (n - 1) : i = j + n
    <3>1. i - n \in 0 .. (n - 1) /\ i = (i - n) + n
      BY <1>2
    <3>. QED
      BY <3>1
  <2>2. (j + n) % n = j
    BY <2>1
  <2>. QED
    BY <1>2, <2>1, <2>2
<1>. QED
  BY <1>1, <1>2

\* The slots the list operations name are slots.
LEMMA SlotOps ==
  /\ HURDLE_POSITION_BYTES - 1 \in Slots
  /\ 0 \in Slots /\ 1 \in Slots /\ 2 < HURDLE_POSITION_BYTES
  BY GameAssumption DEF GameAssumption, Slots

-----------------------------------------------------------------------------
(* The types, and with them the bounds of the loop that shifts the list:   *)
(* what the loop reads has a type only while it stays inside the list.     *)

\* The types and the bounds hold at power-on.
LEMMA TypeInit == Init => TypeOK /\ ListInBounds
<1> SUFFICES ASSUME Init PROVE TypeOK /\ ListInBounds
  OBVIOUS
<1> USE DEF Init
<1>1. main \in Labels /\ a \in Cols /\ x \in Nat /\ y \in Nat
  BY ColOps DEF Labels
<1>2. robo_position \in Addr /\ robo_drawn \in Addr
  BY ColOps DEF Addr
<1>3. hurdle_position \in [Slots -> Cols \cup {Empty}]
  BY ColOps
<1>4. /\ robo_jump_time \in Byte /\ hurdle_spacing_count \in Byte
      /\ hurdle_count \in Byte /\ robo_score \in 0 .. (SCORE_BYTE - 1)
  BY GameAssumption, PowerOnAssumption DEF GameAssumption, PowerOnAssumption, Byte
<1>5. ListInBounds
  BY DEF ListInBounds, Booted
<1>. QED
  BY <1>1, <1>2, <1>3, <1>4, <1>5, ColOps DEF TypeOK

\* Every step keeps the types; the shift loop needs the bounds for it.
LEMMA TypeStep == TypeOK /\ ListInBounds /\ [Next]_vars => TypeOK'
<1> SUFFICES ASSUME TypeOK, ListInBounds, [Next]_vars PROVE TypeOK'
  OBVIOUS
<1> USE DEF TypeOK, At, course, scoring, regs, button, loop
<1>1. CASE Bootstrap
  BY <1>1 DEF Bootstrap, Labels
<1>2. CASE DrawInitScreen
  <2>1. robo_position' \in Addr
    BY <1>2, ColOps DEF DrawInitScreen, ZeroBytes, Addr
  <2>2. x' \in Nat /\ robo_score' \in 0 .. (SCORE_BYTE - 1)
    BY <1>2, GameAssumption DEF DrawInitScreen, ZeroBytes, GameAssumption
  <2>. QED
    BY <1>2, <2>1, <2>2, ColOps, ByteOps DEF DrawInitScreen, ZeroBytes, Labels
<1>3. CASE DrawInitCourse
  BY <1>3, ColOps DEF DrawInitCourse, Labels, Addr
<1>4. CASE DrawHurdle
  <2>1. hurdle_position' \in [Slots -> Cols \cup {Empty}]
    BY <1>4, ColOps DEF DrawHurdle, SpawnHurdle, AddHurdle, SpawnGround
  <2>2. hurdle_spacing_count' \in Byte /\ hurdle_count' \in Byte /\ y' \in Nat
    BY <1>4, ByteOps DEF DrawHurdle, SpawnHurdle, AddHurdle, SpawnGround, Byte
  <2>. QED
    BY <1>4, <2>1, <2>2, ColOps DEF DrawHurdle, Labels
<1>5. CASE DrawRoboSprite
  <2>1. robo_position' \in Addr /\ x' \in Nat
    BY <1>5, ColOps DEF DrawRoboSprite, Addr, Cols
  <2>. QED
    BY <1>5, <2>1 DEF DrawRoboSprite, Labels
<1>6. CASE HandleRoboJumpTime
  <2>1. robo_position' \in Addr
    BY <1>6 DEF HandleRoboJumpTime, Addr
  <2>2. robo_jump_time' \in Byte
    BY <1>6, ByteOps DEF HandleRoboJumpTime
  <2>. QED
    BY <1>6, <2>1, <2>2 DEF HandleRoboJumpTime, Labels
<1>7. CASE DrawRoboSpriteRedraw
  <2>1. robo_position' \in Addr
    BY <1>7 DEF DrawRoboSpriteRedraw, Addr
  <2>. QED
    BY <1>7, <2>1 DEF DrawRoboSpriteRedraw, Labels
<1>8. CASE DrawScore
  BY <1>8, ColOps DEF DrawScore, NextScorePosition, Labels
<1>9. CASE CalculateCollision
  BY <1>9 DEF CalculateCollision, Labels
<1>10. CASE GameOver
  BY <1>10 DEF GameOver, Labels
<1>11. CASE CleanStaleHurdles
  <2>1. robo_score' \in 0 .. (SCORE_BYTE - 1)
    BY <1>11, GameAssumption DEF CleanStaleHurdles, HurdlesLeft, GameAssumption
  <2>. QED
    BY <1>11, <2>1, ByteOps DEF CleanStaleHurdles, HurdlesLeft, Labels
<1>12. CASE CleanStaleHurdlesLoop
  <2>1. x \in Slots
    BY <1>12, GameAssumption
       DEF CleanStaleHurdlesLoop, ShiftedList, NextSlots, ListInBounds, Booted, Slots, GameAssumption
  <2>2. hurdle_position' \in [Slots -> Cols \cup {Empty}]
    BY <1>12, <2>1 DEF CleanStaleHurdlesLoop, ShiftedList, NextSlots
  <2>3. x' \in Nat /\ y' \in Nat
    BY <1>12 DEF CleanStaleHurdlesLoop, ShiftedList, NextSlots
  <2>. QED
    BY <1>12, <2>2, <2>3 DEF CleanStaleHurdlesLoop, ShiftedList, NextSlots, Labels
<1>13. CASE Wait
  BY <1>13 DEF Wait, Labels
<1>14. CASE GameOverFlicker
  BY <1>14 DEF GameOverFlicker, MessageStart, Labels, Addr, Cols
<1>15. CASE GameOverMessageDraw
  <2>1. NextCol(y) \in Nat
    BY DEF NextCol
  <2>. QED
    BY <1>15, <2>1 DEF GameOverMessageDraw, Labels
<1>16. CASE Press
  BY <1>16 DEF Press
<1>17. CASE Irq
  <2>1. robo_jump_time' \in Byte
    BY <1>17, ByteOps DEF Irq, SetRoboJumpTime
  <2>. QED
    BY <1>17, <2>1 DEF Irq
<1>18. CASE ExitIrq
  BY <1>18 DEF ExitIrq
<1>19. CASE Nmi
  <2>1. robo_jump_time' \in Byte
    BY <1>19, ByteOps DEF Nmi, SetRoboJumpTime
  <2>. QED
    BY <1>19, <2>1 DEF Nmi
<1>20. CASE ResetButton
  BY <1>20, ColOps DEF ResetButton, Labels
<1>21. CASE UNCHANGED vars
  BY <1>21 DEF vars
<1>. QED
  BY <1>1, <1>2, <1>3, <1>4, <1>5, <1>6, <1>7, <1>8, <1>9, <1>10, <1>11,
     <1>12, <1>13, <1>14, <1>15, <1>16, <1>17, <1>18, <1>19, <1>20, <1>21
     DEF Next, MainStep

\* Every step keeps the zero byte at the end of the list and the loop before it.
LEMMA BoundsStep == TypeOK /\ ListInBounds /\ [Next]_vars => ListInBounds'
<1> SUFFICES ASSUME TypeOK, ListInBounds, [Next]_vars PROVE ListInBounds'
  OBVIOUS
<1>0. hurdle_position \in [Slots -> Cols \cup {Empty}]
  BY DEF TypeOK
<1> USE DEF ListInBounds, Booted, At, course, scoring, regs, button, loop
<1>1. CASE Bootstrap
  BY <1>1 DEF Bootstrap
<1>2. CASE DrawInitScreen
  BY <1>2, SlotOps DEF DrawInitScreen, ZeroBytes
<1>3. CASE DrawInitCourse
  BY <1>3 DEF DrawInitCourse
<1>4. CASE DrawHurdle
  BY <1>4, <1>0, SlotOps DEF DrawHurdle, SpawnHurdle, AddHurdle, SpawnGround, HurdleDue
<1>5. CASE DrawRoboSprite
  BY <1>5 DEF DrawRoboSprite
<1>6. CASE HandleRoboJumpTime
  BY <1>6 DEF HandleRoboJumpTime
<1>7. CASE DrawRoboSpriteRedraw
  BY <1>7 DEF DrawRoboSpriteRedraw
<1>8. CASE DrawScore
  BY <1>8 DEF DrawScore, NextScorePosition
<1>9. CASE CalculateCollision
  BY <1>9 DEF CalculateCollision
<1>10. CASE GameOver
  BY <1>10 DEF GameOver
<1>11. CASE CleanStaleHurdles
  BY <1>11, SlotOps DEF CleanStaleHurdles, HurdlesLeft
<1>12. CASE CleanStaleHurdlesLoop
  <2>1. /\ x = y + 1 /\ y \in Nat
          /\ x + 1 \in Slots /\ x + 1 <= HURDLE_POSITION_BYTES - 1
          /\ HURDLE_POSITION_BYTES \in Nat
    BY <1>12, GameAssumption DEF CleanStaleHurdlesLoop, ShiftedList, NextSlots, GameAssumption, Slots, TypeOK
  <2>2. hurdle_position'[HURDLE_POSITION_BYTES - 1] = Empty
    BY <1>12, <2>1, <1>0, SlotOps DEF CleanStaleHurdlesLoop, ShiftedList, NextSlots
  <2>3. hurdle_position[x + 1] # Empty => x + 2 < HURDLE_POSITION_BYTES
    BY <1>12, <2>1 DEF CleanStaleHurdlesLoop, ShiftedList, NextSlots
  <2>. QED
    BY <1>12, <2>1, <2>2, <2>3 DEF CleanStaleHurdlesLoop, ShiftedList, NextSlots
<1>13. CASE Wait
  BY <1>13 DEF Wait
<1>14. CASE GameOverFlicker
  BY <1>14 DEF GameOverFlicker, MessageStart
<1>15. CASE GameOverMessageDraw
  BY <1>15 DEF GameOverMessageDraw
<1>16. CASE Press
  BY <1>16 DEF Press
<1>17. CASE Irq
  BY <1>17 DEF Irq, SetRoboJumpTime
<1>18. CASE ExitIrq
  BY <1>18 DEF ExitIrq
<1>19. CASE Nmi
  BY <1>19 DEF Nmi, SetRoboJumpTime
<1>20. CASE ResetButton
  BY <1>20 DEF ResetButton
<1>21. CASE UNCHANGED vars
  BY <1>21 DEF vars
<1>. QED
  BY <1>1, <1>2, <1>3, <1>4, <1>5, <1>6, <1>7, <1>8, <1>9, <1>10, <1>11,
     <1>12, <1>13, <1>14, <1>15, <1>16, <1>17, <1>18, <1>19, <1>20, <1>21
     DEF Next, MainStep

(* Every variable keeps its type.                                          *)
THEOREM TypeCorrect == Spec => []TypeOK
  BY TypeInit, TypeStep, BoundsStep, PTL DEF Spec

(* The list keeps its terminating zero byte and its loop stays inside it,  *)
(* for a list of any length and whatever a reset interrupts.               *)
THEOREM ListBounded == Spec => []ListInBounds
  BY TypeInit, TypeStep, BoundsStep, PTL DEF Spec

-----------------------------------------------------------------------------
(* The byte the draw loop shares with the interrupt handler.               *)

\* Every step of loop, handler and reset keeps the jump time in range.
LEMMA JumpTimeStep ==
  TypeOK /\ JumpTimeInRange /\ [Next]_vars => JumpTimeInRange'
<1> SUFFICES ASSUME TypeOK, JumpTimeInRange, [Next]_vars PROVE JumpTimeInRange'
  OBVIOUS
<1>0. /\ robo_jump_time \in Nat
      /\ ROBO_JUMP_UP_TIME \in Nat /\ ROBO_JUMP_UP_TIME > 0
  BY GameAssumption DEF GameAssumption, TypeOK, Byte
<1> USE DEF JumpTimeInRange, Booted, At, course, scoring, regs, button, loop
<1>1. CASE Bootstrap
  BY <1>1 DEF Bootstrap
<1>2. CASE DrawInitScreen
  BY <1>2, <1>0 DEF DrawInitScreen, ZeroBytes
<1>3. CASE DrawInitCourse
  BY <1>3 DEF DrawInitCourse
<1>4. CASE DrawHurdle
  BY <1>4 DEF DrawHurdle
<1>5. CASE DrawRoboSprite
  BY <1>5, <1>0 DEF DrawRoboSprite
<1>6. CASE HandleRoboJumpTime
  BY <1>6, <1>0 DEF HandleRoboJumpTime, DecByte
<1>7. CASE DrawRoboSpriteRedraw
  BY <1>7 DEF DrawRoboSpriteRedraw
<1>8. CASE DrawScore
  BY <1>8 DEF DrawScore, NextScorePosition
<1>9. CASE CalculateCollision
  BY <1>9 DEF CalculateCollision
<1>10. CASE GameOver
  BY <1>10 DEF GameOver
<1>11. CASE CleanStaleHurdles
  BY <1>11 DEF CleanStaleHurdles, HurdlesLeft
<1>12. CASE CleanStaleHurdlesLoop
  BY <1>12 DEF CleanStaleHurdlesLoop, ShiftedList, NextSlots
<1>13. CASE Wait
  BY <1>13 DEF Wait
<1>14. CASE GameOverFlicker
  BY <1>14 DEF GameOverFlicker, MessageStart
<1>15. CASE GameOverMessageDraw
  BY <1>15 DEF GameOverMessageDraw
<1>16. CASE Press
  BY <1>16 DEF Press
<1>17. CASE Irq
  BY <1>17, <1>0 DEF Irq, SetRoboJumpTime
<1>18. CASE ExitIrq
  BY <1>18 DEF ExitIrq
<1>19. CASE Nmi
  BY <1>19, <1>0 DEF Nmi, SetRoboJumpTime
<1>20. CASE ResetButton
  BY <1>20 DEF ResetButton
<1>21. CASE UNCHANGED vars
  BY <1>21 DEF vars
<1>. QED
  BY <1>1, <1>2, <1>3, <1>4, <1>5, <1>6, <1>7, <1>8, <1>9, <1>10, <1>11,
     <1>12, <1>13, <1>14, <1>15, <1>16, <1>17, <1>18, <1>19, <1>20, <1>21
     DEF Next, MainStep

(* No interleaving of the handler with the draw loop and no reset takes    *)
(* robo_jump_time out of its range or decrements it at zero.               *)
THEOREM JumpTimeSound == Spec => []JumpTimeInRange
<1>1. Init => JumpTimeInRange
  BY DEF Init, JumpTimeInRange, Booted
<1>. QED
  BY <1>1, TypeInit, TypeStep, BoundsStep, JumpTimeStep, PTL DEF Spec

-----------------------------------------------------------------------------
(* draw_init_screen.                                                       *)

\* Only draw_init_screen and its loop lead to draw_init_course.
LEMMA SameGameStep ==
  TypeOK /\ SameGameEveryTime /\ [Next]_vars => SameGameEveryTime'
<1> SUFFICES ASSUME TypeOK, SameGameEveryTime, [Next]_vars
             PROVE  SameGameEveryTime'
  OBVIOUS
<1> USE DEF SameGameEveryTime, At, course, scoring, regs, button, loop
<1>1. CASE Bootstrap
  BY <1>1 DEF Bootstrap
<1>2. CASE DrawInitScreen
  BY <1>2 DEF DrawInitScreen, ZeroBytes
<1>3. CASE DrawInitCourse
  BY <1>3 DEF DrawInitCourse
<1>4. CASE DrawHurdle
  BY <1>4 DEF DrawHurdle
<1>5. CASE DrawRoboSprite
  BY <1>5 DEF DrawRoboSprite
<1>6. CASE HandleRoboJumpTime
  BY <1>6 DEF HandleRoboJumpTime
<1>7. CASE DrawRoboSpriteRedraw
  BY <1>7 DEF DrawRoboSpriteRedraw
<1>8. CASE DrawScore
  BY <1>8 DEF DrawScore, NextScorePosition
<1>9. CASE CalculateCollision
  BY <1>9 DEF CalculateCollision
<1>10. CASE GameOver
  BY <1>10 DEF GameOver
<1>11. CASE CleanStaleHurdles
  BY <1>11 DEF CleanStaleHurdles, HurdlesLeft
<1>12. CASE CleanStaleHurdlesLoop
  BY <1>12 DEF CleanStaleHurdlesLoop, ShiftedList, NextSlots
<1>13. CASE Wait
  BY <1>13 DEF Wait
<1>14. CASE GameOverFlicker
  BY <1>14 DEF GameOverFlicker, MessageStart
<1>15. CASE GameOverMessageDraw
  BY <1>15 DEF GameOverMessageDraw
<1>16. CASE Press
  BY <1>16 DEF Press
<1>17. CASE Irq
  BY <1>17 DEF Irq, SetRoboJumpTime
<1>18. CASE ExitIrq
  BY <1>18 DEF ExitIrq
<1>19. CASE Nmi
  BY <1>19 DEF Nmi, SetRoboJumpTime
<1>20. CASE ResetButton
  BY <1>20 DEF ResetButton
<1>21. CASE UNCHANGED vars
  BY <1>21 DEF vars
<1>. QED
  BY <1>1, <1>2, <1>3, <1>4, <1>5, <1>6, <1>7, <1>8, <1>9, <1>10, <1>11,
     <1>12, <1>13, <1>14, <1>15, <1>16, <1>17, <1>18, <1>19, <1>20, <1>21
     DEF Next, MainStep

(* Whatever RAM held, at power-on or at a reset, every game begins alike.  *)
THEOREM EveryGameBeginsAlike == Spec => []SameGameEveryTime
<1>1. Init => SameGameEveryTime
  BY DEF Init, SameGameEveryTime
<1>. QED
  BY <1>1, TypeInit, TypeStep, BoundsStep, SameGameStep, PTL DEF Spec

-----------------------------------------------------------------------------
(* The score follows the robot.  Inside a frame the robot is one column    *)
(* ahead of the score, until draw_score.                                   *)

Fourteen(c) == IF c + 14 < COLS THEN c + 14 ELSE c + 14 - COLS

ScoreFollows ==
  /\ ScoreInStep
  /\ main = "clean_stale_hurdles_loop" =>
       robo_score_display_position = Fourteen(robo_position.col)
  /\ main \in {"handle_robo_jump_time", "draw_robo_sprite_redraw", "draw_score"} =>
       NextCol(robo_score_display_position) = Fourteen(robo_position.col)

\* Moving right and being fourteen columns to the right commute, also at the wrap.
LEMMA FourteenNext == \A c \in Cols : NextCol(Fourteen(c)) = Fourteen(NextCol(c))
  BY GameAssumption DEF GameAssumption, Cols, NextCol, Fourteen

\* Every step keeps the score with the robot.
LEMMA ScoreStep ==
  TypeOK /\ SameGameEveryTime /\ ScoreFollows /\ [Next]_vars => ScoreFollows'
<1> SUFFICES ASSUME TypeOK, SameGameEveryTime, ScoreFollows, [Next]_vars
             PROVE  ScoreFollows'
  OBVIOUS
<1>0. robo_position \in Addr
  BY DEF TypeOK
<1> USE DEF ScoreFollows, ScoreInStep, At, course, scoring, regs, button, loop
<1>1. CASE Bootstrap
  BY <1>1 DEF Bootstrap
<1>2. CASE DrawInitScreen
  BY <1>2 DEF DrawInitScreen, ZeroBytes
<1>3. CASE DrawInitCourse
  <2>1. Fourteen(1) = 15
    BY GameAssumption DEF GameAssumption, Fourteen
  <2>. QED
    BY <1>3, <2>1 DEF DrawInitCourse, SameGameEveryTime, Fourteen
<1>4. CASE DrawHurdle
  BY <1>4 DEF DrawHurdle, Fourteen
<1>5. CASE DrawRoboSprite
  <2>1. robo_score_display_position = Fourteen(robo_position.col)
    BY <1>5 DEF DrawRoboSprite, Fourteen
  <2>2. NextCol(robo_score_display_position) = Fourteen(NextCol(robo_position.col))
    BY <1>0, <2>1, FourteenNext DEF Addr
  <2>. QED
    BY <1>5, <2>2 DEF DrawRoboSprite
<1>6. CASE HandleRoboJumpTime
  BY <1>6, <1>0 DEF HandleRoboJumpTime, Addr
<1>7. CASE DrawRoboSpriteRedraw
  BY <1>7, <1>0 DEF DrawRoboSpriteRedraw, Addr
<1>8. CASE DrawScore
  BY <1>8, <1>0 DEF DrawScore, NextScorePosition, Fourteen
<1>9. CASE CalculateCollision
  BY <1>9 DEF CalculateCollision, Fourteen
<1>10. CASE GameOver
  BY <1>10 DEF GameOver
<1>11. CASE CleanStaleHurdles
  BY <1>11 DEF CleanStaleHurdles, HurdlesLeft, Fourteen
<1>12. CASE CleanStaleHurdlesLoop
  BY <1>12 DEF CleanStaleHurdlesLoop, ShiftedList, NextSlots, Fourteen
<1>13. CASE Wait
  BY <1>13 DEF Wait, Fourteen
<1>14. CASE GameOverFlicker
  BY <1>14 DEF GameOverFlicker, MessageStart
<1>15. CASE GameOverMessageDraw
  BY <1>15 DEF GameOverMessageDraw
<1>16. CASE Press
  BY <1>16 DEF Press
<1>17. CASE Irq
  BY <1>17 DEF Irq
<1>18. CASE ExitIrq
  BY <1>18 DEF ExitIrq
<1>19. CASE Nmi
  BY <1>19 DEF Nmi
<1>20. CASE ResetButton
  BY <1>20 DEF ResetButton
<1>21. CASE UNCHANGED vars
  BY <1>21 DEF vars
<1>. QED
  BY <1>1, <1>2, <1>3, <1>4, <1>5, <1>6, <1>7, <1>8, <1>9, <1>10, <1>11,
     <1>12, <1>13, <1>14, <1>15, <1>16, <1>17, <1>18, <1>19, <1>20, <1>21
     DEF Next, MainStep

(* The score stays fourteen columns to the right of the robot for ever, on *)
(* a display of any width.                                                 *)
THEOREM ScoreStaysInStep == Spec => []ScoreInStep
<1>1. Init => ScoreFollows /\ SameGameEveryTime
  BY DEF Init, ScoreFollows, ScoreInStep, SameGameEveryTime
<1>2. ScoreFollows => ScoreInStep
  BY DEF ScoreFollows
<1>. QED
  BY <1>1, <1>2, TypeInit, TypeStep, BoundsStep, SameGameStep, ScoreStep, PTL
     DEF Spec

-----------------------------------------------------------------------------
(* The list of hurdles.  While it is shifted its first hurdle_count slots  *)
(* stay taken, and so does the slot about to be moved if any hurdle is left*)
(* to move.                                                                *)

ListFilled ==
  /\ HurdleListSound
  /\ main = "clean_stale_hurdles_loop" =>
       /\ hurdle_count < HURDLE_POSITION_BYTES - 1
       /\ hurdle_count > 0 => hurdle_position[x] # Empty
       /\ \A i \in 0 .. (hurdle_count - 1) : hurdle_position[i] # Empty

\* Every step keeps the first hurdle_count slots of the list taken.
LEMMA FilledStep ==
  TypeOK /\ ListInBounds /\ NoPhantomHurdle /\ ListFilled /\ [Next]_vars
    => ListFilled'
<1> SUFFICES ASSUME TypeOK, ListInBounds, NoPhantomHurdle, ListFilled, [Next]_vars
             PROVE  ListFilled'
  OBVIOUS
<1>0. /\ hurdle_position \in [Slots -> Cols \cup {Empty}]
      /\ hurdle_count \in Nat /\ hurdle_count < BYTE /\ BYTE \in Nat
      /\ HURDLE_POSITION_BYTES \in Nat /\ HURDLE_POSITION_BYTES > 2
      /\ HURDLE_POSITION_BYTES < BYTE
  BY GameAssumption DEF GameAssumption, TypeOK, Byte
<1> USE DEF ListFilled, HurdleListSound, Booted, At, course, scoring, regs, button,
            loop
<1>1. CASE Bootstrap
  BY <1>1 DEF Bootstrap
<1>2. CASE DrawInitScreen
  BY <1>2, <1>0 DEF DrawInitScreen, ZeroBytes
<1>3. CASE DrawInitCourse
  BY <1>3 DEF DrawInitCourse
<1>4. CASE DrawHurdle
  <2>1. CASE SpawnHurdle
    <3>1. /\ hurdle_count < HURDLE_POSITION_BYTES - 1
            /\ hurdle_count' = hurdle_count + 1
      BY <1>4, <2>1, <1>0 DEF DrawHurdle, SpawnHurdle, AddHurdle, HurdleDue, IncByte
    <3>2. NextSpawn(hurdle_spawn_position) # Empty
      BY ColOps DEF TypeOK
    <3>3. ASSUME NEW i \in 0 .. (hurdle_count' - 1)
            PROVE  hurdle_position'[i] # Empty
      BY <1>4, <2>1, <3>1, <3>2, <1>0 DEF DrawHurdle, SpawnHurdle, AddHurdle, Slots
    <3>. QED
      BY <1>4, <3>1, <3>3, <1>0 DEF DrawHurdle
  <2>2. CASE SpawnGround
    BY <1>4, <2>2, <1>0 DEF DrawHurdle, SpawnGround
  <2>. QED
    BY <1>4, <2>1, <2>2 DEF DrawHurdle
<1>5. CASE DrawRoboSprite
  BY <1>5 DEF DrawRoboSprite
<1>6. CASE HandleRoboJumpTime
  BY <1>6 DEF HandleRoboJumpTime
<1>7. CASE DrawRoboSpriteRedraw
  BY <1>7 DEF DrawRoboSpriteRedraw
<1>8. CASE DrawScore
  BY <1>8 DEF DrawScore, NextScorePosition
<1>9. CASE CalculateCollision
  BY <1>9 DEF CalculateCollision
<1>10. CASE GameOver
  BY <1>10 DEF GameOver
<1>11. CASE CleanStaleHurdles
  <2>1. hurdle_count > 0 /\ hurdle_count' = hurdle_count - 1
    BY <1>11, <1>0 DEF CleanStaleHurdles, HurdlesLeft, NoPhantomHurdle, DecByte
  <2>. QED
    BY <1>11, <2>1, <1>0 DEF CleanStaleHurdles, HurdlesLeft
<1>12. CASE CleanStaleHurdlesLoop
  <2>1. x = y + 1 /\ y \in Slots /\ x \in Slots
    BY <1>12, <1>0 DEF CleanStaleHurdlesLoop, ShiftedList, NextSlots, ListInBounds, TypeOK, Slots
  <2>2. ASSUME NEW i \in 0 .. (hurdle_count - 1)
          PROVE  hurdle_position'[i] # Empty
    BY <1>12, <2>1, <1>0 DEF CleanStaleHurdlesLoop, ShiftedList, NextSlots, Slots
  <2>3. hurdle_position[x + 1] # Empty => hurdle_position'[x + 1] # Empty
    BY <1>12, <2>1, <1>0 DEF CleanStaleHurdlesLoop, ShiftedList, NextSlots, Slots
  <2>. QED
    BY <1>12, <2>2, <2>3, <1>0 DEF CleanStaleHurdlesLoop, ShiftedList, NextSlots
<1>13. CASE Wait
  BY <1>13 DEF Wait
<1>14. CASE GameOverFlicker
  BY <1>14 DEF GameOverFlicker, MessageStart
<1>15. CASE GameOverMessageDraw
  BY <1>15 DEF GameOverMessageDraw
<1>16. CASE Press
  BY <1>16 DEF Press
<1>17. CASE Irq
  BY <1>17 DEF Irq
<1>18. CASE ExitIrq
  BY <1>18 DEF ExitIrq
<1>19. CASE Nmi
  BY <1>19 DEF Nmi
<1>20. CASE ResetButton
  BY <1>20 DEF ResetButton
<1>21. CASE UNCHANGED vars
  BY <1>21 DEF vars
<1>. QED
  BY <1>1, <1>2, <1>3, <1>4, <1>5, <1>6, <1>7, <1>8, <1>9, <1>10, <1>11,
     <1>12, <1>13, <1>14, <1>15, <1>16, <1>17, <1>18, <1>19, <1>20, <1>21
     DEF Next, MainStep

(* As long as the robot meets no hurdle that is not there, hurdle_count is *)
(* the number of hurdles at the front of the list: the hypothesis is the   *)
(* one fact about the list that depends on the timing of a game.           *)
THEOREM ListSound == Spec /\ []NoPhantomHurdle => []HurdleListSound
<1>1. Init => ListFilled
  BY DEF Init, ListFilled, HurdleListSound, Booted
<1>2. ListFilled => HurdleListSound
  BY DEF ListFilled
<1>. QED
  BY <1>1, <1>2, TypeInit, TypeStep, BoundsStep, FilledStep, PTL DEF Spec

-----------------------------------------------------------------------------
(* Where hurdles come from.                                                *)

\* What one step adds to the list.
LEMMA AppearStep ==
  TypeOK /\ ListInBounds /\ [Next]_vars
    => (Playing /\ main' # "reset" =>
          Listed' \subseteq Listed \cup {NextSpawn(hurdle_spawn_position)})
<1> SUFFICES ASSUME TypeOK, ListInBounds, [Next]_vars, Playing, main' # "reset"
             PROVE  Listed' \subseteq Listed \cup {NextSpawn(hurdle_spawn_position)}
  OBVIOUS
<1>0. hurdle_position \in [Slots -> Cols \cup {Empty}]
  BY DEF TypeOK
<1>a. hurdle_position' = hurdle_position =>
        Listed' \subseteq Listed \cup {NextSpawn(hurdle_spawn_position)}
  BY DEF Listed
<1> USE DEF Playing, Booted, At, course, scoring, regs, button, loop
<1>1. CASE Bootstrap
  BY <1>1, <1>a DEF Bootstrap
<1>2. CASE DrawInitScreen
  BY <1>2, <1>a DEF DrawInitScreen, ZeroBytes
<1>3. CASE DrawInitCourse
  BY <1>3, <1>a DEF DrawInitCourse
<1>4. CASE DrawHurdle
  BY <1>4, <1>0, <1>a DEF DrawHurdle, SpawnHurdle, AddHurdle, SpawnGround, Listed
<1>5. CASE DrawRoboSprite
  BY <1>5, <1>a DEF DrawRoboSprite
<1>6. CASE HandleRoboJumpTime
  BY <1>6, <1>a DEF HandleRoboJumpTime
<1>7. CASE DrawRoboSpriteRedraw
  BY <1>7, <1>a DEF DrawRoboSpriteRedraw
<1>8. CASE DrawScore
  BY <1>8, <1>a DEF DrawScore, NextScorePosition
<1>9. CASE CalculateCollision
  BY <1>9, <1>a DEF CalculateCollision
<1>10. CASE GameOver
  BY <1>10, <1>a DEF GameOver
<1>11. CASE CleanStaleHurdles
  BY <1>11, <1>a DEF CleanStaleHurdles, HurdlesLeft
<1>12. CASE CleanStaleHurdlesLoop
  <2>1. x \in Slots
    BY <1>12, GameAssumption
       DEF CleanStaleHurdlesLoop, ShiftedList, NextSlots, ListInBounds, TypeOK, Slots, GameAssumption
  <2>. QED
    BY <1>12, <2>1, <1>0 DEF CleanStaleHurdlesLoop, ShiftedList, NextSlots, Listed
<1>13. CASE Wait
  BY <1>13, <1>a DEF Wait
<1>14. CASE GameOverFlicker
  BY <1>14, <1>a DEF GameOverFlicker, MessageStart
<1>15. CASE GameOverMessageDraw
  BY <1>15, <1>a DEF GameOverMessageDraw
<1>16. CASE Press
  BY <1>16, <1>a DEF Press
<1>17. CASE Irq
  BY <1>17, <1>a DEF Irq
<1>18. CASE ExitIrq
  BY <1>18, <1>a DEF ExitIrq
<1>19. CASE Nmi
  BY <1>19, <1>a DEF Nmi
<1>20. CASE ResetButton
  BY <1>20, <1>a DEF ResetButton
<1>21. CASE UNCHANGED vars
  BY <1>21, <1>a DEF vars
<1>. QED
  BY <1>1, <1>2, <1>3, <1>4, <1>5, <1>6, <1>7, <1>8, <1>9, <1>10, <1>11,
     <1>12, <1>13, <1>14, <1>15, <1>16, <1>17, <1>18, <1>19, <1>20, <1>21
     DEF Next, MainStep

(* No step of a game moves a hurdle: a column enters the list only as the  *)
(* place where draw_hurdle has just drawn one.                             *)
THEOREM HurdlesStay == Spec => HurdlesAppearAtSpawn
  BY TypeInit, TypeStep, BoundsStep, AppearStep, PTL DEF Spec, HurdlesAppearAtSpawn

-----------------------------------------------------------------------------
(* The rules.  robo-runner implements them for every display, list and     *)
(* jump, and every pattern of presses, NMIs and resets.                    *)

\* A counter that goes back to zero at n counts modulo n.
LEMMA StepModulo ==
  ASSUME NEW n \in Nat \ {0}, NEW i \in 0 .. (n - 1)
  PROVE  (i + 1) % n = IF i + 1 = n THEN 0 ELSE i + 1
<1>1. CASE i + 1 = n
  BY <1>1
<1>2. CASE i + 1 # n
  BY <1>2
<1>. QED
  BY <1>1, <1>2

(* What links the state to the rules, beyond the invariants above.         *)

\* The slots that the queue is read from hold hurdles, also in mid-shift.
QueueFilled ==
  Booted => \A i \in 0 .. (hurdle_count - 1) : hurdle_position[LiveSlot(i)] # Empty

\* The first screen ends with the robot drawn on the ground, whatever was drawn before.
DrawnOnGround ==
  main = "draw_init_course" =>
    /\ a = IF init_draw_cursor = 0 THEN 0 ELSE init_draw_cursor - 1
    /\ init_draw_cursor > 2 => robo_drawn.row = 2

\* What the branches of the loop have found out about the robot's column.
ColumnKnown ==
  /\ main = "handle_robo_jump_time" => x \in Cols /\ robo_position.col = NextCol(x)
  /\ main = "jump_check" => robo_position.col = hurdle_position[0]

Known == QueueFilled /\ DrawnOnGround /\ ColumnKnown

\* The invariants of RoboGameProofs, and the hypothesis.
GameInv ==
  /\ TypeOK /\ ListInBounds /\ JumpTimeInRange /\ SameGameEveryTime
  /\ ListFilled /\ NoPhantomHurdle

\* Every step keeps what links the state to the rules.
LEMMA KnownStep == GameInv /\ Known /\ [Next]_vars => Known'
<1> SUFFICES ASSUME GameInv, Known, [Next]_vars PROVE Known'
  OBVIOUS
<1>0. /\ hurdle_position \in [Slots -> Cols \cup {Empty}]
      /\ hurdle_count \in Nat /\ hurdle_count < BYTE /\ BYTE \in Nat
      /\ HURDLE_POSITION_BYTES \in Nat /\ HURDLE_POSITION_BYTES > 2
      /\ init_draw_cursor \in Cols /\ robo_position \in Addr /\ robo_drawn \in Addr
  BY GameAssumption DEF GameAssumption, GameInv, TypeOK, Byte
<1> USE DEF Known, QueueFilled, DrawnOnGround, ColumnKnown, LiveSlot, Booted, At,
            course, scoring, regs, button, loop
<1>1. CASE Bootstrap
  BY <1>1 DEF Bootstrap
<1>2. CASE DrawInitScreen
  BY <1>2, <1>0 DEF DrawInitScreen, ZeroBytes
<1>3. CASE DrawInitCourse
  <2>1. QueueFilled' /\ ColumnKnown'
    BY <1>3, <1>0 DEF DrawInitCourse
  <2>2. DrawnOnGround'
    BY <1>3, <1>0, GameAssumption
       DEF DrawInitCourse, GameInv, SameGameEveryTime, GameAssumption, Cols, NextCol, Addr
  <2>. QED
    BY <2>1, <2>2
<1>4. CASE DrawHurdle
  <2>1. CASE SpawnHurdle
    <3>1. /\ hurdle_count < HURDLE_POSITION_BYTES - 1
          /\ hurdle_count' = hurdle_count + 1
      BY <1>4, <2>1, <1>0, GameAssumption
         DEF DrawHurdle, SpawnHurdle, AddHurdle, HurdleDue, IncByte, GameInv,
             ListFilled, HurdleListSound, GameAssumption
    <3>2. NextSpawn(hurdle_spawn_position) # Empty
      BY ColOps DEF GameInv, TypeOK
    <3>3. ASSUME NEW i \in 0 .. (hurdle_count' - 1)
          PROVE  hurdle_position'[i] # Empty
      BY <1>4, <2>1, <3>1, <3>2, <1>0 DEF DrawHurdle, SpawnHurdle, AddHurdle, Slots
    <3>. QED
      BY <1>4, <3>1, <3>3, <1>0 DEF DrawHurdle
  <2>2. CASE SpawnGround
    BY <1>4, <2>2, <1>0 DEF DrawHurdle, SpawnGround
  <2>. QED
    BY <1>4, <2>1, <2>2 DEF DrawHurdle
<1>5. CASE DrawRoboSprite
  BY <1>5, <1>0 DEF DrawRoboSprite, Addr
<1>6. CASE HandleRoboJumpTime
  BY <1>6, <1>0 DEF HandleRoboJumpTime
<1>7. CASE DrawRoboSpriteRedraw
  BY <1>7, <1>0 DEF DrawRoboSpriteRedraw
<1>8. CASE DrawScore
  BY <1>8, <1>0 DEF DrawScore, NextScorePosition
<1>9. CASE CalculateCollision
  BY <1>9, <1>0 DEF CalculateCollision
<1>10. CASE GameOver
  BY <1>10, <1>0 DEF GameOver
<1>11. CASE CleanStaleHurdles
  <2>1. hurdle_count > 0 /\ hurdle_count' = hurdle_count - 1
    BY <1>11, <1>0 DEF CleanStaleHurdles, HurdlesLeft, GameInv, NoPhantomHurdle, DecByte
  <2>. QED
    BY <1>11, <2>1, <1>0 DEF CleanStaleHurdles
<1>12. CASE CleanStaleHurdlesLoop
  <2>1. /\ x = y + 1 /\ y \in Slots /\ x \in Slots /\ x + 1 \in Slots
        /\ hurdle_count < HURDLE_POSITION_BYTES - 1
    BY <1>12, <1>0 DEF CleanStaleHurdlesLoop, GameInv, ListInBounds, ListFilled, TypeOK, Slots
  <2>2. ASSUME NEW i \in 0 .. (hurdle_count - 1)
        PROVE  /\ i <= y => hurdle_position'[i] # Empty
               /\ i > y => hurdle_position'[i + 1] # Empty
    BY <1>12, <2>1, <1>0 DEF CleanStaleHurdlesLoop, ShiftedList, Slots
  <2>3. hurdle_position[x + 1] = Empty => hurdle_count <= y + 1
    BY <1>12, <2>1, <1>0 DEF CleanStaleHurdlesLoop, Slots
  <2>. QED
    BY <1>12, <2>1, <2>2, <2>3, <1>0 DEF CleanStaleHurdlesLoop, NextSlots
<1>13. CASE Wait
  BY <1>13, <1>0 DEF Wait
<1>14. CASE GameOverFlicker
  BY <1>14, <1>0 DEF GameOverFlicker, MessageStart
<1>15. CASE GameOverMessageDraw
  BY <1>15, <1>0 DEF GameOverMessageDraw
<1>16. CASE Press
  BY <1>16 DEF Press
<1>17. CASE Irq
  BY <1>17 DEF Irq
<1>18. CASE ExitIrq
  BY <1>18 DEF ExitIrq
<1>19. CASE Nmi
  BY <1>19 DEF Nmi
<1>20. CASE ResetButton
  BY <1>20 DEF ResetButton
<1>21. CASE UNCHANGED vars
  BY <1>21 DEF vars
<1>. QED
  BY <1>1, <1>2, <1>3, <1>4, <1>5, <1>6, <1>7, <1>8, <1>9, <1>10, <1>11,
     <1>12, <1>13, <1>14, <1>15, <1>16, <1>17, <1>18, <1>19, <1>20, <1>21
     DEF Next, MainStep
-----------------------------------------------------------------------------
(* The queue under the operations of the list.                             *)

Filled == Cols \cup {Empty}

\* The queue is a sequence of hurdle_count columns.
LEMMA QueueIsSequence ==
  GameInv /\ Booted => Queue \in Seq(Filled) /\ Len(Queue) = hurdle_count
<1> SUFFICES ASSUME GameInv, Booted
             PROVE  Queue \in Seq(Filled) /\ Len(Queue) = hurdle_count
  OBVIOUS
<1>1. /\ hurdle_position \in [Slots -> Filled] /\ hurdle_count \in Nat
      /\ hurdle_count <= HURDLE_POSITION_BYTES - 1 /\ HURDLE_POSITION_BYTES \in Nat
      /\ main = "clean_stale_hurdles_loop" => hurdle_count < HURDLE_POSITION_BYTES - 1
  BY GameAssumption
     DEF GameAssumption, GameInv, TypeOK, Byte, Filled, ListFilled, HurdleListSound
<1>2. \A i \in 1 .. hurdle_count : LiveSlot(i - 1) \in Slots
  BY <1>1 DEF GameInv, TypeOK, LiveSlot, Slots
<1>3. Queue \in [1 .. hurdle_count -> Filled]
  BY <1>1, <1>2 DEF Queue
<1>. QED
  BY <1>1, <1>3

\* A step that leaves list and loop alone leaves the queue alone.
LEMMA QueueUnmoved ==
  ASSUME GameInv, Booted, Booted',
         main # "clean_stale_hurdles_loop", main' # "clean_stale_hurdles_loop",
         UNCHANGED << hurdle_count, hurdle_position >>
  PROVE  UNCHANGED Queue
  BY DEF Queue, LiveSlot

\* draw_hurdle lays its hurdle at the end of the queue.
LEMMA QueueGrows ==
  ASSUME GameInv, GameInv', Booted, Booted', main = "draw_hurdle",
         main' = "draw_robo_sprite", HurdleDue, AddHurdle(NextSpawn(hurdle_spawn_position))
  PROVE  Queue' = Append(Queue, NextSpawn(hurdle_spawn_position))
<1> DEFINE c == NextSpawn(hurdle_spawn_position)
<1>1. /\ hurdle_position \in [Slots -> Filled]
      /\ hurdle_count \in Nat /\ hurdle_count < HURDLE_POSITION_BYTES - 1
      /\ hurdle_count' = hurdle_count + 1 /\ HURDLE_POSITION_BYTES \in Nat
      /\ c \in Filled
  BY GameAssumption, ColOps
     DEF GameAssumption, GameInv, TypeOK, Byte, Filled, ListFilled, HurdleListSound,
         HurdleDue, AddHurdle, IncByte
<1>2. Queue \in Seq(Filled) /\ Len(Queue) = hurdle_count
  BY QueueIsSequence
<1>a. (GameInv /\ Booted => Queue \in Seq(Filled) /\ Len(Queue) = hurdle_count)'
  BY QueueIsSequence, PTL
<1>3. Queue' \in Seq(Filled) /\ Len(Queue') = hurdle_count + 1
  BY <1>a, <1>1
<1>4. \A i \in 1 .. hurdle_count : Queue'[i] = Queue[i]
  BY <1>1 DEF Queue, LiveSlot, AddHurdle, Slots
<1>5. Queue'[hurdle_count + 1] = c
  BY <1>1 DEF Queue, LiveSlot, AddHurdle, Slots
<1>6. /\ Append(Queue, c) \in Seq(Filled) /\ Len(Append(Queue, c)) = hurdle_count + 1
      /\ \A i \in 1 .. hurdle_count : Append(Queue, c)[i] = Queue[i]
      /\ Append(Queue, c)[hurdle_count + 1] = c
  BY <1>1, <1>2, AppendProperties
<1>7. \A i \in 1 .. hurdle_count + 1 : Queue'[i] = Append(Queue, c)[i]
  BY <1>1, <1>4, <1>5, <1>6
<1>. QED
  BY <1>1, <1>3, <1>6, <1>7, SeqEqual

\* clean_stale_hurdles takes the head from the queue before a byte has moved.
LEMMA QueueShrinks ==
  ASSUME GameInv, GameInv', Booted, Booted', main = "jump_check",
         main' = "clean_stale_hurdles_loop", y' = 0,
         hurdle_count' = HurdlesLeft, hurdle_position' = hurdle_position
  PROVE  Queue # << >> /\ Queue' = Tail(Queue)
<1>1. /\ hurdle_count \in Nat /\ hurdle_count > 0 /\ hurdle_count' = hurdle_count - 1
  BY GameAssumption
     DEF GameAssumption, GameInv, TypeOK, Byte, NoPhantomHurdle, HurdlesLeft, DecByte
<1>2. Queue \in Seq(Filled) /\ Len(Queue) = hurdle_count
  BY QueueIsSequence
<1>3. Queue # << >>
  BY <1>1, <1>2, EmptySeq
<1>a. (GameInv /\ Booted => Queue \in Seq(Filled) /\ Len(Queue) = hurdle_count)'
  BY QueueIsSequence, PTL
<1>4. Queue' \in Seq(Filled) /\ Len(Queue') = hurdle_count - 1
  BY <1>a, <1>1
<1>5. /\ Tail(Queue) \in Seq(Filled) /\ Len(Tail(Queue)) = hurdle_count - 1
      /\ \A i \in 1 .. (hurdle_count - 1) : Tail(Queue)[i] = Queue[i + 1]
  BY <1>1, <1>2, <1>3, HeadTailProperties
<1>6. \A i \in 1 .. (hurdle_count - 1) : Queue'[i] = Queue[i + 1]
  BY <1>1 DEF Queue, LiveSlot
<1>. QED
  BY <1>1, <1>3, <1>4, <1>5, <1>6, SeqEqual

\* No turn of the shift loop, nor its end, is seen in the queue.
LEMMA QueueShifted ==
  ASSUME GameInv, GameInv', QueueFilled, CleanStaleHurdlesLoop
  PROVE  UNCHANGED Queue
<1> USE DEF CleanStaleHurdlesLoop, At
<1>1. /\ hurdle_position \in [Slots -> Filled] /\ hurdle_count \in Nat
      /\ hurdle_count < HURDLE_POSITION_BYTES - 1 /\ HURDLE_POSITION_BYTES \in Nat
      /\ x = y + 1 /\ y \in Nat /\ x + 1 < HURDLE_POSITION_BYTES
      /\ Booted /\ Booted' /\ hurdle_count' = hurdle_count
  BY GameAssumption
     DEF GameAssumption, GameInv, TypeOK, Byte, Filled, ListFilled, ListInBounds, Booted
<1>2. hurdle_position[x + 1] = Empty => hurdle_count <= y + 1
  BY <1>1 DEF QueueFilled, LiveSlot
<1>3. \A i \in 0 .. (hurdle_count - 1) :
        hurdle_position'[LiveSlot(i)'] = hurdle_position[LiveSlot(i)]
  BY <1>1, <1>2 DEF LiveSlot, ShiftedList, NextSlots, Slots
<1>4. /\ Queue = [i \in 1 .. hurdle_count |-> hurdle_position[LiveSlot(i - 1)]]
      /\ Queue' = [i \in 1 .. hurdle_count |-> hurdle_position'[LiveSlot(i - 1)']]
  BY <1>1 DEF Queue
<1>5. \A i \in 1 .. hurdle_count : i - 1 \in 0 .. (hurdle_count - 1)
  BY <1>1
<1>. QED
  BY <1>3, <1>4, <1>5

\* Outside the shift, the head of the queue is the byte the robot is compared with.
LEMMA QueueHead ==
  ASSUME GameInv, Booted, main # "clean_stale_hurdles_loop", Queue # << >>
  PROVE  Head(Queue) = hurdle_position[0]
<1>1. hurdle_count \in Nat
  BY DEF GameInv, TypeOK, Byte
<1>2. Queue \in Seq(Filled) /\ Len(Queue) = hurdle_count
  BY QueueIsSequence
<1>3. hurdle_count > 0
  BY <1>1, <1>2, EmptySeq
<1>4. Queue[1] = hurdle_position[0]
  BY <1>1, <1>3 DEF Queue, LiveSlot
<1>. QED
  BY <1>2, <1>4

-----------------------------------------------------------------------------
(* Step by step.                                                           *)

abstract == << Phase, Queue, Column, IF Booted THEN robo_jump_time ELSE 0, Airborne,
               IF Booted THEN robo_score ELSE 0 >>

\* The program is off before the game's RAM is set up, and then as the rules begin.
LEMMA RulesOff ==
  ~Booted => /\ Phase = "off" /\ Queue = << >> /\ Column = 1 /\ Airborne = FALSE
  BY DEF Phase, Queue, Column, Airborne, Playing

\* An empty list is an empty queue.
LEMMA QueueEmpty ==
  GameInv /\ Booted /\ hurdle_count = 0 => Queue = << >>
<1> SUFFICES ASSUME GameInv, Booted, hurdle_count = 0 PROVE Queue = << >>
  OBVIOUS
<1>1. Queue \in Seq(Filled) /\ Len(Queue) = 0
  BY QueueIsSequence
<1>. QED
  BY <1>1, EmptySeq

\* Every step of the program, the handler and the reset button is one of the rules.
LEMMA RulesStep ==
  GameInv /\ GameInv' /\ Known /\ [Next]_vars => [Rules!Next]_abstract
<1> SUFFICES ASSUME GameInv, GameInv', Known, [Next]_vars
             PROVE  Rules!Next \/ UNCHANGED abstract
  BY DEF abstract
<1>0. /\ robo_position \in Addr /\ robo_drawn \in Addr /\ init_draw_cursor \in Cols
      /\ robo_jump_time \in Nat /\ robo_score \in 0 .. (SCORE_BYTE - 1)
      /\ SCORE_BYTE \in Nat \ {0} /\ COLS \in Nat \ {0} /\ COLS > 17
  BY GameAssumption DEF GameAssumption, GameInv, TypeOK, Byte
<1> USE DEF abstract, At, course, scoring, regs, button, loop
<1>1. CASE Bootstrap
  BY <1>1 DEF Bootstrap, Booted, Phase, Queue, Column, Airborne, Playing
<1>2. CASE DrawInitScreen
  <2>1. ~Booted /\ Booted' /\ ~Playing' /\ main' = "draw_init_course"
    BY <1>2 DEF DrawInitScreen, Booted, Playing
  <2>2. (GameInv /\ Booted /\ hurdle_count = 0 => Queue = << >>)'
    BY QueueEmpty, PTL
  <2>3. /\ Phase' = "course" /\ Queue' = << >> /\ Column' = 1 /\ Airborne' = FALSE
        /\ robo_jump_time' = 0 /\ robo_score' = 0
    BY <1>2, <2>1, <2>2 DEF DrawInitScreen, ZeroBytes, Phase, Column, Airborne
  <2>. QED
    BY <2>1, <2>3, RulesOff DEF Rules!Next, Rules!Start, Rules!Blank
<1>3. CASE DrawInitCourse
  <2>1. /\ Booted /\ Booted' /\ ~Playing /\ UNCHANGED Queue
    BY <1>3, QueueUnmoved DEF DrawInitCourse, Booted, Playing
  <2>2. Phase = "course" /\ Phase' = "course" /\ UNCHANGED Column
    BY <1>3, <2>1 DEF DrawInitCourse, Phase, Column, Booted
  <2>3. Playing' => robo_drawn'.row = 2
    BY <1>3, <1>0
       DEF DrawInitCourse, Playing, Booted, Known, DrawnOnGround, Cols, GameInv,
           SameGameEveryTime
  <2>4. UNCHANGED Airborne
    BY <1>3, <2>1, <2>3 DEF DrawInitCourse, Airborne
  <2>. QED
    BY <1>3, <2>1, <2>2, <2>4 DEF DrawInitCourse
<1>4. CASE DrawHurdle
  <2>1. /\ Booted /\ Booted' /\ Playing /\ Playing'
        /\ main = "draw_hurdle" /\ main' = "draw_robo_sprite"
    BY <1>4 DEF DrawHurdle, Booted, Playing
  <2>2. /\ Phase = "course" /\ Phase' = "move" /\ UNCHANGED << Column, Airborne >>
    BY <1>4, <2>1 DEF DrawHurdle, Phase, Column, Airborne
  <2>3. CASE SpawnHurdle
    <3>1. Queue' = Append(Queue, NextSpawn(hurdle_spawn_position))
      BY <2>1, <2>3, QueueGrows DEF SpawnHurdle
    <3>2. Len(Queue) < HURDLE_POSITION_BYTES - 1
      BY <2>1, <2>3, QueueIsSequence, GameAssumption
         DEF SpawnHurdle, HurdleDue, GameInv, ListFilled, HurdleListSound, GameAssumption
    <3>3. NextSpawn(hurdle_spawn_position) \in 0 .. (COLS - 1)
      BY ColOps DEF GameInv, TypeOK, Cols
    <3>. QED
      BY <1>4, <2>1, <2>2, <3>1, <3>2, <3>3 DEF DrawHurdle, Rules!Next, Rules!Course
  <2>4. CASE SpawnGround
    <3>1. UNCHANGED Queue
      BY <2>1, <2>4, QueueUnmoved DEF SpawnGround
    <3>. QED
      BY <1>4, <2>1, <2>2, <3>1 DEF DrawHurdle, Rules!Next, Rules!Course
  <2>. QED
    BY <1>4, <2>3, <2>4 DEF DrawHurdle
<1>5. CASE DrawRoboSprite
  <2>1. /\ Booted /\ Booted' /\ Playing /\ Playing' /\ Phase = "move"
        /\ main = "draw_robo_sprite" /\ UNCHANGED Queue
    BY <1>5, QueueUnmoved DEF DrawRoboSprite, Booted, Playing, Phase
  <2>2. CASE robo_jump_time = 0
    <3>1. Phase' = "judge" /\ Airborne' = FALSE
      BY <1>5, <2>1, <2>2 DEF DrawRoboSprite, Phase, Airborne
    <3>2. Column' = (Column + 1) % COLS
      BY <1>5, <2>1, <2>2, <1>0, StepModulo DEF DrawRoboSprite, Column, NextCol, Addr, Cols
    <3>3. /\ robo_jump_time' = 0 /\ (robo_jump_time > 0) = FALSE
          /\ UNCHANGED robo_score
      BY <1>5, <1>0, <2>2 DEF DrawRoboSprite
    <3>4. Rules!Move
      BY <2>1, <2>2, <3>1, <3>2, <3>3 DEF Rules!Move
    <3>. QED
      BY <3>4 DEF Rules!Next
  <2>3. CASE robo_jump_time # 0
    BY <1>5, <2>1, <2>3 DEF DrawRoboSprite, Phase, Column, Airborne
  <2>. QED
    BY <2>2, <2>3
<1>6. CASE HandleRoboJumpTime
  <2>1. /\ Booted /\ Booted' /\ Playing /\ Playing' /\ Phase = "move" /\ UNCHANGED Queue
        /\ main = "handle_robo_jump_time" /\ main' = "draw_robo_sprite_redraw"
    BY <1>6, QueueUnmoved DEF HandleRoboJumpTime, Booted, Playing, Phase
  <2>2. Phase' = "judge" /\ Airborne' = TRUE
    BY <1>6, <2>1, <1>0 DEF HandleRoboJumpTime, Phase, Airborne, Addr
  <2>3. Column' = (Column + 1) % COLS
    BY <1>6, <2>1, <1>0, StepModulo
       DEF HandleRoboJumpTime, Column, NextCol, Addr, Cols, Known, ColumnKnown
  <2>4. robo_jump_time > 0 /\ robo_jump_time' = robo_jump_time - 1
    BY <1>6, <1>0 DEF HandleRoboJumpTime, DecByte, GameInv, JumpTimeInRange
  <2>. QED
    BY <1>6, <2>1, <2>2, <2>3, <2>4, <1>0
       DEF HandleRoboJumpTime, Rules!Next, Rules!Move
<1>7. CASE DrawRoboSpriteRedraw
  <2>1. Booted /\ Booted' /\ Playing /\ Playing' /\ UNCHANGED Queue
    BY <1>7, QueueUnmoved DEF DrawRoboSpriteRedraw, Booted, Playing
  <2>. QED
    BY <1>7, <2>1, <1>0 DEF DrawRoboSpriteRedraw, Phase, Column, Airborne, Addr
<1>8. CASE DrawScore
  <2>1. Booted /\ Booted' /\ Playing /\ Playing' /\ UNCHANGED Queue
    BY <1>8, QueueUnmoved DEF DrawScore, Booted, Playing
  <2>. QED
    BY <1>8, <2>1 DEF DrawScore, Phase, Column, Airborne
<1>9. CASE CalculateCollision
  <2>1. /\ Booted /\ Booted' /\ Playing /\ Playing' /\ UNCHANGED Queue
        /\ main = "calculate_collision" /\ Phase = "judge"
    BY <1>9, QueueUnmoved DEF CalculateCollision, Booted, Playing, Phase
  <2>2. UNCHANGED << Column, Airborne >>
    BY <1>9, <2>1 DEF CalculateCollision, Column, Airborne
  <2>3. CASE robo_position.col = hurdle_position[0]
    BY <1>9, <2>1, <2>2, <2>3 DEF CalculateCollision, Phase
  <2>4. CASE robo_position.col # hurdle_position[0]
    <3>1. Phase' = "course" /\ Column = robo_position.col
      BY <1>9, <2>1, <2>4 DEF CalculateCollision, Phase, Column
    <3>2. ~Rules!AtHurdle
      BY <2>1, <2>4, <3>1, QueueHead DEF Rules!AtHurdle
    <3>. QED
      BY <1>9, <2>1, <2>2, <3>1, <3>2 DEF CalculateCollision, Rules!Next, Rules!Run
  <2>. QED
    BY <2>3, <2>4
<1>10. CASE GameOver
  <2>1. /\ Booted /\ Booted' /\ Playing /\ Playing' /\ UNCHANGED Queue
        /\ main = "jump_check" /\ Phase = "judge" /\ Phase' = "over"
    BY <1>10, QueueUnmoved DEF GameOver, Booted, Playing, Phase
  <2>2. UNCHANGED << Column, Airborne >> /\ Column = robo_position.col
    BY <1>10, <2>1 DEF GameOver, Column, Airborne
  <2>3. Queue # << >>
    BY <2>1, QueueIsSequence, EmptySeq DEF GameInv, NoPhantomHurdle
  <2>4. Rules!AtHurdle
    BY <2>1, <2>2, <2>3, QueueHead DEF Rules!AtHurdle, Known, ColumnKnown
  <2>. QED
    BY <1>10, <2>1, <2>2, <2>4 DEF GameOver, Rules!Next, Rules!Crash
<1>11. CASE CleanStaleHurdles
  <2>1. /\ Booted /\ Booted' /\ Playing /\ Playing'
        /\ main = "jump_check" /\ Phase = "judge" /\ Phase' = "course"
    BY <1>11 DEF CleanStaleHurdles, Booted, Playing, Phase
  <2>2. UNCHANGED << Column, Airborne >> /\ Column = robo_position.col
    BY <1>11, <2>1 DEF CleanStaleHurdles, Column, Airborne
  <2>3. Queue # << >> /\ Queue' = Tail(Queue)
    BY <1>11, <2>1, QueueShrinks DEF CleanStaleHurdles
  <2>4. Rules!AtHurdle
    BY <2>1, <2>2, <2>3, QueueHead DEF Rules!AtHurdle, Known, ColumnKnown
  <2>5. robo_score' = (robo_score + 1) % SCORE_BYTE
    BY <1>11, <1>0, StepModulo DEF CleanStaleHurdles
  <2>. QED
    BY <1>11, <1>0, <2>1, <2>2, <2>3, <2>4, <2>5 DEF CleanStaleHurdles, Rules!Next, Rules!Clear
<1>12. CASE CleanStaleHurdlesLoop
  <2>1. /\ Booted /\ Booted' /\ Playing /\ Playing' /\ UNCHANGED Queue
    BY <1>12, QueueShifted DEF CleanStaleHurdlesLoop, Booted, Playing, Known
  <2>. QED
    BY <1>12, <2>1 DEF CleanStaleHurdlesLoop, Phase, Column, Airborne
<1>13. CASE Wait
  <2>1. Booted /\ Booted' /\ Playing /\ Playing' /\ UNCHANGED Queue
    BY <1>13, QueueUnmoved DEF Wait, Booted, Playing
  <2>. QED
    BY <1>13, <2>1 DEF Wait, Phase, Column, Airborne
<1>14. CASE GameOverFlicker
  <2>1. Booted /\ Booted' /\ Playing /\ Playing' /\ UNCHANGED Queue
    BY <1>14, QueueUnmoved DEF GameOverFlicker, Booted, Playing
  <2>. QED
    BY <1>14, <2>1 DEF GameOverFlicker, Phase, Column, Airborne
<1>15. CASE GameOverMessageDraw
  <2>1. Booted /\ Booted' /\ Playing /\ Playing' /\ UNCHANGED Queue
    BY <1>15, QueueUnmoved DEF GameOverMessageDraw, Booted, Playing
  <2>. QED
    BY <1>15, <2>1 DEF GameOverMessageDraw, Phase, Column, Airborne
<1>a. ASSUME main' = main, x' = x, y' = y, UNCHANGED << robo_position, robo_drawn, robo_score,
                                           hurdle_count, hurdle_position >>
      PROVE  UNCHANGED << Phase, Queue, Column, Airborne, Booted >>
  BY <1>a DEF Phase, Queue, Column, Airborne, Booted, Playing, LiveSlot
<1>b. ASSUME main' = main, x' = x, y' = y, UNCHANGED << robo_position, robo_drawn, robo_score,
                                           hurdle_count, hurdle_position >>,
             SetRoboJumpTime
      PROVE  Rules!Next \/ UNCHANGED abstract
  <2>1. UNCHANGED << Phase, Queue, Column, Airborne, Booted >>
    BY <1>a, <1>b
  <2>2. Booted => Phase # "off"
    BY DEF Phase
  <2>. QED
    BY <1>b, <2>1, <2>2 DEF SetRoboJumpTime, Rules!Next, Rules!Jump
<1>16. CASE Press
  BY <1>16, <1>a DEF Press
<1>17. CASE Irq
  BY <1>17, <1>b DEF Irq
<1>18. CASE ExitIrq
  BY <1>18, <1>a DEF ExitIrq
<1>19. CASE Nmi
  BY <1>19, <1>b DEF Nmi
<1>20. CASE ResetButton
  <2>1. ~Booted'
    BY <1>20 DEF ResetButton, Booted
  <2>2. /\ Phase' = "off" /\ Queue' = << >> /\ Column' = 1 /\ Airborne' = FALSE
    BY <2>1 DEF Phase, Queue, Column, Airborne, Playing
  <2>. QED
    BY <2>1, <2>2 DEF Rules!Next, Rules!Reset, Rules!Blank
<1>21. CASE UNCHANGED vars
  BY <1>21, <1>a DEF vars
<1>. QED
  BY <1>1, <1>2, <1>3, <1>4, <1>5, <1>6, <1>7, <1>8, <1>9, <1>10, <1>11,
     <1>12, <1>13, <1>14, <1>15, <1>16, <1>17, <1>18, <1>19, <1>20, <1>21
     DEF Next, MainStep

(* The list of bytes that is shifted under an interrupt implements the     *)
(* queue, the shared jump time the jump budget, and the draw loop the      *)
(* frame of RunnerRules: every behaviour in which the robot never meets a  *)
(* stale copy is one of the rules'.                                        *)
THEOREM GameImplementsRules == Spec /\ []NoPhantomHurdle => ImplementsRules
<1>1. Init => TypeOK /\ ListInBounds /\ JumpTimeInRange /\ SameGameEveryTime /\ ListFilled /\ Known
  BY TypeInit
     DEF Init, JumpTimeInRange, SameGameEveryTime, ListFilled, HurdleListSound, Known,
         QueueFilled, DrawnOnGround, ColumnKnown, Booted
<1>2. Init => Rules!Init
  BY RulesOff DEF Init, Booted, Rules!Init, Rules!Blank
<1>3. GameInv /\ GameInv' /\ Known /\ [Next]_vars => [Rules!Next]_(Rules!vars)
  BY RulesStep DEF abstract, Rules!vars
<1>. QED
  BY <1>1, <1>2, <1>3, TypeStep, BoundsStep, JumpTimeStep, SameGameStep, FilledStep,
     KnownStep, PTL DEF Spec, GameInv, ImplementsRules, Rules!Spec

-----------------------------------------------------------------------------
(* The course.  The robot meets the hurdles in the order of the list as    *)
(* long as the place where the next one is drawn is ahead of those that    *)
(* are drawn already.  draw_init_screen puts it fifteen columns ahead of   *)
(* the robot, and each round of the display memory takes it one further.   *)

InFrame == Playing /\ main \notin {"game_over", "game_over_message_draw", "game_over_loop"}

\* The frame's collision has been judged.
FrameOver == main \in {"clean_stale_hurdles_loop", "wait", "draw_hurdle"}

\* Columns from r on to c, round the row.
Gap(c, r) == IF c >= r THEN c - r ELSE c - r + COLS

\* The robot's column in the frame that draw_hurdle begins.
Runner == IF main = "draw_robo_sprite" THEN NextCol(robo_position.col) ELSE robo_position.col

Live(i) == hurdle_position[LiveSlot(i)]
Lead(i) == Gap(Live(i), Runner)
SpawnLead == Gap(hurdle_spawn_position, Runner)

(* The hypothesis of what follows: the spawn position has not come round   *)
(* to the robot.                                                           *)
SpawnLeads == InFrame => SpawnLead >= 15

\* The hurdles are closer together than the robot and the first of them, and
\* a frame counter of a byte does not overflow within two rows.
Timing == HURDLE_SPACING <= 15 /\ 2 * COLS <= BYTE

\* The live hurdles are ahead of the robot in the order of the list, and the last one
\* is as far ahead as it was laid, less the frames counted since.
CourseKnown ==
  /\ hurdle_count \in 0 .. (HURDLE_POSITION_BYTES - 1)
  /\ \A i \in 0 .. (hurdle_count - 1) : Live(i) \in Cols
  /\ \A i, j \in 0 .. (hurdle_count - 1) : i < j => Lead(i) < Lead(j)
  /\ FrameOver => \A i \in 0 .. (hurdle_count - 1) : Lead(i) > 0
  /\ hurdle_count = 0 =>
       /\ main # "clean_stale_hurdles_loop"
       /\ hurdle_position[0] = Empty /\ hurdle_spacing_count < HURDLE_SPACING
  /\ hurdle_count > 0 =>
       Lead(hurdle_count - 1) + hurdle_spacing_count \in 15 .. SpawnLead
  /\ hurdle_count < HURDLE_POSITION_BYTES - (IF FrameOver THEN 2 ELSE 1) =>
       hurdle_spacing_count < HURDLE_SPACING

Course == InFrame => CourseKnown

\* What Gap says, and how it changes when the robot moves.
LEMMA GapStep ==
  ASSUME NEW c \in Cols, NEW r \in Cols
  PROVE  /\ Gap(c, r) \in Cols
         /\ Gap(c, r) = 0 <=> c = r
         /\ Gap(c, NextCol(r)) = IF c = r THEN COLS - 1 ELSE Gap(c, r) - 1
  BY GameAssumption DEF GameAssumption, Cols, Gap, NextCol

\* Two columns at the same distance are the same.
LEMMA GapOneToOne ==
  ASSUME NEW c \in Cols, NEW d \in Cols, NEW r \in Cols, Gap(c, r) = Gap(d, r)
  PROVE  c = d
  BY GameAssumption DEF GameAssumption, Cols, Gap

\* The spawn position keeps its distance but for its last column, which it leaves out.
LEMMA SpawnStep ==
  ASSUME NEW s \in SpawnCols, NEW r \in Cols
  PROVE  Gap(NextSpawn(s), NextCol(r)) =
           IF s # COLS - 2 THEN Gap(s, r)
           ELSE IF Gap(s, r) = COLS - 1 THEN 0 ELSE Gap(s, r) + 1
  BY GameAssumption DEF GameAssumption, Cols, SpawnCols, Gap, NextCol, NextSpawn

\* A step within a frame that moves neither robot nor hurdle.
LEMMA CourseUnmoved ==
  ASSUME CourseKnown, UNCHANGED << hurdle_count, hurdle_position, hurdle_spacing_count,
                                   hurdle_spawn_position, Runner >>,
         FrameOver' => \A i \in 0 .. (hurdle_count - 1) : Lead(i) > 0,
         FrameOver => FrameOver',
         main # "clean_stale_hurdles_loop", main' # "clean_stale_hurdles_loop"
  PROVE  CourseKnown'
<1>1. \A i : Live(i)' = Live(i)
  BY DEF Live, LiveSlot
<1>2. \A i : Lead(i)' = Lead(i)
  BY <1>1 DEF Lead, Gap
<1>3. SpawnLead' = SpawnLead
  BY DEF SpawnLead, Gap
<1>4. HURDLE_POSITION_BYTES \in Nat
  BY GameAssumption DEF GameAssumption
<1>5. (hurdle_count < HURDLE_POSITION_BYTES - (IF FrameOver THEN 2 ELSE 1) =>
         hurdle_spacing_count < HURDLE_SPACING)'
  BY <1>4 DEF CourseKnown
<1>. QED
  BY <1>1, <1>2, <1>3, <1>5 DEF CourseKnown

\* The game's invariants, and with them what the frames know of the robot's column.
CourseBase == TypeOK /\ ListInBounds /\ SameGameEveryTime /\ ColumnKnown

\* What the numbers of CourseBase range over.
LEMMA CourseTypes ==
  CourseBase =>
    /\ hurdle_position \in [Slots -> Cols \cup {Empty}]
    /\ hurdle_count \in Nat /\ hurdle_count < BYTE /\ hurdle_spacing_count \in Nat
    /\ hurdle_spacing_count < BYTE /\ BYTE \in Nat
    /\ HURDLE_POSITION_BYTES \in Nat /\ HURDLE_POSITION_BYTES > 2
    /\ HURDLE_POSITION_BYTES < BYTE
    /\ HURDLE_SPACING \in Nat /\ HURDLE_SPACING > 0
    /\ COLS \in Nat /\ COLS > 17
    /\ hurdle_spawn_position \in SpawnCols /\ hurdle_spawn_position \in Cols
    /\ robo_position \in Addr /\ robo_position.col \in Cols /\ Runner \in Cols
  BY GameAssumption, ColOps
     DEF GameAssumption, CourseBase, TypeOK, Byte, Addr, Runner

\* The count of frames since the last hurdle is below a row's columns when a frame begins.
LEMMA SpacingBound ==
  ASSUME Timing, CourseBase, CourseKnown, FrameOver, SpawnLead \in Cols
  PROVE  hurdle_spacing_count < COLS - 1
<1>1. CASE hurdle_count = 0
  BY <1>1, CourseTypes DEF CourseKnown, Timing
<1>2. CASE hurdle_count # 0
  <2>1. hurdle_count > 0 /\ hurdle_count - 1 \in 0 .. (hurdle_count - 1)
    BY <1>2, CourseTypes
  <2>2. Live(hurdle_count - 1) \in Cols /\ Lead(hurdle_count - 1) > 0
    BY <2>1 DEF CourseKnown
  <2>3. Lead(hurdle_count - 1) \in Cols
    BY <2>2, CourseTypes, GapStep DEF Lead
  <2>4. Lead(hurdle_count - 1) + hurdle_spacing_count \in 15 .. SpawnLead
    BY <2>1 DEF CourseKnown
  <2>. QED
    BY <2>2, <2>3, <2>4, CourseTypes DEF Cols
<1>. QED
  BY <1>1, <1>2

\* draw_hurdle lays a hurdle behind the last one as often as it may.
LEMMA CourseGrows ==
  ASSUME Timing, CourseBase, Course, SpawnLeads', DrawHurdle
  PROVE  CourseKnown'
<1> USE DEF DrawHurdle, At
<1>0. /\ InFrame /\ InFrame' /\ FrameOver /\ ~FrameOver'
      /\ main = "draw_hurdle" /\ main' = "draw_robo_sprite"
  BY DEF InFrame, FrameOver, Playing, Booted
<1>a. CourseKnown
  BY <1>0 DEF Course
<1>1. Runner = robo_position.col /\ Runner' = NextCol(Runner) /\ Runner \in Cols
  BY <1>0, CourseTypes DEF Runner
<1>2. /\ SpawnLead \in Cols /\ SpawnLead' >= SpawnLead /\ SpawnLead' >= 15
      /\ SpawnLead' \in Cols
  <2>1. SpawnLead' = Gap(NextSpawn(hurdle_spawn_position), NextCol(Runner))
    BY <1>1 DEF SpawnLead
  <2>2. SpawnLead \in Cols /\ SpawnLead' >= 15
    BY <1>0, <1>1, CourseTypes, GapStep DEF SpawnLead, SpawnLeads
  <2>3. SpawnLead' = IF hurdle_spawn_position # COLS - 2 THEN SpawnLead
                     ELSE IF SpawnLead = COLS - 1 THEN 0 ELSE SpawnLead + 1
    BY <1>1, <2>1, CourseTypes, SpawnStep DEF SpawnLead
  <2>. QED
    BY <2>2, <2>3, CourseTypes DEF Cols
<1>3. \A i : Live(i) = hurdle_position[i] /\ Live(i)' = hurdle_position'[i]
  BY <1>0 DEF Live, LiveSlot
<1>4. ASSUME NEW i \in 0 .. (hurdle_count - 1), Live(i)' = Live(i)
      PROVE  Lead(i)' = Lead(i) - 1
  <2>1. Live(i) \in Cols /\ Lead(i) > 0
    BY <1>0, <1>a DEF CourseKnown
  <2>2. Lead(i)' = Gap(Live(i), NextCol(Runner))
    BY <1>1, <1>4 DEF Lead
  <2>. QED
    BY <1>1, <2>1, <2>2, GapStep DEF Lead
<1>5. \A i \in 0 .. (hurdle_count - 1) : Lead(i) \in Nat
  <2>1. \A i \in 0 .. (hurdle_count - 1) : Live(i) \in Cols
    BY <1>a DEF CourseKnown
  <2>2. Cols \subseteq Nat
    BY CourseTypes DEF Cols
  <2>. QED
    BY <1>1, <2>1, <2>2, GapStep DEF Lead
<1>6. PICK n \in Nat : n = hurdle_count
  <2>1. hurdle_count \in Nat
    BY CourseTypes
  <2>. QED
    BY <2>1
<1>7. CASE SpawnHurdle
  <2>1. /\ n < HURDLE_POSITION_BYTES - 1 /\ hurdle_count' = n + 1
        /\ hurdle_spacing_count' = 0
        /\ hurdle_position' =
             [hurdle_position EXCEPT ![n] = NextSpawn(hurdle_spawn_position)]
    BY <1>6, <1>7, <1>a, CourseTypes DEF SpawnHurdle, HurdleDue, AddHurdle, IncByte, CourseKnown
  <2>2. \A i \in 0 .. (n - 1) : Live(i)' = Live(i) /\ Lead(i)' = Lead(i) - 1
    BY <1>3, <1>4, <1>6, <2>1, CourseTypes DEF Slots
  <2>3. Live(n)' = NextSpawn(hurdle_spawn_position)
    BY <1>3, <2>1, CourseTypes DEF Slots
  <2>4. Lead(n)' = SpawnLead'
    BY <2>3 DEF Lead, SpawnLead
  <2>5. NextSpawn(hurdle_spawn_position) \in Cols
    BY ColOps, CourseTypes
  <2>6. \A i \in 0 .. n : Live(i)' \in Cols
    BY <1>6, <1>a, <2>2, <2>3, <2>5 DEF CourseKnown
  <2>7. \A i \in 0 .. (n - 1) : Lead(i)' < SpawnLead'
    <3>1. CASE n = 0
      BY <3>1
    <3>2. CASE n > 0
      <4>1. Lead(n - 1) <= SpawnLead /\ n - 1 \in 0 .. (n - 1)
        BY <1>a, <1>2, <1>5, <1>6, <3>2, CourseTypes DEF CourseKnown, Cols
      <4>2. \A i \in 0 .. (n - 1) : Lead(i) <= Lead(n - 1)
        BY <1>a, <1>5, <1>6, <4>1 DEF CourseKnown
      <4>. QED
        BY <1>2, <1>5, <1>6, <2>2, <4>1, <4>2 DEF Cols
    <3>. QED
      BY <1>6, <3>1, <3>2
  <2>8. \A i, j \in 0 .. n : i < j => Lead(i)' < Lead(j)'
    BY <1>a, <1>5, <1>6, <2>2, <2>4, <2>7 DEF CourseKnown
  <2>9. Lead(n)' + hurdle_spacing_count' \in 15 .. SpawnLead'
    <3>1. SpawnLead' \in Nat /\ SpawnLead' >= 15
      BY <1>2, CourseTypes DEF Cols
    <3>2. hurdle_spacing_count' = 0
      BY <2>1
    <3>. QED
      <4>1. PICK k \in Nat : k = SpawnLead'
        BY <3>1
      <4>2. k \in 15 .. k
        <5>1. k >= 15
          BY <3>1, <4>1
        <5>. QED
          BY <5>1
      <4>3. Lead(n)' + hurdle_spacing_count' = k
        <5>1. \A m \in Nat : m + 0 = m
          OBVIOUS
        <5>. QED
          BY <2>4, <3>2, <4>1, <5>1
      <4>. QED
        BY <4>1, <4>2, <4>3
  <2>. QED
    BY <1>0, <2>1, <2>6, <2>8, <2>9, CourseTypes DEF CourseKnown
<1>8. CASE SpawnGround
  <2>1. /\ hurdle_count' = n /\ hurdle_position' = hurdle_position
        /\ hurdle_spacing_count' = IncByte(hurdle_spacing_count)
    BY <1>6, <1>8 DEF SpawnGround
  <2>2. \A i \in 0 .. (n - 1) : Live(i)' = Live(i) /\ Lead(i)' = Lead(i) - 1
    BY <1>3, <1>4, <1>6, <2>1
  <2>3. hurdle_spacing_count < COLS - 1
    BY <1>0, <1>a, <1>2, SpacingBound
  <2>4. hurdle_spacing_count' = hurdle_spacing_count + 1
    BY <2>1, <2>3, CourseTypes DEF IncByte, Timing
  <2>5. n < HURDLE_POSITION_BYTES - 1 => hurdle_spacing_count' < HURDLE_SPACING
    BY <1>6, <1>8, <2>1, <2>3, <2>4, CourseTypes DEF SpawnGround, HurdleDue, BelowSpacing, Timing
  <2>6. n > 0 => Lead(n - 1)' + hurdle_spacing_count' \in 15 .. SpawnLead'
    BY <1>a, <1>2, <1>5, <1>6, <2>2, <2>4, CourseTypes DEF CourseKnown, Cols
  <2>7. \A i, j \in 0 .. (n - 1) : i < j => Lead(i)' < Lead(j)'
    BY <1>a, <1>5, <1>6, <2>2 DEF CourseKnown
  <2>8. \A i \in 0 .. (n - 1) : Live(i)' \in Cols
    BY <1>a, <1>6, <2>2 DEF CourseKnown
  <2>. QED
    BY <1>0, <1>a, <1>6, <2>1, <2>5, <2>6, <2>7, <2>8, CourseTypes DEF CourseKnown
<1>. QED
  BY <1>7, <1>8

\* The robot over the first hurdle: there is a second one, which comes first now.
LEMMA CourseShrinks ==
  ASSUME Timing, CourseBase, Course, CleanStaleHurdles
  PROVE  CourseKnown'
<1> USE DEF CleanStaleHurdles, At
<1>0. /\ InFrame /\ FrameOver' /\ ~FrameOver
      /\ main = "jump_check" /\ main' = "clean_stale_hurdles_loop"
  BY DEF InFrame, FrameOver, Playing, Booted
<1>a. CourseKnown
  BY <1>0 DEF Course
<1>1. Runner = robo_position.col /\ Runner' = Runner /\ Runner \in Cols
  BY <1>0, CourseTypes DEF Runner
<1>2. \A i \in Nat : Live(i) = hurdle_position[i] /\ Live(i)' = Live(i + 1)
  BY <1>0 DEF Live, LiveSlot
<1>3. \A i \in Nat : Lead(i)' = Lead(i + 1)
  BY <1>1, <1>2 DEF Lead
<1>4. \A i \in 0 .. (hurdle_count - 1) : Lead(i) \in Nat
  <2>1. \A i \in 0 .. (hurdle_count - 1) : Live(i) \in Cols
    BY <1>a DEF CourseKnown
  <2>2. Cols \subseteq Nat
    BY CourseTypes DEF Cols
  <2>. QED
    BY <1>1, <2>1, <2>2, GapStep DEF Lead
<1>5. Live(0) = Runner /\ Lead(0) = 0
  <2>1. Live(0) = Runner
    BY <1>0, <1>1, <1>2 DEF CourseBase, ColumnKnown
  <2>. QED
    BY <1>1, <2>1, GapStep DEF Lead
<1>6. hurdle_count > 1
  <2>1. hurdle_count # 0
    BY <1>1, <1>2, <1>5, <1>a, ColOps DEF CourseKnown
  <2>2. hurdle_count # 1
    <3>1. SUFFICES ASSUME hurdle_count = 1 PROVE FALSE
      OBVIOUS
    <3>2. hurdle_spacing_count < HURDLE_SPACING
      BY <1>0, <1>a, <3>1, CourseTypes DEF CourseKnown
    <3>3. Lead(0) + hurdle_spacing_count >= 15
      BY <1>a, <3>1 DEF CourseKnown
    <3>. QED
      BY <1>5, <3>2, <3>3, CourseTypes DEF Timing
  <2>. QED
    BY <2>1, <2>2, CourseTypes
<1>7. PICK n \in Nat : n = hurdle_count
  <2>1. hurdle_count \in Nat
    BY CourseTypes
  <2>. QED
    BY <2>1
<1>8. hurdle_count' = n - 1 /\ n > 1
  BY <1>6, <1>7, CourseTypes DEF HurdlesLeft, DecByte
<1>9. \A i \in 0 .. (n - 2) : i \in Nat /\ i + 1 \in 0 .. (n - 1)
  BY <1>8
<1>10. \A i \in 0 .. (n - 2) : Live(i)' \in Cols /\ Lead(i)' > 0
  <2>1. ASSUME NEW i \in 0 .. (n - 2) PROVE Lead(i + 1) > 0
    <3>1. i + 1 > 0 /\ 0 \in 0 .. (n - 1)
      BY <1>8
    <3>. QED
      BY <1>4, <1>5, <1>7, <1>9, <1>a, <3>1 DEF CourseKnown
  <2>. QED
    BY <1>2, <1>3, <1>7, <1>9, <1>a, <2>1 DEF CourseKnown
<1>11. \A i, j \in 0 .. (n - 2) : i < j => Lead(i)' < Lead(j)'
  BY <1>3, <1>7, <1>9, <1>a DEF CourseKnown
<1>12. Lead(n - 2)' = Lead(n - 1) /\ SpawnLead' = SpawnLead
  <2>1. n - 2 \in Nat /\ (n - 2) + 1 = n - 1
    BY <1>8
  <2>. QED
    BY <1>1, <1>3, <2>1 DEF SpawnLead
<1>13. Lead(n - 2)' + hurdle_spacing_count' \in 15 .. SpawnLead'
  BY <1>7, <1>8, <1>12, <1>a DEF CourseKnown
<1>14. hurdle_count' < HURDLE_POSITION_BYTES - 2 => hurdle_spacing_count' < HURDLE_SPACING
  BY <1>0, <1>7, <1>8, <1>a, CourseTypes DEF CourseKnown
<1>15. hurdle_count' \in 0 .. (HURDLE_POSITION_BYTES - 1) /\ hurdle_count' # 0
       /\ n - 1 - 1 = n - 2
  BY <1>7, <1>8, <1>a, CourseTypes DEF CourseKnown
<1>. QED
  BY <1>0, <1>8, <1>10, <1>11, <1>13, <1>14, <1>15 DEF CourseKnown

\* No turn of the shift loop, nor its end, moves a live hurdle.
LEMMA LiveShifted ==
  ASSUME CourseBase, CourseKnown, CleanStaleHurdlesLoop,
         NEW i \in 0 .. (hurdle_count - 1)
  PROVE  Live(i)' = Live(i)
<1> USE DEF CleanStaleHurdlesLoop, At
<1>1. /\ x = y + 1 /\ y \in Nat /\ x + 1 < HURDLE_POSITION_BYTES
      /\ HURDLE_POSITION_BYTES \in Nat
  BY CourseTypes DEF CourseBase, ListInBounds, TypeOK, Booted
<1>2. hurdle_position[x + 1] = Empty => hurdle_count <= y + 1
  <2>1. SUFFICES ASSUME hurdle_count > y + 1 PROVE hurdle_position[x + 1] # Empty
    BY <1>1, CourseTypes
  <2>2. y + 1 \in 0 .. (hurdle_count - 1) /\ LiveSlot(y + 1) = x + 1
    BY <1>1, <2>1, CourseTypes DEF LiveSlot
  <2>3. Live(y + 1) \in Cols
    BY <2>2 DEF CourseKnown
  <2>. QED
    BY <2>2, <2>3, ColOps DEF Live
<1>3. hurdle_count <= HURDLE_POSITION_BYTES - 1
  BY CourseTypes DEF CourseKnown
<1>4. CASE i < y
  <2>1. LiveSlot(i) = i /\ LiveSlot(i)' = i
    BY <1>1, <1>4 DEF LiveSlot, NextSlots
  <2>. QED
    BY <1>1, <1>3, <1>4, <2>1, CourseTypes DEF Live, ShiftedList, Slots
<1>5. CASE i = y
  <2>1. LiveSlot(i) = x /\ LiveSlot(i)' = y
    BY <1>1, <1>5 DEF LiveSlot, NextSlots
  <2>. QED
    BY <1>1, <1>3, <1>5, <2>1, CourseTypes DEF Live, ShiftedList, Slots
<1>6. CASE i > y
  <2>1. LiveSlot(i) = i + 1
    BY <1>1, <1>6 DEF LiveSlot
  <2>2. main' = "clean_stale_hurdles_loop"
    BY <1>1, <1>2, <1>6, CourseTypes
  <2>3. LiveSlot(i)' = i + 1
    BY <1>1, <1>6, <2>2 DEF LiveSlot, NextSlots
  <2>4. i + 1 \in Slots /\ i + 1 # y
    BY <1>1, <1>3, <1>6, CourseTypes DEF Slots
  <2>. QED
    BY <1>1, <2>1, <2>3, <2>4, CourseTypes DEF Live, ShiftedList, Slots
<1>. QED
  BY <1>1, <1>4, <1>5, <1>6, CourseTypes

\* So the course is as it was.
LEMMA CourseShifted ==
  ASSUME CourseBase, Course, CleanStaleHurdlesLoop
  PROVE  CourseKnown'
<1> USE DEF CleanStaleHurdlesLoop, At
<1>1. /\ InFrame /\ FrameOver /\ FrameOver' /\ Runner' = Runner
      /\ main = "clean_stale_hurdles_loop" /\ hurdle_count' = hurdle_count
  BY DEF InFrame, FrameOver, Playing, Booted, Runner
<1>2. CourseKnown
  BY <1>1 DEF Course
<1>3. /\ \A i \in 0 .. (hurdle_count - 1) : Live(i)' = Live(i) /\ Lead(i)' = Lead(i)
      /\ SpawnLead' = SpawnLead
  BY <1>1, <1>2, LiveShifted DEF Lead, SpawnLead
<1>4. hurdle_count # 0
  BY <1>1, <1>2 DEF CourseKnown
<1>5. PICK n \in Nat : n = hurdle_count
  <2>1. hurdle_count \in Nat
    BY CourseTypes
  <2>. QED
    BY <2>1
<1>6. n - 1 \in 0 .. (n - 1)
  BY <1>4, <1>5
<1>7. Lead(n - 1)' + hurdle_spacing_count' \in 15 .. SpawnLead'
  BY <1>2, <1>3, <1>4, <1>5, <1>6 DEF CourseKnown
<1>. QED
  BY <1>1, <1>2, <1>3, <1>4, <1>5, <1>7 DEF CourseKnown

\* Every step keeps the course in order.
LEMMA CourseStep ==
  Timing /\ CourseBase /\ Course /\ SpawnLeads' /\ [Next]_vars => Course'
<1> SUFFICES ASSUME Timing, CourseBase, Course, SpawnLeads', [Next]_vars, InFrame'
             PROVE  CourseKnown'
  BY DEF Course
<1> USE DEF InFrame, FrameOver, Playing, Booted, At, course, scoring, regs, button, loop
<1>1. CASE Bootstrap
  BY <1>1 DEF Bootstrap
<1>2. CASE DrawInitScreen
  BY <1>2 DEF DrawInitScreen, ZeroBytes
<1>3. CASE DrawInitCourse
  BY <1>3, CourseTypes, SlotOps DEF DrawInitCourse, CourseBase, SameGameEveryTime, CourseKnown
<1>4. CASE DrawHurdle
  BY <1>4, CourseGrows
<1>5. CASE DrawRoboSprite
  <2>1. CourseKnown /\ Runner' = Runner
    BY <1>5 DEF DrawRoboSprite, Course, Runner
  <2>. QED
    BY <1>5, <2>1, CourseUnmoved DEF DrawRoboSprite
<1>6. CASE HandleRoboJumpTime
  <2>1. CourseKnown /\ Runner' = Runner
    BY <1>6, CourseTypes DEF HandleRoboJumpTime, Course, Runner, Addr
  <2>. QED
    BY <1>6, <2>1, CourseUnmoved DEF HandleRoboJumpTime
<1>7. CASE DrawRoboSpriteRedraw
  <2>1. CourseKnown /\ Runner' = Runner
    BY <1>7, CourseTypes DEF DrawRoboSpriteRedraw, Course, Runner, Addr
  <2>. QED
    BY <1>7, <2>1, CourseUnmoved DEF DrawRoboSpriteRedraw
<1>8. CASE DrawScore
  <2>1. CourseKnown /\ Runner' = Runner
    BY <1>8 DEF DrawScore, Course, Runner
  <2>. QED
    BY <1>8, <2>1, CourseUnmoved DEF DrawScore
<1>9. CASE CalculateCollision
  <2>1. CourseKnown /\ Runner' = Runner
    BY <1>9 DEF CalculateCollision, Course, Runner
  <2>2. FrameOver' => \A i \in 0 .. (hurdle_count - 1) : Lead(i) > 0
    <3>1. SUFFICES ASSUME FrameOver', NEW i \in 0 .. (hurdle_count - 1) PROVE Lead(i) > 0
      OBVIOUS
    <3>2. Runner \in Cols /\ hurdle_count \in Nat
      BY CourseTypes
    <3>3. \A j \in 0 .. (hurdle_count - 1) : Live(j) \in Cols /\ Lead(j) \in Nat
      <4>1. Cols \subseteq Nat
        BY CourseTypes DEF Cols
      <4>. QED
        BY <2>1, <3>2, <4>1, GapStep DEF CourseKnown, Lead
    <3>4. 0 \in 0 .. (hurdle_count - 1)
      BY <3>2
    <3>5. Live(0) = hurdle_position[0] /\ Runner = robo_position.col
      BY <1>9 DEF CalculateCollision, Live, LiveSlot, Runner
    <3>6. Lead(0) # 0
      BY <1>9, <3>1, <3>2, <3>3, <3>4, <3>5, GapStep DEF CalculateCollision, Lead
    <3>7. i > 0 => Lead(0) < Lead(i)
      BY <2>1, <3>4 DEF CourseKnown
    <3>. QED
      BY <3>1, <3>2, <3>3, <3>4, <3>6, <3>7
  <2>. QED
    BY <1>9, <2>1, <2>2, CourseUnmoved DEF CalculateCollision
<1>10. CASE GameOver
  BY <1>10 DEF GameOver
<1>11. CASE CleanStaleHurdles
  BY <1>11, CourseShrinks
<1>12. CASE CleanStaleHurdlesLoop
  BY <1>12, CourseShifted
<1>13. CASE Wait
  <2>1. CourseKnown /\ Runner' = Runner
    BY <1>13 DEF Wait, Course, Runner
  <2>. QED
    BY <1>13, <2>1, CourseUnmoved DEF Wait, CourseKnown
<1>14. CASE GameOverFlicker
  BY <1>14 DEF GameOverFlicker
<1>15. CASE GameOverMessageDraw
  BY <1>15 DEF GameOverMessageDraw
<1>a. ASSUME UNCHANGED << main, x, y, robo_position, course >> PROVE CourseKnown'
  <2>1. CourseKnown
    BY <1>a DEF Course
  <2>2. /\ \A i : Live(i)' = Live(i) /\ Lead(i)' = Lead(i)
        /\ SpawnLead' = SpawnLead
    BY <1>a DEF Live, LiveSlot, Lead, SpawnLead, Runner
  <2>. QED
    BY <1>a, <2>1, <2>2 DEF CourseKnown
<1>16. CASE Press
  BY <1>16, <1>a DEF Press
<1>17. CASE Irq
  BY <1>17, <1>a DEF Irq
<1>18. CASE ExitIrq
  BY <1>18, <1>a DEF ExitIrq
<1>19. CASE Nmi
  BY <1>19, <1>a DEF Nmi
<1>20. CASE ResetButton
  BY <1>20 DEF ResetButton
<1>21. CASE UNCHANGED vars
  BY <1>21, <1>a DEF vars
<1>. QED
  BY <1>1, <1>2, <1>3, <1>4, <1>5, <1>6, <1>7, <1>8, <1>9, <1>10, <1>11,
     <1>12, <1>13, <1>14, <1>15, <1>16, <1>17, <1>18, <1>19, <1>20, <1>21
     DEF Next, MainStep

\* In an ordered course the robot at a hurdle is at a live one.
LEMMA CourseHasHurdle == CourseBase /\ Course => NoPhantomHurdle
<1> SUFFICES ASSUME CourseBase, Course, main = "jump_check" PROVE hurdle_count > 0
  BY DEF NoPhantomHurdle
<1>1. CourseKnown
  BY DEF Course, InFrame, Playing, Booted
<1>2. hurdle_position[0] \in Cols
  BY CourseTypes DEF CourseBase, ColumnKnown
<1>. QED
  BY <1>1, <1>2, CourseTypes, ColOps DEF CourseKnown

\* All that is known in every state up to the first one in which SpawnLeads fails.
CourseInv == GameInv /\ Known /\ Course

\* It holds when the power comes on.
LEMMA CourseInvInit == Init => CourseInv
<1>1. Init => TypeOK /\ ListInBounds /\ JumpTimeInRange /\ SameGameEveryTime /\ ListFilled /\ Known
  BY TypeInit
     DEF Init, JumpTimeInRange, SameGameEveryTime, ListFilled, HurdleListSound, Known,
         QueueFilled, DrawnOnGround, ColumnKnown, Booted
<1>2. Init => Course /\ NoPhantomHurdle
  BY DEF Init, Course, InFrame, Playing, Booted, NoPhantomHurdle
<1>. QED
  BY <1>1, <1>2 DEF CourseInv, GameInv

\* Every step up to that state keeps it.
LEMMA CourseInvStep ==
  Timing /\ CourseInv /\ SpawnLeads' /\ [Next]_vars => CourseInv'
<1> SUFFICES ASSUME Timing, CourseInv, SpawnLeads', [Next]_vars PROVE CourseInv'
  OBVIOUS
<1>1. CourseBase /\ Course /\ GameInv /\ Known
  BY DEF CourseInv, CourseBase, GameInv, Known
<1>2. Course' /\ Known'
  BY <1>1, CourseStep, KnownStep
<1>3. (TypeOK /\ ListInBounds /\ JumpTimeInRange /\ SameGameEveryTime /\ ListFilled)'
  BY <1>1, TypeStep, BoundsStep, JumpTimeStep, SameGameStep, FilledStep DEF GameInv
<1>4. CourseBase'
  BY <1>2, <1>3 DEF CourseBase, Known
<1>5. (CourseBase /\ Course => NoPhantomHurdle)'
  BY CourseHasHurdle, PTL
<1>. QED
  BY <1>2, <1>3, <1>4, <1>5 DEF CourseInv, GameInv

\* So it holds for as long as the spawn position leads.
LEMMA CourseAlways ==
  ASSUME Timing
  PROVE  Spec /\ []SpawnLeads => []CourseInv
  BY CourseInvInit, CourseInvStep, PTL DEF Spec

(* The robot never meets the copy of a hurdle that a shift left behind, in *)
(* a list of any length on a display of any width, up to the round in      *)
(* which the spawn position comes round to the robot: there is always a    *)
(* second hurdle by the time the first one is taken away.                  *)
THEOREM NoPhantom ==
  ASSUME Timing
  PROVE  Spec /\ []SpawnLeads => []NoPhantomHurdle
<1>1. CourseInv => NoPhantomHurdle
  BY DEF CourseInv, GameInv
<1>. QED
  BY <1>1, CourseAlways, PTL

\* The distance that ClosestFirst compares is the robot's lead.
LEMMA AheadIsLead ==
  ASSUME NEW c \in Cols, NEW r \in Cols
  PROVE  (c - r) % COLS = Gap(c, r)
<1>1. CASE c >= r
  BY <1>1, GameAssumption DEF GameAssumption, Cols, Gap
<1>2. CASE c < r
  <2>1. PICK k \in 0 .. (COLS - 1) : c - r = k - COLS /\ Gap(c, r) = k
    <3>1. /\ c - r + COLS \in 0 .. (COLS - 1) /\ c - r = (c - r + COLS) - COLS
          /\ Gap(c, r) = c - r + COLS
      BY <1>2, GameAssumption DEF GameAssumption, Cols, Gap
    <3>. QED
      BY <3>1
  <2>2. (k - COLS) % COLS = k
    BY GameAssumption DEF GameAssumption
  <2>. QED
    BY <2>1, <2>2
<1>. QED
  BY <1>1, <1>2 DEF Cols

(* Up to the same round the hurdle the robot is compared with is the       *)
(* closest one, as line 223 says: no other lies between the two.           *)
THEOREM ClosestComesFirst ==
  ASSUME Timing
  PROVE  Spec /\ []SpawnLeads => []ClosestFirst
<1>1. CourseInv => ClosestFirst
  <2>1. SUFFICES ASSUME CourseInv, main = "calculate_collision",
                        NEW i \in 0 .. (hurdle_count - 1)
                 PROVE  Ahead(hurdle_position[0]) <= Ahead(hurdle_position[i])
    BY DEF ClosestFirst
  <2>2. CourseBase /\ CourseKnown
    BY <2>1 DEF CourseInv, CourseBase, GameInv, Known, Course, InFrame, Playing, Booted
  <2>3. hurdle_count \in Nat /\ 0 \in 0 .. (hurdle_count - 1) /\ Runner \in Cols
    BY <2>2, CourseTypes
  <2>4. Live(0) = hurdle_position[0] /\ Live(i) = hurdle_position[i] /\ Runner = robo_position.col
    BY <2>1 DEF Live, LiveSlot, Runner
  <2>5. Lead(0) \in Cols /\ Lead(i) \in Cols /\ Live(0) \in Cols /\ Live(i) \in Cols
    BY <2>2, <2>3, GapStep DEF CourseKnown, Lead
  <2>6. Ahead(hurdle_position[0]) = Lead(0) /\ Ahead(hurdle_position[i]) = Lead(i)
    BY <2>3, <2>4, <2>5, AheadIsLead DEF Ahead, Lead
  <2>7. i > 0 => Lead(0) < Lead(i)
    BY <2>2, <2>3 DEF CourseKnown
  <2>. QED
    BY <2>3, <2>5, <2>6, <2>7 DEF Cols
<1>. QED
  BY <1>1, CourseAlways, PTL

-----------------------------------------------------------------------------
(* How long that is.  The spawn position is a column further ahead every   *)
(* COLS - 1 frames; a frame is either counted since the last hurdle, or    *)
(* lays one, and a hurdle laid is scored or still in the list.             *)

\* Frames of this game, told from where robot and spawn position are.
Frames == (COLS - 1) * (SpawnLead - 15) + hurdle_spawn_position - 16

\* The game is over before the spawn position is next to the robot: up to a
\* score of 19 with the constants of robo-runner.s.
ShortGame ==
  /\ MaxScore < SCORE_BYTE
  /\ COLS * (MaxScore + HURDLE_POSITION_BYTES) <= (COLS - 1) * (COLS - 16) - 16

\* The spawn position is neither behind the robot nor at its last column.
SpawnClear == InFrame => SpawnLead \in 15 .. (COLS - 2)

FramesCounted ==
  InFrame =>
    /\ robo_score <= MaxScore /\ SpawnLead <= COLS - 2 /\ SpawnLead >= 15
    /\ Frames <= COLS * (robo_score + hurdle_count) + hurdle_spacing_count

\* The frames of draw_hurdle.
LEMMA FrameCounted ==
  ASSUME Timing, ShortGame, CourseBase, Course, FramesCounted, DrawHurdle
  PROVE  FramesCounted'
<1> USE DEF DrawHurdle, At
<1>0. /\ InFrame /\ InFrame' /\ FrameOver
      /\ main = "draw_hurdle" /\ main' = "draw_robo_sprite"
  BY DEF InFrame, FrameOver, Playing, Booted
<1>a. CourseKnown
  BY <1>0 DEF Course
<1>1. Runner = robo_position.col /\ Runner' = NextCol(Runner) /\ Runner \in Cols
  BY <1>0, CourseTypes DEF Runner
<1>2. PICK l \in Int : l = SpawnLead /\ l >= 15 /\ l <= COLS - 2
  <2>1. SpawnLead \in Cols
    BY <1>1, CourseTypes, GapStep DEF SpawnLead
  <2>2. SpawnLead \in Int
    BY <2>1, CourseTypes DEF Cols
  <2>. QED
    BY <1>0, <2>2 DEF FramesCounted
<1>3. PICK s \in Int : s = hurdle_spawn_position /\ s >= 0 /\ s <= COLS - 2
  <2>1. hurdle_spawn_position \in Int
    BY CourseTypes DEF SpawnCols
  <2>. QED
    BY <2>1, CourseTypes DEF SpawnCols
<1>4. /\ hurdle_spawn_position' = IF s = COLS - 2 THEN 0 ELSE s + 1
      /\ SpawnLead' = IF s = COLS - 2 THEN l + 1 ELSE l
  <2>1. hurdle_spawn_position' = IF s = COLS - 2 THEN 0 ELSE s + 1
    BY <1>3, CourseTypes DEF NextSpawn
  <2>2. SpawnLead' = Gap(NextSpawn(hurdle_spawn_position), NextCol(Runner))
    BY <1>1 DEF SpawnLead
  <2>3. SpawnLead' = IF s # COLS - 2 THEN l ELSE IF l = COLS - 1 THEN 0 ELSE l + 1
    BY <1>1, <1>2, <1>3, <2>2, CourseTypes, SpawnStep DEF SpawnLead
  <2>. QED
    BY <1>2, <2>1, <2>3, CourseTypes
<1>5. Frames' = Frames + 1
  <2>1. Frames = (COLS - 1) * (l - 15) + s - 16
    BY <1>2, <1>3 DEF Frames
  <2>2. CASE s = COLS - 2
    <3>1. Frames' = (COLS - 1) * ((l + 1) - 15) + 0 - 16
      BY <1>4, <2>2 DEF Frames
    <3>2. (COLS - 1) * ((l + 1) - 15) = (COLS - 1) * (l - 15) + (COLS - 1)
      BY <1>2, CourseTypes
    <3>. QED
      BY <1>2, <2>1, <2>2, <3>1, <3>2, CourseTypes
  <2>3. CASE s # COLS - 2
    <3>1. Frames' = (COLS - 1) * (l - 15) + (s + 1) - 16
      BY <1>4, <2>3 DEF Frames
    <3>. QED
      BY <1>2, <1>3, <2>1, <3>1, CourseTypes
  <2>. QED
    BY <2>2, <2>3
<1>6. PICK n \in Nat : n = hurdle_count /\ n <= HURDLE_POSITION_BYTES - 1
  <2>1. hurdle_count \in Nat /\ hurdle_count <= HURDLE_POSITION_BYTES - 1
    BY <1>a, CourseTypes DEF CourseKnown
  <2>. QED
    BY <2>1
<1>7. PICK p \in Nat : p = robo_score /\ p <= MaxScore
  <2>1. robo_score \in Nat
    BY GameAssumption DEF GameAssumption, CourseBase, TypeOK
  <2>. QED
    BY <1>0, <2>1 DEF FramesCounted
<1>8. PICK f \in Int : f = Frames
  <2>1. Frames = (COLS - 1) * (l - 15) + s - 16
    BY <1>2, <1>3 DEF Frames
  <2>. QED
    BY <1>2, <1>3, <2>1, CourseTypes
<1>9. /\ f <= COLS * (p + n) + hurdle_spacing_count
      /\ hurdle_spacing_count < COLS - 1
  <2>1. SpawnLead \in Cols
    BY <1>2, CourseTypes DEF Cols
  <2>. QED
    BY <1>0, <1>6, <1>7, <1>8, <1>a, <2>1, SpacingBound DEF FramesCounted
<1>10. PICK m \in Nat : /\ m = hurdle_count' /\ m <= HURDLE_POSITION_BYTES - 1
                        /\ f + 1 <= COLS * (p + m) + hurdle_spacing_count'
                        /\ hurdle_spacing_count' <= COLS - 1
                        /\ hurdle_spacing_count' \in Nat
  <2>1. CASE SpawnHurdle
    <3>1. /\ n + 1 = hurdle_count' /\ n + 1 <= HURDLE_POSITION_BYTES - 1
          /\ hurdle_spacing_count' = 0
      BY <1>6, <2>1, CourseTypes DEF SpawnHurdle, HurdleDue, AddHurdle, IncByte
    <3>2. COLS * (p + (n + 1)) = COLS * (p + n) + COLS /\ COLS * (p + (n + 1)) \in Int
      BY CourseTypes
    <3>3. f + 1 <= COLS * (p + (n + 1)) + 0
      BY <1>9, <3>2, CourseTypes
    <3>. QED
      BY <3>1, <3>3, CourseTypes
  <2>2. CASE SpawnGround
    <3>1. hurdle_count' = n /\ hurdle_spacing_count' = hurdle_spacing_count + 1
      BY <1>6, <1>9, <2>2, CourseTypes DEF SpawnGround, IncByte, Timing
    <3>2. COLS * (p + n) \in Int
      BY CourseTypes
    <3>3. f + 1 <= COLS * (p + n) + (hurdle_spacing_count + 1)
      BY <1>9, <3>2, CourseTypes
    <3>. QED
      BY <1>6, <1>9, <3>1, <3>3, CourseTypes
  <2>. QED
    BY <2>1, <2>2
<1>11. robo_score' = p
  BY <1>7 DEF scoring
<1>12. SpawnLead' <= COLS - 2 /\ SpawnLead' >= 15
  <2>1. CASE s # COLS - 2 \/ l < COLS - 2
    BY <1>2, <1>4, <2>1, CourseTypes
  <2>2. CASE s = COLS - 2 /\ l = COLS - 2
    <3>1. f = (COLS - 1) * (COLS - 17) + (COLS - 2) - 16
      BY <1>2, <1>3, <1>8, <2>2, CourseTypes DEF Frames
    <3>2. (COLS - 1) * (COLS - 16) = (COLS - 1) * (COLS - 17) + (COLS - 1)
      BY CourseTypes
    <3>3. PICK k \in Nat : k = MaxScore + HURDLE_POSITION_BYTES - 1 - (p + m)
      <4>1. /\ MaxScore \in Nat /\ HURDLE_POSITION_BYTES \in Nat
            /\ p <= MaxScore /\ m <= HURDLE_POSITION_BYTES - 1
        BY <1>7, <1>10, GameAssumption DEF GameAssumption
      <4>2. MaxScore + HURDLE_POSITION_BYTES - 1 - (p + m) \in Nat
        BY <4>1
      <4>. QED
        BY <4>2
    <3>4. COLS * (MaxScore + HURDLE_POSITION_BYTES) = COLS * (p + m) + COLS * k + COLS
      <4>1. MaxScore + HURDLE_POSITION_BYTES = (p + m) + k + 1
        BY <3>3, GameAssumption DEF GameAssumption
      <4>2. COLS * ((p + m) + k + 1) = COLS * (p + m) + COLS * k + COLS
        BY CourseTypes
      <4>. QED
        BY <4>1, <4>2
    <3>5. COLS * k \in Nat /\ COLS * (p + m) \in Nat
      BY CourseTypes
    <3>6. /\ (COLS - 1) * (COLS - 17) \in Int
          /\ COLS * (p + m) + COLS * k + COLS <= (COLS - 1) * (COLS - 17) + (COLS - 1) - 16
      BY <3>2, <3>4, CourseTypes DEF ShortGame
    <3>. QED
      BY <1>10, <3>1, <3>5, <3>6, CourseTypes
  <2>. QED
    BY <1>2, <2>1, <2>2
<1>. QED
  BY <1>0, <1>5, <1>7, <1>8, <1>10, <1>11, <1>12 DEF FramesCounted

\* Every step keeps count.
LEMMA FramesStep ==
  Timing /\ ShortGame /\ CourseInv /\ FramesCounted /\ [Next]_vars => FramesCounted'
<1> SUFFICES ASSUME Timing, ShortGame, CourseInv, FramesCounted, [Next]_vars, InFrame'
             PROVE  FramesCounted'
  BY DEF FramesCounted
<1>0. /\ CourseBase /\ Course /\ GameInv
      /\ robo_score \in Nat /\ hurdle_count \in Nat /\ MaxScore \in Nat /\ SCORE_BYTE \in Nat
  BY GameAssumption DEF CourseInv, CourseBase, GameInv, Known, TypeOK, Byte, GameAssumption
<1>a. ASSUME InFrame, UNCHANGED << Runner, course, robo_score >> PROVE FramesCounted'
  BY <1>a DEF FramesCounted, Frames, SpawnLead, course
<1> USE DEF InFrame, Playing, Booted, At, course, scoring, regs, button, loop, Runner
<1>1. CASE Bootstrap
  BY <1>1 DEF Bootstrap
<1>2. CASE DrawInitScreen
  BY <1>2 DEF DrawInitScreen
<1>3. CASE DrawInitCourse
  <2>1. /\ robo_score' = 0 /\ hurdle_count' = 0 /\ hurdle_spacing_count' = 0
        /\ hurdle_spawn_position' = 16 /\ Runner' = 1
    <3>1. main' = "draw_hurdle" /\ robo_position' = [row |-> 2, col |-> 1]
      BY <1>0, <1>3 DEF DrawInitCourse, CourseBase, SameGameEveryTime
    <3>2. Runner' = 1
      BY <3>1
    <3>. QED
      BY <1>0, <1>3, <3>2 DEF DrawInitCourse, CourseBase, SameGameEveryTime
  <2>2. SpawnLead' = 15
    BY <2>1 DEF SpawnLead, Gap
  <2>3. Frames' = (COLS - 1) * (15 - 15) + 16 - 16
    BY <2>1, <2>2 DEF Frames
  <2>4. (COLS - 1) * (15 - 15) + 16 - 16 = 0 /\ COLS * (0 + 0) + 0 = 0
    BY GameAssumption DEF GameAssumption
  <2>. QED
    BY <1>0, <2>1, <2>2, <2>3, <2>4, GameAssumption DEF FramesCounted, GameAssumption
<1>4. CASE DrawHurdle
  BY <1>0, <1>4, FrameCounted
<1>5. CASE DrawRoboSprite
  BY <1>5, <1>a DEF DrawRoboSprite
<1>6. CASE HandleRoboJumpTime
  BY <1>0, <1>6, <1>a, CourseTypes DEF HandleRoboJumpTime, Addr
<1>7. CASE DrawRoboSpriteRedraw
  BY <1>0, <1>7, <1>a, CourseTypes DEF DrawRoboSpriteRedraw, Addr
<1>8. CASE DrawScore
  BY <1>8, <1>a DEF DrawScore
<1>9. CASE CalculateCollision
  BY <1>9, <1>a DEF CalculateCollision
<1>10. CASE GameOver
  BY <1>10 DEF GameOver
<1>11. CASE CleanStaleHurdles
  <2>1. hurdle_count > 0 /\ hurdle_count' = hurdle_count - 1
    BY <1>0, <1>11 DEF CleanStaleHurdles, HurdlesLeft, GameInv, NoPhantomHurdle, DecByte
  <2>2. robo_score' = robo_score + 1 /\ robo_score' <= MaxScore
    BY <1>0, <1>11 DEF CleanStaleHurdles, ShortGame
  <2>3. robo_score' + hurdle_count' = robo_score + hurdle_count
    BY <1>0, <2>1, <2>2
  <2>4. UNCHANGED << SpawnLead, Frames, hurdle_spacing_count >>
    BY <1>11 DEF CleanStaleHurdles, SpawnLead, Frames
  <2>. QED
    BY <1>11, <2>2, <2>3, <2>4 DEF CleanStaleHurdles, FramesCounted
<1>12. CASE CleanStaleHurdlesLoop
  <2>1. UNCHANGED << SpawnLead, Frames, hurdle_spacing_count, hurdle_count, robo_score >>
    BY <1>12 DEF CleanStaleHurdlesLoop, SpawnLead, Frames
  <2>. QED
    BY <1>12, <2>1 DEF CleanStaleHurdlesLoop, FramesCounted
<1>13. CASE Wait
  BY <1>13, <1>a DEF Wait
<1>14. CASE GameOverFlicker
  BY <1>14 DEF GameOverFlicker
<1>15. CASE GameOverMessageDraw
  BY <1>15 DEF GameOverMessageDraw
<1>16. CASE Press
  BY <1>16, <1>a DEF Press
<1>17. CASE Irq
  BY <1>17, <1>a DEF Irq
<1>18. CASE ExitIrq
  BY <1>18, <1>a DEF ExitIrq
<1>19. CASE Nmi
  BY <1>19, <1>a DEF Nmi
<1>20. CASE ResetButton
  BY <1>20 DEF ResetButton
<1>21. CASE UNCHANGED vars
  BY <1>21, <1>a DEF vars
<1>. QED
  BY <1>1, <1>2, <1>3, <1>4, <1>5, <1>6, <1>7, <1>8, <1>9, <1>10, <1>11,
     <1>12, <1>13, <1>14, <1>15, <1>16, <1>17, <1>18, <1>19, <1>20, <1>21
     DEF Next, MainStep

(* A game that ends below a score in which the spawn position can come     *)
(* round keeps its course, from power-on or a reset on, whatever the       *)
(* button does: the hypothesis of the theorems above holds.                *)
THEOREM ShortGameKeepsCourse ==
  ASSUME Timing, ShortGame
  PROVE  Spec => [](SpawnLeads /\ SpawnClear /\ CourseInv)
<1>1. Init => FramesCounted
  BY DEF Init, FramesCounted, InFrame, Playing, Booted
<1>2. CourseInv /\ FramesCounted => SpawnLeads /\ SpawnClear
  <2>1. SUFFICES ASSUME CourseInv, FramesCounted, InFrame
                 PROVE  SpawnLead >= 15 /\ SpawnLead \in 15 .. (COLS - 2)
    BY DEF SpawnLeads, SpawnClear
  <2>2. CourseBase
    BY <2>1 DEF CourseInv, CourseBase, GameInv, Known
  <2>3. SpawnLead \in Cols
    BY <2>2, CourseTypes, GapStep DEF SpawnLead
  <2>. QED
    BY <2>1, <2>2, <2>3, CourseTypes DEF FramesCounted, Cols
<1>3. FramesCounted => SpawnLeads
  BY DEF FramesCounted, SpawnLeads
<1>. QED
  BY <1>1, <1>2, <1>3, CourseInvInit, CourseInvStep, FramesStep, PTL DEF Spec

(* In such a game, whatever interrupts fall where, the robot meets no      *)
(* stale copy, hurdle_count is the number of hurdles in the list, and the  *)
(* bytes implement the rules.                                              *)
THEOREM ShortGameSound ==
  ASSUME Timing, ShortGame
  PROVE  Spec => []NoPhantomHurdle /\ []HurdleListSound /\ ImplementsRules
<1>1. CourseInv => NoPhantomHurdle
  BY DEF CourseInv, GameInv
<1>. QED
  BY <1>1, ShortGameKeepsCourse, ListSound, GameImplementsRules, PTL

(***************************************************************************)
(* The picture: that one robot is on the display, that the digits are the  *)
(* score's and the message is whole, for displays of any width and games   *)
(* of any length, whatever the button and the reset do; and that the       *)
(* hurdles are those of the list, while these keep their course.           *)
(*                                                                         *)
(* Each of them rests on what the cells that are not the robot's, the      *)
(* score's, the message's or a hurdle's can still hold from the frame      *)
(* before, and on the window, the robot and the score moving in step.      *)
(***************************************************************************)
col == robo_position.col
digits == robo_score_display_position

\* The game's own invariants, which drawing cannot disturb.
GameKnown == TypeOK /\ ListInBounds /\ SameGameEveryTime /\ ScoreFollows

ScreenTypes ==
  ground \in [Cols -> Sprites] /\ air \in [Cols -> Sprites] /\ window \in Cols

\* From the first move of a frame until the robot is printed.
Moving == main \in {"handle_robo_jump_time", "draw_robo_sprite_redraw"}
Over == main \in {"game_over", "game_over_message_draw", "game_over_loop"}

\* The robot is in the second column of the window, and the score beside it.
WindowFollows ==
  /\ main = "draw_init_screen" => window = 0
  /\ Booted /\ ~Moving => col = NextCol(window)
  /\ Moving => x = NextCol(window) /\ col = NextCol(x)
  /\ Over => digits = Fourteen(col)

\* The display is empty, and then has the course and one robot in its lower row.
FirstScreen ==
  /\ main = "draw_init_screen" => \A c \in Cols : ground[c] = "blank" /\ air[c] = "blank"
  /\ main = "draw_init_course" =>
       /\ a = IF init_draw_cursor = 0 THEN 0 ELSE init_draw_cursor - 1
       /\ \A c \in Cols : air[c] = "blank" /\ (ground[c] = "robo" => c = 2)

Base == GameKnown /\ ScreenTypes /\ WindowFollows /\ FirstScreen

\* Drawing adds nothing to what the game does.
LEMMA DrawingIsAStep == [ScreenNext]_<< vars, screen >> => [Next]_vars
  BY DEF ScreenNext, ClearDisplay, DrawCourseChar, DrawSpawnCell, DrawRobot, DrawDigits,
         DrawMessageChar, Undrawn, Next, MainStep

\* The invariants of the game hold of the drawn game.
LEMMA GameKnownStep == GameKnown /\ [ScreenNext]_<< vars, screen >> => GameKnown'
  BY DrawingIsAStep, TypeStep, BoundsStep, SameGameStep, ScoreStep DEF GameKnown

LEMMA BaseInit == ScreenInit => Base
<1> SUFFICES ASSUME ScreenInit PROVE Base
  OBVIOUS
<1>1. GameKnown
  BY TypeInit DEF ScreenInit, Init, GameKnown, SameGameEveryTime, ScoreFollows, ScoreInStep
<1>. QED
  BY <1>1, ColOps
     DEF ScreenInit, Init, Base, ScreenTypes, Sprites, WindowFollows, FirstScreen, Booted,
         Moving, Over

\* Window, robot and score move in step, and the first screen is drawn as described.
LEMMA BaseStep == Base /\ [ScreenNext]_<< vars, screen >> => Base'
<1> SUFFICES ASSUME Base, [ScreenNext]_<< vars, screen >> PROVE Base'
  OBVIOUS
<1>0. /\ ground \in [Cols -> Sprites] /\ air \in [Cols -> Sprites] /\ window \in Cols
      /\ robo_position \in Addr /\ init_draw_cursor \in Cols /\ GameKnown'
      /\ COLS \in Nat /\ COLS > 17
  BY GameKnownStep, GameAssumption DEF Base, GameKnown, TypeOK, ScreenTypes, GameAssumption
<1> USE DEF Base, ScreenTypes, WindowFollows, FirstScreen, Booted, Moving, Over, At,
            course, scoring, regs, button, loop, screen, col, digits
<1>1. CASE ClearDisplay
  BY <1>0, <1>1, ColOps DEF ClearDisplay, Bootstrap, Sprites
<1>2. CASE DrawCourseChar
  <2>1. ScreenTypes'
    BY <1>0, <1>2 DEF DrawCourseChar, PrintAt, Sprites
  <2>2. WindowFollows'
    BY <1>2 DEF DrawCourseChar, DrawInitCourse
  <2>3. FirstScreen'
    BY <1>0, <1>2
       DEF DrawCourseChar, DrawInitCourse, PrintAt, GameKnown, SameGameEveryTime, Cols, NextCol
  <2>. QED
    BY <1>0, <2>1, <2>2, <2>3
<1>3. CASE DrawSpawnCell
  <2>1. ScreenTypes'
    BY <1>0, <1>3 DEF DrawSpawnCell, PrintAt, Sprites
  <2>. QED
    BY <1>0, <1>3, <2>1 DEF DrawSpawnCell, DrawHurdle
<1>4. CASE DrawRobot
  <2>1. ScreenTypes'
    BY <1>0, <1>4, ColOps DEF DrawRobot, ErasedAir, Sprites
  <2>. QED
    BY <1>0, <1>4, <2>1 DEF DrawRobot, DrawRoboSpriteRedraw, Addr
<1>5. CASE DrawDigits
  <2>1. ScreenTypes'
    BY <1>0, <1>5 DEF DrawDigits, Sprites
  <2>. QED
    BY <1>0, <1>5, <2>1 DEF DrawDigits, DrawScore
<1>6. CASE DrawMessageChar
  <2>1. ScreenTypes'
    BY <1>0, <1>6 DEF DrawMessageChar, PrintAt, Sprites
  <2>. QED
    BY <1>0, <1>6, <2>1 DEF DrawMessageChar, GameOverMessageDraw
<1>7. CASE Undrawn
  <2>1. CASE DrawInitScreen /\ UNCHANGED screen
    BY <1>0, <2>1 DEF DrawInitScreen, NextCol
  <2>2. CASE DrawRoboSprite /\ UNCHANGED screen
    BY <1>0, <2>2 DEF DrawRoboSprite
  <2>3. CASE HandleRoboJumpTime /\ UNCHANGED screen
    BY <1>0, <2>3 DEF HandleRoboJumpTime, Addr
  <2>4. CASE (CalculateCollision \/ CleanStaleHurdles) /\ UNCHANGED screen
    BY <1>0, <2>4 DEF CalculateCollision, CleanStaleHurdles
  <2>5. CASE GameOver /\ UNCHANGED screen
    BY <1>0, <2>5 DEF GameOver, GameKnown, ScoreFollows, ScoreInStep, Fourteen
  <2>6. CASE (CleanStaleHurdlesLoop \/ Wait \/ GameOverFlicker) /\ UNCHANGED screen
    BY <1>0, <2>6 DEF CleanStaleHurdlesLoop, Wait, GameOverFlicker
  <2>7. CASE (Press \/ Irq \/ ExitIrq \/ Nmi) /\ UNCHANGED screen
    BY <1>0, <2>7 DEF Press, Irq, ExitIrq, Nmi
  <2>8. CASE ResetButton /\ UNCHANGED screen
    BY <1>0, <2>8 DEF ResetButton
  <2>. QED
    BY <1>7, <2>1, <2>2, <2>3, <2>4, <2>5, <2>6, <2>7, <2>8 DEF Undrawn
<1>8. CASE UNCHANGED << vars, screen >>
  BY <1>0, <1>8 DEF vars
<1>. QED
  BY <1>1, <1>2, <1>3, <1>4, <1>5, <1>6, <1>7, <1>8 DEF ScreenNext

-----------------------------------------------------------------------------
(* The robot.  Before it is printed, what is left of it is in the column   *)
(* it came from, which is erased in both rows; the first screen's robot is *)
(* one column further right.                                               *)

RobotOnlyAt(k) == \A c \in Cols : ground[c] = "robo" \/ air[c] = "robo" => c = k

\* The frame after draw_init_screen, in which the robot on the display is a column off.
Starting ==
  /\ hurdle_position[0] = Empty
  /\ hurdle_spacing_count = IF main = "draw_hurdle" THEN 0 ELSE 1

\* The robot is printed where robo_drawn says.
Printed ==
  /\ (ground[col] = "robo") <=> (robo_drawn.row = 2)
  /\ (air[col] = "robo") <=> (robo_drawn.row = 1)

RobotKnown ==
  /\ main \in {"draw_hurdle", "draw_robo_sprite", "handle_robo_jump_time",
               "draw_robo_sprite_redraw"} =>
       \/ RobotOnlyAt(NextCol(window))
       \/ Starting /\ RobotOnlyAt(NextCol(NextCol(window)))
  /\ Drawn => RobotOnlyAt(col) /\ robo_drawn.col = col /\ (FirstFrame \/ Printed)
  /\ main = "jump_check" => hurdle_position[0] # Empty
  /\ main = "clean_stale_hurdles_loop" => Printed

\* What each step leaves of the robot on the display.
LEMMA RobotStep ==
  ASSUME 1 < HURDLE_SPACING, 2 * HURDLE_SPACING <= BYTE
  PROVE  Base /\ RobotKnown /\ [ScreenNext]_<< vars, screen >> => RobotKnown'
<1> SUFFICES ASSUME Base, RobotKnown, [ScreenNext]_<< vars, screen >> PROVE RobotKnown'
  OBVIOUS
<1>0. /\ ground \in [Cols -> Sprites] /\ air \in [Cols -> Sprites] /\ window \in Cols
      /\ robo_position \in Addr /\ robo_drawn \in Addr /\ init_draw_cursor \in Cols
      /\ digits \in Cols /\ hurdle_position \in [Slots -> Cols \cup {Empty}]
      /\ hurdle_position[0] \in Cols \cup {Empty}
      /\ COLS \in Nat /\ COLS > 17
  BY GameAssumption, SlotOps DEF Base, GameKnown, TypeOK, ScreenTypes, GameAssumption, digits
<1> USE DEF RobotKnown, RobotOnlyAt, Starting, Printed, FirstFrame, Drawn, At, course,
            scoring, regs, button, loop, screen, col, digits
<1>1. CASE ClearDisplay
  BY <1>0, <1>1 DEF ClearDisplay, Bootstrap
<1>2. CASE DrawCourseChar
  <2>1. CASE main' = "draw_hurdle"
    <3>1. window = 0 /\ a # 1 /\ hurdle_position[0] = Empty /\ hurdle_spacing_count = 0
      BY <1>0, <1>2, <2>1, SlotOps
         DEF DrawCourseChar, DrawInitCourse, Base, WindowFollows, FirstScreen, GameKnown,
             SameGameEveryTime, Booted, Moving, NextCol, Cols
    <3>2. NextCol(NextCol(window)) = 2
      BY <1>0, <3>1 DEF NextCol
    <3>3. \A c \in Cols : ground'[c] = "robo" \/ air'[c] = "robo" => c = 2
      BY <1>0, <1>2, <3>1
         DEF DrawCourseChar, DrawInitCourse, PrintAt, Base, FirstScreen, GameKnown,
             SameGameEveryTime
    <3>. QED
      BY <1>2, <2>1, <3>1, <3>2, <3>3 DEF DrawCourseChar, DrawInitCourse
  <2>2. CASE main' # "draw_hurdle"
    BY <1>2, <2>2 DEF DrawCourseChar, DrawInitCourse
  <2>. QED
    BY <2>1, <2>2
<1>3. CASE DrawSpawnCell
  <2>1. \A c \in Cols : /\ ground'[c] = "robo" => ground[c] = "robo"
                        /\ air'[c] = air[c]
    BY <1>0, <1>3 DEF DrawSpawnCell, PrintAt
  <2>2. Starting => Starting'
    <3>1. ASSUME hurdle_spacing_count = 0 PROVE ~HurdleDue
      BY <3>1, GameAssumption DEF HurdleDue, BelowSpacing, IncByte, GameAssumption
    <3>. QED
      BY <1>3, <3>1, GameAssumption
         DEF DrawSpawnCell, DrawHurdle, SpawnHurdle, SpawnGround, IncByte, GameAssumption
  <2>. QED
    BY <1>3, <2>1, <2>2 DEF DrawSpawnCell, DrawHurdle
<1>4. CASE DrawRobot
  <2>1. /\ x = NextCol(window) /\ col = NextCol(x) /\ x # col /\ x \in Cols /\ col \in Cols
        /\ main = "draw_robo_sprite_redraw"
    <3>1. /\ main = "draw_robo_sprite_redraw" /\ col \in Cols
          /\ x = NextCol(window) /\ col = NextCol(x)
      BY <1>0, <1>4 DEF DrawRobot, DrawRoboSpriteRedraw, Base, WindowFollows, Moving, Addr
    <3>2. x \in Cols
      BY <1>0, <3>1, ColOps
    <3>3. NextCol(x) # x
      BY <1>0, <3>2 DEF NextCol, Cols
    <3>. QED
      BY <3>1, <3>2, <3>3
  <2>2. RobotOnlyAt(x) \/ (Starting /\ RobotOnlyAt(col))
    BY <2>1
  <2>3. /\ col' = col /\ robo_drawn' = robo_position /\ main' = "draw_score"
        /\ UNCHANGED << hurdle_position, hurdle_spacing_count >>
    BY <1>0, <1>4 DEF DrawRobot, DrawRoboSpriteRedraw, Addr
  <2>4. \A c \in Cols \ {col} : ground'[c] # "robo" /\ air'[c] # "robo"
    BY <1>0, <1>4, <2>1, <2>2 DEF DrawRobot, ErasedAir
  <2>5. RobotOnlyAt(x) => Printed'
    BY <1>0, <1>4, <2>1, <2>3 DEF DrawRobot, ErasedAir, Addr
  <2>6. Starting => FirstFrame'
    BY <2>1, <2>3
  <2>. QED
    BY <2>2, <2>3, <2>4, <2>5, <2>6
<1>5. CASE DrawDigits
  <2>1. NextCol(digits) = Fourteen(col) /\ main = "draw_score"
    BY <1>5 DEF DrawDigits, DrawScore, Base, GameKnown, ScoreFollows
  <2>2. col # digits /\ col # NextCol(digits) /\ col # PrevCol(digits) /\ col \in Cols
    BY <1>0, <2>1 DEF NextCol, PrevCol, Fourteen, Cols, Addr
  <2>3. air'[col] = air[col] /\ \A c \in Cols : air'[c] = "robo" => air[c] = "robo"
    BY <1>0, <1>5, <2>2 DEF DrawDigits, OldScore
  <2>. QED
    BY <1>5, <2>1, <2>3 DEF DrawDigits, DrawScore
<1>6. CASE DrawMessageChar
  BY <1>6 DEF DrawMessageChar, GameOverMessageDraw
<1>7. CASE Undrawn
  <2>1. CASE DrawInitScreen /\ UNCHANGED screen
    BY <2>1 DEF DrawInitScreen
  <2>2. CASE DrawRoboSprite /\ UNCHANGED screen
    BY <2>2 DEF DrawRoboSprite
  <2>3. CASE HandleRoboJumpTime /\ UNCHANGED screen
    BY <2>3 DEF HandleRoboJumpTime
  <2>4. CASE CalculateCollision /\ UNCHANGED screen
    BY <1>0, <2>4, ColOps DEF CalculateCollision, Addr
  <2>5. CASE (GameOver \/ CleanStaleHurdles) /\ UNCHANGED screen
    BY <2>5 DEF GameOver, CleanStaleHurdles
  <2>6. CASE CleanStaleHurdlesLoop /\ UNCHANGED screen
    BY <2>6 DEF CleanStaleHurdlesLoop
  <2>7. CASE Wait /\ UNCHANGED screen
    BY <1>0, <2>7 DEF Wait, Base, WindowFollows, Booted, Moving
  <2>8. CASE GameOverFlicker /\ UNCHANGED screen
    BY <2>8 DEF GameOverFlicker
  <2>9. CASE (Press \/ Irq \/ ExitIrq \/ Nmi) /\ UNCHANGED screen
    BY <2>9 DEF Press, Irq, ExitIrq, Nmi
  <2>10. CASE ResetButton /\ UNCHANGED screen
    BY <2>10 DEF ResetButton
  <2>. QED
    BY <1>7, <2>1, <2>2, <2>3, <2>4, <2>5, <2>6, <2>7, <2>8, <2>9, <2>10 DEF Undrawn
<1>8. CASE UNCHANGED << vars, screen >>
  BY <1>8 DEF vars
<1>. QED
  BY <1>1, <1>2, <1>3, <1>4, <1>5, <1>6, <1>7, <1>8 DEF ScreenNext

(* One robot is on the display in every frame but the first, on displays   *)
(* of any width: erasing behind it leaves no afterimage when it jumps,     *)
(* lands or passes the end of the row, and no reset leaves one.            *)
THEOREM RobotSeenOnce ==
  ASSUME 1 < HURDLE_SPACING, 2 * HURDLE_SPACING <= BYTE
  PROVE  ScreenSpec => []OneRobot
<1>1. ScreenInit => Base /\ RobotKnown
  BY BaseInit DEF ScreenInit, Init, RobotKnown, Drawn
<1>2. Base /\ RobotKnown /\ [ScreenNext]_<< vars, screen >> => (Base /\ RobotKnown)'
  BY BaseStep, RobotStep
<1>3. ASSUME Base, RobotKnown PROVE OneRobot
  <2>1. /\ COLS \in Nat /\ COLS > 17 /\ window \in Cols /\ robo_drawn \in Addr
    BY <1>3, GameAssumption DEF Base, GameKnown, ScreenTypes, TypeOK, GameAssumption
  <2>2. NextCol(window) = (window + 1) % COLS
    <3>1. CASE window + 1 = COLS
      BY <2>1, <3>1 DEF NextCol, Cols
    <3>2. CASE window + 1 # COLS
      BY <2>1, <3>2 DEF NextCol, Cols
    <3>. QED
      BY <3>1, <3>2
  <2>3. SUFFICES ASSUME Drawn, ~FirstFrame PROVE RobotAlone
    BY DEF OneRobot
  <2>4. robo_drawn.col = (window + 1) % COLS
    BY <1>3, <2>2, <2>3 DEF Base, WindowFollows, RobotKnown, Drawn, Booted, Moving
  <2>5. /\ RobotOnlyAt(col) /\ robo_drawn.col = col /\ Printed /\ col \in Cols
    BY <1>3, <2>1, <2>3 DEF RobotKnown, Addr, col
  <2>6. /\ Cells(ground, "robo") = IF robo_drawn.row = 2 THEN {robo_drawn.col} ELSE {}
        /\ Cells(air, "robo") = IF robo_drawn.row = 1 THEN {robo_drawn.col} ELSE {}
    BY <2>5 DEF Cells, RobotOnlyAt, Printed
  <2>. QED
    BY <2>4, <2>6 DEF RobotAlone
<1>. QED
  BY <1>1, <1>2, <1>3, PTL DEF ScreenSpec

-----------------------------------------------------------------------------
(* The score.  Digits are in the two cells of the score or nowhere, which  *)
(* is why erasing those two before the next frame is enough.               *)

DigitsKnown ==
  /\ Booted => \A c \in Cols : air[c] = "digit" => c \in OldScore
  /\ main \in {"calculate_collision", "jump_check", "game_over"} =>
       /\ air[digits] = "digit"
       /\ (air[PrevCol(digits)] = "digit") <=> (robo_score >= 10)

\* What each step leaves of the score on the display.
LEMMA DigitsStep ==
  Base /\ DigitsKnown /\ [ScreenNext]_<< vars, screen >> => DigitsKnown'
<1> SUFFICES ASSUME Base, DigitsKnown, [ScreenNext]_<< vars, screen >>
             PROVE  DigitsKnown'
  OBVIOUS
<1>0. /\ air \in [Cols -> Sprites] /\ digits \in Cols /\ COLS \in Nat /\ COLS > 17
  BY GameAssumption DEF Base, GameKnown, TypeOK, ScreenTypes, GameAssumption, digits
<1> USE DEF DigitsKnown, OldScore, Booted, At, course, scoring, regs, button, loop, screen,
            digits
<1>1. CASE ClearDisplay
  BY <1>1 DEF ClearDisplay, Bootstrap
<1>2. CASE DrawCourseChar
  BY <1>2 DEF DrawCourseChar, DrawInitCourse, PrintAt
<1>3. CASE DrawSpawnCell
  BY <1>3 DEF DrawSpawnCell, DrawHurdle, PrintAt
<1>4. CASE DrawRobot
  <2>1. \A c \in Cols : air'[c] = "digit" => air[c] = "digit"
    BY <1>0, <1>4 DEF DrawRobot, ErasedAir
  <2>. QED
    BY <1>4, <2>1 DEF DrawRobot, DrawRoboSpriteRedraw
<1>5. CASE DrawDigits
  <2>1. /\ digits' = NextCol(digits) /\ main' = "calculate_collision"
        /\ robo_score' = robo_score /\ main = "draw_score"
    BY <1>5 DEF DrawDigits, DrawScore, NextScorePosition
  <2>2. /\ NextCol(digits) \in Cols /\ PrevCol(NextCol(digits)) = digits
        /\ NextCol(digits) # digits
    BY <1>0 DEF NextCol, PrevCol, Cols
  <2>3. \A c \in Cols : (air'[c] = "digit") <=>
          (c = NextCol(digits) \/ (c = digits /\ robo_score >= 10))
    BY <1>0, <1>5, <2>1 DEF DrawDigits
  <2>. QED
    BY <1>0, <2>1, <2>2, <2>3
<1>6. CASE DrawMessageChar
  <2>1. \A c \in Cols : air'[c] = "digit" => air[c] = "digit"
    BY <1>0, <1>6 DEF DrawMessageChar, PrintAt
  <2>. QED
    BY <1>6, <2>1 DEF DrawMessageChar, GameOverMessageDraw
<1>7. CASE Undrawn
  <2>1. CASE DrawInitScreen /\ UNCHANGED screen
    BY <2>1 DEF DrawInitScreen, Base, FirstScreen
  <2>2. CASE (DrawRoboSprite \/ HandleRoboJumpTime) /\ UNCHANGED screen
    BY <2>2 DEF DrawRoboSprite, HandleRoboJumpTime
  <2>3. CASE (CalculateCollision \/ GameOver) /\ UNCHANGED screen
    BY <2>3 DEF CalculateCollision, GameOver
  <2>4. CASE (CleanStaleHurdles \/ CleanStaleHurdlesLoop \/ Wait) /\ UNCHANGED screen
    BY <2>4 DEF CleanStaleHurdles, CleanStaleHurdlesLoop, Wait
  <2>5. CASE GameOverFlicker /\ UNCHANGED screen
    BY <2>5 DEF GameOverFlicker
  <2>6. CASE (Press \/ Irq \/ ExitIrq \/ Nmi) /\ UNCHANGED screen
    BY <2>6 DEF Press, Irq, ExitIrq, Nmi
  <2>7. CASE ResetButton /\ UNCHANGED screen
    BY <2>7 DEF ResetButton
  <2>. QED
    BY <1>7, <2>1, <2>2, <2>3, <2>4, <2>5, <2>6, <2>7 DEF Undrawn
<1>8. CASE UNCHANGED << vars, screen >>
  BY <1>8 DEF vars
<1>. QED
  BY <1>1, <1>2, <1>3, <1>4, <1>5, <1>6, <1>7, <1>8 DEF ScreenNext

\* The robot's column and the one left of the score's, as the window's columns.
LEMMA ScoreInWindow ==
  ASSUME NEW w \in Cols
  PROVE  /\ Fourteen(NextCol(w)) = (w + 15) % COLS
         /\ PrevCol(Fourteen(NextCol(w))) = (w + 14) % COLS
         /\ Fourteen(NextCol(w)) \in Cols /\ PrevCol(Fourteen(NextCol(w))) \in Cols
<1>1. COLS \in Nat \ {0} /\ COLS > 17
  BY GameAssumption DEF GameAssumption
<1>2. /\ Fourteen(NextCol(w)) = IF w + 15 < COLS THEN w + 15 ELSE w + 15 - COLS
      /\ PrevCol(Fourteen(NextCol(w))) = IF w + 14 < COLS THEN w + 14 ELSE w + 14 - COLS
  BY <1>1 DEF Fourteen, NextCol, PrevCol, Cols
<1>3. PICK i \in 0 .. (2 * COLS - 1), j \in 0 .. (2 * COLS - 1) : i = w + 15 /\ j = w + 14
  BY <1>1 DEF Cols
<1>4. /\ i % COLS = IF i < COLS THEN i ELSE i - COLS
      /\ j % COLS = IF j < COLS THEN j ELSE j - COLS
  BY <1>1, Wrap
<1>. QED
  BY <1>1, <1>2, <1>3, <1>4 DEF Cols

(* The digits on the display are the score's and no other, in the last two *)
(* columns of the window, for any score and any width.                     *)
THEOREM ScoreSeen == ScreenSpec => []ScoreShown
<1>1. ScreenInit => Base /\ DigitsKnown
  BY BaseInit DEF ScreenInit, Init, DigitsKnown, Booted
<1>2. Base /\ DigitsKnown /\ [ScreenNext]_<< vars, screen >> => (Base /\ DigitsKnown)'
  BY BaseStep, DigitsStep
<1>3. ASSUME Base, DigitsKnown PROVE ScoreShown
  <2>1. SUFFICES ASSUME main \in {"calculate_collision", "jump_check", "game_over"}
                 PROVE  Cells(air, "digit") =
                          {(window + 15) % COLS}
                            \cup (IF robo_score >= 10 THEN {(window + 14) % COLS} ELSE {})
    BY DEF ScoreShown
  <2>2. digits = Fourteen(NextCol(window)) /\ window \in Cols
    BY <1>3, <2>1
       DEF Base, ScreenTypes, WindowFollows, GameKnown, ScoreFollows, ScoreInStep, Booted,
           Moving, Over, Fourteen, col, digits
  <2>3. /\ digits = (window + 15) % COLS /\ PrevCol(digits) = (window + 14) % COLS
        /\ digits \in Cols /\ PrevCol(digits) \in Cols
    BY <2>2, ScoreInWindow
  <2>4. /\ \A c \in Cols : air[c] = "digit" => c \in {digits, PrevCol(digits)}
        /\ air[digits] = "digit"
        /\ (air[PrevCol(digits)] = "digit") <=> (robo_score >= 10)
    BY <1>3, <2>1 DEF DigitsKnown, Booted, OldScore, digits
  <2>5. Cells(air, "digit") =
          {digits} \cup (IF robo_score >= 10 THEN {PrevCol(digits)} ELSE {})
    BY <2>3, <2>4 DEF Cells
  <2>. QED
    BY <2>3, <2>5
<1>. QED
  BY <1>1, <1>2, <1>3, PTL DEF ScreenSpec

-----------------------------------------------------------------------------
(* The message, which is short enough to leave the score alone.            *)

Covered(n) == { (col + i) % COLS : i \in 0 .. (n - 1) }

MessageKnown ==
  /\ Booted /\ main \notin {"game_over_message_draw", "game_over_loop"} =>
       \A c \in Cols : air[c] # "text"
  /\ main \in {"game_over", "game_over_message_draw", "game_over_loop"} =>
       air[digits] = "digit"
  /\ main = "game_over_message_draw" =>
       /\ x \in 0 .. MESSAGE_CHARS /\ y = (col + x) % COLS
       /\ Cells(air, "text") = Covered(x)
  /\ main = "game_over_loop" => Cells(air, "text") = Covered(MESSAGE_CHARS)

\* The cells above the robot and thirteen to its right are not the score's.
LEMMA MessageCells ==
  ASSUME NEW c \in Cols, NEW k \in 0 .. 14
  PROVE  /\ (c + k) % COLS = IF c + k < COLS THEN c + k ELSE c + k - COLS
         /\ (c + k) % COLS \in Cols
         /\ k < 14 => (c + k) % COLS # Fourteen(c)
         /\ k < 14 => NextCol((c + k) % COLS) = (c + (k + 1)) % COLS
<1>1. COLS \in Nat \ {0} /\ COLS > 17 /\ c \in Nat /\ c < COLS
  BY GameAssumption DEF GameAssumption, Cols
<1>2. PICK i \in 0 .. (2 * COLS - 1), j \in 0 .. (2 * COLS - 1) : i = c + k /\ j = c + (k + 1)
  BY <1>1
<1>3. /\ i % COLS = IF i < COLS THEN i ELSE i - COLS
      /\ j % COLS = IF j < COLS THEN j ELSE j - COLS
  BY <1>1, Wrap
<1>a. (c + k) % COLS = i % COLS /\ (c + (k + 1)) % COLS = j % COLS
  BY <1>2, Zenon
<1>4. /\ (c + k) % COLS = IF c + k < COLS THEN c + k ELSE c + k - COLS
      /\ (c + (k + 1)) % COLS = IF c + (k + 1) < COLS THEN c + (k + 1) ELSE c + (k + 1) - COLS
  BY <1>1, <1>2, <1>3, <1>a
<1>5. (c + k) % COLS \in Cols
  BY <1>1, <1>4 DEF Cols
<1>6. k < 14 => (c + k) % COLS # Fourteen(c)
  BY <1>1, <1>4 DEF Fourteen
<1>7. k < 14 => NextCol((c + k) % COLS) = (c + (k + 1)) % COLS
  BY <1>1, <1>4 DEF NextCol
<1>. QED
  BY <1>4, <1>5, <1>6, <1>7

\* What each step writes of the message.
LEMMA MessageStep ==
  ASSUME MESSAGE_CHARS <= 14
  PROVE  Base /\ DigitsKnown /\ MessageKnown /\ [ScreenNext]_<< vars, screen >>
           => MessageKnown'
<1> SUFFICES ASSUME Base, DigitsKnown, MessageKnown, [ScreenNext]_<< vars, screen >>
             PROVE  MessageKnown'
  OBVIOUS
<1>0. /\ air \in [Cols -> Sprites] /\ digits \in Cols /\ COLS \in Nat /\ COLS > 17
      /\ robo_position \in Addr /\ col \in Cols /\ MESSAGE_CHARS \in Nat
  BY GameAssumption
     DEF Base, GameKnown, TypeOK, ScreenTypes, GameAssumption, Addr, digits, col
<1> USE DEF MessageKnown, Booted, At, course, scoring, regs, button, loop, screen, digits,
            col, Covered, Cells
<1>1. CASE ClearDisplay
  BY <1>1 DEF ClearDisplay, Bootstrap
<1>2. CASE DrawCourseChar
  BY <1>2 DEF DrawCourseChar, DrawInitCourse, PrintAt
<1>3. CASE DrawSpawnCell
  BY <1>3 DEF DrawSpawnCell, DrawHurdle, PrintAt
<1>4. CASE DrawRobot
  <2>1. \A c \in Cols : air'[c] = "text" => air[c] = "text"
    BY <1>0, <1>4 DEF DrawRobot, ErasedAir
  <2>. QED
    BY <1>4, <2>1 DEF DrawRobot, DrawRoboSpriteRedraw
<1>5. CASE DrawDigits
  <2>1. \A c \in Cols : air'[c] = "text" => air[c] = "text"
    BY <1>0, <1>5 DEF DrawDigits
  <2>. QED
    BY <1>5, <2>1 DEF DrawDigits, DrawScore
<1>6. CASE DrawMessageChar
  <2>1. /\ main = "game_over_message_draw" /\ UNCHANGED << robo_position, digits >>
        /\ x \in 0 .. 14 /\ y = (col + x) % COLS /\ Cells(air, "text") = Covered(x)
        /\ digits = Fourteen(col) /\ air[digits] = "digit"
    BY <1>0, <1>6
       DEF DrawMessageChar, GameOverMessageDraw, Base, WindowFollows, Over
  <2>2. CASE x < MESSAGE_CHARS
    <3>1. /\ y \in Cols /\ y # digits /\ NextCol(y) = (col + (x + 1)) % COLS
      BY <1>0, <2>1, <2>2, MessageCells
    <3>2. /\ x' = x + 1 /\ y' = NextCol(y) /\ main' = "game_over_message_draw"
          /\ air' = [air EXCEPT ![y] = "text"]
      BY <1>6, <2>1, <2>2 DEF DrawMessageChar, GameOverMessageDraw, PrintAt
    <3>3. Cells(air', "text") = Cells(air, "text") \cup {y}
      BY <1>0, <3>1, <3>2
    <3>4. Covered(x + 1) = Covered(x) \cup {y}
      BY <2>1
    <3>. QED
      BY <1>0, <2>1, <2>2, <3>1, <3>2, <3>3, <3>4
  <2>3. CASE x = MESSAGE_CHARS
    BY <1>6, <2>1, <2>3 DEF DrawMessageChar, GameOverMessageDraw
  <2>. QED
    BY <1>6, <2>2, <2>3 DEF DrawMessageChar, GameOverMessageDraw
<1>7. CASE Undrawn
  <2>1. CASE DrawInitScreen /\ UNCHANGED screen
    BY <2>1 DEF DrawInitScreen, Base, FirstScreen
  <2>2. CASE (DrawRoboSprite \/ HandleRoboJumpTime) /\ UNCHANGED screen
    BY <2>2 DEF DrawRoboSprite, HandleRoboJumpTime
  <2>3. CASE CalculateCollision /\ UNCHANGED screen
    BY <2>3 DEF CalculateCollision
  <2>4. CASE GameOver /\ UNCHANGED screen
    BY <2>4 DEF GameOver, DigitsKnown
  <2>5. CASE (CleanStaleHurdles \/ CleanStaleHurdlesLoop \/ Wait) /\ UNCHANGED screen
    BY <2>5 DEF CleanStaleHurdles, CleanStaleHurdlesLoop, Wait
  <2>6. CASE GameOverFlicker /\ UNCHANGED screen
    <3>1. (col + 0) % COLS = col
      <4>1. 0 \in 0 .. 14 /\ col + 0 = col /\ col + 0 < COLS
        BY <1>0 DEF Cols
      <4>2. (col + 0) % COLS = IF col + 0 < COLS THEN col + 0 ELSE col + 0 - COLS
        BY <1>0, <4>1, MessageCells, Zenon
      <4>. QED
        BY <4>1, <4>2, Zenon
    <3>2. Covered(0) = {}
      OBVIOUS
    <3>. QED
      BY <1>0, <2>6, <3>1, <3>2 DEF GameOverFlicker, MessageStart
  <2>7. CASE (Press \/ Irq \/ ExitIrq \/ Nmi) /\ UNCHANGED screen
    BY <2>7 DEF Press, Irq, ExitIrq, Nmi
  <2>8. CASE ResetButton /\ UNCHANGED screen
    BY <2>8 DEF ResetButton
  <2>. QED
    BY <1>7, <2>1, <2>2, <2>3, <2>4, <2>5, <2>6, <2>7, <2>8 DEF Undrawn
<1>8. CASE UNCHANGED << vars, screen >>
  BY <1>8 DEF vars
<1>. QED
  BY <1>1, <1>2, <1>3, <1>4, <1>5, <1>6, <1>7, <1>8 DEF ScreenNext

(* At the end the message is in the display memory from the robot's column *)
(* on, across the end of the row if need be, and the score is still there: *)
(* any message of up to fourteen characters has room between the two.      *)
THEOREM MessageSeen ==
  ASSUME MESSAGE_CHARS <= 14
  PROVE  ScreenSpec => []MessageShown
<1>1. ScreenInit => Base /\ DigitsKnown /\ MessageKnown
  BY BaseInit DEF ScreenInit, Init, DigitsKnown, MessageKnown, Booted
<1>2. Base /\ DigitsKnown /\ MessageKnown /\ [ScreenNext]_<< vars, screen >>
        => (Base /\ DigitsKnown /\ MessageKnown)'
  BY BaseStep, DigitsStep, MessageStep
<1>3. ASSUME Base, MessageKnown PROVE MessageShown
  <2>1. digits \in Cols
    BY <1>3 DEF Base, GameKnown, TypeOK, digits
  <2>. QED
    BY <1>3, <2>1 DEF MessageKnown, MessageShown, Cells, Covered, col, digits
<1>. QED
  BY <1>1, <1>2, <1>3, PTL DEF ScreenSpec
-----------------------------------------------------------------------------
(* The hurdles.  Between frames the cells that show a hurdle are those of  *)
(* the hurdles in the list, but for the cell the robot was printed in; the *)
(* robot erases the cell behind it, where no hurdle of the list can be as  *)
(* long as the spawn position is not there yet.                            *)

LiveCells == { Live(i) : i \in 0 .. (hurdle_count - 1) }

\* The robot's column in the frame that is on the display.
Behind == IF Moving THEN x ELSE col

HurdlesKnown ==
  /\ main = "draw_init_course" => \A c \in Cols : ground[c] # "hurdle"
  /\ InFrame => \A c \in Cols \ {Behind} : (ground[c] = "hurdle") <=> (c \in LiveCells)
  /\ main \in {"draw_score", "calculate_collision", "jump_check"} =>
       /\ robo_drawn.col = col
       /\ (ground[col] = "hurdle") <=> (col \in LiveCells /\ robo_drawn.row # 2)

\* The course and the picture, of which the steps below know.
ScreenKnown == Base /\ CourseInv /\ SpawnClear

\* The types the steps below need.
LEMMA KnownTypes ==
  ScreenKnown =>
    /\ CourseBase /\ Course
    /\ ground \in [Cols -> Sprites] /\ col \in Cols /\ Runner \in Cols
    /\ robo_position \in Addr /\ hurdle_spawn_position \in Cols
    /\ hurdle_count \in Nat /\ COLS \in Nat /\ COLS > 17
<1> SUFFICES ASSUME ScreenKnown
             PROVE  /\ CourseBase /\ Course
                    /\ ground \in [Cols -> Sprites] /\ col \in Cols /\ Runner \in Cols
                    /\ robo_position \in Addr /\ hurdle_spawn_position \in Cols
                    /\ hurdle_count \in Nat /\ COLS \in Nat /\ COLS > 17
  OBVIOUS
<1>1. CourseBase /\ Course
  BY DEF ScreenKnown, CourseInv, CourseBase, GameInv, Known
<1>. QED
  BY <1>1, CourseTypes DEF ScreenKnown, Base, ScreenTypes, col

LeadsWithin ==
  InFrame => \A i \in 0 .. (hurdle_count - 1) :
    /\ Live(i) \in Cols /\ Lead(i) \in Cols /\ hurdle_spacing_count \in Nat
    /\ Lead(i) + hurdle_spacing_count <= SpawnLead
    /\ SpawnLead \in 15 .. (COLS - 2)

\* No live hurdle is farther ahead than the spawn position.
LEMMA LeadsBounded == ScreenKnown => LeadsWithin
<1> SUFFICES ASSUME ScreenKnown, InFrame, NEW i \in 0 .. (hurdle_count - 1)
             PROVE  /\ Live(i) \in Cols /\ Lead(i) \in Cols /\ hurdle_spacing_count \in Nat
                    /\ Lead(i) + hurdle_spacing_count <= SpawnLead
                    /\ SpawnLead \in 15 .. (COLS - 2)
  BY DEF LeadsWithin
<1>1. CourseBase /\ CourseKnown /\ SpawnLead \in 15 .. (COLS - 2)
  BY KnownTypes DEF ScreenKnown, Course, SpawnClear
<1>2. PICK n \in Nat : n = hurdle_count
  <2>1. hurdle_count \in Nat
    BY <1>1, CourseTypes
  <2>. QED
    BY <2>1
<1>3. /\ i \in 0 .. (n - 1) /\ n - 1 \in 0 .. (n - 1) /\ n > 0 /\ i \in Nat
      /\ i = n - 1 \/ i < n - 1
  BY <1>2
<1>4. \A k \in 0 .. (n - 1) : Live(k) \in Cols /\ Lead(k) \in Cols
  BY <1>1, <1>2, CourseTypes, GapStep DEF CourseKnown, Lead
<1>5. Lead(i) <= Lead(n - 1)
  <2>1. CASE i = n - 1
    BY <1>3, <1>4, <2>1 DEF Cols
  <2>2. CASE i < n - 1
    BY <1>1, <1>2, <1>3, <1>4, <2>2 DEF CourseKnown, Cols
  <2>. QED
    BY <1>3, <2>1, <2>2
<1>6. Lead(n - 1) + hurdle_spacing_count \in 15 .. SpawnLead
  BY <1>1, <1>2, <1>3 DEF CourseKnown
<1>. QED
  BY <1>1, <1>3, <1>4, <1>5, <1>6, CourseTypes DEF Cols

\* draw_hurdle prints a hurdle where it adds one to the list, and never over one.
LEMMA SpawnShown ==
  ASSUME Timing, ScreenKnown, ScreenKnown', HurdlesKnown, DrawSpawnCell
  PROVE  HurdlesKnown'
<1> USE DEF DrawSpawnCell, DrawHurdle, At
<1>0. /\ InFrame /\ InFrame' /\ FrameOver /\ main = "draw_hurdle" /\ main' = "draw_robo_sprite"
      /\ Behind = col /\ Behind' = col
  BY DEF InFrame, FrameOver, Playing, Booted, Behind, Moving, col
<1>1. /\ SpawnCell \in Cols /\ hurdle_spawn_position' = SpawnCell
      /\ ground' = [ground EXCEPT ![SpawnCell] = IF HurdleDue THEN "hurdle" ELSE "ground"]
  BY KnownTypes, CourseTypes, ColOps DEF SpawnCell, PrintAt
<1>2. PICK n \in Nat : n = hurdle_count
  <2>1. hurdle_count \in Nat
    BY KnownTypes
  <2>. QED
    BY <2>1
<1>3. \A i : Live(i) = hurdle_position[i] /\ Live(i)' = hurdle_position'[i]
  BY <1>0 DEF Live, LiveSlot
<1>4. \A c \in Cols \ {col} : (ground[c] = "hurdle") <=> (c \in LiveCells)
  BY <1>0 DEF HurdlesKnown
<1>5. CASE SpawnHurdle
  <2>1. /\ n < HURDLE_POSITION_BYTES - 1 /\ hurdle_count' = n + 1
        /\ hurdle_position' = [hurdle_position EXCEPT ![n] = SpawnCell]
    <3>1. CourseKnown
      BY <1>0, KnownTypes DEF Course
    <3>. QED
      BY <1>2, <1>5, <3>1, KnownTypes, CourseTypes
         DEF SpawnHurdle, HurdleDue, AddHurdle, IncByte, CourseKnown, SpawnCell
  <2>2. n \in Slots /\ \A i \in 0 .. (n - 1) : i \in Slots /\ i # n
    BY <2>1, KnownTypes, CourseTypes DEF Slots
  <2>3. /\ \A i \in 0 .. (n - 1) : Live(i)' = Live(i)
        /\ Live(n)' = SpawnCell
    BY <1>3, <2>1, <2>2, KnownTypes, CourseTypes
  <2>4. LiveCells' = LiveCells \cup {SpawnCell}
    <3>1. LiveCells' = { Live(i)' : i \in 0 .. n }
      BY <2>1 DEF LiveCells
    <3>2. LiveCells = { Live(i) : i \in 0 .. (n - 1) }
      BY <1>2 DEF LiveCells
    <3>3. \A i : i \in 0 .. n <=> (i \in 0 .. (n - 1) \/ i = n)
      BY <1>2
    <3>. QED
      BY <2>3, <3>1, <3>2, <3>3
  <2>5. HurdleDue
    BY <1>5 DEF SpawnHurdle
  <2>6. \A c \in Cols \ {col} : (ground'[c] = "hurdle") <=> (c \in LiveCells')
    BY <1>1, <1>4, <2>4, <2>5, KnownTypes
  <2>. QED
    BY <1>0, <2>6 DEF HurdlesKnown
<1>6. CASE SpawnGround
  <2>1. /\ hurdle_count' = n /\ hurdle_position' = hurdle_position
        /\ hurdle_spacing_count' = IncByte(hurdle_spacing_count) /\ ~HurdleDue
    BY <1>2, <1>6 DEF SpawnGround
  <2>2. LiveCells' = LiveCells
    BY <1>2, <1>3, <2>1 DEF LiveCells
  <2>3. hurdle_spacing_count' > 0
    <3>1. CourseBase /\ CourseKnown /\ SpawnLead \in Cols
      BY <1>0, KnownTypes, GapStep DEF Course, SpawnLead
    <3>2. hurdle_spacing_count < COLS - 1
      BY <1>0, <3>1, SpacingBound
    <3>. QED
      BY <2>1, <3>1, <3>2, CourseTypes DEF IncByte, Timing
  <2>4. SpawnCell \notin LiveCells'
    <3>1. SUFFICES ASSUME NEW i \in 0 .. (n - 1), Live(i)' = SpawnCell PROVE FALSE
      BY <2>1 DEF LiveCells
    <3>2. Lead(i)' = SpawnLead'
      BY <1>1, <3>1 DEF Lead, SpawnLead
    <3>3. Lead(i)' + hurdle_spacing_count' <= SpawnLead' /\ Lead(i)' \in Cols
          /\ hurdle_spacing_count' \in Nat
      <4>1. (ScreenKnown => LeadsWithin)'
        BY LeadsBounded, PTL
      <4>. QED
        BY <1>0, <2>1, <3>1, <4>1 DEF LeadsWithin
    <3>. QED
      BY <2>3, <3>2, <3>3, KnownTypes DEF Cols
  <2>5. \A c \in Cols \ {col} : (ground'[c] = "hurdle") <=> (c \in LiveCells')
    BY <1>1, <1>4, <2>1, <2>2, <2>4, KnownTypes
  <2>. QED
    BY <1>0, <2>5 DEF HurdlesKnown
<1>. QED
  BY <1>5, <1>6

\* The cell behind the robot has no hurdle, and the one it stands on shows it only from
\* above.
LEMMA RobotShown ==
  ASSUME ScreenKnown, HurdlesKnown, DrawRobot
  PROVE  HurdlesKnown'
<1> USE DEF DrawRobot, DrawRoboSpriteRedraw, At
<1>0. /\ InFrame /\ main = "draw_robo_sprite_redraw" /\ main' = "draw_score"
      /\ Behind = x /\ Runner = col
  BY DEF InFrame, Playing, Booted, Behind, Moving, Runner, col
<1>1. /\ x \in Cols /\ col = NextCol(x) /\ col \in Cols /\ x # col
      /\ col' = col /\ robo_drawn' = robo_position /\ Behind' = col
  <2>1. x \in Cols /\ col = NextCol(x) /\ col \in Cols
    BY <1>0, KnownTypes, ColOps
       DEF ScreenKnown, Base, ScreenTypes, WindowFollows, Moving
  <2>2. x # col
    BY <2>1, KnownTypes DEF NextCol, Cols
  <2>3. col' = col
    BY KnownTypes DEF col, Addr
  <2>. QED
    BY <1>0, <2>1, <2>2, <2>3 DEF Behind, Moving
<1>2. \A i : Live(i)' = Live(i)
  BY <1>0 DEF Live, LiveSlot, course
<1>3. LiveCells' = LiveCells
  BY <1>2 DEF LiveCells, course
<1>4. x \notin LiveCells
  <2>1. SUFFICES ASSUME NEW i \in 0 .. (hurdle_count - 1), Live(i) = x PROVE FALSE
    BY DEF LiveCells
  <2>2. Lead(i) = COLS - 1
    <3>1. Gap(x, NextCol(x)) = COLS - 1
      BY <1>1, GapStep
    <3>. QED
      BY <1>0, <1>1, <2>1, <3>1 DEF Lead
  <2>. QED
    BY <1>0, <2>2, LeadsBounded, KnownTypes DEF LeadsWithin
<1>5. \A c \in Cols \ {x} : (ground[c] = "hurdle") <=> (c \in LiveCells)
  BY <1>0 DEF HurdlesKnown
<1>6. \A c \in Cols \ {col} : (ground'[c] = "hurdle") <=> (c \in LiveCells')
  BY <1>1, <1>3, <1>4, <1>5, KnownTypes DEF col
<1>7. (ground'[col] = "hurdle") <=> (col \in LiveCells' /\ robo_position.row # 2)
  BY <1>1, <1>3, <1>5, KnownTypes DEF col
<1>8. robo_drawn'.col = col
  BY <1>1 DEF col
<1>. QED
  BY <1>0, <1>1, <1>6, <1>7, <1>8 DEF HurdlesKnown

\* The hurdle the robot has jumped leaves list and display with the robot's own cell.
LEMMA PassedUnshown ==
  ASSUME ScreenKnown, HurdlesKnown, CleanStaleHurdles, UNCHANGED screen, GameInv
  PROVE  HurdlesKnown'
<1> USE DEF CleanStaleHurdles, At
<1>0. /\ InFrame /\ main = "jump_check" /\ main' = "clean_stale_hurdles_loop"
      /\ Behind = col /\ Behind' = col
  BY DEF InFrame, Playing, Booted, Behind, Moving, col
<1>1. PICK n \in Nat : n = hurdle_count /\ n > 0 /\ hurdle_count' = n - 1
  <2>1. hurdle_count \in Nat /\ hurdle_count > 0
    BY <1>0, KnownTypes DEF GameInv, NoPhantomHurdle
  <2>2. hurdle_count' = hurdle_count - 1
    BY <2>1 DEF HurdlesLeft, DecByte
  <2>. QED
    BY <2>1, <2>2
<1>2. \A i \in Nat : Live(i) = hurdle_position[i] /\ Live(i)' = Live(i + 1)
  BY <1>0 DEF Live, LiveSlot
<1>3. Live(0) = col
  BY <1>0, <1>2, KnownTypes DEF CourseBase, ColumnKnown, col
<1>4. \A c \in Cols \ {col} : (c \in LiveCells') <=> (c \in LiveCells)
  <2>1. LiveCells' = { Live(i)' : i \in 0 .. (n - 2) }
    <3>1. n - 1 - 1 = n - 2
      BY <1>1
    <3>. QED
      BY <1>1, <3>1 DEF LiveCells
  <2>2. LiveCells = { Live(i) : i \in 0 .. (n - 1) }
    BY <1>1 DEF LiveCells
  <2>3. \A i \in 0 .. (n - 2) : Live(i)' = Live(i + 1) /\ i + 1 \in 0 .. (n - 1)
    BY <1>1, <1>2
  <2>4. ASSUME NEW i \in 0 .. (n - 1), Live(i) # col
        PROVE  i - 1 \in 0 .. (n - 2) /\ Live(i - 1)' = Live(i)
    <3>1. i > 0
      BY <1>3, <2>4
    <3>2. i - 1 \in 0 .. (n - 2) /\ i - 1 \in Nat /\ (i - 1) + 1 = i
      BY <3>1
    <3>. QED
      BY <1>2, <3>2
  <2>. QED
    BY <2>1, <2>2, <2>3, <2>4
<1>. QED
  BY <1>0, <1>4 DEF HurdlesKnown, screen

\* What each step leaves of the hurdles on the display.
LEMMA HurdlesStep ==
  ASSUME Timing
  PROVE  ScreenKnown /\ HurdlesKnown /\ [ScreenNext]_<< vars, screen >> /\ ScreenKnown'
           => HurdlesKnown'
<1> SUFFICES ASSUME ScreenKnown, HurdlesKnown, [ScreenNext]_<< vars, screen >>, ScreenKnown'
             PROVE  HurdlesKnown'
  OBVIOUS
<1>0. ground \in [Cols -> Sprites] /\ robo_position \in Addr
  BY KnownTypes
<1>a. ASSUME InFrame, UNCHANGED << course, ground, robo_drawn, Behind >>,
             main # "clean_stale_hurdles_loop", main' # "clean_stale_hurdles_loop",
             main' # "draw_init_course",
             main' \in {"draw_score", "calculate_collision", "jump_check"} =>
               /\ main \in {"draw_score", "calculate_collision", "jump_check"}
               /\ UNCHANGED robo_position
      PROVE  HurdlesKnown'
  <2>1. \A i : Live(i)' = Live(i)
    BY <1>a DEF Live, LiveSlot, course
  <2>2. LiveCells' = LiveCells
    BY <1>a, <2>1 DEF LiveCells, course
  <2>. QED
    BY <1>a, <2>2 DEF HurdlesKnown, col
<1> USE DEF InFrame, Playing, Booted, At, course, scoring, regs, button, loop, screen,
            Behind, Moving, col
<1>1. CASE ClearDisplay
  BY <1>1 DEF ClearDisplay, Bootstrap, HurdlesKnown
<1>2. CASE DrawCourseChar
  <2>1. \A c \in Cols : ground'[c] # "hurdle"
    BY <1>0, <1>2 DEF DrawCourseChar, DrawInitCourse, PrintAt, HurdlesKnown
  <2>2. hurdle_count' = 0 /\ main' \in {"draw_init_course", "draw_hurdle"}
    BY <1>2, KnownTypes
       DEF DrawCourseChar, DrawInitCourse, CourseBase, SameGameEveryTime
  <2>3. LiveCells' = {}
    BY <2>2 DEF LiveCells
  <2>. QED
    BY <2>1, <2>2, <2>3 DEF HurdlesKnown
<1>3. CASE DrawSpawnCell
  BY <1>3, SpawnShown
<1>4. CASE DrawRobot
  BY <1>4, RobotShown
<1>5. CASE DrawDigits
  BY <1>5, <1>a DEF DrawDigits, DrawScore
<1>6. CASE DrawMessageChar
  BY <1>6 DEF DrawMessageChar, GameOverMessageDraw, HurdlesKnown
<1>7. CASE Undrawn
  <2>1. CASE DrawInitScreen /\ UNCHANGED screen
    <3>1. \A c \in Cols : ground[c] # "hurdle"
      BY <2>1 DEF DrawInitScreen, ScreenKnown, Base, FirstScreen
    <3>. QED
      BY <2>1, <3>1 DEF DrawInitScreen, HurdlesKnown
  <2>2. CASE DrawRoboSprite /\ UNCHANGED screen
    BY <2>2, <1>a DEF DrawRoboSprite
  <2>3. CASE HandleRoboJumpTime /\ UNCHANGED screen
    BY <2>3, <1>a DEF HandleRoboJumpTime
  <2>4. CASE CalculateCollision /\ UNCHANGED screen
    BY <2>4, <1>a DEF CalculateCollision
  <2>5. CASE (GameOver \/ GameOverFlicker) /\ UNCHANGED screen
    BY <2>5 DEF GameOver, GameOverFlicker, HurdlesKnown
  <2>6. CASE CleanStaleHurdles /\ UNCHANGED screen
    BY <2>6, PassedUnshown DEF ScreenKnown, CourseInv
  <2>7. CASE CleanStaleHurdlesLoop /\ UNCHANGED screen
    <3>1. CourseBase /\ CourseKnown
      BY <2>7, KnownTypes DEF CleanStaleHurdlesLoop, Course
    <3>2. \A i \in 0 .. (hurdle_count - 1) : Live(i)' = Live(i)
      BY <2>7, <3>1, LiveShifted
    <3>3. LiveCells' = LiveCells
      BY <2>7, <3>2 DEF CleanStaleHurdlesLoop, LiveCells
    <3>. QED
      BY <2>7, <3>3 DEF CleanStaleHurdlesLoop, HurdlesKnown
  <2>8. CASE Wait /\ UNCHANGED screen
    BY <2>8, <1>a DEF Wait
  <2>b. ASSUME UNCHANGED << loop, screen >> PROVE HurdlesKnown'
    <3>1. \A i : Live(i)' = Live(i)
      BY <2>b DEF Live, LiveSlot
    <3>2. LiveCells' = LiveCells
      BY <2>b, <3>1 DEF LiveCells
    <3>. QED
      BY <2>b, <3>2 DEF HurdlesKnown
  <2>9. CASE (Press \/ Irq \/ ExitIrq \/ Nmi) /\ UNCHANGED screen
    BY <2>9, <2>b DEF Press, Irq, ExitIrq, Nmi
  <2>10. CASE ResetButton /\ UNCHANGED screen
    BY <2>10 DEF ResetButton, HurdlesKnown
  <2>. QED
    BY <1>7, <2>1, <2>2, <2>3, <2>4, <2>5, <2>6, <2>7, <2>8, <2>9, <2>10 DEF Undrawn
<1>8. CASE UNCHANGED << vars, screen >>
  <2>1. \A i : Live(i)' = Live(i)
    BY <1>8 DEF vars, Live, LiveSlot
  <2>2. LiveCells' = LiveCells
    BY <1>8, <2>1 DEF vars, LiveCells
  <2>. QED
    BY <1>8, <2>2 DEF vars, HurdlesKnown
<1>. QED
  BY <1>1, <1>2, <1>3, <1>4, <1>5, <1>6, <1>7, <1>8 DEF ScreenNext

\* What is known of the cells is what HurdlesShown says of the picture.
LEMMA KnownIsShown == ScreenKnown /\ HurdlesKnown => HurdlesShown
<1> SUFFICES ASSUME ScreenKnown, HurdlesKnown, main = "calculate_collision"
             PROVE  Cells(ground, "hurdle") =
                      { hurdle_position[i] : i \in 0 .. (hurdle_count - 1) }
                        \ (IF robo_drawn.row = 2 THEN {robo_drawn.col} ELSE {})
  BY DEF HurdlesShown
<1>1. InFrame /\ Behind = col /\ col \in Cols /\ robo_drawn.col = col
  BY KnownTypes DEF InFrame, Playing, Booted, Behind, Moving, HurdlesKnown
<1>2. \A i \in 0 .. (hurdle_count - 1) : Live(i) = hurdle_position[i] /\ Live(i) \in Cols
  BY <1>1, LeadsBounded DEF LeadsWithin, Live, LiveSlot
<1>3. { hurdle_position[i] : i \in 0 .. (hurdle_count - 1) } = LiveCells /\ LiveCells \subseteq Cols
  BY <1>2 DEF LiveCells
<1>. QED
  BY <1>1, <1>3 DEF HurdlesKnown, Cells

(* Up to the round in which the spawn position is next to the robot, the   *)
(* player sees every hurdle that can end the game and no other, on         *)
(* displays of any width, whatever the button, the NMI and the reset do.   *)
(* In that round the robot's own erasing takes a new hurdle off the        *)
(* display and leaves it in the list.                                      *)
THEOREM HurdlesSeen ==
  ASSUME Timing
  PROVE  ScreenSpec /\ []SpawnClear => []HurdlesShown
<1>1. ScreenInit => Base /\ HurdlesKnown /\ Init
  BY BaseInit DEF ScreenInit, Init, HurdlesKnown, InFrame, Playing, Booted
<1>2. SpawnClear => SpawnLeads
  <2>1. COLS \in Nat
    BY GameAssumption DEF GameAssumption
  <2>. QED
    BY <2>1 DEF SpawnClear, SpawnLeads
<1>3. ScreenSpec => Spec
  BY <1>1, DrawingIsAStep, PTL DEF ScreenSpec, Spec
<1>4. ScreenSpec => []Base
  BY <1>1, BaseStep, PTL DEF ScreenSpec
<1>5. ScreenSpec /\ []SpawnClear => []ScreenKnown
  BY <1>2, <1>3, <1>4, CourseAlways, PTL DEF ScreenKnown
<1>6. ScreenKnown /\ HurdlesKnown /\ [ScreenNext]_<< vars, screen >> /\ ScreenKnown'
        => HurdlesKnown'
  BY HurdlesStep
<1>. QED
  BY <1>1, <1>5, <1>6, KnownIsShown, PTL DEF ScreenSpec

(* In a game that ends before that round, with no hypothesis on how it is  *)
(* played, the display shows the list whenever a collision is judged.      *)
THEOREM ShortGameSeen ==
  ASSUME Timing, ShortGame
  PROVE  ScreenSpec => []HurdlesShown
<1>1. ScreenSpec => Spec
  <2>1. ScreenInit => Init
    BY DEF ScreenInit
  <2>. QED
    BY <2>1, DrawingIsAStep, PTL DEF ScreenSpec, Spec
<1>. QED
  BY <1>1, HurdlesSeen, ShortGameKeepsCourse, PTL
=============================================================================
