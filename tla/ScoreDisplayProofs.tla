------------------------- MODULE ScoreDisplayProofs -------------------------
(***************************************************************************)
(* draw_score with the 8-bit library, proved for every width of the        *)
(* display and every score a byte can hold.                                *)
(***************************************************************************)
EXTENDS ScoreDisplay, TLAPS

(* The constants of robo-runner.s: carry survives the LCD subroutines, and *)
(* the set carry after the cursor check makes up for "0" - 1 (line 214).   *)
EightBit == FourBit = FALSE /\ TensBase = Zero - 1

\* One more ten is in the tens cell each time one more ten is in y.
TensCell == cells[PrevCol(pos)] = IF y = 0 THEN Space ELSE Zero + y

BlankExcept(S) == \A c \in Cols \ S : cells[c] = Space

(* Before the digits are drawn at most the two old cells are filled; in    *)
(* the loop the score is ten times y plus x, and the carry is clear; after *)
(* it x is the ones digit.                                                 *)
DigitsInv ==
  /\ TypeOK
  /\ label = "draw_score" => BlankExcept({pos, PrevCol(pos)})
  /\ label = "draw_robo_score_loop" =>
       /\ carry = 0 /\ acc = x /\ robo_score = 10 * y + x
       /\ TensCell /\ BlankExcept({PrevCol(pos)})
  /\ label = "frame" =>
       /\ robo_score = 10 * y + x /\ x \in 0 .. 9
       /\ TensCell /\ cells[pos] = Zero + x
       /\ BlankExcept({pos, PrevCol(pos)})

(* The two cells of a score are neighbours, also across the end of a row.  *)
LEMMA Neighbours ==
  \A c \in Cols : /\ NextCol(c) \in Cols /\ PrevCol(c) \in Cols
                  /\ PrevCol(NextCol(c)) = c /\ PrevCol(c) # c
  BY DisplayAssumption DEF DisplayAssumption, Cols, NextCol, PrevCol

(* A sum that fits in a byte leaves the carry clear.                       *)
LEMMA NoCarry == \A n \in 0 .. 255 : n % 256 = n /\ n \div 256 = 0
  OBVIOUS

(* Every step of draw_score keeps the relation between its registers and   *)
(* the cells.                                                              *)
LEMMA DigitsStep ==
  ASSUME EightBit, DigitsInv, [Next]_vars
  PROVE  DigitsInv'
<1> USE DisplayAssumption DEF DisplayAssumption, Space, Zero
<1>0. /\ pos \in Cols /\ PrevCol(pos) \in Cols /\ NextCol(pos) \in Cols
      /\ PrevCol(NextCol(pos)) = pos /\ PrevCol(pos) # pos
      /\ cells \in [Cols -> 0 .. 255]
  BY Neighbours DEF DigitsInv, TypeOK
<1>1. CASE Frame
  <2>1. TypeOK'
    BY <1>1 DEF Frame, DigitsInv, TypeOK, pos
  <2>. QED
    BY <1>1, <2>1 DEF Frame, DigitsInv, BlankExcept, pos
<1>2. CASE DrawScore
  <2>1. \A c \in Cols : cells'[c] = Space
    BY <1>0, <1>2 DEF DrawScore, OldCleared, DigitsInv, BlankExcept
  <2>2. PrevCol(pos') = pos /\ pos' \in Cols
    BY <1>0, <1>2 DEF DrawScore, OldCleared
  <2>3. TypeOK'
    BY <1>0, <1>2, <2>2 DEF DrawScore, OldCleared, DigitsInv, TypeOK, pos
  <2>. QED
    BY <1>0, <1>2, <2>1, <2>2, <2>3
       DEF DrawScore, OldCleared, DigitsInv, TypeOK, TensCell, BlankExcept, pos
<1>3. CASE SetNextDecimal
  <2>1. /\ carry = 0 /\ acc = x /\ robo_score = 10 * y + x
        /\ x \in Nat /\ y \in Nat /\ robo_score <= 255
        /\ Difference = x - 10 /\ x >= 10
    BY <1>3 DEF SetNextDecimal, DigitsInv, TypeOK, Difference
  <2>2. y + 1 <= 25
    BY <2>1
  <2>3. /\ y' = y + 1 /\ x' = x - 10 /\ acc' = x - 10 /\ carry' = 0
        /\ cells' = [cells EXCEPT ![PrevCol(pos)] = 48 + (y + 1)]
        /\ label' = label /\ pos' = pos /\ robo_score' = robo_score
    <3> DEFINE sum == y + 1 + TensBase + LcdCarry(1, PrevCol(pos))
    <3>1. sum = 48 + (y + 1) /\ sum \in 0 .. 255
      BY <2>1, <2>2 DEF EightBit, LcdCarry
    <3>2. sum % 256 = 48 + (y + 1) /\ LcdCarry(sum \div 256, sum % 256) = 0
      BY <3>1, NoCarry DEF EightBit, LcdCarry
    <3> HIDE DEF sum
    <3>3. /\ cells' = [cells EXCEPT ![PrevCol(pos)] = sum % 256]
          /\ carry' = LcdCarry(sum \div 256, sum % 256)
      BY <1>3 DEF SetNextDecimal, sum
    <3>. QED
      BY <1>3, <2>1, <3>2, <3>3 DEF SetNextDecimal, pos
  <2>4. TypeOK'
    BY <1>0, <2>1, <2>2, <2>3 DEF DigitsInv, TypeOK, pos
  <2>. QED
    BY <1>0, <1>3, <2>1, <2>3, <2>4
       DEF SetNextDecimal, DigitsInv, TensCell, BlankExcept, pos
<1>4. CASE DrawOnes
  <2>1. /\ carry = 0 /\ acc = x /\ robo_score = 10 * y + x
        /\ x \in Nat /\ x < 10
    BY <1>4 DEF DrawOnes, DigitsInv, TypeOK, Difference
  <2>2. /\ label' = "frame" /\ pos' = pos /\ robo_score' = robo_score
        /\ x' = x /\ y' = y /\ carry' = 0 /\ acc' = 48 + x
        /\ cells' = [cells EXCEPT ![pos] = 48 + x]
    <3> DEFINE sum == x + Zero + LcdCarry(0, pos)
    <3>1. sum = 48 + x /\ sum \in 0 .. 255
      BY <2>1 DEF EightBit, LcdCarry
    <3>2. sum % 256 = 48 + x /\ LcdCarry(sum \div 256, sum % 256) = 0
      BY <3>1, NoCarry DEF EightBit, LcdCarry
    <3> HIDE DEF sum
    <3>3. /\ cells' = [cells EXCEPT ![pos] = sum % 256]
          /\ carry' = LcdCarry(sum \div 256, sum % 256)
          /\ acc' = sum % 256
      BY <1>4 DEF DrawOnes, sum
    <3>. QED
      BY <1>4, <3>2, <3>3 DEF DrawOnes, pos
  <2>3. TypeOK'
    BY <1>0, <2>1, <2>2 DEF DigitsInv, TypeOK, pos
  <2>. QED
    BY <1>0, <1>4, <2>1, <2>2, <2>3
       DEF DrawOnes, DigitsInv, TensCell, BlankExcept, pos
<1>5. CASE UNCHANGED vars
  BY <1>5 DEF vars, DigitsInv, TypeOK, TensCell, BlankExcept, pos
<1>. QED
  BY <1>1, <1>2, <1>3, <1>4, <1>5 DEF Next

(* draw_score begins on a blank row.                                       *)
LEMMA DigitsInit == Init => DigitsInv
<1> SUFFICES ASSUME Init PROVE DigitsInv
  OBVIOUS
<1>1. TypeOK
  BY DisplayAssumption DEF DisplayAssumption, Init, TypeOK, Cols, Space, pos
<1>. QED
  BY <1>1 DEF Init, DigitsInv, BlankExcept

(* Whatever the score, the two cells say it in decimal when draw_score     *)
(* returns: the borrow and carry arithmetic of the loop is right for all   *)
(* bytes (from 100 on the tens cell counts past the digit 9, and the sum   *)
(* still is the score).                                                    *)
THEOREM ScoreIsDrawn == ASSUME EightBit PROVE Spec => []ScoreReadsRight
<1>1. DigitsInv => ScoreReadsRight
  <2> SUFFICES ASSUME DigitsInv, Drawn PROVE ScoreReadsRight
    BY DEF ScoreReadsRight
  <2>1. x \in 0 .. 9 /\ y \in Nat /\ robo_score = 10 * y + x
    BY DEF DigitsInv, Drawn, TypeOK
  <2>2. Digit(cells[pos]) = x
    BY <2>1 DEF DigitsInv, Drawn, Digit, Zero
  <2>3. DrawnValue = x + 10 * y
    BY <2>1, <2>2 DEF DigitsInv, Drawn, DrawnValue, Digit, TensCell, Zero, Space
  <2>. QED
    BY <2>1, <2>2, <2>3 DEF ScoreReadsRight
<1>. QED
  BY <1>1, DigitsInit, DigitsStep, PTL DEF Spec

(* No digit of an earlier score is left in the row.                        *)
THEOREM OldScoreIsErased == ASSUME EightBit PROVE Spec => []NoOldDigits
<1>1. DigitsInv => NoOldDigits
  BY DEF DigitsInv, NoOldDigits, BlankExcept
<1>. QED
  BY <1>1, DigitsInit, DigitsStep, PTL DEF Spec
=============================================================================
