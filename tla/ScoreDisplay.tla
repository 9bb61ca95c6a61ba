---------------------------- MODULE ScoreDisplay ----------------------------
(***************************************************************************)
(* draw_score of robo-runner: the digits it prints.  The subroutine turns  *)
(* a byte into decimal with sbc and adc and relies on the carry flag that  *)
(* the LCD subroutines happen to leave behind; those of the 8-bit library  *)
(* do not touch it, those of the 4-bit library shift the byte they send    *)
(* right four times and leave its bit 3 there.                             *)
(*                                                                         *)
(* Characters are their codes.  The column of the cursor is the low part   *)
(* of its address, so bit 3 of the address is bit 3 of the column.         *)
(***************************************************************************)
EXTENDS Integers

CONSTANTS
  COLS,      \* columns of an LCD row in its memory
  FourBit,   \* the program includes the 4-bit library
  TensBase,  \* the constant the tens digit is added to
  MaxScore   \* bound: scores up to this one are drawn

ASSUME DisplayAssumption ==
  /\ COLS \in Nat /\ COLS > 16 /\ COLS <= 128
  /\ FourBit \in BOOLEAN
  /\ TensBase \in 0 .. 255
  /\ MaxScore \in 0 .. 255

VARIABLES
  label,
  robo_score_display_position,  \* column in row 1
  robo_score,
  acc, carry,                   \* A and the carry flag
  x, y,                         \* remainder and tens
  cells                         \* row 1 of the display: column -> character

pos  == robo_score_display_position
vars == << label, pos, robo_score, acc, carry, x, y, cells >>

Cols  == 0 .. (COLS - 1)
Space == 32
Zero  == 48  \* "0"

NextCol(c) == IF c + 1 = COLS THEN 0 ELSE c + 1
PrevCol(c) == IF c = 0 THEN COLS - 1 ELSE c - 1
Bit3(b)    == (b \div 8) % 2

\* The carry after set_cursor_address or print_char with byte b in A.
LcdCarry(c, b) == IF FourBit THEN Bit3(b) ELSE c

Init ==
  /\ label = "draw_score"
  /\ pos = 15
  /\ robo_score = 0
  /\ acc = 0 /\ carry = 0 /\ x = 0 /\ y = 0
  /\ cells = [c \in Cols |-> Space]

\* The rest of a frame: the game may have scored a hurdle.
Frame ==
  /\ label = "frame"
  /\ label' = "draw_score"
  /\ \/ robo_score < MaxScore /\ robo_score' = robo_score + 1
     \/ UNCHANGED robo_score
  /\ UNCHANGED << pos, acc, carry, x, y, cells >>

\* Mutant: the tens cell of the old score is not cleared.
OnesCleared == [cells EXCEPT ![pos] = Space]

OldCleared == [cells EXCEPT ![PrevCol(pos)] = Space, ![pos] = Space]

\* Clear the two old cells, move on one column, load the score.  The cmp with
\* the end of the row, or the clc after it, leaves the carry clear.
DrawScore ==
  /\ label = "draw_score"
  /\ label' = "draw_robo_score_loop"
  /\ cells' = OldCleared
  /\ pos' = NextCol(pos)
  /\ carry' = 0
  /\ x' = robo_score /\ y' = 0 /\ acc' = robo_score
  /\ UNCHANGED robo_score

\* Mutant: sbc with the carry set.
DifferenceNoBorrow == acc - 9

\* sbc #9
Difference == acc - 9 - (1 - carry)

\* No borrow: print one more ten in the cell before the ones, keep the rest.
\* The cmp that finds the row's start leaves the carry set.
SetNextDecimal ==
  LET tens == PrevCol(pos)
      sum  == y + 1 + TensBase + LcdCarry(1, tens)
  IN /\ label = "draw_robo_score_loop"
     /\ Difference >= 0
     /\ y' = y + 1
     /\ cells' = [cells EXCEPT ![tens] = sum % 256]
     /\ carry' = LcdCarry(sum \div 256, sum % 256)
     /\ x' = Difference /\ acc' = Difference
     /\ UNCHANGED << label, pos, robo_score >>

\* Borrow: the remainder is the ones digit.
DrawOnes ==
  LET sum == x + Zero + LcdCarry(0, pos)
  IN /\ label = "draw_robo_score_loop"
     /\ Difference < 0
     /\ label' = "frame"
     /\ cells' = [cells EXCEPT ![pos] = sum % 256]
     /\ carry' = LcdCarry(sum \div 256, sum % 256)
     /\ acc' = sum % 256
     /\ UNCHANGED << pos, robo_score, x, y >>

Next == Frame \/ DrawScore \/ SetNextDecimal \/ DrawOnes

Spec == Init /\ [][Next]_vars

-----------------------------------------------------------------------------
\* What two cells say, read as a decimal number.
Digit(ch)  == ch - Zero
DrawnValue == Digit(cells[pos]) + 10 * (IF cells[PrevCol(pos)] = Space THEN 0
                                        ELSE Digit(cells[PrevCol(pos)]))
Drawn == label = "frame"

(* Type invariant; x is also what keeps the loop going at most 25 times.   *)
TypeOK ==
  /\ label \in {"frame", "draw_score", "draw_robo_score_loop"}
  /\ pos \in Cols /\ robo_score \in 0 .. MaxScore
  /\ acc \in 0 .. 255 /\ x \in 0 .. 255 /\ y \in 0 .. 25
  /\ carry \in {0, 1}
  /\ cells \in [Cols -> 0 .. 255]

(* "Draw player score" (line 167): when draw_score returns, the ones cell  *)
(* holds one decimal digit, and it and the tens cell say robo_score.  The  *)
(* carry flag decides every digit and is written by cmp, clc, sbc, adc and *)
(* in the 4-bit library by each lsr of a subroutine called in between.     *)
ScoreReadsRight ==
  Drawn => Digit(cells[pos]) \in 0 .. 9 /\ DrawnValue = robo_score

(* Nothing of an older, wider or narrower score stays behind, at the end   *)
(* of the row as elsewhere.                                                *)
NoOldDigits ==
  label = "frame" => \A c \in Cols \ {pos, PrevCol(pos)} : cells[c] = Space
=============================================================================
