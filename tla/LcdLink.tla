------------------------------ MODULE LcdLink ------------------------------
(***************************************************************************)
(* What lcd_instruction and print_char promise their callers: the display  *)
(* executes every byte handed over, once, as handed over, and before the   *)
(* next one is.  A reset starts over.                                      *)
(***************************************************************************)
EXTENDS Sequences

CONSTANT Op

VARIABLES
  issued,    \* operations called since the last reset
  executed   \* operations the display carried out since the last reset

Init == issued = << >> /\ executed = << >>

Issue ==
  /\ executed = issued
  /\ \E op \in Op : issued' = Append(issued, op)
  /\ UNCHANGED executed

Execute ==
  /\ executed # issued
  /\ executed' = issued
  /\ UNCHANGED issued

Reset == issued' = << >> /\ executed' = << >>

Next == Issue \/ Execute \/ Reset

Spec == Init /\ [][Next]_<< issued, executed >>
=============================================================================
