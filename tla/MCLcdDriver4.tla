---------------------------- MODULE MCLcdDriver4 ----------------------------
(***************************************************************************)
(* LcdDriver4 for TLC: the boot sequence and progress of the polling loop. *)
(***************************************************************************)
EXTENDS LcdDriver4

\* Function set, display on, entry mode, clear.
BootInstructions == << 40, 14, 6, 1 >>

\* An "A", a cursor address, a display shift, and two bytes of equal halves.
SomeOps == { [rs |-> TRUE, byte |-> 65], [rs |-> FALSE, byte |-> 192],
             [rs |-> FALSE, byte |-> 24], [rs |-> TRUE, byte |-> 255] }

\* The CPU runs, and the display does not stay busy for ever.
FairSpec == Spec /\ WF_vars(CpuStep) /\ WF_vars(Ready)

(* From power-on every call returns: the loop of lcdbusy (lines 42 to 57), *)
(* which reads two halves and keeps one on the stack, never hangs.         *)
CallsReturn == (cold /\ pc = "lcd_wait") ~> (pc = "idle" \/ ~cold)
=============================================================================
