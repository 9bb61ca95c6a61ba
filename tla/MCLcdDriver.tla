---------------------------- MODULE MCLcdDriver ----------------------------
(***************************************************************************)
(* LcdDriver for TLC: the boot sequence, the handlers' texts, and progress *)
(* of the polling loop.                                                    *)
(***************************************************************************)
EXTENDS LcdDriver

\* Function set, display on, entry mode, clear.
BootInstructions == << 56, 12, 6, 1 >>

\* The handler of robo-runner prints nothing, that of hello-interrupt "Int".
Handlers == { << >>, << 73, 110, 116 >> }
InterruptText == { << 73, 110, 116 >> }

\* The CPU runs, and the display does not stay busy for ever.
FairSpec == Spec /\ WF_vars(CpuStep) /\ WF_vars(Ready)

(* Every call returns, as long as the display gets ready again: polling    *)
(* (lines 42 to 49) never hangs, also when a handler prints in the middle  *)
(* of it and leaves port B an output.                                      *)
CallsReturn == pc["main"] = "lcd_wait" ~> pc["main"] \in {"idle", "boot"}
=============================================================================
