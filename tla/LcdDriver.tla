----------------------------- MODULE LcdDriver -----------------------------
(***************************************************************************)
(* lcd_wait, lcd_instruction and print_char of the 8-bit LCD library       *)
(* (src/src/lib/1602a-lcd.s), store by store: each writes one register of  *)
(* the VIA, and the display acts on what the pins do.  The same three      *)
(* subroutines are copied into hello-world.s, hello-world-final.s and      *)
(* hello-interrupt.s; in the last the interrupt handler calls print_char   *)
(* too, in the middle of whatever the main program is doing.               *)
(*                                                                         *)
(* External: the VIA's registers (Table 2-1 of its data sheet as the code  *)
(* uses it) and the display, which takes a byte when E falls with RW low,  *)
(* drives the data lines while E and RW are high, and is busy for a while  *)
(* after each byte.                                                        *)
(***************************************************************************)
EXTENDS Integers, Sequences

CONSTANTS
  BootBytes,     \* instructions bootstrap.s sends, in order
  Bytes,         \* bytes a program may send afterwards
  MaxCalls,      \* bound: calls between two resets
  HandlerTexts,  \* what interrupt handlers print, << >> for nothing
  MaxPresses,    \* bound: interrupts taken between two resets
  Resets         \* the reset button is used

ASSUME LcdAssumption ==
  /\ BootBytes \in Seq(0 .. 255) /\ HandlerTexts \subseteq Seq(0 .. 255)
  /\ Bytes \subseteq 0 .. 255
  /\ MaxCalls \in Nat /\ MaxPresses \in Nat
  /\ Resets \in BOOLEAN

VARIABLES
  text,      \* what the handler in this ROM prints
  ddrb,      \* direction of port B: the data lines
  ddra,      \* direction of the three control pins of port A
  orb,       \* output register of port B
  porta,     \* the control lines [rs, rw, e]
  level,     \* what runs: "main" or, inside the handler, "irq"
  pc,        \* thread -> the store of the driver it is about to make
  op,        \* thread -> the operation its call sends
  printed,   \* bytes the handler has printed
  presses,
  lcd_busy,
  overrun,   \* the display was sent a byte while it was busy
  issued, executed

via   == << ddrb, ddra, orb, porta >>
lcd   == << lcd_busy, overrun, executed >>
vars  == << text, via, level, pc, op, printed, presses, lcd, issued >>

Threads == {"main", "irq"}
Op      == [rs : BOOLEAN, byte : 0 .. 255]
Labels  == { "boot", "boot_control", "idle", "lcd_wait", "lcdbusy", "enable",
             "poll", "deselect", "output", "data", "control", "strobe", "latch" }

Low     == [rs |-> FALSE, rw |-> FALSE, e |-> FALSE]
RW      == [Low EXCEPT !.rw = TRUE]
RWE     == [RW EXCEPT !.e = TRUE]

\* Mutant: RS is left low for a character.
RSLow(o) == Low
RS(o)   == [Low EXCEPT !.rs = o.rs]
RSE(o)  == [RS(o) EXCEPT !.e = TRUE]

Init ==
  /\ text \in HandlerTexts
  /\ ddrb = "in" /\ ddra = "in" /\ orb = 0 /\ porta = Low
  /\ level = "main"
  /\ pc = [t \in Threads |-> IF t = "main" THEN "boot" ELSE "idle"]
  /\ op = [t \in Threads |-> [rs |-> FALSE, byte |-> 0]]
  /\ printed = 0 /\ presses = 0
  /\ lcd_busy \in BOOLEAN /\ overrun = FALSE
  /\ issued = << >> /\ executed = << >>

-----------------------------------------------------------------------------
(* The display.                                                            *)

\* What is on the data lines: nobody drives them while port B is input.
OnTheLines(b) == IF ddrb = "out" THEN b = orb ELSE b \in {0, 255}

\* The display takes operation o, or loses it if the last is not done.
Take(o) ==
  /\ executed' = IF lcd_busy THEN executed ELSE Append(executed, o)
  /\ overrun' = (overrun \/ lcd_busy)
  /\ lcd_busy' = TRUE

\* sta PORTA.  A falling E with RW low hands the byte on the lines over; the
\* display sees nothing of it while the control pins are inputs.
SetPorta(new) ==
  /\ porta' = new
  /\ IF ddra = "out" /\ porta.e /\ ~porta.rw /\ ~new.e
     THEN \E b \in 0 .. 255 : OnTheLines(b) /\ Take([rs |-> porta.rs, byte |-> b])
     ELSE UNCHANGED lcd

Ready ==
  /\ lcd_busy
  /\ lcd_busy' = FALSE
  /\ UNCHANGED << text, via, level, pc, op, printed, presses, overrun, issued,
                  executed >>

-----------------------------------------------------------------------------
(* The driver, one store at a time, run by thread t.                       *)

At(t, l) == level = t /\ pc[t] = l

Goto(t, l) ==
  /\ pc' = [pc EXCEPT ![t] = l]
  /\ UNCHANGED << text, level, op, printed, presses, issued >>

\* Mutant: port B stays output.
PortBOutput == UNCHANGED ddrb

\* lda #%00000000 / sta DDRB
PortBInput == ddrb' = "in"

LcdWait(t) ==
  /\ At(t, "lcd_wait")
  /\ PortBInput
  /\ UNCHANGED << ddra, orb, porta, lcd >>
  /\ Goto(t, "lcdbusy")

LcdBusy(t) ==
  /\ At(t, "lcdbusy")
  /\ SetPorta(RW)
  /\ UNCHANGED << ddrb, ddra, orb >>
  /\ Goto(t, "enable")

EnableRead(t) ==
  /\ At(t, "enable")
  /\ SetPorta(RWE)
  /\ UNCHANGED << ddrb, ddra, orb >>
  /\ Goto(t, "poll")

\* Mutant: the busy flag is not looked at.
BusyIgnored == {FALSE}

\* Mutant: the loop ends when the display is busy.
BusyInverted == {~lcd_busy}

\* Bit 7 of lda PORTB: the busy flag if the display drives the lines, what
\* port B puts out itself if it is output.
BusyRead ==
  IF ddrb = "out" THEN {orb >= 128}
  ELSE IF ddra = "out" /\ porta.e /\ porta.rw THEN {lcd_busy}
  ELSE BOOLEAN

Poll(t) ==
  /\ At(t, "poll")
  /\ \E busy \in BusyRead : Goto(t, IF busy THEN "lcdbusy" ELSE "deselect")
  /\ UNCHANGED << via, lcd >>

Deselect(t) ==
  /\ At(t, "deselect")
  /\ SetPorta(RW)
  /\ UNCHANGED << ddrb, ddra, orb >>
  /\ Goto(t, "output")

Output(t) ==
  /\ At(t, "output")
  /\ ddrb' = "out"
  /\ UNCHANGED << ddra, orb, porta, lcd >>
  /\ Goto(t, "data")

PutData(t) ==
  /\ At(t, "data")
  /\ orb' = op[t].byte
  /\ UNCHANGED << ddrb, ddra, porta, lcd >>
  /\ Goto(t, "control")

PutControl(t) ==
  /\ At(t, "control")
  /\ SetPorta(RS(op[t]))
  /\ UNCHANGED << ddrb, ddra, orb >>
  /\ Goto(t, "strobe")

Strobe(t) ==
  /\ At(t, "strobe")
  /\ SetPorta(RSE(op[t]))
  /\ UNCHANGED << ddrb, ddra, orb >>
  /\ Goto(t, "latch")

Latch(t) ==
  /\ At(t, "latch")
  /\ SetPorta(RS(op[t]))
  /\ UNCHANGED << ddrb, ddra, orb >>
  /\ Goto(t, "idle")

Driver(t) ==
  \/ LcdWait(t) \/ LcdBusy(t) \/ EnableRead(t) \/ Poll(t) \/ Deselect(t) \/ Output(t)
  \/ PutData(t) \/ PutControl(t) \/ Strobe(t) \/ Latch(t)

-----------------------------------------------------------------------------
(* The callers.                                                            *)

\* bootstrap.s makes port B an output, then three pins of port A.  Interrupts
\* are on already.
Boot ==
  /\ At("main", "boot")
  /\ ddrb' = "out"
  /\ UNCHANGED << ddra, orb, porta, lcd >>
  /\ Goto("main", "boot_control")

BootControl ==
  /\ At("main", "boot_control")
  /\ ddra' = "out"
  /\ UNCHANGED << ddrb, orb, porta, lcd >>
  /\ Goto("main", "idle")

\* The next call: the boot instructions, then whatever the program sends.
Call ==
  /\ At("main", "idle")
  /\ Len(issued) < MaxCalls
  /\ \E o \in Op :
       /\ IF Len(issued) < Len(BootBytes)
          THEN o = [rs |-> FALSE, byte |-> BootBytes[Len(issued) + 1]]
          ELSE o.byte \in Bytes
       /\ op' = [op EXCEPT !["main"] = o]
       /\ issued' = Append(issued, o)
  /\ pc' = [pc EXCEPT !["main"] = "lcd_wait"]
  /\ UNCHANGED << text, via, level, printed, presses, lcd >>

\* The button interrupts the main program wherever it is.
Irq ==
  /\ level = "main" /\ presses < MaxPresses
  /\ level' = "irq"
  /\ printed' = 0 /\ presses' = presses + 1
  /\ UNCHANGED << text, via, pc, op, lcd, issued >>

NextChar == printed + 1

\* print_interrupt_loop: one more character of the handler's text.
HandlerPrint ==
  /\ At("irq", "idle")
  /\ printed < Len(text)
  /\ op' = [op EXCEPT !["irq"] = [rs |-> TRUE, byte |-> text[printed + 1]]]
  /\ printed' = NextChar
  /\ pc' = [pc EXCEPT !["irq"] = "lcd_wait"]
  /\ UNCHANGED << text, via, level, presses, lcd, issued >>

ExitIrq ==
  /\ At("irq", "idle")
  /\ printed = Len(text)
  /\ level' = "main"
  /\ UNCHANGED << text, via, pc, op, printed, presses, lcd, issued >>

\* The reset button.  The VIA's pins become inputs, so E falls; the display is
\* not reset and may take what is on the lines for a byte.
ResetButton ==
  /\ Resets /\ UNCHANGED text
  /\ ddrb' = "in" /\ ddra' = "in" /\ orb' = 0 /\ porta' = Low
  /\ level' = "main"
  /\ pc' = [t \in Threads |-> IF t = "main" THEN "boot" ELSE "idle"]
  /\ op' = [t \in Threads |-> [rs |-> FALSE, byte |-> 0]]
  /\ printed' = 0 /\ presses' = 0
  /\ lcd_busy' = (lcd_busy \/ (ddra = "out" /\ porta.e))
  /\ overrun' = FALSE
  /\ issued' = << >> /\ executed' = << >>

CpuStep == Boot \/ BootControl \/ HandlerPrint \/ ExitIrq \/ \E t \in Threads : Driver(t)

Next == CpuStep \/ Call \/ Irq \/ Ready \/ ResetButton

Spec == Init /\ [][Next]_vars

-----------------------------------------------------------------------------
(* What a caller may rely on.                                              *)

\* No handler has printed since the last reset.
Undisturbed == text = << >> \/ presses = 0

(* Type invariant of the registers, the driver and the display.            *)
TypeOK ==
  /\ text \in HandlerTexts
  /\ ddrb \in {"in", "out"} /\ ddra \in {"in", "out"} /\ orb \in 0 .. 255
  /\ porta \in [rs : BOOLEAN, rw : BOOLEAN, e : BOOLEAN]
  /\ level \in Threads /\ pc \in [Threads -> Labels] /\ op \in [Threads -> Op]
  /\ printed \in 0 .. Len(text) /\ presses \in 0 .. MaxPresses
  /\ lcd_busy \in BOOLEAN /\ overrun \in BOOLEAN
  /\ issued \in Seq(Op) /\ executed \in Seq(Op)

(* "Port B is input" (line 40 of the library, line 68 of hello-interrupt): *)
(* while the display drives the data lines the VIA does not.               *)
NoContention == ddra = "out" /\ porta.e /\ porta.rw => ddrb = "in"

(* ... as long as no handler that prints has interrupted the program.      *)
NoContentionUndisturbed == Undisturbed => NoContention

(* The display is never sent a byte while it is busy, which is what        *)
(* lcd_wait (line 38) is for: neither a reset in the middle of a call nor  *)
(* a display that stays busy from before the reset makes the driver lose   *)
(* a byte.                                                                 *)
NoOverrun == Undisturbed => ~overrun

(* The display executes what the program calls for, each byte once and in  *)
(* order, through polling, four stores a byte and resets in between, until *)
(* a handler that prints comes between two stores.                         *)
Link == INSTANCE LcdLink
ImplementsLink ==
  Link!Init /\ [][Undisturbed' => Link!Next]_<< issued, executed >>
=============================================================================
