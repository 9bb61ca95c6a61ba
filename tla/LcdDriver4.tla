----------------------------- MODULE LcdDriver4 -----------------------------
(***************************************************************************)
(* The 4-bit LCD library (src/src/lib/1602a-lcd.4bit.s) and its boot code, *)
(* store by store.  Control lines and data share port B: PB7 is E, PB6 RW, *)
(* PB5 RS, and PB3 to PB0 are the display's DB7 to DB4.  A byte crosses in *)
(* two halves, and nothing on the wires says which half is which: driver   *)
(* and display must count alike.                                           *)
(*                                                                         *)
(* External: the display.  It powers on with an 8-bit interface, keeps its *)
(* interface and its count of halves through a reset of the CPU, and reads *)
(* and writes advance the same count.  Assumed: it is past its own         *)
(* power-on reset, and so not busy, when the CPU starts.                   *)
(***************************************************************************)
EXTENDS Integers, Sequences

CONSTANTS
  BootBytes,     \* instructions bootstrap.4bit.s sends, in order
  Ops,           \* operations a program may send afterwards
  MaxCalls,      \* bound: calls between two resets
  Resets         \* the reset button is used

Op == [rs : BOOLEAN, byte : 0 .. 255]

\* A function set with DL = 1 asks for the 8-bit interface.
EightBits(o) == ~o.rs /\ o.byte \div 16 = 3

ASSUME LcdAssumption ==
  /\ BootBytes \in Seq(0 .. 255) /\ Ops \subseteq Op
  /\ \A i \in 1 .. Len(BootBytes) : BootBytes[i] \div 16 # 3
  /\ \A o \in Ops : ~EightBits(o)
  /\ MaxCalls \in Nat /\ Resets \in BOOLEAN

VARIABLES
  ddrb,      \* outputs of port B: "none", "control" (PB7 to PB4) or "all"
  portb,     \* [rs, rw, e, nibble]
  pc,        \* the store the driver is about to make
  op,        \* the operation its call sends
  high_half, \* bit 7 of the first nibble lcdbusy read, on the stack
  lcd_bits,  \* the display's interface: 8 or 4 bits
  lcd_half,  \* the half it expects: "high" or "low"
  lcd_high,  \* the high half it has
  lcd_busy,
  overrun,   \* the display was sent a byte while it was busy
  issued, executed,
  cold       \* no reset since power-on

lcd  == << lcd_bits, lcd_half, lcd_high, lcd_busy, overrun, executed >>
vars == << ddrb, portb, pc, op, high_half, lcd, issued, cold >>

Nibble  == 0 .. 15
Pins    == [rs : BOOLEAN, rw : BOOLEAN, e : BOOLEAN, nibble : Nibble]
Labels  == { "boot", "init_data", "init_strobe", "init_latch", "idle", "lcd_wait",
             "lcdbusy", "enable_high", "read_high", "deselect_high", "enable_low",
             "poll", "deselect", "output", "high", "high_strobe", "high_latch",
             "low", "low_strobe", "low_latch" }

Write(rs, n) == [rs |-> rs, rw |-> FALSE, e |-> FALSE, nibble |-> n]
RW           == [rs |-> FALSE, rw |-> TRUE, e |-> FALSE, nibble |-> 0]
E(pins)      == [pins EXCEPT !.e = TRUE]
NoE(pins)    == [pins EXCEPT !.e = FALSE]

\* Mutant: the low half goes first.
HighIsLow(byte) == byte % 16

\* lsr four times, and and #%00001111.
High(byte) == byte \div 16
Low(byte)  == byte % 16

\* Power-on.  That the display is not busy is an assumption: lcd_init_four_bit does
\* not ask, and a busy display would lose its half.
Init ==
  /\ ddrb = "none" /\ portb = Write(FALSE, 0)
  /\ pc = "boot" /\ op = [rs |-> FALSE, byte |-> 0] /\ high_half = FALSE
  /\ lcd_bits = 8 /\ lcd_half = "high" /\ lcd_high = 0
  /\ lcd_busy = FALSE /\ overrun = FALSE
  /\ issued = << >> /\ executed = << >>
  /\ cold = TRUE

-----------------------------------------------------------------------------
(* The display.                                                            *)

\* What is on the data wires: nobody drives them while PB3 to PB0 are inputs.
OnTheWires(n) == IF ddrb = "all" THEN n = portb.nibble ELSE n \in {0, 15}

\* The display executes operation o, or loses it if the last is not done.
Take(o) ==
  /\ executed' = IF lcd_busy THEN executed ELSE Append(executed, o)
  /\ lcd_bits' = IF ~lcd_busy /\ EightBits(o) THEN 8 ELSE lcd_bits
  /\ overrun' = (overrun \/ lcd_busy)
  /\ lcd_busy' = TRUE

\* On an 8-bit interface four wires are an instruction whose low half floats:
\* 0010 asks for the 4-bit interface.
TakeEight(n) ==
  /\ lcd_bits' = IF ~lcd_busy /\ ~portb.rs /\ n = 2 THEN 4 ELSE 8
  /\ overrun' = (overrun \/ lcd_busy)
  /\ lcd_busy' = TRUE
  /\ UNCHANGED << lcd_half, lcd_high, executed >>

TakeHalf(n) ==
  IF lcd_half = "high"
  THEN /\ lcd_half' = "low" /\ lcd_high' = n
       /\ UNCHANGED << lcd_bits, lcd_busy, overrun, executed >>
  ELSE /\ lcd_half' = "high"
       /\ Take([rs |-> portb.rs, byte |-> 16 * lcd_high + n])
       /\ UNCHANGED lcd_high

\* E falls: the display takes the wires, or has given one half of its status.
FallingE ==
  IF portb.rw
  THEN /\ lcd_half' = IF lcd_bits = 8 \/ lcd_half = "low" THEN "high" ELSE "low"
       /\ UNCHANGED << lcd_bits, lcd_high, lcd_busy, overrun, executed >>
  ELSE \E n \in Nibble : /\ OnTheWires(n)
                         /\ IF lcd_bits = 8 THEN TakeEight(n) ELSE TakeHalf(n)

\* sta PORTB
SetPortb(new) ==
  /\ portb' = new
  /\ IF ddrb # "none" /\ portb.e /\ ~new.e THEN FallingE ELSE UNCHANGED lcd

Ready ==
  /\ lcd_busy
  /\ lcd_busy' = FALSE
  /\ UNCHANGED << ddrb, portb, pc, op, high_half, lcd_bits, lcd_half, lcd_high,
                  overrun, issued, executed, cold >>

-----------------------------------------------------------------------------
(* The driver, one store at a time.                                        *)

Goto(l) == pc' = l /\ UNCHANGED << op, issued, cold >>

\* At label l, store new in PORTB and go on to the next label.
Store(l, new, next) ==
  /\ pc = l
  /\ SetPortb(new)
  /\ UNCHANGED << ddrb, high_half >>
  /\ Goto(next)

\* bootstrap.4bit.s makes port B an output; port A is not used.
Boot ==
  /\ pc = "boot"
  /\ ddrb' = "all"
  /\ UNCHANGED << portb, high_half, lcd >>
  /\ Goto("init_data")

LcdInitFourBit ==
  \/ Store("init_data", Write(FALSE, 2), "init_strobe")
  \/ Store("init_strobe", E(portb), "init_latch")
  \/ Store("init_latch", NoE(portb), "idle")

\* Mutant: all of port B stays output.
DataOutput == "all"

\* lda #%11110000
DataInput == "control"

LcdWait ==
  /\ pc = "lcd_wait"
  /\ ddrb' = DataInput
  /\ UNCHANGED << portb, high_half, lcd >>
  /\ Goto("lcdbusy")

\* Mutant: the low half is not read.
LcdBusyOnce ==
  \/ Store("lcdbusy", RW, "enable_high")
  \/ Store("enable_high", E(RW), "read_high")
  \/ Store("deselect_high", RW, "poll")

LcdBusy ==
  \/ Store("lcdbusy", RW, "enable_high")
  \/ Store("enable_high", E(RW), "read_high")
  \/ Store("deselect_high", RW, "enable_low")
  \/ Store("enable_low", E(RW), "poll")

\* Bit 3 of lda PORTB: in the high half the busy flag, in the low half a bit of
\* the display's address counter.
BusyBit ==
  IF ddrb = "all" THEN {portb.nibble >= 8}
  ELSE IF ddrb = "control" /\ portb.e /\ portb.rw /\ (lcd_bits = 8 \/ lcd_half = "high")
       THEN {lcd_busy}
  ELSE BOOLEAN

\* lda PORTB / pha
ReadHigh ==
  /\ pc = "read_high"
  /\ high_half' \in BusyBit
  /\ UNCHANGED << ddrb, portb, lcd >>
  /\ Goto("deselect_high")

\* Mutant: the busy flag is not looked at.
NotPolled == {FALSE}

\* Mutant: the busy flag is looked for in the low half.
PolledLow == BusyBit

\* lda PORTB / pla: the low half is thrown away.
Polled == {high_half}

Poll ==
  /\ pc = "poll"
  /\ \E busy \in Polled : Goto(IF busy THEN "lcdbusy" ELSE "deselect")
  /\ UNCHANGED << ddrb, portb, high_half, lcd >>

Deselect == Store("deselect", RW, "output")

Output ==
  /\ pc = "output"
  /\ ddrb' = "all"
  /\ UNCHANGED << portb, high_half, lcd >>
  /\ Goto("high")

\* lcd_instruction and print_char: both halves, with RS for a character.
SendHigh ==
  \/ Store("high", Write(op.rs, High(op.byte)), "high_strobe")
  \/ Store("high_strobe", E(portb), "high_latch")
  \/ Store("high_latch", NoE(portb), "low")

SendLow ==
  \/ Store("low", Write(op.rs, Low(op.byte)), "low_strobe")
  \/ Store("low_strobe", E(portb), "low_latch")
  \/ Store("low_latch", NoE(portb), "idle")

-----------------------------------------------------------------------------
(* The callers.                                                            *)

BootOp(i) == [rs |-> FALSE, byte |-> BootBytes[i]]

\* The next call: the boot instructions, then whatever the program sends.
Call ==
  /\ pc = "idle"
  /\ Len(issued) < MaxCalls
  /\ \E o \in Op :
       /\ IF Len(issued) < Len(BootBytes) THEN o = BootOp(Len(issued) + 1)
                                          ELSE o \in Ops
       /\ op' = o
       /\ issued' = Append(issued, o)
  /\ pc' = "lcd_wait"
  /\ UNCHANGED << ddrb, portb, high_half, lcd, cold >>

\* The reset button.  The pins of the VIA become inputs, so E falls if it was
\* high and the display takes, or has given, half a byte.
ResetButton ==
  /\ Resets
  /\ cold' = FALSE
  /\ ddrb' = "none" /\ portb' = Write(FALSE, 0)
  /\ pc' = "boot" /\ op' = [rs |-> FALSE, byte |-> 0] /\ high_half' = FALSE
  /\ issued' = << >> /\ executed' = << >> /\ overrun' = FALSE
  /\ IF ddrb = "none" \/ ~portb.e
     THEN UNCHANGED << lcd_bits, lcd_half, lcd_high, lcd_busy >>
     ELSE IF portb.rw
     THEN /\ lcd_half' = IF lcd_bits = 8 \/ lcd_half = "low" THEN "high" ELSE "low"
          /\ UNCHANGED << lcd_bits, lcd_high, lcd_busy >>
     ELSE \E n \in {0, 15, portb.nibble} :
            /\ lcd_half' = IF lcd_bits = 8 \/ lcd_half = "low" THEN "high" ELSE "low"
            /\ lcd_high' = IF lcd_bits = 4 /\ lcd_half = "high" THEN n ELSE lcd_high
            /\ lcd_bits' \in {4, 8}
            /\ lcd_busy' \in {lcd_busy, TRUE}

CpuStep ==
  \/ Boot \/ LcdInitFourBit \/ LcdWait \/ LcdBusy \/ ReadHigh \/ Poll \/ Deselect
  \/ Output \/ SendHigh \/ SendLow

Next == CpuStep \/ Call \/ Ready \/ ResetButton

Spec == Init /\ [][Next]_vars

-----------------------------------------------------------------------------
(* What a caller may rely on.                                              *)

(* Type invariant of port, driver and display.                             *)
TypeOK ==
  /\ ddrb \in {"none", "control", "all"} /\ portb \in Pins
  /\ pc \in Labels /\ op \in Op /\ high_half \in BOOLEAN
  /\ lcd_bits \in {4, 8} /\ lcd_half \in {"high", "low"} /\ lcd_high \in Nibble
  /\ lcd_busy \in BOOLEAN /\ overrun \in BOOLEAN /\ cold \in BOOLEAN
  /\ issued \in Seq(Op) /\ executed \in Seq(Op)

(* "Port B (data) is input" (line 40): the display and the VIA never drive *)
(* the data wires against each other, whatever the display's interface and *)
(* count of halves.                                                        *)
NoContention == ddrb # "none" /\ portb.e /\ portb.rw => ddrb = "control"

\* The second half of a status read or of a byte comes next.
SecondHalfNext ==
  \/ pc \in {"enable_low", "poll", "low", "low_strobe", "low_latch"}
  \/ pc \in {"lcdbusy", "deselect"} /\ portb.e

(* From power-on, driver and display count halves alike at every store,    *)
(* through reads and writes and however often the poll goes round.         *)
SameHalf ==
  cold /\ pc \notin {"boot", "init_data", "init_strobe", "init_latch"} =>
    lcd_bits = 4 /\ (lcd_half = "low" <=> SecondHalfNext)

(* From power-on, no byte is sent while the display is busy.               *)
NoOverrun == cold => ~overrun

(* From power-on, the display executes what the program calls for, each    *)
(* byte once and in order, though each crosses in two halves.              *)
Link == INSTANCE LcdLink
ImplementsLink ==
  Link!Init /\ [][cold' => Link!Next]_<< issued, executed >>

(* "Initialize 4-bit mode" (bootstrap.4bit.s line 27): when the boot code  *)
(* is done, the display has executed the four boot instructions.           *)
BootInitializes ==
  pc = "idle" /\ Len(issued) = Len(BootBytes) =>
    executed = [i \in 1 .. Len(BootBytes) |-> BootOp(i)]
=============================================================================
