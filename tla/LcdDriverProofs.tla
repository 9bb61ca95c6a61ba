-------------------------- MODULE LcdDriverProofs --------------------------
(***************************************************************************)
(* Proofs about the 8-bit LCD driver: for every boot sequence, every set   *)
(* of bytes and handlers, and any number of calls, interrupts and resets,  *)
(* the driver keeps the bus to one speaker, never outruns the display, and *)
(* implements LcdLink.  Each holds until a handler that prints interrupts. *)
(*                                                                         *)
(* The inductive invariant says, for each store of the main program's      *)
(* call, what the pins are and how far the display is behind the calls.    *)
(***************************************************************************)
EXTENDS LcdDriver, SequenceTheorems, TLAPS

m == pc["main"]

\* The control lines at each store.
Control ==
  /\ m \in {"boot", "boot_control"} => porta = Low
  /\ m \in {"idle", "lcd_wait"} => ~porta.e
  /\ m = "lcdbusy" => (porta.e => porta.rw)
  /\ m \in {"enable", "output", "data", "control"} => porta = RW
  /\ m \in {"poll", "deselect"} => porta = RWE
  /\ m = "strobe" => porta = RS(op["main"])
  /\ m = "latch" => porta = RSE(op["main"])

\* The direction of the ports and the byte on them.
Direction ==
  /\ m \notin {"boot", "boot_control"} => ddra = "out"
  /\ m \in {"lcdbusy", "enable", "poll", "deselect", "output"} => ddrb = "in"
  /\ m \in {"data", "control", "strobe", "latch"} => ddrb = "out"
  /\ m \in {"control", "strobe", "latch"} => orb = op["main"].byte

\* The poll has seen the display ready, and nothing was sent since.
Polled ==
  m \in {"deselect", "output", "data", "control", "strobe", "latch"} => ~lcd_busy

\* The call in progress is the one byte the display does not have yet.
OneBehind ==
  IF m \in {"boot", "boot_control", "idle"} THEN executed = issued
  ELSE issued = Append(executed, op["main"])

\* The handler prints nothing.
SilentHandler ==
  /\ pc["irq"] = "idle"
  /\ level = "irq" => text = << >>

IInv ==
  Undisturbed =>
    Control /\ Direction /\ Polled /\ OneBehind /\ SilentHandler /\ ~overrun

-----------------------------------------------------------------------------
(* Type correctness.                                                       *)

LEMMA ControlTypes ==
  /\ Low \in [rs : BOOLEAN, rw : BOOLEAN, e : BOOLEAN]
  /\ RW \in [rs : BOOLEAN, rw : BOOLEAN, e : BOOLEAN]
  /\ RWE \in [rs : BOOLEAN, rw : BOOLEAN, e : BOOLEAN]
  /\ \A o \in Op : /\ RS(o) \in [rs : BOOLEAN, rw : BOOLEAN, e : BOOLEAN]
                   /\ RSE(o) \in [rs : BOOLEAN, rw : BOOLEAN, e : BOOLEAN]
  BY DEF Low, RW, RWE, RS, RSE, Op

LEMMA ControlFields ==
  /\ ~Low.rs /\ ~Low.rw /\ ~Low.e
  /\ ~RW.rs /\ RW.rw /\ ~RW.e
  /\ ~RWE.rs /\ RWE.rw /\ RWE.e
  /\ \A o \in Op : /\ RS(o).rs = o.rs /\ ~RS(o).rw /\ ~RS(o).e
                   /\ RSE(o).rs = o.rs /\ ~RSE(o).rw /\ RSE(o).e
  BY DEF Low, RW, RWE, RS, RSE, Op

LEMMA StoreTypes ==
  ASSUME TypeOK, NEW new \in [rs : BOOLEAN, rw : BOOLEAN, e : BOOLEAN],
         SetPorta(new)
  PROVE  /\ porta' \in [rs : BOOLEAN, rw : BOOLEAN, e : BOOLEAN]
         /\ lcd_busy' \in BOOLEAN /\ overrun' \in BOOLEAN /\ executed' \in Seq(Op)
<1>1. porta' \in [rs : BOOLEAN, rw : BOOLEAN, e : BOOLEAN]
  BY DEF SetPorta
<1>2. CASE ddra = "out" /\ porta.e /\ ~porta.rw /\ ~new.e
  <2>1. PICK b \in 0 .. 255 : Take([rs |-> porta.rs, byte |-> b])
    BY <1>2 DEF SetPorta
  <2>2. [rs |-> porta.rs, byte |-> b] \in Op
    BY DEF TypeOK, Op
  <2>3. executed' \in Seq(Op)
    BY <2>1, <2>2 DEF Take, TypeOK
  <2> QED
    BY <1>1, <2>1, <2>3 DEF Take, TypeOK
<1>3. CASE ~(ddra = "out" /\ porta.e /\ ~porta.rw /\ ~new.e)
  BY <1>1, <1>3 DEF SetPorta, lcd, TypeOK
<1> QED
  BY <1>2, <1>3

LEMMA DriverTypes ==
  ASSUME TypeOK, NEW t \in Threads, Driver(t)
  PROVE  TypeOK'
<1> USE DEF TypeOK, via, lcd, At, Goto
<1>1. op[t] \in Op
  OBVIOUS
<1>2. CASE LcdWait(t)
  BY <1>2 DEF LcdWait, PortBInput, Labels
<1>3. CASE LcdBusy(t)
  BY <1>3, StoreTypes, ControlTypes DEF LcdBusy, Labels
<1>4. CASE EnableRead(t)
  BY <1>4, StoreTypes, ControlTypes DEF EnableRead, Labels
<1>5. CASE Poll(t)
  BY <1>5 DEF Poll, Labels
<1>6. CASE Deselect(t)
  BY <1>6, StoreTypes, ControlTypes DEF Deselect, Labels
<1>7. CASE Output(t)
  BY <1>7 DEF Output, Labels
<1>8. CASE PutData(t)
  BY <1>1, <1>8 DEF PutData, Labels, Op
<1>9. CASE PutControl(t)
  BY <1>1, <1>9, StoreTypes, ControlTypes DEF PutControl, Labels
<1>10. CASE Strobe(t)
  BY <1>1, <1>10, StoreTypes, ControlTypes DEF Strobe, Labels
<1>11. CASE Latch(t)
  BY <1>1, <1>11, StoreTypes, ControlTypes DEF Latch, Labels
<1> QED
  BY <1>2, <1>3, <1>4, <1>5, <1>6, <1>7, <1>8, <1>9, <1>10, <1>11 DEF Driver

LEMMA TypeInit == Init => TypeOK
<1> SUFFICES ASSUME Init PROVE TypeOK
  OBVIOUS
<1>1. text \in Seq(0 .. 255) /\ MaxPresses \in Nat
  BY LcdAssumption DEF Init
<1>2. printed \in 0 .. Len(text) /\ presses \in 0 .. MaxPresses
  BY <1>1 DEF Init
<1>3. issued \in Seq(Op) /\ executed \in Seq(Op)
  BY DEF Init
<1>4. op \in [Threads -> Op] /\ pc \in [Threads -> Labels]
  BY DEF Init, Op, Labels
<1>5. /\ text \in HandlerTexts /\ ddrb \in {"in", "out"} /\ ddra \in {"in", "out"}
      /\ orb \in 0 .. 255 /\ level \in Threads
  BY DEF Init, Threads
<1>6. /\ porta \in [rs : BOOLEAN, rw : BOOLEAN, e : BOOLEAN]
      /\ lcd_busy \in BOOLEAN /\ overrun \in BOOLEAN
  BY ControlTypes DEF Init
<1> QED
  BY <1>2, <1>3, <1>4, <1>5, <1>6 DEF TypeOK

LEMMA TypeStep == TypeOK /\ [Next]_vars => TypeOK'
<1> SUFFICES ASSUME TypeOK, [Next]_vars PROVE TypeOK'
  OBVIOUS
<1> USE DEF TypeOK, via, lcd, At, Goto
<1>1. CASE Boot \/ BootControl
  BY <1>1 DEF Boot, BootControl, Labels
<1>2. CASE HandlerPrint
  <2>1. text \in Seq(0 .. 255) /\ printed \in Nat /\ printed < Len(text)
    BY <1>2, LcdAssumption DEF HandlerPrint
  <2>2. printed + 1 \in 1 .. Len(text)
    BY <2>1
  <2>3. text[printed + 1] \in 0 .. 255
    BY <2>1, <2>2, ElementOfSeq
  <2>4. [rs |-> TRUE, byte |-> text[printed + 1]] \in Op
    BY <2>3 DEF Op
  <2> QED
    BY <1>2, <2>2, <2>4 DEF HandlerPrint, NextChar, Labels, Threads
<1>3. CASE ExitIrq
  BY <1>3 DEF ExitIrq, Threads
<1>4. CASE \E t \in Threads : Driver(t)
  BY <1>4, DriverTypes
<1>5. CASE Call
  BY <1>5 DEF Call, Labels, Threads
<1>6. CASE Irq
  <2>1. text \in Seq(0 .. 255) /\ MaxPresses \in Nat
    BY LcdAssumption
  <2> QED
    BY <1>6, <2>1 DEF Irq, Threads
<1>7. CASE Ready
  BY <1>7 DEF Ready
<1>8. CASE ResetButton
  <2>1. text \in Seq(0 .. 255) /\ MaxPresses \in Nat
    BY LcdAssumption
  <2>2. printed' \in 0 .. Len(text') /\ presses' \in 0 .. MaxPresses
    BY <1>8, <2>1 DEF ResetButton
  <2>3. issued' \in Seq(Op) /\ executed' \in Seq(Op)
    BY <1>8 DEF ResetButton
  <2>4. op' \in [Threads -> Op] /\ pc' \in [Threads -> Labels]
    BY <1>8 DEF ResetButton, Op, Labels
  <2>5. /\ text' \in HandlerTexts /\ ddrb' \in {"in", "out"} /\ ddra' \in {"in", "out"}
        /\ orb' \in 0 .. 255 /\ level' \in Threads
    BY <1>8 DEF ResetButton, Threads
  <2>6. /\ porta' \in [rs : BOOLEAN, rw : BOOLEAN, e : BOOLEAN]
        /\ lcd_busy' \in BOOLEAN /\ overrun' \in BOOLEAN
    BY <1>8, ControlTypes DEF ResetButton
  <2> QED
    BY <2>2, <2>3, <2>4, <2>5, <2>6
<1>9. CASE UNCHANGED vars
  BY <1>9 DEF vars
<1> QED
  BY <1>1, <1>2, <1>3, <1>4, <1>5, <1>6, <1>7, <1>8, <1>9 DEF Next, CpuStep

(* Every register, label and byte keeps its type, for all constants.       *)
THEOREM TypeCorrect == Spec => []TypeOK
  BY TypeInit, TypeStep, PTL DEF Spec

-----------------------------------------------------------------------------
(* The invariant.                                                          *)

\* Only a reset makes the driver undisturbed again.
LEMMA DisturbedStays ==
  ASSUME TypeOK, [Next]_vars, Undisturbed', ~ResetButton
  PROVE  Undisturbed
<1> USE DEF Undisturbed
<1>1. CASE Irq
  BY <1>1 DEF Irq, TypeOK
<1>2. text' = text /\ (presses' = presses \/ Irq)
  BY DEF Next, CpuStep, Driver, vars, Boot, BootControl, HandlerPrint, ExitIrq, Call,
         Irq, Ready, LcdWait, LcdBusy, EnableRead, Poll, Deselect, Output, PutData,
         PutControl, Strobe, Latch, Goto
<1> QED
  BY <1>1, <1>2

LEMMA InvInit == Init => IInv
  BY ControlFields DEF Init, IInv, Control, Direction, Polled, OneBehind,
     SilentHandler, m, Threads

LEMMA InvReset == ASSUME ResetButton PROVE IInv'
  BY ControlFields DEF ResetButton, IInv, Control, Direction, Polled, OneBehind,
     SilentHandler, m, Threads

\* A store to port A that does not let E fall in a write leaves the display alone.
LEMMA QuietStore ==
  ASSUME NEW new, SetPorta(new), ~porta.e \/ porta.rw
  PROVE  porta' = new /\ UNCHANGED lcd
  BY DEF SetPorta

\* The falling E of Latch hands over the byte of the call in progress.
LEMMA LatchTakes ==
  ASSUME TypeOK, Undisturbed, IInv, Latch("main")
  PROVE  executed' = Append(executed, op["main"]) /\ overrun' = FALSE
<1>1. m = "latch" /\ SetPorta(RS(op["main"]))
  BY DEF Latch, At, m
<1>2. op["main"] \in Op
  BY DEF TypeOK, Threads
<1>3. /\ ddra = "out" /\ ddrb = "out" /\ orb = op["main"].byte
      /\ porta = RSE(op["main"]) /\ ~lcd_busy /\ ~overrun
  BY <1>1 DEF IInv, Control, Direction, Polled
<1>4. PICK b \in 0 .. 255 : OnTheLines(b) /\ Take([rs |-> porta.rs, byte |-> b])
  BY <1>1, <1>2, <1>3, ControlFields DEF SetPorta
<1>5. [rs |-> porta.rs, byte |-> b] = op["main"]
  BY <1>2, <1>3, <1>4, ControlFields DEF OnTheLines, Op
<1> QED
  BY <1>3, <1>4, <1>5 DEF Take, TypeOK

LEMMA InvDriver ==
  ASSUME TypeOK, Undisturbed, IInv, NEW t \in Threads, Driver(t)
  PROVE  IInv'
<1> USE DEF IInv, Control, Direction, Polled, OneBehind, SilentHandler, m
<1>1. t = "main"
  BY DEF Driver, LcdWait, LcdBusy, EnableRead, Poll, Deselect, Output, PutData,
         PutControl, Strobe, Latch, At, Threads
<1>2. op["main"] \in Op /\ pc \in [Threads -> Labels] /\ "main" \in Threads
  BY DEF TypeOK, Threads
<1>3. CASE LcdWait("main")
  BY <1>2, <1>3 DEF LcdWait, PortBInput, At, Goto, lcd
<1>4. CASE LcdBusy("main")
  BY <1>2, <1>4, QuietStore DEF LcdBusy, At, Goto, lcd
<1>5. CASE EnableRead("main")
  BY <1>2, <1>5, QuietStore, ControlFields DEF EnableRead, At, Goto, lcd
<1>6. CASE Poll("main")
  BY <1>2, <1>6, ControlFields DEF Poll, BusyRead, At, Goto, lcd, via
<1>7. CASE Deselect("main")
  BY <1>2, <1>7, QuietStore, ControlFields DEF Deselect, At, Goto, lcd
<1>8. CASE Output("main")
  BY <1>2, <1>8 DEF Output, At, Goto, lcd
<1>9. CASE PutData("main")
  BY <1>2, <1>9 DEF PutData, At, Goto, lcd
<1>10. CASE PutControl("main")
  BY <1>2, <1>10, QuietStore, ControlFields DEF PutControl, At, Goto, lcd
<1>11. CASE Strobe("main")
  BY <1>2, <1>11, QuietStore, ControlFields DEF Strobe, At, Goto, lcd
<1>12. CASE Latch("main")
  <2>1. porta' = RS(op["main"]) /\ ~porta'.e
    BY <1>2, <1>12, ControlFields DEF Latch, SetPorta
  <2>2. executed' = Append(executed, op["main"]) /\ overrun' = FALSE
    BY <1>12, LatchTakes
  <2>3. pc' = [pc EXCEPT !["main"] = "idle"] /\ UNCHANGED << level, op, issued, text >>
    BY <1>12 DEF Latch, Goto
  <2>4. m = "latch" /\ UNCHANGED << ddra, ddrb, orb >>
    BY <1>12 DEF Latch, At
  <2> QED
    BY <1>2, <2>1, <2>2, <2>3, <2>4
<1> QED
  BY <1>1, <1>3, <1>4, <1>5, <1>6, <1>7, <1>8, <1>9, <1>10, <1>11, <1>12 DEF Driver

\* Until a handler prints, only Latch lets E fall in a write.
LEMMA OnlyLatchSends ==
  ASSUME TypeOK, Undisturbed, IInv, [Next]_vars, ~ResetButton, ~Latch("main")
  PROVE  UNCHANGED executed
<1>1. CASE \E t \in Threads : Driver(t)
  <2>1. PICK t \in Threads : Driver(t)
    BY <1>1
  <2>2. t = "main"
    BY <2>1 DEF Driver, LcdWait, LcdBusy, EnableRead, Poll, Deselect, Output, PutData,
       PutControl, Strobe, Latch, At, Threads, IInv, SilentHandler
  <2>3. op["main"] \in Op
    BY DEF TypeOK, Threads
  <2>4. CASE LcdWait("main") \/ Poll("main") \/ Output("main") \/ PutData("main")
    BY <2>4 DEF LcdWait, Poll, Output, PutData, lcd
  <2>5. CASE LcdBusy("main") \/ EnableRead("main") \/ Deselect("main")
             \/ PutControl("main") \/ Strobe("main")
    BY <2>3, <2>5, QuietStore, ControlFields DEF LcdBusy, EnableRead, Deselect,
       PutControl, Strobe, At, IInv, Control, m, lcd
  <2> QED
    BY <2>1, <2>2, <2>4, <2>5 DEF Driver
<1>2. CASE ~\E t \in Threads : Driver(t)
  BY <1>2 DEF Next, CpuStep, Boot, BootControl, HandlerPrint, ExitIrq, Call, Irq,
     Ready, vars, lcd
<1> QED
  BY <1>1, <1>2

LEMMA InvStep == TypeOK /\ IInv /\ [Next]_vars => IInv'
<1> SUFFICES ASSUME TypeOK, IInv, [Next]_vars, Undisturbed', ~ResetButton
             PROVE  IInv'
  BY InvReset DEF IInv
<1>1. Undisturbed
  BY DisturbedStays
<1> USE DEF IInv, Control, Direction, Polled, OneBehind, SilentHandler, m
<1>2. pc \in [Threads -> Labels] /\ op \in [Threads -> Op] /\ printed \in Nat
  BY DEF TypeOK
<1>3. CASE Boot
  BY <1>1, <1>2, <1>3, ControlFields DEF Boot, At, Goto, lcd, Threads
<1>4. CASE BootControl
  BY <1>1, <1>2, <1>4, ControlFields DEF BootControl, At, Goto, lcd, Threads
<1>5. CASE HandlerPrint
  BY <1>1, <1>2, <1>5 DEF HandlerPrint, At
<1>6. CASE ExitIrq
  BY <1>1, <1>6 DEF ExitIrq, via, lcd
<1>7. CASE \E t \in Threads : Driver(t)
  BY <1>1, <1>7, InvDriver
<1>8. CASE Call
  BY <1>1, <1>2, <1>8 DEF Call, At, via, lcd, Threads
<1>9. CASE Irq
  BY <1>1, <1>2, <1>9 DEF Irq, Undisturbed, via, lcd, TypeOK
<1>10. CASE Ready
  BY <1>1, <1>10 DEF Ready, via
<1>11. CASE UNCHANGED vars
  BY <1>1, <1>11 DEF vars, via, lcd
<1> QED
  BY <1>3, <1>4, <1>5, <1>6, <1>7, <1>8, <1>9, <1>10, <1>11 DEF Next, CpuStep

LEMMA Inductive == Spec => [](TypeOK /\ IInv)
  BY TypeInit, TypeStep, InvInit, InvStep, PTL DEF Spec

-----------------------------------------------------------------------------
(* What follows.                                                           *)

(* The display and the VIA never drive the data lines against each other.  *)
THEOREM BusHasOneSpeaker == Spec => []NoContentionUndisturbed
<1>1. TypeOK /\ IInv => NoContentionUndisturbed
  <2> SUFFICES ASSUME TypeOK, IInv, Undisturbed, ddra = "out", porta.e, porta.rw
               PROVE  ddrb = "in"
    BY DEF NoContentionUndisturbed, NoContention
  <2>1. m \in Labels /\ op["main"] \in Op
    BY DEF TypeOK, Threads, m
  <2>2. m \in {"lcdbusy", "poll", "deselect"}
    BY <2>1, ControlFields DEF IInv, Control, Labels
  <2> QED
    BY <2>2 DEF IInv, Direction
<1> QED
  BY <1>1, Inductive, PTL

(* No byte is sent while the display is busy.                              *)
THEOREM DisplayKeepsUp == Spec => []NoOverrun
<1>1. IInv => NoOverrun
  BY DEF IInv, NoOverrun
<1> QED
  BY <1>1, Inductive, PTL

(* The display executes the calls, each once and in order.                 *)
THEOREM DriverImplementsLink == Spec => ImplementsLink
<1>1. Init => Link!Init
  BY DEF Init, Link!Init
<1>2. TypeOK /\ IInv /\ [Next]_vars =>
        [Undisturbed' => Link!Next]_<< issued, executed >>
  <2> SUFFICES ASSUME TypeOK, IInv, [Next]_vars, Undisturbed'
               PROVE  Link!Next \/ UNCHANGED << issued, executed >>
    OBVIOUS
  <2>1. CASE ResetButton
    BY <2>1 DEF ResetButton, Link!Next, Link!Reset
  <2>2. CASE ~ResetButton
    <3>1. Undisturbed
      BY <2>2, DisturbedStays
    <3> USE DEF IInv, OneBehind, m
    <3>2. CASE Call
      BY <3>1, <3>2 DEF Call, At, lcd, Link!Next, Link!Issue
    <3>3. CASE Latch("main")
      <4>1. executed' = Append(executed, op["main"]) /\ issued' = issued
        BY <3>1, <3>3, LatchTakes DEF Latch, Goto
      <4>2. issued = Append(executed, op["main"])
        BY <3>1, <3>3 DEF Latch, At
      <4>3. op["main"] \in Op /\ executed \in Seq(Op)
        BY DEF TypeOK, Threads
      <4>4. executed # issued
        BY <4>2, <4>3
      <4> QED
        BY <4>1, <4>2, <4>4 DEF Link!Next, Link!Execute
    <3>4. CASE ~Call /\ ~Latch("main")
      <4>1. UNCHANGED issued
        BY <2>2, <3>4 DEF Next, CpuStep, Driver, vars, Boot, BootControl, HandlerPrint,
           ExitIrq, Irq, Ready, LcdWait, LcdBusy, EnableRead, Poll, Deselect, Output,
           PutData, PutControl, Strobe, Latch, Goto
      <4>2. UNCHANGED executed
        BY <2>2, <3>1, <3>4, OnlyLatchSends
      <4> QED
        BY <4>1, <4>2
    <3> QED
      BY <3>2, <3>3, <3>4
  <2> QED
    BY <2>1, <2>2
<1> QED
  BY <1>1, <1>2, Inductive, PTL DEF Spec, ImplementsLink
=============================================================================
