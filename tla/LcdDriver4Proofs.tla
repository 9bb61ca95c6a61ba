-------------------------- MODULE LcdDriver4Proofs --------------------------
(***************************************************************************)
(* Proofs about the 4-bit LCD driver, for every boot sequence, every set   *)
(* of operations and any number of calls and resets: the bus has one       *)
(* speaker; and from power-on, driver and display count halves alike, no   *)
(* byte is sent to a busy display, and the driver implements LcdLink.      *)
(*                                                                         *)
(* The inductive invariant says, for each store, what the pins are, which  *)
(* half comes next and how far the display is behind the calls.            *)
(***************************************************************************)
EXTENDS LcdDriver4, SequenceTheorems, TLAPS

Booting  == pc \in { "boot", "init_data", "init_strobe", "init_latch" }
Sending  == pc \in { "high", "high_strobe", "high_latch", "low", "low_strobe", "low_latch" }
HalfSent == pc \in { "low", "low_strobe", "low_latch" }

\* The port writes half n, or reads.
Puts(rs, n) == portb.rs = rs /\ ~portb.rw /\ portb.nibble = n
Puts1 == Puts(op.rs, High(op.byte))
Puts2 == Puts(op.rs, Low(op.byte))

\* The pins at each store.
Pinned ==
  /\ pc = "boot" => ddrb = "none" /\ ~portb.e /\ ~portb.rw
  /\ pc \in { "init_data", "init_strobe", "init_latch", "idle", "lcd_wait", "high" } \/ Sending =>
       ddrb = "all"
  /\ pc = "init_data" => ~portb.e /\ ~portb.rw
  /\ pc = "init_strobe" => ~portb.e /\ Puts(FALSE, 2)
  /\ pc = "init_latch" => portb.e /\ Puts(FALSE, 2)
  /\ pc \in { "idle", "lcd_wait" } => ~portb.e /\ ~portb.rw
  /\ pc \in { "lcdbusy", "enable_high", "read_high", "deselect_high", "enable_low", "poll",
              "deselect", "output" } => ddrb = "control"
  /\ pc = "lcdbusy" => (portb.e => portb.rw)
  /\ pc \in { "enable_high", "enable_low", "output", "high" } => ~portb.e /\ portb.rw
  /\ pc \in { "read_high", "deselect_high", "poll", "deselect" } => portb.e /\ portb.rw
  /\ pc \in { "high_strobe", "low" } => ~portb.e /\ Puts1
  /\ pc = "high_latch" => portb.e /\ Puts1
  /\ pc = "low_strobe" => ~portb.e /\ Puts2
  /\ pc = "low_latch" => portb.e /\ Puts2

\* The display before the boot code has asked for the 4-bit interface.
EightBitDisplay ==
  /\ lcd_bits = 8 /\ lcd_half = "high" /\ ~lcd_busy
  /\ issued = << >> /\ executed = << >>

\* The poll has seen the display ready, and nothing was sent since.
SeenReady ==
  /\ pc \in { "deselect_high", "enable_low", "poll" } => (lcd_busy => high_half)
  /\ pc \in { "deselect", "output" } \/ Sending => ~lcd_busy

\* The call in progress is the one byte the display does not have yet.
OneBehind ==
  IF pc = "idle" THEN executed = issued ELSE issued = Append(executed, op)

\* From power-on.
InStep ==
  /\ ~overrun /\ ~EightBits(op)
  /\ Booting => EightBitDisplay
  /\ ~Booting => /\ lcd_bits = 4 /\ (lcd_half = "low" <=> SecondHalfNext)
                 /\ SeenReady /\ OneBehind
                 /\ HalfSent => lcd_high = High(op.byte)

IInv == TypeOK /\ Pinned /\ (cold => InStep)

-----------------------------------------------------------------------------
LEMMA Halves ==
  \A b \in 0 .. 255 : /\ High(b) \in Nibble /\ Low(b) \in Nibble
                      /\ 16 * High(b) + Low(b) = b
  BY SMTT(30) DEF High, Low, Nibble

LEMMA WholeByte ==
  \A h, n \in Nibble : 16 * h + n \in 0 .. 255
  BY DEF Nibble

\* What the stores put on the port.
LEMMA WritePins ==
  ASSUME NEW rs \in BOOLEAN, NEW n \in Nibble
  PROVE  /\ Write(rs, n) \in Pins
         /\ Write(rs, n).rs = rs /\ ~Write(rs, n).rw /\ ~Write(rs, n).e
         /\ Write(rs, n).nibble = n
  BY DEF Write, Pins

LEMMA BootPins ==
  \A n \in {0, 2} : /\ Write(FALSE, n) \in Pins
                    /\ Write(FALSE, n).rs = FALSE /\ ~Write(FALSE, n).rw /\ ~Write(FALSE, n).e
                    /\ Write(FALSE, n).nibble = n
  BY DEF Write, Pins, Nibble

LEMMA ReadPins == RW \in Pins /\ RW.rw /\ ~RW.e
  BY DEF RW, Pins, Nibble

LEMMA StrobePins ==
  ASSUME NEW p \in Pins
  PROVE  /\ E(p) \in Pins /\ E(p).e /\ E(p).rs = p.rs /\ E(p).rw = p.rw /\ E(p).nibble = p.nibble
         /\ NoE(p) \in Pins /\ ~NoE(p).e /\ NoE(p).rs = p.rs /\ NoE(p).rw = p.rw
         /\ NoE(p).nibble = p.nibble
  BY DEF E, NoE, Pins

-----------------------------------------------------------------------------
(* Type correctness.                                                       *)
DisplayTypes ==
  /\ lcd_bits \in {4, 8} /\ lcd_half \in {"high", "low"} /\ lcd_high \in Nibble
  /\ lcd_busy \in BOOLEAN /\ overrun \in BOOLEAN /\ executed \in Seq(Op)

LEMMA StoreTypes ==
  ASSUME TypeOK, NEW new \in Pins, SetPortb(new)
  PROVE  portb' \in Pins /\ DisplayTypes'
<1> USE DEF DisplayTypes
<1>1. portb' \in Pins
  BY DEF SetPortb
<1>2. CASE UNCHANGED lcd
  BY <1>1, <1>2 DEF lcd, TypeOK
<1>3. CASE FallingE /\ portb.rw
  BY <1>1, <1>3 DEF FallingE, TypeOK
<1>4. CASE FallingE /\ ~portb.rw
  <2>1. PICK n \in Nibble : IF lcd_bits = 8 THEN TakeEight(n) ELSE TakeHalf(n)
    BY <1>4 DEF FallingE
  <2>2. CASE lcd_bits = 8
    BY <1>1, <2>1, <2>2 DEF TakeEight, TypeOK
  <2>3. CASE lcd_bits # 8 /\ lcd_half = "high"
    BY <1>1, <2>1, <2>3 DEF TakeHalf, TypeOK
  <2>4. CASE lcd_bits # 8 /\ lcd_half # "high"
    <3> DEFINE o == [rs |-> portb.rs, byte |-> 16 * lcd_high + n]
    <3>1. o \in Op
      BY WholeByte DEF TypeOK, Pins, Op
    <3> HIDE DEF o
    <3>2. Take(o) /\ lcd_half' = "high" /\ lcd_high' = lcd_high
      BY <2>1, <2>4 DEF TakeHalf, o
    <3>3. executed' \in Seq(Op)
      BY <3>1, <3>2 DEF Take, TypeOK
    <3>. QED
      BY <1>1, <3>2, <3>3 DEF Take, TypeOK
  <2>. QED
    BY <2>2, <2>3, <2>4
<1>. QED
  BY <1>2, <1>3, <1>4 DEF SetPortb

LEMMA OneStore ==
  ASSUME TypeOK, NEW l, NEW new \in Pins, NEW next \in Labels, Store(l, new, next)
  PROVE  TypeOK'
  BY StoreTypes DEF Store, Goto, TypeOK, DisplayTypes

LEMMA TypeStep == TypeOK /\ [Next]_vars => TypeOK'
<1> SUFFICES ASSUME TypeOK, [Next]_vars PROVE TypeOK'
  OBVIOUS
<1>0. portb \in Pins /\ op \in Op /\ op.rs \in BOOLEAN /\ op.byte \in 0 .. 255
  BY DEF TypeOK, Op
<1>1. CASE LcdInitFourBit
  <2>1. Write(FALSE, 2) \in Pins /\ E(portb) \in Pins /\ NoE(portb) \in Pins
    BY <1>0, BootPins, StrobePins
  <2>. QED
    BY <1>1, <2>1, OneStore DEF LcdInitFourBit, Labels
<1>2. CASE LcdBusy \/ Deselect
  BY <1>2, ReadPins, StrobePins, OneStore DEF LcdBusy, Deselect, Labels
<1>3. CASE SendHigh \/ SendLow
  <2>1. /\ Write(op.rs, High(op.byte)) \in Pins /\ Write(op.rs, Low(op.byte)) \in Pins
        /\ E(portb) \in Pins /\ NoE(portb) \in Pins
    BY <1>0, Halves, WritePins, StrobePins
  <2>. QED
    BY <1>3, <2>1, OneStore DEF SendHigh, SendLow, Labels
<1>4. CASE Boot \/ LcdWait \/ ReadHigh \/ Poll \/ Output
  <2>1. UNCHANGED << portb, lcd, op, issued, cold >> /\ pc' \in Labels
    BY <1>4 DEF Boot, LcdWait, ReadHigh, Poll, Output, Goto, Labels
  <2>2. ddrb' \in {"none", "control", "all"}
    BY <1>4 DEF Boot, LcdWait, ReadHigh, Poll, Output, DataInput, TypeOK
  <2>3. high_half' \in BOOLEAN
    <3>0. BusyBit \subseteq BOOLEAN
      <4>1. (portb.nibble >= 8) \in BOOLEAN /\ lcd_busy \in BOOLEAN
        BY DEF TypeOK
      <4>. QED
        BY <4>1, Zenon DEF BusyBit
    <3>1. CASE ReadHigh
      BY <3>0, <3>1 DEF ReadHigh
    <3>. QED
      BY <1>4, <3>1 DEF Boot, LcdWait, Poll, Output, TypeOK
  <2>. QED
    BY <2>1, <2>2, <2>3 DEF lcd, TypeOK
<1>5. CASE Call
  <2>1. PICK o \in Op : op' = o /\ issued' = Append(issued, o)
    BY <1>5 DEF Call
  <2>2. issued' \in Seq(Op)
    BY <2>1 DEF TypeOK
  <2>. QED
    BY <1>5, <2>1, <2>2 DEF Call, Labels, lcd, TypeOK
<1>6. CASE Ready
  BY <1>6 DEF Ready, TypeOK
<1>7. CASE ResetButton
  <2>1. portb' \in Pins /\ ddrb' = "none" /\ pc' \in Labels /\ high_half' \in BOOLEAN
    BY <1>7, BootPins DEF ResetButton, Labels
  <2>2. op' \in Op /\ issued' \in Seq(Op) /\ executed' \in Seq(Op)
    BY <1>7 DEF ResetButton, Op
  <2>3. portb.nibble \in Nibble
    BY <1>0 DEF Pins
  <2>4. lcd_bits' \in {4, 8} /\ lcd_half' \in {"high", "low"} /\ lcd_busy' \in BOOLEAN
    BY <1>7 DEF ResetButton, TypeOK
  <2>5. lcd_high' \in Nibble
    <3>1. lcd_high' \in {lcd_high, 0, 15, portb.nibble}
      BY <1>7 DEF ResetButton
    <3>. QED
      BY <2>3, <3>1 DEF TypeOK, Nibble
  <2>6. overrun' \in BOOLEAN /\ cold' \in BOOLEAN
    BY <1>7 DEF ResetButton
  <2>. QED
    BY <2>1, <2>2, <2>4, <2>5, <2>6 DEF TypeOK
<1>8. CASE UNCHANGED vars
  BY <1>8 DEF vars, lcd, TypeOK
<1>. QED
  BY <1>1, <1>2, <1>3, <1>4, <1>5, <1>6, <1>7, <1>8 DEF Next, CpuStep

LEMMA TypeInit == Init => TypeOK
<1> SUFFICES ASSUME Init PROVE TypeOK
  OBVIOUS
<1>1. portb \in Pins
  BY BootPins DEF Init
<1>2. op \in Op /\ issued \in Seq(Op) /\ executed \in Seq(Op)
  BY DEF Init, Op
<1>3. pc \in Labels /\ ddrb \in {"none", "control", "all"}
  BY DEF Init, Labels
<1>4. high_half \in BOOLEAN /\ lcd_busy \in BOOLEAN /\ overrun \in BOOLEAN /\ cold \in BOOLEAN
  BY DEF Init
<1>5. lcd_bits \in {4, 8} /\ lcd_half \in {"high", "low"} /\ lcd_high \in Nibble
  BY DEF Init, Nibble
<1>. QED
  BY <1>1, <1>2, <1>3, <1>4, <1>5 DEF TypeOK

(* Port, driver and display keep their types, for all constants.           *)
THEOREM TypeCorrect == Spec => []TypeOK
  BY TypeInit, TypeStep, PTL DEF Spec

-----------------------------------------------------------------------------
(* The invariant.                                                          *)

\* What a store does to the display.
LEMMA NoFall ==
  ASSUME NEW new, SetPortb(new), ddrb = "none" \/ ~portb.e \/ new.e
  PROVE  UNCHANGED lcd
  BY DEF SetPortb

LEMMA ReadFall ==
  ASSUME NEW new, SetPortb(new), ddrb # "none", portb.e, portb.rw, ~new.e, lcd_bits = 4
  PROVE  /\ lcd_half' = IF lcd_half = "low" THEN "high" ELSE "low"
         /\ UNCHANGED << lcd_bits, lcd_high, lcd_busy, overrun, executed >>
  BY DEF SetPortb, FallingE

LEMMA WriteFall ==
  ASSUME NEW new, SetPortb(new), ddrb = "all", portb.e, ~portb.rw, ~new.e
  PROVE  IF lcd_bits = 8 THEN TakeEight(portb.nibble) ELSE TakeHalf(portb.nibble)
  BY DEF SetPortb, FallingE, OnTheWires

LEMMA PinnedStep == TypeOK /\ Pinned /\ [Next]_vars => Pinned'
<1> SUFFICES ASSUME TypeOK, Pinned, [Next]_vars PROVE Pinned'
  OBVIOUS
<1> USE DEF Pinned, Sending, Puts, Puts1, Puts2
<1>0. portb \in Pins /\ op \in Op /\ op.rs \in BOOLEAN /\ op.byte \in 0 .. 255
  BY DEF TypeOK, Op
<1>1. CASE Boot
  BY <1>1 DEF Boot, Goto
<1>2. CASE LcdInitFourBit
  <2>1. CASE Store("init_data", Write(FALSE, 2), "init_strobe")
    BY <2>1, BootPins DEF Store, SetPortb, Goto
  <2>2. CASE Store("init_strobe", E(portb), "init_latch")
    BY <1>0, <2>2, StrobePins DEF Store, SetPortb, Goto
  <2>3. CASE Store("init_latch", NoE(portb), "idle")
    BY <1>0, <2>3, StrobePins DEF Store, SetPortb, Goto
  <2>. QED
    BY <1>2, <2>1, <2>2, <2>3 DEF LcdInitFourBit
<1>3. CASE LcdWait \/ ReadHigh \/ Poll \/ Output
  <2>1. CASE LcdWait \/ Output
    BY <2>1 DEF LcdWait, Output, DataInput, Goto
  <2>2. CASE ReadHigh
    BY <2>2 DEF ReadHigh, Goto
  <2>3. CASE Poll
    <3>1. pc = "poll" /\ pc' \in {"lcdbusy", "deselect"} /\ UNCHANGED << ddrb, portb, op >>
      BY <2>3 DEF Poll, Goto
    <3>. QED
      BY <3>1
  <2>. QED
    BY <1>3, <2>1, <2>2, <2>3
<1>4. CASE LcdBusy \/ Deselect
  BY <1>4, ReadPins, StrobePins DEF LcdBusy, Deselect, Store, SetPortb, Goto
<1>5. CASE SendHigh \/ SendLow
  <2>1. High(op.byte) \in Nibble /\ Low(op.byte) \in Nibble
    BY <1>0, Halves
  <2> DEFINE w1 == Write(op.rs, High(op.byte))
             w2 == Write(op.rs, Low(op.byte))
  <2>2. /\ w1.rs = op.rs /\ ~w1.rw /\ ~w1.e /\ w1.nibble = High(op.byte)
        /\ w2.rs = op.rs /\ ~w2.rw /\ ~w2.e /\ w2.nibble = Low(op.byte)
    BY <1>0, <2>1, WritePins
  <2> HIDE DEF w1, w2
  <2>3. CASE SendHigh
    <3>1. /\ Store("high", w1, "high_strobe") \/ Store("high_strobe", E(portb), "high_latch")
             \/ Store("high_latch", NoE(portb), "low")
      BY <2>3 DEF SendHigh, w1
    <3>. QED
      BY <1>0, <2>2, <3>1, StrobePins DEF Store, SetPortb, Goto
  <2>4. CASE SendLow
    <3>1. /\ Store("low", w2, "low_strobe") \/ Store("low_strobe", E(portb), "low_latch")
             \/ Store("low_latch", NoE(portb), "idle")
      BY <2>4 DEF SendLow, w2
    <3>. QED
      BY <1>0, <2>2, <3>1, StrobePins DEF Store, SetPortb, Goto
  <2>. QED
    BY <1>5, <2>3, <2>4
<1>6. CASE Call
  BY <1>6 DEF Call
<1>7. CASE Ready \/ UNCHANGED vars
  BY <1>7 DEF Ready, vars
<1>8. CASE ResetButton
  BY <1>8, BootPins DEF ResetButton
<1>. QED
  BY <1>1, <1>2, <1>3, <1>4, <1>5, <1>6, <1>7, <1>8 DEF Next, CpuStep

\* The store that ends a half of a byte: the second one completes the operation.
LEMMA ByteSent ==
  ASSUME TypeOK, ddrb = "all", portb.rs = op.rs, portb.nibble = Low(op.byte),
         lcd_high = High(op.byte), lcd_half = "low", TakeHalf(portb.nibble)
  PROVE  Take(op) /\ lcd_half' = "high"
<1> DEFINE o == [rs |-> portb.rs, byte |-> 16 * lcd_high + portb.nibble]
<1>1. Take(o) /\ lcd_half' = "high"
  BY DEF TakeHalf
<1>2. op = [rs |-> op.rs, byte |-> op.byte] /\ op.byte \in 0 .. 255
  BY DEF TypeOK, Op
<1>3. o = op
  BY <1>2, Halves
<1> HIDE DEF o
<1>. QED
  BY <1>1, <1>3

LEMMA InStepStep == IInv /\ cold' /\ [Next]_vars => InStep'
<1> SUFFICES ASSUME IInv, cold', [Next]_vars PROVE InStep'
  OBVIOUS
<1>0. cold /\ InStep /\ TypeOK /\ Pinned
  BY DEF IInv, Next, CpuStep, Boot, LcdInitFourBit, LcdWait, LcdBusy, ReadHigh, Poll, Deselect, Output,
         SendHigh, SendLow, Store, Goto, Call, Ready, ResetButton, vars
<1> USE <1>0 DEF InStep, Booting, Sending, HalfSent, SecondHalfNext, SeenReady, OneBehind,
                 EightBitDisplay
<1>1. CASE Boot
  BY <1>1 DEF Boot, Goto, lcd
<1>2. CASE LcdInitFourBit
  <2>1. CASE Store("init_data", Write(FALSE, 2), "init_strobe")
    BY <2>1, NoFall DEF Store, Goto, Pinned, lcd
  <2>2. CASE Store("init_strobe", E(portb), "init_latch")
    BY <2>2, NoFall DEF Store, Goto, Pinned, lcd
  <2>3. CASE Store("init_latch", NoE(portb), "idle")
    <3>1. ddrb = "all" /\ portb.e /\ ~portb.rw /\ ~portb.rs /\ portb.nibble = 2 /\ ~NoE(portb).e
      BY <2>3, StrobePins DEF Store, Pinned, Puts, TypeOK
    <3>2. TakeEight(2)
      BY <2>3, <3>1, WriteFall DEF Store
    <3>. QED
      BY <2>3, <3>1, <3>2 DEF TakeEight, Store, Goto
  <2>. QED
    BY <1>2, <2>1, <2>2, <2>3 DEF LcdInitFourBit
<1>3. CASE LcdWait \/ Output
  BY <1>3 DEF LcdWait, Output, Goto, Pinned, lcd
<1>4. CASE LcdBusy
  <2>1. CASE Store("lcdbusy", RW, "enable_high") /\ portb.e
    BY <2>1, ReadPins, ReadFall DEF Store, Goto, Pinned
  <2>2. CASE Store("lcdbusy", RW, "enable_high") /\ ~portb.e
    BY <2>2, NoFall DEF Store, Goto, lcd
  <2>3. CASE Store("enable_high", E(RW), "read_high") \/ Store("enable_low", E(RW), "poll")
    BY <2>3, NoFall DEF Store, Goto, Pinned, lcd
  <2>4. CASE Store("deselect_high", RW, "enable_low")
    BY <2>4, ReadPins, ReadFall DEF Store, Goto, Pinned
  <2>. QED
    BY <1>4, <2>1, <2>2, <2>3, <2>4 DEF LcdBusy
<1>5. CASE ReadHigh
  <2>1. high_half' = lcd_busy
    <3>1. pc = "read_high" /\ high_half' \in BusyBit
      BY <1>5 DEF ReadHigh
    <3>2. ddrb = "control" /\ portb.e /\ portb.rw /\ lcd_half = "high"
      BY <3>1 DEF Pinned, TypeOK
    <3>3. BusyBit = {lcd_busy}
      BY <3>2 DEF BusyBit
    <3>. QED
      BY <3>1, <3>3
  <2>. QED
    BY <1>5, <2>1 DEF ReadHigh, Goto, lcd
<1>6. CASE Poll
  BY <1>6 DEF Poll, Polled, Goto, Pinned, lcd
<1>7. CASE Deselect
  BY <1>7, ReadPins, ReadFall DEF Deselect, Store, Goto, Pinned
<1>8. CASE SendHigh
  <2>1. CASE Store("high", Write(op.rs, High(op.byte)), "high_strobe")
    BY <2>1, NoFall DEF Store, Goto, Pinned, lcd
  <2>2. CASE Store("high_strobe", E(portb), "high_latch")
    BY <2>2, NoFall DEF Store, Goto, Pinned, Puts1, lcd
  <2>3. CASE Store("high_latch", NoE(portb), "low")
    <3>1. ddrb = "all" /\ portb.e /\ ~portb.rw /\ portb.nibble = High(op.byte) /\ ~NoE(portb).e
      BY <2>3, StrobePins DEF Store, Pinned, Puts, Puts1, TypeOK
    <3>2. TakeHalf(High(op.byte))
      BY <2>3, <3>1, WriteFall DEF Store
    <3>3. lcd_half = "high"
      BY <2>3 DEF Store, TypeOK
    <3>4. /\ lcd_half' = "low" /\ lcd_high' = High(op.byte)
          /\ UNCHANGED << lcd_bits, lcd_busy, overrun, executed >>
      BY <3>2, <3>3 DEF TakeHalf
    <3>5. pc' = "low" /\ UNCHANGED << op, issued, high_half, cold >>
      BY <2>3 DEF Store, Goto
    <3>. QED
      BY <2>3, <3>4, <3>5 DEF Store
  <2>. QED
    BY <1>8, <2>1, <2>2, <2>3 DEF SendHigh
<1>9. CASE SendLow
  <2>1. CASE Store("low", Write(op.rs, Low(op.byte)), "low_strobe")
    BY <2>1, NoFall DEF Store, Goto, Pinned, Puts1, lcd
  <2>2. CASE Store("low_strobe", E(portb), "low_latch")
    BY <2>2, NoFall DEF Store, Goto, Pinned, Puts2, lcd
  <2>3. CASE Store("low_latch", NoE(portb), "idle")
    <3>1. /\ ddrb = "all" /\ portb.e /\ ~portb.rw /\ portb.rs = op.rs
          /\ portb.nibble = Low(op.byte) /\ ~NoE(portb).e
      BY <2>3, StrobePins DEF Store, Pinned, Puts, Puts2, TypeOK
    <3>2. TakeHalf(portb.nibble)
      BY <2>3, <3>1, WriteFall DEF Store
    <3>3. Take(op) /\ lcd_half' = "high"
      BY <2>3, <3>1, <3>2, ByteSent DEF Store
    <3>. QED
      BY <2>3, <3>1, <3>3 DEF Take, Store, Goto
  <2>. QED
    BY <1>9, <2>1, <2>2, <2>3 DEF SendLow
<1>10. CASE Call
  <2>1. PICK o \in Op : /\ IF Len(issued) < Len(BootBytes) THEN o = BootOp(Len(issued) + 1)
                                                         ELSE o \in Ops
                        /\ op' = o /\ issued' = Append(issued, o)
    BY <1>10 DEF Call
  <2>2. ~EightBits(o)
    <3>1. CASE Len(issued) < Len(BootBytes)
      <4>1. Len(issued) + 1 \in 1 .. Len(BootBytes)
        BY <3>1, LcdAssumption DEF TypeOK
      <4>2. o.byte = BootBytes[Len(issued) + 1]
        BY <2>1, <3>1 DEF BootOp
      <4>. QED
        BY <4>1, <4>2, LcdAssumption DEF EightBits
    <3>. QED
      BY <2>1, <3>1, LcdAssumption
  <2>. QED
    BY <1>10, <2>1, <2>2 DEF Call, Pinned, lcd
<1>11. CASE Ready
  BY <1>11 DEF Ready
<1>12. CASE ResetButton
  BY <1>12 DEF ResetButton
<1>13. CASE UNCHANGED vars
  BY <1>13 DEF vars, lcd
<1>. QED
  BY <1>1, <1>2, <1>3, <1>4, <1>5, <1>6, <1>7, <1>8, <1>9, <1>10, <1>11, <1>12, <1>13
     DEF Next, CpuStep

LEMMA InvInit == Init => IInv
<1> SUFFICES ASSUME Init PROVE IInv
  OBVIOUS
<1>1. TypeOK
  BY TypeInit
<1>2. pc = "boot" /\ ddrb = "none" /\ ~portb.e /\ ~portb.rw
  BY BootPins DEF Init
<1>3. ~EightBits(op)
  BY DEF Init, EightBits
<1>4. ~overrun /\ EightBitDisplay
  BY DEF Init, EightBitDisplay
<1>5. InStep
  BY <1>2, <1>3, <1>4 DEF InStep, Booting
<1>6. Pinned
  BY <1>2 DEF Pinned, Sending
<1>. QED
  BY <1>1, <1>5, <1>6 DEF IInv

LEMMA InvStep == IInv /\ [Next]_vars => IInv'
  BY TypeStep, PinnedStep, InStepStep DEF IInv

LEMMA InvHolds == Spec => []IInv
  BY InvInit, InvStep, PTL DEF Spec

-----------------------------------------------------------------------------
(* "Port B (data) is input": the display and the VIA never drive the data  *)
(* wires against each other, with any number of resets.                    *)
THEOREM BusHasOneSpeaker == Spec => []NoContention
<1>1. TypeOK /\ Pinned => NoContention
  BY DEF TypeOK, Labels, Pinned, Sending, Puts, Puts1, Puts2, NoContention
<1>. QED
  BY <1>1, InvHolds, PTL DEF IInv

(* From power-on, driver and display count halves alike at every store.    *)
THEOREM HalvesInStep == Spec => []SameHalf
<1>1. IInv => SameHalf
  BY DEF IInv, InStep, Booting, SameHalf
<1>. QED
  BY <1>1, InvHolds, PTL

(* From power-on, no byte is sent while the display is busy.               *)
THEOREM DisplayKeepsUp == Spec => []NoOverrun
<1>1. IInv => NoOverrun
  BY DEF IInv, InStep, NoOverrun
<1>. QED
  BY <1>1, InvHolds, PTL

\* Only the last store of a call completes an operation.
LEMMA OnlyLastStore ==
  ASSUME IInv, cold, NEW l, NEW new, NEW next, Store(l, new, next), l # "low_latch"
  PROVE  UNCHANGED << issued, executed >>
<1>1. issued' = issued /\ pc = l /\ SetPortb(new)
  BY DEF Store, Goto
<1>2. CASE UNCHANGED lcd
  BY <1>1, <1>2 DEF lcd
<1>3. CASE FallingE /\ portb.rw
  BY <1>1, <1>3 DEF FallingE
<1>4. CASE FallingE /\ ~portb.rw /\ portb.e
  <2>1. pc \in { "init_latch", "high_latch" }
    BY <1>1, <1>4 DEF IInv, TypeOK, Labels, Pinned, Sending
  <2>2. lcd_bits = 8 \/ (lcd_bits = 4 /\ lcd_half = "high")
    BY <2>1 DEF IInv, TypeOK, InStep, Booting, EightBitDisplay, SecondHalfNext
  <2>. QED
    BY <1>1, <1>4, <2>2 DEF FallingE, TakeEight, TakeHalf
<1>. QED
  BY <1>1, <1>2, <1>3, <1>4 DEF SetPortb

\* From power-on a step issues a call, executes it, or does neither.
LEMMA LinkStep ==
  ASSUME IInv, cold', [Next]_vars
  PROVE  Link!Next \/ UNCHANGED << issued, executed >>
<1>0. cold /\ InStep /\ ~ResetButton
  BY DEF IInv, Next, CpuStep, Boot, LcdInitFourBit, LcdWait, LcdBusy, ReadHigh, Poll, Deselect, Output,
         SendHigh, SendLow, Store, Goto, Call, Ready, ResetButton, vars
<1>1. CASE Call
  <2>1. executed = issued
    BY <1>0, <1>1 DEF Call, InStep, Booting, OneBehind
  <2>. QED
    BY <1>1, <2>1 DEF Call, lcd, Link!Next, Link!Issue
<1>2. CASE Store("low_latch", NoE(portb), "idle")
  <2>1. executed' = issued' /\ issued' = issued
    BY <1>0, <1>2, InStepStep DEF Store, Goto, InStep, Booting, OneBehind
  <2>2. issued = Append(executed, op)
    BY <1>0, <1>2 DEF Store, InStep, Booting, OneBehind
  <2>3. op \in Op /\ executed \in Seq(Op)
    BY DEF IInv, TypeOK
  <2>4. executed # issued
    BY <2>2, <2>3
  <2>. QED
    BY <2>1, <2>4 DEF Link!Next, Link!Execute
<1>3. CASE Boot \/ LcdWait \/ ReadHigh \/ Poll \/ Output \/ Ready \/ UNCHANGED vars
  BY <1>3 DEF Boot, LcdWait, ReadHigh, Poll, Output, Ready, Goto, lcd, vars
<1>4. CASE \/ LcdInitFourBit \/ LcdBusy \/ Deselect \/ SendHigh
           \/ SendLow /\ ~Store("low_latch", NoE(portb), "idle")
  BY <1>0, <1>4, OnlyLastStore DEF LcdInitFourBit, LcdBusy, Deselect, SendHigh, SendLow
<1>. QED
  BY <1>0, <1>1, <1>2, <1>3, <1>4 DEF Next, CpuStep

(* From power-on, the display executes what the program calls for, each    *)
(* byte once and in order, though each crosses in two halves.              *)
THEOREM DriverImplementsLink == Spec => ImplementsLink
<1>1. Init => Link!Init
  BY DEF Init, Link!Init
<1>2. IInv /\ [Next]_vars => [cold' => Link!Next]_<< issued, executed >>
  BY LinkStep
<1>. QED
  BY <1>1, <1>2, InvHolds, PTL DEF Spec, ImplementsLink
=============================================================================
