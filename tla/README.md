# Specifications of the 6502 homebrew firmware

TLA+ models of the programs in `src/src` (a breadboard 65C02 with a 65C22 VIA, a 1602A LCD and a button) and
of the parts of the vendored assembler `src/vasm` that decide where their bytes go. TLC checks small
instances, TLAPS proves what matters most for all constants.

## 1. The system

| Component | State | Operations | Interacts with | Hard parts |
|---|---|---|---|---|
| robo-runner game (`robo-runner.s`) | 12 bytes of RAM from `$0200`: robot, jump time, spawn position, list of hurdles, score | `draw_init_screen`, `draw_init_course`; per frame `draw_hurdle`, `draw_robo_sprite`, `draw_score`, `calculate_collision`, `clean_stale_hurdles`, `wait`; `game_over` | LCD driver (calls); the handler `irq` writes `robo_jump_time` in the middle of it | interrupts between any two instructions, reset with old RAM, a list of four bytes without a length check, counters that wrap at different columns, hundreds of frames until two cycles meet |
| display memory of the LCD | two rows of 40 cells and the shifted window | every `set_cursor_address` / `print_char` of the game | written by the game, read by the player | erasing and drawing across the end of a row, order of shift and draw |
| score digits (`draw_score`) | A, carry, X, Y, two cells | binary to decimal by repeated `sbc #9` | subroutines of the LCD libraries, which may change the carry | a carry nobody sets explicitly |
| 8-bit LCD driver (`lib/1602a-lcd.s`, `lib/bootstrap.s`) | DDRA, DDRB, PORTA, PORTB; busy flag in the display | `lcd_wait`, `lcd_instruction`, `print_char`, boot | the handler of `hello-interrupt.s` prints, too | direction of the data lines during a poll, interrupts and resets between two stores |
| 4-bit LCD driver (`lib/1602a-lcd.4bit.s`, `lib/bootstrap.4bit.s`) | as above, all on port B; half counter in the display | the same, each byte in two halves, each poll in two reads | | both sides count halves and nothing resynchronises them |
| vasm front end (`source.c`, `parse.c`, `cond.c`, `syntax/oldstyle/syntax.c`, `symbol.c`, sections in `vasm.c`) | stack of sources, macros, repetitions being collected, stack of conditions, stack of inline blocks, list of sections, remembered sections | one line at a time; `include`, `macro`, `rept`, `if`, `inline`, `org`, `rorg`, `section`, `dsect`, `struct` and their ends | the resolver gets what it has parsed | blocks of six kinds that nest in any order, each with a stack or a remembered value of its own; texts that refer into other texts |
| vasm expressions and 6502 encoding (`expr.c`, `cpus/6502/cpu.c`, `new_inst` of `atom.c`, `reloc.c`) | the tree of an operand, its size, the relocations | separate operands, choose the format, parse, fold, evaluate, find the base, size, encode | resolver (sizes), output (relocations) | trees rewritten between sizing and encoding; constants and relocatable values; limits of ranges |
| vasm resolver (`vasm.c`, `atom.c`) | sections of atoms, label values, atom sizes, dependencies, sections to do | `add_atom`, `resolve`, `resolve_section`, `assemble` | the output driver | sizes depend on addresses that depend on sizes; end of the repeated passes; stale sections |
| vasm output: binary, S-records, Intel HEX (`output_bin.c`, `output_srec.c`, `output_ihex.c`) | order of the sections, records and bytes written | trimming, overlap test, sort, gaps, headers, records | | sections in any order, empty, uninitialised, enclosing each other, at the end of the address space |
| the rest of vasm, `hello-world*.s`, `blink.s`, templates, `makerom.py`, `flash.sh` | | | | not modelled, see section 6 |

What makes each of them correct:

- game: the hurdle list stays in its bytes and says what is on the road; the jump time stays in range; the
  frame loop never stops; every game starts alike; a press starts a jump; the score stays fourteen columns
  ahead of the robot; all of it implements a queue and a jump budget.
- screen: one robot, exactly the hurdles that can end the game, the score in its cells.
- score digits: the two cells read as the score.
- drivers: display and VIA never drive the lines together, no byte is sent to a busy display, each byte is
  executed once and in order, each call returns.
- front end: the lines are assembled that the nesting of the blocks says, with the right macro argument and
  repetition count; bytes and labels lie in the section the documentation names; recursion is counted; every
  source is read to an end.
- expressions: grouped by the documented priorities; the bytes, after linking, are what the text means.
- assembler: the passes end, at a fixed point; emitted labels are the resolved ones; a loader finds every byte
  at its address, and only what cannot be written is refused.

The hazards of the code, each with its line and the properties that watch it, are in `PROJECT.json`.

## 2. Modules

| Module | What it is | Correspondence |
|---|---|---|
| `RoboGame` | the game | one variable per RAM variable under its own name; `main` is the label the program is at; one action per stretch of code between labels, with at most one access to `robo_jump_time` in each, so every order of handler and loop is a behaviour. `Press`, `Irq`, `ExitIrq`, `Nmi` and `ResetButton` are the environment. A column is a number, a zero byte of the list is `Empty`. |
| `RunnerRules` | abstract game | a first-in first-out queue of hurdles, a jump budget, a judged frame |
| `MCRoboGame` | TLC module of the game | refinement mapping to `RunnerRules`, fairness, liveness, `ClosestFirst` |
| `RoboScreen`, `MCRoboScreen` | game composed with the display memory | each drawing action of `RoboGame` together with what it prints; the properties of the picture |
| `ScoreDisplay` | `draw_score` with A, carry, X, Y | for both libraries (`FourBit`), whose subroutines keep the carry or replace it by bit 3 of the byte sent |
| `LcdLink` | abstract driver | what is called for is executed, once, in order |
| `LcdDriver`, `MCLcdDriver` | 8-bit driver | one action per store to the VIA; two threads, main program and handler; VIA pins and display are external |
| `LcdDriver4`, `MCLcdDriver4` | 4-bit driver | the same with halves; the display's interface width and half counter survive a reset of the CPU |
| `Sections` | sections of the assembler | the list of sections, `new_section`, `new_org`, `set_section`, `switch_section`, and the directives org, rorg, rend, section, dsect, dend, struct, endstruct; its actions are called by `FrontEnd` |
| `FrontEnd` | how a source is read | one action per line: `read_next_line` (with what it pops and repeats) and then the directive; texts are slices of files, lines records |
| `Placement` | what the documentation of the section directives says | address spaces with a counter each, the blocks around, and what each line places, without sections or remembered values |
| `MCFrontEnd` | TLC module of the front end | three families of sources; expansion defined a second time, over trees |
| `Expressions` | parser, folding, evaluation and base of expressions | text as tokens; the ten loops of `parse_expr` as one recursion over the table of operators |
| `Formats` | operands of a line, and the choice among the formats of an instruction | `skip_operand`, `parse_operand` (with `check_indir`), `new_inst`: the rows of the table with the line's mnemonic that the CPU knows, tried in order |
| `Operands`, `MCOperands` | one operand from text to bytes | a line gets its format (`NewInst`), or an operand is parsed alone (`Parse`); sized; encoded with relocations; the linker is external |
| `Resolver` | parser's layout, `resolve()`, `resolve_section()`, `assemble()` | one action per atom and per turn of the loops; sizes of instructions and data, no bytes |
| `BinaryOutput` | `output_bin.c` behind the resolver | trimming, overlap test, order, gaps, headers of all eight formats; the file is what a loader finds in it |
| `HexOutput` | `output_srec.c`, `output_ihex.c` | one action per section and per record, with the extended address |
| `Assembler`, `MCAssembler` | resolver and output composed | `main()` from the parsed source to the file; the sources |
| `RoboGameProofs` (game and screen), `ScoreDisplayProofs`, `LcdDriverProofs`, `LcdDriver4Proofs`, `ResolverProofs`, `OutputProofs`, `FrontEndProofs`, `PlacementProofs` | theorems | section 5 |

`RoboScreen` extends `RoboGame`; `Placement` extends `FrontEnd`, and that `Sections`; `Operands` extends
`Formats`, and that `Expressions`; `Assembler` extends `HexOutput`, that `BinaryOutput`, and that `Resolver`.
`ScoreDisplay` refines the one step `DrawScore`
of `RoboGame`: the game carries the score and its column, `ScoreDisplay` its digits. `LcdDriver` and
`LcdDriver4` are below the game, which treats one LCD call as done when it returns; `CallsReturn` and
`ImplementsLink` are what justifies this. A definition whose comment begins with "Mutant:" is a plausible
mistake, used to make sure that a property notices it.

External behaviour, taken from how the code uses the chips:

- A CA1 edge sets a flag whose interrupt is enabled in the boot code; reading PORTA clears it. Writing PORTA
  clears it as well on the real chip: a press during the few cycles of such a write is lost. `Press` at that
  moment is a `Press` that does not happen, which the model allows.
- The display takes a byte when E falls with RW low, answers with its busy flag while E and RW are high, and
  is busy for an arbitrary finite time. With the 8-bit driver it may still be busy with its own power-on reset
  when the CPU starts. With the 4-bit driver it is assumed to be past that: `lcd_init_four_bit`
  (`bootstrap.4bit.s:27`) does not ask, and a busy display would lose its half. All that is said "from
  power-on" of the 4-bit driver rests on this assumption about the board. In 4-bit mode reads and writes
  advance the same count of halves.
- A reset makes the VIA's pins inputs; RAM and display keep their contents.

## 3. Runs

| Run | Question | Bounds and why they suffice |
|---|---|---|
| `game` | All properties of the game and of the picture, with presses, NMIs and resets between any two labels, from three kinds of RAM contents | the constants of the source; `MaxScore` 60. With this score the game passes 550 frames and 13 rounds of the 40 columns; the list is filled, emptied and shifted and every counter wraps. |
| `lifetime` | Does the robot meet a stale hurdle in any frame a game can have? | `SCORE_BYTE` 1 leaves the score out, so that the frames become periodic: they repeat after 28244 of them, and TLC visits all. No resets or NMIs (`OneGameSpec`): they add interleavings that `game` has, not frames. |
| `score8` | Every score a byte can hold at every column, 8-bit library | none left out: scores 0 to 255, 40 columns |
| `score4` (violation) | The same with the 4-bit library | |
| `lcd8` | 8-bit driver with boot, calls, resets, two handlers (one prints nothing, one "Int") | 6 calls (4 of the boot code and 2 more), 2 interrupts between two resets: each store of a call is interrupted and reset, and a second interrupt meets the state the first left. One byte with bit 7 and one without suffice, as only bit 7 is read back. |
| `contention` (violation) | Can a handler that prints leave two drivers on the lines? | 5 calls, 1 interrupt |
| `lcd4` | 4-bit driver from power-on, and the bus after resets | 6 calls, bytes with equal and with different halves, with and without RS |
| `warm_boot` (violation) | Does the boot code initialise a display that was not switched off? | 4 calls |
| `assembler` | From source to file | 9125 sources, below; `MAXPASSES` 6 and `FASTOPTPHASE` 2 stand for 1000 and 200, so that safe mode, its extension and giving up happen within a few atoms |
| `hang` (violation) | Does `resolve()` always end? | the 1544 sources of the resolver |
| `frontend` | How is a source read? | 37103 sources, below; `maxmacrecurs` 3, `MAXCONDLEV` 5, `INLSTACKSIZE` 2, so that each limit is met |
| `operands` | Do operands mean what their text says? | chains of two operators, each with each other and with every sign, with and without blanks, and of three from 12; 14252 lines and 18484 operands, below |

Four more configurations are kept to be run by hand. `MCClosestFirst.cfg` (module `MCRoboGame`) violates
`ClosestFirst`, `MCHiddenHurdle.cfg` (module `MCRoboScreen`) `HurdlesShown` with a higher score,
`MCInstSize.cfg` (module `MCOperands`) `SizeIdentical`, and `MCModulo.cfg` (the same module)
`ChainsAccepted`; see section 4.

**Sources of `assembler`** (`MCAssembler`). For the resolver, 1544 pairs of short `.org` sections in both
orders, with and without `-opt-branch`, near the end of the zero page and apart by about the reach of a
branch, plus one-section cascades in which each branch grows because the one after it did. Between them they
are accepted, rejected for overlap, rejected for branches out of range, given up and looped on. For the
output, 7488 pairs of sections and formats: sections that touch, overlap, enclose each other, are empty, end
in uninitialised space or consist of it, are aligned, and lie around the end of the 64K and of a segment.
Another 93 sources are of one section: as long as the whole address space, or empty, at address 0 for the
binary formats, and at the ends of the 1M and 16M of a format with records. The sections of a source have
different addresses, because `new_org` goes on with the section of an address already used.

The model was compared with the real assembler, built from `src/vasm`: on the first kind (with the two limits
set
to 6 and 2) labels, file length, error or endless loop agree in each; on the second the accepted files, 6266,
agree byte by byte, and the others are refused by both.

**Sources of `frontend`**. 1728 nested ones, made from trees (macros in repetitions in conditions in include
files, recursion, redefinition, inline blocks, labels); all sequences of four of the lines that open and close
blocks, well formed or not; all sequences of four of the lines that switch sections (two structures, a dsect,
two
named sections, orgs, relocated blocks and uses of a structure), with a byte and a label behind each. Four
lines are enough for two blocks in each other or across each other, which is where the stacks disagree; the
trees go deeper.

**Operands of `operands`**. Sums, differences, quotients and byte parts of labels of the same section and of
others, imports, equates and numbers at the ends of a byte and of 16 bits, in fourteen kinds of operand
(immediate, zero page, absolute, relative, data, with and without `-opt-branch`), placed in a relocatable and
in an absolute section, linked at three placements. A value does not have to be larger than these to reach
each branch of the encoder.

Its lines are made of nine mnemonics, chosen so that their 27 rows hold each order of formats that the 6502
and 65C02 tables have; of every addressing mode with and without blanks; of forms no instruction has; of
forms that are only warned about; and of ten expressions, some with parentheses of their own. The real
assembler gives the bytes or the refusal of the model for each of the 2872 lines without symbols. It was also
given all 5960 chains of operators: each has the value of its tree or is refused, as in the model, except for
what the model leaves to the value and not to the grouping: division by zero, which it counts as 0 and the
assembler also reports, and shifts by a negative count, undefined in C.

### What the passing runs show

Game and picture:

- `JumpTimeInRange`: the decrement after a test with interrupts on in between never goes below zero.
- `ListInBounds`, `HurdleListSound`, `NoPhantomHurdle`: the shift loop stops in the list; the count is right;
  the robot never meets the stale copy that a shift leaves behind.
- `ScoreInStep`, `SameGameEveryTime`; `ImplementsRules`: the game implements `RunnerRules`.
- `OneRobot`, `HurdlesShown`, `ScoreShown`, `MessageShown`: the picture says what RAM says.
- `FramesGoOn`, `PressIsHonoured` (liveness).
- `ScoreReadsRight`, `NoOldDigits`: the digits.

Drivers: `NoContention(Undisturbed)`, `NoOverrun`, `SameHalf`, `ImplementsLink`, `CallsReturn` (liveness).

Assembler:

- `ExpandsAsWritten`: nested sources give the bytes, labels and order that their trees give.
- `PlacedAsWritten`: bytes and labels lie where the manual of the section directives puts them.
- `RecursionsCounted`, `SymbolIsCurrent`: the macro's count is the number of its expansions on the stack,
  `__RPTCNT` is the innermost repetition's, on every line of every source, also ill-formed ones.
- `OnlyInnermostFalse`: no line is assembled under a false outer condition.
- `ParsesAsWritten`: operators are grouped by the manual's table (a chain with a blank behind `//` is refused
  with an error, never grouped in another way); a line gets the one format with its name, its form and its
  CPU, however many are tried before, or is refused. `LinkedAsWritten`: the linked bytes are the value of the
  text.
- `Settled`: a section that is not to be visited again is at a fixed point. `OnlyShrinks`: without
  `-opt-branch` nothing ever grows. `LabelsPlaced`: labels are emitted where they were resolved.
- `LoadsInPlace`: a loader finds each byte at its address. `RefusedForCause`: a source is refused only if its
  sections overlap or its addresses do not fit the format.
- `Terminates` (of the reader and of the passes; liveness).

Where the code is known to do something else, a property names the exception as an operator (`NoMeaning` in
`Placement`, `odd` in `MCFrontEnd`; `StaleEquals`, `BlankBehindModulo`, `Representable`, `BranchInReach`,
`FixedLabelSubtracted`, `ByteMistaken`, `ConstSymSym`, `AddendWarned` in `MCOperands`; `Displaced`, `BareSegment`,
`SpaceWritten`, `PaddedHex`, `TopOfMemory`, `SecondSegment`, `EmptyBehind`, `PastMemory`, `NoLastAddress` in
`MCAssembler`). Section 4 describes each.

### Fairness

- The game: the CPU executes its program, so an enabled interrupt is taken and a handler ends (weak fairness
  of `Irq`, `ExitIrq`), and the loop gets on whenever it is enabled again and again (strong fairness of
  `MainStep`): a button cannot produce edges fast enough to fill every gap between two handlers. No fairness
  for presses, NMIs and resets.
- The drivers: the CPU runs (weak fairness of `CpuStep`), and the display becomes ready (weak fairness of
  `Ready`), which the polling loop itself assumes. None for calls, interrupts, resets.
- The assembler: one process without input takes its next step.

Deadlock is not checked where the program really may stop: at the end of the calls a bound allows, at
`game_over_loop`, after the assembler's exit. `score8`, `score4` and `frontend` check it.

## 4. Disagreements between the code and what it says

Four are runs that expect the violation.

1. `score4`: the `lsr`s of the 4-bit library leave a carry that `draw_score` uses; this is the "TODO: ones and
   tens digit fluctuate on 4bit mode" of `robo-runner.4bit.s:168`.
2. `contention`: `hello-interrupt.s:68` says "Port B is input", but its handler prints and returns with port B
   an output, possibly into the middle of a poll.
3. `warm_boot`: "Initialize 4-bit mode" (`bootstrap.4bit.s:27`) sends one half of a byte; a display already in
   4-bit mode counts it as the first half of the next byte, and after a reset of the CPU all halves are out of
   step.
4. `hang`: `vasm.c:20` says that the resolver gives up at MAXPASSES. Only the passes over one section are
   counted; with `-opt-branch` two sections can send each other round for ever.

Four more have a configuration.

5. `MCClosestFirst.cfg`: `robo-runner.s:223` speaks of the "closest hurdle". The spawn position wraps in a
   cycle of 39 columns (`:94`), the robot in one of 40, so the distance grows by one column a round; after
   about 970 frames a new hurdle is laid between the robot and the head of the list. Up to that round the
   comment is right (`ClosestComesFirst`).
6. `MCHiddenHurdle.cfg`: the round before that, at about frame 960 and a score of 101, `draw_hurdle` draws in
   the column the robot is about to leave, and the "Draw ground on previous position" of `robo-runner.s:149`
   erases the new hurdle. It stays in the list, and a round later the robot meets a hurdle that nobody has
   seen (`HurdlesShown`, which holds before, as `HurdlesSeen` proves).
7. `MCInstSize.cfg`: `doc/interface.texi:1391` wants `instruction_size()` to agree with `eval_instruction()`.
   `assemble()` turns labels of offset sections into numbers (`convert_offset_labels`, `vasm.c:395`) after
   `resolve()` has sized with them as labels: `lda M-Z` with such a Z is sized 2 and encoded 3, and the labels
   behind it are off by one.
8. `MCModulo.cfg`: `doc/vasm_main.texi:247` lists `//` with `*`, `/` and `%`. Of all the operators it is the
   only one that does not skip the blanks behind it (`expr.c:393`): `7 //2` is 1, but `7 // 2` is refused with
   "number or identifier expected" (`ChainsAccepted`). `ParsesAsWritten` names the case as
   `BlankBehindModulo`.

### The game and the drivers

Seen while modelling; where a property is concerned it excepts them by name:

- `robo-runner.s:228` reads `robo_jump_time` again when the hurdle is judged. A press between drawing and
  judging lets a robot that was drawn on the ground pass; in the last frame of a jump (`:141` decrements to
  zero) a robot drawn in the air does not pass. `RunnerRules` judges by the jump time, as the code does.
- `draw_init_course` compares the robot's column with the cursor of the turn before (`:83`), so the first
  robot is one column too far right, and a press during the first screen shows two robots in the first frame
  (`OneRobot` starts after it).
- From a score of 100 on the tens cell shows the characters after "9" (`:216`); `ScoreReadsRight` counts them
  as ten, eleven and so on.
- `hello-interrupt.s` enables interrupts before the ports are set up; a handler that prints then polls
  floating lines (`BusyRead` is any value), and goes on when they happen to read as ready.
- `hurdle_position` is the last variable in RAM. A store outside it would hit unused memory; the model has no
  such memory, and `ListInBounds` and `HurdleListSound` show that no store goes there.

### The front end of vasm

- A repetition inside a repetition inside a macro loses the macro's arguments (`parse.c:868`).
- After an inner `einline` the scope of local labels goes back to the outer block, even if a global label was
  defined in between (`syntax/oldstyle/syntax.c:1049`; `doc/syntax_oldstyle.texi:398`).
- `.org` to an address already used appends to the section of that address (`new_org`, `vasm.c:1067`), so what
  follows lies behind what is there, without an error.
- A `dsect` within a `dsect` reports error 13 and goes on; `.section` within one makes `dend` remember the
  counter of the wrong section; a structure named like a section turns this into one that is not written; a
  structure inserted in its own section does not end. `dend` and `endstruct` after a block that began before
  any section use a null pointer.
- A second `else` is accepted. `macro` or `rept` as the last line of the main source is accepted silently. A
  definition whose end lies in another text takes the difference of pointers into two buffers as its length.
- `rept 0` is accepted and a negative count is an internal error, where `doc/syntax_oldstyle.texi:449` asks
  for a positive one.

### Expressions and encoding

- `2<=1<0` is grouped from the right: a variable of the loop for comparisons keeps the `=` of the operator
  before (`StaleEquals`).
- In an absolute section with a = 2 and b = 5, `20-a-b` is 23: folding turns c-a-b into c-(a-b) (`expr.c:655`,
  `ConstSymSym`).
- `expr.c:1024`: the assignment `cnst=1` is indented under a condition that does not cover it. `A/256-M`,
  `M-A`, `lda L1-A`, `M-(M-L1)` with a fixed A become constants without a relocation; so do `.word L2-X-L1`
  and, in an absolute section, `X-A` (`FixedLabelSubtracted`, `Representable`).
- `.byte lab/256` is relocated as the high byte of lab+1, `lda M/256` loses the operator (`ByteMistaken`).
- `#>lab+1` is (>lab)+1 for a constant and >(lab+1) for a relocatable label; of two operators the inner one
  wins.
- A branch from a relocatable section to a fixed address, or the reverse, gets neither relocation nor error
  (`BranchInReach`).
- Parentheses without a partner, what follows an operand, operands from the fourth on and a zero page addend
  that does not fit (`AddendWarned`) are warnings: `jmp (5` is assembled as `jmp 5`, and `lda 5 1,x 2` as
  `lda 5,x`. Nothing is said about a comma at the end.
- With `-opt-branch` a `bbr` or `bbs` out of reach becomes a branch over a jump, as any branch does, but its
  target is the second operand: writing it ends in an internal error (`cpus/6502/cpu.c:631`).
- The manual speaks of `&256` where the code tests for 255; the zero page flag of `ZPAGEZ` operands has no
  case in the function that writes them; the range error 11 is commented out.
- The optimisation of JMP to BRA (`cpus/6502/cpu.c:315`, promised in `doc/cpu_6502.texi:37`) is never reached:
  JMP has an absolute operand and the test for those comes first.

### The output drivers

- `output_bin.c:59` does not see a section that encloses an earlier one: `.org $8010` with two bytes, `.org
  $8000` with 64 and `.org $8060` with one give a displaced image without an error, while the reversed order
  is rejected (`Displaced`). An empty section right behind an earlier one is refused as overlapping it
  (`EmptyBehind`). The S-record driver has no such test at all.
- A section of uninitialised space only is not trimmed (`output_bin.c:160`): the headers of atari-com and
  coco-ml count bytes that do not follow, and a raw image begins there (`BareSegment`).
- S-records and Intel HEX write the uninitialised space that trimming has cut off, as zeros over the section
  that follows (`SpaceWritten`).
- 16-bit headers are cut off above `$10000`, and a length of `$10000` becomes 0 in apple-bin, dragon-bin and
  coco-ml (`PastMemory`). In oric-mc and atari-com what is empty at address 0 ends at 65535 (`NoLastAddress`).
- Intel HEX: padding before an aligned atom has a byte too many (`output_ihex.c:146`, `PaddedHex`); I8HEX
  refuses a record that ends exactly at `$10000`, hence the vectors of a 6502 (`output_ihex.c:71`,
  `TopOfMemory`), and I16HEX one that ends at `$100000`; I16HEX shifts its paragraph by 4 where 12 is meant,
  so only its first segment is right
  (`output_ihex.c:42`, `SecondSegment`).

## 5. Proofs

All theorems are checked by TLAPS with no unproved leaf, and assume only the named ASSUMEs of the constants
(named in the modules that declare them), which TLC evaluates in the runs.

**RoboGame**, for every display width above 17, list length, jump time, byte size, and set of lines. `TypeOK
/\ ListInBounds` is inductive (`TypeCorrect`, `ListBounded`): types alone are not, because the loop of
`clean_stale_hurdles` leaves the list if the last byte is not zero. `JumpTimeSound`, `EveryGameBeginsAlike`
follow step by step. `ScoreStaysInStep` needs `ScoreFollows`, which also covers the labels between the robot's
step and the score's. `ListSound` strengthens `HurdleListSound` by what the loop has yet to shift
(`ListFilled`) and is conditional: `Spec /\ []NoPhantomHurdle => []HurdleListSound`. `HurdlesStay` proves the
action property `HurdlesAppearAtSpawn`.

**The list's course** (`RoboGameProofs`). Whether the robot can meet a stale copy depends on two cycles. The
spawn position goes round in COLS - 1 columns and the robot in COLS, so the lead of the one over the other
(`SpawnLead`) grows by one column a round. `Course` says where the hurdles are: ahead of the robot in the
order of the list, the last one as far ahead as it was laid less the frames counted since, and there is a
second one by the time the first is taken away. It is inductive as long as the spawn position has not come
round to the robot (`SpawnLeads`), for every list and display with `Timing`: hurdles at most 15 columns apart
and a byte that counts two rows. From it follow `NoPhantom` and, for the same time, `ClosestComesFirst`. The
hypothesis is about the length of a game. `FramesCounted` bounds the frames by those counted since the last
hurdle and a row for every hurdle laid, which is scored or still in the list. So `ShortGameKeepsCourse`: up to
the score that `ShortGame` allows, 19 with the constants of the source, the hypothesis holds whatever is
pressed or reset, and `ShortGameSound` gives `NoPhantomHurdle`, `HurdleListSound` and `ImplementsRules`
without it. A score is bounded in the model only by `MaxScore`. Longer games stay with TLC: with the constants
of the source, `lifetime` visits every frame there is (a reset begins the same game again, as
`EveryGameBeginsAlike` shows), those after the spawn position has come round included.

**ScoreDisplay**. `ScoreIsDrawn` and `OldScoreIsErased`, for the 8-bit library with its base of "0" - 1
(`EightBit`), every width and every score. `DigitsInv` relates Y, the remainder in A and X and the tens cell
during the loop, and says that the carry is clear where it has to be.

**LcdDriver**, for all boot sequences, bytes, calls, handlers and resets. The invariant holds until a handler
that prints interrupts: `Control` gives the lines at each store, `Direction` the data direction, `Polled` that
the display is ready from the end of the poll to the end of the call, `OneBehind` that exactly the operation
of the current call is missing in `executed`, `SilentHandler` that a silent handler never enters the driver.
From it `BusHasOneSpeaker`, `DisplayKeepsUp`, and `DriverImplementsLink`: initial states map to initial states
of `LcdLink` and every step to a step or a stutter, `LatchTakes` being the one that maps to `Execute`.

**Resolver**, for all sets of `.org` sources and all `MAXPASSES`, `FASTOPTPHASE`. `LabelsStay` proves that
`assemble()`, which computes every size and address anew, finds each label where `resolve()` left it.
`AllSettled` says that a section that is neither to be visited nor about to be sent round (`Stale`) is at a
fixed point with its references recorded; `Reached` describes the prefix of the section in the pass that has
changed nothing so far; `Emitting` that of the section being assembled. A label moves only in a visit with a
second pass (`Moved`), and every section that refers to it is recorded (`Recorded`): together they are why the
test `passes>1` (`vasm.c:379`) suffices.

`SectionsSettle` states the fixed point itself, between two sections; `EverySectionSettles` brings it into the
executable form `Settled` that TLC checks. `ProgramsAssumption` says what a parsed source is: sections at
distinct addresses, atoms of the kinds the parser makes.

`NothingGrows` (`OnlyShrinks` for all sources) has an invariant of its own, `Shrinking`. Without `-opt-branch`
a size depends only on the value of the operand's label, and is smaller for a smaller one (`SizeFalls`);
aligning keeps the order of addresses (`AlignMonotone`). The parser gives every label a value above none at
all, so what it has sized fits (`Parsing`). In a pass, the atoms ahead lie from some address on that is not
below the current one (`LiesFrom`), so the next label can only come to lie lower (`PassTurn`), and no size
that depends on it rises (`TurnFits`). The two invariants of the module are independent of each other.

**RunnerRules**. `GameImplementsRules` proves the refinement `ImplementsRules` from `Spec /\
[]NoPhantomHurdle`, for every display, list and jump. To the invariants above it adds
`QueueFilled` (the slots the queue is read from hold hurdles, also in the middle of a shift), `DrawnOnGround`
and `ColumnKnown`. In the middle of the shift the queue is read past the gap (`LiveSlot`): its head leaves it
when `clean_stale_hurdles` begins, and the copies are invisible.

**RoboScreen**. `RobotSeenOnce`, `ScoreSeen`, `MessageSeen`: each has an invariant that says, for each label,
what the cells that are not the robot's (the score's, the message's) can still hold. `RobotSeenOnce` assumes
hurdles two or more columns apart and a byte with room for two spacings, `MessageSeen` a message of at most 14
characters: more would reach the score.

`HurdlesSeen` proves `HurdlesShown`, on displays of any width, from `Course` and `HurdlesKnown`, which says for
each label which cells show a hurdle, the one just met included. Its hypothesis `SpawnClear` stops one round
earlier than `SpawnLeads`. In the round when the spawn position is COLS - 1 ahead, a new hurdle is drawn
right behind the robot, where `draw_robo_sprite` then erases: it stays in the list and cannot be seen
(`MCHiddenHurdle.cfg`). `ShortGameSeen` needs no hypothesis but `ShortGame`.

**LcdDriver4**, for all boot sequences, operations, calls and resets. `TypeOK /\ Pinned`, what the pins are at
each store, is inductive through resets and gives `BusHasOneSpeaker`. From power-on, `InStep` says which half
comes next on both sides, that a poll which has seen the display ready leaves it so, and that the display is
behind the calls by exactly the byte in progress; it gives `HalvesInStep`, `DisplayKeepsUp` and
`DriverImplementsLink`.

**Output** (`OutputProofs`), for every source, format and number of passes, about the end of the whole
program. `Layout`, `BytesTo` and `Ends` are functions defined by recursion along the atoms of a section. The
library's induction cannot be used here, but an induction over the numbers up to N can be had from finite sets:
if something failed at n, the numbers below n from which on it fails could be mapped into themselves one to
one and not onto (`StepByStep`). This unfolds the three functions and shows that the bytes of a section are a
run of addresses (`BytesAreRun`), unless a format pads wrongly. `Emitted` says what the drivers are given:
sections as `assemble()` has sized them, trimmed. Then:

- `NothingElseRefused`: no driver stops with an error but for the causes that `RefusedForCause` lists.
  `Checked` keeps what the overlap test has found, `HexKnown` how far the records have come.
- `FilesLoadInPlace`: a loader finds every byte at its address and every announced length right, but for the
  cases that `LoadsInPlace` names. The test leaves the sections `Apart`, unless one of them encloses an earlier
  one (`Displaced`). A binary file has its pieces in the order of the addresses (`InOrder`), its header says
  how far it has come (`Streaming`). The records of a section follow each other without a gap (`Records`) and
  what is left of it begins behind them (`Following`). S-records have no overlap test: when two sections share
  an address, `BothWritten` shows that the file is one of the excepted ones.

**FrontEnd**, for every set of sources and every limit. `TypeCorrect` includes that every text on the stack is
a slice of a file and that a section remembered by a dsect or a structure is in the list, which only grows
(`SectionInv`). `RecursionsAreCounted` and `SymbolStaysCurrent` hold only together with the types
(`SourceInv`): reading a line may pop texts, and each of them gives back a count or a value.
`ConditionsObeyed` follows from `CondInv`, the conditions below the innermost false one.

**Placement** (`PlacementProofs`). `PlacedInPlace` proves `PlacedAsWritten` for every source of section
directives, bytes, labels and uses of structures, of any length and with any addresses and names. It relates
two accounts of where things go. The manual's has address spaces, each with its counter, and a stack of the
blocks around. The assembler's has a list of sections found by name, sections made on demand, one remembered
section for dsects and another for structures, a flag, an offset, and an address that is only computed at the
end, from the atoms (`layout`). `Sim` says that the assembler has done what the manual means: sections and
spaces are the same one to one (`Covers`); the pc of a section is what its atoms reach, taken back from a
relocated block (`SectionOK`); at most one dsect and one structure are open (`InBlocks`), so that one
remembered section for each of them is enough, and each is the section of the space to return to (`Returns`);
only the structure being declared has local labels (`Locals`). The stack is why `PlacedAsWritten` is not
inductive: where the lines to come lie depends on it, and it is nowhere in the code.

There is one lemma for each directive (`OrgPlaces`, `SectionPlaces`, `DsectPlaces`, `DendPlaces`,
`StructPlaces`, `EndStructPlaces`, `RorgStep`, `RendStep`, `ByteStep`, `LabelStep`, `CallStep`): if the line
has a meaning, the action leads from `Sim` to `Sim`. A line without one makes the source odd for good
(`StaysOdd`). `Reading` says that such a source is read line by line, and `EndPlaces` turns `Sim` into the
property at its end. What `NoMeaning` excepts is listed in section 4; a dsect still open at the end is an
error. `layout`, the bytes of a structure and the meaning of the lines are recursive functions, unfolded as in
`OutputProofs` (`BehindUnfolds`, `BytesUnfold`, `PlacementUnfolds`).

Only model-checked: liveness (`FramesGoOn`, `PressIsHonoured`, `CallsReturn`, the ends of the assembler and
the front end; out of the prover's reach); the game beyond the score of `ShortGame`; `ExpandsAsWritten`,
`ParsesAsWritten`, `LinkedAsWritten`, whose references are RECURSIVE definitions over trees and tokens, which
the prover does not take.

## 6. Not modelled

- `wait`'s nested countdown is one step: it has registers only, and the handler saves those.
- `hello-world.s`, `hello-world-final.s`, the program templates: a constant text through the modelled driver.
  `blink.s`: straight-line stores. `robo-runner.4bit.s` is `robo-runner.s` with the 4-bit includes and another
  base of the tens digit, which `ScoreDisplay` covers by `FourBit` and `TensBase`.
- Instruction timing, contact bounce beyond repeated edges, electrical behaviour.
- vasm, in the parts the build uses: the text of a line (blanks, strings, named macro parameters), macros with
  more than one argument, data directives other than `byte`, the 65CE02 and WDC
  extensions, the rows of other mnemonics, float and 128-bit values, the symbol table's hashing, listing,
  include paths, the command line, execution addresses, checksums and record sizes of the output. The resolver
  knows `.org` sections only: no relocated-org blocks or sizes given by expressions.
- vasm, everything else: other CPUs, other syntaxes, ELF, Hunk, a.out, TOS, X68k and VOBJ output, DWARF. About
  three quarters of the lines of `src/` belong to these. The firmware is built with `CPU=6502 SYNTAX=oldstyle`
  and `-Fbin`, so they are not compiled or never called. They are mostly tables of instructions and formats
  that share the core modelled here. The models therefore stand for a small part of the repository's lines,
  and for most of the decisions behind the firmware.
- `makerom.py`, `flash.sh`, `update-vasm.sh`: no state.

## 7. Plan

Written in this order, the most important first: game, its rules and its list; screen; digits; 8-bit driver;
4-bit driver; resolver and image; the other output drivers; the front end; expressions and encoding; proofs
beside each. What would come next:

1. Relocated-org blocks and spaces whose size is an expression, in `Resolver`.
2. Proofs: the game after the spawn position has come round, which needs the numbers of the source; `Sim` with
   macros, repetitions and include files around the directives, which needs the expansion of a source as a
   function that is not RECURSIVE.
3. The drivers composed with the game: `RoboGame`'s LCD calls as calls of `LcdDriver`.
