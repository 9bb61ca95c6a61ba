------------------------------ MODULE Operands ------------------------------
(***************************************************************************)
(* One operand of a 6502 instruction or data directive on its way from the *)
(* text to the bytes and the relocation of the object file                 *)
(* (cpus/6502/cpu.c, reloc.c): parsed, sized while the resolver looks for  *)
(* addresses, encoded when they are final.  A whole line first gets the    *)
(* format of the instruction.  The linker then places the sections; it is  *)
(* not part of vasm.                                                       *)
(***************************************************************************)
EXTENDS Formats

VARIABLES
  item,    \* [text, mode, oc, zp, flag, dp, branchopt, sec, pc]: see Written; a line, too: [name, cpu]
  phase,
  tree,    \* op->value
  size,    \* of the instruction, as the resolver was told
  code     \* [bytes, relocs, error]

vars == << item, phase, tree, size, code >>

\* Addressing modes; "DATA8" and "DATA16" are data directives.
AbsoluteModes == {"ABS", "ABSX", "ABSY"}
DirectModes == {"INDX", "INDY", "DPINDIR"}
NoValue == {"IMPLIED", "ACCU"}
Modes == AbsoluteModes \cup DirectModes \cup NoValue
           \cup {"INDIR", "INDIRX", "IMMED", "REL8", "DATA8", "DATA16"}

\* An operand as the source gives it: its text, the opcode and its mode, what
\* the options and directives before it say, and the place it assembles to.
Written(i) ==
  /\ i.mode \in Modes /\ i.oc \in 0 .. 255
  /\ i.zp \in 0 .. 255               \* ext.zp_opcode; 0: no zero page mode
  /\ i.flag \in {"", "LO", "HI"}     \* OF_LO and OF_HI, from a < or > before the operand
  /\ i.dp \in Nat /\ i.branchopt \in BOOLEAN
  /\ i.sec \in DOMAIN Sections /\ i.pc \in Nat

JMP == 76
BRA == 128

IsData == item.mode \in {"DATA8", "DATA16"}
here == [sec |-> item.sec, pc |-> item.pc, final |-> phase # "parsed" \/ IsData]
Value == eval_expr(tree, here)
TheBase == find_base(tree, here)

\* The base symbol, "" for NULL: none is looked for when the value is constant.
BaseSym(v, b) == IF v.cnst THEN "" ELSE b.sym

is_pc_reloc(s) ==
  \/ EXTREF(s, here)
  \/ LOCREF(s, here) /\ ~Sections[item.sec].absolute /\ SecOf(s, here) # item.sec

InZeroPage(val) == val \in 0 .. 255 \/ val \in item.dp .. (item.dp + 255)

ZPAGESYM(s) == s # "" /\ Symbol(s, here).zp
NEAR(s) == LOCREF(s, here) /\ Sections[SecOf(s, here)].near

UseZeroPage(val, base) ==
  \/ item.flag = "LO"
  \/ item.flag = "" /\ IF base = "" THEN InZeroPage(val) ELSE ZPAGESYM(base) \/ NEAR(base)

\* Mutant: the distance is measured from the instruction, not from its end.
DistanceFromStart(val) == val - item.pc

\* bd, from the end of the branch
Distance(val) == val - (item.pc + 2)

\* optimize_instruction(): the mode and opcode that are used.  (JMP is never
\* shortened: it has an absolute operand, and that is asked for first.)  "ZPAGE"
\* is the mode with an index, too.
Optimized(val, base) ==
  IF item.mode \in AbsoluteModes /\ item.zp # 0 /\ UseZeroPage(val, base)
  THEN [mode |-> "ZPAGE", oc |-> item.zp]
  ELSE IF /\ item.mode = "REL8" /\ ~is_pc_reloc(base)
          /\ Distance(val) \notin -128 .. 127 /\ item.branchopt
  THEN IF item.oc = BRA THEN [mode |-> "ABS", oc |-> JMP] ELSE [mode |-> "RELJMP", oc |-> item.oc]
  ELSE [mode |-> item.mode, oc |-> item.oc]

Words == AbsoluteModes \cup {"INDIR", "INDIRX"}
get_inst_size(mode) ==
  CASE mode \in Words -> 3 [] mode = "RELJMP" -> 5 [] mode \in NoValue -> 1 [] OTHER -> 2

(***************************************************************************)
(* Encoding.                                                               *)
(***************************************************************************)
Lo(v) == v % 256
Hi(v) == (v \div 256) % 256
Byte(mod, v) == CASE mod = "LO" -> Lo(v) [] mod = "HI" -> Hi(v) [] OTHER -> v

\* add_extnreloc(): none for labels of absolute sections.
Reloc(sym, addend, pcrel, bits, offs, mod) ==
  IF ABSLABEL(sym, here) THEN << >>
  ELSE << [sym |-> sym, addend |-> addend, pcrel |-> pcrel, bits |-> bits, offs |-> offs,
           mod |-> mod] >>

Field(mode) ==
  CASE mode \in Words -> [bits |-> 16, offs |-> 1]
    [] mode = "RELJMP" -> [bits |-> 16, offs |-> 3]
    [] OTHER -> [bits |-> 8, offs |-> 1]

ModName(mod) == CASE mod = "LOBYTE" -> "LO" [] mod = "HIBYTE" -> "HI" [] OTHER -> ""

\* OF_LO and OF_HI when the relocation is made: those of a modifier, and a forced
\* size, which absolute and zero page modes put aside.
ByteFlag(mode, mod) == IF mode \in AbsoluteModes \cup {"ZPAGE"} THEN "" ELSE ModName(mod)

Encoded(val, relocs, error) == [val |-> val, relocs |-> relocs, error |-> error]

\* The middle of eval_instruction(): the operand's value, and its relocation.
Operand(mode, f, v, b) ==
  IF v.cnst
  THEN Encoded(IF mode = "REL8" THEN Distance(v.val) ELSE v.val, << >>, FALSE)
  ELSE IF b.of = BASE_ILLEGAL \/ (b.of = BASE_PCREL /\ mode # "IMMED")
  THEN Encoded(v.val, << >>, TRUE)
  ELSE IF mode = "REL8" /\ ~is_pc_reloc(b.sym)
  THEN Encoded(Distance(v.val), << >>, FALSE)
  ELSE LET pcrel == b.of = BASE_PCREL
           flag == ByteFlag(mode, b.mod)
           w == IF pcrel THEN v.val + f.offs ELSE v.val
           addend == IF mode = "REL8" THEN w - 1 ELSE w
       IN Encoded(Byte(flag, w),
                  Reloc(b.sym, addend, pcrel \/ mode = "REL8", f.bits, f.offs, flag), FALSE)

\* rangecheck(); a large addend in the zero page is only warned about.
OutOfRange(mode, val) ==
  CASE mode = "IMMED" -> val \notin -128 .. 255
    [] mode = "REL8" -> val \notin -128 .. 127
    [] OTHER -> FALSE

\* An offset into the direct page
Direct(val) == IF val \in item.dp .. (item.dp + 255) THEN val - item.dp ELSE val

\* oc ^= 0x20
Inverted(oc) == IF (oc \div 32) % 2 = 1 THEN oc - 32 ELSE oc + 32

Bytes(mode, oc, val) ==
  CASE mode \in NoValue -> << oc >>
    [] mode \in Words -> << oc, Lo(val), Hi(val) >>
    [] mode = "RELJMP" -> << Inverted(oc), 3, JMP, Lo(val), Hi(val) >>
    [] mode \in DirectModes \cup {"ZPAGE"} -> << oc, Lo(Direct(val)) >>
    [] OTHER -> << oc, Lo(val) >>

\* A forced zero page mode that is not there; stx and sty have no opcode for an
\* absolute address and an index.
NoSuchMode(op) ==
  \/ op.mode \in AbsoluteModes /\ item.flag = "LO"
  \/ op.mode \in {"ABSX", "ABSY"} /\ op.oc = 0

Instruction(op, operand) ==
  [bytes |-> Bytes(op.mode, op.oc, operand.val), relocs |-> operand.relocs,
   error |-> operand.error \/ OutOfRange(op.mode, operand.val) \/ NoSuchMode(op)]

Assembled(op, v, b) == Instruction(op, Operand(op.mode, Field(op.mode), v, b))
eval_instruction(v, b) == Assembled(Optimized(v.val, BaseSym(v, b)), v, b)

DataField(bits, val, relocs, error) ==
  [bytes |-> IF bits = 8 THEN << Lo(val) >> ELSE << Lo(val), Hi(val) >>, relocs |-> relocs,
   error |-> error \/ val \notin -(2^(bits - 1)) .. (2^bits - 1)]

eval_data(bits, v, b) ==
  IF v.cnst THEN DataField(bits, v.val, << >>, FALSE)
  ELSE IF b.of = BASE_OK \/ (b.of = BASE_PCREL /\ b.mod = "")
  THEN LET mod == ModName(b.mod)
       IN DataField(bits, Byte(mod, v.val),
                    Reloc(b.sym, v.val, b.of = BASE_PCREL, bits, 0, mod), FALSE)
  ELSE DataField(bits, v.val, << >>, TRUE)

(***************************************************************************)
(* The steps.                                                              *)
(***************************************************************************)
NoCode == [bytes |-> << >>, relocs |-> << >>, error |-> FALSE]

Given(i) ==
  /\ Written(i) /\ item = i
  /\ phase = IF "name" \in DOMAIN i THEN "line" ELSE "text"
  /\ tree = NUM(0) /\ size = 0 /\ code = NoCode

Assemble(inst) ==
  LET mode == Mode(inst.format.operand_type)
      none == mode \in NoValue
  IN /\ item' = [item EXCEPT !.mode = mode, !.oc = inst.format.opcode, !.zp = inst.format.zp_opcode,
                   !.flag = IF none THEN "" ELSE inst.value[1].flag]
     /\ tree' = IF none THEN tree ELSE simplify_expr(inst.value[1].tree)

Chosen(ops, inst) ==
  IF inst.error \/ \E k \in DOMAIN ops : ops[k] = << >>
  THEN phase' = "rejected" /\ UNCHANGED << item, tree >>
  ELSE phase' = "parsed" /\ Assemble(inst)

\* The operands are separated, and the format is chosen.
NewInst ==
  /\ phase = "line"
  /\ LET ops == Operands(item.text)
     IN Chosen(ops, new_inst(item.name, ops, item.cpu))
  /\ UNCHANGED << size, code >>

\* parse_expr(); what is left of the text is warned about.
Parse ==
  /\ phase = "text"
  /\ LET parsed == expression(item.text)
     IN /\ tree' = simplify_expr(parsed.tree)
        /\ code' = [code EXCEPT !.error = ~parsed.ok]
        /\ phase' = IF code'.error THEN "rejected" ELSE "parsed"
  /\ UNCHANGED << item, size >>

\* instruction_size(), on a copy of the instruction; its tree is not copied.
InstructionSize ==
  /\ phase = "parsed" /\ ~IsData
  /\ size' = get_inst_size(Optimized(Value.val, BaseSym(Value, TheBase)).mode)
  /\ tree' = IF Value.cnst THEN tree ELSE Marked(tree)
  /\ phase' = "sized"
  /\ UNCHANGED << item, code >>

EvalInstruction ==
  /\ phase = "sized"
  /\ code' = eval_instruction(Value, TheBase)
  /\ phase' = IF code'.error THEN "rejected" ELSE "encoded"
  /\ UNCHANGED << item, tree, size >>

EvalData ==
  /\ phase = "parsed" /\ IsData
  /\ code' = eval_data(IF item.mode = "DATA8" THEN 8 ELSE 16, Value, TheBase)
  /\ phase' = IF code'.error THEN "rejected" ELSE "encoded"
  /\ UNCHANGED << item, tree, size >>

Next == NewInst \/ Parse \/ InstructionSize \/ EvalInstruction \/ EvalData
=============================================================================
