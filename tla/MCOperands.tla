----------------------------- MODULE MCOperands -----------------------------
(* Operands for TLC.  All short chains of operators, and expressions of      *)
(* labels, external symbols and numbers in each kind of operand, linked at   *)
(* several addresses.                                                        *)
EXTENDS Operands

TheSections ==
  [code |-> [absolute |-> FALSE, unallocated |-> FALSE, near |-> FALSE, org |-> 0],
   data |-> [absolute |-> FALSE, unallocated |-> FALSE, near |-> FALSE, org |-> 0],
   rom  |-> [absolute |-> TRUE, unallocated |-> FALSE, near |-> FALSE, org |-> 600],
   page |-> [absolute |-> FALSE, unallocated |-> FALSE, near |-> TRUE, org |-> 0],
   dsect |-> [absolute |-> FALSE, unallocated |-> TRUE, near |-> FALSE, org |-> 0]]

Label(sec, pc) == [of |-> "label", sec |-> sec, pc |-> pc, zp |-> FALSE]
TheSymbols ==
  [L1 |-> Label("code", 3), L2 |-> Label("code", 610), M |-> Label("data", 260),
   R |-> Label("rom", 605), P |-> Label("page", 9), Z |-> Label("dsect", 16),
   I |-> [of |-> "import", zp |-> FALSE], IZ |-> [of |-> "import", zp |-> TRUE],
   E |-> [of |-> "equate", e |-> Node("ADD", SYM("M"), NUM(2))]]

Placements ==
  << [code |-> 0, data |-> 0, page |-> 0, I |-> 0, IZ |-> 8],
     [code |-> 4000, data |-> 8250, page |-> 32, I |-> 20000, IZ |-> 18],
     [code |-> 33000, data |-> 1030, page |-> 160, I |-> 77, IZ |-> 200] >>

(***************************************************************************)
(* Texts: the operators of the manual with their priorities (doc/          *)
(* vasm_main.texi:236-255), 1 the highest of the binary ones.              *)
(***************************************************************************)
Priorities ==
  << {"<<", ">>"}, {"&"}, {"^", "~"}, {"|", "!"}, {"*", "/", "%", "//"}, {"+", "-"},
     {"<", ">", "<=", ">="}, {"==", "!=", "=", "<>"}, {"&&"}, {"||"} >>
Operators == UNION { Priorities[k] : k \in DOMAIN Priorities }
Priority(o) == CHOOSE k \in DOMAIN Priorities : o \in Priorities[k]

NodeType(o) ==
  CASE o = "<<" -> "LSH" [] o = ">>" -> "RSH" [] o = "&" -> "BAND" [] o \in {"^", "~"} -> "XOR"
    [] o \in {"|", "!"} -> "BOR" [] o = "*" -> "MUL" [] o = "/" -> "DIV" [] o \in {"%", "//"} -> "MOD"
    [] o = "+" -> "ADD" [] o = "-" -> "SUB" [] o = "<" -> "LT" [] o = ">" -> "GT"
    [] o = "<=" -> "LEQ" [] o = ">=" -> "GEQ" [] o \in {"==", "="} -> "EQ"
    [] o \in {"!=", "<>"} -> "NEQ" [] o = "&&" -> "LAND" [] o = "||" -> "LOR"

Chars(o) ==
  CASE o = "<<" -> << "<", "<" >> [] o = ">>" -> << ">", ">" >> [] o = "//" -> << "/", "/" >>
    [] o = "<=" -> << "<", "=" >> [] o = ">=" -> << ">", "=" >> [] o = "==" -> << "=", "=" >>
    [] o = "!=" -> << "!", "=" >> [] o = "<>" -> << "<", ">" >> [] o = "&&" -> << "&", "&" >>
    [] o = "||" -> << "|", "|" >> [] OTHER -> << o >>
Spelled(o) == [k \in DOMAIN Chars(o) |-> Char(Chars(o)[k])]

Number(n) == << [c |-> "num", n |-> n, s |-> ""] >>
Ident(s) == << [c |-> "sym", n |-> 0, s |-> s] >>

\* The operator that is applied last: of the lowest priority the last one.
LastApplied(ops) ==
  CHOOSE k \in DOMAIN ops : \A j \in DOMAIN ops :
    \/ Priority(ops[j]) < Priority(ops[k])
    \/ Priority(ops[j]) = Priority(ops[k]) /\ j <= k

RECURSIVE Grouped(_, _)
Grouped(operands, ops) ==
  IF ops = << >> THEN operands[1]
  ELSE LET k == LastApplied(ops)
       IN Node(NodeType(ops[k]), Grouped(SubSeq(operands, 1, k), SubSeq(ops, 1, k - 1)),
               Grouped(SubSeq(operands, k + 1, Len(operands)), SubSeq(ops, k + 1, Len(ops))))

UnaryType(u) ==
  CASE u = "-" -> "NEG" [] u = "!" -> "NOT" [] u = "~" -> "CPL" [] u = "<" -> "LOBYTE" [] u = ">" -> "HIBYTE"
Signs == {"", "+", "-", "!", "~", "<", ">"}
Signed1(u, n) == IF u \in {"", "+"} THEN NUM(n) ELSE Unary(UnaryType(u), NUM(n))
Prefixed(u, n) == (IF u = "" THEN << >> ELSE Spelled(u)) \o Number(n)

\* A chain of operators, the operand after the first one with a sign, with or
\* without blanks.
Chain(ops, sign, gap) ==
  LET text[k \in 0 .. Len(ops)] ==
        IF k = 0 THEN Number(7)
        ELSE text[k - 1] \o gap \o Spelled(ops[k]) \o gap
               \o Prefixed(IF k = 1 THEN sign ELSE "", k + 1)
  IN [text |-> text[Len(ops)],
      meant |-> Grouped([k \in 1 .. Len(ops) + 1 |->
                           IF k = 1 THEN NUM(7) ELSE Signed1(IF k = 2 THEN sign ELSE "", k)], ops)]

\* One operator of each priority, and the comparisons.
Representatives == {"<<", "&", "^", "|", "*", "-", "<", ">=", ">", "==", "&&", "||"}

(***************************************************************************)
(* Operands.                                                               *)
(***************************************************************************)
Leaves == {NUM(5), NUM(300)} \cup { SYM(s) : s \in DOMAIN TheSymbols \cup {CurPc} }
FewLeaves == {NUM(5), SYM("L1"), SYM("L2"), SYM("M"), SYM("I")}
Sums(ls, rs) == { Node(type, l, r) : type \in {"ADD", "SUB"}, l \in ls, r \in rs }
Simple == Leaves \cup Sums(Leaves, Leaves) \cup { Node("MUL", l, NUM(5)) : l \in Leaves }
Selected ==
  LET bases == Leaves \cup Sums(FewLeaves, FewLeaves)
  IN { Unary(type, t) : type \in {"LOBYTE", "HIBYTE"}, t \in bases }
       \cup { Node(type, t, NUM(256)) : type \in {"DIV", "MOD"}, t \in bases }
       \cup { Node("BAND", t, NUM(255)) : t \in bases }
Nested ==
  LET sums == Sums(FewLeaves, FewLeaves)
      fixed == {NUM(300), SYM("R"), SYM("Z")}
  IN Sums(sums, FewLeaves) \cup Sums(FewLeaves, sums) \cup Sums(Sums(fixed, fixed), fixed)

RECURSIVE Text(_)
Text(t) ==
  LET inner(u) == IF u.type \in {"NUM", "SYM"} THEN Text(u)
                  ELSE << Char("(") >> \o Text(u) \o << Char(")") >>
  IN CASE t.type = "NUM" -> Number(t.n)
       [] t.type = "SYM" -> Ident(t.s)
       [] t.type \in {"LOBYTE", "HIBYTE"} -> Spelled(IF t.type = "LOBYTE" THEN "<" ELSE ">") \o inner(t.left)
       [] OTHER -> inner(t.left) \o Spelled(CHOOSE o \in Operators \ {"//"} : NodeType(o) = t.type)
                     \o inner(t.right)

Kind(mode, oc, zp, flag, branchopt, dp) ==
  [mode |-> mode, oc |-> oc, zp |-> zp, flag |-> flag, branchopt |-> branchopt, dp |-> dp]
LDA == Kind("ABS", 173, 165, "", FALSE, 0)
BNE == Kind("REL8", 208, 0, "", FALSE, 0)
DATA8 == Kind("DATA8", 0, 0, "", FALSE, 0)
DATA16 == Kind("DATA16", 0, 0, "", FALSE, 0)
IMMED == Kind("IMMED", 169, 0, "", FALSE, 0)
INDX == Kind("INDX", 161, 0, "", FALSE, 0)
Kinds ==
  { LDA, [LDA EXCEPT !.flag = "LO"], [LDA EXCEPT !.flag = "HI"], [LDA EXCEPT !.dp = 512],
    Kind("ABS", JMP, 0, "", FALSE, 0), Kind("ABS", JMP, 0, "LO", FALSE, 0),
    Kind("INDIR", 108, 0, "", FALSE, 0), INDX, IMMED, DATA8, DATA16,
    BNE, [BNE EXCEPT !.branchopt = TRUE], Kind("REL8", BRA, 0, "", TRUE, 0) }

(***************************************************************************)
(* Lines.                                                                  *)
(***************************************************************************)
Format(name, types, opcode, zp, cpu) ==
  [name |-> name, operand_type |-> types, opcode |-> opcode, zp_opcode |-> zp, available |-> cpu]
TheMnemonics ==
  << Format("adc", << "IMMED" >>, 105, 0, "M6502"),
     Format("adc", << "ABS" >>, 109, 101, "M6502"),
     Format("adc", << "INDX" >>, 97, 0, "M6502"),
     Format("adc", << "DPINDIR" >>, 114, 0, "M65C02"),
     Format("adc", << "INDIR", "DUMY" >>, 113, 0, "M6502"),
     Format("adc", << "ABS", "DUMX" >>, 125, 117, "M6502"),
     Format("adc", << "ABS", "DUMY" >>, 121, 0, "M6502"),
     Format("asl", << "ACCU" >>, 10, 0, "M6502"),
     Format("asl", << "ABS" >>, 14, 6, "M6502"),
     Format("asl", << >>, 10, 0, "M6502"),
     Format("asl", << "ABS", "DUMX" >>, 30, 22, "M6502"),
     Format("bit", << "IMMED" >>, 137, 0, "M65C02"),
     Format("bit", << "ABS" >>, 44, 36, "M6502"),
     Format("bit", << "ABS", "DUMX" >>, 60, 52, "M65C02"),
     Format("bne", << "REL8" >>, 208, 0, "M6502"),
     Format("inc", << "ACCU" >>, 26, 0, "M65C02"),
     Format("inc", << >>, 26, 0, "M65C02"),
     Format("inc", << "ABS" >>, 238, 230, "M6502"),
     Format("inc", << "ABS", "DUMX" >>, 254, 246, "M6502"),
     Format("jmp", << "ABS" >>, 76, 0, "M6502"),
     Format("jmp", << "INDIRX" >>, 124, 0, "M65C02"),
     Format("jmp", << "INDIR" >>, 108, 0, "M6502"),
     Format("ldx", << "IMMED" >>, 162, 0, "M6502"),
     Format("ldx", << "ABS" >>, 174, 166, "M6502"),
     Format("ldx", << "ABS", "DUMY" >>, 190, 182, "M6502"),
     Format("stx", << "ABS" >>, 142, 134, "M6502"),
     Format("stx", << "ABS", "DUMY" >>, 0, 150, "M6502") >>
Names == { TheMnemonics[k].name : k \in DOMAIN TheMnemonics }

\* What is written around the expression, and the operand types it stands for.
\* Five are of no instruction.  The last ones are not complete, but only warned about:
\* what is missing or too much counts for nothing.
Forms ==
  [imm |-> {<< "IMMED" >>}, abs |-> {<< "ABS" >>, << "REL8" >>},
   absx |-> {<< "ABS", "DUMX" >>}, absy |-> {<< "ABS", "DUMY" >>},
   ind |-> {<< "INDIR" >>, << "DPINDIR" >>}, indx |-> {<< "INDX" >>, << "INDIRX" >>},
   indy |-> {<< "INDIR", "DUMY" >>}, implied |-> {<< >>},
   xind |-> {}, yind |-> {}, xindy |-> {}, immx |-> {}, two |-> {},
   open |-> {<< "ABS" >>, << "REL8" >>}, closed |-> {<< "ABS" >>, << "REL8" >>},
   more |-> {<< "ABS", "DUMX" >>}, comma |-> {<< "IMMED" >>}]

C(c) == << Char(c) >>
In(form, text) ==
  LET indexed(t, r) == t \o C(",") \o Ident(r)
      inside(t) == C("(") \o t \o C(")")
  IN CASE form = "imm"  -> C("#") \o text
       [] form = "abs"  -> text
       [] form = "absx" -> indexed(text, "x")
       [] form = "absy" -> indexed(text, "y")
       [] form = "ind"  -> inside(text)
       [] form = "indx" -> inside(indexed(text, "x"))
       [] form = "indy" -> indexed(inside(text), "y")
       [] form = "implied" -> << >>
       [] form = "xind" -> indexed(inside(text), "x")
       [] form = "yind" -> inside(indexed(text, "y"))
       [] form = "xindy" -> indexed(inside(indexed(text, "x")), "y")
       [] form = "immx" -> indexed(C("#") \o text, "x")
       [] form = "two"  -> indexed(indexed(text, "x"), "y")
       [] form = "open" -> C("(") \o text
       [] form = "closed" -> text \o C(")")
       [] form = "more" -> indexed(text \o C(" ") \o Number(1), "x") \o Number(2)
       [] form = "comma" -> C("#") \o text \o C(",")

Spaced(text) ==
  LET spaced[k \in 0 .. Len(text)] ==
        IF k = 0 THEN C(" ") ELSE Append(spaced[k - 1], text[k]) \o C(" ")
  IN spaced[Len(text)]

Expected == {NUM(5), NUM(300), SYM("L1"), SYM("M"), SYM("R"), SYM("P"), SYM("I"), SYM("IZ"),
             Node("ADD", Node("ADD", NUM(5), NUM(3)), NUM(3)),
             Node("MUL", Node("ADD", NUM(5), NUM(3)), Node("ADD", NUM(2), NUM(1)))}
CPUs == {{"M6502"}, {"M6502", "M65C02"}}
Sizing == [LO |-> C("<"), HI |-> C(">")]

Places == {[sec |-> "code", pc |-> 520], [sec |-> "rom", pc |-> 640]}

TextItem(ops, sign, gap) ==
  DATA16 @@ [family |-> "text", sec |-> "code", pc |-> 0] @@ Chain(ops, sign, gap)
OperandItem(kind, t, place) ==
  kind @@ [family |-> "operand", text |-> Text(t), meant |-> t] @@ place
LineItem(name, types, text, t, flag, cpu, place) ==
  Kind("IMPLIED", 0, 0, "", FALSE, 0) @@ place
    @@ [family |-> "line", name |-> name, cpu |-> cpu, types |-> types, text |-> text,
        meant |-> t, forced |-> flag]

Init ==
  \/ \E ops \in [1 .. 2 -> Operators] \cup [1 .. 3 -> Representatives] :
       Given(TextItem(ops, "", << >>))
  \/ \E ops \in [1 .. 2 -> Operators], sign \in Signs : Given(TextItem(ops, sign, << Blank >>))
  \/ \E kind \in Kinds, t \in Simple, place \in Places : Given(OperandItem(kind, t, place))
  \/ \E kind \in {DATA8, DATA16, IMMED, INDX, LDA}, t \in Selected, place \in Places :
       Given(OperandItem(kind, t, place))
  \/ \E kind \in {DATA16, IMMED, LDA}, t \in Nested, place \in Places :
       Given(OperandItem(kind, t, place))
  \/ \E name \in Names, cpu \in CPUs, place \in Places, spaces \in BOOLEAN :
       LET line(types, text, t, flag) ==
             Given(LineItem(name, types, IF spaces THEN Spaced(text) ELSE text, t, flag, cpu, place))
       IN \/ \E form \in DOMAIN Forms, t \in Expected : line(Forms[form], In(form, Text(t)), t, "")
          \/ \E form \in {"abs", "absx", "absy"}, t \in Expected, flag \in DOMAIN Sizing :
               /\ name # "bne"
               /\ line(Forms[form], In(form, Sizing[flag] \o Text(t)), t, flag)
          \/ /\ name \in {"asl", "inc"}
             /\ name = "inc" => "M65C02" \in cpu
             /\ line({<< "ACCU" >>}, Ident("a"), NUM(0), "")

Spec == Init /\ [][Next]_vars

(* A text is grouped by the priorities of the manual, operators of one       *)
(* priority from left to right; except that a comparison after one with a    *)
(* "=" is taken to have one as well, and that a blank behind // is an error. *)
RECURSIVE StaleEquals(_), HasEquals(_)
HasEquals(t) == t.type \in {"LEQ", "GEQ"} \/ (t.type \in {"LT", "GT"} /\ HasEquals(t.left))
StaleEquals(t) ==
  /\ "right" \in DOMAIN t
  /\ \/ t.type \in {"LT", "GT"} /\ HasEquals(t.left)
     \/ StaleEquals(t.left) \/ StaleEquals(t.right)

BlankBehindModulo(text) ==
  \E k \in 3 .. Len(text) : SubSeq(text, k - 2, k) = Spelled("//") \o << Blank >>

Grouping ==
  phase \in {"parsed", "rejected"} =>
    LET parsed == expression(item.text)
    IN IF BlankBehindModulo(item.text) THEN phase = "rejected" /\ ~parsed.ok
       ELSE \/ StaleEquals(item.meant)
            \/ parsed.ok /\ parsed.rest = << >> /\ parsed.tree = item.meant

(* Each operator of the manual is one with blanks around it, too: no chain   *)
(* of operators and numbers is refused for its form.                         *)
ChainsAccepted ==
  item.family = "text" /\ phase = "rejected" => expression(item.text).ok

(* A line gets the one format that has its name and form and that the CPU    *)
(* knows, with the expression in it; a line for which there is none is       *)
(* rejected.                                                                 *)
Fitting ==
  { k \in DOMAIN mnemonics : /\ mnemonics[k].name = item.name
                             /\ mnemonics[k].available \in item.cpu
                             /\ mnemonics[k].operand_type \in item.types }
HasFormat ==
  IF size = 0 /\ phase = "rejected" THEN Fitting = {}
  ELSE phase = "parsed" =>
    \E k \in Fitting :
      /\ Fitting = {k}
      /\ << item.oc, item.zp >> = << mnemonics[k].opcode, mnemonics[k].zp_opcode >>
      /\ item.mode = Mode(mnemonics[k].operand_type) /\ item.flag = item.forced
      /\ item.mode \in NoValue \/ tree = simplify_expr(item.meant)

ParsesAsWritten == IF item.family = "line" THEN HasFormat ELSE Grouping

(***************************************************************************)
(* What a value depends on.                                                *)
(***************************************************************************)
\* The parts of the program that are placed by the linker.
Movable == {"code", "data", "page", "I", "IZ"}
Constant == [m \in Movable |-> 0]
Nonlinear == [m \in Movable |-> 99]
One(m) == [Constant EXCEPT ![m] = 1]

\* How often the address of each part is in a value.
RECURSIVE Weights(_)
Weights(t) ==
  CASE t.type = "NUM" -> Constant
    [] t.type = "SYM" ->
         LET s == Symbol(t.s, here)
         IN IF s.of = "equate" THEN Weights(s.e)
            ELSE IF s.of = "import" THEN One(t.s)
            ELSE IF s.sec \in Movable THEN One(s.sec) ELSE Constant
    [] t.type \in {"ADD", "SUB"} ->
         LET l == Weights(t.left)
             r == Weights(t.right)
         IN [m \in Movable |-> IF t.type = "ADD" THEN l[m] + r[m] ELSE l[m] - r[m]]
    [] t.type \in {"LOBYTE", "HIBYTE"} -> Weights(t.left)
    [] OTHER -> IF Weights(t.left) = Constant /\ Weights(t.right) = Constant THEN Constant ELSE Nonlinear
Fixed(t) == Weights(t) = Constant

(***************************************************************************)
(* The linker.                                                             *)
(***************************************************************************)
Base0(sec, p) == IF sec \in DOMAIN p THEN p[sec] ELSE 0
Address(s, p) ==
  LET sym == Symbol(s, here)
  IN IF sym.of = "import" THEN p[s] ELSE sym.pc + Base0(sym.sec, p)

RECURSIVE Meaning(_, _)
Meaning(t, p) ==
  CASE t.type = "NUM" -> t.n
    [] t.type = "SYM" -> IF Symbol(t.s, here).of = "equate" THEN Meaning(Symbol(t.s, here).e, p)
                         ELSE Address(t.s, p)
    [] t.type \notin {"NUM", "SYM"} /\ "right" \notin DOMAIN t ->
         UnaryValue(t.type, Meaning(t.left, p), TRUE)
    [] OTHER -> Binary(t.type, Meaning(t.left, p), Meaning(t.right, p))

Start(p) == item.pc + Base0(item.sec, p)

Relocated(r, p) ==
  LET s == IF LOCREF(r.sym, here) THEN Base0(SecOf(r.sym, here), p) ELSE p[r.sym]
  IN Byte(r.mod, s + r.addend - (IF r.pcrel THEN Start(p) + r.offs ELSE 0))

Patched(bytes, r, p) ==
  LET v == Relocated(r, p)
  IN [k \in DOMAIN bytes |->
        CASE k = r.offs + 1 -> Lo(v) [] k = r.offs + 2 /\ r.bits = 16 -> Hi(v) [] OTHER -> bytes[k]]

\* A byte that does not fit is reported.
Links(p) ==
  \A k \in DOMAIN code.relocs :
    LET r == code.relocs[k]
    IN r.bits = 8 => Relocated(r, p) \in -128 .. (IF r.pcrel THEN 127 ELSE 255)

Linked(p) == IF code.relocs = << >> THEN code.bytes ELSE Patched(code.bytes, code.relocs[1], p)

(***************************************************************************)
(* What the processor makes of the bytes.                                  *)
(***************************************************************************)
Word(bytes, k) == bytes[k] + 256 * bytes[k + 1]
Jump(bytes, at) ==
  IF bytes[1] = JMP THEN Word(bytes, 2)
  ELSE (at + 2 + (IF bytes[2] > 127 THEN bytes[2] - 256 ELSE bytes[2])) % 65536

\* Where a branch goes when it is taken; BNE is 208 and BEQ 240.
Target(bytes, at) ==
  IF Len(bytes) = 5
  THEN IF bytes[1] = 240 /\ Jump(bytes, at) = at + 5 /\ bytes[3] = JMP THEN Word(bytes, 4) ELSE -1
  ELSE IF bytes[1] \in {item.oc, JMP} THEN Jump(bytes, at) ELSE -1

\* C divides a negative number another way than it selects its bytes.
Meant(p) == Meaning(IF Fixed(item.meant) THEN item.meant ELSE Marked(item.meant), p)

Right(p) ==
  LET bytes == Linked(p)
      v == Meant(p)
  IN CASE item.mode = "DATA8" -> bytes[1] = v % 256
       [] item.mode = "DATA16" -> Word(bytes, 1) = v % 65536
       [] item.mode = "REL8" -> Target(bytes, Start(p)) = v % 65536
       [] item.mode \in NoValue -> bytes = << item.oc >>
       [] item.mode \in AbsoluteModes /\ bytes[1] = item.zp ->
            \/ bytes[2] + item.dp = v \/ bytes[2] = v
            \/ item.flag = "LO" /\ bytes[2] = v % 256
       [] item.mode \in Words /\ bytes[1] = item.oc -> Word(bytes, 2) = v % 65536
       [] item.mode \in DirectModes \cup {"IMMED"} /\ bytes[1] = item.oc -> bytes[2] = v % 256
       [] OTHER -> FALSE


\* A relocation is one address, or the difference of one and the current section.
Relocatable(w) ==
  \/ w = Constant
  \/ \E m \in Movable : \/ w = One(m)
                       \/ /\ item.sec \in Movable \ {m}
                          /\ w = [One(m) EXCEPT ![item.sec] = -1]
RECURSIVE Representable(_)
Representable(t) ==
  /\ Relocatable(Weights(t))
  /\ "left" \in DOMAIN t => Representable(t.left)
  /\ "right" \in DOMAIN t => Representable(t.right)

\* A branch goes to the same section, or is relocated.
BranchInReach ==
  LET w == Weights(item.meant)
  IN IF item.sec \in Movable THEN \E m \in Movable : w = One(m) ELSE w = Constant

(* What the assembler gets wrong.  A label with a fixed address, or a        *)
(* difference, cannot be subtracted from what is relocated: the result is    *)
(* taken for a constant (and, for a label of an offset section, the          *)
(* instruction gets another size than the resolver knows).                   *)
RECURSIVE FixedLabelSubtracted(_)
FixedLabelSubtracted(t) ==
  /\ "right" \in DOMAIN t
  /\ \/ /\ t.type = "SUB" /\ ~Fixed(t.left)
        /\ find_base(t.right, [here EXCEPT !.final = FALSE]).sym # ""
        /\ \A m \in Movable : Weights(t.right) # One(m)
     \/ FixedLabelSubtracted(t.left) \/ FixedLabelSubtracted(t.right)

\* The byte operator is lost in an absolute operand, and applied twice when data
\* are divided by 256.
ByteMistaken ==
  /\ ~Fixed(item.meant) /\ ByteOf(item.meant) # ""
  /\ item.mode \in AbsoluteModes \/ (IsData /\ item.meant.type = "DIV")

\* c - a - b becomes c - (a - b).
RECURSIVE ConstSymSym(_)
ConstSymSym(t) ==
  /\ "right" \in DOMAIN t
  /\ t # Rearranged(t) \/ ConstSymSym(t.left) \/ ConstSymSym(t.right)

\* rangecheck() warns of an addend to an external symbol of the zero page.
AddendWarned ==
  /\ item.mode \in AbsoluteModes \cup DirectModes
  /\ \E k \in DOMAIN code.relocs :
       LET r == code.relocs[k]
       IN r.bits = 8 /\ EXTREF(r.sym, here) /\ r.addend \notin -128 .. 127

(* An operand that is not rejected becomes bytes that, once linked, hold the *)
(* value its text has at the final addresses (for a branch: lead there); and *)
(* as many bytes as the resolver was told.                                   *)
LinkedAsWritten ==
  phase = "encoded" /\ item.family # "text" =>
    \/ ~Representable(IF ByteOf(item.meant) = "" THEN item.meant ELSE item.meant.left)
    \/ item.mode = "REL8" /\ ~BranchInReach
    \/ FixedLabelSubtracted(item.meant) \/ ByteMistaken \/ ConstSymSym(item.meant) \/ AddendWarned
    \/ /\ IsData \/ size = Len(code.bytes)
       /\ \A k \in DOMAIN Placements : Links(Placements[k]) => Right(Placements[k])

(* The size that instruction_size() gives to the resolver is the number of   *)
(* bytes that eval_instruction() writes.                                     *)
SizeIdentical == phase = "encoded" => IsData \/ size = Len(code.bytes)
=============================================================================
