------------------------------ MODULE Formats ------------------------------
(***************************************************************************)
(* From an instruction of the source to the entry of the instruction table *)
(* it is assembled with: the line is cut into operands                     *)
(* (syntax/oldstyle/syntax.c), and the formats of the mnemonic are tried   *)
(* in the order of the table (atom.c) until one matches their form         *)
(* (cpus/6502/cpu.c).  A register is a symbol by its own, and nothing is    *)
(* quoted.                                                                 *)
(***************************************************************************)
EXTENDS Expressions, FiniteSets, TLC

CONSTANT
  mnemonics   \* opcodes.h: a sequence of [name, operand_type, opcode, zp_opcode, available]

\* skip_operand(): how many parentheses are open after each character; one too many
\* is only warned about.
par_cnt(s) ==
  LET open[k \in 0 .. Len(s)] ==
        IF k = 0 THEN 0
        ELSE CASE s[k].c = "(" -> open[k - 1] + 1
               [] s[k].c = ")" /\ open[k - 1] > 0 -> open[k - 1] - 1
               [] OTHER -> open[k - 1]
  IN open

(***************************************************************************)
(* The operands of a line: at commas that are not in parentheses, without  *)
(* the blanks around them.                                                 *)
(***************************************************************************)
MAX_OPERANDS == 3

RECURSIVE oplen(_)
oplen(s) == IF s # << >> /\ s[Len(s)] = Blank THEN oplen(SubSeq(s, 1, Len(s) - 1)) ELSE s

Least(S) == CHOOSE k \in S : \A j \in S : k <= j

RECURSIVE Pieces(_)
Pieces(line) ==
  LET open   == par_cnt(line)
      commas == { k \in DOMAIN line : line[k].c = "," /\ open[k] = 0 }
      comma  == Least(commas)
  IN IF line = << >> THEN << >>
     ELSE IF commas = {} THEN << oplen(line) >>
     ELSE << oplen(SubSeq(line, 1, comma - 1)) >> \o Pieces(Skip(From(line, comma + 1)))

\* More of them are garbage, with a warning; nothing behind a comma is no operand.
Operands(line) ==
  LET pieces == Pieces(Skip(line))
  IN SubSeq(pieces, 1, IF Len(pieces) < MAX_OPERANDS THEN Len(pieces) ELSE MAX_OPERANDS)

(***************************************************************************)
(* One operand against one type.                                           *)
(***************************************************************************)
IndirectTypes == {"INDIR", "INDIRX", "INDX", "DPINDIR"}
RegisterTypes == {"ACCU", "DUMX", "DUMY"}

\* All of the operand is in one pair of parentheses.
check_indir(p) ==
  At(p, 1) = "(" /\ par_cnt(p)[Len(p)] = 0 /\ \A k \in 1 .. Len(p) - 1 : par_cnt(p)[k] > 0

\* Upper and lower case are the same.
Registers == [ACCU |-> {"a", "A"}, DUMX |-> {"x", "X"}, DUMY |-> {"y", "Y"}]
Register(s, type) == At(s, 1) = "sym" /\ s[1].s \in Registers[type]

NoMatch(error) == [rc |-> "nomatch", error |-> error]

\* What has to follow the value: the index register inside of the parentheses, and
\* the closing one.  Anything else behind it is garbage, with a warning.
Behind(type, e) ==
  LET indexed == type \in {"INDX", "INDIRX"}
      index == Skip(Tail(e.rest))
      close == IF indexed THEN Skip(Tail(index)) ELSE e.rest
  IN IF indexed /\ (At(e.rest, 1) # "," \/ ~Register(index, "DUMX")) THEN NoMatch(~e.ok)
     ELSE IF type \in IndirectTypes /\ At(close, 1) # ")" THEN [rc |-> "corrupt", error |-> TRUE]
     ELSE [rc |-> "match", error |-> ~e.ok]

\* A < or > before an absolute operand forces its size.
Forced(type, s) ==
  IF type # "ABS" THEN ""
  ELSE IF At(s, 1) \in {">", "!", "|"} THEN "HI" ELSE IF At(s, 1) = "<" THEN "LO" ELSE ""

Valued(type, flag, e) == [tree |-> e.tree, flag |-> flag] @@ Behind(type, e)

parse_operand(p, type) ==
  LET indir == check_indir(p)
      s == IF indir THEN Skip(Tail(p)) ELSE p
      flag == Forced(type, s)
  IN IF \/ type = "IMMED" /\ At(s, 1) # "#"
        \/ type # "IMMED" /\ indir # (type \in IndirectTypes)
     THEN NoMatch(FALSE)
     ELSE IF type \in RegisterTypes
     THEN IF Register(s, type) /\ (type = "ACCU" => Len(s) = 1)
          THEN [rc |-> "match", error |-> FALSE] ELSE NoMatch(FALSE)
     ELSE Valued(type, flag, expression(IF type = "IMMED" \/ flag # "" THEN Skip(Tail(s)) ELSE s))

(***************************************************************************)
(* All formats of a mnemonic.                                              *)
(***************************************************************************)
\* A format with operands that were parsed as its types: the first that does not
\* match decides.
Verdict(format, parsed, number) ==
  LET wrong == { k \in DOMAIN parsed : parsed[k].rc # "match" }
      fits  == number = Len(format.operand_type)
  IN [format |-> format, value |-> parsed,
      rc |-> IF wrong # {} THEN parsed[Least(wrong)].rc ELSE IF fits THEN "match" ELSE "nomatch",
      error |-> \E k \in DOMAIN parsed : (\A j \in wrong : k <= j) /\ parsed[k].error]

Tried(format, ops) ==
  LET types == format.operand_type
  IN Verdict(format, [k \in DOMAIN ops \cap DOMAIN types |-> parse_operand(ops[k], types[k])],
             Len(ops))

\* The first format that matches; none if the operands are corrupt before.  Errors of
\* the ones before it count.
FirstMatch(tries) ==
  LET decided == { k \in DOMAIN tries : tries[k].rc # "nomatch" }
      first   == Least(decided)
  IN IF decided = {} \/ tries[first].rc = "corrupt" THEN [error |-> TRUE]
     ELSE [tries[first] EXCEPT !.error = \E k \in 1 .. first : tries[k].error]

\* Formats the CPU does not have are passed over.
new_inst(name, ops, cpu_type) ==
  LET valid(f) == f.name = name /\ f.available \in cpu_type
      formats  == SelectSeq(mnemonics, valid)
  IN FirstMatch([k \in DOMAIN formats |-> Tried(formats[k], ops)])

\* instruction_size() makes one mode of a value and the register that follows it.
Mode(types) ==
  CASE types = << >> -> "IMPLIED"
    [] types = << "ABS", "DUMX" >> -> "ABSX"
    [] types = << "ABS", "DUMY" >> -> "ABSY"
    [] types = << "INDIR", "DUMY" >> -> "INDY"
    [] OTHER -> types[1]
=============================================================================
