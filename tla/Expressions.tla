---------------------------- MODULE Expressions ----------------------------
(***************************************************************************)
(* Expressions of the assembler (expr.c), with the low and high byte       *)
(* operators that the 6502 adds (cpus/6502/cpu.c): how the text becomes a  *)
(* tree, what the tree is worth at an address, whether that is a constant, *)
(* and the symbol a relocation has to name when it is not.                 *)
(*                                                                         *)
(* A text is a sequence of tokens: numbers, symbols, and single characters *)
(* of operators.  Numbers are small: taddr does not overflow.              *)
(***************************************************************************)
EXTENDS Integers, Sequences, Bitwise

CONSTANTS
  Symbols,   \* Symbols[s] is [of |-> "label", sec, pc, zp], [of |-> "import", zp]
             \* or [of |-> "equate", e], an EXPRESSION defined after its use
  Sections   \* Sections[n] is [absolute, unallocated, near, org]

Char(c) == [c |-> c, n |-> 0, s |-> ""]
Blank == Char(" ")

NUM(n) == [type |-> "NUM", n |-> n]
SYM(s) == [type |-> "SYM", s |-> s]
Node(type, l, r) == [type |-> type, left |-> l, right |-> r]
Unary(type, l) == [type |-> type, left |-> l]
CurPc == "*"    \* the symbol of curpc_expr()

\* taddr is signed: C divides towards zero.
Quotient(a, b) == IF (a < 0) = (b < 0) THEN a \div b ELSE -((-a) \div b)
\* BOOLEAN(), of the old style syntax
Bool(b) == IF b THEN -1 ELSE 0

\* Two's complement, with more bits than any operand.
WIDE == 2^24
Signed(n) == IF n >= WIDE \div 2 THEN n - WIDE ELSE n
Bits(n) == n % WIDE

\* Other counts are undefined in C, or shift everything out.
ShiftCounts == 0 .. 12

BinaryOps ==
  [ADD |-> "arith", SUB |-> "arith", MUL |-> "arith", DIV |-> "arith", MOD |-> "arith",
   BAND |-> "bits", BOR |-> "bits", XOR |-> "bits", LSH |-> "bits", RSH |-> "bits",
   LT |-> "compare", GT |-> "compare", LEQ |-> "compare", GEQ |-> "compare",
   EQ |-> "compare", NEQ |-> "compare", LAND |-> "logic", LOR |-> "logic"]

\* The value of an operator; division by zero is 0, with an error.
Binary(type, a, b) ==
  CASE type = "ADD" -> a + b
    [] type = "SUB" -> a - b
    [] type = "MUL" -> a * b
    [] type = "DIV" -> IF b = 0 THEN 0 ELSE IF b < 0 THEN Quotient(-a, -b) ELSE Quotient(a, b)
    [] type = "MOD" -> IF b = 0 THEN 0
                       ELSE a - b * (IF b < 0 THEN Quotient(-a, -b) ELSE Quotient(a, b))
    [] type = "BAND" -> Signed(Bits(a) & Bits(b))
    [] type = "BOR"  -> Signed(Bits(a) | Bits(b))
    [] type = "XOR"  -> Signed(Bits(a) ^^ Bits(b))
    [] type = "LSH"  -> IF b \in ShiftCounts THEN a * 2^b ELSE 0
    [] type = "RSH"  -> IF b \in ShiftCounts THEN a \div 2^b ELSE 0
    [] type = "LT"  -> Bool(a < b)  [] type = "GT"  -> Bool(a > b)
    [] type = "LEQ" -> Bool(a <= b) [] type = "GEQ" -> Bool(a >= b)
    [] type = "EQ"  -> Bool(a = b)  [] type = "NEQ" -> Bool(a # b)
    [] type = "LAND" -> Bool(a # 0 /\ b # 0)
    [] type = "LOR"  -> Bool(a # 0 \/ b # 0)

\* LOBYTE and HIBYTE, of cpu.c, apply to constants only: of other values the
\* linker selects the byte.
UnaryValue(type, a, cnst) ==
  CASE type = "NEG" -> -a
    [] type = "CPL" -> -a - 1
    [] type = "NOT" -> IF a = 0 THEN 1 ELSE 0
    [] type = "LOBYTE" -> IF cnst THEN a % 256 ELSE a
    [] type = "HIBYTE" -> IF cnst THEN (a \div 256) % 256 ELSE a

(***************************************************************************)
(* Parsing.  Ten levels of binary operators, the lowest first, each a loop *)
(* that looks at one or two characters.                                    *)
(***************************************************************************)
RECURSIVE Skip(_)
Skip(s) == IF s # << >> /\ s[1] = Blank THEN Skip(Tail(s)) ELSE s
At(s, k) == IF k <= Len(s) THEN s[k].c ELSE "end"
From(s, k) == SubSeq(s, k, Len(s))

NoOp == [type |-> "none", rest |-> << >>, eq |-> FALSE]
\* Mutant: the blanks after the operator are left.
OpKeepsBlanks(type, s, len, eq) == [type |-> type, rest |-> From(s, len + 1), eq |-> eq]
Op(type, s, len, eq) == [type |-> type, rest |-> Skip(From(s, len + 1)), eq |-> eq]

\* relational_expr() keeps the = of an earlier operator in m2.
Relational(s, eq) ==
  LET a == At(s, 1)
      b == At(s, 2)
      e == eq \/ b = "="
      len == IF b = "=" THEN 2 ELSE 1
  IN IF a = "<" /\ b \notin {">", "<"} THEN Op(IF e THEN "LEQ" ELSE "LT", s, len, e)
     ELSE IF a = ">" /\ b # ">" THEN Op(IF e THEN "GEQ" ELSE "GT", s, len, e)
     ELSE NoOp

\* The operator of a level at the start of s.  multiplicative_expr() skips blanks
\* behind the first / only.
Operator(level, s, eq) ==
  LET a == At(s, 1)
      b == At(s, 2)
      one(type) == Op(type, s, 1, FALSE)
      two(type) == Op(type, s, 2, FALSE)
  IN CASE level = 1 /\ a = "|" /\ b = "|" -> two("LOR")
       [] level = 2 /\ a = "&" /\ b = "&" -> two("LAND")
       [] level = 3 /\ a = "=" -> IF b = "=" THEN two("EQ") ELSE one("EQ")
       [] level = 3 /\ << a, b >> \in {<< "!", "=" >>, << "<", ">" >>} -> two("NEQ")
       [] level = 4 -> Relational(s, eq)
       [] level = 5 /\ a = "+" /\ b # "+" -> one("ADD")
       [] level = 5 /\ a = "-" /\ b # "-" -> one("SUB")
       [] level = 6 /\ a = "*" -> one("MUL")
       [] level = 6 /\ a = "%" -> one("MOD")
       [] level = 6 /\ a = "/" -> LET t == Skip(Tail(s))
                                  IN IF At(t, 1) = "/" THEN [type |-> "MOD", rest |-> Tail(t), eq |-> FALSE]
                                     ELSE one("DIV")
       [] level = 7 /\ \/ a = "|" /\ b # "|"
                       \/ a = "!" /\ b # "=" -> one("BOR")
       [] level = 8 /\ a \in {"^", "~"} -> one("XOR")
       [] level = 9 /\ a = "&" /\ b # "&" -> one("BAND")
       [] level = 10 /\ a \in {"<", ">"} /\ b = a -> two(IF a = "<" THEN "LSH" ELSE "RSH")
       [] OTHER -> NoOp

UnaryOp(c) ==
  CASE c = "-" -> "NEG" [] c = "!" -> "NOT" [] c = "~" -> "CPL"
    [] c = "<" -> "LOBYTE" [] c = ">" -> "HIBYTE" [] OTHER -> "none"

Result(tree, rest, ok) == [tree |-> tree, rest |-> Skip(rest), ok |-> ok]

RECURSIVE parse(_, _), Loop(_, _, _)

\* primary_expr(); what is no operand counts as -1, with an error.  A parenthesis
\* that is not closed is only warned about.
primary_expr(s) ==
  CASE At(s, 1) = "(" ->
         LET inner == parse(1, Skip(Tail(s)))
             closed == At(inner.rest, 1) = ")"
         IN Result(inner.tree, IF closed THEN Tail(inner.rest) ELSE inner.rest, inner.ok)
    [] At(s, 1) = "num" -> Result(NUM(s[1].n), Tail(s), TRUE)
    [] At(s, 1) = "sym" -> Result(SYM(s[1].s), Tail(s), TRUE)
    [] OTHER -> Result(NUM(-1), s, FALSE)

unary_expr(s) ==
  LET type == UnaryOp(At(s, 1))
      operand == primary_expr(Skip(Tail(s)))
  IN IF At(s, 1) = "+" THEN operand
     ELSE IF type = "none" THEN primary_expr(s)
     ELSE [operand EXCEPT !.tree = Unary(type, operand.tree)]

\* Operators of one level, from left to right.
Loop(level, left, eq) ==
  LET op == Operator(level, left.rest, eq)
      right == parse(level + 1, op.rest)
  IN IF op.type = "none" THEN left
     ELSE Loop(level, Result(Node(op.type, left.tree, right.tree), right.rest, left.ok /\ right.ok),
               op.eq)

parse(level, s) == IF level > 10 THEN unary_expr(s) ELSE Loop(level, parse(level + 1, s), FALSE)

expression(s) == parse(1, s)

(***************************************************************************)
(* simplify_expr(): constants are folded, and const - symbol - symbol      *)
(* becomes const - (symbol - symbol), which is not the same.               *)
(***************************************************************************)
Rearranged(t) ==
  IF /\ t.type = "SUB" /\ t.right.type = "SYM" /\ t.left.type = "SUB"
     /\ t.left.left.type # "SYM" /\ t.left.right.type = "SYM"
  THEN Node("SUB", t.left.left, Node("SUB", t.left.right, t.right))
  ELSE t

RECURSIVE simplify_expr(_)
simplify_expr(tree) ==
  IF tree.type \in {"NUM", "SYM"} THEN tree
  ELSE IF "right" \notin DOMAIN tree
  THEN LET l == simplify_expr(tree.left)
       IN IF l.type = "NUM" THEN NUM(UnaryValue(tree.type, l.n, TRUE)) ELSE Unary(tree.type, l)
  ELSE LET t == Rearranged(Node(tree.type, simplify_expr(tree.left), simplify_expr(tree.right)))
       IN IF t.left.type = "NUM" /\ t.right.type = "NUM"
          THEN NUM(Binary(t.type, t.left.n, t.right.n)) ELSE t

(***************************************************************************)
(* Evaluation for address at.pc of section at.sec; at.final when the         *)
(* addresses are final.                                                    *)
(***************************************************************************)
\* update_curpc(): the current address is a label.  convert_offset_labels(): the
\* labels of unallocated sections are numbers in the end, but not before.
Symbol(s, at) ==
  IF s = CurPc THEN [of |-> "label", sec |-> at.sec, pc |-> at.pc, zp |-> FALSE]
  ELSE IF at.final /\ Symbols[s].of = "label" /\ Sections[Symbols[s].sec].unallocated
  THEN [of |-> "equate", e |-> NUM(Symbols[s].pc)]
  ELSE Symbols[s]

LOCREF(s, at) == s # "" /\ Symbol(s, at).of = "label"
EXTREF(s, at) == s # "" /\ Symbol(s, at).of = "import"
ABSLABEL(s, at) == LOCREF(s, at) /\ Sections[Symbol(s, at).sec].absolute
SecOf(s, at) == Symbol(s, at).sec

BASE_ILLEGAL == "illegal"
BASE_OK == "ok"
BASE_PCREL == "pcrel"
Base(of, sym, mod) == [of |-> of, sym |-> sym, mod |-> mod]
NoBase(sym) == Base(BASE_ILLEGAL, sym, "")

\* ext_find_base(): dividing by 256 selects a byte, too.  It changes the tree.
\* A byte operator "has to be the first character before an expression" (doc):
\* below, it stands at the root of the tree.
ByteOf(t) ==
  IF t.type \in {"LOBYTE", "HIBYTE"} THEN t.type
  ELSE IF t.type \in {"DIV", "MOD", "BAND"} /\ t.right.type = "NUM"
  THEN CASE t.type = "DIV" /\ t.right.n = 256 -> "HIBYTE"
         [] t.type = "MOD" /\ t.right.n = 256 -> "LOBYTE"
         [] t.type = "BAND" /\ t.right.n = 255 -> "LOBYTE"
         [] OTHER -> ""
  ELSE ""
Marked(t) == IF ByteOf(t) = "" THEN t ELSE Unary(ByteOf(t), t.left)

RECURSIVE eval_expr(_, _), find_base(_, _)

\* The value of a difference: [val, cnst]; l and r are its evaluated sides.
Difference(t, l, r, at) ==
  LET a == find_base(t.left, at).sym
      b == find_base(t.right, at).sym
      cnst == l.cnst /\ r.cnst
      plain(c) == [val |-> l.val - r.val, cnst |-> c]
  IN IF cnst \/ ~LOCREF(b, at) THEN plain(cnst)
     ELSE IF LOCREF(a, at) /\ SecOf(a, at) = SecOf(b, at) THEN plain(TRUE)
     ELSE IF SecOf(b, at) = at.sec /\ (EXTREF(a, at) \/ LOCREF(a, at))
     THEN IF ABSLABEL(b, at) /\ ABSLABEL(a, at) THEN plain(TRUE)
          ELSE [val |-> at.pc - r.val + l.val
                          - (IF LOCREF(a, at) THEN Sections[SecOf(a, at)].org ELSE 0),
                cnst |-> FALSE]
     \* Only the first statement belongs to the else: any other difference is a constant.
     ELSE plain(TRUE)

eval_expr(t, at) ==
  CASE t.type = "NUM" -> [val |-> t.n, cnst |-> TRUE]
    [] t.type = "SYM" ->
         LET s == Symbol(t.s, at)
         IN IF s.of = "equate" THEN eval_expr(s.e, at)
            ELSE IF s.of = "import" THEN [val |-> 0, cnst |-> FALSE]
            ELSE [val |-> s.pc, cnst |-> Sections[s.sec].unallocated \/ Sections[s.sec].absolute]
    [] t.type \notin {"NUM", "SYM"} /\ "right" \notin DOMAIN t ->
         LET l == eval_expr(t.left, at)
         IN [val |-> UnaryValue(t.type, l.val, l.cnst), cnst |-> l.cnst]
    [] OTHER ->
         LET l == eval_expr(t.left, at)
             r == eval_expr(t.right, at)
         IN IF t.type = "SUB" THEN Difference(t, l, r, at)
            ELSE [val |-> Binary(t.type, l.val, r.val), cnst |-> l.cnst /\ r.cnst]

\* _find_base(): the symbol stays set when the search goes on and fails.
find_base(t, at) ==
  IF ByteOf(t) # "" THEN
    LET b == find_base(t.left, at)
    IN [b EXCEPT !.mod = IF b.mod = "" THEN ByteOf(t) ELSE b.mod]
  ELSE CASE t.type = "SYM" ->
              IF Symbol(t.s, at).of = "equate" THEN find_base(Symbol(t.s, at).e, at)
              ELSE Base(BASE_OK, t.s, "")
         [] t.type = "ADD" ->
              LET l == find_base(t.left, at)
                  r == find_base(t.right, at)
                  inR == eval_expr(t.left, at).cnst
                  inL == eval_expr(t.right, at).cnst
              IN IF inR /\ r.of = BASE_OK THEN r
                 ELSE IF inL /\ l.of = BASE_OK THEN l
                 ELSE NoBase(IF inL /\ l.sym # "" THEN l.sym ELSE IF inR THEN r.sym ELSE "")
         [] t.type = "SUB" ->
              LET l == find_base(t.left, at)
                  r == find_base(t.right, at)
              IN IF eval_expr(t.right, at).cnst /\ l.of = BASE_OK THEN l
                 ELSE IF /\ l.of = BASE_OK /\ r.of = BASE_OK
                         /\ LOCREF(r.sym, at) /\ SecOf(r.sym, at) = at.sec
                         /\ LOCREF(l.sym, at) \/ EXTREF(l.sym, at)
                 THEN Base(BASE_PCREL, l.sym, "")
                 ELSE NoBase(l.sym)
         [] OTHER -> NoBase("")
=============================================================================
