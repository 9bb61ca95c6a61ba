----------------------------- MODULE MCFrontEnd -----------------------------
(* The front end for TLC.  Three families of sources: properly nested ones,  *)
(* generated from trees, whose expansion is defined again over the trees; all *)
(* short sequences of the lines that open and close blocks; and all short    *)
(* sequences of the lines that switch between sections.                      *)
EXTENDS Placement, TLC

Num(n) == [of |-> "number", plus |-> n]
Arg(n) == [of |-> "arg", plus |-> n]
Rptn(n) == [of |-> "rptn", plus |-> n]

(***************************************************************************)
(* Trees.                                                                  *)
(***************************************************************************)
TByte(e) == [op |-> "byte", e |-> e]
TIf(e, then, else) == [op |-> "if", e |-> e, then |-> then, else |-> else]
TRept(e, body) == [op |-> "rept", e |-> e, body |-> body]
TMacro(n, body) == [op |-> "macro", n |-> n, body |-> body]
TCall(n, e) == [op |-> "call", n |-> n, e |-> e]
TInclude(f) == [op |-> "include", f |-> f]
TInline(body) == [op |-> "inline", body |-> body]
TName(op, n) == [op |-> op, n |-> n]
Word(op) == << [op |-> op] >>

RECURSIVE Flat(_)
Flat(trees) ==
  IF trees = << >> THEN << >>
  ELSE LET t == Head(trees)
       IN (CASE t.op = "if" -> << [op |-> "if", e |-> t.e] >> \o Flat(t.then)
                               \o Word("else") \o Flat(t.else) \o Word("endif")
             [] t.op = "rept" -> << [op |-> "rept", e |-> t.e] >> \o Flat(t.body) \o Word("endr")
             [] t.op = "macro" -> << [op |-> "macro", n |-> t.n] >> \o Flat(t.body) \o Word("endm")
             [] t.op = "inline" -> Word("inline") \o Flat(t.body) \o Word("einline")
             [] OTHER -> << t >>) \o Flat(Tail(trees))

(***************************************************************************)
(* What a tree stands for.  env is what is around it: the argument of the  *)
(* macro (LOST in a repetition in a repetition in a macro), the count of   *)
(* the repetition, the kind of text, the macros being expanded and the     *)
(* inline blocks.  st collects the atoms; odd is set where the source goes *)
(* over a limit, or is one of the exceptions the README names.             *)
(***************************************************************************)
LOST == [of |-> "lost", plus |-> 0]
Subst(e, env) == IF e.of = "arg" THEN [env.arg EXCEPT !.plus = @ + e.plus] ELSE e
ValueIn(e, env) ==
  LET x == Subst(e, env)
  IN IF x.of = "rptn" THEN env.rptn + x.plus ELSE IF x.of = "number" THEN x.plus ELSE -1

Put(st, atom) == [st EXCEPT !.out = Append(@, atom)]
Odd(st, isOdd) == [st EXCEPT !.odd = @ \/ isOdd]
PutLabel(st, key, n) ==
  [Odd(Put(st, Atom("label", n, st.scope)), key \in st.labels) EXCEPT !.labels = @ \cup {key}]

RECURSIVE Denote(_, _, _, _)
Denote(files, trees, env, st) ==
  IF trees = << >> THEN st
  ELSE
  LET t == Head(trees)
      v == ValueIn(t.e, env)
      ste == Odd(st, Subst(t.e, env).of = "lost")
      repeat == [env EXCEPT !.in = IF env.in = "macro" THEN "repeat in macro" ELSE "repeat",
                            !.arg = IF env.in = "macro" THEN env.arg ELSE LOST]
      times[n \in 0 .. (IF t.op = "rept" /\ v > 0 THEN v ELSE 0)] ==
        IF n = 0 THEN ste
        ELSE Denote(files, t.body, [repeat EXCEPT !.rptn = n - 1], times[n - 1])
      depth == Len(SelectSeq(env.calls, LAMBDA n : n = t.n))
      scope == Name("inline", st.inlines)
      block == Denote(files, t.body, [env EXCEPT !.inline = Append(@, scope)],
                      [st EXCEPT !.inlines = @ + 1, !.scope = scope])
      next ==
        CASE t.op = "byte"  -> Put(ste, Atom("byte", v, NoScope))
          [] t.op = "ref"   -> Put(st, Atom("byte", t.n, st.scope))
          [] t.op = "local" -> PutLabel(st, << st.scope, Name("user", t.n) >>, t.n)
          [] t.op = "label" -> [PutLabel(st, << Name("user", t.n) >>, t.n) EXCEPT
                                  !.scope = Name("user", t.n)]
          [] t.op = "if"    -> Denote(files, IF v # 0 THEN t.then ELSE t.else,
                                      [env EXCEPT !.ifs = @ + 1], Odd(ste, env.ifs + 1 >= MAXCONDLEV))
          [] t.op = "rept"  -> IF v < 0 THEN Odd(st, TRUE) ELSE times[v]
          [] t.op = "macro" -> IF env.in # "file" THEN Odd(st, TRUE)
                               ELSE [st EXCEPT !.macros = (t.n :> t.body) @@ @]
          [] t.op = "call"  -> IF t.n \notin DOMAIN st.macros \/ depth >= maxmacrecurs
                               THEN Odd(st, TRUE)
                               ELSE Denote(files, st.macros[t.n],
                                           [env EXCEPT !.arg = Subst(t.e, env), !.in = "macro",
                                                       !.calls = Append(@, t.n)], st)
          [] t.op = "include" -> IF ignore_multinc /\ t.f \in st.seen THEN st
                                 ELSE Denote(files, files[t.f],
                                             [env EXCEPT !.in = "file", !.arg = LOST],
                                             [st EXCEPT !.seen = @ \cup {t.f}])
          [] t.op = "inline" ->
               [Odd(block, \/ Len(env.inline) >= INLSTACKSIZE
                           \/ env.inline # << >> /\ st.scope # env.inline[Len(env.inline)])
                  EXCEPT !.scope = st.scope]
  IN Denote(files, Tail(trees), env, next)

Meaning(files) ==
  Denote(files, files[Main],
         [arg |-> LOST, rptn |-> -1, ifs |-> 0, in |-> "file", calls |-> << >>, inline |-> << >>],
         [out |-> << >>, macros |-> << >>, scope |-> NoScope, inlines |-> 0, seen |-> {Main},
          labels |-> {}, odd |-> FALSE])

(***************************************************************************)
(* Nested sources: a block in a block, with the expressions that matter.   *)
(***************************************************************************)
Exprs == {Num(0), Num(1), Num(2), Arg(0), Arg(-1), Rptn(0)}
Free == {Num(0), Num(1), Num(2), Rptn(0)}

Inner(k, e) ==
  CASE k = "byte"   -> << TByte(e), TByte(Rptn(4)) >>
    [] k = "if"     -> << TIf(e, << TByte(Num(1)), TByte(Rptn(0)) >>, << TByte(Num(2)) >>) >>
    [] k = "ifs"    -> << TIf(Rptn(0), << TIf(e, << TByte(Num(1)) >>, << TByte(Num(2)) >>) >>,
                              << TByte(e) >>) >>
    [] k = "rept"   -> << TRept(e, << TByte(Rptn(0)), TByte(e) >>), TByte(Rptn(0)) >>
    [] k = "repts"  -> << TRept(e, << TRept(Num(2), << TByte(Rptn(0)) >>), TByte(Rptn(7)) >>) >>
    [] k = "call"   -> << TCall("n", e), TByte(e) >>
    [] k = "inline" -> << TInline(<< TName("local", 1), TName("ref", 1) >>), TName("ref", 1) >>
    [] k = "file"   -> << TInclude("f"), TCall("n", e) >>
Inners == {"byte", "if", "ifs", "rept", "repts", "call", "inline", "file"}

Outer(k, e, body) ==
  CASE k = "macro"   -> << TMacro("m", body), TCall("m", e), TCall("m", Num(2)) >>
    [] k = "again"   -> << TMacro("m", body), TCall("m", e), TMacro("m", << TByte(Num(5)) >>),
                           TCall("m", e) >>
    [] k = "recurse" -> << TMacro("m", << TIf(Arg(0), body \o << TCall("m", Arg(-1)) >> \o body,
                                              << >>) >>), TCall("m", e) >>
    [] k = "rept"    -> << TRept(Num(2), body) >>
    [] k = "mrept"   -> << TMacro("m", << TRept(Arg(0), body), TByte(Arg(0)) >>), TCall("m", e) >>
    [] k = "reptm"   -> << TMacro("m", body), TRept(Num(2), << TCall("m", e), TByte(Rptn(0)) >>) >>
    [] k = "if"      -> << TIf(e, body, << TIf(Num(1), body, body) >>), TByte(Num(9)) >>
    [] k = "inline"  -> << TName("label", 3), TInline(<< TName("local", 1) >> \o body
                              \o << TName("ref", 1) >>), TName("local", 1) >>
    [] k = "files"   -> << TInclude("f"), TMacro("m", body \o << TInclude("f") >>), TCall("m", e) >>
Outers == {"macro", "again", "recurse", "rept", "mrept", "reptm", "if", "inline", "files"}

FileF == << TByte(Rptn(8)), TMacro("n", << TByte(Arg(3)), TByte(Rptn(0)) >>) >>
Tree(c) ==
  [f \in {Main, "f"} |->
     IF f = "f" THEN FileF
     ELSE << TMacro("n", << TByte(Arg(1)), TRept(Num(2), << TByte(Arg(0)) >>) >>) >>
          \o Outer(c.outer, c.e, Inner(c.inner, c.e2))]

NestedCases == [family : {"nested"}, outer : Outers, inner : Inners, e : Free, e2 : Exprs]
Nested(c) == [f \in {Main, "f"} |-> Flat(Tree(c)[f])]

(***************************************************************************)
(* Sequences of lines.                                                     *)
(***************************************************************************)
Block(op) ==
  CASE op = "byte"  -> [op |-> op, e |-> Rptn(0)]
    [] op = "no"    -> [op |-> "if", e |-> Num(0)]
    [] op = "yes"   -> [op |-> "if", e |-> Num(1)]
    [] op = "rept"  -> [op |-> op, e |-> Num(2)]
    [] op = "macro" -> [op |-> op, n |-> "m"]
    [] op = "call"  -> [op |-> op, n |-> "m", e |-> Num(1)]
    [] OTHER        -> [op |-> op]
BlockOps == {"byte", "no", "yes", "else", "endif", "rept", "endr", "macro", "endm", "call", "end"}

BlockCases == [family : {"blocks"}, ops : [1 .. 4 -> BlockOps]]
Blocks(c) == [f \in {Main} |-> [k \in 1 .. 4 |-> Block(c.ops[k])]]

Directive(op, k) ==
  CASE op = "byte" -> [op |-> op, e |-> Num(k)]
    [] op = "label" -> [op |-> op, n |-> k]
    [] op \in {"use", "use2"} -> [op |-> "call", n |-> IF op = "use" THEN 99 ELSE 98, e |-> Num(k)]
    [] op \in {"org4", "org9"} -> [op |-> "org", n |-> IF op = "org4" THEN 4 ELSE 9]
    [] op = "rorg" -> [op |-> op, n |-> 20]
    [] op \in {"section", "struct"} -> [op |-> op, n |-> 99]
    [] op = "struct2" -> [op |-> "struct", n |-> 98]
    [] OTHER -> [op |-> op]
SectionOps == {"byte", "org4", "org9", "rorg", "rend", "section", "dsect", "dend",
               "struct", "struct2", "endstruct", "use"}
SectionCases == [family : {"sections"}, ops : [1 .. 4 -> SectionOps]]
SectionLines(c) ==
  [k \in 1 .. 6 |-> Directive(IF k = 5 THEN "byte" ELSE IF k = 6 THEN "label" ELSE c.ops[k], k)]

Sources ==
  [c \in NestedCases \cup BlockCases \cup SectionCases |->
     CASE c.family = "nested" -> Nested(c)
       [] c.family = "blocks" -> Blocks(c)
       [] c.family = "sections" -> [f \in {Main} |-> SectionLines(c)]]

(* A source of properly nested blocks assembles without an error to what its *)
(* blocks stand for: every macro expanded with its argument and its latest  *)
(* definition, every repetition repeated with its count, every condition    *)
(* obeyed, local labels kept in their blocks.                                *)
ExpandsAsWritten ==
  outcome # "running" /\ prog.family = "nested" =>
    LET meaning == Meaning(Tree(prog))
    IN meaning.odd \/ (outcome = "done" /\ ~errors
                         /\ (IF sects = << >> THEN << >> ELSE sects[1].atoms) = meaning.out)
=============================================================================
