------------------------------ MODULE FrontEnd ------------------------------
(***************************************************************************)
(* How the assembler reads its source: the stack of source texts with      *)
(* include files, macros and repetitions (source.c, parse.c), conditional  *)
(* assembly (cond.c), the loop over the lines and the directives of the    *)
(* oldstyle syntax (syntax.c), and the names of labels (symbol.c).         *)
(*                                                                         *)
(* A text is a slice of the lines of a file.  An expression is a number,   *)
(* the repetition symbol or the macro argument \1, plus a constant.        *)
(***************************************************************************)
EXTENDS Sections, FiniteSets

CONSTANTS
  Programs,       \* Programs[k] is a source: a function from file names to lines
  ignore_multinc, \* -ignore-mult-inc
  maxmacrecurs, MAXCONDLEV, INLSTACKSIZE

ASSUME LimitsAssumption ==
  /\ maxmacrecurs \in Nat /\ MAXCONDLEV \in Nat /\ INLSTACKSIZE \in Nat
  /\ ignore_multinc \in BOOLEAN

Operands == [of : {"number", "rptn", "arg"}, plus : Int]
Main == "main"

LineOK(files, line) ==
  /\ line.op \in {"if", "rept", "byte", "call"} => line.e \in Operands
  /\ line.op = "include" => line.f \in DOMAIN files

ASSUME ProgramsAssumption ==
  \A k \in DOMAIN Programs :
    /\ Main \in DOMAIN Programs[k]
    /\ \A f \in DOMAIN Programs[k] :
         /\ Len(Programs[k][f]) \in Nat
         /\ \A j \in 1 .. Len(Programs[k][f]) : LineOK(Programs[k], Programs[k][f][j])

VARIABLES
  prog,
  src,          \* cur_src and its parents: a stack, cur_src last
  loaded,       \* first_source: the files read so far
  macros,       \* the macros with a text, the latest definition last
  reading,      \* enddir_list, cur_macro, rept_start, rept_cnt: the definition being read
  cond,         \* cond[1 .. clev]
  ifnesting,
  parse_end,    \* an end directive was seen
  rptn,         \* value of the symbol __RPTCNT
  inline_stack, inline_id, saved_last_global_label,
  last_global_label,
  labels        \* names of the labels defined so far

sourceVars == << src, loaded, macros, reading, rptn >>
condVars == << cond, ifnesting >>
inlineVars == << inline_stack, inline_id, saved_last_global_label >>
labelVars == << last_global_label, labels >>
vars == << prog, sourceVars, condVars, parse_end, inlineVars, labelVars,
           sectionVars, errors, outcome >>

NoDef == [of |-> "none"]
NOMACRO == 0

Lines(f) == Programs[prog][f]

\* new_source(); the caller's __RPTCNT goes on in the new text.
new_source(f, from, to) ==
  [file |-> f, from |-> from, to |-> to, ptr |-> from, repeat |-> 1, reptn |-> rptn,
   num_params |-> -1, param |-> << >>, macro |-> NOMACRO, defsrc |-> FALSE]

FileSource(f) == new_source(f, 1, Len(Lines(f)))

Depth == Len(src)
cur_src == src[Depth]
AtEnd == cur_src.ptr > cur_src.to
Line == Lines(cur_src.file)[cur_src.ptr]

Advanced == [src EXCEPT ![Depth].ptr = @ + 1]
Pushed(s) == Append(Advanced, s)

clev == Len(cond)
cond_state == IF clev = 0 THEN TRUE ELSE cond[clev]

(***************************************************************************)
(* Expressions.  expand_macro() replaces \1, in a macro, by the text of    *)
(* the argument; elsewhere it stays and is no expression.                  *)
(***************************************************************************)
Expand(e) ==
  IF cur_src.num_params >= 1 /\ e.of = "arg"
  THEN [cur_src.param[1] EXCEPT !.plus = @ + e.plus] ELSE e

Valid(e) == Expand(e).of # "arg"

\* The dummy of primary_expr() is -1.
Value(e) ==
  LET x == Expand(e)
  IN CASE x.of = "number" -> x.plus
       [] x.of = "rptn"   -> rptn + x.plus
       [] OTHER           -> -1

(***************************************************************************)
(* read_next_line()                                                        *)
(***************************************************************************)
\* cond_check(), and the test for an open dsect at the end of parse().
AtEndOfSource ==
  /\ outcome' = "done"
  /\ errors' = (errors \/ clev > 0 \/ dsect_active)

\* Mutant: the symbol keeps the count of the repetition that has ended.
PopKeepsCount ==
  /\ src' = SubSeq(src, 1, Depth - 1)
  /\ rptn' = rptn
  /\ macros' = IF cur_src.macro = NOMACRO THEN macros
               ELSE [macros EXCEPT ![cur_src.macro].recursions = @ - 1]

\* Mutant: leaving a macro is not counted.
PopUncounted ==
  /\ src' = SubSeq(src, 1, Depth - 1)
  /\ rptn' = src[Depth - 1].reptn
  /\ macros' = macros

\* The text has been read for the last time: back to its parent.
Pop ==
  /\ src' = SubSeq(src, 1, Depth - 1)
  /\ rptn' = src[Depth - 1].reptn
  /\ macros' = IF cur_src.macro = NOMACRO THEN macros
               ELSE [macros EXCEPT ![cur_src.macro].recursions = @ - 1]

\* Mutant: the repetitions are not counted down.
AgainForEver ==
  /\ src' = [src EXCEPT ![Depth].ptr = cur_src.from, ![Depth].reptn = 1]
  /\ rptn' = 1

Again ==
  /\ src' = [src EXCEPT ![Depth].repeat = @ - 1, ![Depth].ptr = cur_src.from,
                        ![Depth].reptn = @ + 1]
  /\ rptn' = cur_src.reptn + 1

EndOfText ==
  /\ outcome = "running" /\ AtEnd
  /\ \/ cur_src.repeat > 1 /\ Again /\ UNCHANGED << macros, errors, outcome >>
     \/ cur_src.repeat = 1 /\ Depth > 1 /\ Pop /\ UNCHANGED << errors, outcome >>
     \/ cur_src.repeat = 1 /\ Depth = 1 /\ AtEndOfSource /\ UNCHANGED << src, rptn, macros >>
  /\ UNCHANGED << prog, loaded, reading, condVars, parse_end, inlineVars, labelVars,
                  sectionVars >>

\* How many repetitions lines ptr .. j leave open.
Nest(j) ==
  LET count(op) == Cardinality({ k \in cur_src.ptr .. j : Lines(cur_src.file)[k].op = op })
  IN count("rept") - count("endr")

\* An endm ends a macro, the endr that matches a repetition.
EndDirective(j) ==
  LET op == Lines(cur_src.file)[j].op
  IN IF reading.of = "macro" THEN op = "endm" ELSE op = "endr" /\ Nest(j) < 0

EndLine == { j \in cur_src.ptr .. cur_src.to :
               EndDirective(j) /\ \A k \in cur_src.ptr .. (j - 1) : ~EndDirective(k) }

\* The text from the start of the definition to its end directive; they must be
\* in the same file for their distance to mean anything.
Defined(j) == reading.file = cur_src.file /\ reading.from <= j

\* start_repeat(): the parameters are those of the macro this is in.
start_repeat(j) ==
  [new_source(cur_src.file, reading.from, j - 1) EXCEPT
     !.repeat = reading.cnt, !.reptn = 0, !.defsrc = TRUE,
     !.num_params = IF cur_src.macro = NOMACRO THEN -1 ELSE cur_src.num_params,
     !.param = IF cur_src.macro = NOMACRO THEN << >> ELSE cur_src.param]

add_macro(j) ==
  Append(macros, [name |-> reading.name, file |-> reading.file, from |-> reading.from,
                  to |-> j - 1, recursions |-> 0])

\* A definition is read in one go, up to its end directive.
ReadDefinition ==
  /\ outcome = "running" /\ ~AtEnd /\ reading # NoDef
  /\ \/ /\ \/ EndLine = {}
           \/ reading.of = "macro" /\ cur_src.num_params >= 0
        /\ outcome' = "fatal" /\ errors' = TRUE
        /\ UNCHANGED << src, macros, reading, rptn >>
     \/ \E j \in EndLine :
          /\ reading.of = "macro" => cur_src.num_params < 0
          /\ ~Defined(j)
          /\ outcome' = "undefined"
          /\ UNCHANGED << src, macros, reading, rptn, errors >>
     \/ \E j \in EndLine :
          /\ reading.of = "macro" /\ cur_src.num_params < 0 /\ Defined(j)
          /\ macros' = add_macro(j)
          /\ src' = [src EXCEPT ![Depth].ptr = j + 1]
          /\ reading' = NoDef
          /\ UNCHANGED << rptn, errors, outcome >>
     \/ \E j \in EndLine :
          /\ reading.of = "rept" /\ Defined(j)
          /\ reading' = NoDef /\ UNCHANGED macros
          /\ IF reading.cnt < 0
             THEN outcome' = "fatal" /\ errors' = TRUE /\ UNCHANGED << src, rptn >>
             ELSE /\ LET past == [src EXCEPT ![Depth].ptr = j + 1]
                     IN IF reading.cnt = 0 THEN src' = past /\ rptn' = rptn
                        ELSE src' = Append(past, start_repeat(j)) /\ rptn' = 0
                  /\ UNCHANGED << errors, outcome >>
  /\ UNCHANGED << prog, loaded, condVars, parse_end, inlineVars, labelVars, sectionVars >>

(***************************************************************************)
(* parse(): one line.                                                      *)
(***************************************************************************)
HasLine == outcome = "running" /\ reading = NoDef /\ ~AtEnd
Parsed(op) == HasLine /\ ~parse_end /\ cond_state /\ Line.op = op

\* After the end directive nothing counts.
IgnoreLine ==
  /\ HasLine /\ parse_end
  /\ src' = Advanced
  /\ UNCHANGED << prog, loaded, macros, reading, rptn, condVars, parse_end, inlineVars,
                  labelVars, sectionVars, errors, outcome >>

\* Mutant: the else of a nested block counts.
cond_else_nested == [cond EXCEPT ![clev] = TRUE]

cond_else == IF ifnesting = 0 THEN [cond EXCEPT ![clev] = TRUE] ELSE cond

\* Under a false condition only the directives of conditional assembly count:
\* cond_skipif(), cond_else(), cond_endif().
SkipLine ==
  /\ HasLine /\ ~parse_end /\ ~cond_state
  /\ src' = Advanced
  /\ cond' = CASE Line.op = "else" -> cond_else
               [] Line.op = "endif" /\ ifnesting = 0 -> SubSeq(cond, 1, clev - 1)
               [] OTHER -> cond
  /\ ifnesting' = CASE Line.op = "if" -> ifnesting + 1
                    [] Line.op = "endif" /\ ifnesting > 0 -> ifnesting - 1
                    [] OTHER -> ifnesting
  /\ UNCHANGED << prog, loaded, macros, reading, rptn, parse_end, inlineVars, labelVars,
                  sectionVars, errors, outcome >>

\* ifexp() and cond_if()
If ==
  /\ Parsed("if")
  /\ IF clev + 1 >= MAXCONDLEV
     THEN outcome' = "fatal" /\ errors' = TRUE /\ UNCHANGED << src, cond >>
     ELSE /\ cond' = Append(cond, Value(Line.e) # 0)
          /\ errors' = (errors \/ ~Valid(Line.e))
          /\ src' = Advanced /\ UNCHANGED outcome
  /\ UNCHANGED << prog, loaded, macros, reading, rptn, ifnesting, parse_end, inlineVars,
                  labelVars, sectionVars >>

\* cond_skipelse()
Else ==
  /\ Parsed("else")
  /\ src' = Advanced
  /\ cond' = IF clev = 0 THEN cond ELSE [cond EXCEPT ![clev] = FALSE]
  /\ errors' = (errors \/ clev = 0)
  /\ UNCHANGED << prog, loaded, macros, reading, rptn, ifnesting, parse_end, inlineVars,
                  labelVars, sectionVars, outcome >>

\* cond_endif(); here ifnesting is 0.
EndIf ==
  /\ Parsed("endif")
  /\ src' = Advanced
  /\ cond' = IF clev = 0 THEN cond ELSE SubSeq(cond, 1, clev - 1)
  /\ errors' = (errors \/ clev = 0)
  /\ UNCHANGED << prog, loaded, macros, reading, rptn, ifnesting, parse_end, inlineVars,
                  labelVars, sectionVars, outcome >>

\* The count is a constant now, whatever \1 or __RPTCNT are later.
Rept ==
  /\ Parsed("rept")
  /\ src' = Advanced
  /\ reading' = [of |-> "rept", file |-> cur_src.file, from |-> cur_src.ptr + 1,
                 cnt |-> Value(Line.e)]
  /\ errors' = (errors \/ ~Valid(Line.e))
  /\ UNCHANGED << prog, loaded, macros, rptn, condVars, parse_end, inlineVars, labelVars,
                  sectionVars, outcome >>

\* new_macro(); not in a macro or a repetition.
Macro ==
  /\ Parsed("macro")
  /\ IF cur_src.defsrc
     THEN outcome' = "fatal" /\ errors' = TRUE /\ UNCHANGED << src, reading >>
     ELSE /\ src' = Advanced
          /\ reading' = [of |-> "macro", file |-> cur_src.file, from |-> cur_src.ptr + 1,
                         name |-> Line.n]
          /\ UNCHANGED << errors, outcome >>
  /\ UNCHANGED << prog, loaded, macros, rptn, condVars, parse_end, inlineVars, labelVars,
                  sectionVars >>

\* endr, endm: an end directive outside of a definition.
StrayEnd ==
  /\ Parsed("endr") \/ Parsed("endm")
  /\ src' = Advanced
  /\ errors' = TRUE
  /\ UNCHANGED << prog, loaded, macros, reading, rptn, condVars, parse_end, inlineVars,
                  labelVars, sectionVars, outcome >>

\* Mutant: the first definition stays.
find_macro_first(n) ==
  { k \in DOMAIN macros : macros[k].name = n /\ \A j \in 1 .. (k - 1) : macros[j].name # n }

\* find_macro(): the latest definition, which add_hashentry() has put first, if any.
find_macro(n) ==
  { k \in DOMAIN macros :
      macros[k].name = n /\ \A j \in (k + 1) .. Len(macros) : macros[j].name # n }

\* Mutant: entering a macro is not counted.
ExecuteMacroUncounted(m) ==
  /\ src' = Pushed([new_source(macros[m].file, macros[m].from, macros[m].to) EXCEPT
                       !.num_params = 1, !.param = << Expand(Line.e) >>,
                       !.macro = m, !.defsrc = TRUE])
  /\ UNCHANGED << macros, errors, outcome >>

ExecuteMacro(m) ==
  IF macros[m].recursions >= maxmacrecurs
  THEN /\ outcome' = "fatal" /\ errors' = TRUE
       /\ UNCHANGED << src, macros >>
  ELSE /\ macros' = [macros EXCEPT ![m].recursions = @ + 1]
       /\ src' = Pushed([new_source(macros[m].file, macros[m].from, macros[m].to) EXCEPT
                           !.num_params = 1, !.param = << Expand(Line.e) >>,
                           !.macro = m, !.defsrc = TRUE])
       /\ UNCHANGED << errors, outcome >>

\* A line that starts with a name: execute_macro(), or else a structure or an
\* instruction.
CallMacro ==
  /\ Parsed("call")
  /\ \E m \in find_macro(Line.n) : ExecuteMacro(m)
  /\ UNCHANGED << prog, loaded, reading, rptn, condVars, parse_end, inlineVars, labelVars,
                  sectionVars >>

\* handle_include() and include_source(); each file is read from the disk once.
Include ==
  /\ Parsed("include")
  /\ IF Line.f \in loaded /\ ignore_multinc THEN src' = Advanced
     ELSE src' = Pushed(FileSource(Line.f))
  /\ loaded' = loaded \cup {Line.f}
  /\ UNCHANGED << prog, macros, reading, rptn, condVars, parse_end, inlineVars, labelVars,
                  sectionVars, errors, outcome >>

End ==
  /\ Parsed("end")
  /\ src' = Advanced /\ parse_end' = TRUE
  /\ UNCHANGED << prog, loaded, macros, reading, rptn, condVars, inlineVars, labelVars,
                  sectionVars, errors, outcome >>

(***************************************************************************)
(* Lines that make code: bytes, labels, structures.                        *)
(***************************************************************************)
readVars == << prog, loaded, macros, reading, rptn, condVars, parse_end >>

\* A data directive with one operand, at once evaluated.
Byte ==
  /\ Parsed("byte")
  /\ src' = Advanced
  /\ add_atom(Atom("byte", Value(Line.e), NoScope))
  /\ errors' = (errors \/ ~Valid(Line.e))
  /\ UNCHANGED << readVars, inlineVars, labelVars, outcome >>

\* The address of a local label: get_local_label().
Reference ==
  /\ Parsed("ref")
  /\ src' = Advanced
  /\ add_atom(Atom("byte", Line.n, last_global_label))
  /\ UNCHANGED << readVars, inlineVars, labelVars, errors, outcome >>

\* make_local_label(): the name of a local label starts with the name of the last
\* global one, or of the structure.
Member(k) == IF default_section[k].labels_are_local
             THEN << default_section[k].name >> ELSE << >>
LabelName == Member(Default) \o (IF Line.op = "local" THEN << last_global_label >> ELSE << >>)
                             \o << Name("user", Line.n) >>

\* new_labsym() and its atom.  A label that is not local opens a new scope.
Label ==
  /\ Parsed("label") \/ Parsed("local")
  /\ src' = Advanced
  /\ errors' = (errors \/ LabelName \in labels)
  /\ labels' = labels \cup {LabelName}
  /\ last_global_label' = IF Len(LabelName) = 1 THEN Name("user", Line.n)
                          ELSE last_global_label
  /\ add_atom(Atom("label", Line.n, last_global_label))
  /\ UNCHANGED << readVars, inlineVars, outcome >>

\* execute_struct(): a structure's bytes, the first one with a new value; find_structure()
\* stops at a structure in itself.  Added to its own section they never end.
Bytes(atoms) ==
  LET bytes[j \in 0 .. Len(atoms)] ==
        IF j = 0 THEN << >>
        ELSE IF atoms[j].op = "byte" THEN Append(bytes[j - 1], atoms[j]) ELSE bytes[j - 1]
  IN bytes
Fields(k) == Bytes(sects[k].atoms)[Len(sects[k].atoms)]
Instance(k) ==
  LET fields == Fields(k)
  IN IF fields = << >> THEN << >>
     ELSE [fields EXCEPT ![1] = Atom("byte", Value(Line.e), NoScope)]

IsStructure(n) == \E k \in DOMAIN sects : sects[k].struct /\ sects[k].name = Name("user", n)
BeingDeclared(n) == cur_struct # NULL /\ sects[cur_struct].name = Name("user", n)

CallStructure ==
  /\ Parsed("call") /\ find_macro(Line.n) = {}
  /\ BeingDeclared(Line.n) \/ IsStructure(Line.n)
  /\ LET k == find_section(sects, Name("user", Line.n))
     IN CASE BeingDeclared(Line.n) ->
               outcome' = "fatal" /\ errors' = TRUE /\ UNCHANGED << src, sectionVars >>
          [] ~BeingDeclared(Line.n) /\ k = current_section /\ Fields(k) # << >> ->
               outcome' = "undefined" /\ UNCHANGED << src, errors, sectionVars >>
          [] OTHER ->
               /\ src' = Advanced
               /\ sects' = AddAtoms(default_section, Default, Instance(k))
               /\ current_section' = Default
               /\ errors' = (errors \/ ~Valid(Line.e))
               /\ UNCHANGED << dsectVars, structVars, offset_id, outcome >>
  /\ UNCHANGED << readVars, inlineVars, labelVars >>

\* No macro, no structure, no instruction.
CallUnknown ==
  /\ Parsed("call") /\ find_macro(Line.n) = {}
  /\ ~BeingDeclared(Line.n) /\ ~IsStructure(Line.n)
  /\ src' = Advanced
  /\ errors' = TRUE
  /\ UNCHANGED << readVars, inlineVars, labelVars, sectionVars, outcome >>

Inline ==
  /\ Parsed("inline")
  /\ src' = Advanced
  /\ IF Len(inline_stack) < INLSTACKSIZE
     THEN /\ inline_stack' = Append(inline_stack, inline_id)
          /\ inline_id' = inline_id + 1
          /\ last_global_label' = Name("inline", inline_id)
          /\ saved_last_global_label' = IF inline_stack = << >> THEN last_global_label
                                        ELSE saved_last_global_label
          /\ UNCHANGED errors
     ELSE errors' = TRUE /\ UNCHANGED << inlineVars, last_global_label >>
  /\ UNCHANGED << readVars, labels, sectionVars, outcome >>

\* handle_einline(): back to the block around this one, or to the label before.
handle_einline ==
  IF inline_stack = << >> THEN errors' = TRUE /\ UNCHANGED << inlineVars, last_global_label >>
  ELSE LET outer == SubSeq(inline_stack, 1, Len(inline_stack) - 1)
       IN /\ inline_stack' = outer
          /\ last_global_label' = IF outer = << >> THEN saved_last_global_label
                                  ELSE Name("inline", outer[Len(outer)])
          /\ UNCHANGED << inline_id, saved_last_global_label, errors >>

EInline ==
  /\ Parsed("einline")
  /\ src' = Advanced
  /\ handle_einline
  /\ UNCHANGED << readVars, labels, sectionVars, outcome >>

(***************************************************************************)
(* Lines that switch between sections.                                     *)
(***************************************************************************)
SwitchSection ==
  /\ \/ Parsed("org")     /\ handle_org(Line.n)
     \/ Parsed("rorg")    /\ handle_rorg(Line.n)
     \/ Parsed("rend")    /\ handle_rend
     \/ Parsed("section") /\ handle_section(Line.n)
     \/ Parsed("dsect")   /\ handle_dsect
     \/ Parsed("dend")    /\ handle_dend
     \/ Parsed("struct")  /\ handle_struct(Line.n)
  /\ src' = IF outcome' = "running" THEN Advanced ELSE src
  /\ UNCHANGED << readVars, inlineVars, labelVars >>

\* The name of the current section, the structure's, becomes a global label.
EndStruct ==
  LET name == sects[current_section].name
  IN /\ Parsed("endstruct")
     /\ IF cur_struct # NULL /\ current_section # NULL
        THEN /\ handle_endstruct(Atom("label", name.n, last_global_label), << name >> \in labels)
             /\ labels' = labels \cup {<< name >>} /\ last_global_label' = name
        ELSE handle_endstruct(RorgEnd, FALSE) /\ UNCHANGED labelVars
     /\ src' = IF outcome' = "running" THEN Advanced ELSE src
     /\ UNCHANGED << readVars, inlineVars >>

Init ==
  /\ prog \in DOMAIN Programs
  /\ rptn = -1 /\ src = << FileSource(Main) >> /\ loaded = {Main}
  /\ macros = << >> /\ reading = NoDef
  /\ cond = << >> /\ ifnesting = 0 /\ parse_end = FALSE
  /\ inline_stack = << >> /\ inline_id = 0 /\ saved_last_global_label = NoScope
  /\ last_global_label = NoScope /\ labels = {}
  /\ SectionInit

\* The rest of the program is not this module's.
Stopped == outcome # "running" /\ UNCHANGED vars

Next ==
  \/ EndOfText \/ ReadDefinition \/ IgnoreLine \/ SkipLine
  \/ If \/ Else \/ EndIf \/ Rept \/ Macro \/ StrayEnd
  \/ CallMacro \/ CallStructure \/ CallUnknown \/ Include \/ End
  \/ Byte \/ Reference \/ Label \/ Inline \/ EInline
  \/ SwitchSection \/ EndStruct
  \/ Stopped

Spec == Init /\ [][Next]_vars

\* One process, no input: while it runs it takes its next step.  This is weak
\* fairness, with the condition in the place of ENABLED; that there always is
\* a step is checked as the absence of deadlock.
FairSpec == Spec /\ ([]<>(outcome # "running") \/ []<><<Next>>_vars)

(***************************************************************************)
(* Properties.                                                             *)
(***************************************************************************)
Files == DOMAIN Programs[prog]
SourceRecords ==
  [file : Files, from : Nat, to : Nat, ptr : Nat, repeat : Nat \ {0}, reptn : Nat \cup {-1},
   num_params : {-1, 1}, param : Seq(Operands), macro : DOMAIN macros \cup {NOMACRO},
   defsrc : BOOLEAN]
SourceOK(s) ==
  /\ s.ptr \in s.from .. (s.to + 1) /\ s.from >= 1 /\ s.to <= Len(Lines(s.file))
  /\ s.num_params = 1 => Len(s.param) = 1

MacroNames ==
  UNION { { Lines(f)[j].n : j \in { l \in 1 .. Len(Lines(f)) : Lines(f)[l].op = "macro" } } : f \in Files }
MacroRecords == [name : MacroNames, file : Files, from : Nat \ {0}, to : Nat,
                 recursions : 0 .. maxmacrecurs]
MacroOK(m) == m.from <= m.to + 1 /\ m.to <= Len(Lines(m.file))

Definitions ==
  {NoDef} \cup [of : {"macro"}, file : Files, from : Nat \ {0}, name : MacroNames]
          \cup [of : {"rept"}, file : Files, from : Nat \ {0}, cnt : Int]

\* The source: every text on the stack is a part of a file.
SourceTypeOK ==
  /\ prog \in DOMAIN Programs /\ loaded \subseteq Files
  /\ src \in Seq(SourceRecords) /\ src # << >>
  /\ \A k \in 1 .. Depth : SourceOK(src[k])
  /\ macros \in Seq(MacroRecords) /\ \A m \in 1 .. Len(macros) : MacroOK(macros[m])
  /\ reading \in Definitions
  /\ rptn \in Nat \cup {-1}

CondTypeOK == cond \in Seq(BOOLEAN) /\ ifnesting \in Nat

\* The sections: what is remembered of a section is in the list.
SectionTypeOK ==
  /\ current_section \in 0 .. Len(sects) /\ last_alloc_sect \in 0 .. Len(sects)
  /\ cur_struct \in 0 .. Len(sects) /\ struct_prevsect \in 0 .. Len(sects)
  /\ Len(inline_stack) <= INLSTACKSIZE /\ inline_id \in Nat

(* Type invariant: every text on the stack is a part of a file, every macro  *)
(* counts its expansions within the limit, every section remembered by a     *)
(* dsect or a structure exists.                                              *)
TypeOK ==
  /\ SourceTypeOK /\ CondTypeOK /\ SectionTypeOK
  /\ parse_end \in BOOLEAN /\ dsect_active \in BOOLEAN /\ errors \in BOOLEAN
  /\ outcome \in {"running", "done", "fatal", "undefined"}

Expansions(m) == { k \in 1 .. Depth : src[k].macro = m }

(* A macro's recursion count is the number of its expansions on the stack,   *)
(* through repetitions, include files and redefinitions, so that the limit   *)
(* is one on depth and a macro called often enough is never refused.         *)
RecursionsCounted ==
  \A m \in 1 .. Len(macros) : macros[m].recursions = Cardinality(Expansions(m))

(* The symbol __RPTCNT, one for the whole program, is at every line the      *)
(* count of the innermost repetition around that line, however the macros    *)
(* and files between have come and gone.                                     *)
SymbolIsCurrent == rptn = cur_src.reptn

(* Only the innermost condition may be false: no line is assembled under a   *)
(* false outer condition, and blocks are counted as skipped only in one.     *)
OnlyInnermostFalse ==
  /\ \A l \in 1 .. (clev - 1) : cond[l]
  /\ ifnesting > 0 => ~cond_state

(* With a limit on recursion every source is read to its end.                *)
Terminates == <>(outcome # "running")
=============================================================================
