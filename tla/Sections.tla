------------------------------ MODULE Sections ------------------------------
(***************************************************************************)
(* The sections of the assembler: the list of sections and the functions   *)
(* that create, find and switch between them (vasm.c), and the directives  *)
(* of the oldstyle syntax that call these: org, rorg, rend, section,       *)
(* dsect, dend, struct and endstruct.  What a section holds is abstracted  *)
(* to bytes, labels and the marks of relocated-org blocks.  The module     *)
(* that reads the source says when each directive is executed.             *)
(***************************************************************************)
EXTENDS Integers, Sequences, FiniteSets

VARIABLES
  sects,             \* first_section ..: all sections, in the order of their creation
  current_section,   \* an index of sects, NULL before the first section
  dsect_active, dsect_offs, last_alloc_sect,
  cur_struct, struct_prevsect,
  offset_id,         \* number of the latest unnamed offset section
  errors,            \* an error was reported
  outcome            \* "running", "done", "fatal" (a fatal error), or "undefined": the
                     \* program follows a NULL or a wild pointer

dsectVars == << dsect_active, dsect_offs, last_alloc_sect >>
structVars == << cur_struct, struct_prevsect >>
sectionVars == << sects, current_section, dsectVars, structVars, offset_id >>

NULL == 0
Name(of, n) == [of |-> of, n |-> n]
Text == Name("text", 0)

\* find_section(), by name only.
find_section(ss, name) ==
  IF \E k \in DOMAIN ss : ss[k].name = name
  THEN CHOOSE k \in DOMAIN ss : ss[k].name = name
  ELSE NULL

new_section(ss, name) ==
  IF find_section(ss, name) # NULL THEN ss
  ELSE Append(ss, [name |-> name, org |-> 0, pc |-> 0, unallocated |-> FALSE,
                   absolute |-> FALSE, prevabs |-> FALSE, in_rorg |-> FALSE,
                   labels_are_local |-> FALSE, struct |-> FALSE, atoms |-> << >>])

set_section(ss, name) == sects' = ss /\ current_section' = find_section(ss, name)

\* new_org(): the section is named after the address.
new_org(a) ==
  LET name == Name("seg", a)
      ss   == new_section(sects, name)
      k    == find_section(ss, name)
  IN set_section([ss EXCEPT ![k].org = a, ![k].pc = a, ![k].absolute = TRUE], name)

\* switch_offset_section() without a name: a new section at offset offs.
new_offset_section(offs) ==
  LET name == Name("offset", offset_id + 1)
      ss   == new_section(sects, name)
      k    == find_section(ss, name)
  IN /\ set_section([ss EXCEPT ![k].unallocated = TRUE, ![k].org = offs, ![k].pc = offs], name)
     /\ offset_id' = offset_id + 1

\* default_section(): code before the first section goes to "text".
default_section == IF current_section = NULL THEN new_section(sects, Text) ELSE sects
Default == IF current_section = NULL THEN find_section(default_section, Text)
           ELSE current_section

\* An atom: a byte (or the address of a local label), a label, or one end of a
\* relocated block.  scope is the global label a local label belongs to.
NoScope == Name("none", 0)
Atom(op, tag, scope) == [op |-> op, tag |-> tag, scope |-> scope]

SizeOf(atom) == IF atom.op = "byte" THEN 1 ELSE 0

\* add_atom()
AddAtoms(ss, k, atoms) ==
  [ss EXCEPT ![k].atoms = @ \o atoms,
             ![k].pc = @ + Cardinality({ j \in 1 .. Len(atoms) : SizeOf(atoms[j]) = 1 })]

add_atom(atom) ==
  /\ sects' = AddAtoms(default_section, Default, << atom >>)
  /\ current_section' = Default
  /\ UNCHANGED << dsectVars, structVars, offset_id >>

SectionInit ==
  /\ sects = << >> /\ current_section = NULL
  /\ dsect_active = FALSE /\ dsect_offs = 0 /\ last_alloc_sect = NULL
  /\ cur_struct = NULL /\ struct_prevsect = NULL
  /\ offset_id = 0 /\ errors = FALSE /\ outcome = "running"

(***************************************************************************)
(* The directives.                                                         *)
(***************************************************************************)
\* Mutant: an org in a dsect starts a section of the output.
org_allocates(a) ==
  /\ new_org(a)
  /\ UNCHANGED << offset_id, dsectVars, structVars, errors, outcome >>

handle_org(a) ==
  /\ IF dsect_active THEN new_offset_section(a)
     ELSE new_org(a) /\ UNCHANGED offset_id
  /\ UNCHANGED << dsectVars, structVars, errors, outcome >>

handle_section(n) ==
  /\ set_section(new_section(sects, Name("user", n)), Name("user", n))
  /\ UNCHANGED << dsectVars, structVars, offset_id, errors, outcome >>

RorgEnd == Atom("rorgend", 0, NoScope)
Rorg(a) == Atom("rorg", a, NoScope)

\* end_rorg() on section k, which is in a relocated block.
Unrelocated(ss, k) ==
  [AddAtoms(ss, k, << RorgEnd >>) EXCEPT ![k].in_rorg = FALSE, ![k].absolute = ss[k].prevabs]

\* start_rorg(): a block that is open is closed first.
handle_rorg(a) ==
  LET k    == Default
      ss   == default_section
      open == IF ss[k].in_rorg THEN Unrelocated(ss, k) ELSE ss
  IN /\ sects' = [AddAtoms(open, k, << Rorg(a) >>) EXCEPT
                    ![k].in_rorg = TRUE, ![k].absolute = TRUE, ![k].prevabs = open[k].absolute]
     /\ current_section' = k
     /\ UNCHANGED << dsectVars, structVars, offset_id, errors, outcome >>

handle_rend ==
  LET in_rorg == default_section[Default].in_rorg
  IN /\ sects' = IF in_rorg THEN Unrelocated(default_section, Default) ELSE default_section
     /\ current_section' = Default
     /\ errors' = (errors \/ ~in_rorg)
     /\ UNCHANGED << dsectVars, structVars, offset_id, outcome >>

\* A dsect in a dsect is reported, and starts another one.
handle_dsect ==
  /\ new_offset_section(dsect_offs)
  /\ dsect_active' = TRUE
  /\ last_alloc_sect' = IF dsect_active THEN last_alloc_sect ELSE current_section
  /\ errors' = (errors \/ dsect_active)
  /\ UNCHANGED << dsect_offs, structVars, outcome >>

\* A directive that does not apply here.
misplaced == errors' = TRUE /\ UNCHANGED << sectionVars, outcome >>

\* The code follows current_section, which an endstruct or a dend may have set to NULL.
follows_null == outcome' = "undefined" /\ UNCHANGED << sectionVars, errors >>

handle_dend ==
  \/ ~dsect_active /\ misplaced
  \/ dsect_active /\ current_section = NULL /\ follows_null
  \/ /\ dsect_active /\ current_section # NULL
     /\ dsect_offs' = sects[current_section].pc
     /\ current_section' = last_alloc_sect /\ last_alloc_sect' = NULL
     /\ dsect_active' = FALSE
     /\ UNCHANGED << sects, structVars, offset_id, errors, outcome >>

\* new_structure(): the structure is an offset section of its name.
handle_struct(n) ==
  LET name == Name("user", n)
      ss   == new_section(sects, name)
      k    == find_section(ss, name)
  IN \/ cur_struct # NULL /\ misplaced
     \/ /\ cur_struct = NULL
        /\ set_section([ss EXCEPT ![k].unallocated = TRUE, ![k].struct = TRUE,
                             ![k].labels_are_local = TRUE], name)
        /\ struct_prevsect' = current_section /\ cur_struct' = k
        /\ UNCHANGED << dsectVars, offset_id, errors, outcome >>

\* end_structure(), after the name of the current section has become a label.
handle_endstruct(label, redefined) ==
  \/ cur_struct = NULL /\ misplaced
  \/ cur_struct # NULL /\ current_section = NULL /\ follows_null
  \/ /\ cur_struct # NULL /\ current_section # NULL
     /\ sects' = AddAtoms([sects EXCEPT ![current_section].labels_are_local = FALSE],
                          current_section, << label >>)
     /\ current_section' = struct_prevsect
     /\ cur_struct' = NULL /\ struct_prevsect' = NULL
     /\ UNCHANGED << dsectVars, offset_id, outcome >>
     /\ errors' = (errors \/ redefined)

(***************************************************************************)
(* resolve_section() and assemble(): where the atoms of a section come to  *)
(* lie.  In a relocated block pc counts from its address.                  *)
(***************************************************************************)
Following(p, atom) ==
  CASE atom.op = "rorg"    -> [pc |-> atom.tag, shift |-> p.pc - atom.tag]
    [] atom.op = "rorgend" -> [pc |-> p.pc + p.shift, shift |-> 0]
    [] OTHER               -> [p EXCEPT !.pc = @ + SizeOf(atom)]

\* Behind the first k atoms.
Behind(s) ==
  LET at[k \in 0 .. Len(s.atoms)] ==
        IF k = 0 THEN [pc |-> s.org, shift |-> 0] ELSE Following(at[k - 1], s.atoms[k])
  IN at

layout(s) == [k \in 1 .. Len(s.atoms) |-> Behind(s)[k - 1].pc]

\* remove_unalloc_sects(): what the output module is given.
Allocated == { k \in DOMAIN sects : ~sects[k].unallocated }
=============================================================================
