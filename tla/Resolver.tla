------------------------------ MODULE Resolver ------------------------------
(***************************************************************************)
(* The core of the assembler that builds the firmware (vasm.c, atom.c and  *)
(* the 6502 back end): the source is parsed into sections of atoms,        *)
(* resolve() repeats passes over the sections until no label moves and no  *)
(* instruction changes its size, and assemble() lays the sections out once *)
(* more and emits the instructions.  The sources are the firmware's kind:  *)
(* every section is started by .org, hence absolute, and every label is    *)
(* defined once.                                                           *)
(***************************************************************************)
EXTENDS Integers, Sequences

CONSTANTS
  Programs,       \* sources: [sections, branchopt]
  MAXPASSES,      \* passes over one section before the resolver gives up
  FASTOPTPHASE    \* passes before the safe mode

ASSUME PassesAssumption ==
  /\ MAXPASSES \in Nat /\ FASTOPTPHASE \in Nat
  /\ MAXPASSES > 1

Instructions == {"zpabs", "branch", "bra"}
AtomRecords ==
  [kind : {"label"}, name : STRING] \cup [kind : Instructions, to : STRING]
    \cup [kind : {"data", "space"}, n : Nat] \cup [kind : {"align"}, n : Nat \ {0}]

LabelsOf(atoms) ==
  { atoms[k].name : k \in { j \in 1 .. Len(atoms) : atoms[j].kind = "label" } }

\* Every label is defined once, and every operand is a label of the source; a
\* section is named by its address, so no two begin at the same.
ASSUME ProgramsAssumption ==
  \A p \in Programs :
    LET S == 1 .. Len(p.sections)
    IN /\ p.branchopt \in BOOLEAN
       /\ p.sections \in Seq([org : Nat, atoms : Seq(AtomRecords)]) /\ p.sections # << >>
       /\ \A s, t \in S : s # t =>
            /\ p.sections[s].org # p.sections[t].org
            /\ LabelsOf(p.sections[s].atoms) \cap LabelsOf(p.sections[t].atoms) = {}
       /\ \A s \in S : \A j, k \in 1 .. Len(p.sections[s].atoms) :
            LET one == p.sections[s].atoms[j]
                two == p.sections[s].atoms[k]
            IN one.kind = "label" /\ two.kind = "label" /\ one.name = two.name => j = k
       /\ \A s \in S : \A k \in 1 .. Len(p.sections[s].atoms) :
            p.sections[s].atoms[k].kind \in Instructions =>
              \E t \in S : p.sections[s].atoms[k].to \in LabelsOf(p.sections[t].atoms)

VARIABLES
  prog,       \* the source being assembled, and whether -opt-branch is given
  phase,      \* "parse", "resolve" (between sections), "pass" (in resolve_section),
              \* "assemble", "output", "stopped" (a fatal error, or errors at the end)
  sec,        \* current section
  i,          \* next atom of it
  pc,         \* sec->pc of every section
  label,      \* symbol values, IMPORT before the definition is parsed
  lastsize,   \* of every atom
  deps,       \* deps[s]: the sections that depend on s
  todo,       \* sections to resolve (again)
  pass, fastphase, extrapass, done,   \* of resolve_section
  errors      \* an error was reported

passVars == << pass, fastphase, extrapass, done >>
vars == << prog, phase, sec, i, pc, label, lastsize, deps, todo, passVars, errors >>

IMPORT == -1

Secs == 1 .. Len(prog.sections)
Org(s) == prog.sections[s].org
Atoms(s) == prog.sections[s].atoms
AtomsLeft == i <= Len(Atoms(sec))
Atom == Atoms(sec)[i]

IsLabel(at) == at.kind = "label"
IsInstruction(at) == at.kind \in Instructions
LabelsIn(s) == LabelsOf(Atoms(s))
Labels == UNION { LabelsIn(s) : s \in Secs }
LabelSec(n) == CHOOSE s \in Secs : n \in LabelsIn(s)

\* pcalign(): only .align, a space atom of no size, has an alignment.
pcalign(at, p) == IF at.kind = "align" THEN p + ((-p) % at.n) ELSE p

\* A branch at p reaches its target with a signed byte.
InRange(at, p) == label[at.to] - (p + 2) \in -128 .. 127

\* optimize_instruction(): with -opt-branch a branch that does not reach its
\* label, if that has a value, becomes a JMP or a branch around a JMP.
Relaxed(at, p) == prog.branchopt /\ label[at.to] # IMPORT /\ ~InRange(at, p)

\* Mutant: a label without a value counts as zero, so in the zero page.
atom_size_zero(at, p) ==
  CASE at.kind \in {"data", "space"} -> at.n
    [] at.kind = "zpabs"  -> IF label[at.to] \in -1 .. 255 THEN 2 ELSE 3
    [] at.kind = "branch" -> IF Relaxed(at, p) THEN 5 ELSE 2
    [] at.kind = "bra"    -> IF Relaxed(at, p) THEN 3 ELSE 2
    [] OTHER              -> 0

\* atom_size(): instruction_size() of an instruction with the labels' current
\* values.  An operand that is not (yet) in the zero page takes two bytes.
atom_size(at, p) ==
  CASE at.kind \in {"data", "space"} -> at.n
    [] at.kind = "zpabs"  -> IF label[at.to] \in 0 .. 255 THEN 2 ELSE 3
    [] at.kind = "branch" -> IF Relaxed(at, p) THEN 5 ELSE 2
    [] at.kind = "bra"    -> IF Relaxed(at, p) THEN 3 ELSE 2
    [] OTHER              -> 0

Init ==
  /\ prog \in Programs
  /\ phase = "parse" /\ sec = 1 /\ i = 1
  /\ pc = [s \in Secs |-> Org(s)]
  /\ label = [n \in Labels |-> IMPORT]
  /\ lastsize = [s \in Secs |-> [k \in 1 .. Len(Atoms(s)) |-> 0]]
  /\ deps = [s \in Secs |-> {}]
  /\ todo = {}
  /\ pass = 0 /\ fastphase = FASTOPTPHASE /\ extrapass = FALSE /\ done = FALSE
  /\ errors = FALSE

\* add_atom(), after new_labsym() for a label: laid out with what is known so far.
AddAtom ==
  LET here == pcalign(Atom, pc[sec])
      size == atom_size(Atom, here)
  IN /\ phase = "parse" /\ AtomsLeft
     /\ label' = IF IsLabel(Atom) THEN [label EXCEPT ![Atom.name] = here] ELSE label
     /\ lastsize' = [lastsize EXCEPT ![sec][i] = size]
     /\ pc' = [pc EXCEPT ![sec] = here + size]
     /\ i' = i + 1
     /\ UNCHANGED << prog, phase, sec, deps, todo, passVars, errors >>

\* The next .org, or the end of the source.
EndOfSection ==
  /\ phase = "parse" /\ ~AtomsLeft
  /\ i' = 1
  /\ IF sec < Len(prog.sections)
     THEN sec' = sec + 1 /\ UNCHANGED << phase, todo >>
     ELSE sec' = sec /\ phase' = "resolve" /\ todo' = Secs
  /\ UNCHANGED << prog, pc, label, lastsize, deps, passVars, errors >>

\* resolve() goes round the list of sections; sec is the last one visited.
Distance(s) == (s - sec - 1) % Len(prog.sections)
Nearest(s) == \A t \in todo : Distance(s) <= Distance(t)

ResolveSection ==
  \E s \in todo :
     /\ phase = "resolve" /\ Nearest(s)
     /\ phase' = "pass"
     /\ sec' = s /\ i' = 1
     /\ pc' = [pc EXCEPT ![s] = Org(s)]
     /\ pass' = 1 /\ done' = TRUE
     /\ fastphase' = FASTOPTPHASE /\ extrapass' = (1 <= FASTOPTPHASE)
     /\ UNCHANGED << prog, label, lastsize, deps, todo, errors >>

\* In safe mode, once anything has changed, instructions keep their size for
\* the rest of the pass.
Skipped == pass > fastphase /\ ~done /\ IsInstruction(Atom)

\* Mutant: no dependency is recorded.
NoDependency(at) == deps

\* add_dep(), when an operand is evaluated.
AddDependency(at) ==
  IF LabelSec(at.to) = sec THEN deps
  ELSE [deps EXCEPT ![LabelSec(at.to)] = @ \cup {sec}]

\* One turn of the loop over the atoms in resolve_section().
ResolveAtom ==
  LET here == pcalign(Atom, pc[sec])
      old  == lastsize[sec][i]
      size == IF Skipped THEN old ELSE atom_size(Atom, here)
  IN /\ phase = "pass" /\ AtomsLeft
     /\ label' = IF IsLabel(Atom) THEN [label EXCEPT ![Atom.name] = here] ELSE label
     /\ lastsize' = [lastsize EXCEPT ![sec][i] = size]
     /\ pc' = [pc EXCEPT ![sec] = here + size]
     /\ done' = (done /\ label' = label /\ size = old)
     /\ extrapass' = (extrapass /\ ~(size > old /\ pass <= fastphase))
     /\ deps' = IF IsInstruction(Atom) /\ ~Skipped THEN AddDependency(Atom) ELSE deps
     /\ i' = i + 1
     /\ UNCHANGED << prog, phase, sec, todo, pass, fastphase, errors >>

\* The fast phase is extended while nothing grows.
Extended == IF extrapass THEN fastphase + 1 ELSE fastphase

EndPass == phase = "pass" /\ ~AtomsLeft

\* Something changed: another pass over the section.
NextPass ==
  /\ EndPass /\ ~done /\ pass + 1 < MAXPASSES
  /\ i' = 1 /\ pc' = [pc EXCEPT ![sec] = Org(sec)]
  /\ pass' = pass + 1 /\ fastphase' = Extended /\ done' = TRUE
  /\ extrapass' = (pass' <= fastphase')
  /\ UNCHANGED << prog, phase, sec, label, lastsize, deps, todo, errors >>

\* general_error(7) is fatal.
GiveUp ==
  /\ EndPass /\ ~done /\ pass + 1 >= MAXPASSES
  /\ phase' = "stopped" /\ errors' = TRUE
  /\ UNCHANGED << prog, sec, i, pc, label, lastsize, deps, todo, passVars >>

\* Mutant: the sections that depend on this one are visited again only if it
\* took a third pass.
TodoLate == (todo \ {sec}) \cup (IF pass > 2 THEN deps[sec] ELSE {})

\* Mutant: the section just resolved stays to be resolved.
TodoKept == todo \cup (IF pass > 1 THEN deps[sec] ELSE {})

\* A section that has changed sends the sections that depend on it round again.
Todo == (todo \ {sec}) \cup (IF pass > 1 THEN deps[sec] ELSE {})

SectionDone ==
  /\ EndPass /\ done
  /\ phase' = "resolve" /\ todo' = Todo
  /\ UNCHANGED << prog, sec, i, pc, label, lastsize, deps, passVars, errors >>

AssembleStart ==
  /\ phase = "resolve" /\ todo = {}
  /\ phase' = "assemble" /\ sec' = 1 /\ i' = 1
  /\ pc' = [pc EXCEPT ![1] = Org(1)]
  /\ UNCHANGED << prog, label, lastsize, deps, todo, passVars, errors >>

\* eval_instruction(): the instruction is emitted with the size it has now; a
\* branch that was not relaxed must reach (rangecheck()).
AssembleAtom ==
  LET here == pcalign(Atom, pc[sec])
  IN /\ phase = "assemble" /\ AtomsLeft
     /\ pc' = [pc EXCEPT ![sec] = here + atom_size(Atom, here)]
     /\ errors' = (errors \/ (/\ Atom.kind \in {"branch", "bra"}
                              /\ ~Relaxed(Atom, here) /\ ~InRange(Atom, here)))
     /\ i' = i + 1
     /\ UNCHANGED << prog, phase, sec, label, lastsize, deps, todo, passVars >>

AssembleNext ==
  /\ phase = "assemble" /\ ~AtomsLeft
  /\ IF sec < Len(prog.sections)
     THEN /\ sec' = sec + 1 /\ i' = 1 /\ phase' = phase
          /\ pc' = [pc EXCEPT ![sec + 1] = Org(sec + 1)]
     ELSE /\ phase' = IF errors THEN "stopped" ELSE "output"
          /\ UNCHANGED << sec, i, pc >>
  /\ UNCHANGED << prog, label, lastsize, deps, todo, passVars, errors >>

ResolverNext ==
  \/ AddAtom \/ EndOfSection
  \/ ResolveSection \/ ResolveAtom \/ NextPass \/ GiveUp \/ SectionDone
  \/ AssembleStart \/ AssembleAtom \/ AssembleNext

(* assemble() finds every label where resolve() left it: an instruction    *)
(* emitted with another size than it was resolved with would put the       *)
(* labels after it, and every reference to them, out of step.  Only the    *)
(* debug build compares sizes (vasm.c:461), and none compares labels.      *)
LabelsPlaced ==
  phase = "assemble" /\ AtomsLeft /\ IsLabel(Atom) => label[Atom.name] = pc[sec]
=============================================================================
