--------------------------- MODULE ResolverProofs ---------------------------
(***************************************************************************)
(* Proofs about the resolver: for every set of sources and whatever the    *)
(* numbers of passes, assemble() finds every label where resolve() left    *)
(* it.                                                                     *)
(*                                                                         *)
(* The inductive invariant is that a section resolve() does not mean to    *)
(* visit again is at a fixed point.  It rests on three facts: the pass     *)
(* that ends a visit changed nothing (Reached), every reference that was   *)
(* evaluated in it is recorded as a dependency (Recorded), and a visit     *)
(* that changed anything at all took a second pass (Moved).                *)
(***************************************************************************)
EXTENDS Assembler, SequenceTheorems, TLAPS

\* The addresses in start are those of a pass over the first k - 1 atoms of
\* section s that finds every label and every size as recorded.
Placed(s, start, k) ==
  /\ start[1] = Org(s)
  /\ \A j \in 1 .. (k - 1) :
       LET at == Atoms(s)[j]
           here == pcalign(at, start[j])
       IN /\ start[j + 1] = here + lastsize[s][j]
          /\ lastsize[s][j] = atom_size(at, here)
          /\ IsLabel(at) => label[at.name] = here

\* References from the first k - 1 atoms of s to other sections are recorded.
Recorded(s, k) ==
  \A j \in 1 .. (k - 1) :
    LET at == Atoms(s)[j]
    IN IsInstruction(at) /\ LabelSec(at.to) # s => s \in deps[LabelSec(at.to)]

Beyond(s) == Len(Atoms(s)) + 1
AtFixedPoint(s) == (\E start : Placed(s, start, Beyond(s))) /\ Recorded(s, Beyond(s))

\* Something has changed since the visit of the current section began.
Moved == pass > 1 \/ ~done

\* Section s will be visited again, or sent round by the visit in progress.
Stale(s) == s \in todo \/ (phase = "pass" /\ Moved /\ s \in deps[sec])

Types ==
  /\ prog \in Programs
  /\ phase \in {"parse", "resolve", "pass", "assemble", "output", "stopped"}
  /\ sec \in Secs /\ i \in 1 .. Beyond(sec)
  /\ DOMAIN pc = Secs /\ DOMAIN label = Labels /\ DOMAIN lastsize = Secs
  /\ \A s \in Secs : DOMAIN lastsize[s] = 1 .. Len(Atoms(s))
  /\ deps \in [Secs -> SUBSET Secs] /\ todo \in SUBSET Secs
  /\ pass \in Nat

AllSettled ==
  phase \in {"resolve", "pass", "assemble"} => \A s \in Secs : Stale(s) \/ AtFixedPoint(s)

Reached ==
  phase = "pass" =>
    /\ sec \in todo /\ pass >= 1
    /\ done => Recorded(sec, i) /\ \E start : Placed(sec, start, i) /\ pc[sec] = start[i]

Emitting ==
  phase = "assemble" =>
    /\ todo = {}
    /\ \E start : Placed(sec, start, Beyond(sec)) /\ pc[sec] = start[i]

IInv == Types /\ AllSettled /\ Reached /\ Emitting

-----------------------------------------------------------------------------
(* Sources.                                                                *)

LEMMA SourceTypes ==
  ASSUME prog \in Programs
  PROVE  /\ Len(prog.sections) \in Nat /\ Len(prog.sections) >= 1
         /\ \A s \in Secs : /\ Len(Atoms(s)) \in Nat
                            /\ \A k \in 1 .. Len(Atoms(s)) : Atoms(s)[k] \in AtomRecords
<1>1. prog.sections \in Seq([org : Nat, atoms : Seq(AtomRecords)]) /\ prog.sections # << >>
  BY ProgramsAssumption
<1>2. Len(prog.sections) \in Nat /\ Len(prog.sections) >= 1
  BY <1>1
<1>3. ASSUME NEW s \in Secs
      PROVE  Atoms(s) \in Seq(AtomRecords)
  <2>1. prog.sections[s] \in [org : Nat, atoms : Seq(AtomRecords)]
    BY <1>1, <1>3, ElementOfSeq, Zenon DEF Secs
  <2> QED
    BY <2>1 DEF Atoms
<1>4. \A q \in Seq(AtomRecords) :
        Len(q) \in Nat /\ \A k \in 1 .. Len(q) : q[k] \in AtomRecords
  OBVIOUS
<1> QED
  BY <1>2, <1>3, <1>4

\* A label belongs to the section it is in.
LEMMA LabelSecUnique ==
  ASSUME prog \in Programs, NEW s \in Secs, NEW n \in LabelsIn(s)
  PROVE  LabelSec(n) = s
<1>1. \A t \in Secs : n \in LabelsIn(t) => t = s
  BY ProgramsAssumption DEF LabelsIn, Secs, Atoms
<1> QED
  BY <1>1 DEF LabelSec

LEMMA AtomLabels ==
  ASSUME prog \in Programs, NEW s \in Secs, NEW k \in 1 .. Len(Atoms(s)), IsLabel(Atoms(s)[k])
  PROVE  Atoms(s)[k].name \in LabelsIn(s) /\ Atoms(s)[k].name \in Labels
  BY DEF LabelsIn, LabelsOf, Labels, IsLabel

LEMMA Operands ==
  ASSUME prog \in Programs, NEW s \in Secs, NEW k \in 1 .. Len(Atoms(s)),
         IsInstruction(Atoms(s)[k])
  PROVE  /\ LabelSec(Atoms(s)[k].to) \in Secs
         /\ Atoms(s)[k].to \in LabelsIn(LabelSec(Atoms(s)[k].to))
<1>1. \E t \in Secs : Atoms(s)[k].to \in LabelsIn(t)
  BY ProgramsAssumption DEF LabelsIn, Secs, Atoms, IsInstruction
<1> QED
  BY <1>1 DEF LabelSec

\* The kinds of atoms are distinct, and a label has neither size nor alignment.
LEMMA Kinds ==
  ASSUME NEW at, NEW p
  PROVE  IsLabel(at) => ~IsInstruction(at) /\ pcalign(at, p) = p
  BY DEF IsLabel, IsInstruction, Instructions, pcalign

-----------------------------------------------------------------------------
(* Types.                                                                  *)

LEMMA TypesInit == AssemblerInit => Types
<1> SUFFICES ASSUME AssemblerInit PROVE Types
  OBVIOUS
<1>1. prog \in Programs
  BY DEF AssemblerInit, Init
<1>2. 1 \in Secs /\ 1 \in 1 .. Beyond(1)
  BY <1>1, SourceTypes DEF Secs, Beyond
<1> QED
  BY <1>1, <1>2 DEF AssemblerInit, Init, Types

\* What the output drivers do to the variables of the resolver.
LEMMA OutputStep ==
  ASSUME BinaryNext \/ HexNext
  PROVE  /\ UNCHANGED << prog, sec, i, label, lastsize, deps, todo, passVars >>
         /\ phase = "output" /\ phase' \in {"output", "stopped"}
         /\ pc' = pc \/ DOMAIN pc' = Secs
<1>1. CASE TrimUninitialized \/ CheckOverlap
  BY <1>1 DEF TrimUninitialized, CheckOverlap
<1>2. CASE WriteSection \/ PatchHeader
  BY <1>2 DEF WriteSection, PatchHeader, vars
<1>3. CASE HexNext
  BY <1>3 DEF HexNext, StartSection, WriteRecord, EndOfRecords, Hex, vars
<1> QED
  BY <1>1, <1>2, <1>3 DEF BinaryNext

\* What a step does to the variables that have a type.
LEMMA TypesStep == Types /\ [Next]_allVars => Types'
<1> SUFFICES ASSUME Types, [Next]_allVars PROVE Types'
  OBVIOUS
<1>s. /\ Len(prog.sections) \in Nat /\ Len(prog.sections) >= 1
      /\ \A s \in Secs : Len(Atoms(s)) \in Nat
  BY SourceTypes DEF Types
<1>p. prog' = prog
  BY OutputStep
     DEF Next, Resolving, ResolverNext, AddAtom, EndOfSection, ResolveSection, ResolveAtom,
         NextPass, GiveUp, SectionDone, AssembleStart, AssembleAtom, AssembleNext,
         allVars, vars, Types
<1>c. /\ Secs' = Secs /\ Labels' = Labels
      /\ \A s : Atoms(s)' = Atoms(s) /\ Beyond(s)' = Beyond(s)
  BY <1>p DEF Secs, Labels, LabelsIn, Atoms, Beyond
<1>1. CASE AddAtom
  <2>1. i + 1 \in 1 .. Beyond(sec)
    BY <1>1, <1>s DEF AddAtom, AtomsLeft, Beyond, Types
  <2> QED
    BY <1>1, <1>p, <1>c, <2>1 DEF AddAtom, Types, passVars
<1>2. CASE EndOfSection
  <2>1. sec' \in Secs /\ i' = 1 /\ 1 \in 1 .. Beyond(sec')
    BY <1>2, <1>s DEF EndOfSection, Beyond, Types, Secs
  <2> QED
    BY <1>2, <1>p, <1>c, <2>1 DEF EndOfSection, Types, passVars
<1>3. CASE ResolveSection
  <2>1. sec' \in Secs /\ i' = 1 /\ 1 \in 1 .. Beyond(sec')
    BY <1>3, <1>s DEF ResolveSection, Beyond, Types
  <2> QED
    BY <1>3, <1>p, <1>c, <2>1 DEF ResolveSection, Types
<1>4. CASE ResolveAtom
  <2>1. i + 1 \in 1 .. Beyond(sec)
    BY <1>4, <1>s DEF ResolveAtom, AtomsLeft, Beyond, Types
  <2>2. deps' \in [Secs -> SUBSET Secs]
    BY <1>4 DEF ResolveAtom, AddDependency, Types
  <2> QED
    BY <1>4, <1>p, <1>c, <2>1, <2>2 DEF ResolveAtom, Types
<1>5. CASE NextPass
  <2>1. 1 \in 1 .. Beyond(sec)
    BY <1>s DEF Beyond, Types
  <2> QED
    BY <1>5, <1>p, <1>c, <2>1 DEF NextPass, EndPass, Types
<1>6. CASE GiveUp
  BY <1>6, <1>p, <1>c DEF GiveUp, EndPass, Types, passVars
<1>7. CASE SectionDone
  <2>1. todo' \in SUBSET Secs
    BY <1>7 DEF SectionDone, Todo, Types
  <2> QED
    BY <1>7, <1>p, <1>c, <2>1 DEF SectionDone, EndPass, Types, passVars
<1>8. CASE AssembleStart
  <2>1. 1 \in Secs /\ 1 \in 1 .. Beyond(1)
    BY <1>s DEF Beyond, Secs
  <2> QED
    BY <1>8, <1>p, <1>c, <2>1 DEF AssembleStart, Types, passVars
<1>9. CASE AssembleAtom
  <2>1. i + 1 \in 1 .. Beyond(sec)
    BY <1>9, <1>s DEF AssembleAtom, AtomsLeft, Beyond, Types
  <2> QED
    BY <1>9, <1>p, <1>c, <2>1 DEF AssembleAtom, Types, passVars
<1>10. CASE AssembleNext
  <2>1. sec' \in Secs /\ i' \in 1 .. Beyond(sec')
    BY <1>10, <1>s DEF AssembleNext, Beyond, Types, Secs
  <2> QED
    BY <1>10, <1>p, <1>c, <2>1 DEF AssembleNext, Types, passVars
<1>11. CASE BinaryNext \/ HexNext
  BY <1>11, <1>p, <1>c, OutputStep DEF Types, passVars
<1>12. CASE UNCHANGED allVars
  BY <1>12, <1>p, <1>c DEF allVars, vars, Types, passVars
<1> QED
  BY <1>1, <1>2, <1>3, <1>4, <1>5, <1>6, <1>7, <1>8, <1>9, <1>10, <1>11, <1>12
     DEF Next, Resolving, ResolverNext

-----------------------------------------------------------------------------
(* Fixed points.                                                           *)

\* A step that leaves labels, sizes and dependencies alone.
LEMMA Frame ==
  ASSUME UNCHANGED << prog, label, lastsize, deps >>, NEW s, NEW k, NEW start
  PROVE  /\ Placed(s, start, k)' <=> Placed(s, start, k)
         /\ Recorded(s, k)' <=> Recorded(s, k)
         /\ AtFixedPoint(s)' <=> AtFixedPoint(s)
<1>1. ASSUME NEW c, NEW l
      PROVE  /\ Placed(s, c, l)' <=> Placed(s, c, l)
             /\ Recorded(s, l)' <=> Recorded(s, l)
             /\ Beyond(s)' = Beyond(s)
  BY DEF Placed, Recorded, Beyond, Atoms, Org, pcalign, atom_size, Relaxed, InRange,
         LabelSec, Secs, LabelsIn
<1> QED
  BY <1>1 DEF AtFixedPoint

\* A section stays at its fixed point while its sizes, its labels and the
\* labels it refers to stay the same.
LEMMA AtFixedPointKept ==
  ASSUME prog' = prog, NEW s, AtFixedPoint(s), lastsize'[s] = lastsize[s],
         \A t : deps[t] \subseteq deps'[t],
         \A j \in 1 .. Len(Atoms(s)) :
            /\ IsLabel(Atoms(s)[j]) => label'[Atoms(s)[j].name] = label[Atoms(s)[j].name]
            /\ IsInstruction(Atoms(s)[j]) => label'[Atoms(s)[j].to] = label[Atoms(s)[j].to],
         Len(Atoms(s)) \in Nat
  PROVE  AtFixedPoint(s)'
<1>1. Beyond(s)' = Beyond(s) /\ Atoms(s)' = Atoms(s) /\ Org(s)' = Org(s)
  BY DEF Beyond, Atoms, Org
<1>2. Recorded(s, Beyond(s))'
  BY <1>1 DEF Recorded, AtFixedPoint, LabelSec, Secs, LabelsIn, Atoms
<1>3. PICK start : Placed(s, start, Beyond(s))
  BY DEF AtFixedPoint
<1>4. ASSUME NEW j \in 1 .. Len(Atoms(s)), NEW p
      PROVE  atom_size(Atoms(s)[j], p)' = atom_size(Atoms(s)[j], p)
  <2>1. CASE IsInstruction(Atoms(s)[j])
    BY <1>1, <2>1 DEF atom_size, Relaxed, InRange
  <2>2. CASE ~IsInstruction(Atoms(s)[j])
    BY <1>1, <2>2 DEF atom_size, IsInstruction, Instructions
  <2> QED
    BY <2>1, <2>2
<1>5. Placed(s, start, Beyond(s))'
  <2>1. 1 .. (Beyond(s) - 1) = 1 .. Len(Atoms(s))
    BY DEF Beyond
  <2>2. ASSUME NEW j \in 1 .. Len(Atoms(s))
        PROVE  LET at == Atoms(s)[j]
                   here == pcalign(at, start[j])
               IN /\ start[j + 1] = here + lastsize'[s][j]
                  /\ lastsize'[s][j] = atom_size(at, here)'
                  /\ IsLabel(at) => label'[at.name] = here
    <3> DEFINE at == Atoms(s)[j]
               here == pcalign(at, start[j])
    <3>1. /\ start[j + 1] = here + lastsize[s][j]
          /\ lastsize[s][j] = atom_size(at, here)
          /\ IsLabel(at) => label[at.name] = here
      BY <1>3, <2>1 DEF Placed
    <3>2. pcalign(at, start[j])' = here
      BY <1>1 DEF pcalign
    <3>3. atom_size(at, here)' = atom_size(at, here)
      <4>1. PICK p : p = here
        OBVIOUS
      <4>2. atom_size(at, p)' = atom_size(at, p)
        BY <1>4
      <4> QED
        BY <3>2, <4>1, <4>2
    <3> QED
      BY <3>1, <3>3
  <2> QED
    BY <1>1, <1>3, <2>1, <2>2 DEF Placed, pcalign
<1> QED
  BY <1>2, <1>5 DEF AtFixedPoint

-----------------------------------------------------------------------------
(* One turn of the loop in resolve_section().                              *)

\* A section that is not stale afterwards was not stale before, and either no
\* label moved or it refers to none of this section's.
LEMMA OthersKept ==
  ASSUME IInv, ResolveAtom, NEW s \in Secs, ~Stale(s)'
  PROVE  AtFixedPoint(s)'
<1>1. prog' = prog /\ todo' = todo /\ sec' = sec /\ pass' = pass
      /\ phase = "pass" /\ phase' = "pass"
  BY DEF ResolveAtom
<1>2. s # sec
  BY <1>1 DEF Stale, IInv, Reached
<1>3. \A t : deps[t] \subseteq deps'[t]
  BY DEF ResolveAtom, AddDependency, IInv, Types
<1>4. AtFixedPoint(s)
  <2>1. Moved => Moved'
    BY <1>1 DEF Moved, ResolveAtom
  <2> QED
    BY <1>1, <1>3, <2>1 DEF Stale, IInv, AllSettled
<1>5. lastsize'[s] = lastsize[s]
  BY <1>2 DEF ResolveAtom, IInv, Types
<1>6. Len(Atoms(s)) \in Nat
  BY SourceTypes DEF IInv, Types
<1>7. CASE label' = label
  BY <1>1, <1>3, <1>4, <1>5, <1>6, <1>7, AtFixedPointKept
<1>8. CASE label' # label
  <2>1. IsLabel(Atom) /\ label' = [label EXCEPT ![Atom.name] = pcalign(Atom, pc[sec])] /\ ~done'
    BY <1>8 DEF ResolveAtom
  <2>2. Atom.name \in LabelsIn(sec)
    <3>1. i \in 1 .. Len(Atoms(sec)) /\ sec \in Secs
      BY SourceTypes DEF ResolveAtom, AtomsLeft, IInv, Types, Beyond
    <3> QED
      BY <2>1, <3>1, AtomLabels DEF Atom, IInv, Types
  <2>3. s \notin deps[sec]
    BY <1>1, <1>3, <2>1 DEF Stale, Moved
  <2>4. ASSUME NEW n, label'[n] # label[n]
        PROVE  n = Atom.name
    BY <2>1, <2>4 DEF IInv, Types
  <2>5. ASSUME NEW j \in 1 .. Len(Atoms(s)), IsLabel(Atoms(s)[j])
        PROVE  Atoms(s)[j].name # Atom.name
    <3>1. Atoms(s)[j].name \in LabelsIn(s)
      BY <2>5, AtomLabels DEF IInv, Types
    <3> QED
      BY <1>2, <2>2, <3>1, LabelSecUnique DEF IInv, Types
  <2>6. ASSUME NEW j \in 1 .. Len(Atoms(s)), IsInstruction(Atoms(s)[j])
        PROVE  Atoms(s)[j].to # Atom.name
    <3>1. LabelSec(Atoms(s)[j].to) # s => s \in deps[LabelSec(Atoms(s)[j].to)]
      BY <1>4, <1>6, <2>6 DEF AtFixedPoint, Recorded, Beyond
    <3>2. LabelSec(Atoms(s)[j].to) # sec
      BY <1>2, <2>3, <3>1
    <3> QED
      BY <2>2, <3>2, LabelSecUnique DEF IInv, Types
  <2> QED
    BY <1>1, <1>3, <1>4, <1>5, <1>6, <2>4, <2>5, <2>6, AtFixedPointKept
<1> QED
  BY <1>7, <1>8

\* While nothing has changed in this pass, the atoms it has gone over are placed
\* and their references recorded.
LEMMA PassGoesOn ==
  ASSUME IInv, ResolveAtom, done'
  PROVE  Recorded(sec, i)' /\ \E start : Placed(sec, start, i)' /\ pc'[sec'] = start[i']
<1>1. /\ prog' = prog /\ sec' = sec /\ i' = i + 1 /\ phase = "pass" /\ done /\ ~Skipped
      /\ label' = label
  BY DEF ResolveAtom, Skipped
<1>2. PICK c, k : c = sec /\ k = i
  OBVIOUS
<1>3. c \in Secs /\ k \in 1 .. Len(Atoms(c)) /\ Len(Atoms(c)) \in Nat
  BY <1>2, SourceTypes DEF ResolveAtom, AtomsLeft, IInv, Types, Beyond
<1> DEFINE here == pcalign(Atoms(c)[k], pc[c])
<1>4. /\ \A j \in 1 .. Len(Atoms(c)) : lastsize'[c][j] = lastsize[c][j]
      /\ lastsize[c][k] = atom_size(Atoms(c)[k], here)
      /\ pc'[c] = here + lastsize[c][k]
      /\ IsLabel(Atoms(c)[k]) => label[Atoms(c)[k].name] = here
  <2>1. IsLabel(Atoms(c)[k]) => Atoms(c)[k].name \in Labels
    BY <1>3, AtomLabels DEF IInv, Types
  <2>2. /\ lastsize[sec][i] = atom_size(Atom, pcalign(Atom, pc[sec]))
        /\ lastsize' = [lastsize EXCEPT ![sec][i] = lastsize[sec][i]]
        /\ pc' = [pc EXCEPT ![sec] = pcalign(Atom, pc[sec]) + lastsize[sec][i]]
        /\ IsLabel(Atom) => label = [label EXCEPT ![Atom.name] = pcalign(Atom, pc[sec])]
    BY <1>1 DEF ResolveAtom
  <2>3. Atom = Atoms(c)[k]
    BY <1>2 DEF Atom
  <2>4. \A j \in 1 .. Len(Atoms(c)) : lastsize'[c][j] = lastsize[c][j]
    BY <1>2, <1>3, <2>2 DEF IInv, Types
  <2>5. pc'[c] = here + lastsize[c][k]
    BY <1>2, <1>3, <2>2, <2>3 DEF IInv, Types
  <2>6. IsLabel(Atoms(c)[k]) => label[Atoms(c)[k].name] = here
    BY <1>2, <2>1, <2>2, <2>3 DEF IInv, Types
  <2> QED
    BY <1>2, <2>2, <2>3, <2>4, <2>5, <2>6
<1>5. PICK start : Placed(c, start, k) /\ pc[c] = start[k]
  BY <1>1, <1>2 DEF IInv, Reached
<1>6. Recorded(c, k)
  BY <1>1, <1>2 DEF IInv, Reached
<1>7. Recorded(c, k + 1)'
  <2>1. ASSUME NEW j \in 1 .. k, IsInstruction(Atoms(c)[j]), LabelSec(Atoms(c)[j].to) # c
        PROVE  c \in deps'[LabelSec(Atoms(c)[j].to)]
    <3>1. LabelSec(Atoms(c)[j].to) \in Secs
      BY <1>3, <2>1, Operands DEF IInv, Types
    <3>2. CASE j < k
      <4>1. c \in deps[LabelSec(Atoms(c)[j].to)]
        BY <1>3, <1>6, <2>1, <3>2 DEF Recorded
      <4> QED
        BY <4>1 DEF ResolveAtom, AddDependency, IInv, Types
    <3>3. CASE j = k
      BY <1>1, <1>2, <2>1, <3>1, <3>3 DEF ResolveAtom, AddDependency, Atom, IInv, Types
    <3> QED
      BY <1>3, <3>2, <3>3
  <2>2. \A n : LabelSec(n)' = LabelSec(n)
    BY <1>1 DEF LabelSec, LabelsIn, Secs, Atoms
  <2>3. Atoms(c)' = Atoms(c) /\ 1 .. (k + 1 - 1) = 1 .. k
    BY <1>1, <1>3 DEF Atoms
  <2> QED
    BY <1>3, <2>1, <2>2, <2>3 DEF Recorded, IsInstruction
<1>8. \E next : Placed(c, next, k + 1)' /\ pc'[c] = next[k + 1]
  <2> DEFINE next == [j \in 1 .. (k + 1) |-> IF j = k + 1 THEN here + lastsize[c][k] ELSE start[j]]
  <2>1. \A j \in 1 .. k : next[j] = start[j]
    BY <1>3
  <2>2. next[k + 1] = here + lastsize[c][k]
    BY <1>3
  <2> HIDE DEF next
  <2>3. ASSUME NEW j \in 1 .. k
        PROVE  LET at == Atoms(c)[j]
                   there == pcalign(at, next[j])
               IN /\ next[j + 1] = there + lastsize[c][j]
                  /\ lastsize[c][j] = atom_size(at, there)
                  /\ IsLabel(at) => label[at.name] = there
    <3>1. CASE j < k
      BY <1>3, <1>5, <2>1, <3>1 DEF Placed
    <3>2. CASE j = k
      BY <1>3, <1>4, <1>5, <2>1, <2>2, <3>2
    <3> QED
      BY <1>3, <3>1, <3>2
  <2>4. next[1] = Org(c)
    BY <1>3, <1>5, <2>1 DEF Placed
  <2>5. ASSUME NEW at, NEW p
        PROVE  pcalign(at, p)' = pcalign(at, p) /\ atom_size(at, p)' = atom_size(at, p)
    BY <1>1 DEF pcalign, atom_size, Relaxed, InRange
  <2>6. Atoms(c)' = Atoms(c) /\ Org(c)' = Org(c) /\ 1 .. (k + 1 - 1) = 1 .. k
    BY <1>1, <1>3 DEF Atoms, Org
  <2>7. Placed(c, next, k + 1)
    BY <1>3, <2>3, <2>4 DEF Placed
  <2>8. PICK nx : nx = next
    OBVIOUS
  <2>9. Placed(c, nx, k + 1)'
    BY <1>1, <1>3, <1>4, <2>7, <2>8, <2>6, <2>5 DEF Placed
  <2> QED
    BY <1>4, <2>2, <2>8, <2>9
<1> QED
  BY <1>1, <1>2, <1>7, <1>8

-----------------------------------------------------------------------------
(* The invariant.                                                          *)

\* A pass or the emission of a section begins at its origin.
LEMMA Beginning ==
  ASSUME NEW s
  PROVE  /\ Recorded(s, 1)
         /\ \A p : p = Org(s) => \E start : Placed(s, start, 1) /\ p = start[1]
<1>1. ASSUME NEW p, p = Org(s)
      PROVE  \E start : Placed(s, start, 1) /\ p = start[1]
  <2> DEFINE first == [j \in {1} |-> Org(s)]
  <2>1. first[1] = Org(s)
    OBVIOUS
  <2> HIDE DEF first
  <2>2. Placed(s, first, 1)
    BY <2>1 DEF Placed
  <2> QED
    BY <1>1, <2>1, <2>2
<1> QED
  BY <1>1 DEF Recorded

LEMMA InvInit == AssemblerInit => IInv
  BY TypesInit DEF AssemblerInit, Init, IInv, AllSettled, Reached, Emitting

\* Steps after which resolve() has not begun or is over.
LEMMA StepsOutside ==
  ASSUME IInv, [Next]_allVars,
         AddAtom \/ GiveUp \/ BinaryNext \/ HexNext
  PROVE  IInv'
<1>1. Types'
  BY TypesStep DEF IInv
<1>2. phase' \in {"parse", "output", "stopped"}
  BY OutputStep DEF AddAtom, GiveUp
<1> QED
  BY <1>1, <1>2 DEF IInv, AllSettled, Reached, Emitting

LEMMA StutterStep ==
  ASSUME IInv, Types', UNCHANGED vars
  PROVE  IInv'
<1>1. \A s : Stale(s)' <=> Stale(s)
  BY DEF Stale, Moved, vars, passVars
<1>2. \A s : AtFixedPoint(s)' <=> AtFixedPoint(s)
  BY Frame DEF vars
<1>3. AllSettled'
  BY <1>1, <1>2 DEF IInv, AllSettled, Secs, vars
<1>4. PICK c, k, l : c = sec /\ k = i /\ l = Beyond(sec)
  OBVIOUS
<1>5. c = sec' /\ k = i' /\ l = Beyond(sec)'
  BY <1>4 DEF Beyond, Atoms, vars
<1>6. \A start : Placed(c, start, l)' <=> Placed(c, start, l)
  BY Frame DEF vars
<1>7. \A start : Placed(c, start, k)' <=> Placed(c, start, k)
  BY Frame DEF vars
<1>8. Recorded(c, k)' <=> Recorded(c, k)
  BY Frame DEF vars
<1>9. Reached'
  BY <1>4, <1>5, <1>7, <1>8 DEF IInv, Reached, vars, passVars
<1>10. Emitting'
  BY <1>4, <1>5, <1>6 DEF IInv, Emitting, vars
<1> QED
  BY <1>3, <1>9, <1>10 DEF IInv

LEMMA EndOfSectionStep ==
  ASSUME IInv, Types', EndOfSection
  PROVE  IInv'
<1>1. phase' = "parse" \/ (phase' = "resolve" /\ todo' = Secs')
  BY DEF EndOfSection, Secs, IInv, Types
<1>2. AllSettled'
  BY <1>1 DEF AllSettled, Stale
<1> QED
  BY <1>1, <1>2 DEF IInv, Reached, Emitting

LEMMA ResolveSectionStep ==
  ASSUME IInv, Types', ResolveSection
  PROVE  IInv'
<1>1. PICK c \in todo : /\ phase = "resolve" /\ phase' = "pass"
                        /\ sec' = c /\ i' = 1 /\ pc' = [pc EXCEPT ![c] = Org(c)]
                        /\ pass' = 1 /\ done' = TRUE
                        /\ UNCHANGED << prog, label, lastsize, deps, todo >>
  BY DEF ResolveSection
<1>2. \A s : AtFixedPoint(s)' <=> AtFixedPoint(s)
  BY <1>1, Frame
<1>3. AllSettled'
  <2>1. \A s : Stale(s)' <=> Stale(s)
    BY <1>1 DEF Stale, Moved
  <2> QED
    BY <1>1, <1>2, <2>1 DEF IInv, AllSettled, Secs
<1>4. Reached'
  <2>1. pc'[c] = Org(c)
    BY <1>1 DEF IInv, Types
  <2>2. Recorded(c, 1)'
    BY <1>1, Beginning, Frame
  <2>3. \E start : Placed(c, start, 1)' /\ pc'[c] = start[1]
    BY <1>1, <2>1, Beginning, Frame
  <2> QED
    BY <1>1, <2>2, <2>3 DEF Reached
<1> QED
  BY <1>1, <1>3, <1>4 DEF IInv, Emitting

LEMMA ResolveAtomStep ==
  ASSUME IInv, Types', ResolveAtom
  PROVE  IInv'
<1>1. phase = "pass" /\ phase' = "pass" /\ prog' = prog /\ sec' = sec /\ todo' = todo /\ pass' = pass
  BY DEF ResolveAtom
<1>2. AllSettled'
  <2>1. \A s \in Secs : ~Stale(s)' => AtFixedPoint(s)'
    BY OthersKept
  <2> QED
    BY <1>1, <2>1 DEF AllSettled, Secs
<1>3. Reached'
  <2>1. sec' \in todo' /\ pass' >= 1
    BY <1>1 DEF IInv, Reached
  <2>2. CASE done'
    BY <1>1, <2>1, <2>2, PassGoesOn DEF Reached
  <2>3. CASE ~done'
    BY <2>1, <2>3 DEF Reached
  <2> QED
    BY <2>2, <2>3
<1> QED
  BY <1>1, <1>2, <1>3 DEF IInv, Emitting

LEMMA NextPassStep ==
  ASSUME IInv, Types', NextPass
  PROVE  IInv'
<1>1. /\ phase = "pass" /\ phase' = "pass" /\ ~done /\ done'
      /\ i' = 1 /\ sec' = sec /\ pc' = [pc EXCEPT ![sec] = Org(sec)] /\ pass' = pass + 1
      /\ UNCHANGED << prog, label, lastsize, deps, todo >>
  BY DEF NextPass, EndPass
<1>2. AllSettled'
  <2>1. Moved /\ Moved'
    BY <1>1 DEF Moved, IInv, Reached, Types
  <2>2. \A s : Stale(s)' <=> Stale(s)
    BY <1>1, <2>1 DEF Stale
  <2>3. \A s : AtFixedPoint(s)' <=> AtFixedPoint(s)
    BY <1>1, Frame
  <2> QED
    BY <1>1, <2>2, <2>3 DEF IInv, AllSettled, Secs
<1>3. Reached'
  <2>1. PICK c : c = sec
    OBVIOUS
  <2>2. pc'[c] = Org(c)
    BY <1>1, <2>1 DEF IInv, Types
  <2>3. Recorded(c, 1)'
    BY <1>1, Beginning, Frame
  <2>4. \E start : Placed(c, start, 1)' /\ pc'[c] = start[1]
    BY <1>1, <2>2, Beginning, Frame
  <2>5. sec' \in todo' /\ pass' >= 1
    BY <1>1 DEF IInv, Reached, Types
  <2> QED
    BY <1>1, <2>1, <2>3, <2>4, <2>5 DEF Reached
<1> QED
  BY <1>1, <1>2, <1>3 DEF IInv, Emitting

LEMMA SectionDoneStep ==
  ASSUME IInv, Types', SectionDone
  PROVE  IInv'
<1>1. /\ phase = "pass" /\ phase' = "resolve" /\ done
      /\ UNCHANGED << prog, sec, label, lastsize, deps, pass, done >>
      /\ todo' = (todo \ {sec}) \cup (IF pass > 1 THEN deps[sec] ELSE {})
  BY DEF SectionDone, EndPass, Todo, passVars
<1>2. AtFixedPoint(sec)
  <2>1. i = Beyond(sec)
    BY SourceTypes DEF SectionDone, EndPass, AtomsLeft, Beyond, IInv, Types
  <2> QED
    BY <1>1, <2>1 DEF AtFixedPoint, IInv, Reached
<1>3. ASSUME NEW s \in Secs, ~Stale(s)'
      PROVE  AtFixedPoint(s)'
  <2>1. s = sec \/ ~Stale(s)
    BY <1>1, <1>3 DEF Stale, Moved
  <2>2. AtFixedPoint(s)
    BY <1>1, <1>2, <2>1 DEF IInv, AllSettled
  <2> QED
    BY <1>1, <2>2, Frame
<1>4. AllSettled'
  BY <1>1, <1>3 DEF AllSettled, Secs
<1> QED
  BY <1>1, <1>4 DEF IInv, Reached, Emitting

LEMMA AssembleStartStep ==
  ASSUME IInv, Types', AssembleStart
  PROVE  IInv'
<1>1. /\ phase = "resolve" /\ phase' = "assemble" /\ todo = {} /\ sec' = 1 /\ i' = 1
      /\ pc' = [pc EXCEPT ![1] = Org(1)]
      /\ UNCHANGED << prog, label, lastsize, deps, todo >>
  BY DEF AssembleStart
<1>2. \A s : AtFixedPoint(s)' <=> AtFixedPoint(s)
  BY <1>1, Frame
<1>3. \A s \in Secs : ~Stale(s) /\ AtFixedPoint(s)
  BY <1>1 DEF IInv, AllSettled, Stale
<1>4. AllSettled'
  BY <1>1, <1>2, <1>3 DEF AllSettled, Secs
<1>5. Emitting'
  <2>1. 1 \in Secs /\ pc'[1] = Org(1)
    BY <1>1, SourceTypes DEF IInv, Types, Secs
  <2>2. PICK start : Placed(1, start, Beyond(1))
    BY <1>3, <2>1 DEF AtFixedPoint
  <2>3. PICK l : l = Beyond(1) /\ l = Beyond(1)'
    BY <1>1 DEF Beyond, Atoms
  <2>4. Placed(1, start, l)'
    BY <1>1, <2>2, <2>3, Frame
  <2>5. pc'[1] = start[1]
    BY <2>1, <2>2 DEF Placed
  <2> QED
    BY <1>1, <2>3, <2>4, <2>5 DEF Emitting
<1> QED
  BY <1>1, <1>4, <1>5 DEF IInv, Reached

LEMMA AssembleAtomStep ==
  ASSUME IInv, Types', AssembleAtom
  PROVE  IInv'
<1>1. /\ phase = "assemble" /\ phase' = "assemble" /\ AtomsLeft /\ i' = i + 1
      /\ pc' = [pc EXCEPT ![sec] = pcalign(Atom, pc[sec]) + atom_size(Atom, pcalign(Atom, pc[sec]))]
      /\ UNCHANGED << prog, sec, label, lastsize, deps, todo >>
  BY DEF AssembleAtom
<1>2. \A s : AtFixedPoint(s)' <=> AtFixedPoint(s)
  BY <1>1, Frame
<1>3. AllSettled'
  BY <1>1, <1>2 DEF IInv, AllSettled, Emitting, Secs, Stale
<1>4. Emitting'
  <2>1. PICK c, k, l : c = sec /\ k = i /\ l = Beyond(sec)
    OBVIOUS
  <2>2. l = Beyond(sec)'
    BY <1>1, <2>1 DEF Beyond, Atoms
  <2>3. PICK start : Placed(c, start, l) /\ pc[c] = start[k]
    BY <1>1, <2>1 DEF IInv, Emitting
  <2>4. k \in 1 .. (l - 1) /\ c \in Secs /\ k \in Int
    BY <1>1, <2>1, SourceTypes DEF AtomsLeft, Beyond, IInv, Types
  <2>5. start[k + 1] = pcalign(Atom, pc[c]) + atom_size(Atom, pcalign(Atom, pc[c]))
    BY <2>1, <2>3, <2>4 DEF Placed, Atom
  <2>6. pc'[c] = start[k + 1]
    BY <1>1, <2>1, <2>4, <2>5 DEF IInv, Types
  <2>7. Placed(c, start, l)'
    BY <1>1, <2>3, Frame
  <2> QED
    BY <1>1, <2>1, <2>2, <2>6, <2>7 DEF IInv, Emitting
<1> QED
  BY <1>1, <1>3, <1>4 DEF IInv, Reached

LEMMA AssembleNextStep ==
  ASSUME IInv, Types', AssembleNext
  PROVE  IInv'
<1>1. phase = "assemble" /\ UNCHANGED << prog, label, lastsize, deps, todo >> /\ todo = {}
  BY DEF AssembleNext, IInv, Emitting
<1>2. CASE phase' # "assemble"
  <2>1. phase' \in {"stopped", "output"}
    BY <1>1, <1>2 DEF AssembleNext
  <2> QED
    BY <2>1 DEF IInv, AllSettled, Reached, Emitting
<1>3. CASE phase' = "assemble"
  <2>1. sec' = sec + 1 /\ i' = 1 /\ pc' = [pc EXCEPT ![sec + 1] = Org(sec + 1)]
    BY <1>3 DEF AssembleNext
  <2>2. \A s \in Secs : AtFixedPoint(s) /\ (AtFixedPoint(s)' <=> AtFixedPoint(s))
    BY <1>1, Frame DEF IInv, AllSettled, Stale
  <2>3. AllSettled'
    BY <1>1, <2>2 DEF AllSettled, Secs
  <2>4. PICK c, l : c = sec + 1 /\ l = Beyond(c)
    OBVIOUS
  <2>5. c \in Secs /\ pc'[c] = Org(c) /\ l = Beyond(c)'
    BY <1>1, <2>1, <2>4 DEF IInv, Types, Beyond, Atoms, Secs
  <2>6. PICK start : Placed(c, start, l)
    BY <2>2, <2>4, <2>5 DEF AtFixedPoint
  <2>7. Placed(c, start, l)'
    BY <1>1, <2>6, Frame
  <2>8. pc'[c] = start[1]
    BY <2>5, <2>6 DEF Placed
  <2>9. Emitting'
    BY <1>1, <2>1, <2>4, <2>5, <2>7, <2>8 DEF Emitting
  <2> QED
    BY <1>3, <2>3, <2>9 DEF IInv, Reached
<1> QED
  BY <1>2, <1>3

LEMMA InvStep == IInv /\ [Next]_allVars => IInv'
<1> SUFFICES ASSUME IInv, [Next]_allVars PROVE IInv'
  OBVIOUS
<1>1. Types'
  BY TypesStep DEF IInv
<1>2. CASE AddAtom \/ GiveUp \/ BinaryNext \/ HexNext
  BY <1>2, StepsOutside
<1>3. CASE EndOfSection
  BY <1>1, <1>3, EndOfSectionStep
<1>4. CASE ResolveSection
  BY <1>1, <1>4, ResolveSectionStep
<1>5. CASE ResolveAtom
  BY <1>1, <1>5, ResolveAtomStep
<1>6. CASE NextPass
  BY <1>1, <1>6, NextPassStep
<1>7. CASE SectionDone
  BY <1>1, <1>7, SectionDoneStep
<1>8. CASE AssembleStart
  BY <1>1, <1>8, AssembleStartStep
<1>9. CASE AssembleAtom
  BY <1>1, <1>9, AssembleAtomStep
<1>10. CASE AssembleNext
  BY <1>1, <1>10, AssembleNextStep
<1>11. CASE UNCHANGED allVars
  <2>1. UNCHANGED vars
    BY <1>11 DEF allVars
  <2> QED
    BY <1>1, <2>1, StutterStep
<1> QED
  BY <1>2, <1>3, <1>4, <1>5, <1>6, <1>7, <1>8, <1>9, <1>10, <1>11 DEF Next, Resolving, ResolverNext

LEMMA InvPlaces == IInv => LabelsPlaced
<1> SUFFICES ASSUME IInv, phase = "assemble", AtomsLeft, IsLabel(Atom)
             PROVE  label[Atom.name] = pc[sec]
  BY DEF LabelsPlaced
<1>1. i \in 1 .. (Beyond(sec) - 1)
  BY SourceTypes DEF AtomsLeft, Beyond, IInv, Types
<1>2. PICK start : Placed(sec, start, Beyond(sec)) /\ pc[sec] = start[i]
  BY DEF IInv, Emitting
<1>3. label[Atom.name] = pcalign(Atom, pc[sec])
  BY <1>1, <1>2 DEF Placed, Atom
<1> QED
  BY <1>3, Kinds

\* Between two sections, a pass over one that is not on the list changes nothing.
SectionsSettled == phase = "resolve" => \A s \in Secs \ todo : AtFixedPoint(s)

(* Whatever resolve() does not mean to visit again would come out of       *)
(* another pass unchanged: the dependencies and the test passes>1          *)
(* (vasm.c:379) lose no section, for any number of sections that refer to  *)
(* each other in any way.                                                  *)
THEOREM SectionsSettle == Spec => []SectionsSettled
<1>1. AssemblerInit => IInv
  BY InvInit
<1>2. IInv /\ [Next]_allVars => IInv'
  BY InvStep
<1>3. IInv => SectionsSettled
  BY DEF IInv, AllSettled, Stale, SectionsSettled
<1> QED
  BY <1>1, <1>2, <1>3, PTL DEF Spec

-----------------------------------------------------------------------------
(* assemble() (vasm.c:387) finds every label at the address resolve() gave *)
(* it, for every set of sources, and whatever the numbers of passes: the   *)
(* references emitted, which use those addresses, are right.               *)
THEOREM LabelsStay == Spec => []LabelsPlaced
<1>1. AssemblerInit => IInv
  BY InvInit
<1>2. IInv /\ [Next]_allVars => IInv'
  BY InvStep
<1>3. IInv => LabelsPlaced
  BY InvPlaces
<1> QED
  BY <1>1, <1>2, <1>3, PTL DEF Spec

-----------------------------------------------------------------------------
(* Only shrinking.  Without -opt-branch an instruction's size depends on   *)
(* nothing but the label of its operand, and is smaller for a lower one.   *)
(* So while no label rises no size does; and a pass that starts at the     *)
(* section's origin and adds up sizes that have not grown meets no label   *)
(* above where the sizes of the pass before have put it.                   *)

\* Aligning an address keeps the order of addresses.
LEMMA AlignMonotone ==
  ASSUME NEW n \in Nat \ {0}, NEW p \in Nat, NEW q \in Nat, p <= q
  PROVE  p + ((-p) % n) \in Nat /\ p + ((-p) % n) <= q + ((-q) % n)
<1>1. PICK u \in Int, v \in Int : u = -p /\ v = -q
  OBVIOUS
<1>2. /\ u % n \in 0 .. (n - 1) /\ v % n \in 0 .. (n - 1)
      /\ u = n * (u \div n) + (u % n) /\ v = n * (v \div n) + (v % n)
      /\ u \div n \in Int /\ v \div n \in Int
  OBVIOUS
<1>3. PICK a \in Int, b \in Int, r \in 0 .. (n - 1), t \in 0 .. (n - 1) :
        a = u \div n /\ b = v \div n /\ r = u % n /\ t = v % n
  BY <1>2
<1>4. u = n * a + r /\ v = n * b + t
  BY <1>2, <1>3
<1>5. r - u <= t - v
  <2>1. CASE a >= b
    <3>1. n * a >= n * b
      BY <2>1
    <3> QED
      BY <1>4, <3>1
  <2>2. CASE a < b
    <3>1. n * (a + 1) <= n * b
      BY <2>2
    <3>2. n * (a + 1) = n * a + n
      OBVIOUS
    <3> QED
      BY <1>1, <1>4, <3>1, <3>2
  <2> QED
    BY <2>1, <2>2
<1>6. (-p) % n = r /\ (-q) % n = t
  BY <1>1, <1>3, Zenon
<1> QED
  BY <1>1, <1>5, <1>6

LEMMA PcAlign ==
  ASSUME NEW at \in AtomRecords, NEW p \in Nat, NEW q \in Nat, p <= q
  PROVE  pcalign(at, p) \in Nat /\ pcalign(at, p) <= pcalign(at, q)
<1>1. CASE at.kind = "align"
  <2>1. at.n \in Nat \ {0}
    BY <1>1 DEF AtomRecords, Instructions
  <2> QED
    BY <1>1, <2>1, AlignMonotone DEF pcalign
<1>2. CASE at.kind # "align"
  BY <1>2 DEF pcalign
<1> QED
  BY <1>1, <1>2

\* Sizes are numbers; without -opt-branch they do not depend on the address.
LEMMA Sizes ==
  ASSUME NEW at \in AtomRecords, ~prog.branchopt
  PROVE  atom_size(at, 0) \in Nat /\ \A p : atom_size(at, p) = atom_size(at, 0)
  BY DEF atom_size, Relaxed, AtomRecords, Instructions

\* Atoms lo to hi of section s lie as start says, by the recorded sizes and labels.
Lies(s, start, lo, hi) ==
  \A j \in lo .. hi :
    LET at == Atoms(s)[j]
        here == pcalign(at, start[j])
    IN /\ start[j] \in Nat
       /\ start[j + 1] = here + lastsize[s][j]
       /\ IsLabel(at) => label[at.name] = here

\* The first k - 1 atoms of s lie from its origin on, and p is where they end.
LiesUpTo(s, k, p) ==
  \E start : start[1] = Org(s) /\ start[k] = p /\ p \in Nat /\ Lies(s, start, 1, k - 1)

\* The others of s lie from some address on that is not below p.
LiesFrom(s, k, p) ==
  \E start : start[k] \in Nat /\ p <= start[k] /\ Lies(s, start, k, Len(Atoms(s)))

LaidOut(s) == \E p : LiesUpTo(s, Beyond(s), p)

\* The first hi atoms of s would not be any larger now.
Fits(s, hi) ==
  \A j \in 1 .. hi :
    lastsize[s][j] \in Nat /\ atom_size(Atoms(s)[j], 0) <= lastsize[s][j]

FitsAll == \A s \in Secs : Fits(s, Len(Atoms(s)))

\* The parser has not come to atom k of section s yet.
Ahead(s, k) == s > sec \/ (s = sec /\ k >= i)

Parsing ==
  /\ \A s \in Secs : s > sec => pc[s] = Org(s)
  /\ LiesUpTo(sec, i, pc[sec]) /\ Fits(sec, i - 1)
  /\ \A s \in Secs : s < sec => LaidOut(s) /\ Fits(s, Len(Atoms(s)))
  /\ \A s \in Secs : \A k \in 1 .. Len(Atoms(s)) :
       Ahead(s, k) /\ IsLabel(Atoms(s)[k]) => label[Atoms(s)[k].name] = IMPORT

Shrinking ==
  ~prog.branchopt =>
    /\ phase = "parse" => Parsing
    /\ phase = "resolve" => FitsAll /\ \A s \in Secs : LaidOut(s)
    /\ phase = "pass" =>
         /\ FitsAll
         /\ \A s \in Secs \ {sec} : LaidOut(s)
         /\ LiesUpTo(sec, i, pc[sec]) /\ LiesFrom(sec, i, pc[sec])

\* What AddAtom and ResolveAtom do to atom k of section c, which gets this size.
Turn(c, k, size) ==
  LET at == Atoms(c)[k]
      here == pcalign(at, pc[c])
  IN /\ prog' = prog
     /\ label' = IF IsLabel(at) THEN [label EXCEPT ![at.name] = here] ELSE label
     /\ lastsize' = [lastsize EXCEPT ![c][k] = size]
     /\ pc' = [pc EXCEPT ![c] = here + size]

LEMMA OtherLabels ==
  ASSUME prog \in Programs, NEW c \in Secs, NEW k \in 1 .. Len(Atoms(c)), IsLabel(Atoms(c)[k]),
         NEW s \in Secs, NEW j \in 1 .. Len(Atoms(s)), IsLabel(Atoms(s)[j]),
         s # c \/ j # k
  PROVE  Atoms(s)[j].name # Atoms(c)[k].name
<1>1. CASE s # c
  <2>1. Atoms(s)[j].name \in LabelsIn(s) /\ Atoms(c)[k].name \in LabelsIn(c)
    BY AtomLabels
  <2> QED
    BY <1>1, <2>1, LabelSecUnique
<1>2. CASE s = c
  BY <1>2, ProgramsAssumption DEF Secs, Atoms, IsLabel
<1> QED
  BY <1>1, <1>2

\* A layout stays while the sizes and the labels in it do.
LEMMA LiesKept ==
  ASSUME prog' = prog, NEW s, NEW start, NEW lo, NEW hi, Lies(s, start, lo, hi),
         \A j \in lo .. hi :
            /\ lastsize'[s][j] = lastsize[s][j]
            /\ IsLabel(Atoms(s)[j]) => label'[Atoms(s)[j].name] = label[Atoms(s)[j].name]
  PROVE  Lies(s, start, lo, hi)'
<1>1. Atoms(s)' = Atoms(s)
  BY DEF Atoms
<1> QED
  BY <1>1 DEF Lies, pcalign, IsLabel

\* What a turn leaves alone.
LEMMA TurnFrame ==
  ASSUME Types, NEW c \in Secs, NEW k \in 1 .. Len(Atoms(c)), NEW size, Turn(c, k, size),
         NEW s \in Secs, NEW j \in 1 .. Len(Atoms(s)), s # c \/ j # k
  PROVE  /\ lastsize'[s][j] = lastsize[s][j]
         /\ IsLabel(Atoms(s)[j]) => label'[Atoms(s)[j].name] = label[Atoms(s)[j].name]
<1>1. lastsize'[s][j] = lastsize[s][j]
  BY DEF Turn, Types
<1>2. ASSUME IsLabel(Atoms(s)[j])
      PROVE  label'[Atoms(s)[j].name] = label[Atoms(s)[j].name]
  <2>1. CASE IsLabel(Atoms(c)[k])
    <3>1. Atoms(s)[j].name # Atoms(c)[k].name
      BY <1>2, <2>1, OtherLabels DEF Types
    <3>2. Atoms(s)[j].name \in Labels /\ DOMAIN label = Labels
      BY <1>2, AtomLabels DEF Types
    <3> QED
      BY <2>1, <3>1, <3>2 DEF Turn
  <2>2. CASE ~IsLabel(Atoms(c)[k])
    BY <2>2 DEF Turn
  <2> QED
    BY <2>1, <2>2
<1> QED
  BY <1>1, <1>2

\* The atom of the turn lies behind those before it.
LEMMA TurnExtends ==
  ASSUME Types, NEW c \in Secs, NEW k \in 1 .. Len(Atoms(c)), NEW size \in Nat,
         Turn(c, k, size), LiesUpTo(c, k, pc[c])
  PROVE  LiesUpTo(c, k + 1, pc[c])'
<1>0. /\ Len(Atoms(c)) \in Nat /\ k \in Nat /\ k >= 1 /\ Atoms(c)[k] \in AtomRecords
      /\ Atoms(c)' = Atoms(c) /\ Org(c)' = Org(c)
  BY SourceTypes DEF Types, Turn, Atoms, Org
<1>1. PICK start : /\ start[1] = Org(c) /\ start[k] = pc[c] /\ pc[c] \in Nat
                   /\ Lies(c, start, 1, k - 1)
  BY DEF LiesUpTo
<1> DEFINE here == pcalign(Atoms(c)[k], pc[c])
<1>2. here \in Nat /\ here + size \in Nat
  <2>1. PICK at \in AtomRecords, p \in Nat : at = Atoms(c)[k] /\ p = pc[c]
    BY <1>0, <1>1
  <2>2. p <= p
    OBVIOUS
  <2>3. pcalign(at, p) \in Nat
    BY <2>2, PcAlign
  <2> QED
    BY <2>1, <2>3
<1>3. /\ pc'[c] = here + size /\ lastsize'[c][k] = size
      /\ IsLabel(Atoms(c)[k]) => label'[Atoms(c)[k].name] = here
  <2>1. IsLabel(Atoms(c)[k]) => Atoms(c)[k].name \in Labels
    BY AtomLabels DEF Types
  <2> QED
    BY <2>1 DEF Turn, Types
<1>4. \A j \in 1 .. (k - 1) :
         /\ lastsize'[c][j] = lastsize[c][j]
         /\ IsLabel(Atoms(c)[j]) => label'[Atoms(c)[j].name] = label[Atoms(c)[j].name]
  BY <1>0, TurnFrame
<1> DEFINE next == [j \in 1 .. (k + 1) |-> IF j = k + 1 THEN here + size ELSE start[j]]
<1>5. (\A j \in 1 .. k : next[j] = start[j]) /\ next[k + 1] = here + size
  BY <1>0
<1> HIDE DEF next
<1>6. ASSUME NEW j \in 1 .. k
      PROVE  LET at == Atoms(c)[j]
                 there == pcalign(at, next[j])
             IN /\ next[j] \in Nat
                /\ next[j + 1] = there + lastsize'[c][j]
                /\ IsLabel(at) => label'[at.name] = there
  <2>1. CASE j < k
    <3>1. j \in 1 .. (k - 1) /\ j + 1 \in 1 .. k
      BY <1>0, <2>1
    <3>2. next[j] = start[j] /\ next[j + 1] = start[j + 1]
      BY <1>5, <3>1
    <3>3. /\ start[j] \in Nat
          /\ start[j + 1] = pcalign(Atoms(c)[j], start[j]) + lastsize[c][j]
          /\ IsLabel(Atoms(c)[j]) => label[Atoms(c)[j].name] = pcalign(Atoms(c)[j], start[j])
      BY <1>1, <3>1 DEF Lies
    <3> QED
      BY <1>4, <3>1, <3>2, <3>3
  <2>2. CASE j = k
    BY <1>0, <1>1, <1>3, <1>5, <2>2
  <2>3. j < k \/ j = k
    BY <1>0
  <2> QED
    BY <2>1, <2>2, <2>3
<1>7. PICK nx : nx = next
  OBVIOUS
<1>8. Lies(c, nx, 1, k)'
  BY <1>0, <1>6, <1>7 DEF Lies, pcalign, IsLabel
<1>9. nx[1] = Org(c) /\ nx[k + 1] = pc'[c] /\ pc'[c] \in Nat /\ (k + 1) - 1 = k
  BY <1>0, <1>1, <1>2, <1>3, <1>5, <1>7
<1> QED
  BY <1>0, <1>8, <1>9 DEF LiesUpTo

\* Another section is not moved by a turn.
LEMMA TurnElsewhere ==
  ASSUME Types, NEW c \in Secs, NEW k \in 1 .. Len(Atoms(c)), NEW size, Turn(c, k, size),
         NEW s \in Secs, s # c, LaidOut(s)
  PROVE  LaidOut(s)'
<1>0. /\ Len(Atoms(s)) \in Nat /\ Beyond(s) - 1 = Len(Atoms(s))
      /\ Beyond(s)' = Beyond(s) /\ Org(s)' = Org(s)
  BY SourceTypes DEF Types, Turn, Atoms, Org, Beyond
<1>1. PICK p, start : /\ start[1] = Org(s) /\ start[Beyond(s)] = p /\ p \in Nat
                      /\ Lies(s, start, 1, Len(Atoms(s)))
  BY <1>0 DEF LaidOut, LiesUpTo
<1>2. \A j \in 1 .. Len(Atoms(s)) :
         /\ lastsize'[s][j] = lastsize[s][j]
         /\ IsLabel(Atoms(s)[j]) => label'[Atoms(s)[j].name] = label[Atoms(s)[j].name]
  BY TurnFrame
<1>3. PICK hi : hi = Len(Atoms(s))
  OBVIOUS
<1>4. Lies(s, start, 1, hi)'
  BY <1>1, <1>2, <1>3, LiesKept DEF Turn
<1>5. PICK b : b = Beyond(s) /\ b - 1 = hi
  BY <1>0, <1>3
<1>6. LiesUpTo(s, b, p)'
  BY <1>0, <1>1, <1>4, <1>5 DEF LiesUpTo
<1> QED
  BY <1>0, <1>5, <1>6 DEF LaidOut

LEMMA SizeFalls ==
  ASSUME ~prog.branchopt, prog' = prog, NEW at \in AtomRecords,
         IsInstruction(at) => \/ label'[at.to] = label[at.to]
                              \/ label[at.to] = IMPORT
                              \/ label'[at.to] \in Nat /\ label[at.to] \in Nat
                                   /\ label'[at.to] <= label[at.to]
  PROVE  atom_size(at, 0)' \in Nat /\ atom_size(at, 0)' <= atom_size(at, 0)
<1>1. CASE at.kind = "zpabs"
  BY <1>1 DEF atom_size, IsInstruction, Instructions, IMPORT
<1>2. CASE at.kind # "zpabs"
  BY <1>2, Sizes DEF atom_size, Relaxed, AtomRecords, Instructions
<1> QED
  BY <1>1, <1>2

\* A turn that gives no label a higher value makes no instruction larger.
Lowering(c, k) ==
  LET at == Atoms(c)[k]
      here == pcalign(at, pc[c])
  IN /\ ~prog.branchopt
     /\ IsLabel(at) => \/ label[at.name] = IMPORT
                       \/ here \in Nat /\ label[at.name] \in Nat /\ here <= label[at.name]

LEMMA TurnLowers ==
  ASSUME Types, NEW c \in Secs, NEW k \in 1 .. Len(Atoms(c)), NEW size, Turn(c, k, size),
         Lowering(c, k), NEW s \in Secs, NEW j \in 1 .. Len(Atoms(s))
  PROVE  /\ atom_size(Atoms(s)[j], 0)' \in Nat
         /\ atom_size(Atoms(s)[j], 0)' <= atom_size(Atoms(s)[j], 0)
<1>1. PICK at \in AtomRecords : at = Atoms(s)[j]
  BY SourceTypes DEF Types
<1>2. Atoms(s)[j]' = at /\ prog' = prog
  BY <1>1 DEF Turn, Atoms
<1>3. ASSUME IsInstruction(at)
      PROVE  \/ label'[at.to] = label[at.to]
             \/ label[at.to] = IMPORT
             \/ label'[at.to] \in Nat /\ label[at.to] \in Nat /\ label'[at.to] <= label[at.to]
  <2>1. at.to \in Labels /\ DOMAIN label = Labels
    BY <1>1, <1>3, Operands DEF Types, Labels
  <2> QED
    BY <2>1 DEF Turn, Lowering
<1>4. atom_size(at, 0)' \in Nat /\ atom_size(at, 0)' <= atom_size(at, 0)
  BY <1>2, <1>3, SizeFalls DEF Lowering
<1> QED
  BY <1>1, <1>2, <1>4

LEMMA TurnFits ==
  ASSUME Types, NEW c \in Secs, NEW k \in 1 .. Len(Atoms(c)), NEW size \in Nat,
         Turn(c, k, size), Lowering(c, k), atom_size(Atoms(c)[k], 0) <= size,
         NEW s \in Secs, NEW hi \in 0 .. Len(Atoms(s)),
         \A j \in 1 .. hi : s # c \/ j # k =>
            lastsize[s][j] \in Nat /\ atom_size(Atoms(s)[j], 0) <= lastsize[s][j]
  PROVE  Fits(s, hi)'
<1>0. Len(Atoms(s)) \in Nat /\ \A j \in 1 .. Len(Atoms(s)) : Atoms(s)[j] \in AtomRecords
  BY SourceTypes DEF Types
<1>1. ASSUME NEW j \in 1 .. hi
      PROVE  lastsize'[s][j] \in Nat /\ atom_size(Atoms(s)[j], 0)' <= lastsize'[s][j]
  <2>1. j \in 1 .. Len(Atoms(s))
    BY <1>0
  <2>2. /\ atom_size(Atoms(s)[j], 0)' \in Nat
        /\ atom_size(Atoms(s)[j], 0)' <= atom_size(Atoms(s)[j], 0)
    BY <2>1, TurnLowers
  <2>3. atom_size(Atoms(s)[j], 0) \in Nat
    BY <1>0, <2>1, Sizes DEF Lowering
  <2>4. CASE s = c /\ j = k
    <3>1. lastsize'[s][j] = size
      BY <2>1, <2>4 DEF Turn, Types
    <3> QED
      BY <2>2, <2>3, <2>4, <3>1
  <2>5. CASE s # c \/ j # k
    <3>1. lastsize'[s][j] = lastsize[s][j]
      BY <2>1, <2>5, TurnFrame
    <3> QED
      BY <2>2, <2>3, <2>5, <3>1
  <2> QED
    BY <2>4, <2>5
<1>2. PICK h : h = hi
  OBVIOUS
<1> QED
  BY <1>1, <1>2 DEF Fits

\* A step that leaves labels and sizes alone leaves every layout alone.
LEMMA LayoutFrame ==
  ASSUME UNCHANGED << prog, label, lastsize >>, NEW s, NEW k, NEW p
  PROVE  /\ LiesUpTo(s, k, p)' <=> LiesUpTo(s, k, p)
         /\ LiesFrom(s, k, p)' <=> LiesFrom(s, k, p)
         /\ LaidOut(s)' <=> LaidOut(s)
         /\ Fits(s, k)' <=> Fits(s, k)
         /\ Beyond(s)' = Beyond(s) /\ Atoms(s)' = Atoms(s) /\ Org(s)' = Org(s)
<1>1. Beyond(s)' = Beyond(s) /\ Atoms(s)' = Atoms(s) /\ Org(s)' = Org(s)
  BY DEF Beyond, Atoms, Org
<1>2. ASSUME NEW start, NEW lo, NEW hi
      PROVE  Lies(s, start, lo, hi)' <=> Lies(s, start, lo, hi)
  BY <1>1 DEF Lies, pcalign, IsLabel
<1>3. ASSUME NEW l, NEW q
      PROVE  LiesUpTo(s, l, q)' <=> LiesUpTo(s, l, q)
  BY <1>1, <1>2 DEF LiesUpTo
<1>4. LiesFrom(s, k, p)' <=> LiesFrom(s, k, p)
  <2>1. PICK n : n = Len(Atoms(s)) /\ n = Len(Atoms(s))'
    BY <1>1
  <2> QED
    BY <1>2, <2>1 DEF LiesFrom
<1>5. LaidOut(s)' <=> LaidOut(s)
  <2>1. PICK b : b = Beyond(s) /\ b = Beyond(s)'
    BY <1>1
  <2> QED
    BY <1>3, <2>1 DEF LaidOut
<1>6. Fits(s, k)' <=> Fits(s, k)
  BY <1>1 DEF Fits, atom_size, Relaxed, InRange
<1> QED
  BY <1>1, <1>3, <1>4, <1>5, <1>6

\* A pass over a section that is laid out begins with all of it ahead.
LEMMA PassBegins ==
  ASSUME Types, NEW c \in Secs, LaidOut(c)
  PROVE  LiesUpTo(c, 1, Org(c)) /\ LiesFrom(c, 1, Org(c))
<1>1. PICK p, start : /\ start[1] = Org(c) /\ start[Beyond(c)] = p /\ p \in Nat
                      /\ Lies(c, start, 1, Beyond(c) - 1)
  BY DEF LaidOut, LiesUpTo
<1>2. Len(Atoms(c)) \in Nat /\ Beyond(c) - 1 = Len(Atoms(c)) /\ Beyond(c) = Len(Atoms(c)) + 1
  BY SourceTypes DEF Types, Beyond
<1>3. Org(c) \in Nat
  <2>1. CASE Len(Atoms(c)) = 0
    BY <1>1, <1>2, <2>1
  <2>2. CASE Len(Atoms(c)) # 0
    BY <1>1, <1>2, <2>2 DEF Lies
  <2> QED
    BY <2>1, <2>2
<1>4. LiesUpTo(c, 1, Org(c))
  BY <1>1, <1>3 DEF LiesUpTo, Lies
<1>5. LiesFrom(c, 1, Org(c))
  BY <1>1, <1>2, <1>3 DEF LiesFrom
<1> QED
  BY <1>4, <1>5

\* So does parsing one.
LEMMA ParsingBegins ==
  ASSUME Types, NEW c \in Secs
  PROVE  LiesUpTo(c, 1, Org(c)) /\ Fits(c, 0)
<1>1. Org(c) \in Nat
  <2>1. prog.sections[c] \in [org : Nat, atoms : Seq(AtomRecords)]
    <3>1. prog.sections \in Seq([org : Nat, atoms : Seq(AtomRecords)])
      BY ProgramsAssumption DEF Types
    <3> QED
      BY <3>1, ElementOfSeq, Zenon DEF Secs
  <2> QED
    BY <2>1 DEF Org
<1> DEFINE first == [j \in {1} |-> Org(c)]
<1>2. first[1] = Org(c)
  OBVIOUS
<1> HIDE DEF first
<1>3. Lies(c, first, 1, 0)
  BY DEF Lies
<1> QED
  BY <1>1, <1>2, <1>3 DEF LiesUpTo, Fits

LEMMA ShrinkInit == AssemblerInit => Shrinking
<1> SUFFICES ASSUME AssemblerInit PROVE Parsing /\ phase = "parse"
  BY DEF Shrinking, AssemblerInit, Init
<1>0. Types
  BY TypesInit
<1>1. /\ phase = "parse" /\ sec = 1 /\ i = 1 /\ pc = [s \in Secs |-> Org(s)]
      /\ label = [n \in Labels |-> IMPORT]
  BY DEF AssemblerInit, Init
<1>2. \A s \in Secs : s \in Nat /\ s >= 1
  BY <1>0, SourceTypes DEF Types, Secs
<1>3. LiesUpTo(1, 1, pc[1]) /\ Fits(1, 0) /\ 1 \in Secs
  BY <1>0, <1>1, ParsingBegins DEF Types
<1>4. \A s \in Secs : \A k \in 1 .. Len(Atoms(s)) :
         IsLabel(Atoms(s)[k]) => label[Atoms(s)[k].name] = IMPORT
  BY <1>0, <1>1, AtomLabels DEF Types
<1> QED
  BY <1>1, <1>2, <1>3, <1>4 DEF Parsing

\* The parser: a label has no value until it is met, so it can only lower sizes.
LEMMA ShrinkAddAtom ==
  ASSUME Types, Shrinking, AddAtom PROVE Shrinking'
<1> SUFFICES ASSUME ~prog.branchopt PROVE Parsing' /\ phase' = "parse"
  BY DEF Shrinking, AddAtom
<1>1. PICK c, k : c = sec /\ k = i
  OBVIOUS
<1>2. /\ c \in Secs /\ k \in 1 .. Len(Atoms(c)) /\ Len(Atoms(c)) \in Nat
      /\ \A s \in Secs : s \in Nat /\ Len(Atoms(s)) \in Nat
      /\ Atoms(c)[k] \in AtomRecords /\ Atom = Atoms(c)[k]
  BY <1>1, SourceTypes DEF AddAtom, AtomsLeft, Atom, Types, Beyond, Secs
<1> DEFINE here == pcalign(Atoms(c)[k], pc[c])
<1>3. PICK size : size = atom_size(Atoms(c)[k], here)
  OBVIOUS
<1>4. size \in Nat /\ atom_size(Atoms(c)[k], 0) = size
  BY <1>2, <1>3, Sizes
<1>5. /\ Turn(c, k, size) /\ phase = "parse" /\ phase' = "parse" /\ sec' = c /\ i' = k + 1
  BY <1>1, <1>2, <1>3 DEF AddAtom, Turn
<1>6. Parsing
  BY <1>5 DEF Shrinking
<1>7. Lowering(c, k)
  BY <1>1, <1>2, <1>6 DEF Lowering, Parsing, Ahead
<1>8. LiesUpTo(c, k + 1, pc[c])'
  BY <1>1, <1>2, <1>4, <1>5, <1>6, TurnExtends DEF Parsing
<1>9. Fits(c, k)'
  <2>1. \A j \in 1 .. k : c # c \/ j # k =>
           lastsize[c][j] \in Nat /\ atom_size(Atoms(c)[j], 0) <= lastsize[c][j]
    BY <1>1, <1>2, <1>6 DEF Parsing, Fits
  <2>2. k \in 0 .. Len(Atoms(c)) /\ atom_size(Atoms(c)[k], 0) <= size
    BY <1>2, <1>4
  <2> QED
    BY <1>2, <1>4, <1>5, <1>7, <2>1, <2>2, TurnFits
<1>10. ASSUME NEW s \in Secs, s < c
       PROVE  LaidOut(s)' /\ Fits(s, Len(Atoms(s)))'
  <2>1. LaidOut(s) /\ Fits(s, Len(Atoms(s))) /\ s # c
    BY <1>1, <1>2, <1>6, <1>10 DEF Parsing
  <2>2. LaidOut(s)'
    BY <1>2, <1>5, <2>1, TurnElsewhere
  <2>7. Atoms(s)' = Atoms(s) /\ Len(Atoms(s)) \in 0 .. Len(Atoms(s))
    BY <1>2, <1>5 DEF Turn, Atoms
  <2>3. PICK hi : hi = Len(Atoms(s)) /\ hi = Len(Atoms(s))' /\ hi \in 0 .. Len(Atoms(s))
    BY <2>7
  <2>4. \A j \in 1 .. hi : s # c \/ j # k =>
           lastsize[s][j] \in Nat /\ atom_size(Atoms(s)[j], 0) <= lastsize[s][j]
    BY <2>1, <2>3 DEF Fits
  <2>5. atom_size(Atoms(c)[k], 0) <= size
    BY <1>4
  <2>6. Fits(s, hi)'
    BY <1>2, <1>4, <1>5, <1>7, <2>3, <2>4, <2>5, TurnFits
  <2> QED
    BY <2>2, <2>3, <2>6
<1>11. ASSUME NEW s \in Secs, NEW l \in 1 .. Len(Atoms(s)),
              s > c \/ (s = c /\ l >= k + 1), IsLabel(Atoms(s)[l])
       PROVE  label'[Atoms(s)[l].name] = IMPORT
  <2>1. label[Atoms(s)[l].name] = IMPORT
    BY <1>1, <1>2, <1>6, <1>11 DEF Parsing, Ahead
  <2>2. s # c \/ l # k
    BY <1>2, <1>11
  <2> QED
    BY <1>2, <1>5, <1>11, <2>1, <2>2, TurnFrame
<1>12. /\ Secs' = Secs /\ \A s : Atoms(s)' = Atoms(s) /\ Org(s)' = Org(s)
  BY <1>5 DEF Turn, Secs, Atoms, Org
<1>13. \A s \in Secs : s > c => pc'[s] = Org(s)
  BY <1>1, <1>2, <1>5, <1>6 DEF Parsing, Turn, Types
<1>14. PICK n : n = k + 1 /\ n - 1 = k /\ n = i' /\ n = k + 1
  BY <1>2, <1>5
<1>15. LiesUpTo(sec, i, pc[sec])' /\ Fits(sec, i - 1)'
  <2>1. (LiesUpTo(c, n, pc[c])' /\ Fits(c, n - 1)')
    BY <1>8, <1>9, <1>14
  <2> QED
    BY <1>5, <1>14, <2>1
<1>16. \A s \in Secs : s < c => LaidOut(s)' /\ Fits(s, Len(Atoms(s)))'
  BY <1>10
<1>17. \A s \in Secs : \A l \in 1 .. Len(Atoms(s)) :
          (s > c \/ (s = c /\ l >= k + 1)) /\ IsLabel(Atoms(s)[l])
             => label'[Atoms(s)[l].name] = IMPORT
  BY <1>11
<1>18. (\A s \in Secs : s < sec => LaidOut(s) /\ Fits(s, Len(Atoms(s))))'
  BY <1>5, <1>12, <1>16
<1>19. (\A s \in Secs : \A l \in 1 .. Len(Atoms(s)) :
          Ahead(s, l) /\ IsLabel(Atoms(s)[l]) => label[Atoms(s)[l].name] = IMPORT)'
  BY <1>5, <1>12, <1>17 DEF Ahead, IsLabel
<1>20. (\A s \in Secs : s > sec => pc[s] = Org(s))'
  BY <1>5, <1>12, <1>13
<1> QED
  BY <1>5, <1>15, <1>18, <1>19, <1>20 DEF Parsing

\* The end of a text or section: its atoms are laid out.
LEMMA ShrinkEndOfSection ==
  ASSUME Types, Shrinking, EndOfSection PROVE Shrinking'
<1> SUFFICES ASSUME ~prog.branchopt
             PROVE  \/ Parsing' /\ phase' = "parse"
                    \/ phase' = "resolve" /\ (FitsAll /\ \A s \in Secs : LaidOut(s))'
  BY DEF Shrinking, EndOfSection
<1>1. /\ UNCHANGED << prog, pc, label, lastsize >> /\ phase = "parse" /\ i' = 1 /\ i = Beyond(sec)
      /\ Len(Atoms(sec)) = i - 1 /\ sec \in Secs
  BY SourceTypes DEF EndOfSection, AtomsLeft, Beyond, Types
<1>2. Parsing
  BY <1>1 DEF Shrinking
<1>3. LaidOut(sec) /\ Fits(sec, Len(Atoms(sec)))
  BY <1>1, <1>2 DEF Parsing, LaidOut
<1>4. \A s \in Secs : s <= sec => LaidOut(s) /\ Fits(s, Len(Atoms(s)))
  BY <1>1, <1>2, <1>3 DEF Parsing, Secs
<1>5. \A s : LaidOut(s)' <=> LaidOut(s)
  BY <1>1, LayoutFrame
<1>6. \A s, k : Fits(s, k)' <=> Fits(s, k)
  BY <1>1, LayoutFrame
<1>7. Secs' = Secs /\ \A s : Atoms(s)' = Atoms(s) /\ Org(s)' = Org(s)
  BY <1>1 DEF Secs, Atoms, Org
<1>8. CASE sec < Len(prog.sections)
  <2>1. sec' = sec + 1 /\ phase' = "parse" /\ sec + 1 \in Secs
    BY <1>1, <1>8 DEF EndOfSection, Secs
  <2>2. PICK c \in Secs : c = sec + 1
    BY <2>1
  <2>3. LiesUpTo(c, 1, Org(c)) /\ Fits(c, 0) /\ pc[c] = Org(c)
    BY <1>1, <1>2, <2>2, ParsingBegins DEF Parsing, Secs
  <2>4. LiesUpTo(c, 1, pc[c])' /\ Fits(c, 0)'
    <3>1. PICK p : p = pc[c] /\ p = pc[c]'
      BY <1>1
    <3>2. LiesUpTo(c, 1, p)'
      BY <1>1, <2>3, <3>1, LayoutFrame
    <3> QED
      BY <1>6, <2>3, <3>1, <3>2
  <2>5. (LiesUpTo(sec, i, pc[sec]) /\ Fits(sec, i - 1))'
    <3>1. PICK z : z = 0 /\ z = i' - 1
      BY <1>1
    <3> QED
      BY <1>1, <2>1, <2>2, <2>4, <3>1
  <2>6. (\A s \in Secs : s > sec => pc[s] = Org(s))'
    BY <1>1, <1>2, <1>7, <2>1 DEF Parsing, Secs
  <2>7. (\A s \in Secs : s < sec => LaidOut(s) /\ Fits(s, Len(Atoms(s))))'
    <3>1. \A s \in Secs : s < sec' => s <= sec
      BY <1>1, <2>1 DEF Secs
    <3> QED
      BY <1>4, <1>5, <1>6, <1>7, <3>1
  <2>8. (\A s \in Secs : \A k \in 1 .. Len(Atoms(s)) :
           Ahead(s, k) /\ IsLabel(Atoms(s)[k]) => label[Atoms(s)[k].name] = IMPORT)'
    <3>1. \A s \in Secs : \A k \in 1 .. Len(Atoms(s)) : Ahead(s, k)' => Ahead(s, k)
      BY <1>1, <2>1 DEF Ahead, Secs
    <3> QED
      BY <1>1, <1>2, <1>7, <3>1 DEF Parsing, IsLabel
  <2> QED
    BY <2>1, <2>5, <2>6, <2>7, <2>8 DEF Parsing
<1>9. CASE sec >= Len(prog.sections)
  <2>1. phase' = "resolve" /\ \A s \in Secs : s <= sec
    BY <1>1, <1>9, SourceTypes DEF EndOfSection, Secs, Types
  <2> QED
    BY <1>4, <1>5, <1>6, <1>7, <2>1 DEF FitsAll
<1> QED
  BY <1>1, <1>8, <1>9, SourceTypes DEF Secs, Types

\* Steps that leave labels and sizes alone, a pass beginning or not.
LEMMA ShrinkUnmoved ==
  ASSUME Shrinking, UNCHANGED << prog, label, lastsize >>,
         ~(phase' = "parse"),
         phase' = "resolve" => \/ phase = "resolve"
                               \/ phase = "pass" /\ LaidOut(sec),
         phase' = "pass" => /\ phase \in {"resolve", "pass"} /\ sec' \in Secs
                            /\ i' = 1 /\ pc'[sec'] = Org(sec')
                            /\ phase = "pass" => sec' = sec /\ LaidOut(sec),
         Types
  PROVE  Shrinking'
<1> SUFFICES ASSUME ~prog.branchopt, phase' \in {"resolve", "pass"}
             PROVE  /\ FitsAll'
                    /\ phase' = "resolve" => \A s \in Secs : LaidOut(s)'
                    /\ phase' = "pass" =>
                         /\ \A s \in Secs : LaidOut(s)'
                         /\ (LiesUpTo(sec, i, pc[sec]) /\ LiesFrom(sec, i, pc[sec]))'
  <2>1. Secs' = Secs
    BY DEF Secs
  <2> QED
    BY <2>1 DEF Shrinking
<1>1. /\ phase \in {"resolve", "pass"} /\ FitsAll /\ \A s \in Secs : LaidOut(s)
  BY DEF Shrinking
<1>2. \A s : LaidOut(s)' <=> LaidOut(s)
  BY LayoutFrame
<1>3. FitsAll'
  <2>1. \A s, k : Fits(s, k)' <=> Fits(s, k)
    BY LayoutFrame
  <2>2. Secs' = Secs /\ \A s : Atoms(s)' = Atoms(s)
    BY DEF Secs, Atoms
  <2> QED
    BY <1>1, <2>1, <2>2 DEF FitsAll
<1>4. ASSUME phase' = "pass"
      PROVE  (LiesUpTo(sec, i, pc[sec]) /\ LiesFrom(sec, i, pc[sec]))'
  <2>1. PICK c \in Secs : c = sec'
    BY <1>4
  <2>2. PICK p : p = Org(c) /\ p = pc'[c]
    BY <1>4, <2>1
  <2>3. LiesUpTo(c, 1, p) /\ LiesFrom(c, 1, p)
    BY <1>1, <2>2, PassBegins
  <2>4. LiesUpTo(c, 1, p)' /\ LiesFrom(c, 1, p)'
    BY <2>3, LayoutFrame
  <2>5. PICK n : n = 1 /\ n = i'
    BY <1>4
  <2> QED
    BY <2>1, <2>2, <2>4, <2>5
<1> QED
  BY <1>1, <1>2, <1>3, <1>4

\* What a turn of a pass over a section does to the atom it comes to.
LEMMA PassTurn ==
  ASSUME Types, Shrinking, ~prog.branchopt, ResolveAtom
  PROVE  \E size \in Nat :
            /\ Turn(sec, i, size) /\ Lowering(sec, i)
            /\ lastsize[sec][i] \in Nat /\ size <= lastsize[sec][i]
            /\ atom_size(Atoms(sec)[i], 0) <= size
            /\ IsLabel(Atoms(sec)[i]) =>
                 pcalign(Atoms(sec)[i], pc[sec]) <= label[Atoms(sec)[i].name]
            /\ LiesFrom(sec, i + 1, pcalign(Atoms(sec)[i], pc[sec]) + size)
<1>1. PICK c, k : c = sec /\ k = i
  OBVIOUS
<1>2. /\ c \in Secs /\ k \in 1 .. Len(Atoms(c)) /\ Len(Atoms(c)) \in Nat
      /\ Atoms(c)[k] \in AtomRecords /\ Atom = Atoms(c)[k]
  BY <1>1, SourceTypes DEF ResolveAtom, AtomsLeft, Atom, Types, Beyond
<1>3. /\ Fits(c, Len(Atoms(c))) /\ LiesUpTo(c, k, pc[c]) /\ LiesFrom(c, k, pc[c])
  BY <1>1, <1>2 DEF Shrinking, ResolveAtom, FitsAll
<1>4. PICK start : /\ start[k] \in Nat /\ pc[c] <= start[k] /\ Lies(c, start, k, Len(Atoms(c)))
  BY <1>3 DEF LiesFrom
<1>5. PICK p \in Nat, at \in AtomRecords : p = pc[c] /\ at = Atoms(c)[k]
  BY <1>2, <1>3 DEF LiesUpTo
<1>6. PICK there : there = pcalign(at, start[k])
  OBVIOUS
<1>7. PICK here : here = pcalign(at, p)
  OBVIOUS
<1>8. here \in Nat /\ there \in Nat /\ here <= there
  <2>1. PICK q \in Nat : q = start[k] /\ p <= q
    BY <1>4, <1>5
  <2>2. here \in Nat /\ here <= pcalign(at, q)
    BY <1>7, <2>1, PcAlign
  <2>3. pcalign(at, q) \in Nat
    BY <2>1, PcAlign
  <2> QED
    BY <1>6, <2>1, <2>2, <2>3
<1>9. PICK old : old = lastsize[c][k]
  OBVIOUS
<1>10. old \in Nat /\ atom_size(at, 0) \in Nat /\ atom_size(at, 0) <= old
  BY <1>2, <1>3, <1>5, <1>9, Sizes DEF Fits
<1>11. PICK size : size = IF Skipped THEN old ELSE atom_size(at, here)
  OBVIOUS
<1>12. size \in Nat /\ size <= old /\ atom_size(at, 0) <= size
  BY <1>10, <1>11, Sizes
<1>13. Turn(c, k, size)
  BY <1>1, <1>2, <1>5, <1>7, <1>9, <1>11 DEF ResolveAtom, Turn
<1>14. start[k + 1] = there + old /\ (IsLabel(at) => label[at.name] = there)
  BY <1>2, <1>4, <1>5, <1>6, <1>9 DEF Lies
<1>15. Lowering(c, k)
  BY <1>5, <1>7, <1>8, <1>14 DEF Lowering
<1>16. LiesFrom(c, k + 1, here + size)
  <2>1. start[k + 1] \in Nat /\ here + size <= start[k + 1]
    BY <1>8, <1>10, <1>12, <1>14
  <2>2. Lies(c, start, k + 1, Len(Atoms(c)))
    BY <1>2, <1>4 DEF Lies
  <2> QED
    BY <2>1, <2>2 DEF LiesFrom
<1> QED
  BY <1>1, <1>5, <1>7, <1>8, <1>9, <1>10, <1>12, <1>13, <1>14, <1>15, <1>16

LEMMA ShrinkResolveAtom ==
  ASSUME Types, Shrinking, ResolveAtom PROVE Shrinking'
<1> SUFFICES ASSUME ~prog.branchopt
             PROVE  /\ phase' = "pass" /\ FitsAll'
                    /\ (\A s \in Secs \ {sec} : LaidOut(s))'
                    /\ (LiesUpTo(sec, i, pc[sec]) /\ LiesFrom(sec, i, pc[sec]))'
  BY DEF Shrinking, ResolveAtom
<1>1. PICK c, k : c = sec /\ k = i
  OBVIOUS
<1>2. /\ c \in Secs /\ k \in 1 .. Len(Atoms(c)) /\ Len(Atoms(c)) \in Nat
      /\ \A s \in Secs : Len(Atoms(s)) \in Nat
      /\ phase = "pass" /\ phase' = "pass" /\ sec' = c /\ i' = k + 1
  BY <1>1, SourceTypes DEF ResolveAtom, AtomsLeft, Types, Beyond
<1>3. PICK size \in Nat :
         /\ Turn(c, k, size) /\ Lowering(c, k) /\ atom_size(Atoms(c)[k], 0) <= size
         /\ LiesFrom(c, k + 1, pcalign(Atoms(c)[k], pc[c]) + size)
  BY <1>1, PassTurn
<1>4. /\ Secs' = Secs /\ \A s : Atoms(s)' = Atoms(s) /\ Org(s)' = Org(s)
      /\ pc'[c] = pcalign(Atoms(c)[k], pc[c]) + size
  BY <1>2, <1>3 DEF Turn, Secs, Atoms, Org, Types
<1>5. FitsAll /\ LiesUpTo(c, k, pc[c]) /\ \A s \in Secs \ {c} : LaidOut(s)
  BY <1>1, <1>2 DEF Shrinking
<1>6. \A s \in Secs \ {c} : LaidOut(s)'
  BY <1>2, <1>3, <1>5, TurnElsewhere
<1>7. ASSUME NEW s \in Secs
      PROVE  Fits(s, Len(Atoms(s)))'
  <2>1. PICK hi : hi = Len(Atoms(s)) /\ hi = Len(Atoms(s))' /\ hi \in 0 .. Len(Atoms(s))
    <3>1. Atoms(s)' = Atoms(s) /\ Len(Atoms(s)) \in 0 .. Len(Atoms(s))
      BY <1>2, <1>4
    <3> QED
      BY <3>1
  <2>2. \A j \in 1 .. hi : s # c \/ j # k =>
           lastsize[s][j] \in Nat /\ atom_size(Atoms(s)[j], 0) <= lastsize[s][j]
    BY <1>5, <2>1 DEF FitsAll, Fits
  <2>3. Fits(s, hi)'
    BY <1>2, <1>3, <2>1, <2>2, TurnFits
  <2> QED
    BY <2>1, <2>3
<1>8. LiesUpTo(c, k + 1, pc[c])'
  BY <1>2, <1>3, <1>5, TurnExtends
<1>9. LiesFrom(c, k + 1, pc[c])'
  <2>1. PICK start : /\ start[k + 1] \in Nat /\ pc'[c] <= start[k + 1]
                     /\ Lies(c, start, k + 1, Len(Atoms(c)))
    BY <1>3, <1>4 DEF LiesFrom
  <2>2. \A j \in (k + 1) .. Len(Atoms(c)) :
           /\ lastsize'[c][j] = lastsize[c][j]
           /\ IsLabel(Atoms(c)[j]) => label'[Atoms(c)[j].name] = label[Atoms(c)[j].name]
    BY <1>2, <1>3, TurnFrame
  <2>3. PICK lo, hi : lo = k + 1 /\ hi = Len(Atoms(c)) /\ hi = Len(Atoms(c))'
    BY <1>4
  <2>4. Lies(c, start, lo, hi)'
    BY <1>3, <2>1, <2>2, <2>3, LiesKept DEF Turn
  <2> QED
    BY <2>1, <2>3, <2>4 DEF LiesFrom
<1>10. (LiesUpTo(sec, i, pc[sec]) /\ LiesFrom(sec, i, pc[sec]))'
  <2>1. PICK n : n = k + 1 /\ n = i'
    BY <1>2
  <2>2. LiesUpTo(c, n, pc[c])' /\ LiesFrom(c, n, pc[c])'
    BY <1>8, <1>9, <2>1
  <2> QED
    BY <1>2, <2>1, <2>2
<1> QED
  BY <1>2, <1>4, <1>6, <1>7, <1>10 DEF FitsAll

LEMMA ShrinkStep ==
  ASSUME Types, Shrinking, [Next]_allVars PROVE Shrinking'
<1>0. ASSUME phase = "pass", ~AtomsLeft, ~prog.branchopt
      PROVE  LaidOut(sec)
  <2>1. i = Beyond(sec) /\ sec \in Secs
    BY <1>0, SourceTypes DEF AtomsLeft, Beyond, Types
  <2> QED
    BY <1>0, <2>1 DEF Shrinking, LaidOut
<1>p. prog' = prog => Shrinking' \/ ~prog.branchopt
  BY DEF Shrinking
<1>1. CASE AddAtom
  BY <1>1, ShrinkAddAtom
<1>2. CASE EndOfSection
  BY <1>2, ShrinkEndOfSection
<1>3. CASE ResolveSection
  <2>1. /\ UNCHANGED << prog, label, lastsize >> /\ phase = "resolve" /\ phase' = "pass"
        /\ sec' \in Secs /\ i' = 1 /\ pc'[sec'] = Org(sec')
    BY <1>3 DEF ResolveSection, Types
  <2> QED
    BY <2>1, ShrinkUnmoved
<1>4. CASE ResolveAtom
  BY <1>4, ShrinkResolveAtom
<1>5. CASE NextPass
  BY <1>0, <1>5, <1>p, ShrinkUnmoved DEF NextPass, EndPass, Types
<1>6. CASE SectionDone
  BY <1>0, <1>6, <1>p, ShrinkUnmoved DEF SectionDone, EndPass
<1>7. CASE GiveUp \/ AssembleStart \/ AssembleAtom \/ AssembleNext
  BY <1>7 DEF Shrinking, GiveUp, AssembleStart, AssembleAtom, AssembleNext
<1>8. CASE BinaryNext \/ HexNext
  BY <1>8, OutputStep DEF Shrinking
<1>9. CASE UNCHANGED allVars
  <2>1. UNCHANGED << prog, phase, sec, i, pc, label, lastsize >>
    BY <1>9 DEF allVars, vars
  <2>2. PICK k, p : k = i /\ p = pc[sec] /\ k = i' /\ p = pc'[sec']
    BY <2>1
  <2>3. /\ LiesUpTo(sec, k, p)' <=> LiesUpTo(sec, k, p)
        /\ LiesFrom(sec, k, p)' <=> LiesFrom(sec, k, p)
    BY <2>1, LayoutFrame
  <2>4. \A s, hi : (LaidOut(s)' <=> LaidOut(s)) /\ (Fits(s, hi)' <=> Fits(s, hi))
    BY <2>1, LayoutFrame
  <2>5. Secs' = Secs /\ \A s : Atoms(s)' = Atoms(s) /\ Org(s)' = Org(s)
    BY <2>1 DEF Secs, Atoms, Org
  <2>6. FitsAll' <=> FitsAll
    BY <2>4, <2>5 DEF FitsAll
  <2>7. Parsing' <=> Parsing
    <3>1. Fits(sec, i - 1)' <=> Fits(sec, i - 1)
      <4>1. PICK j : j = i - 1 /\ j = i' - 1
        BY <2>1
      <4>2. PICK c : c = sec /\ c = sec'
        BY <2>1
      <4>3. Fits(c, j)' <=> Fits(c, j)
        BY <2>4
      <4> QED
        BY <4>1, <4>2, <4>3
    <3> QED
      BY <2>1, <2>2, <2>3, <2>4, <2>5, <3>1 DEF Parsing, Ahead, IsLabel
  <2> QED
    BY <2>1, <2>2, <2>3, <2>4, <2>5, <2>6, <2>7 DEF Shrinking
<1> QED
  BY <1>1, <1>2, <1>3, <1>4, <1>5, <1>6, <1>7, <1>8, <1>9
     DEF Next, Resolving, ResolverNext

\* In a pass every size and every label is a number.
LEMMA PassNumbers ==
  ASSUME Types, Shrinking, phase = "pass", ~prog.branchopt
  PROVE  /\ \A s \in Secs : \A k \in 1 .. Len(Atoms(s)) : lastsize[s][k] \in Nat
         /\ \A n \in Labels : label[n] \in Nat
<1>1. \A s \in Secs : \A k \in 1 .. Len(Atoms(s)) : lastsize[s][k] \in Nat
  BY DEF Shrinking, FitsAll, Fits
<1>2. ASSUME NEW s \in Secs, NEW j \in 1 .. Len(Atoms(s)), IsLabel(Atoms(s)[j])
      PROVE  label[Atoms(s)[j].name] \in Nat
  <2>1. \E start : start[j] \in Nat /\ label[Atoms(s)[j].name] = pcalign(Atoms(s)[j], start[j])
    <3>0. Len(Atoms(s)) \in Nat /\ Beyond(s) - 1 = Len(Atoms(s)) /\ i \in Nat
      BY SourceTypes DEF Types, Beyond
    <3>1. CASE s # sec
      BY <1>2, <3>0, <3>1 DEF Shrinking, LaidOut, LiesUpTo, Lies
    <3>2. CASE s = sec /\ j < i
      BY <1>2, <3>0, <3>2 DEF Shrinking, LiesUpTo, Lies
    <3>3. CASE s = sec /\ j >= i
      BY <1>2, <3>0, <3>3 DEF Shrinking, LiesFrom, Lies
    <3> QED
      BY <3>0, <3>1, <3>2, <3>3
  <2> QED
    BY <1>2, <2>1 DEF pcalign, IsLabel
<1>3. ASSUME NEW n \in Labels
      PROVE  label[n] \in Nat
  <2>1. \E s \in Secs : \E j \in 1 .. Len(Atoms(s)) : IsLabel(Atoms(s)[j]) /\ n = Atoms(s)[j].name
    BY DEF Labels, LabelsIn, LabelsOf, IsLabel
  <2> QED
    BY <1>2, <2>1
<1> QED
  BY <1>1, <1>3

(* Without -opt-branch no pass of the resolver makes an atom larger or     *)
(* moves a label up (resolve_section(), vasm.c:212-349), whatever the      *)
(* source: the sizes and labels only go down, from those that add_atom()   *)
(* has given them.                                                         *)
THEOREM NothingGrows == Spec => OnlyShrinks
<1>1. AssemblerInit => Types /\ Shrinking
  BY TypesInit, ShrinkInit
<1>2. Types /\ Shrinking /\ [Next]_allVars => (Types /\ Shrinking)'
  BY TypesStep, ShrinkStep
<1>3. Types /\ Shrinking /\ [Next]_allVars =>
        [phase = "pass" /\ ~prog.branchopt =>
           /\ \A s \in Secs : \A k \in DOMAIN lastsize[s] : lastsize'[s][k] <= lastsize[s][k]
           /\ \A n \in Labels : label'[n] <= label[n]]_allVars
  <2> SUFFICES ASSUME Types, Shrinking, Next, phase = "pass", ~prog.branchopt
               PROVE  /\ \A s \in Secs : \A k \in 1 .. Len(Atoms(s)) :
                           lastsize'[s][k] <= lastsize[s][k]
                      /\ \A n \in Labels : label'[n] <= label[n]
    BY DEF Types
  <2>1. /\ \A s \in Secs : \A k \in 1 .. Len(Atoms(s)) : lastsize[s][k] \in Nat
        /\ \A n \in Labels : label[n] \in Nat
    BY PassNumbers
  <2>2. CASE ResolveAtom
    <3>1. PICK size \in Nat :
             /\ Turn(sec, i, size) /\ lastsize[sec][i] \in Nat /\ size <= lastsize[sec][i]
             /\ IsLabel(Atoms(sec)[i]) =>
                  pcalign(Atoms(sec)[i], pc[sec]) <= label[Atoms(sec)[i].name]
      BY <2>2, PassTurn
    <3>2. sec \in Secs /\ DOMAIN label = Labels /\ DOMAIN lastsize = Secs
      BY DEF Types
    <3>3. \A s \in Secs : DOMAIN lastsize[s] = 1 .. Len(Atoms(s))
      BY DEF Types
    <3> QED
      BY <2>1, <3>1, <3>2, <3>3 DEF Turn
  <2>3. CASE ~ResolveAtom
    <3>1. UNCHANGED << label, lastsize >>
      BY <2>3, OutputStep
         DEF Next, Resolving, ResolverNext, AddAtom, EndOfSection, ResolveSection, NextPass,
             GiveUp, SectionDone, AssembleStart, AssembleAtom, AssembleNext
    <3> QED
      BY <2>1, <3>1
  <2> QED
    BY <2>2, <2>3
<1> QED
  BY <1>1, <1>2, <1>3, PTL DEF Spec, OnlyShrinks
=============================================================================
