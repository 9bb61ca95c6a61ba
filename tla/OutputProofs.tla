----------------------------- MODULE OutputProofs -----------------------------
(***************************************************************************)
(* Proofs about what the assembler writes: for every source, format and    *)
(* number of passes, the resolver leaves no section behind that another    *)
(* pass would change, the output drivers turn a source away only for a     *)
(* reason, and who loads a file that was written finds every byte at its   *)
(* address, but for the cases MCAssembler names.                           *)
(*                                                                         *)
(* Layout, AllBytes and Ends are functions defined by recursion along the  *)
(* atoms of a section.  That such a definition says what it seems to say,  *)
(* and what holds along it, is proved by induction over numbers, which     *)
(* comes first and rests on the finite sets of FiniteSetTheorems.  Then    *)
(* follow the sizes of the sections, what the drivers are given, refusals, *)
(* the binary formats and the formats of records.                          *)
(***************************************************************************)
EXTENDS MCAssembler, ResolverProofs, FiniteSetTheorems

-----------------------------------------------------------------------------
(* Definitions by recursion.  A step from each number to the next is       *)
(* enough: there are only finitely many numbers up to N.                   *)

\* What holds at 0 and goes on from each number to the next holds up to N: if it failed
\* at n, the numbers below n from which on it fails could be counted down for ever.
LEMMA StepByStep ==
  ASSUME NEW N \in Nat, NEW H, 0 \in H,
         \A m \in 0 .. (N - 1) : m \in H => m + 1 \in H
  PROVE  \A m \in 0 .. N : m \in H
<1>1. SUFFICES ASSUME NEW n \in 0 .. N, n \notin H PROVE FALSE
  OBVIOUS
<1> DEFINE T == { m \in 0 .. n : \A k \in m .. n : k \notin H }
           f == [m \in T |-> m - 1]
<1>2. IsFiniteSet(T)
  <2>1. IsFiniteSet(0 .. n) /\ T \in SUBSET (0 .. n)
    BY FS_Interval
  <2>. QED
    BY <2>1, FS_Subset
<1>3. f \in Injection(T, T)
  <2>1. ASSUME NEW m \in T PROVE m - 1 \in T
    <3>1. m # 0
      OBVIOUS
    <3>2. m - 1 \in 0 .. (N - 1) /\ (m - 1) + 1 = m /\ m \notin H
      BY <3>1
    <3>3. m - 1 \notin H
      BY <3>2
    <3>. QED
      BY <3>2, <3>3
  <2>2. f \in [T -> T] /\ \A a, b \in T : f[a] = f[b] => a = b
    BY <2>1
  <2>. QED
    BY <2>2 DEF Injection, IsInjective
<1>4. f \in Surjection(T, T)
  BY <1>2, <1>3, FS_Injection
<1>5. n \in T
  BY <1>1
<1>6. PICK m \in T : f[m] = n
  BY <1>4, <1>5 DEF Surjection
<1>. QED
  BY <1>6

\* f begins with base, and each step takes its last value to the next one.
Unrolls(f, N, S, base, step) ==
  /\ f \in [0 .. N -> S] /\ f[0] = base
  /\ \A k \in 1 .. N : f[k] = step[k][f[k - 1]]

\* A function may be defined by recursion on its argument.
LEMMA Recursion ==
  ASSUME NEW N \in Nat, NEW S, NEW base \in S, NEW step \in [1 .. N -> [S -> S]]
  PROVE  \E g : Unrolls(g, N, S, base, step)
<1> DEFINE H == { m \in 0 .. N : \E g : Unrolls(g, m, S, base, step) }
<1>1. 0 \in H
  <2>1. Unrolls([k \in 0 .. 0 |-> base], 0, S, base, step)
    BY DEF Unrolls
  <2>. QED
    BY <2>1
<1>2. ASSUME NEW m \in 0 .. (N - 1), m \in H PROVE m + 1 \in H
  <2>1. PICK g : Unrolls(g, m, S, base, step)
    BY <1>2
  <2> DEFINE h == [k \in 0 .. (m + 1) |-> IF k <= m THEN g[k] ELSE step[m + 1][g[m]]]
  <2>2. h \in [0 .. (m + 1) -> S]
    <3>1. step[m + 1] \in [S -> S] /\ g[m] \in S
      BY <2>1 DEF Unrolls
    <3>2. step[m + 1][g[m]] \in S
      BY <3>1
    <3>3. \A k \in 0 .. (m + 1) : k <= m => g[k] \in S
      BY <2>1 DEF Unrolls
    <3>. QED
      BY <3>2, <3>3
  <2>3. h[0] = base
    BY <2>1 DEF Unrolls
  <2>4. ASSUME NEW k \in 1 .. (m + 1) PROVE h[k] = step[k][h[k - 1]]
    <3>0. k \in 0 .. (m + 1) /\ k - 1 \in 0 .. (m + 1) /\ h[k - 1] = g[k - 1]
      OBVIOUS
    <3>1. CASE k <= m
      BY <2>1, <3>0, <3>1 DEF Unrolls
    <3>2. CASE k = m + 1
      BY <3>0, <3>2
    <3>. QED
      BY <3>1, <3>2
  <2>5. Unrolls(h, m + 1, S, base, step)
    BY <2>2, <2>3, <2>4 DEF Unrolls
  <2>. QED
    BY <2>5
<1>3. \A m \in 0 .. N : m \in H
  <2>1. \A m \in 0 .. (N - 1) : m \in H => m + 1 \in H
    BY <1>2
  <2> HIDE DEF H
  <2>. QED
    BY <1>1, <2>1, StepByStep
<1>. QED
  BY <1>3

-----------------------------------------------------------------------------
(* Where the atoms of a section lie.                                       *)

LEMMA SourceOrg ==
  ASSUME prog \in Programs, NEW s \in Secs
  PROVE  Org(s) \in Nat
<1>1. prog.sections \in Seq([org : Nat, atoms : Seq(AtomRecords)]) /\ prog.sections # << >>
  BY ProgramsAssumption
<1>2. prog.sections[s] \in [org : Nat, atoms : Seq(AtomRecords)]
  BY <1>1, ElementOfSeq, Zenon DEF Secs
<1>. QED
  BY <1>2 DEF Org

LEMMA AtomGrows ==
  ASSUME NEW at \in AtomRecords, NEW p \in Nat
  PROVE  /\ pcalign(at, p) \in Nat /\ p <= pcalign(at, p)
         /\ atom_size(at, pcalign(at, p)) \in Nat
<1>1. pcalign(at, p) \in Nat
  BY PcAlign
<1>2. p <= pcalign(at, p)
  <2>1. CASE at.kind = "align"
    <3>1. at.n \in Nat \ {0}
      BY <2>1 DEF AtomRecords, Instructions
    <3>2. PICK u \in Int : u = -p
      OBVIOUS
    <3>3. u % at.n \in 0 .. (at.n - 1)
      BY <3>1
    <3>. QED
      BY <2>1, <3>1, <3>2, <3>3 DEF pcalign
  <2>2. CASE at.kind # "align"
    BY <2>2 DEF pcalign
  <2>. QED
    BY <2>1, <2>2
<1>3. \A q : atom_size(at, q) \in Nat
  BY DEF atom_size, AtomRecords, Instructions
<1>. QED
  BY <1>1, <1>2, <1>3

Places == [start : Nat, end : Nat]

\* Atom at behind the place p.
Behind(at, p) ==
  LET here == pcalign(at, p.end) IN [start |-> here, end |-> here + atom_size(at, here)]

LEMMA BehindType ==
  ASSUME NEW at \in AtomRecords, NEW p \in Places
  PROVE  Behind(at, p) \in Places
  BY AtomGrows DEF Behind, Places

\* Layout(s) is what its definition says.
LEMMA LayoutUnfolds ==
  ASSUME prog \in Programs, NEW s \in Secs
  PROVE  /\ Layout(s)[0] = [start |-> Org(s), end |-> Org(s)]
         /\ \A k \in 1 .. Len(Atoms(s)) : Layout(s)[k] = Behind(Atoms(s)[k], Layout(s)[k - 1])
<1> DEFINE N == Len(Atoms(s))
           base == [start |-> Org(s), end |-> Org(s)]
           step == [k \in 1 .. N |-> [p \in Places |-> Behind(Atoms(s)[k], p)]]
           Body(f) == [k \in 0 .. N |->
                         IF k = 0 THEN [start |-> Org(s), end |-> Org(s)]
                         ELSE LET here == pcalign(Atoms(s)[k], f[k - 1].end)
                              IN [start |-> here, end |-> here + atom_size(Atoms(s)[k], here)]]
<1>1. N \in Nat /\ \A k \in 1 .. N : Atoms(s)[k] \in AtomRecords
  BY SourceTypes
<1>2. base \in Places
  BY SourceOrg DEF Places
<1>3. step \in [1 .. N -> [Places -> Places]]
  BY <1>1, BehindType
<1>4. PICK g : Unrolls(g, N, Places, base, step)
  <2> HIDE DEF N, base, step
  <2>. QED
    BY <1>1, <1>2, <1>3, Recursion
<1>5. g = Body(g)
  <2>1. ASSUME NEW k \in 0 .. N PROVE g[k] = Body(g)[k]
    <3>1. CASE k = 0
      BY <3>1, <1>4 DEF Unrolls
    <3>2. CASE k # 0
      <4>1. k \in 1 .. N /\ k - 1 \in 0 .. N
        BY <1>1, <3>2
      <4>2. g[k - 1] \in Places /\ g[k] = step[k][g[k - 1]]
        BY <1>4, <4>1 DEF Unrolls
      <4>3. g[k] = Behind(Atoms(s)[k], g[k - 1])
        BY <4>1, <4>2
      <4>. QED
        BY <3>2, <4>1, <4>3 DEF Behind
    <3>. QED
      BY <3>1, <3>2
  <2>2. g = [k \in 0 .. N |-> g[k]]
    BY <1>4 DEF Unrolls
  <2>. QED
    BY <2>1, <2>2
<1>6. Layout(s) = CHOOSE f : f = Body(f)
  BY Zenon DEF Layout
<1>7. PICK F : F = Layout(s) /\ F = Body(F)
  <2> HIDE DEF Body
  <2>. QED
    BY <1>5, <1>6, Zenon
<1>8. ASSUME NEW k \in 1 .. N
      PROVE  F[k] = Behind(Atoms(s)[k], F[k - 1])
  <2>1. k \in 0 .. N /\ k # 0
    BY <1>1
  <2>. QED
    BY <1>7, <2>1 DEF Behind
<1>9. F[0] = base
  <2>1. 0 \in 0 .. N
    BY <1>1
  <2>. QED
    BY <1>7, <2>1
<1>. QED
  BY <1>7, <1>8, <1>9

\* Where the last atom of the section ends, initialized or not.
Final(s) == Layout(s)[Len(Atoms(s))].end

\* One atom lies behind the other.
LEMMA LayoutStep ==
  ASSUME prog \in Programs, NEW s \in Secs
  PROVE  /\ Len(Atoms(s)) \in Nat
         /\ \A k \in 0 .. Len(Atoms(s)) : Layout(s)[k] \in Places
         /\ \A k \in 1 .. Len(Atoms(s)) :
              /\ Layout(s)[k].start = pcalign(Atoms(s)[k], Layout(s)[k - 1].end)
              /\ Layout(s)[k].end =
                   Layout(s)[k].start + atom_size(Atoms(s)[k], Layout(s)[k].start)
              /\ Layout(s)[k - 1].end <= Layout(s)[k].start
              /\ Layout(s)[k].start <= Layout(s)[k].end
<1> DEFINE N == Len(Atoms(s))
           H == { k \in 0 .. N : Layout(s)[k] \in Places }
<1>1. N \in Nat /\ \A k \in 1 .. N : Atoms(s)[k] \in AtomRecords
  BY SourceTypes
<1>2. 0 \in H
  <2>1. Layout(s)[0] = [start |-> Org(s), end |-> Org(s)] /\ Org(s) \in Nat
    BY LayoutUnfolds, SourceOrg
  <2>2. Layout(s)[0] \in Places
    BY <2>1 DEF Places
  <2>. QED
    BY <1>1, <2>2
<1>3. ASSUME NEW m \in 0 .. (N - 1), m \in H PROVE m + 1 \in H
  <2>1. m + 1 \in 1 .. N /\ (m + 1) - 1 = m /\ Layout(s)[m] \in Places
    BY <1>1, <1>3
  <2>2. Layout(s)[m + 1] = Behind(Atoms(s)[m + 1], Layout(s)[m])
    BY <2>1, LayoutUnfolds
  <2>. QED
    BY <1>1, <2>1, <2>2, BehindType
<1>4. \A m \in 0 .. N : m \in H
  <2> HIDE DEF H
  <2>. QED
    BY <1>1, <1>2, <1>3, StepByStep
<1>5. ASSUME NEW k \in 1 .. N
      PROVE  /\ Layout(s)[k].start = pcalign(Atoms(s)[k], Layout(s)[k - 1].end)
             /\ Layout(s)[k].end =
                  Layout(s)[k].start + atom_size(Atoms(s)[k], Layout(s)[k].start)
             /\ Layout(s)[k - 1].end <= Layout(s)[k].start
             /\ Layout(s)[k].start <= Layout(s)[k].end
  <2>1. k - 1 \in 0 .. N
    BY <1>1
  <2>2. Layout(s)[k - 1].end \in Nat
    BY <1>4, <2>1 DEF Places
  <2>3. Layout(s)[k] = Behind(Atoms(s)[k], Layout(s)[k - 1])
    BY LayoutUnfolds
  <2>4. PICK p \in Nat : p = Layout(s)[k - 1].end
    BY <2>2
  <2>5. PICK here : here = pcalign(Atoms(s)[k], p)
    OBVIOUS
  <2>6. here \in Nat /\ p <= here /\ atom_size(Atoms(s)[k], here) \in Nat
    BY <1>1, <2>5, AtomGrows
  <2>7. Layout(s)[k].start = here /\ Layout(s)[k].end = here + atom_size(Atoms(s)[k], here)
    BY <2>3, <2>4, <2>5 DEF Behind
  <2>. QED
    BY <2>4, <2>5, <2>6, <2>7
<1>. QED
  BY <1>1, <1>4, <1>5

LEMMA LayoutBounds ==
  ASSUME prog \in Programs, NEW s \in Secs, NEW k \in 0 .. Len(Atoms(s))
  PROVE  /\ Layout(s)[k].end \in Nat /\ Final(s) \in Nat /\ Org(s) \in Nat
         /\ Org(s) <= Layout(s)[k].end /\ Layout(s)[k].end <= Final(s)
<1> DEFINE N == Len(Atoms(s))
           e == [m \in 0 .. N |-> Layout(s)[m].end]
           H == { m \in 0 .. N : Org(s) <= e[m] /\ \A j \in 0 .. m : e[j] <= e[m] }
<1>1. N \in Nat /\ Org(s) \in Nat /\ e \in [0 .. N -> Nat] /\ e[0] = Org(s)
  <2>1. N \in Nat /\ \A m \in 0 .. N : Layout(s)[m] \in Places
    BY LayoutStep
  <2>2. Layout(s)[0].end = Org(s) /\ Org(s) \in Nat
    <3>1. Layout(s)[0] = [start |-> Org(s), end |-> Org(s)]
      BY LayoutUnfolds
    <3>. QED
      BY <3>1, SourceOrg
  <2>3. \A m \in 0 .. N : Layout(s)[m].end \in Nat
    BY <2>1 DEF Places
  <2>4. e \in [0 .. N -> Nat]
    BY <2>3
  <2>5. 0 \in 0 .. N
    BY <2>1
  <2>6. e[0] = Layout(s)[0].end
    BY <2>5
  <2>. QED
    BY <2>1, <2>2, <2>4, <2>6
<1>2. \A m \in 0 .. (N - 1) : e[m] <= e[m + 1]
  <2>1. SUFFICES ASSUME NEW m \in 0 .. (N - 1) PROVE e[m] <= e[m + 1]
    OBVIOUS
  <2>2. m + 1 \in 1 .. N /\ (m + 1) - 1 = m /\ m \in 0 .. N /\ m + 1 \in 0 .. N
    BY <1>1
  <2>3. /\ Layout(s)[m].end <= Layout(s)[m + 1].start
        /\ Layout(s)[m + 1].start <= Layout(s)[m + 1].end
        /\ Layout(s)[m + 1].start \in Nat
    BY <2>2, LayoutStep DEF Places
  <2>. QED
    BY <1>1, <2>2, <2>3
<1>3. \A m \in 0 .. N : m \in H
  <2> HIDE DEF e
  <2>1. 0 \in H
    BY <1>1
  <2>2. ASSUME NEW m \in 0 .. (N - 1), m \in H PROVE m + 1 \in H
    <3>1. m + 1 \in 0 .. N /\ e[m] \in Nat /\ e[m + 1] \in Nat /\ e[m] <= e[m + 1]
      BY <1>1, <1>2
    <3>2. ASSUME NEW j \in 0 .. (m + 1) PROVE e[j] <= e[m + 1]
      <4>1. CASE j = m + 1
        BY <3>1, <4>1
      <4>2. CASE j # m + 1
        <5>1. j \in 0 .. m /\ j \in 0 .. N
          BY <1>1, <4>2
        <5>2. e[j] \in Nat /\ e[j] <= e[m]
          BY <1>1, <2>2, <5>1
        <5>. QED
          BY <3>1, <5>2
      <4>. QED
        BY <4>1, <4>2
    <3>. QED
      BY <1>1, <2>2, <3>1, <3>2
  <2> HIDE DEF H
  <2>. QED
    BY <1>1, <2>1, <2>2, StepByStep
<1>4. N \in 0 .. N /\ k \in 0 .. N
  BY <1>1
<1>5. e[k] = Layout(s)[k].end /\ e[N] = Final(s)
  BY <1>4 DEF Final
<1>. QED
  <2> HIDE DEF e
  <2>. QED
    BY <1>1, <1>3, <1>4, <1>5

\* A set of numbers up to N has a largest one.
LEMMA Largest ==
  ASSUME NEW N \in Nat, NEW T \in SUBSET (1 .. N), T # {}
  PROVE  Max(T) \in T /\ \A y \in T : Max(T) >= y
<1> DEFINE H == { m \in 0 .. N : (\E x \in T : x <= m) => \E x \in T : \A y \in T : y <= m => x >= y }
<1>1. 0 \in H
  OBVIOUS
<1>2. ASSUME NEW m \in 0 .. (N - 1), m \in H PROVE m + 1 \in H
  <2>1. m + 1 \in 0 .. N /\ \A y \in T : y \in Int
    OBVIOUS
  <2>2. CASE m + 1 \in T
    <3>1. \A y \in T : y <= m + 1 => m + 1 >= y
      BY <2>1
    <3>. QED
      BY <2>1, <2>2, <3>1
  <2>3. CASE m + 1 \notin T
    <3>1. \A y \in T : y <= m + 1 <=> y <= m
      BY <2>1, <2>3
    <3>2. (\E x \in T : x <= m) => \E x \in T : \A y \in T : y <= m => x >= y
      BY <1>2
    <3>. QED
      BY <2>1, <3>1, <3>2
  <2>. QED
    BY <2>2, <2>3
<1>3. \A m \in 0 .. N : m \in H
  <2> HIDE DEF H
  <2>. QED
    BY <1>1, <1>2, StepByStep
<1>4. \E x \in T : \A y \in T : x >= y
  <2>1. N \in 0 .. N
    OBVIOUS
  <2>2. N \in H
    <3> HIDE DEF H
    <3>. QED
      BY <1>3, <2>1
  <2>3. (\E x \in T : x <= N) => \E x \in T : \A y \in T : y <= N => x >= y
    BY <2>2
  <2>4. \A x \in T : x <= N
    OBVIOUS
  <2>. QED
    BY <2>3, <2>4
<1>. QED
  BY <1>4 DEF Max

\* A trimmed section begins at its origin and ends before or with its last atom.
LEMMA SectionEnds ==
  ASSUME prog \in Programs, NEW s \in Secs
  PROVE  /\ Org(s) \in Nat /\ End(s) \in Nat /\ Final(s) \in Nat
         /\ Org(s) <= End(s) /\ End(s) <= Final(s)
         /\ Initialized(s) = {} => End(s) = Org(s)
<1>1. Len(Atoms(s)) \in Nat /\ 0 \in 0 .. Len(Atoms(s)) /\ Org(s) \in Nat
  BY SourceTypes, SourceOrg
<1>2. Final(s) \in Nat /\ Org(s) <= Final(s)
  BY <1>1, LayoutBounds
<1>3. CASE Initialized(s) = {}
  BY <1>1, <1>2, <1>3 DEF End
<1>4. CASE Initialized(s) # {}
  <2>1. Initialized(s) \in SUBSET (1 .. Len(Atoms(s)))
    <3>1. prog.sections \in Seq([org : Nat, atoms : Seq(AtomRecords)])
      BY ProgramsAssumption
    <3>2. prog.sections[s] \in [org : Nat, atoms : Seq(AtomRecords)]
      BY <3>1, ElementOfSeq, Zenon DEF Secs
    <3>3. Atoms(s) \in Seq(AtomRecords)
      BY <3>2 DEF Atoms
    <3>4. DOMAIN Atoms(s) = 1 .. Len(Atoms(s))
      BY <3>3, LenProperties
    <3>. QED
      BY <3>4 DEF Initialized
  <2>2. Max(Initialized(s)) \in 1 .. Len(Atoms(s))
    BY <1>1, <1>4, <2>1, Largest
  <2>3. Max(Initialized(s)) \in 0 .. Len(Atoms(s))
    BY <2>2
  <2>4. End(s) = Layout(s)[Max(Initialized(s))].end
    BY <1>4 DEF End
  <2>. QED
    BY <1>1, <1>2, <1>4, <2>3, <2>4, LayoutBounds
<1>. QED
  BY <1>3, <1>4

-----------------------------------------------------------------------------
(* What is written of a section.                                           *)

\* n bytes from address p on.
Run(p, n) == [j \in 1 .. n |-> p + j - 1]

LEMMA RunIsSeq ==
  ASSUME NEW p \in Int, NEW n \in Nat
  PROVE  /\ Run(p, n) \in Seq(Int) /\ Len(Run(p, n)) = n
         /\ \A j \in 1 .. n : Run(p, n)[j] = p + j - 1
  BY DEF Run

LEMMA RunsJoin ==
  ASSUME NEW p \in Int, NEW m \in Nat, NEW n \in Nat
  PROVE  Run(p, m) \o Run(p + m, n) = Run(p, m + n)
<1> DEFINE q == Run(p, m)
           r == Run(p + m, n)
           t == Run(p, m + n)
<1>1. /\ q \in Seq(Int) /\ Len(q) = m /\ \A j \in 1 .. m : q[j] = p + j - 1
      /\ r \in Seq(Int) /\ Len(r) = n /\ \A j \in 1 .. n : r[j] = (p + m) + j - 1
      /\ t \in Seq(Int) /\ Len(t) = m + n /\ \A j \in 1 .. (m + n) : t[j] = p + j - 1
  <2>1. p + m \in Int /\ m + n \in Nat
    OBVIOUS
  <2>. QED
    BY <2>1, RunIsSeq
<1> HIDE DEF q, r, t
<1>2. /\ q \o r \in Seq(Int) /\ Len(q \o r) = m + n
      /\ \A i_ \in 1 .. (m + n) : (q \o r)[i_] = IF i_ <= m THEN q[i_] ELSE r[i_ - m]
  BY <1>1, ConcatProperties
<1>3. ASSUME NEW j \in 1 .. (m + n) PROVE (q \o r)[j] = t[j]
  <2>1. CASE j <= m
    BY <1>1, <1>2, <2>1
  <2>2. CASE j > m
    <3>1. j - m \in 1 .. n
      BY <2>2
    <3>2. r[j - m] = (p + m) + (j - m) - 1
      BY <1>1, <3>1
    <3>. QED
      BY <1>1, <1>2, <2>2, <3>2
  <2>3. j <= m \/ j > m
    OBVIOUS
  <2>. QED
    BY <2>1, <2>2, <2>3
<1>4. q \o r = t
  BY <1>1, <1>2, <1>3, SeqEqual
<1>. QED
  BY <1>4 DEF q, r, t

\* The bytes of the first k atoms, those before it being in q.
More(s, k, q) ==
  q \o Padding(s, k, Org(s) + Len(q)) \o Run(Layout(s)[k].start, Layout(s)[k].end - Layout(s)[k].start)

\* Padding of n bytes.
Pad(from, n) ==
  Run(from, n) \o (IF prog.format \in Ihex /\ n > 0 THEN << NoByte >> ELSE << >>)

LEMMA PadIsSeq ==
  ASSUME NEW p \in Int, NEW n \in Nat
  PROVE  Pad(p, n) \in Seq(Int)
<1>1. Run(p, n) \in Seq(Int)
  BY RunIsSeq
<1>2. << NoByte >> \in Seq(Int) /\ << >> \in Seq(Int)
  BY DEF NoByte
<1>. QED
  BY <1>1, <1>2, ConcatProperties DEF Pad

LEMMA MoreIsSeq ==
  ASSUME prog \in Programs, NEW s \in Secs, NEW k \in 1 .. Len(Atoms(s)), NEW q \in Seq(Int)
  PROVE  /\ More(s, k, q) \in Seq(Int)
         /\ pcalign(Atoms(s)[k], Org(s) + Len(q)) - (Org(s) + Len(q)) \in Nat
         /\ More(s, k, q) =
              q \o Pad(Layout(s)[k - 1].end,
                       pcalign(Atoms(s)[k], Org(s) + Len(q)) - (Org(s) + Len(q)))
                \o Run(Layout(s)[k].start, Layout(s)[k].end - Layout(s)[k].start)
<1>1. Len(Atoms(s)) \in Nat /\ Atoms(s)[k] \in AtomRecords
  BY SourceTypes
<1>2. k - 1 \in 0 .. Len(Atoms(s)) /\ k \in 0 .. Len(Atoms(s))
  BY <1>1
<1>3. /\ Layout(s)[k].start \in Nat /\ Layout(s)[k].end \in Nat /\ Layout(s)[k - 1].end \in Nat
      /\ Layout(s)[k].start <= Layout(s)[k].end
  <2>1. Layout(s)[k] \in Places /\ Layout(s)[k - 1] \in Places
    BY <1>2, LayoutStep
  <2>2. Layout(s)[k].start <= Layout(s)[k].end
    BY LayoutStep
  <2>. QED
    BY <2>1, <2>2 DEF Places
<1>i. Layout(s)[k].start \in Int /\ Layout(s)[k - 1].end \in Int
  BY <1>3
<1>4. PICK p \in Nat : p = Org(s) + Len(q)
  <2>1. Org(s) \in Nat /\ Len(q) \in Nat
    BY SourceOrg, LenProperties
  <2>. QED
    BY <2>1
<1>5. pcalign(Atoms(s)[k], p) \in Nat /\ p <= pcalign(Atoms(s)[k], p)
  BY <1>1, AtomGrows
<1>6. PICK n \in Nat : n = pcalign(Atoms(s)[k], p) - p
  BY <1>5
<1>7. Padding(s, k, p) = Pad(Layout(s)[k - 1].end, n)
  BY <1>6 DEF Padding, Pad, Run
<1>8. Pad(Layout(s)[k - 1].end, n) \in Seq(Int)
  BY <1>i, PadIsSeq
<1>9. Run(Layout(s)[k].start, Layout(s)[k].end - Layout(s)[k].start) \in Seq(Int)
  <2>1. Layout(s)[k].end - Layout(s)[k].start \in Nat
    BY <1>3
  <2>. QED
    BY <1>i, <2>1, RunIsSeq
<1>10. q \o Pad(Layout(s)[k - 1].end, n) \in Seq(Int)
  BY <1>8, ConcatProperties
<1>11. (q \o Pad(Layout(s)[k - 1].end, n))
         \o Run(Layout(s)[k].start, Layout(s)[k].end - Layout(s)[k].start) \in Seq(Int)
  BY <1>9, <1>10, ConcatProperties
<1>. QED
  BY <1>4, <1>6, <1>7, <1>11 DEF More

\* BytesTo(s) is what its definition says.
LEMMA BytesUnfold ==
  ASSUME prog \in Programs, NEW s \in Secs
  PROVE  /\ BytesTo(s)[0] = << >>
         /\ \A k \in 1 .. Len(Atoms(s)) : BytesTo(s)[k] = More(s, k, BytesTo(s)[k - 1])
<1> DEFINE N == Len(Atoms(s))
           base == << >>
           step == [k \in 1 .. N |-> [q \in Seq(Int) |-> More(s, k, q)]]
           Body(f) == [k \in 0 .. N |->
                         IF k = 0 THEN << >>
                         ELSE f[k - 1] \o Padding(s, k, Org(s) + Len(f[k - 1]))
                                \o [j \in 1 .. (Layout(s)[k].end - Layout(s)[k].start)
                                      |-> Layout(s)[k].start + j - 1]]
<1>1. N \in Nat
  BY SourceTypes
<1>2. base \in Seq(Int)
  OBVIOUS
<1>3. step \in [1 .. N -> [Seq(Int) -> Seq(Int)]]
  <2>1. \A k \in 1 .. N : \A q \in Seq(Int) : More(s, k, q) \in Seq(Int)
    BY MoreIsSeq
  <2>. QED
    BY <2>1
<1>4. PICK g : Unrolls(g, N, Seq(Int), base, step)
  <2> HIDE DEF N, base, step
  <2>. QED
    BY <1>1, <1>2, <1>3, Recursion
<1>5. g = Body(g)
  <2>1. ASSUME NEW k \in 0 .. N PROVE g[k] = Body(g)[k]
    <3>1. CASE k = 0
      BY <3>1, <1>4 DEF Unrolls
    <3>2. CASE k # 0
      <4>1. k \in 1 .. N /\ k - 1 \in 0 .. N
        BY <1>1, <3>2
      <4>2. g[k - 1] \in Seq(Int) /\ g[k] = step[k][g[k - 1]]
        BY <1>4, <4>1 DEF Unrolls
      <4>3. g[k] = More(s, k, g[k - 1])
        BY <4>1, <4>2
      <4>. QED
        BY <3>2, <4>1, <4>3 DEF More, Run
    <3>. QED
      BY <3>1, <3>2
  <2>2. g = [k \in 0 .. N |-> g[k]]
    BY <1>4 DEF Unrolls
  <2>. QED
    BY <2>1, <2>2
<1>6. BytesTo(s) = CHOOSE f : f = Body(f)
  BY Zenon DEF BytesTo
<1>7. PICK F : F = BytesTo(s) /\ F = Body(F)
  <2> HIDE DEF Body
  <2>. QED
    BY <1>5, <1>6, Zenon
<1>8. ASSUME NEW k \in 1 .. N
      PROVE  F[k] = More(s, k, F[k - 1])
  <2>1. k \in 0 .. N /\ k # 0
    BY <1>1
  <2>. QED
    BY <1>7, <2>1 DEF More, Run
<1>9. F[0] = base
  <2>1. 0 \in 0 .. N
    BY <1>1
  <2>. QED
    BY <1>7, <2>1
<1>. QED
  BY <1>7, <1>8, <1>9

\* NoByte is among the bytes.
Broken(q) == \E j \in 1 .. Len(q) : q[j] = NoByte

LEMMA BrokenStays ==
  ASSUME NEW q \in Seq(Int), NEW r \in Seq(Int), Broken(q) \/ Broken(r)
  PROVE  Broken(q \o r)
<1>1. /\ Len(q) \in Nat /\ Len(r) \in Nat /\ Len(q \o r) = Len(q) + Len(r)
      /\ \A j \in 1 .. (Len(q) + Len(r)) :
           (q \o r)[j] = IF j <= Len(q) THEN q[j] ELSE r[j - Len(q)]
  BY ConcatProperties, LenProperties
<1>2. CASE Broken(q)
  <2>1. PICK j \in 1 .. Len(q) : q[j] = NoByte
    BY <1>2 DEF Broken
  <2>2. j \in 1 .. (Len(q) + Len(r)) /\ j <= Len(q)
    BY <1>1
  <2>. QED
    BY <1>1, <2>1, <2>2 DEF Broken
<1>3. CASE Broken(r)
  <2>1. PICK j \in 1 .. Len(r) : r[j] = NoByte
    BY <1>3 DEF Broken
  <2>2. PICK l \in 1 .. (Len(q) + Len(r)) : l = Len(q) + j
    BY <1>1
  <2>3. ~(l <= Len(q)) /\ l - Len(q) = j
    BY <1>1, <2>2
  <2>. QED
    BY <1>1, <2>1, <2>3 DEF Broken
<1>. QED
  BY <1>2, <1>3

\* Atom k is written where it lies, or an atom before it was padded too far.
LEMMA MoreIsRun ==
  ASSUME prog \in Programs, NEW s \in Secs, NEW k \in 1 .. Len(Atoms(s)),
         NEW q, q = Run(Org(s), Layout(s)[k - 1].end - Org(s))
  PROVE  \/ prog.format \in Ihex /\ Broken(More(s, k, q))
         \/ More(s, k, q) = Run(Org(s), Layout(s)[k].end - Org(s))
<1>1. Len(Atoms(s)) \in Nat /\ k - 1 \in 0 .. Len(Atoms(s)) /\ k \in 0 .. Len(Atoms(s))
  BY SourceTypes
<1>2. PICK org \in Nat : org = Org(s)
  BY SourceOrg
<1>3. PICK from \in Nat : from = Layout(s)[k - 1].end
  BY <1>1, LayoutStep DEF Places
<1>4. PICK start \in Nat : start = Layout(s)[k].start
  BY <1>1, LayoutStep DEF Places
<1>5. PICK end \in Nat : end = Layout(s)[k].end
  BY <1>1, LayoutStep DEF Places
<1>6. org <= from /\ from <= start /\ start <= end /\ start = pcalign(Atoms(s)[k], from)
  BY <1>1, <1>2, <1>3, <1>4, <1>5, LayoutStep, LayoutBounds
<1>7. q = Run(org, from - org) /\ q \in Seq(Int) /\ Len(q) = from - org
  <2>1. from - org \in Nat /\ org \in Int
    BY <1>6
  <2>. QED
    BY <1>2, <1>3, <2>1, RunIsSeq
<1>8. org + Len(q) = from
  BY <1>7
<1>9. More(s, k, q) = q \o Pad(from, start - from) \o Run(start, end - start)
  BY <1>2, <1>3, <1>4, <1>5, <1>6, <1>7, <1>8, MoreIsSeq
<1>10. /\ start - from \in Nat /\ end - start \in Nat /\ from - org \in Nat /\ start - org \in Nat
       /\ org + (from - org) = from /\ (from - org) + (start - from) = start - org
       /\ org + (start - org) = start /\ (start - org) + (end - start) = end - org
       /\ org \in Int /\ from \in Int /\ start \in Int
  <2>1. org \in Nat /\ from \in Nat /\ start \in Nat /\ end \in Nat
    BY <1>2, <1>3, <1>4, <1>5
  <2>2. org <= from /\ from <= start /\ start <= end
    BY <1>6
  <2>. QED
    BY <2>1, <2>2
<1>11. /\ Run(start, end - start) \in Seq(Int) /\ Run(from, start - from) \in Seq(Int)
       /\ Pad(from, start - from) \in Seq(Int)
  BY <1>10, RunIsSeq, PadIsSeq
<1>12. CASE prog.format \in Ihex /\ start - from > 0
  <2>1. Pad(from, start - from) = Run(from, start - from) \o << NoByte >>
    BY <1>12 DEF Pad
  <2>2. << NoByte >> \in Seq(Int) /\ Broken(<< NoByte >>)
    BY DEF Broken, NoByte
  <2>3. Broken(Pad(from, start - from))
    BY <1>11, <2>1, <2>2, BrokenStays
  <2>4. Broken(q \o Pad(from, start - from)) /\ q \o Pad(from, start - from) \in Seq(Int)
    BY <1>7, <1>11, <2>3, BrokenStays, ConcatProperties
  <2>. QED
    BY <1>9, <1>11, <1>12, <2>4, BrokenStays
<1>13. CASE ~(prog.format \in Ihex /\ start - from > 0)
  <2>1. Pad(from, start - from) = Run(from, start - from)
    BY <1>11, <1>13, ConcatEmptySeq DEF Pad
  <2>2. q \o Run(from, start - from) = Run(org, start - org)
    <3>1. Run(org, from - org) \o Run(org + (from - org), start - from)
            = Run(org, (from - org) + (start - from))
      BY <1>10, RunsJoin
    <3>. QED
      BY <1>7, <1>10, <3>1
  <2>3. Run(org, start - org) \o Run(start, end - start) = Run(org, end - org)
    <3>1. Run(org, start - org) \o Run(org + (start - org), end - start)
            = Run(org, (start - org) + (end - start))
      BY <1>10, RunsJoin
    <3>. QED
      BY <1>10, <3>1
  <2>. QED
    BY <1>2, <1>5, <1>9, <2>1, <2>2, <2>3
<1>. QED
  BY <1>12, <1>13

\* The bytes of a section, without the byte too many, are those of its atoms.
LEMMA BytesAreRun ==
  ASSUME prog \in Programs, NEW s \in Secs
  PROVE  /\ AllBytes(s) \in Seq(Int)
         /\ \/ prog.format \in Ihex /\ NoByte \in ToSet(AllBytes(s))
            \/ AllBytes(s) = Run(Org(s), Final(s) - Org(s))
<1> DEFINE N == Len(Atoms(s))
           Right(m) == \/ prog.format \in Ihex /\ Broken(BytesTo(s)[m])
                       \/ BytesTo(s)[m] = Run(Org(s), Layout(s)[m].end - Org(s))
           H == { m \in 0 .. N : BytesTo(s)[m] \in Seq(Int) /\ Right(m) }
<1>1. N \in Nat /\ N \in 0 .. N /\ 0 \in 0 .. N
  BY SourceTypes
<1>2. 0 \in H
  <2>1. BytesTo(s)[0] = << >> /\ << >> \in Seq(Int)
    BY BytesUnfold
  <2>2. Layout(s)[0] = [start |-> Org(s), end |-> Org(s)] /\ Org(s) \in Nat
    BY LayoutUnfolds, SourceOrg
  <2>3. Run(Org(s), 0) = << >>
    BY DEF Run
  <2>4. Layout(s)[0].end - Org(s) = 0
    BY <2>2
  <2>. QED
    BY <1>1, <2>1, <2>3, <2>4
<1>3. ASSUME NEW m \in 0 .. (N - 1), m \in H PROVE m + 1 \in H
  <2>1. m + 1 \in 1 .. N /\ (m + 1) - 1 = m /\ m + 1 \in 0 .. N
    BY <1>1
  <2>2. PICK q \in Seq(Int) : q = BytesTo(s)[m]
    BY <1>3
  <2>3. PICK k \in 1 .. N : k = m + 1 /\ k - 1 = m
    BY <2>1
  <2>4. BytesTo(s)[k] = More(s, k, q)
    BY <2>2, <2>3, BytesUnfold
  <2>5. More(s, k, q) \in Seq(Int)
    BY MoreIsSeq
  <2>6. Right(k)
    <3>1. CASE prog.format \in Ihex /\ Broken(q)
      <4>1. PICK n \in Nat : More(s, k, q) =
              q \o Pad(Layout(s)[k - 1].end, n)
                \o Run(Layout(s)[k].start, Layout(s)[k].end - Layout(s)[k].start)
        BY MoreIsSeq
      <4>2. Layout(s)[k] \in Places /\ Layout(s)[k - 1] \in Places
        BY <1>1, <2>1, <2>3, LayoutStep
      <4>3. Layout(s)[k].start <= Layout(s)[k].end
        BY LayoutStep
      <4>4. /\ Layout(s)[k - 1].end \in Int /\ Layout(s)[k].start \in Int
            /\ Layout(s)[k].end - Layout(s)[k].start \in Nat
        BY <4>2, <4>3 DEF Places
      <4>5. /\ Pad(Layout(s)[k - 1].end, n) \in Seq(Int)
            /\ Run(Layout(s)[k].start, Layout(s)[k].end - Layout(s)[k].start) \in Seq(Int)
        BY <4>4, PadIsSeq, RunIsSeq
      <4>6. /\ Broken(q \o Pad(Layout(s)[k - 1].end, n))
            /\ q \o Pad(Layout(s)[k - 1].end, n) \in Seq(Int)
        BY <3>1, <4>5, BrokenStays, ConcatProperties
      <4>. QED
        BY <2>4, <3>1, <4>1, <4>5, <4>6, BrokenStays
    <3>2. CASE q = Run(Org(s), Layout(s)[k - 1].end - Org(s))
      <4>1. \/ prog.format \in Ihex /\ Broken(More(s, k, q))
            \/ More(s, k, q) = Run(Org(s), Layout(s)[k].end - Org(s))
        BY <3>2, MoreIsRun
      <4>. QED
        BY <2>4, <4>1
    <3>. QED
      BY <1>3, <2>2, <2>3, <3>1, <3>2
  <2>. QED
    BY <2>1, <2>3, <2>4, <2>5, <2>6
<1>4. \A m \in 0 .. N : m \in H
  <2> HIDE DEF H
  <2>. QED
    BY <1>1, <1>2, <1>3, StepByStep
<1>5. AllBytes(s) \in Seq(Int) /\ Right(N)
  BY <1>1, <1>4 DEF AllBytes
<1>6. Broken(AllBytes(s)) => NoByte \in ToSet(AllBytes(s))
  <2>1. DOMAIN AllBytes(s) = 1 .. Len(AllBytes(s))
    BY <1>5, LenProperties
  <2>. QED
    BY <2>1 DEF Broken, ToSet
<1>. QED
  BY <1>5, <1>6 DEF AllBytes, Final

-----------------------------------------------------------------------------
(* Fixed points, computed.                                                 *)

LEMMA EndsUnfold ==
  ASSUME NEW s, NEW start, Placed(s, start, Beyond(s)), Len(Atoms(s)) \in Nat
  PROVE  \A m \in 0 .. Len(Atoms(s)) : Ends(s)[m] = start[m + 1]
<1> DEFINE N == Len(Atoms(s))
           Body(f) == [m \in 0 .. N |->
                         IF m = 0 THEN Org(s)
                         ELSE pcalign(Atoms(s)[m], f[m - 1]) + lastsize[s][m]]
           g == [m \in 0 .. N |-> start[m + 1]]
           H == { m \in 0 .. N : Ends(s)[m] = start[m + 1] }
<1>1. start[1] = Org(s) /\
      \A j \in 1 .. N : start[j + 1] = pcalign(Atoms(s)[j], start[j]) + lastsize[s][j]
  <2>1. 1 .. (Beyond(s) - 1) = 1 .. N
    BY DEF Beyond
  <2>. QED
    BY <2>1 DEF Placed
<1>2. g = Body(g)
  <2>1. ASSUME NEW m \in 0 .. N PROVE g[m] = Body(g)[m]
    <3>1. CASE m = 0
      BY <1>1, <3>1
    <3>2. CASE m # 0
      <4>1. m \in 1 .. N /\ m - 1 \in 0 .. N /\ (m - 1) + 1 = m
        BY <3>2
      <4>2. g[m - 1] = start[m] /\ g[m] = start[m + 1]
        BY <4>1
      <4>. QED
        BY <1>1, <3>2, <4>1, <4>2
    <3>. QED
      BY <3>1, <3>2
  <2>. QED
    BY <2>1
<1>3. Ends(s) = CHOOSE f : f = Body(f)
  BY Zenon DEF Ends
<1>4. PICK F : F = Ends(s) /\ F = Body(F)
  <2> HIDE DEF Body, g
  <2>. QED
    BY <1>2, <1>3, Zenon
<1>5. 0 \in H
  <2>1. 0 \in 0 .. N
    OBVIOUS
  <2>2. F[0] = Org(s)
    BY <1>4, <2>1
  <2>. QED
    BY <1>1, <1>4, <2>1, <2>2
<1>6. ASSUME NEW m \in 0 .. (N - 1), m \in H PROVE m + 1 \in H
  <2>1. m + 1 \in 0 .. N /\ m + 1 \in 1 .. N /\ m + 1 # 0 /\ (m + 1) - 1 = m
    OBVIOUS
  <2>2. PICK k \in 1 .. N : k = m + 1
    BY <2>1
  <2>3. F[k] = pcalign(Atoms(s)[k], F[k - 1]) + lastsize[s][k]
    BY <1>4, <2>1, <2>2
  <2>4. F[k - 1] = start[k]
    BY <1>4, <1>6, <2>1, <2>2
  <2>5. F[k] = start[k + 1]
    BY <1>1, <2>3, <2>4
  <2>. QED
    BY <1>4, <2>1, <2>2, <2>5
<1>7. \A m \in 0 .. N : m \in H
  <2> HIDE DEF H
  <2>. QED
    BY <1>5, <1>6, StepByStep
<1>. QED
  BY <1>7

LEMMA SettledIsComputed ==
  ASSUME IInv, NEW s \in Secs, AtFixedPoint(s)
  PROVE  FixedPoint(s)
<1>1. PICK start : Placed(s, start, Beyond(s))
  BY DEF AtFixedPoint
<1>2. Len(Atoms(s)) \in Nat
  BY SourceTypes DEF IInv, Types
<1>3. \A m \in 0 .. Len(Atoms(s)) : Ends(s)[m] = start[m + 1]
  BY <1>1, <1>2, EndsUnfold
<1>4. ASSUME NEW k \in 1 .. Len(Atoms(s))
      PROVE  Start(s, k) = pcalign(Atoms(s)[k], start[k])
  <2>1. k - 1 \in 0 .. Len(Atoms(s)) /\ (k - 1) + 1 = k
    BY <1>2
  <2>. QED
    BY <1>3, <2>1 DEF Start
<1>5. 1 .. (Beyond(s) - 1) = 1 .. Len(Atoms(s))
  BY <1>2 DEF Beyond
<1>. QED
  BY <1>1, <1>4, <1>5 DEF Placed, FixedPoint

(* Between two sections the resolver leaves every section it does not mean *)
(* to visit again where one more pass, computed from the recorded sizes    *)
(* and labels, changes nothing, for all sources and numbers of passes.     *)
THEOREM EverySectionSettles == Spec => []Settled
<1>1. IInv => Settled
  BY SettledIsComputed DEF IInv, AllSettled, Stale, Settled
<1>. QED
  BY <1>1, InvInit, InvStep, PTL DEF Spec

-----------------------------------------------------------------------------
(* The output drivers change neither the source nor a label, so nothing    *)
(* that was said above of the sections.                                    *)

LEMMA SectionsKept ==
  ASSUME UNCHANGED << prog, label >>
  PROVE  /\ Secs' = Secs
         /\ \A s : /\ Org(s)' = Org(s) /\ Atoms(s)' = Atoms(s) /\ Initialized(s)' = Initialized(s)
                   /\ Layout(s)' = Layout(s) /\ End(s)' = End(s) /\ Final(s)' = Final(s)
                   /\ AllBytes(s)' = AllBytes(s) /\ Contents(s)' = Contents(s)
<1>1. /\ Secs' = Secs
      /\ \A s : Org(s)' = Org(s) /\ Atoms(s)' = Atoms(s) /\ Initialized(s)' = Initialized(s)
  BY DEF Secs, Org, Atoms, Initialized
<1>2. \A s : Layout(s)' = Layout(s)
  BY <1>1 DEF Layout, pcalign, atom_size, Relaxed, InRange, Org, Atoms
<1>3. \A s : End(s)' = End(s) /\ Final(s)' = Final(s)
  BY <1>1, <1>2 DEF End, Final
<1>4. \A s : BytesTo(s)' = BytesTo(s)
  BY DEF BytesTo, Padding, NoByte, Layout, pcalign, atom_size, Relaxed, InRange, Org, Atoms
<1>. QED
  BY <1>1, <1>2, <1>3, <1>4 DEF AllBytes, Contents

-----------------------------------------------------------------------------
(* What the output drivers are given: sections of the sizes assemble() has *)
(* found, trimmed.                                                         *)

TrimmedEnd(s) == IF Initialized(s) = {} THEN Final(s) ELSE End(s)

Assembling ==
  phase = "assemble" =>
    /\ pc[sec] = Layout(sec)[i - 1].end
    /\ \A t \in Secs : t < sec => pc[t] = Final(t)

Emitted ==
  /\ Assembling
  /\ stage \in {"trim", "check", "write", "closed"}
  /\ phase \notin {"output", "stopped"} => stage = "trim"
  /\ phase = "output" /\ stage = "trim" => \A t \in Secs : pc[t] = Final(t)
  /\ stage # "trim" => \A t \in Secs : pc[t] = TrimmedEnd(t)
  /\ stage \in {"trim", "check"} =>
       written = {} /\ file = << >> /\ filled = 0 /\ rest = << >> /\ addr = 0
  /\ phase = "output" /\ (Binary \/ stage \in {"trim", "check"}) => ~errors

LEMMA EmittedInit == AssemblerInit => Emitted
  BY DEF AssemblerInit, Init, OutputInit, HexInit, Emitted, Assembling

\* Before assemble() nothing is known but that nothing is written.
LEMMA EmittedBefore ==
  ASSUME Emitted, phase \notin {"assemble", "output"},
         phase' \notin {"assemble", "output"}, UNCHANGED << prog, outputVars, hexVars >>,
         stage = "trim"
  PROVE  Emitted'
  BY DEF Emitted, Assembling, outputVars, hexVars

LEMMA EmittedAssembling ==
  ASSUME Types, Emitted, Resolving,
         AssembleStart \/ AssembleAtom \/ AssembleNext
  PROVE  Emitted'
<1>0. /\ UNCHANGED << prog, label, outputVars, hexVars >> /\ phase \in {"resolve", "assemble"}
      /\ stage = "trim"
  BY DEF Resolving, AssembleStart, AssembleAtom, AssembleNext, Emitted
<1>1. /\ Secs' = Secs
      /\ \A s : /\ Org(s)' = Org(s) /\ Atoms(s)' = Atoms(s) /\ Layout(s)' = Layout(s)
                /\ Final(s)' = Final(s)
  BY <1>0, SectionsKept
<1>2. /\ UNCHANGED << stage, written, file, header, filled, wpc, rest, addr, ext_addr >>
  BY <1>0 DEF outputVars, hexVars
<1>3. /\ prog \in Programs /\ sec \in Secs /\ i \in 1 .. (Len(Atoms(sec)) + 1)
      /\ DOMAIN pc = Secs /\ Secs = 1 .. Len(prog.sections) /\ Len(prog.sections) \in Nat
      /\ Len(prog.sections) >= 1 /\ Len(Atoms(sec)) \in Nat
  BY SourceTypes DEF Types, Secs, Beyond
<1>4. CASE AssembleStart
  <2>1. 1 \in Secs
    BY <1>3
  <2>2. Layout(1)[0] = [start |-> Org(1), end |-> Org(1)]
    BY <1>3, <2>1, LayoutUnfolds
  <2>3. phase' = "assemble" /\ sec' = 1 /\ i' = 1 /\ pc'[1] = Org(1)
    BY <1>3, <1>4, <2>1 DEF AssembleStart
  <2>4. Assembling'
    BY <1>1, <1>3, <2>2, <2>3 DEF Assembling
  <2>. QED
    BY <1>0, <1>2, <2>3, <2>4 DEF Emitted
<1>5. CASE AssembleAtom
  <2>1. i \in 1 .. Len(Atoms(sec)) /\ (i + 1) - 1 = i
    BY <1>3, <1>5 DEF AssembleAtom, AtomsLeft
  <2>2. /\ Layout(sec)[i].start = pcalign(Atoms(sec)[i], Layout(sec)[i - 1].end)
        /\ Layout(sec)[i].end = Layout(sec)[i].start + atom_size(Atoms(sec)[i], Layout(sec)[i].start)
    BY <1>3, <2>1, LayoutStep
  <2>3. /\ phase = "assemble" /\ phase' = "assemble" /\ sec' = sec /\ i' = i + 1
        /\ pc' = [pc EXCEPT ![sec] = pcalign(Atom, pc[sec]) + atom_size(Atom, pcalign(Atom, pc[sec]))]
    BY <1>5 DEF AssembleAtom
  <2>4. pc[sec] = Layout(sec)[i - 1].end /\ \A t \in Secs : t < sec => pc[t] = Final(t)
    BY <2>3 DEF Emitted, Assembling
  <2>5. pc'[sec] = Layout(sec)[i].end
    BY <1>3, <2>2, <2>3, <2>4 DEF Atom
  <2>6. \A t \in Secs : t < sec => pc'[t] = Final(t)
    BY <1>3, <2>3, <2>4
  <2>7. Assembling'
    BY <1>1, <2>1, <2>3, <2>5, <2>6 DEF Assembling
  <2>. QED
    BY <1>0, <1>2, <2>3, <2>7 DEF Emitted
<1>6. CASE AssembleNext
  <2>1. phase = "assemble" /\ i - 1 = Len(Atoms(sec))
    BY <1>3, <1>6 DEF AssembleNext, AtomsLeft
  <2>2. \A t \in Secs : t <= sec => pc[t] = Final(t)
    BY <1>3, <2>1 DEF Emitted, Assembling, Final
  <2>3. CASE sec < Len(prog.sections)
    <3>1. /\ phase' = "assemble" /\ sec' = sec + 1 /\ i' = 1
          /\ pc' = [pc EXCEPT ![sec + 1] = Org(sec + 1)]
      BY <1>6, <2>1, <2>3 DEF AssembleNext
    <3>2. sec + 1 \in Secs /\ i' - 1 = 0
      BY <1>3, <2>3, <3>1
    <3>3. Layout(sec + 1)[0] = [start |-> Org(sec + 1), end |-> Org(sec + 1)]
      BY <1>3, <3>2, LayoutUnfolds
    <3>4. pc'[sec + 1] = Layout(sec + 1)[0].end
      BY <1>3, <3>1, <3>2, <3>3
    <3>5. \A t \in Secs : t < sec + 1 => pc'[t] = Final(t)
      BY <1>3, <2>2, <3>1
    <3>6. Assembling'
      BY <1>1, <3>1, <3>2, <3>4, <3>5 DEF Assembling
    <3>. QED
      BY <1>0, <1>2, <3>1, <3>6 DEF Emitted
  <2>4. CASE ~(sec < Len(prog.sections))
    <3>1. phase' = (IF errors THEN "stopped" ELSE "output") /\ pc' = pc /\ errors' = errors
      BY <1>6, <2>4 DEF AssembleNext
    <3>2. \A t \in Secs : pc[t] = Final(t)
      BY <1>3, <2>2, <2>4
    <3>. QED
      BY <1>0, <1>1, <1>2, <3>1, <3>2 DEF Emitted, Assembling
  <2>. QED
    BY <2>3, <2>4
<1>. QED
  BY <1>4, <1>5, <1>6

LEMMA EmittedStep == Types /\ Emitted /\ [Next]_allVars => Emitted'
<1> SUFFICES ASSUME Types, Emitted, [Next]_allVars PROVE Emitted'
  OBVIOUS
<1>1. CASE Resolving
  <2>1. CASE AssembleStart \/ AssembleAtom \/ AssembleNext
    BY <1>1, <2>1, EmittedAssembling
  <2>2. CASE AddAtom \/ EndOfSection \/ ResolveSection \/ ResolveAtom \/ NextPass \/ GiveUp \/ SectionDone
    <3>1. /\ phase \notin {"assemble", "output", "stopped"} /\ phase' \notin {"assemble", "output"}
          /\ prog' = prog
      BY <2>2 DEF AddAtom, EndOfSection, ResolveSection, ResolveAtom, NextPass, GiveUp,
                  SectionDone, EndPass
    <3>2. UNCHANGED << outputVars, hexVars >> /\ stage = "trim"
      BY <1>1, <3>1 DEF Resolving, Emitted
    <3>. QED
      BY <3>1, <3>2, EmittedBefore
  <2>. QED
    BY <1>1, <2>1, <2>2 DEF Resolving, ResolverNext
<1>2. CASE TrimUninitialized /\ UNCHANGED hexVars
  <2>1. /\ UNCHANGED << prog, label, phase, errors, written, file, filled, rest, addr >>
        /\ phase = "output" /\ stage = "trim" /\ stage' = "check"
        /\ pc' = [s \in Secs |-> IF Initialized(s) = {} THEN pc[s] ELSE End(s)]
    BY <1>2 DEF TrimUninitialized, hexVars
  <2>2. /\ Secs' = Secs
        /\ \A s : Initialized(s)' = Initialized(s) /\ End(s)' = End(s) /\ Final(s)' = Final(s)
    BY <2>1, SectionsKept
  <2>3. \A t \in Secs : pc'[t] = IF Initialized(t) = {} THEN Final(t) ELSE End(t)
    BY <2>1 DEF Emitted
  <2>. QED
    BY <2>1, <2>2, <2>3 DEF Emitted, Assembling, TrimmedEnd
<1>3. CASE CheckOverlap /\ UNCHANGED hexVars
  <2>1. /\ UNCHANGED << prog, label, pc, written, file, filled, rest, addr >>
        /\ phase = "output" /\ stage = "check"
        /\ \/ phase' = "stopped" /\ stage' = stage
           \/ stage' = "write" /\ phase' = phase /\ errors' = errors
    BY <1>3 DEF CheckOverlap, hexVars
  <2>2. /\ Secs' = Secs
        /\ \A s : Initialized(s)' = Initialized(s) /\ End(s)' = End(s) /\ Final(s)' = Final(s)
    BY <2>1, SectionsKept
  <2>. QED
    BY <2>1, <2>2 DEF Emitted, Assembling, TrimmedEnd, Binary
<1>4. CASE (WriteSection \/ PatchHeader) /\ UNCHANGED hexVars
  <2>1. /\ UNCHANGED << prog, label, pc, phase, errors >>
        /\ phase = "output" /\ stage = "write" /\ Binary /\ stage' \in {"write", "closed"}
    BY <1>4 DEF WriteSection, PatchHeader, vars
  <2>2. /\ Secs' = Secs
        /\ \A s : Initialized(s)' = Initialized(s) /\ End(s)' = End(s) /\ Final(s)' = Final(s)
    BY <2>1, SectionsKept
  <2>. QED
    BY <2>1, <2>2 DEF Emitted, Assembling, TrimmedEnd, Binary
<1>5. CASE HexNext
  <2>1. /\ UNCHANGED << prog, label, pc >> /\ prog.format \in Srec \cup Ihex
        /\ phase = "output" /\ phase' \in {"output", "stopped"}
        /\ stage = "write" /\ stage' \in {"write", "closed"}
    BY <1>5 DEF HexNext, StartSection, WriteRecord, EndOfRecords, Hex, vars
  <2>2. /\ Secs' = Secs
        /\ \A s : Initialized(s)' = Initialized(s) /\ End(s)' = End(s) /\ Final(s)' = Final(s)
    BY <2>1, SectionsKept
  <2>3. ~Binary
    BY <2>1 DEF Binary, Srec, Ihex, Streams, Segmented
  <2>. QED
    BY <2>1, <2>2, <2>3 DEF Emitted, Assembling, TrimmedEnd, Binary
<1>6. CASE UNCHANGED allVars
  <2>1. UNCHANGED << prog, label, pc, phase, sec, i, errors, stage, written, file, filled, rest, addr >>
    BY <1>6 DEF allVars, vars, outputVars, hexVars
  <2>2. /\ Secs' = Secs
        /\ \A s : /\ Initialized(s)' = Initialized(s) /\ End(s)' = End(s) /\ Final(s)' = Final(s)
                  /\ Layout(s)' = Layout(s)
    BY <2>1, SectionsKept
  <2>. QED
    BY <2>1, <2>2 DEF Emitted, Assembling, TrimmedEnd, Binary
<1>. QED
  BY <1>1, <1>2, <1>3, <1>4, <1>5, <1>6 DEF Next, BinaryNext

-----------------------------------------------------------------------------
(* Refusals.                                                               *)

Hexadecimal == prog.format \in Srec \cup Ihex
Writing == stage \in {"write", "closed"}

Checked ==
  /\ prog.format \notin Srec /\ Writing => \A s, s2 \in Secs : s < s2 => ~Overlap(s, s2)
  /\ phase = "stopped" =>
       \/ stage = "trim"
       \/ stage = "check" /\ \E s, s2 \in Secs : s < s2 /\ Overlap(s, s2)
       \/ stage = "closed" /\ errors /\ Hexadecimal
  /\ stage = "closed" => Binary \/ Hexadecimal

LEMMA CheckedInit == AssemblerInit => Checked
  BY DEF AssemblerInit, Init, OutputInit, Checked, Writing

LEMMA CheckedStep == Types /\ Emitted /\ Checked /\ [Next]_allVars => Checked'
<1> SUFFICES ASSUME Types, Emitted, Checked, [Next]_allVars PROVE Checked'
  OBVIOUS
<1>1. CASE Resolving
  <2>1. phase # "output" /\ phase # "stopped" /\ UNCHANGED << outputVars, hexVars >>
    BY <1>1 DEF Resolving, ResolverNext, AddAtom, EndOfSection, ResolveSection, ResolveAtom,
                NextPass, GiveUp, SectionDone, EndPass, AssembleStart, AssembleAtom, AssembleNext
  <2>2. stage' = "trim"
    BY <2>1 DEF Emitted, outputVars
  <2>. QED
    BY <2>2 DEF Checked, Writing
<1>2. CASE TrimUninitialized
  BY <1>2 DEF TrimUninitialized, Checked, Writing
<1>3. CASE CheckOverlap
  BY <1>3 DEF CheckOverlap, Checked, Writing, Overlap, Org, Secs, Hexadecimal
<1>4. CASE WriteSection \/ PatchHeader
  <2>1. /\ UNCHANGED << prog, pc >> /\ phase' = phase /\ phase = "output" /\ Binary
        /\ stage = "write" /\ stage' \in {"write", "closed"}
    BY <1>4 DEF WriteSection, PatchHeader, vars
  <2>. QED
    BY <2>1 DEF Checked, Writing, Overlap, Org, Secs, Binary
<1>5. CASE HexNext
  <2>1. /\ UNCHANGED << prog, pc >> /\ phase = "output" /\ Hexadecimal
        /\ stage = "write" /\ stage' \in {"write", "closed"}
        /\ phase' = "stopped" => stage' = "closed" /\ errors'
    BY <1>5 DEF HexNext, StartSection, WriteRecord, EndOfRecords, Hex, vars, Hexadecimal
  <2>. QED
    BY <2>1 DEF Checked, Writing, Overlap, Org, Secs, Hexadecimal
<1>6. CASE UNCHANGED allVars
  BY <1>6 DEF allVars, vars, outputVars, Checked, Writing, Overlap, Org, Secs, Hexadecimal, Binary
<1>. QED
  BY <1>1, <1>2, <1>3, <1>4, <1>5, <1>6 DEF Next, BinaryNext

\* A section reaches beyond the addresses of the format, or, for some, to their end.
TooHigh ==
  \/ Limited /\ \E s \in Secs : Org(s) + Len(AllBytes(s)) > Limit
  \/ TopOfMemory

\* Sections 1 to n are written, but for what is left of the last of them.
WrittenTo(n) ==
  /\ written = 1 .. n
  /\ rest \in Seq(Int) /\ addr \in Nat
  /\ IF n = 0 THEN rest = << >> ELSE addr + Len(rest) = Org(n) + Len(AllBytes(n))

HexKnown ==
  Hexadecimal /\ Writing =>
    /\ \E n \in 0 .. Len(prog.sections) : WrittenTo(n)
    /\ errors => TooHigh

LEMMA Smaller ==
  ASSUME NEW m \in Nat, NEW n \in Nat
  PROVE  /\ Min({m, n}) \in Nat /\ Min({m, n}) <= m /\ Min({m, n}) <= n
         /\ Min({m, n}) = m \/ Min({m, n}) = n
<1>1. \E x \in {m, n} : \A y \in {m, n} : x <= y
  <2>1. m <= n \/ n <= m
    OBVIOUS
  <2>. QED
    BY <2>1
<1>2. Min({m, n}) \in {m, n} /\ \A y \in {m, n} : Min({m, n}) <= y
  BY <1>1, Zenon DEF Min
<1>. QED
  BY <1>2

LEMMA FirstSections ==
  ASSUME NEW n \in Nat
  PROVE  Cardinality(1 .. n) = n
  BY FS_Interval

\* The part of the bytes that goes into the next record.
LEMMA RecordSizes ==
  ASSUME NEW q \in Seq(Int), q # << >>
  PROVE  LET n == Min({Len(q), RecordSize})
         IN /\ n \in 1 .. Len(q)
            /\ SubSeq(q, 1, n) \in Seq(Int) /\ Len(SubSeq(q, 1, n)) = n
            /\ \A j \in 1 .. n : SubSeq(q, 1, n)[j] = q[j]
            /\ SubSeq(q, n + 1, Len(q)) \in Seq(Int)
            /\ Len(SubSeq(q, n + 1, Len(q))) = Len(q) - n
            /\ \A j \in 1 .. (Len(q) - n) : SubSeq(q, n + 1, Len(q))[j] = q[n + j]
<1>1. Len(q) \in Nat \ {0} /\ RecordSize \in Nat /\ RecordSize > 0
  BY EmptySeq DEF RecordSize
<1>2. PICK n \in 1 .. Len(q) : n = Min({Len(q), RecordSize})
  BY <1>1, Smaller
<1>3. \A j \in 1 .. Len(q) : q[j] \in Int
  BY ElementOfSeq
<1>4. /\ SubSeq(q, 1, n) \in Seq(Int) /\ Len(SubSeq(q, 1, n)) = n
      /\ \A j \in 1 .. n : SubSeq(q, 1, n)[j] = q[j]
  <2>1. 1 \in Int /\ n \in Int /\ 1 <= n /\ \A j \in 1 .. n : q[j] \in Int
    BY <1>1, <1>3
  <2>. QED
    BY <2>1, SubSeqProperties
<1>5. /\ SubSeq(q, n + 1, Len(q)) \in Seq(Int)
      /\ Len(SubSeq(q, n + 1, Len(q))) = Len(q) - n
      /\ \A j \in 1 .. (Len(q) - n) : SubSeq(q, n + 1, Len(q))[j] = q[n + j]
  <2>1. PICK lo \in Int, hi \in Int : lo = n + 1 /\ hi = Len(q)
    BY <1>1
  <2>2. \A j \in lo .. hi : q[j] \in Int
    BY <1>1, <1>3, <2>1
  <2>3. /\ SubSeq(q, lo, hi) \in Seq(Int)
        /\ Len(SubSeq(q, lo, hi)) = IF lo <= hi THEN hi - lo + 1 ELSE 0
        /\ \A j \in 1 .. (hi - lo + 1) : SubSeq(q, lo, hi)[j] = q[lo + j - 1]
    BY <2>2, SubSeqProperties
  <2>4. hi - lo + 1 = Len(q) - n /\ (~(lo <= hi) => Len(q) - n = 0)
    BY <1>1, <2>1
  <2>5. \A j \in 1 .. (Len(q) - n) : lo + j - 1 = n + j
    BY <1>1, <2>1
  <2>. QED
    BY <2>1, <2>3, <2>4, <2>5
<1>. QED
  BY <1>2, <1>4, <1>5

\* The sections of a source are told apart, and their bytes numbered.
LEMMA SectionBytes ==
  ASSUME prog \in Programs, NEW s \in Secs
  PROVE  Org(s) \in Nat /\ AllBytes(s) \in Seq(Int) /\ Len(AllBytes(s)) \in Nat
  BY SourceOrg, BytesAreRun, LenProperties

\* An address the driver reports is that of a section which is too high.
LEMMA ReportedHigh ==
  ASSUME Types, Hexadecimal, NEW s \in Secs, addr \in Nat, NEW n \in Nat, NEW m \in Nat,
         n > 0, n <= m, addr + m = Org(s) + Len(AllBytes(s)), OutOfRange(addr + n)
  PROVE  TooHigh
<1>1. PICK top \in Nat : top = Org(s) + Len(AllBytes(s))
  BY SectionBytes DEF Types
<1>2. CASE prog.format = "s19" \/ prog.format = "s28"
  <2>1. Limited /\ top > Limit
    BY <1>1, <1>2 DEF OutOfRange, Limited, Limit
  <2>. QED
    BY <1>1, <2>1 DEF TooHigh
<1>3. CASE prog.format = "i8hex" \/ prog.format = "i16hex"
  <2>1. Limited /\ (top > Limit \/ top = Limit)
    BY <1>1, <1>3 DEF OutOfRange, Limited, Limit
  <2>. QED
    BY <1>1, <1>3, <2>1 DEF TooHigh, TopOfMemory
<1>. QED
  BY <1>2, <1>3 DEF OutOfRange

\* Nothing of this changes while records are written.
LEMMA HighKept == UNCHANGED << prog, label >> => (TooHigh' <=> TooHigh)
<1> SUFFICES ASSUME UNCHANGED << prog, label >> PROVE TooHigh' <=> TooHigh
  OBVIOUS
<1>1. Secs' = Secs /\ \A s : Org(s)' = Org(s) /\ AllBytes(s)' = AllBytes(s)
  BY SectionsKept
<1>. QED
  BY <1>1 DEF TooHigh, TopOfMemory, Limited, Limit

\* The next section, the next record.
LEMMA HexWritten ==
  ASSUME Types, NEW n \in 0 .. Len(prog.sections), WrittenTo(n), errors => TooHigh,
         Hexadecimal, HexNext
  PROVE  /\ \E m \in 0 .. Len(prog.sections) : WrittenTo(m)'
         /\ errors' => TooHigh'
<1>0. prog \in Programs /\ Secs = 1 .. Len(prog.sections) /\ Len(prog.sections) \in Nat
  BY SourceTypes DEF Types, Secs
<1>1. UNCHANGED << prog, label >>
  BY DEF HexNext, StartSection, WriteRecord, EndOfRecords, Hex, vars
<1>2. /\ \A s : Org(s)' = Org(s) /\ AllBytes(s)' = AllBytes(s)
      /\ TooHigh' <=> TooHigh
  BY <1>1, SectionsKept, HighKept
<1>3. written = 1 .. n /\ rest \in Seq(Int) /\ addr \in Nat /\ Cardinality(written) = n
  BY FirstSections DEF WrittenTo
<1>4. CASE StartSection
  <2>1. PICK s : s = n + 1
    OBVIOUS
  <2>2. s \in Secs /\ s \in 0 .. Len(prog.sections) /\ s # 0
    BY <1>0, <1>3, <1>4, <2>1 DEF StartSection
  <2>3. written' = 1 .. s
    <3>1. 1 .. s = (1 .. n) \cup {s}
      BY <2>1
    <3>. QED
      BY <1>3, <1>4, <2>1, <3>1 DEF StartSection
  <2>4. rest' = AllBytes(s) /\ addr' = Org(s) /\ errors' = errors
    BY <1>3, <1>4, <2>1 DEF StartSection, vars
  <2>5. Org(s) \in Nat /\ AllBytes(s) \in Seq(Int) /\ Len(AllBytes(s)) \in Nat
    BY <1>0, <2>2, SectionBytes
  <2>6. WrittenTo(s)'
    BY <1>2, <2>2, <2>3, <2>4, <2>5 DEF WrittenTo
  <2>. QED
    BY <1>2, <2>2, <2>4, <2>6
<1>5. CASE WriteRecord
  <2>1. PICK k : k = Min({Len(rest), RecordSize})
    OBVIOUS
  <2>2. rest # << >>
    BY <1>5 DEF WriteRecord
  <2>3. /\ k \in 1 .. Len(rest) /\ SubSeq(rest, k + 1, Len(rest)) \in Seq(Int)
        /\ Len(SubSeq(rest, k + 1, Len(rest))) = Len(rest) - k
    BY <1>3, <2>1, <2>2, RecordSizes
  <2>4. /\ rest' = SubSeq(rest, k + 1, Len(rest)) /\ addr' = addr + k /\ written' = written
        /\ errors' = (errors \/ OutOfRange(addr + k))
    BY <1>5, <2>1 DEF WriteRecord
  <2>5. /\ n # 0 /\ Len(rest) \in Nat /\ n \in Secs
        /\ addr + Len(rest) = Org(n) + Len(AllBytes(n))
    BY <1>0, <1>3, <2>2, LenProperties DEF WrittenTo
  <2>6. Org(n) \in Nat /\ Len(AllBytes(n)) \in Nat
    BY <1>0, <2>5, SectionBytes
  <2>7. OutOfRange(addr + k) => TooHigh
    <3>1. k \in Nat /\ k > 0 /\ k <= Len(rest)
      BY <2>3, <2>5
    <3>. QED
      BY <1>3, <2>5, <3>1, ReportedHigh
  <2>8. addr' \in Nat /\ addr' + Len(rest') = Org(n) + Len(AllBytes(n))
    <3>1. Len(rest') = Len(rest) - k /\ addr' = addr + k /\ k \in Nat
      BY <2>3, <2>4, <2>5
    <3>. QED
      BY <1>3, <2>5, <2>6, <3>1
  <2>9. WrittenTo(n)'
    BY <1>2, <1>3, <2>3, <2>4, <2>5, <2>8 DEF WrittenTo
  <2>. QED
    BY <1>1, <1>2, <2>4, <2>7, <2>9
<1>6. CASE EndOfRecords
  <2>1. UNCHANGED << written, rest, addr, errors >>
    BY <1>6 DEF EndOfRecords, hexVars
  <2>2. WrittenTo(n)'
    BY <1>2, <2>1 DEF WrittenTo
  <2>. QED
    BY <1>2, <2>1, <2>2
<1>. QED
  BY <1>4, <1>5, <1>6 DEF HexNext

LEMMA HexKnownStep == Types /\ Emitted /\ HexKnown /\ [Next]_allVars => HexKnown'
<1> SUFFICES ASSUME Types, Emitted, HexKnown, [Next]_allVars, Hexadecimal', Writing'
             PROVE  /\ \E n \in 0 .. Len(prog'.sections) : WrittenTo(n)'
                    /\ errors' => TooHigh'
  BY DEF HexKnown
<1>1. CASE Resolving
  <2>1. phase # "output" /\ phase # "stopped" /\ UNCHANGED << outputVars, hexVars >>
    BY <1>1 DEF Resolving, ResolverNext, AddAtom, EndOfSection, ResolveSection, ResolveAtom,
                NextPass, GiveUp, SectionDone, EndPass, AssembleStart, AssembleAtom, AssembleNext
  <2>. QED
    BY <2>1 DEF Emitted, outputVars, Writing
<1>2. CASE TrimUninitialized
  BY <1>2 DEF TrimUninitialized, Writing
<1>3. CASE CheckOverlap /\ UNCHANGED hexVars
  <2>1. /\ stage = "check" /\ phase = "output" /\ prog' = prog
        /\ UNCHANGED << written, rest, addr >>
        /\ stage' # "check" => errors' = errors
    BY <1>3 DEF CheckOverlap, hexVars
  <2>2. written' = {} /\ rest' = << >> /\ addr' = 0 /\ ~errors'
    BY <2>1 DEF Emitted, Writing
  <2>3. WrittenTo(0)'
    BY <2>2 DEF WrittenTo
  <2>4. 0 \in 0 .. Len(prog'.sections)
    BY <2>1, SourceTypes DEF Types
  <2>. QED
    BY <2>2, <2>3, <2>4
<1>4. CASE WriteSection \/ PatchHeader
  BY <1>4 DEF WriteSection, PatchHeader, vars, Binary, Hexadecimal, Streams, Segmented, Srec, Ihex
<1>5. CASE HexNext
  <2>1. Hexadecimal /\ Writing /\ prog' = prog
    BY <1>5 DEF HexNext, StartSection, WriteRecord, EndOfRecords, Hex, vars, Hexadecimal, Writing
  <2>2. PICK n \in 0 .. Len(prog.sections) : WrittenTo(n) /\ (errors => TooHigh)
    BY <2>1 DEF HexKnown
  <2>. QED
    BY <1>5, <2>1, <2>2, HexWritten
<1>6. CASE UNCHANGED allVars
  <2>1. UNCHANGED << prog, label, stage, written, rest, addr, errors >>
    BY <1>6 DEF allVars, vars, outputVars, hexVars
  <2>2. /\ \A s : Org(s)' = Org(s) /\ AllBytes(s)' = AllBytes(s)
        /\ TooHigh' <=> TooHigh
    BY <2>1, SectionsKept, HighKept
  <2>3. Hexadecimal /\ Writing
    BY <2>1 DEF Hexadecimal, Writing
  <2>4. PICK n \in 0 .. Len(prog.sections) : WrittenTo(n) /\ (errors => TooHigh)
    BY <2>3 DEF HexKnown
  <2>5. WrittenTo(n)'
    BY <2>1, <2>2, <2>4 DEF WrittenTo
  <2>. QED
    BY <2>1, <2>2, <2>4, <2>5
<1>. QED
  BY <1>1, <1>2, <1>3, <1>4, <1>5, <1>6 DEF Next, BinaryNext

LEMMA HexKnownInit == AssemblerInit => HexKnown
  BY DEF AssemblerInit, OutputInit, HexKnown, Writing

\* Sections are named by their addresses.
LEMMA DistinctOrgs ==
  ASSUME prog \in Programs, NEW s \in Secs, NEW t \in Secs, s # t
  PROVE  Org(s) # Org(t)
  BY ProgramsAssumption DEF Secs, Org

LEMMA TrimmedEnds ==
  ASSUME Types, Emitted, stage # "trim", NEW s \in Secs
  PROVE  /\ pc[s] = TrimmedEnd(s) /\ pc[s] \in Nat /\ Org(s) \in Nat /\ End(s) \in Nat
         /\ Org(s) <= End(s) /\ End(s) <= pc[s]
  BY SectionEnds DEF Types, Emitted, TrimmedEnd

\* What the drivers know of the sections and of the records while they write.
OutputInv == Types /\ Emitted /\ Checked /\ HexKnown

LEMMA OutputInvInit == AssemblerInit => OutputInv
  BY TypesInit, EmittedInit, CheckedInit, HexKnownInit DEF OutputInv

LEMMA OutputInvStep == OutputInv /\ [Next]_allVars => OutputInv'
  BY TypesStep, EmittedStep, CheckedStep, HexKnownStep DEF OutputInv

LEMMA RefusalHasCause ==
  ASSUME OutputInv
  PROVE  RefusedForCause
<1> SUFFICES ASSUME phase = "stopped", stage # "trim"
             PROVE  \/ \E s, t \in Secs : s # t /\ Meets(s, t)
                    \/ Limited /\ \E s \in Secs : Org(s) + Len(AllBytes(s)) > Limit
                    \/ EmptyBehind \/ TopOfMemory
  BY DEF RefusedForCause
<1>1. CASE stage = "check"
  <2>1. PICK s \in Secs, t \in Secs : s < t /\ Overlap(s, t)
    BY <1>1 DEF OutputInv, Checked
  <2>2. Secs = 1 .. Len(prog.sections) /\ s # t
    BY <2>1 DEF Secs
  <2>3. Org(s) # Org(t)
    BY <2>2, DistinctOrgs DEF OutputInv, Types
  <2>4. PICK o \in Nat, p \in Nat : o = Org(s) /\ p = pc[s] /\ o <= p
    BY TrimmedEnds DEF OutputInv
  <2>5. PICK o2 \in Nat, p2 \in Nat : o2 = Org(t) /\ p2 = pc[t] /\ o2 <= p2
    BY TrimmedEnds DEF OutputInv
  <2>6. (o2 >= o /\ o2 < p) \/ (p2 > o /\ p2 <= p)
    BY <2>1, <2>4, <2>5 DEF Overlap
  <2>7. o # o2
    BY <2>3, <2>4, <2>5
  <2>8. (o < p2 /\ o2 < p) \/ (o2 = p2 /\ o2 = p)
    BY <2>4, <2>5, <2>6, <2>7
  <2>. QED
    BY <2>1, <2>2, <2>4, <2>5, <2>8 DEF Meets, EmptyBehind
<1>2. CASE stage = "closed" /\ errors /\ Hexadecimal
  <2>1. TooHigh
    BY <1>2 DEF OutputInv, HexKnown, Writing
  <2>. QED
    BY <2>1 DEF TooHigh
<1>. QED
  BY <1>1, <1>2 DEF OutputInv, Checked

(* The drivers turn a source away only for sections that meet, or for one  *)
(* that is too high for the format; or they mistake an empty section, or   *)
(* one that ends with the address space, for such a one.                   *)
THEOREM NothingElseRefused == Spec => []RefusedForCause
<1>1. OutputInv => RefusedForCause
  BY RefusalHasCause
<1>. QED
  BY <1>1, OutputInvInit, OutputInvStep, PTL DEF Spec

-----------------------------------------------------------------------------
(* The binary formats: the sections in the order of their addresses.       *)

\* No section reaches into one that begins behind it.
Apart == \A s, t \in Secs : Org(s) < Org(t) => pc[s] <= Org(t)

\* What the test for overlaps is for; it does not see a section that encloses an earlier one.
LEMMA CheckedApart ==
  ASSUME OutputInv, Writing, prog.format \notin Srec, ~Displaced
  PROVE  Apart
<1> SUFFICES ASSUME NEW s \in Secs, NEW t \in Secs, Org(s) < Org(t)
             PROVE  pc[s] <= Org(t)
  BY DEF Apart
<1>1. PICK o \in Nat, p \in Nat : o = Org(s) /\ p = pc[s] /\ o <= p
  BY TrimmedEnds DEF OutputInv, Writing
<1>2. PICK o2 \in Nat, p2 \in Nat : o2 = Org(t) /\ p2 = pc[t] /\ o2 <= p2
  BY TrimmedEnds DEF OutputInv, Writing
<1>3. o < o2 /\ (s < t \/ t < s)
  BY <1>1, <1>2 DEF Secs
<1>4. CASE s < t
  <2>1. ~(o2 >= o /\ o2 < p)
    BY <1>1, <1>2, <1>4 DEF OutputInv, Checked, Overlap
  <2>. QED
    BY <1>1, <1>2, <1>3, <2>1
<1>5. CASE t < s
  <2>1. ~(p > o2 /\ p <= p2)
    BY <1>1, <1>2, <1>5 DEF OutputInv, Checked, Overlap
  <2>2. ~(p > p2)
    BY <1>1, <1>2, <1>3, <1>5 DEF Displaced, Encloses
  <2>. QED
    BY <1>1, <1>2, <1>3, <2>1, <2>2
<1>. QED
  BY <1>3, <1>4, <1>5

Header == header \in [load : Int, length : Int] /\ filled \in Int /\ wpc \in Int

LEMMA HeaderInit == AssemblerInit => Header
  BY DEF AssemblerInit, OutputInit, Header

LEMMA HeaderStep == OutputInv /\ Header /\ [Next]_allVars => Header'
<1> SUFFICES ASSUME OutputInv, Header, [Next]_allVars PROVE Header'
  OBVIOUS
<1>1. CASE UNCHANGED << header, filled, wpc >>
  BY <1>1 DEF Header
<1>2. CASE WriteSection
  <2>1. PICK s \in Secs \ written : (WriteSegment(s) \/ WriteRange(s)) /\ wpc' = End(s)
    BY <1>2 DEF WriteSection
  <2>2. Org(s) \in Int /\ End(s) \in Int
    BY SectionEnds DEF OutputInv, Types
  <2>3. CASE WriteSegment(s)
    BY <2>1, <2>2, <2>3 DEF WriteSegment, Header
  <2>4. CASE WriteRange(s)
    <3>1. Gap(s) \in Int
      BY <2>2 DEF Gap, Header
    <3>. QED
      BY <2>1, <2>2, <2>4, <3>1 DEF WriteRange, Header
  <2>. QED
    BY <2>1, <2>3, <2>4
<1>3. CASE PatchHeader
  <2>1. StreamLength \in Int
    BY DEF StreamLength, Word, Header
  <2>. QED
    BY <1>3, <2>1 DEF PatchHeader, Header
<1>. QED
  BY <1>1, <1>2, <1>3 DEF Next, Resolving, BinaryNext, HexNext, TrimUninitialized, CheckOverlap,
     StartSection, WriteRecord, EndOfRecords, outputVars, allVars

Pieces == [sec : Nat, load : Int, length : Int, bytes : Seq(Int)]

\* The piece of a section, where the section is.
Pieced(p) ==
  /\ p.load = Org(p.sec) /\ p.bytes = Contents(p.sec)
  /\ p.length = IF prog.format \in Segmented THEN SegmentLength(p.sec) ELSE End(p.sec) - Org(p.sec)

\* p is piece number k of the file.
Piece(k, p) == k \in 1 .. Len(file) /\ file[k] = p

LEMMA NewPiece ==
  ASSUME file \in Seq(Pieces), NEW p \in Pieces, file' = Append(file, p)
  PROVE  /\ file' \in Seq(Pieces)
         /\ \A k, q : Piece(k, q)' <=> Piece(k, q) \/ (k = Len(file) + 1 /\ q = p)
         /\ \A k, q : Piece(k, q) => k \in Nat /\ k < Len(file) + 1 /\ q \in Pieces
<1>1. /\ Len(file) \in Nat /\ file' \in Seq(Pieces)
      /\ Len(file') = Len(file) + 1
      /\ \A k \in 1 .. Len(file) : file'[k] = file[k]
      /\ file'[Len(file) + 1] = p
  BY AppendProperties, LenProperties
<1>2. \A k \in 1 .. Len(file) : file[k] \in Pieces
  BY ElementOfSeq
<1>3. \A k : k \in 1 .. (Len(file) + 1) <=> k \in 1 .. Len(file) \/ k = Len(file) + 1
  BY <1>1
<1>4. Len(file) + 1 \notin 1 .. Len(file)
  BY <1>1
<1>5. ASSUME NEW k, NEW q PROVE Piece(k, q)' <=> Piece(k, q) \/ (k = Len(file) + 1 /\ q = p)
  BY <1>1, <1>3, <1>4 DEF Piece
<1>. QED
  BY <1>1, <1>2, <1>5 DEF Piece

InOrder ==
  /\ written \subseteq Secs /\ file \in Seq(Pieces)
  /\ \A k, p : Piece(k, p) => p.sec \in written /\ Pieced(p)
  /\ \A s \in written : \E k, p : Piece(k, p) /\ p.sec = s
  /\ \A j, k, p, q : Piece(j, p) /\ Piece(k, q) /\ j < k => Org(p.sec) < Org(q.sec)
  /\ \A s \in written : \A t \in Secs \ written : Org(s) < Org(t)

\* The header says where the stream begins, and so far it reaches to wpc.
Streaming ==
  IF written = {} THEN filled = 0
  ELSE /\ filled >= 0 /\ header.load + filled = wpc
       /\ \E s \in written : header.load = Org(s)
       /\ \E s \in written : wpc = End(s) /\ \A t \in written : Org(t) <= Org(s)

BinaryFile ==
  Binary /\ Writing /\ Apart =>
    /\ InOrder
    /\ prog.format \in Streams => Streaming
    /\ stage = "closed" => written = Secs /\ header.length = StreamLength

LEMMA BinaryInit == AssemblerInit => BinaryFile
  BY DEF AssemblerInit, OutputInit, BinaryFile, Writing

\* The piece that is written next.
LEMMA NextPiece ==
  ASSUME OutputInv, Header, Apart, Writing, InOrder, prog.format \in Streams => Streaming,
         NEW s \in Secs \ written, WriteSegment(s) \/ WriteRange(s), wpc' = End(s), Binary
  PROVE  \E p \in Pieces : /\ file' = Append(file, p) /\ p.sec = s /\ Pieced(p)
                           /\ prog.format \in Streams =>
                                /\ filled' >= 0 /\ header'.load + filled' = wpc'
                                /\ header'.load = IF written = {} THEN Org(s) ELSE header.load
<1>1. PICK o \in Nat, e \in Nat : o = Org(s) /\ e = End(s) /\ o <= e
  BY SectionEnds DEF OutputInv, Types
<1>2. /\ Contents(s) \in Seq(Int) /\ s \in Nat /\ pc[s] \in Nat
  <2>1. Contents(s) = Run(o, e - o)
    BY <1>1 DEF Contents, Run
  <2>2. s \in Nat
    BY DEF Secs
  <2>3. pc[s] \in Nat
    BY TrimmedEnds DEF OutputInv, Writing
  <2>4. o \in Int /\ e - o \in Nat
    BY <1>1
  <2>5. Run(o, e - o) \in Seq(Int)
    BY <2>4, RunIsSeq
  <2>. QED
    BY <2>1, <2>2, <2>3, <2>5
<1>3. CASE WriteSegment(s)
  <2>1. SegmentLength(s) \in Int
    BY <1>1, <1>2 DEF SegmentLength, Word
  <2>2. PICK p : p = [sec |-> s, load |-> o, length |-> SegmentLength(s), bytes |-> Contents(s)]
    OBVIOUS
  <2>3. p \in Pieces /\ p.sec = s /\ Pieced(p)
    BY <1>1, <1>2, <1>3, <2>1, <2>2 DEF Pieces, Pieced, WriteSegment
  <2>4. file' = Append(file, p) /\ prog.format \notin Streams
    BY <1>1, <1>3, <2>2 DEF WriteSegment, Streams, Segmented
  <2>. QED
    BY <2>3, <2>4
<1>4. CASE WriteRange(s)
  <2>1. PICK base : base = IF written = {} THEN o ELSE header.load
    OBVIOUS
  <2>2. PICK start : start = filled + Gap(s)
    OBVIOUS
  <2>3. base \in Int /\ start \in Int /\ start >= 0 /\ base + start = o
    <3>1. header.load \in Int /\ filled \in Int /\ wpc \in Int
      BY DEF Header
    <3>2. CASE written = {}
      BY <1>1, <1>4, <2>1, <2>2, <3>2 DEF WriteRange, Streaming, Gap
    <3>3. CASE written # {}
      <4>1. PICK r \in written : wpc = End(r)
        BY <1>4, <3>3 DEF WriteRange, Streaming
      <4>2. r \in Secs /\ Org(r) < Org(s)
        BY DEF InOrder
      <4>3. pc[r] <= o /\ End(r) <= pc[r] /\ End(r) \in Nat /\ pc[r] \in Nat
        BY <1>1, <4>2, TrimmedEnds DEF Apart, OutputInv, Writing
      <4>4. wpc <= o
        BY <1>1, <4>1, <4>3
      <4>5. Gap(s) = o - wpc
        BY <1>1, <3>1, <3>3, <4>4 DEF Gap
      <4>6. header.load + filled = wpc /\ filled >= 0 /\ base = header.load
        BY <1>4, <2>1, <3>3 DEF WriteRange, Streaming
      <4>. QED
        BY <1>1, <2>2, <3>1, <4>4, <4>5, <4>6
    <3>. QED
      BY <3>2, <3>3
  <2>4. PICK p : p = [sec |-> s, load |-> o, length |-> e - o, bytes |-> Contents(s)]
    OBVIOUS
  <2>5. /\ file' = Append(file, p) /\ filled' = start + (e - o)
        /\ header' = [header EXCEPT !.load = base] /\ prog.format \in Streams
    BY <1>1, <1>4, <2>1, <2>2, <2>3, <2>4 DEF WriteRange
  <2>6. p \in Pieces /\ p.sec = s
    BY <1>1, <1>2, <2>4 DEF Pieces
  <2>7. Pieced(p)
    BY <1>1, <2>4, <2>5 DEF Pieced, Streams, Segmented
  <2>8. header'.load = base /\ filled' >= 0 /\ base + filled' = e
    BY <1>1, <2>3, <2>5 DEF Header
  <2>. QED
    BY <1>1, <2>1, <2>5, <2>6, <2>7, <2>8
<1>. QED
  BY <1>3, <1>4

LEMMA PieceKept ==
  ASSUME UNCHANGED << prog, pc, label >>, NEW p
  PROVE  Pieced(p)' <=> Pieced(p)
<1>1. \A s : Org(s)' = Org(s) /\ End(s)' = End(s) /\ Contents(s)' = Contents(s)
  BY SectionsKept
<1>. QED
  BY <1>1 DEF Pieced, SegmentLength

LEMMA ApartKept ==
  ASSUME UNCHANGED << prog, pc >>
  PROVE  Apart' <=> Apart
  BY DEF Apart, Org, Secs

\* Pieces come in the order of the addresses, and those that are left come behind them.
LEMMA WrittenInOrder ==
  ASSUME OutputInv, InOrder, UNCHANGED << prog, pc, label >>, NEW s \in Secs \ written,
         Lowest(s), written' = written \cup {s},
         NEW p \in Pieces, file' = Append(file, p), p.sec = s, Pieced(p)
  PROVE  InOrder'
<1>1. /\ Secs' = Secs /\ \A t : Org(t)' = Org(t)
  BY SectionsKept
<1>2. \A t \in Secs : Org(t) \in Nat
  BY SectionEnds DEF OutputInv, Types
<1>3. \A t \in Secs \ written : t # s => Org(s) < Org(t)
  <2>1. \A t \in Secs : t # s => Org(t) # Org(s)
    BY DistinctOrgs DEF OutputInv, Types
  <2>. QED
    BY <1>2, <2>1 DEF Lowest
<1>4. /\ file' \in Seq(Pieces)
      /\ \A k, q : Piece(k, q)' <=> Piece(k, q) \/ (k = Len(file) + 1 /\ q = p)
      /\ \A k, q : Piece(k, q) => k \in Nat /\ k < Len(file) + 1
      /\ Len(file) \in Nat
  BY NewPiece, LenProperties DEF InOrder
<1>5. ASSUME NEW k, NEW q, Piece(k, q)' PROVE q.sec \in written' /\ Pieced(q)'
  BY <1>4, <1>5, PieceKept DEF InOrder
<1>6. ASSUME NEW r \in written' PROVE \E k, q : Piece(k, q)' /\ q.sec = r
  <2>1. CASE r \in written
    BY <1>4, <2>1 DEF InOrder
  <2>2. CASE r = s
    BY <1>4, <2>2
  <2>. QED
    BY <2>1, <2>2
<1>7. ASSUME NEW j, NEW k, NEW q, NEW u, Piece(j, q)', Piece(k, u)', j < k
      PROVE  Org(q.sec) < Org(u.sec)
  <2>1. Piece(j, q) \/ (j = Len(file) + 1 /\ q = p)
    BY <1>4, <1>7
  <2>2. Piece(k, u) \/ (k = Len(file) + 1 /\ u = p)
    BY <1>4, <1>7
  <2>3. Piece(j, q)
    BY <1>4, <1>7, <2>1, <2>2
  <2>4. CASE Piece(k, u)
    BY <1>7, <2>3, <2>4 DEF InOrder
  <2>5. CASE u = p
    BY <2>3, <2>5 DEF InOrder
  <2>. QED
    BY <2>2, <2>4, <2>5
<1>8. \A r \in written' : \A t \in Secs \ written' : Org(r) < Org(t)
  BY <1>3 DEF InOrder
<1>9. written' \subseteq Secs
  BY DEF InOrder
<1>. QED
  BY <1>1, <1>4, <1>5, <1>6, <1>7, <1>8, <1>9 DEF InOrder

LEMMA BinaryStep == OutputInv /\ Header /\ BinaryFile /\ [Next]_allVars => BinaryFile'
<1> SUFFICES ASSUME OutputInv, Header, BinaryFile, [Next]_allVars, Binary', Writing', Apart'
             PROVE  /\ InOrder'
                    /\ (prog.format \in Streams => Streaming)'
                    /\ (stage = "closed" => written = Secs /\ header.length = StreamLength)'
  BY DEF BinaryFile
<1>1. CASE Resolving
  <2>1. phase # "output" /\ phase # "stopped" /\ UNCHANGED << outputVars, hexVars >>
    BY <1>1 DEF Resolving, ResolverNext, AddAtom, EndOfSection, ResolveSection, ResolveAtom,
                NextPass, GiveUp, SectionDone, EndPass, AssembleStart, AssembleAtom, AssembleNext
  <2>. QED
    BY <2>1 DEF OutputInv, Emitted, outputVars, Writing
<1>2. CASE TrimUninitialized
  BY <1>2 DEF TrimUninitialized, Writing
<1>3. CASE CheckOverlap
  <2>1. stage = "check" /\ phase = "output" /\ UNCHANGED << written, file, filled >>
    BY <1>3 DEF CheckOverlap
  <2>2. written' = {} /\ file' = << >> /\ filled' = 0
    BY <2>1 DEF OutputInv, Emitted
  <2>3. stage' # "closed"
    BY <1>3 DEF CheckOverlap
  <2>4. InOrder'
    BY <2>2, EmptySeq DEF InOrder, Piece
  <2>. QED
    BY <2>2, <2>3, <2>4 DEF Streaming
<1>4. CASE WriteSection
  <2>1. /\ UNCHANGED << prog, pc, label, stage >> /\ Binary /\ stage = "write"
    BY <1>4 DEF WriteSection, vars
  <2>2. Writing /\ Apart /\ Secs' = Secs /\ \A s : Org(s)' = Org(s) /\ End(s)' = End(s)
    BY <2>1, ApartKept, SectionsKept DEF Writing
  <2>3. InOrder /\ (prog.format \in Streams => Streaming)
    BY <2>1, <2>2 DEF BinaryFile
  <2>4. PICK s \in Secs \ written :
           /\ Lowest(s) /\ (WriteSegment(s) \/ WriteRange(s))
           /\ wpc' = End(s) /\ written' = written \cup {s}
    BY <1>4 DEF WriteSection
  <2>5. PICK p \in Pieces : /\ file' = Append(file, p) /\ p.sec = s /\ Pieced(p)
                            /\ prog.format \in Streams =>
                                 /\ filled' >= 0 /\ header'.load + filled' = wpc'
                                 /\ header'.load = IF written = {} THEN Org(s) ELSE header.load
    BY <2>1, <2>2, <2>3, <2>4, NextPiece
  <2>6. InOrder'
    BY <2>1, <2>3, <2>4, <2>5, WrittenInOrder
  <2>7. ASSUME prog.format \in Streams PROVE Streaming'
    <3>1. /\ filled' >= 0 /\ header'.load + filled' = wpc'
          /\ header'.load = IF written = {} THEN Org(s) ELSE header.load
      BY <2>5, <2>7
    <3>2. \E r \in written' : header'.load = Org(r)
      BY <2>3, <2>4, <2>7, <3>1 DEF Streaming
    <3>3. \A t \in written' : Org(t) <= Org(s)
      <4>1. Org(s) \in Nat /\ \A t \in written : Org(t) \in Nat /\ Org(t) < Org(s)
        BY <2>3, SectionEnds DEF InOrder, OutputInv, Types
      <4>. QED
        BY <2>4, <4>1
    <3>. QED
      BY <2>2, <2>4, <3>1, <3>2, <3>3 DEF Streaming
  <2>. QED
    BY <2>1, <2>6, <2>7
<1>5. CASE PatchHeader
  <2>1. /\ UNCHANGED << prog, pc, label, written, file, filled, wpc >> /\ Binary
        /\ stage = "write" /\ stage' = "closed" /\ written = Secs
        /\ header' = [header EXCEPT !.length = StreamLength]
    BY <1>5 DEF PatchHeader, vars
  <2>2. /\ Writing /\ Apart /\ Secs' = Secs
        /\ \A s : Org(s)' = Org(s) /\ End(s)' = End(s) /\ Contents(s)' = Contents(s)
    BY <2>1, ApartKept, SectionsKept DEF Writing
  <2>3. InOrder /\ (prog.format \in Streams => Streaming)
    BY <2>1, <2>2 DEF BinaryFile
  <2>4. InOrder'
    BY <2>1, <2>2, <2>3, PieceKept DEF InOrder, Piece
  <2>5. header'.load = header.load /\ header'.length = StreamLength
    BY <2>1 DEF Header
  <2>6. StreamLength' = StreamLength
    BY <2>1, <2>5 DEF StreamLength
  <2>. QED
    BY <2>1, <2>2, <2>3, <2>4, <2>5, <2>6 DEF Streaming
<1>6. CASE HexNext
  BY <1>6 DEF HexNext, StartSection, WriteRecord, EndOfRecords, Hex, vars, Binary,
              Streams, Segmented, Srec, Ihex
<1>7. CASE UNCHANGED allVars
  <2>1. UNCHANGED << prog, pc, label, stage, written, file, header, filled, wpc >>
    BY <1>7 DEF allVars, vars, outputVars
  <2>2. Secs' = Secs /\ \A s : Org(s)' = Org(s) /\ End(s)' = End(s)
    BY <2>1, SectionsKept
  <2>3. Binary /\ Writing /\ Apart
    BY <2>1, ApartKept DEF Binary, Writing
  <2>4. /\ InOrder /\ (prog.format \in Streams => Streaming)
        /\ stage = "closed" => written = Secs /\ header.length = StreamLength
    BY <2>3 DEF BinaryFile
  <2>5. InOrder'
    BY <2>1, <2>2, <2>4, PieceKept DEF InOrder, Piece
  <2>. QED
    BY <2>1, <2>2, <2>4, <2>5 DEF Streaming, StreamLength
<1>. QED
  BY <1>1, <1>2, <1>3, <1>4, <1>5, <1>6, <1>7 DEF Next, BinaryNext

\* The bytes of a piece that lies where its section does.
LEMMA InPlace ==
  ASSUME prog \in Programs, NEW p \in Pieces, p.sec \in Secs, p.load = Org(p.sec),
         p.bytes = Contents(p.sec)
  PROVE  /\ Len(p.bytes) = End(p.sec) - Org(p.sec)
         /\ \A a \in Nat : Covers(p, a) <=> Org(p.sec) <= a /\ a < End(p.sec)
         /\ \A a \in Nat : Covers(p, a) => p.bytes[a - p.load + 1] = a
<1>1. PICK o \in Nat, e \in Nat : o = Org(p.sec) /\ e = End(p.sec) /\ o <= e
  BY SectionEnds
<1>2. p.bytes = Run(o, e - o) /\ e - o \in Nat /\ o \in Int
  BY <1>1 DEF Contents, Run
<1>3. Len(p.bytes) = e - o /\ \A j \in 1 .. (e - o) : p.bytes[j] = o + j - 1
  BY <1>2, RunIsSeq
<1>4. \A a \in Nat : Covers(p, a) <=> o <= a /\ a < e
  BY <1>1, <1>3 DEF Covers
<1>5. ASSUME NEW a \in Nat, Covers(p, a) PROVE p.bytes[a - p.load + 1] = a
  <2>1. a - o + 1 \in 1 .. (e - o)
    BY <1>1, <1>4, <1>5
  <2>2. p.bytes[a - o + 1] = o + (a - o + 1) - 1
    BY <1>3, <2>1
  <2>. QED
    BY <1>1, <1>5, <2>2
<1>. QED
  BY <1>1, <1>3, <1>4, <1>5

\* A section is loaded if a piece of it has each of its bytes, and no later one another.
LEMMA LoadedByPiece ==
  ASSUME file \in Seq(Pieces), NEW s, NEW a, NEW k, NEW p, Piece(k, p), p.sec = s,
         Covers(p, a), p.bytes[a - p.load + 1] = a,
         \A j, q : Piece(j, q) /\ k < j => ~Covers(q, a)
  PROVE  Loaded(s, a)
<1>1. Len(file) \in Nat /\ DOMAIN file = 1 .. Len(file) /\ k \in 1 .. Len(file) /\ file[k] = p
  BY LenProperties DEF Piece
<1>2. ASSUME NEW j \in k + 1 .. Len(file) PROVE ~Covers(file[j], a)
  <2>1. j \in 1 .. Len(file) /\ k < j
    BY <1>1
  <2>. QED
    BY <2>1 DEF Piece
<1>. QED
  BY <1>1, <1>2 DEF Loaded

LEMMA BinaryLengths ==
  ASSUME OutputInv, Binary, Writing, NEW p \in Pieces, p.sec \in Secs, Pieced(p),
         ~BareSegment, ~PastMemory, ~NoLastAddress
  PROVE  p.length = Len(p.bytes)
<1>1. PICK o \in Nat, e \in Nat : o = Org(p.sec) /\ e = End(p.sec) /\ o <= e
  BY SectionEnds DEF OutputInv, Types
<1>2. Len(p.bytes) = e - o
  BY <1>1, InPlace DEF OutputInv, Types, Pieced
<1>3. CASE prog.format \notin Segmented
  BY <1>1, <1>2, <1>3 DEF Pieced
<1>4. CASE prog.format \in Segmented
  <2>1. PICK c \in Nat : c = pc[p.sec] /\ o <= c
    BY <1>1, TrimmedEnds DEF OutputInv, Writing
  <2>2. c = e
    <3>1. Initialized(p.sec) = {} => c <= o /\ e = o
      BY <1>1, <1>4, <2>1, SectionEnds DEF BareSegment, OutputInv, Types
    <3>2. Initialized(p.sec) # {} => c = e
      BY <1>1, <2>1, TrimmedEnds DEF TrimmedEnd, OutputInv, Writing
    <3>. QED
      BY <1>1, <2>1, <3>1, <3>2
  <2>3. p.length = SegmentLength(p.sec) /\ c <= 65536
    BY <1>4, <2>1 DEF Pieced, PastMemory
  <2>4. CASE prog.format = "atari-com"
    <3>1. c # 0
      BY <2>1, <2>4 DEF NoLastAddress
    <3>2. c - 1 \in Nat /\ c - 1 < 65536
      BY <2>1, <2>3, <3>1
    <3>3. (c - 1) % 65536 = c - 1
      BY <3>2
    <3>4. p.length = Word(c - 1) - o + 1
      BY <1>1, <2>1, <2>3, <2>4 DEF SegmentLength
    <3>. QED
      BY <1>2, <2>2, <3>3, <3>4 DEF Word
  <2>5. CASE prog.format = "coco-ml"
    <3>1. c - o <= 65535
      BY <1>1, <2>1, <2>5 DEF PastMemory
    <3>2. c - o \in Nat /\ c - o < 65536
      BY <2>1, <3>1
    <3>3. (c - o) % 65536 = c - o
      BY <3>2
    <3>4. p.length = Word(c - o)
      BY <1>1, <2>1, <2>3, <2>5 DEF SegmentLength
    <3>. QED
      BY <1>2, <2>2, <3>3, <3>4 DEF Word
  <2>. QED
    BY <1>4, <2>4, <2>5 DEF Segmented
<1>. QED
  BY <1>3, <1>4

\* The length in the header is that of the stream.
LEMMA StreamLengths ==
  ASSUME OutputInv, Header, prog.format \in Streams, Writing, Streaming, written = Secs,
         ~PastMemory, ~NoLastAddress
  PROVE  StreamLength = filled
<1>1. Secs # {}
  BY SourceTypes DEF OutputInv, Types, Secs
<1>2. PICK f \in Nat, w \in Int, l \in Int :
         f = filled /\ w = wpc /\ l = header.load /\ l + f = w
  BY <1>1 DEF Streaming, Header
<1>3. PICK r \in Secs : l = Org(r)
  BY <1>1, <1>2 DEF Streaming
<1>4. PICK s \in Secs : w = End(s) /\ \A t \in Secs : Org(t) <= Org(s)
  BY <1>1, <1>2 DEF Streaming
<1>5. w \in Nat /\ l \in Nat /\ w <= pc[s] /\ pc[s] \in Nat
  BY <1>3, <1>4, TrimmedEnds DEF OutputInv, Writing
<1>6. CASE prog.format \in {"apple-bin", "dragon-bin"}
  <2>1. ~(pc[s] - l > 65535)
    BY <1>3, <1>6 DEF PastMemory
  <2>2. w - l = f /\ f < 65536
    BY <1>2, <1>5, <2>1
  <2>3. f % 65536 = f
    BY <1>2, <2>2
  <2>. QED
    BY <1>2, <1>6, <2>2, <2>3 DEF StreamLength, Word
<1>7. CASE prog.format = "oric-mc"
  <2>1. ~(pc[s] > 65536)
    BY <1>7 DEF PastMemory, Streams
  <2>2. w # 0
    <3>1. SUFFICES ASSUME w = 0 PROVE \A t \in Secs : End(t) = 0
      BY <1>7 DEF NoLastAddress
    <3>2. Org(s) = 0
      <4>1. Org(s) \in Nat /\ Org(s) <= End(s)
        BY SectionEnds DEF OutputInv, Types
      <4>2. End(s) = 0
        BY <1>4, <3>1
      <4>. QED
        BY <4>1, <4>2
    <3>3. ASSUME NEW t \in Secs PROVE t = s
      <4>1. Org(t) = 0
        BY <1>4, <3>2, SectionEnds DEF OutputInv, Types
      <4>. QED
        BY <3>2, <4>1, DistinctOrgs DEF OutputInv, Types
    <3>. QED
      BY <1>4, <3>1, <3>3
  <2>3. w - 1 \in Nat /\ w - 1 < 65536
    BY <1>5, <2>1, <2>2
  <2>4. (w - 1) % 65536 = w - 1
    BY <2>3
  <2>5. StreamLength = Word(w - 1) - l + 1
    BY <1>2, <1>7 DEF StreamLength
  <2>. QED
    BY <1>2, <2>4, <2>5 DEF Word
<1>. QED
  BY <1>6, <1>7 DEF StreamLength

LEMMA BinaryLoads ==
  ASSUME OutputInv, Header, BinaryFile, Binary, stage = "closed",
         ~Displaced, ~BareSegment, ~PastMemory, ~NoLastAddress
  PROVE  /\ \A s \in Secs : \A a \in Org(s) .. (End(s) - 1) : Loaded(s, a)
         /\ \A k \in DOMAIN file : file[k].length = Len(file[k].bytes)
         /\ prog.format \in Streams => header.length = filled
<1>1. Writing /\ prog.format \notin Srec
  BY DEF Writing, Binary, Streams, Segmented, Srec
<1>2. Apart
  BY <1>1, CheckedApart
<1>3. /\ InOrder /\ written = Secs /\ header.length = StreamLength
      /\ prog.format \in Streams => Streaming
  BY <1>1, <1>2 DEF BinaryFile
<1>4. /\ file \in Seq(Pieces) /\ Len(file) \in Nat /\ DOMAIN file = 1 .. Len(file)
      /\ \A k \in 1 .. Len(file) : file[k] \in Pieces
  BY <1>3, LenProperties, ElementOfSeq DEF InOrder
<1>5. ASSUME NEW k, NEW p, Piece(k, p)
      PROVE  p \in Pieces /\ p.sec \in Secs /\ Pieced(p)
  BY <1>3, <1>4, <1>5 DEF InOrder, Piece
<1>6. ASSUME NEW s \in Secs, NEW a \in Org(s) .. (End(s) - 1) PROVE Loaded(s, a)
  <2>1. PICK k, p : Piece(k, p) /\ p.sec = s
    BY <1>3 DEF InOrder
  <2>2. Org(s) \in Nat /\ End(s) \in Nat /\ End(s) <= pc[s] /\ pc[s] \in Nat
    BY <1>1, TrimmedEnds DEF OutputInv
  <2>3. a \in Nat /\ Org(s) <= a /\ a < End(s)
    BY <2>2
  <2>4. Covers(p, a) /\ p.bytes[a - p.load + 1] = a
    BY <1>5, <2>1, <2>3, InPlace DEF OutputInv, Types, Pieced
  <2>5. ASSUME NEW j, NEW q, Piece(j, q), k < j PROVE ~Covers(q, a)
    <3>1. Org(s) < Org(q.sec) /\ q \in Pieces /\ q.sec \in Secs /\ Pieced(q)
      BY <1>3, <1>5, <2>1, <2>5 DEF InOrder
    <3>2. pc[s] <= Org(q.sec) /\ Org(q.sec) \in Nat
      BY <1>2, <3>1, SectionEnds DEF Apart, OutputInv, Types
    <3>3. ~(Org(q.sec) <= a)
      BY <2>2, <2>3, <3>2
    <3>. QED
      BY <2>3, <3>1, <3>3, InPlace DEF OutputInv, Types, Pieced
  <2>. QED
    BY <1>4, <2>1, <2>4, <2>5, LoadedByPiece
<1>7. ASSUME NEW k \in DOMAIN file PROVE file[k].length = Len(file[k].bytes)
  <2>1. Piece(k, file[k])
    BY <1>4 DEF Piece
  <2>. QED
    BY <1>1, <1>5, <2>1, BinaryLengths
<1>8. prog.format \in Streams => header.length = filled
  BY <1>1, <1>3, StreamLengths
<1>. QED
  BY <1>6, <1>7, <1>8

-----------------------------------------------------------------------------
(* The formats of records.                                                 *)

\* Nothing is wrong with the records of this source.
Fine == ~errors /\ ~SecondSegment /\ ~PaddedHex

\* The bytes of section n from addr on are left.
Following(n) ==
  n # 0 => Org(n) <= addr /\ addr + Len(rest) = Final(n) /\ rest = Run(addr, Len(rest))

\* How far section s is written, n being the last.
Until(s, n) == IF s = n THEN addr ELSE Final(s)

\* The records of a section lie one behind the other in it, without a gap.
Records(n) ==
  /\ \A k, p : Piece(k, p) =>
       /\ p.bytes = Run(p.load, p.length) /\ p.length \in Nat
       /\ Org(p.sec) <= p.load /\ p.load + p.length <= Until(p.sec, n)
  /\ \A j, k, p, q : Piece(j, p) /\ Piece(k, q) /\ j < k /\ p.sec = q.sec =>
       p.load + p.length <= q.load
  /\ \A s \in written : \A a \in Nat : Org(s) <= a /\ a < Until(s, n) =>
       \E k, p : Piece(k, p) /\ p.sec = s /\ p.load <= a /\ a < p.load + p.length

HexFile ==
  Hexadecimal /\ Writing =>
    /\ file \in Seq(Pieces)
    /\ \A k, p : Piece(k, p) => p.sec \in written /\ p.length = Len(p.bytes)
    /\ stage = "closed" => rest = << >> /\ written = Secs
    /\ Fine => \E n \in 0 .. Len(prog.sections) : WrittenTo(n) /\ Following(n) /\ Records(n)

LEMMA HexFileInit == AssemblerInit => HexFile
  BY DEF AssemblerInit, OutputInit, HexFile, Writing

\* Where a loader puts a record that is in range.
LEMMA RecordAddress ==
  ASSUME NEW a \in Nat, addr = a, NEW m \in Nat, m > 0, Hexadecimal, ~OutOfRange(addr + m),
         prog.format = "i16hex" => a < 65536
  PROVE  (IF prog.format \in Ihex THEN Base(Upper(addr)) + Word(addr) ELSE addr) = a
<1>1. CASE prog.format \in Srec
  BY <1>1 DEF Srec, Ihex
<1>2. CASE prog.format = "i32hex"
  <2>1. PICK u \in Int : u = a \div 65536
    OBVIOUS
  <2>2. 65536 * u <= a /\ a < 65536 * u + 65536
    BY <2>1
  <2>3. PICK r \in Int : r = a - 65536 * u
    BY <2>1
  <2>4. a = 65536 * u + r /\ 0 <= r /\ r < 65536
    BY <2>1, <2>2, <2>3
  <2>5. r = a % 65536
    BY <2>1, <2>3, <2>4
  <2>. QED
    BY <1>2, <2>1, <2>4, <2>5 DEF Base, Upper, Word, Ihex
<1>3. CASE prog.format = "i8hex" \/ prog.format = "i16hex"
  <2>1. a < 65536
    BY <1>3 DEF OutOfRange
  <2>2. a \div 65536 = 0 /\ a % 65536 = a
    BY <2>1
  <2>3. (16 * 0) % 65536 = 0
    OBVIOUS
  <2>. QED
    BY <1>3, <2>2, <2>3 DEF Base, Upper, Word, Ihex
<1>. QED
  BY <1>1, <1>2, <1>3 DEF Hexadecimal, Ihex

\* All of a section's bytes are its own, unless there is one too many.
LEMMA BytesOfSection ==
  ASSUME prog \in Programs, ~PaddedHex, NEW s \in Secs
  PROVE  /\ AllBytes(s) = Run(Org(s), Final(s) - Org(s))
         /\ Len(AllBytes(s)) = Final(s) - Org(s)
         /\ Org(s) + Len(AllBytes(s)) = Final(s)
<1>1. AllBytes(s) = Run(Org(s), Final(s) - Org(s))
  BY BytesAreRun DEF PaddedHex
<1>2. PICK o \in Nat, f \in Nat : o = Org(s) /\ f = Final(s) /\ o <= f
  BY SectionEnds
<1>3. f - o \in Nat /\ o \in Int
  BY <1>2
<1>4. Len(Run(o, f - o)) = f - o
  BY <1>3, RunIsSeq
<1>. QED
  BY <1>1, <1>2, <1>4

LEMMA FineKept ==
  ASSUME UNCHANGED << prog, label >>, errors => errors'
  PROVE  Fine' => Fine
<1>1. Secs' = Secs /\ \A s : Org(s)' = Org(s) /\ AllBytes(s)' = AllBytes(s)
  BY SectionsKept
<1>. QED
  BY <1>1 DEF Fine, SecondSegment, PaddedHex

\* The next section has no records yet, the one before it is complete.
LEMMA RecordsBegin ==
  ASSUME OutputInv, NEW n \in Nat, NEW s \in Secs, s = n + 1, WrittenTo(n), Following(n),
         Records(n), rest = << >>, file \in Seq(Pieces), ~PaddedHex,
         \A k, p : Piece(k, p) => p.sec \in written,
         UNCHANGED << prog, label, file >>, written' = written \cup {s},
         rest' = AllBytes(s), addr' = Org(s)
  PROVE  Following(s)' /\ Records(s)'
<1>1. \A t : Org(t)' = Org(t) /\ Final(t)' = Final(t)
  BY SectionsKept
<1>2. written = 1 .. n /\ s \notin written
  BY DEF WrittenTo
<1>3. \A t \in written : Until(t, s)' = Until(t, n)
  <2>1. n # 0 => addr = Final(n)
    BY DEF Following, WrittenTo
  <2>. QED
    BY <1>1, <1>2, <2>1 DEF Until
<1>4. Until(s, s)' = Org(s)
  BY DEF Until
<1>5. Org(s) \in Nat
  BY SourceOrg DEF OutputInv, Types
<1>6. \A k, p : Piece(k, p)' <=> Piece(k, p)
  BY DEF Piece
<1>7. Following(s)'
  <2>1. /\ AllBytes(s) = Run(Org(s), Len(AllBytes(s)))
        /\ Org(s) + Len(AllBytes(s)) = Final(s)
    BY BytesOfSection DEF OutputInv, Types
  <2>. QED
    BY <1>1, <1>5, <2>1 DEF Following
<1>8. ASSUME NEW k, NEW p, Piece(k, p)
      PROVE  /\ p.bytes = Run(p.load, p.length) /\ p.length \in Nat
             /\ Org(p.sec) <= p.load /\ p.load + p.length <= Until(p.sec, s)'
  BY <1>3, <1>8 DEF Records
<1>9. ASSUME NEW t \in written', NEW a \in Nat, Org(t) <= a, a < Until(t, s)'
      PROVE  \E k, p : Piece(k, p) /\ p.sec = t /\ p.load <= a /\ a < p.load + p.length
  <2>1. t # s
    BY <1>4, <1>5, <1>9
  <2>2. t \in written
    BY <2>1
  <2>. QED
    BY <1>3, <1>9, <2>2 DEF Records
<1>10. \A j, k, p, q : Piece(j, p) /\ Piece(k, q) /\ j < k /\ p.sec = q.sec =>
         p.load + p.length <= q.load
  BY DEF Records
<1>. QED
  BY <1>1, <1>6, <1>7, <1>8, <1>9, <1>10 DEF Records

\* A record takes the first of the bytes that are left.
LEMMA RunParts ==
  ASSUME NEW q \in Seq(Int), q # << >>, NEW a \in Nat, q = Run(a, Len(q)),
         NEW m \in Nat, m = Min({Len(q), RecordSize})
  PROVE  /\ SubSeq(q, 1, m) = Run(a, m)
         /\ SubSeq(q, m + 1, Len(q)) = Run(a + m, Len(q) - m)
<1>1. /\ m \in 1 .. Len(q)
      /\ SubSeq(q, 1, m) \in Seq(Int) /\ Len(SubSeq(q, 1, m)) = m
      /\ \A j \in 1 .. m : SubSeq(q, 1, m)[j] = q[j]
      /\ SubSeq(q, m + 1, Len(q)) \in Seq(Int)
      /\ Len(SubSeq(q, m + 1, Len(q))) = Len(q) - m
      /\ \A j \in 1 .. (Len(q) - m) : SubSeq(q, m + 1, Len(q))[j] = q[m + j]
  BY RecordSizes
<1>2. PICK l \in Nat : l = Len(q)
  BY LenProperties
<1>3. m \in Nat /\ m <= l /\ l - m \in Nat /\ a \in Int /\ a + m \in Int
  BY <1>1, <1>2
<1>4. \A j \in 1 .. l : q[j] = a + j - 1
  <2>1. q = Run(a, l)
    BY <1>2
  <2>2. \A j \in 1 .. l : Run(a, l)[j] = a + j - 1
    BY <1>2, <1>3, RunIsSeq
  <2>. QED
    BY <2>1, <2>2
<1>5. SubSeq(q, 1, m) = Run(a, m)
  <2>1. /\ Run(a, m) \in Seq(Int) /\ Len(Run(a, m)) = m
        /\ \A j \in 1 .. m : Run(a, m)[j] = a + j - 1
    BY <1>3, RunIsSeq
  <2>2. ASSUME NEW j \in 1 .. m PROVE SubSeq(q, 1, m)[j] = Run(a, m)[j]
    <3>1. j \in 1 .. l
      BY <1>2, <1>3
    <3>2. SubSeq(q, 1, m)[j] = q[j]
      BY <1>1
    <3>. QED
      BY <1>4, <2>1, <3>1, <3>2
  <2>. QED
    BY <1>1, <2>1, <2>2, SeqEqual
<1>6. SubSeq(q, m + 1, Len(q)) = Run(a + m, l - m)
  <2>1. /\ Run(a + m, l - m) \in Seq(Int) /\ Len(Run(a + m, l - m)) = l - m
        /\ \A j \in 1 .. (l - m) : Run(a + m, l - m)[j] = (a + m) + j - 1
    BY <1>3, RunIsSeq
  <2>2. ASSUME NEW j \in 1 .. (l - m)
        PROVE  SubSeq(q, m + 1, Len(q))[j] = Run(a + m, l - m)[j]
    <3>1. m + j \in 1 .. l
      BY <1>3
    <3>2. q[m + j] = a + (m + j) - 1
      BY <1>4, <3>1
    <3>3. SubSeq(q, m + 1, Len(q))[j] = q[m + j]
      BY <1>1, <1>2
    <3>4. a + (m + j) - 1 = (a + m) + j - 1
      BY <1>3
    <3>. QED
      BY <2>1, <3>2, <3>3, <3>4
  <2>. QED
    BY <1>1, <1>2, <2>1, <2>2, SeqEqual
<1>. QED
  BY <1>2, <1>5, <1>6

\* The next record goes on where the one before it ended.
LEMMA RecordsGoOn ==
  ASSUME OutputInv, NEW n \in Secs, n # 0, WrittenTo(n), Following(n), Records(n),
         file \in Seq(Pieces), UNCHANGED << prog, label, written >>, rest # << >>,
         \A k, q : Piece(k, q) => q.sec \in written,
         NEW m \in Nat, m = Min({Len(rest), RecordSize}), NEW p \in Pieces, file' = Append(file, p),
         p.sec = n, p.load = addr, p.length = m, p.bytes = SubSeq(rest, 1, m),
         rest' = SubSeq(rest, m + 1, Len(rest)), addr' = addr + m
  PROVE  Following(n)' /\ Records(n)'
<1>1. \A t : Org(t)' = Org(t) /\ Final(t)' = Final(t)
  BY SectionsKept
<1>2. PICK l \in Nat, b \in Nat : l = Len(rest) /\ b = m /\ b <= l /\ b >= 1
  <2>1. rest \in Seq(Int)
    BY DEF WrittenTo
  <2>2. PICK l \in Nat : l = Len(rest)
    BY <2>1, LenProperties
  <2>3. m \in 1 .. l
    BY <2>1, <2>2, RecordSizes
  <2>4. m <= l /\ m >= 1
    BY <2>2, <2>3
  <2>. QED
    BY <2>2, <2>4
<1>3. PICK a \in Nat : a = addr
  BY DEF WrittenTo
<1>4. PICK o \in Nat, f \in Nat : o = Org(n) /\ f = Final(n) /\ o <= a /\ a + l = f
  BY <1>2, <1>3, SectionEnds DEF Following, OutputInv, Types
<1>5. /\ p.bytes = Run(a, b) /\ rest' = Run(a + b, l - b) /\ rest \in Seq(Int)
  <2>1. rest \in Seq(Int) /\ rest = Run(a, Len(rest))
    BY <1>3 DEF WrittenTo, Following
  <2>. QED
    BY <1>2, <1>3, <2>1, RunParts
<1>6. Len(rest') = l - b /\ addr' = a + b
  BY <1>2, <1>3, <1>5, RecordSizes
<1>7. Following(n)'
  <2>0. /\ o \in Nat /\ f \in Nat /\ a \in Nat /\ b \in Nat /\ l \in Nat
        /\ o <= a /\ a + l = f /\ b <= l
    BY <1>2, <1>3, <1>4
  <2>1. o <= a + b /\ (a + b) + (l - b) = f
    BY <2>0
  <2>2. rest' = Run(addr', Len(rest'))
    BY <1>5, <1>6
  <2>. QED
    BY <1>1, <1>4, <1>6, <2>1, <2>2 DEF Following
<1>8. /\ \A k, q : Piece(k, q)' <=> Piece(k, q) \/ (k = Len(file) + 1 /\ q = p)
      /\ \A k, q : Piece(k, q) => k \in Nat /\ k < Len(file) + 1 /\ q \in Pieces
      /\ Len(file) \in Nat
  BY NewPiece, LenProperties
<1>9. /\ Until(n, n) = a /\ Until(n, n)' = a + b /\ a <= a + b
      /\ \A t : t # n => Until(t, n)' = Until(t, n)
  <2>1. a \in Nat /\ b \in Nat
    BY <1>2, <1>3
  <2>2. a <= a + b
    BY <2>1
  <2>3. ASSUME NEW t, t # n PROVE Until(t, n)' = Until(t, n)
    BY <1>1, <2>3 DEF Until
  <2>. QED
    BY <1>3, <1>6, <2>2, <2>3 DEF Until
<1>10. \A t \in Secs : Final(t) \in Nat
  BY SectionEnds DEF OutputInv, Types
<1>11. \A t \in Secs : Until(t, n) \in Nat
  BY <1>3, <1>10 DEF Until
<1>12. written \subseteq Secs
  BY DEF WrittenTo, Secs
<1>13. ASSUME NEW k, NEW q, Piece(k, q)'
       PROVE  /\ q.bytes = Run(q.load, q.length) /\ q.length \in Nat
              /\ Org(q.sec) <= q.load /\ q.load + q.length <= Until(q.sec, n)'
  <2>1. CASE Piece(k, q)
    <3>1. /\ q.bytes = Run(q.load, q.length) /\ q.length \in Nat /\ Org(q.sec) <= q.load
          /\ q.load + q.length <= Until(q.sec, n)
      BY <2>1 DEF Records
    <3>2. q.sec \in Secs /\ q.load \in Int
      BY <1>8, <1>12, <2>1 DEF Pieces
    <3>3. Until(q.sec, n) \in Nat
      BY <1>11, <3>2
    <3>4. q.load + q.length <= Until(q.sec, n)'
      <4>1. CASE q.sec = n
        BY <1>9, <3>1, <3>2, <4>1
      <4>2. CASE q.sec # n
        BY <1>9, <3>1, <4>2
      <4>. QED
        BY <4>1, <4>2
    <3>. QED
      BY <3>1, <3>4
  <2>2. CASE q = p
    <3>1. q.load = a /\ q.length = b /\ q.sec = n /\ q.bytes = Run(a, b)
      BY <1>2, <1>3, <1>5, <2>2
    <3>. QED
      BY <1>2, <1>4, <1>9, <3>1
  <2>. QED
    BY <1>8, <1>13, <2>1, <2>2
<1>14. ASSUME NEW j, NEW k, NEW q, NEW u, Piece(j, q)', Piece(k, u)', j < k, q.sec = u.sec
       PROVE  q.load + q.length <= u.load
  <2>1. Piece(j, q) \/ (j = Len(file) + 1 /\ q = p)
    BY <1>8, <1>14
  <2>2. Piece(k, u) \/ (k = Len(file) + 1 /\ u = p)
    BY <1>8, <1>14
  <2>3. Piece(j, q)
    BY <1>8, <1>14, <2>1, <2>2
  <2>4. CASE Piece(k, u)
    BY <1>14, <2>3, <2>4 DEF Records
  <2>5. CASE u = p
    <3>1. q.sec = n /\ u.load = a
      BY <1>3, <1>14, <2>5
    <3>2. q.load + q.length <= Until(n, n)
      BY <2>3, <3>1 DEF Records
    <3>. QED
      BY <1>9, <3>1, <3>2
  <2>. QED
    BY <2>2, <2>4, <2>5
<1>15. ASSUME NEW t \in written', NEW x \in Nat, Org(t) <= x, x < Until(t, n)'
       PROVE  \E k, q : Piece(k, q)' /\ q.sec = t /\ q.load <= x /\ x < q.load + q.length
  <2>1. CASE x < Until(t, n)
    <3>1. \E k, q : Piece(k, q) /\ q.sec = t /\ q.load <= x /\ x < q.load + q.length
      BY <1>15, <2>1 DEF Records
    <3>. QED
      BY <1>8, <3>1
  <2>2. CASE ~(x < Until(t, n))
    <3>1. t = n
      BY <1>9, <1>15, <2>2
    <3>2. a <= x /\ x < a + b
      BY <1>2, <1>3, <1>9, <1>15, <2>2, <3>1
    <3>3. p.sec = t /\ p.load <= x /\ x < p.load + p.length
      BY <1>2, <1>3, <3>1, <3>2
    <3>4. PICK k : k = Len(file) + 1
      OBVIOUS
    <3>5. Piece(k, p)'
      BY <1>8, <3>4
    <3>. QED
      BY <3>3, <3>5
  <2>. QED
    BY <2>1, <2>2
<1>. QED
  BY <1>1, <1>7, <1>13, <1>14, <1>15 DEF Records

\* The record that is written next.
LEMMA NextRecord ==
  ASSUME OutputInv, WriteRecord, Hexadecimal, NEW n \in Secs, WrittenTo(n)
  PROVE  \E m \in Nat, p \in Pieces :
           /\ m = Min({Len(rest), RecordSize}) /\ file' = Append(file, p)
           /\ p.sec = n /\ p.length = m /\ p.length = Len(p.bytes)
           /\ p.bytes = SubSeq(rest, 1, m) /\ rest' = SubSeq(rest, m + 1, Len(rest))
           /\ addr' = addr + m /\ m > 0 /\ (OutOfRange(addr + m) => errors')
           /\ ~errors' /\ ~SecondSegment => p.load = addr
<1>1. rest \in Seq(Int) /\ addr \in Nat /\ rest # << >> /\ n \in Nat /\ Cardinality(written) = n
  BY FirstSections DEF WrittenTo, WriteRecord, Secs
<1>2. PICK m \in Nat : /\ m = Min({Len(rest), RecordSize}) /\ m > 0 /\ m <= Len(rest)
                       /\ SubSeq(rest, 1, m) \in Seq(Int) /\ Len(SubSeq(rest, 1, m)) = m
  <2>1. PICK l \in Nat : l = Len(rest)
    BY <1>1, LenProperties
  <2>2. Min({Len(rest), RecordSize}) \in 1 .. l
    BY <1>1, <2>1, RecordSizes
  <2>3. /\ Min({Len(rest), RecordSize}) \in Nat /\ Min({Len(rest), RecordSize}) > 0
        /\ Min({Len(rest), RecordSize}) <= Len(rest)
    BY <2>1, <2>2
  <2>. QED
    BY <1>1, <2>3, RecordSizes
<1>3. PICK load : load = IF prog.format \in Ihex THEN Base(Upper(addr)) + Word(addr) ELSE addr
  OBVIOUS
<1>4. load \in Int
  <2>1. Upper(addr) \in Int /\ Word(addr) \in Int /\ \A u \in Int : Base(u) \in Int
    BY <1>1 DEF Upper, Word, Base
  <2>. QED
    BY <1>1, <1>3, <2>1
<1>5. PICK p : p = [sec |-> n, load |-> load, length |-> m, bytes |-> SubSeq(rest, 1, m)]
  OBVIOUS
<1>6. p \in Pieces
  <2>1. m \in Int
    OBVIOUS
  <2>2. SubSeq(rest, 1, m) \in Seq(Int)
    BY <1>2, Zenon
  <2>. QED
    BY <1>1, <1>4, <1>5, <2>1, <2>2, Zenon DEF Pieces
<1>7. /\ file' = Append(file, p) /\ rest' = SubSeq(rest, m + 1, Len(rest)) /\ addr' = addr + m
      /\ errors' = (errors \/ OutOfRange(addr + m))
  <2>1. prog.format \in Ihex => ext_addr' = Upper(addr)
    BY DEF WriteRecord
  <2>. QED
    BY <1>1, <1>2, <1>3, <1>5, <2>1 DEF WriteRecord
<1>8. ASSUME ~errors', ~SecondSegment PROVE load = addr
  <2>1. ~OutOfRange(addr + m)
    BY <1>7, <1>8
  <2>2. ASSUME prog.format = "i16hex" PROVE addr < 65536
    <3>1. n # 0
      BY DEF Secs
    <3>2. PICK a \in Nat, l \in Nat, top \in Int :
             a = addr /\ l = Len(rest) /\ top = Org(n) + Len(AllBytes(n)) /\ a + l = top
      <4>1. Org(n) \in Nat /\ Len(AllBytes(n)) \in Nat
        BY SectionBytes DEF OutputInv, Types
      <4>2. Len(rest) \in Nat /\ addr + Len(rest) = Org(n) + Len(AllBytes(n))
        BY <1>1, <3>1, LenProperties DEF WrittenTo
      <4>. QED
        BY <1>1, <4>1, <4>2
    <3>3. ~(top > 65536)
      BY <1>8, <2>2, <3>2 DEF SecondSegment
    <3>4. l >= 1
      BY <1>2, <3>2
    <3>5. a < 65536
      BY <3>2, <3>3, <3>4
    <3>. QED
      BY <3>2, <3>5
  <2>3. PICK a \in Nat : a = addr
    BY <1>1
  <2>4. ~OutOfRange(addr + m) /\ m > 0 /\ m \in Nat
    BY <1>2, <2>1
  <2>. QED
    BY <1>3, <2>2, <2>3, <2>4, RecordAddress
<1>. QED
  BY <1>1, <1>2, <1>5, <1>6, <1>7, <1>8

LEMMA HexFileStep == OutputInv /\ HexFile /\ [Next]_allVars => HexFile'
<1> SUFFICES ASSUME OutputInv, HexFile, [Next]_allVars, Hexadecimal', Writing' PROVE HexFile'
  BY DEF HexFile
<1>0. Len(prog.sections) \in Nat /\ Secs = 1 .. Len(prog.sections)
  BY SourceTypes DEF OutputInv, Types, Secs
<1>1. CASE Resolving
  <2>1. phase # "output" /\ phase # "stopped" /\ UNCHANGED << outputVars, hexVars >>
    BY <1>1 DEF Resolving, ResolverNext, AddAtom, EndOfSection, ResolveSection, ResolveAtom,
                NextPass, GiveUp, SectionDone, EndPass, AssembleStart, AssembleAtom, AssembleNext
  <2>. QED
    BY <2>1 DEF OutputInv, Emitted, outputVars, Writing
<1>2. CASE TrimUninitialized
  BY <1>2 DEF TrimUninitialized, Writing
<1>3. CASE CheckOverlap /\ UNCHANGED hexVars
  <2>1. stage = "check" /\ phase = "output" /\ UNCHANGED << prog, written, file, rest, addr >>
    BY <1>3 DEF CheckOverlap, hexVars
  <2>2. written' = {} /\ file' = << >> /\ rest' = << >> /\ addr' = 0
    BY <2>1 DEF OutputInv, Emitted
  <2>3. stage' # "closed"
    BY <1>3 DEF CheckOverlap
  <2>4. \A k, p : ~Piece(k, p)'
    BY <2>2, EmptySeq DEF Piece
  <2>5. WrittenTo(0)' /\ Following(0)' /\ Records(0)'
    BY <2>2, <2>4, EmptySeq DEF WrittenTo, Following, Records
  <2>6. 0 \in 0 .. Len(prog'.sections)
    BY <1>0, <2>1
  <2>. QED
    BY <2>2, <2>3, <2>4, <2>5, <2>6, EmptySeq DEF HexFile
<1>4. CASE WriteSection \/ PatchHeader
  BY <1>4 DEF WriteSection, PatchHeader, vars, Binary, Hexadecimal, Streams, Segmented, Srec, Ihex
<1>5. CASE HexNext
  <2>1. /\ UNCHANGED << prog, label >> /\ Hexadecimal /\ Writing
        /\ stage = "write" /\ (errors => errors')
    <3>1. CASE StartSection
      BY <3>1 DEF StartSection, Hex, vars, Hexadecimal, Writing
    <3>2. CASE WriteRecord
      BY <3>2 DEF WriteRecord, Hex, Hexadecimal, Writing
    <3>3. CASE EndOfRecords
      BY <3>3 DEF EndOfRecords, Hex, Hexadecimal, Writing
    <3>. QED
      BY <1>5, <3>1, <3>2, <3>3 DEF HexNext
  <2>2. /\ file \in Seq(Pieces)
        /\ \A k, p : Piece(k, p) => p.sec \in written /\ p.length = Len(p.bytes)
        /\ Fine => \E n \in 0 .. Len(prog.sections) : WrittenTo(n) /\ Following(n) /\ Records(n)
    BY <2>1 DEF HexFile
  <2>3. Fine' => Fine
    BY <2>1, FineKept
  <2>4. Secs' = Secs /\ \A s : Org(s)' = Org(s) /\ Final(s)' = Final(s) /\ AllBytes(s)' = AllBytes(s)
    BY <2>1, SectionsKept
  <2>5. CASE StartSection
    <3>1. /\ file' = file /\ stage' = "write" /\ rest = << >> /\ UNCHANGED << prog, label, errors >>
          /\ written' = written \cup {Cardinality(written) + 1} /\ written # Secs
          /\ rest' = AllBytes(Cardinality(written) + 1) /\ addr' = Org(Cardinality(written) + 1)
      BY <2>1, <2>5 DEF StartSection, vars
    <3>2. \A k, p : Piece(k, p)' <=> Piece(k, p)
      BY <3>1 DEF Piece
    <3>3. ASSUME Fine'
          PROVE  \E n \in 0 .. Len(prog'.sections) : WrittenTo(n)' /\ Following(n)' /\ Records(n)'
      <4>1. PICK n \in 0 .. Len(prog.sections) : WrittenTo(n) /\ Following(n) /\ Records(n)
        BY <2>2, <2>3, <3>3
      <4>2. PICK s : s = n + 1
        OBVIOUS
      <4>3. n \in Nat /\ Cardinality(written) = n /\ written = 1 .. n
        BY <1>0, <4>1, FirstSections DEF WrittenTo
      <4>4. s \in Secs /\ s \in 0 .. Len(prog'.sections) /\ s # 0
        BY <1>0, <3>1, <4>2, <4>3
      <4>5. written' = written \cup {s} /\ rest' = AllBytes(s) /\ addr' = Org(s)
        BY <3>1, <4>2, <4>3
      <4>6. ~PaddedHex
        BY <2>3, <3>3 DEF Fine
      <4>7. Following(s)' /\ Records(s)'
        BY <2>2, <3>1, <4>1, <4>2, <4>3, <4>4, <4>5, <4>6, RecordsBegin
      <4>8. WrittenTo(s)'
        <5>1. 1 .. s = (1 .. n) \cup {s}
          BY <4>2, <4>3
        <5>2. Org(s) \in Nat /\ AllBytes(s) \in Seq(Int)
          BY <4>4, SectionBytes DEF OutputInv, Types
        <5>. QED
          BY <2>4, <4>3, <4>4, <4>5, <5>1, <5>2 DEF WrittenTo
      <4>. QED
        BY <4>4, <4>7, <4>8
    <3>. QED
      BY <2>2, <3>1, <3>2, <3>3 DEF HexFile
  <2>6. CASE WriteRecord
    <3>1. rest # << >> /\ UNCHANGED << prog, label, written, stage >>
      BY <2>6 DEF WriteRecord
    <3>2. PICK n \in 0 .. Len(prog.sections) :
             WrittenTo(n) /\ (Fine => Following(n) /\ Records(n))
      BY <2>1, <2>2 DEF OutputInv, HexKnown
    <3>3. n # 0 /\ n \in Secs /\ n \in written
      BY <1>0, <3>1, <3>2 DEF WrittenTo
    <3>4. PICK m \in Nat, p \in Pieces :
           /\ m = Min({Len(rest), RecordSize}) /\ file' = Append(file, p)
           /\ p.sec = n /\ p.length = m /\ p.length = Len(p.bytes)
           /\ p.bytes = SubSeq(rest, 1, m) /\ rest' = SubSeq(rest, m + 1, Len(rest))
           /\ addr' = addr + m /\ m > 0 /\ (OutOfRange(addr + m) => errors')
           /\ ~errors' /\ ~SecondSegment => p.load = addr
      BY <2>1, <2>6, <3>2, <3>3, NextRecord
    <3>5. /\ file' \in Seq(Pieces)
          /\ \A k, q : Piece(k, q)' <=> Piece(k, q) \/ (k = Len(file) + 1 /\ q = p)
      BY <2>2, <3>4, NewPiece
    <3>6. ASSUME NEW k, NEW q, Piece(k, q)' PROVE q.sec \in written' /\ q.length = Len(q.bytes)
      <4>1. CASE Piece(k, q)
        BY <2>2, <3>1, <4>1
      <4>2. CASE q = p
        BY <3>1, <3>3, <3>4, <4>2
      <4>. QED
        BY <3>5, <3>6, <4>1, <4>2
    <3>7. ASSUME Fine'
          PROVE  WrittenTo(n)' /\ Following(n)' /\ Records(n)'
      <4>1. Following(n) /\ Records(n) /\ ~SecondSegment
        BY <2>3, <3>2, <3>7 DEF Fine
      <4>2. p.load = addr
        BY <3>4, <3>7, <4>1 DEF Fine
      <4>3. \A k, q : Piece(k, q) => q.sec \in written
        BY <2>2
      <4>4. Following(n)' /\ Records(n)'
        BY <2>1, <2>2, <3>1, <3>2, <3>3, <3>4, <4>1, <4>2, <4>3, RecordsGoOn
      <4>5. WrittenTo(n)'
        <5>1. rest' \in Seq(Int) /\ Len(rest') = Len(rest) - m /\ addr' = addr + m /\ addr \in Nat
          BY <3>1, <3>2, <3>4, RecordSizes DEF WrittenTo
        <5>2. PICK l \in Nat, a \in Nat : l = Len(rest) /\ a = addr /\ a + l = Org(n) + Len(AllBytes(n))
          BY <3>2, <3>3, LenProperties DEF WrittenTo
        <5>3. PICK b \in Nat : b = m
          BY <3>4
        <5>4. (a + b) + (l - b) = a + l /\ a + b \in Nat
          BY <5>2, <5>3
        <5>5. addr' \in Nat /\ addr' + Len(rest') = Org(n) + Len(AllBytes(n))
          BY <5>1, <5>2, <5>3, <5>4
        <5>6. written' = 1 .. n
          BY <3>1, <3>2 DEF WrittenTo
        <5>. QED
          BY <2>4, <3>3, <5>1, <5>5, <5>6 DEF WrittenTo
      <4>. QED
        BY <4>4, <4>5
    <3>. QED
      BY <2>1, <3>1, <3>5, <3>6, <3>7 DEF HexFile
  <2>7. CASE EndOfRecords
    <3>1. /\ UNCHANGED << prog, label, errors, written, file, rest, addr >>
          /\ rest = << >> /\ written = Secs
      BY <2>1, <2>7 DEF EndOfRecords, hexVars
    <3>2. \A k, p : Piece(k, p)' <=> Piece(k, p)
      BY <3>1 DEF Piece
    <3>3. \A n : /\ WrittenTo(n)' <=> WrittenTo(n)
                 /\ Following(n)' <=> Following(n)
                 /\ Records(n)' <=> Records(n)
      BY <2>4, <3>1, <3>2 DEF WrittenTo, Following, Records, Until
    <3>. QED
      BY <2>2, <2>3, <2>4, <3>1, <3>2, <3>3 DEF HexFile
  <2>. QED
    BY <1>5, <2>5, <2>6, <2>7 DEF HexNext
<1>6. CASE UNCHANGED allVars
  <2>1. UNCHANGED << prog, label, stage, errors, written, file, rest, addr >>
    BY <1>6 DEF allVars, vars, outputVars, hexVars
  <2>2. Secs' = Secs /\ \A s : Org(s)' = Org(s) /\ Final(s)' = Final(s) /\ AllBytes(s)' = AllBytes(s)
    BY <2>1, SectionsKept
  <2>3. \A k, p : Piece(k, p)' <=> Piece(k, p)
    BY <2>1 DEF Piece
  <2>4. \A n : /\ WrittenTo(n)' <=> WrittenTo(n)
               /\ Following(n)' <=> Following(n)
               /\ Records(n)' <=> Records(n)
    BY <2>1, <2>2, <2>3 DEF WrittenTo, Following, Records, Until
  <2>5. (Fine' => Fine) /\ Hexadecimal /\ Writing
    BY <2>1, FineKept DEF Hexadecimal, Writing
  <2>. QED
    BY <2>1, <2>2, <2>3, <2>4, <2>5 DEF HexFile
<1>. QED
  BY <1>1, <1>2, <1>3, <1>4, <1>5, <1>6 DEF Next, BinaryNext

\* The bytes of a record.
LEMMA RecordInPlace ==
  ASSUME NEW p \in Pieces, p.length \in Nat, p.bytes = Run(p.load, p.length), NEW a \in Nat
  PROVE  /\ Covers(p, a) <=> p.load <= a /\ a < p.load + p.length
         /\ Covers(p, a) => p.bytes[a - p.load + 1] = a
<1>1. PICK o \in Int, m \in Nat : o = p.load /\ m = p.length
  BY DEF Pieces
<1>2. /\ p.bytes = Run(o, m) /\ Len(p.bytes) = m
      /\ \A j \in 1 .. m : p.bytes[j] = o + j - 1
  <2>1. p.bytes = Run(o, m)
    BY <1>1
  <2>2. Len(Run(o, m)) = m /\ \A j \in 1 .. m : Run(o, m)[j] = o + j - 1
    BY <1>1, RunIsSeq
  <2>. QED
    BY <2>1, <2>2
<1>3. Covers(p, a) <=> o <= a /\ a < o + m
  BY <1>1, <1>2 DEF Covers
<1>4. ASSUME Covers(p, a) PROVE p.bytes[a - o + 1] = a
  <2>1. a - o + 1 \in 1 .. m
    BY <1>1, <1>3, <1>4
  <2>2. p.bytes[a - o + 1] = o + (a - o + 1) - 1
    BY <1>2, <2>1
  <2>3. o + (a - o + 1) - 1 = a
    BY <1>1
  <2>. QED
    BY <2>2, <2>3
<1>. QED
  BY <1>1, <1>3, <1>4

\* Of two sections that are both written to an address, space included, the one with
\* bytes there overlaps the other, unless only the other's space lies there.
LEMMA BothWritten ==
  ASSUME OutputInv, Writing, Hexadecimal, ~Displaced, ~SpaceWritten, ~PaddedHex,
         NEW s \in Secs, NEW t \in Secs, s # t, NEW a \in Nat,
         Org(s) <= a, a < End(s), Org(t) <= a, a < Final(t)
  PROVE  FALSE
<1>1. PICK o \in Nat, e \in Nat, c \in Nat : o = Org(s) /\ e = End(s) /\ c = pc[s] /\ e <= c
  BY TrimmedEnds DEF OutputInv, Writing
<1>2. PICK o2 \in Nat, e2 \in Nat, c2 \in Nat :
         o2 = Org(t) /\ e2 = End(t) /\ c2 = pc[t] /\ e2 <= c2
  BY TrimmedEnds DEF OutputInv, Writing
<1>3. PICK f2 \in Nat : f2 = Final(t) /\ f2 = Org(t) + Len(AllBytes(t))
  BY SectionEnds, BytesOfSection DEF OutputInv, Types
<1>4. o <= a /\ a < e /\ o2 <= a /\ a < f2
  BY <1>1, <1>2, <1>3
<1>5. ~(f2 > o /\ e > e2)
  BY <1>1, <1>2, <1>3 DEF SpaceWritten, Hexadecimal
<1>6. o < e2 /\ o2 < e
  BY <1>1, <1>2, <1>3, <1>4, <1>5
<1>7. CASE prog.format \in Srec
  BY <1>1, <1>2, <1>6, <1>7 DEF Displaced, Overlapping
<1>8. CASE prog.format \notin Srec
  <2>1. (o < o2 => c <= o2) /\ (o2 < o => c2 <= o)
    BY <1>1, <1>2, <1>8, CheckedApart DEF Apart
  <2>2. o # o2
    BY <1>1, <1>2, DistinctOrgs DEF OutputInv, Types
  <2>. QED
    BY <1>1, <1>2, <1>6, <2>1, <2>2
<1>. QED
  BY <1>7, <1>8

LEMMA RecordsLoad ==
  ASSUME OutputInv, HexFile, Hexadecimal, stage = "closed", ~errors,
         ~Displaced, ~SpaceWritten, ~PaddedHex, ~SecondSegment
  PROVE  /\ \A s \in Secs : \A a \in Org(s) .. (End(s) - 1) : Loaded(s, a)
         /\ \A k \in DOMAIN file : file[k].length = Len(file[k].bytes)
         /\ prog.format \in Streams => header.length = filled
<1>1. /\ Writing /\ Fine /\ Secs = 1 .. Len(prog.sections) /\ Len(prog.sections) \in Nat
  BY SourceTypes DEF Writing, Fine, OutputInv, Types, Secs
<1>2. /\ file \in Seq(Pieces) /\ rest = << >> /\ written = Secs
      /\ \A k, p : Piece(k, p) => p.sec \in written /\ p.length = Len(p.bytes)
  BY <1>1 DEF HexFile
<1>3. PICK n \in 0 .. Len(prog.sections) : WrittenTo(n) /\ Following(n) /\ Records(n)
  BY <1>1 DEF HexFile
<1>4. /\ Len(file) \in Nat /\ DOMAIN file = 1 .. Len(file)
      /\ \A k \in 1 .. Len(file) : file[k] \in Pieces
  BY <1>2, LenProperties, ElementOfSeq
<1>5. \A s \in Secs : Until(s, n) = Final(s)
  <2>1. n # 0 => addr = Final(n)
    <3>1. Len(rest) = 0 /\ addr \in Nat
      BY <1>2, <1>3, EmptySeq DEF WrittenTo
    <3>. QED
      BY <1>3, <3>1 DEF Following
  <2>. QED
    BY <1>1, <2>1 DEF Until
<1>6. ASSUME NEW k, NEW p, Piece(k, p)
      PROVE  /\ p \in Pieces /\ p.sec \in Secs /\ p.length \in Nat
             /\ p.bytes = Run(p.load, p.length) /\ Org(p.sec) <= p.load
             /\ p.load + p.length <= Final(p.sec)
  <2>1. p \in Pieces /\ p.sec \in Secs
    BY <1>2, <1>4, <1>6 DEF Piece
  <2>. QED
    BY <1>3, <1>5, <1>6, <2>1 DEF Records
<1>7. ASSUME NEW s \in Secs, NEW a \in Org(s) .. (End(s) - 1) PROVE Loaded(s, a)
  <2>1. Org(s) \in Nat /\ End(s) \in Nat /\ Final(s) \in Nat /\ End(s) <= Final(s)
    BY SectionEnds DEF OutputInv, Types
  <2>2. a \in Nat /\ Org(s) <= a /\ a < End(s) /\ a < Final(s)
    BY <2>1
  <2>3. PICK k, p : Piece(k, p) /\ p.sec = s /\ p.load <= a /\ a < p.load + p.length
    BY <1>2, <1>3, <1>5, <2>2 DEF Records
  <2>4. Covers(p, a) /\ p.bytes[a - p.load + 1] = a
    BY <1>6, <2>2, <2>3, RecordInPlace
  <2>5. ASSUME NEW j, NEW q, Piece(j, q), k < j, Covers(q, a) PROVE FALSE
    <3>1. /\ q \in Pieces /\ q.sec \in Secs /\ q.length \in Nat
          /\ Org(q.sec) <= q.load /\ q.load + q.length <= Final(q.sec)
          /\ q.load <= a /\ a < q.load + q.length
      BY <1>6, <2>2, <2>5, RecordInPlace
    <3>2. PICK l \in Int, m \in Nat : l = q.load /\ m = q.length
      BY <3>1 DEF Pieces
    <3>3. CASE q.sec = s
      <4>1. p.load + p.length <= q.load
        BY <1>3, <2>3, <2>5, <3>3 DEF Records
      <4>2. PICK l2 \in Int, m2 \in Nat : l2 = p.load /\ m2 = p.length
        BY <1>6, <2>3 DEF Pieces
      <4>3. a < l2 + m2 /\ l2 + m2 <= l /\ l <= a
        BY <2>3, <3>1, <3>2, <4>1, <4>2
      <4>. QED
        BY <2>2, <3>2, <4>2, <4>3
    <3>4. CASE q.sec # s
      <4>1. PICK o \in Nat, f \in Nat : o = Org(q.sec) /\ f = Final(q.sec)
        BY <3>1, SectionEnds DEF OutputInv, Types
      <4>2. o <= l /\ l <= a /\ a < l + m /\ l + m <= f
        BY <3>1, <3>2, <4>1
      <4>3. o <= a /\ a < f
        BY <2>2, <3>2, <4>1, <4>2
      <4>. QED
        BY <1>1, <2>2, <3>1, <3>4, <4>1, <4>3, BothWritten
    <3>. QED
      BY <3>3, <3>4
  <2>. QED
    BY <1>2, <2>3, <2>4, <2>5, LoadedByPiece
<1>8. ASSUME NEW k \in DOMAIN file PROVE file[k].length = Len(file[k].bytes)
  <2>1. Piece(k, file[k])
    BY <1>4 DEF Piece
  <2>. QED
    BY <1>2, <2>1
<1>9. prog.format \notin Streams
  BY DEF Hexadecimal, Streams, Srec, Ihex
<1>. QED
  BY <1>7, <1>8, <1>9

LEMMA FileLoads ==
  ASSUME OutputInv, Header, BinaryFile, HexFile
  PROVE  LoadsInPlace
<1>1. stage = "closed" => Binary \/ Hexadecimal
  BY DEF OutputInv, Checked
<1>. QED
  BY <1>1, BinaryLoads, RecordsLoad DEF LoadsInPlace

(* A file written without an error has every byte of every section at its  *)
(* address, none overwritten by a later piece, and lengths that fit; but   *)
(* for the cases LoadsInPlace names.  For all sources and all formats.     *)
THEOREM FilesLoadInPlace == Spec => []LoadsInPlace
<1> DEFINE FileInv == OutputInv /\ Header /\ BinaryFile /\ HexFile
<1>1. AssemblerInit => FileInv
  BY OutputInvInit, HeaderInit, BinaryInit, HexFileInit
<1>2. FileInv /\ [Next]_allVars => FileInv'
  BY OutputInvStep, HeaderStep, BinaryStep, HexFileStep
<1>3. FileInv => LoadsInPlace
  BY FileLoads
<1>. QED
  BY <1>1, <1>2, <1>3, PTL DEF Spec

===============================================================================
