-------------------------- MODULE PlacementProofs --------------------------
(***************************************************************************)
(* Proof that bytes and labels lie where the documentation of the section  *)
(* directives puts them, for every source of such directives.              *)
(*                                                                         *)
(* Each line keeps the assembler's lists of sections in step with the      *)
(* documentation's spaces (Sim): a section is a space, what assemble()     *)
(* would reach behind its atoms is the space's counter, its bytes and      *)
(* labels lie where they were placed, and each block that is open returns  *)
(* to the section that stands for the space around it.                     *)
(***************************************************************************)
EXTENDS Placement, FrontEndProofs

-----------------------------------------------------------------------------
\* What holds at 0 and goes on from each number to the next holds up to N: if it failed
\* at n, the numbers below n from which on it fails could be counted down for ever.
LEMMA StepByStep ==
  ASSUME NEW N \in Nat, NEW H, 0 \in H,
         \A m \in 0 .. (N - 1) : m \in H => m + 1 \in H
  PROVE  \A m \in 0 .. N : m \in H
<1>1. SUFFICES ASSUME NEW n \in 0 .. N, n \notin H PROVE FALSE
  OBVIOUS
<1> DEFINE T == { m \in 0 .. n : \A k \in m .. n : k \notin H }
           f == [m \in T |-> m - 1]
<1>2. IsFiniteSet(T)
  <2>1. IsFiniteSet(0 .. n) /\ T \in SUBSET (0 .. n)
    BY FS_Interval
  <2>. QED
    BY <2>1, FS_Subset
<1>3. f \in Injection(T, T)
  <2>1. ASSUME NEW m \in T PROVE m - 1 \in T
    <3>1. m # 0
      OBVIOUS
    <3>2. m - 1 \in 0 .. (N - 1) /\ (m - 1) + 1 = m /\ m \notin H
      BY <3>1
    <3>3. m - 1 \notin H
      BY <3>2
    <3>. QED
      BY <3>2, <3>3
  <2>2. f \in [T -> T] /\ \A a, b \in T : f[a] = f[b] => a = b
    BY <2>1
  <2>. QED
    BY <2>2 DEF Injection, IsInjective
<1>4. f \in Surjection(T, T)
  BY <1>2, <1>3, FS_Injection
<1>5. n \in T
  BY <1>1
<1>6. PICK m \in T : f[m] = n
  BY <1>4, <1>5 DEF Surjection
<1>. QED
  BY <1>6

-----------------------------------------------------------------------------
(* The functions defined by recursion say what they seem to say.           *)

\* Behind(s) from its recursive definition: at the origin, and on by one atom at a time.
LEMMA BehindUnfolds ==
  ASSUME NEW s, Len(s.atoms) \in Nat
  PROVE  /\ Behind(s)[0] = [pc |-> s.org, shift |-> 0]
         /\ \A k \in 1 .. Len(s.atoms) : Behind(s)[k] = Following(Behind(s)[k - 1], s.atoms[k])
<1> DEFINE N == Len(s.atoms)
           first == [pc |-> s.org, shift |-> 0]
           Body(g, m) == [k \in 0 .. m |->
                            IF k = 0 THEN first ELSE Following(g[k - 1], s.atoms[k])]
           H == { m \in 0 .. N : \E g : g = Body(g, m) }
<1>1. 0 \in H
  <2>1. [k \in 0 .. 0 |-> first] = Body([k \in 0 .. 0 |-> first], 0)
    OBVIOUS
  <2> HIDE DEF Body
  <2>. QED
    BY <2>1
<1>2. ASSUME NEW m \in 0 .. (N - 1), m \in H PROVE m + 1 \in H
  <2>1. PICK g : g = Body(g, m)
    BY <1>2
  <2> DEFINE h == [k \in 0 .. (m + 1) |->
                     IF k <= m THEN g[k] ELSE Following(g[m], s.atoms[m + 1])]
  <2>2. \A k \in 0 .. m : g[k] = IF k = 0 THEN first ELSE Following(g[k - 1], s.atoms[k])
    BY <2>1
  <2>3. h = Body(h, m + 1)
    <3>1. ASSUME NEW k \in 0 .. (m + 1)
          PROVE  h[k] = IF k = 0 THEN first ELSE Following(h[k - 1], s.atoms[k])
      <4>1. k # 0 => k - 1 \in 0 .. m /\ h[k - 1] = g[k - 1]
        OBVIOUS
      <4>2. CASE k <= m
        BY <2>2, <4>1, <4>2
      <4>3. CASE k = m + 1
        <5>1. h[k] = Following(g[m], s.atoms[m + 1]) /\ k - 1 = m /\ k # 0
          BY <4>3
        <5>. QED
          BY <4>1, <4>3, <5>1
      <4>. QED
        BY <4>2, <4>3
    <3> HIDE DEF h
    <3>2. h = [k \in 0 .. (m + 1) |-> h[k]]
      BY DEF h
    <3>. QED
      BY <3>1, <3>2
  <2> HIDE DEF Body, h
  <2>. QED
    BY <2>3
<1>3. N \in H
  <2>1. \A m \in 0 .. (N - 1) : m \in H => m + 1 \in H
    BY <1>2
  <2>2. N \in Nat
    OBVIOUS
  <2> HIDE DEF H, N
  <2>3. \A m \in 0 .. N : m \in H
    BY <1>1, <2>1, <2>2, StepByStep
  <2>. QED
    BY <2>2, <2>3
<1>4. Behind(s) = CHOOSE g : g = Body(g, N)
  BY Zenon DEF Behind
<1>5. Behind(s) = Body(Behind(s), N)
  <2>1. \E g : g = Body(g, N)
    BY <1>3
  <2>. QED
    BY <1>4, <2>1, Zenon
<1> HIDE DEF first
<1>6. \A k \in 0 .. N :
         Behind(s)[k] = IF k = 0 THEN first ELSE Following(Behind(s)[k - 1], s.atoms[k])
  BY <1>5
<1>. QED
  BY <1>6 DEF first

\* Placement(lines): nothing at first, and one line after the other.
LEMMA PlacementUnfolds ==
  ASSUME NEW lines, Len(lines) \in Nat
  PROVE  /\ Placement(lines)[0] = Start
         /\ \A k \in 1 .. Len(lines) : Placement(lines)[k] = Place(Placement(lines)[k - 1], lines[k])
<1> DEFINE N == Len(lines)
           first == Start
           Body(g, m) == [k \in 0 .. m |->
                            IF k = 0 THEN first ELSE Place(g[k - 1], lines[k])]
           H == { m \in 0 .. N : \E g : g = Body(g, m) }
<1>1. 0 \in H
  <2>1. [k \in 0 .. 0 |-> first] = Body([k \in 0 .. 0 |-> first], 0)
    OBVIOUS
  <2> HIDE DEF Body
  <2>. QED
    BY <2>1
<1>2. ASSUME NEW m \in 0 .. (N - 1), m \in H PROVE m + 1 \in H
  <2>1. PICK g : g = Body(g, m)
    BY <1>2
  <2> DEFINE h == [k \in 0 .. (m + 1) |->
                     IF k <= m THEN g[k] ELSE Place(g[m], lines[m + 1])]
  <2>2. \A k \in 0 .. m : g[k] = IF k = 0 THEN first ELSE Place(g[k - 1], lines[k])
    BY <2>1
  <2>3. h = Body(h, m + 1)
    <3>1. ASSUME NEW k \in 0 .. (m + 1)
          PROVE  h[k] = IF k = 0 THEN first ELSE Place(h[k - 1], lines[k])
      <4>1. k # 0 => k - 1 \in 0 .. m /\ h[k - 1] = g[k - 1]
        OBVIOUS
      <4>2. CASE k <= m
        BY <2>2, <4>1, <4>2
      <4>3. CASE k = m + 1
        <5>1. h[k] = Place(g[m], lines[m + 1]) /\ k - 1 = m /\ k # 0
          BY <4>3
        <5>. QED
          BY <4>1, <4>3, <5>1
      <4>. QED
        BY <4>2, <4>3
    <3> HIDE DEF h
    <3>2. h = [k \in 0 .. (m + 1) |-> h[k]]
      BY DEF h
    <3>. QED
      BY <3>1, <3>2
  <2> HIDE DEF Body, h
  <2>. QED
    BY <2>3
<1>3. N \in H
  <2>1. \A m \in 0 .. (N - 1) : m \in H => m + 1 \in H
    BY <1>2
  <2>2. N \in Nat
    OBVIOUS
  <2> HIDE DEF H, N
  <2>3. \A m \in 0 .. N : m \in H
    BY <1>1, <2>1, <2>2, StepByStep
  <2>. QED
    BY <2>2, <2>3
<1>4. Placement(lines) = CHOOSE g : g = Body(g, N)
  BY Zenon DEF Placement
<1>5. Placement(lines) = Body(Placement(lines), N)
  <2>1. \E g : g = Body(g, N)
    BY <1>3
  <2>. QED
    BY <1>4, <2>1, Zenon
<1> HIDE DEF first
<1>6. \A k \in 0 .. N :
         Placement(lines)[k] = IF k = 0 THEN first ELSE Place(Placement(lines)[k - 1], lines[k])
  BY <1>5
<1>. QED
  BY <1>6 DEF first

\* The bytes so far and one more atom.
Collected(bytes, atom) == IF atom.op = "byte" THEN Append(bytes, atom) ELSE bytes

\* Bytes(atoms): none at first, and one atom after the other.
LEMMA BytesUnfold ==
  ASSUME NEW atoms, Len(atoms) \in Nat
  PROVE  /\ Bytes(atoms)[0] = << >>
         /\ \A k \in 1 .. Len(atoms) :
              Bytes(atoms)[k] = Collected(Bytes(atoms)[k - 1], atoms[k])
<1> DEFINE N == Len(atoms)
           first == << >>
           Body(g, m) == [k \in 0 .. m |->
                            IF k = 0 THEN first ELSE Collected(g[k - 1], atoms[k])]
           H == { m \in 0 .. N : \E g : g = Body(g, m) }
<1>1. 0 \in H
  <2>1. [k \in 0 .. 0 |-> first] = Body([k \in 0 .. 0 |-> first], 0)
    OBVIOUS
  <2> HIDE DEF Body
  <2>. QED
    BY <2>1
<1>2. ASSUME NEW m \in 0 .. (N - 1), m \in H PROVE m + 1 \in H
  <2>1. PICK g : g = Body(g, m)
    BY <1>2
  <2> DEFINE h == [k \in 0 .. (m + 1) |->
                     IF k <= m THEN g[k] ELSE Collected(g[m], atoms[m + 1])]
  <2>2. \A k \in 0 .. m : g[k] = IF k = 0 THEN first ELSE Collected(g[k - 1], atoms[k])
    BY <2>1
  <2>3. h = Body(h, m + 1)
    <3>1. ASSUME NEW k \in 0 .. (m + 1)
          PROVE  h[k] = IF k = 0 THEN first ELSE Collected(h[k - 1], atoms[k])
      <4>1. k # 0 => k - 1 \in 0 .. m /\ h[k - 1] = g[k - 1]
        OBVIOUS
      <4>2. CASE k <= m
        BY <2>2, <4>1, <4>2
      <4>3. CASE k = m + 1
        <5>1. h[k] = Collected(g[m], atoms[m + 1]) /\ k - 1 = m /\ k # 0
          BY <4>3
        <5>. QED
          BY <4>1, <4>3, <5>1
      <4>. QED
        BY <4>2, <4>3
    <3> HIDE DEF h
    <3>2. h = [k \in 0 .. (m + 1) |-> h[k]]
      BY DEF h
    <3>. QED
      BY <3>1, <3>2
  <2> HIDE DEF Body, h
  <2>. QED
    BY <2>3
<1>3. N \in H
  <2>1. \A m \in 0 .. (N - 1) : m \in H => m + 1 \in H
    BY <1>2
  <2>2. N \in Nat
    OBVIOUS
  <2> HIDE DEF H, N
  <2>3. \A m \in 0 .. N : m \in H
    BY <1>1, <2>1, <2>2, StepByStep
  <2>. QED
    BY <2>2, <2>3
<1>4. Bytes(atoms) = CHOOSE g : g = Body(g, N)
  BY Zenon DEF Bytes, Collected
<1>5. Bytes(atoms) = Body(Bytes(atoms), N)
  <2>1. \E g : g = Body(g, N)
    BY <1>3
  <2>. QED
    BY <1>4, <2>1, Zenon
<1> HIDE DEF first
<1>6. \A k \in 0 .. N :
         Bytes(atoms)[k] = IF k = 0 THEN first ELSE Collected(Bytes(atoms)[k - 1], atoms[k])
  BY <1>5
<1>. QED
  BY <1>6 DEF first

-----------------------------------------------------------------------------
(* Sections.                                                               *)

\* The elements of two sequences one behind the other.
LEMMA Concatenated ==
  ASSUME NEW a, IsSeq(a), NEW b, IsSeq(b)
  PROVE  /\ IsSeq(a \o b) /\ Len(a) \in Nat /\ Len(b) \in Nat /\ Len(a \o b) = Len(a) + Len(b)
         /\ \A k \in 1 .. Len(a) : (a \o b)[k] = a[k]
         /\ \A k \in 1 .. Len(b) : (a \o b)[Len(a) + k] = b[k]
<1> DEFINE S == { a[k] : k \in 1 .. Len(a) } \cup { b[k] : k \in 1 .. Len(b) }
<1>1. a \in Seq(S) /\ b \in Seq(S)
  BY SeqMonotonic DEF IsSeq
<1> HIDE DEF S
<1>2. a \o b \in Seq(S) /\ Len(a) \in Nat /\ Len(b) \in Nat /\ Len(a \o b) = Len(a) + Len(b)
  BY <1>1, ConcatProperties, LenProperties
<1>3. \A k \in 1 .. (Len(a) + Len(b)) :
         (a \o b)[k] = IF k <= Len(a) THEN a[k] ELSE b[k - Len(a)]
  BY <1>1, ConcatProperties
<1>4. IsSeq(a \o b)
  BY <1>2, SeqIsSeq
<1>5. ASSUME NEW k \in 1 .. Len(b) PROVE (a \o b)[Len(a) + k] = b[k]
  <2>1. Len(a) + k \in 1 .. (Len(a) + Len(b)) /\ ~(Len(a) + k <= Len(a)) /\ (Len(a) + k) - Len(a) = k
    BY <1>2
  <2>. QED
    BY <1>3, <2>1
<1>. QED
  BY <1>2, <1>3, <1>4, <1>5

\* t is s with more atoms.
Extends(t, s, added) ==
  /\ IsSeq(s.atoms) /\ IsSeq(added) /\ t.atoms = s.atoms \o added
  /\ t.org = s.org /\ t.unallocated = s.unallocated

\* The atoms of a section that has been extended.
LEMMA ExtendedAtoms ==
  ASSUME NEW s, NEW t, NEW added, Extends(t, s, added)
  PROVE  /\ IsSeq(t.atoms) /\ IsSeq(s.atoms) /\ IsSeq(added)
         /\ Len(s.atoms) \in Nat /\ Len(added) \in Nat /\ Len(t.atoms) \in Nat
         /\ Len(t.atoms) = Len(s.atoms) + Len(added)
         /\ \A k \in 1 .. Len(s.atoms) : t.atoms[k] = s.atoms[k]
         /\ \A k \in 1 .. Len(added) : t.atoms[Len(s.atoms) + k] = added[k]
<1> DEFINE a == s.atoms
           c == a \o added
<1>1. IsSeq(a) /\ IsSeq(added) /\ t.atoms = c
  BY DEF Extends
<1> HIDE DEF a
<1>2. /\ IsSeq(c) /\ Len(a) \in Nat /\ Len(added) \in Nat /\ Len(c) = Len(a) + Len(added)
      /\ \A k \in 1 .. Len(a) : c[k] = a[k]
      /\ \A k \in 1 .. Len(added) : c[Len(a) + k] = added[k]
  BY <1>1, Concatenated
<1> HIDE DEF c
<1>. QED
  BY <1>1, <1>2 DEF a

(* The atoms so far stay where they are when more are added.               *)
LEMMA AddedBehind ==
  ASSUME NEW s, NEW t, NEW added, Extends(t, s, added)
  PROVE  /\ \A k \in 0 .. Len(s.atoms) : /\ Behind(t)[k] = Behind(s)[k]
                                         /\ Bytes(t.atoms)[k] = Bytes(s.atoms)[k]
         /\ \A k \in 1 .. Len(added) :
              /\ Behind(t)[Len(s.atoms) + k] =
                   Following(Behind(t)[(Len(s.atoms) + k) - 1], added[k])
              /\ Bytes(t.atoms)[Len(s.atoms) + k] =
                   Collected(Bytes(t.atoms)[(Len(s.atoms) + k) - 1], added[k])
<1> DEFINE N == Len(s.atoms)
           H == { k \in 0 .. N : Behind(t)[k] = Behind(s)[k] /\ Bytes(t.atoms)[k] = Bytes(s.atoms)[k] }
<1>1. /\ N \in Nat /\ Len(added) \in Nat /\ Len(t.atoms) = N + Len(added) /\ Len(t.atoms) \in Nat
      /\ \A k \in 1 .. N : t.atoms[k] = s.atoms[k]
      /\ \A k \in 1 .. Len(added) : t.atoms[N + k] = added[k]
  BY ExtendedAtoms
<1>2. /\ Behind(s)[0] = [pc |-> s.org, shift |-> 0]
      /\ \A k \in 1 .. N : Behind(s)[k] = Following(Behind(s)[k - 1], s.atoms[k])
  BY <1>1, BehindUnfolds
<1>3. /\ Behind(t)[0] = [pc |-> t.org, shift |-> 0]
      /\ \A k \in 1 .. Len(t.atoms) : Behind(t)[k] = Following(Behind(t)[k - 1], t.atoms[k])
  BY <1>1, BehindUnfolds
<1>4. /\ Bytes(s.atoms)[0] = << >>
      /\ \A k \in 1 .. N : Bytes(s.atoms)[k] = Collected(Bytes(s.atoms)[k - 1], s.atoms[k])
  BY <1>1, BytesUnfold
<1>5. /\ Bytes(t.atoms)[0] = << >>
      /\ \A k \in 1 .. Len(t.atoms) :
           Bytes(t.atoms)[k] = Collected(Bytes(t.atoms)[k - 1], t.atoms[k])
  BY <1>1, BytesUnfold
<1> HIDE DEF N
<1>6. 0 \in H
  BY <1>1, <1>2, <1>3, <1>4, <1>5 DEF Extends
<1>7. ASSUME NEW m \in 0 .. (N - 1), m \in H PROVE m + 1 \in H
  <2>1. m + 1 \in 1 .. N /\ m + 1 \in 1 .. Len(t.atoms) /\ (m + 1) - 1 = m
    BY <1>1
  <2>. QED
    BY <1>1, <1>2, <1>3, <1>4, <1>5, <1>7, <2>1
<1>8. \A m \in 0 .. N : m \in H
  <2>1. \A m \in 0 .. (N - 1) : m \in H => m + 1 \in H
    BY <1>7
  <2> HIDE DEF H
  <2>. QED
    BY <1>1, <1>6, <2>1, StepByStep
<1>9. ASSUME NEW k \in 1 .. Len(added)
      PROVE  /\ Behind(t)[N + k] = Following(Behind(t)[(N + k) - 1], added[k])
             /\ Bytes(t.atoms)[N + k] = Collected(Bytes(t.atoms)[(N + k) - 1], added[k])
  <2>1. N + k \in 1 .. Len(t.atoms)
    BY <1>1
  <2>. QED
    BY <1>1, <1>3, <1>5, <2>1
<1>. QED
  BY <1>8, <1>9 DEF N

\* The address space a section is.
SpaceOf(s) ==
  CASE s.name.of = "text"   -> TextSpace
    [] s.name.of = "seg"    -> Orged(s.name.n)
    [] s.name.of = "offset" -> Dsect(s.name.n)
    [] s.name.of = "user"   -> IF s.struct THEN Struct(s.name.n) ELSE Named(s.name.n)

\* Where the next atom of s will lie, with the way back from a relocated block.
Reached(s) == Behind(s)[Len(s.atoms)]
\* The values of the bytes of s.
Tags(s) == LET b == Bytes(s.atoms)[Len(s.atoms)] IN [j \in 1 .. Len(b) |-> b[j].tag]

\* A section as the assembler keeps it: what it is follows from its name, and its pc is
\* the address that its atoms reach, taken back from a relocated block.
SectionOK(s) ==
  /\ DOMAIN s = {"name", "org", "pc", "unallocated", "absolute", "prevabs", "in_rorg",
                 "labels_are_local", "struct", "atoms"}
  /\ s.name = Name(s.name.of, s.name.n) /\ s.name.of \in {"text", "seg", "offset", "user"}
  /\ s.name.of = "text" => s.name.n = 0
  /\ s.struct \in BOOLEAN /\ s.in_rorg \in BOOLEAN /\ s.labels_are_local \in BOOLEAN
  /\ s.struct => s.name.of = "user"
  /\ s.unallocated = SpaceOf(s).dummy
  /\ IsSeq(s.atoms)
  /\ Reached(s) \in [pc : Int, shift : Int]
  /\ s.pc = Reached(s).pc + Reached(s).shift
  /\ ~s.in_rorg => Reached(s).shift = 0

\* The counter of its address space.
CounterOf(s) == [pc |-> Reached(s).pc, away |-> Reached(s).shift, relocated |-> s.in_rorg]

\* Sections and spaces are the same: every section is a space of its own, with its counter,
\* its fields if it is a structure, and what it has placed.
Covers(at, fields, placed, ss) ==
  /\ IsSeq(ss)
  /\ \A k \in DOMAIN ss : SectionOK(ss[k])
  /\ \A j, k \in DOMAIN ss : ss[j].name = ss[k].name => j = k
  /\ at = [s \in DOMAIN at |-> at[s]]
  /\ DOMAIN at = { SpaceOf(ss[k]) : k \in DOMAIN ss } \cup {TextSpace}
  /\ (\A k \in DOMAIN ss : ss[k].name # Text) => at[TextSpace] = Counter(0)
  /\ \A k \in DOMAIN ss : at[SpaceOf(ss[k])] = CounterOf(ss[k])
  /\ fields = [n \in DOMAIN fields |-> fields[n]]
  /\ DOMAIN fields = { ss[k].name.n : k \in { j \in DOMAIN ss : ss[j].struct } }
  /\ \A k \in DOMAIN ss : ss[k].struct => fields[ss[k].name.n] = Tags(ss[k])
  /\ placed = UNION { PlacedIn(ss[k]) : k \in DOMAIN ss }

\* Section k stands for the space; before the first section this is the text.
Means(k, space, ss) == \/ k = NULL /\ space = TextSpace
                       \/ k \in DOMAIN ss /\ SpaceOf(ss[k]) = space

\* Labels are local in the structure that is being declared.
Locals(ss, declared) ==
  /\ declared # NULL => declared \in DOMAIN ss /\ ss[declared].struct
  /\ \A k \in DOMAIN ss : ss[k].labels_are_local <=> declared # NULL /\ k = declared

\* The offset sections have been numbered.
Offsets(ss, latest) ==
  /\ latest \in Nat
  /\ \A k \in DOMAIN ss : ss[k].name.of = "offset" => ss[k].name.n \in 1 .. latest

\* Neither a dsect nor a structure.
Plain(space) == space.op \notin {"dsect", "struct"}

\* At most one dsect and one structure are open, one in the other, and the space in force
\* is that of the innermost.
InBlocks(w) ==
  /\ IsSeq(w.inside) /\ Len(w.inside) <= 2
  /\ \A k \in 1 .. Len(w.inside) : w.inside[k].op \in {"dsect", "struct"}
  /\ Len(w.inside) = 0 => Plain(w.here)
  /\ Len(w.inside) > 0 => w.here.op = w.inside[Len(w.inside)].op /\ Plain(w.inside[1].from)
  /\ Len(w.inside) = 2 => w.inside[2].from.op = w.inside[1].op /\ w.inside[1].op # w.inside[2].op

\* The assembler's remembered sections are those the blocks return to.  It has one for
\* dsects, one for structures: that suffices as there is at most one of each.
Returns(w) ==
  /\ dsect_active <=> Within(w, "dsect")
  /\ cur_struct # NULL <=> Within(w, "struct")
  /\ \A k \in 1 .. Len(w.inside) :
       /\ w.inside[k].op = "dsect"  => Means(last_alloc_sect, w.inside[k].from, sects)
       /\ w.inside[k].op = "struct" => Means(struct_prevsect, w.inside[k].from, sects)
       /\ w.inside[k].from.op = "struct" => last_alloc_sect = cur_struct
  /\ w.here.op = "struct" => current_section = cur_struct

\* The fields of what is meant.
IsWorld(w) == DOMAIN w = {"here", "at", "inside", "dsects", "dsect", "fields", "placed",
                          "defined", "odd"}

\* The assembler has done what w says.
Sim(w) ==
  /\ IsWorld(w)
  /\ Covers(w.at, w.fields, w.placed, sects)
  /\ Means(current_section, w.here, sects)
  /\ Locals(sects, cur_struct) /\ Offsets(sects, offset_id)
  /\ InBlocks(w) /\ Returns(w)
  /\ offset_id = w.dsects
  /\ dsect_offs = w.dsect /\ dsect_offs \in Int
  /\ labels = w.defined /\ ~errors
  /\ ~w.odd

\* A source of section directives is read from its first line to its last, and nothing else.
Reading ==
  /\ Len(src) = 1 /\ cur_src.file = Main /\ cur_src.ptr \in 1 .. (Len(Lines(Main)) + 1)
  /\ cur_src.from = 1 /\ cur_src.to = Len(Lines(Main)) /\ cur_src.repeat = 1
  /\ cur_src.num_params = -1
  /\ macros = << >> /\ reading = NoDef /\ cond = << >> /\ ~parse_end

\* What is collected are bytes and nothing else.
LEMMA BytesAreBytes ==
  ASSUME NEW atoms, IsSeq(atoms)
  PROVE  LET bytes == Bytes(atoms)[Len(atoms)]
         IN IsSeq(bytes) /\ \A j \in 1 .. Len(bytes) : bytes[j].op = "byte"
<1> DEFINE N == Len(atoms)
           Good(b) == IsSeq(b) /\ \A j \in 1 .. Len(b) : b[j].op = "byte"
           H == { k \in 0 .. N : Good(Bytes(atoms)[k]) }
<1>1. N \in Nat
  BY SeqIsSeq DEF IsSeq
<1>2. /\ Bytes(atoms)[0] = << >>
      /\ \A k \in 1 .. N : Bytes(atoms)[k] = Collected(Bytes(atoms)[k - 1], atoms[k])
  BY <1>1, BytesUnfold
<1> HIDE DEF N
<1>3. 0 \in H
  <2>1. IsSeq(<< >>) /\ Len(<< >>) = 0
    BY EmptySeq, SeqIsSeq
  <2>2. Good(<< >>)
    BY <2>1
  <2> HIDE DEF Good
  <2>. QED
    BY <1>1, <1>2, <2>2
<1>4. ASSUME NEW b, Good(b), NEW a PROVE Good(Collected(b, a))
  <2>1. CASE a.op = "byte"
    <3>0. IsSeq(b)
      BY <1>4
    <3>2. b \in Seq({ b[k] : k \in 1 .. Len(b) } \cup {a})
      BY <3>0, SeqMonotonic DEF IsSeq
    <3>1. IsSeq(Append(b, a)) /\ Len(Append(b, a)) = Len(b) + 1 /\ Len(b) \in Nat
      BY <3>0, <3>2, Longer, LenProperties
    <3>3. /\ Append(b, a)[Len(b) + 1] = a
          /\ \A k \in 1 .. Len(b) : Append(b, a)[k] = b[k]
      BY <3>2, AppendProperties
    <3>4. \A k \in 1 .. (Len(b) + 1) : k = Len(b) + 1 \/ k \in 1 .. Len(b)
      BY <3>1
    <3>. QED
      BY <1>4, <2>1, <3>1, <3>3, <3>4 DEF Collected
  <2>2. CASE a.op # "byte"
    BY <1>4, <2>2 DEF Collected
  <2>. QED
    BY <2>1, <2>2
<1> HIDE DEF Good
<1>5. ASSUME NEW m \in 0 .. (N - 1), m \in H PROVE m + 1 \in H
  <2>1. m + 1 \in 1 .. N /\ (m + 1) - 1 = m
    BY <1>1
  <2>. QED
    BY <1>2, <1>4, <1>5, <2>1
<1>6. N \in H
  <2>1. \A m \in 0 .. (N - 1) : m \in H => m + 1 \in H
    BY <1>5
  <2> HIDE DEF H
  <2>. QED
    BY <1>1, <1>3, <2>1, StepByStep
<1>. QED
  BY <1>6 DEF Good, N

\* The new atoms lie where they have been reached.
PlacedMore(t, s, added) ==
  { << added[k].op, added[k].tag, Behind(t)[Len(s.atoms) + k - 1].pc, ~s.unallocated >> :
      k \in { j \in 1 .. Len(added) : added[j].op \in {"byte", "label"} } }

\* An extended section places what it placed before, and the new atoms.
LEMMA AddedPlaced ==
  ASSUME NEW s, NEW t, NEW added, Extends(t, s, added)
  PROVE  PlacedIn(t) = PlacedIn(s) \cup PlacedMore(t, s, added)
<1> DEFINE N == Len(s.atoms)
           out == ~s.unallocated
           Spots(u, ks) == { << u.atoms[k].op, u.atoms[k].tag, layout(u)[k], out >> :
                               k \in { j \in ks : u.atoms[j].op \in {"byte", "label"} } }
           New == { << added[k].op, added[k].tag, Behind(t)[N + k - 1].pc, out >> :
                      k \in { j \in 1 .. Len(added) : added[j].op \in {"byte", "label"} } }
<1>1. /\ N \in Nat /\ Len(added) \in Nat /\ Len(t.atoms) = N + Len(added) /\ Len(t.atoms) \in Nat
      /\ \A k \in 1 .. N : t.atoms[k] = s.atoms[k]
      /\ \A k \in 1 .. Len(added) : t.atoms[N + k] = added[k]
  BY ExtendedAtoms
<1>2. \A k \in 0 .. N : Behind(t)[k] = Behind(s)[k]
  BY AddedBehind
<1>3. PlacedIn(s) = Spots(s, 1 .. N) /\ PlacedIn(t) = Spots(t, 1 .. (N + Len(added)))
  <2>1. PlacedIn(s) = Spots(s, 1 .. N)
    BY Zenon DEF PlacedIn
  <2>2. PlacedIn(t) = Spots(t, 1 .. Len(t.atoms))
    <3>1. (~t.unallocated) = out
      BY DEF Extends
    <3>. QED
      BY <3>1, Zenon DEF PlacedIn
  <2>. QED
    BY <1>1, <2>1, <2>2
<1>4. /\ \A k \in 1 .. N : layout(s)[k] = Behind(s)[k - 1].pc
      /\ \A k \in 1 .. (N + Len(added)) : layout(t)[k] = Behind(t)[k - 1].pc
  BY <1>1 DEF layout
<1> HIDE DEF N, out
<1>5. \A k \in 1 .. N : layout(t)[k] = layout(s)[k]
  <2> TAKE k \in 1 .. N
  <2>1. k \in 1 .. (N + Len(added)) /\ k - 1 \in 0 .. N
    BY <1>1
  <2>. QED
    BY <1>2, <1>4, <2>1
<1>6. Spots(t, 1 .. N) = Spots(s, 1 .. N)
  <2>1. \A k \in 1 .. N : << t.atoms[k].op, t.atoms[k].tag, layout(t)[k], out >>
                         = << s.atoms[k].op, s.atoms[k].tag, layout(s)[k], out >>
    BY <1>1, <1>5
  <2>2. { k \in 1 .. N : t.atoms[k].op \in {"byte", "label"} }
          = { k \in 1 .. N : s.atoms[k].op \in {"byte", "label"} }
    BY <1>1
  <2>. QED
    BY <2>1, <2>2
<1>7. Spots(t, (N + 1) .. (N + Len(added))) = New
  <2>1. ASSUME NEW k \in 1 .. Len(added)
        PROVE  N + k \in (N + 1) .. (N + Len(added)) /\ layout(t)[N + k] = Behind(t)[N + k - 1].pc
    <3>1. N + k \in 1 .. (N + Len(added))
      BY <1>1
    <3>. QED
      BY <1>1, <1>4, <3>1
  <2>2. New \subseteq Spots(t, (N + 1) .. (N + Len(added)))
    <3> SUFFICES ASSUME NEW k \in 1 .. Len(added), added[k].op \in {"byte", "label"}
                 PROVE  << added[k].op, added[k].tag, Behind(t)[N + k - 1].pc, out >>
                          \in Spots(t, (N + 1) .. (N + Len(added)))
      OBVIOUS
    <3>1. N + k \in (N + 1) .. (N + Len(added)) /\ t.atoms[N + k] = added[k]
          /\ layout(t)[N + k] = Behind(t)[N + k - 1].pc
      BY <1>1, <2>1
    <3>2. N + k \in { j \in (N + 1) .. (N + Len(added)) : t.atoms[j].op \in {"byte", "label"} }
      BY <3>1
    <3>. QED
      BY <3>1, <3>2
  <2>3. ASSUME NEW j \in (N + 1) .. (N + Len(added)), t.atoms[j].op \in {"byte", "label"}
        PROVE  << t.atoms[j].op, t.atoms[j].tag, layout(t)[j], out >> \in New
    <3>1. j - N \in 1 .. Len(added) /\ N + (j - N) = j
      BY <1>1
    <3>2. t.atoms[j] = added[j - N] /\ layout(t)[j] = Behind(t)[N + (j - N) - 1].pc
      BY <1>1, <2>1, <3>1
    <3>. QED
      BY <2>3, <3>1, <3>2
  <2>. QED
    BY <2>2, <2>3
<1>8. 1 .. (N + Len(added)) = (1 .. N) \cup ((N + 1) .. (N + Len(added)))
  BY <1>1
<1>9. Spots(t, 1 .. (N + Len(added))) = Spots(t, 1 .. N) \cup Spots(t, (N + 1) .. (N + Len(added)))
  BY <1>8
<1>10. New = PlacedMore(t, s, added)
  BY DEF N, out, PlacedMore
<1>. QED
  BY <1>3, <1>6, <1>7, <1>9, <1>10

(* One atom more.                                                          *)
LEMMA AtomPut ==
  ASSUME NEW s, NEW t, NEW atom, Extends(t, s, << atom >>)
  PROVE  /\ IsSeq(t.atoms) /\ Reached(t) = Following(Reached(s), atom)
         /\ PlacedIn(t) = PlacedIn(s) \cup
              (IF atom.op \in {"byte", "label"}
               THEN { << atom.op, atom.tag, Reached(s).pc, ~s.unallocated >> } ELSE {})
         /\ Tags(t) = IF atom.op = "byte" THEN Append(Tags(s), atom.tag) ELSE Tags(s)
<1> DEFINE N == Len(s.atoms)
<1>a. PICK added : added = << atom >>
  OBVIOUS
<1>0. Extends(t, s, added)
  BY <1>a
<1>1. IsSeq(added) /\ Len(added) = 1 /\ added[1] = atom
  <2>1. added \in Seq({atom})
    BY <1>a
  <2>. QED
    BY <1>a, <2>1, SeqIsSeq
<1>2. IsSeq(t.atoms) /\ N \in Nat /\ Len(t.atoms) = N + 1
  <2>1. IsSeq(t.atoms) /\ Len(s.atoms) \in Nat /\ Len(t.atoms) = Len(s.atoms) + Len(added)
    BY <1>0, ExtendedAtoms
  <2>. QED
    BY <1>1, <2>1
<1>3. /\ Behind(t)[N] = Behind(s)[N] /\ Bytes(t.atoms)[N] = Bytes(s.atoms)[N]
      /\ Behind(t)[N + 1] = Following(Behind(t)[N], atom)
      /\ Bytes(t.atoms)[N + 1] = Collected(Bytes(t.atoms)[N], atom)
  <2>1. /\ \A k \in 0 .. N : Behind(t)[k] = Behind(s)[k] /\ Bytes(t.atoms)[k] = Bytes(s.atoms)[k]
        /\ \A k \in 1 .. Len(added) : /\ Behind(t)[N + k] = Following(Behind(t)[(N + k) - 1], added[k])
                             /\ Bytes(t.atoms)[N + k] = Collected(Bytes(t.atoms)[(N + k) - 1], added[k])
    BY <1>0, AddedBehind
  <2>2. 1 \in 1 .. 1 /\ (N + 1) - 1 = N /\ N \in 0 .. N
    BY <1>2
  <2>. QED
    BY <1>1, <2>1, <2>2
<1>4. Reached(t) = Following(Reached(s), atom)
  BY <1>2, <1>3 DEF Reached
<1>5. PlacedIn(t) = PlacedIn(s) \cup
         (IF atom.op \in {"byte", "label"}
          THEN { << atom.op, atom.tag, Reached(s).pc, ~s.unallocated >> } ELSE {})
  <2> DEFINE out == ~s.unallocated
  <2> HIDE DEF N
  <2>a. PlacedIn(t) = PlacedIn(s) \cup PlacedMore(t, s, added)
    BY <1>0, AddedPlaced
  <2>1. PlacedIn(t) = PlacedIn(s) \cup
          { << added[k].op, added[k].tag, Behind(t)[N + k - 1].pc, out >> :
              k \in { j \in 1 .. Len(added) : added[j].op \in {"byte", "label"} } }
    BY <2>a DEF N, PlacedMore
  <2> HIDE DEF out
  <2>2. { j \in 1 .. Len(added) : added[j].op \in {"byte", "label"} }
          = IF atom.op \in {"byte", "label"} THEN {1} ELSE {}
    BY <1>1
  <2>3. N + 1 - 1 = N /\ Behind(t)[N].pc = Reached(s).pc
    BY <1>2, <1>3 DEF Reached, N
  <2>4. { << added[k].op, added[k].tag, Behind(t)[N + k - 1].pc, out >> : k \in {1} }
          = { << atom.op, atom.tag, Reached(s).pc, out >> }
    BY <1>1, <2>3
  <2>. QED
    BY <2>1, <2>2, <2>4 DEF out
<1>6. Tags(t) = IF atom.op = "byte" THEN Append(Tags(s), atom.tag) ELSE Tags(s)
  <2> DEFINE b == Bytes(s.atoms)[N]
             c == Bytes(t.atoms)[N + 1]
  <2>1. c = Collected(b, atom) /\ IsSeq(b)
    BY <1>0, <1>3, BytesAreBytes DEF Extends
  <2>2. Tags(s) = [j \in 1 .. Len(b) |-> b[j].tag] /\ Tags(t) = [j \in 1 .. Len(c) |-> c[j].tag]
    BY <1>2 DEF Tags
  <2> HIDE DEF b, c
  <2>3. CASE atom.op # "byte"
    BY <2>1, <2>2, <2>3 DEF Collected
  <2>4. CASE atom.op = "byte"
    <3> DEFINE B == { b[k] : k \in 1 .. Len(b) } \cup {atom}
               T == { e.tag : e \in B }
    <3>1. b \in Seq(B)
      BY <2>1, SeqMonotonic DEF IsSeq
    <3>2. /\ Len(b) \in Nat /\ \A k \in 1 .. Len(b) : b[k] \in B
      BY <3>1, LenProperties
    <3>3. Tags(s) \in Seq(T) /\ Len(Tags(s)) = Len(b) /\ atom.tag \in T
      <4>1. Tags(s) \in [1 .. Len(b) -> T] /\ atom.tag \in T
        BY <2>2, <3>2
      <4> HIDE DEF T
      <4>. QED
        BY <4>1, <3>2
    <3>4. /\ c = Append(b, atom) /\ Len(c) = Len(b) + 1 /\ c[Len(b) + 1] = atom
          /\ \A k \in 1 .. Len(b) : c[k] = b[k]
      BY <2>1, <2>4, <3>1, AppendProperties DEF Collected
    <3> HIDE DEF B, T
    <3> DEFINE u == Append(Tags(s), atom.tag)
    <3>5. /\ u \in Seq(T) /\ Len(u) = Len(b) + 1 /\ u[Len(b) + 1] = atom.tag
          /\ \A k \in 1 .. Len(b) : u[k] = Tags(s)[k]
      BY <3>3, AppendProperties
    <3> HIDE DEF u
    <3>6. u = [k \in 1 .. (Len(b) + 1) |-> u[k]]
      BY <3>5, LenProperties
    <3>7. \A k \in 1 .. (Len(b) + 1) : u[k] = c[k].tag
      <4> TAKE k \in 1 .. (Len(b) + 1)
      <4>1. CASE k = Len(b) + 1
        BY <3>4, <3>5, <4>1
      <4>2. CASE k # Len(b) + 1
        <5>1. k \in 1 .. Len(b)
          BY <3>2, <4>2
        <5>. QED
          BY <2>2, <3>4, <3>5, <5>1
      <4>. QED
        BY <4>1, <4>2
    <3>8. u = Tags(t)
      BY <2>2, <3>4, <3>6, <3>7
    <3>. QED
      BY <2>4, <3>8 DEF u
  <2>. QED
    BY <2>3, <2>4
<1>. QED
  BY <1>2, <1>4, <1>5, <1>6

(* A run of bytes: the instance of a structure.                            *)
LEMMA BytesPut ==
  ASSUME NEW s, NEW t, NEW added, Extends(t, s, added),
         \A k \in 1 .. Len(added) : added[k].op = "byte",
         Reached(s) \in [pc : Int, shift : Int]
  PROVE  /\ IsSeq(t.atoms)
         /\ Reached(t) = [pc |-> Reached(s).pc + Len(added), shift |-> Reached(s).shift]
         /\ PlacedIn(t) = PlacedIn(s) \cup
              { << "byte", added[k].tag, Reached(s).pc + k - 1, ~s.unallocated >> :
                  k \in 1 .. Len(added) }
<1> DEFINE N == Len(s.atoms)
           M == Len(added)
           p == Reached(s)
           H == { k \in 0 .. M : Behind(t)[N + k] = [pc |-> p.pc + k, shift |-> p.shift] }
<1>1. IsSeq(t.atoms) /\ N \in Nat /\ M \in Nat /\ Len(t.atoms) = N + M
  BY ExtendedAtoms
<1>2. /\ Behind(t)[N] = p
      /\ \A k \in 1 .. M : Behind(t)[N + k] = Following(Behind(t)[(N + k) - 1], added[k])
  <2>1. N \in 0 .. N
    BY <1>1
  <2>2. /\ \A k \in 0 .. N : Behind(t)[k] = Behind(s)[k]
        /\ \A k \in 1 .. M : Behind(t)[N + k] = Following(Behind(t)[(N + k) - 1], added[k])
    BY AddedBehind
  <2>. QED
    BY <2>1, <2>2 DEF Reached
<1>3. p = [pc |-> p.pc, shift |-> p.shift] /\ p.pc \in Int
  OBVIOUS
<1> HIDE DEF N, M, p
<1>4. 0 \in H
  BY <1>1, <1>2, <1>3
<1>5. ASSUME NEW m \in 0 .. (M - 1), m \in H PROVE m + 1 \in H
  <2> HIDE DEF H
  <2>0. \A i \in Int : i + m + 1 = i + (m + 1) /\ (i + (m + 1)) - 1 = i + m
    OBVIOUS
  <2>1. m + 1 \in 1 .. M /\ m + 1 \in 0 .. M
    BY <1>1
  <2>5. (N + (m + 1)) - 1 = N + m
    BY <1>1
  <2>6. p.pc + m + 1 = p.pc + (m + 1)
    BY <1>3, <2>0
  <2> USE DEF H
  <2>2. Behind(t)[N + (m + 1)] = Following([pc |-> p.pc + m, shift |-> p.shift], added[m + 1])
    BY <1>2, <1>5, <2>1, <2>5
  <2>3. added[m + 1].op = "byte"
    BY <2>1 DEF M
  <2>4. Behind(t)[N + (m + 1)] = [pc |-> p.pc + m + 1, shift |-> p.shift]
    BY <2>2, <2>3 DEF Following, SizeOf
  <2>. QED
    BY <2>1, <2>4, <2>6
<1>6. \A m \in 0 .. M : m \in H
  <2>1. \A m \in 0 .. (M - 1) : m \in H => m + 1 \in H
    BY <1>5
  <2> HIDE DEF H
  <2>. QED
    BY <1>1, <1>4, <2>1, StepByStep
<1>7. Reached(t) = [pc |-> p.pc + M, shift |-> p.shift]
  <2>1. M \in 0 .. M
    BY <1>1
  <2>. QED
    BY <1>1, <1>6, <2>1 DEF Reached
<1>8. PlacedIn(t) = PlacedIn(s) \cup
        { << "byte", added[k].tag, p.pc + k - 1, ~s.unallocated >> : k \in 1 .. M }
  <2> DEFINE out == ~s.unallocated
  <2>1. PlacedIn(t) = PlacedIn(s) \cup
          { << added[k].op, added[k].tag, Behind(t)[N + k - 1].pc, out >> :
              k \in { j \in 1 .. M : added[j].op \in {"byte", "label"} } }
    <3>1. PlacedIn(t) = PlacedIn(s) \cup PlacedMore(t, s, added)
      BY AddedPlaced
    <3>. QED
      BY <3>1 DEF PlacedMore, N, M
  <2> HIDE DEF out
  <2>2. { j \in 1 .. M : added[j].op \in {"byte", "label"} } = 1 .. M
    BY DEF M
  <2>3. \A k \in 1 .. M : << added[k].op, added[k].tag, Behind(t)[N + k - 1].pc, out >>
                         = << "byte", added[k].tag, p.pc + k - 1, out >>
    <3> TAKE k \in 1 .. M
    <3>1. k - 1 \in 0 .. M /\ N + (k - 1) = N + k - 1 /\ p.pc + (k - 1) = p.pc + k - 1
      BY <1>1, <1>3
    <3>2. Behind(t)[N + (k - 1)] = [pc |-> p.pc + (k - 1), shift |-> p.shift]
      BY <1>6, <3>1
    <3>3. added[k].op = "byte"
      BY DEF M
    <3>. QED
      BY <3>1, <3>2, <3>3
  <2>. QED
    BY <2>1, <2>2, <2>3 DEF out
<1>. QED
  BY <1>1, <1>7, <1>8 DEF M, p

-----------------------------------------------------------------------------
(* The list of sections.                                                   *)

\* Two sections that are one address space have one name.
LEMMA SpaceName ==
  ASSUME NEW s, SectionOK(s), NEW t, SectionOK(t), SpaceOf(s) = SpaceOf(t)
  PROVE  s.name = t.name /\ s.struct = t.struct
<1>1. /\ s.name = Name(s.name.of, s.name.n) /\ s.name.of \in {"text", "seg", "offset", "user"}
      /\ t.name = Name(t.name.of, t.name.n) /\ t.name.of \in {"text", "seg", "offset", "user"}
      /\ s.name.of = "text" => s.name.n = 0
      /\ t.name.of = "text" => t.name.n = 0
      /\ s.struct \in BOOLEAN /\ t.struct \in BOOLEAN
      /\ s.struct => s.name.of = "user"
      /\ t.struct => t.name.of = "user"
  BY DEF SectionOK
<1>2. /\ SpaceOf(s).op = (IF s.name.of = "text" THEN "text" ELSE IF s.name.of = "seg" THEN "org"
                          ELSE IF s.name.of = "offset" THEN "dsect"
                          ELSE IF s.struct THEN "struct" ELSE "section")
      /\ SpaceOf(s).n = s.name.n
  BY <1>1 DEF SpaceOf, TextSpace, Orged, Dsect, Struct, Named, Space
<1>3. /\ SpaceOf(t).op = (IF t.name.of = "text" THEN "text" ELSE IF t.name.of = "seg" THEN "org"
                          ELSE IF t.name.of = "offset" THEN "dsect"
                          ELSE IF t.struct THEN "struct" ELSE "section")
      /\ SpaceOf(t).n = t.name.n
  BY <1>1 DEF SpaceOf, TextSpace, Orged, Dsect, Struct, Named, Space
<1>4. s.name.of = t.name.of /\ s.name.n = t.name.n /\ s.struct = t.struct
  BY <1>1, <1>2, <1>3
<1>. QED
  BY <1>1, <1>4

\* Section k becomes t, the others stay.
Replaced(after, ss, k, t) ==
  /\ IsSeq(after) /\ k \in DOMAIN ss /\ DOMAIN after = DOMAIN ss
  /\ after[k] = t /\ \A j \in DOMAIN ss : j # k => after[j] = ss[j]

\* The counters, with c for the space.
CountingAt(at, space, c) == [s \in DOMAIN at |-> IF s = space THEN c ELSE at[s]]

\* Section t in the place of s.
Succeeds(t, s, more) ==
  /\ SectionOK(t) /\ t.name = s.name /\ t.struct = s.struct
  /\ PlacedIn(t) = PlacedIn(s) \cup more

\* The fields of structures, when section t goes on.
FieldsWith(after, fields, t) ==
  /\ after = [n \in DOMAIN fields |-> after[n]]
  /\ t.struct => after[t.name.n] = Tags(t)
  /\ \A n \in DOMAIN fields : (t.struct /\ n = t.name.n) \/ after[n] = fields[n]

\* A section that goes on keeps sections and spaces in step, if its counter does.
LEMMA CoversReplaced ==
  ASSUME NEW at, NEW fields, NEW placed, NEW ss, Covers(at, fields, placed, ss),
         NEW after, NEW k, NEW t, Replaced(after, ss, k, t),
         NEW more, Succeeds(t, ss[k], more),
         NEW fieldsAfter, FieldsWith(fieldsAfter, fields, t)
  PROVE  Covers(CountingAt(at, SpaceOf(t), CounterOf(t)), fieldsAfter, placed \cup more, after)
<1>0. /\ SectionOK(t) /\ t.name = ss[k].name /\ t.struct = ss[k].struct
      /\ PlacedIn(t) = PlacedIn(ss[k]) \cup more
      /\ fieldsAfter = [n \in DOMAIN fields |-> fieldsAfter[n]]
      /\ t.struct => fieldsAfter[t.name.n] = Tags(t)
      /\ \A n \in DOMAIN fields : (t.struct /\ n = t.name.n) \/ fieldsAfter[n] = fields[n]
  BY DEF Succeeds, FieldsWith
<1> DEFINE atAfter == CountingAt(at, SpaceOf(t), CounterOf(t))
<1>1. /\ IsSeq(after) /\ k \in DOMAIN ss /\ DOMAIN after = DOMAIN ss
      /\ after[k] = t /\ \A j \in DOMAIN ss : j # k => after[j] = ss[j]
  BY DEF Replaced
<1>2. SpaceOf(t) = SpaceOf(ss[k])
  BY <1>0 DEF SpaceOf
<1>3. /\ \A j \in DOMAIN ss : SectionOK(ss[j])
      /\ \A i, j \in DOMAIN ss : ss[i].name = ss[j].name => i = j
  BY DEF Covers
<1>4. \A j \in DOMAIN ss : /\ SectionOK(after[j]) /\ after[j].name = ss[j].name
                           /\ after[j].struct = ss[j].struct /\ SpaceOf(after[j]) = SpaceOf(ss[j])
  BY <1>0, <1>1, <1>2, <1>3
<1>5. \A j \in DOMAIN ss : SpaceOf(ss[j]) = SpaceOf(t) => j = k
  BY <1>0, <1>1, <1>2, <1>3, SpaceName
<1>6. /\ atAfter = [s \in DOMAIN atAfter |-> atAfter[s]] /\ DOMAIN atAfter = DOMAIN at
      /\ \A s \in DOMAIN at : atAfter[s] = IF s = SpaceOf(t) THEN CounterOf(t) ELSE at[s]
  BY DEF CountingAt
<1> HIDE DEF atAfter
<1>7. DOMAIN atAfter = { SpaceOf(after[j]) : j \in DOMAIN after } \cup {TextSpace}
  BY <1>1, <1>4, <1>6 DEF Covers
<1>8. (\A j \in DOMAIN after : after[j].name # Text) => atAfter[TextSpace] = Counter(0)
  <2> SUFFICES ASSUME \A j \in DOMAIN after : after[j].name # Text
               PROVE  atAfter[TextSpace] = Counter(0)
    OBVIOUS
  <2>1. \A j \in DOMAIN ss : ss[j].name # Text
    BY <1>1, <1>4
  <2>2. at[TextSpace] = Counter(0) /\ TextSpace \in DOMAIN at
    BY <2>1 DEF Covers
  <2>3. SpaceOf(t) # TextSpace
    BY <1>0, <1>1, <1>2, <1>3, <2>1
       DEF SectionOK, SpaceOf, TextSpace, Orged, Dsect, Struct, Named, Space, Text, Name
  <2>. QED
    BY <1>6, <2>2, <2>3
<1>9. \A j \in DOMAIN after : atAfter[SpaceOf(after[j])] = CounterOf(after[j])
  <2> TAKE j \in DOMAIN after
  <2>1. SpaceOf(ss[j]) \in DOMAIN at /\ at[SpaceOf(ss[j])] = CounterOf(ss[j])
    BY <1>1 DEF Covers
  <2>. QED
    BY <1>1, <1>4, <1>5, <1>6, <2>1
<1>10. /\ DOMAIN fieldsAfter = { after[j].name.n : j \in { i \in DOMAIN after : after[i].struct } }
       /\ \A j \in DOMAIN after : after[j].struct => fieldsAfter[after[j].name.n] = Tags(after[j])
  <2>1. DOMAIN fieldsAfter = DOMAIN fields
    BY <1>0
  <2>2. { i \in DOMAIN after : after[i].struct } = { i \in DOMAIN ss : ss[i].struct }
    BY <1>1, <1>4
  <2>3. DOMAIN fields = { ss[j].name.n : j \in { i \in DOMAIN ss : ss[i].struct } }
    BY DEF Covers
  <2>4. { ss[j].name.n : j \in { i \in DOMAIN ss : ss[i].struct } }
          = { after[j].name.n : j \in { i \in DOMAIN ss : ss[i].struct } }
    BY <1>4
  <2>5. ASSUME NEW j \in DOMAIN after, after[j].struct
        PROVE  fieldsAfter[after[j].name.n] = Tags(after[j])
    <3>1. CASE j = k
      BY <1>0, <1>1, <2>5, <3>1
    <3>2. CASE j # k
      <4>1. after[j] = ss[j] /\ ss[j].struct /\ fields[ss[j].name.n] = Tags(ss[j])
        BY <1>1, <2>5, <3>2 DEF Covers
      <4>2. ss[j].name.n \in DOMAIN fields
        BY <1>1, <2>3, <4>1
      <4>3. ~(t.struct /\ ss[j].name.n = t.name.n)
        <5> SUFFICES ASSUME t.struct, ss[j].name.n = t.name.n PROVE FALSE
          OBVIOUS
        <5>1. ss[j].name.of = "user" /\ ss[k].name.of = "user" /\ ss[k].name.n = ss[j].name.n
          BY <1>0, <1>1, <1>3, <4>1 DEF SectionOK
        <5>2. ss[j].name = ss[k].name
          BY <1>1, <1>3, <5>1 DEF SectionOK
        <5>. QED
          BY <1>1, <1>3, <3>2, <5>2
      <4>. QED
        BY <1>0, <4>1, <4>2, <4>3
    <3>. QED
      BY <3>1, <3>2
  <2>. QED
    BY <2>1, <2>2, <2>3, <2>4, <2>5
<1>11. placed \cup more = UNION { PlacedIn(after[j]) : j \in DOMAIN after }
  <2>1. placed = UNION { PlacedIn(ss[j]) : j \in DOMAIN ss }
    BY DEF Covers
  <2>2. \A j \in DOMAIN ss : PlacedIn(after[j]) = PlacedIn(ss[j]) \cup (IF j = k THEN more ELSE {})
    BY <1>0, <1>1
  <2> HIDE DEF PlacedIn
  <2>. QED
    BY <1>1, <2>1, <2>2
<1>12. fieldsAfter = [n \in DOMAIN fieldsAfter |-> fieldsAfter[n]]
  BY <1>0
<1>. QED
  BY <1>1, <1>3, <1>4, <1>6, <1>7, <1>8, <1>9, <1>10, <1>11, <1>12 DEF Covers, atAfter

\* A section without atoms.
Empty(t) == t.atoms = << >> /\ t.in_rorg = FALSE

\* A section without atoms is at its origin and places nothing.
LEMMA EmptySection ==
  ASSUME NEW t, Empty(t)
  PROVE  /\ Reached(t) = [pc |-> t.org, shift |-> 0] /\ CounterOf(t) = Counter(t.org)
         /\ PlacedIn(t) = {} /\ Tags(t) = << >> /\ IsSeq(t.atoms)
<1>1. t.atoms = << >> /\ Len(t.atoms) = 0 /\ t.in_rorg = FALSE
  BY DEF Empty
<1>2. Behind(t)[0] = [pc |-> t.org, shift |-> 0]
  BY <1>1, BehindUnfolds
<1>3. Bytes(t.atoms)[0] = << >>
  BY <1>1, BytesUnfold
<1>4. Reached(t) = [pc |-> t.org, shift |-> 0]
  BY <1>1, <1>2 DEF Reached
<1>5. CounterOf(t) = Counter(t.org)
  <2>1. Reached(t).pc = t.org /\ Reached(t).shift = 0
    BY <1>4
  <2>. QED
    BY <1>1, <2>1, Zenon DEF CounterOf, Counter
<1>6. PlacedIn(t) = {}
  BY <1>1 DEF PlacedIn
<1>7. Tags(t) = << >>
  BY <1>1, <1>3 DEF Tags
<1>8. IsSeq(t.atoms)
  BY <1>1, EmptySeq, SeqIsSeq
<1>. QED
  BY <1>4, <1>5, <1>6, <1>7, <1>8

\* A sequence with one element more.
LEMMA Appended ==
  ASSUME NEW ss, IsSeq(ss), NEW t
  PROVE  /\ IsSeq(Append(ss, t)) /\ DOMAIN Append(ss, t) = DOMAIN ss \cup {Len(ss) + 1}
         /\ Len(ss) \in Nat /\ DOMAIN ss = 1 .. Len(ss) /\ Len(ss) + 1 \notin DOMAIN ss
         /\ Append(ss, t)[Len(ss) + 1] = t /\ \A k \in DOMAIN ss : Append(ss, t)[k] = ss[k]
<1> DEFINE S == { ss[k] : k \in 1 .. Len(ss) } \cup {t}
           after == Append(ss, t)
<1>1. ss \in Seq(S)
  BY SeqMonotonic DEF IsSeq
<1> HIDE DEF S
<1>2. Len(ss) \in Nat /\ DOMAIN ss = 1 .. Len(ss)
  BY <1>1, LenProperties
<1>3. IsSeq(after) /\ Len(after) = Len(ss) + 1
  BY Longer
<1>4. t \in S
  BY DEF S
<1>5. /\ after \in Seq(S) /\ after[Len(ss) + 1] = t
      /\ \A k \in 1 .. Len(ss) : after[k] = ss[k]
  BY <1>1, <1>4, AppendProperties
<1>6. DOMAIN after = 1 .. (Len(ss) + 1)
  BY <1>3, <1>5, LenProperties
<1> HIDE DEF after
<1>7. DOMAIN after = DOMAIN ss \cup {Len(ss) + 1} /\ Len(ss) + 1 \notin DOMAIN ss
  BY <1>2, <1>6
<1>. QED
  BY <1>2, <1>3, <1>5, <1>7 DEF after

\* A space with a counter of its own.
StartingAt(at, space, pc) ==
  [s \in DOMAIN at \cup {space} |-> IF s = space THEN Counter(pc) ELSE at[s]]

\* The fields of structures, when section t is new.
FieldsOf(after, fields, t) ==
  /\ after = [n \in DOMAIN after |-> after[n]]
  /\ DOMAIN after = DOMAIN fields \cup (IF t.struct THEN {t.name.n} ELSE {})
  /\ \A n \in DOMAIN after : after[n] = IF t.struct /\ n = t.name.n THEN << >> ELSE fields[n]

\* A new section keeps sections and spaces in step, as a new space at its origin.
LEMMA CoversAppended ==
  ASSUME NEW at, NEW fields, NEW placed, NEW ss, Covers(at, fields, placed, ss),
         NEW t, SectionOK(t), Empty(t), \A k \in DOMAIN ss : ss[k].name # t.name,
         NEW fieldsAfter, FieldsOf(fieldsAfter, fields, t)
  PROVE  Covers(StartingAt(at, SpaceOf(t), t.org), fieldsAfter, placed, Append(ss, t))
<1> DEFINE after == Append(ss, t)
           atAfter == StartingAt(at, SpaceOf(t), t.org)
           new == Len(ss) + 1
<1>0. /\ fieldsAfter = [n \in DOMAIN fieldsAfter |-> fieldsAfter[n]]
      /\ DOMAIN fieldsAfter = DOMAIN fields \cup (IF t.struct THEN {t.name.n} ELSE {})
      /\ \A n \in DOMAIN fieldsAfter :
            fieldsAfter[n] = IF t.struct /\ n = t.name.n THEN << >> ELSE fields[n]
  BY DEF FieldsOf
<1>1. /\ IsSeq(after) /\ DOMAIN after = DOMAIN ss \cup {new} /\ new \notin DOMAIN ss
      /\ after[new] = t /\ \A k \in DOMAIN ss : after[k] = ss[k]
  <2>1. IsSeq(ss)
    BY DEF Covers
  <2>. QED
    BY <2>1, Appended
<1>2. /\ CounterOf(t) = Counter(t.org) /\ PlacedIn(t) = {} /\ Tags(t) = << >>
  BY EmptySection
<1>3. /\ \A j \in DOMAIN ss : SectionOK(ss[j])
      /\ \A i, j \in DOMAIN ss : ss[i].name = ss[j].name => i = j
      /\ DOMAIN at = { SpaceOf(ss[k]) : k \in DOMAIN ss } \cup {TextSpace}
      /\ (\A k \in DOMAIN ss : ss[k].name # Text) => at[TextSpace] = Counter(0)
      /\ \A k \in DOMAIN ss : at[SpaceOf(ss[k])] = CounterOf(ss[k])
      /\ DOMAIN fields = { ss[k].name.n : k \in { j \in DOMAIN ss : ss[j].struct } }
      /\ \A k \in DOMAIN ss : ss[k].struct => fields[ss[k].name.n] = Tags(ss[k])
      /\ placed = UNION { PlacedIn(ss[k]) : k \in DOMAIN ss }
  BY DEF Covers
<1>4. /\ atAfter = [s \in DOMAIN atAfter |-> atAfter[s]]
      /\ DOMAIN atAfter = DOMAIN at \cup {SpaceOf(t)}
      /\ \A s \in DOMAIN atAfter : atAfter[s] = IF s = SpaceOf(t) THEN Counter(t.org) ELSE at[s]
  BY DEF StartingAt
<1> HIDE DEF after, atAfter, new
<1>5. \A k \in DOMAIN ss : SpaceOf(ss[k]) # SpaceOf(t)
  BY <1>3, SpaceName
<1>6. /\ \A k \in DOMAIN after : SectionOK(after[k])
      /\ \A j, k \in DOMAIN after : after[j].name = after[k].name => j = k
  BY <1>1, <1>3
<1>7. DOMAIN atAfter = { SpaceOf(after[k]) : k \in DOMAIN after } \cup {TextSpace}
  BY <1>1, <1>3, <1>4
<1>8. (\A k \in DOMAIN after : after[k].name # Text) => atAfter[TextSpace] = Counter(0)
  <2> SUFFICES ASSUME \A k \in DOMAIN after : after[k].name # Text
               PROVE  atAfter[TextSpace] = Counter(0)
    OBVIOUS
  <2>1. t.name # Text /\ \A k \in DOMAIN ss : ss[k].name # Text
    BY <1>1
  <2>2. SpaceOf(t) # TextSpace
    BY <2>1 DEF SectionOK, SpaceOf, TextSpace, Orged, Dsect, Struct, Named, Space, Text, Name
  <2>3. TextSpace \in DOMAIN atAfter
    BY <1>3, <1>4
  <2>. QED
    BY <1>3, <1>4, <2>1, <2>2, <2>3
<1>9. \A k \in DOMAIN after : atAfter[SpaceOf(after[k])] = CounterOf(after[k])
  <2> TAKE k \in DOMAIN after
  <2>1. SpaceOf(after[k]) \in DOMAIN atAfter
    BY <1>7
  <2>. QED
    BY <1>1, <1>2, <1>3, <1>4, <1>5, <2>1
<1>10. /\ DOMAIN fieldsAfter = { after[k].name.n : k \in { j \in DOMAIN after : after[j].struct } }
       /\ \A k \in DOMAIN after : after[k].struct => fieldsAfter[after[k].name.n] = Tags(after[k])
  <2>1. { j \in DOMAIN after : after[j].struct }
          = { j \in DOMAIN ss : ss[j].struct } \cup (IF t.struct THEN {new} ELSE {})
    BY <1>1
  <2>2. DOMAIN fieldsAfter = { after[k].name.n : k \in { j \in DOMAIN after : after[j].struct } }
    BY <1>0, <1>1, <1>3, <2>1
  <2>3. ASSUME NEW k \in DOMAIN after, after[k].struct
        PROVE  fieldsAfter[after[k].name.n] = Tags(after[k])
    <3>1. after[k].name.n \in DOMAIN fieldsAfter
      BY <2>2, <2>3
    <3>2. CASE k = new
      BY <1>0, <1>1, <1>2, <2>3, <3>1, <3>2
    <3>3. CASE k \in DOMAIN ss
      <4>1. after[k] = ss[k] /\ ss[k].struct /\ fields[ss[k].name.n] = Tags(ss[k])
        BY <1>1, <1>3, <2>3, <3>3
      <4>2. ~(t.struct /\ ss[k].name.n = t.name.n)
        <5> SUFFICES ASSUME t.struct, ss[k].name.n = t.name.n PROVE FALSE
          OBVIOUS
        <5>1. ss[k].name.of = "user" /\ t.name.of = "user"
          BY <1>3, <3>3, <4>1 DEF SectionOK
        <5>2. ss[k].name = t.name
          BY <1>3, <3>3, <5>1 DEF SectionOK
        <5>. QED
          BY <3>3, <5>2
      <4>. QED
        BY <1>0, <3>1, <4>1, <4>2
    <3>. QED
      BY <1>1, <3>2, <3>3
  <2>. QED
    BY <2>2, <2>3
<1>11. placed = UNION { PlacedIn(after[k]) : k \in DOMAIN after }
  <2> HIDE DEF PlacedIn
  <2>. QED
    BY <1>1, <1>2, <1>3
<1>. QED
  BY <1>0, <1>1, <1>4, <1>6, <1>7, <1>8, <1>9, <1>10, <1>11 DEF Covers, after, atAfter

-----------------------------------------------------------------------------
(* What the directives do to the section they are in.                      *)

\* Section s with more atoms.
Changed(t, s, added) ==
  /\ Extends(t, s, added)
  /\ DOMAIN t = DOMAIN s /\ t.name = s.name /\ t.struct = s.struct
  /\ t.labels_are_local \in BOOLEAN /\ t.in_rorg \in BOOLEAN

\* A section stays well formed when its pc is still what its atoms reach.
LEMMA ChangedOK ==
  ASSUME NEW s, SectionOK(s), NEW t, NEW added, Changed(t, s, added), IsSeq(t.atoms),
         Reached(t) \in [pc : Int, shift : Int], t.pc = Reached(t).pc + Reached(t).shift,
         ~t.in_rorg => Reached(t).shift = 0
  PROVE  SectionOK(t)
<1>1. SpaceOf(t) = SpaceOf(s)
  BY DEF Changed, SpaceOf
<1>. QED
  BY <1>1 DEF Changed, Extends, SectionOK

\* A byte or label goes where the counter is.
LEMMA PutPlain ==
  ASSUME NEW s, SectionOK(s), NEW t, NEW atom, Changed(t, s, << atom >>),
         atom.op \in {"byte", "label"},
         t.in_rorg = s.in_rorg, t.pc = s.pc + SizeOf(atom)
  PROVE  /\ SectionOK(t) /\ CounterOf(t) = [CounterOf(s) EXCEPT !.pc = @ + SizeOf(atom)]
         /\ PlacedIn(t) = PlacedIn(s) \cup
              { << atom.op, atom.tag, CounterOf(s).pc, ~SpaceOf(s).dummy >> }
         /\ Tags(t) = IF atom.op = "byte" THEN Append(Tags(s), atom.tag) ELSE Tags(s)
<1>1. Extends(t, s, << atom >>)
  BY DEF Changed
<1>2. /\ IsSeq(t.atoms) /\ Reached(t) = Following(Reached(s), atom)
      /\ PlacedIn(t) = PlacedIn(s) \cup
           (IF atom.op \in {"byte", "label"}
            THEN { << atom.op, atom.tag, Reached(s).pc, ~s.unallocated >> } ELSE {})
      /\ Tags(t) = IF atom.op = "byte" THEN Append(Tags(s), atom.tag) ELSE Tags(s)
  BY <1>1, AtomPut
<1>3. /\ Reached(s) \in [pc : Int, shift : Int] /\ s.pc = Reached(s).pc + Reached(s).shift
      /\ ~s.in_rorg => Reached(s).shift = 0
      /\ s.unallocated = SpaceOf(s).dummy
  BY DEF SectionOK
<1>4. PICK p : p = Reached(s)
  OBVIOUS
<1>5. SizeOf(atom) \in Int
  BY DEF SizeOf
<1>6. Following(p, atom) = [p EXCEPT !.pc = @ + SizeOf(atom)]
  BY DEF Following
<1>7. /\ Reached(t) \in [pc : Int, shift : Int]
      /\ Reached(t).pc = p.pc + SizeOf(atom) /\ Reached(t).shift = p.shift
  BY <1>2, <1>3, <1>4, <1>5, <1>6
<1>8. t.pc = Reached(t).pc + Reached(t).shift
  BY <1>3, <1>4, <1>5, <1>7
<1>9. ~t.in_rorg => Reached(t).shift = 0
  BY <1>3, <1>4, <1>7
<1>10. SectionOK(t)
  BY <1>2, <1>7, <1>8, <1>9, ChangedOK
<1>11. CounterOf(t) = [CounterOf(s) EXCEPT !.pc = @ + SizeOf(atom)]
  <2>1. PICK r : r = s.in_rorg
    OBVIOUS
  <2>2. /\ CounterOf(s) = [pc |-> p.pc, away |-> p.shift, relocated |-> r]
        /\ CounterOf(t) = [pc |-> p.pc + SizeOf(atom), away |-> p.shift, relocated |-> r]
    BY <1>4, <1>7, <2>1, Zenon DEF CounterOf
  <2>. QED
    BY <2>2
<1>12. CounterOf(s).pc = Reached(s).pc
  BY DEF CounterOf
<1>13. (~s.unallocated) = ~SpaceOf(s).dummy
  BY <1>3
<1>14. PlacedIn(t) = PlacedIn(s) \cup { << atom.op, atom.tag, CounterOf(s).pc, ~SpaceOf(s).dummy >> }
  BY <1>2, <1>12, <1>13, Zenon
<1>. QED
  BY <1>2, <1>10, <1>11, <1>14

\* The end of a relocated block takes the counter back.
LEMMA PutBack ==
  ASSUME NEW s, SectionOK(s), NEW t, Changed(t, s, << RorgEnd >>),
         t.in_rorg = FALSE, t.pc = s.pc
  PROVE  /\ SectionOK(t) /\ CounterOf(t) = Back(CounterOf(s))
         /\ PlacedIn(t) = PlacedIn(s) \cup {} /\ Tags(t) = Tags(s)
<1>1. Extends(t, s, << RorgEnd >>)
  BY DEF Changed
<1>0. RorgEnd.op = "rorgend"
  BY DEF RorgEnd, Atom
<1>2. /\ IsSeq(t.atoms) /\ Reached(t) = Following(Reached(s), RorgEnd)
      /\ PlacedIn(t) = PlacedIn(s) \cup {}
      /\ Tags(t) = Tags(s)
  BY <1>0, <1>1, AtomPut
<1>3. /\ Reached(s) \in [pc : Int, shift : Int] /\ s.pc = Reached(s).pc + Reached(s).shift
  BY DEF SectionOK
<1>4. PICK p : p = Reached(s)
  OBVIOUS
<1>6. Reached(t) = [pc |-> p.pc + p.shift, shift |-> 0]
  BY <1>0, <1>2, <1>4 DEF Following
<1>7. /\ Reached(t) \in [pc : Int, shift : Int] /\ t.pc = Reached(t).pc + Reached(t).shift
      /\ Reached(t).pc = p.pc + p.shift /\ Reached(t).shift = 0
  BY <1>3, <1>4, <1>6
<1>10. SectionOK(t)
  BY <1>2, <1>7, ChangedOK
<1>11. CounterOf(t) = Back(CounterOf(s))
  BY <1>4, <1>7, Zenon DEF CounterOf, Back, Counter
<1>. QED
  BY <1>2, <1>10, <1>11

\* The start of a relocated block sets the counter and keeps the way back.
LEMMA PutRorg ==
  ASSUME NEW s, SectionOK(s), s.in_rorg = FALSE, NEW a \in Int, NEW t, Changed(t, s, << Rorg(a) >>),
         t.in_rorg = TRUE, t.pc = s.pc
  PROVE  /\ SectionOK(t) /\ CounterOf(t) = Relocated(CounterOf(s), a)
         /\ PlacedIn(t) = PlacedIn(s) \cup {} /\ Tags(t) = Tags(s)
<1>1. Extends(t, s, << Rorg(a) >>)
  BY DEF Changed
<1>0. Rorg(a).op = "rorg" /\ Rorg(a).tag = a
  BY DEF Rorg, Atom
<1>2. /\ IsSeq(t.atoms) /\ Reached(t) = Following(Reached(s), Rorg(a))
      /\ PlacedIn(t) = PlacedIn(s) \cup {}
      /\ Tags(t) = Tags(s)
  BY <1>0, <1>1, AtomPut
<1>3. /\ Reached(s) \in [pc : Int, shift : Int] /\ s.pc = Reached(s).pc + Reached(s).shift
      /\ Reached(s).shift = 0
  BY DEF SectionOK
<1>4. PICK p : p = Reached(s)
  OBVIOUS
<1>6. Reached(t) = [pc |-> a, shift |-> p.pc - a]
  BY <1>0, <1>2, <1>4 DEF Following
<1>7. /\ Reached(t) \in [pc : Int, shift : Int] /\ t.pc = Reached(t).pc + Reached(t).shift
      /\ Reached(t).pc = a /\ Reached(t).shift = (p.pc + p.shift) - a
  BY <1>3, <1>4, <1>6
<1>10. SectionOK(t)
  BY <1>2, <1>7, ChangedOK
<1>11. CounterOf(t) = Relocated(CounterOf(s), a)
  <2>1. CounterOf(s).pc = p.pc /\ CounterOf(s).away = p.shift
    BY <1>4 DEF CounterOf
  <2>2. Back(CounterOf(s)).pc = p.pc + p.shift
    BY <2>1 DEF Back, Counter
  <2>. QED
    BY <1>7, <2>2, Zenon DEF CounterOf, Relocated
<1>. QED
  BY <1>2, <1>10, <1>11

\* Bytes go where the counter is, one behind the other.
LEMMA PutBytes ==
  ASSUME NEW s, SectionOK(s), NEW t, NEW added, Changed(t, s, added),
         \A k \in 1 .. Len(added) : added[k].op = "byte",
         t.in_rorg = s.in_rorg, t.pc = s.pc + Len(added)
  PROVE  /\ SectionOK(t) /\ CounterOf(t) = [CounterOf(s) EXCEPT !.pc = @ + Len(added)]
         /\ PlacedIn(t) = PlacedIn(s) \cup
              { << "byte", added[k].tag, CounterOf(s).pc + k - 1, ~SpaceOf(s).dummy >> :
                  k \in 1 .. Len(added) }
<1>1. Extends(t, s, added)
  BY DEF Changed
<1>3. /\ Reached(s) \in [pc : Int, shift : Int] /\ s.pc = Reached(s).pc + Reached(s).shift
      /\ ~s.in_rorg => Reached(s).shift = 0
      /\ s.unallocated = SpaceOf(s).dummy
  BY DEF SectionOK
<1>2. /\ IsSeq(t.atoms)
      /\ Reached(t) = [pc |-> Reached(s).pc + Len(added), shift |-> Reached(s).shift]
      /\ PlacedIn(t) = PlacedIn(s) \cup
           { << "byte", added[k].tag, Reached(s).pc + k - 1, ~s.unallocated >> :
               k \in 1 .. Len(added) }
  BY <1>1, <1>3, BytesPut
<1>4. PICK p : p = Reached(s)
  OBVIOUS
<1>5. Len(added) \in Nat
  BY <1>1, ExtendedAtoms
<1>7. /\ Reached(t) \in [pc : Int, shift : Int]
      /\ Reached(t).pc = p.pc + Len(added) /\ Reached(t).shift = p.shift
  BY <1>2, <1>3, <1>4, <1>5
<1>8. t.pc = Reached(t).pc + Reached(t).shift
  BY <1>3, <1>4, <1>5, <1>7
<1>9. ~t.in_rorg => Reached(t).shift = 0
  BY <1>3, <1>4, <1>7
<1>10. SectionOK(t)
  BY <1>2, <1>7, <1>8, <1>9, ChangedOK
<1>11. CounterOf(t) = [CounterOf(s) EXCEPT !.pc = @ + Len(added)]
  <2>1. PICK r : r = s.in_rorg
    OBVIOUS
  <2>2. /\ CounterOf(s) = [pc |-> p.pc, away |-> p.shift, relocated |-> r]
        /\ CounterOf(t) = [pc |-> p.pc + Len(added), away |-> p.shift, relocated |-> r]
    BY <1>4, <1>7, <2>1, Zenon DEF CounterOf
  <2>. QED
    BY <2>2
<1>12. CounterOf(s).pc = Reached(s).pc
  BY DEF CounterOf
<1>13. (~s.unallocated) = ~SpaceOf(s).dummy
  BY <1>3
<1>14. PlacedIn(t) = PlacedIn(s) \cup
         { << "byte", added[k].tag, CounterOf(s).pc + k - 1, ~SpaceOf(s).dummy >> :
             k \in 1 .. Len(added) }
  BY <1>2, <1>12, <1>13, Zenon
<1>. QED
  BY <1>10, <1>11, <1>14

\* The bytes among the atoms.
Sized(atoms) == Cardinality({ j \in 1 .. Len(atoms) : SizeOf(atoms[j]) = 1 })

\* The size of one atom.
LEMMA SizedOne ==
  ASSUME NEW atom
  PROVE  IsSeq(<< atom >>) /\ Sized(<< atom >>) = SizeOf(atom) /\ SizeOf(atom) \in Int
<1>1. << atom >> \in Seq({atom}) /\ Len(<< atom >>) = 1 /\ << atom >>[1] = atom
  OBVIOUS
<1>2. IsSeq(<< atom >>)
  BY <1>1, SeqIsSeq
<1> DEFINE S == { j \in 1 .. Len(<< atom >>) : SizeOf(<< atom >>[j]) = 1 }
<1>3. SizeOf(atom) \in {0, 1}
  BY DEF SizeOf
<1>4. S = IF SizeOf(atom) = 1 THEN {1} ELSE {}
  BY <1>1
<1> HIDE DEF S
<1>5. Cardinality({1}) = 1 /\ Cardinality({}) = 0
  BY FS_Singleton, FS_EmptySet
<1>6. Cardinality(S) = SizeOf(atom)
  BY <1>3, <1>4, <1>5
<1>. QED
  BY <1>2, <1>3, <1>6 DEF Sized, S

\* The size of bytes is their number.
LEMMA SizedBytes ==
  ASSUME NEW atoms, IsSeq(atoms), \A k \in 1 .. Len(atoms) : atoms[k].op = "byte"
  PROVE  Sized(atoms) = Len(atoms)
<1>1. Len(atoms) \in Nat
  BY SeqIsSeq DEF IsSeq
<1>2. { j \in 1 .. Len(atoms) : SizeOf(atoms[j]) = 1 } = 1 .. Len(atoms)
  BY DEF SizeOf
<1>3. ASSUME NEW n \in Nat PROVE Cardinality(1 .. n) = n
  BY FS_Interval
<1>. QED
  BY <1>1, <1>2, <1>3 DEF Sized

\* AddAtoms() changes one section, and its pc by the size of what is added.
LEMMA Added ==
  ASSUME NEW ss, IsSeq(ss), NEW k \in DOMAIN ss, SectionOK(ss[k]), NEW atoms, IsSeq(atoms)
  PROVE  /\ Replaced(AddAtoms(ss, k, atoms), ss, k, AddAtoms(ss, k, atoms)[k])
         /\ Changed(AddAtoms(ss, k, atoms)[k], ss[k], atoms)
         /\ AddAtoms(ss, k, atoms)[k].in_rorg = ss[k].in_rorg
         /\ AddAtoms(ss, k, atoms)[k].labels_are_local = ss[k].labels_are_local
         /\ AddAtoms(ss, k, atoms)[k].pc = ss[k].pc + Sized(atoms)
<1> DEFINE after == AddAtoms(ss, k, atoms)
           t == [ss[k] EXCEPT !.atoms = @ \o atoms, !.pc = @ + Sized(atoms)]
<1>1. after = [ss EXCEPT ![k] = t]
  BY DEF AddAtoms, Sized
<1>2. /\ DOMAIN ss[k] = {"name", "org", "pc", "unallocated", "absolute", "prevabs", "in_rorg",
                         "labels_are_local", "struct", "atoms"}
      /\ IsSeq(ss[k].atoms) /\ ss[k].labels_are_local \in BOOLEAN /\ ss[k].in_rorg \in BOOLEAN
  BY DEF SectionOK
<1>3. /\ DOMAIN t = DOMAIN ss[k] /\ t.name = ss[k].name /\ t.struct = ss[k].struct
      /\ t.org = ss[k].org /\ t.unallocated = ss[k].unallocated
      /\ t.atoms = ss[k].atoms \o atoms /\ t.pc = ss[k].pc + Sized(atoms)
      /\ t.in_rorg = ss[k].in_rorg /\ t.labels_are_local = ss[k].labels_are_local
  BY <1>2
<1>4. IsSeq(after)
  BY AtomsAdded
<1> HIDE DEF after, t
<1>5. after[k] = t /\ DOMAIN after = DOMAIN ss /\ \A j \in DOMAIN ss : j # k => after[j] = ss[j]
  BY <1>1
<1>6. Replaced(after, ss, k, t)
  BY <1>4, <1>5 DEF Replaced
<1>7. Changed(t, ss[k], atoms)
  BY <1>2, <1>3 DEF Changed, Extends
<1>. QED
  BY <1>3, <1>5, <1>6, <1>7 DEF after

\* Every section is still there, as what it was.
Grows(after, ss) ==
  \A k \in DOMAIN ss : /\ k \in DOMAIN after
                       /\ after[k].name = ss[k].name /\ after[k].struct = ss[k].struct

\* A section that stood for a space still does.
LEMMA GrownMeans ==
  ASSUME NEW ss, NEW after, Grows(after, ss), NEW k, NEW space, Means(k, space, ss)
  PROVE  Means(k, space, after)
BY DEF Grows, Means, SpaceOf

\* What is known of all sections is still known when one of them goes on.
LEMMA ReplacedKeeps ==
  ASSUME NEW ss, NEW k, NEW t, NEW after, Replaced(after, ss, k, t),
         t.name = ss[k].name, t.struct = ss[k].struct
  PROVE  /\ Grows(after, ss)
         /\ \A latest : Offsets(ss, latest) => Offsets(after, latest)
         /\ \A declared : Locals(ss, declared) /\ t.labels_are_local = ss[k].labels_are_local
                            => Locals(after, declared)
<1>1. \A j \in DOMAIN ss : after[j].name = ss[j].name /\ after[j].struct = ss[j].struct
  BY DEF Replaced
<1>2. DOMAIN after = DOMAIN ss
  BY DEF Replaced
<1>3. ASSUME NEW declared, Locals(ss, declared), t.labels_are_local = ss[k].labels_are_local
      PROVE  Locals(after, declared)
  <2>1. \A j \in DOMAIN ss : after[j].labels_are_local = ss[j].labels_are_local
    BY <1>3 DEF Replaced
  <2>. QED
    BY <1>1, <1>2, <1>3, <2>1 DEF Locals
<1>. QED
  BY <1>1, <1>2, <1>3 DEF Grows, Offsets

\* What is known of all sections is still known when there is one more.
LEMMA AppendedKeeps ==
  ASSUME NEW ss, IsSeq(ss), NEW t
  PROVE  /\ Grows(Append(ss, t), ss)
         /\ \A latest : Offsets(ss, latest) /\ t.name.of # "offset"
                           => Offsets(Append(ss, t), latest)
         /\ \A declared : Locals(ss, declared) /\ t.labels_are_local = FALSE
                             => Locals(Append(ss, t), declared)
<1> DEFINE after == Append(ss, t)
           new == Len(ss) + 1
<1>1. /\ DOMAIN after = DOMAIN ss \cup {new} /\ new \notin DOMAIN ss
      /\ after[new] = t /\ \A k \in DOMAIN ss : after[k] = ss[k]
  BY Appended
<1> HIDE DEF after, new
<1>2. Grows(after, ss)
  BY <1>1 DEF Grows
<1>3. ASSUME NEW latest, Offsets(ss, latest), t.name.of # "offset"
      PROVE  Offsets(after, latest)
  BY <1>1, <1>3 DEF Offsets
<1>4. ASSUME NEW declared, Locals(ss, declared), t.labels_are_local = FALSE
      PROVE  Locals(after, declared)
  <2>1. declared # NULL => declared \in DOMAIN after /\ after[declared].struct /\ new # declared
    BY <1>1, <1>4 DEF Locals
  <2>2. ASSUME NEW k \in DOMAIN after
        PROVE  after[k].labels_are_local <=> declared # NULL /\ k = declared
    <3>1. CASE k = new
      BY <1>1, <1>4, <2>1, <3>1
    <3>2. CASE k \in DOMAIN ss
      BY <1>1, <1>4, <3>2 DEF Locals
    <3>. QED
      BY <1>1, <3>1, <3>2
  <2>. QED
    BY <2>1, <2>2 DEF Locals
<1>. QED
  BY <1>2, <1>3, <1>4 DEF after

-----------------------------------------------------------------------------
(* Sections are found by their names, which are unique.                    *)
Unique(ss) == \A j, k \in DOMAIN ss : ss[j].name = ss[k].name => j = k

\* As new_section() makes it.
Blank(name) ==
  [name |-> name, org |-> 0, pc |-> 0, unallocated |-> FALSE, absolute |-> FALSE,
   prevabs |-> FALSE, in_rorg |-> FALSE, labels_are_local |-> FALSE, struct |-> FALSE,
   atoms |-> << >>]

\* A section is found by its name and not made again.
LEMMA Found ==
  ASSUME NEW ss, IsSeq(ss), Unique(ss), NEW k \in DOMAIN ss
  PROVE  find_section(ss, ss[k].name) = k /\ new_section(ss, ss[k].name) = ss
<1>1. find_section(ss, ss[k].name) = k
  BY DEF find_section, Unique
<1>2. DOMAIN ss = 1 .. Len(ss) /\ Len(ss) \in Nat
  BY LenProperties DEF IsSeq
<1>3. k # NULL
  BY <1>2 DEF NULL
<1>. QED
  BY <1>1, <1>3 DEF new_section

\* A name not used yet makes a section at the end of the list.
LEMMA Created ==
  ASSUME NEW ss, IsSeq(ss), NEW name, \A k \in DOMAIN ss : ss[k].name # name
  PROVE  new_section(ss, name) = Append(ss, Blank(name))
<1>1. find_section(ss, name) = NULL
  BY DEF find_section
<1>. QED
  BY <1>1 DEF new_section, Blank

\* The section that was made last is found by its name.
LEMMA FoundLast ==
  ASSUME NEW ss, IsSeq(ss), NEW name, \A k \in DOMAIN ss : ss[k].name # name,
         NEW t, t.name = name
  PROVE  find_section(Append(ss, t), name) = Len(ss) + 1
<1> DEFINE after == Append(ss, t)
           new == Len(ss) + 1
<1>1. /\ DOMAIN after = DOMAIN ss \cup {new} /\ new \notin DOMAIN ss
      /\ after[new] = t /\ \A k \in DOMAIN ss : after[k] = ss[k]
  BY Appended
<1> HIDE DEF after, new
<1>2. \A k \in DOMAIN after : after[k].name = name <=> k = new
  BY <1>1
<1>3. (CHOOSE k \in DOMAIN after : after[k].name = name) = new
  BY <1>1, <1>2
<1>. QED
  BY <1>1, <1>2, <1>3 DEF find_section, after, new

\* A section that is made and then changed is made as it will be.
LEMMA AppendedChanged ==
  ASSUME NEW ss, IsSeq(ss), NEW b, NEW t
  PROVE  [Append(ss, b) EXCEPT ![Len(ss) + 1] = t] = Append(ss, t)
<1> DEFINE new == Len(ss) + 1
           B == Append(ss, b)
           T == Append(ss, t)
<1>1. /\ DOMAIN B = DOMAIN ss \cup {new} /\ new \notin DOMAIN ss
      /\ B[new] = b /\ \A k \in DOMAIN ss : B[k] = ss[k]
  BY Appended
<1>2. /\ DOMAIN T = DOMAIN ss \cup {new} /\ IsSeq(T)
      /\ T[new] = t /\ \A k \in DOMAIN ss : T[k] = ss[k]
  BY Appended
<1> HIDE DEF B, T, new
<1>3. T = [k \in DOMAIN T |-> T[k]]
  BY <1>2 DEF IsSeq
<1>4. [B EXCEPT ![new] = t] = [k \in DOMAIN B |-> IF k = new THEN t ELSE B[k]]
  OBVIOUS
<1>5. \A k \in DOMAIN T : T[k] = IF k = new THEN t ELSE B[k]
  BY <1>1, <1>2
<1>. QED
  BY <1>1, <1>2, <1>3, <1>4, <1>5 DEF B, T, new

\* A new section is well formed.
LEMMA NewOK ==
  ASSUME NEW t, Empty(t), t.pc = t.org, t.org \in Int,
         DOMAIN t = {"name", "org", "pc", "unallocated", "absolute", "prevabs", "in_rorg",
                     "labels_are_local", "struct", "atoms"},
         t.name = Name(t.name.of, t.name.n), t.name.of \in {"text", "seg", "offset", "user"},
         t.name.of = "text" => t.name.n = 0,
         t.struct \in BOOLEAN, t.labels_are_local \in BOOLEAN,
         t.struct => t.name.of = "user",
         t.unallocated = SpaceOf(t).dummy
  PROVE  SectionOK(t)
<1>1. Reached(t) = [pc |-> t.org, shift |-> 0] /\ IsSeq(t.atoms)
  BY EmptySection
<1>2. Reached(t) \in [pc : Int, shift : Int] /\ Reached(t).pc = t.org /\ Reached(t).shift = 0
  BY <1>1
<1>3. t.in_rorg = FALSE
  BY DEF Empty
<1>4. t.in_rorg \in BOOLEAN
  BY <1>3
<1>5. t.pc = Reached(t).pc + Reached(t).shift
  BY <1>2
<1>. QED
  BY <1>1, <1>2, <1>4, <1>5, Zenon DEF SectionOK

-----------------------------------------------------------------------------
(* The section the next atom goes to.                                      *)
Stands(w, ss, k) ==
  /\ Covers(w.at, w.fields, w.placed, ss) /\ k \in DOMAIN ss /\ SpaceOf(ss[k]) = w.here
  /\ Locals(ss, cur_struct) /\ Offsets(ss, offset_id) /\ Grows(ss, sects)
  /\ w.here.op = "struct" <=> cur_struct # NULL /\ k = cur_struct

\* NULL is not a section.
LEMMA NullIsNone ==
  ASSUME NEW ss, IsSeq(ss)
  PROVE  NULL \notin DOMAIN ss /\ DOMAIN ss = 1 .. Len(ss) /\ Len(ss) \in Nat
BY LenProperties DEF IsSeq, NULL

\* Within the space of a structure the current section is that structure.
LEMMA InStruct ==
  ASSUME NEW w, Sim(w), w.here.op = "struct"
  PROVE  cur_struct # NULL /\ current_section = cur_struct
<1>1. w.inside # << >> /\ Len(w.inside) \in Nat
  BY SeqIsSeq DEF Sim, InBlocks, IsSeq, Plain
<1>2. /\ IsSeq(w.inside)
      /\ Len(w.inside) = 0 => Plain(w.here)
      /\ Len(w.inside) > 0 => w.here.op = w.inside[Len(w.inside)].op
  BY DEF Sim, InBlocks
<1>3. ~Plain(w.here)
  BY DEF Plain
<1>4. DOMAIN w.inside = 1 .. Len(w.inside)
  BY <1>2, NullIsNone
<1>5. Len(w.inside) > 0 /\ Len(w.inside) \in DOMAIN w.inside
  BY <1>1, <1>2, <1>3, <1>4
<1>6. w.inside[Len(w.inside)].op = "struct"
  BY <1>2, <1>5
<1>7. Within(w, "struct")
  BY <1>5, <1>6 DEF Within
<1>. QED
  BY <1>7 DEF Sim, Returns

\* The section of the next atom stands for the space that is in force, whether it exists
\* already or is made for this atom.
LEMMA DefaultStands ==
  ASSUME NEW w, Sim(w)
  PROVE  Stands(w, default_section, Default)
<1>1. /\ Covers(w.at, w.fields, w.placed, sects)
      /\ Locals(sects, cur_struct) /\ Offsets(sects, offset_id)
      /\ Means(current_section, w.here, sects)
  BY DEF Sim
<1>2. /\ IsSeq(sects) /\ Unique(sects) /\ NULL \notin DOMAIN sects
  BY <1>1, NullIsNone DEF Covers, Unique
<1>3. TextSpace.op = "text"
  BY DEF TextSpace, Space
<1>4. CASE current_section # NULL
  <2>1. default_section = sects /\ Default = current_section
    BY <1>4 DEF default_section, Default
  <2>2. current_section \in DOMAIN sects /\ SpaceOf(sects[current_section]) = w.here
    BY <1>1, <1>4 DEF Means
  <2>3. Grows(sects, sects)
    BY DEF Grows
  <2>4. w.here.op = "struct" => cur_struct # NULL /\ current_section = cur_struct
    BY InStruct
  <2>5. ASSUME cur_struct # NULL, current_section = cur_struct PROVE w.here.op = "struct"
    <3>1. sects[current_section].struct /\ SectionOK(sects[current_section])
      BY <1>1, <2>2, <2>5 DEF Locals, Covers
    <3>2. SpaceOf(sects[current_section]).op = "struct"
      BY <3>1 DEF SectionOK, SpaceOf, Struct, Space
    <3>. QED
      BY <2>2, <3>2
  <2>. QED
    BY <1>1, <2>1, <2>2, <2>3, <2>4, <2>5 DEF Stands
<1>5. CASE current_section = NULL
  <2>0. w.here = TextSpace
    BY <1>1, <1>2, <1>5 DEF Means
  <2>1. w.here.op # "struct"
    BY <1>3, <2>0
  <2>2. CASE \E k \in DOMAIN sects : sects[k].name = Text
    <3>1. PICK k \in DOMAIN sects : sects[k].name = Text
      BY <2>2
    <3>2. default_section = sects /\ Default = k
      BY <1>2, <1>5, <3>1, Found DEF default_section, Default
    <3>3. SpaceOf(sects[k]) = TextSpace
      BY <3>1 DEF SpaceOf, Text, Name
    <3>4. Grows(sects, sects)
      BY DEF Grows
    <3>5. SectionOK(sects[k]) /\ ~sects[k].struct
      BY <1>1, <3>1 DEF Covers, SectionOK, Text, Name
    <3>6. ~(cur_struct # NULL /\ k = cur_struct)
      BY <1>1, <3>5 DEF Locals
    <3>. QED
      BY <1>1, <2>0, <2>1, <3>1, <3>2, <3>3, <3>4, <3>6 DEF Stands
  <2>3. CASE \A k \in DOMAIN sects : sects[k].name # Text
    <3> DEFINE t == Blank(Text)
    <3>1. /\ t.name = Text /\ Empty(t) /\ t.org = 0 /\ t.pc = 0 /\ t.struct = FALSE
          /\ t.labels_are_local = FALSE /\ t.unallocated = FALSE
          /\ DOMAIN t = {"name", "org", "pc", "unallocated", "absolute", "prevabs", "in_rorg",
                         "labels_are_local", "struct", "atoms"}
          /\ Text = Name("text", 0) /\ Text.of = "text" /\ Text.n = 0
      BY DEF Blank, Empty, Text, Name
    <3>a. default_section = Append(sects, t) /\ Default = Len(sects) + 1
      <4>1. default_section = Append(sects, t)
        BY <1>2, <1>5, <2>3, Created DEF default_section
      <4>. QED
        BY <1>2, <1>5, <2>3, <3>1, <4>1, FoundLast DEF Default
    <3> HIDE DEF t
    <3>2. SpaceOf(t) = TextSpace /\ SpaceOf(t).dummy = FALSE
      BY <3>1 DEF SpaceOf, TextSpace, Space
    <3>3. SectionOK(t)
      <4>1. /\ t.name = Name(t.name.of, t.name.n)
            /\ t.name.of \in {"text", "seg", "offset", "user"} /\ t.name.n = 0
            /\ t.pc = t.org /\ t.org \in Int
        BY <3>1
      <4>3. t.struct \in BOOLEAN /\ t.labels_are_local \in BOOLEAN /\ ~t.struct
        BY <3>1, Zenon
      <4>2. t.unallocated = SpaceOf(t).dummy
        BY <3>1, <3>2
      <4>. QED
        BY <3>1, <4>1, <4>2, <4>3, NewOK
    <3>4. \A k \in DOMAIN sects : sects[k].name # t.name
      BY <2>3, <3>1
    <3>5. FieldsOf(w.fields, w.fields, t)
      BY <1>1, <3>1 DEF Covers, FieldsOf
    <3>6. Covers(StartingAt(w.at, SpaceOf(t), t.org), w.fields, w.placed, Append(sects, t))
      BY <1>1, <3>1, <3>3, <3>4, <3>5, CoversAppended
    <3>7. StartingAt(w.at, SpaceOf(t), t.org) = w.at
      <4>1. TextSpace \in DOMAIN w.at /\ w.at[TextSpace] = Counter(0)
            /\ w.at = [s \in DOMAIN w.at |-> w.at[s]]
        BY <1>1, <2>3 DEF Covers
      <4>2. DOMAIN w.at \cup {TextSpace} = DOMAIN w.at
        BY <4>1
      <4>3. \A s \in DOMAIN w.at : (IF s = TextSpace THEN Counter(0) ELSE w.at[s]) = w.at[s]
        BY <4>1
      <4>4. StartingAt(w.at, TextSpace, 0)
              = [s \in DOMAIN w.at |-> IF s = TextSpace THEN Counter(0) ELSE w.at[s]]
        BY <4>2 DEF StartingAt
      <4>. QED
        BY <3>1, <3>2, <4>1, <4>3, <4>4
    <3>8. /\ Grows(Append(sects, t), sects) /\ Offsets(Append(sects, t), offset_id)
          /\ Locals(Append(sects, t), cur_struct)
      BY <1>1, <1>2, <3>1, AppendedKeeps
    <3>9. /\ Len(sects) + 1 \in DOMAIN Append(sects, t) /\ Append(sects, t)[Len(sects) + 1] = t
          /\ Len(sects) + 1 \notin DOMAIN sects
      BY <1>2, Appended
    <3>10. ~(cur_struct # NULL /\ Len(sects) + 1 = cur_struct)
      BY <1>1, <3>9 DEF Locals
    <3>. QED
      BY <2>0, <2>1, <3>a, <3>2, <3>6, <3>7, <3>8, <3>9, <3>10 DEF Stands
  <2>. QED
    BY <2>2, <2>3
<1>. QED
  BY <1>4, <1>5

-----------------------------------------------------------------------------
(* Lines that neither begin nor end a block.                               *)
LEMMA Stays ==
  ASSUME NEW w, Sim(w), NEW u, IsWorld(u), u.inside = w.inside,
         u.here.op = w.here.op \/ (Len(w.inside) = 0 /\ Plain(u.here)),
         Covers(u.at, u.fields, u.placed, sects'), Means(current_section', u.here, sects'),
         Locals(sects', cur_struct), Offsets(sects', offset_id'), Grows(sects', sects),
         u.here.op = "struct" => current_section' = cur_struct,
         UNCHANGED << dsectVars, structVars >>, offset_id' = u.dsects, u.dsect = w.dsect,
         labels' = u.defined, ~errors', ~u.odd
  PROVE  Sim(u)'
<1>1. /\ dsect_active' = dsect_active /\ dsect_offs' = dsect_offs
      /\ last_alloc_sect' = last_alloc_sect
      /\ cur_struct' = cur_struct /\ struct_prevsect' = struct_prevsect
  BY DEF dsectVars, structVars
<1>2. InBlocks(u)
  BY DEF Sim, InBlocks, Plain
<1>3. \A op : Within(u, op) <=> Within(w, op)
  BY DEF Within
<1>4. \A k, space : Means(k, space, sects) => Means(k, space, sects')
  BY GrownMeans
<1>5. Returns(u)'
  BY <1>1, <1>3, <1>4 DEF Sim, Returns
<1>. QED
  BY <1>1, <1>2, <1>5 DEF Sim

\* Only the section that is used changes.
SameBlocks(u, w) ==
  /\ IsWorld(u) /\ u.here = w.here /\ u.inside = w.inside /\ u.dsects = w.dsects
  /\ u.dsect = w.dsect /\ ~u.odd

\* The simulation goes on when the section in force goes on as its space does.
LEMMA PutStays ==
  ASSUME NEW w, Sim(w), NEW u, SameBlocks(u, w),
         NEW t, Replaced(sects', default_section, Default, t),
         NEW more, Succeeds(t, default_section[Default], more),
         t.labels_are_local = default_section[Default].labels_are_local,
         u.placed = w.placed \cup more, u.at = CountingAt(w.at, w.here, CounterOf(t)),
         FieldsWith(u.fields, w.fields, t),
         current_section' = Default, UNCHANGED << dsectVars, structVars, offset_id >>,
         labels' = u.defined, ~errors'
  PROVE  Sim(u)'
<1>1. PICK ss : ss = default_section
  OBVIOUS
<1>2. PICK k : k = Default
  OBVIOUS
<1>3. Stands(w, ss, k)
  BY <1>1, <1>2, DefaultStands
<1>5. /\ Replaced(sects', ss, k, t) /\ Succeeds(t, ss[k], more)
      /\ t.name = ss[k].name /\ t.struct = ss[k].struct
      /\ t.labels_are_local = ss[k].labels_are_local
  BY <1>1, <1>2 DEF Succeeds
<1>4. SpaceOf(t) = w.here
  BY <1>3, <1>5 DEF Stands, SpaceOf
<1>6. Covers(w.at, w.fields, w.placed, ss)
  BY <1>3 DEF Stands
<1>7. Covers(CountingAt(w.at, SpaceOf(t), CounterOf(t)), u.fields, w.placed \cup more, sects')
  BY <1>5, <1>6, CoversReplaced
<1>8. Covers(u.at, u.fields, u.placed, sects')
  BY <1>4, <1>7
<1>9. Grows(sects', ss) /\ Locals(sects', cur_struct) /\ Offsets(sects', offset_id)
  BY <1>3, <1>5, ReplacedKeeps DEF Stands
<1>10. Grows(sects', sects)
  BY <1>3, <1>9 DEF Stands, Grows
<1>11. Means(k, u.here, sects')
  <2>1. k \in DOMAIN sects' /\ sects'[k] = t
    BY <1>5 DEF Replaced
  <2>. QED
    BY <1>4, <2>1 DEF Means, SameBlocks
<1>12. u.here.op = "struct" => current_section' = cur_struct
  BY <1>2, <1>3 DEF Stands, SameBlocks
<1>13. offset_id' = offset_id /\ offset_id = w.dsects
  BY DEF Sim
<1>. QED
  BY <1>2, <1>8, <1>9, <1>10, <1>11, <1>12, <1>13, Stays DEF SameBlocks

\* What is known of the section that is used.
LEMMA Used ==
  ASSUME NEW w, Sim(w), NEW s, s = default_section[Default]
  PROVE  /\ IsSeq(default_section) /\ Default \in DOMAIN default_section
         /\ SectionOK(s) /\ SpaceOf(s) = w.here
         /\ w.here \in DOMAIN w.at /\ Here(w) = CounterOf(s)
         /\ s.struct <=> w.here.op = "struct"
         /\ s.struct => /\ s.name = Name("user", w.here.n)
                        /\ w.here.n \in DOMAIN w.fields /\ w.fields[w.here.n] = Tags(s)
         /\ w.fields = [n \in DOMAIN w.fields |-> w.fields[n]]
<1>a. PICK ss : ss = default_section
  OBVIOUS
<1>b. PICK k : k = Default
  OBVIOUS
<1>c. s = ss[k]
  BY <1>a, <1>b
<1>1. Stands(w, ss, k)
  BY <1>a, <1>b, DefaultStands
<1>2. /\ IsSeq(ss) /\ k \in DOMAIN ss /\ SectionOK(ss[k]) /\ SpaceOf(ss[k]) = w.here
      /\ w.here \in DOMAIN w.at /\ w.at[w.here] = CounterOf(ss[k])
      /\ w.fields = [n \in DOMAIN w.fields |-> w.fields[n]]
  BY <1>1 DEF Stands, Covers
<1>3. /\ ss[k].name = Name(ss[k].name.of, ss[k].name.n)
      /\ ss[k].name.of \in {"text", "seg", "offset", "user"}
      /\ ss[k].struct => ss[k].name.of = "user"
  BY <1>2 DEF SectionOK
<1>4. ss[k].struct <=> w.here.op = "struct"
  BY <1>2, <1>3 DEF SpaceOf, TextSpace, Orged, Dsect, Struct, Named, Space
<1>5. ss[k].struct => w.here.n = ss[k].name.n
  BY <1>2, <1>3 DEF SpaceOf, TextSpace, Orged, Dsect, Struct, Named, Space
<1>6. ss[k].struct => /\ ss[k].name.n \in DOMAIN w.fields
                      /\ w.fields[ss[k].name.n] = Tags(ss[k])
  BY <1>1, <1>2 DEF Stands, Covers
<1>. QED
  BY <1>a, <1>b, <1>c, <1>2, <1>3, <1>4, <1>5, <1>6 DEF Here

\* Section s has become t, with one more atom.
PutInto(t, s, w, atom) ==
  /\ Succeeds(t, s, {Spot(w, atom.op, atom.tag, 0)})
  /\ t.labels_are_local = s.labels_are_local
  /\ CounterOf(t) = [Here(w) EXCEPT !.pc = @ + SizeOf(atom)]
  /\ Tags(t) = IF atom.op = "byte" THEN Append(Tags(s), atom.tag) ELSE Tags(s)

\* add_atom() puts an atom where the counter of the space in force is.
LEMMA AtomGoes ==
  ASSUME NEW w, Sim(w), NEW atom, atom.op \in {"byte", "label"}, add_atom(atom)
  PROVE  \E t : /\ Replaced(sects', default_section, Default, t)
                /\ PutInto(t, default_section[Default], w, atom)
<1>1. PICK ss : ss = default_section
  OBVIOUS
<1>2. PICK k : k = Default
  OBVIOUS
<1>3. /\ IsSeq(ss) /\ k \in DOMAIN ss /\ SectionOK(ss[k]) /\ SpaceOf(ss[k]) = w.here
      /\ Here(w) = CounterOf(ss[k])
  BY <1>1, <1>2, Used
<1>4. sects' = AddAtoms(ss, k, << atom >>)
  BY <1>1, <1>2 DEF add_atom
<1>5. IsSeq(<< atom >>) /\ Sized(<< atom >>) = SizeOf(atom)
  BY SizedOne
<1>6. PICK t : t = AddAtoms(ss, k, << atom >>)[k]
  OBVIOUS
<1>7. /\ Replaced(sects', ss, k, t) /\ Changed(t, ss[k], << atom >>)
      /\ t.in_rorg = ss[k].in_rorg /\ t.labels_are_local = ss[k].labels_are_local
      /\ t.pc = ss[k].pc + SizeOf(atom)
  BY <1>3, <1>4, <1>5, <1>6, Added
<1>8. /\ SectionOK(t) /\ CounterOf(t) = [CounterOf(ss[k]) EXCEPT !.pc = @ + SizeOf(atom)]
      /\ PlacedIn(t) = PlacedIn(ss[k]) \cup
           { << atom.op, atom.tag, CounterOf(ss[k]).pc, ~SpaceOf(ss[k]).dummy >> }
      /\ Tags(t) = IF atom.op = "byte" THEN Append(Tags(ss[k]), atom.tag) ELSE Tags(ss[k])
  BY <1>3, <1>7, PutPlain
<1>9. t.name = ss[k].name /\ t.struct = ss[k].struct
  BY <1>7 DEF Changed
<1>10. Here(w).pc \in Int
  BY <1>3 DEF SectionOK, CounterOf
<1>11. Spot(w, atom.op, atom.tag, 0) = << atom.op, atom.tag, Here(w).pc, ~w.here.dummy >>
  <2>1. Here(w).pc + 0 = Here(w).pc
    BY <1>10
  <2>. QED
    BY <2>1 DEF Spot
<1>12. PlacedIn(t) = PlacedIn(ss[k]) \cup {Spot(w, atom.op, atom.tag, 0)}
  <2>1. << atom.op, atom.tag, CounterOf(ss[k]).pc, ~SpaceOf(ss[k]).dummy >>
          = << atom.op, atom.tag, Here(w).pc, ~w.here.dummy >>
    BY <1>3, Zenon
  <2>. QED
    BY <1>8, <1>11, <2>1, Zenon
<1>13. Succeeds(t, ss[k], {Spot(w, atom.op, atom.tag, 0)})
  BY <1>8, <1>9, <1>12 DEF Succeeds
<1>14. PutInto(t, ss[k], w, atom)
  BY <1>3, <1>7, <1>8, <1>13 DEF PutInto
<1>. QED
  BY <1>1, <1>2, <1>7, <1>14

\* A byte is placed as meant.
LEMMA ByteStep ==
  ASSUME NEW w, Sim(w), NEW tag, NEW scope, add_atom(Atom("byte", tag, scope)),
         labels' = labels, ~errors'
  PROVE  Sim(PlaceByte(w, tag))'
<1>1. PICK s : s = default_section[Default]
  OBVIOUS
<1>a. PICK atom : atom = Atom("byte", tag, scope)
  OBVIOUS
<1>b. add_atom(atom)
  BY <1>a
<1>2. atom.op = "byte" /\ atom.tag = tag
      /\ SizeOf(atom) = 1
  BY <1>a DEF Atom, SizeOf
<1>c. PICK t : /\ Replaced(sects', default_section, Default, t)
               /\ PutInto(t, default_section[Default], w, atom)
  BY <1>2, <1>b, AtomGoes
<1>3. /\ Replaced(sects', default_section, Default, t)
               /\ Succeeds(t, s, {Spot(w, "byte", tag, 0)})
               /\ t.labels_are_local = s.labels_are_local
               /\ CounterOf(t) = [Here(w) EXCEPT !.pc = @ + 1]
               /\ Tags(t) = Append(Tags(s), tag)
  BY <1>1, <1>2, <1>c DEF PutInto
<1>4. /\ s.struct <=> w.here.op = "struct"
      /\ s.struct => /\ s.name = Name("user", w.here.n)
                     /\ w.here.n \in DOMAIN w.fields
                     /\ w.fields[w.here.n] = Tags(s)
      /\ w.fields = [n \in DOMAIN w.fields |-> w.fields[n]]
  BY <1>1, Used
<1>5. PICK u : u = PlaceByte(w, tag)
  OBVIOUS
<1>6. IsWorld(w) /\ ~w.odd /\ labels = w.defined
  BY DEF Sim
<1> DEFINE c == CountingAt(w.at, w.here, CounterOf(t))
           placed == [w EXCEPT !.at = c, !.placed = @ \cup {Spot(w, "byte", tag, 0)}]
<1>7. u = IF w.here.op = "struct" THEN Fielded(placed, w.here.n, Append(w.fields[w.here.n], tag))
          ELSE placed
  BY <1>3, <1>5, <1>6 DEF PlaceByte, Counting, CountingAt, IsWorld
<1>8. /\ SameBlocks(placed, w) /\ placed.at = c
      /\ placed.placed = w.placed \cup {Spot(w, "byte", tag, 0)} /\ placed.defined = w.defined
      /\ placed.fields = w.fields /\ IsWorld(placed)
  BY <1>6 DEF IsWorld, SameBlocks
<1> HIDE DEF placed, c
<1>9. /\ SameBlocks(u, w) /\ u.at = c
      /\ u.placed = w.placed \cup {Spot(w, "byte", tag, 0)} /\ u.defined = w.defined
  BY <1>7, <1>8 DEF Fielded, IsWorld, SameBlocks
<1>10. t.name = s.name /\ t.struct = s.struct
  BY <1>3 DEF Succeeds
<1>11. FieldsWith(u.fields, w.fields, t)
  <2>1. CASE w.here.op = "struct"
    <3> DEFINE n == w.here.n
               more == Append(w.fields[n], tag)
    <3>1. u.fields = [m \in DOMAIN w.fields \cup {n} |-> IF m = n THEN more ELSE w.fields[m]]
      BY <1>7, <1>8, <2>1 DEF Fielded, IsWorld
    <3>2. n \in DOMAIN w.fields /\ more = Tags(t) /\ t.name = Name("user", n) /\ t.struct
      BY <1>3, <1>4, <1>10, <2>1
    <3> HIDE DEF n, more
    <3>3. t.name.n = n
      BY <3>2 DEF Name
    <3>4. DOMAIN w.fields \cup {n} = DOMAIN w.fields
      BY <3>2
    <3>. QED
      BY <3>1, <3>2, <3>3, <3>4 DEF FieldsWith
  <2>2. CASE w.here.op # "struct"
    <3>1. ~t.struct /\ u.fields = w.fields
      BY <1>4, <1>7, <1>8, <1>10, <2>2
    <3>. QED
      BY <1>4, <3>1 DEF FieldsWith
  <2>. QED
    BY <2>1, <2>2
<1>12. current_section' = Default /\ UNCHANGED << dsectVars, structVars, offset_id >>
  BY DEF add_atom
<1>13. Sim(u)'
  BY <1>1, <1>3, <1>6, <1>9, <1>11, <1>12, PutStays DEF c
<1>. QED
  BY <1>5, <1>13

\* A label is placed as meant.
LEMMA LabelStep ==
  ASSUME NEW w, Sim(w), NEW key, NEW n, NEW scope, add_atom(Atom("label", n, scope)),
         labels' = labels \cup {key}, ~errors'
  PROVE  Sim(PlaceLabel(w, key, n))'
<1>1. PICK s : s = default_section[Default]
  OBVIOUS
<1>a. PICK atom : atom = Atom("label", n, scope)
  OBVIOUS
<1>b. add_atom(atom)
  BY <1>a
<1>2. atom.op = "label" /\ atom.tag = n
      /\ SizeOf(atom) = 0
  BY <1>a DEF Atom, SizeOf
<1>c. PICK t : /\ Replaced(sects', default_section, Default, t)
               /\ PutInto(t, default_section[Default], w, atom)
  BY <1>2, <1>b, AtomGoes
<1>3. /\ Replaced(sects', default_section, Default, t)
               /\ Succeeds(t, s, {Spot(w, "label", n, 0)})
               /\ t.labels_are_local = s.labels_are_local
               /\ CounterOf(t) = [Here(w) EXCEPT !.pc = @ + 0]
               /\ Tags(t) = Tags(s)
  BY <1>1, <1>2, <1>c DEF PutInto
<1>4. /\ s.struct <=> w.here.op = "struct"
      /\ s.struct => /\ s.name = Name("user", w.here.n)
                     /\ w.here.n \in DOMAIN w.fields
                     /\ w.fields[w.here.n] = Tags(s)
      /\ w.fields = [m \in DOMAIN w.fields |-> w.fields[m]]
      /\ Here(w) = CounterOf(s) /\ SectionOK(s) /\ w.here \in DOMAIN w.at
  BY <1>1, Used
<1>5. PICK u : u = PlaceLabel(w, key, n)
  OBVIOUS
<1>6. IsWorld(w) /\ ~w.odd /\ labels = w.defined /\ w.at = [a \in DOMAIN w.at |-> w.at[a]]
  BY DEF Sim, Covers
<1>8. /\ SameBlocks(u, w) /\ u.at = w.at
      /\ u.placed = w.placed \cup {Spot(w, "label", n, 0)} /\ u.defined = w.defined \cup {key}
      /\ u.fields = w.fields
  BY <1>5, <1>6 DEF PlaceLabel, IsWorld, SameBlocks
<1>10. t.name = s.name /\ t.struct = s.struct
  BY <1>3 DEF Succeeds
<1>11. FieldsWith(u.fields, w.fields, t)
  <2>1. t.struct => t.name.n = w.here.n
    BY <1>4, <1>10 DEF Name
  <2>. QED
    BY <1>3, <1>4, <1>8, <1>10, <2>1 DEF FieldsWith
<1>12. current_section' = Default /\ UNCHANGED << dsectVars, structVars, offset_id >>
  BY DEF add_atom
<1>14. CounterOf(t) = w.at[w.here]
  <2>1. PICK p : p = Reached(s)
    OBVIOUS
  <2>2. PICK r : r = s.in_rorg
    OBVIOUS
  <2>3. Here(w) = [pc |-> p.pc, away |-> p.shift, relocated |-> r] /\ p.pc \in Int
    BY <1>4, <2>1, <2>2 DEF CounterOf, SectionOK
  <2>4. [Here(w) EXCEPT !.pc = @ + 0] = Here(w)
    BY <2>3
  <2>. QED
    BY <1>3, <2>4 DEF Here
<1>15. u.at = CountingAt(w.at, w.here, CounterOf(t))
  BY <1>6, <1>8, <1>14 DEF CountingAt
<1>13. Sim(u)'
  BY <1>1, <1>3, <1>6, <1>8, <1>11, <1>12, <1>15, PutStays
<1>. QED
  BY <1>5, <1>13

-----------------------------------------------------------------------------
(* rorg and rend.                                                          *)
LEMMA ReplacedAgain ==
  ASSUME NEW ss, NEW k, NEW b, NEW s, Replaced(b, ss, k, s), NEW t
  PROVE  Replaced([b EXCEPT ![k] = t], ss, k, t)
<1> DEFINE c == [b EXCEPT ![k] = t]
<1>1. /\ IsSeq(b) /\ k \in DOMAIN ss /\ DOMAIN b = DOMAIN ss
      /\ \A j \in DOMAIN ss : j # k => b[j] = ss[j]
  BY DEF Replaced
<1>2. c = [j \in DOMAIN b |-> c[j]]
  OBVIOUS
<1>3. IsSeq(c)
  BY <1>1, <1>2, SameLength
<1>4. DOMAIN c = DOMAIN ss /\ c[k] = t /\ \A j \in DOMAIN ss : j # k => c[j] = ss[j]
  BY <1>1
<1> HIDE DEF c
<1>5. Replaced(c, ss, k, t)
  BY <1>1, <1>3, <1>4 DEF Replaced
<1>. QED
  BY <1>5 DEF c

\* Two changes of one section are one.
LEMMA ReplacedTwice ==
  ASSUME NEW ss, NEW k, NEW b, NEW s, Replaced(b, ss, k, s), NEW c, NEW t, Replaced(c, b, k, t)
  PROVE  Replaced(c, ss, k, t)
BY DEF Replaced

\* Section s has become t, with one more mark in it.
Marked(t, s, added, in_rorg) ==
  /\ Changed(t, s, added) /\ t.in_rorg = in_rorg /\ t.pc = s.pc
  /\ t.labels_are_local = s.labels_are_local

\* A mark added in list b to section k, which was s.
MarkPut(ss, k, atom) == AddAtoms(ss, k, << atom >>)

\* A mark adds no size.
LEMMA MarkAdded ==
  ASSUME NEW ss, IsSeq(ss), NEW k \in DOMAIN ss, SectionOK(ss[k]), NEW atom, SizeOf(atom) = 0
  PROVE  \E b, s : /\ b = MarkPut(ss, k, atom) /\ Replaced(b, ss, k, s) /\ b[k] = s
                   /\ Marked(s, ss[k], << atom >>, ss[k].in_rorg)
                   /\ DOMAIN s = {"name", "org", "pc", "unallocated", "absolute", "prevabs",
                                  "in_rorg", "labels_are_local", "struct", "atoms"}
<1>1. PICK b : b = AddAtoms(ss, k, << atom >>)
  OBVIOUS
<1>2. PICK s : s = b[k]
  OBVIOUS
<1>3. IsSeq(<< atom >>) /\ Sized(<< atom >>) = 0
  BY SizedOne
<1>4. /\ Replaced(b, ss, k, s) /\ Changed(s, ss[k], << atom >>)
      /\ s.in_rorg = ss[k].in_rorg
      /\ s.labels_are_local = ss[k].labels_are_local
      /\ s.pc = ss[k].pc + Sized(<< atom >>)
  BY <1>1, <1>2, <1>3, Added
<1>5. ss[k].pc \in Int
  BY DEF SectionOK
<1>6. s.pc = ss[k].pc
  BY <1>3, <1>4, <1>5
<1>7. DOMAIN s = DOMAIN ss[k]
  BY <1>4 DEF Changed
<1>8. DOMAIN ss[k] = {"name", "org", "pc", "unallocated", "absolute", "prevabs", "in_rorg",
                      "labels_are_local", "struct", "atoms"}
  BY DEF SectionOK
<1>9. Marked(s, ss[k], << atom >>, ss[k].in_rorg)
  BY <1>4, <1>6 DEF Marked
<1>. QED
  BY <1>1, <1>2, <1>4, <1>7, <1>8, <1>9 DEF MarkPut

\* A mark and a flag.
LEMMA MarkFlagged ==
  ASSUME NEW s, NEW t, NEW added, NEW old, Marked(s, old, added, old.in_rorg),
         NEW in_rorg \in BOOLEAN, t.in_rorg = in_rorg,
         DOMAIN t = DOMAIN s, t.name = s.name, t.struct = s.struct, t.pc = s.pc, t.org = s.org,
         t.unallocated = s.unallocated, t.labels_are_local = s.labels_are_local,
         t.atoms = s.atoms
  PROVE  Marked(t, old, added, in_rorg)
BY DEF Marked, Changed, Extends

\* What the end of a relocated block makes of a section.
LEMMA UnrelocatedIs ==
  ASSUME NEW ss, IsSeq(ss), NEW k \in DOMAIN ss, SectionOK(ss[k])
  PROVE  \E t : /\ Replaced(Unrelocated(ss, k), ss, k, t)
                /\ Marked(t, ss[k], << RorgEnd >>, FALSE)
<1>1. SizeOf(RorgEnd) = 0
  BY DEF SizeOf, RorgEnd, Atom
<1>2. PICK b, s : /\ b = MarkPut(ss, k, RorgEnd) /\ Replaced(b, ss, k, s) /\ b[k] = s
                  /\ Marked(s, ss[k], << RorgEnd >>, ss[k].in_rorg)
                  /\ DOMAIN s = {"name", "org", "pc", "unallocated", "absolute", "prevabs",
                                 "in_rorg", "labels_are_local", "struct", "atoms"}
  BY <1>1, MarkAdded
<1> DEFINE t == [s EXCEPT !.in_rorg = FALSE, !.absolute = ss[k].prevabs]
<1>3. Unrelocated(ss, k) = [b EXCEPT ![k].in_rorg = FALSE, ![k].absolute = ss[k].prevabs]
  BY <1>2 DEF Unrelocated, MarkPut
<1>4. k \in DOMAIN b
  BY <1>2 DEF Replaced
<1>5. [b EXCEPT ![k].in_rorg = FALSE, ![k].absolute = ss[k].prevabs] = [b EXCEPT ![k] = t]
  BY <1>2, <1>4
<1>6. /\ t.in_rorg = FALSE /\ DOMAIN t = DOMAIN s /\ t.name = s.name /\ t.struct = s.struct
      /\ t.pc = s.pc /\ t.org = s.org /\ t.unallocated = s.unallocated
      /\ t.labels_are_local = s.labels_are_local /\ t.atoms = s.atoms
  BY <1>2
<1> HIDE DEF t
<1>7. Marked(t, ss[k], << RorgEnd >>, FALSE)
  BY <1>2, <1>6, MarkFlagged
<1>8. Replaced([b EXCEPT ![k] = t], ss, k, t)
  BY <1>2, ReplacedAgain
<1>. QED
  BY <1>3, <1>5, <1>7, <1>8

\* What the start of a relocated block makes of a section.
LEMMA RelocatedIs ==
  ASSUME NEW ss, IsSeq(ss), NEW k \in DOMAIN ss, SectionOK(ss[k]), NEW a, NEW prev
  PROVE  \E t : /\ Replaced([AddAtoms(ss, k, << Rorg(a) >>) EXCEPT ![k].in_rorg = TRUE,
                               ![k].absolute = TRUE, ![k].prevabs = prev], ss, k, t)
                /\ Marked(t, ss[k], << Rorg(a) >>, TRUE)
<1>1. SizeOf(Rorg(a)) = 0
  BY DEF SizeOf, Rorg, Atom
<1>0. PICK atom : atom = Rorg(a)
  OBVIOUS
<1>2. PICK b, s : /\ b = MarkPut(ss, k, atom) /\ Replaced(b, ss, k, s) /\ b[k] = s
                  /\ Marked(s, ss[k], << atom >>, ss[k].in_rorg)
                  /\ DOMAIN s = {"name", "org", "pc", "unallocated", "absolute", "prevabs",
                                 "in_rorg", "labels_are_local", "struct", "atoms"}
  BY <1>0, <1>1, MarkAdded
<1> DEFINE t == [s EXCEPT !.in_rorg = TRUE, !.absolute = TRUE, !.prevabs = prev]
<1>3. b = AddAtoms(ss, k, << Rorg(a) >>)
  BY <1>0, <1>2 DEF MarkPut
<1>4. k \in DOMAIN b
  BY <1>2 DEF Replaced
<1>5. [b EXCEPT ![k].in_rorg = TRUE, ![k].absolute = TRUE, ![k].prevabs = prev]
        = [b EXCEPT ![k] = t]
  BY <1>2, <1>4
<1>6. /\ t.in_rorg = TRUE /\ DOMAIN t = DOMAIN s /\ t.name = s.name /\ t.struct = s.struct
      /\ t.pc = s.pc /\ t.org = s.org /\ t.unallocated = s.unallocated
      /\ t.labels_are_local = s.labels_are_local /\ t.atoms = s.atoms
  BY <1>2
<1> HIDE DEF t
<1>7. Marked(t, ss[k], << atom >>, TRUE)
  BY <1>2, <1>6, MarkFlagged
<1>8. Replaced([b EXCEPT ![k] = t], ss, k, t)
  BY <1>2, ReplacedAgain
<1>. QED
  BY <1>0, <1>3, <1>5, <1>7, <1>8

\* Only the counter of the section has changed.
Recounts(t, s, c) ==
  /\ Succeeds(t, s, {}) /\ t.labels_are_local = s.labels_are_local
  /\ CounterOf(t) = c /\ Tags(t) = Tags(s)

\* The simulation goes on when only a counter changes, on both sides alike.
LEMMA RecountStays ==
  ASSUME NEW w, Sim(w), NEW c, NEW t, Replaced(sects', default_section, Default, t),
         Recounts(t, default_section[Default], c),
         current_section' = Default, UNCHANGED << dsectVars, structVars, offset_id >>,
         labels' = labels, ~errors'
  PROVE  Sim(Counting(w, c))'
<1>1. PICK s : s = default_section[Default]
  OBVIOUS
<1>4. /\ s.struct <=> w.here.op = "struct"
      /\ s.struct => /\ s.name = Name("user", w.here.n)
                     /\ w.here.n \in DOMAIN w.fields
                     /\ w.fields[w.here.n] = Tags(s)
      /\ w.fields = [m \in DOMAIN w.fields |-> w.fields[m]]
  BY <1>1, Used
<1>5. PICK u : u = Counting(w, c)
  OBVIOUS
<1>6. IsWorld(w) /\ ~w.odd /\ labels = w.defined
  BY DEF Sim
<1>7. /\ Succeeds(t, s, {}) /\ t.labels_are_local = s.labels_are_local
      /\ CounterOf(t) = c /\ Tags(t) = Tags(s) /\ t.name = s.name /\ t.struct = s.struct
  BY <1>1 DEF Recounts, Succeeds
<1>8. /\ SameBlocks(u, w) /\ u.at = CountingAt(w.at, w.here, CounterOf(t))
      /\ u.placed = w.placed \cup {} /\ u.defined = w.defined /\ u.fields = w.fields
  BY <1>5, <1>6, <1>7 DEF Counting, CountingAt, IsWorld, SameBlocks
<1>9. FieldsWith(u.fields, w.fields, t)
  <2>1. t.struct => t.name.n = w.here.n
    BY <1>4, <1>7 DEF Name
  <2>. QED
    BY <1>4, <1>7, <1>8, <2>1 DEF FieldsWith
<1>10. Sim(u)'
  BY <1>1, <1>6, <1>7, <1>8, <1>9, PutStays
<1>. QED
  BY <1>5, <1>10

\* rend counts on as meant.
LEMMA RendStep ==
  ASSUME NEW w, Sim(w), Here(w).relocated, handle_rend, labels' = labels
  PROVE  Sim(Counting(w, Back(Here(w))))'
<1>1. PICK s : s = default_section[Default]
  OBVIOUS
<1>2. /\ IsSeq(default_section) /\ Default \in DOMAIN default_section /\ SectionOK(s)
      /\ Here(w) = CounterOf(s)
  BY <1>1, Used
<1>3. s.in_rorg
  BY <1>2 DEF CounterOf
<1>4. PICK t : /\ Replaced(Unrelocated(default_section, Default), default_section, Default, t)
               /\ Marked(t, s, << RorgEnd >>, FALSE)
  BY <1>1, <1>2, UnrelocatedIs
<1>5. Changed(t, s, << RorgEnd >>) /\ t.in_rorg = FALSE /\ t.pc = s.pc
      /\ t.labels_are_local = s.labels_are_local
  BY <1>4 DEF Marked
<1>6. /\ SectionOK(t) /\ CounterOf(t) = Back(CounterOf(s))
      /\ PlacedIn(t) = PlacedIn(s) \cup {} /\ Tags(t) = Tags(s)
  BY <1>2, <1>5, PutBack
<1>7. Recounts(t, s, Back(Here(w)))
  BY <1>2, <1>5, <1>6 DEF Recounts, Succeeds, Changed
<1>8. sects' = Unrelocated(default_section, Default)
  BY <1>1, <1>3 DEF handle_rend
<1>9. current_section' = Default /\ UNCHANGED << dsectVars, structVars, offset_id >>
  BY DEF handle_rend
<1>10. ~errors'
  BY <1>1, <1>3 DEF handle_rend, Sim
<1>11. PICK c : c = Back(Here(w))
  OBVIOUS
<1>12. Recounts(t, default_section[Default], c) /\ Replaced(sects', default_section, Default, t)
  BY <1>1, <1>4, <1>7, <1>8, <1>11
<1>13. Sim(Counting(w, c))'
  BY <1>9, <1>10, <1>12, RecountStays
<1>. QED
  BY <1>11, <1>13

\* rorg counts on as meant, also within a relocated block.
LEMMA RorgStep ==
  ASSUME NEW w, Sim(w), NEW a \in Int, handle_rorg(a), labels' = labels
  PROVE  Sim(Counting(w, Relocated(Here(w), a)))'
<1>1. PICK ss : ss = default_section
  OBVIOUS
<1>2. PICK k : k = Default
  OBVIOUS
<1>3. PICK s : s = ss[k]
  OBVIOUS
<1>4. IsSeq(ss) /\ k \in DOMAIN ss /\ SectionOK(s) /\ Here(w) = CounterOf(s)
  BY <1>1, <1>2, <1>3, Used
<1>5. PICK open : open = IF s.in_rorg THEN Unrelocated(ss, k) ELSE ss
  OBVIOUS
<1>6. \E r : /\ Replaced(open, ss, k, r) /\ Recounts(r, s, Back(CounterOf(s)))
             /\ r.in_rorg = FALSE /\ open[k] = r
  <2>1. CASE s.in_rorg
    <3>1. PICK r : Replaced(open, ss, k, r) /\ Marked(r, s, << RorgEnd >>, FALSE)
      BY <1>3, <1>4, <1>5, <2>1, UnrelocatedIs
    <3>2. Changed(r, s, << RorgEnd >>) /\ r.in_rorg = FALSE /\ r.pc = s.pc
          /\ r.labels_are_local = s.labels_are_local
      BY <3>1 DEF Marked
    <3>3. /\ SectionOK(r) /\ CounterOf(r) = Back(CounterOf(s))
          /\ PlacedIn(r) = PlacedIn(s) \cup {} /\ Tags(r) = Tags(s)
      BY <1>4, <3>2, PutBack
    <3>4. open[k] = r
      BY <3>1 DEF Replaced
    <3>. QED
      BY <3>1, <3>2, <3>3, <3>4 DEF Recounts, Succeeds, Changed
  <2>2. CASE ~s.in_rorg
    <3>1. open = ss /\ s.in_rorg = FALSE
      BY <1>4, <1>5, <2>2 DEF SectionOK
    <3>2. Replaced(ss, ss, k, s)
      BY <1>3, <1>4 DEF Replaced
    <3>3. PICK p : p = Reached(s)
      OBVIOUS
    <3>4. p.pc \in Int /\ p.shift = 0
      BY <1>4, <2>2, <3>3 DEF SectionOK
    <3>5. CounterOf(s) = [pc |-> p.pc, away |-> 0, relocated |-> FALSE]
      BY <3>1, <3>3, <3>4, Zenon DEF CounterOf
    <3>6. Back(CounterOf(s)) = CounterOf(s)
      <4>3. CounterOf(s) = Counter(p.pc)
        BY <3>5, Zenon DEF Counter
      <4>1. CounterOf(s).pc = p.pc /\ CounterOf(s).away = 0
        BY <4>3 DEF Counter
      <4>2. p.pc + 0 = p.pc
        BY <3>4
      <4>. QED
        BY <4>1, <4>2, <4>3 DEF Back
    <3>7. Recounts(s, s, Back(CounterOf(s)))
      BY <1>4, <3>6 DEF Recounts, Succeeds
    <3>. QED
      BY <1>3, <3>1, <3>2, <3>7
  <2>. QED
    BY <2>1, <2>2
<1>7. PICK r : /\ Replaced(open, ss, k, r) /\ Recounts(r, s, Back(CounterOf(s)))
               /\ r.in_rorg = FALSE /\ open[k] = r
  BY <1>6
<1>8. IsSeq(open) /\ k \in DOMAIN open /\ SectionOK(r)
  BY <1>7 DEF Replaced, Recounts, Succeeds
<1>9. PICK t : /\ Replaced([AddAtoms(open, k, << Rorg(a) >>) EXCEPT ![k].in_rorg = TRUE,
                               ![k].absolute = TRUE, ![k].prevabs = open[k].absolute], open, k, t)
               /\ Marked(t, r, << Rorg(a) >>, TRUE)
  BY <1>7, <1>8, RelocatedIs
<1>10. /\ sects' = [AddAtoms(open, k, << Rorg(a) >>) EXCEPT ![k].in_rorg = TRUE,
                               ![k].absolute = TRUE, ![k].prevabs = open[k].absolute]
       /\ current_section' = k /\ UNCHANGED << dsectVars, structVars, offset_id, errors >>
  BY <1>1, <1>2, <1>3, <1>5 DEF handle_rorg
<1>11. Changed(t, r, << Rorg(a) >>) /\ t.in_rorg = TRUE /\ t.pc = r.pc
       /\ t.labels_are_local = r.labels_are_local
  BY <1>9 DEF Marked
<1>12. /\ SectionOK(t) /\ CounterOf(t) = Relocated(CounterOf(r), a)
       /\ PlacedIn(t) = PlacedIn(r) \cup {} /\ Tags(t) = Tags(r)
  BY <1>7, <1>8, <1>11, PutRorg
<1>13. Relocated(CounterOf(r), a) = Relocated(CounterOf(s), a)
  <2>1. CounterOf(r) = Back(CounterOf(s))
    BY <1>7 DEF Recounts
  <2>2. CounterOf(s).pc \in Int /\ CounterOf(s).away \in Int
    BY <1>4 DEF CounterOf, SectionOK
  <2>3. Back(Back(CounterOf(s))).pc = Back(CounterOf(s)).pc
    BY <2>2 DEF Back, Counter
  <2>. QED
    BY <2>1, <2>3 DEF Relocated
<1>14. Recounts(t, s, Relocated(CounterOf(s), a))
  <2>1. t.name = r.name /\ t.struct = r.struct
    BY <1>11 DEF Changed
  <2>. QED
    BY <1>7, <1>11, <1>12, <1>13, <2>1 DEF Recounts, Succeeds
<1>15. Replaced(sects', ss, k, t)
  <2>1. Replaced(sects', open, k, t)
    BY <1>9, <1>10
  <2>. QED
    BY <1>7, <2>1, ReplacedTwice
<1>16. PICK c : c = Relocated(Here(w), a)
  OBVIOUS
<1>17. Recounts(t, default_section[Default], c) /\ Replaced(sects', default_section, Default, t)
  BY <1>1, <1>2, <1>3, <1>4, <1>14, <1>15, <1>16
<1>18. ~errors'
  BY <1>10 DEF Sim
<1>19. Sim(Counting(w, c))'
  BY <1>2, <1>10, <1>17, <1>18, RecountStays
<1>. QED
  BY <1>16, <1>19

-----------------------------------------------------------------------------
(* Structures in use.                                                      *)
LEMMA StructureIs ==
  ASSUME NEW w, Sim(w), NEW n \in DOMAIN w.fields
  PROVE  \E k \in DOMAIN sects :
           /\ SectionOK(sects[k]) /\ sects[k].struct /\ sects[k].name = Name("user", n)
           /\ find_section(sects, Name("user", n)) = k /\ w.fields[n] = Tags(sects[k])
<1>1. Covers(w.at, w.fields, w.placed, sects)
  BY DEF Sim
<1>2. IsSeq(sects) /\ Unique(sects)
  BY <1>1 DEF Covers, Unique
<1>3. PICK k \in { j \in DOMAIN sects : sects[j].struct } : sects[k].name.n = n
  BY <1>1 DEF Covers
<1>4. SectionOK(sects[k]) /\ w.fields[n] = Tags(sects[k])
  BY <1>1, <1>3 DEF Covers
<1>5. sects[k].name = Name("user", n)
  BY <1>3, <1>4 DEF SectionOK
<1>6. find_section(sects, sects[k].name) = k
  BY <1>2, <1>3, Found
<1>. QED
  BY <1>3, <1>4, <1>5, <1>6

\* Outside of structures none is being declared.
LEMMA NotInStruct ==
  ASSUME NEW w, Sim(w), ~Within(w, "struct")
  PROVE  cur_struct = NULL /\ w.here.op # "struct"
<1>1. cur_struct = NULL
  BY DEF Sim, Returns
<1>. QED
  BY <1>1, InStruct

\* Bytes with the values of fields, but for the first one.
Copies(added, fields, tag) ==
  /\ IsSeq(added) /\ Len(added) = Len(fields)
  /\ \A j \in 1 .. Len(added) : /\ added[j].op = "byte"
                                /\ added[j].tag = IF j = 1 THEN tag ELSE fields[j]

\* A use of a structure repeats its bytes, the first with a new value.
LEMMA InstanceIs ==
  ASSUME NEW k, IsSeq(sects[k].atoms)
  PROVE  Copies(Instance(k), Tags(sects[k]), Value(Line.e))
<1> DEFINE f == Fields(k)
           first == Atom("byte", Value(Line.e), NoScope)
           added == Instance(k)
<1>1. IsSeq(f) /\ \A j \in 1 .. Len(f) : f[j].op = "byte"
  BY BytesAreBytes DEF Fields
<1>2. Tags(sects[k]) = [j \in 1 .. Len(f) |-> f[j].tag]
  BY DEF Tags, Fields
<1>3. added = IF f = << >> THEN << >> ELSE [f EXCEPT ![1] = first]
  BY DEF Instance
<1>4. first.op = "byte" /\ first.tag = Value(Line.e)
  BY DEF Atom
<1> HIDE DEF f, added, first
<1>5. Len(f) \in Nat /\ DOMAIN f = 1 .. Len(f)
  BY <1>1, NullIsNone
<1>6. Len(Tags(sects[k])) = Len(f)
  <2>1. Tags(sects[k]) \in [1 .. Len(f) -> { f[j].tag : j \in 1 .. Len(f) }]
    BY <1>2
  <2>. QED
    BY <1>5, <2>1
<1>7. CASE f = << >>
  <2>1. added = f /\ Len(f) = 0
    BY <1>3, <1>7
  <2>. QED
    BY <1>1, <1>6, <2>1 DEF added, Copies
<1>8. CASE f # << >>
  <2>1. added = [f EXCEPT ![1] = first]
    BY <1>3, <1>8
  <2>2. added = [j \in DOMAIN f |-> added[j]]
    BY <2>1
  <2>3. IsSeq(added) /\ Len(added) = Len(f)
    BY <1>1, <2>2, SameLength
  <2>4. \A j \in 1 .. Len(f) : added[j] = IF j = 1 THEN first ELSE f[j]
    BY <1>5, <2>1
  <2>5. \A j \in 1 .. Len(added) :
          /\ added[j].op = "byte"
          /\ added[j].tag = IF j = 1 THEN Value(Line.e) ELSE Tags(sects[k])[j]
    BY <1>1, <1>2, <1>4, <2>3, <2>4
  <2>. QED
    BY <1>6, <2>3, <2>5 DEF added, Copies
<1>. QED
  BY <1>7, <1>8

\* The bytes of a use are placed as meant.
LEMMA StructurePlaced ==
  ASSUME NEW w, Sim(w), w.here.op # "struct", NEW n, NEW tag, NEW added,
         Copies(added, w.fields[n], tag),
         sects' = AddAtoms(default_section, Default, added), current_section' = Default,
         UNCHANGED << dsectVars, structVars, offset_id >>, labels' = labels, ~errors'
  PROVE  Sim(PlaceStructure(w, n, tag))'
<1>a. PICK fields : fields = w.fields[n]
  OBVIOUS
<1>b. /\ IsSeq(added) /\ Len(added) = Len(fields)
      /\ \A j \in 1 .. Len(added) : /\ added[j].op = "byte"
                                    /\ added[j].tag = IF j = 1 THEN tag ELSE fields[j]
  BY <1>a DEF Copies
<1>1. PICK ss : ss = default_section
  OBVIOUS
<1>2. PICK k : k = Default
  OBVIOUS
<1>3. PICK s : s = ss[k]
  OBVIOUS
<1>4. /\ IsSeq(ss) /\ k \in DOMAIN ss /\ SectionOK(s) /\ Here(w) = CounterOf(s)
      /\ SpaceOf(s) = w.here /\ ~s.struct
      /\ w.fields = [m \in DOMAIN w.fields |-> w.fields[m]]
  BY <1>1, <1>2, <1>3, Used
<1>5. PICK t : t = AddAtoms(ss, k, added)[k]
  OBVIOUS
<1>6. Len(added) \in Nat /\ Sized(added) = Len(added)
  BY <1>b, SizedBytes, SeqIsSeq DEF IsSeq
<1>7. /\ Replaced(AddAtoms(ss, k, added), ss, k, t) /\ Changed(t, s, added)
      /\ t.in_rorg = s.in_rorg /\ t.labels_are_local = s.labels_are_local
      /\ t.pc = s.pc + Len(added)
  BY <1>b, <1>3, <1>4, <1>5, <1>6, Added
<1>8. /\ SectionOK(t) /\ CounterOf(t) = [CounterOf(s) EXCEPT !.pc = @ + Len(added)]
      /\ PlacedIn(t) = PlacedIn(s) \cup
           { << "byte", added[j].tag, CounterOf(s).pc + j - 1, ~SpaceOf(s).dummy >> :
               j \in 1 .. Len(added) }
  BY <1>b, <1>4, <1>7, PutBytes
<1> DEFINE more == { Spot(w, "byte", IF j = 1 THEN tag ELSE fields[j], j - 1) :
                       j \in 1 .. Len(fields) }
<1>9. PlacedIn(t) = PlacedIn(s) \cup more
  <2> DEFINE out == ~w.here.dummy
  <2>1. CounterOf(s).pc \in Int
    BY <1>4 DEF SectionOK, CounterOf
  <2>2. (~SpaceOf(s).dummy) = out
    BY <1>4
  <2> HIDE DEF out
  <2>3. \A j \in 1 .. Len(added) :
           Spot(w, "byte", IF j = 1 THEN tag ELSE fields[j], j - 1)
             = << "byte", added[j].tag, CounterOf(s).pc + j - 1, out >>
    <3> TAKE j \in 1 .. Len(added)
    <3>1. CounterOf(s).pc + (j - 1) = CounterOf(s).pc + j - 1
      BY <1>6, <2>1
    <3>2. Spot(w, "byte", added[j].tag, j - 1)
             = << "byte", added[j].tag, Here(w).pc + (j - 1), out >>
      BY DEF Spot, out
    <3>. QED
      BY <1>b, <1>4, <3>1, <3>2
  <2>4. 1 .. Len(fields) = 1 .. Len(added)
    BY <1>b
  <2>5. more = { << "byte", added[j].tag, CounterOf(s).pc + j - 1, out >> : j \in 1 .. Len(added) }
    BY <2>3, <2>4
  <2> HIDE DEF more
  <2>. QED
    BY <1>8, <2>2, <2>5
<1>10. PICK u : u = PlaceStructure(w, n, tag)
  OBVIOUS
<1>11. IsWorld(w) /\ ~w.odd /\ labels = w.defined
  BY DEF Sim
<1>12. /\ SameBlocks(u, w) /\ u.at = CountingAt(w.at, w.here, CounterOf(t))
       /\ u.placed = w.placed \cup more /\ u.defined = w.defined /\ u.fields = w.fields
  <2>1. CounterOf(t) = [Here(w) EXCEPT !.pc = @ + Len(fields)]
    BY <1>b, <1>4, <1>8
  <2> DEFINE c == CountingAt(w.at, w.here, CounterOf(t))
  <2>2. Counting(w, [Here(w) EXCEPT !.pc = @ + Len(fields)]) = [w EXCEPT !.at = c]
    BY <2>1, <1>11 DEF Counting, CountingAt, IsWorld
  <2>3. u = [[w EXCEPT !.at = c] EXCEPT !.placed = @ \cup more]
    <3>1. PlaceStructure(w, n, tag)
            = [Counting(w, [Here(w) EXCEPT !.pc = @ + Len(w.fields[n])]) EXCEPT
                 !.placed = @ \cup { Spot(w, "byte", IF j = 1 THEN tag ELSE w.fields[n][j], j - 1) :
                                       j \in 1 .. Len(w.fields[n]) }]
      BY DEF PlaceStructure
    <3>2. { Spot(w, "byte", IF j = 1 THEN tag ELSE w.fields[n][j], j - 1) :
              j \in 1 .. Len(w.fields[n]) } = more
      BY <1>a
    <3> HIDE DEF c, more
    <3>. QED
      BY <1>a, <1>10, <2>2, <3>1, <3>2
  <2> HIDE DEF c, more
  <2>4. /\ SameBlocks(u, w) /\ u.at = c /\ u.placed = w.placed \cup more
        /\ u.defined = w.defined /\ u.fields = w.fields
    BY <1>11, <2>3 DEF IsWorld, SameBlocks
  <2>. QED
    BY <2>4 DEF c
<1> HIDE DEF more
<1>13. Succeeds(t, s, more) /\ ~t.struct
  BY <1>4, <1>7, <1>8, <1>9 DEF Succeeds, Changed
<1>14. FieldsWith(u.fields, w.fields, t)
  BY <1>4, <1>12, <1>13 DEF FieldsWith
<1>15. Replaced(sects', default_section, Default, t) /\ Succeeds(t, default_section[Default], more)
       /\ t.labels_are_local = default_section[Default].labels_are_local
  BY <1>1, <1>2, <1>3, <1>7, <1>13
<1>16. labels' = u.defined
  BY <1>11, <1>12
<1>17. Sim(u)'
  BY <1>12, <1>14, <1>15, <1>16, PutStays
<1>. QED
  BY <1>10, <1>17

\* A use of a structure is placed as meant.
LEMMA CallStep ==
  ASSUME NEW w, Sim(w), NEW n, n = Line.n, NEW tag, tag = Value(Line.e),
         n \in DOMAIN w.fields, ~Within(w, "struct"), Valid(Line.e), CallStructure
  PROVE  Sim(PlaceStructure(w, n, tag))' /\ outcome' = outcome /\ src' = Advanced
<1>1. PICK k \in DOMAIN sects :
           /\ SectionOK(sects[k]) /\ sects[k].struct /\ sects[k].name = Name("user", Line.n)
           /\ find_section(sects, Name("user", Line.n)) = k /\ w.fields[Line.n] = Tags(sects[k])
  BY StructureIs
<1>2. cur_struct = NULL /\ w.here.op # "struct"
  BY NotInStruct
<1>3. ~BeingDeclared(Line.n)
  BY <1>2 DEF BeingDeclared
<1>4. k # current_section
  <2> SUFFICES ASSUME k = current_section PROVE FALSE
    OBVIOUS
  <2>1. k # NULL
    BY <1>1, NullIsNone DEF Sim, Covers
  <2>2. SpaceOf(sects[k]) = w.here
    BY <2>1 DEF Sim, Means
  <2>3. SpaceOf(sects[k]).op = "struct"
    BY <1>1 DEF SpaceOf, Struct, Space, Name
  <2>. QED
    BY <1>2, <2>2, <2>3
<1>5. /\ src' = Advanced /\ sects' = AddAtoms(default_section, Default, Instance(k))
      /\ current_section' = Default /\ errors' = (errors \/ ~Valid(Line.e))
      /\ UNCHANGED << dsectVars, structVars, offset_id, outcome >> /\ labels' = labels
  BY <1>1, <1>3, <1>4 DEF CallStructure, labelVars
<1>6. ~errors'
  BY <1>5 DEF Sim
<1>7. PICK added : added = Instance(k)
  OBVIOUS
<1>12. Copies(added, w.fields[n], tag)
  BY <1>1, <1>7, InstanceIs DEF SectionOK
<1>13. Sim(PlaceStructure(w, n, tag))'
  BY <1>2, <1>5, <1>6, <1>7, <1>12, StructurePlaced
<1>. QED
  BY <1>5, <1>13

-----------------------------------------------------------------------------
(* New sections.                                                           *)
LEMMA FreshCovers ==
  ASSUME NEW w, Sim(w), NEW t, SectionOK(t), Empty(t),
         \A k \in DOMAIN sects : sects[k].name # t.name,
         NEW fields, FieldsOf(fields, w.fields, t), sects' = Append(sects, t)
  PROVE  /\ Covers(StartingAt(w.at, SpaceOf(t), t.org), fields, w.placed, sects')
         /\ Grows(sects', sects) /\ Means(Len(sects) + 1, SpaceOf(t), sects')
         /\ Len(sects) + 1 # NULL
<1>1. Covers(w.at, w.fields, w.placed, sects)
  BY DEF Sim
<1>2. IsSeq(sects)
  BY <1>1 DEF Covers
<1>3. Covers(StartingAt(w.at, SpaceOf(t), t.org), fields, w.placed, sects')
  BY <1>1, CoversAppended
<1>4. Grows(sects', sects)
  BY <1>2, AppendedKeeps
<1>5. Means(Len(sects) + 1, SpaceOf(t), sects') /\ Len(sects) \in Nat
  BY <1>2, Appended DEF Means
<1>. QED
  BY <1>3, <1>4, <1>5 DEF NULL

\* The fields are those of w, where the section is no structure.
LEMMA NoFields ==
  ASSUME NEW w, Sim(w), NEW t, ~t.struct
  PROVE  FieldsOf(w.fields, w.fields, t)
BY DEF Sim, Covers, FieldsOf

\* The space of a section is known, and the fields of a structure are.
LEMMA NamesOfSpaces ==
  ASSUME NEW w, Sim(w), NEW k \in DOMAIN sects
  PROVE  /\ SpaceOf(sects[k]) \in DOMAIN w.at /\ SectionOK(sects[k])
         /\ sects[k].struct => sects[k].name.n \in DOMAIN w.fields
BY DEF Sim, Covers

\* The simulation goes on with a new section for a new space.
LEMMA FreshStays ==
  ASSUME NEW w, Sim(w), NEW t, SectionOK(t), Empty(t), ~t.struct, t.labels_are_local = FALSE,
         \A k \in DOMAIN sects : sects[k].name # t.name,
         sects' = Append(sects, t), current_section' = Len(sects) + 1,
         NEW u, IsWorld(u), u.here = SpaceOf(t), u.inside = w.inside,
         u.at = StartingAt(w.at, SpaceOf(t), t.org), u.fields = w.fields, u.placed = w.placed,
         u.defined = w.defined, u.dsect = w.dsect, ~u.odd, u.dsects = offset_id',
         u.here.op = w.here.op \/ (Len(w.inside) = 0 /\ Plain(u.here)),
         u.here.op # "struct", Offsets(sects', offset_id'),
         UNCHANGED << dsectVars, structVars >>, labels' = labels, errors' = errors
  PROVE  Sim(u)'
<1>1. FieldsOf(w.fields, w.fields, t)
  BY NoFields
<1>2. /\ Covers(u.at, u.fields, u.placed, sects')
      /\ Grows(sects', sects) /\ Means(current_section', u.here, sects')
  BY <1>1, FreshCovers
<1>3. Locals(sects', cur_struct)
  BY AppendedKeeps DEF Sim, Covers
<1>4. labels' = u.defined /\ ~errors'
  BY DEF Sim
<1>. QED
  BY <1>2, <1>3, <1>4, Stays

\* The fields of a section.
FieldNames == {"name", "org", "pc", "unallocated", "absolute", "prevabs", "in_rorg",
               "labels_are_local", "struct", "atoms"}

\* The parts of a new section that matter.
Fresher(t, name, org, dummy, struct) ==
  /\ DOMAIN t = FieldNames /\ t.name = name /\ t.org = org /\ t.pc = org
  /\ t.unallocated = dummy /\ t.struct = struct /\ t.labels_are_local = struct
  /\ t.in_rorg = FALSE /\ t.atoms = << >>

\* A new section is well formed and empty.
LEMMA FresherOK ==
  ASSUME NEW of \in {"text", "seg", "offset", "user"}, NEW n, of = "text" => n = 0,
         NEW org \in Int, NEW dummy, NEW struct \in BOOLEAN,
         NEW t, Fresher(t, Name(of, n), org, dummy, struct), struct => of = "user",
         dummy = SpaceOf(t).dummy
  PROVE  SectionOK(t) /\ Empty(t)
<1>1. /\ DOMAIN t = FieldNames /\ t.name = Name(of, n) /\ t.org = org /\ t.pc = org
      /\ t.unallocated = dummy /\ t.struct = struct /\ t.labels_are_local = struct
      /\ t.in_rorg = FALSE /\ t.atoms = << >>
  BY DEF Fresher
<1>2. Empty(t)
  BY <1>1 DEF Empty
<1>3. t.name.of = of /\ t.name.n = n
  BY <1>1 DEF Name
<1>4. /\ t.name = Name(t.name.of, t.name.n) /\ t.name.of \in {"text", "seg", "offset", "user"}
      /\ t.name.of = "text" => t.name.n = 0
      /\ t.pc = t.org /\ t.org \in Int
  BY <1>1, <1>3
<1>5. t.struct \in BOOLEAN /\ t.labels_are_local \in BOOLEAN /\ (t.struct => t.name.of = "user")
  BY <1>1, <1>3
<1>6. t.unallocated = SpaceOf(t).dummy
  BY <1>1
<1>. QED
  BY <1>1, <1>2, <1>4, <1>5, <1>6, NewOK DEF FieldNames

\* Section k becomes t.
Put(b, k, t) == [b EXCEPT ![k] = t]

\* A section that is made and then changed is made as it will be.
LEMMA MadeLast ==
  ASSUME NEW ss, IsSeq(ss), NEW name, \A k \in DOMAIN ss : ss[k].name # name
  PROVE  \E b, k : /\ b = new_section(ss, name) /\ k = find_section(b, name)
                   /\ k = Len(ss) + 1 /\ k \in DOMAIN b /\ b[k] = Blank(name)
                   /\ \A t : Put(b, k, t) = Append(ss, t)
                   /\ \A t : t.name = name => find_section(Append(ss, t), name) = k
<1>1. new_section(ss, name) = Append(ss, Blank(name))
  BY Created
<1>2. Blank(name).name = name
  BY DEF Blank
<1>3. find_section(Append(ss, Blank(name)), name) = Len(ss) + 1
  BY <1>2, FoundLast
<1>4. /\ Len(ss) + 1 \in DOMAIN Append(ss, Blank(name))
      /\ Append(ss, Blank(name))[Len(ss) + 1] = Blank(name)
  BY Appended
<1>5. \A t : Put(Append(ss, Blank(name)), Len(ss) + 1, t) = Append(ss, t)
  BY AppendedChanged DEF Put
<1>6. \A t : t.name = name => find_section(Append(ss, t), name) = Len(ss) + 1
  BY FoundLast
<1>. QED
  BY <1>1, <1>3, <1>4, <1>5, <1>6

\* new_org() of an unused address makes a section at that address.
LEMMA NewOrgIs ==
  ASSUME NEW a, IsSeq(sects), \A k \in DOMAIN sects : sects[k].name # Name("seg", a), new_org(a)
  PROVE  \E t : /\ Fresher(t, Name("seg", a), a, FALSE, FALSE)
                /\ sects' = Append(sects, t) /\ current_section' = Len(sects) + 1
<1> DEFINE name == Name("seg", a)
<1>1. PICK b, k : /\ b = new_section(sects, name) /\ k = find_section(b, name)
                  /\ k = Len(sects) + 1 /\ k \in DOMAIN b /\ b[k] = Blank(name)
                  /\ \A t : Put(b, k, t) = Append(sects, t)
                  /\ \A t : t.name = name => find_section(Append(sects, t), name) = k
  BY MadeLast
<1> DEFINE t == [Blank(name) EXCEPT !.org = a, !.pc = a, !.absolute = TRUE]
<1>2. sects' = [b EXCEPT ![k].org = a, ![k].pc = a, ![k].absolute = TRUE]
      /\ current_section' = find_section(sects', name)
  BY <1>1 DEF new_org, set_section
<1>3. [b EXCEPT ![k].org = a, ![k].pc = a, ![k].absolute = TRUE] = Put(b, k, t)
  BY <1>1 DEF Put
<1>4. Fresher(t, name, a, FALSE, FALSE)
  BY DEF Fresher, Blank, FieldNames
<1>5. t.name = name
  BY DEF Blank
<1> HIDE DEF t
<1>6. sects' = Append(sects, t)
  BY <1>1, <1>2, <1>3
<1>7. current_section' = Len(sects) + 1
  BY <1>1, <1>2, <1>5, <1>6
<1>. QED
  BY <1>1, <1>2, <1>4, <1>6, <1>7

\* new_offset_section() makes an offset section of the next number.
LEMMA NewOffsetIs ==
  ASSUME NEW offs, IsSeq(sects),
         \A k \in DOMAIN sects : sects[k].name # Name("offset", offset_id + 1),
         new_offset_section(offs)
  PROVE  \E t : /\ Fresher(t, Name("offset", offset_id + 1), offs, TRUE, FALSE)
                /\ sects' = Append(sects, t) /\ current_section' = Len(sects) + 1
<1> DEFINE name == Name("offset", offset_id + 1)
<1>1. PICK b, k : /\ b = new_section(sects, name) /\ k = find_section(b, name)
                  /\ k = Len(sects) + 1 /\ k \in DOMAIN b /\ b[k] = Blank(name)
                  /\ \A t : Put(b, k, t) = Append(sects, t)
                  /\ \A t : t.name = name => find_section(Append(sects, t), name) = k
  BY MadeLast
<1> DEFINE t == [Blank(name) EXCEPT !.unallocated = TRUE, !.org = offs, !.pc = offs]
<1>2. sects' = [b EXCEPT ![k].unallocated = TRUE, ![k].org = offs, ![k].pc = offs]
      /\ current_section' = find_section(sects', name)
  BY <1>1 DEF new_offset_section, set_section
<1>3. [b EXCEPT ![k].unallocated = TRUE, ![k].org = offs, ![k].pc = offs] = Put(b, k, t)
  BY <1>1 DEF Put
<1>4. Fresher(t, name, offs, TRUE, FALSE)
  BY DEF Fresher, Blank, FieldNames
<1>5. t.name = name
  BY DEF Blank
<1> HIDE DEF t
<1>6. sects' = Append(sects, t)
  BY <1>1, <1>2, <1>3
<1>7. current_section' = Len(sects) + 1
  BY <1>1, <1>2, <1>5, <1>6
<1>. QED
  BY <1>1, <1>2, <1>4, <1>6, <1>7

\* handle_struct() of an unused name makes a section for the structure.
LEMMA NewStructIs ==
  ASSUME NEW n, IsSeq(sects), \A k \in DOMAIN sects : sects[k].name # Name("user", n),
         cur_struct = NULL, handle_struct(n)
  PROVE  \E t : /\ Fresher(t, Name("user", n), 0, TRUE, TRUE)
                /\ sects' = Append(sects, t) /\ current_section' = Len(sects) + 1
                /\ cur_struct' = Len(sects) + 1
<1> DEFINE name == Name("user", n)
<1>1. PICK b, k : /\ b = new_section(sects, name) /\ k = find_section(b, name)
                  /\ k = Len(sects) + 1 /\ k \in DOMAIN b /\ b[k] = Blank(name)
                  /\ \A t : Put(b, k, t) = Append(sects, t)
                  /\ \A t : t.name = name => find_section(Append(sects, t), name) = k
  BY MadeLast
<1> DEFINE t == [Blank(name) EXCEPT !.unallocated = TRUE, !.struct = TRUE,
                                    !.labels_are_local = TRUE]
<1>2. sects' = [b EXCEPT ![k].unallocated = TRUE, ![k].struct = TRUE, ![k].labels_are_local = TRUE]
      /\ current_section' = find_section(sects', name) /\ cur_struct' = k
  BY <1>1 DEF handle_struct, set_section
<1>3. [b EXCEPT ![k].unallocated = TRUE, ![k].struct = TRUE, ![k].labels_are_local = TRUE]
        = Put(b, k, t)
  BY <1>1 DEF Put
<1>4. Fresher(t, name, 0, TRUE, TRUE)
  BY DEF Fresher, Blank, FieldNames
<1>5. t.name = name
  BY DEF Blank
<1> HIDE DEF t
<1>6. sects' = Append(sects, t)
  BY <1>1, <1>2, <1>3
<1>7. current_section' = Len(sects) + 1
  BY <1>1, <1>2, <1>5, <1>6
<1>. QED
  BY <1>1, <1>2, <1>4, <1>6, <1>7

-----------------------------------------------------------------------------
(* Blocks: at most a dsect in a structure, or a structure in a dsect.      *)
LEMMA Stack ==
  ASSUME NEW w, Sim(w)
  PROVE  /\ IsSeq(w.inside) /\ Len(w.inside) \in 0 .. 2 /\ DOMAIN w.inside = 1 .. Len(w.inside)
         /\ \A k \in 1 .. Len(w.inside) : w.inside[k].op \in {"dsect", "struct"}
         /\ Len(w.inside) = 0 => Plain(w.here)
         /\ Len(w.inside) > 0 => /\ w.here.op = w.inside[Len(w.inside)].op
                                 /\ Plain(w.inside[1].from)
         /\ Len(w.inside) = 2 => /\ w.inside[2].from.op = w.inside[1].op
                                 /\ w.inside[1].op # w.inside[2].op
         /\ \A op : Within(w, op) <=> \E k \in 1 .. Len(w.inside) : w.inside[k].op = op
<1>1. InBlocks(w)
  BY DEF Sim
<1>a. IsSeq(w.inside) /\ Len(w.inside) <= 2
  BY <1>1 DEF InBlocks
<1>2. IsSeq(w.inside) /\ DOMAIN w.inside = 1 .. Len(w.inside) /\ Len(w.inside) \in Nat
  BY <1>a, NullIsNone
<1>3. Len(w.inside) \in 0 .. 2
  <2>1. \A n \in Nat : n <= 2 => n \in 0 .. 2
    OBVIOUS
  <2>. QED
    BY <1>a, <1>2, <2>1
<1>. QED
  BY <1>1, <1>2, <1>3 DEF InBlocks, Within

\* Outside of dsects and structures there is no block around.
LEMMA NoBlocks ==
  ASSUME NEW w, Sim(w), ~Within(w, "dsect"), ~Within(w, "struct")
  PROVE  Len(w.inside) = 0 /\ Plain(w.here)
BY Stack

\* u is within one block more than w.
Enters(u, w, op, block) ==
  /\ block.op = op /\ block.from = w.here
  /\ u.inside = Append(w.inside, block) /\ u.here.op = op

\* The blocks around, after one more.
LEMMA Entered ==
  ASSUME NEW w, Sim(w), NEW op \in {"dsect", "struct"}, ~Within(w, op),
         NEW u, NEW block, Enters(u, w, op, block)
  PROVE  /\ InBlocks(u) /\ Len(u.inside) = Len(w.inside) + 1 /\ Len(w.inside) \in {0, 1}
         /\ u.inside[Len(w.inside) + 1] = block
         /\ \A k \in 1 .. Len(w.inside) : /\ u.inside[k] = w.inside[k] /\ u.inside[k].op # op
                                          /\ Plain(u.inside[k].from)
         /\ \A other : Within(u, other) <=> Within(w, other) \/ other = op
<1>1. /\ IsSeq(w.inside) /\ Len(w.inside) \in 0 .. 2
      /\ \A k \in 1 .. Len(w.inside) : w.inside[k].op \in {"dsect", "struct"}
      /\ Len(w.inside) = 0 => Plain(w.here)
      /\ Len(w.inside) > 0 => /\ w.here.op = w.inside[Len(w.inside)].op
                              /\ Plain(w.inside[1].from)
      /\ Len(w.inside) = 2 => /\ w.inside[2].from.op = w.inside[1].op
                              /\ w.inside[1].op # w.inside[2].op
      /\ \A o : Within(w, o) <=> \E k \in 1 .. Len(w.inside) : w.inside[k].op = o
  BY Stack
<1>0. /\ block.op = op /\ block.from = w.here
      /\ u.inside = Append(w.inside, block) /\ u.here.op = op
  BY DEF Enters
<1>2. Len(w.inside) \in {0, 1}
  <2>1. Len(w.inside) # 2
    BY <1>1
  <2>. QED
    BY <1>1, <2>1
<1>3. /\ IsSeq(u.inside) /\ DOMAIN u.inside = DOMAIN w.inside \cup {Len(w.inside) + 1}
      /\ DOMAIN w.inside = 1 .. Len(w.inside)
      /\ u.inside[Len(w.inside) + 1] = block
      /\ \A k \in DOMAIN w.inside : u.inside[k] = w.inside[k]
  BY <1>0, <1>1, Appended
<1>4. Len(u.inside) = Len(w.inside) + 1
  BY <1>0, <1>1, Longer
<1>5. \A k \in 1 .. Len(w.inside) : /\ u.inside[k] = w.inside[k] /\ u.inside[k].op # op
                                    /\ Plain(u.inside[k].from)
  BY <1>1, <1>2, <1>3
<1>6. ASSUME NEW other PROVE Within(u, other) <=> Within(w, other) \/ other = op
  BY <1>0, <1>1, <1>3 DEF Within
<1>7. InBlocks(u)
  <2>1. CASE Len(w.inside) = 0
    <3>1. Len(u.inside) = 1 /\ u.inside[1] = block
      BY <1>3, <1>4, <2>1
    <3>2. Plain(w.here) /\ block.op \in {"dsect", "struct"}
      BY <1>0, <1>1, <2>1
    <3>. QED
      BY <1>0, <1>3, <3>1, <3>2 DEF InBlocks
  <2>2. CASE Len(w.inside) = 1
    <3>1. Len(u.inside) = 2 /\ u.inside[2] = block /\ u.inside[1] = w.inside[1]
      BY <1>3, <1>4, <2>2
    <3>2. /\ w.inside[1].op \in {"dsect", "struct"} /\ w.inside[1].op # op
          /\ w.here.op = w.inside[1].op /\ Plain(w.inside[1].from)
      BY <1>1, <2>2
    <3>3. \A k \in 1 .. 2 : k = 1 \/ k = 2
      OBVIOUS
    <3>. QED
      BY <1>0, <1>3, <3>1, <3>2, <3>3 DEF InBlocks
  <2>. QED
    BY <1>2, <2>1, <2>2
<1>. QED
  BY <1>2, <1>3, <1>4, <1>5, <1>6, <1>7

\* u is outside of the innermost block of w.
Leaves(u, w) ==
  /\ u.inside = SubSeq(w.inside, 1, Len(w.inside) - 1)
  /\ u.here = w.inside[Len(w.inside)].from

\* The blocks around, after one less.
LEMMA Left ==
  ASSUME NEW w, Sim(w), NEW op, Innermost(w) = op, op # "none", NEW u, Leaves(u, w)
  PROVE  /\ InBlocks(u) /\ Len(w.inside) \in {1, 2} /\ Len(u.inside) = Len(w.inside) - 1
         /\ w.inside[Len(w.inside)].op = op /\ w.here.op = op /\ op \in {"dsect", "struct"}
         /\ Within(w, op)
         /\ \A k \in 1 .. Len(u.inside) : /\ k \in 1 .. Len(w.inside) /\ u.inside[k] = w.inside[k]
                                          /\ u.inside[k].op # op /\ Plain(u.inside[k].from)
         /\ \A other : Within(u, other) <=> Within(w, other) /\ other # op
<1>1. /\ IsSeq(w.inside) /\ Len(w.inside) \in 0 .. 2 /\ DOMAIN w.inside = 1 .. Len(w.inside)
      /\ \A k \in 1 .. Len(w.inside) : w.inside[k].op \in {"dsect", "struct"}
      /\ Len(w.inside) > 0 => /\ w.here.op = w.inside[Len(w.inside)].op
                              /\ Plain(w.inside[1].from)
      /\ Len(w.inside) = 2 => /\ w.inside[2].from.op = w.inside[1].op
                              /\ w.inside[1].op # w.inside[2].op
      /\ \A o : Within(w, o) <=> \E k \in 1 .. Len(w.inside) : w.inside[k].op = o
  BY Stack
<1>0. /\ u.inside = SubSeq(w.inside, 1, Len(w.inside) - 1)
      /\ u.here = w.inside[Len(w.inside)].from
  BY DEF Leaves
<1>2. w.inside # << >> /\ w.inside[Len(w.inside)].op = op
  BY DEF Innermost
<1>3. Len(w.inside) \in {1, 2}
  <2>1. Len(w.inside) # 0
    BY <1>1, <1>2, EmptySeq DEF IsSeq
  <2>. QED
    BY <1>1, <2>1
<1>4. /\ IsSeq(u.inside) /\ Len(u.inside) = Len(w.inside) - 1
      /\ \A k \in 1 .. (Len(w.inside) - 1) : u.inside[k] = w.inside[k]
  <2> DEFINE S == { w.inside[k] : k \in 1 .. Len(w.inside) }
  <2>1. w.inside \in Seq(S)
    BY <1>1 DEF IsSeq
  <2> HIDE DEF S
  <2>2. u.inside \in Seq(S) /\ Len(u.inside) = Len(w.inside) - 1
        /\ \A k \in 1 .. (Len(w.inside) - 1) : u.inside[k] = w.inside[k]
    BY <1>0, <1>2, <2>1, PopTop
  <2>. QED
    BY <2>2, SeqIsSeq
<1>5. /\ w.here.op = op /\ op \in {"dsect", "struct"} /\ Within(w, op)
  BY <1>1, <1>2, <1>3
<1>6. \A k \in 1 .. Len(u.inside) : /\ k \in 1 .. Len(w.inside) /\ u.inside[k] = w.inside[k]
                                    /\ u.inside[k].op # op /\ Plain(u.inside[k].from)
  <2> TAKE k \in 1 .. Len(u.inside)
  <2>1. Len(w.inside) = 2 /\ k = 1
    <3>1. \A n \in {1, 2} : \A m : m = n - 1 /\ k \in 1 .. m => n = 2 /\ k = 1
      OBVIOUS
    <3>. QED
      BY <1>3, <1>4, <3>1
  <2>. QED
    BY <1>1, <1>2, <1>4, <2>1
<1>7. DOMAIN u.inside = 1 .. Len(u.inside)
  BY <1>4, NullIsNone
<1>8. ASSUME NEW other PROVE Within(u, other) <=> Within(w, other) /\ other # op
  <2>1. \A k \in 1 .. Len(w.inside) : k = Len(w.inside) \/ k \in 1 .. Len(u.inside)
    BY <1>3, <1>4
  <2>2. Within(u, other) <=> \E k \in 1 .. Len(u.inside) : u.inside[k].op = other
    BY <1>7 DEF Within
  <2>. QED
    BY <1>1, <1>2, <1>6, <2>1, <2>2
<1>9. InBlocks(u)
  <2>1. CASE Len(w.inside) = 1
    <3>1. Len(u.inside) = 0 /\ Plain(u.here)
      BY <1>0, <1>1, <1>4, <2>1
    <3>2. /\ 0 <= 2 /\ ~(0 = 2) /\ ~(0 > 0) /\ \A k \in 1 .. 0 : FALSE
      OBVIOUS
    <3>. QED
      BY <1>4, <3>1, <3>2 DEF InBlocks
  <2>2. CASE Len(w.inside) = 2
    <3>1. Len(u.inside) = 1 /\ u.inside[1] = w.inside[1]
      BY <1>4, <2>2
    <3>2. /\ u.here.op = u.inside[1].op /\ Plain(u.inside[1].from)
          /\ u.inside[1].op \in {"dsect", "struct"}
      BY <1>0, <1>1, <2>2, <3>1
    <3>3. /\ 1 <= 2 /\ 1 # 2 /\ ~(1 = 0) /\ 1 > 0
          /\ \A k \in 1 .. 1 : k = 1
      OBVIOUS
    <3>. QED
      BY <1>4, <3>1, <3>2, <3>3 DEF InBlocks
  <2>. QED
    BY <1>3, <2>1, <2>2
<1>. QED
  BY <1>2, <1>3, <1>4, <1>5, <1>6, <1>8, <1>9

-----------------------------------------------------------------------------
(* A new address space outside of blocks, or inside a dsect.               *)
\* What a line that starts a new section leaves alone.
StaysIn(u, w) ==
  /\ IsWorld(u) /\ u.inside = w.inside /\ u.fields = w.fields /\ u.placed = w.placed
  /\ u.defined = w.defined /\ u.dsect = w.dsect /\ ~u.odd

\* org starts a space at its address.
LEMMA OrgPlaces ==
  ASSUME NEW w, Sim(w), ~Within(w, "dsect"), ~Within(w, "struct"),
         NEW a \in Int, Orged(a) \notin DOMAIN w.at, handle_org(a), labels' = labels
  PROVE  Sim(Fresh(w, Orged(a), a))'
<1>1. Len(w.inside) = 0 /\ Plain(w.here)
  BY NoBlocks
<1>2. /\ IsWorld(w) /\ ~dsect_active /\ IsSeq(sects) /\ ~w.odd /\ labels = w.defined
      /\ offset_id = w.dsects /\ Offsets(sects, offset_id)
  BY DEF Sim, Returns, Covers
<1>3. \A k \in DOMAIN sects : sects[k].name # Name("seg", a)
  <2> SUFFICES ASSUME NEW k \in DOMAIN sects, sects[k].name = Name("seg", a) PROVE FALSE
    OBVIOUS
  <2>1. SpaceOf(sects[k]) = Orged(a)
    BY DEF SpaceOf, Name
  <2>2. SpaceOf(sects[k]) \in DOMAIN w.at
    BY NamesOfSpaces
  <2>. QED
    BY <2>1, <2>2
<1>4. /\ new_org(a) /\ offset_id' = offset_id /\ UNCHANGED << dsectVars, structVars >>
      /\ errors' = errors
  BY <1>2 DEF handle_org
<1>5. PICK t : /\ Fresher(t, Name("seg", a), a, FALSE, FALSE)
               /\ sects' = Append(sects, t) /\ current_section' = Len(sects) + 1
  BY <1>2, <1>3, <1>4, NewOrgIs
<1>6. /\ t.name = Name("seg", a) /\ t.org = a /\ t.struct = FALSE /\ t.labels_are_local = FALSE
  BY <1>5 DEF Fresher
<1>7. SpaceOf(t) = Orged(a) /\ FALSE = SpaceOf(t).dummy
  BY <1>6 DEF SpaceOf, Name, Orged, Space
<1>8. SectionOK(t) /\ Empty(t)
  <2>1. FALSE \in BOOLEAN /\ (FALSE => "seg" = "user") /\ ("seg" = "text" => a = 0)
        /\ "seg" \in {"text", "seg", "offset", "user"}
    OBVIOUS
  <2>. QED
    BY <1>5, <1>7, <2>1, FresherOK
<1>9. PICK u : u = Fresh(w, Orged(a), a)
  OBVIOUS
<1>10. /\ StaysIn(u, w) /\ u.here = SpaceOf(t) /\ u.dsects = offset_id'
       /\ u.at = StartingAt(w.at, SpaceOf(t), t.org)
  BY <1>2, <1>4, <1>6, <1>7, <1>9 DEF Fresh, StartingAt, IsWorld, StaysIn
<1>11. Plain(u.here) /\ u.here.op # "struct"
  BY <1>7, <1>10 DEF Plain, Orged, Space
<1>12. Offsets(sects', offset_id')
  <2>1. t.name.of # "offset"
    BY <1>6 DEF Name
  <2>. QED
    BY <1>2, <1>4, <1>5, <2>1, AppendedKeeps
<1>13. \A k \in DOMAIN sects : sects[k].name # t.name
  BY <1>3, <1>6
<1>14. Sim(u)'
  BY <1>1, <1>4, <1>5, <1>6, <1>8, <1>10, <1>11, <1>12, <1>13, FreshStays DEF StaysIn
<1>. QED
  BY <1>9, <1>14

\* A new offset section.
OffsetMade(t, offs) ==
  /\ SectionOK(t) /\ Empty(t) /\ t.org = offs /\ ~t.struct /\ t.labels_are_local = FALSE
  /\ SpaceOf(t) = Dsect(offset_id + 1) /\ \A k \in DOMAIN sects : sects[k].name # t.name
  /\ sects' = Append(sects, t) /\ current_section' = Len(sects) + 1
  /\ Offsets(sects', offset_id + 1)

\* The section of a dsect, or of an org in one.
LEMMA OffsetStarts ==
  ASSUME NEW w, Sim(w), NEW offs \in Int, new_offset_section(offs)
  PROVE  (\E t : OffsetMade(t, offs)) /\ offset_id' = offset_id + 1
<1>1. PICK id : id = offset_id + 1
  OBVIOUS
<1>2. IsSeq(sects) /\ Offsets(sects, offset_id)
  BY DEF Sim, Covers
<1>3. id \in Nat /\ offset_id \in Nat
  BY <1>1, <1>2 DEF Offsets
<1>4. \A k \in DOMAIN sects : sects[k].name # Name("offset", id)
  <2> SUFFICES ASSUME NEW k \in DOMAIN sects, sects[k].name = Name("offset", id) PROVE FALSE
    OBVIOUS
  <2>1. sects[k].name.of = "offset" /\ sects[k].name.n = id
    BY DEF Name
  <2>2. id \in 1 .. offset_id
    BY <1>2, <2>1 DEF Offsets
  <2>. QED
    BY <1>1, <1>3, <2>2
<1>5. PICK t : /\ Fresher(t, Name("offset", id), offs, TRUE, FALSE)
               /\ sects' = Append(sects, t) /\ current_section' = Len(sects) + 1
  BY <1>1, <1>2, <1>4, NewOffsetIs
<1>6. /\ t.name = Name("offset", id) /\ t.org = offs /\ t.struct = FALSE
      /\ t.labels_are_local = FALSE
  BY <1>5 DEF Fresher
<1>7. SpaceOf(t) = Dsect(id) /\ TRUE = SpaceOf(t).dummy
  BY <1>6 DEF SpaceOf, Name, Dsect, Space
<1>8. SectionOK(t) /\ Empty(t)
  <2>1. FALSE \in BOOLEAN /\ (FALSE => "offset" = "user") /\ ("offset" = "text" => id = 0)
        /\ "offset" \in {"text", "seg", "offset", "user"}
    OBVIOUS
  <2>. QED
    BY <1>5, <1>7, <2>1, FresherOK
<1>9. Offsets(sects', id)
  <2>1. /\ DOMAIN sects' = DOMAIN sects \cup {Len(sects) + 1} /\ sects'[Len(sects) + 1] = t
        /\ \A k \in DOMAIN sects : sects'[k] = sects[k]
    BY <1>2, <1>5, Appended
  <2>2. t.name.n \in 1 .. id
    BY <1>3, <1>6, <1>1 DEF Name
  <2>3. \A n \in 1 .. offset_id : n \in 1 .. id
    BY <1>1, <1>3
  <2>4. \A k \in DOMAIN sects : sects[k].name.of = "offset" => sects[k].name.n \in 1 .. id
    BY <1>2, <2>3 DEF Offsets
  <2>. QED
    BY <1>3, <2>1, <2>2, <2>4 DEF Offsets
<1>10. OffsetMade(t, offs)
  BY <1>1, <1>4, <1>5, <1>6, <1>7, <1>8, <1>9 DEF OffsetMade
<1>11. offset_id' = offset_id + 1
  BY DEF new_offset_section
<1>. QED
  BY <1>10, <1>11

\* org in a dsect goes on in a dummy space at its address.
LEMMA OrgInDsectPlaces ==
  ASSUME NEW w, Sim(w), Within(w, "dsect"), ~Within(w, "struct"),
         NEW a \in Int, handle_org(a), labels' = labels
  PROVE  Sim(PlaceDsect(w, a))'
<1>1. /\ IsWorld(w) /\ dsect_active /\ ~w.odd /\ labels = w.defined /\ offset_id = w.dsects
  BY DEF Sim, Returns
<1>2. w.here.op = "dsect"
  <2>1. /\ \A k \in 1 .. Len(w.inside) : w.inside[k].op \in {"dsect", "struct"}
        /\ Len(w.inside) \in 0 .. 2 /\ DOMAIN w.inside = 1 .. Len(w.inside)
        /\ Len(w.inside) > 0 => w.here.op = w.inside[Len(w.inside)].op
        /\ \A op : Within(w, op) <=> \E k \in 1 .. Len(w.inside) : w.inside[k].op = op
    BY Stack
  <2>2. Len(w.inside) > 0 /\ Len(w.inside) \in 1 .. Len(w.inside)
    BY <2>1
  <2>3. w.inside[Len(w.inside)].op # "struct"
    BY <2>1, <2>2
  <2>. QED
    BY <2>1, <2>2, <2>3
<1>3. /\ new_offset_section(a) /\ UNCHANGED << dsectVars, structVars >> /\ errors' = errors
  BY <1>1 DEF handle_org
<1>4. (\E t : OffsetMade(t, a)) /\ offset_id' = offset_id + 1
  BY <1>3, OffsetStarts
<1>5. PICK t : OffsetMade(t, a)
  BY <1>4
<1>6. PICK u : u = PlaceDsect(w, a)
  OBVIOUS
<1>7. SpaceOf(t) = Dsect(w.dsects + 1) /\ t.org = a
  BY <1>1, <1>5 DEF OffsetMade
<1>8. /\ StaysIn(u, w) /\ u.here = SpaceOf(t) /\ u.dsects = offset_id'
      /\ u.at = StartingAt(w.at, SpaceOf(t), t.org)
  BY <1>1, <1>4, <1>6, <1>7 DEF PlaceDsect, Fresh, StartingAt, IsWorld, StaysIn
<1>9. u.here.op = w.here.op /\ u.here.op # "struct"
  BY <1>2, <1>7, <1>8 DEF Dsect, Space
<1>10. Sim(u)'
  BY <1>3, <1>4, <1>5, <1>8, <1>9, FreshStays DEF StaysIn, OffsetMade
<1>. QED
  BY <1>6, <1>10

-----------------------------------------------------------------------------
(* section, dsect and dend.                                                *)
LEMMA NamedUser ==
  ASSUME NEW w, Sim(w), NEW n, n \notin DOMAIN w.fields, NEW k \in DOMAIN sects
  PROVE  SpaceOf(sects[k]) = Named(n) <=> sects[k].name = Name("user", n)
<1>1. SectionOK(sects[k]) /\ (sects[k].struct => sects[k].name.n \in DOMAIN w.fields)
  BY NamesOfSpaces
<1>2. PICK s : s = sects[k]
  OBVIOUS
<1>3. s.name = Name(s.name.of, s.name.n) /\ s.name.of \in {"text", "seg", "offset", "user"}
  BY <1>1, <1>2 DEF SectionOK
<1>4. ASSUME SpaceOf(s) = Named(n) PROVE s.name = Name("user", n)
  <2>1. SpaceOf(s).op = "section" /\ SpaceOf(s).n = n
    BY <1>4 DEF Named, Space
  <2>2. s.name.of = "user" /\ s.name.n = n
    BY <1>3, <2>1 DEF SpaceOf, TextSpace, Orged, Dsect, Struct, Named, Space
  <2>. QED
    BY <1>3, <2>2
<1>5. ASSUME s.name = Name("user", n) PROVE SpaceOf(s) = Named(n)
  <2>1. s.name.of = "user" /\ s.name.n = n
    BY <1>5 DEF Name
  <2>2. ~s.struct
    BY <1>1, <1>2, <2>1
  <2>. QED
    BY <2>1, <2>2 DEF SpaceOf
<1>. QED
  BY <1>2, <1>4, <1>5

\* section goes to the space of that name, with the counter it was left with.
LEMMA SectionPlaces ==
  ASSUME NEW w, Sim(w), w.inside = << >>, NEW n, n \notin DOMAIN w.fields,
         handle_section(n), labels' = labels, NEW u,
         u = IF Named(n) \in DOMAIN w.at THEN [w EXCEPT !.here = Named(n)]
             ELSE Fresh(w, Named(n), 0)
  PROVE  Sim(u)'
<1>1. /\ IsWorld(w) /\ IsSeq(sects) /\ Unique(sects) /\ ~w.odd /\ labels = w.defined
      /\ offset_id = w.dsects /\ Offsets(sects, offset_id) /\ Locals(sects, cur_struct)
      /\ Covers(w.at, w.fields, w.placed, sects) /\ ~errors
  BY DEF Sim, Covers, Unique
<1>2. Len(w.inside) = 0 /\ Plain(Named(n)) /\ Named(n).op # "struct"
  BY EmptySeq DEF Plain, Named, Space
<1>3. PICK name : name = Name("user", n)
  OBVIOUS
<1>4. /\ sects' = new_section(sects, name)
      /\ current_section' = find_section(new_section(sects, name), name)
      /\ UNCHANGED << dsectVars, structVars >> /\ offset_id' = offset_id /\ errors' = errors
  BY <1>3 DEF handle_section, set_section
<1>5. \A k \in DOMAIN sects : SpaceOf(sects[k]) = Named(n) <=> sects[k].name = name
  BY <1>3, NamedUser
<1>6. CASE Named(n) \in DOMAIN w.at
  <2>1. Named(n) # TextSpace
    BY DEF Named, TextSpace, Space
  <2>2. PICK k \in DOMAIN sects : SpaceOf(sects[k]) = Named(n)
    BY <1>1, <1>6, <2>1 DEF Covers
  <2>3. sects[k].name = name
    BY <1>5, <2>2
  <2>4. find_section(sects, name) = k /\ new_section(sects, name) = sects
    BY <1>1, <2>3, Found
  <2>5. sects' = sects /\ current_section' = k
    BY <1>4, <2>4
  <2>6. u = [w EXCEPT !.here = Named(n)]
    BY <1>6
  <2>7. /\ StaysIn(u, w) /\ u.here = Named(n) /\ u.dsects = w.dsects /\ u.at = w.at
    BY <1>1, <2>6 DEF IsWorld, StaysIn
  <2>8. Covers(u.at, u.fields, u.placed, sects')
    BY <1>1, <2>5, <2>7 DEF StaysIn
  <2>9. Means(current_section', u.here, sects') /\ Grows(sects', sects)
    BY <2>2, <2>5, <2>7 DEF Means, Grows
  <2>10. Locals(sects', cur_struct) /\ Offsets(sects', offset_id')
    BY <1>1, <1>4, <2>5
  <2>. QED
    BY <1>1, <1>2, <1>4, <2>7, <2>8, <2>9, <2>10, Stays DEF StaysIn
<1>7. CASE Named(n) \notin DOMAIN w.at
  <2>1. \A k \in DOMAIN sects : sects[k].name # name
    BY <1>5, <1>7, NamesOfSpaces
  <2>2. PICK t : t = Blank(name)
    OBVIOUS
  <2>3. sects' = Append(sects, t)
    BY <1>1, <1>4, <2>1, <2>2, Created
  <2>4. Fresher(t, name, 0, FALSE, FALSE)
    BY <2>2 DEF Fresher, Blank, FieldNames
  <2>5. /\ t.name = name /\ t.org = 0 /\ t.struct = FALSE /\ t.labels_are_local = FALSE
    BY <2>4 DEF Fresher
  <2>6. SpaceOf(t) = Named(n) /\ FALSE = SpaceOf(t).dummy
    BY <1>3, <2>5 DEF SpaceOf, Name, Named, Space
  <2>7. SectionOK(t) /\ Empty(t)
    <3>1. FALSE \in BOOLEAN /\ (FALSE => "user" = "user") /\ ("user" = "text" => n = 0)
          /\ "user" \in {"text", "seg", "offset", "user"} /\ 0 \in Int
      OBVIOUS
    <3>. QED
      BY <1>3, <2>4, <2>6, <3>1, FresherOK
  <2>8. current_section' = Len(sects) + 1
    <3>1. new_section(sects, name) = Append(sects, t)
      BY <1>4, <2>3
    <3>2. find_section(Append(sects, t), name) = Len(sects) + 1
      BY <1>1, <2>1, <2>5, FoundLast
    <3>. QED
      BY <1>4, <3>1, <3>2
  <2>9. u = Fresh(w, Named(n), 0)
    BY <1>7
  <2>10. /\ StaysIn(u, w) /\ u.here = SpaceOf(t) /\ u.dsects = offset_id'
         /\ u.at = StartingAt(w.at, SpaceOf(t), t.org)
    <3>1. /\ StaysIn(u, w) /\ u.here = Named(n) /\ u.dsects = w.dsects
          /\ u.at = StartingAt(w.at, Named(n), 0)
      BY <1>1, <2>9 DEF Fresh, StartingAt, IsWorld, StaysIn
    <3>. QED
      BY <1>1, <1>4, <2>5, <2>6, <3>1
  <2>11. Offsets(sects', offset_id')
    <3>1. t.name.of # "offset"
      BY <1>3, <2>5 DEF Name
    <3>. QED
      BY <1>1, <1>4, <2>3, <3>1, AppendedKeeps
  <2>12. Plain(u.here) /\ u.here.op # "struct" /\ \A k \in DOMAIN sects : sects[k].name # t.name
    BY <1>2, <2>1, <2>5, <2>6, <2>10
  <2>. QED
    BY <1>2, <1>4, <2>3, <2>5, <2>7, <2>8, <2>10, <2>11, <2>12, FreshStays DEF StaysIn
<1>. QED
  BY <1>6, <1>7

\* dsect goes on where the last one ended, in a dummy space.
LEMMA DsectPlaces ==
  ASSUME NEW w, Sim(w), ~Within(w, "dsect"), handle_dsect, labels' = labels,
         NEW u, u = PlaceDsect(Enter(w, "dsect"), w.dsect)
  PROVE  Sim(u)'
<1>1. /\ IsWorld(w) /\ ~dsect_active /\ IsSeq(sects) /\ ~w.odd /\ labels = w.defined
      /\ offset_id = w.dsects /\ Locals(sects, cur_struct) /\ ~errors
      /\ dsect_offs = w.dsect /\ dsect_offs \in Int /\ Means(current_section, w.here, sects)
  BY DEF Sim, Returns, Covers
<1>2. /\ new_offset_section(dsect_offs) /\ dsect_active' /\ last_alloc_sect' = current_section
      /\ ~errors' /\ dsect_offs' = dsect_offs
      /\ cur_struct' = cur_struct /\ struct_prevsect' = struct_prevsect
  <2>1. new_offset_section(dsect_offs) /\ dsect_active' = TRUE
    BY DEF handle_dsect
  <2>2. last_alloc_sect' = current_section /\ dsect_offs' = dsect_offs
    BY <1>1 DEF handle_dsect
  <2>3. errors' = (errors \/ dsect_active)
    BY DEF handle_dsect
  <2>4. cur_struct' = cur_struct /\ struct_prevsect' = struct_prevsect
    BY DEF handle_dsect, structVars
  <2>. QED
    BY <1>1, <2>1, <2>2, <2>3, <2>4
<1>3. PICK t : OffsetMade(t, dsect_offs)
  BY <1>1, <1>2, OffsetStarts
<1>4. offset_id' = offset_id + 1
  BY <1>1, <1>2, OffsetStarts
<1>5. /\ SectionOK(t) /\ Empty(t) /\ t.org = w.dsect /\ ~t.struct /\ t.labels_are_local = FALSE
      /\ SpaceOf(t) = Dsect(w.dsects + 1) /\ \A k \in DOMAIN sects : sects[k].name # t.name
      /\ sects' = Append(sects, t) /\ current_section' = Len(sects) + 1
      /\ Offsets(sects', offset_id + 1)
  BY <1>1, <1>3 DEF OffsetMade
<1>6. PICK block : block = [op |-> "dsect", from |-> w.here]
  OBVIOUS
<1>7. /\ IsWorld(u) /\ u.here = SpaceOf(t) /\ u.inside = Append(w.inside, block)
      /\ u.at = StartingAt(w.at, SpaceOf(t), t.org) /\ u.fields = w.fields
      /\ u.placed = w.placed /\ u.defined = w.defined /\ u.dsect = w.dsect /\ ~u.odd
      /\ u.dsects = offset_id'
  BY <1>1, <1>4, <1>5, <1>6 DEF PlaceDsect, Enter, Fresh, StartingAt, IsWorld
<1>8. u.here.op = "dsect" /\ block.op = "dsect" /\ block.from = w.here
  BY <1>5, <1>6, <1>7 DEF Dsect, Space
<1>9. /\ InBlocks(u) /\ Len(u.inside) = Len(w.inside) + 1 /\ Len(w.inside) \in {0, 1}
      /\ u.inside[Len(w.inside) + 1] = block
      /\ \A k \in 1 .. Len(w.inside) : /\ u.inside[k] = w.inside[k] /\ u.inside[k].op # "dsect"
                                       /\ Plain(u.inside[k].from)
      /\ \A other : Within(u, other) <=> Within(w, other) \/ other = "dsect"
  <2>1. Enters(u, w, "dsect", block) /\ "dsect" \in {"dsect", "struct"}
    BY <1>7, <1>8 DEF Enters
  <2>. QED
    BY <2>1, Entered
<1>10. FieldsOf(w.fields, w.fields, t)
  BY <1>5, NoFields
<1>11. /\ Covers(StartingAt(w.at, SpaceOf(t), t.org), w.fields, w.placed, sects')
       /\ Grows(sects', sects) /\ Means(Len(sects) + 1, SpaceOf(t), sects')
  BY <1>5, <1>10, FreshCovers
<1>12. Locals(sects', cur_struct)
  BY <1>1, <1>5, AppendedKeeps
<1>13. Returns(u)'
  <2>1. (cur_struct # NULL <=> Within(w, "struct"))
        /\ (w.here.op = "struct" => current_section = cur_struct)
        /\ \A k \in 1 .. Len(w.inside) :
             w.inside[k].op = "struct" => Means(struct_prevsect, w.inside[k].from, sects)
    BY DEF Sim, Returns
  <2>2. ASSUME NEW k \in 1 .. Len(u.inside)
        PROVE  /\ u.inside[k].op = "dsect"  => Means(last_alloc_sect', u.inside[k].from, sects')
               /\ u.inside[k].op = "struct" => Means(struct_prevsect', u.inside[k].from, sects')
               /\ u.inside[k].from.op = "struct" => last_alloc_sect' = cur_struct'
    <3>1. CASE k \in 1 .. Len(w.inside)
      <4>1. /\ u.inside[k] = w.inside[k] /\ u.inside[k].op # "dsect"
            /\ u.inside[k].from.op # "struct"
        BY <1>9, <3>1 DEF Plain
      <4>. QED
        BY <1>2, <1>11, <2>1, <3>1, <4>1, GrownMeans
    <3>2. CASE k = Len(w.inside) + 1
      <4>1. u.inside[k].op = "dsect" /\ u.inside[k].from = w.here
        BY <1>8, <1>9, <3>2
      <4>. QED
        BY <1>1, <1>2, <1>11, <2>1, <4>1, GrownMeans
    <3>3. k \in 1 .. Len(w.inside) \/ k = Len(w.inside) + 1
      BY <1>9
    <3>. QED
      BY <3>1, <3>2, <3>3
  <2>3. u.here.op # "struct"
    BY <1>8
  <2>4. Within(u, "dsect") /\ (Within(u, "struct") <=> Within(w, "struct"))
    BY <1>9
  <2>. QED
    BY <1>2, <2>1, <2>2, <2>3, <2>4 DEF Returns
<1>14. Means(current_section', u.here, sects')
  BY <1>5, <1>7, <1>11
<1>. QED
  BY <1>1, <1>2, <1>4, <1>5, <1>7, <1>9, <1>11, <1>12, <1>13, <1>14 DEF Sim

\* What dend means.
DsectLeft(w) == [Leave(w) EXCEPT !.dsect = Back(Here(w)).pc]

\* dend returns to the space before, also from relocated blocks and structures within.
LEMMA DendPlaces ==
  ASSUME NEW w, Sim(w), Innermost(w) = "dsect", handle_dend, labels' = labels,
         NEW u, u = DsectLeft(w)
  PROVE  Sim(u)' /\ outcome' = outcome
<1>1. /\ IsWorld(w) /\ ~w.odd /\ labels = w.defined /\ offset_id = w.dsects
      /\ Locals(sects, cur_struct) /\ Offsets(sects, offset_id) /\ ~errors
      /\ Means(current_section, w.here, sects) /\ Covers(w.at, w.fields, w.placed, sects)
      /\ Returns(w)
  BY DEF Sim
<1>2. PICK last : last = w.inside[Len(w.inside)]
  OBVIOUS
<1>3. /\ IsWorld(u) /\ u.here = last.from /\ u.inside = SubSeq(w.inside, 1, Len(w.inside) - 1)
      /\ u.at = w.at /\ u.fields = w.fields /\ u.placed = w.placed /\ u.defined = w.defined
      /\ u.dsect = Back(Here(w)).pc /\ ~u.odd /\ u.dsects = w.dsects
  BY <1>1, <1>2 DEF DsectLeft, Leave, IsWorld
<1>4. /\ InBlocks(u) /\ Len(w.inside) \in {1, 2} /\ Len(u.inside) = Len(w.inside) - 1
      /\ last.op = "dsect" /\ w.here.op = "dsect" /\ Within(w, "dsect")
      /\ \A k \in 1 .. Len(u.inside) : /\ k \in 1 .. Len(w.inside) /\ u.inside[k] = w.inside[k]
                                       /\ u.inside[k].op # "dsect" /\ Plain(u.inside[k].from)
      /\ \A other : Within(u, other) <=> Within(w, other) /\ other # "dsect"
  <2>1. PICK op : op = "dsect"
    OBVIOUS
  <2>2. Leaves(u, w) /\ Innermost(w) = op /\ op # "none"
    BY <1>2, <1>3, <2>1 DEF Leaves
  <2>3. /\ InBlocks(u) /\ Len(w.inside) \in {1, 2} /\ Len(u.inside) = Len(w.inside) - 1
        /\ w.inside[Len(w.inside)].op = op /\ w.here.op = op /\ op \in {"dsect", "struct"}
        /\ Within(w, op)
        /\ \A k \in 1 .. Len(u.inside) : /\ k \in 1 .. Len(w.inside)
                                         /\ u.inside[k] = w.inside[k]
                                         /\ u.inside[k].op # op /\ Plain(u.inside[k].from)
        /\ \A other : Within(u, other) <=> Within(w, other) /\ other # op
    BY <2>2, Left
  <2>. QED
    BY <1>2, <2>1, <2>3
<1>5. dsect_active /\ current_section # NULL /\ current_section \in DOMAIN sects
      /\ SpaceOf(sects[current_section]) = w.here
  <2>1. w.here # TextSpace
    BY <1>4 DEF TextSpace, Space
  <2>2. NULL \notin DOMAIN sects
    BY <1>1, NullIsNone DEF Covers
  <2>. QED
    BY <1>1, <1>4, <2>1, <2>2 DEF Returns, Means
<1>6. /\ dsect_offs' = sects[current_section].pc /\ current_section' = last_alloc_sect
      /\ ~dsect_active' /\ sects' = sects /\ cur_struct' = cur_struct
      /\ struct_prevsect' = struct_prevsect /\ offset_id' = offset_id /\ errors' = errors
      /\ outcome' = outcome
  BY <1>5 DEF handle_dend, misplaced, follows_null, structVars
<1>7. Len(w.inside) \in 1 .. Len(w.inside)
  BY <1>4
<1>8. /\ Means(last_alloc_sect, last.from, sects)
      /\ last.from.op = "struct" => last_alloc_sect = cur_struct
  BY <1>1, <1>2, <1>4, <1>7 DEF Returns
<1>9. dsect_offs' = u.dsect /\ dsect_offs' \in Int
  <2>1. PICK s : s = sects[current_section]
    OBVIOUS
  <2>2. SectionOK(s) /\ Here(w) = CounterOf(s)
    BY <1>1, <1>5, <2>1 DEF Covers, Here
  <2>3. s.pc = Reached(s).pc + Reached(s).shift /\ Reached(s) \in [pc : Int, shift : Int]
    BY <2>2 DEF SectionOK
  <2>4. s.pc \in Int
    BY <2>3
  <2>5. Back(CounterOf(s)).pc = Reached(s).pc + Reached(s).shift
    BY DEF Back, CounterOf, Counter
  <2>. QED
    BY <1>3, <1>6, <2>1, <2>2, <2>3, <2>4, <2>5
<1>10. Returns(u)'
  <2>1. ASSUME NEW k \in 1 .. Len(u.inside)
        PROVE  /\ u.inside[k].op = "dsect"  => Means(last_alloc_sect', u.inside[k].from, sects')
               /\ u.inside[k].op = "struct" => Means(struct_prevsect', u.inside[k].from, sects')
               /\ u.inside[k].from.op = "struct" => last_alloc_sect' = cur_struct'
    BY <1>1, <1>4, <1>6 DEF Returns, Plain
  <2>2. u.here.op = "struct" => current_section' = cur_struct'
    BY <1>3, <1>6, <1>8
  <2>3. ~Within(u, "dsect") /\ (Within(u, "struct") <=> Within(w, "struct"))
    BY <1>4
  <2>4. cur_struct # NULL <=> Within(w, "struct")
    BY <1>1 DEF Returns
  <2>. QED
    BY <1>6, <2>1, <2>2, <2>3, <2>4 DEF Returns
<1>11. Means(current_section', u.here, sects')
  BY <1>3, <1>6, <1>8
<1>. QED
  BY <1>1, <1>3, <1>4, <1>6, <1>9, <1>10, <1>11 DEF Sim

-----------------------------------------------------------------------------
(* struct and endstruct.                                                   *)
\* Section t is a structure that has no fields yet.
LEMMA StructFields ==
  ASSUME NEW w, Sim(w), NEW n, n \notin DOMAIN w.fields, NEW t, t.struct, t.name.n = n,
         NEW fields,
         fields = [m \in DOMAIN w.fields \cup {n} |-> IF m = n THEN << >> ELSE w.fields[m]]
  PROVE  FieldsOf(fields, w.fields, t)
BY DEF FieldsOf

\* What struct means.
StructEntered(w, n) == Fielded(Fresh(Enter(w, "struct"), Struct(n), 0), n, << >>)

\* struct starts a dummy space at 0.
LEMMA StructPlaces ==
  ASSUME NEW w, Sim(w), ~Within(w, "struct"), NEW n, n \notin DOMAIN w.fields,
         Named(n) \notin DOMAIN w.at, handle_struct(n), labels' = labels,
         NEW u, u = StructEntered(w, n)
  PROVE  Sim(u)'
<1>1. /\ IsWorld(w) /\ IsSeq(sects) /\ ~w.odd /\ labels = w.defined
      /\ offset_id = w.dsects /\ Locals(sects, cur_struct) /\ Offsets(sects, offset_id)
      /\ ~errors /\ dsect_offs = w.dsect /\ dsect_offs \in Int
      /\ Means(current_section, w.here, sects)
  BY DEF Sim, Covers
<1>2. cur_struct = NULL /\ w.here.op # "struct"
  BY NotInStruct
<1>3. \A k \in DOMAIN sects : sects[k].name # Name("user", n)
  BY NamedUser, NamesOfSpaces
<1>4. PICK t : /\ Fresher(t, Name("user", n), 0, TRUE, TRUE)
               /\ sects' = Append(sects, t) /\ current_section' = Len(sects) + 1
               /\ cur_struct' = Len(sects) + 1
  BY <1>1, <1>2, <1>3, NewStructIs
<1>5. /\ struct_prevsect' = current_section /\ offset_id' = offset_id /\ errors' = errors
      /\ dsect_active' = dsect_active /\ dsect_offs' = dsect_offs
      /\ last_alloc_sect' = last_alloc_sect
  BY <1>2 DEF handle_struct, dsectVars
<1>6. t.name = Name("user", n) /\ t.org = 0 /\ t.struct = TRUE /\ t.labels_are_local = TRUE
  BY <1>4 DEF Fresher
<1>7. t.name.of = "user" /\ t.name.n = n
  BY <1>6 DEF Name
<1>8. SpaceOf(t) = Struct(n) /\ TRUE = SpaceOf(t).dummy
  BY <1>6, <1>7 DEF SpaceOf, Struct, Space
<1>9. SectionOK(t) /\ Empty(t)
  <2>1. TRUE \in BOOLEAN /\ (TRUE => "user" = "user") /\ ("user" = "text" => n = 0)
        /\ "user" \in {"text", "seg", "offset", "user"} /\ 0 \in Int
    OBVIOUS
  <2>. QED
    BY <1>4, <1>8, <2>1, FresherOK
<1>10. PICK block : block = [op |-> "struct", from |-> w.here]
  OBVIOUS
<1>11. PICK fields :
         fields = [m \in DOMAIN w.fields \cup {n} |-> IF m = n THEN << >> ELSE w.fields[m]]
  OBVIOUS
<1>12. /\ IsWorld(u) /\ u.here = Struct(n) /\ u.inside = Append(w.inside, block)
       /\ u.at = StartingAt(w.at, Struct(n), 0) /\ u.fields = fields
       /\ u.placed = w.placed /\ u.defined = w.defined /\ u.dsect = w.dsect /\ ~u.odd
       /\ u.dsects = w.dsects
  BY <1>1, <1>10, <1>11 DEF StructEntered, Fielded, Enter, Fresh, StartingAt, IsWorld
<1>13. u.here.op = "struct" /\ block.op = "struct" /\ block.from = w.here
  BY <1>10, <1>12 DEF Struct, Space
<1>14. /\ InBlocks(u) /\ Len(u.inside) = Len(w.inside) + 1 /\ Len(w.inside) \in {0, 1}
       /\ u.inside[Len(w.inside) + 1] = block
       /\ \A k \in 1 .. Len(w.inside) : /\ u.inside[k] = w.inside[k]
                                        /\ u.inside[k].op # "struct"
                                        /\ Plain(u.inside[k].from)
       /\ \A other : Within(u, other) <=> Within(w, other) \/ other = "struct"
  <2>1. Enters(u, w, "struct", block) /\ "struct" \in {"dsect", "struct"}
    BY <1>12, <1>13 DEF Enters
  <2>. QED
    BY <2>1, Entered
<1>15. FieldsOf(fields, w.fields, t)
  BY <1>6, <1>7, <1>11, StructFields
<1>16. \A k \in DOMAIN sects : sects[k].name # t.name
  BY <1>3, <1>6
<1>17. /\ Covers(StartingAt(w.at, SpaceOf(t), t.org), fields, w.placed, sects')
       /\ Grows(sects', sects) /\ Means(Len(sects) + 1, SpaceOf(t), sects')
       /\ Len(sects) + 1 # NULL
  BY <1>4, <1>9, <1>15, <1>16, FreshCovers
<1>18. /\ DOMAIN sects' = DOMAIN sects \cup {Len(sects) + 1}
       /\ Len(sects) + 1 \notin DOMAIN sects /\ sects'[Len(sects) + 1] = t
       /\ \A k \in DOMAIN sects : sects'[k] = sects[k]
  BY <1>1, <1>4, Appended
<1>19. Locals(sects', cur_struct')
  <2>1. \A k \in DOMAIN sects : ~sects[k].labels_are_local
    BY <1>1, <1>2 DEF Locals
  <2>. QED
    BY <1>4, <1>6, <1>17, <1>18, <2>1 DEF Locals
<1>20. Offsets(sects', offset_id)
  <2>1. t.name.of # "offset"
    BY <1>7
  <2>. QED
    BY <1>1, <1>4, <2>1, AppendedKeeps
<1>21. Returns(u)'
  <2>1. /\ dsect_active <=> Within(w, "dsect")
        /\ \A k \in 1 .. Len(w.inside) :
             w.inside[k].op = "dsect" => Means(last_alloc_sect, w.inside[k].from, sects)
    BY DEF Sim, Returns
  <2>2. ASSUME NEW k \in 1 .. Len(u.inside)
        PROVE  /\ u.inside[k].op = "dsect"  => Means(last_alloc_sect', u.inside[k].from, sects')
               /\ u.inside[k].op = "struct" => Means(struct_prevsect', u.inside[k].from, sects')
               /\ u.inside[k].from.op # "struct"
    <3>1. CASE k \in 1 .. Len(w.inside)
      <4>1. /\ u.inside[k] = w.inside[k] /\ u.inside[k].op # "struct"
            /\ u.inside[k].from.op # "struct"
        BY <1>14, <3>1 DEF Plain
      <4>. QED
        BY <1>5, <1>17, <2>1, <3>1, <4>1, GrownMeans
    <3>2. CASE k = Len(w.inside) + 1
      <4>1. u.inside[k].op = "struct" /\ u.inside[k].from = w.here
        BY <1>13, <1>14, <3>2
      <4>. QED
        BY <1>1, <1>2, <1>5, <1>17, <4>1, GrownMeans
    <3>3. k \in 1 .. Len(w.inside) \/ k = Len(w.inside) + 1
      BY <1>14
    <3>. QED
      BY <3>1, <3>2, <3>3
  <2>3. current_section' = cur_struct' /\ cur_struct' # NULL
    BY <1>4, <1>17
  <2>4. Within(u, "struct") /\ (Within(u, "dsect") <=> Within(w, "dsect"))
    BY <1>14
  <2>. QED
    BY <1>5, <2>1, <2>2, <2>3, <2>4 DEF Returns
<1>22. Means(current_section', u.here, sects')
  BY <1>4, <1>8, <1>12, <1>17
<1>23. Covers(u.at, u.fields, u.placed, sects')
  BY <1>6, <1>8, <1>12, <1>17
<1>. QED
  BY <1>1, <1>5, <1>12, <1>14, <1>19, <1>20, <1>21, <1>22, <1>23 DEF Sim

\* A section whose label becomes global, and then another atom.
Globalises(after, ss, k, atom) ==
  after = AddAtoms([ss EXCEPT ![k].labels_are_local = FALSE], k, << atom >>)

\* t is s with a label, and no longer local.
LabelPut(t, s, atom) ==
  /\ Changed(t, s, << atom >>) /\ t.in_rorg = s.in_rorg /\ t.labels_are_local = FALSE
  /\ t.pc = s.pc + SizeOf(atom)

\* A section whose labels are no longer local, with a label.
LEMMA Unlocal ==
  ASSUME NEW ss, IsSeq(ss), NEW k \in DOMAIN ss, SectionOK(ss[k]), NEW atom,
         NEW after, Globalises(after, ss, k, atom)
  PROVE  \E t : Replaced(after, ss, k, t) /\ LabelPut(t, ss[k], atom)
<1>1. PICK s : s = [ss[k] EXCEPT !.labels_are_local = FALSE]
  OBVIOUS
<1>2. PICK b : b = [ss EXCEPT ![k] = s]
  OBVIOUS
<1>3. b = [ss EXCEPT ![k].labels_are_local = FALSE]
  BY <1>1, <1>2
<1>4. /\ DOMAIN s = DOMAIN ss[k] /\ s.name = ss[k].name /\ s.org = ss[k].org
      /\ s.pc = ss[k].pc /\ s.unallocated = ss[k].unallocated /\ s.in_rorg = ss[k].in_rorg
      /\ s.struct = ss[k].struct /\ s.atoms = ss[k].atoms
  BY <1>1
<1>5. s.labels_are_local = FALSE
  BY <1>1 DEF SectionOK
<1>6. Replaced(ss, ss, k, ss[k])
  BY DEF Replaced
<1>7. Replaced(b, ss, k, s) /\ b[k] = s /\ IsSeq(b) /\ k \in DOMAIN b
  BY <1>2, <1>6, ReplacedAgain DEF Replaced
<1>8. SectionOK(s)
  <2>1. s.labels_are_local \in BOOLEAN
    BY <1>5
  <2>2. Reached(s) = Reached(ss[k]) /\ SpaceOf(s) = SpaceOf(ss[k])
    <3>1. Extends(s, ss[k], << >>) /\ IsSeq(ss[k].atoms)
      BY <1>4, EmptySeq, ConcatProperties DEF Extends, IsSeq, SectionOK
    <3>2. Behind(s)[Len(ss[k].atoms)] = Behind(ss[k])[Len(ss[k].atoms)]
      BY <3>1, AddedBehind, ExtendedAtoms
    <3>. QED
      BY <1>4, <3>2 DEF Reached, SpaceOf
  <2>. QED
    BY <1>4, <2>1, <2>2 DEF SectionOK
<1>9. PICK atoms : atoms = << atom >>
  OBVIOUS
<1>10. IsSeq(atoms) /\ Sized(atoms) = SizeOf(atom)
  BY <1>9, SizedOne
<1>11. after = AddAtoms(b, k, atoms)
  BY <1>3, <1>9 DEF Globalises
<1>12. PICK t : t = AddAtoms(b, k, atoms)[k]
  OBVIOUS
<1>13. /\ Replaced(after, b, k, t) /\ Changed(t, s, atoms) /\ t.in_rorg = s.in_rorg
       /\ t.labels_are_local = s.labels_are_local /\ t.pc = s.pc + Sized(atoms)
  BY <1>7, <1>8, <1>10, <1>11, <1>12, Added
<1>14. Replaced(after, ss, k, t)
  BY <1>7, <1>13, ReplacedTwice
<1>15. Changed(t, ss[k], atoms)
  BY <1>4, <1>13 DEF Changed, Extends
<1>. QED
  BY <1>4, <1>5, <1>9, <1>10, <1>13, <1>14, <1>15 DEF LabelPut

-----------------------------------------------------------------------------
\* At endstruct the current section is the structure.
LEMMA Declared ==
  ASSUME NEW w, Sim(w), Innermost(w) = "struct"
  PROVE  /\ cur_struct # NULL /\ current_section # NULL /\ current_section = cur_struct
         /\ current_section \in DOMAIN sects /\ SpaceOf(sects[current_section]) = w.here
         /\ sects[current_section].name = Name("user", w.here.n)
         /\ sects[current_section].struct /\ w.here.op = "struct"
<1>1. w.here.op = "struct"
  <2>1. w.inside # << >> /\ w.inside[Len(w.inside)].op = "struct"
    BY DEF Innermost
  <2>2. /\ IsSeq(w.inside) /\ Len(w.inside) \in 0 .. 2
        /\ Len(w.inside) > 0 => w.here.op = w.inside[Len(w.inside)].op
    BY Stack
  <2>3. Len(w.inside) # 0
    BY <2>1, <2>2, EmptySeq DEF IsSeq
  <2>. QED
    BY <2>1, <2>2, <2>3
<1>2. cur_struct # NULL /\ current_section = cur_struct
  BY <1>1, InStruct
<1>3. /\ Means(current_section, w.here, sects) /\ Locals(sects, cur_struct)
      /\ Covers(w.at, w.fields, w.placed, sects)
  BY DEF Sim
<1>4. PICK s : s = sects[current_section]
  OBVIOUS
<1>5. current_section \in DOMAIN sects /\ SpaceOf(s) = w.here /\ s.struct /\ SectionOK(s)
  BY <1>2, <1>3, <1>4 DEF Means, Locals, Covers
<1>6. s.name = Name(s.name.of, s.name.n) /\ s.name.of = "user"
  BY <1>5 DEF SectionOK
<1>7. SpaceOf(s) = Struct(s.name.n)
  BY <1>5, <1>6 DEF SpaceOf
<1>8. w.here.n = s.name.n
  BY <1>5, <1>7 DEF Struct, Space
<1>. QED
  BY <1>1, <1>2, <1>4, <1>5, <1>6, <1>8

\* What endstruct means.
StructLeft(w) == Leave(PlaceLabel(w, << Name("user", w.here.n) >>, w.here.n))

\* endstruct places the label of the structure in it and returns to the space before.
LEMMA EndStructPlaces ==
  ASSUME NEW w, Sim(w), Innermost(w) = "struct", NEW n, n = w.here.n,
         NEW scope, NEW redefined, ~redefined,
         handle_endstruct(Atom("label", n, scope), redefined),
         labels' = labels \cup {<< Name("user", n) >>}, NEW u, u = StructLeft(w)
  PROVE  Sim(u)' /\ outcome' = outcome
<1>1. /\ IsWorld(w) /\ IsSeq(sects) /\ ~w.odd /\ labels = w.defined
      /\ offset_id = w.dsects /\ Locals(sects, cur_struct) /\ Offsets(sects, offset_id)
      /\ ~errors /\ dsect_offs = w.dsect /\ dsect_offs \in Int /\ Returns(w)
      /\ Covers(w.at, w.fields, w.placed, sects)
  BY DEF Sim, Covers
<1>2. PICK k : k = current_section
  OBVIOUS
<1>3. PICK s : s = sects[k]
  OBVIOUS
<1>4. /\ cur_struct # NULL /\ k # NULL /\ k = cur_struct /\ k \in DOMAIN sects
      /\ SpaceOf(s) = w.here /\ s.name = Name("user", n) /\ s.struct /\ w.here.op = "struct"
  BY <1>2, <1>3, Declared
<1>5. SectionOK(s) /\ Here(w) = CounterOf(s) /\ w.fields[s.name.n] = Tags(s)
      /\ s.name.n \in DOMAIN w.fields
  BY <1>1, <1>3, <1>4 DEF Covers, Here
<1>6. PICK atom : atom = Atom("label", n, scope)
  OBVIOUS
<1>7. atom.op = "label" /\ atom.tag = n /\ SizeOf(atom) = 0
  BY <1>6 DEF Atom, SizeOf
<1>8. /\ sects' = AddAtoms([sects EXCEPT ![k].labels_are_local = FALSE], k, << atom >>)
      /\ current_section' = struct_prevsect /\ cur_struct' = NULL
      /\ struct_prevsect' = NULL /\ offset_id' = offset_id /\ ~errors'
      /\ dsect_active' = dsect_active /\ dsect_offs' = dsect_offs
      /\ last_alloc_sect' = last_alloc_sect /\ outcome' = outcome
  <2>1. handle_endstruct(atom, redefined)
    BY <1>6
  <2>. QED
    BY <1>1, <1>2, <1>4, <2>1 DEF handle_endstruct, misplaced, follows_null, dsectVars
<1>9. PICK t : /\ Replaced(sects', sects, k, t) /\ Changed(t, s, << atom >>)
               /\ t.in_rorg = s.in_rorg /\ t.labels_are_local = FALSE
               /\ t.pc = s.pc + SizeOf(atom)
  <2>1. Globalises(sects', sects, k, atom)
    BY <1>8 DEF Globalises
  <2>2. SectionOK(sects[k])
    BY <1>3, <1>5
  <2>3. PICK t : Replaced(sects', sects, k, t) /\ LabelPut(t, sects[k], atom)
    BY <1>1, <1>4, <2>1, <2>2, Unlocal
  <2>. QED
    BY <1>3, <2>3 DEF LabelPut
<1>10. /\ SectionOK(t) /\ CounterOf(t) = [CounterOf(s) EXCEPT !.pc = @ + SizeOf(atom)]
       /\ PlacedIn(t) = PlacedIn(s) \cup
            { << atom.op, atom.tag, CounterOf(s).pc, ~SpaceOf(s).dummy >> }
       /\ Tags(t) = IF atom.op = "byte" THEN Append(Tags(s), atom.tag) ELSE Tags(s)
  BY <1>5, <1>7, <1>9, PutPlain
<1>11. t.name = s.name /\ t.struct = s.struct
  BY <1>9 DEF Changed
<1>12. CounterOf(t) = Here(w)
  <2>1. CounterOf(s).pc \in Int
    BY <1>5 DEF CounterOf, SectionOK
  <2>2. CounterOf(s).pc + 0 = CounterOf(s).pc
    BY <2>1
  <2>3. [CounterOf(s) EXCEPT !.pc = @] = CounterOf(s)
    BY DEF CounterOf
  <2>. QED
    BY <1>5, <1>7, <1>10, <2>2, <2>3
<1>13. PICK more : more = { << "label", n, Here(w).pc, ~w.here.dummy >> }
  OBVIOUS
<1>14. Succeeds(t, s, more)
  BY <1>4, <1>5, <1>7, <1>10, <1>11, <1>13 DEF Succeeds
<1>15. FieldsWith(w.fields, w.fields, t)
  <2>1. w.fields = [m \in DOMAIN w.fields |-> w.fields[m]]
    BY <1>1 DEF Covers
  <2>2. Tags(t) = Tags(s)
    BY <1>7, <1>10
  <2>. QED
    BY <1>5, <1>11, <2>1, <2>2 DEF FieldsWith
<1>16. Covers(CountingAt(w.at, SpaceOf(t), CounterOf(t)), w.fields, w.placed \cup more, sects')
  BY <1>1, <1>3, <1>9, <1>14, <1>15, CoversReplaced
<1>17. CountingAt(w.at, SpaceOf(t), CounterOf(t)) = w.at
  <2>1. SpaceOf(t) = w.here
    BY <1>4, <1>11 DEF SpaceOf
  <2>2. w.at = [x \in DOMAIN w.at |-> w.at[x]]
    BY <1>1 DEF Covers
  <2>3. \A x \in DOMAIN w.at : (IF x = w.here THEN Here(w) ELSE w.at[x]) = w.at[x]
    BY DEF Here
  <2>. QED
    BY <1>12, <2>1, <2>2, <2>3 DEF CountingAt
<1>18. PICK last : last = w.inside[Len(w.inside)]
  OBVIOUS
<1>19. /\ IsWorld(u) /\ u.here = last.from
       /\ u.inside = SubSeq(w.inside, 1, Len(w.inside) - 1)
       /\ u.at = w.at /\ u.fields = w.fields /\ u.placed = w.placed \cup more
       /\ u.defined = w.defined \cup {<< Name("user", n) >>}
       /\ u.dsect = w.dsect /\ ~u.odd /\ u.dsects = w.dsects
  <2>1. Spot(w, "label", n, 0) = << "label", n, Here(w).pc, ~w.here.dummy >>
    <3>1. Here(w).pc \in Int
      BY <1>5 DEF CounterOf, SectionOK
    <3>2. Here(w).pc + 0 = Here(w).pc
      BY <3>1
    <3>. QED
      BY <3>2 DEF Spot
  <2>2. PICK v : v = PlaceLabel(w, << Name("user", n) >>, n)
    OBVIOUS
  <2>3. /\ IsWorld(v) /\ v.here = w.here /\ v.inside = w.inside /\ v.at = w.at
        /\ v.fields = w.fields /\ v.placed = w.placed \cup {Spot(w, "label", n, 0)}
        /\ v.defined = w.defined \cup {<< Name("user", n) >>}
        /\ v.dsect = w.dsect /\ ~v.odd /\ v.dsects = w.dsects
    BY <1>1, <2>2 DEF PlaceLabel, IsWorld
  <2>4. u = Leave(v)
    BY <2>2 DEF StructLeft
  <2>5. /\ IsWorld(u) /\ u.here = v.inside[Len(v.inside)].from
        /\ u.inside = SubSeq(v.inside, 1, Len(v.inside) - 1) /\ u.at = v.at
        /\ u.fields = v.fields /\ u.placed = v.placed /\ u.defined = v.defined
        /\ u.dsect = v.dsect /\ u.odd = v.odd /\ u.dsects = v.dsects
    BY <2>3, <2>4 DEF Leave, IsWorld
  <2>. QED
    BY <1>13, <1>18, <2>1, <2>3, <2>5
<1>20. /\ InBlocks(u) /\ Len(w.inside) \in {1, 2} /\ Len(u.inside) = Len(w.inside) - 1
       /\ last.op = "struct"
       /\ \A j \in 1 .. Len(u.inside) : /\ j \in 1 .. Len(w.inside) /\ u.inside[j] = w.inside[j]
                                        /\ u.inside[j].op # "struct" /\ Plain(u.inside[j].from)
       /\ \A other : Within(u, other) <=> Within(w, other) /\ other # "struct"
  <2>1. PICK op : op = "struct"
    OBVIOUS
  <2>2. Leaves(u, w) /\ Innermost(w) = op /\ op # "none"
    BY <1>18, <1>19, <2>1 DEF Leaves
  <2>3. /\ InBlocks(u) /\ Len(w.inside) \in {1, 2} /\ Len(u.inside) = Len(w.inside) - 1
        /\ w.inside[Len(w.inside)].op = op /\ w.here.op = op /\ op \in {"dsect", "struct"}
        /\ Within(w, op)
        /\ \A j \in 1 .. Len(u.inside) : /\ j \in 1 .. Len(w.inside)
                                         /\ u.inside[j] = w.inside[j]
                                         /\ u.inside[j].op # op /\ Plain(u.inside[j].from)
        /\ \A other : Within(u, other) <=> Within(w, other) /\ other # op
    BY <2>2, Left
  <2>. QED
    BY <1>18, <2>1, <2>3
<1>21. Grows(sects', sects) /\ Offsets(sects', offset_id)
  BY <1>1, <1>3, <1>9, <1>11, ReplacedKeeps
<1>22. Locals(sects', NULL)
  <2>1. \A j \in DOMAIN sects : j # k => ~sects[j].labels_are_local
    BY <1>1, <1>4 DEF Locals
  <2>. QED
    BY <1>9, <2>1 DEF Locals, Replaced
<1>23. Means(struct_prevsect, last.from, sects')
  <2>1. Len(w.inside) \in 1 .. Len(w.inside)
    BY <1>20
  <2>2. Means(struct_prevsect, last.from, sects)
    BY <1>1, <1>18, <1>20, <2>1 DEF Returns
  <2>. QED
    BY <1>21, <2>2, GrownMeans
<1>24. u.here.op # "struct"
  <2>1. CASE Len(u.inside) = 0
    BY <1>20, <2>1 DEF InBlocks, Plain
  <2>2. CASE Len(u.inside) > 0
    <3>1. Len(u.inside) \in 1 .. Len(u.inside)
      BY <1>20, <2>2
    <3>. QED
      BY <1>20, <2>2, <3>1 DEF InBlocks
  <2>3. Len(u.inside) = 0 \/ Len(u.inside) > 0
    <3>1. \A m \in {1, 2} : m - 1 = 0 \/ m - 1 > 0
      OBVIOUS
    <3>. QED
      BY <1>20, <3>1
  <2>. QED
    BY <2>1, <2>2, <2>3
<1>25. Returns(u)'
  <2>1. ASSUME NEW j \in 1 .. Len(u.inside)
        PROVE  /\ u.inside[j].op = "dsect"  => Means(last_alloc_sect', u.inside[j].from, sects')
               /\ u.inside[j].op # "struct" /\ u.inside[j].from.op # "struct"
    BY <1>1, <1>8, <1>20, <1>21, GrownMeans DEF Returns, Plain
  <2>2. ~Within(u, "struct") /\ (Within(u, "dsect") <=> Within(w, "dsect"))
    BY <1>20
  <2>3. dsect_active <=> Within(w, "dsect")
    BY <1>1 DEF Returns
  <2>. QED
    BY <1>8, <1>24, <2>1, <2>2, <2>3 DEF Returns
<1>. QED
  BY <1>1, <1>8, <1>16, <1>17, <1>19, <1>20, <1>21, <1>22, <1>23, <1>25 DEF Sim

-----------------------------------------------------------------------------
(* One line.                                                               *)
\* The name of a label is the one the documentation gives it.
LEMMA LabelKey ==
  ASSUME NEW w, Sim(w), NEW n, n = Line.n, Line.op = "label"
  PROVE  LabelName = Key(w, n)
<1>1. PICK s : s = default_section[Default]
  OBVIOUS
<1>2. /\ Locals(default_section, cur_struct) /\ Default \in DOMAIN default_section
      /\ w.here.op = "struct" <=> cur_struct # NULL /\ Default = cur_struct
  BY DefaultStands DEF Stands
<1>3. s.labels_are_local <=> w.here.op = "struct"
  BY <1>1, <1>2 DEF Locals
<1>4. /\ s.struct <=> w.here.op = "struct"
      /\ s.struct => s.name = Name("user", w.here.n)
  BY <1>1, Used
<1>5. Member(Default) = IF w.here.op = "struct" THEN << Name("user", w.here.n) >> ELSE << >>
  BY <1>1, <1>3, <1>4 DEF Member
<1>6. PICK m : m = Member(Default)
  OBVIOUS
<1>7. m \o << >> = m
  <2>1. CASE w.here.op = "struct"
    <3>1. m = << Name("user", w.here.n) >>
      BY <1>5, <1>6, <2>1
    <3>. QED
      BY <3>1
  <2>2. CASE w.here.op # "struct"
    <3>1. m = << >>
      BY <1>5, <1>6, <2>2
    <3>. QED
      BY <3>1
  <2>. QED
    BY <2>1, <2>2
<1>8. LabelName = (m \o << >>) \o << Name("user", n) >>
  BY <1>6 DEF LabelName
<1>. QED
  BY <1>5, <1>6, <1>7, <1>8 DEF Key

\* Reading a line of the main source that is a directive.
AtLine == Reading /\ outcome = "running" /\ ~AtEnd /\ IsDirective(Line)

\* The line is behind, or the assembler has come to an end.
ReadOrStops ==
  \/ src' = Advanced /\ outcome' = "running"
  \/ src' = src /\ outcome' # "running"

\* A step either reads the line and does what its directive does, or nothing.
LEMMA LineRead ==
  ASSUME SourceInv, AtLine, [Next]_vars
  PROVE  \/ UNCHANGED vars
         \/ /\ UNCHANGED readVars
            /\ ReadOrStops
            /\ Byte \/ Label \/ CallStructure \/ CallUnknown \/ SwitchSection \/ EndStruct
<1>1. /\ Reading /\ outcome = "running" /\ ~AtEnd /\ macros = << >> /\ reading = NoDef
      /\ cond = << >> /\ ~parse_end
      /\ Line.op \in SectionDirectives \cup {"byte", "label", "call"}
  BY DEF AtLine, Reading, IsDirective
<1>2. cond_state
  BY <1>1, EmptySeq DEF cond_state, clev
<1>3. ~EndOfText /\ ~ReadDefinition /\ ~IgnoreLine /\ ~SkipLine /\ ~Stopped
  BY <1>1, <1>2 DEF EndOfText, ReadDefinition, IgnoreLine, SkipLine, Stopped
<1>4. ~If /\ ~Else /\ ~EndIf /\ ~Rept /\ ~Macro /\ ~StrayEnd /\ ~Include /\ ~End
      /\ ~Reference /\ ~Inline /\ ~EInline
  BY <1>1 DEF If, Else, EndIf, Rept, Macro, StrayEnd, Include, End, Reference, Inline, EInline,
              Parsed, SectionDirectives
<1>5. ~CallMacro
  <2>1. find_macro(Line.n) = {}
    BY <1>1 DEF find_macro
  <2>. QED
    BY <2>1 DEF CallMacro
<1>6. ASSUME Byte \/ Label \/ CallUnknown PROVE UNCHANGED readVars /\ ReadOrStops
  BY <1>1, <1>6 DEF Byte, Label, CallUnknown, ReadOrStops
<1>7. ASSUME CallStructure PROVE UNCHANGED readVars /\ ReadOrStops
  <2>1. PICK k : k = find_section(sects, Name("user", Line.n))
    OBVIOUS
  <2>2. UNCHANGED readVars
    BY <1>7 DEF CallStructure
  <2>3. CASE BeingDeclared(Line.n)
    BY <1>7, <2>3 DEF CallStructure, ReadOrStops
  <2>4. CASE ~BeingDeclared(Line.n) /\ k = current_section /\ Fields(k) # << >>
    BY <1>7, <2>1, <2>4 DEF CallStructure, ReadOrStops
  <2>5. CASE ~BeingDeclared(Line.n) /\ ~(k = current_section /\ Fields(k) # << >>)
    BY <1>1, <1>7, <2>1, <2>5 DEF CallStructure, ReadOrStops
  <2>. QED
    BY <2>2, <2>3, <2>4, <2>5
<1>8. ASSUME SwitchSection \/ EndStruct PROVE UNCHANGED readVars /\ ReadOrStops
  <2>1. UNCHANGED readVars
    BY <1>8 DEF SwitchSection, EndStruct
  <2>2. src' = IF outcome' = "running" THEN Advanced ELSE src
    BY <1>8 DEF SwitchSection, EndStruct
  <2>. QED
    BY <2>1, <2>2 DEF ReadOrStops
<1>9. Next => Byte \/ Label \/ CallStructure \/ CallUnknown \/ SwitchSection \/ EndStruct
  BY <1>3, <1>4, <1>5 DEF Next
<1>10. Next \/ UNCHANGED vars
  OBVIOUS
<1>. QED
  BY <1>6, <1>7, <1>8, <1>9, <1>10

-----------------------------------------------------------------------------
(* What a line does, the documentation says of it.                         *)
Coded == Byte \/ Label \/ CallStructure \/ CallUnknown \/ SwitchSection \/ EndStruct

\* The values of these lines are numbers.
LEMMA LineValue ==
  ASSUME SourceInv, AtLine, Line.op \in {"byte", "call"}
  PROVE  Valid(Line.e) /\ Value(Line.e) = Line.e.plus
<1>1. cur_src.num_params = -1 /\ Line.e.of = "number"
  BY DEF AtLine, Reading, IsDirective
<1>2. PICK e : e = Line.e
  OBVIOUS
<1>3. Expand(e) = e
  BY <1>1 DEF Expand
<1>. QED
  BY <1>1, <1>2, <1>3 DEF Valid, Value

\* byte does what the documentation says.
LEMMA PlacesByte ==
  ASSUME SourceInv, AtLine, Coded, NEW w, Sim(w), NEW line, line = Line, line.op = "byte",
         ~NoMeaning(w, line), NEW u, u = Place(w, line)
  PROVE  Sim(u)'
<1>1. Byte
  BY DEF Coded, Label, CallStructure, CallUnknown, SwitchSection, EndStruct, Parsed
<1>2. PICK tag : tag = line.e.plus
  OBVIOUS
<1>3. Valid(Line.e) /\ Value(Line.e) = tag
  BY <1>2, LineValue
<1>4. ~errors /\ ~w.odd
  BY DEF Sim
<1>5. add_atom(Atom("byte", tag, NoScope)) /\ labels' = labels /\ ~errors'
  BY <1>1, <1>3, <1>4 DEF Byte, labelVars
<1>6. Sim(PlaceByte(w, tag))'
  BY <1>5, ByteStep
<1>7. u = PlaceByte(w, tag)
  BY <1>2, <1>4 DEF Place
<1>. QED
  BY <1>6, <1>7

\* A label is placed, under its full name, as the documentation says.
LEMMA PlacesLabel ==
  ASSUME SourceInv, AtLine, Coded, NEW w, Sim(w), NEW line, line = Line, line.op = "label",
         ~NoMeaning(w, line), NEW u, u = Place(w, line)
  PROVE  Sim(u)'
<1>1. Label
  BY DEF Coded, Byte, CallStructure, CallUnknown, SwitchSection, EndStruct, Parsed
<1>2. PICK n : n = line.n
  OBVIOUS
<1>3. PICK key : key = Key(w, n)
  OBVIOUS
<1>4. ~errors /\ ~w.odd /\ labels = w.defined
  BY DEF Sim
<1>5. LabelName = key
  BY <1>2, <1>3, LabelKey
<1>6. key \notin labels
  BY <1>2, <1>3, <1>4 DEF NoMeaning
<1>7. PICK scope : scope = last_global_label
  OBVIOUS
<1>8. add_atom(Atom("label", n, scope)) /\ labels' = labels \cup {key}
  BY <1>1, <1>2, <1>5, <1>7 DEF Label
<1>9. errors' = (errors \/ LabelName \in labels)
  BY <1>1 DEF Label
<1>10. ~errors'
  BY <1>4, <1>5, <1>6, <1>9
<1>11. Sim(PlaceLabel(w, key, n))'
  BY <1>8, <1>10, LabelStep
<1>12. u = PlaceLabel(w, key, n)
  BY <1>2, <1>3, <1>4 DEF Place
<1>. QED
  BY <1>11, <1>12

\* The name of a structure does what the documentation says.
LEMMA PlacesCall ==
  ASSUME SourceInv, AtLine, Coded, NEW w, Sim(w), NEW line, line = Line, line.op = "call",
         ~NoMeaning(w, line), NEW u, u = Place(w, line)
  PROVE  Sim(u)' /\ outcome' = outcome
<1>1. CallStructure \/ CallUnknown
  BY DEF Coded, Byte, Label, SwitchSection, EndStruct, Parsed
<1>2. PICK n : n = line.n
  OBVIOUS
<1>3. PICK tag : tag = line.e.plus
  OBVIOUS
<1>4. n \in DOMAIN w.fields /\ ~Within(w, "struct")
  BY <1>2 DEF NoMeaning
<1>5. ~w.odd
  BY DEF Sim
<1>6. CallStructure
  <2>1. \E k \in DOMAIN sects : sects[k].struct /\ sects[k].name = Name("user", n)
    BY <1>4, StructureIs
  <2>2. IsStructure(Line.n)
    BY <1>2, <2>1 DEF IsStructure
  <2>. QED
    BY <1>1, <2>2 DEF CallUnknown
<1>7. Valid(Line.e) /\ tag = Value(Line.e) /\ n = Line.n
  BY <1>2, <1>3, LineValue
<1>8. Sim(PlaceStructure(w, n, tag))' /\ outcome' = outcome
  BY <1>4, <1>6, <1>7, CallStep
<1>9. u = PlaceStructure(w, n, tag)
  BY <1>2, <1>3, <1>5 DEF Place
<1>. QED
  BY <1>8, <1>9

\* The section directives do what the documentation says.
LEMMA PlacesSwitch ==
  ASSUME SourceInv, AtLine, Coded, NEW w, Sim(w), NEW line, line = Line,
         line.op \in {"org", "rorg", "rend", "section", "dsect", "dend", "struct"},
         ~NoMeaning(w, line), NEW u, u = Place(w, line)
  PROVE  Sim(u)' /\ outcome' = outcome
<1>1. SwitchSection
  BY DEF Coded, Byte, Label, CallStructure, CallUnknown, EndStruct, Parsed
<1>2. labels' = labels
  BY <1>1 DEF SwitchSection, labelVars
<1>3. PICK n : n = line.n
  OBVIOUS
<1>4. ~w.odd /\ (line.op \in {"org", "rorg"} => n \in Int)
  BY <1>3 DEF Sim, AtLine, IsDirective
<1>5. CASE line.op = "org"
  <2>1. handle_org(n)
    BY <1>1, <1>3, <1>5 DEF SwitchSection, Parsed
  <2>2. /\ ~Within(w, "struct") /\ n \in Int
        /\ ~Within(w, "dsect") => Orged(n) \notin DOMAIN w.at
    BY <1>3, <1>4, <1>5 DEF NoMeaning
  <2>3. outcome' = outcome
    BY <2>1 DEF handle_org
  <2>4. CASE Within(w, "dsect")
    <3>1. u = PlaceDsect(w, n)
      BY <1>3, <1>4, <1>5, <2>4 DEF Place
    <3>2. Sim(PlaceDsect(w, n))'
      BY <1>2, <2>1, <2>2, <2>4, OrgInDsectPlaces
    <3>. QED
      BY <2>3, <3>1, <3>2
  <2>5. CASE ~Within(w, "dsect")
    <3>1. u = Fresh(w, Orged(n), n)
      BY <1>3, <1>4, <1>5, <2>5 DEF Place
    <3>2. Sim(Fresh(w, Orged(n), n))'
      BY <1>2, <2>1, <2>2, <2>5, OrgPlaces
    <3>. QED
      BY <2>3, <3>1, <3>2
  <2>. QED
    BY <2>4, <2>5
<1>6. CASE line.op = "rorg"
  <2>1. handle_rorg(n) /\ n \in Int
    BY <1>1, <1>3, <1>4, <1>6 DEF SwitchSection, Parsed
  <2>2. outcome' = outcome
    BY <2>1 DEF handle_rorg
  <2>3. u = Counting(w, Relocated(Here(w), n))
    BY <1>3, <1>4, <1>6 DEF Place
  <2>4. Sim(Counting(w, Relocated(Here(w), n)))'
    BY <1>2, <2>1, RorgStep
  <2>. QED
    BY <2>2, <2>3, <2>4
<1>7. CASE line.op = "rend"
  <2>1. handle_rend
    BY <1>1, <1>7 DEF SwitchSection, Parsed
  <2>2. outcome' = outcome
    BY <2>1 DEF handle_rend
  <2>3. u = Counting(w, Back(Here(w)))
    BY <1>4, <1>7 DEF Place
  <2>4. Here(w).relocated
    BY <1>7 DEF NoMeaning
  <2>5. Sim(Counting(w, Back(Here(w))))'
    BY <1>2, <2>1, <2>4, RendStep
  <2>. QED
    BY <2>2, <2>3, <2>5
<1>8. CASE line.op = "section"
  <2>1. handle_section(n)
    BY <1>1, <1>3, <1>8 DEF SwitchSection, Parsed
  <2>2. outcome' = outcome
    BY <2>1 DEF handle_section
  <2>3. u = IF Named(n) \in DOMAIN w.at THEN [w EXCEPT !.here = Named(n)]
            ELSE Fresh(w, Named(n), 0)
    BY <1>3, <1>4, <1>8 DEF Place
  <2>4. w.inside = << >> /\ n \notin DOMAIN w.fields
    BY <1>3, <1>8 DEF NoMeaning
  <2>5. Sim(u)'
    BY <1>2, <2>1, <2>3, <2>4, SectionPlaces
  <2>. QED
    BY <2>2, <2>5
<1>9. CASE line.op = "dsect"
  <2>1. handle_dsect
    BY <1>1, <1>9 DEF SwitchSection, Parsed
  <2>2. outcome' = outcome
    BY <2>1 DEF handle_dsect
  <2>3. u = PlaceDsect(Enter(w, "dsect"), w.dsect)
    BY <1>4, <1>9 DEF Place
  <2>4. ~Within(w, "dsect")
    BY <1>9 DEF NoMeaning
  <2>5. Sim(u)'
    BY <1>2, <2>1, <2>3, <2>4, DsectPlaces
  <2>. QED
    BY <2>2, <2>5
<1>10. CASE line.op = "dend"
  <2>1. handle_dend
    BY <1>1, <1>10 DEF SwitchSection, Parsed
  <2>2. u = DsectLeft(w)
    BY <1>4, <1>10 DEF Place, DsectLeft
  <2>3. Innermost(w) = "dsect"
    BY <1>10 DEF NoMeaning
  <2>4. Sim(u)' /\ outcome' = outcome
    BY <1>2, <2>1, <2>2, <2>3, DendPlaces
  <2>. QED
    BY <2>4
<1>11. CASE line.op = "struct"
  <2>1. handle_struct(n)
    BY <1>1, <1>3, <1>11 DEF SwitchSection, Parsed
  <2>2. outcome' = outcome
    BY <2>1 DEF handle_struct, misplaced
  <2>3. u = StructEntered(w, n)
    BY <1>3, <1>4, <1>11 DEF Place, StructEntered
  <2>4. ~Within(w, "struct") /\ n \notin DOMAIN w.fields /\ Named(n) \notin DOMAIN w.at
    BY <1>3, <1>11 DEF NoMeaning
  <2>5. Sim(u)'
    BY <1>2, <2>1, <2>3, <2>4, StructPlaces
  <2>. QED
    BY <2>2, <2>5
<1>. QED
  BY <1>5, <1>6, <1>7, <1>8, <1>9, <1>10, <1>11

\* endstruct does what the documentation says.
LEMMA PlacesEndStruct ==
  ASSUME SourceInv, AtLine, Coded, NEW w, Sim(w), NEW line, line = Line,
         line.op = "endstruct", ~NoMeaning(w, line), NEW u, u = Place(w, line)
  PROVE  Sim(u)' /\ outcome' = outcome
<1>1. EndStruct
  BY DEF Coded, Byte, Label, CallStructure, CallUnknown, SwitchSection, Parsed
<1>2. PICK n : n = w.here.n
  OBVIOUS
<1>3. Innermost(w) = "struct" /\ << Name("user", n) >> \notin w.defined
  BY <1>2 DEF NoMeaning
<1>4. ~w.odd /\ labels = w.defined
  BY DEF Sim
<1>5. /\ cur_struct # NULL /\ current_section # NULL
      /\ sects[current_section].name = Name("user", n)
  BY <1>2, <1>3, Declared
<1>6. PICK scope : scope = last_global_label
  OBVIOUS
<1>7. PICK redefined : redefined = (<< Name("user", n) >> \in labels)
  OBVIOUS
<1>8. Name("user", n).n = n
  BY DEF Name
<1>9. /\ handle_endstruct(Atom("label", n, scope), redefined)
      /\ labels' = labels \cup {<< Name("user", n) >>}
  BY <1>1, <1>5, <1>6, <1>7, <1>8 DEF EndStruct
<1>10. ~redefined
  BY <1>3, <1>4, <1>7
<1>11. u = StructLeft(w)
  BY <1>4 DEF Place, StructLeft
<1>12. Sim(u)' /\ outcome' = outcome
  BY <1>2, <1>3, <1>9, <1>10, <1>11, EndStructPlaces
<1>. QED
  BY <1>12

-----------------------------------------------------------------------------
(* All lines.                                                              *)
Odd(w) == w.odd = TRUE /\ IsWorld(w)

\* A line without a meaning makes all odd,
LEMMA PlacedOddly ==
  ASSUME NEW w, IsWorld(w), NEW line, w.odd \/ NoMeaning(w, line)
  PROVE  Odd(Place(w, line))
<1>1. PICK u : u = [w EXCEPT !.odd = TRUE]
  OBVIOUS
<1>2. Place(w, line) = u
  BY <1>1 DEF Place
<1>3. IsWorld(u) /\ u.odd = TRUE
  BY <1>1 DEF IsWorld
<1>. QED
  BY <1>2, <1>3 DEF Odd

\* and it stays so.
LEMMA StaysOdd ==
  ASSUME NEW lines, Len(lines) \in Nat, NEW k \in 0 .. Len(lines), Odd(Placement(lines)[k])
  PROVE  Odd(Placement(lines)[Len(lines)])
<1> DEFINE N == Len(lines) - k
           H == { m \in 0 .. N : Odd(Placement(lines)[k + m]) }
<1>1. N \in Nat /\ 0 \in H
  OBVIOUS
<1>2. ASSUME NEW m \in 0 .. (N - 1), m \in H PROVE m + 1 \in H
  <2>1. Odd(Placement(lines)[k + m])
    BY <1>2
  <2>2. k + m + 1 \in 1 .. Len(lines) /\ (k + m + 1) - 1 = k + m /\ m + 1 \in 0 .. N
        /\ k + (m + 1) = k + m + 1
    OBVIOUS
  <2>3. Placement(lines)[k + m + 1] = Place(Placement(lines)[k + m], lines[k + m + 1])
    BY <2>2, PlacementUnfolds
  <2>4. Odd(Placement(lines)[k + m + 1])
    BY <2>1, <2>3, PlacedOddly DEF Odd
  <2>. QED
    BY <2>2, <2>4
<1> HIDE DEF H
<1>3. \A m \in 0 .. N : m \in H
  BY <1>1, <1>2, StepByStep
<1>4. N \in 0 .. N /\ k + N = Len(lines)
  OBVIOUS
<1>. QED
  BY <1>3, <1>4 DEF H

\* What the lines read so far mean.
Meant == Placement(Lines(Main))[cur_src.ptr - 1]

\* The invariant: while the source has a meaning the assembler has done it, and at the end
\* everything lies as written.
PlacementInv ==
  DirectivesOnly =>
    /\ Reading
    /\ outcome = "running" => Odd(Meant) \/ Sim(Meant)
    /\ PlacedAsWritten

\* Every line with a meaning does what the documentation says.
LEMMA LinePlaces ==
  ASSUME SourceInv, AtLine, Coded, NEW w, Sim(w), NEW line, line = Line, ~NoMeaning(w, line),
         NEW u, u = Place(w, line)
  PROVE  Sim(u)' /\ outcome' = outcome
<1>1. \/ line.op = "byte" \/ line.op = "label" \/ line.op = "call" \/ line.op = "endstruct"
      \/ line.op \in {"org", "rorg", "rend", "section", "dsect", "dend", "struct"}
  BY DEF AtLine, IsDirective, SectionDirectives
<1>2. ASSUME line.op \in {"byte", "label"} PROVE outcome' = outcome
  BY <1>2 DEF Coded, Byte, Label, CallStructure, CallUnknown, SwitchSection, EndStruct, Parsed
<1>. QED
  BY <1>1, <1>2, PlacesByte, PlacesLabel, PlacesCall, PlacesEndStruct, PlacesSwitch

\* The source stays the same.
LEMMA SameProgram ==
  ASSUME SourceInv, [Next]_vars
  PROVE  prog' = prog
BY Classified DEF SourceInv, Advancing, Still, EndOfText, ReadDefinition, CallMacro, Include

\* The source is at its next line.
LEMMA ReadingOn ==
  ASSUME SourceInv, Reading, ~AtEnd, UNCHANGED readVars, src' = Advanced
  PROVE  Reading' /\ cur_src'.ptr = cur_src.ptr + 1
<1>1. /\ Len(src) = 1 /\ cur_src.file = Main /\ cur_src.ptr \in 1 .. (Len(Lines(Main)) + 1)
      /\ cur_src.from = 1 /\ cur_src.to = Len(Lines(Main)) /\ cur_src.repeat = 1
      /\ cur_src.num_params = -1
      /\ macros = << >> /\ reading = NoDef /\ cond = << >> /\ ~parse_end
      /\ ~(cur_src.ptr > cur_src.to)
  BY DEF Reading, AtEnd
<1>2. /\ Depth = 1 /\ cur_src = src[1] /\ cur_src \in SourceRecords
      /\ src \in Seq(SourceRecords) /\ Len(Lines(Main)) \in Nat
  BY <1>1, CurSrc DEF SourceInv, SourceTypeOK, Depth, cur_src
<1>3. PICK e : e = [cur_src EXCEPT !.ptr = cur_src.ptr + 1]
  OBVIOUS
<1>4. /\ e.ptr = cur_src.ptr + 1 /\ e.file = cur_src.file /\ e.from = cur_src.from
      /\ e.to = cur_src.to /\ e.repeat = cur_src.repeat /\ e.num_params = cur_src.num_params
      /\ e \in SourceRecords
  BY <1>1, <1>2, <1>3 DEF SourceRecords
<1>5. src' = [src EXCEPT ![1] = e]
  BY <1>2, <1>3 DEF Advanced, cur_src
<1>6. Len(src') = 1 /\ src'[1] = e
  BY <1>1, <1>2, <1>4, <1>5, SetOne
<1>7. cur_src' = e
  BY <1>6 DEF cur_src, Depth
<1>8. /\ Lines(Main)' = Lines(Main) /\ macros' = << >> /\ reading' = NoDef /\ cond' = << >>
      /\ ~parse_end'
  BY <1>1 DEF readVars, condVars, Lines
<1>9. e.ptr \in 1 .. (Len(Lines(Main)) + 1)
  BY <1>1, <1>2, <1>4
<1>10. Reading'
  BY <1>1, <1>4, <1>6, <1>7, <1>8, <1>9 DEF Reading
<1>. QED
  BY <1>4, <1>7, <1>10

\* Reading depends on what is being read only.
LEMMA ReadingStays ==
  ASSUME Reading, UNCHANGED << prog, src, macros, reading, cond, parse_end >>
  PROVE  Reading'
BY DEF Reading, cur_src, Depth, Lines

\* A step that changes nothing.
LEMMA Untouched ==
  ASSUME PlacementInv, UNCHANGED vars
  PROVE  PlacementInv'
<1>1. /\ UNCHANGED << prog, src, macros, reading, cond, parse_end, outcome, errors, sects >>
      /\ UNCHANGED << current_section, dsect_active, dsect_offs, last_alloc_sect, cur_struct >>
      /\ UNCHANGED << struct_prevsect, offset_id, labels >>
  BY DEF vars, sourceVars, condVars, labelVars, sectionVars, dsectVars, structVars
<1>2. DirectivesOnly' = DirectivesOnly
  BY <1>1 DEF DirectivesOnly, Lines
<1>3. PICK w : w = Meant
  OBVIOUS
<1>4. w = Meant'
  BY <1>1, <1>3 DEF Meant, cur_src, Depth, Lines
<1>5. Returns(w) => Returns(w)'
  BY <1>1 DEF Returns
<1>6. Sim(w) => Sim(w)'
  BY <1>1, <1>5 DEF Sim
<1>7. PlacedAsWritten => PlacedAsWritten'
  BY <1>1, <1>2 DEF PlacedAsWritten, PlacedAtoms, Lines
<1>8. Odd(w)' = Odd(w)
  OBVIOUS
<1>. QED
  BY <1>1, <1>2, <1>3, <1>4, <1>6, <1>7, ReadingStays DEF PlacementInv

-----------------------------------------------------------------------------
\* The program has not ended.
LEMMA RunningStep ==
  ASSUME [Next]_vars, outcome # "running"
  PROVE  UNCHANGED vars
<1>1. ~EndOfText /\ ~ReadDefinition /\ ~IgnoreLine /\ ~SkipLine
  BY DEF EndOfText, ReadDefinition, IgnoreLine, SkipLine, HasLine
<1>2. ~If /\ ~Else /\ ~EndIf /\ ~Rept /\ ~Macro /\ ~StrayEnd /\ ~CallMacro /\ ~Include /\ ~End
  BY DEF If, Else, EndIf, Rept, Macro, StrayEnd, CallMacro, Include, End, Parsed, HasLine
<1>3. ~CallStructure /\ ~CallUnknown /\ ~Byte /\ ~Reference /\ ~Label /\ ~Inline /\ ~EInline
      /\ ~SwitchSection /\ ~EndStruct
  BY DEF CallStructure, CallUnknown, Byte, Reference, Label, Inline, EInline, SwitchSection,
         EndStruct, Parsed, HasLine
<1>4. Stopped => UNCHANGED vars
  BY DEF Stopped
<1>. QED
  BY <1>1, <1>2, <1>3, <1>4 DEF Next

\* The end of the source: what is meant has been done.
LEMMA EndPlaces ==
  ASSUME SourceInv, DirectivesOnly, PlacementInv, [Next]_vars, outcome = "running", AtEnd
  PROVE  PlacementInv'
<1>1. Reading /\ (Odd(Meant) \/ Sim(Meant))
  BY DEF PlacementInv
<1>2. /\ Depth = 1 /\ cur_src.ptr \in 1 .. (Len(Lines(Main)) + 1)
      /\ cur_src.to = Len(Lines(Main)) /\ cur_src.repeat = 1 /\ reading = NoDef /\ cond = << >>
      /\ cur_src.ptr > cur_src.to /\ Len(Lines(Main)) \in Nat
  BY <1>1, CurSrc DEF Reading, AtEnd, Depth, SourceInv
<1>3. cur_src.ptr - 1 = Len(Lines(Main))
  BY <1>2
<1>4. CASE UNCHANGED vars
  BY <1>4, Untouched
<1>5. CASE Next
  <2>1. ~ReadDefinition /\ ~IgnoreLine /\ ~SkipLine /\ ~Stopped
    BY <1>2 DEF ReadDefinition, IgnoreLine, SkipLine, Stopped, HasLine
  <2>2. ~If /\ ~Else /\ ~EndIf /\ ~Rept /\ ~Macro /\ ~StrayEnd /\ ~CallMacro /\ ~Include /\ ~End
    BY DEF If, Else, EndIf, Rept, Macro, StrayEnd, CallMacro, Include, End, Parsed, HasLine
  <2>3. ~CallStructure /\ ~CallUnknown /\ ~Byte /\ ~Reference /\ ~Label /\ ~Inline /\ ~EInline
        /\ ~SwitchSection /\ ~EndStruct
    BY DEF CallStructure, CallUnknown, Byte, Reference, Label, Inline, EInline, SwitchSection,
           EndStruct, Parsed, HasLine
  <2>4. EndOfText
    BY <1>5, <2>1, <2>2, <2>3 DEF Next
  <2>5. /\ AtEndOfSource /\ UNCHANGED << src, rptn, macros >>
        /\ UNCHANGED << prog, loaded, reading, condVars, parse_end, sectionVars >>
    BY <1>2, <2>4 DEF EndOfText
  <2>6. outcome' = "done" /\ errors' = (errors \/ clev > 0 \/ dsect_active)
    BY <2>5 DEF AtEndOfSource
  <2>7. clev = 0
    BY <1>2 DEF clev
  <2>8. sects' = sects /\ cond' = cond
    BY <2>5 DEF sectionVars, condVars
  <2>9. PICK w : w = Placement(Lines(Main))[Len(Lines(Main))]
    OBVIOUS
  <2>10. Odd(w) \/ Sim(w)
    BY <1>1, <1>3, <2>9 DEF Meant
  <2>11. w.odd \/ Within(w, "dsect") \/ (~errors' /\ PlacedAtoms' = w.placed)
    <3>1. CASE Odd(w)
      BY <3>1 DEF Odd
    <3>2. CASE Sim(w)
      <4>1. ~errors /\ (dsect_active <=> Within(w, "dsect"))
            /\ w.placed = UNION { PlacedIn(sects[k]) : k \in DOMAIN sects }
        BY <3>2 DEF Sim, Returns, Covers
      <4>2. PlacedAtoms' = w.placed
        BY <2>8, <4>1 DEF PlacedAtoms
      <4>3. ~(clev > 0)
        BY <2>7
      <4>. QED
        BY <2>6, <4>1, <4>2, <4>3
    <3>. QED
      BY <2>10, <3>1, <3>2
  <2>12. Lines(Main)' = Lines(Main)
    BY <2>5 DEF Lines
  <2>13. PlacedAsWritten'
    BY <2>6, <2>9, <2>11, <2>12 DEF PlacedAsWritten
  <2>14. Reading'
    BY <1>1, <2>5, <2>8, ReadingStays
  <2>. QED
    BY <2>6, <2>13, <2>14 DEF PlacementInv
<1>. QED
  BY <1>4, <1>5

\* A line of the source: what it does is meant, or it has no meaning.
LEMMA LineKeeps ==
  ASSUME SourceInv, DirectivesOnly, PlacementInv, [Next]_vars, outcome = "running", ~AtEnd
  PROVE  PlacementInv'
<1>1. Reading /\ (Odd(Meant) \/ Sim(Meant))
  BY DEF PlacementInv
<1>2. PICK lines : lines = Lines(Main)
  OBVIOUS
<1>3. PICK p : p = cur_src.ptr
  OBVIOUS
<1>4. /\ Len(lines) \in Nat /\ p \in 1 .. Len(lines) /\ Line = lines[p]
      /\ p - 1 \in 0 .. Len(lines) /\ p \in 0 .. Len(lines) /\ (p + 1) - 1 = p
  <2>1. /\ cur_src.ptr \in 1 .. (Len(Lines(Main)) + 1) /\ cur_src.file = Main
        /\ cur_src.to = Len(Lines(Main)) /\ ~(cur_src.ptr > cur_src.to)
        /\ Len(Lines(Main)) \in Nat
    BY <1>1, CurSrc DEF Reading, AtEnd, SourceInv
  <2>. QED
    BY <1>2, <1>3, <2>1 DEF Line
<1>5. PICK w : w = Placement(lines)[p - 1]
  OBVIOUS
<1>6. Odd(w) \/ Sim(w)
  BY <1>1, <1>2, <1>3, <1>5 DEF Meant
<1>7. PICK line : line = Line
  OBVIOUS
<1>8. IsDirective(Line)
  BY <1>2, <1>4 DEF DirectivesOnly
<1>9. AtLine
  BY <1>1, <1>8 DEF AtLine
<1>10. PICK u : u = Place(w, line)
  OBVIOUS
<1>11. Placement(lines)[p] = u
  BY <1>4, <1>5, <1>7, <1>10, PlacementUnfolds
<1>12. CASE UNCHANGED vars
  BY <1>12, Untouched
<1>13. CASE /\ UNCHANGED readVars /\ ReadOrStops
            /\ Byte \/ Label \/ CallStructure \/ CallUnknown \/ SwitchSection \/ EndStruct
  <2>1. Coded
    BY <1>13 DEF Coded
  <2>2. Lines(Main)' = lines /\ UNCHANGED << prog, macros, reading, cond, parse_end >>
    BY <1>2, <1>13 DEF readVars, condVars, Lines
  <2>3. CASE w.odd = TRUE \/ NoMeaning(w, line)
    <3>1. Odd(u)
      BY <1>6, <1>10, <2>3, PlacedOddly DEF Odd, Sim
    <3>2. Odd(Placement(lines)[Len(lines)])
      BY <1>4, <1>11, <3>1, StaysOdd
    <3>3. PlacedAsWritten'
      BY <2>2, <3>2 DEF PlacedAsWritten, Odd
    <3>4. CASE src' = Advanced /\ outcome' = "running"
      <4>1. Reading' /\ cur_src'.ptr = p + 1
        BY <1>1, <1>3, <1>13, <3>4, ReadingOn
      <4>2. Meant' = u
        BY <1>4, <1>11, <2>2, <4>1 DEF Meant
      <4>3. Odd(Meant)'
        BY <3>1, <4>2 DEF Odd, IsWorld
      <4>. QED
        BY <3>3, <4>1, <4>3 DEF PlacementInv
    <3>5. CASE src' = src /\ outcome' # "running"
      BY <1>1, <2>2, <3>3, <3>5, ReadingStays DEF PlacementInv
    <3>. QED
      BY <1>13, <3>4, <3>5 DEF ReadOrStops
  <2>4. CASE w.odd # TRUE /\ ~NoMeaning(w, line)
    <3>1. Sim(w)
      BY <1>6, <2>4 DEF Odd
    <3>2. Sim(u)' /\ outcome' = outcome
      BY <1>7, <1>9, <1>10, <2>1, <2>4, <3>1, LinePlaces
    <3>3. src' = Advanced /\ outcome' = "running"
      BY <1>13, <3>2 DEF ReadOrStops
    <3>4. Reading' /\ cur_src'.ptr = p + 1
      BY <1>1, <1>3, <1>13, <3>3, ReadingOn
    <3>5. Meant' = u
      BY <1>4, <1>11, <2>2, <3>4 DEF Meant
    <3>6. Sim(Meant)'
      BY <3>2, <3>5
    <3>7. PlacedAsWritten'
      BY <3>3 DEF PlacedAsWritten
    <3>. QED
      BY <3>4, <3>6, <3>7 DEF PlacementInv
  <2>. QED
    BY <2>3, <2>4
<1>. QED
  BY <1>9, <1>12, <1>13, LineRead

\* PlacementInv goes on.
LEMMA PlacementStep == SourceInv /\ PlacementInv /\ [Next]_vars => PlacementInv'
<1> SUFFICES ASSUME SourceInv, PlacementInv, [Next]_vars PROVE PlacementInv'
  OBVIOUS
<1>1. DirectivesOnly' <=> DirectivesOnly
  BY SameProgram DEF DirectivesOnly, Lines
<1>2. CASE ~DirectivesOnly
  BY <1>1, <1>2 DEF PlacementInv
<1>3. CASE DirectivesOnly
  <2>1. CASE outcome # "running"
    BY <2>1, RunningStep, Untouched
  <2>2. CASE outcome = "running"
    BY <1>3, <2>2, EndPlaces, LineKeeps
  <2>. QED
    BY <2>1, <2>2
<1>. QED
  BY <1>2, <1>3

-----------------------------------------------------------------------------
\* Before the first line.
LEMMA AtTheStart ==
  ASSUME Init
  PROVE  Sim(Start)
<1>1. /\ sects = << >> /\ current_section = NULL /\ ~dsect_active /\ dsect_offs = 0
      /\ last_alloc_sect = NULL /\ cur_struct = NULL /\ struct_prevsect = NULL
      /\ offset_id = 0 /\ ~errors /\ labels = {}
  BY DEF Init, SectionInit
<1>2. PICK w : w = Start
  OBVIOUS
<1>3. PICK none : none = [n \in {} |-> << >>]
  OBVIOUS
<1>4. PICK at : at = [s \in {TextSpace} |-> Counter(0)]
  OBVIOUS
<1>5. /\ IsWorld(w) /\ w.here = TextSpace /\ w.at = at /\ w.inside = << >> /\ w.dsects = 0
      /\ w.dsect = 0 /\ w.fields = none /\ w.placed = {} /\ w.defined = {} /\ ~w.odd
  BY <1>2, <1>3, <1>4 DEF Start, IsWorld
<1>6. IsSeq(<< >>) /\ Len(<< >>) = 0 /\ DOMAIN << >> = {}
  <2>1. IsSeq(<< >>) /\ Len(<< >>) = 0
    BY EmptySeq, SeqIsSeq
  <2>2. DOMAIN << >> = {}
    OBVIOUS
  <2>. QED
    BY <2>1, <2>2
<1>7. Covers(at, none, {}, << >>)
  <2>1. DOMAIN at = {TextSpace} /\ at[TextSpace] = Counter(0) /\ at = [s \in DOMAIN at |-> at[s]]
    BY <1>4
  <2>2. DOMAIN none = {} /\ none = [n \in DOMAIN none |-> none[n]]
    BY <1>3
  <2>3. PICK ss : ss = << >>
    OBVIOUS
  <2>4. IsSeq(ss) /\ DOMAIN ss = {}
    BY <1>6, <2>3
  <2>5. Covers(at, none, {}, ss)
    <3>1. { SpaceOf(ss[k]) : k \in DOMAIN ss } \cup {TextSpace} = {TextSpace}
      BY <2>4
    <3>2. { ss[k].name.n : k \in { j \in DOMAIN ss : ss[j].struct } } = {}
      BY <2>4
    <3>3. UNION { PlacedIn(ss[k]) : k \in DOMAIN ss } = {}
      BY <2>4
    <3>. QED
      BY <2>1, <2>2, <2>4, <3>1, <3>2, <3>3 DEF Covers
  <2>. QED
    BY <2>3, <2>5
<1>8. Means(NULL, TextSpace, sects)
  BY DEF Means
<1>9. Locals(sects, NULL) /\ Offsets(sects, 0)
  BY <1>1, <1>6 DEF Locals, Offsets
<1>10. TextSpace.op = "text"
  BY DEF TextSpace, Space
<1>11. InBlocks(w)
  <2>1. 0 <= 2 /\ ~(0 > 0) /\ 0 # 2 /\ \A k \in 1 .. 0 : FALSE
    OBVIOUS
  <2>. QED
    BY <1>5, <1>6, <1>10, <2>1 DEF InBlocks, Plain
<1>12. Returns(w)
  <2>1. \A k \in 1 .. 0 : FALSE
    OBVIOUS
  <2>. QED
    BY <1>1, <1>5, <1>6, <1>10, <2>1 DEF Returns, Within
<1>13. Sim(w)
  BY <1>1, <1>5, <1>7, <1>8, <1>9, <1>11, <1>12 DEF Sim
<1>. QED
  BY <1>2, <1>13

\* PlacementInv holds initially.
LEMMA PlacementInit == Init => PlacementInv
<1> SUFFICES ASSUME Init PROVE PlacementInv
  OBVIOUS
<1>1. SourceInv
  BY SourceInit
<1>2. PICK e : e = FileSource(Main)
  OBVIOUS
<1>3. src = << e >> /\ outcome = "running"
  BY <1>2 DEF Init, SectionInit
<1>4. Len(src) = 1 /\ cur_src = e
  BY <1>3 DEF cur_src, Depth
<1>5. /\ e.file = Main /\ e.ptr = 1 /\ e.from = 1 /\ e.to = Len(Lines(Main))
      /\ e.repeat = 1 /\ e.num_params = -1
  BY <1>2 DEF FileSource, new_source
<1>6. Len(Lines(Main)) \in Nat
  BY <1>1, <1>4, <1>5, CurSrc DEF SourceInv
<1>7. Reading
  BY <1>4, <1>5, <1>6 DEF Reading, Init
<1>8. Meant = Start
  BY <1>4, <1>5, <1>6, PlacementUnfolds DEF Meant
<1>9. Sim(Meant)
  BY <1>8, AtTheStart
<1>10. PlacedAsWritten
  BY <1>3 DEF PlacedAsWritten
<1>. QED
  BY <1>7, <1>9, <1>10 DEF PlacementInv

(* In every source that consists of bytes, labels, structures and section   *)
(* directives, every byte and every label lies where the documentation of   *)
(* the directives puts it, whichever way the blocks are combined.           *)
THEOREM PlacedInPlace == Spec => []PlacedAsWritten
<1>1. SourceInv /\ PlacementInv /\ [Next]_vars => (SourceInv /\ PlacementInv)'
  BY SourceStep, PlacementStep
<1>2. PlacementInv => PlacedAsWritten
  BY DEF PlacementInv, PlacedAsWritten
<1>. QED
  BY <1>1, <1>2, SourceInit, PlacementInit, PTL DEF Spec
=============================================================================
