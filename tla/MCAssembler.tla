---------------------------- MODULE MCAssembler -----------------------------
(* The assembler for TLC.  The sources for the resolver are of one or two  *)
(* short sections, chosen so that operands lie around the ends of the zero *)
(* page and of a branch's reach and that sections refer to each other;     *)
(* those for the output drivers are of two sections that touch, overlap    *)
(* and enclose each other, are empty or uninitialized, and lie around the  *)
(* end of the address space, in every format.                              *)
EXTENDS Assembler, SequencesExt

L(n) == [kind |-> "label", name |-> n]
Data(n) == [kind |-> "data", n |-> n]
Align(n) == [kind |-> "align", n |-> n]
Zp(n) == [kind |-> "zpabs", to |-> n]
Bcc(n) == [kind |-> "branch", to |-> n]
Bra(n) == [kind |-> "bra", to |-> n]
Section(org, atoms) == [org |-> org, atoms |-> atoms]

\* References across a section boundary, on both sides of the end of the zero page.
Near == { Section(org, << Zp(n), L("A"), op, L("B") >>) :
            org \in {245, 249}, n \in {"B", "C"}, op \in {Zp("B"), Bcc("C"), Bra("C"), Align(8)} }
Far  == { Section(org, << first, Zp("B"), L("C"), Data(gap), Zp("C"), L("D") >>) :
            org \in {100, 120, 300, 400}, first \in {Zp("D"), Bcc("A"), Bra("D")}, gap \in {1, 126} }

TwoSections == { << n, f >> : n \in Near, f \in Far } \cup { << f, n >> : n \in Near, f \in Far }

\* n branches, each just in reach of its label until the one after it grows: one
\* more grows in every pass.
Name == << "A", "B", "C", "D", "E" >>
Cascade(n) ==
  Section(32768, [k \in 1 .. n |-> Bcc(Name[n + 1 - k])] \o
                 [k \in 1 .. (2 * n) |->
                    IF k = 1 THEN Data(133 - 5 * n)
                    ELSE IF k % 2 = 1 THEN Data(5) ELSE L(Name[n + 1 - (k \div 2)])])

Resolved ==
  [sections : TwoSections \cup { << Cascade(n) >> : n \in 2 .. 5 },
   branchopt : BOOLEAN, format : {"raw"}]

Space(n) == [kind |-> "space", n |-> n]
Parts ==
  { << >>, << Data(3) >>, << Space(4) >>, << Data(3), Space(4) >>, << Space(2), Data(40) >>,
    << Data(3), Align(4), Data(7) >> }
Pair(o, p, q) == << Section(512, p), Section(o, q) >>
Images ==
  [sections : UNION { { Pair(o, p, q), << Pair(o, p, q)[2], Pair(o, p, q)[1] >> } :
                        o \in {508, 514, 515, 516, 530, 65493, 65500, 65532},
                        p \in Parts, q \in Parts },
   branchopt : {FALSE}, format : Streams \cup Segmented \cup Srec \cup Ihex]

\* One section, as long as the address space or without a byte, and one at the end of
\* the addresses of the wider formats.
Alone ==
  [sections : { << Section(0, p) >> : p \in { << >>, << Space(4) >>, << Data(65536) >> } },
   branchopt : {FALSE}, format : Streams \cup Segmented]
  \cup
  [sections : { << Section(o, p) >> : o \in {1048570, 16777210}, p \in Parts },
   branchopt : {FALSE}, format : Srec \cup Ihex]

Sources == Resolved \cup Images \cup Alone

\* Where the atoms of section s end, going by the recorded sizes, and where atom k starts.
Ends(s) ==
  LET end[m \in 0 .. Len(Atoms(s))] ==
        IF m = 0 THEN Org(s) ELSE pcalign(Atoms(s)[m], end[m - 1]) + lastsize[s][m]
  IN end
Start(s, k) == pcalign(Atoms(s)[k], Ends(s)[k - 1])

\* Another pass over section s would change nothing.
FixedPoint(s) ==
  \A k \in 1 .. Len(Atoms(s)) :
    LET at == Atoms(s)[k] IN
    /\ IsLabel(at) => label[at.name] = Start(s, k)
    /\ lastsize[s][k] = atom_size(at, Start(s, k))

(* Whenever resolve() is between two sections, every section it does not   *)
(* mean to visit again is at a fixed point, whatever the sections it       *)
(* refers to have done since: the dependencies collected in eval_expr and  *)
(* the test passes>1 (vasm.c:379) lose no section.                         *)
Settled == phase = "resolve" => \A s \in Secs \ todo : FixedPoint(s)

(* Without -opt-branch, which flash.sh does not give, and always for a     *)
(* single section, the assembler comes to an end.                          *)
Terminates ==
  ~prog.branchopt \/ Len(prog.sections) = 1 ~> phase = "stopped" \/ stage = "closed"

(* "gives up at MAXPASSES" (vasm.c:21): whatever the options, resolve()    *)
(* ends.  It does not: only the passes over one section are counted, and   *)
(* two sections can send each other round for ever.                        *)
ResolverGivesUp == <>(phase \in {"assemble", "output", "stopped"})

\* Section s2 starts below the earlier section s and ends above it.
Encloses(s2, s) == s < s2 /\ Org(s2) < Org(s) /\ pc[s2] > pc[s]

\* Two sections have a byte for the same address.
Overlapping == \E s, t \in Secs : s # t /\ Org(s) < End(t) /\ Org(t) < End(s)

(* Files that are not what they seem to be, by format.                     *)
\* The test for overlaps misses Encloses, and the driver for S-records has none.
Displaced ==
  IF prog.format \in Srec THEN Overlapping ELSE \E s, s2 \in Secs : Encloses(s2, s)
\* The header of a section without any initialized byte counts bytes that are not written.
BareSegment ==
  prog.format \in Segmented /\ \E s \in Secs : Initialized(s) = {} /\ pc[s] > Org(s)
\* The other two write the space at the end of a section, over what follows it.
SpaceWritten ==
  /\ prog.format \in Srec \cup Ihex
  /\ \E s, t \in Secs : s # t /\ Org(s) + Len(AllBytes(s)) > Org(t) /\ End(t) > End(s)
\* Intel HEX has a byte too many after each padding.
PaddedHex ==
  prog.format \in Ihex /\ \E s \in Secs : NoByte \in ToSet(AllBytes(s))
\* I16HEX has a wrong paragraph from $10000 on.
SecondSegment ==
  prog.format = "i16hex" /\ \E s \in Secs : Org(s) + Len(AllBytes(s)) > 65536
\* The headers have 16 bits, for a length too, and there is no test.
PastMemory ==
  \/ prog.format \in (Streams \ {"raw"}) \cup Segmented /\ \E s \in Secs : pc[s] > 65536
  \/ prog.format \in {"apple-bin", "dragon-bin"} /\ \E s, t \in Secs : pc[s] - Org(t) > 65535
  \/ prog.format = "coco-ml" /\ \E s \in Secs : pc[s] - Org(s) > 65535
\* What is empty at address zero has no last address.
NoLastAddress ==
  \/ prog.format = "oric-mc" /\ \A s \in Secs : End(s) = 0
  \/ prog.format = "atari-com" /\ \E s \in Secs : pc[s] = 0

\* What is in memory at address a when piece after piece has been loaded.
Covers(piece, a) == a >= piece.load /\ a < piece.load + Len(piece.bytes)
Loaded(s, a) ==
  \E k \in DOMAIN file :
     /\ Covers(file[k], a) /\ file[k].sec = s /\ file[k].bytes[a - file[k].load + 1] = a
     /\ \A j \in k + 1 .. Len(file) : ~Covers(file[j], a)

(* Who loads a file that was written without an error finds every byte of  *)
(* every section at its address, in whichever order the source gives the   *)
(* sections, and every length as announced; but for the cases above.   *)
LoadsInPlace ==
  stage = "closed" /\ ~errors =>
    \/ Displaced \/ BareSegment \/ SpaceWritten \/ PaddedHex \/ SecondSegment
    \/ PastMemory \/ NoLastAddress
    \/ /\ \A s \in Secs : \A a \in Org(s) .. (End(s) - 1) : Loaded(s, a)
       /\ \A k \in DOMAIN file : file[k].length = Len(file[k].bytes)
       /\ prog.format \in Streams => header.length = filled

\* A section that is not there meets the one it would be in.
Meets(s, t) == Org(s) < pc[t] /\ Org(t) < pc[s]

\* The test takes a later section that is empty for one that overlaps the one it follows.
EmptyBehind == \E s, t \in Secs : s < t /\ Org(t) = pc[t] /\ Org(t) = pc[s]

\* How many addresses a format has, if that is tested.
Limited == prog.format \in {"s19", "s28", "i8hex", "i16hex"}
Limit == CASE prog.format = "s28" -> 16777216 [] prog.format = "i16hex" -> 1048576 [] OTHER -> 65536

\* I8HEX and I16HEX do not write the last byte of the address space.
TopOfMemory ==
  prog.format \in {"i8hex", "i16hex"} /\ \E s \in Secs : Org(s) + Len(AllBytes(s)) = Limit

(* A source without errors is turned away by the output driver only if two *)
(* of its sections meet, or one lies beyond the addresses of the format;   *)
(* and in the two cases above.                                             *)
RefusedForCause ==
  phase = "stopped" /\ stage # "trim" =>
    \/ \E s, t \in Secs : s # t /\ Meets(s, t)
    \/ Limited /\ \E s \in Secs : Org(s) + Len(AllBytes(s)) > Limit
    \/ EmptyBehind \/ TopOfMemory
=============================================================================
