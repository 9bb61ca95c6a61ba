---------------------------- MODULE BinaryOutput ----------------------------
(***************************************************************************)
(* The binary output driver (output_bin.c) behind the resolver: checks     *)
(* that the sections do not overlap and writes them in the order of their  *)
(* addresses.  The formats are of two kinds: a stream, one header and then *)
(* one range of bytes with the gaps filled ("raw", without a header, is    *)
(* the image burnt into the EEPROM), and segments, a header before each    *)
(* section.  A byte is told by the address it was assembled for; the file  *)
(* is what a loader finds in it.                                           *)
(***************************************************************************)
EXTENDS Resolver, FiniteSetsExt

VARIABLES
  stage,     \* "trim", "check", "write", "closed"
  written,   \* sections written to the file, or being written
  file,      \* pieces [sec, load, length, bytes]: the section, the address its
             \* first byte is loaded to, the length the loader is told, the bytes
  header,    \* [load, length] of a stream
  filled,    \* bytes in the stream
  wpc        \* address after the last byte written

outputVars == << stage, written, file, header, filled, wpc >>

Streams   == {"raw", "cbm-prg", "apple-bin", "dragon-bin", "oric-mc"}
Segmented == {"atari-com", "coco-ml"}
Srec      == {"s19", "s28", "s37"}
Ihex      == {"i8hex", "i16hex", "i32hex"}

Binary == prog.format \in Streams \cup Segmented

\* fw16()
Word(n) == n % 65536

\* Where atom k of section s starts, and ends.
Layout(s) ==
  LET at[k \in 0 .. Len(Atoms(s))] ==
        IF k = 0 THEN [start |-> Org(s), end |-> Org(s)]
        ELSE LET here == pcalign(Atoms(s)[k], at[k - 1].end)
             IN [start |-> here, end |-> here + atom_size(Atoms(s)[k], here)]
  IN at

Initialized(s) == { k \in DOMAIN Atoms(s) : Atoms(s)[k].kind \notin {"label", "space"} }
End(s) == IF Initialized(s) = {} THEN Org(s) ELSE Layout(s)[Max(Initialized(s))].end

\* trim_uninitialized(): a section ends with its last initialized atom, if any.
TrimUninitialized ==
  /\ phase = "output" /\ stage = "trim"
  /\ pc' = [s \in Secs |-> IF Initialized(s) = {} THEN pc[s] ELSE End(s)]
  /\ stage' = "check"
  /\ UNCHANGED << prog, phase, sec, i, label, lastsize, deps, todo, passVars, errors,
                  written, file, header, filled, wpc >>

\* Mutant: only a section that starts inside an earlier one is found.
OverlapStart(s, s2) == Org(s2) >= Org(s) /\ Org(s2) < pc[s]

\* Mutant: a section that starts where another one ends overlaps it.
OverlapTouch(s, s2) == \/ Org(s2) >= Org(s) /\ Org(s2) <= pc[s]
                       \/ pc[s2] > Org(s) /\ pc[s2] <= pc[s]

\* s2 comes after s in the source.
Overlap(s, s2) == \/ Org(s2) >= Org(s) /\ Org(s2) < pc[s]
                  \/ pc[s2] > Org(s) /\ pc[s2] <= pc[s]

\* Of the drivers for S-records and Intel HEX only the latter checks.
CheckOverlap ==
  /\ phase = "output" /\ stage = "check"
  /\ IF prog.format \notin Srec /\ \E s, s2 \in Secs : s < s2 /\ Overlap(s, s2)
     THEN phase' = "stopped" /\ errors' = TRUE /\ stage' = stage
     ELSE stage' = "write" /\ UNCHANGED << phase, errors >>
  /\ UNCHANGED << prog, sec, i, pc, label, lastsize, deps, todo, passVars,
                  written, file, header, filled, wpc >>

\* The bytes of the trimmed section, what is aligned or uninitialized filled.
Contents(s) == [k \in 1 .. (End(s) - Org(s)) |-> Org(s) + k - 1]

\* qsort(seclist): a section no unwritten one lies below.
Lowest(s) == \A t \in Secs \ written : Org(s) <= Org(t)

\* The length in the header of a segment: coco-ml has it, atari-com has the last address.
SegmentLength(s) ==
  IF prog.format = "atari-com" THEN Word(pc[s] - 1) - Org(s) + 1 ELSE Word(pc[s] - Org(s))

WriteSegment(s) ==
  /\ prog.format \in Segmented
  /\ file' = Append(file, [sec |-> s, load |-> Org(s), length |-> SegmentLength(s),
                           bytes |-> Contents(s)])
  /\ UNCHANGED << header, filled >>

\* "fill gap between sections with pad-bytes"
Gap(s) == IF written # {} /\ Org(s) > wpc THEN Org(s) - wpc ELSE 0

WriteRange(s) ==
  LET base  == IF written = {} THEN Org(s) ELSE header.load
      start == filled + Gap(s)
      size  == End(s) - Org(s)
  IN /\ prog.format \in Streams
     /\ header' = [header EXCEPT !.load = base]
     /\ file' = Append(file, [sec |-> s, load |-> base + start, length |-> size,
                              bytes |-> Contents(s)])
     /\ filled' = start + size

WriteSection ==
  \E s \in Secs \ written :
     /\ phase = "output" /\ stage = "write" /\ Binary
     /\ Lowest(s)
     /\ WriteSegment(s) \/ WriteRange(s)
     /\ wpc' = End(s)
     /\ written' = written \cup {s}
     /\ UNCHANGED << vars, stage >>

\* The length of a stream is put into its header at last; oric-mc has the last
\* address, raw and cbm-prg have no length.
StreamLength ==
  CASE prog.format \in {"apple-bin", "dragon-bin"} -> Word(wpc - header.load)
    [] prog.format = "oric-mc" -> Word(wpc - 1) - header.load + 1
    [] OTHER -> filled

PatchHeader ==
  /\ phase = "output" /\ stage = "write" /\ Binary /\ written = Secs
  /\ header' = [header EXCEPT !.length = StreamLength]
  /\ stage' = "closed"
  /\ UNCHANGED << vars, written, file, filled, wpc >>

OutputInit ==
  /\ stage = "trim" /\ written = {} /\ file = << >>
  /\ header = [load |-> 0, length |-> 0] /\ filled = 0 /\ wpc = 0
=============================================================================
