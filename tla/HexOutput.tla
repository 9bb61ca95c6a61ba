----------------------------- MODULE HexOutput ------------------------------
(***************************************************************************)
(* The output drivers for Motorola S-records (output_srec.c) and Intel HEX *)
(* (output_ihex.c): the sections in the order of the source, cut into      *)
(* records that carry their addresses.  I8HEX has 16 bits of address, as   *)
(* has S19; the others of Intel's formats set the upper bits by a record   *)
(* of their own.                                                           *)
(***************************************************************************)
EXTENDS BinaryOutput

VARIABLES
  rest,       \* bytes of the current section that are not yet in a record
  addr,       \* where the next of them goes
  ext_addr    \* upper bits of the last extended address record

hexVars == << rest, addr, ext_addr >>

\* What stands in the file and in no section.
NoByte == -1

\* addralign() and align(): the latter ends every padding with one byte more.
Padding(s, k, p) ==
  LET n == pcalign(Atoms(s)[k], p) - p
      from == Layout(s)[k - 1].end
  IN [j \in 1 .. n |-> from + j - 1]
       \o (IF prog.format \in Ihex /\ n > 0 THEN << NoByte >> ELSE << >>)

\* What is written for the first k atoms of section s.
BytesTo(s) ==
  LET out[k \in 0 .. Len(Atoms(s))] ==
        IF k = 0 THEN << >>
        ELSE out[k - 1] \o Padding(s, k, Org(s) + Len(out[k - 1]))
               \o [j \in 1 .. (Layout(s)[k].end - Layout(s)[k].start) |-> Layout(s)[k].start + j - 1]
  IN out

\* All atoms of the section, uninitialized space at its end included.
AllBytes(s) == BytesTo(s)[Len(Atoms(s))]

Hex == phase = "output" /\ stage = "write" /\ prog.format \in Srec \cup Ihex

\* The next section of the source; an S0 record with its name comes before it.
StartSection ==
  LET s == Cardinality(written) + 1
  IN /\ Hex /\ rest = << >> /\ written # Secs
     /\ written' = written \cup {s}
     /\ rest' = AllBytes(s) /\ addr' = Org(s)
     /\ UNCHANGED << vars, stage, file, header, filled, wpc, ext_addr >>

\* The sizes of data[] and of buffer.
RecordSize == IF prog.format \in Srec THEN 32 ELSE 10

\* S-records check the address of the record, Intel HEX that of the next one.
OutOfRange(next) ==
  CASE prog.format = "s19"    -> addr > 65535
    [] prog.format = "s28"    -> addr > 16777215
    [] prog.format = "i8hex"  -> next > 65535
    [] prog.format = "i16hex" -> next > 1048575
    [] OTHER -> FALSE

Upper(from) == from \div 65536

\* What the loader adds: I16HEX has the paragraph of a segment, ext_addr shifted by
\* four, I32HEX the upper half of the address.
Base(ext) == CASE prog.format = "i16hex" -> 16 * Word(16 * ext)
               [] prog.format = "i32hex" -> 65536 * ext
               [] OTHER -> 0

\* write_data_buffer(), write_data_record().
WriteRecord ==
  LET n == Min({Len(rest), RecordSize})
      load == IF prog.format \in Ihex THEN Base(ext_addr') + Word(addr) ELSE addr
  IN /\ Hex /\ rest # << >>
     /\ ext_addr' = IF prog.format \in Ihex THEN Upper(addr) ELSE ext_addr
     /\ errors' = (errors \/ OutOfRange(addr + n))
     /\ file' = Append(file, [sec |-> Cardinality(written), load |-> load, length |-> n,
                              bytes |-> SubSeq(rest, 1, n)])
     /\ rest' = SubSeq(rest, n + 1, Len(rest)) /\ addr' = addr + n
     /\ UNCHANGED << prog, phase, sec, i, pc, label, lastsize, deps, todo, passVars,
                     stage, written, header, filled, wpc >>

\* The end record; leave() removes the file if there was an error.
EndOfRecords ==
  /\ Hex /\ rest = << >> /\ written = Secs
  /\ stage' = "closed"
  /\ phase' = IF errors THEN "stopped" ELSE phase
  /\ UNCHANGED << prog, sec, i, pc, label, lastsize, deps, todo, passVars, errors,
                  written, file, header, filled, wpc, hexVars >>

HexInit == rest = << >> /\ addr = 0 /\ ext_addr = 0
=============================================================================
