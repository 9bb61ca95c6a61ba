----------------------------- MODULE Placement -----------------------------
(***************************************************************************)
(* Where the bytes and labels of a sequence of section directives belong,  *)
(* as the documentation of the directives has it.  An address space has    *)
(* one location counter and, in a relocated block, the way back to it.     *)
(* inside holds the blocks around, each with the space it returns to.      *)
(***************************************************************************)
EXTENDS FrontEnd

Space(op, n, dummy) == [op |-> op, n |-> n, dummy |-> dummy]
TextSpace  == Space("text", 0, FALSE)
Orged(n)   == Space("org", n, FALSE)
Named(n)   == Space("section", n, FALSE)
Struct(n)  == Space("struct", n, TRUE)
Dsect(n)   == Space("dsect", n, TRUE)

Counter(pc) == [pc |-> pc, away |-> 0, relocated |-> FALSE]
Back(c) == Counter(c.pc + c.away)
Relocated(c, n) == [pc |-> n, away |-> Back(c).pc - n, relocated |-> TRUE]

\* Before the first line.  dsects counts the unnamed dummy spaces, dsect is where the
\* next dsect goes on, fields are the bytes of each structure, and odd is set by a line
\* the documentation gives no meaning.
Start ==
  [here |-> TextSpace, at |-> [s \in {TextSpace} |-> Counter(0)], inside |-> << >>,
   dsects |-> 0, dsect |-> 0, fields |-> [n \in {} |-> << >>], placed |-> {}, defined |-> {},
   odd |-> FALSE]

Here(w) == w.at[w.here]
Within(w, op) == \E k \in DOMAIN w.inside : w.inside[k].op = op
Innermost(w) == IF w.inside = << >> THEN "none" ELSE w.inside[Len(w.inside)].op

Counting(w, c) == [w EXCEPT !.at = [s \in DOMAIN @ |-> IF s = w.here THEN c ELSE @[s]]]
Fresh(w, space, pc) ==
  [w EXCEPT !.here = space,
            !.at = [s \in DOMAIN @ \cup {space} |-> IF s = space THEN Counter(pc) ELSE @[s]]]
Enter(w, op) == [w EXCEPT !.inside = Append(@, [op |-> op, from |-> w.here])]
Leave(w) == [w EXCEPT !.here = w.inside[Len(w.inside)].from,
                      !.inside = SubSeq(@, 1, Len(@) - 1)]
Fielded(w, n, fields) ==
  [w EXCEPT !.fields = [m \in DOMAIN @ \cup {n} |-> IF m = n THEN fields ELSE @[m]]]

\* What lies n bytes behind the counter.
Spot(w, op, tag, n) == << op, tag, Here(w).pc + n, ~w.here.dummy >>

\* A label in a structure belongs to it.
Key(w, n) == (IF w.here.op = "struct" THEN << Name("user", w.here.n) >> ELSE << >>)
               \o << Name("user", n) >>

PlaceLabel(w, key, n) ==
  [w EXCEPT !.placed = @ \cup {Spot(w, "label", n, 0)}, !.defined = @ \cup {key}]

PlaceByte(w, tag) ==
  LET placed == [Counting(w, [Here(w) EXCEPT !.pc = @ + 1]) EXCEPT
                   !.placed = @ \cup {Spot(w, "byte", tag, 0)}]
  IN IF w.here.op = "struct" THEN Fielded(placed, w.here.n, Append(w.fields[w.here.n], tag))
     ELSE placed

\* The bytes of a structure again, the first one with a new value.
PlaceStructure(w, n, tag) ==
  LET fields == w.fields[n]
  IN [Counting(w, [Here(w) EXCEPT !.pc = @ + Len(fields)]) EXCEPT
        !.placed = @ \cup { Spot(w, "byte", IF j = 1 THEN tag ELSE fields[j], j - 1) :
                              j \in 1 .. Len(fields) }]

PlaceDsect(w, pc) == [Fresh(w, Dsect(w.dsects + 1), pc) EXCEPT !.dsects = @ + 1]

\* Blocks are nested and not in blocks of their own kind, no address space is started
\* twice and no label defined twice, and a structure is used when it is complete.
NoMeaning(w, line) ==
  CASE line.op = "label"     -> Key(w, line.n) \in w.defined
    [] line.op = "call"      -> line.n \notin DOMAIN w.fields \/ Within(w, "struct")
    [] line.op = "org"       -> \/ Within(w, "struct")
                                \/ ~Within(w, "dsect") /\ Orged(line.n) \in DOMAIN w.at
    [] line.op = "rend"      -> ~Here(w).relocated
    [] line.op = "section"   -> w.inside # << >> \/ line.n \in DOMAIN w.fields
    [] line.op = "dsect"     -> Within(w, "dsect")
    [] line.op = "dend"      -> Innermost(w) # "dsect"
    [] line.op = "struct"    -> \/ Within(w, "struct") \/ line.n \in DOMAIN w.fields
                                \/ Named(line.n) \in DOMAIN w.at
    [] line.op = "endstruct" -> \/ Innermost(w) # "struct"
                                \/ << Name("user", w.here.n) >> \in w.defined
    [] OTHER                 -> FALSE

Place(w, line) ==
  IF w.odd \/ NoMeaning(w, line) THEN [w EXCEPT !.odd = TRUE]
  ELSE CASE line.op = "byte"      -> PlaceByte(w, line.e.plus)
         [] line.op = "label"     -> PlaceLabel(w, Key(w, line.n), line.n)
         [] line.op = "call"      -> PlaceStructure(w, line.n, line.e.plus)
         [] line.op = "rorg"      -> Counting(w, Relocated(Here(w), line.n))
         [] line.op = "rend"      -> Counting(w, Back(Here(w)))
         [] line.op = "org"       -> IF Within(w, "dsect") THEN PlaceDsect(w, line.n)
                                     ELSE Fresh(w, Orged(line.n), line.n)
         [] line.op = "section"   -> IF Named(line.n) \in DOMAIN w.at
                                     THEN [w EXCEPT !.here = Named(line.n)]
                                     ELSE Fresh(w, Named(line.n), 0)
         [] line.op = "dsect"     -> PlaceDsect(Enter(w, "dsect"), w.dsect)
         [] line.op = "dend"      -> [Leave(w) EXCEPT !.dsect = Back(Here(w)).pc]
         [] line.op = "struct"    -> Fielded(Fresh(Enter(w, "struct"), Struct(line.n), 0),
                                             line.n, << >>)
         [] line.op = "endstruct" ->
              Leave(PlaceLabel(w, << Name("user", w.here.n) >>, w.here.n))

\* After each number of lines.
Placement(lines) ==
  LET w[k \in 0 .. Len(lines)] == IF k = 0 THEN Start ELSE Place(w[k - 1], lines[k])
  IN w

(***************************************************************************)
(* Sources of such lines only, without variables.                          *)
(***************************************************************************)
SectionDirectives == {"org", "rorg", "rend", "section", "dsect", "dend", "struct", "endstruct"}

IsDirective(line) ==
  /\ line.op \in SectionDirectives \cup {"byte", "label", "call"}
  /\ line.op \in {"byte", "call"} => line.e.of = "number"
  /\ line.op \in {"org", "rorg"} => line.n \in Int

DirectivesOnly == \A j \in 1 .. Len(Lines(Main)) : IsDirective(Lines(Main)[j])

PlacedIn(s) ==
  { << s.atoms[k].op, s.atoms[k].tag, layout(s)[k], ~s.unallocated >> :
      k \in { j \in 1 .. Len(s.atoms) : s.atoms[j].op \in {"byte", "label"} } }

PlacedAtoms == UNION { PlacedIn(sects[k]) : k \in DOMAIN sects }

(* org, rorg, section, dsect and struct put every byte and every label where *)
(* the documentation says, those of dsects and structures outside of the    *)
(* output, and dend and endstruct return to the section before, whichever   *)
(* way the blocks are combined; nothing is reported.  Not so in a source    *)
(* with a line that has no meaning, or with a dsect that is not closed.     *)
PlacedAsWritten ==
  outcome # "running" /\ DirectivesOnly =>
    LET meant == Placement(Lines(Main))[Len(Lines(Main))]
    IN \/ meant.odd \/ Within(meant, "dsect")
       \/ outcome = "done" /\ ~errors /\ PlacedAtoms = meant.placed
=============================================================================
