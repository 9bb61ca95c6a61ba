--------------------------- MODULE FrontEndProofs ---------------------------
(***************************************************************************)
(* Proofs about the front end, for every set of sources and every limit.   *)
(***************************************************************************)
EXTENDS FrontEnd, FiniteSetTheorems, SequenceTheorems, TLAPS

(* The stacks of the front end: push, pop, change one element.             *)
LEMMA Push ==
  ASSUME NEW S, NEW s \in Seq(S), NEW e \in S
  PROVE  /\ Append(s, e) \in Seq(S) /\ Append(s, e) # << >>
         /\ Len(Append(s, e)) = Len(s) + 1 /\ Append(s, e)[Len(s) + 1] = e
         /\ \A k \in 1 .. Len(s) : Append(s, e)[k] = s[k]
  OBVIOUS

LEMMA PopTop ==
  ASSUME NEW S, NEW s \in Seq(S), s # << >>
  PROVE  /\ SubSeq(s, 1, Len(s) - 1) \in Seq(S)
         /\ Len(SubSeq(s, 1, Len(s) - 1)) = Len(s) - 1
         /\ \A k \in 1 .. (Len(s) - 1) : SubSeq(s, 1, Len(s) - 1)[k] = s[k]
<1>1. Len(s) \in Nat \ {0} /\ \A k \in 1 .. (Len(s) - 1) : s[k] \in S
  BY EmptySeq
<1> DEFINE n == Len(s) - 1
           t == SubSeq(s, 1, n)
<1>2. t \in Seq(S) /\ Len(t) = IF 1 <= n THEN n - 1 + 1 ELSE 0
  BY <1>1, SubSeqProperties
<1>3. \A k \in 1 .. (n - 1 + 1) : t[k] = s[1 + k - 1]
  BY <1>1, SubSeqProperties
<1> HIDE DEF t
<1>4. Len(t) = n
  <2>1. n \in Nat
    BY <1>1
  <2> HIDE DEF n
  <2>. QED
    BY <1>2, <2>1
<1>5. \A k \in 1 .. n : t[k] = s[k]
  <2> TAKE k \in 1 .. n
  <2>1. k \in 1 .. (n - 1 + 1) /\ 1 + k - 1 = k
    BY <1>1
  <2>. QED
    BY <2>1, <1>3
<1>. QED
  BY <1>2, <1>4, <1>5 DEF t

LEMMA SetOne ==
  ASSUME NEW S, NEW s \in Seq(S), NEW k \in 1 .. Len(s), NEW e \in S
  PROVE  /\ [s EXCEPT ![k] = e] \in Seq(S)
         /\ Len([s EXCEPT ![k] = e]) = Len(s)
         /\ [s EXCEPT ![k] = e][k] = e
         /\ \A j \in 1 .. Len(s) : j # k => [s EXCEPT ![k] = e][j] = s[j]
  BY ExceptSeq

(* Conditional assembly: only the innermost condition may be false.        *)
CondInv == CondTypeOK /\ OnlyInnermostFalse

(* Only the four actions of cond.c touch the conditions; a skipped else or *)
(* endif changes them only outside of nested blocks.                       *)
LEMMA CondStep == CondInv /\ [Next]_vars => CondInv'
<1> SUFFICES ASSUME CondInv, [Next]_vars PROVE CondInv'
  OBVIOUS
<1> USE DEF CondInv, CondTypeOK, OnlyInnermostFalse, clev, cond_state
<1>1. CASE UNCHANGED condVars
  BY <1>1 DEF condVars
<1>2. CASE SkipLine
  <2>1. clev # 0 /\ cond # << >> /\ ~cond[clev] /\ clev \in 1 .. Len(cond)
    BY <1>2 DEF SkipLine
  <2>2. CASE Line.op = "else" /\ ifnesting = 0
    <3>1. cond' = [cond EXCEPT ![clev] = TRUE] /\ ifnesting' = 0
      BY <1>2, <2>2 DEF SkipLine, cond_else
    <3>. QED
      BY <2>1, <3>1, SetOne
  <2>3. CASE Line.op = "endif" /\ ifnesting = 0
    <3>1. cond' = SubSeq(cond, 1, clev - 1) /\ ifnesting' = 0
      BY <1>2, <2>3 DEF SkipLine
    <3>. QED
      BY <2>1, <3>1, PopTop
  <2>4. CASE ~(Line.op \in {"else", "endif"} /\ ifnesting = 0)
    <3>1. cond' = cond /\ ifnesting' \in Nat
      BY <1>2, <2>4 DEF SkipLine, cond_else
    <3>. QED
      BY <2>1, <3>1
  <2>. QED
    BY <2>2, <2>3, <2>4
<1>3. CASE If
  <2>1. cond_state /\ ifnesting' = 0
    BY <1>3 DEF If, Parsed
  <2>2. \A k \in 1 .. Len(cond) : cond[k]
    BY <2>1
  <2>3. CASE cond' = cond
    BY <2>1, <2>3
  <2>4. CASE cond' # cond
    <3>1. cond' = Append(cond, Value(Line.e) # 0)
      BY <1>3, <2>4 DEF If
    <3>2. /\ cond' \in Seq(BOOLEAN) /\ Len(cond') = Len(cond) + 1
          /\ \A k \in 1 .. Len(cond) : cond'[k] = cond[k]
      BY <3>1, Push
    <3>. QED
      BY <2>1, <2>2, <3>2
  <2>. QED
    BY <2>3, <2>4
<1>4. CASE Else
  <2>1. cond_state /\ ifnesting' = 0
    BY <1>4 DEF Else, Parsed
  <2>2. CASE cond' = cond
    BY <2>1, <2>2
  <2>3. CASE cond' # cond
    <3>1. clev \in 1 .. Len(cond) /\ cond' = [cond EXCEPT ![clev] = FALSE]
      BY <1>4, <2>3 DEF Else
    <3>. QED
      BY <2>1, <3>1, SetOne
  <2>. QED
    BY <2>2, <2>3
<1>5. CASE EndIf
  <2>1. cond_state /\ ifnesting' = 0
    BY <1>5 DEF EndIf, Parsed
  <2>2. CASE cond' = cond
    BY <2>1, <2>2
  <2>3. CASE cond' # cond
    <3>1. cond # << >> /\ cond' = SubSeq(cond, 1, clev - 1)
      BY <1>5, <2>3 DEF EndIf
    <3>. QED
      BY <2>1, <3>1, PopTop
  <2>. QED
    BY <2>2, <2>3
<1>. QED
  BY <1>1, <1>2, <1>3, <1>4, <1>5
     DEF Next, vars, condVars, readVars, EndOfText, ReadDefinition, IgnoreLine, Rept, Macro, StrayEnd,
         CallMacro, CallStructure, CallUnknown, Include, End, Byte, Reference, Label, Inline,
         EInline, SwitchSection, EndStruct, Stopped

(* No line is assembled under a false outer condition.                     *)
THEOREM ConditionsObeyed == Spec => []OnlyInnermostFalse
<1>1. Init => CondInv
  BY DEF Init, CondInv, CondTypeOK, OnlyInnermostFalse, clev
<1>2. CondInv => OnlyInnermostFalse
  BY DEF CondInv
<1>. QED
  BY <1>1, <1>2, CondStep, PTL DEF Spec

-----------------------------------------------------------------------------
(* The stack of sources.  RecursionsCounted needs the types, and the types *)
(* need it: that a count is not below zero.                                *)
SourceInv == SourceTypeOK /\ RecursionsCounted /\ SymbolIsCurrent

(* What is at the top of the stack, and the line it is at.                 *)
LEMMA CurSrc ==
  ASSUME SourceTypeOK
  PROVE  /\ Depth \in Nat \ {0} /\ cur_src \in SourceRecords /\ SourceOK(cur_src)
         /\ Len(Lines(cur_src.file)) \in Nat
         /\ ~AtEnd => /\ cur_src.ptr \in 1 .. Len(Lines(cur_src.file))
                      /\ LineOK(Programs[prog], Line)
<1>1. Depth \in Nat \ {0} /\ cur_src \in SourceRecords /\ SourceOK(cur_src)
  BY EmptySeq DEF SourceTypeOK, Depth, cur_src
<1>2. cur_src.file \in Files /\ Len(Lines(cur_src.file)) \in Nat
  BY <1>1, ProgramsAssumption DEF SourceTypeOK, SourceRecords, Files, Lines
<1>3. /\ cur_src.ptr \in cur_src.from .. (cur_src.to + 1) /\ cur_src.from >= 1
      /\ cur_src.to <= Len(Lines(cur_src.file))
      /\ cur_src.from \in Nat /\ cur_src.to \in Nat
  BY <1>1 DEF SourceOK, SourceRecords
<1>4. ~AtEnd => cur_src.ptr \in 1 .. Len(Lines(cur_src.file))
  BY <1>2, <1>3 DEF AtEnd
<1>. QED
  BY <1>1, <1>2, <1>4, ProgramsAssumption DEF SourceTypeOK, Files, Lines, Line

(* Another place in the text, and nothing else.                            *)
LEMMA Seek ==
  ASSUME SourceTypeOK, NEW p \in cur_src.from .. (cur_src.to + 1)
  PROVE  LET t == [src EXCEPT ![Depth].ptr = p]
         IN /\ t \in Seq(SourceRecords) /\ Len(t) = Depth
            /\ \A k \in 1 .. Depth : /\ SourceOK(t[k]) /\ t[k].macro = src[k].macro
                                     /\ t[k].reptn = src[k].reptn /\ t[k].file = src[k].file
<1> DEFINE e == [src[Depth] EXCEPT !.ptr = p]
<1>1. p \in Nat
  BY CurSrc DEF SourceRecords
<1>2. e \in SourceRecords
  BY <1>1, CurSrc DEF SourceRecords, cur_src
<1>3. /\ SourceOK(e) /\ e.macro = src[Depth].macro /\ e.reptn = src[Depth].reptn
      /\ e.file = src[Depth].file
  BY CurSrc DEF SourceOK, SourceRecords, cur_src, Lines
<1>4. [src EXCEPT ![Depth].ptr = p] = [src EXCEPT ![Depth] = e]
  OBVIOUS
<1>5. Depth \in 1 .. Len(src) /\ src \in Seq(SourceRecords)
  BY CurSrc DEF SourceTypeOK, Depth
<1> HIDE DEF e
<1>. QED
  BY <1>2, <1>3, <1>4, <1>5, SetOne DEF SourceTypeOK, Depth

(* How moving in a text, pushing one and popping one change the number of  *)
(* a macro's expansions on the stack.                                      *)
LEMMA CountType ==
  ASSUME Depth \in Nat, NEW m
  PROVE  /\ IsFiniteSet(Expansions(m)) /\ Cardinality(Expansions(m)) \in Nat
         /\ \A k \in 1 .. Depth : src[k].macro = m => Cardinality(Expansions(m)) > 0
<1>1. IsFiniteSet(1 .. Depth) /\ Expansions(m) \subseteq 1 .. Depth
  BY FS_Interval DEF Expansions
<1>2. IsFiniteSet(Expansions(m)) /\ Cardinality(Expansions(m)) \in Nat
  BY <1>1, FS_Subset, FS_CardinalityType
<1>. QED
  BY <1>2, FS_EmptySet DEF Expansions

LEMMA CountSame ==
  ASSUME Depth \in Nat, Depth' = Depth,
         \A k \in 1 .. Depth : src'[k].macro = src[k].macro
  PROVE  \A m : Cardinality(Expansions(m)') = Cardinality(Expansions(m))
<1>1. \A m : Expansions(m)' = Expansions(m)
  BY DEF Expansions
<1>. QED
  BY <1>1

LEMMA CountPush ==
  ASSUME Depth \in Nat, Depth' = Depth + 1,
         \A k \in 1 .. Depth : src'[k].macro = src[k].macro
  PROVE  \A m : Cardinality(Expansions(m)') =
                 Cardinality(Expansions(m)) + (IF src'[Depth + 1].macro = m THEN 1 ELSE 0)
<1> TAKE m
<1>1. CASE src'[Depth + 1].macro = m
  <2>1. Expansions(m)' = Expansions(m) \cup {Depth + 1} /\ Depth + 1 \notin Expansions(m)
    BY <1>1 DEF Expansions
  <2>. QED
    BY <1>1, <2>1, CountType, FS_AddElement
<1>2. CASE src'[Depth + 1].macro # m
  <2>1. Expansions(m)' = Expansions(m)
    BY <1>2 DEF Expansions
  <2>. QED
    BY <1>2, <2>1, CountType
<1>. QED
  BY <1>1, <1>2

LEMMA CountPop ==
  ASSUME Depth \in Nat \ {0}, Depth' = Depth - 1,
         \A k \in 1 .. (Depth - 1) : src'[k].macro = src[k].macro
  PROVE  \A m : Cardinality(Expansions(m)') =
                 Cardinality(Expansions(m)) - (IF cur_src.macro = m THEN 1 ELSE 0)
<1> TAKE m
<1>1. CASE cur_src.macro = m
  <2>1. Expansions(m)' = Expansions(m) \ {Depth} /\ Depth \in Expansions(m)
    BY <1>1 DEF Expansions, cur_src
  <2>. QED
    BY <1>1, <2>1, CountType, FS_RemoveElement
<1>2. CASE cur_src.macro # m
  <2>1. Expansions(m)' = Expansions(m)
    BY <1>2 DEF Expansions, cur_src
  <2>. QED
    BY <1>2, <2>1, CountType
<1>. QED
  BY <1>1, <1>2

(* Most lines only move on in the text and may begin a definition.         *)
Advancing ==
  /\ ~AtEnd /\ src' = Advanced /\ UNCHANGED << prog, macros, rptn >>
  /\ loaded' \subseteq Files /\ reading' \in Definitions
Still == UNCHANGED << prog, src, loaded, macros, reading, rptn >>

(* The value of an operand is a number.                                    *)
LEMMA Values ==
  ASSUME SourceTypeOK, NEW e \in Operands
  PROVE  Expand(e) \in Operands /\ Value(e) \in Int
<1>1. cur_src.num_params >= 1 => cur_src.param[1] \in Operands
  BY CurSrc DEF SourceOK, SourceRecords
<1>2. Expand(e) \in Operands
  BY <1>1 DEF Expand, Operands
<1>. QED
  BY <1>2 DEF Value, Operands, SourceTypeOK

LEMMA Classified ==
  ASSUME SourceTypeOK, [Next]_vars
  PROVE  Advancing \/ Still \/ EndOfText \/ ReadDefinition \/ CallMacro \/ Include
<1>0. loaded \subseteq Files /\ reading \in Definitions
  BY DEF SourceTypeOK
<1>1. CASE Rept
  <2>1. ~AtEnd /\ Line.op = "rept"
    BY <1>1 DEF Rept, Parsed, HasLine
  <2>2. Value(Line.e) \in Int /\ cur_src.file \in Files /\ cur_src.ptr + 1 \in Nat \ {0}
    BY <2>1, CurSrc, Values DEF LineOK, SourceRecords
  <2>3. reading' \in Definitions
    BY <1>1, <2>2 DEF Rept, Definitions
  <2>. QED
    BY <1>0, <1>1, <2>1, <2>3 DEF Rept, Advancing
<1>2. CASE Macro
  <2>1. ~AtEnd /\ Line.op = "macro"
    BY <1>2 DEF Macro, Parsed, HasLine
  <2>2. cur_src.file \in Files /\ cur_src.ptr + 1 \in Nat \ {0}
    BY <2>1, CurSrc DEF SourceRecords
  <2>3. Line.n \in MacroNames
    BY <2>1, <2>2, CurSrc DEF MacroNames, Line
  <2>4. CASE cur_src.defsrc
    BY <1>2, <2>4 DEF Macro, Still
  <2>5. CASE ~cur_src.defsrc
    <3>1. reading' \in Definitions
      BY <1>2, <2>2, <2>3, <2>5 DEF Macro, Definitions
    <3>. QED
      BY <1>0, <1>2, <2>1, <2>5, <3>1 DEF Macro, Advancing
  <2>. QED
    BY <2>4, <2>5
<1>3. CASE IgnoreLine \/ SkipLine \/ If \/ Else \/ EndIf \/ StrayEnd \/ End
  BY <1>0, <1>3 DEF IgnoreLine, SkipLine, If, Else, EndIf, StrayEnd, End, Parsed, HasLine, Advancing, Still
<1>4. CASE Byte \/ Reference \/ Label \/ Inline \/ EInline \/ CallUnknown
  BY <1>0, <1>4 DEF Byte, Reference, Label, Inline, EInline, CallUnknown, readVars, Parsed, HasLine,
                    Advancing
<1>5. CASE CallStructure
  BY <1>0, <1>5 DEF CallStructure, readVars, Parsed, HasLine, Advancing, Still
<1>6. CASE SwitchSection \/ EndStruct
  BY <1>0, <1>6 DEF SwitchSection, EndStruct, readVars, Parsed, HasLine, Advancing, Still
<1>7. CASE Stopped \/ UNCHANGED vars
  BY <1>7 DEF Stopped, vars, sourceVars, Still
<1>. QED
  BY <1>1, <1>2, <1>3, <1>4, <1>5, <1>6, <1>7 DEF Next

LEMMA AdvancingStep == ASSUME SourceInv, Advancing PROVE SourceInv'
<1>0. SourceTypeOK /\ RecursionsCounted /\ SymbolIsCurrent
  BY DEF SourceInv
<1>1. cur_src.ptr + 1 \in cur_src.from .. (cur_src.to + 1)
  BY <1>0, CurSrc DEF Advancing, AtEnd, SourceOK, SourceRecords
<1>2. Advanced = [src EXCEPT ![Depth].ptr = cur_src.ptr + 1]
  BY DEF Advanced, cur_src
<1>3. /\ src' \in Seq(SourceRecords) /\ Len(src') = Depth
      /\ \A k \in 1 .. Depth : /\ SourceOK(src'[k]) /\ src'[k].macro = src[k].macro
                               /\ src'[k].reptn = src[k].reptn
  BY <1>0, <1>1, <1>2, Seek DEF Advancing
<1>4. SourceRecords' = SourceRecords /\ Depth' = Depth /\ Depth \in Nat \ {0}
  BY <1>0, <1>3, CurSrc DEF Advancing, SourceRecords, Files, Depth
<1>5. SourceTypeOK'
  <2>1. \A k \in 1 .. Depth : SourceOK(src[k])'
    BY <1>3 DEF Advancing, SourceOK, Lines
  <2>2. src' # << >>
    BY <1>3, <1>4, EmptySeq
  <2>. QED
    BY <1>0, <1>3, <1>4, <2>1, <2>2
       DEF Advancing, SourceTypeOK, Files, MacroRecords, MacroNames, MacroOK, Lines, Definitions
<1>6. RecursionsCounted'
  BY <1>0, <1>3, <1>4, CountSame DEF Advancing, RecursionsCounted
<1>7. SymbolIsCurrent'
  BY <1>0, <1>3, <1>4 DEF Advancing, SymbolIsCurrent, cur_src
<1>. QED
  BY <1>5, <1>6, <1>7 DEF SourceInv

LEMMA StillStep == ASSUME SourceInv, Still PROVE SourceInv'
<1>1. Depth' = Depth /\ cur_src' = cur_src /\ \A m : Expansions(m)' = Expansions(m)
  BY DEF Still, Depth, cur_src, Expansions
<1>2. SourceTypeOK'
  BY <1>1 DEF SourceInv, Still, SourceTypeOK, SourceRecords, SourceOK, Files, MacroRecords, MacroNames,
              MacroOK, Lines, Definitions
<1>. QED
  BY <1>1, <1>2 DEF SourceInv, Still, RecursionsCounted, SymbolIsCurrent

(* A repetition begun again; a macro's count moved by one.                 *)
LEMMA Repeated ==
  ASSUME NEW r \in SourceRecords, r.repeat > 1
  PROVE  LET e == [r EXCEPT !.repeat = @ - 1, !.ptr = r.from, !.reptn = @ + 1]
         IN /\ e \in SourceRecords /\ e.macro = r.macro /\ e.reptn = r.reptn + 1
            /\ SourceOK(r) => SourceOK(e)
<1>1. /\ r.repeat - 1 \in Nat \ {0} /\ r.reptn + 1 \in Nat \cup {-1}
      /\ r.from \in Nat /\ r.to \in Nat
  BY DEF SourceRecords
<1> DEFINE e == [r EXCEPT !.repeat = @ - 1, !.ptr = r.from, !.reptn = @ + 1]
<1>2. e \in SourceRecords
  BY <1>1 DEF SourceRecords
<1>3. /\ e.macro = r.macro /\ e.reptn = r.reptn + 1 /\ e.ptr = r.from /\ e.from = r.from
      /\ e.to = r.to /\ e.file = r.file /\ e.num_params = r.num_params /\ e.param = r.param
  BY DEF SourceRecords
<1> HIDE DEF e
<1>4. SourceOK(r) => SourceOK(e)
  BY <1>1, <1>3 DEF SourceOK, Lines
<1>. QED
  BY <1>2, <1>3, <1>4 DEF e

LEMMA Recounted ==
  ASSUME NEW r \in MacroRecords, NEW n \in 0 .. maxmacrecurs
  PROVE  LET e == [r EXCEPT !.recursions = n]
         IN /\ e \in MacroRecords /\ e.recursions = n /\ r.recursions \in Nat
            /\ e.from = r.from /\ e.to = r.to /\ e.file = r.file
  BY LimitsAssumption DEF LimitsAssumption, MacroRecords

LEMMA Counted ==
  ASSUME macros \in Seq(MacroRecords)
  PROVE  \A m \in 1 .. Len(macros) : /\ macros[m] \in MacroRecords
                                    /\ macros[m].recursions \in 0 .. maxmacrecurs
                                    /\ macros[m].recursions \in Nat
<1> TAKE m \in 1 .. Len(macros)
<1>1. macros[m] \in MacroRecords
  BY ElementOfSeq
<1>. QED
  BY <1>1, LimitsAssumption DEF LimitsAssumption, MacroRecords

(* The end of a text: read again, or left.                                 *)
LEMMA AgainStep ==
  ASSUME SourceInv, cur_src.repeat > 1, Again, UNCHANGED << prog, loaded, macros, reading >>
  PROVE  SourceInv'
<1> DEFINE e == [src[Depth] EXCEPT !.repeat = @ - 1, !.ptr = cur_src.from, !.reptn = @ + 1]
<1>0. SourceTypeOK /\ RecursionsCounted /\ SymbolIsCurrent
  BY DEF SourceInv
<1>1. e \in SourceRecords /\ e.macro = src[Depth].macro /\ e.reptn = cur_src.reptn + 1
  BY <1>0, CurSrc, Repeated DEF cur_src
<1>2. SourceOK(e)
  BY <1>0, CurSrc, Repeated DEF cur_src
<1>3. src' = [src EXCEPT ![Depth] = e]
  BY DEF Again
<1>4. Depth \in 1 .. Len(src) /\ src \in Seq(SourceRecords)
  BY <1>0, CurSrc DEF SourceTypeOK, Depth
<1> HIDE DEF e
<1>5. /\ src' \in Seq(SourceRecords) /\ Len(src') = Depth /\ src'[Depth] = e
      /\ \A k \in 1 .. Depth : k # Depth => src'[k] = src[k]
  BY <1>1, <1>3, <1>4, SetOne DEF Depth
<1>6. Depth' = Depth /\ SourceRecords' = SourceRecords
  BY <1>5 DEF Depth, SourceRecords, Files
<1>7. SourceTypeOK'
  <2>1. \A k \in 1 .. Depth : SourceOK(src[k])'
    BY <1>0, <1>2, <1>5 DEF SourceOK, Lines, SourceTypeOK
  <2>2. src' # << >>
    BY <1>4, <1>5
  <2>3. rptn' \in Nat \cup {-1}
    BY <1>0, CurSrc DEF Again, SourceRecords
  <2>. QED
    BY <1>0, <1>5, <1>6, <2>1, <2>2, <2>3
       DEF SourceTypeOK, Files, MacroRecords, MacroNames, MacroOK, Lines, Definitions
<1>8. RecursionsCounted'
  <2>1. \A k \in 1 .. Depth : src'[k].macro = src[k].macro
    BY <1>1, <1>5
  <2>. QED
    BY <1>0, <1>4, <1>6, <2>1, CountSame DEF RecursionsCounted
<1>9. SymbolIsCurrent'
  BY <1>1, <1>5, <1>6 DEF Again, SymbolIsCurrent, cur_src
<1>. QED
  BY <1>7, <1>8, <1>9 DEF SourceInv

LEMMA PopStep ==
  ASSUME SourceInv, Depth > 1, Pop, UNCHANGED << prog, loaded, reading >>
  PROVE  SourceInv'
<1>0. /\ SourceTypeOK /\ RecursionsCounted /\ SymbolIsCurrent
      /\ src \in Seq(SourceRecords) /\ src # << >> /\ Depth \in Nat \ {0}
  BY CurSrc DEF SourceInv, SourceTypeOK
<1>1. /\ src' \in Seq(SourceRecords) /\ Depth' = Depth - 1
      /\ \A k \in 1 .. (Depth - 1) : src'[k] = src[k]
  BY <1>0, PopTop DEF Pop, Depth
<1>2. \A m : Cardinality(Expansions(m)') =
                Cardinality(Expansions(m)) - (IF cur_src.macro = m THEN 1 ELSE 0)
  BY <1>0, <1>1, CountPop
<1>3. /\ macros' \in Seq(MacroRecords) /\ Len(macros') = Len(macros)
      /\ \A m \in 1 .. Len(macros) :
           /\ macros'[m].recursions =
                macros[m].recursions - (IF cur_src.macro = m THEN 1 ELSE 0)
           /\ macros'[m].from = macros[m].from /\ macros'[m].to = macros[m].to
           /\ macros'[m].file = macros[m].file
  <2>0. macros \in Seq(MacroRecords) /\ cur_src.macro \in 1 .. Len(macros) \cup {NOMACRO}
    <3>1. macros \in Seq(MacroRecords) /\ DOMAIN macros = 1 .. Len(macros)
      BY <1>0, LenProperties DEF SourceTypeOK
    <3>. QED
      BY <1>0, <3>1, CurSrc DEF SourceRecords
  <2>1. CASE cur_src.macro = NOMACRO
    <3>1. macros' = macros /\ \A m \in 1 .. Len(macros) : cur_src.macro # m
      BY <2>1 DEF Pop, NOMACRO
    <3>2. \A m \in 1 .. Len(macros) : macros[m].recursions \in Nat
      BY <2>0, Counted
    <3>. QED
      BY <2>0, <3>1, <3>2
  <2>2. CASE cur_src.macro # NOMACRO
    <3> DEFINE m0 == cur_src.macro
               n  == macros[m0].recursions - 1
               e  == [macros[m0] EXCEPT !.recursions = n]
    <3>1. m0 \in 1 .. Len(macros) /\ macros[m0] \in MacroRecords
      BY <2>0, <2>2
    <3>2. macros[m0].recursions = Cardinality(Expansions(m0)) /\ Cardinality(Expansions(m0)) > 0
      BY <1>0, <3>1, CountType DEF RecursionsCounted, cur_src
    <3>3. \A m \in 1 .. Len(macros) : macros[m].recursions \in 0 .. maxmacrecurs
                                      /\ macros[m].recursions \in Nat
      BY <2>0, Counted
    <3>5. n \in 0 .. maxmacrecurs
      BY <3>1, <3>2, <3>3, LimitsAssumption DEF LimitsAssumption
    <3>7. e \in MacroRecords /\ e.recursions = macros[m0].recursions - 1
          /\ e.from = macros[m0].from /\ e.to = macros[m0].to /\ e.file = macros[m0].file
      BY <3>1, <3>5, Recounted
    <3>4. macros' = [macros EXCEPT ![m0] = e]
      BY <2>2 DEF Pop
    <3> HIDE DEF m0, e, n
    <3>6. /\ macros' \in Seq(MacroRecords) /\ Len(macros') = Len(macros) /\ macros'[m0] = e
          /\ \A m \in 1 .. Len(macros) : m # m0 => macros'[m] = macros[m]
      BY <2>0, <3>1, <3>7, <3>4, SetOne
    <3>. QED
      BY <3>3, <3>7, <3>6 DEF m0
  <2>. QED
    BY <2>1, <2>2
<1>4. SourceRecords' = SourceRecords /\ MacroRecords' = MacroRecords /\ Files' = Files
      /\ Definitions' = Definitions
  <2>1. DOMAIN macros' = DOMAIN macros
    BY <1>0, <1>3 DEF SourceTypeOK
  <2>. QED
    BY <2>1 DEF SourceRecords, MacroRecords, MacroNames, Files, Lines, Definitions
<1>5. SourceTypeOK'
  <2>0. \A k \in 1 .. (Depth - 1) : k \in 1 .. Depth /\ SourceOK(src[k])
    BY <1>0 DEF SourceTypeOK
  <2>1. \A k \in 1 .. Depth' : SourceOK(src[k])'
    BY <1>1, <2>0 DEF SourceOK, Lines
  <2>2. \A m \in 1 .. Len(macros') : MacroOK(macros[m])'
    BY <1>0, <1>3 DEF MacroOK, Lines, SourceTypeOK
  <2>3. Depth - 1 \in 1 .. Depth /\ src' # << >>
    BY <1>0, <1>1 DEF Depth
  <2>4. rptn' \in Nat \cup {-1}
    <3>1. src[Depth - 1] \in SourceRecords
      BY <1>0, <2>3, ElementOfSeq DEF Depth
    <3>. QED
      BY <3>1 DEF Pop, SourceRecords
  <2>. QED
    BY <1>0, <1>1, <1>3, <1>4, <2>1, <2>2, <2>3, <2>4 DEF SourceTypeOK
<1>6. RecursionsCounted'
  BY <1>0, <1>2, <1>3 DEF RecursionsCounted
<1>7. SymbolIsCurrent'
  BY <1>0, <1>1 DEF Pop, SymbolIsCurrent, cur_src
<1>. QED
  BY <1>5, <1>6, <1>7 DEF SourceInv

LEMMA EndOfTextStep == ASSUME SourceInv, EndOfText PROVE SourceInv'
<1>1. CASE cur_src.repeat > 1
  BY <1>1, AgainStep DEF EndOfText
<1>2. CASE cur_src.repeat = 1 /\ Depth > 1
  BY <1>2, PopStep DEF EndOfText
<1>3. CASE cur_src.repeat = 1 /\ Depth = 1
  BY <1>3, StillStep DEF EndOfText, Still
<1>. QED
  BY <1>1, <1>2, <1>3 DEF EndOfText

(* A text e on top of the stack, after the one below has moved to line p.  *)
LEMMA PushOn ==
  ASSUME SourceTypeOK, NEW p \in cur_src.from .. (cur_src.to + 1),
         NEW e \in SourceRecords, SourceOK(e), UNCHANGED prog,
         src' = Append([src EXCEPT ![Depth].ptr = p], e)
  PROVE  /\ src' \in Seq(SourceRecords) /\ src' # << >> /\ Depth' = Depth + 1
         /\ cur_src' = e /\ \A k \in 1 .. Depth' : SourceOK(src[k])'
         /\ \A m : Cardinality(Expansions(m)') =
                   Cardinality(Expansions(m)) + (IF e.macro = m THEN 1 ELSE 0)
<1> DEFINE t == [src EXCEPT ![Depth].ptr = p]
<1>1. /\ t \in Seq(SourceRecords) /\ Len(t) = Depth
      /\ \A k \in 1 .. Depth : SourceOK(t[k]) /\ t[k].macro = src[k].macro
  BY Seek
<1> HIDE DEF t
<1>2. src' = Append(t, e)
  BY DEF t
<1>3. /\ src' \in Seq(SourceRecords) /\ src' # << >> /\ Len(src') = Depth + 1
      /\ src'[Depth + 1] = e /\ \A k \in 1 .. Depth : src'[k] = t[k]
  <2>1. /\ Append(t, e) \in Seq(SourceRecords) /\ Append(t, e) # << >>
        /\ Len(Append(t, e)) = Len(t) + 1 /\ Append(t, e)[Len(t) + 1] = e
        /\ \A k \in 1 .. Len(t) : Append(t, e)[k] = t[k]
    BY <1>1, Push
  <2>. QED
    BY <1>1, <1>2, <2>1
<1>4. Depth \in Nat /\ Depth' = Depth + 1 /\ cur_src' = e
  BY <1>3, CurSrc DEF Depth, cur_src
<1>5. \A k \in 1 .. Depth' : SourceOK(src[k])'
  <2>1. \A k \in 1 .. (Depth + 1) : SourceOK(src'[k])
    BY <1>1, <1>3, <1>4
  <2>. QED
    BY <1>4, <2>1 DEF SourceOK, Lines
<1>6. \A m : Cardinality(Expansions(m)') =
            Cardinality(Expansions(m)) + (IF e.macro = m THEN 1 ELSE 0)
  BY <1>1, <1>3, <1>4, CountPush
<1>. QED
  BY <1>3, <1>4, <1>5, <1>6

(* What does not depend on the stack.                                      *)
LEMMA SameSets ==
  ASSUME UNCHANGED prog
  PROVE  /\ Files' = Files /\ MacroNames' = MacroNames /\ MacroRecords' = MacroRecords
         /\ Definitions' = Definitions
         /\ \A f : Lines(f)' = Lines(f)
         /\ DOMAIN macros' = DOMAIN macros => SourceRecords' = SourceRecords
<1>1. Files' = Files /\ \A f : Lines(f)' = Lines(f)
  BY DEF Files, Lines
<1>2. MacroNames' = MacroNames
  BY DEF MacroNames, Files, Lines
<1>3. MacroRecords' = MacroRecords /\ Definitions' = Definitions
  BY <1>1, <1>2 DEF MacroRecords, Definitions
<1>4. DOMAIN macros' = DOMAIN macros => SourceRecords' = SourceRecords
  BY <1>1 DEF SourceRecords
<1>. QED
  BY <1>1, <1>2, <1>3, <1>4

(* What new_source() sets, and what execute_macro() and start_repeat()     *)
(* change in it.                                                           *)
LEMMA NewSource ==
  ASSUME SourceTypeOK, NEW f \in Files, NEW from \in Nat \ {0}, NEW to \in Nat,
         from <= to + 1, to <= Len(Lines(f))
  PROVE  LET e == new_source(f, from, to)
         IN e \in SourceRecords /\ SourceOK(e) /\ e.macro = NOMACRO /\ e.reptn = rptn
<1>1. << >> \in Seq(Operands) /\ rptn \in Nat \cup {-1}
  BY EmptySeq DEF SourceTypeOK
<1>. QED
  BY <1>1 DEF new_source, SourceRecords, SourceOK, NOMACRO

LEMMA MacroText ==
  ASSUME NEW r \in SourceRecords, SourceOK(r), NEW m \in DOMAIN macros,
         NEW args \in Seq(Operands), Len(args) = 1
  PROVE  LET e == [r EXCEPT !.num_params = 1, !.param = args, !.macro = m, !.defsrc = TRUE]
         IN e \in SourceRecords /\ SourceOK(e) /\ e.macro = m /\ e.reptn = r.reptn
<1> DEFINE e == [r EXCEPT !.num_params = 1, !.param = args, !.macro = m, !.defsrc = TRUE]
<1>1. e \in SourceRecords
  BY DEF SourceRecords
<1>2. /\ e.macro = m /\ e.reptn = r.reptn /\ e.ptr = r.ptr /\ e.from = r.from
      /\ e.to = r.to /\ e.file = r.file /\ e.param = args
  BY DEF SourceRecords
<1> HIDE DEF e
<1>3. SourceOK(e)
  BY <1>2 DEF SourceOK
<1>. QED
  BY <1>1, <1>2, <1>3 DEF e

LEMMA IncludeStep == ASSUME SourceInv, Include PROVE SourceInv'
<1>0. /\ SourceTypeOK /\ RecursionsCounted /\ SymbolIsCurrent
      /\ ~AtEnd /\ Line.op = "include" /\ UNCHANGED << prog, macros, reading, rptn >>
  BY DEF SourceInv, Include, Parsed, HasLine
<1>1. Line.f \in Files /\ loaded' \subseteq Files
  BY <1>0, CurSrc DEF LineOK, Files, SourceTypeOK, Include
<1>2. CASE src' = Advanced
  BY <1>0, <1>1, <1>2, AdvancingStep DEF Advancing, SourceTypeOK
<1>3. CASE src' # Advanced
  <2> DEFINE e == FileSource(Line.f)
             p == cur_src.ptr + 1
  <2>1. src' = Append([src EXCEPT ![Depth].ptr = p], e)
    BY <1>3 DEF Include, Pushed, Advanced, cur_src
  <2>2. p \in cur_src.from .. (cur_src.to + 1)
    BY <1>0, CurSrc DEF AtEnd, SourceOK, SourceRecords
  <2>3. Len(Lines(Line.f)) \in Nat
    BY <1>0, <1>1, ProgramsAssumption DEF Files, Lines, SourceTypeOK
  <2>4. << >> \in Seq(Operands) /\ rptn \in Nat \cup {-1}
    BY <1>0, EmptySeq DEF SourceTypeOK
  <2>5. e \in SourceRecords
    BY <1>1, <2>3, <2>4 DEF FileSource, new_source, SourceRecords, NOMACRO
  <2>6. SourceOK(e) /\ e.macro = NOMACRO /\ e.reptn = rptn
    BY <2>3 DEF FileSource, new_source, SourceOK, Lines
  <2> HIDE DEF e, p
  <2>7. /\ src' \in Seq(SourceRecords) /\ src' # << >> /\ Depth' = Depth + 1
        /\ cur_src' = e /\ \A k \in 1 .. Depth' : SourceOK(src[k])'
        /\ \A m : Cardinality(Expansions(m)') =
                  Cardinality(Expansions(m)) + (IF NOMACRO = m THEN 1 ELSE 0)
    BY <1>0, <2>1, <2>2, <2>5, <2>6, PushOn
  <2>8. SourceTypeOK'
    BY <1>0, <1>1, <2>7, SameSets DEF SourceTypeOK, MacroOK
  <2>9. RecursionsCounted'
    <3>1. \A m \in 1 .. Len(macros) : Cardinality(Expansions(m)') = Cardinality(Expansions(m))
      BY <1>0, <2>7, CurSrc, CountType DEF NOMACRO
    <3>. QED
      BY <1>0, <3>1 DEF RecursionsCounted
  <2>10. SymbolIsCurrent'
    BY <1>0, <2>6, <2>7 DEF SymbolIsCurrent
  <2>. QED
    BY <2>8, <2>9, <2>10 DEF SourceInv
<1>. QED
  BY <1>2, <1>3

(* A macro within its limit: one more expansion on the stack, one more in  *)
(* its count.                                                              *)
LEMMA CallMacroStep == ASSUME SourceInv, CallMacro PROVE SourceInv'
<1>0. /\ SourceTypeOK /\ RecursionsCounted /\ SymbolIsCurrent
      /\ ~AtEnd /\ Line.op = "call" /\ UNCHANGED << prog, loaded, reading, rptn >>
  BY DEF SourceInv, CallMacro, Parsed, HasLine
<1>1. PICK m0 \in find_macro(Line.n) : ExecuteMacro(m0)
  BY DEF CallMacro
<1>2. CASE macros[m0].recursions >= maxmacrecurs
  BY <1>0, <1>1, <1>2, StillStep DEF ExecuteMacro, Still
<1>3. CASE ~(macros[m0].recursions >= maxmacrecurs)
  <2> DEFINE e == [new_source(macros[m0].file, macros[m0].from, macros[m0].to) EXCEPT
                     !.num_params = 1, !.param = << Expand(Line.e) >>, !.macro = m0, !.defsrc = TRUE]
             p == cur_src.ptr + 1
             n == macros[m0].recursions + 1
             r == [macros[m0] EXCEPT !.recursions = n]
  <2>1. src' = Append([src EXCEPT ![Depth].ptr = p], e) /\ macros' = [macros EXCEPT ![m0] = r]
    BY <1>1, <1>3 DEF ExecuteMacro, Pushed, Advanced, cur_src
  <2>2. p \in cur_src.from .. (cur_src.to + 1)
    BY <1>0, CurSrc DEF AtEnd, SourceOK, SourceRecords
  <2>3. /\ macros \in Seq(MacroRecords) /\ DOMAIN macros = 1 .. Len(macros)
        /\ m0 \in 1 .. Len(macros) /\ macros[m0] \in MacroRecords /\ MacroOK(macros[m0])
        /\ macros[m0].recursions \in Nat /\ n \in 0 .. maxmacrecurs
    BY <1>0, <1>3, Counted, LenProperties, LimitsAssumption
       DEF SourceTypeOK, find_macro, LimitsAssumption
  <2>4. << Expand(Line.e) >> \in Seq(Operands) /\ Len(<< Expand(Line.e) >>) = 1
    BY <1>0, CurSrc, Values DEF LineOK
  <2>5. e \in SourceRecords /\ SourceOK(e)
    <3> DEFINE t == macros[m0]
               s == new_source(t.file, t.from, t.to)
    <3>1. /\ t.file \in Files /\ t.from \in Nat \ {0} /\ t.to \in Nat
          /\ t.from <= t.to + 1 /\ t.to <= Len(Lines(t.file))
      BY <2>3 DEF MacroRecords, MacroOK
    <3>2. s \in SourceRecords /\ SourceOK(s)
      BY <1>0, <3>1, NewSource
    <3> HIDE DEF s, t
    <3>. QED
      BY <2>3, <2>4, <3>2, MacroText DEF s, t
  <2>6. e.macro = m0 /\ e.reptn = rptn
    BY DEF new_source
  <2>7. /\ r \in MacroRecords /\ r.recursions = n
        /\ r.from = macros[m0].from /\ r.to = macros[m0].to /\ r.file = macros[m0].file
    BY <2>3, Recounted
  <2> HIDE DEF e, p, r, n
  <2>8. /\ src' \in Seq(SourceRecords) /\ src' # << >> /\ Depth' = Depth + 1
        /\ cur_src' = e /\ \A k \in 1 .. Depth' : SourceOK(src[k])'
        /\ \A m : Cardinality(Expansions(m)') =
                  Cardinality(Expansions(m)) + (IF m0 = m THEN 1 ELSE 0)
    BY <1>0, <2>1, <2>2, <2>5, <2>6, PushOn
  <2>9. /\ macros' \in Seq(MacroRecords) /\ Len(macros') = Len(macros) /\ macros'[m0] = r
        /\ \A m \in 1 .. Len(macros) : m # m0 => macros'[m] = macros[m]
    BY <2>1, <2>3, <2>7, SetOne
  <2>10. SourceTypeOK'
    <3>1. DOMAIN macros' = DOMAIN macros
      BY <2>3, <2>9, LenProperties
    <3>2. \A m \in 1 .. Len(macros') : MacroOK(macros[m])'
      BY <1>0, <2>3, <2>7, <2>9 DEF MacroOK, SourceTypeOK, Lines
    <3>. QED
      BY <1>0, <2>8, <2>9, <3>1, <3>2, SameSets DEF SourceTypeOK
  <2>11. RecursionsCounted'
    <3>1. Depth \in Nat
      BY <1>0, CurSrc
    <3>2. \A m : Cardinality(Expansions(m)) \in Nat
      BY <3>1, CountType
    <3>. QED
      BY <1>0, <2>3, <2>7, <2>8, <2>9, <3>2 DEF RecursionsCounted, n
  <2>12. SymbolIsCurrent'
    BY <1>0, <2>6, <2>8 DEF SymbolIsCurrent
  <2>. QED
    BY <2>10, <2>11, <2>12 DEF SourceInv
<1>. QED
  BY <1>2, <1>3

(* A definition that has been read: the new macro is not on the stack, a   *)
(* repetition goes on top of it.                                           *)
LEMMA AddMacroStep ==
  ASSUME SourceInv, NEW j \in EndLine, reading.of = "macro", Defined(j), reading # NoDef,
         macros' = add_macro(j), src' = [src EXCEPT ![Depth].ptr = j + 1],
         reading' = NoDef, UNCHANGED << prog, loaded, rptn >>
  PROVE  SourceInv'
<1>0. /\ SourceTypeOK /\ RecursionsCounted /\ SymbolIsCurrent
      /\ macros \in Seq(MacroRecords) /\ DOMAIN macros = 1 .. Len(macros) /\ Depth \in Nat \ {0}
  BY CurSrc, LenProperties DEF SourceInv, SourceTypeOK
<1>1. j \in cur_src.ptr .. cur_src.to /\ j + 1 \in cur_src.from .. (cur_src.to + 1) /\ j \in Nat
      /\ j - 1 <= Len(Lines(cur_src.file))
  BY <1>0, CurSrc DEF EndLine, SourceOK, SourceRecords
<1> DEFINE r == [name |-> reading.name, file |-> reading.file, from |-> reading.from,
                 to |-> j - 1, recursions |-> 0]
<1>2. /\ reading.name \in MacroNames /\ reading.file = cur_src.file /\ reading.file \in Files
      /\ reading.from \in Nat \ {0} /\ reading.from <= j
  BY <1>0 DEF SourceTypeOK, Definitions, Defined, NoDef
<1>3. r \in MacroRecords /\ r.recursions = 0 /\ MacroOK(r)
  BY <1>1, <1>2, LimitsAssumption DEF MacroRecords, MacroOK, LimitsAssumption
<1> HIDE DEF r
<1>4. /\ macros' \in Seq(MacroRecords) /\ Len(macros') = Len(macros) + 1
      /\ macros'[Len(macros) + 1] = r /\ \A m \in 1 .. Len(macros) : macros'[m] = macros[m]
  <2>1. macros' = Append(macros, r)
    BY DEF add_macro, r
  <2>. QED
    BY <1>0, <1>3, <2>1, Push
<1>5. /\ src' \in Seq(SourceRecords) /\ Len(src') = Depth
      /\ \A k \in 1 .. Depth : /\ SourceOK(src'[k]) /\ src'[k].macro = src[k].macro
                               /\ src'[k].reptn = src[k].reptn
  BY <1>0, <1>1, Seek
<1>6. SourceRecords \subseteq SourceRecords' /\ Depth' = Depth
  <2>1. DOMAIN macros \subseteq DOMAIN macros'
    BY <1>0, <1>4, LenProperties
  <2>. QED
    BY <1>5, <2>1, SameSets DEF SourceRecords, Depth
<1>7. SourceTypeOK'
  <2>1. src' \in Seq(SourceRecords')
    BY <1>5, <1>6, SeqMonotonic
  <2>2. \A k \in 1 .. Depth : SourceOK(src[k])'
    BY <1>5 DEF SourceOK, Lines
  <2>3. src' # << >>
    BY <1>0, <1>5
  <2>4. \A m \in 1 .. Len(macros') : MacroOK(macros'[m])
    <3>1. \A m \in 1 .. Len(macros) : MacroOK(macros'[m])
      BY <1>0, <1>4 DEF SourceTypeOK
    <3>2. \A m \in 1 .. Len(macros') : m = Len(macros) + 1 \/ m \in 1 .. Len(macros)
      BY <1>0, <1>4
    <3>. QED
      BY <1>3, <1>4, <3>1, <3>2
  <2>5. \A m \in 1 .. Len(macros') : MacroOK(macros[m])'
    BY <2>4 DEF MacroOK, Lines
  <2>. QED
    BY <2>5, <1>0, <1>4, <1>6, <2>1, <2>2, <2>3, <2>4, SameSets DEF SourceTypeOK, Definitions
<1>8. RecursionsCounted'
  <2>1. \A m : Cardinality(Expansions(m)') = Cardinality(Expansions(m))
    BY <1>0, <1>5, <1>6, CountSame
  <2>2. \A k \in 1 .. Depth : src[k].macro # Len(macros) + 1
    <3> TAKE k \in 1 .. Depth
    <3>1. src[k] \in SourceRecords
      BY <1>0, ElementOfSeq DEF SourceTypeOK, Depth
    <3>. QED
      BY <1>0, <3>1 DEF SourceRecords, NOMACRO
  <2>3. Cardinality(Expansions(Len(macros) + 1)) = 0
    BY <2>2, FS_EmptySet DEF Expansions
  <2>4. \A m \in 1 .. Len(macros') : m = Len(macros) + 1 \/ m \in 1 .. Len(macros)
    BY <1>0, <1>4
  <2>5. \A m \in 1 .. Len(macros') : macros'[m].recursions = Cardinality(Expansions(m))
    BY <1>0, <1>3, <1>4, <2>3, <2>4 DEF RecursionsCounted
  <2>. QED
    BY <2>1, <2>5 DEF RecursionsCounted
<1>9. SymbolIsCurrent'
  BY <1>0, <1>5, <1>6 DEF SymbolIsCurrent, cur_src
<1>. QED
  BY <1>7, <1>8, <1>9 DEF SourceInv

LEMMA StartRepeatStep ==
  ASSUME SourceInv, NEW j \in EndLine, reading.of = "rept", Defined(j), reading # NoDef,
         reading.cnt > 0, src' = Append([src EXCEPT ![Depth].ptr = j + 1], start_repeat(j)),
         rptn' = 0, reading' = NoDef, UNCHANGED << prog, loaded, macros >>
  PROVE  SourceInv'
<1>0. /\ SourceTypeOK /\ RecursionsCounted /\ cur_src \in SourceRecords /\ SourceOK(cur_src)
      /\ Depth \in Nat
  BY CurSrc DEF SourceInv
<1>1. j \in cur_src.ptr .. cur_src.to /\ j + 1 \in cur_src.from .. (cur_src.to + 1) /\ j \in Nat
      /\ j - 1 <= Len(Lines(cur_src.file)) /\ cur_src.file \in Files
  BY <1>0, CurSrc DEF EndLine, SourceOK, SourceRecords
<1>2. reading.from \in Nat \ {0} /\ reading.from <= j /\ reading.cnt \in Nat \ {0}
  BY <1>0 DEF SourceTypeOK, Definitions, Defined, NoDef
<1> DEFINE s    == new_source(cur_src.file, reading.from, j - 1)
           num  == IF cur_src.macro = NOMACRO THEN -1 ELSE cur_src.num_params
           args == IF cur_src.macro = NOMACRO THEN << >> ELSE cur_src.param
           e    == start_repeat(j)
           p    == j + 1
<1>3. s \in SourceRecords /\ SourceOK(s) /\ s.macro = NOMACRO
  BY <1>0, <1>1, <1>2, NewSource
<1>4. num \in {-1, 1} /\ args \in Seq(Operands) /\ (num = 1 => Len(args) = 1)
  BY <1>0, EmptySeq DEF SourceRecords, SourceOK
<1>5. e = [s EXCEPT !.repeat = reading.cnt, !.reptn = 0, !.defsrc = TRUE,
                    !.num_params = num, !.param = args]
  BY DEF start_repeat
<1>5a. p \in cur_src.from .. (cur_src.to + 1) /\ src' = Append([src EXCEPT ![Depth].ptr = p], e)
  BY <1>1
<1> HIDE DEF s, num, args, e, p
<1>6. e \in SourceRecords /\ SourceOK(e) /\ e.macro = NOMACRO /\ e.reptn = 0
  <2>1. e \in SourceRecords
    BY <1>2, <1>3, <1>4, <1>5 DEF SourceRecords
  <2>2. /\ e.macro = NOMACRO /\ e.reptn = 0 /\ e.ptr = s.ptr /\ e.from = s.from
        /\ e.to = s.to /\ e.file = s.file /\ e.param = args /\ e.num_params = num
    BY <1>3, <1>5 DEF SourceRecords
  <2>. QED
    BY <1>3, <1>4, <2>1, <2>2 DEF SourceOK
<1>7. /\ src' \in Seq(SourceRecords) /\ src' # << >> /\ Depth' = Depth + 1
      /\ cur_src' = e /\ \A k \in 1 .. Depth' : SourceOK(src[k])'
      /\ \A m : Cardinality(Expansions(m)') =
                Cardinality(Expansions(m)) + (IF NOMACRO = m THEN 1 ELSE 0)
  BY <1>0, <1>5a, <1>6, PushOn
<1>8. SourceTypeOK'
  BY <1>0, <1>7, SameSets DEF SourceTypeOK, MacroOK, Definitions
<1>9. RecursionsCounted'
  <2>1. \A m \in 1 .. Len(macros) : Cardinality(Expansions(m)') = Cardinality(Expansions(m))
    BY <1>0, <1>7, CountType DEF NOMACRO
  <2>. QED
    BY <1>0, <2>1 DEF RecursionsCounted
<1>10. SymbolIsCurrent'
  BY <1>6, <1>7 DEF SymbolIsCurrent
<1>. QED
  BY <1>8, <1>9, <1>10 DEF SourceInv

LEMMA ReadDefinitionStep == ASSUME SourceInv, ReadDefinition PROVE SourceInv'
<1>0. SourceTypeOK /\ reading # NoDef /\ ~AtEnd /\ UNCHANGED << prog, loaded >>
  BY DEF SourceInv, ReadDefinition
<1>1. CASE UNCHANGED << src, macros, reading, rptn >>
  BY <1>0, <1>1, StillStep DEF Still
<1>2. CASE ~UNCHANGED << src, macros, reading, rptn >>
  <2>1. PICK j \in EndLine :
          /\ Defined(j) /\ reading' = NoDef
          /\ \/ /\ reading.of = "macro" /\ macros' = add_macro(j) /\ UNCHANGED rptn
                /\ src' = [src EXCEPT ![Depth].ptr = j + 1]
             \/ /\ reading.of = "rept" /\ UNCHANGED macros
                /\ \/ UNCHANGED << src, rptn >>
                   \/ src' = [src EXCEPT ![Depth].ptr = j + 1] /\ UNCHANGED rptn
                   \/ /\ ~(reading.cnt < 0) /\ reading.cnt # 0 /\ rptn' = 0
                      /\ src' = Append([src EXCEPT ![Depth].ptr = j + 1], start_repeat(j))
    BY <1>2 DEF ReadDefinition
  <2>2. CASE reading.of = "macro"
    BY <1>0, <2>1, <2>2, AddMacroStep
  <2>3. CASE reading.of = "rept" /\ UNCHANGED << src, rptn, macros >>
    <3>1. SourceTypeOK'
      BY <1>0, <2>1, <2>3, SameSets DEF SourceTypeOK, MacroOK, SourceOK, Definitions, Depth
    <3>2. Depth' = Depth /\ cur_src' = cur_src /\ \A m : Expansions(m)' = Expansions(m)
      BY <2>3 DEF Depth, cur_src, Expansions
    <3>. QED
      BY <2>3, <3>1, <3>2 DEF SourceInv, RecursionsCounted, SymbolIsCurrent
  <2>4. CASE /\ reading.of = "rept" /\ UNCHANGED << rptn, macros >>
             /\ src' = [src EXCEPT ![Depth].ptr = j + 1]
    <3>1. j + 1 \in cur_src.from .. (cur_src.to + 1)
      BY <1>0, CurSrc DEF EndLine, SourceOK, SourceRecords
    <3>2. /\ src' \in Seq(SourceRecords) /\ Len(src') = Depth
          /\ \A k \in 1 .. Depth : /\ SourceOK(src'[k]) /\ src'[k].macro = src[k].macro
                                   /\ src'[k].reptn = src[k].reptn
      BY <1>0, <2>4, <3>1, Seek
    <3>3. Depth \in Nat \ {0} /\ Depth' = Depth /\ src' # << >>
      BY <1>0, <3>2, CurSrc DEF Depth
    <3>4. \A k \in 1 .. Depth : SourceOK(src[k])'
      BY <1>0, <3>2 DEF SourceOK, Lines
    <3>5. SourceTypeOK'
      BY <1>0, <2>1, <2>4, <3>2, <3>3, <3>4, SameSets DEF SourceTypeOK, MacroOK, Definitions
    <3>6. RecursionsCounted'
      BY <2>4, <3>2, <3>3, CountSame DEF SourceInv, RecursionsCounted
    <3>7. SymbolIsCurrent'
      BY <2>4, <3>2, <3>3 DEF SourceInv, SymbolIsCurrent, cur_src
    <3>. QED
      BY <3>5, <3>6, <3>7 DEF SourceInv
  <2>5. CASE /\ reading.of = "rept" /\ UNCHANGED macros /\ rptn' = 0
             /\ ~(reading.cnt < 0) /\ reading.cnt # 0
             /\ src' = Append([src EXCEPT ![Depth].ptr = j + 1], start_repeat(j))
    <3>1. reading.cnt > 0
      BY <1>0, <2>5 DEF SourceTypeOK, Definitions, NoDef
    <3>. QED
      BY <1>0, <2>1, <2>5, <3>1, StartRepeatStep
  <2>. QED
    BY <2>1, <2>2, <2>3, <2>4, <2>5
<1>. QED
  BY <1>1, <1>2

LEMMA SourceStep == SourceInv /\ [Next]_vars => SourceInv'
<1> SUFFICES ASSUME SourceInv, [Next]_vars PROVE SourceInv'
  OBVIOUS
<1>. QED
  BY Classified, AdvancingStep, StillStep, EndOfTextStep, ReadDefinitionStep, CallMacroStep,
     IncludeStep DEF SourceInv

LEMMA SourceInit == Init => SourceInv
<1> SUFFICES ASSUME Init PROVE SourceInv
  OBVIOUS
<1>1. prog \in DOMAIN Programs /\ Main \in Files /\ rptn = -1 /\ macros = << >>
  BY ProgramsAssumption DEF Init, Files
<1>2. Len(Lines(Main)) \in Nat
  BY <1>1, ProgramsAssumption DEF Lines, Files
<1> DEFINE e == FileSource(Main)
<1>3. << >> \in Seq(Operands) /\ << >> \in Seq(MacroRecords) /\ Len(macros) = 0
  BY <1>1, EmptySeq
<1>4. e \in SourceRecords /\ SourceOK(e) /\ e.macro = NOMACRO /\ e.reptn = -1
  BY <1>1, <1>2, <1>3 DEF FileSource, new_source, SourceRecords, SourceOK, NOMACRO
<1> HIDE DEF e
<1>5. src = << e >>
  BY DEF Init, e
<1>6. src \in Seq(SourceRecords) /\ src # << >> /\ Depth = 1 /\ src[1] = e
  BY <1>4, <1>5 DEF Depth
<1>7. SourceTypeOK
  BY <1>1, <1>3, <1>4, <1>6 DEF Init, SourceTypeOK, Definitions
<1>8. RecursionsCounted
  BY <1>3 DEF RecursionsCounted
<1>9. SymbolIsCurrent
  BY <1>1, <1>4, <1>6 DEF SymbolIsCurrent, cur_src
<1>. QED
  BY <1>7, <1>8, <1>9 DEF SourceInv

(* The recursion limit is one on the depth of the stack.                   *)
THEOREM RecursionsAreCounted == Spec => []RecursionsCounted
<1>1. SourceInv => RecursionsCounted
  BY DEF SourceInv
<1>. QED
  BY <1>1, SourceInit, SourceStep, PTL DEF Spec

(* __RPTCNT is that of the innermost repetition at every line.             *)
THEOREM SymbolStaysCurrent == Spec => []SymbolIsCurrent
<1>1. SourceInv => SymbolIsCurrent
  BY DEF SourceInv
<1>. QED
  BY <1>1, SourceInit, SourceStep, PTL DEF Spec

-----------------------------------------------------------------------------
(* Types of the rest.  Sections are only ever added and changed.           *)
IsSeq(s) == s \in Seq({ s[k] : k \in 1 .. Len(s) })

LEMMA SameLength ==
  ASSUME NEW s, IsSeq(s), NEW t, t = [k \in DOMAIN s |-> t[k]]
  PROVE  IsSeq(t) /\ Len(t) = Len(s)
<1>1. DOMAIN s = 1 .. Len(s) /\ Len(s) \in Nat
  BY LenProperties DEF IsSeq
<1> DEFINE T == { t[k] : k \in 1 .. Len(s) }
<1>2. t \in [1 .. Len(s) -> T]
  BY <1>1
<1>3. t \in Seq(T) /\ Len(t) = Len(s)
  BY <1>1, <1>2
<1>. QED
  BY <1>3 DEF IsSeq

LEMMA SeqIsSeq ==
  ASSUME NEW S, NEW t \in Seq(S)
  PROVE  IsSeq(t) /\ Len(t) \in Nat
<1> DEFINE n == Len(t)
           T == { t[k] : k \in 1 .. n }
<1>1. t \in [1 .. n -> S] /\ n \in Nat
  BY LenProperties
<1> HIDE DEF n
<1>2. t \in [1 .. n -> T]
  BY <1>1
<1> HIDE DEF T
<1>3. t \in Seq(T)
  BY <1>1, <1>2
<1>. QED
  BY <1>1, <1>3 DEF IsSeq, T, n

LEMMA Longer ==
  ASSUME NEW s, IsSeq(s), NEW e
  PROVE  IsSeq(Append(s, e)) /\ Len(Append(s, e)) = Len(s) + 1
<1> DEFINE S == { s[k] : k \in 1 .. Len(s) } \cup {e}
<1>1. s \in Seq(S)
  <2>1. s \in Seq({ s[k] : k \in 1 .. Len(s) })
    BY DEF IsSeq
  <2>. QED
    BY <2>1, SeqMonotonic
<1> HIDE DEF S
<1>2. Append(s, e) \in Seq(S) /\ Len(Append(s, e)) = Len(s) + 1
  BY <1>1, Push DEF S
<1>. QED
  BY <1>2, SeqIsSeq

\* A section that is created comes last; the others stay where they are.
LEMMA NewSection ==
  ASSUME NEW ss, IsSeq(ss), NEW name
  PROVE  /\ IsSeq(new_section(ss, name)) /\ Len(ss) \in Nat
         /\ Len(new_section(ss, name)) \in Nat
         /\ Len(new_section(ss, name)) >= Len(ss)
<1>1. Len(ss) \in Nat
  BY SeqIsSeq DEF IsSeq
<1>. QED
  BY <1>1, Longer DEF new_section

LEMMA FindSection ==
  ASSUME NEW ss, IsSeq(ss), NEW name
  PROVE  find_section(ss, name) \in 0 .. Len(ss)
<1>1. Len(ss) \in Nat /\ DOMAIN ss = 1 .. Len(ss)
  BY LenProperties DEF IsSeq
<1>. QED
  BY <1>1 DEF find_section, NULL

LEMMA AtomsAdded ==
  ASSUME NEW ss, IsSeq(ss), NEW k, NEW atoms
  PROVE  IsSeq(AddAtoms(ss, k, atoms)) /\ Len(AddAtoms(ss, k, atoms)) = Len(ss)
<1> DEFINE t == AddAtoms(ss, k, atoms)
<1>1. t = [j \in DOMAIN ss |-> t[j]]
  BY DEF AddAtoms
<1>. QED
  BY <1>1, SameLength

-----------------------------------------------------------------------------
SectionInv == SectionTypeOK /\ IsSeq(sects) /\ IsSeq(inline_stack)

\* The list grows, and the current section is in it.
Grown == IsSeq(sects') /\ Len(sects') \in Nat /\ Len(sects') >= Len(sects)

LEMMA DefaultIn ==
  ASSUME SectionInv
  PROVE  /\ IsSeq(default_section) /\ Len(default_section) \in Nat
         /\ Len(default_section) >= Len(sects)
         /\ Default \in 0 .. Len(default_section)
<1>1. IsSeq(sects) /\ Len(sects) \in Nat /\ current_section \in 0 .. Len(sects)
  BY SeqIsSeq DEF SectionInv, SectionTypeOK, IsSeq
<1>. QED
  BY <1>1, NewSection, FindSection DEF default_section, Default

LEMMA AddAtomStep ==
  ASSUME SectionInv, NEW atom, add_atom(atom)
  PROVE  Grown /\ current_section' \in 0 .. Len(sects')
  BY DefaultIn, AtomsAdded DEF add_atom, Grown

\* Where the two lists stay, and what points into them too, nothing changes.
LEMMA UntouchedStep ==
  ASSUME SectionInv, UNCHANGED << sectionVars, inline_stack, inline_id >>
  PROVE  SectionInv'
  BY DEF SectionInv, SectionTypeOK, IsSeq, sectionVars, dsectVars, structVars

\* A section that is found or created, then changed, then made the current one.
LEMMA SwitchStep ==
  ASSUME SectionInv, NEW name, NEW t,
         t = [j \in DOMAIN new_section(sects, name) |-> t[j]], set_section(t, name)
  PROVE  Grown /\ current_section' \in 0 .. Len(sects')
<1>1. IsSeq(sects) /\ Len(sects) \in Nat
  BY SeqIsSeq DEF SectionInv, IsSeq
<1> DEFINE ss == new_section(sects, name)
<1>2. IsSeq(ss) /\ Len(ss) \in Nat /\ Len(ss) >= Len(sects)
  BY <1>1, NewSection
<1> HIDE DEF ss
<1>3. IsSeq(t) /\ Len(t) = Len(ss)
  BY <1>2, SameLength DEF ss
<1>. QED
  BY <1>1, <1>2, <1>3, FindSection DEF Grown, set_section

LEMMA OrgStep ==
  ASSUME SectionInv, NEW a, new_org(a)
  PROVE  Grown /\ current_section' \in 0 .. Len(sects')
<1> DEFINE name == Name("seg", a)
           ss == new_section(sects, name)
           k == find_section(ss, name)
           t == [ss EXCEPT ![k].org = a, ![k].pc = a, ![k].absolute = TRUE]
<1>1. t = [j \in DOMAIN ss |-> t[j]]
  OBVIOUS
<1>2. set_section(t, name)
  BY DEF new_org
<1>. QED
  BY <1>1, <1>2, SwitchStep

LEMMA OffsetStep ==
  ASSUME SectionInv, NEW offs, new_offset_section(offs)
  PROVE  Grown /\ current_section' \in 0 .. Len(sects')
<1> DEFINE name == Name("offset", offset_id + 1)
           ss == new_section(sects, name)
           k == find_section(ss, name)
           t == [ss EXCEPT ![k].unallocated = TRUE, ![k].org = offs, ![k].pc = offs]
<1>1. t = [j \in DOMAIN ss |-> t[j]]
  OBVIOUS
<1>2. set_section(t, name)
  BY DEF new_offset_section
<1>. QED
  BY <1>1, <1>2, SwitchStep

LEMMA NamedStep ==
  ASSUME SectionInv, NEW n, handle_section(n)
  PROVE  Grown /\ current_section' \in 0 .. Len(sects')
<1> DEFINE t == new_section(sects, Name("user", n))
<1>1. IsSeq(t)
  BY NewSection DEF SectionInv
<1>2. set_section(t, Name("user", n))
  BY DEF handle_section
<1> HIDE DEF t
<1>3. t = [j \in DOMAIN t |-> t[j]]
  BY <1>1 DEF IsSeq
<1>. QED
  BY <1>2, <1>3, SwitchStep DEF t

LEMMA StructStep ==
  ASSUME SectionInv, NEW n, cur_struct = NULL, handle_struct(n)
  PROVE  Grown /\ current_section' \in 0 .. Len(sects') /\ cur_struct' \in 0 .. Len(sects')
<1> DEFINE name == Name("user", n)
           ss == new_section(sects, name)
           k == find_section(ss, name)
           t == [ss EXCEPT ![k].unallocated = TRUE, ![k].struct = TRUE,
                           ![k].labels_are_local = TRUE]
<1>1. t = [j \in DOMAIN ss |-> t[j]]
  OBVIOUS
<1>2. set_section(t, name) /\ cur_struct' = k
  BY DEF handle_struct
<1>3. IsSeq(ss) /\ k \in 0 .. Len(ss)
  BY NewSection, FindSection DEF SectionInv
<1>4. Grown /\ current_section' \in 0 .. Len(sects')
  BY <1>1, <1>2, SwitchStep
<1>5. Len(sects') = Len(ss)
  <2>1. sects' = t
    BY <1>2 DEF set_section
  <2> HIDE DEF ss
  <2>2. sects' = [j \in DOMAIN ss |-> sects'[j]]
    BY <2>1
  <2>. QED
    BY <1>3, <2>2, SameLength
<1>. QED
  BY <1>2, <1>3, <1>4, <1>5

LEMMA RelocateStep ==
  ASSUME SectionInv, (\E a : handle_rorg(a)) \/ handle_rend
  PROVE  Grown /\ current_section' \in 0 .. Len(sects')
<1>1. ASSUME NEW ss, IsSeq(ss), NEW k
      PROVE  IsSeq(Unrelocated(ss, k)) /\ Len(Unrelocated(ss, k)) = Len(ss)
  <2> DEFINE u == AddAtoms(ss, k, << RorgEnd >>)
             t == Unrelocated(ss, k)
  <2>1. IsSeq(u) /\ Len(u) = Len(ss)
    BY <1>1, AtomsAdded
  <2> HIDE DEF u
  <2>2. t = [j \in DOMAIN u |-> t[j]]
    BY DEF Unrelocated, u
  <2>. QED
    BY <2>1, <2>2, SameLength
<1>2. CASE handle_rend
  BY <1>1, <1>2, DefaultIn DEF handle_rend, Grown
<1>3. ASSUME NEW a, handle_rorg(a) PROVE Grown /\ current_section' \in 0 .. Len(sects')
  <2> DEFINE ss == default_section
             open == IF ss[Default].in_rorg THEN Unrelocated(ss, Default) ELSE ss
             u == AddAtoms(open, Default, << Rorg(a) >>)
  <2>1. IsSeq(open) /\ Len(open) = Len(ss)
    BY <1>1, DefaultIn
  <2>2. IsSeq(u) /\ Len(u) = Len(open)
    BY <2>1, AtomsAdded
  <2>3. sects' = [j \in DOMAIN u |-> sects'[j]] /\ current_section' = Default
    BY <1>3 DEF handle_rorg
  <2> HIDE DEF u, open
  <2>4. IsSeq(sects') /\ Len(sects') = Len(u)
    BY <2>2, <2>3, SameLength
  <2>. QED
    BY <2>1, <2>2, <2>3, <2>4, DefaultIn DEF Grown
<1>. QED
  BY <1>2, <1>3

LEMMA GrownStep ==
  ASSUME SectionInv, Grown, current_section' \in 0 .. Len(sects'),
         last_alloc_sect' \in 0 .. Len(sects'), cur_struct' \in 0 .. Len(sects'),
         struct_prevsect' \in 0 .. Len(sects'), UNCHANGED << inline_stack, inline_id >>
  PROVE  SectionInv'
  BY DEF SectionInv, SectionTypeOK, Grown, IsSeq

\* What is remembered stays in a list that grows.
LEMMA StillThere ==
  ASSUME SectionInv, Grown, NEW k \in 0 .. Len(sects)
  PROVE  k \in 0 .. Len(sects')
<1>1. Len(sects) \in Nat
  BY SeqIsSeq DEF SectionInv, IsSeq
<1>. QED
  BY <1>1 DEF Grown

LEMMA Remembered ==
  ASSUME SectionInv, Grown
  PROVE  /\ current_section \in 0 .. Len(sects') /\ last_alloc_sect \in 0 .. Len(sects')
         /\ cur_struct \in 0 .. Len(sects') /\ struct_prevsect \in 0 .. Len(sects')
         /\ NULL \in 0 .. Len(sects')
<1>1. NULL \in 0 .. Len(sects')
  BY DEF Grown, NULL
<1>. QED
  BY <1>1, StillThere DEF SectionInv, SectionTypeOK

LEMMA AtomsStep ==
  ASSUME SectionInv,
         (\E atom : add_atom(atom))
           \/ /\ \E atoms : sects' = AddAtoms(default_section, Default, atoms)
              /\ current_section' = Default
              /\ UNCHANGED << dsectVars, structVars, offset_id >>,
         UNCHANGED inlineVars
  PROVE  SectionInv'
<1>1. Grown /\ current_section' \in 0 .. Len(sects')
  BY DefaultIn, AtomsAdded DEF add_atom, Grown
<1>2. UNCHANGED << dsectVars, structVars, inline_stack, inline_id >>
  BY DEF add_atom, inlineVars
<1>. QED
  BY <1>1, <1>2, Remembered, GrownStep DEF dsectVars, structVars

LEMMA InlineStep ==
  ASSUME SectionInv, Inline \/ EInline
  PROVE  SectionInv'
<1>1. Len(inline_stack) \in Nat /\ inline_stack \in Seq({ inline_stack[k] : k \in 1 .. Len(inline_stack) })
  BY SeqIsSeq DEF SectionInv, IsSeq
<1>2. UNCHANGED sectionVars
  BY DEF Inline, EInline
<1>3. IsSeq(inline_stack') /\ Len(inline_stack') <= INLSTACKSIZE /\ inline_id' \in Nat
  <2>0. IsSeq(inline_stack) /\ Len(inline_stack) <= INLSTACKSIZE /\ inline_id \in Nat
    BY DEF SectionInv, SectionTypeOK
  <2>1. CASE Inline
    <3>1. CASE Len(inline_stack) < INLSTACKSIZE
      <4>1. inline_stack' = Append(inline_stack, inline_id) /\ inline_id' = inline_id + 1
        BY <2>1, <3>1 DEF Inline
      <4>. QED
        BY <1>1, <2>0, <3>1, <4>1, Longer, LimitsAssumption
    <3>2. CASE ~(Len(inline_stack) < INLSTACKSIZE)
      <4>1. inline_stack' = inline_stack /\ inline_id' = inline_id
        BY <2>1, <3>2 DEF Inline, inlineVars
      <4>. QED
        BY <2>0, <4>1
    <3>. QED
      BY <3>1, <3>2
  <2>2. CASE EInline /\ inline_stack = << >>
    BY <2>2 DEF EInline, handle_einline, SectionInv, SectionTypeOK, inlineVars, IsSeq
  <2>3. CASE EInline /\ inline_stack # << >>
    <3>1. inline_stack' = SubSeq(inline_stack, 1, Len(inline_stack) - 1) /\ inline_id' = inline_id
      BY <2>3 DEF EInline, handle_einline
    <3>2. /\ inline_stack' \in Seq({ inline_stack[k] : k \in 1 .. Len(inline_stack) })
          /\ Len(inline_stack') = Len(inline_stack) - 1
      BY <1>1, <2>3, <3>1, PopTop
    <3>3. IsSeq(inline_stack')
      BY <3>2, SeqIsSeq
    <3>. QED
      BY <1>1, <3>1, <3>2, <3>3, LimitsAssumption DEF SectionInv, SectionTypeOK
  <2>. QED
    BY <2>1, <2>2, <2>3
<1>. QED
  BY <1>2, <1>3 DEF SectionInv, SectionTypeOK, sectionVars, dsectVars, structVars, IsSeq

LEMMA SwitchSectionStep ==
  ASSUME SectionInv, SwitchSection
  PROVE  SectionInv'
<1>0. UNCHANGED << inline_stack, inline_id >>
  BY DEF SwitchSection, inlineVars
<1>1. CASE \E a : handle_org(a)
  <2>1. Grown /\ current_section' \in 0 .. Len(sects')
    BY <1>1, OrgStep, OffsetStep DEF handle_org
  <2>2. UNCHANGED << dsectVars, structVars >>
    BY <1>1 DEF handle_org
  <2>. QED
    BY <1>0, <2>1, <2>2, Remembered, GrownStep DEF dsectVars, structVars
<1>2. CASE (\E a : handle_rorg(a)) \/ handle_rend
  <2>1. UNCHANGED << dsectVars, structVars >>
    BY <1>2 DEF handle_rorg, handle_rend
  <2>. QED
    BY <1>0, <1>2, <2>1, RelocateStep, Remembered, GrownStep DEF dsectVars, structVars
<1>3. CASE \E n : handle_section(n)
  <2>1. UNCHANGED << dsectVars, structVars >>
    BY <1>3 DEF handle_section
  <2>. QED
    BY <1>0, <1>3, <2>1, NamedStep, Remembered, GrownStep DEF dsectVars, structVars
<1>4. CASE handle_dsect
  <2>1. Grown /\ current_section' \in 0 .. Len(sects')
    BY <1>4, OffsetStep DEF handle_dsect
  <2>2. last_alloc_sect' \in {last_alloc_sect, current_section} /\ UNCHANGED structVars
    BY <1>4 DEF handle_dsect
  <2>. QED
    BY <1>0, <2>1, <2>2, Remembered, GrownStep DEF structVars
<1>5. CASE UNCHANGED sectionVars
  BY <1>0, <1>5, UntouchedStep
<1>6. CASE handle_dend /\ dsect_active /\ current_section # NULL
  <2>1. /\ UNCHANGED << sects, structVars >>
        /\ current_section' = last_alloc_sect /\ last_alloc_sect' = NULL
    BY <1>6 DEF handle_dend, misplaced, follows_null
  <2>2. Grown
    BY <2>1, SeqIsSeq DEF Grown, SectionInv, IsSeq
  <2>. QED
    BY <1>0, <2>1, <2>2, Remembered, GrownStep DEF structVars
<1>7. CASE cur_struct = NULL /\ \E n : handle_struct(n)
  <2>1. Grown /\ current_section' \in 0 .. Len(sects') /\ cur_struct' \in 0 .. Len(sects')
    BY <1>7, StructStep
  <2>2. UNCHANGED dsectVars /\ struct_prevsect' = current_section
    BY <1>7 DEF handle_struct
  <2>. QED
    BY <1>0, <2>1, <2>2, Remembered, GrownStep DEF dsectVars
<1>. QED
  BY <1>1, <1>2, <1>3, <1>4, <1>5, <1>6, <1>7
     DEF SwitchSection, handle_dend, handle_struct, misplaced, follows_null

LEMMA EndStructStep ==
  ASSUME SectionInv, EndStruct
  PROVE  SectionInv'
<1>0. UNCHANGED << inline_stack, inline_id >>
  BY DEF EndStruct, inlineVars
<1>1. CASE UNCHANGED sectionVars
  BY <1>0, <1>1, UntouchedStep
<1>2. CASE ~UNCHANGED sectionVars
  <2> DEFINE t == [sects EXCEPT ![current_section].labels_are_local = FALSE]
  <2>1. PICK label : /\ sects' = AddAtoms(t, current_section, << label >>)
                     /\ current_section' = struct_prevsect
                     /\ cur_struct' = NULL /\ struct_prevsect' = NULL
                     /\ UNCHANGED dsectVars
    BY <1>2 DEF EndStruct, handle_endstruct, misplaced, follows_null
  <2>2. IsSeq(t) /\ Len(t) = Len(sects)
    <3>1. t = [j \in DOMAIN sects |-> t[j]]
      OBVIOUS
    <3>. QED
      BY <3>1, SameLength DEF SectionInv
  <2> HIDE DEF t
  <2>3. IsSeq(sects') /\ Len(sects') = Len(sects)
    BY <2>1, <2>2, AtomsAdded
  <2>4. Len(sects) \in Nat
    BY SeqIsSeq DEF SectionInv, IsSeq
  <2>5. Grown
    BY <2>3, <2>4 DEF Grown
  <2>. QED
    BY <1>0, <2>1, <2>5, Remembered, GrownStep DEF dsectVars
<1>. QED
  BY <1>1, <1>2

LEMMA SectionStep == SectionInv /\ [Next]_vars => SectionInv'
<1> SUFFICES ASSUME SectionInv, [Next]_vars PROVE SectionInv'
  OBVIOUS
<1>1. CASE Byte \/ Reference \/ Label
  <2>1. (\E atom : add_atom(atom)) /\ UNCHANGED inlineVars
    BY <1>1 DEF Byte, Reference, Label
  <2>. QED
    BY <2>1, AtomsStep
<1>2. CASE CallStructure
  <2>1. UNCHANGED inlineVars
    BY <1>2 DEF CallStructure
  <2>2. CASE UNCHANGED sectionVars
    BY <2>1, <2>2, UntouchedStep DEF inlineVars
  <2>3. CASE ~UNCHANGED sectionVars
    BY <1>2, <2>1, <2>3, AtomsStep DEF CallStructure
  <2>. QED
    BY <2>2, <2>3
<1>3. CASE UNCHANGED << sectionVars, inlineVars >>
  BY <1>3, UntouchedStep DEF inlineVars
<1>4. CASE \/ EndOfText \/ ReadDefinition \/ IgnoreLine \/ SkipLine \/ If \/ Else \/ EndIf
           \/ Rept \/ Macro \/ StrayEnd \/ CallMacro \/ CallUnknown \/ Include \/ End \/ Stopped
  BY <1>3, <1>4
     DEF EndOfText, ReadDefinition, IgnoreLine, SkipLine, If, Else, EndIf, Rept, Macro, StrayEnd,
         CallMacro, CallUnknown, Include, End, Stopped, readVars, vars
<1>5. CASE UNCHANGED vars
  BY <1>3, <1>5 DEF vars
<1>. QED
  BY <1>1, <1>2, <1>4, <1>5, InlineStep, SwitchSectionStep, EndStructStep DEF Next

(* What is not a number or a list.                                         *)
FlagInv ==
  /\ parse_end \in BOOLEAN /\ dsect_active \in BOOLEAN /\ errors \in BOOLEAN
  /\ outcome \in {"running", "done", "fatal", "undefined"}

LEMMA FlagStep == FlagInv /\ [Next]_vars => FlagInv'
<1> SUFFICES ASSUME FlagInv, [Next]_vars PROVE FlagInv'
  OBVIOUS
<1> USE DEF FlagInv
<1>1. CASE EndOfText \/ ReadDefinition \/ IgnoreLine \/ SkipLine
  BY <1>1 DEF EndOfText, ReadDefinition, IgnoreLine, SkipLine, AtEndOfSource, sectionVars,
              dsectVars
<1>2. CASE If \/ Else \/ EndIf \/ Rept \/ Macro \/ StrayEnd
  BY <1>2 DEF If, Else, EndIf, Rept, Macro, StrayEnd, sectionVars, dsectVars
<1>3. CASE CallMacro \/ CallUnknown \/ Include \/ End
  BY <1>3 DEF CallMacro, ExecuteMacro, CallUnknown, Include, End, readVars, sectionVars, dsectVars
<1>4. CASE CallStructure
  BY <1>4 DEF CallStructure, readVars, sectionVars, dsectVars
<1>5. CASE Byte \/ Reference \/ Label \/ Inline \/ EInline
  BY <1>5 DEF Byte, Reference, Label, Inline, EInline, handle_einline, add_atom, readVars,
              sectionVars, dsectVars
<1>6. CASE SwitchSection
  <2>1. UNCHANGED parse_end
    BY <1>6 DEF SwitchSection, readVars
  <2>2. CASE (\E a : handle_org(a) \/ handle_rorg(a)) \/ (\E n : handle_section(n)) \/ handle_rend
    BY <2>1, <2>2 DEF handle_org, handle_rorg, handle_section, handle_rend, dsectVars
  <2>3. CASE handle_dsect \/ handle_dend \/ (\E n : handle_struct(n))
    BY <2>1, <2>3 DEF handle_dsect, handle_dend, handle_struct, misplaced, follows_null,
                      sectionVars, dsectVars
  <2>. QED
    BY <1>6, <2>2, <2>3 DEF SwitchSection
<1>7. CASE EndStruct
  BY <1>7 DEF EndStruct, handle_endstruct, misplaced, follows_null, readVars, sectionVars, dsectVars
<1>8. CASE Stopped \/ UNCHANGED vars
  BY <1>8 DEF Stopped, vars, sectionVars, dsectVars
<1>. QED
  BY <1>1, <1>2, <1>3, <1>4, <1>5, <1>6, <1>7, <1>8 DEF Next

LEMMA RestInit == Init => SectionInv /\ FlagInv
<1>1. IsSeq(<< >>) /\ Len(<< >>) = 0
  BY EmptySeq, SeqIsSeq
<1> SUFFICES ASSUME Init PROVE SectionInv /\ FlagInv
  OBVIOUS
<1>2. sects = << >> /\ inline_stack = << >> /\ inline_id = 0
  BY DEF Init, SectionInit
<1>3. current_section = 0 /\ last_alloc_sect = 0 /\ cur_struct = 0 /\ struct_prevsect = 0
  BY DEF Init, SectionInit, NULL
<1>4. Len(sects) = 0 /\ Len(inline_stack) = 0 /\ IsSeq(sects) /\ IsSeq(inline_stack)
  BY <1>1, <1>2
<1>5. SectionInv
  BY <1>2, <1>3, <1>4, LimitsAssumption DEF SectionInv, SectionTypeOK
<1>6. FlagInv
  BY DEF Init, SectionInit, FlagInv
<1>. QED
  BY <1>5, <1>6

(* Every text on the stack is a part of a file, every macro counts within    *)
(* its limit, every section a dsect or a structure remembers is in the list. *)
THEOREM TypeCorrect == Spec => []TypeOK
<1>1. Init => CondInv /\ SourceInv /\ SectionInv /\ FlagInv
  BY SourceInit, RestInit, EmptySeq DEF Init, CondInv, CondTypeOK, OnlyInnermostFalse, clev
<1>2. CondInv /\ SourceInv /\ SectionInv /\ FlagInv => TypeOK
  BY DEF CondInv, SourceInv, SectionInv, FlagInv, TypeOK
<1>. QED
  BY <1>1, <1>2, CondStep, SourceStep, SectionStep, FlagStep, PTL DEF Spec
=============================================================================
