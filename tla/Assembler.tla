----------------------------- MODULE Assembler ------------------------------
(***************************************************************************)
(* The assembler from the parsed source to the file: main() of vasm.c with *)
(* the resolver and the output driver that -F and its options choose.      *)
(***************************************************************************)
EXTENDS HexOutput

allVars == << vars, outputVars, hexVars >>

AssemblerInit == Init /\ OutputInit /\ HexInit

Resolving == ResolverNext /\ UNCHANGED << outputVars, hexVars >>

BinaryNext ==
  (TrimUninitialized \/ CheckOverlap \/ WriteSection \/ PatchHeader) /\ UNCHANGED hexVars

HexNext == StartSection \/ WriteRecord \/ EndOfRecords

Next == Resolving \/ BinaryNext \/ HexNext

Spec == AssemblerInit /\ [][Next]_allVars

\* One process, no input: it takes its next step.
FairSpec == Spec /\ WF_allVars(Next)

(* Without -opt-branch resolve() only ever shortens: add_atom sized        *)
(* everything from above, a forward reference being 16 bit.  This is why   *)
(* the repeated passes end.                                                *)
OnlyShrinks ==
  [][phase = "pass" /\ ~prog.branchopt =>
       /\ \A s \in Secs : \A k \in DOMAIN lastsize[s] : lastsize'[s][k] <= lastsize[s][k]
       /\ \A n \in Labels : label'[n] <= label[n]]_allVars
=============================================================================
