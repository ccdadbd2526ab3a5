--------------------------- MODULE FunctionBodies ---------------------------
(***************************************************************************)
(* The function bodies register allocation is given: what the tiling of    *)
(* the canonical IR can emit (tiling/ir-tiling.cc), as assumptions.        *)
(***************************************************************************)
EXTENDS Assembly

CONSTANT Bodies                       \* the function bodies given to a pass

VARIABLE body                         \* function_body

\* replaceAbstracts throws on an instruction of more than three temporaries,
\* and no operand form of assembly.h can name as many
ASSUME BodiesAreCode ==
  \A b \in Bodies : /\ b \in Seq(Instruction)
                    /\ \A i \in DOMAIN b : Cardinality(UsedTemps(b[i])) <= 3

(* The tiling names eax, edx and the frame's registers only. It emits cdq  *)
(* before an idiv, which names edx; a call declares that it writes eax; a  *)
(* label's own instruction jumps nowhere.                                  *)
ASSUME BodiesAreTiled ==
  \A b \in Bodies : \A i \in DOMAIN b :
    /\ UsedRegisters(b[i]) \cap InstructionRegisters = {}
    /\ b[i].name = "cdq" => /\ b[i].reads = {} /\ b[i].writes = {}
                            /\ \E j \in DOMAIN b : EDX \in UsedRegisters(b[j])
    /\ b[i].name = "call" => b[i].writes = {EAX}
    /\ b[i].def # None => b[i].labels = {}

\* a pair is a label's instruction and a later one that mentions the label
BackJumps(b) ==
  {jump \in {n \in DOMAIN b : b[n].def # None} \X DOMAIN b :
     jump[1] <= jump[2] /\ b[jump[1]].def \in b[jump[2]].labels}

(* Only a while or for statement, and the error label of an array access,  *)
(* is jumped back to; the code of a tree's node encloses that of its       *)
(* children, so two loops are nested or apart.                             *)
ASSUME LoopsNest ==
  \A b \in Bodies : \A outer, inner \in BackJumps(b) :
    outer[1] < inner[1] /\ inner[1] <= outer[2] => inner[2] <= outer[2]
=============================================================================
