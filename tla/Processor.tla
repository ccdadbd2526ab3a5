------------------------------ MODULE Processor ------------------------------
(***************************************************************************)
(* The processor a function body runs on: where control goes after an      *)
(* instruction, and what `env` holds when every register the body names    *)
(* has a place of its own. A value is named by the register and the        *)
(* instruction that wrote it; `seen` is what the last instruction read.    *)
(* Conditional jumps may go either way; memory is not modelled.            *)
(*                                                                         *)
(* A temporary first mentioned inside a loop is written again before it is *)
(* read again (ast-to-ir.cc initialises a variable where it declares it),  *)
(* so a jump back forgets it.                                              *)
(***************************************************************************)
EXTENDS FunctionBodies

VARIABLES pc, env, seen

\* ESP and EBP address the frame and are left to the prologue and epilogue
Frame == {ESP, EBP}

\* What the processor does, where the declared registers differ from it.
HardwareReads(i) ==
  (IF i.name = "imul" THEN i.reads \ {EDX}
   ELSE IF i.name = "cdq" THEN i.reads \cup {EAX} ELSE i.reads) \ Frame
HardwareWrites(i) == (IF i.name = "cdq" THEN {EDX} ELSE i.writes) \ Frame
\* a callee (or the runtime) saves no register
Clobbered(i) ==
  IF i.name = "call" THEN RealRegisters \ (Frame \cup i.writes) ELSE {}

Position(l) == {k \in DOMAIN body : body[k].def = l}
\* a label defined outside the body leaves it
Targets(l)  == IF Position(l) = {} THEN {Len(body) + 1} ELSE Position(l)

Successors(k) ==
  LET i      == body[k]
      jumped == UNION {Targets(l) : l \in i.labels}
  IN  CASE i.name \in {"je", "jnz"} -> {k + 1} \cup jumped
        [] i.name = "jmp"           -> jumped
        [] i.name = "ret"           -> {Len(body) + 1}
        [] OTHER                    -> {k + 1}

MentionedBefore(k) == UNION {UsedRegisters(body[j]) : j \in 1..(k - 1)}

\* the registers after instruction k ran and control went to instruction n
After(k, n) ==
  [r \in AnyRegister |->
     IF n <= k /\ r \in Temps \ MentionedBefore(n) THEN None
     ELSE IF r \in HardwareWrites(body[k]) THEN <<r, k>>
     ELSE IF r \in Clobbered(body[k]) THEN None
     ELSE env[r]]

Defined(k) == \A r \in HardwareReads(body[k]) : env[r] # None
=============================================================================
