------------------------------ MODULE Assembly ------------------------------
(***************************************************************************)
(* The x86 instructions the code generator emits, reduced to what register *)
(* allocation can tell apart: the registers an instruction declares that   *)
(* it reads and writes, the labels it mentions, and the label it defines.  *)
(*                                                                         *)
(* A register is an abstract temporary (Temps) or a real register. The     *)
(* overlapping names of one real register (al, ax, eax) are one value      *)
(* here: the code closes every register set under that overlap.            *)
(***************************************************************************)
EXTENDS Naturals, Sequences, FiniteSets

CONSTANTS
  Temps,                                    \* abstract registers of one body
  Labels,                                   \* labels a body may mention
  EAX, EBX, ECX, EDX, ESI, EDI, ESP, EBP,   \* real registers
  None                                      \* absence of a label or a value

RealRegisters == {EAX, EBX, ECX, EDX, ESI, EDI, ESP, EBP}

ASSUME RegistersDistinct ==
  /\ LET name == <<EAX, EBX, ECX, EDX, ESI, EDI, ESP, EBP>>
     IN  \A i, j \in 1..8 : name[i] = name[j] => i = j
  /\ RealRegisters \cap Temps = {}
  /\ (RealRegisters \cup Temps) \cap Nat = {}
  /\ None \notin RealRegisters \cup Temps \cup Nat \cup Labels

ASSUME TempsFinite == IsFiniteSet(Temps)

\* the real registers a spilled temporary passes through (instruction_registers)
InstructionRegisters == {ECX, ESI, EDI}

AnyRegister == Temps \cup RealRegisters

-----------------------------------------------------------------------------
(* Operands: a register, an effective address over registers, a label, an  *)
(* immediate.                                                              *)

Reg(r)   == [form |-> "reg",   regs |-> {r}, labels |-> {}]
Addr(S)  == [form |-> "addr",  regs |-> S,   labels |-> {}]
Use(l)   == [form |-> "label", regs |-> {},  labels |-> {l}]
Imm      == [form |-> "imm",   regs |-> {},  labels |-> {}]

(* The registers of an effective address are read even when the operand is *)
(* written; only a plain register operand is ever written.                 *)
ReadBy(operand)    == operand.regs
AddressOf(operand) == IF operand.form = "addr" THEN operand.regs ELSE {}
WrittenBy(operand) == IF operand.form = "reg"  THEN operand.regs ELSE {}

Instruction ==
  [name   : STRING,
   reads  : SUBSET AnyRegister,
   writes : SUBSET AnyRegister,
   labels : SUBSET Labels,
   def    : Labels \cup {None}]

(* An instruction from the set of operands it reads, the set it writes and *)
(* the real registers it always reads and writes.                          *)
Instr(name, read, written, realReads, realWrites) ==
  [name   |-> name,
   reads  |-> (UNION {ReadBy(o) : o \in read})
              \cup (UNION {AddressOf(o) : o \in written}) \cup realReads,
   writes |-> (UNION {WrittenBy(o) : o \in written}) \cup realWrites,
   labels |-> UNION {o.labels : o \in read \cup written},
   def    |-> None]

UsedRegisters(instr)      == instr.reads \cup instr.writes
UsedTemps(instr)          == UsedRegisters(instr) \cap Temps

-----------------------------------------------------------------------------
Mov(dest, src)   == Instr("mov",   {src},       {dest}, {}, {})
Lea(dest, src)   == Instr("lea",   {src},       {dest}, {}, {})
MovZX(dest, src) == Instr("movzx", {src},       {dest}, {}, {})
Add(dest, src)   == Instr("add",   {dest, src}, {dest}, {}, {})
Sub(dest, src)   == Instr("sub",   {dest, src}, {dest}, {}, {})
And(dest, src)   == Instr("and",   {dest, src}, {dest}, {}, {})
Or(dest, src)    == Instr("or",    {dest, src}, {dest}, {}, {})
Xor(dest, src)   == Instr("xor",   {dest, src}, {dest}, {}, {})
Cmp(a, b)        == Instr("cmp",   {a, b},      {},     {}, {})
Test(a, b)       == Instr("test",  {a, b},      {},     {}, {})
Push(src)        == Instr("push",  {src},       {},     {}, {})
Pop(dest)        == Instr("pop",   {},          {dest}, {}, {})
SetCC(dest)      == Instr("setcc", {},          {dest}, {}, {})
Jump(target)     == Instr("jmp",   {target},    {},     {}, {})
Je(target)       == Instr("je",    {target},    {},     {}, {})
JumpIfNZ(target) == Instr("jnz",   {target},    {},     {}, {})
IMul(src)        == Instr("imul",  {src}, {}, {EAX, EDX}, {EAX, EDX})
IDiv(src)        == Instr("idiv",  {src}, {}, {EAX, EDX}, {EAX, EDX})
Call(target)     == Instr("call",  {target},    {},     {}, {EAX})
\* __malloc and nativeWrite take their argument in eax
LibraryCall(target) == Instr("call", {target},  {}, {EAX}, {EAX})
\* sign-extends eax into edx, and declares neither
Cdq              == Instr("cdq",   {}, {}, {}, {})
Ret              == Instr("ret",   {}, {}, {}, {})
LabelDef(l)      == [Instr("label", {}, {}, {}, {}) EXCEPT !.def = l]
=============================================================================
