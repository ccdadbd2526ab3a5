---------------------------- MODULE GeneratedCode ----------------------------
(***************************************************************************)
(* One function's code between makeFunctionPrologue, which reserves the    *)
(* stack frame its allocator asked for, and its last instruction. Both     *)
(* allocators' modules extend this one: they run code on the same store.   *)
(***************************************************************************)
EXTENDS FrameMachine

VARIABLE store           \* the real registers and the stack frame

runVars == <<pc, env, seen, store>>

\* no code has run
NotStarted ==
  /\ pc = 1
  /\ env = [r \in AnyRegister |-> None]
  /\ seen = <<>>

\* sub esp: the contents of the frame are whatever was there
ReserveFrame(words) ==
  /\ store' = [l \in RealRegisters \cup {4 * k : k \in 1..words} |-> None]
  /\ UNCHANGED <<pc, env, seen>>
=============================================================================
