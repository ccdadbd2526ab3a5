----------------------------- MODULE TempMachine -----------------------------
(***************************************************************************)
(* What a function body means before register allocation: a machine with   *)
(* one register per temporary besides the real ones. `seen` is all a later *)
(* pass may not change. A body that reads a forgotten, clobbered or never  *)
(* written register is outside the contract, and stops here.               *)
(***************************************************************************)
EXTENDS Processor

Init ==
  /\ body \in Bodies
  /\ pc = 1
  /\ env = [r \in AnyRegister |-> None]
  /\ seen = <<>>

Step ==
  /\ pc \in DOMAIN body
  /\ Defined(pc)
  /\ seen' = [r \in HardwareReads(body[pc]) |-> env[r]]
  /\ \E n \in Successors(pc) : pc' = n /\ env' = After(pc, n)
  /\ UNCHANGED body

Spec == Init /\ [][Step]_<<body, pc, env, seen>>
=============================================================================
