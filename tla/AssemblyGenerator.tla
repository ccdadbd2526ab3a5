-------------------------- MODULE AssemblyGenerator --------------------------
(***************************************************************************)
(* What AssemblyGenerator::generateCode does with one function body: the   *)
(* allocator the command line chose replaces its temporaries, the prologue *)
(* reserves the frame it asks for, and the code runs. Whichever allocator  *)
(* runs, the code implements TempMachine.                                  *)
(***************************************************************************)
EXTENDS LinearScanRun, SpillAll

VARIABLE allocatorChoice       \* of generateCode

generatorVars == <<vars, spillVars, runVars, allocatorChoice>>

GeneratorInit ==
  /\ allocatorChoice \in {"linear-scan", "brainless"}
  /\ RunInit
  /\ SpillInit

\* one step of the chosen allocator, or of the code it wrote
LinearScanStep ==
  /\ allocatorChoice = "linear-scan"
  /\ RunNext
  /\ UNCHANGED <<spillVars, allocatorChoice>>

BrainlessStep ==
  /\ allocatorChoice = "brainless"
  /\ SpillNext
  /\ UNCHANGED <<vars, allocatorChoice>>

GeneratorNext == LinearScanStep \/ BrainlessStep

GeneratorSpec == GeneratorInit /\ [][GeneratorNext]_generatorVars
=============================================================================
