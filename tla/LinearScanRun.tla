---------------------------- MODULE LinearScanRun ----------------------------
(***************************************************************************)
(* LinearScan followed by a run of the code it wrote. The run implements   *)
(* TempMachine: every instruction reads from registers and stack slots     *)
(* what the body before allocation read from its own temporaries. `env` is *)
(* a history variable, the registers of that machine.                      *)
(***************************************************************************)
EXTENDS LinearScan, GeneratedCode

RunInit == Init /\ NotStarted /\ store = <<>>

AllocateStep == Allocate /\ UNCHANGED runVars

BeginRun ==
  /\ phase = "done"
  /\ store = <<>>
  /\ ReserveFrame(FrameWords)
  /\ UNCHANGED vars

RunStep ==
  /\ phase = "done"
  /\ store # <<>>
  /\ RunReplaced(store, assignment, saves[pc], store')
  /\ UNCHANGED vars

RunNext == AllocateStep \/ BeginRun \/ RunStep

RunSpec == RunInit /\ [][RunNext]_<<vars, runVars>>
=============================================================================
