------------------------------ MODULE SpillAll ------------------------------
(***************************************************************************)
(* BrainlessRegisterAllocator: every abstract register of a body gets a    *)
(* stack slot of its own, in the order of first use, and a run of the code *)
(* it writes implements TempMachine as the linear scan's does.             *)
(***************************************************************************)
EXTENDS GeneratedCode

VARIABLES
  spillPhase,        \* "check", "offsets", "done" or "error"
  spillCurrent,      \* index of the instruction the pass is at
  spillInitialized,  \* temporaries written so far
  regOffsets,        \* reg_offsets; 0 for a register without one
  stackOffset        \* stack_offset

spillVars == <<body, spillPhase, spillCurrent, spillInitialized, regOffsets, stackOffset>>

SpillInit ==
  /\ body \in Bodies
  /\ spillPhase = "check"
  /\ spillCurrent = 1
  /\ spillInitialized = {}
  /\ regOffsets = [t \in Temps |-> 0]
  /\ stackOffset = 4
  /\ NotStarted
  /\ store = <<>>

CheckTemporaries ==
  /\ spillPhase = "check"
  /\ spillCurrent <= Len(body)
  /\ IF body[spillCurrent].reads \cap Temps \subseteq spillInitialized
       THEN /\ spillInitialized' =
                 spillInitialized \cup (body[spillCurrent].writes \cap Temps)
            /\ spillCurrent' = spillCurrent + 1
            /\ UNCHANGED spillPhase
       ELSE spillPhase' = "error" /\ UNCHANGED <<spillInitialized, spillCurrent>>
  /\ UNCHANGED <<body, regOffsets, stackOffset, runVars>>

\* mutant: the second pass counts from 0
OffsetsFromZero ==
  /\ spillPhase = "check"
  /\ spillCurrent > Len(body)
  /\ spillPhase' = "offsets"
  /\ spillCurrent' = 0
  /\ UNCHANGED <<body, spillInitialized, regOffsets, stackOffset, runVars>>

BeginOffsets ==
  /\ spillPhase = "check"
  /\ spillCurrent > Len(body)
  /\ spillPhase' = "offsets"
  /\ spillCurrent' = 1
  /\ UNCHANGED <<body, spillInitialized, regOffsets, stackOffset, runVars>>

\* mutant: an offset for every use
EveryUse(i) == UsedTemps(i)

\* the registers of an instruction that still need an offset
Homeless(i) == {t \in UsedTemps(i) : regOffsets[t] = 0}

\* one instruction of findOffsets; it takes its registers in hash order
FindOffsets ==
  /\ spillPhase = "offsets"
  /\ spillCurrent <= Len(body)
  /\ LET new == Homeless(body[spillCurrent])
         n   == Cardinality(new)
     IN  /\ \E rank \in Bijection(new, 0..(n - 1)) :
              regOffsets' = [t \in Temps |-> IF t \in new
                               THEN stackOffset + 4 * rank[t] ELSE regOffsets[t]]
         /\ stackOffset' = stackOffset + 4 * n
  /\ spillCurrent' = spillCurrent + 1
  /\ UNCHANGED <<body, spillPhase, spillInitialized, runVars>>

\* what allocateRegisters returns: reg_offsets.size()
OffsetCount == Cardinality({t \in Temps : regOffsets[t] # 0})

\* the code is written, and its caller reserves the frame
WriteCode ==
  /\ spillPhase = "offsets"
  /\ spillCurrent > Len(body)
  /\ spillPhase' = "done"
  /\ ReserveFrame(OffsetCount)
  /\ UNCHANGED <<body, spillCurrent, spillInitialized, regOffsets, stackOffset>>

RunSpilled ==
  /\ spillPhase = "done"
  /\ RunReplaced(store, regOffsets, <<>>, store')
  /\ UNCHANGED spillVars

SpillNext == CheckTemporaries \/ BeginOffsets \/ FindOffsets \/ WriteCode \/ RunSpilled

SpillSpec == SpillInit /\ [][SpillNext]_<<spillVars, runVars>>
-----------------------------------------------------------------------------
(* The types of the allocator, and of the run of its code.                 *)
SpillTypeOK ==
  /\ spillPhase \in {"check", "offsets", "done", "error"}
  /\ spillCurrent \in Nat \ {0}
  /\ spillInitialized \subseteq Temps
  /\ regOffsets \in [Temps -> Nat]
  /\ stackOffset \in Nat
  /\ spillPhase = "done" => RealRegisters \subseteq DOMAIN store

(* Two abstract registers never share a slot, and every slot handed out    *)
(* lies in the frame whose size the allocator returns (findOffsets).       *)
OwnSlotInFrame ==
  \A t \in Temps : regOffsets[t] # 0 =>
    /\ \A u \in Temps \ {t} : regOffsets[u] # regOffsets[t]
    /\ regOffsets[t] % 4 = 0
    /\ regOffsets[t] <= 4 * OffsetCount
=============================================================================
