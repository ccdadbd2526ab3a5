---------------------------- MODULE FrameMachine ----------------------------
(***************************************************************************)
(* The code both allocators write in the place of one instruction          *)
(* (RegisterAllocator::replaceAbstracts and the caller saves around it),   *)
(* as its effect on a store of real registers and stack slots. `where`     *)
(* gives every temporary a real register or the slot it is spilled to, and *)
(* `scratch` the instruction register each spilled one passes through.     *)
(***************************************************************************)
EXTENDS Processor, Functions

\* the machine a body is written for, on the body, the control and the history of
\* this one; the store is this one's own
Machine == INSTANCE TempMachine WITH body <- body, pc <- pc, env <- env, seen <- seen

Spilled(i, where) == {t \in UsedTemps(i) : where[t] \notin RealRegisters}
Scratches(i, where) == Injection(Spilled(i, where), InstructionRegisters)

\* the register an instruction names after replaceRegister
Place(r, where, scratch) ==
  IF r \in DOMAIN scratch THEN scratch[r]
  ELSE IF r \in Temps THEN where[r] ELSE r

\* mov [slot], r before a call
Saved(store, save) ==
  [l \in DOMAIN store |->
     LET kept == {r \in DOMAIN save : save[r] = l}
     IN  IF kept = {} THEN store[l] ELSE store[CHOOSE r \in kept : TRUE]]

\* loadAbstractRegister for the spilled temporaries the instruction reads
Loaded(store, i, where, scratch) ==
  [l \in DOMAIN store |->
     LET filled == {t \in DOMAIN scratch \cap i.reads : scratch[t] = l}
     IN  IF filled = {} THEN store[l] ELSE store[where[CHOOSE t \in filled : TRUE]]]

Executed(store, i, at, where, scratch) ==
  [l \in DOMAIN store |->
     LET set == {r \in HardwareWrites(i) : Place(r, where, scratch) = l}
     IN  IF set # {} THEN <<CHOOSE r \in set : TRUE, at>>
         ELSE IF l \in Clobbered(i) THEN None ELSE store[l]]

\* mutant: the stores are left out
NothingStored(store, i, where, scratch) == store

\* storeAbstractRegister for the spilled temporaries the instruction writes
Stored(store, i, where, scratch) ==
  [l \in DOMAIN store |->
     LET kept == {t \in DOMAIN scratch \cap i.writes : where[t] = l}
     IN  IF kept = {} THEN store[l] ELSE store[scratch[CHOOSE t \in kept : TRUE]]]

\* mov r, [slot] after a call
Restored(store, save) ==
  [l \in DOMAIN store |-> IF l \in DOMAIN save THEN store[save[l]] ELSE store[l]]

\* the store the instruction itself finds, and the one its replacement leaves
Before(store, i, where, scratch, save) ==
  Loaded(Saved(store, save), i, where, scratch)
Outcome(store, i, at, where, scratch, save) ==
  LET ran == Executed(Before(store, i, where, scratch, save), i, at, where, scratch)
  IN  Restored(Stored(ran, i, where, scratch), save)

(* One replaced instruction runs: it goes where the original may go, reads *)
(* what its own registers hold, and env records what it should have read.  *)
RunReplaced(store, where, save, next) ==
  LET i == body[pc]
  IN  /\ pc \in DOMAIN body
      /\ Defined(pc)
      /\ \E scratch \in Scratches(i, where) :
           /\ next = Outcome(store, i, pc, where, scratch, save)
           /\ seen' = [r \in HardwareReads(i) |->
                         Before(store, i, where, scratch, save)
                           [Place(r, where, scratch)]]
      /\ \E n \in Successors(pc) : pc' = n /\ env' = After(pc, n)
-----------------------------------------------------------------------------
(* Allocation changes nothing a body can observe: whatever path control    *)
(* takes, each instruction reads the values it would have read if every    *)
(* temporary had a register of its own (allocateRegisters).                *)
ImplementsTempMachine == Machine!Spec
=============================================================================
