----------------------------- MODULE LinearScan -----------------------------
(***************************************************************************)
(* LinearScanningRegisterAllocator::allocateRegisters on one function body *)
(* (IR-tiling/register-allocation). Each pass over the body is a sequence  *)
(* of steps at instruction `current`, each pass a phase. Positions count   *)
(* from 1; an interval that was never opened starts and ends at 0.         *)
(*                                                                         *)
(* What the code leaves to hash order is a choice here: the order of       *)
(* intervals that start together, and the free register or slot taken.     *)
(***************************************************************************)
EXTENDS FunctionBodies, Functions

VARIABLES
  phase,         \* the pass running
  current,       \* index of the instruction the pass is at
  initialized,   \* temporaries written so far (checkAllTemporariesInitialized)
  start, end,    \* the interval of every register
  active,        \* active_intervals
  freeRegs,      \* free_registers
  freeSlots,     \* free_stack_spaces
  nextSlot,      \* next_stack_offset
  noClobber,     \* label_to_no_clobber_intervals
  assignment,    \* Interval::assignment
  todo,          \* the intervals not assigned yet
  saves          \* caller_save_offsets of each call rewritten so far

vars == <<body, phase, current, initialized, start, end, active, freeRegs,
          freeSlots, nextSlot, noClobber, assignment, todo, saves>>

AllocatableRegisters == {EAX, EBX, EDX}
CallerSaved == AllocatableRegisters \ {EAX}
FirstSlot == 4

instr == body[current]
HasInterval(r) == start[r] > 0
Live(t, i) == HasInterval(t) /\ start[t] <= i /\ i <= end[t]

-----------------------------------------------------------------------------
\* mutant: only a real interval that starts after t is seen
OverlapsLater(t, real) ==
  HasInterval(real) /\ start[t] <= start[real] /\ start[t] <= end[real]

\* intervalOverlapsWith
OverlapsWith(t, real) ==
  /\ HasInterval(real)
  /\ \/ start[t] <= start[real] /\ start[t] <= end[real]
     \/ start[real] <= start[t] /\ start[real] <= end[t]

\* mutant: an interval is finished at its last instruction
FinishedEarly(c) == {t \in active : end[t] <= c}

\* the intervals finishInactiveIntervals(c) removes, and what they give back
Finished(c) == {t \in active : end[t] < c}

\* mutant: freeInterval returns every assignment to free_registers
LocationsOf(S) == {assignment[t] : t \in S}

SlotsOf(S)  == {assignment[t] : t \in S} \cap Nat
RegsOf(S)   == {assignment[t] : t \in S} \cap AllocatableRegisters

\* mutant: activation one instruction late
StartingLate(c) == {t \in Temps : HasInterval(t) /\ start[t] = c - 1}

\* the intervals activateIntervals(c) adds
Starting(c) == {t \in Temps : HasInterval(t) /\ start[t] = c}

\* mutant: a predetermined assignment is not erased from the free ones
NotErased(finished, starting) == freeSlots \cup SlotsOf(finished)

\* free_stack_spaces once instruction `current` has its active intervals
SlotsLeft(finished, starting) ==
  (freeSlots \cup SlotsOf(finished)) \ SlotsOf(starting)

(* What |A| calls of getFreeStackOffset may return, one for each member of *)
(* A: free slots first, then n fresh ones.                                 *)
Fresh(n) == {nextSlot + 4 * i : i \in 0..(n - 1)}
SlotGrants(A, free, n) ==
  {f \in [A -> free \cup Fresh(n)] :
     /\ IsInjective(f)
     /\ Fresh(n) \subseteq Range(f)
     /\ n > 0 => free \subseteq Range(f)}

-----------------------------------------------------------------------------
Init ==
  /\ body \in Bodies
  /\ phase = "check"
  /\ current = 1
  /\ initialized = {}
  /\ start = [r \in AnyRegister |-> 0]
  /\ end = [r \in AnyRegister |-> 0]
  /\ active = {}
  /\ freeRegs = {}
  /\ freeSlots = {}
  /\ nextSlot = FirstSlot
  /\ noClobber = [l \in Labels |-> {}]
  /\ assignment = [t \in Temps |-> None]
  /\ todo = {}
  /\ saves = <<>>

At(p) == phase = p /\ current <= Len(body)
Past(p) == phase = p /\ current > Len(body)
Enter(p) == phase' = p /\ current' = 1

\* one instruction of checkAllTemporariesInitialized
CheckInitialized ==
  /\ At("check")
  /\ IF instr.reads \cap Temps \subseteq initialized
       THEN /\ initialized' = initialized \cup (instr.writes \cap Temps)
            /\ current' = current + 1
            /\ UNCHANGED phase
       ELSE phase' = "error" /\ UNCHANGED <<initialized, current>>
  /\ UNCHANGED <<body, start, end, active, freeRegs, freeSlots, nextSlot,
                 noClobber, assignment, todo, saves>>

BeginConstruct ==
  /\ Past("check")
  /\ Enter("construct")
  /\ UNCHANGED <<body, initialized, start, end, active, freeRegs, freeSlots,
                 nextSlot, noClobber, assignment, todo, saves>>

\* one instruction of constructIntervals
ConstructIntervals ==
  /\ At("construct")
  /\ LET used == UsedRegisters(instr) \ {ESP, EBP}
     IN  /\ start' = [r \in AnyRegister |->
                        IF r \in used /\ ~HasInterval(r) THEN current
                                                         ELSE start[r]]
         /\ end' = [r \in AnyRegister |->
                      IF r \in used THEN current ELSE end[r]]
  /\ current' = current + 1
  /\ UNCHANGED <<body, phase, initialized, active, freeRegs, freeSlots,
                 nextSlot, noClobber, assignment, todo, saves>>

BeginExtend ==
  /\ Past("construct")
  /\ Enter("extend")
  /\ active' = {}
  /\ UNCHANGED <<body, initialized, start, end, freeRegs, freeSlots, nextSlot,
                 noClobber, assignment, todo, saves>>

\* mutant: jumps extend nothing
NothingExtended == {}

(* The intervals the instruction must keep: those active at a label it may *)
(* jump to. The pass leaves a label's own instruction before it gets here. *)
JumpedTo == IF instr.def # None THEN {}
            ELSE UNION {noClobber[l] : l \in instr.labels}

(* One instruction of extendToLabels. No register is free in this pass, so *)
(* every interval it activates takes a slot, which the next pass forgets.  *)
ExtendToLabels ==
  /\ At("extend")
  /\ LET finished == Finished(current)
         starting == Starting(current)
         live     == (active \ finished) \cup starting
         free     == freeSlots \cup SlotsOf(finished)
     IN  /\ \E n \in 0..Cardinality(starting) :
              \E slot \in SlotGrants(starting, free, n) :
                /\ nextSlot' = nextSlot + 4 * n
                /\ freeSlots' = free \ Range(slot)
                /\ assignment' = [t \in Temps |-> IF t \in starting THEN slot[t]
                                                  ELSE assignment[t]]
         /\ active' = live
         /\ noClobber' = [l \in Labels |-> IF l = instr.def
                            THEN noClobber[l] \cup live ELSE noClobber[l]]
         /\ end' = [r \in AnyRegister |->
                      IF r \in JumpedTo /\ end[r] < current THEN current
                                                            ELSE end[r]]
  /\ current' = current + 1
  /\ UNCHANGED <<body, phase, initialized, start, freeRegs, todo, saves>>

BeginAssign ==
  /\ Past("extend")
  /\ Enter("assign")
  /\ active' = {}
  /\ freeRegs' = AllocatableRegisters
  /\ todo' = {t \in Temps : HasInterval(t)}
  /\ UNCHANGED <<body, initialized, start, end, freeSlots, nextSlot, noClobber,
                 assignment, saves>>

\* assignInterval, with a free register that no real use forbids
AssignRegister(t, regs) ==
  \E r \in {reg \in regs : ~OverlapsWith(t, reg)} :
    /\ assignment' = [assignment EXCEPT ![t] = r]
    /\ freeRegs' = regs \ {r}

\* assignInterval, when every free register is forbidden
Spill(t, regs) == \A reg \in regs : OverlapsWith(t, reg)

(* One interval of the assignment loop of allocateRegisters, in the order  *)
(* of their starts.                                                        *)
AssignInterval(t) ==
  /\ phase = "assign"
  /\ t \in todo
  /\ \A u \in todo : start[t] <= start[u]
  /\ LET finished == Finished(start[t])
         regs     == freeRegs \cup RegsOf(finished)
         slots    == freeSlots \cup SlotsOf(finished)
     IN  /\ active' = (active \ finished) \cup {t}
         /\ \/ /\ AssignRegister(t, regs)
               /\ freeSlots' = slots
               /\ UNCHANGED nextSlot
            \/ /\ Spill(t, regs)
               /\ \E n \in 0..1 : \E slot \in SlotGrants({t}, slots, n) :
                    /\ assignment' = [assignment EXCEPT ![t] = slot[t]]
                    /\ freeSlots' = slots \ {slot[t]}
                    /\ nextSlot' = nextSlot + 4 * n
               /\ freeRegs' = regs
  /\ todo' = todo \ {t}
  /\ UNCHANGED <<body, phase, current, initialized, start, end, noClobber, saves>>

BeginRewrite ==
  /\ phase = "assign"
  /\ todo = {}
  /\ Enter("rewrite")
  /\ active' = {}
  /\ UNCHANGED <<body, initialized, start, end, freeRegs, freeSlots, nextSlot,
                 noClobber, assignment, todo, saves>>

(* One instruction of the replacement loop: finish and activate intervals, *)
(* then around a call keep the caller-saved registers in slots that go     *)
(* back to the free ones once the call is written.                         *)
Rewrite ==
  /\ At("rewrite")
  /\ LET finished == Finished(current)
         starting == Starting(current)
         live     == (active \ finished) \cup starting
         slots    == SlotsLeft(finished, starting)
         saved    == IF instr.name = "call" THEN CallerSaved ELSE {}
     IN  /\ active' = live
         /\ freeRegs' = (freeRegs \cup RegsOf(finished)) \ RegsOf(starting)
         /\ \E n \in 0..Cardinality(saved) :
              \E slot \in SlotGrants(saved, slots, n) :
                /\ nextSlot' = nextSlot + 4 * n
                /\ freeSlots' = slots \cup Range(slot)
                /\ saves' = Append(saves, slot)
  /\ current' = current + 1
  /\ UNCHANGED <<body, phase, initialized, start, end, noClobber, assignment,
                 todo>>

Finish ==
  /\ Past("rewrite")
  /\ phase' = "done"
  /\ UNCHANGED <<body, current, initialized, start, end, active, freeRegs,
                 freeSlots, nextSlot, noClobber, assignment, todo, saves>>

Allocate ==
  \/ CheckInitialized
  \/ BeginConstruct \/ ConstructIntervals
  \/ BeginExtend    \/ ExtendToLabels
  \/ BeginAssign    \/ \E t \in Temps : AssignInterval(t)
  \/ BeginRewrite   \/ Rewrite
  \/ Finish

Stopped == phase \in {"done", "error"} /\ UNCHANGED vars

Next == Allocate \/ Stopped

Spec == Init /\ [][Next]_vars

\* mutant: a word for each temporary on the stack, none for the caller saves
FrameOfTemps == Cardinality({assignment[t] : t \in Temps} \cap Nat)

\* the words of stack frame allocateRegisters returns
FrameWords == (nextSlot - FirstSlot) \div 4
-----------------------------------------------------------------------------
Location == RealRegisters \cup Nat

\* The types of the allocator's fields and locals.
TypeOK ==
  /\ body \in Seq(Instruction)
  /\ phase \in {"check", "construct", "extend", "assign", "rewrite", "done",
                "error"}
  /\ current \in 1..(Len(body) + 1)
  /\ initialized \subseteq Temps
  /\ start \in [AnyRegister -> Nat]
  /\ end \in [AnyRegister -> Nat]
  /\ active \subseteq Temps
  /\ freeRegs \subseteq AllocatableRegisters
  /\ freeSlots \subseteq Nat
  /\ nextSlot \in Nat
  /\ noClobber \in [Labels -> SUBSET Temps]
  /\ assignment \in [Temps -> Location \cup {None}]
  /\ todo \subseteq Temps
  /\ saves \in Seq([{} -> Nat] \cup [CallerSaved -> Nat])

Assigned(t) == phase \in {"assign", "rewrite", "done"} /\ HasInterval(t) /\ t \notin todo

(* Two temporaries whose intervals meet never have the same register or    *)
(* stack slot (assignInterval, freeInterval).                              *)
NoSharedLocation ==
  \A t, u \in Temps :
    /\ Assigned(t) /\ Assigned(u) /\ t # u
    /\ start[t] <= end[u] /\ start[u] <= end[t]
    => assignment[t] # assignment[u]

(* A register given to a temporary is one no instruction within the        *)
(* temporary's interval names (intervalOverlapsWith), and never one of the *)
(* registers spilled temporaries pass through (instruction_registers).     *)
NoRealUseInside ==
  \A t \in Temps : Assigned(t) /\ assignment[t] \in RealRegisters =>
    /\ assignment[t] \notin InstructionRegisters
    /\ \A i \in DOMAIN body : Live(t, i) =>
         assignment[t] \notin UsedRegisters(body[i])

(* The slots that keep the caller-saved registers over a call are distinct *)
(* and none of them is the slot of a temporary live at the call.           *)
SavesAreApart ==
  \A i \in DOMAIN saves :
    /\ IsInjective(saves[i])
    /\ \A r \in DOMAIN saves[i], t \in Temps :
         Live(t, i) => assignment[t] # saves[i][r]

(* While an instruction is rewritten, each temporary it uses is active, so *)
(* it is replaced by its own location and never by a stale reg_offsets.    *)
ReplacesEveryTemp ==
  phase = "rewrite" /\ current > 1 => UsedTemps(body[current - 1]) \subseteq active

(* Every slot the rewritten body addresses lies inside the stack frame     *)
(* allocateRegisters asks its caller to reserve, on a word boundary.       *)
FrameHolds(slot) == FirstSlot <= slot /\ slot <= 4 * FrameWords /\ slot % 4 = 0
FrameCovers ==
  phase = "done" =>
    /\ \A t \in Temps : HasInterval(t) /\ assignment[t] \in Nat
                          => FrameHolds(assignment[t])
    /\ \A i \in DOMAIN saves : \A r \in DOMAIN saves[i] : FrameHolds(saves[i][r])
=============================================================================
