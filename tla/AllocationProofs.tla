-------------------------- MODULE AllocationProofs --------------------------
(***************************************************************************)
(* The code either allocator writes implements the machine with a register *)
(* for every temporary, on every body the tiling can emit, for any number  *)
(* of temporaries, labels and instructions.                                *)
(*                                                                         *)
(* First the linear scan allocates correctly: IInv says, phase by phase,   *)
(* what its passes have established. Its heart is ActiveHoldTheirs: an     *)
(* active interval's location is not free, so a location handed out is one *)
(* that no interval meeting it still holds. LoopInv says what              *)
(* extendToLabels is for, intervals that outlast the jumps back over them; *)
(* FrameInv lays the stack frame out.                                      *)
(*                                                                         *)
(* Then the code. For the brainless allocator OffsetsInv ties stack_offset *)
(* to the number of registers that have an offset, the size of the frame,  *)
(* and SpillRunInv says that a temporary's slot holds what its own         *)
(* register would. For the linear scan RunInv relates the run to that      *)
(* machine: while a temporary is live, the place it was given holds what   *)
(* its own register would, and so does every real register the body names. *)
(* A step keeps this because live places are apart (NoSharedLocation,      *)
(* SavesAreApart), because no instruction names a temporary's register     *)
(* (OverlapsWithAnyUse), and, when control jumps back, because what is     *)
(* live at a label is live at the jump (LoopInv).                          *)
(***************************************************************************)
EXTENDS AssemblyGenerator, FiniteSetTheorems, TLAPS

-----------------------------------------------------------------------------
Passes == {"extend", "assign", "rewrite", "done"}
Allocating == {"assign", "rewrite", "done"}

(* Intervals have a start no later than their end, and while they are      *)
(* built neither is past the instruction reached.                          *)
IntervalsOrdered ==
  /\ \A r \in AnyRegister : start[r] <= end[r]
  /\ phase = "check" => \A r \in AnyRegister : end[r] = 0
  /\ phase = "construct" => \A r \in AnyRegister : end[r] < current

(* Every use of a register lies within its interval.                       *)
UsesCovered ==
  \A i \in DOMAIN body :
    phase \in Passes \/ (phase = "construct" /\ i < current) =>
      \A r \in UsedRegisters(body[i]) \ {ESP, EBP} : Live(r, i)

(* Slots in use or free lie below the next fresh one.                      *)
SlotsBounded ==
  /\ \A s \in freeSlots : s < nextSlot
  /\ \A t \in Temps : assignment[t] \in Nat => assignment[t] < nextSlot

(* The assignment loop takes intervals in the order of their starts.       *)
TodoLast ==
  /\ \A u \in todo : HasInterval(u)
  /\ phase \in {"rewrite", "done"} => todo = {}
  /\ \A t, u \in Temps : Assigned(t) /\ u \in todo => start[t] <= start[u]

(* An assigned interval has a slot, or an allocatable register that no     *)
(* instruction names.                                                      *)
AssignedWell ==
  \A t \in Temps : Assigned(t) =>
    /\ assignment[t] \in Nat \cup AllocatableRegisters
    /\ assignment[t] \in AllocatableRegisters => ~OverlapsWith(t, assignment[t])

(* What active intervals hold is not free. While intervals are assigned,   *)
(* the ones no longer active end before any that are still to come.        *)
ActiveHoldTheirs ==
  /\ phase \in {"assign", "rewrite"} =>
       \A t \in active : /\ Assigned(t)
                         /\ assignment[t] \notin freeRegs
                         /\ assignment[t] \notin freeSlots
  /\ phase = "assign" =>
       /\ \A t, u \in active : t # u => assignment[t] # assignment[u]
       /\ \A t, u \in Temps : Assigned(t) /\ t \notin active /\ u \in todo
                                => end[t] < start[u]
  /\ phase = "rewrite" => active = {t \in Temps : Live(t, current - 1)}

(* One set of caller saves is recorded for every instruction rewritten.    *)
SavesCounted ==
  /\ phase \notin {"rewrite", "done"} => saves = <<>>
  /\ phase = "rewrite" => Len(saves) = current - 1

IInv ==
  /\ TypeOK
  /\ IntervalsOrdered
  /\ UsesCovered
  /\ SlotsBounded
  /\ TodoLast
  /\ AssignedWell
  /\ ActiveHoldTheirs
  /\ NoSharedLocation
  /\ SavesCounted
  /\ SavesAreApart

-----------------------------------------------------------------------------
(* Real registers are no temporaries, and neither are slots.               *)
LEMMA LocationKinds ==
  /\ AllocatableRegisters \subseteq RealRegisters
  /\ AllocatableRegisters \cap Nat = {}
  /\ None \notin Nat \cup RealRegisters
  /\ RealRegisters \cap Temps = {}
  /\ RealRegisters \cap Nat = {}
  BY RegistersDistinct DEF AllocatableRegisters, RealRegisters

(* No allocatable register is one spilled temporaries pass through, or one *)
(* that addresses the frame.                                               *)
LEMMA RegistersApart ==
  AllocatableRegisters \cap (InstructionRegisters \cup {ESP, EBP}) = {}
<1> DEFINE name == <<EAX, EBX, ECX, EDX, ESI, EDI, ESP, EBP>>
<1>1. \A i, j \in 1..8 : name[i] = name[j] => i = j
  BY RegistersDistinct
<1>2. /\ name[1] # name[3] /\ name[1] # name[5] /\ name[1] # name[6]
      /\ name[1] # name[7] /\ name[1] # name[8]
  BY ONLY <1>1
<1>3. /\ name[2] # name[3] /\ name[2] # name[5] /\ name[2] # name[6]
      /\ name[2] # name[7] /\ name[2] # name[8]
  BY ONLY <1>1
<1>4. /\ name[4] # name[3] /\ name[4] # name[5] /\ name[4] # name[6]
      /\ name[4] # name[7] /\ name[4] # name[8]
  BY ONLY <1>1
<1> QED
  BY <1>2, <1>3, <1>4 DEF AllocatableRegisters, InstructionRegisters

(* Every instruction of a body uses registers only.                        *)
LEMMA UsesAreRegisters ==
  ASSUME body \in Seq(Instruction), NEW i \in DOMAIN body
  PROVE  /\ UsedRegisters(body[i]) \subseteq AnyRegister
         /\ body[i].writes \subseteq AnyRegister
<1>1. body[i] \in Instruction
  OBVIOUS
<1>2. body[i].reads \subseteq AnyRegister /\ body[i].writes \subseteq AnyRegister
  BY <1>1 DEF Instruction
<1> QED
  BY <1>2 DEF UsedRegisters

(* intervalOverlapsWith holds of every real register that has an interval  *)
(* at all: a register any instruction names is never allocated.            *)
THEOREM OverlapsWithAnyUse ==
  ASSUME TypeOK, IntervalsOrdered, NEW t \in Temps, NEW r \in RealRegisters
  PROVE  OverlapsWith(t, r) <=> HasInterval(r)
<1>1. t \in AnyRegister /\ r \in AnyRegister
  BY DEF AnyRegister
<1>2. /\ start[t] \in Nat /\ end[t] \in Nat /\ start[t] <= end[t]
      /\ start[r] \in Nat /\ end[r] \in Nat /\ start[r] <= end[r]
  BY <1>1 DEF TypeOK, IntervalsOrdered
<1> QED
  BY <1>2 DEF OverlapsWith, HasInterval

(* What getFreeStackOffset may return: distinct slots, each free or fresh. *)
LEMMA GrantsAreFreeOrFresh ==
  ASSUME nextSlot \in Nat, NEW A, NEW free \in SUBSET Nat,
         NEW n \in Nat, NEW f \in SlotGrants(A, free, n)
  PROVE  /\ f \in [A -> Nat]
         /\ IsInjective(f)
         /\ \A a \in A : f[a] \in free \/ (nextSlot <= f[a] /\ f[a] < nextSlot + 4 * n)
<1>1. \A s \in Fresh(n) : s \in Nat /\ nextSlot <= s /\ s < nextSlot + 4 * n
  BY DEF Fresh
<1> QED
  BY <1>1 DEF SlotGrants

(* A finished interval was active.                                         *)
LEMMA FinishedTypes ==
  ASSUME TypeOK, NEW S \in SUBSET Temps
  PROVE  /\ SlotsOf(S) \subseteq Nat
         /\ RegsOf(S) \subseteq AllocatableRegisters
  BY DEF SlotsOf, RegsOf

-----------------------------------------------------------------------------
(* A new allocator is well typed.                                          *)
LEMMA InitType == Init => TypeOK
<1> SUFFICES ASSUME Init PROVE TypeOK
  OBVIOUS
<1>1. body \in Seq(Instruction)
  BY BodiesAreCode DEF Init
<1>2. saves \in Seq([{} -> Nat] \cup [CallerSaved -> Nat])
  BY DEF Init
<1> QED
  BY <1>1, <1>2 DEF Init, TypeOK, FirstSlot

(* checkAllTemporariesInitialized keeps the types.                         *)
LEMMA CheckType ==
  ASSUME TypeOK, CheckInitialized PROVE TypeOK'
<1>1. initialized' \subseteq Temps
  BY DEF TypeOK, CheckInitialized
<1> QED
  BY <1>1 DEF TypeOK, CheckInitialized, At

(* constructIntervals keeps the types.                                     *)
LEMMA ConstructType ==
  ASSUME TypeOK, ConstructIntervals PROVE TypeOK'
<1>1. start' \in [AnyRegister -> Nat] /\ end' \in [AnyRegister -> Nat]
  BY DEF TypeOK, ConstructIntervals
<1> QED
  BY <1>1 DEF TypeOK, ConstructIntervals, At

(* So does moving from one pass to the next.                               *)
LEMMA BoundaryType ==
  ASSUME TypeOK, BeginConstruct \/ BeginExtend \/ BeginAssign \/ BeginRewrite \/ Finish
  PROVE  TypeOK'
<1>1. CASE BeginConstruct
  BY <1>1 DEF TypeOK, BeginConstruct, Enter
<1>2. CASE BeginExtend
  BY <1>2 DEF TypeOK, BeginExtend, Enter
<1>3. CASE BeginAssign
  BY <1>3 DEF TypeOK, BeginAssign, Enter
<1>4. CASE BeginRewrite
  BY <1>4 DEF TypeOK, BeginRewrite, Enter
<1>5. CASE Finish
  BY <1>5 DEF TypeOK, Finish
<1> QED
  BY <1>1, <1>2, <1>3, <1>4, <1>5

(* extendToLabels keeps the types: an interval still ends in the body.     *)
LEMMA ExtendType ==
  ASSUME TypeOK, ExtendToLabels PROVE TypeOK'
<1> DEFINE finished == Finished(current)
           starting == Starting(current)
           live     == (active \ finished) \cup starting
           free     == freeSlots \cup SlotsOf(finished)
<1>1. finished \subseteq Temps /\ starting \subseteq Temps /\ live \subseteq Temps
  BY DEF TypeOK, Finished, Starting
<1>2. free \subseteq Nat
  BY <1>1, FinishedTypes DEF TypeOK
<1>3. PICK n \in 0..Cardinality(starting) : \E slot \in SlotGrants(starting, free, n) :
                /\ nextSlot' = nextSlot + 4 * n
                /\ freeSlots' = free \ Range(slot)
                /\ assignment' = [t \in Temps |-> IF t \in starting THEN slot[t]
                                                  ELSE assignment[t]]
  BY DEF ExtendToLabels
<1>4. n \in Nat
  OBVIOUS
<1>5. PICK slot \in SlotGrants(starting, free, n) :
                /\ nextSlot' = nextSlot + 4 * n
                /\ freeSlots' = free \ Range(slot)
                /\ assignment' = [t \in Temps |-> IF t \in starting THEN slot[t]
                                                  ELSE assignment[t]]
  BY <1>3
<1>6. slot \in [starting -> Nat]
  BY <1>2, <1>4, GrantsAreFreeOrFresh DEF TypeOK
<1>7. /\ assignment' \in [Temps -> Location \cup {None}]
      /\ freeSlots' \subseteq Nat
      /\ nextSlot' \in Nat
  BY <1>2, <1>4, <1>5, <1>6 DEF TypeOK, Location
<1>8. /\ active' \subseteq Temps
      /\ noClobber' \in [Labels -> SUBSET Temps]
      /\ end' \in [AnyRegister -> Nat]
  BY <1>1 DEF TypeOK, ExtendToLabels
<1> QED
  BY <1>7, <1>8 DEF TypeOK, ExtendToLabels, At

(* assignInterval keeps the types: a location is a register or a slot.     *)
LEMMA AssignType ==
  ASSUME TypeOK, NEW t \in Temps, AssignInterval(t) PROVE TypeOK'
<1> DEFINE finished == Finished(start[t])
           regs     == freeRegs \cup RegsOf(finished)
           slots    == freeSlots \cup SlotsOf(finished)
<1>1. finished \subseteq Temps
  BY DEF TypeOK, Finished
<1>2. regs \subseteq AllocatableRegisters /\ slots \subseteq Nat
  BY <1>1, FinishedTypes DEF TypeOK
<1>3. /\ active' \subseteq Temps
      /\ todo' \subseteq Temps
  BY DEF TypeOK, AssignInterval
<1>4. CASE AssignRegister(t, regs) /\ freeSlots' = slots /\ UNCHANGED nextSlot
  <2>1. /\ assignment' \in [Temps -> Location \cup {None}]
        /\ freeRegs' \subseteq AllocatableRegisters
    BY <1>2, <1>4, LocationKinds DEF TypeOK, AssignRegister, Location
  <2> QED
    BY <1>2, <1>3, <1>4, <2>1 DEF TypeOK, AssignInterval
<1>5. CASE /\ \E n \in 0..1 : \E slot \in SlotGrants({t}, slots, n) :
                    /\ assignment' = [assignment EXCEPT ![t] = slot[t]]
                    /\ freeSlots' = slots \ {slot[t]}
                    /\ nextSlot' = nextSlot + 4 * n
           /\ freeRegs' = regs
  <2>1. PICK n \in 0..1 : \E slot \in SlotGrants({t}, slots, n) :
                    /\ assignment' = [assignment EXCEPT ![t] = slot[t]]
                    /\ freeSlots' = slots \ {slot[t]}
                    /\ nextSlot' = nextSlot + 4 * n
    BY <1>5
  <2>2. PICK slot \in SlotGrants({t}, slots, n) :
                    /\ assignment' = [assignment EXCEPT ![t] = slot[t]]
                    /\ freeSlots' = slots \ {slot[t]}
                    /\ nextSlot' = nextSlot + 4 * n
    BY <2>1
  <2>3. slot \in [{t} -> Nat]
    BY <1>2, n \in Nat, nextSlot \in Nat, GrantsAreFreeOrFresh DEF TypeOK
  <2>4. /\ assignment' \in [Temps -> Location \cup {None}]
        /\ freeSlots' \subseteq Nat
        /\ nextSlot' \in Nat
    BY <1>2, <2>2, <2>3 DEF TypeOK, Location
  <2> QED
    BY <1>2, <1>3, <1>5, <2>4 DEF TypeOK, AssignInterval
<1> QED
  BY <1>4, <1>5 DEF AssignInterval

(* The rewriting pass keeps the types: a call's saves name slots.          *)
LEMMA RewriteType ==
  ASSUME TypeOK, Rewrite PROVE TypeOK'
<1> DEFINE finished == Finished(current)
           starting == Starting(current)
           slots    == SlotsLeft(finished, starting)
           saved    == IF instr.name = "call" THEN CallerSaved ELSE {}
<1>1. finished \subseteq Temps /\ starting \subseteq Temps
  BY DEF TypeOK, Finished, Starting
<1>2. slots \subseteq Nat /\ freeRegs' \subseteq AllocatableRegisters
  BY <1>1, FinishedTypes DEF TypeOK, SlotsLeft, Rewrite
<1>3. PICK n \in 0..Cardinality(saved) : \E slot \in SlotGrants(saved, slots, n) :
                /\ nextSlot' = nextSlot + 4 * n
                /\ freeSlots' = slots \cup Range(slot)
                /\ saves' = Append(saves, slot)
  BY DEF Rewrite
<1>4. PICK slot \in SlotGrants(saved, slots, n) :
                /\ nextSlot' = nextSlot + 4 * n
                /\ freeSlots' = slots \cup Range(slot)
                /\ saves' = Append(saves, slot)
  BY <1>3
<1>5. slot \in [saved -> Nat]
  <2>1. slots \in SUBSET Nat /\ n \in Nat /\ nextSlot \in Nat
    BY <1>2 DEF TypeOK
  <2> QED
    BY <2>1, GrantsAreFreeOrFresh
<1>6. slot \in [{} -> Nat] \cup [CallerSaved -> Nat]
  BY <1>5
<1>7. freeSlots' \subseteq Nat
  BY <1>2, <1>4, <1>5 DEF Range
<1>8. saves' \in Seq([{} -> Nat] \cup [CallerSaved -> Nat])
  BY <1>4, <1>6 DEF TypeOK
<1>9. active' \subseteq Temps
  BY <1>1 DEF TypeOK, Rewrite
<1>10. nextSlot' \in Nat /\ current' \in Nat \ {0}
  BY <1>4 DEF TypeOK, Rewrite
<1> QED
  BY <1>2, <1>7, <1>8, <1>9, <1>10 DEF TypeOK, Rewrite, At

(* Every step of the allocator keeps the types.                            *)
LEMMA StepType ==
  ASSUME TypeOK, [Next]_vars PROVE TypeOK'
<1>1. CASE UNCHANGED vars
  BY <1>1 DEF TypeOK, vars
<1>2. CASE Stopped
  BY <1>2 DEF TypeOK, vars, Stopped
<1> QED
  BY <1>1, <1>2, CheckType, ConstructType, BoundaryType, ExtendType, AssignType,
     RewriteType DEF Next, Allocate

(* The allocator's state is always well typed: in particular what it keeps *)
(* as slots are numbers, never registers.                                  *)
THEOREM TypeCorrect == Spec => []TypeOK
<1>1. Init => TypeOK
  BY InitType
<1>2. TypeOK /\ [Next]_vars => TypeOK'
  BY StepType
<1> QED
  BY <1>1, <1>2, PTL DEF Spec

-----------------------------------------------------------------------------
(* The inductive invariant, one lemma per action. Before intervals are     *)
(* assigned, most of its parts hold because nothing is assigned yet.       *)

(* With nothing assigned, nothing is shared and nothing is free twice.     *)
LEMMA NothingAssigned ==
  ASSUME phase \notin Allocating, saves = <<>>
  PROVE  /\ \A t \in Temps : ~Assigned(t)
         /\ AssignedWell /\ ActiveHoldTheirs /\ NoSharedLocation /\ SavesAreApart
  BY DEF Allocating, Assigned, AssignedWell, ActiveHoldTheirs,
         NoSharedLocation, SavesAreApart

(* The invariant holds of a new allocator.                                 *)
LEMMA InitInv == Init => IInv
<1> SUFFICES ASSUME Init PROVE IInv
  OBVIOUS
<1>1. TypeOK
  BY InitType
<1>2. phase = "check" /\ saves = <<>> /\ todo = {} /\ freeSlots = {}
  BY DEF Init
<1>3. IntervalsOrdered
  BY DEF Init, IntervalsOrdered
<1>4. UsesCovered
  BY <1>2 DEF UsesCovered, Passes
<1>5. SlotsBounded
  BY LocationKinds DEF Init, SlotsBounded
<1>6. TodoLast /\ SavesCounted
  BY <1>2 DEF TodoLast, SavesCounted
<1>7. phase \notin Allocating
  BY <1>2 DEF Allocating
<1> QED
  BY <1>1, <1>2, <1>3, <1>4, <1>5, <1>6, <1>7, NothingAssigned DEF IInv

(* Checking the temporaries keeps it.                                      *)
LEMMA CheckInv ==
  ASSUME IInv, CheckInitialized PROVE IInv'
<1>1. TypeOK'
  BY CheckType DEF IInv
<1>2. phase = "check" /\ phase' \in {"check", "error"} /\ saves' = <<>>
  BY DEF CheckInitialized, At, IInv, SavesCounted
<1>3. IntervalsOrdered' /\ UsesCovered' /\ SlotsBounded'
  BY <1>2 DEF IInv, IntervalsOrdered, UsesCovered, Passes, SlotsBounded, Live,
              HasInterval, CheckInitialized
<1>4. phase' \notin Allocating
  BY <1>2 DEF Allocating
<1>5. (AssignedWell /\ ActiveHoldTheirs /\ NoSharedLocation /\ SavesAreApart)'
  BY <1>2, <1>4 DEF Allocating, Assigned, AssignedWell, ActiveHoldTheirs,
         NoSharedLocation, SavesAreApart
<1>6. TodoLast' /\ SavesCounted'
  BY <1>2, <1>4 DEF IInv, TodoLast, SavesCounted, Assigned, HasInterval, Allocating,
         CheckInitialized
<1> QED
  BY <1>1, <1>3, <1>5, <1>6 DEF IInv

(* So does constructIntervals: an interval holds its temporary's uses.     *)
LEMMA ConstructInv ==
  ASSUME IInv, ConstructIntervals PROVE IInv'
<1> DEFINE used == UsedRegisters(instr) \ {ESP, EBP}
<1>1. TypeOK'
  BY ConstructType DEF IInv
<1>2. /\ phase = "construct" /\ phase' = "construct" /\ saves' = <<>>
      /\ current \in DOMAIN body /\ current' = current + 1 /\ body' = body
      /\ current \in Nat /\ Len(body) \in Nat
  BY DEF ConstructIntervals, At, IInv, SavesCounted, TypeOK
<1>3. /\ start' = [r \in AnyRegister |->
                     IF r \in used /\ ~HasInterval(r) THEN current ELSE start[r]]
      /\ end' = [r \in AnyRegister |-> IF r \in used THEN current ELSE end[r]]
  BY DEF ConstructIntervals
<1>4. \A r \in AnyRegister : /\ start[r] \in Nat /\ end[r] \in Nat
                             /\ start[r] <= end[r] /\ end[r] < current
  BY <1>2 DEF IInv, TypeOK, IntervalsOrdered
<1>5. IntervalsOrdered'
  BY <1>2, <1>3, <1>4 DEF IntervalsOrdered
<1>6. UsesCovered'
  <2>1. SUFFICES ASSUME NEW i \in DOMAIN body, i <= current,
                        NEW r \in UsedRegisters(body[i]) \ {ESP, EBP}
                 PROVE  Live(r, i)'
    BY <1>2 DEF UsesCovered, Passes
  <2>2. r \in AnyRegister /\ i \in Nat
    BY UsesAreRegisters DEF IInv, TypeOK
  <2>3. CASE i < current
    <3>1. Live(r, i)
      BY <1>2, <2>1, <2>3 DEF IInv, UsesCovered
    <3> QED
      BY <1>2, <1>3, <1>4, <2>2, <3>1 DEF Live, HasInterval
  <2>4. CASE i = current
    <3>1. r \in used
      BY <2>1, <2>4 DEF instr
    <3> QED
      BY <1>2, <1>3, <1>4, <2>2, <2>4, <3>1, current > 0 DEF Live, HasInterval, IInv, TypeOK
  <2> QED
    BY <1>2, <2>1, <2>2, <2>3, <2>4
<1>7. SlotsBounded'
  BY DEF IInv, SlotsBounded, ConstructIntervals
<1>8. phase' \notin Allocating
  BY <1>2 DEF Allocating
<1>9. (AssignedWell /\ ActiveHoldTheirs /\ NoSharedLocation /\ SavesAreApart)'
  BY <1>2, <1>8 DEF Allocating, Assigned, AssignedWell, ActiveHoldTheirs,
         NoSharedLocation, SavesAreApart
<1>10. TodoLast' /\ SavesCounted'
  <2>1. \A u \in todo' : HasInterval(u)'
    BY <1>2, <1>3, <1>4 DEF IInv, TypeOK, TodoLast, HasInterval, ConstructIntervals, AnyRegister
  <2> QED
    BY <1>2, <1>8, <2>1 DEF TodoLast, SavesCounted, Assigned, Allocating
<1> QED
  BY <1>1, <1>5, <1>6, <1>7, <1>9, <1>10 DEF IInv

(* checkAllTemporariesInitialized done, nothing has an interval yet.       *)
LEMMA BeginConstructInv ==
  ASSUME IInv, BeginConstruct PROVE IInv'
<1>1. TypeOK'
  BY BoundaryType DEF IInv
<1>2. phase = "check" /\ phase' = "construct" /\ saves' = <<>> /\ current' = 1
  BY DEF BeginConstruct, Past, Enter, IInv, SavesCounted
<1>3. IntervalsOrdered'
  BY <1>2 DEF IInv, IntervalsOrdered, BeginConstruct
<1>4. UsesCovered'
  BY <1>2, <1>1 DEF TypeOK, UsesCovered, Passes
<1>5. SlotsBounded'
  BY DEF IInv, SlotsBounded, BeginConstruct
<1>6. phase' \notin Allocating
  BY <1>2 DEF Allocating
<1>7. (AssignedWell /\ ActiveHoldTheirs /\ NoSharedLocation /\ SavesAreApart)'
  BY <1>2, <1>6 DEF Allocating, Assigned, AssignedWell, ActiveHoldTheirs,
         NoSharedLocation, SavesAreApart
<1>8. TodoLast' /\ SavesCounted'
  BY <1>2, <1>6 DEF IInv, TodoLast, SavesCounted, Assigned, HasInterval, Allocating,
         BeginConstruct
<1> QED
  BY <1>1, <1>3, <1>4, <1>5, <1>7, <1>8 DEF IInv

(* constructIntervals done, every used temporary has its interval.         *)
LEMMA BeginExtendInv ==
  ASSUME IInv, BeginExtend PROVE IInv'
<1>1. TypeOK'
  BY BoundaryType DEF IInv
<1>2. /\ phase = "construct" /\ phase' = "extend" /\ saves' = <<>>
      /\ current > Len(body) /\ UNCHANGED <<body, start, end>>
  BY DEF BeginExtend, Past, Enter, IInv, SavesCounted
<1>3. IntervalsOrdered'
  BY <1>2 DEF IInv, IntervalsOrdered
<1>4. UsesCovered'
  <2>1. \A i \in DOMAIN body : i < current
    BY <1>2 DEF IInv, TypeOK
  <2> QED
    BY <1>2, <2>1 DEF IInv, UsesCovered, Live, HasInterval
<1>5. SlotsBounded'
  BY DEF IInv, SlotsBounded, BeginExtend
<1>6. phase' \notin Allocating
  BY <1>2 DEF Allocating
<1>7. (AssignedWell /\ ActiveHoldTheirs /\ NoSharedLocation /\ SavesAreApart)'
  BY <1>2, <1>6 DEF Allocating, Assigned, AssignedWell, ActiveHoldTheirs,
         NoSharedLocation, SavesAreApart
<1>8. TodoLast' /\ SavesCounted'
  BY <1>2, <1>6 DEF IInv, TodoLast, SavesCounted, Assigned, HasInterval, Allocating,
         BeginExtend
<1> QED
  BY <1>1, <1>3, <1>4, <1>5, <1>7, <1>8 DEF IInv

(* Extending an interval to a jump leaves its uses inside it.              *)
LEMMA ExtendInv ==
  ASSUME IInv, ExtendToLabels PROVE IInv'
<1> DEFINE finished == Finished(current)
           starting == Starting(current)
           free     == freeSlots \cup SlotsOf(finished)
<1>1. TypeOK'
  BY ExtendType DEF IInv
<1>2. /\ phase = "extend" /\ phase' = "extend" /\ saves' = <<>>
      /\ UNCHANGED <<body, start>>
      /\ current \in Nat
  BY DEF ExtendToLabels, At, IInv, SavesCounted, TypeOK
<1>3. \A r \in AnyRegister : end[r] \in Nat /\ end'[r] \in Nat /\ end[r] <= end'[r]
  BY <1>2 DEF IInv, TypeOK, ExtendToLabels
<1>4. IntervalsOrdered'
  BY <1>2, <1>3 DEF IInv, TypeOK, IntervalsOrdered
<1>5. UsesCovered'
  <2>1. SUFFICES ASSUME NEW i \in DOMAIN body,
                        NEW r \in UsedRegisters(body[i]) \ {ESP, EBP}
                 PROVE  Live(r, i)'
    BY <1>2 DEF UsesCovered
  <2>2. r \in AnyRegister /\ i \in Nat
    BY UsesAreRegisters DEF IInv, TypeOK
  <2>3. Live(r, i)
    BY <1>2, <2>1 DEF IInv, UsesCovered, Passes
  <2> QED
    BY <1>2, <1>3, <2>2, <2>3 DEF Live, HasInterval
<1>6. SlotsBounded'
  <2>1. free \subseteq Nat /\ \A s \in free : s < nextSlot
    BY FinishedTypes DEF IInv, TypeOK, SlotsBounded, SlotsOf, Finished
  <2>2. PICK n \in 0..Cardinality(starting) : \E slot \in SlotGrants(starting, free, n) :
                /\ nextSlot' = nextSlot + 4 * n
                /\ freeSlots' = free \ Range(slot)
                /\ assignment' = [t \in Temps |-> IF t \in starting THEN slot[t]
                                                  ELSE assignment[t]]
    BY DEF ExtendToLabels
  <2>3. PICK slot \in SlotGrants(starting, free, n) :
                /\ nextSlot' = nextSlot + 4 * n
                /\ freeSlots' = free \ Range(slot)
                /\ assignment' = [t \in Temps |-> IF t \in starting THEN slot[t]
                                                  ELSE assignment[t]]
    BY <2>2
  <2>4. \A t \in starting : slot[t] \in Nat /\ slot[t] < nextSlot + 4 * n
    <3>1. free \in SUBSET Nat /\ n \in Nat /\ nextSlot \in Nat
      BY <2>1 DEF IInv, TypeOK
    <3>2. \A t \in starting :
            slot[t] \in Nat /\ (slot[t] \in free \/ slot[t] < nextSlot + 4 * n)
      BY <3>1, GrantsAreFreeOrFresh
    <3> QED
      BY <2>1, <3>1, <3>2
  <2>5. nextSlot \in Nat /\ nextSlot <= nextSlot' /\ nextSlot' \in Nat
    BY <2>3 DEF IInv, TypeOK
  <2>6. \A s \in freeSlots' : s < nextSlot'
    BY <2>1, <2>3, <2>5
  <2>7. \A t \in Temps : assignment'[t] \in Nat => assignment'[t] < nextSlot'
    BY <2>3, <2>4, <2>5 DEF IInv, SlotsBounded
  <2> QED
    BY <2>6, <2>7 DEF SlotsBounded
<1>7. phase' \notin Allocating
  BY <1>2 DEF Allocating
<1>8. (AssignedWell /\ ActiveHoldTheirs /\ NoSharedLocation /\ SavesAreApart)'
  BY <1>2, <1>7 DEF Allocating, Assigned, AssignedWell, ActiveHoldTheirs,
         NoSharedLocation, SavesAreApart
<1>9. TodoLast' /\ SavesCounted'
  BY <1>2, <1>7 DEF IInv, TodoLast, SavesCounted, Assigned, HasInterval, Allocating,
         ExtendToLabels
<1> QED
  BY <1>1, <1>4, <1>5, <1>6, <1>8, <1>9 DEF IInv

(* No location is given before assignment starts.                          *)
LEMMA BeginAssignInv ==
  ASSUME IInv, BeginAssign PROVE IInv'
<1>1. TypeOK'
  BY BoundaryType DEF IInv
<1>2. /\ phase = "extend" /\ phase' = "assign" /\ saves' = <<>> /\ active' = {}
      /\ todo' = {t \in Temps : HasInterval(t)} /\ UNCHANGED <<body, start, end>>
  BY DEF BeginAssign, Past, Enter, IInv, SavesCounted
<1>3. IntervalsOrdered' /\ UsesCovered'
  BY <1>2 DEF IInv, IntervalsOrdered, UsesCovered, Passes, Live, HasInterval
<1>4. SlotsBounded'
  BY DEF IInv, SlotsBounded, BeginAssign
<1>5. \A t \in Temps : ~Assigned(t)'
  BY <1>2 DEF Assigned, HasInterval
<1>6. (AssignedWell /\ ActiveHoldTheirs /\ NoSharedLocation /\ SavesAreApart)'
  BY <1>2, <1>5 DEF AssignedWell, ActiveHoldTheirs, NoSharedLocation, SavesAreApart
<1>7. TodoLast' /\ SavesCounted'
  BY <1>2, <1>5 DEF TodoLast, SavesCounted, HasInterval
<1> QED
  BY <1>1, <1>3, <1>4, <1>6, <1>7 DEF IInv

(* The assignment of one interval. Whoever still holds the location it     *)
(* takes has ended: an active interval's location was not free, and the    *)
(* others end before any interval still to come starts.                    *)
LEMMA AssignInv ==
  ASSUME IInv, NEW t \in Temps, AssignInterval(t) PROVE IInv'
<1> DEFINE finished == Finished(start[t])
           held     == active \ finished
           regs     == freeRegs \cup RegsOf(finished)
           slots    == freeSlots \cup SlotsOf(finished)
           Takes(loc) ==
             /\ assignment' = [assignment EXCEPT ![t] = loc]
             /\ loc \in AllocatableRegisters \cup Nat
             /\ loc \in AllocatableRegisters => ~OverlapsWith(t, loc)
             /\ freeRegs' = regs \ {loc} /\ freeSlots' = slots \ {loc}
             /\ loc \in regs \cup slots \/ (loc \in Nat /\ nextSlot <= loc)
             /\ loc \in Nat => loc < nextSlot'
             /\ nextSlot \in Nat /\ nextSlot' \in Nat /\ nextSlot <= nextSlot'
<1> USE DEF IInv
<1>1. TypeOK'
  BY AssignType
<1>2. /\ phase = "assign" /\ phase' = "assign" /\ t \in todo
      /\ todo' = todo \ {t} /\ active' = held \cup {t}
      /\ \A u \in todo : start[t] <= start[u]
      /\ UNCHANGED <<body, start, end, current, saves>>
  BY DEF AssignInterval
<1>3. /\ \A u \in Temps : start[u] \in Nat /\ end[u] \in Nat /\ start[u] <= end[u]
      /\ active \subseteq Temps /\ todo \subseteq Temps
  BY DEF TypeOK, IntervalsOrdered, AnyRegister
<1>4. regs \subseteq AllocatableRegisters /\ slots \subseteq Nat
  BY FinishedTypes DEF TypeOK, Finished
<1>5. \A u \in Temps : Assigned(u)' <=> Assigned(u) \/ u = t
  BY <1>2 DEF Assigned, HasInterval, TodoLast
<1>6. \A u \in held : /\ Assigned(u) /\ u # t /\ start[t] <= end[u]
                      /\ assignment[u] \notin regs \cup slots
  <2>1. SUFFICES ASSUME NEW u \in held
                 PROVE  /\ Assigned(u) /\ u # t /\ start[t] <= end[u]
                        /\ assignment[u] \notin regs \cup slots
    OBVIOUS
  <2>2. Assigned(u) /\ u # t /\ start[t] <= end[u]
    BY <1>2, <1>3 DEF ActiveHoldTheirs, Assigned, Finished
  <2>3. assignment[u] \notin freeRegs /\ assignment[u] \notin freeSlots
    BY <1>2 DEF ActiveHoldTheirs
  <2>4. \A w \in finished : w \in active /\ w # u
    BY DEF Finished
  <2>5. \A w \in finished : assignment[w] # assignment[u]
    BY <1>2, <2>4 DEF ActiveHoldTheirs
  <2> QED
    BY <2>2, <2>3, <2>5 DEF RegsOf, SlotsOf
<1>7. \A u \in Temps : Assigned(u) /\ u \notin held => end[u] < start[t]
  BY <1>2, <1>3 DEF ActiveHoldTheirs, Finished
<1>8. \E loc : Takes(loc)
  <2>0. nextSlot \in Nat /\ \A s \in slots : s < nextSlot
    BY <1>3 DEF TypeOK, SlotsBounded, SlotsOf, Finished
  <2>1. CASE AssignRegister(t, regs) /\ freeSlots' = slots /\ UNCHANGED nextSlot
    <3>1. PICK r \in regs : /\ ~OverlapsWith(t, r)
                            /\ assignment' = [assignment EXCEPT ![t] = r]
                            /\ freeRegs' = regs \ {r}
      BY <2>1 DEF AssignRegister
    <3>2. r \in AllocatableRegisters /\ r \notin Nat
      BY <1>4, LocationKinds
    <3>3. freeSlots' = slots \ {r}
      BY <1>4, <2>1, <3>2
    <3>4. Takes(r)
      BY <2>0, <2>1, <3>1, <3>2, <3>3
    <3> QED
      BY <3>4
  <2>2. CASE /\ \E n \in 0..1 : \E slot \in SlotGrants({t}, slots, n) :
                  /\ assignment' = [assignment EXCEPT ![t] = slot[t]]
                  /\ freeSlots' = slots \ {slot[t]}
                  /\ nextSlot' = nextSlot + 4 * n
             /\ freeRegs' = regs
    <3>1. PICK n \in 0..1 : \E slot \in SlotGrants({t}, slots, n) :
                  /\ assignment' = [assignment EXCEPT ![t] = slot[t]]
                  /\ freeSlots' = slots \ {slot[t]}
                  /\ nextSlot' = nextSlot + 4 * n
      BY <2>2
    <3>2. PICK slot \in SlotGrants({t}, slots, n) :
                  /\ assignment' = [assignment EXCEPT ![t] = slot[t]]
                  /\ freeSlots' = slots \ {slot[t]}
                  /\ nextSlot' = nextSlot + 4 * n
      BY <3>1
    <3>3. /\ slot[t] \in Nat
          /\ slot[t] \in slots \/ (nextSlot <= slot[t] /\ slot[t] < nextSlot + 4 * n)
      <4>1. slots \in SUBSET Nat /\ n \in Nat /\ nextSlot \in Nat
        BY <1>4, <2>0
      <4>2. /\ slot \in [{t} -> Nat]
            /\ \A a \in {t} : slot[a] \in slots
                             \/ (nextSlot <= slot[a] /\ slot[a] < nextSlot + 4 * n)
        BY <4>1, GrantsAreFreeOrFresh
      <4> QED
        BY <4>2
    <3>4. slot[t] \notin AllocatableRegisters
      BY <3>3, LocationKinds
    <3>5. freeRegs' = regs \ {slot[t]}
      BY <1>4, <2>2, <3>4
    <3>6. nextSlot' \in Nat /\ nextSlot <= nextSlot' /\ slot[t] < nextSlot'
      BY <2>0, <3>2, <3>3
    <3>7. Takes(slot[t])
      BY <2>0, <3>2, <3>3, <3>4, <3>5, <3>6
    <3> QED
      BY <3>7
  <2> QED
    BY <2>1, <2>2 DEF AssignInterval
<1>9. PICK loc : Takes(loc)
  BY <1>8
<1>10. assignment'[t] = loc /\ \A u \in Temps \ {t} : assignment'[u] = assignment[u]
  BY <1>9 DEF TypeOK
<1>11. \A u \in held : assignment[u] # loc
  BY <1>3, <1>6, <1>9 DEF SlotsBounded
<1>12. IntervalsOrdered' /\ UsesCovered'
  BY <1>2 DEF IntervalsOrdered, UsesCovered, Passes, Live, HasInterval
<1>13. SlotsBounded'
  <2>1. \A s \in slots : s \in Nat /\ s < nextSlot
    BY <1>3, <1>4 DEF SlotsBounded, SlotsOf, Finished
  <2>2. \A s \in freeSlots' : s < nextSlot'
    BY <1>9, <2>1
  <2>3. \A u \in Temps : assignment'[u] \in Nat => assignment'[u] < nextSlot'
    BY <1>9, <1>10 DEF SlotsBounded
  <2> QED
    BY <2>2, <2>3 DEF SlotsBounded
<1>14. TodoLast'
  BY <1>2, <1>3, <1>5 DEF TodoLast, HasInterval
<1>15. AssignedWell'
  BY <1>2, <1>5, <1>9, <1>10 DEF AssignedWell, OverlapsWith, HasInterval
<1>16. ActiveHoldTheirs'
  <2>1. \A u \in active' : /\ Assigned(u)'
                           /\ assignment'[u] \notin freeRegs'
                           /\ assignment'[u] \notin freeSlots'
    BY <1>2, <1>3, <1>5, <1>6, <1>9, <1>10 DEF TodoLast
  <2>2. \A u, w \in active' : u # w => assignment'[u] # assignment'[w]
    BY <1>2, <1>3, <1>6, <1>10, <1>11 DEF ActiveHoldTheirs
  <2>3. \A u, w \in Temps : Assigned(u)' /\ u \notin active' /\ w \in todo'
                               => end'[u] < start'[w]
    BY <1>2, <1>3, <1>5, <1>7
  <2> QED
    BY <1>2, <2>1, <2>2, <2>3 DEF ActiveHoldTheirs
<1>17. NoSharedLocation'
  <2>1. SUFFICES ASSUME NEW u \in Temps, NEW w \in Temps,
                        Assigned(u)', Assigned(w)', u # w,
                        start[u] <= end[w], start[w] <= end[u]
                 PROVE  assignment'[u] # assignment'[w]
    BY <1>2 DEF NoSharedLocation
  <2>2. CASE u # t /\ w # t
    BY <1>5, <1>10, <2>1, <2>2 DEF NoSharedLocation
  <2>3. CASE u = t
    <3>1. w \in held
      BY <1>3, <1>5, <1>7, <2>1, <2>3
    <3> QED
      BY <1>10, <1>11, <2>1, <2>3, <3>1
  <2>4. CASE w = t
    <3>1. u \in held
      BY <1>3, <1>5, <1>7, <2>1, <2>4
    <3> QED
      BY <1>10, <1>11, <2>1, <2>4, <3>1
  <2> QED
    BY <2>2, <2>3, <2>4
<1>18. SavesCounted' /\ SavesAreApart'
  BY <1>2 DEF SavesCounted, SavesAreApart
<1> QED
  BY <1>1, <1>12, <1>13, <1>14, <1>15, <1>16, <1>17, <1>18

(* Rewriting starts over with nothing active and every location kept.      *)
LEMMA BeginRewriteInv ==
  ASSUME IInv, BeginRewrite PROVE IInv'
<1>1. TypeOK'
  BY BoundaryType DEF IInv
<1>2. /\ phase = "assign" /\ phase' = "rewrite" /\ todo = {} /\ current' = 1
      /\ active' = {} /\ saves' = <<>>
      /\ UNCHANGED <<body, start, end, freeRegs, freeSlots, nextSlot, assignment, todo>>
  BY DEF BeginRewrite, Enter, IInv, SavesCounted
<1>3. IntervalsOrdered' /\ UsesCovered' /\ SlotsBounded'
  BY <1>2 DEF IInv, IntervalsOrdered, UsesCovered, Passes, Live, HasInterval, SlotsBounded
<1>4. \A t \in Temps : Assigned(t)' <=> Assigned(t)
  BY <1>2 DEF Assigned, HasInterval
<1>5. TodoLast' /\ AssignedWell' /\ NoSharedLocation' /\ SavesAreApart'
  BY <1>2, <1>4 DEF IInv, TodoLast, AssignedWell, NoSharedLocation, OverlapsWith,
                    HasInterval, SavesAreApart
<1>6. ActiveHoldTheirs'
  <2>1. \A t \in Temps : start[t] \in Nat
    BY DEF IInv, TypeOK, AnyRegister
  <2>2. \A t \in Temps : ~Live(t, current - 1)'
    BY <1>2, <2>1 DEF Live, HasInterval
  <2> QED
    BY <1>2, <2>2 DEF ActiveHoldTheirs
<1>7. SavesCounted'
  BY <1>2 DEF SavesCounted
<1> QED
  BY <1>1, <1>3, <1>5, <1>6, <1>7 DEF IInv

(* The rewriting of one instruction. The intervals active after it are     *)
(* those live at it, and no location of theirs is free.                    *)
LEMMA RewriteInv ==
  ASSUME IInv, Rewrite PROVE IInv'
<1> DEFINE finished == Finished(current)
           starting == Starting(current)
           live     == (active \ finished) \cup starting
           slots    == SlotsLeft(finished, starting)
           saved    == IF instr.name = "call" THEN CallerSaved ELSE {}
<1> USE DEF IInv
<1>1. TypeOK'
  BY RewriteType
<1>2. /\ phase = "rewrite" /\ phase' = "rewrite" /\ active' = live
      /\ current' = current + 1 /\ current \in Nat /\ current > 0
      /\ freeRegs' = (freeRegs \cup RegsOf(finished)) \ RegsOf(starting)
      /\ UNCHANGED <<body, start, end, assignment, todo>>
      /\ saves \in Seq([{} -> Nat] \cup [CallerSaved -> Nat])
      /\ Len(saves) = current - 1
  BY DEF Rewrite, At, TypeOK, SavesCounted
<1>3. \A t \in Temps : start[t] \in Nat /\ end[t] \in Nat /\ start[t] <= end[t]
  BY DEF TypeOK, IntervalsOrdered, AnyRegister
<1>4. live = {t \in Temps : Live(t, current)}
  <2>1. active = {t \in Temps : Live(t, current - 1)}
    BY <1>2 DEF ActiveHoldTheirs
  <2> QED
    BY <1>2, <1>3, <2>1 DEF Live, Finished, Starting, HasInterval
<1>5. \A t \in Temps : Assigned(t)' <=> Assigned(t)
  BY <1>2 DEF Assigned, HasInterval
<1>6. \A t \in Temps : HasInterval(t) => Assigned(t)
  BY <1>2 DEF Assigned, TodoLast
<1>7. \A t \in live : /\ assignment[t] \notin freeRegs'
                      /\ assignment[t] \notin slots
  <2>1. SUFFICES ASSUME NEW t \in live
                 PROVE  assignment[t] \notin freeRegs' /\ assignment[t] \notin slots
    OBVIOUS
  <2>2. Assigned(t) /\ assignment[t] \in Nat \cup AllocatableRegisters /\ t \in Temps
    BY <1>4, <1>6 DEF Live, AssignedWell
  <2>3. CASE t \in starting
    BY <1>2, <2>2, <2>3 DEF RegsOf, SlotsOf, SlotsLeft, TypeOK
  <2>4. CASE t \in active \ finished
    <3>1. assignment[t] \notin freeRegs /\ assignment[t] \notin freeSlots
      BY <1>2, <2>4 DEF ActiveHoldTheirs
    <3>2. \A u \in finished : u \in Temps /\ u # t /\ Live(u, current - 1)
      BY <1>2, <2>4 DEF ActiveHoldTheirs, Finished
    <3>3. Live(t, current - 1)
      BY <1>2, <2>4 DEF ActiveHoldTheirs
    <3>4. \A u \in finished : assignment[u] # assignment[t]
      <4>1. SUFFICES ASSUME NEW u \in finished PROVE assignment[u] # assignment[t]
        OBVIOUS
      <4>2. start[u] <= end[t] /\ start[t] <= end[u]
        BY <1>2, <1>3, <2>2, <3>2, <3>3 DEF Live
      <4>3. Assigned(u)
        BY <1>6, <3>2 DEF Live
      <4> QED
        BY <2>2, <3>2, <4>2, <4>3 DEF NoSharedLocation
    <3> QED
      BY <1>2, <3>1, <3>4 DEF RegsOf, SlotsOf, SlotsLeft
  <2> QED
    BY <2>3, <2>4
<1>8. slots \in SUBSET Nat /\ nextSlot \in Nat /\ \A s \in slots : s < nextSlot
  BY DEF TypeOK, SlotsBounded, SlotsOf, SlotsLeft, Finished
<1>9. PICK n \in 0..Cardinality(saved) : \E slot \in SlotGrants(saved, slots, n) :
                /\ nextSlot' = nextSlot + 4 * n
                /\ freeSlots' = slots \cup Range(slot)
                /\ saves' = Append(saves, slot)
  BY DEF Rewrite
<1>10. PICK slot \in SlotGrants(saved, slots, n) :
                /\ nextSlot' = nextSlot + 4 * n
                /\ freeSlots' = slots \cup Range(slot)
                /\ saves' = Append(saves, slot)
  BY <1>9
<1>11. n \in Nat
  OBVIOUS
<1>12. /\ slot \in [saved -> Nat] /\ IsInjective(slot)
       /\ \A r \in saved : slot[r] \in slots
                           \/ (nextSlot <= slot[r] /\ slot[r] < nextSlot + 4 * n)
  BY <1>8, <1>11, GrantsAreFreeOrFresh
<1>13. \A t \in live, r \in saved : assignment[t] # slot[r]
  <2>1. SUFFICES ASSUME NEW t \in live, NEW r \in saved, assignment[t] = slot[r]
                 PROVE  FALSE
    OBVIOUS
  <2>2. t \in Temps /\ assignment[t] \in Nat
    BY <1>4, <1>12, <2>1
  <2>3. assignment[t] < nextSlot
    BY <2>2 DEF SlotsBounded
  <2> QED
    BY <1>7, <1>8, <1>12, <2>1, <2>2, <2>3
<1>14. IntervalsOrdered' /\ UsesCovered'
  BY <1>2 DEF IntervalsOrdered, UsesCovered, Passes, Live, HasInterval
<1>15. SlotsBounded'
  <2>1. nextSlot' \in Nat /\ nextSlot <= nextSlot'
    BY <1>8, <1>10, <1>11
  <2>2. \A s \in freeSlots' : s < nextSlot'
    BY <1>8, <1>10, <1>11, <1>12, <2>1 DEF Range
  <2>3. \A t \in Temps : assignment'[t] \in Nat => assignment'[t] < nextSlot'
    BY <1>2, <1>8, <2>1 DEF SlotsBounded
  <2> QED
    BY <2>2, <2>3 DEF SlotsBounded
<1>16. TodoLast' /\ AssignedWell' /\ NoSharedLocation'
  BY <1>2, <1>5 DEF TodoLast, AssignedWell, NoSharedLocation, OverlapsWith, HasInterval
<1>17. ActiveHoldTheirs'
  <2>1. \A t \in active' : /\ Assigned(t)'
                           /\ assignment'[t] \notin freeRegs'
                           /\ assignment'[t] \notin freeSlots'
    BY <1>2, <1>4, <1>5, <1>6, <1>7, <1>10, <1>12, <1>13 DEF Live, Range
  <2>2. active' = {t \in Temps : Live(t, current - 1)'}
    BY <1>2, <1>4 DEF Live, HasInterval
  <2> QED
    BY <1>2, <2>1, <2>2 DEF ActiveHoldTheirs
<1>18. /\ saves' \in Seq([{} -> Nat] \cup [CallerSaved -> Nat])
       /\ Len(saves') = current /\ saves'[current] = slot
       /\ \A i \in 1..(current - 1) : saves'[i] = saves[i]
  BY <1>1, <1>2, <1>10, <1>12 DEF TypeOK
<1>19. SavesCounted'
  BY <1>2, <1>18 DEF SavesCounted
<1>20. SavesAreApart'
  <2>1. SUFFICES ASSUME NEW i \in 1..current
                 PROVE  /\ IsInjective(saves'[i])
                        /\ \A r \in DOMAIN saves'[i], t \in Temps :
                             Live(t, i) => assignment[t] # saves'[i][r]
    BY <1>2, <1>18 DEF SavesAreApart, Live, HasInterval
  <2>2. CASE i = current
    BY <1>4, <1>12, <1>13, <1>18, <2>2
  <2>3. CASE i < current
    <3>1. i \in DOMAIN saves /\ saves'[i] = saves[i]
      BY <1>2, <1>18, <2>3
    <3> QED
      BY <3>1 DEF SavesAreApart
  <2> QED
    BY <1>2, <2>2, <2>3
<1> QED
  BY <1>1, <1>14, <1>15, <1>16, <1>17, <1>19, <1>20

(* The frame is sized once the last instruction is rewritten.              *)
LEMMA FinishInv ==
  ASSUME IInv, Finish PROVE IInv'
<1>1. TypeOK'
  BY BoundaryType DEF IInv
<1>2. /\ phase = "rewrite" /\ phase' = "done"
      /\ UNCHANGED <<body, start, end, freeRegs, freeSlots, nextSlot, assignment,
                     todo, saves, active>>
  BY DEF Finish, Past
<1>3. \A t \in Temps : Assigned(t)' <=> Assigned(t)
  BY <1>2 DEF Assigned, HasInterval
<1> QED
  BY <1>1, <1>2, <1>3
     DEF IInv, IntervalsOrdered, UsesCovered, Passes, Live, HasInterval, SlotsBounded,
         TodoLast, AssignedWell, ActiveHoldTheirs, NoSharedLocation, OverlapsWith,
         SavesCounted, SavesAreApart

(* A step that changes nothing keeps the invariant.                        *)
LEMMA StutterInv ==
  ASSUME IInv, UNCHANGED vars PROVE IInv'
  BY DEF vars, IInv, TypeOK, IntervalsOrdered, UsesCovered, Live, HasInterval,
         SlotsBounded, TodoLast, AssignedWell, ActiveHoldTheirs, Assigned,
         NoSharedLocation, OverlapsWith, SavesCounted, SavesAreApart

(* Every step of the allocator keeps the invariant.                        *)
LEMMA StepInv ==
  ASSUME IInv, [Next]_vars PROVE IInv'
<1>1. CASE Stopped
  BY <1>1, StutterInv DEF Stopped
<1> QED
  BY <1>1, StutterInv, CheckInv, BeginConstructInv, ConstructInv, BeginExtendInv,
     ExtendInv, BeginAssignInv, AssignInv, BeginRewriteInv, RewriteInv, FinishInv
     DEF Next, Allocate

(* What each pass of allocateRegisters has established holds in every      *)
(* state: the invariant all safety theorems of the allocator follow from.  *)
THEOREM Inductive == Spec => []IInv
<1>1. Init => IInv
  BY InitInv
<1>2. IInv /\ [Next]_vars => IInv'
  BY StepInv
<1> QED
  BY <1>1, <1>2, PTL DEF Spec

(* Temporaries that are live together never share a register or a slot.    *)
THEOREM LocationsApart == Spec => []NoSharedLocation
<1>1. IInv => NoSharedLocation
  BY DEF IInv
<1> QED
  BY <1>1, Inductive, PTL

(* The caller saves around a call overwrite nothing that is live.          *)
THEOREM CallsKeepLive == Spec => []SavesAreApart
<1>1. IInv => SavesAreApart
  BY DEF IInv
<1> QED
  BY <1>1, Inductive, PTL

(* A temporary's register is one no instruction within its interval names. *)
THEOREM NeverClobbered == Spec => []NoRealUseInside
<1>1. ASSUME IInv PROVE NoRealUseInside
  <2>1. SUFFICES ASSUME NEW t \in Temps, Assigned(t), assignment[t] \in RealRegisters
                 PROVE  /\ assignment[t] \notin InstructionRegisters
                        /\ \A i \in DOMAIN body : Live(t, i) =>
                             assignment[t] \notin UsedRegisters(body[i])
    BY DEF NoRealUseInside
  <2>2. assignment[t] \in AllocatableRegisters /\ ~OverlapsWith(t, assignment[t])
    BY <1>1, <2>1, LocationKinds DEF IInv, AssignedWell
  <2>3. ~HasInterval(assignment[t])
    BY <1>1, <2>1, <2>2, OverlapsWithAnyUse DEF IInv
  <2>4. phase \in Passes
    BY <2>1 DEF Assigned, Passes
  <2> QED
    BY <1>1, <2>2, <2>3, <2>4, RegistersApart DEF IInv, UsesCovered, Live
<1> QED
  BY <1>1, Inductive, PTL

(* Every temporary an instruction uses is replaced by its own location.    *)
THEOREM EveryTempReplaced == Spec => []ReplacesEveryTemp
<1>1. ASSUME IInv PROVE ReplacesEveryTemp
  <2>1. SUFFICES ASSUME phase = "rewrite", current > 1,
                        NEW t \in UsedTemps(body[current - 1])
                 PROVE  t \in active
    BY DEF ReplacesEveryTemp
  <2>2. current - 1 \in DOMAIN body
    BY <1>1, <2>1 DEF IInv, TypeOK
  <2>3. t \in Temps /\ t \in UsedRegisters(body[current - 1]) \ {ESP, EBP}
    BY <2>1, LocationKinds DEF UsedTemps, RealRegisters
  <2>4. Live(t, current - 1)
    BY <1>1, <2>1, <2>2, <2>3 DEF IInv, UsesCovered, Passes
  <2> QED
    BY <1>1, <2>1, <2>3, <2>4 DEF IInv, ActiveHoldTheirs
<1> QED
  BY <1>1, Inductive, PTL
-----------------------------------------------------------------------------
(* Loops. Once extendToLabels has passed instruction k, an interval live   *)
(* at a label that k jumps back to lasts until k.                          *)

(* activateIntervals and finishInactiveIntervals keep the live intervals   *)
(* active while the pass extends them.                                     *)
ActiveReached ==
  phase = "extend" => \A t \in Temps :
    /\ t \in active => HasInterval(t) /\ start[t] < current
    /\ HasInterval(t) /\ start[t] < current /\ current <= end[t] => t \in active

(* A label remembers only intervals live at its position.                  *)
LabelsRemember ==
  /\ phase \in {"check", "construct"} => \A l \in Labels : noClobber[l] = {}
  /\ phase = "extend" => \A l \in Labels : \A t \in noClobber[l] :
       \E n \in 1..(current - 1) : body[n].def = l /\ Live(t, n)

(* A label remembers every interval live at it, but for those an enclosing *)
(* or finished loop has reached past it since.                             *)
LabelsKnowLive ==
  phase = "extend" => \A n \in 1..(current - 1), t \in Temps :
    body[n].def # None /\ Live(t, n) =>
      \/ t \in noClobber[body[n].def]
      \/ \E loop \in BackJumps(body) :
           loop[1] < n /\ n <= loop[2] /\ loop[2] < current

(* The intervals live at a label last until the jumps back to it.          *)
JumpsExtended ==
  phase \in Passes => \A jump \in BackJumps(body), t \in Temps :
    (phase = "extend" => jump[2] < current) /\ Live(t, jump[1])
      => jump[2] <= end[t]

BodyGiven == body \in Bodies

LoopInv ==
  /\ BodyGiven
  /\ ActiveReached
  /\ LabelsRemember
  /\ LabelsKnowLive
  /\ JumpsExtended

(* A jump back is between two instructions of the body, the first of which *)
(* mentions no label.                                                      *)
LEMMA BackJumpTypes ==
  ASSUME TypeOK, BodyGiven, NEW jump \in BackJumps(body)
  PROVE  /\ jump[1] \in DOMAIN body /\ jump[2] \in DOMAIN body
         /\ jump[1] \in Nat /\ jump[2] \in Nat
         /\ jump[1] < jump[2]
         /\ body[jump[1]].def # None
         /\ body[jump[1]].def \in body[jump[2]].labels
         /\ body[jump[1]].def \in Labels
         /\ body[jump[2]].def = None
<1>0. /\ jump \in {n \in DOMAIN body : body[n].def # None} \X DOMAIN body
      /\ jump[1] <= jump[2] /\ body[jump[1]].def \in body[jump[2]].labels
  BY DEF BackJumps
<1>1. /\ jump[1] \in DOMAIN body /\ jump[2] \in DOMAIN body
      /\ body[jump[1]].def # None
      /\ jump[1] <= jump[2] /\ body[jump[1]].def \in body[jump[2]].labels
  BY <1>0
<1>2. jump[1] \in DOMAIN body /\ jump[2] \in DOMAIN body
  BY <1>1
<1>3. body \in Seq(Instruction)
  BY DEF TypeOK
<1>4. body[jump[1]] \in Instruction
  BY <1>2, <1>3
<1>5. body[jump[1]].def \in Labels
  BY <1>1, <1>4 DEF Instruction
<1>6. body[jump[1]].labels = {} /\ body[jump[2]].def = None
  BY <1>1, <1>2, BodiesAreTiled DEF BodyGiven
<1>7. jump[1] # jump[2]
  BY <1>1, <1>6
<1> QED
  BY <1>1, <1>2, <1>3, <1>5, <1>6, <1>7

(* One instruction of the pass. An interval it extends lasts exactly until *)
(* this instruction; one not remembered by a label that is jumped to was   *)
(* extended past that label by a loop, and loops nest.                     *)
LEMMA ExtendLoops ==
  ASSUME IInv, LoopInv, ExtendToLabels, IInv' PROVE LoopInv'
<1> DEFINE live == (active \ Finished(current)) \cup Starting(current)
<1>1. /\ phase = "extend" /\ phase' = "extend"
      /\ current' = current + 1 /\ current \in Nat \ {0} /\ current \in DOMAIN body
      /\ body' = body /\ start' = start /\ active' = live
      /\ instr = body[current]
  BY DEF ExtendToLabels, At, IInv, TypeOK, instr
<1>2. /\ end' = [r \in AnyRegister |->
                   IF r \in JumpedTo /\ end[r] < current THEN current ELSE end[r]]
      /\ noClobber' = [l \in Labels |-> IF l = instr.def
                         THEN noClobber[l] \cup live ELSE noClobber[l]]
  BY DEF ExtendToLabels
<1>3. \A t \in Temps : /\ t \in AnyRegister
                       /\ start[t] \in Nat /\ end[t] \in Nat /\ end'[t] \in Nat
                       /\ start[t] <= end[t] /\ end[t] <= end'[t]
                       /\ end'[t] = end[t] \/ (end[t] < current /\ end'[t] = current /\ t \in JumpedTo)
  BY <1>1, <1>2 DEF IInv, TypeOK, IntervalsOrdered, AnyRegister
<1>4. \A t \in Temps, n \in Nat :
        Live(t, n)' <=> HasInterval(t) /\ start[t] <= n /\ n <= end'[t]
  BY <1>1 DEF Live, HasInterval
<1>5. \A t \in Temps : /\ t \in live => HasInterval(t) /\ start[t] <= current /\ current <= end[t]
                       /\ HasInterval(t) /\ start[t] <= current /\ current <= end[t] => t \in live
  BY <1>1, <1>3 DEF LoopInv, ActiveReached, Finished, Starting
<1>6. ActiveReached'
  BY <1>1, <1>3, <1>5 DEF ActiveReached, HasInterval
<1>7. LabelsRemember'
  <2>1. SUFFICES ASSUME NEW l \in Labels, NEW t \in noClobber'[l]
                 PROVE  \E n \in 1..current : body[n].def = l /\ Live(t, n)'
    BY <1>1 DEF LabelsRemember
  <2>2. t \in Temps /\ live \subseteq Temps
    BY DEF IInv, TypeOK, Finished, Starting
  <2>3. CASE t \in noClobber[l]
    <3>1. PICK n \in 1..(current - 1) : body[n].def = l /\ Live(t, n)
      BY <1>1, <2>3 DEF LoopInv, LabelsRemember
    <3>2. Live(t, n)'
      BY <1>1, <1>3, <1>4, <2>2, <3>1 DEF Live
    <3> QED
      BY <1>1, <3>1, <3>2
  <2>4. CASE t \in live /\ l = instr.def
    <3>1. HasInterval(t) /\ start[t] <= current /\ current <= end'[t]
      BY <1>1, <1>3, <1>5, <2>2, <2>4
    <3> QED
      BY <1>1, <1>4, <2>2, <2>4, <3>1
  <2> QED
    BY <1>2, <2>3, <2>4
<1>8. LabelsKnowLive'
  <2>1. SUFFICES ASSUME NEW n \in 1..current, NEW t \in Temps,
                        body[n].def # None, Live(t, n)'
                 PROVE  \/ t \in noClobber'[body[n].def]
                        \/ \E loop \in BackJumps(body) :
                             loop[1] < n /\ n <= loop[2] /\ loop[2] <= current
    <3>1. \A loop \in BackJumps(body) : loop[2] < current' <=> loop[2] <= current
      BY <1>1, BackJumpTypes DEF IInv, LoopInv
    <3> QED
      BY <1>1, <3>1, <2>1 DEF LabelsKnowLive
  <2>2. n \in DOMAIN body /\ body[n].def \in Labels
    <3>1. n \in DOMAIN body /\ body \in Seq(Instruction)
      BY <1>1 DEF IInv, TypeOK
    <3>2. body[n] \in Instruction
      BY <3>1
    <3> QED
      BY <2>1, <3>1, <3>2 DEF Instruction
  <2>3. noClobber[body[n].def] \subseteq noClobber'[body[n].def]
    BY <1>2, <2>2
  <2>4. CASE n < current /\ Live(t, n)
    <3>1. n \in 1..(current - 1)
      BY <1>1, <2>4
    <3>2. \/ t \in noClobber[body[n].def]
          \/ \E loop \in BackJumps(body) :
               loop[1] < n /\ n <= loop[2] /\ loop[2] < current
      BY <1>1, <2>1, <2>4, <3>1 DEF LoopInv, LabelsKnowLive
    <3>3. \A loop \in BackJumps(body) : loop[2] < current => loop[2] <= current
      BY <1>1, BackJumpTypes DEF IInv, LoopInv
    <3> QED
      BY <2>3, <3>2, <3>3
  <2>5. CASE ~Live(t, n)
    <3>1. /\ end[t] < n /\ n <= end'[t] /\ end'[t] = current /\ t \in JumpedTo
      BY <1>1, <1>3, <1>4, <2>1, <2>5 DEF Live
    <3>2. instr.def = None /\ n # current
      BY <1>1, <2>1, <3>1 DEF JumpedTo
    <3>3. PICK l \in instr.labels : t \in noClobber[l]
      BY <3>1, <3>2 DEF JumpedTo
    <3>4. l \in Labels
      <4>1. instr \in Instruction
        BY <1>1 DEF IInv, TypeOK
      <4> QED
        BY <4>1 DEF Instruction
    <3>5. PICK p \in 1..(current - 1) : body[p].def = l /\ Live(t, p)
      BY <1>1, <3>3, <3>4 DEF LoopInv, LabelsRemember
    <3>6. p \in DOMAIN body /\ p <= current /\ p <= end[t] /\ l # None
      BY <1>1, <3>4, <3>5, RegistersDistinct DEF Live, IInv, TypeOK
    <3>7. <<p, current>> \in BackJumps(body)
      BY <1>1, <3>3, <3>5, <3>6 DEF BackJumps
    <3>8. p < n /\ n <= current /\ current <= current
      BY <1>1, <1>3, <3>1, <3>6
    <3> QED
      BY <3>7, <3>8
  <2>6. CASE n = current /\ Live(t, n)
    <3>1. t \in live
      BY <1>5, <2>6 DEF Live
    <3> QED
      BY <1>1, <1>2, <2>2, <2>6, <3>1
  <2> QED
    BY <1>1, <2>4, <2>5, <2>6
<1>9. JumpsExtended'
  <2>1. SUFFICES ASSUME NEW jump \in BackJumps(body), NEW t \in Temps,
                        jump[2] <= current, Live(t, jump[1])'
                 PROVE  jump[2] <= end'[t]
    <3>1. \A jump \in BackJumps(body) : jump[2] < current' <=> jump[2] <= current
      BY <1>1, BackJumpTypes DEF IInv, LoopInv
    <3> QED
      BY <1>1, <2>1, <3>1 DEF JumpsExtended
  <2>2. /\ jump[1] \in DOMAIN body /\ jump[2] \in DOMAIN body
        /\ jump[1] \in Nat /\ jump[2] \in Nat /\ jump[1] < jump[2]
        /\ body[jump[1]].def # None /\ body[jump[1]].def \in Labels
        /\ body[jump[1]].def \in body[jump[2]].labels /\ body[jump[2]].def = None
    BY BackJumpTypes DEF IInv, LoopInv
  <2>3. CASE end'[t] = current
    BY <2>1, <2>3
  <2>4. CASE end'[t] = end[t] /\ jump[2] < current
    <3>1. Live(t, jump[1])
      BY <1>4, <2>1, <2>2, <2>4 DEF Live
    <3> QED
      BY <1>1, <2>4, <3>1 DEF LoopInv, JumpsExtended, Passes
  <2>5. CASE end'[t] = end[t] /\ jump[2] = current
    <3>1. Live(t, jump[1])
      BY <1>4, <2>1, <2>2, <2>5 DEF Live
    <3>2. jump[1] \in 1..(current - 1)
      BY <1>1, <2>2, <2>5 DEF IInv, TypeOK
    <3>3. \/ t \in noClobber[body[jump[1]].def]
          \/ \E loop \in BackJumps(body) :
               loop[1] < jump[1] /\ jump[1] <= loop[2] /\ loop[2] < current
      BY <1>1, <2>2, <3>1, <3>2 DEF LoopInv, LabelsKnowLive
    <3>4. \A loop \in BackJumps(body) :
            ~(loop[1] < jump[1] /\ jump[1] <= loop[2] /\ loop[2] < current)
      <4>1. SUFFICES ASSUME NEW loop \in BackJumps(body), loop[1] < jump[1],
                            jump[1] <= loop[2], loop[2] < current
                     PROVE  FALSE
        OBVIOUS
      <4>2. jump[2] <= loop[2]
        BY <4>1, LoopsNest DEF LoopInv, BodyGiven
      <4>3. loop[2] \in Nat
        BY BackJumpTypes DEF IInv, LoopInv
      <4> QED
        BY <1>1, <2>2, <2>5, <4>1, <4>2, <4>3
    <3>5. t \in JumpedTo
      BY <1>1, <2>2, <2>5, <3>3, <3>4 DEF JumpedTo
    <3> QED
      BY <1>1, <1>2, <1>3, <2>5, <3>5
  <2> QED
    BY <1>1, <1>3, <2>1, <2>2, <2>3, <2>4, <2>5
<1>10. BodyGiven'
  BY <1>1 DEF LoopInv, BodyGiven
<1> QED
  BY <1>6, <1>7, <1>8, <1>9, <1>10 DEF LoopInv

(* Every step of the allocator keeps loops covered.                        *)
LEMMA LoopStep ==
  ASSUME IInv, LoopInv, [Next]_vars, IInv' PROVE LoopInv'
<1>1. CASE BeginExtend
  <2>1. /\ phase' = "extend" /\ current' = 1 /\ active' = {} /\ body' = body
        /\ start' = start
    BY <1>1 DEF BeginExtend, Enter
  <2>2. \A t \in Temps : start[t] \in Nat
    BY DEF IInv, TypeOK, AnyRegister
  <2>3. ActiveReached'
    BY <2>1, <2>2 DEF ActiveReached, HasInterval
  <2>4. LabelsRemember'
    BY <1>1, <2>1 DEF LoopInv, LabelsRemember, BeginExtend, Past
  <2>5. LabelsKnowLive'
    <3>1. 1..(current' - 1) = {}
      BY <2>1
    <3> QED
      BY <3>1 DEF LabelsKnowLive
  <2>6. JumpsExtended'
    <3>1. \A jump \in BackJumps(body) : ~(jump[2] < 1)
      <4>1. SUFFICES ASSUME NEW jump \in BackJumps(body) PROVE ~(jump[2] < 1)
        OBVIOUS
      <4>2. jump[1] \in DOMAIN body /\ jump[1] < jump[2] /\ jump[1] \in Nat /\ jump[2] \in Nat
        BY BackJumpTypes DEF IInv, LoopInv
      <4> QED
        BY <4>2 DEF IInv, TypeOK
    <3> QED
      BY <2>1, <3>1 DEF JumpsExtended
  <2> QED
    BY <2>1, <2>3, <2>4, <2>5, <2>6 DEF LoopInv, BodyGiven
<1>2. CASE CheckInitialized \/ BeginConstruct \/ ConstructIntervals
  <2>1. /\ phase' \in {"check", "construct", "error"} /\ body' = body
        /\ phase \in {"check", "construct"} /\ noClobber' = noClobber
    BY <1>2 DEF CheckInitialized, BeginConstruct, ConstructIntervals, At, Past, Enter
  <2> QED
    BY <2>1 DEF LoopInv, BodyGiven, ActiveReached, LabelsRemember, LabelsKnowLive,
                JumpsExtended, Passes
<1>3. CASE BeginAssign
  <2>1. /\ phase = "extend" /\ phase' = "assign" /\ current > Len(body)
        /\ UNCHANGED <<body, start, end>>
    BY <1>3 DEF BeginAssign, Past, Enter
  <2>2. \A jump \in BackJumps(body) : jump[2] < current
    BY <2>1, BackJumpTypes DEF IInv, TypeOK, LoopInv
  <2>3. JumpsExtended'
    BY <2>1, <2>2 DEF LoopInv, JumpsExtended, Live, HasInterval, Passes
  <2> QED
    BY <2>1, <2>3 DEF LoopInv, BodyGiven, ActiveReached, LabelsRemember, LabelsKnowLive
<1>4. CASE (\E t \in Temps : AssignInterval(t)) \/ BeginRewrite \/ Rewrite \/ Finish
  <2>1. /\ phase \in Allocating /\ phase' \in Allocating
        /\ UNCHANGED <<body, start, end>>
    BY <1>4 DEF AssignInterval, BeginRewrite, Rewrite, Finish, At, Past, Enter, Allocating
  <2> QED
    BY <2>1 DEF LoopInv, BodyGiven, ActiveReached, LabelsRemember, LabelsKnowLive,
                JumpsExtended, Passes, Allocating, Live, HasInterval
<1>5. CASE UNCHANGED vars
  BY <1>5 DEF vars, LoopInv, BodyGiven, ActiveReached, LabelsRemember, LabelsKnowLive,
              JumpsExtended, Live, HasInterval
<1> QED
  BY <1>1, <1>2, <1>3, <1>4, <1>5, ExtendLoops DEF Next, Allocate, Stopped

(* Before any pass there is no interval to extend.                         *)
LEMMA InitLoops == Init => LoopInv
  BY DEF Init, LoopInv, BodyGiven, ActiveReached, LabelsRemember, LabelsKnowLive,
         JumpsExtended, Passes

(* An interval live at a label is live at every jump back to it, once the  *)
(* pass over the body is done: its location is not reused inside the loop. *)
THEOREM LoopsCovered == Spec => []LoopInv
<1>1. Init => LoopInv
  BY InitLoops
<1>2. IInv /\ IInv' /\ LoopInv /\ [Next]_vars => LoopInv'
  BY LoopStep
<1> QED
  BY <1>1, <1>2, Inductive, PTL DEF Spec
-----------------------------------------------------------------------------
(* The stack frame. Slots are handed out a word at a time from FirstSlot,  *)
(* so whatever lies below next_stack_offset on a word boundary is inside   *)
(* the frame of FrameWords words.                                          *)
WordOfFrame(s) == FirstSlot <= s /\ s % 4 = 0

SlotsAligned ==
  /\ WordOfFrame(nextSlot)
  /\ \A s \in freeSlots : WordOfFrame(s)
  /\ \A t \in Temps : assignment[t] \in Nat => WordOfFrame(assignment[t])

(* The saves of each call are slots of the frame, one for each register    *)
(* the callee may change; other instructions have none.                    *)
SavesInFrame ==
  /\ \A i \in DOMAIN saves :
       /\ DOMAIN saves[i] = (IF body[i].name = "call" THEN CallerSaved ELSE {})
       /\ \A r \in DOMAIN saves[i] :
            WordOfFrame(saves[i][r]) /\ saves[i][r] < nextSlot
  /\ phase = "done" => Len(saves) = Len(body)

FrameInv == SlotsAligned /\ SavesInFrame

(* getFreeStackOffset returns multiples of four the frame will have.       *)
LEMMA GrantsAligned ==
  ASSUME nextSlot \in Nat, WordOfFrame(nextSlot),
         NEW A, NEW free \in SUBSET Nat, \A s \in free : WordOfFrame(s),
         NEW n \in Nat, NEW f \in SlotGrants(A, free, n)
  PROVE  /\ \A a \in A : WordOfFrame(f[a])
         /\ \A a \in A : f[a] \in Nat
         /\ \A s \in Range(f) : WordOfFrame(s)
         /\ WordOfFrame(nextSlot + 4 * n)
<1>1. \A i \in Nat : WordOfFrame(nextSlot + 4 * i)
  BY DEF WordOfFrame, FirstSlot
<1>2. \A s \in Fresh(n) : WordOfFrame(s)
  BY <1>1 DEF Fresh
<1>3. f \in [A -> free \cup Fresh(n)]
  BY DEF SlotGrants
<1>4. \A a \in A : f[a] \in Nat
  <2>1. f \in [A -> Nat]
    BY GrantsAreFreeOrFresh
  <2> QED
    BY <2>1
<1> QED
  BY <1>1, <1>2, <1>3, <1>4 DEF Range

(* Every step of the allocator keeps the frame's layout.                   *)
LEMMA FrameStep ==
  ASSUME IInv, FrameInv, [Next]_vars, IInv' PROVE FrameInv'
<1> USE DEF FrameInv
<1>0. /\ nextSlot \in Nat /\ freeSlots \subseteq Nat /\ active \subseteq Temps
      /\ \A S \in SUBSET Temps : \A s \in SlotsOf(S) : s \in Nat /\ WordOfFrame(s)
  BY DEF IInv, TypeOK, SlotsAligned, SlotsOf
<1>1. CASE ExtendToLabels
  <2> DEFINE starting == Starting(current)
             free     == freeSlots \cup SlotsOf(Finished(current))
  <2>1. free \in SUBSET Nat /\ \A s \in free : WordOfFrame(s)
    BY <1>0 DEF Finished, SlotsAligned
  <2>2. PICK n \in 0..Cardinality(starting) : \E slot \in SlotGrants(starting, free, n) :
                /\ nextSlot' = nextSlot + 4 * n
                /\ freeSlots' = free \ Range(slot)
                /\ assignment' = [t \in Temps |-> IF t \in starting THEN slot[t]
                                                  ELSE assignment[t]]
    BY <1>1 DEF ExtendToLabels
  <2>3. PICK slot \in SlotGrants(starting, free, n) :
                /\ nextSlot' = nextSlot + 4 * n
                /\ freeSlots' = free \ Range(slot)
                /\ assignment' = [t \in Temps |-> IF t \in starting THEN slot[t]
                                                  ELSE assignment[t]]
    BY <2>2
  <2>4. (\A t \in starting : WordOfFrame(slot[t])) /\ WordOfFrame(nextSlot + 4 * n)
    BY <1>0, <2>1, n \in Nat, GrantsAligned DEF SlotsAligned
  <2>5. SlotsAligned'
    BY <2>1, <2>3, <2>4 DEF SlotsAligned
  <2>6. saves = <<>> /\ saves' = saves /\ phase' = "extend"
    BY <1>1 DEF ExtendToLabels, At, IInv, SavesCounted
  <2> QED
    BY <2>5, <2>6 DEF SavesInFrame
<1>2. ASSUME NEW t \in Temps, AssignInterval(t) PROVE FrameInv'
  <2> DEFINE slots == freeSlots \cup SlotsOf(Finished(start[t]))
             regs  == freeRegs \cup RegsOf(Finished(start[t]))
  <2>1. slots \in SUBSET Nat /\ \A s \in slots : WordOfFrame(s)
    BY <1>0 DEF Finished, SlotsAligned
  <2>2. saves = <<>> /\ saves' = saves /\ phase' = "assign"
    BY <1>2 DEF AssignInterval, IInv, SavesCounted
  <2>3. CASE AssignRegister(t, regs) /\ freeSlots' = slots /\ UNCHANGED nextSlot
    <3>1. PICK r \in regs : assignment' = [assignment EXCEPT ![t] = r]
      BY <2>3 DEF AssignRegister
    <3>2. r \notin Nat
      BY <1>0, LocationKinds, FinishedTypes DEF IInv, TypeOK, Finished
    <3>3. SlotsAligned'
      BY <2>1, <2>3, <3>1, <3>2 DEF SlotsAligned, IInv, TypeOK
    <3> QED
      BY <2>2, <3>3 DEF SavesInFrame
  <2>4. CASE \E n \in 0..1 : \E slot \in SlotGrants({t}, slots, n) :
               /\ assignment' = [assignment EXCEPT ![t] = slot[t]]
               /\ freeSlots' = slots \ {slot[t]}
               /\ nextSlot' = nextSlot + 4 * n
    <3>1. PICK n \in 0..1 : \E slot \in SlotGrants({t}, slots, n) :
               /\ assignment' = [assignment EXCEPT ![t] = slot[t]]
               /\ freeSlots' = slots \ {slot[t]}
               /\ nextSlot' = nextSlot + 4 * n
      BY <2>4
    <3>2. PICK slot \in SlotGrants({t}, slots, n) :
               /\ assignment' = [assignment EXCEPT ![t] = slot[t]]
               /\ freeSlots' = slots \ {slot[t]}
               /\ nextSlot' = nextSlot + 4 * n
      BY <3>1
    <3>3. WordOfFrame(slot[t]) /\ WordOfFrame(nextSlot + 4 * n)
      BY <1>0, <2>1, n \in Nat, GrantsAligned DEF SlotsAligned
    <3>4. SlotsAligned'
      BY <2>1, <3>2, <3>3 DEF SlotsAligned, IInv, TypeOK
    <3> QED
      BY <2>2, <3>4 DEF SavesInFrame
  <2> QED
    BY <1>2, <2>3, <2>4 DEF AssignInterval
<1>3. CASE Rewrite
  <2> DEFINE starting == Starting(current)
             slots    == SlotsLeft(Finished(current), starting)
             saved    == IF instr.name = "call" THEN CallerSaved ELSE {}
  <2>1. slots \in SUBSET Nat /\ \A s \in slots : WordOfFrame(s)
    BY <1>0 DEF Finished, SlotsAligned, SlotsLeft
  <2>2. PICK n \in 0..Cardinality(saved) : \E slot \in SlotGrants(saved, slots, n) :
                /\ nextSlot' = nextSlot + 4 * n
                /\ freeSlots' = slots \cup Range(slot)
                /\ saves' = Append(saves, slot)
    BY <1>3 DEF Rewrite
  <2>3. PICK slot \in SlotGrants(saved, slots, n) :
                /\ nextSlot' = nextSlot + 4 * n
                /\ freeSlots' = slots \cup Range(slot)
                /\ saves' = Append(saves, slot)
    BY <2>2
  <2>4. /\ \A r \in saved : WordOfFrame(slot[r])
        /\ \A s \in Range(slot) : WordOfFrame(s)
        /\ WordOfFrame(nextSlot + 4 * n)
    BY <1>0, <2>1, n \in Nat, GrantsAligned DEF SlotsAligned
  <2>5. /\ phase = "rewrite" /\ phase' = "rewrite" /\ assignment' = assignment
        /\ body' = body /\ instr = body[current]
        /\ current \in Nat /\ current > 0 /\ Len(saves) = current - 1
        /\ saves \in Seq([{} -> Nat] \cup [CallerSaved -> Nat])
    BY <1>3 DEF Rewrite, At, IInv, TypeOK, SavesCounted, instr
  <2>6. SlotsAligned'
    BY <2>1, <2>3, <2>4, <2>5 DEF SlotsAligned
  <2>7. /\ slot \in [saved -> Nat]
        /\ \A r \in saved : slot[r] \in slots \/ slot[r] < nextSlot + 4 * n
    BY <1>0, <2>1, n \in Nat, GrantsAreFreeOrFresh
  <2>8. /\ DOMAIN saves' = 1..current /\ saves'[current] = slot
        /\ \A i \in 1..(current - 1) : i \in DOMAIN saves /\ saves'[i] = saves[i]
    BY <2>3, <2>5, <2>7
  <2>9. nextSlot <= nextSlot' /\ nextSlot' \in Nat /\ \A s \in slots : s < nextSlot
    BY <1>0, <2>3, n \in Nat DEF IInv, SlotsBounded, SlotsLeft, SlotsOf, Finished
  <2>10. \A i \in 1..current :
           /\ DOMAIN saves'[i] = (IF body[i].name = "call" THEN CallerSaved ELSE {})
           /\ \A r \in DOMAIN saves'[i] :
                WordOfFrame(saves'[i][r]) /\ saves'[i][r] < nextSlot'
    <3>1. SUFFICES ASSUME NEW i \in 1..current
                   PROVE  /\ DOMAIN saves'[i] = (IF body[i].name = "call" THEN CallerSaved ELSE {})
                          /\ \A r \in DOMAIN saves'[i] :
                               WordOfFrame(saves'[i][r]) /\ saves'[i][r] < nextSlot'
      OBVIOUS
    <3>2. CASE i = current
      <4>1. DOMAIN slot = saved /\ saved = (IF body[i].name = "call" THEN CallerSaved ELSE {})
        BY <2>5, <2>7, <3>2
      <4>2. \A r \in saved : slot[r] < nextSlot'
        BY <1>0, <2>1, <2>3, <2>7, <2>9
      <4> QED
        BY <2>4, <2>8, <3>2, <4>1, <4>2
    <3>3. CASE i < current
      <4>1. i \in DOMAIN saves /\ saves'[i] = saves[i] /\ i \in Nat
        BY <2>5, <2>8, <3>3
      <4>2. saves[i] \in [{} -> Nat] \cup [CallerSaved -> Nat]
        BY <2>5, <4>1
      <4>3. \A r \in DOMAIN saves[i] : saves[i][r] \in Nat
        BY <4>2
      <4>4. /\ DOMAIN saves[i] = (IF body[i].name = "call" THEN CallerSaved ELSE {})
            /\ \A r \in DOMAIN saves[i] :
                 WordOfFrame(saves[i][r]) /\ saves[i][r] < nextSlot
        BY <4>1 DEF SavesInFrame
      <4> QED
        BY <1>0, <2>9, <4>1, <4>3, <4>4
    <3> QED
      BY <2>5, <3>2, <3>3
  <2>11. SavesInFrame'
    BY <2>5, <2>8, <2>10 DEF SavesInFrame
  <2> QED
    BY <2>6, <2>11
<1>4. CASE Finish
  <2>1. /\ phase = "rewrite" /\ current > Len(body)
        /\ UNCHANGED <<body, freeSlots, nextSlot, assignment, saves>>
    BY <1>4 DEF Finish, Past
  <2>2. Len(saves) = Len(body)
    BY <2>1 DEF IInv, TypeOK, SavesCounted
  <2> QED
    BY <2>1, <2>2 DEF SlotsAligned, SavesInFrame
<1>5. CASE CheckInitialized \/ BeginConstruct \/ ConstructIntervals \/ BeginExtend
           \/ BeginAssign \/ BeginRewrite
  <2>1. /\ phase \notin {"rewrite", "done"} /\ phase' # "done"
        /\ UNCHANGED <<body, freeSlots, nextSlot, assignment, saves>>
    BY <1>5 DEF CheckInitialized, BeginConstruct, ConstructIntervals, BeginExtend,
                BeginAssign, BeginRewrite, At, Past, Enter
  <2> QED
    BY <2>1 DEF SlotsAligned, SavesInFrame
<1>6. CASE UNCHANGED vars
  BY <1>6 DEF vars, SlotsAligned, SavesInFrame
<1> QED
  BY <1>1, <1>2, <1>3, <1>4, <1>5, <1>6 DEF Next, Allocate, Stopped

(* The first slot is one word below the frame pointer.                     *)
LEMMA InitFrame == Init => FrameInv
  BY LocationKinds
     DEF Init, FrameInv, SlotsAligned, SavesInFrame, WordOfFrame, FirstSlot

(* Slots are words of the frame, and every call has its saves.             *)
THEOREM FrameLaidOut == Spec => []FrameInv
<1>1. Init => FrameInv
  BY InitFrame
<1>2. IInv /\ IInv' /\ FrameInv /\ [Next]_vars => FrameInv'
  BY FrameStep
<1> QED
  BY <1>1, <1>2, Inductive, PTL DEF Spec

(* The frame has a word for each slot below next_stack_offset.             *)
LEMMA FrameWordsCount ==
  ASSUME nextSlot \in Nat, WordOfFrame(nextSlot)
  PROVE  /\ FrameWords \in Nat /\ nextSlot = 4 * FrameWords + 4
         /\ \A s \in Nat : WordOfFrame(s) /\ s < nextSlot => FrameHolds(s)
<1>1. FrameWords \in Nat /\ nextSlot = 4 * FrameWords + 4
  BY DEF WordOfFrame, FirstSlot, FrameWords
<1>2. \A s \in Nat : WordOfFrame(s) /\ s < nextSlot => s <= 4 * FrameWords
  BY <1>1 DEF WordOfFrame
<1> QED
  BY <1>1, <1>2 DEF FrameHolds, WordOfFrame

(* Every slot the rewritten body addresses lies in the frame its caller    *)
(* reserves: those of spilled temporaries and those of the caller saves.   *)
THEOREM SlotsInFrame == Spec => []FrameCovers
<1>1. ASSUME IInv, FrameInv PROVE FrameCovers
  <2>1. nextSlot \in Nat /\ WordOfFrame(nextSlot)
    BY <1>1 DEF IInv, TypeOK, FrameInv, SlotsAligned
  <2>2. \A t \in Temps : assignment[t] \in Nat => FrameHolds(assignment[t])
    BY <1>1, <2>1, FrameWordsCount DEF IInv, SlotsBounded, FrameInv, SlotsAligned
  <2>3. ASSUME NEW i \in DOMAIN saves, NEW r \in DOMAIN saves[i]
        PROVE  FrameHolds(saves[i][r])
    <3>1. saves[i] \in [{} -> Nat] \cup [CallerSaved -> Nat]
      BY <1>1 DEF IInv, TypeOK
    <3>2. saves[i][r] \in Nat
      BY <3>1
    <3> QED
      BY <1>1, <2>1, <3>2, FrameWordsCount DEF FrameInv, SavesInFrame
  <2> QED
    BY <2>2, <2>3 DEF FrameCovers
<1> QED
  BY <1>1, Inductive, FrameLaidOut, PTL

-----------------------------------------------------------------------------
(* What the replacement of one instruction does to the store: it reads the *)
(* places of the registers the instruction names, writes those, and leaves *)
(* every other place alone but the instruction registers and the slots of  *)
(* the caller saves. Both allocators' refinement proofs rest on these.     *)

\* where an instruction's register is kept between instructions
Home(r, where) == IF r \in Temps THEN where[r] ELSE r

(* An instruction of a body may be replaced: the places of its temporaries *)
(* are in the store, apart from each other, from the registers it names    *)
(* and from the slots of the caller saves, which only a call has.          *)
Replaceable(i, where, save, words) ==
  /\ i \in Instruction
  /\ UsedRegisters(i) \cap InstructionRegisters = {}
  /\ i.name = "cdq" => i.reads = {} /\ i.writes = {}
  /\ i.name = "call" => i.writes = {EAX}
  /\ RealRegisters \subseteq DOMAIN words
  /\ \A t \in UsedTemps(i) : /\ where[t] \in DOMAIN words
                             /\ where[t] \notin InstructionRegisters
                             /\ \A r \in DOMAIN save : save[r] # where[t]
  /\ \A t \in UsedTemps(i), r \in UsedRegisters(i) \cup HardwareWrites(i) :
       r # t => where[t] # Home(r, where)
  /\ DOMAIN save # {} => i.name = "call"
  /\ DOMAIN save \subseteq RealRegisters \ (InstructionRegisters \cup {EAX})
  /\ \A r \in DOMAIN save : save[r] \in DOMAIN words \ RealRegisters
  /\ \A r, s \in DOMAIN save : save[r] = save[s] => r = s

-----------------------------------------------------------------------------
(* The registers an instruction handles are those it declares, but for     *)
(* cdq, which takes eax and sets edx.                                      *)
LEMMA HardwareRegisters ==
  ASSUME NEW i, NEW where, NEW save, NEW words, Replaceable(i, where, save, words)
  PROVE  /\ HardwareReads(i) \subseteq AnyRegister
         /\ HardwareWrites(i) \subseteq AnyRegister
         /\ \A t \in Temps : t \in HardwareReads(i) <=> t \in i.reads
         /\ \A t \in Temps : t \in HardwareWrites(i) <=> t \in i.writes
         /\ (HardwareReads(i) \cup HardwareWrites(i)) \cap InstructionRegisters = {}
         /\ (HardwareReads(i) \cup HardwareWrites(i)) \cap Temps \subseteq UsedTemps(i)
         /\ i.name = "call" => HardwareWrites(i) = {EAX}
<1>1. EAX \in RealRegisters /\ EDX \in RealRegisters /\ Frame \subseteq RealRegisters
  BY DEF RealRegisters, Frame
<1>2. RealRegisters \cap Temps = {}
  BY RegistersDistinct
<1>3. /\ EAX \notin InstructionRegisters /\ EDX \notin InstructionRegisters
      /\ EAX \notin Frame
  <2> DEFINE name == <<EAX, EBX, ECX, EDX, ESI, EDI, ESP, EBP>>
  <2>1. \A k, j \in 1..8 : name[k] = name[j] => k = j
    BY RegistersDistinct
  <2>2. /\ name[1] # name[3] /\ name[1] # name[5] /\ name[1] # name[6]
        /\ name[1] # name[7] /\ name[1] # name[8]
    BY ONLY <2>1
  <2>3. name[4] # name[3] /\ name[4] # name[5] /\ name[4] # name[6]
    BY ONLY <2>1
  <2> QED
    BY <2>2, <2>3 DEF InstructionRegisters, Frame
<1>4. /\ i.reads \subseteq AnyRegister /\ i.writes \subseteq AnyRegister
      /\ (i.reads \cup i.writes) \cap InstructionRegisters = {}
      /\ i.name = "cdq" => i.reads = {} /\ i.writes = {}
      /\ i.name = "call" => i.writes = {EAX}
  BY DEF Replaceable, Instruction, UsedRegisters
<1> QED
  BY <1>1, <1>2, <1>3, <1>4 DEF HardwareReads, HardwareWrites, AnyRegister, UsedTemps,
     UsedRegisters

(* The only element of a singleton is the one chosen.                      *)
LEMMA ChooseOnly ==
  ASSUME NEW x, NEW S, S = {x} PROVE (CHOOSE y \in S : TRUE) = x
  OBVIOUS

(* What a place holds after the caller saves.                              *)
LEMMA SavedAt ==
  ASSUME NEW words, NEW save, NEW l \in DOMAIN words
  PROVE  /\ DOMAIN Saved(words, save) = DOMAIN words
         /\ (\A r \in DOMAIN save : save[r] # l) => Saved(words, save)[l] = words[l]
         /\ \A r \in DOMAIN save :
              save[r] = l /\ (\A s \in DOMAIN save : save[s] = l => s = r)
                => Saved(words, save)[l] = words[r]
<1> DEFINE kept == {r \in DOMAIN save : save[r] = l}
<1>1. /\ DOMAIN Saved(words, save) = DOMAIN words
      /\ Saved(words, save)[l] =
           IF kept = {} THEN words[l] ELSE words[CHOOSE r \in kept : TRUE]
  BY DEF Saved
<1>2. ASSUME NEW r \in DOMAIN save, save[r] = l, \A s \in DOMAIN save : save[s] = l => s = r
      PROVE  kept # {} /\ (CHOOSE s \in kept : TRUE) = r
  <2>1. kept = {r}
    BY <1>2
  <2> QED
    BY <2>1, ChooseOnly
<1> QED
  BY <1>1, <1>2

(* What a place holds after loadAbstractRegister.                          *)
LEMMA LoadedAt ==
  ASSUME NEW words, NEW i, NEW where, NEW scratch, NEW l \in DOMAIN words
  PROVE  /\ DOMAIN Loaded(words, i, where, scratch) = DOMAIN words
         /\ (\A t \in DOMAIN scratch \cap i.reads : scratch[t] # l)
              => Loaded(words, i, where, scratch)[l] = words[l]
         /\ \A t \in DOMAIN scratch \cap i.reads :
              scratch[t] = l /\ (\A u \in DOMAIN scratch \cap i.reads : scratch[u] = l => u = t)
                => Loaded(words, i, where, scratch)[l] = words[where[t]]
<1> DEFINE filled == {t \in DOMAIN scratch \cap i.reads : scratch[t] = l}
<1>1. /\ DOMAIN Loaded(words, i, where, scratch) = DOMAIN words
      /\ Loaded(words, i, where, scratch)[l] =
           IF filled = {} THEN words[l] ELSE words[where[CHOOSE t \in filled : TRUE]]
  BY DEF Loaded
<1>2. ASSUME NEW t \in DOMAIN scratch \cap i.reads, scratch[t] = l,
             \A u \in DOMAIN scratch \cap i.reads : scratch[u] = l => u = t
      PROVE  filled # {} /\ (CHOOSE u \in filled : TRUE) = t
  <2>1. filled = {t}
    BY <1>2
  <2> QED
    BY <2>1, ChooseOnly
<1> QED
  BY <1>1, <1>2

(* What a place holds after the replaced instruction itself.               *)
LEMMA ExecutedAt ==
  ASSUME NEW words, NEW i, NEW at, NEW where, NEW scratch, NEW l \in DOMAIN words
  PROVE  /\ DOMAIN Executed(words, i, at, where, scratch) = DOMAIN words
         /\ (\A r \in HardwareWrites(i) : Place(r, where, scratch) # l) /\ l \notin Clobbered(i)
              => Executed(words, i, at, where, scratch)[l] = words[l]
         /\ \A r \in HardwareWrites(i) :
              /\ Place(r, where, scratch) = l
              /\ \A s \in HardwareWrites(i) : Place(s, where, scratch) = l => s = r
              => Executed(words, i, at, where, scratch)[l] = <<r, at>>
<1> DEFINE set == {r \in HardwareWrites(i) : Place(r, where, scratch) = l}
<1>1. /\ DOMAIN Executed(words, i, at, where, scratch) = DOMAIN words
      /\ Executed(words, i, at, where, scratch)[l] =
           IF set # {} THEN <<CHOOSE r \in set : TRUE, at>>
           ELSE IF l \in Clobbered(i) THEN None ELSE words[l]
  BY DEF Executed
<1>2. ASSUME NEW r \in HardwareWrites(i), Place(r, where, scratch) = l,
             \A s \in HardwareWrites(i) : Place(s, where, scratch) = l => s = r
      PROVE  set # {} /\ (CHOOSE s \in set : TRUE) = r
  <2>1. set = {r}
    BY <1>2
  <2> QED
    BY <2>1, ChooseOnly
<1> HIDE DEF set
<1>3. (\A r \in HardwareWrites(i) : Place(r, where, scratch) # l) => set = {}
  BY DEF set
<1> QED
  BY <1>1, <1>2, <1>3

(* What a place holds after storeAbstractRegister.                         *)
LEMMA StoredAt ==
  ASSUME NEW words, NEW i, NEW where, NEW scratch, NEW l \in DOMAIN words
  PROVE  /\ DOMAIN Stored(words, i, where, scratch) = DOMAIN words
         /\ (\A t \in DOMAIN scratch \cap i.writes : where[t] # l)
              => Stored(words, i, where, scratch)[l] = words[l]
         /\ \A t \in DOMAIN scratch \cap i.writes :
              where[t] = l /\ (\A u \in DOMAIN scratch \cap i.writes : where[u] = l => u = t)
                => Stored(words, i, where, scratch)[l] = words[scratch[t]]
<1> DEFINE kept == {t \in DOMAIN scratch \cap i.writes : where[t] = l}
<1>1. /\ DOMAIN Stored(words, i, where, scratch) = DOMAIN words
      /\ Stored(words, i, where, scratch)[l] =
           IF kept = {} THEN words[l] ELSE words[scratch[CHOOSE t \in kept : TRUE]]
  BY DEF Stored
<1>2. ASSUME NEW t \in DOMAIN scratch \cap i.writes, where[t] = l,
             \A u \in DOMAIN scratch \cap i.writes : where[u] = l => u = t
      PROVE  kept # {} /\ (CHOOSE u \in kept : TRUE) = t
  <2>1. kept = {t}
    BY <1>2
  <2> QED
    BY <2>1, ChooseOnly
<1> QED
  BY <1>1, <1>2

(* What a place holds after the saved registers are popped.                *)
LEMMA RestoredAt ==
  ASSUME NEW words, NEW save, NEW l \in DOMAIN words
  PROVE  /\ DOMAIN Restored(words, save) = DOMAIN words
         /\ l \notin DOMAIN save => Restored(words, save)[l] = words[l]
         /\ l \in DOMAIN save => Restored(words, save)[l] = words[save[l]]
  BY DEF Restored

(* Each spilled temporary passes through an instruction register of its    *)
(* own, and the others are used where they are kept.                       *)
LEMMA Places ==
  ASSUME NEW i, NEW where, NEW scratch \in Scratches(i, where)
  PROVE  /\ DOMAIN scratch = Spilled(i, where)
         /\ \A t \in DOMAIN scratch : /\ t \in UsedTemps(i) /\ t \in Temps
                                      /\ where[t] \notin RealRegisters
                                      /\ scratch[t] \in InstructionRegisters
         /\ \A t, u \in DOMAIN scratch : scratch[t] = scratch[u] => t = u
         /\ \A r : r \in DOMAIN scratch => Place(r, where, scratch) = scratch[r]
         /\ \A r : r \notin DOMAIN scratch => Place(r, where, scratch) = Home(r, where)
         /\ InstructionRegisters \subseteq RealRegisters
<1>1. scratch \in [Spilled(i, where) -> InstructionRegisters] /\ IsInjective(scratch)
  BY DEF Scratches, Injection, IsInjective
<1> QED
  BY <1>1 DEF Spilled, UsedTemps, Place, Home, IsInjective, RealRegisters,
     InstructionRegisters
-----------------------------------------------------------------------------
(* Where an instruction's registers are: in the store, apart from the      *)
(* slots of the caller saves, and in an instruction register only if       *)
(* spilled.                                                                *)
LEMMA Homes ==
  ASSUME NEW i, NEW where, NEW save, NEW words, Replaceable(i, where, save, words),
         NEW scratch \in Scratches(i, where),
         NEW r \in HardwareReads(i) \cup HardwareWrites(i)
  PROVE  /\ Home(r, where) \in DOMAIN words \ InstructionRegisters
         /\ Place(r, where, scratch) \in DOMAIN words
         /\ \A s \in DOMAIN save : save[s] # Home(r, where)
         /\ \A s \in HardwareReads(i) \cup HardwareWrites(i) :
              s # r => Home(s, where) # Home(r, where)
         /\ \A s \in HardwareReads(i) \cup HardwareWrites(i) :
              s # r => Place(s, where, scratch) # Place(r, where, scratch)
<1> USE DEF Replaceable
<1>1. /\ r \in AnyRegister
      /\ r \in Temps => r \in UsedTemps(i)
      /\ r \notin InstructionRegisters
      /\ \A s \in HardwareReads(i) \cup HardwareWrites(i) :
           /\ s \in AnyRegister
           /\ s \in Temps => s \in UsedTemps(i)
           /\ s \notin InstructionRegisters
  BY HardwareRegisters DEF AnyRegister
<1>2. /\ DOMAIN scratch = Spilled(i, where)
      /\ \A t \in DOMAIN scratch : /\ t \in UsedTemps(i) /\ t \in Temps
                                   /\ scratch[t] \in InstructionRegisters
      /\ \A t, u \in DOMAIN scratch : scratch[t] = scratch[u] => t = u
      /\ \A s : s \in DOMAIN scratch => Place(s, where, scratch) = scratch[s]
      /\ \A s : s \notin DOMAIN scratch => Place(s, where, scratch) = Home(s, where)
      /\ InstructionRegisters \subseteq RealRegisters
  BY Places
<1>3. \A s \in HardwareReads(i) \cup HardwareWrites(i) :
        Home(s, where) \in DOMAIN words /\ Home(s, where) \notin InstructionRegisters
  BY <1>1 DEF Home, AnyRegister
<1>4. \A s \in HardwareReads(i) \cup HardwareWrites(i) :
        s # r => Home(s, where) # Home(r, where)
  <2>1. SUFFICES ASSUME NEW s \in HardwareReads(i) \cup HardwareWrites(i), s # r
                 PROVE  Home(s, where) # Home(r, where)
    OBVIOUS
  <2>2. \A t \in UsedTemps(i) : \A q \in HardwareReads(i) \cup HardwareWrites(i) :
          q # t => where[t] # Home(q, where)
    <3>1. SUFFICES ASSUME NEW t \in UsedTemps(i),
                          NEW q \in HardwareReads(i) \cup HardwareWrites(i), q # t
                   PROVE  where[t] # Home(q, where)
      OBVIOUS
    <3>2. CASE q \in UsedRegisters(i) \cup HardwareWrites(i)
      BY <3>1, <3>2
    <3>3. CASE q \notin UsedRegisters(i) \cup HardwareWrites(i)
      <4>1. i.name = "cdq"
        BY <3>1, <3>3 DEF HardwareReads, UsedRegisters
      <4>2. UsedTemps(i) = {}
        BY <4>1 DEF UsedTemps, UsedRegisters
      <4> QED
        BY <4>2
    <3> QED
      BY <3>2, <3>3
  <2>3. CASE r \in Temps
    <3>1. Home(r, where) = where[r]
      BY <2>3 DEF Home
    <3> QED
      BY <1>1, <2>1, <2>2, <2>3, <3>1
  <2>4. CASE s \in Temps
    <3>1. Home(s, where) = where[s]
      BY <2>4 DEF Home
    <3> QED
      BY <1>1, <2>1, <2>2, <2>4, <3>1
  <2>5. CASE r \notin Temps /\ s \notin Temps
    BY <2>1, <2>5 DEF Home
  <2> QED
    BY <2>3, <2>4, <2>5
<1>5. \A s \in DOMAIN save : save[s] # Home(r, where)
  <2>1. CASE r \in Temps
    BY <1>1, <2>1 DEF Home
  <2>2. CASE r \notin Temps
    BY <1>1, <2>2 DEF Home, AnyRegister
  <2> QED
    BY <2>1, <2>2
<1>6. Place(r, where, scratch) \in DOMAIN words
  BY <1>2, <1>3
<1>7. \A s \in HardwareReads(i) \cup HardwareWrites(i) :
        s # r => Place(s, where, scratch) # Place(r, where, scratch)
  BY <1>2, <1>3, <1>4
<1> QED
  BY <1>3, <1>4, <1>5, <1>6, <1>7

(* The replaced instruction reads the values its registers are kept with.  *)
LEMMA ReadsOwn ==
  ASSUME NEW i, NEW where, NEW save, NEW words, Replaceable(i, where, save, words),
         NEW scratch \in Scratches(i, where),
         NEW r \in HardwareReads(i)
  PROVE  Before(words, i, where, scratch, save)[Place(r, where, scratch)]
           = words[Home(r, where)]
<1> DEFINE kept == Saved(words, save)
<1>1. /\ Home(r, where) \in DOMAIN words \ InstructionRegisters
      /\ Place(r, where, scratch) \in DOMAIN words
      /\ \A s \in DOMAIN save : save[s] # Home(r, where)
  BY Homes
<1>2. /\ \A t \in DOMAIN scratch : /\ t \in UsedTemps(i) /\ t \in Temps
                                   /\ scratch[t] \in InstructionRegisters
      /\ \A t, u \in DOMAIN scratch : scratch[t] = scratch[u] => t = u
      /\ r \in DOMAIN scratch => Place(r, where, scratch) = scratch[r]
      /\ r \notin DOMAIN scratch => Place(r, where, scratch) = Home(r, where)
  BY Places
<1>3. DOMAIN kept = DOMAIN words /\ kept[Home(r, where)] = words[Home(r, where)]
  BY <1>1, SavedAt
<1>4. CASE r \in DOMAIN scratch
  <2>1. r \in Temps /\ r \in i.reads /\ Home(r, where) = where[r]
    BY <1>2, <1>4, HardwareRegisters DEF Home
  <2>2. scratch[r] \in DOMAIN kept
    BY <1>1, <1>2, <1>3, <1>4
  <2>3. Loaded(kept, i, where, scratch)[scratch[r]] = kept[where[r]]
    BY <1>2, <1>4, <2>1, <2>2, LoadedAt
  <2> QED
    BY <1>2, <1>3, <1>4, <2>1, <2>3 DEF Before
<1>5. CASE r \notin DOMAIN scratch
  <2>1. Loaded(kept, i, where, scratch)[Home(r, where)] = kept[Home(r, where)]
    BY <1>1, <1>2, <1>3, LoadedAt
  <2> QED
    BY <1>2, <1>3, <1>5, <2>1 DEF Before
<1> QED
  BY <1>4, <1>5

(* The outcome of replaced code, stage by stage.                           *)
LEMMA OutcomeParts ==
  ASSUME NEW i, NEW at, NEW where, NEW save, NEW words, NEW scratch
  PROVE  /\ DOMAIN Before(words, i, where, scratch, save) = DOMAIN words
         /\ DOMAIN Executed(Before(words, i, where, scratch, save), i, at, where, scratch)
              = DOMAIN words
         /\ DOMAIN Outcome(words, i, at, where, scratch, save) = DOMAIN words
  BY DEF Before, Outcome, Saved, Loaded, Executed, Stored, Restored

(* It leaves what it writes where the registers written are kept.          *)
LEMMA WritesOwn ==
  ASSUME NEW i, NEW at, NEW where, NEW save, NEW words, Replaceable(i, where, save, words),
         NEW scratch \in Scratches(i, where),
         NEW r \in HardwareWrites(i)
  PROVE  Outcome(words, i, at, where, scratch, save)[Home(r, where)] = <<r, at>>
<1> DEFINE before == Before(words, i, where, scratch, save)
           ran    == Executed(before, i, at, where, scratch)
           kept   == Stored(ran, i, where, scratch)
<1>1. /\ Home(r, where) \in DOMAIN words \ InstructionRegisters
      /\ Place(r, where, scratch) \in DOMAIN words
      /\ \A s \in HardwareWrites(i) : s # r => Home(s, where) # Home(r, where)
      /\ \A s \in HardwareWrites(i) :
           s # r => Place(s, where, scratch) # Place(r, where, scratch)
  BY Homes
<1>2. /\ \A t \in DOMAIN scratch : /\ t \in Temps
                                   /\ where[t] \notin RealRegisters
                                   /\ scratch[t] \in InstructionRegisters
      /\ r \in DOMAIN scratch => Place(r, where, scratch) = scratch[r]
      /\ r \notin DOMAIN scratch => Place(r, where, scratch) = Home(r, where)
  BY Places
<1>3. DOMAIN before = DOMAIN words /\ DOMAIN ran = DOMAIN words
  BY OutcomeParts
<1>4. ran[Place(r, where, scratch)] = <<r, at>>
  BY <1>1, <1>3, ExecutedAt
<1>5. kept[Home(r, where)] = <<r, at>> /\ DOMAIN kept = DOMAIN words
  <2>1. \A t \in DOMAIN scratch \cap i.writes : t \in HardwareWrites(i) /\ Home(t, where) = where[t]
    BY <1>2, HardwareRegisters DEF Home
  <2>2. CASE r \in DOMAIN scratch
    <3>1. r \in DOMAIN scratch \cap i.writes /\ where[r] = Home(r, where)
      BY <1>2, <2>2, HardwareRegisters DEF Home
    <3>2. \A u \in DOMAIN scratch \cap i.writes : where[u] = where[r] => u = r
      BY <1>1, <2>1, <3>1
    <3>3. kept[where[r]] = ran[scratch[r]] /\ DOMAIN kept = DOMAIN ran
      BY <1>1, <1>3, <3>1, <3>2, StoredAt
    <3> QED
      BY <1>2, <1>3, <1>4, <2>2, <3>1, <3>3
  <2>3. CASE r \notin DOMAIN scratch
    <3>1. \A t \in DOMAIN scratch \cap i.writes : where[t] # Home(r, where)
      BY <1>1, <2>1, <2>3
    <3>2. kept[Home(r, where)] = ran[Home(r, where)] /\ DOMAIN kept = DOMAIN ran
      BY <1>1, <1>3, <3>1, StoredAt
    <3> QED
      BY <1>2, <1>3, <1>4, <2>3, <3>2
  <2> QED
    BY <2>2, <2>3
<1>6. Home(r, where) \notin DOMAIN save
  <2>1. SUFFICES ASSUME Home(r, where) \in DOMAIN save PROVE FALSE
    OBVIOUS
  <2>2. i.name = "call" /\ EAX \notin DOMAIN save
    BY <2>1 DEF Replaceable
  <2>3. r = EAX /\ EAX \notin Temps
    BY <2>2, HardwareRegisters, RegistersDistinct DEF RealRegisters
  <2> QED
    BY <2>1, <2>2, <2>3 DEF Home
<1>7. Restored(kept, save)[Home(r, where)] = kept[Home(r, where)]
  BY <1>1, <1>5, <1>6, RestoredAt
<1> QED
  BY <1>5, <1>7 DEF Outcome

(* It leaves every other place as it was, but the instruction registers,   *)
(* the slots of the caller saves and what a callee may change unsaved.     *)
LEMMA KeepsOthers ==
  ASSUME NEW i, NEW at, NEW where, NEW save, NEW words, Replaceable(i, where, save, words),
         NEW scratch \in Scratches(i, where),
         NEW l \in DOMAIN words, l \notin InstructionRegisters,
         \A r \in HardwareWrites(i) : Home(r, where) # l,
         \A r \in DOMAIN save : save[r] # l,
         l \in Clobbered(i) => l \in DOMAIN save
  PROVE  Outcome(words, i, at, where, scratch, save)[l] = words[l]
<1> DEFINE saved  == Saved(words, save)
           before == Before(words, i, where, scratch, save)
           ran    == Executed(before, i, at, where, scratch)
           kept   == Stored(ran, i, where, scratch)
<1>1. /\ \A t \in DOMAIN scratch : /\ t \in Temps
                                   /\ where[t] \notin RealRegisters
                                   /\ scratch[t] \in InstructionRegisters
      /\ \A r : r \in DOMAIN scratch => Place(r, where, scratch) = scratch[r]
      /\ \A r : r \notin DOMAIN scratch => Place(r, where, scratch) = Home(r, where)
      /\ InstructionRegisters \subseteq RealRegisters
  BY Places
<1>2. /\ DOMAIN saved = DOMAIN words /\ DOMAIN before = DOMAIN words
      /\ DOMAIN ran = DOMAIN words /\ DOMAIN kept = DOMAIN words
  BY OutcomeParts DEF Saved, Stored
<1>3. \A t \in DOMAIN scratch \cap i.writes : t \in HardwareWrites(i) /\ Home(t, where) = where[t]
  BY <1>1, HardwareRegisters DEF Home
<1>4. CASE l \notin DOMAIN save
  <2>1. saved[l] = words[l]
    BY SavedAt
  <2>2. before[l] = saved[l]
    BY <1>1, <1>2, LoadedAt DEF Before
  <2>3. ran[l] = before[l]
    BY <1>1, <1>2, <1>4, ExecutedAt
  <2>4. kept[l] = ran[l]
    BY <1>2, <1>3, StoredAt
  <2>5. Restored(kept, save)[l] = kept[l]
    BY <1>2, <1>4, RestoredAt
  <2> QED
    BY <2>1, <2>2, <2>3, <2>4, <2>5 DEF Outcome
<1>5. CASE l \in DOMAIN save
  <2> DEFINE slot == save[l]
  <2>1. /\ slot \in DOMAIN words /\ slot \notin RealRegisters
        /\ \A s \in DOMAIN save : save[s] = slot => s = l
        /\ i.name = "call" /\ i.writes = {EAX} /\ HardwareWrites(i) = {EAX}
    BY <1>5, HardwareRegisters DEF Replaceable
  <2>2. EAX \in RealRegisters /\ EAX \notin Temps
    BY RegistersDistinct DEF RealRegisters
  <2>3. saved[slot] = words[l]
    BY <1>5, <2>1, SavedAt
  <2>4. before[slot] = saved[slot]
    BY <1>1, <1>2, <2>1, LoadedAt DEF Before
  <2>5. Place(EAX, where, scratch) = EAX /\ EAX \notin DOMAIN scratch
    BY <1>1, <2>2 DEF Home
  <2>6. slot \notin Clobbered(i)
    BY <2>1 DEF Clobbered
  <2>7. ran[slot] = before[slot]
    BY <1>2, <2>1, <2>2, <2>5, <2>6, ExecutedAt
  <2>8. kept[slot] = ran[slot]
    BY <1>2, <2>1, <2>5, StoredAt
  <2>9. Restored(kept, save)[l] = kept[slot]
    BY <1>2, <1>5, RestoredAt
  <2> QED
    BY <2>3, <2>4, <2>7, <2>8, <2>9 DEF Outcome
<1> QED
  BY <1>4, <1>5

-----------------------------------------------------------------------------
(* Control goes to the next instruction, out of the body, or to a label    *)
(* the instruction mentions.                                               *)
LEMMA SuccessorsAre ==
  ASSUME body \in Seq(Instruction), NEW k \in DOMAIN body, NEW n \in Successors(k)
  PROVE  /\ n \in 1..(Len(body) + 1)
         /\ \/ n > k
            \/ n \in DOMAIN body /\ body[n].def # None /\ body[n].def \in body[k].labels
<1> DEFINE jumped == UNION {Targets(l) : l \in body[k].labels}
<1>1. Len(body) \in Nat /\ DOMAIN body = 1..Len(body) /\ k \in Nat
  OBVIOUS
<1>2. body[k].labels \subseteq Labels
  <2>1. body[k] \in Instruction
    OBVIOUS
  <2> QED
    BY <2>1 DEF Instruction
<1>3. \A m \in jumped : \/ m = Len(body) + 1
                        \/ m \in DOMAIN body /\ body[m].def # None /\ body[m].def \in body[k].labels
  <2>1. SUFFICES ASSUME NEW l \in body[k].labels, NEW m \in Targets(l)
                 PROVE  \/ m = Len(body) + 1
                        \/ m \in DOMAIN body /\ body[m].def # None /\ body[m].def \in body[k].labels
    OBVIOUS
  <2>2. l # None
    BY <1>2, RegistersDistinct
  <2> QED
    BY <2>2 DEF Targets, Position
<1>4. n \in {k + 1, Len(body) + 1} \cup jumped
  BY DEF Successors
<1>5. CASE n \in jumped
  BY <1>1, <1>3, <1>5
<1>6. CASE n \in {k + 1, Len(body) + 1}
  BY <1>1, <1>6
<1> QED
  BY <1>4, <1>5, <1>6

(* A register whose place holds its value before a replaced instruction    *)
(* holds it after, if nothing else the instruction changes has that place. *)
LEMMA FollowsEnv ==
  ASSUME NEW where, NEW save, NEW words, Replaceable(body[pc], where, save, words),
         NEW scratch \in Scratches(body[pc], where),
         NEW n, NEW r \in AnyRegister, After(pc, n)[r] # None,
         r \notin HardwareWrites(body[pc]) /\ env[r] # None =>
           /\ words[Home(r, where)] = env[r]
           /\ Home(r, where) \in DOMAIN words \ InstructionRegisters
           /\ \A w \in HardwareWrites(body[pc]) : Home(w, where) # Home(r, where)
           /\ \A s \in DOMAIN save : save[s] # Home(r, where)
           /\ Home(r, where) \in Clobbered(body[pc]) => Home(r, where) \in DOMAIN save \/ r \notin Temps
  PROVE  Outcome(words, body[pc], pc, where, scratch, save)[Home(r, where)] = After(pc, n)[r]
<1>1. After(pc, n)[r] = IF n <= pc /\ r \in Temps \ MentionedBefore(n) THEN None
                        ELSE IF r \in HardwareWrites(body[pc]) THEN <<r, pc>>
                        ELSE IF r \in Clobbered(body[pc]) THEN None
                        ELSE env[r]
  BY DEF After
<1>2. CASE r \in HardwareWrites(body[pc])
  BY <1>1, <1>2, WritesOwn
<1>3. CASE r \notin HardwareWrites(body[pc])
  <2>1. After(pc, n)[r] = env[r] /\ env[r] # None /\ r \notin Clobbered(body[pc])
    BY <1>1, <1>3
  <2>2. Home(r, where) \in Clobbered(body[pc]) => Home(r, where) \in DOMAIN save
    BY <1>3, <2>1 DEF Home
  <2> QED
    BY <1>3, <2>1, <2>2, KeepsOthers
<1> QED
  BY <1>2, <1>3

(* When every register read is kept with its value, the replaced           *)
(* instruction takes the step of the machine with a register for each.     *)
LEMMA SeesTheSame ==
  ASSUME NEW where, NEW save, NEW words, NEW next,
         RunReplaced(words, where, save, next),
         Replaceable(body[pc], where, save, words),
         \A r \in HardwareReads(body[pc]) : words[Home(r, where)] = env[r]
  PROVE  /\ seen' = [r \in HardwareReads(body[pc]) |-> env[r]]
         /\ \E scratch \in Scratches(body[pc], where) :
              next = Outcome(words, body[pc], pc, where, scratch, save)
<1> DEFINE i == body[pc]
<1>1. PICK scratch \in Scratches(i, where) :
        /\ next = Outcome(words, i, pc, where, scratch, save)
        /\ seen' = [r \in HardwareReads(i) |->
                      Before(words, i, where, scratch, save)[Place(r, where, scratch)]]
  BY DEF RunReplaced
<1>2. \A r \in HardwareReads(i) :
        Before(words, i, where, scratch, save)[Place(r, where, scratch)] = env[r]
  BY ReadsOwn
<1> QED
  BY <1>1, <1>2

(* A step of the code is then one of the machine with a register for each. *)
LEMMA MachineStep ==
  ASSUME pc \in DOMAIN body, Defined(pc), body' = body,
         seen' = [r \in HardwareReads(body[pc]) |-> env[r]],
         NEW n \in Successors(pc), pc' = n, env' = After(pc, n)
  PROVE  Machine!Step
<1>1. Machine!Defined(pc) /\ seen' = [r \in Machine!HardwareReads(body[pc]) |-> env[r]]
  BY DEF Defined, Machine!Defined, HardwareReads, Machine!HardwareReads,
     Frame, Machine!Frame
<1>2. n \in Machine!Successors(pc)
  BY DEF Successors, Machine!Successors, Targets, Machine!Targets, Position,
     Machine!Position
<1>3. env' = Machine!After(pc, n)
  BY DEF After, Machine!After, MentionedBefore, Machine!MentionedBefore,
     HardwareWrites, Machine!HardwareWrites, Clobbered, Machine!Clobbered,
     Frame, Machine!Frame, UsedRegisters, Machine!UsedRegisters,
     AnyRegister, Machine!AnyRegister, RealRegisters, Machine!RealRegisters
<1> QED
  BY <1>1, <1>2, <1>3 DEF Machine!Step

(* The run starts as that machine does.                                    *)
LEMMA MachineInit ==
  ASSUME body \in Bodies, pc = 1, seen = <<>>, env = [r \in AnyRegister |-> None]
  PROVE  Machine!Init
  BY DEF Machine!Init, AnyRegister, Machine!AnyRegister,
     RealRegisters, Machine!RealRegisters

-----------------------------------------------------------------------------
(* The brainless allocator.                                                *)

Housed == {t \in Temps : regOffsets[t] # 0}

(* Offsets are the words from 4 up to stack_offset, each handed out once,  *)
(* and every temporary met so far has one.                                 *)
OffsetsInv ==
  /\ body \in Bodies
  /\ spillPhase = "check" => \A t \in Temps : regOffsets[t] = 0
  /\ stackOffset = 4 * OffsetCount + 4
  /\ \A t \in Housed : /\ regOffsets[t] % 4 = 0
                       /\ 4 <= regOffsets[t] /\ regOffsets[t] < stackOffset
  /\ \A t, u \in Housed : regOffsets[t] = regOffsets[u] => t = u
  /\ spillPhase \in {"offsets", "done"} =>
       \A k \in DOMAIN body : spillPhase = "done" \/ k < spillCurrent =>
         UsedTemps(body[k]) \subseteq Housed

SpillSlots == {4 * k : k \in 1..OffsetCount}

SpillRealsKept ==
  \A r \in RealRegisters : env[r] # None =>
    store[r] = env[r] /\ r \notin InstructionRegisters

SpillTempsKept ==
  \A t \in Temps : env[t] # None =>
    t \in Housed /\ store[regOffsets[t]] = env[t]

SpillRunInv ==
  /\ spillPhase # "done" => NotStarted
  /\ spillPhase = "done" =>
       /\ DOMAIN store = RealRegisters \cup SpillSlots
       /\ pc \in 1..(Len(body) + 1)
       /\ SpillRealsKept
       /\ SpillTempsKept

SpillInv == SpillTypeOK /\ OffsetsInv /\ SpillRunInv

-----------------------------------------------------------------------------
(* The body allocated is one of those the tiler makes.                     *)
LEMMA SpilledBody ==
  ASSUME body \in Bodies PROVE body \in Seq(Instruction)
  BY BodiesAreCode

(* The frame's size is a number of words.                                  *)
LEMMA OffsetCountType == OffsetCount \in Nat
<1>1. IsFiniteSet(Housed)
  BY TempsFinite, FS_Subset DEF Housed
<1> QED
  BY <1>1, FS_CardinalityType DEF Housed, OffsetCount

(* The invariant holds before any offset is handed out.                    *)
LEMMA SpillInitInv == SpillInit => SpillInv
<1> SUFFICES ASSUME SpillInit PROVE SpillInv
  OBVIOUS
<1>1. SpillTypeOK
  BY DEF SpillInit, SpillTypeOK
<1>2. Housed = {}
  BY DEF SpillInit, Housed
<1>3. OffsetCount = 0
  BY <1>2, FS_EmptySet DEF OffsetCount, Housed
<1>4. OffsetsInv
  BY <1>2, <1>3 DEF SpillInit, OffsetsInv
<1>5. SpillRunInv
  BY DEF SpillInit, SpillRunInv, NotStarted
<1> QED
  BY <1>1, <1>4, <1>5 DEF SpillInv

(* Checking the temporaries keeps it.                                      *)
LEMMA SpillCheckInv ==
  ASSUME SpillInv, CheckTemporaries \/ BeginOffsets PROVE SpillInv'
<1>1. /\ spillPhase = "check" /\ spillPhase' \in {"check", "offsets", "error"}
      /\ spillCurrent \in Nat \ {0} /\ spillCurrent' \in Nat \ {0}
      /\ spillPhase' = "offsets" => spillCurrent' = 1
      /\ spillInitialized' \subseteq Temps
      /\ UNCHANGED <<body, regOffsets, stackOffset, pc, env, seen, store>>
  BY DEF CheckTemporaries, BeginOffsets, runVars, SpillInv, SpillTypeOK
<1>2. SpillTypeOK'
  BY <1>1 DEF SpillInv, SpillTypeOK
<1>3. Housed' = Housed /\ OffsetCount' = OffsetCount
  BY <1>1 DEF Housed, OffsetCount
<1>4. OffsetsInv'
  <2>1. \A k \in DOMAIN body : ~(k < 1)
    BY SpilledBody DEF SpillInv, OffsetsInv
  <2> QED
    BY <1>1, <1>3, <2>1 DEF SpillInv, OffsetsInv
<1>5. SpillRunInv'
  BY <1>1 DEF SpillInv, SpillRunInv, NotStarted
<1> QED
  BY <1>2, <1>4, <1>5 DEF SpillInv

(* The registers of one instruction that had no offset get the next ones,  *)
(* in some order, and the frame grows by as many words.                    *)
LEMMA FindOffsetsInv ==
  ASSUME SpillInv, FindOffsets PROVE SpillInv'
<1> DEFINE new == Homeless(body[spillCurrent])
           n   == Cardinality(new)
<1>1. /\ spillPhase = "offsets" /\ spillPhase' = "offsets" /\ spillCurrent <= Len(body)
      /\ spillCurrent' = spillCurrent + 1 /\ spillCurrent \in Nat \ {0}
      /\ stackOffset' = stackOffset + 4 * n
      /\ UNCHANGED <<body, spillInitialized, pc, env, seen, store>>
  BY DEF FindOffsets, runVars, SpillInv, SpillTypeOK
<1>2. PICK rank \in Bijection(new, 0..(n - 1)) :
        regOffsets' = [t \in Temps |-> IF t \in new
                         THEN stackOffset + 4 * rank[t] ELSE regOffsets[t]]
  BY DEF FindOffsets
<1>3. /\ regOffsets \in [Temps -> Nat] /\ stackOffset \in Nat
      /\ new \subseteq Temps /\ new \cap Housed = {}
      /\ body \in Seq(Instruction)
  BY SpilledBody DEF SpillInv, SpillTypeOK, Homeless, UsedTemps, Housed, OffsetsInv
<1>4. /\ IsFiniteSet(new) /\ IsFiniteSet(Housed) /\ n \in Nat
  BY <1>3, TempsFinite, FS_Subset, FS_CardinalityType DEF Housed
<1>5. /\ rank \in [new -> 0..(n - 1)]
      /\ \A t, u \in new : rank[t] = rank[u] => t = u
  BY <1>2 DEF Bijection, Injection, IsInjective
<1>6. \A t \in new : rank[t] \in Nat /\ rank[t] < n
  BY <1>4, <1>5
<1>7. /\ stackOffset = 4 * OffsetCount + 4 /\ OffsetCount \in Nat
      /\ stackOffset % 4 = 0 /\ 4 <= stackOffset
  BY OffsetCountType DEF SpillInv, OffsetsInv
<1>8. /\ \A t \in new : regOffsets'[t] = stackOffset + 4 * rank[t]
      /\ \A t \in Temps \ new : regOffsets'[t] = regOffsets[t]
      /\ regOffsets' \in [Temps -> Nat]
  BY <1>2, <1>3, <1>6
<1>9. Housed' = Housed \cup new
  BY <1>3, <1>6, <1>7, <1>8 DEF Housed
<1>10. stackOffset' = 4 * OffsetCount' + 4
  <2>1. Cardinality(Housed \cup new) = Cardinality(Housed) + n
    <3>1. Cardinality(Housed \cap new) = 0 /\ Cardinality(Housed) \in Nat
      BY <1>3, <1>4, FS_EmptySet, FS_CardinalityType
    <3>2. Cardinality(Housed \cup new)
            = Cardinality(Housed) + Cardinality(new) - Cardinality(Housed \cap new)
      BY <1>4, FS_Union
    <3> QED
      BY <1>4, <3>1, <3>2, SMTT(60)
  <2>2. OffsetCount = Cardinality(Housed) /\ OffsetCount' = Cardinality(Housed')
    BY DEF OffsetCount, Housed
  <2>3. OffsetCount' = OffsetCount + n
    BY <1>9, <2>1, <2>2
  <2>4. stackOffset' = stackOffset + 4 * n
    BY <1>1, <1>4
  <2> HIDE DEF new, n
  <2> QED
    BY <1>4, <1>7, <2>3, <2>4, SMTT(60)
<1>11. \A t \in Housed' : /\ regOffsets'[t] % 4 = 0
                          /\ 4 <= regOffsets'[t] /\ regOffsets'[t] < stackOffset'
  <2>1. ASSUME NEW t \in new
        PROVE  /\ regOffsets'[t] % 4 = 0
               /\ 4 <= regOffsets'[t] /\ regOffsets'[t] < stackOffset'
    <3>1. rank[t] \in Nat /\ rank[t] < n /\ regOffsets'[t] = 4 * (OffsetCount + 1 + rank[t])
      BY <1>6, <1>7, <1>8, SMTT(30)
    <3>2. OffsetCount + 1 + rank[t] \in Nat
      BY <1>7, <3>1
    <3>3. regOffsets'[t] % 4 = 0
      BY <3>1, <3>2
    <3> HIDE DEF new, n
    <3> QED
      BY <1>1, <1>4, <1>7, <3>1, <3>3
  <2>2. ASSUME NEW t \in Housed
        PROVE  /\ regOffsets'[t] % 4 = 0
               /\ 4 <= regOffsets'[t] /\ regOffsets'[t] < stackOffset'
    <3>1. t \in Temps \ new /\ regOffsets[t] \in Nat /\ regOffsets'[t] = regOffsets[t]
      BY <1>3, <1>8 DEF Housed
    <3> QED
      BY <1>1, <1>3, <1>4, <3>1 DEF SpillInv, OffsetsInv
  <2> QED
    BY <1>9, <2>1, <2>2
<1>12. ASSUME NEW t \in Housed', NEW u \in Housed', regOffsets'[t] = regOffsets'[u]
       PROVE  t = u
  <2>1. \A w \in Housed : /\ regOffsets'[w] = regOffsets[w] /\ regOffsets[w] \in Nat
                          /\ regOffsets[w] < stackOffset
    BY <1>3, <1>8 DEF Housed, SpillInv, OffsetsInv
  <2>2. \A w \in new : regOffsets'[w] = stackOffset + 4 * rank[w] /\ rank[w] \in Nat
    BY <1>6, <1>8
  <2>3. CASE t \in Housed /\ u \in Housed
    BY <1>12, <2>1, <2>3 DEF SpillInv, OffsetsInv
  <2>4. CASE t \in new /\ u \in new
    <3>1. rank[t] = rank[u]
      BY <1>3, <1>12, <2>2, <2>4
    <3> QED
      BY <1>5, <2>4, <3>1
  <2>5. CASE (t \in new /\ u \in Housed) \/ (t \in Housed /\ u \in new)
    BY <1>3, <1>12, <2>1, <2>2, <2>5
  <2> QED
    BY <1>9, <2>3, <2>4, <2>5
<1>13. ASSUME NEW k \in DOMAIN body, k <= spillCurrent
       PROVE  UsedTemps(body[k]) \subseteq Housed'
  <2>1. CASE k < spillCurrent
    BY <1>1, <1>9, <2>1 DEF SpillInv, OffsetsInv
  <2>2. CASE k = spillCurrent
    BY <1>9, <2>2 DEF Homeless, Housed, UsedTemps
  <2> QED
    BY <1>1, <1>3, <1>13, <2>1, <2>2
<1>14. OffsetsInv'
  <2>1. \A k \in DOMAIN body' : k < spillCurrent' => UsedTemps(body'[k]) \subseteq Housed'
    BY <1>1, <1>3, <1>13
  <2> QED
    BY <1>1, <1>10, <1>11, <1>12, <2>1 DEF SpillInv, OffsetsInv
<1>15. SpillTypeOK' /\ SpillRunInv'
  BY <1>1, <1>3, <1>4, <1>8 DEF SpillInv, SpillTypeOK, SpillRunInv, NotStarted
<1> QED
  BY <1>14, <1>15 DEF SpillInv

(* When offsets are done every register of the body has one.               *)
LEMMA WriteCodeInv ==
  ASSUME SpillInv, WriteCode PROVE SpillInv'
<1>1. /\ spillPhase = "offsets" /\ spillPhase' = "done" /\ spillCurrent > Len(body)
      /\ DOMAIN store' = RealRegisters \cup SpillSlots
      /\ UNCHANGED <<body, spillCurrent, spillInitialized, regOffsets, stackOffset, pc, env, seen>>
  BY DEF ReserveFrame, WriteCode, SpillSlots
<1>2. Housed' = Housed /\ OffsetCount' = OffsetCount /\ SpillSlots' = SpillSlots
  BY <1>1 DEF Housed, OffsetCount, SpillSlots
<1>3. body \in Seq(Instruction)
  BY SpilledBody DEF SpillInv, OffsetsInv
<1>4. OffsetsInv'
  <2>1. \A k \in DOMAIN body : k < spillCurrent
    BY <1>1, <1>3 DEF SpillInv, SpillTypeOK
  <2> QED
    BY <1>1, <1>2, <2>1 DEF SpillInv, OffsetsInv
<1>5. SpillRunInv'
  BY <1>1, <1>2, <1>3 DEF SpillInv, SpillRunInv, NotStarted, SpillRealsKept, SpillTempsKept, AnyRegister
<1> QED
  BY <1>1, <1>4, <1>5 DEF SpillInv, SpillTypeOK

-----------------------------------------------------------------------------
(* A slot handed out is a word of the frame, and no real register.         *)
LEMMA SlotsApart ==
  ASSUME SpillInv, NEW t \in Housed
  PROVE  /\ regOffsets[t] \in SpillSlots /\ regOffsets[t] \in Nat
         /\ regOffsets[t] \notin RealRegisters
         /\ \A u \in Housed : u # t => regOffsets[u] # regOffsets[t]
<1>1. /\ regOffsets[t] \in Nat /\ regOffsets[t] % 4 = 0 /\ 4 <= regOffsets[t]
      /\ regOffsets[t] < 4 * OffsetCount + 4 /\ OffsetCount \in Nat
  BY OffsetCountType DEF SpillInv, SpillTypeOK, OffsetsInv, Housed
<1>2. PICK k \in Nat : regOffsets[t] = 4 * k
  BY <1>1
<1>3. k \in 1..OffsetCount
  BY <1>1, <1>2
<1> QED
  BY <1>1, <1>2, <1>3, RegistersDistinct DEF SpillSlots, SpillInv, OffsetsInv

(* So the replacement of an instruction of the body is a sound one.        *)
LEMMA SpilledReplaceable ==
  ASSUME SpillInv, spillPhase = "done", NEW k \in DOMAIN body
  PROVE  Replaceable(body[k], regOffsets, <<>>, store)
<1> DEFINE i == body[k]
<1>1. i \in Instruction /\ body \in Bodies
  BY SpilledBody DEF SpillInv, OffsetsInv
<1>2. /\ UsedRegisters(i) \cap InstructionRegisters = {}
      /\ i.name = "cdq" => i.reads = {} /\ i.writes = {}
      /\ i.name = "call" => i.writes = {EAX}
  BY <1>1, BodiesAreTiled
<1>3. UsedTemps(i) \subseteq Housed
  BY DEF SpillInv, OffsetsInv
<1>4. DOMAIN store = RealRegisters \cup SpillSlots /\ DOMAIN <<>> = {}
  BY DEF SpillInv, SpillRunInv
<1>5. InstructionRegisters \subseteq RealRegisters /\ EDX \in RealRegisters
  BY DEF InstructionRegisters, RealRegisters
<1>6. ASSUME NEW t \in UsedTemps(i), NEW r \in UsedRegisters(i) \cup HardwareWrites(i), r # t
      PROVE  regOffsets[t] # Home(r, regOffsets)
  <2>1. CASE r \in Temps
    <3>1. r \in UsedTemps(i)
      BY <1>5, <2>1, <1>6, RegistersDistinct DEF UsedTemps, UsedRegisters, HardwareWrites
    <3> QED
      BY <1>3, <1>6, <2>1, <3>1, SlotsApart DEF Home
  <2>2. CASE r \notin Temps
    <3>1. r \in RealRegisters
      BY <1>1, <1>5, <1>6, <2>2 DEF Instruction, UsedRegisters, HardwareWrites, AnyRegister
    <3> QED
      BY <1>3, <2>2, <3>1, SlotsApart DEF Home
  <2> QED
    BY <2>1, <2>2
<1> QED
  BY <1>1, <1>2, <1>3, <1>4, <1>5, <1>6, SlotsApart DEF Replaceable

(* Every register an instruction reads is kept with the value that its own *)
(* register would have.                                                    *)
LEMMA SpilledReads ==
  ASSUME SpillInv, spillPhase = "done", pc \in DOMAIN body,
         NEW r \in HardwareReads(body[pc]), env[r] # None
  PROVE  store[Home(r, regOffsets)] = env[r]
<1>1. Replaceable(body[pc], regOffsets, <<>>, store)
  BY SpilledReplaceable
<1>2. r \in AnyRegister
  BY <1>1, HardwareRegisters
<1>3. CASE r \in Temps
  BY <1>3 DEF SpillInv, SpillRunInv, SpillTempsKept, Home
<1>4. CASE r \notin Temps
  BY <1>2, <1>4 DEF SpillInv, SpillRunInv, SpillRealsKept, Home, AnyRegister
<1> QED
  BY <1>3, <1>4

(* An instruction of the code written keeps every value in its slot.       *)
LEMMA RunSpilledInv ==
  ASSUME SpillInv, RunSpilled PROVE SpillInv'
<1> DEFINE i == body[pc]
<1>1. /\ spillPhase = "done" /\ UNCHANGED spillVars
      /\ pc \in DOMAIN body /\ Defined(pc)
      /\ RunReplaced(store, regOffsets, <<>>, store')
  BY DEF RunSpilled, RunReplaced
<1>2. /\ spillPhase' = "done" /\ body' = body /\ regOffsets' = regOffsets
      /\ stackOffset' = stackOffset /\ spillCurrent' = spillCurrent /\ spillInitialized' = spillInitialized
      /\ Housed' = Housed /\ OffsetCount' = OffsetCount /\ SpillSlots' = SpillSlots
  BY <1>1 DEF spillVars, Housed, OffsetCount, SpillSlots
<1>3. DOMAIN store = RealRegisters \cup SpillSlots /\ SpillRealsKept /\ SpillTempsKept
  BY <1>1 DEF SpillInv, SpillRunInv
<1>4. Replaceable(i, regOffsets, <<>>, store)
  BY <1>1, SpilledReplaceable
<1>5. PICK n \in Successors(pc) : pc' = n /\ env' = After(pc, n)
  BY <1>1 DEF RunReplaced
<1>6. \A r \in HardwareReads(i) : store[Home(r, regOffsets)] = env[r]
  BY <1>1, SpilledReads DEF Defined
<1>7. PICK scratch \in Scratches(i, regOffsets) :
        store' = Outcome(store, i, pc, regOffsets, scratch, <<>>)
  BY <1>1, <1>4, <1>6, SeesTheSame
<1>8. DOMAIN store' = RealRegisters \cup SpillSlots
  BY <1>3, <1>7, OutcomeParts
<1>9. pc' \in 1..(Len(body) + 1)
  BY <1>1, <1>5, SpilledBody, SuccessorsAre DEF SpillInv, OffsetsInv
<1>10. /\ HardwareWrites(i) \subseteq AnyRegister
       /\ \A w \in HardwareWrites(i) : /\ w \in Temps => w \in Housed
                                       /\ w \notin InstructionRegisters
  <2>1. UsedTemps(i) \subseteq Housed
    BY <1>1 DEF SpillInv, OffsetsInv
  <2> QED
    BY <1>4, <2>1, HardwareRegisters
<1>11. RealRegisters \cap Temps = {} /\ InstructionRegisters \subseteq RealRegisters
  BY RegistersDistinct DEF InstructionRegisters, RealRegisters
<1>12. ASSUME NEW r \in RealRegisters, env'[r] # None
       PROVE  store'[r] = env'[r] /\ r \notin InstructionRegisters
  <2>1. r \in AnyRegister /\ r \notin Temps /\ Home(r, regOffsets) = r
    BY <1>11 DEF AnyRegister, Home
  <2>2. r \notin HardwareWrites(i) => env[r] # None
    BY <1>5, <1>12, <2>1 DEF After
  <2>3. r \notin InstructionRegisters
    BY <1>3, <1>10, <2>2 DEF SpillRealsKept
  <2>4. ASSUME r \notin HardwareWrites(i), env[r] # None
        PROVE  /\ store[r] = env[r] /\ r \in DOMAIN store \ InstructionRegisters
               /\ \A w \in HardwareWrites(i) : Home(w, regOffsets) # r
    BY <1>3, <1>10, <2>3, <2>4, SlotsApart DEF SpillRealsKept, Home
  <2>5. Outcome(store, i, pc, regOffsets, scratch, <<>>)[Home(r, regOffsets)] = After(pc, n)[r]
    BY <1>4, <1>5, <1>12, <2>1, <2>4, FollowsEnv
  <2> QED
    BY <1>5, <1>7, <2>1, <2>3, <2>5
<1>13. ASSUME NEW t \in Temps, env'[t] # None
       PROVE  t \in Housed /\ store'[regOffsets[t]] = env'[t]
  <2>1. t \in AnyRegister /\ Home(t, regOffsets) = regOffsets[t]
    BY DEF AnyRegister, Home
  <2>2. t \notin HardwareWrites(i) => env[t] # None
    BY <1>5, <1>13, <2>1 DEF After
  <2>3. t \in Housed
    BY <1>3, <1>10, <2>2 DEF SpillTempsKept
  <2>4. /\ regOffsets[t] \in DOMAIN store /\ regOffsets[t] \notin RealRegisters
        /\ \A u \in Housed : u # t => regOffsets[u] # regOffsets[t]
    BY <1>3, <2>3, SlotsApart
  <2>5. ASSUME t \notin HardwareWrites(i), env[t] # None
        PROVE  /\ store[regOffsets[t]] = env[t]
               /\ regOffsets[t] \in DOMAIN store \ InstructionRegisters
               /\ \A w \in HardwareWrites(i) : Home(w, regOffsets) # regOffsets[t]
               /\ regOffsets[t] \notin Clobbered(i)
    <3>1. ASSUME NEW w \in HardwareWrites(i) PROVE Home(w, regOffsets) # regOffsets[t]
      <4>1. CASE w \in Temps
        BY <1>10, <2>4, <2>5, <4>1 DEF Home
      <4>2. CASE w \notin Temps
        BY <1>10, <2>4, <4>2 DEF Home, AnyRegister
      <4> QED
        BY <4>1, <4>2
    <3> QED
      BY <1>3, <1>11, <2>4, <2>5, <3>1 DEF SpillTempsKept, Clobbered
  <2>6. Outcome(store, i, pc, regOffsets, scratch, <<>>)[Home(t, regOffsets)] = After(pc, n)[t]
    BY <1>4, <1>5, <1>13, <2>1, <2>5, FollowsEnv
  <2> QED
    BY <1>5, <1>7, <2>1, <2>3, <2>6
<1>14. SpillRunInv'
  BY <1>2, <1>8, <1>9, <1>12, <1>13 DEF SpillRunInv, SpillRealsKept, SpillTempsKept
<1>15. SpillTypeOK'
  BY <1>2, <1>8 DEF SpillInv, SpillTypeOK
<1>16. OffsetsInv'
  BY <1>1, <1>2 DEF SpillInv, OffsetsInv
<1> QED
  BY <1>14, <1>15, <1>16 DEF SpillInv

(* Every step keeps the invariant.                                         *)
LEMMA SpillStepInv ==
  ASSUME SpillInv, [SpillNext]_<<spillVars, runVars>> PROVE SpillInv'
<1>1. CASE UNCHANGED <<spillVars, runVars>>
  <2>1. /\ UNCHANGED <<body, spillPhase, spillCurrent, spillInitialized, regOffsets, stackOffset>>
        /\ UNCHANGED <<pc, env, seen, store>>
    BY <1>1 DEF spillVars, runVars
  <2> QED
    BY <2>1 DEF SpillInv, SpillTypeOK, OffsetsInv, SpillRunInv, NotStarted, SpillRealsKept,
       SpillTempsKept, SpillSlots, OffsetCount, Housed
<1> QED
  BY <1>1, SpillCheckInv, FindOffsetsInv, WriteCodeInv, RunSpilledInv DEF SpillNext

(* In every state each register met so far has a slot of its own, the      *)
(* frame has a word for each, and the run keeps the machine's values there *)
THEOREM SpillInductive == SpillSpec => []SpillInv
<1>1. SpillInit => SpillInv
  BY SpillInitInv
<1>2. SpillInv /\ [SpillNext]_<<spillVars, runVars>> => SpillInv'
  BY SpillStepInv
<1> QED
  BY <1>1, <1>2, PTL DEF SpillSpec

(* The invariant puts every slot inside the frame.                         *)
LEMMA OffsetsInFrame == SpillInv => OwnSlotInFrame
<1> SUFFICES ASSUME SpillInv, NEW t \in Temps, regOffsets[t] # 0
             PROVE  /\ \A u \in Temps \ {t} : regOffsets[u] # regOffsets[t]
                    /\ regOffsets[t] % 4 = 0
                    /\ regOffsets[t] <= 4 * OffsetCount
  BY DEF OwnSlotInFrame
<1>1. t \in Housed /\ \A u \in Temps : u \in Housed \/ regOffsets[u] = 0
  BY DEF Housed
<1>2. \A u \in Temps \ {t} : regOffsets[u] # regOffsets[t]
  BY <1>1, SlotsApart
<1>3. /\ regOffsets[t] \in Nat /\ regOffsets[t] % 4 = 0
      /\ regOffsets[t] < 4 * OffsetCount + 4 /\ OffsetCount \in Nat
  BY <1>1, OffsetCountType DEF SpillInv, SpillTypeOK, OffsetsInv
<1> QED
  BY <1>2, <1>3

(* Two registers never share a slot, and every slot is inside the frame.   *)
THEOREM SlotsOwned == SpillSpec => []OwnSlotInFrame
  BY OffsetsInFrame, SpillInductive, PTL

(* A step of the code is one of the machine with a register for each.      *)
LEMMA SpillStepImplements ==
  ASSUME SpillInv, [SpillNext]_<<spillVars, runVars>>
  PROVE  [Machine!Step]_<<body, pc, env, seen>>
<1>1. CASE \/ CheckTemporaries \/ BeginOffsets \/ FindOffsets \/ WriteCode
           \/ UNCHANGED <<spillVars, runVars>>
  BY <1>1 DEF ReserveFrame, CheckTemporaries, BeginOffsets, FindOffsets, WriteCode, spillVars, runVars
<1>2. CASE RunSpilled
  <2>1. /\ spillPhase = "done" /\ body' = body /\ pc \in DOMAIN body /\ Defined(pc)
        /\ RunReplaced(store, regOffsets, <<>>, store')
    BY <1>2 DEF RunSpilled, RunReplaced, spillVars
  <2>2. Replaceable(body[pc], regOffsets, <<>>, store)
    BY <2>1, SpilledReplaceable
  <2>3. \A r \in HardwareReads(body[pc]) : store[Home(r, regOffsets)] = env[r]
    BY <2>1, SpilledReads DEF Defined
  <2>4. seen' = [r \in HardwareReads(body[pc]) |-> env[r]]
    BY <2>1, <2>2, <2>3, SeesTheSame
  <2>5. PICK n \in Successors(pc) : pc' = n /\ env' = After(pc, n)
    BY <2>1 DEF RunReplaced
  <2> QED
    BY <2>1, <2>4, <2>5, MachineStep
<1> QED
  BY <1>1, <1>2 DEF SpillNext

(* The run starts as the machine does.                                     *)
LEMMA SpillInitImplements == SpillInit => Machine!Init
  BY MachineInit DEF SpillInit, NotStarted

(* Spilling every temporary changes nothing a body can observe.            *)
THEOREM BrainlessImplements == SpillSpec => ImplementsTempMachine
  BY SpillInitImplements, SpillStepImplements, SpillInductive, PTL
     DEF SpillSpec, ImplementsTempMachine, Machine!Spec

-----------------------------------------------------------------------------
(* The linear scan.                                                        *)

AllocInv == IInv /\ LoopInv /\ FrameInv

FrameSlots == {4 * k : k \in 1..FrameWords}

RealsKept ==
  \A r \in RealRegisters : env[r] # None =>
    /\ store[r] = env[r]
    /\ HasInterval(r)
    /\ r \notin InstructionRegisters

TempsKept ==
  \A t \in Temps : env[t] # None =>
    /\ HasInterval(t)
    /\ start[t] < pc
    /\ pc <= end[t] => store[assignment[t]] = env[t]

RunInv ==
  /\ phase # "done" => store = <<>>
  /\ store = <<>> => NotStarted
  /\ store # <<>> =>
       /\ DOMAIN store = RealRegisters \cup FrameSlots
       /\ pc \in 1..(Len(body) + 1)
       /\ RealsKept
       /\ TempsKept

-----------------------------------------------------------------------------
(* A step of the run is a step of the allocator or leaves it alone.        *)
LEMMA AllocSteps ==
  ASSUME AllocInv, [RunNext]_<<vars, runVars>> PROVE AllocInv'
<1>1. [Next]_vars
  BY DEF RunNext, AllocateStep, BeginRun, RunStep, Next
<1> QED
  BY <1>1, StepInv, LoopStep, FrameStep DEF AllocInv

(* So what holds of the allocator holds while its code runs.               *)
LEMMA AllocHolds == RunSpec => []AllocInv
<1>1. RunInit => AllocInv
  <2>1. Init => IInv
    BY InitInv
  <2>2. Init => LoopInv
    BY InitLoops
  <2>3. Init => FrameInv
    BY InitFrame
  <2> QED
    BY <2>1, <2>2, <2>3 DEF RunInit, AllocInv
<1>2. AllocInv /\ [RunNext]_<<vars, runVars>> => AllocInv'
  BY AllocSteps
<1> QED
  BY <1>1, <1>2, PTL DEF RunSpec

(* A word of the frame is one of its slots.                                *)
LEMMA HeldByFrame ==
  ASSUME NEW s \in Nat, FrameHolds(s), FrameWords \in Nat
  PROVE  s \in FrameSlots
<1>1. PICK k \in Nat : s = 4 * k
  BY DEF FrameHolds
<1>2. 1 <= k /\ k <= FrameWords
  BY <1>1 DEF FrameHolds, FirstSlot
<1> QED
  BY <1>1, <1>2 DEF FrameSlots

(* Once allocation is done, a live temporary has a place in the store that *)
(* no other live temporary and no register the body names has.             *)
LEMMA LivePlaces ==
  ASSUME AllocInv, phase = "done", NEW t \in Temps, NEW k \in Nat, Live(t, k)
  PROVE  /\ assignment[t] \in RealRegisters \cup FrameSlots
         /\ assignment[t] \notin InstructionRegisters \cup Frame
         /\ assignment[t] \in RealRegisters => assignment[t] \in AllocatableRegisters
         /\ \A u \in Temps : u # t /\ Live(u, k) => assignment[u] # assignment[t]
         /\ \A r \in RealRegisters : HasInterval(r) => assignment[t] # r
<1> USE DEF AllocInv
<1>1. \A u \in Temps : HasInterval(u) => Assigned(u)
  BY DEF IInv, TodoLast, Assigned
<1>2. HasInterval(t) /\ Assigned(t) /\ TypeOK /\ IntervalsOrdered
  BY <1>1 DEF Live, IInv
<1>3. /\ assignment[t] \in Nat \cup AllocatableRegisters
      /\ assignment[t] \in AllocatableRegisters => ~OverlapsWith(t, assignment[t])
  BY <1>2 DEF IInv, AssignedWell
<1>4. assignment[t] \in Nat => assignment[t] \in FrameSlots
  <2>1. SUFFICES ASSUME assignment[t] \in Nat PROVE assignment[t] \in FrameSlots
    OBVIOUS
  <2>2. /\ nextSlot \in Nat /\ WordOfFrame(nextSlot)
        /\ WordOfFrame(assignment[t]) /\ assignment[t] < nextSlot
    BY <2>1 DEF IInv, TypeOK, FrameInv, SlotsAligned, SlotsBounded
  <2>3. FrameHolds(assignment[t]) /\ FrameWords \in Nat
    BY <2>1, <2>2, FrameWordsCount
  <2> QED
    BY <2>1, <2>3, HeldByFrame
<1>5. /\ AllocatableRegisters \subseteq RealRegisters
      /\ AllocatableRegisters \cap (InstructionRegisters \cup Frame) = {}
      /\ (InstructionRegisters \cup Frame) \subseteq RealRegisters
      /\ RealRegisters \cap Nat = {}
  BY LocationKinds, RegistersApart DEF Frame, InstructionRegisters, RealRegisters
<1>6. ASSUME NEW u \in Temps, u # t, Live(u, k) PROVE assignment[u] # assignment[t]
  <2>1. Assigned(u)
    BY <1>1, <1>6 DEF Live
  <2>2. start[u] <= end[t] /\ start[t] <= end[u]
    <3>1. /\ start[u] \in Nat /\ end[u] \in Nat
          /\ start[t] \in Nat /\ end[t] \in Nat
      BY DEF IInv, TypeOK, AnyRegister
    <3> QED
      BY <1>6, <3>1 DEF Live
  <2> QED
    BY <1>2, <1>6, <2>1, <2>2 DEF IInv, NoSharedLocation
<1>7. ASSUME NEW r \in RealRegisters, HasInterval(r), assignment[t] = r PROVE FALSE
  <2>1. assignment[t] \in AllocatableRegisters
    BY <1>3, <1>5, <1>7
  <2>2. OverlapsWith(t, r)
    BY <1>2, <1>7, OverlapsWithAnyUse
  <2> QED
    BY <1>3, <1>7, <2>1, <2>2
<1> QED
  BY <1>3, <1>4, <1>5, <1>6, <1>7

(* The instruction about to run, as the body it comes from makes it.       *)
LEMMA UsesLive ==
  ASSUME AllocInv, phase = "done", NEW k \in DOMAIN body
  PROVE  /\ body[k] \in Instruction
         /\ \A t \in UsedTemps(body[k]) : t \in Temps /\ Live(t, k)
         /\ \A r \in UsedRegisters(body[k]) \cup HardwareWrites(body[k]) :
              r \in RealRegisters => r \in Frame \/ HasInterval(r)
<1>1. body \in Seq(Instruction) /\ body \in Bodies
  BY DEF AllocInv, IInv, TypeOK, LoopInv, BodyGiven
<1>2. \A j \in DOMAIN body : \A r \in UsedRegisters(body[j]) \ Frame : Live(r, j)
  BY DEF AllocInv, IInv, UsesCovered, Passes, Frame
<1>3. \A t \in UsedTemps(body[k]) : t \in Temps /\ t \notin Frame
  BY LocationKinds DEF UsedTemps, Frame, RealRegisters
<1>4. \A t \in UsedTemps(body[k]) : Live(t, k)
  BY <1>2, <1>3 DEF UsedTemps
<1>5. ASSUME NEW r \in HardwareWrites(body[k]), r \notin UsedRegisters(body[k])
      PROVE  HasInterval(r)
  <2>1. body[k].name = "cdq" /\ r = EDX
    BY <1>5 DEF HardwareWrites, UsedRegisters
  <2>2. PICK j \in DOMAIN body : EDX \in UsedRegisters(body[j])
    BY <1>1, <2>1, BodiesAreTiled
  <2>3. EDX \notin Frame
    BY RegistersApart DEF AllocatableRegisters, Frame
  <2> QED
    BY <1>2, <2>1, <2>2, <2>3 DEF Live
<1>6. \A r \in UsedRegisters(body[k]) \ Frame : HasInterval(r)
  BY <1>2 DEF Live
<1> QED
  BY <1>1, <1>3, <1>4, <1>5, <1>6

(* So the replacement of an instruction of the body is a sound one.        *)
LEMMA EveryReplaceable ==
  ASSUME AllocInv, phase = "done", NEW k \in DOMAIN body,
         DOMAIN store = RealRegisters \cup FrameSlots
  PROVE  Replaceable(body[k], assignment, saves[k], store)
<1> USE DEF AllocInv
<1> DEFINE i == body[k]
           save == saves[k]
<1>1. body \in Seq(Instruction) /\ body \in Bodies /\ k \in Nat
  BY DEF IInv, TypeOK, LoopInv, BodyGiven
<1>2. /\ i \in Instruction
      /\ \A t \in UsedTemps(i) : t \in Temps /\ Live(t, k)
      /\ \A r \in UsedRegisters(i) \cup HardwareWrites(i) :
           r \in RealRegisters => r \in Frame \/ HasInterval(r)
  BY UsesLive
<1>3. /\ UsedRegisters(i) \cap InstructionRegisters = {}
      /\ i.name = "cdq" => i.reads = {} /\ i.writes = {}
      /\ i.name = "call" => i.writes = {EAX}
  BY <1>1, BodiesAreTiled
<1>4. RealRegisters \cap Nat = {} /\ RealRegisters \cap Temps = {} /\ FrameSlots \subseteq Nat
  <2>1. FrameWords \in Nat
    BY FrameWordsCount DEF IInv, TypeOK, FrameInv, SlotsAligned
  <2> QED
    BY <2>1, LocationKinds DEF FrameSlots
<1>5. k \in DOMAIN saves /\ save \in [{} -> Nat] \cup [CallerSaved -> Nat]
  BY <1>1 DEF IInv, TypeOK, FrameInv, SavesInFrame
<1>6. DOMAIN save = (IF i.name = "call" THEN CallerSaved ELSE {})
  BY <1>5 DEF FrameInv, SavesInFrame
<1>7. ASSUME NEW r \in DOMAIN save
      PROVE  save[r] \in Nat /\ save[r] \in FrameSlots
  <2>1. save[r] \in Nat
    BY <1>5
  <2>2. /\ nextSlot \in Nat /\ WordOfFrame(nextSlot)
        /\ WordOfFrame(save[r]) /\ save[r] < nextSlot
    BY <1>5 DEF IInv, TypeOK, FrameInv, SlotsAligned, SavesInFrame
  <2>3. FrameHolds(save[r]) /\ FrameWords \in Nat
    BY <2>1, <2>2, FrameWordsCount
  <2> QED
    BY <2>1, <2>3, HeldByFrame
<1>8. CallerSaved \subseteq RealRegisters \ (InstructionRegisters \cup {EAX})
  BY LocationKinds, RegistersApart DEF CallerSaved
<1>9. /\ \A r, s \in DOMAIN save : save[r] = save[s] => r = s
      /\ \A r \in DOMAIN save, t \in Temps : Live(t, k) => assignment[t] # save[r]
  BY <1>5 DEF IInv, SavesAreApart, IsInjective
<1>10. \A t \in UsedTemps(i) : /\ assignment[t] \in DOMAIN store
                               /\ assignment[t] \notin InstructionRegisters
                               /\ \A r \in DOMAIN save : save[r] # assignment[t]
  BY <1>1, <1>2, <1>9, LivePlaces
<1>11. ASSUME NEW t \in UsedTemps(i), NEW r \in UsedRegisters(i) \cup HardwareWrites(i), r # t
       PROVE  assignment[t] # Home(r, assignment)
  <2>1. CASE r \in Temps
    <3>1. r \in UsedTemps(i)
      <4>1. r \in UsedRegisters(i)
        <5>1. EDX \notin Temps
          BY LocationKinds DEF RealRegisters
        <5> QED
          BY <2>1, <1>11, <5>1 DEF HardwareWrites, UsedRegisters
      <4> QED
        BY <2>1, <4>1 DEF UsedTemps
    <3> QED
      BY <1>1, <1>2, <1>11, <2>1, <3>1, LivePlaces DEF Home
  <2>2. CASE r \notin Temps
    <3>1. r \in RealRegisters
      <4>1. i.reads \subseteq AnyRegister /\ i.writes \subseteq AnyRegister /\ EDX \in AnyRegister
        BY <1>2 DEF Instruction, AnyRegister, RealRegisters
      <4> QED
        BY <2>2, <4>1 DEF UsedRegisters, HardwareWrites, AnyRegister
    <3>2. r \in Frame \/ HasInterval(r)
      BY <1>2, <3>1
    <3> QED
      BY <1>1, <1>2, <2>2, <3>1, <3>2, LivePlaces DEF Home
  <2> QED
    BY <2>1, <2>2
<1>12. /\ DOMAIN save # {} => i.name = "call"
       /\ DOMAIN save \subseteq RealRegisters \ (InstructionRegisters \cup {EAX})
       /\ \A r \in DOMAIN save : save[r] \in DOMAIN store \ RealRegisters
  BY <1>4, <1>6, <1>7, <1>8
<1> QED
  BY <1>2, <1>3, <1>9, <1>10, <1>11, <1>12 DEF Replaceable
-----------------------------------------------------------------------------
(* A register the next instruction handles holds what the machine with a   *)
(* register for each has in it.                                            *)
LEMMA ReadsKept ==
  ASSUME AllocInv, RunInv, phase = "done", store # <<>>, pc \in DOMAIN body,
         NEW r \in HardwareReads(body[pc]), env[r] # None
  PROVE  store[Home(r, assignment)] = env[r]
<1>1. Replaceable(body[pc], assignment, saves[pc], store)
  BY EveryReplaceable DEF RunInv
<1>2. r \in AnyRegister /\ (r \in Temps => r \in UsedTemps(body[pc]))
  BY <1>1, HardwareRegisters
<1>3. CASE r \in Temps
  <2>1. Live(r, pc)
    BY <1>2, <1>3, UsesLive
  <2> QED
    BY <1>3, <2>1 DEF RunInv, TempsKept, Live, Home
<1>4. CASE r \notin Temps
  BY <1>2, <1>4 DEF RunInv, RealsKept, Home, AnyRegister
<1> QED
  BY <1>3, <1>4

(* What a jump back leaves of env lies inside the loop: a temporary it     *)
(* remembers is live at the label only if it is live at the jump.          *)
LEMMA LiveBeforeStep ==
  ASSUME AllocInv, RunInv, phase = "done", store # <<>>, pc \in DOMAIN body,
         NEW n \in Successors(pc), NEW t \in Temps, After(pc, n)[t] # None
  PROVE  /\ HasInterval(t) /\ start[t] < n
         /\ n <= end[t] => Live(t, pc)
<1> USE DEF AllocInv
<1>1. body \in Seq(Instruction) /\ DOMAIN body = 1..Len(body) /\ pc \in Nat
  BY DEF IInv, TypeOK
<1>2. /\ n \in Nat
      /\ \/ n > pc
         \/ n \in DOMAIN body /\ body[n].def # None /\ body[n].def \in body[pc].labels
  BY <1>1, SuccessorsAre
<1>3. start[t] \in Nat /\ end[t] \in Nat
  BY DEF IInv, TypeOK, AnyRegister
<1>4. t \in AnyRegister /\ t \notin Frame
  BY LocationKinds DEF AnyRegister, Frame, RealRegisters
<1>5. \A j \in DOMAIN body : t \in UsedRegisters(body[j]) => Live(t, j)
  BY <1>4 DEF IInv, UsesCovered, Passes, Frame
<1>6. HasInterval(t) /\ start[t] <= pc
  <2>1. CASE t \in HardwareWrites(body[pc])
    <3>1. t \in UsedRegisters(body[pc])
      <4>1. EDX # t
        BY LocationKinds DEF RealRegisters
      <4> QED
        BY <2>1, <4>1 DEF HardwareWrites, UsedRegisters
    <3> QED
      BY <1>5, <3>1 DEF Live
  <2>2. CASE t \notin HardwareWrites(body[pc])
    <3>1. env[t] # None
      BY <1>4, <2>2 DEF After
    <3> QED
      BY <1>1, <1>3, <3>1 DEF RunInv, TempsKept
  <2> QED
    BY <2>1, <2>2
<1>7. CASE n > pc
  BY <1>1, <1>2, <1>3, <1>6, <1>7 DEF Live
<1>8. CASE ~(n > pc)
  <2>1. n <= pc /\ t \in MentionedBefore(n)
    BY <1>1, <1>2, <1>4, <1>8 DEF After
  <2>2. PICK j \in 1..(n - 1) : t \in UsedRegisters(body[j])
    BY <2>1 DEF MentionedBefore
  <2>3. j \in DOMAIN body /\ j < n
    BY <1>1, <1>2, <2>1, <2>2
  <2>4. start[t] < n
    BY <1>2, <1>3, <1>5, <2>2, <2>3 DEF Live
  <2>5. ASSUME n <= end[t] PROVE Live(t, pc)
    <3>1. <<n, pc>> \in BackJumps(body)
      BY <1>1, <1>2, <1>8, <2>1 DEF BackJumps
    <3>2. Live(t, n)
      BY <1>2, <1>3, <1>6, <2>4, <2>5 DEF Live
    <3>3. pc <= end[t]
      BY <3>1, <3>2 DEF LoopInv, JumpsExtended, Passes
    <3> QED
      BY <1>6, <3>3 DEF Live
  <2> QED
    BY <1>6, <2>4, <2>5
<1> QED
  BY <1>7, <1>8

(* An instruction of the rewritten code keeps the run's invariant.         *)
LEMMA RunStepInv ==
  ASSUME AllocInv, RunInv, RunStep PROVE RunInv'
<1> DEFINE i == body[pc]
           save == saves[pc]
<1>1. /\ phase = "done" /\ store # <<>> /\ UNCHANGED vars
      /\ pc \in DOMAIN body /\ Defined(pc)
      /\ RunReplaced(store, assignment, save, store')
  BY DEF RunStep, RunReplaced
<1>2. /\ phase' = "done"
      /\ body' = body /\ start' = start /\ end' = end /\ assignment' = assignment
      /\ FrameSlots' = FrameSlots
      /\ \A r : HasInterval(r)' <=> HasInterval(r)
  BY <1>1 DEF vars, FrameSlots, FrameWords, HasInterval
<1>3. DOMAIN store = RealRegisters \cup FrameSlots /\ RealsKept /\ TempsKept
  BY <1>1 DEF RunInv
<1>4. Replaceable(i, assignment, save, store)
  BY <1>1, <1>3, EveryReplaceable
<1>5. PICK n \in Successors(pc) : pc' = n /\ env' = After(pc, n)
  BY <1>1 DEF RunReplaced
<1>6. \A r \in HardwareReads(i) : store[Home(r, assignment)] = env[r]
  BY <1>1, ReadsKept DEF Defined
<1>7. PICK scratch \in Scratches(i, assignment) :
        store' = Outcome(store, i, pc, assignment, scratch, save)
  BY <1>1, <1>4, <1>6, SeesTheSame
<1>8. DOMAIN store' = RealRegisters \cup FrameSlots
  BY <1>3, <1>7, OutcomeParts
<1>9. store' # <<>>
  BY <1>8 DEF RealRegisters
<1>10. pc' \in 1..(Len(body) + 1)
  BY <1>1, <1>5, SuccessorsAre DEF AllocInv, IInv, TypeOK
<1>11. pc \in Nat /\ RealRegisters \cap Temps = {} /\ RealRegisters \cap Nat = {}
  BY <1>1, LocationKinds DEF AllocInv, IInv, TypeOK
<1>12. /\ \A t \in UsedTemps(i) : t \in Temps /\ Live(t, pc)
       /\ \A r \in UsedRegisters(i) \cup HardwareWrites(i) :
            r \in RealRegisters => r \in Frame \/ HasInterval(r)
  BY <1>1, UsesLive
<1>13. /\ HardwareWrites(i) \subseteq AnyRegister
       /\ \A w \in HardwareWrites(i) : /\ w \in Temps => w \in UsedTemps(i)
                                       /\ w \notin InstructionRegisters
                                       /\ w \notin Frame
  BY <1>4, HardwareRegisters DEF HardwareWrites
<1>14. ASSUME NEW r \in RealRegisters, env'[r] # None
       PROVE  store'[r] = env'[r] /\ HasInterval(r) /\ r \notin InstructionRegisters
  <2>1. r \in AnyRegister /\ r \notin Temps /\ Home(r, assignment) = r
    BY <1>11 DEF AnyRegister, Home
  <2>2. HasInterval(r) /\ r \notin InstructionRegisters
    <3>1. CASE r \in HardwareWrites(i)
      BY <1>12, <1>13, <3>1
    <3>2. CASE r \notin HardwareWrites(i)
      <4>1. env[r] # None
        BY <1>5, <1>14, <2>1, <3>2 DEF After
      <4> QED
        BY <1>3, <4>1 DEF RealsKept
    <3> QED
      BY <3>1, <3>2
  <2>3. ASSUME r \notin HardwareWrites(i), env[r] # None
        PROVE  /\ store[r] = env[r] /\ r \in DOMAIN store \ InstructionRegisters
               /\ \A w \in HardwareWrites(i) : Home(w, assignment) # r
               /\ \A s \in DOMAIN save : save[s] # r
    <3>1. store[r] = env[r] /\ r \in DOMAIN store
      BY <1>3, <2>3 DEF RealsKept
    <3>2. ASSUME NEW w \in HardwareWrites(i) PROVE Home(w, assignment) # r
      <4>1. CASE w \in Temps
        BY <1>1, <1>11, <1>12, <1>13, <2>2, <4>1, LivePlaces DEF Home
      <4>2. CASE w \notin Temps
        BY <2>3, <4>2 DEF Home
      <4> QED
        BY <4>1, <4>2
    <3>3. \A s \in DOMAIN save : save[s] # r
      BY <1>4 DEF Replaceable
    <3> QED
      BY <2>2, <3>1, <3>2, <3>3
  <2>4. Outcome(store, i, pc, assignment, scratch, save)[Home(r, assignment)] = After(pc, n)[r]
    BY <1>4, <1>5, <1>14, <2>1, <2>3, FollowsEnv
  <2> QED
    BY <1>5, <1>7, <2>1, <2>2, <2>4
<1>15. ASSUME NEW t \in Temps, env'[t] # None
       PROVE  /\ HasInterval(t) /\ start[t] < pc'
              /\ pc' <= end[t] => store'[assignment[t]] = env'[t]
  <2>1. /\ HasInterval(t) /\ start[t] < n
        /\ n <= end[t] => Live(t, pc)
    BY <1>1, <1>5, <1>15, LiveBeforeStep
  <2>2. ASSUME n <= end[t] PROVE store'[assignment[t]] = env'[t]
    <3>1. Live(t, pc) /\ t \in AnyRegister /\ Home(t, assignment) = assignment[t]
      BY <2>1, <2>2 DEF AnyRegister, Home
    <3>2. /\ assignment[t] \in RealRegisters \cup FrameSlots
          /\ assignment[t] \notin InstructionRegisters \cup Frame
          /\ assignment[t] \in RealRegisters => assignment[t] \in AllocatableRegisters
          /\ \A u \in Temps : u # t /\ Live(u, pc) => assignment[u] # assignment[t]
          /\ \A r \in RealRegisters : HasInterval(r) => assignment[t] # r
      BY <1>1, <1>11, <3>1, LivePlaces
    <3>3. ASSUME t \notin HardwareWrites(i), env[t] # None
          PROVE  /\ store[assignment[t]] = env[t]
                 /\ assignment[t] \in DOMAIN store \ InstructionRegisters
                 /\ \A w \in HardwareWrites(i) : Home(w, assignment) # assignment[t]
                 /\ \A s \in DOMAIN save : save[s] # assignment[t]
                 /\ assignment[t] \in Clobbered(i) => assignment[t] \in DOMAIN save
      <4>1. store[assignment[t]] = env[t]
        BY <1>3, <3>1, <3>3 DEF TempsKept, Live
      <4>2. ASSUME NEW w \in HardwareWrites(i) PROVE Home(w, assignment) # assignment[t]
        <5>1. CASE w \in Temps
          BY <1>12, <1>13, <3>2, <3>3, <5>1 DEF Home
        <5>2. CASE w \notin Temps
          <6>1. w \in RealRegisters /\ HasInterval(w)
            BY <1>12, <1>13, <5>2 DEF AnyRegister
          <6> QED
            BY <3>2, <5>2, <6>1 DEF Home
        <5> QED
          BY <5>1, <5>2
      <4>3. pc \in DOMAIN saves
        BY <1>1 DEF AllocInv, IInv, TypeOK, FrameInv, SavesInFrame
      <4>4. \A s \in DOMAIN save : save[s] # assignment[t]
        BY <3>1, <4>3 DEF AllocInv, IInv, SavesAreApart
      <4>5. ASSUME assignment[t] \in Clobbered(i) PROVE assignment[t] \in DOMAIN save
        <5>1. i.name = "call" /\ assignment[t] \in RealRegisters /\ assignment[t] \notin i.writes
          BY <4>5 DEF Clobbered
        <5>2. i.writes = {EAX}
          BY <1>4, <5>1 DEF Replaceable
        <5>3. assignment[t] \in CallerSaved
          BY <3>2, <5>1, <5>2 DEF CallerSaved
        <5>4. DOMAIN save = CallerSaved
          BY <4>3, <5>1 DEF AllocInv, FrameInv, SavesInFrame
        <5> QED
          BY <5>3, <5>4
      <4> QED
        BY <1>3, <3>2, <4>1, <4>2, <4>4, <4>5
    <3>4. Outcome(store, i, pc, assignment, scratch, save)[Home(t, assignment)] = After(pc, n)[t]
      BY <1>4, <1>5, <1>15, <3>1, <3>3, FollowsEnv
    <3> QED
      BY <1>5, <1>7, <3>1, <3>4
  <2> QED
    BY <1>5, <2>1, <2>2
<1>16. RealsKept'
  BY <1>2, <1>14 DEF RealsKept
<1>17. TempsKept'
  BY <1>2, <1>15 DEF TempsKept
<1> QED
  BY <1>2, <1>8, <1>9, <1>10, <1>16, <1>17 DEF RunInv

(* It holds when makeFunctionPrologue is done.                             *)
LEMMA BeginRunInv ==
  ASSUME AllocInv, RunInv, BeginRun PROVE RunInv'
<1>1. /\ phase = "done" /\ store = <<>> /\ NotStarted
      /\ DOMAIN store' = RealRegisters \cup FrameSlots
      /\ UNCHANGED <<vars, pc, env, seen>>
  BY DEF ReserveFrame, BeginRun, RunInv, FrameSlots
<1>2. FrameSlots' = FrameSlots /\ phase' = phase /\ body' = body
  BY <1>1 DEF vars, FrameSlots, FrameWords
<1>3. store' # <<>>
  BY <1>1 DEF RealRegisters
<1>4. pc' \in 1..(Len(body') + 1)
  BY <1>1, <1>2 DEF NotStarted, AllocInv, IInv, TypeOK
<1>5. RealsKept' /\ TempsKept'
  BY <1>1 DEF NotStarted, RealsKept, TempsKept, AnyRegister
<1> QED
  BY <1>1, <1>2, <1>3, <1>4, <1>5 DEF RunInv

(* Every step keeps it.                                                    *)
LEMMA RunInvStep ==
  ASSUME AllocInv, RunInv, [RunNext]_<<vars, runVars>> PROVE RunInv'
<1>1. CASE AllocateStep
  <2>1. phase # "done" /\ store' = store /\ UNCHANGED <<pc, env, seen>>
    BY <1>1 DEF AllocateStep, runVars, Allocate, CheckInitialized, BeginConstruct,
       ConstructIntervals, BeginExtend, ExtendToLabels, BeginAssign, AssignInterval,
       BeginRewrite, Rewrite, Finish, At, Past
  <2> QED
    BY <2>1 DEF RunInv, NotStarted
<1>2. CASE UNCHANGED <<vars, runVars>>
  BY <1>2 DEF vars, runVars, RunInv, NotStarted, RealsKept, TempsKept, HasInterval,
     FrameSlots, FrameWords
<1> QED
  BY <1>1, <1>2, BeginRunInv, RunStepInv DEF RunNext

(* The run keeps every live temporary and every register the body names.   *)
THEOREM RunHolds == RunSpec => [](AllocInv /\ RunInv)
<1>1. RunInit => RunInv
  BY DEF RunInit, Init, RunInv, NotStarted
<1>2. AllocInv /\ RunInv /\ [RunNext]_<<vars, runVars>> => RunInv'
  BY RunInvStep
<1> QED
  BY <1>1, <1>2, AllocHolds, PTL DEF RunSpec

-----------------------------------------------------------------------------
(* A step of the code is a step of the machine with a register for each    *)
(* temporary: it reads the same values and goes the same way.              *)
LEMMA StepImplements ==
  ASSUME AllocInv, RunInv, [RunNext]_<<vars, runVars>>
  PROVE  [Machine!Step]_<<body, pc, env, seen>>
<1>1. CASE AllocateStep
  BY <1>1 DEF AllocateStep, runVars, Allocate, CheckInitialized, BeginConstruct,
     ConstructIntervals, BeginExtend, ExtendToLabels, BeginAssign, AssignInterval,
     BeginRewrite, Rewrite, Finish
<1>2. CASE BeginRun \/ UNCHANGED <<vars, runVars>>
  BY <1>2 DEF ReserveFrame, BeginRun, vars, runVars
<1>3. CASE RunStep
  <2>1. /\ phase = "done" /\ store # <<>> /\ body' = body
        /\ pc \in DOMAIN body /\ Defined(pc)
        /\ RunReplaced(store, assignment, saves[pc], store')
    BY <1>3 DEF RunStep, RunReplaced, vars
  <2>2. Replaceable(body[pc], assignment, saves[pc], store)
    BY <2>1, EveryReplaceable DEF RunInv
  <2>3. \A r \in HardwareReads(body[pc]) : store[Home(r, assignment)] = env[r]
    BY <2>1, ReadsKept DEF Defined
  <2>4. seen' = [r \in HardwareReads(body[pc]) |-> env[r]]
    BY <2>1, <2>2, <2>3, SeesTheSame
  <2>5. PICK n \in Successors(pc) : pc' = n /\ env' = After(pc, n)
    BY <2>1 DEF RunReplaced
  <2> QED
    BY <2>1, <2>4, <2>5, MachineStep
<1> QED
  BY <1>1, <1>2, <1>3 DEF RunNext

(* Whatever path control takes through a body, the code the linear scan    *)
(* writes reads in each instruction what it would have read with a         *)
(* register for every temporary: allocation changes nothing a body can     *)
(* observe.                                                                *)
THEOREM LinearScanImplements == RunSpec => ImplementsTempMachine
<1>1. RunInit => Machine!Init
  BY MachineInit DEF RunInit, Init, NotStarted
<1>2. AllocInv /\ RunInv /\ [RunNext]_<<vars, runVars>>
        => [Machine!Step]_<<body, pc, env, seen>>
  BY StepImplements
<1> QED
  BY <1>1, <1>2, RunHolds, PTL DEF RunSpec, ImplementsTempMachine, Machine!Spec

-----------------------------------------------------------------------------
(* Whichever allocator generateCode is given. The other one does not run:  *)
(* the linear scan stays in its initial state, the brainless allocator     *)
(* has handed out no offset.                                               *)
GeneratorInv ==
  /\ AllocInv
  /\ allocatorChoice = "linear-scan" => RunInv /\ \A t \in Temps : regOffsets[t] = 0
  /\ allocatorChoice = "brainless" => SpillInv
  /\ allocatorChoice \in {"linear-scan", "brainless"}

(* Every step of the generator keeps the invariant.                        *)
LEMMA GeneratorStepInv ==
  ASSUME GeneratorInv, [GeneratorNext]_generatorVars PROVE GeneratorInv'
<1>1. CASE LinearScanStep
  <2>1. /\ allocatorChoice = "linear-scan" /\ allocatorChoice' = allocatorChoice
        /\ RunNext /\ regOffsets' = regOffsets
    BY <1>1 DEF LinearScanStep, spillVars
  <2>2. AllocInv' /\ RunInv'
    BY <2>1, AllocSteps, RunInvStep DEF GeneratorInv
  <2> QED
    BY <2>1, <2>2 DEF GeneratorInv
<1>2. CASE BrainlessStep
  <2>1. /\ allocatorChoice = "brainless" /\ allocatorChoice' = allocatorChoice
        /\ SpillNext /\ UNCHANGED vars
    BY <1>2 DEF BrainlessStep
  <2>2. AllocInv'
    BY <2>1, StutterInv, LoopStep, FrameStep DEF GeneratorInv, AllocInv
  <2>3. SpillInv'
    BY <2>1, SpillStepInv DEF GeneratorInv
  <2> QED
    BY <2>1, <2>2, <2>3 DEF GeneratorInv
<1>3. CASE UNCHANGED generatorVars
  <2>1. /\ UNCHANGED <<vars, runVars>> /\ UNCHANGED <<spillVars, runVars>>
        /\ allocatorChoice' = allocatorChoice /\ regOffsets' = regOffsets
    BY <1>3 DEF generatorVars, spillVars
  <2>2. AllocInv'
    BY <2>1, AllocSteps DEF GeneratorInv
  <2>3. allocatorChoice = "linear-scan" => RunInv'
    BY <2>1, RunInvStep DEF GeneratorInv
  <2>4. allocatorChoice = "brainless" => SpillInv'
    BY <2>1, SpillStepInv DEF GeneratorInv
  <2> QED
    BY <2>1, <2>2, <2>3, <2>4 DEF GeneratorInv
<1> QED
  BY <1>1, <1>2, <1>3 DEF GeneratorNext

(* The invariants of both allocators hold in every state of generateCode.  *)
THEOREM GeneratorHolds == GeneratorSpec => []GeneratorInv
<1>1. GeneratorInit => GeneratorInv
  <2> SUFFICES ASSUME GeneratorInit PROVE GeneratorInv
    OBVIOUS
  <2>1. Init /\ SpillInit /\ RunInit
    BY DEF GeneratorInit, RunInit
  <2>2. AllocInv
    BY <2>1, InitInv, InitLoops, InitFrame DEF AllocInv
  <2>3. RunInv
    BY <2>1 DEF RunInit, Init, RunInv
  <2>4. SpillInv
    BY <2>1, SpillInitInv
  <2>5. \A t \in Temps : regOffsets[t] = 0
    BY <2>1 DEF SpillInit
  <2> QED
    BY <2>2, <2>3, <2>4, <2>5 DEF GeneratorInit, GeneratorInv
<1>2. GeneratorInv /\ [GeneratorNext]_generatorVars => GeneratorInv'
  BY GeneratorStepInv
<1> QED
  BY <1>1, <1>2, PTL DEF GeneratorSpec

(* The brainless allocator never hands a slot to two registers, nor one    *)
(* outside the frame whose size it returns (findOffsets).                  *)
THEOREM GeneratorOwnsSlots == GeneratorSpec => []OwnSlotInFrame
<1>1. GeneratorInv => OwnSlotInFrame
  BY OffsetsInFrame DEF GeneratorInv, OwnSlotInFrame
<1> QED
  BY <1>1, GeneratorHolds, PTL

(* Whichever allocator the command line chose, and whatever path control   *)
(* takes, the code generateCode emits for a body reads in each instruction *)
(* what it would have read with a register for every temporary.            *)
THEOREM GeneratorImplements == GeneratorSpec => ImplementsTempMachine
<1>1. GeneratorInit => Machine!Init
  BY SpillInitImplements DEF GeneratorInit
<1>2. ASSUME GeneratorInv, [GeneratorNext]_generatorVars
      PROVE  [Machine!Step]_<<body, pc, env, seen>>
  <2>1. CASE LinearScanStep
    BY <1>2, <2>1, StepImplements DEF LinearScanStep, GeneratorInv
  <2>2. CASE BrainlessStep
    BY <1>2, <2>2, SpillStepImplements DEF BrainlessStep, GeneratorInv
  <2>3. CASE UNCHANGED generatorVars
    BY <2>3 DEF generatorVars, spillVars, runVars
  <2> QED
    BY <1>2, <2>1, <2>2, <2>3 DEF GeneratorNext
<1> QED
  BY <1>1, <1>2, GeneratorHolds, PTL
     DEF GeneratorSpec, ImplementsTempMachine, Machine!Spec
=============================================================================
