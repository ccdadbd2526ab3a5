----------------------------- MODULE StartupProofs -----------------------------
(****************************************************************************)
(* What the generated code has done before the program's own, for every      *)
(* accepted program, whatever its fields are declared with and wherever its   *)
(* constructors store.                                                       *)
(*                                                                          *)
(* Once Begin has run the dispatch vectors do not change, so VectorInv says   *)
(* all about them.  StartupInv adds what the code relies on without saying    *)
(* so: the blocks of vectors, objects and arrays are different blocks; a      *)
(* class has a vector once its unit's code has run, and an object the vector  *)
(* its class had then; the objects being created wait for one another; the    *)
(* calls of constructors still to come are of the classes no constructor of   *)
(* which has run; a field that is initialised keeps what it was given until   *)
(* a constructor stores in it.                                               *)
(****************************************************************************)
EXTENDS Startup, DispatchProofs, SequenceTheorems

\* What is in a sequence does not matter, only that it is one.
IsSeq(s) == s \in Seq({s[i] : i \in DOMAIN s})

Creation == [ref : Nat, class : Type, during : Nat, fields : Nat,
             calls : SUBSET (Type \X Method), constructed : Seq(Type),
             stored : Seq(Type \cup {None})]

Opened == {open[j] : j \in DOMAIN open}

\* The program runs only when every class has its vector, and creates objects
\* of concrete classes.
Begun ==
    /\ unit \in 0..(Len(Units) + 1) /\ at \in Nat
    /\ unit = 0 => /\ open = <<>> /\ made = <<>> /\ arrays = <<>>
                   /\ heap = <<>> /\ result = None
    /\ unit # 0 =>
         /\ phase = "build" /\ Classes \subseteq DOMAIN class_dvs
         /\ label = [c \in Classes |-> label[c]]
         /\ statics = [f \in StaticFields |-> statics[f]]
         /\ \A c \in Classes : \A f \in ToSet(FieldsOf(c)) :
              CreatesObject(f) => Given(f) \in ConcreteClasses

\* Every object has a block with a word for its vector and one for each field.
Placed(o) ==
    /\ o.class \in ConcreteClasses /\ o.ref \in DOMAIN heap
    /\ DOMAIN heap[o.ref] = 0..Len(FieldsOf(o.class))
    /\ Len(o.stored) = Len(FieldsOf(o.class)) /\ o.fields <= Len(FieldsOf(o.class))

Memory ==
    /\ IsSeq(heap) /\ IsSeq(arrays) /\ open \in Seq(Creation) /\ made \in Seq(Creation)
    /\ arrays # <<>> => Entered
    /\ \A o \in Objects : Placed(o)
    /\ \A n \in DOMAIN arrays : arrays[n].ref \in DOMAIN heap

\* Vectors, objects and arrays are different blocks.
Apart ==
    /\ \A i, j \in DOMAIN open : i # j => open[i].ref # open[j].ref
    /\ \A o \in Finished, j \in DOMAIN open : o.ref # open[j].ref
    /\ \A n \in DOMAIN arrays, o \in Objects : arrays[n].ref # o.ref
    /\ \A n, m \in DOMAIN arrays : n # m => arrays[n].ref # arrays[m].ref
    /\ unit # 0 => \A c \in Classes :
         /\ \A o \in Objects : label[c] # Reference(o.ref)
         /\ \A n \in DOMAIN arrays : label[c] # Reference(arrays[n].ref)
         /\ \A d \in Classes : c # d /\ label[c] # Zero => label[c] # label[d]

\* A class has a vector once the code of its unit has begun.
Passed(c) == UnitOf(c) < unit \/ (UnitOf(c) = unit /\ at > 0)

Labelled ==
    unit # 0 => \A c \in Classes :
        /\ label[c] # Zero <=> Passed(c)
        /\ label[c] # Zero =>
             /\ label[c] = Reference(label[c][2]) /\ label[c][2] \in DOMAIN heap
             /\ DOMAIN heap[label[c][2]] = 0..Cardinality(DOMAIN Filled(c))

\* The vectors are full when the entry point is called.
VectorsFull ==
    Entered => \A c \in Classes : \A w \in DOMAIN Filled(c) :
        Filled(c)[w] # {} => heap[label[c][2]][w] = Address(Filled(c)[w])

\* An object created since its class had a vector points to it.
Points(o) == o.during >= UnitOf(o.class) => /\ heap[o.ref][0] = label[o.class]
                                            /\ label[o.class] # Zero
Headers == \A o \in Objects : Points(o)

\* The layout of an array, where it fits.
ArrayKept(a) ==
    /\ a = [ref |-> a.ref, size |-> a.size, elements |-> a.elements]
    /\ a.size \in Nat /\ DOMAIN a.elements = 0..(a.size - 1)
    /\ Fits(a.size) =>
         /\ DOMAIN heap[a.ref] = 0..(a.size + 1)
         /\ heap[a.ref][0] = Number(a.size) /\ heap[a.ref][1] = label[ArraysClass]
         /\ \A i \in 0..(a.size - 1) : heap[a.ref][i + 2] = a.elements[i]
ArraysKept == \A a \in {arrays[n] : n \in DOMAIN arrays} : ArrayKept(a)

\* The constructors that have run for an object, a superclass's first.
InOrder(o) ==
    LET run == o.constructed
    IN  /\ \A n \in DOMAIN run : run[n] \in ClassChain(o.class) \cup {Object}
        /\ \A n \in DOMAIN run : \A m \in 1..(n - 1) :
             Object \in {run[m], run[n]} \/ run[m] \in SuperClasses(run[n])

\* Those still to be called: one for each class of the chain for which none has
\* run, and none for that class or above one for which one has.
Remains(c, calls, run) ==
    /\ \A x \in calls : x[1] \in ClassChain(c) /\ x[2].in \in {x[1], Object} /\ x[2].in \in Type
    /\ \A d \in ClassChain(c) \ {Object} : d \in run \/ \E x \in calls : x[2].in = d
    /\ \A x, y \in calls : x[2].in = y[2].in /\ x[2].in # Object => x = y
    /\ \A d \in run \ {Object}, x \in calls :
         x[2].in # Object => x[2].in # d /\ x[2].in \notin SuperClasses(d)
Ran(o) == {o.constructed[n] : n \in DOMAIN o.constructed}
Remaining(o) == Remains(o.class, o.calls, Ran(o))

Complete(o) ==
    /\ o.fields = Len(FieldsOf(o.class))
    /\ \A d \in ClassChain(o.class) \ {Object} : \E n \in DOMAIN o.constructed : o.constructed[n] = d

Constructed ==
    /\ \A o \in Objects : InOrder(o)
    /\ \A o \in Opened : Remaining(o)
    /\ \A o \in Finished : Complete(o)

\* An initialised field has what it was declared with until a constructor stores
\* in it, which none does before all are initialised.
FieldsKept(o) ==
    /\ o.fields < Len(FieldsOf(o.class)) => \A i \in DOMAIN o.stored : o.stored[i] = None
    /\ \A i \in 1..o.fields :
         IF o.stored[i] = None THEN AsDeclared(FieldsOf(o.class)[i], heap[o.ref][i])
                               ELSE heap[o.ref][i] = StoredBy(o.stored[i])
FieldsGiven == \A o \in Objects : FieldsKept(o)

\* An object being created is for the next field of the one below it, and the
\* lowest for the next static field of the unit.
Waits(o, c) == /\ o.fields < Len(FieldsOf(o.class))
               /\ Given(FieldsOf(o.class)[o.fields + 1]) = c
UnitWaits(c) == \E d \in Classes :
    /\ unit \in DOMAIN Units /\ d = Units[unit] /\ at \in DOMAIN Fields[d]
    /\ IsStaticField(OwnFields(d)[at]) /\ Given(OwnFields(d)[at]) = c
Waiting ==
    /\ \A j \in 1..(Len(open) - 1) : Waits(open[j], open[j + 1].class)
    /\ open # <<>> /\ ~Entered => UnitWaits(open[1].class)

\* A value is there only for a field it is to be stored in.
ResultFits ==
    result # None => /\ ~Entered => \E f : Initialises(f)
                     /\ \A f : Initialises(f) => AsDeclared(f, result)

\* The static fields behind the code that runs have their values.
Behind(f) == \/ UnitOf(f.in) < unit
             \/ UnitOf(f.in) = unit /\ \E i \in DOMAIN Fields[f.in] : i < at /\ OwnFields(f.in)[i] = f
StaticsGiven == \A f \in StaticFields : Behind(f) => AsDeclared(f, statics[f])

Laid == Memory /\ Apart /\ Labelled /\ VectorsFull /\ Headers
StartupInv ==
    /\ Begun
    /\ unit # 0 => /\ Laid /\ ArraysKept /\ Constructed /\ FieldsGiven
                   /\ Waiting /\ ResultFits /\ StaticsGiven

----------------------------------------------------------------------------
(* Sequences, and the program once it runs.                                 *)

\* A sequence one longer.
LEMMA Appended ==
    ASSUME NEW s, IsSeq(s), NEW e
    PROVE  /\ Len(s) \in Nat /\ DOMAIN s = 1..Len(s)
           /\ IsSeq(Append(s, e)) /\ Len(Append(s, e)) = Len(s) + 1
           /\ DOMAIN Append(s, e) = 1..(Len(s) + 1)
           /\ Append(s, e)[Len(s) + 1] = e
           /\ \A i \in DOMAIN s : i # Len(s) + 1 /\ Append(s, e)[i] = s[i]
  <1> DEFINE S == {s[i] : i \in DOMAIN s} \cup {e}
  <1>1. s \in Seq(S) /\ e \in S
    BY DEF IsSeq
  <1> HIDE DEF S
  <1>2. /\ Append(s, e) \in Seq(S) /\ Len(Append(s, e)) = Len(s) + 1
        /\ DOMAIN Append(s, e) = 1..(Len(s) + 1) /\ DOMAIN s = 1..Len(s) /\ Len(s) \in Nat
        /\ Append(s, e)[Len(s) + 1] = e
        /\ \A i \in DOMAIN s : Append(s, e)[i] = s[i]
    BY <1>1
  <1>3. Append(s, e) \in Seq({Append(s, e)[i] : i \in DOMAIN Append(s, e)})
    BY <1>2
  <1> QED
    BY <1>2, <1>3 DEF IsSeq

\* Changing an item of a sequence.
LEMMA Changed ==
    ASSUME NEW s, IsSeq(s), NEW n, NEW e
    PROVE  /\ IsSeq([s EXCEPT ![n] = e]) /\ DOMAIN [s EXCEPT ![n] = e] = DOMAIN s
           /\ Len([s EXCEPT ![n] = e]) = Len(s)
           /\ n \in DOMAIN s => [s EXCEPT ![n] = e][n] = e
           /\ \A i \in DOMAIN s : i # n => [s EXCEPT ![n] = e][i] = s[i]
  <1> DEFINE t == [s EXCEPT ![n] = e]
  <1>1. DOMAIN s = 1..Len(s) /\ Len(s) \in Nat
    BY DEF IsSeq
  <1>2. /\ DOMAIN t = 1..Len(s) /\ n \in DOMAIN s => t[n] = e
        /\ \A i \in DOMAIN s : i # n => t[i] = s[i]
    BY <1>1
  <1>3. t \in Seq({t[i] : i \in DOMAIN t}) /\ Len(t) = Len(s)
    <2>1. t = [i \in 1..Len(s) |-> t[i]]
      BY <1>1
    <2> HIDE DEF t
    <2> DEFINE R == {t[i] : i \in DOMAIN t}
    <2>2. t \in [1..Len(s) -> R]
      BY <1>2, <2>1
    <2> HIDE DEF R
    <2>3. t \in Seq(R) /\ Len(t) = Len(s)
      BY <1>1, <1>2, <2>2
    <2> QED
      BY <2>3 DEF R
  <1> QED
    BY <1>1, <1>2, <1>3 DEF IsSeq

\* Once the program runs it is linked and legal, and each of its classes has the
\* vector it was given when it was built.
LEMMA Running0 ==
    ASSUME VectorInv, Begun, unit # 0
    PROVE  /\ Legal /\ Linking
           /\ Classes = {t \in Type : ~IsInterface(t)}
           /\ \A c \in Classes : /\ c \in DOMAIN class_dvs
                                 /\ FieldsOf(c) \in Seq(FieldOf)
                                 /\ Filled(c) = DispatchSlots(c)
  <1>1. phase = "build" /\ Classes \subseteq DOMAIN class_dvs
    BY DEF Begun
  <1>2. Legal
    BY <1>1, GraphIsLegal DEF VectorInv, DInv
  <1>3. Classes = {t \in Type : ~IsInterface(t)}
    BY <1>2 DEF Legal, Linking, Classes
  <1> QED
    BY <1>1, <1>2, <1>3 DEF VectorInv, Built, FieldsOf, Filled, Legal

\* A class's unit is one of the units, and the only one.
LEMMA UnitBounds ==
    ASSUME NEW c \in Type
    PROVE  /\ UnitOf(c) \in 1..Len(Units) /\ Units[UnitOf(c)] = c /\ Len(Units) \in Nat
           /\ \A k \in 1..Len(Units) : Units[k] = c => k = UnitOf(c)
  <1>1. /\ Len(Units) \in Nat /\ DOMAIN Units = 1..Len(Units)
        /\ \E k \in DOMAIN Units : Units[k] = c
    BY EveryUnit, UnitsAssumption
  <1>2. UnitOf(c) \in DOMAIN Units /\ Units[UnitOf(c)] = c
    BY <1>1 DEF UnitOf
  <1>3. \A i, j \in DOMAIN Units : Units[i] = Units[j] => i = j
    BY UnitsDistinct DEF IsInjective
  <1> QED
    BY <1>1, <1>2, <1>3

\* Where a class's own fields are among those of its objects.
LEMMA OwnAmongAll ==
    ASSUME VectorInv, Begun, unit # 0, NEW c \in Classes, NEW i \in DOMAIN Fields[c]
    PROVE  OwnFields(c)[i] \in ToSet(FieldsOf(c))
  <1> DEFINE own == OwnFields(c)
             up == ParentFields(c)
  <1>0. c \in Type /\ c \in DOMAIN class_dvs /\ Linking
    BY Running0
  <1>1. own \in Seq(FieldOf) /\ DOMAIN own = DOMAIN Fields[c]
    <2>1. Fields[c] \in Seq(STRING)
      BY <1>0, FieldsAssumption
    <2>2. DOMAIN Fields[c] = 1..Len(Fields[c]) /\ Len(Fields[c]) \in Nat
      BY <2>1
    <2>3. \A j \in DOMAIN Fields[c] : [in |-> c, name |-> Fields[c][j]] \in FieldOf
      BY <1>0, <2>1, <2>2 DEF FieldOf
    <2>4. own \in [1..Len(Fields[c]) -> FieldOf]
      BY <2>2, <2>3 DEF OwnFields
    <2> QED
      BY <2>2, <2>4
  <1>2. up \in Seq(FieldOf)
    <2>1. CASE program[c].extended = None
      BY <2>1 DEF ParentFields
    <2>2. CASE program[c].extended # None
      <3>1. SuperClass(c) = {program[c].extended}
        BY <2>2 DEF SuperClass
      <3> QED
        BY <1>0, <2>2, <3>1 DEF ParentFields, VectorInv, Built
    <2> QED
      BY <2>1, <2>2
  <1>3. FieldsOf(c) = up \o own
    BY <1>0 DEF VectorInv, Built, FieldsOf, FieldVector, OwnFields
  <1> HIDE DEF own, up
  <1>4. /\ Len(up) + i \in DOMAIN (up \o own) /\ (up \o own)[Len(up) + i] = own[i]
    BY <1>1, <1>2
  <1>5. own[i] \in ToSet(FieldsOf(c))
    BY <1>3, <1>4 DEF ToSet
  <1> QED
    BY <1>5 DEF own

\* What a state of the program says stays while the program does.
LEMMA SameProgram ==
    ASSUME UNCHANGED vars
    PROVE  /\ Classes' = Classes /\ ConcreteClasses' = ConcreteClasses
           /\ StaticFields' = StaticFields
           /\ \A c : /\ SuperClasses(c)' = SuperClasses(c) /\ ClassChain(c)' = ClassChain(c)
                     /\ FieldsOf(c)' = FieldsOf(c) /\ Filled(c)' = Filled(c)
                     /\ IsInterface(c)' = IsInterface(c)
  <1>1. program' = program /\ class_dvs' = class_dvs
    BY DEF vars, hierarchyVars, dispatchVars
  <1>2. /\ Classes' = Classes /\ ConcreteClasses' = ConcreteClasses
        /\ \A c : IsInterface(c)' = IsInterface(c)
    BY <1>1 DEF Classes, ConcreteClasses, IsInterface
  <1>3. \A c : /\ SuperClasses(c)' = SuperClasses(c) /\ ClassChain(c)' = ClassChain(c)
    BY <1>1 DEF ClassChain, SuperClasses, Reached, SuperClass
  <1> QED
    BY <1>1, <1>2, <1>3 DEF StaticFields, FieldsOf, Filled

\* Every step of the started program leaves what the compiler has built.
LEMMA StartupLeaves ==
    ASSUME StartupStep
    PROVE  UNCHANGED vars
  BY DEF StartupStep, ObjectStep, ArrayStep, Begin, NextUnit, AllocateVector, SkipField,
         Evaluate, AssignStatic, StoreField, Create, NewObject, Construct, Finish,
         FillVectors, CreateInMain, Raise, CreateArray, StoreElement

\* Once the program runs the compiler does nothing more.
LEMMA CompilerDone ==
    ASSUME VectorInv, Begun, unit # 0, DispatchNext
    PROVE  FALSE
  <1>1. phase = "build" /\ verdict = "accepted" /\ Classes \subseteq DOMAIN class_dvs
    BY DEF Begun, VectorInv, DInv, ListsFixed
  <1> QED
    BY <1>1 DEF DispatchNext, Visit, LinkUnit, BeginChecking, Reject, VisitClass,
       VisitInterface, Visiting, AcceptProgram, BeginGraph, AddMethodsToGraph, BeginColour,
       AssignColour, AssertColoured, BuildDV

\* The compiler's invariant holds throughout.
THEOREM StartupKeepsVectors == StartupSpec => []VectorInv
  <1>1. StartupInit => VectorInv
    BY VectorStart DEF StartupInit
  <1>2. ASSUME VectorInv, [StartupNext]_allVars PROVE VectorInv'
    <2>1. [DispatchNext]_vars
      BY <1>2, StartupLeaves DEF StartupNext, allVars
    <2> QED
      BY <1>2, <2>1, VectorStep
  <1> QED
    BY <1>1, <1>2, PTL DEF StartupSpec

----------------------------------------------------------------------------
(* What the steps do to the stack and to memory.                            *)

\* Only the innermost object being created changes.
TopBecomes(e) ==
    /\ open' \in Seq(Creation) /\ Len(open') = Len(open) /\ open'[Len(open)] = e
    /\ \A j \in DOMAIN open : j # Len(open) => open'[j] = open[j]

\* e goes on for o.
GoesOn(e, o) == /\ e \in Creation /\ e.ref = o.ref /\ e.class = o.class /\ e.during = o.during
                /\ Len(e.stored) = Len(o.stored)

\* Only the block b changes, and not its first word.
OnlyBlock(b) == /\ IsSeq(heap') /\ DOMAIN heap' = DOMAIN heap
                /\ \A a \in DOMAIN heap : a # b => heap'[a] = heap[a]
                /\ DOMAIN heap'[b] = DOMAIN heap[b]

\* Memory has one block more.
Grows(block) == /\ IsSeq(heap') /\ DOMAIN heap' = DOMAIN heap \cup {Len(heap) + 1}
                /\ Len(heap) + 1 \notin DOMAIN heap /\ heap'[Len(heap) + 1] = block
                /\ \A a \in DOMAIN heap : heap'[a] = heap[a]

\* The innermost object is one of the objects.
LEMMA Top ==
    ASSUME Memory, open # <<>>
    PROVE  /\ Len(open) \in Nat /\ Len(open) >= 1 /\ Len(open) \in DOMAIN open
           /\ This \in Creation /\ This \in Objects /\ Placed(This)
           /\ \A j \in DOMAIN open : j \in Nat /\ 1 <= j /\ j <= Len(open)
  <1>1. open \in Seq(Creation)
    BY DEF Memory
  <1>2. /\ Len(open) \in Nat /\ Len(open) >= 1 /\ Len(open) \in DOMAIN open
        /\ DOMAIN open = 1..Len(open) /\ This \in Creation
    BY <1>1 DEF This
  <1>3. This \in Objects
    BY <1>2 DEF This, Objects
  <1> QED
    BY <1>2, <1>3 DEF Memory

\* Storing the initial value of a field.
LEMMA StoreEffect ==
    ASSUME Memory, NEW f, StoreField(f)
    PROVE  \E e : /\ TopBecomes(e) /\ GoesOn(e, This) /\ e.fields = This.fields + 1
                  /\ e.calls = This.calls /\ e.constructed = This.constructed
                  /\ e.stored = This.stored
                  /\ OnlyBlock(This.ref) /\ heap'[This.ref][This.fields + 1] = result
                  /\ This.fields + 1 \in 1..Len(FieldsOf(This.class))
                  /\ f = FieldsOf(This.class)[This.fields + 1]
                  /\ \A w \in DOMAIN heap[This.ref] :
                       w # This.fields + 1 => heap'[This.ref][w] = heap[This.ref][w]
  <1> DEFINE e == [This EXCEPT !.fields = @ + 1]
             block == [heap[This.ref] EXCEPT ![This.fields + 1] = result]
  <1>1. open # <<>> /\ open' = [open EXCEPT ![Len(open)] = e]
        /\ heap' = [heap EXCEPT ![This.ref] = block]
    BY DEF StoreField, This
  <1>2. /\ This \in Creation /\ Placed(This) /\ Len(open) \in DOMAIN open
        /\ Len(open) \in Nat /\ open \in Seq(Creation)
    BY <1>1, Top DEF Memory
  <1>3. This.fields + 1 \in 1..Len(FieldsOf(This.class)) /\ f = FieldsOf(This.class)[This.fields + 1]
    <2>1. This.fields < Len(FieldsOf(This.class)) /\ f = FieldsOf(This.class)[This.fields + 1]
      BY <1>1 DEF StoreField, Initialises, Running
    <2>2. This.fields \in Nat /\ Len(FieldsOf(This.class)) = Len(This.stored)
          /\ This.stored \in Seq(Type \cup {None})
      BY <1>2 DEF Creation, Placed
    <2>3. Len(FieldsOf(This.class)) \in Nat
      BY <2>2
    <2> QED
      BY <2>1, <2>2, <2>3
  <1>4. /\ e \in Creation /\ e.ref = This.ref /\ e.class = This.class
        /\ e.during = This.during /\ e.fields = This.fields + 1 /\ e.calls = This.calls
        /\ e.constructed = This.constructed /\ e.stored = This.stored
    <2>1. This.fields \in Nat /\ This.fields + 1 \in Nat
      BY <1>2 DEF Creation
    <2>2. e \in Creation
      BY <1>2, <2>1 DEF Creation
    <2> QED
      BY <1>2, <2>1 DEF Creation
  <1> HIDE DEF e
  <1>5. TopBecomes(e) /\ GoesOn(e, This)
    BY <1>1, <1>2, <1>4 DEF TopBecomes, GoesOn
  <1>6. /\ DOMAIN block = DOMAIN heap[This.ref] /\ block[This.fields + 1] = result
        /\ \A w \in DOMAIN heap[This.ref] : w # This.fields + 1 => block[w] = heap[This.ref][w]
    BY <1>2, <1>3 DEF Placed
  <1> HIDE DEF block
  <1>7. /\ OnlyBlock(This.ref) /\ heap'[This.ref] = block
    <2>1. IsSeq(heap) /\ This.ref \in DOMAIN heap
      BY <1>2 DEF Memory, Placed
    <2> QED
      BY <1>1, <1>6, <2>1, Changed DEF OnlyBlock
  <1> QED
    BY <1>3, <1>4, <1>5, <1>6, <1>7

\* A constructor runs.
LEMMA ConstructEffect ==
    ASSUME Memory, NEW x, NEW n, Construct(x, n)
    PROVE  \E e : /\ TopBecomes(e) /\ GoesOn(e, This) /\ e.fields = This.fields
                  /\ e.calls = This.calls \ {x}
                  /\ e.constructed = Append(This.constructed, x[2].in)
                  /\ OnlyBlock(This.ref) /\ This.fields = Len(FieldsOf(This.class))
                  /\ \A i \in 1..Len(This.stored) :
                       IF i = n THEN e.stored[i] = x[2].in /\ heap'[This.ref][i] = StoredBy(x[2].in)
                       ELSE e.stored[i] = This.stored[i] /\ heap'[This.ref][i] = heap[This.ref][i]
                  /\ heap'[This.ref][0] = heap[This.ref][0]
  <1> DEFINE stored == [i \in DOMAIN This.stored |-> IF i = n THEN x[2].in ELSE This.stored[i]]
             e == [This EXCEPT !.calls = @ \ {x}, !.constructed = Append(@, x[2].in),
                               !.stored = stored]
             block == [heap[This.ref] EXCEPT ![n] = StoredBy(x[2].in)]
  <1>1. /\ open # <<>> /\ open' = [open EXCEPT ![Len(open)] = e] /\ x \in This.calls
        /\ n \in DOMAIN This.stored \cup {0}
        /\ heap' = IF n = 0 THEN heap ELSE [heap EXCEPT ![This.ref] = block]
        /\ This.fields = Len(FieldsOf(This.class))
    BY DEF Construct, This, TopDown, FieldsDone
  <1>2. /\ This \in Creation /\ Placed(This) /\ Len(open) \in DOMAIN open
        /\ Len(open) \in Nat /\ open \in Seq(Creation)
    BY <1>1, Top DEF Memory
  <1>3. x[2].in \in Type /\ This.constructed \in Seq(Type)
    BY <1>1, <1>2 DEF Creation, Method
  <1>4. /\ This.stored \in Seq(Type \cup {None}) /\ DOMAIN This.stored = 1..Len(This.stored)
        /\ Len(This.stored) \in Nat /\ Len(This.stored) = Len(FieldsOf(This.class))
    BY <1>2 DEF Creation, Placed
  <1>5. /\ stored \in Seq(Type \cup {None}) /\ Len(stored) = Len(This.stored)
        /\ \A i \in 1..Len(This.stored) :
             stored[i] = IF i = n THEN x[2].in ELSE This.stored[i]
    <2>1. stored \in [1..Len(This.stored) -> Type \cup {None}]
      BY <1>3, <1>4
    <2> QED
      BY <1>4, <2>1
  <1> HIDE DEF stored
  <1>6. /\ e \in Creation /\ e.ref = This.ref /\ e.class = This.class
        /\ e.during = This.during /\ e.fields = This.fields /\ e.calls = This.calls \ {x}
        /\ e.constructed = Append(This.constructed, x[2].in) /\ e.stored = stored
    <2>1. Append(This.constructed, x[2].in) \in Seq(Type)
      BY <1>3
    <2> QED
      BY <1>2, <1>5, <2>1 DEF Creation
  <1> HIDE DEF e
  <1>7. TopBecomes(e) /\ GoesOn(e, This)
    BY <1>1, <1>2, <1>5, <1>6 DEF TopBecomes, GoesOn
  <1>8. /\ DOMAIN block = DOMAIN heap[This.ref]
        /\ \A w \in 0..Len(This.stored) :
             block[w] = IF w = n THEN StoredBy(x[2].in) ELSE heap[This.ref][w]
    BY <1>2, <1>4 DEF Placed
  <1> HIDE DEF block
  <1>9. IsSeq(heap) /\ This.ref \in DOMAIN heap
    BY <1>2 DEF Memory, Placed
  <1>10. CASE n = 0
    <2>1. OnlyBlock(This.ref)
      BY <1>1, <1>9, <1>10 DEF OnlyBlock
    <2> QED
      BY <1>1, <1>5, <1>6, <1>7, <1>10, <2>1, SMTT(30)
  <1>11. CASE n # 0
    <2>1. OnlyBlock(This.ref) /\ heap'[This.ref] = block
      BY <1>1, <1>8, <1>9, <1>11, Changed DEF OnlyBlock
    <2> QED
      BY <1>1, <1>4, <1>5, <1>6, <1>7, <1>8, <1>11, <2>1
  <1> QED
    BY <1>10, <1>11

\* An object is finished.
LEMMA FinishEffect ==
    ASSUME Memory, Finish
    PROVE  /\ open # <<>> /\ Len(open') = Len(open) - 1 /\ open' \in Seq(Creation)
           /\ \A j \in 1..(Len(open) - 1) : open'[j] = open[j]
           /\ made' \in Seq(Creation) /\ Finished' = Finished \cup {This}
           /\ Objects' = Objects
  <1>1. /\ open # <<>> /\ open' = SubSeq(open, 1, Len(open) - 1) /\ made' = Append(made, This)
    BY DEF Finish
  <1>2. /\ open \in Seq(Creation) /\ made \in Seq(Creation) /\ This \in Creation
        /\ Len(open) \in Nat /\ Len(open) >= 1
    BY <1>1, Top DEF Memory
  <1>3. /\ Len(open') = Len(open) - 1 /\ open' \in Seq(Creation)
        /\ \A j \in 1..(Len(open) - 1) : open'[j] = open[j]
    <2> DEFINE n == Len(open) - 1
    <2>1. n \in Nat /\ n - 1 + 1 = n /\ (1 <= n \/ n = 0)
      <3>1. \A l \in Nat : l >= 1 =>
              l - 1 \in Nat /\ (l - 1) - 1 + 1 = l - 1 /\ (1 <= l - 1 \/ l - 1 = 0)
        OBVIOUS
      <3> QED
        BY <1>2, <3>1
    <2>2. ASSUME NEW j \in 1..n PROVE open[j] \in Creation /\ 1 + j - 1 = j
      <3>1. j \in Nat /\ j \in 1..Len(open)
        BY <1>2
      <3>2. open[j] \in Creation
        BY <1>2, <3>1
      <3> QED
        BY <3>1, <3>2
    <2> HIDE DEF n
    <2>3. /\ SubSeq(open, 1, n) \in Seq(Creation)
          /\ Len(SubSeq(open, 1, n)) = IF 1 <= n THEN n - 1 + 1 ELSE 0
          /\ \A j \in 1..(n - 1 + 1) : SubSeq(open, 1, n)[j] = open[1 + j - 1]
      BY <2>1, <2>2, SubSeqProperties
    <2>4. Len(SubSeq(open, 1, n)) = n /\ \A j \in 1..n : SubSeq(open, 1, n)[j] = open[j]
      BY <2>1, <2>2, <2>3
    <2> QED
      BY <1>1, <2>3, <2>4 DEF n
  <1>4. /\ made' \in Seq(Creation) /\ DOMAIN made' = 1..(Len(made) + 1)
        /\ made'[Len(made) + 1] = This /\ DOMAIN made = 1..Len(made) /\ Len(made) \in Nat
        /\ \A n \in DOMAIN made : made'[n] = made[n]
    BY <1>1, <1>2
  <1>5. Finished' = Finished \cup {This}
    BY <1>4 DEF Finished
  <1>6. /\ DOMAIN open = 1..Len(open) /\ DOMAIN open' = 1..(Len(open) - 1)
        /\ This = open[Len(open)]
    BY <1>2, <1>3 DEF This
  <1>7. Objects' = Objects
    BY <1>2, <1>3, <1>5, <1>6, SMTT(30) DEF Objects
  <1> QED
    BY <1>1, <1>3, <1>4, <1>5, <1>7

\* The constructors in the method_list of a class are its own and Object's.
LEMMA ListedConstructor ==
    ASSUME Legal, NEW d \in Type, ~IsInterface(d), NEW k \in method_list[d], k.constructor
    PROVE  k \in program[d].methods \cup program[Object].methods /\ k.in \in {d, Object}
           /\ k \in Method
  <1>0. Linking /\ Object \in Type
    BY TypesAssumption DEF Legal
  <1>1. k \in program[d].methods \cup InheritedMethods(d)
    BY DEF Legal, Checked
  <1>2. \A t : \A m \in AllMethods(t) : ~m.constructor
    BY DEF AllMethods, Declared
  <1>3. k \in InheritedMethods(d) => k \in program[Object].methods
    <2>1. InheritedMethods(d) \subseteq ExtendedMethods(d) \cup ImplementedMethods(d)
      BY DEF InheritedMethods
    <2>2. k \notin ImplementedMethods(d)
      BY <1>2 DEF ImplementedMethods
    <2>3. k \in ExtendedMethods(d) => k \in program[Object].methods
      BY <1>2, Zenon DEF ExtendedMethods
    <2> QED
      BY <2>1, <2>2, <2>3
  <1>4. k \in program[d].methods \cup program[Object].methods
    BY <1>1, <1>3
  <1>5. program[d].methods \subseteq Method /\ program[Object].methods \subseteq Method
    BY <1>0 DEF Linking, Declaration
  <1> QED
    BY <1>0, <1>4, <1>5, Kinds

\* The calls that create an object are of constructors.
LEMMA CallsTyped ==
    ASSUME Legal, NEW c \in Type, ~IsInterface(c), NEW k \in Constructors(c),
           NEW x \in Calls(c, k)
    PROVE  /\ x = <<x[1], x[2]>> /\ x \in Type \X Method
           /\ x[1] \in ClassChain(c) /\ x[2].in \in {x[1], Object}
           /\ \/ x = <<c, k>> /\ k.in = c
              \/ x[1] \in SuperClasses(c) /\ x[2] \in DefaultConstructors(x[1])
  <1>0. Linking
    BY DEF Legal
  <1>1. CASE x = <<c, k>>
    <2> USE <1>1
    <2>1. k.in = c
      BY <1>0, Kinds DEF Constructors
    <2>2. k \in Method
      BY <1>0 DEF Constructors, Linking, Declaration
    <2>3. x[1] = c /\ x[2] = k /\ x = <<x[1], x[2]>> /\ x \in Type \X Method
      BY <2>2
    <2>4. c \in ClassChain(c)
      BY DEF ClassChain
    <2>5. x[1] \in ClassChain(c) /\ x[2].in \in {x[1], Object}
      BY <2>1, <2>3, <2>4
    <2> QED
      BY <2>1, <2>3, <2>5
  <1>2. CASE x # <<c, k>>
    <2>1. PICK d \in SuperClasses(c) : x \in {d} \X DefaultConstructors(d)
      <3>1. x \in UNION {{d} \X DefaultConstructors(d) : d \in SuperClasses(c)}
        BY <1>2, Zenon DEF Calls
      <3> QED
        BY <3>1, Zenon
    <2>2. d \in ClassChain(c) /\ d \in Type /\ ~IsInterface(d)
      BY <1>0, <2>1, ChainOf DEF ClassChain
    <2>3. x = <<d, x[2]>> /\ x[1] = d /\ x[2] \in DefaultConstructors(d)
      BY <2>1
    <2>4. x[2] \in method_list[d] /\ x[2].constructor
      BY <2>3 DEF DefaultConstructors
    <2>5. x[2] \in Method /\ x[2].in \in {d, Object}
      BY <2>2, <2>4, ListedConstructor
    <2> QED
      BY <2>1, <2>2, <2>3, <2>5
  <1> QED
    BY <1>1, <1>2

\* The field that is to be given a value is one of a class that has objects, and
\* an object created for it is of a concrete class.
LEMMA InitialisedField ==
    ASSUME VectorInv, Begun, Memory, unit # 0, NEW f, Initialises(f)
    PROVE  /\ \E c \in Classes : f \in ToSet(FieldsOf(c))
           /\ CreatesObject(f) => Given(f) \in ConcreteClasses
  <1>1. \E c \in Classes : f \in ToSet(FieldsOf(c))
    <2>1. CASE open # <<>> /\ This.fields < Len(FieldsOf(This.class))
                 /\ f = FieldsOf(This.class)[This.fields + 1]
      <3>1. This \in Creation /\ Placed(This)
        BY <2>1, Top
      <3>2. This.class \in Classes /\ This.fields \in Nat
        BY <3>1 DEF Placed, Creation, ConcreteClasses
      <3>3. FieldsOf(This.class) \in Seq(FieldOf)
        BY <3>2, Running0
      <3>4. This.fields + 1 \in DOMAIN FieldsOf(This.class)
        BY <2>1, <3>2, <3>3
      <3> QED
        BY <2>1, <3>2, <3>4 DEF ToSet
    <2>2. CASE \E c \in Classes : Running(c) /\ at \in DOMAIN Fields[c] /\ f = OwnFields(c)[at]
      BY <2>2, OwnAmongAll
    <2> QED
      BY <2>1, <2>2 DEF Initialises
  <1> QED
    BY <1>1 DEF Begun

\* An object is created.
LEMMA CreateEffect ==
    ASSUME VectorInv, Begun, Memory, unit # 0,
           NEW c \in ConcreteClasses, NEW k \in Constructors(c), NewObject(c, k)
    PROVE  \E e, block :
             /\ e \in Creation /\ e.ref = Len(heap) + 1 /\ e.class = c /\ e.during = unit
             /\ e.fields = 0 /\ e.calls = Calls(c, k) /\ e.constructed = <<>>
             /\ Len(e.stored) = Len(FieldsOf(c)) /\ \A i \in DOMAIN e.stored : e.stored[i] = None
             /\ Grows(block) /\ DOMAIN block = 0..Len(FieldsOf(c)) /\ block[0] = label[c]
             /\ open' \in Seq(Creation) /\ Len(open') = Len(open) + 1
             /\ open'[Len(open) + 1] = e /\ Len(open) \in Nat
             /\ \A j \in DOMAIN open : j # Len(open) + 1 /\ open'[j] = open[j]
             /\ Objects' = Objects \cup {e}
  <1> DEFINE e == [ref |-> Len(heap) + 1, class |-> c, during |-> unit, fields |-> 0,
                   calls |-> Calls(c, k), constructed |-> <<>>,
                   stored |-> [i \in 1..Len(FieldsOf(c)) |-> None]]
             block == [w \in 0..Len(FieldsOf(c)) |-> IF w = 0 THEN label[c] ELSE Garbage]
  <1>1. heap' = Append(heap, block) /\ open' = Append(open, e) /\ made' = made
    BY DEF NewObject
  <1>2. /\ Legal /\ c \in Type /\ ~IsInterface(c) /\ FieldsOf(c) \in Seq(FieldOf)
    BY Running0 DEF ConcreteClasses
  <1>3. Calls(c, k) \in SUBSET (Type \X Method)
    BY <1>2, CallsTyped
  <1>4. unit \in Nat
    BY EveryUnit DEF Begun
  <1>5. Len(FieldsOf(c)) \in Nat
    BY <1>2
  <1>6. DOMAIN block = 0..Len(FieldsOf(c)) /\ block[0] = label[c]
    BY <1>5
  <1>7. /\ e.stored \in Seq(Type \cup {None}) /\ Len(e.stored) = Len(FieldsOf(c))
        /\ \A i \in DOMAIN e.stored : e.stored[i] = None
    <2>1. e.stored \in [1..Len(FieldsOf(c)) -> Type \cup {None}]
      OBVIOUS
    <2> QED
      BY <1>5, <2>1
  <1>8. IsSeq(heap) /\ open \in Seq(Creation)
    BY DEF Memory
  <1>9. Len(heap) \in Nat
    BY <1>8, Appended
  <1>10. /\ e \in Creation /\ e.ref = Len(heap) + 1 /\ e.class = c /\ e.during = unit
         /\ e.fields = 0 /\ e.calls = Calls(c, k) /\ e.constructed = <<>>
    BY <1>2, <1>3, <1>4, <1>7, <1>9 DEF Creation
  <1> HIDE DEF e, block
  <1>11. Grows(block)
    BY <1>1, <1>8, Appended DEF Grows
  <1>12. /\ open' \in Seq(Creation) /\ Len(open') = Len(open) + 1
         /\ open'[Len(open) + 1] = e /\ Len(open) \in Nat
         /\ \A j \in DOMAIN open : j # Len(open) + 1 /\ open'[j] = open[j]
         /\ DOMAIN open' = DOMAIN open \cup {Len(open) + 1}
    BY <1>1, <1>8, <1>10
  <1>13. Objects' = Objects \cup {e}
    BY <1>1, <1>12 DEF Objects, Finished
  <1> QED
    BY <1>6, <1>7, <1>10, <1>11, <1>12, <1>13

----------------------------------------------------------------------------
(* Memory: what each kind of step keeps of it.                              *)

\* Steps that touch neither memory nor the objects.
LEMMA ControlLaid ==
    ASSUME Laid, UNCHANGED <<vars, label, heap, open, made, arrays>>, unit # 0,
           unit' # 0, Entered' <=> Entered, \A c \in Classes : Passed(c)' <=> Passed(c)
    PROVE  Laid'
  <1>1. /\ Objects' = Objects /\ Finished' = Finished /\ Classes' = Classes
        /\ ConcreteClasses' = ConcreteClasses
        /\ \A c : FieldsOf(c)' = FieldsOf(c) /\ Filled(c)' = Filled(c)
    BY SameProgram DEF Objects, Finished
  <1>2. Memory'
    <2>1. \A o \in Objects : Placed(o)'
      BY <1>1 DEF Laid, Memory, Placed
    <2> QED
      BY <1>1, <2>1 DEF Laid, Memory
  <1>3. Apart'
    BY <1>1 DEF Laid, Apart
  <1>4. Labelled'
    BY <1>1 DEF Laid, Labelled
  <1>5. VectorsFull'
    BY <1>1 DEF Laid, VectorsFull
  <1>6. Headers'
    BY <1>1 DEF Laid, Headers, Points, UnitOf
  <1> QED
    BY <1>2, <1>3, <1>4, <1>5, <1>6 DEF Laid

\* In the program's own code every class has a vector.
LEMMA AllLabelled ==
    ASSUME VectorInv, Begun, Labelled, Entered, NEW c \in Classes
    PROVE  label[c] # Zero
  <1>1. unit # 0 /\ unit \in Nat /\ unit > Len(Units) /\ Len(Units) \in Nat
    BY EveryUnit DEF Begun, Entered
  <1>2. c \in Type
    BY <1>1, Running0
  <1>3. Passed(c)
    BY <1>1, <1>2, UnitBounds DEF Passed
  <1> QED
    BY <1>1, <1>3 DEF Labelled

\* The other objects while the innermost changes.
LEMMA OthersStay ==
    ASSUME Memory, Apart, open # <<>>, NEW e, TopBecomes(e), GoesOn(e, This), made' = made
    PROVE  /\ DOMAIN open' = DOMAIN open /\ Finished' = Finished /\ e \in Objects'
           /\ \A o \in Objects' : o = e \/ (o \in Objects /\ o.ref # This.ref)
           /\ \A j \in DOMAIN open : open'[j].ref = open[j].ref /\ open'[j].class = open[j].class
  <1>1. /\ DOMAIN open' = 1..Len(open') /\ DOMAIN open = 1..Len(open) /\ Len(open') = Len(open)
    BY DEF TopBecomes, Memory
  <1>2. Len(open) \in DOMAIN open
    BY Top
  <1>3. Finished' = Finished
    BY DEF Finished
  <1>4. \A o \in Finished : o \in Objects /\ o.ref # This.ref
    BY <1>2 DEF Objects, Apart, This
  <1>5. ASSUME NEW j \in DOMAIN open, j # Len(open)
        PROVE  open'[j] = open[j] /\ open[j] \in Objects /\ open[j].ref # This.ref
    BY <1>2, <1>5 DEF TopBecomes, Objects, Apart, This
  <1>6. \A o \in Objects' : o = e \/ (o \in Objects /\ o.ref # This.ref)
    <2> SUFFICES ASSUME NEW o \in Objects' PROVE o = e \/ (o \in Objects /\ o.ref # This.ref)
      OBVIOUS
    <2>1. CASE o \in Finished
      BY <1>4, <2>1
    <2>2. CASE o \notin Finished
      <3>1. PICK j \in DOMAIN open : o = open'[j]
        BY <1>1, <1>3, <2>2 DEF Objects
      <3> QED
        BY <1>5, <3>1 DEF TopBecomes
    <2> QED
      BY <2>1, <2>2
  <1>7. e \in Objects'
    BY <1>1, <1>2 DEF Objects, TopBecomes
  <1>8. \A j \in DOMAIN open : open'[j].ref = open[j].ref /\ open'[j].class = open[j].class
    BY <1>5 DEF TopBecomes, GoesOn, This
  <1> QED
    BY <1>1, <1>3, <1>6, <1>7, <1>8

\* Steps of the innermost object being created.
LEMMA TopLaid ==
    ASSUME VectorInv, Begun, Laid, open # <<>>, NEW e, TopBecomes(e), GoesOn(e, This),
           e.fields <= Len(FieldsOf(This.class)),
           OnlyBlock(This.ref), heap'[This.ref][0] = heap[This.ref][0],
           UNCHANGED <<vars, unit, at, label, made, arrays>>, unit # 0
    PROVE  Laid'
  <1>0. /\ DOMAIN open' = DOMAIN open /\ Finished' = Finished
        /\ \A o \in Objects' : o = e \/ (o \in Objects /\ o.ref # This.ref)
        /\ \A j \in DOMAIN open : open'[j].ref = open[j].ref
    BY OthersStay DEF Laid
  <1>1. /\ Classes' = Classes /\ ConcreteClasses' = ConcreteClasses
        /\ \A c : FieldsOf(c)' = FieldsOf(c) /\ Filled(c)' = Filled(c)
    BY SameProgram
  <1>2. /\ This \in Objects /\ Placed(This) /\ e.ref = This.ref /\ e.class = This.class
        /\ e.during = This.during /\ Len(e.stored) = Len(This.stored)
    BY Top DEF GoesOn, Laid
  <1>3. /\ DOMAIN heap' = DOMAIN heap /\ DOMAIN heap'[This.ref] = DOMAIN heap[This.ref]
        /\ \A a \in DOMAIN heap : a # This.ref => heap'[a] = heap[a]
    BY DEF OnlyBlock
  <1>4. Memory'
    <2>1. ASSUME NEW o \in Objects' PROVE Placed(o)'
      <3>1. CASE o = e
        BY <1>1, <1>2, <1>3, <3>1 DEF Placed
      <3>2. CASE o \in Objects /\ o.ref # This.ref
        BY <1>1, <1>3, <3>2 DEF Placed, Laid, Memory
      <3> QED
        BY <1>0, <3>1, <3>2
    <2>2. IsSeq(heap') /\ open' \in Seq(Creation)
      BY DEF OnlyBlock, TopBecomes
    <2>3. \A n \in DOMAIN arrays' : arrays'[n].ref \in DOMAIN heap'
      BY <1>3 DEF Laid, Memory
    <2> QED
      BY <2>1, <2>2, <2>3 DEF Laid, Memory, Entered
  <1>5. \A o \in Objects' : \E p \in Objects : p.ref = o.ref
    BY <1>0, <1>2
  <1>6. Apart'
    <2>1. \A i, j \in DOMAIN open' : i # j => open'[i].ref # open'[j].ref
      BY <1>0 DEF Laid, Apart
    <2>2. \A o \in Finished', j \in DOMAIN open' : o.ref # open'[j].ref
      BY <1>0 DEF Laid, Apart
    <2>3. \A n \in DOMAIN arrays', o \in Objects' : arrays'[n].ref # o.ref
      BY <1>5 DEF Laid, Apart
    <2>4. \A n, m \in DOMAIN arrays' : n # m => arrays'[n].ref # arrays'[m].ref
      BY DEF Laid, Apart
    <2>5. ASSUME NEW c \in Classes', NEW o \in Objects' PROVE label'[c] # Reference(o.ref)
      BY <1>1, <1>5 DEF Laid, Apart
    <2>6. \A c \in Classes' :
            /\ \A n \in DOMAIN arrays' : label'[c] # Reference(arrays'[n].ref)
            /\ \A d \in Classes' : c # d /\ label'[c] # Zero => label'[c] # label'[d]
      BY <1>1 DEF Laid, Apart
    <2> QED
      BY <2>1, <2>2, <2>3, <2>4, <2>5, <2>6 DEF Apart
  <1>7. \A c \in Classes : label[c] # Zero =>
            /\ label[c] = Reference(label[c][2]) /\ label[c][2] \in DOMAIN heap
            /\ label[c][2] # This.ref
    BY <1>2 DEF Laid, Labelled, Apart
  <1>8. Labelled'
    <2>1. \A c : Passed(c)' <=> Passed(c)
      BY DEF Passed, UnitOf
    <2>2. \A c \in Classes : label[c] # Zero => heap'[label[c][2]] = heap[label[c][2]]
      BY <1>3, <1>7
    <2>3. \A c \in Classes : (label[c] # Zero <=> Passed(c)) /\ (label[c] # Zero =>
             DOMAIN heap[label[c][2]] = 0..Cardinality(DOMAIN Filled(c)))
      BY DEF Laid, Labelled
    <2> QED
      BY <1>1, <1>3, <1>7, <2>1, <2>2, <2>3 DEF Labelled
  <1>9. VectorsFull'
    <2> SUFFICES ASSUME Entered, NEW c \in Classes, NEW w \in DOMAIN Filled(c), Filled(c)[w] # {}
                 PROVE  heap'[label[c][2]][w] = Address(Filled(c)[w])
      BY <1>1 DEF VectorsFull, Entered
    <2>1. label[c] # Zero
      BY AllLabelled DEF Laid
    <2> QED
      BY <1>3, <1>7, <2>1 DEF Laid, VectorsFull
  <1>10. Headers'
    <2> SUFFICES ASSUME NEW o \in Objects' PROVE Points(o)'
      BY DEF Headers
    <2>1. CASE o = e
      BY <1>2, <2>1 DEF Points, Laid, Headers, UnitOf
    <2>2. CASE o \in Objects /\ o.ref # This.ref
      <3>1. heap'[o.ref] = heap[o.ref]
        BY <1>3, <2>2 DEF Laid, Memory, Placed
      <3> QED
        BY <2>2, <3>1 DEF Points, Laid, Headers, UnitOf
    <2> QED
      BY <1>0, <2>1, <2>2
  <1> QED
    BY <1>4, <1>6, <1>8, <1>9, <1>10 DEF Laid

\* An object is finished.
LEMMA FinishLaid ==
    ASSUME VectorInv, Begun, unit # 0, Laid, Finish, UNCHANGED arrays
    PROVE  Laid'
  <1> USE DEF Laid
  <1>0. /\ open # <<>> /\ Len(open') = Len(open) - 1 /\ open' \in Seq(Creation)
        /\ \A j \in 1..(Len(open) - 1) : open'[j] = open[j]
        /\ made' \in Seq(Creation) /\ Finished' = Finished \cup {This}
        /\ Objects' = Objects
    BY FinishEffect
  <1>1. /\ UNCHANGED <<vars, unit, at, label, heap>>
    BY DEF Finish
  <1>2. /\ Classes' = Classes /\ ConcreteClasses' = ConcreteClasses
        /\ \A c : FieldsOf(c)' = FieldsOf(c) /\ Filled(c)' = Filled(c)
    BY <1>1, SameProgram
  <1>3. /\ Len(open) \in Nat /\ Len(open) >= 1 /\ Len(open) \in DOMAIN open
        /\ This = open[Len(open)]
        /\ DOMAIN open = 1..Len(open) /\ DOMAIN open' = 1..(Len(open) - 1)
    BY <1>0, Top DEF This, Memory
  <1>4. Memory'
    <2>1. \A o \in Objects : Placed(o)'
      BY <1>1, <1>2 DEF Memory, Placed
    <2> QED
      BY <1>0, <1>1, <2>1 DEF Memory, Entered
  <1>5. Apart'
    <2>0. \A j \in DOMAIN open' : j \in DOMAIN open /\ j # Len(open) /\ open'[j] = open[j]
      BY <1>0, <1>3
    <2>1. /\ \A i, j \in DOMAIN open' : i # j => open'[i].ref # open'[j].ref
          /\ \A o \in Finished', j \in DOMAIN open' : o.ref # open'[j].ref
      BY <1>0, <1>3, <2>0 DEF Apart
    <2>2. \A n \in DOMAIN arrays', o \in Objects' : arrays'[n].ref # o.ref
      BY <1>0 DEF Apart
    <2>3. \A n, m \in DOMAIN arrays' : n # m => arrays'[n].ref # arrays'[m].ref
      BY DEF Apart
    <2>4. \A c \in Classes' : \A o \in Objects' : label'[c] # Reference(o.ref)
      BY <1>0, <1>1, <1>2 DEF Apart
    <2>5. \A c \in Classes' :
            /\ \A n \in DOMAIN arrays' : label'[c] # Reference(arrays'[n].ref)
            /\ \A d \in Classes' : c # d /\ label'[c] # Zero => label'[c] # label'[d]
      BY <1>1, <1>2 DEF Apart
    <2> QED
      BY <2>1, <2>2, <2>3, <2>4, <2>5 DEF Apart
  <1>6. Labelled'
    BY <1>1, <1>2 DEF Labelled, Passed, UnitOf
  <1>7. VectorsFull'
    BY <1>1, <1>2 DEF VectorsFull, Entered
  <1>8. Headers'
    BY <1>0, <1>1 DEF Headers, Points, UnitOf
  <1> QED
    BY <1>4, <1>5, <1>6, <1>7, <1>8

\* A new block is none of those there are.
LEMMA NewBlock ==
    ASSUME VectorInv, Begun, unit # 0, Laid, NEW block, Grows(block), UNCHANGED <<vars, label>>
    PROVE  /\ \A a \in DOMAIN heap : a \in DOMAIN heap' /\ heap'[a] = heap[a] /\ a # Len(heap) + 1
           /\ \A o \in Objects : Placed(o)' /\ o.ref # Len(heap) + 1
           /\ \A n \in DOMAIN arrays : /\ arrays[n].ref \in DOMAIN heap'
                                       /\ arrays[n].ref # Len(heap) + 1
           /\ \A c \in Classes : label[c] # Reference(Len(heap) + 1)
           /\ Entered /\ Entered' => VectorsFull'
  <1>1. \A a \in DOMAIN heap : a \in DOMAIN heap' /\ heap'[a] = heap[a] /\ a # Len(heap) + 1
    BY DEF Grows
  <1>2. /\ Classes' = Classes /\ ConcreteClasses' = ConcreteClasses
        /\ \A c : FieldsOf(c)' = FieldsOf(c) /\ Filled(c)' = Filled(c)
    BY SameProgram
  <1>3. \A o \in Objects : Placed(o)' /\ o.ref # Len(heap) + 1
    BY <1>1, <1>2 DEF Laid, Memory, Placed
  <1>4. \A n \in DOMAIN arrays : arrays[n].ref \in DOMAIN heap' /\ arrays[n].ref # Len(heap) + 1
    BY <1>1 DEF Laid, Memory
  <1>5. \A c \in Classes : label[c] # Zero => label[c] = Reference(label[c][2]) /\ label[c][2] \in DOMAIN heap
    BY DEF Laid, Labelled
  <1>6. \A c \in Classes : label[c] # Reference(Len(heap) + 1)
    <2> SUFFICES ASSUME NEW c \in Classes, label[c] = Reference(Len(heap) + 1) PROVE FALSE
      OBVIOUS
    <2>1. label[c] # Zero /\ label[c][2] = Len(heap) + 1
      BY DEF Reference, Zero
    <2> QED
      BY <1>1, <1>5, <2>1
  <1>7. ASSUME Entered, Entered' PROVE VectorsFull'
    <2>1. \A c \in Classes : label[c] # Zero
      BY <1>7, AllLabelled DEF Laid
    <2> QED
      BY <1>1, <1>2, <1>5, <1>7, <2>1 DEF VectorsFull, Laid
  <1> QED
    BY <1>1, <1>3, <1>4, <1>6, <1>7

\* An object is created.
LEMMA CreateLaid ==
    ASSUME VectorInv, Begun, unit # 0, Laid, UNCHANGED arrays,
           NEW c \in ConcreteClasses, NEW k \in Constructors(c), NewObject(c, k),
           at > 0 \/ Entered
    PROVE  Laid'
  <1>0. UNCHANGED <<vars, unit, at, label, made>>
    BY DEF NewObject
  <1>1. PICK e, block :
             /\ e \in Creation /\ e.ref = Len(heap) + 1 /\ e.class = c /\ e.during = unit
             /\ e.fields = 0 /\ Len(e.stored) = Len(FieldsOf(c))
             /\ Grows(block) /\ DOMAIN block = 0..Len(FieldsOf(c)) /\ block[0] = label[c]
             /\ open' \in Seq(Creation) /\ Len(open') = Len(open) + 1
             /\ open'[Len(open) + 1] = e /\ Len(open) \in Nat
             /\ \A j \in DOMAIN open : j # Len(open) + 1 /\ open'[j] = open[j]
             /\ Objects' = Objects \cup {e}
    BY CreateEffect DEF Laid
  <1>2. /\ Classes' = Classes /\ ConcreteClasses' = ConcreteClasses /\ Finished' = Finished
        /\ \A d : FieldsOf(d)' = FieldsOf(d) /\ Filled(d)' = Filled(d)
    BY <1>0, SameProgram DEF Finished
  <1>3. /\ \A a \in DOMAIN heap : a \in DOMAIN heap' /\ heap'[a] = heap[a] /\ a # Len(heap) + 1
        /\ \A o \in Objects : Placed(o)' /\ o.ref # Len(heap) + 1
        /\ \A n \in DOMAIN arrays : arrays[n].ref \in DOMAIN heap' /\ arrays[n].ref # Len(heap) + 1
        /\ \A d \in Classes : label[d] # Reference(Len(heap) + 1)
        /\ Entered /\ Entered' => VectorsFull'
    BY <1>0, <1>1, NewBlock
  <1>4. c \in Classes /\ c \in Type /\ FieldsOf(c) \in Seq(FieldOf)
    BY Running0 DEF ConcreteClasses
  <1>5. /\ heap'[e.ref] = block /\ e.ref \in DOMAIN heap' /\ IsSeq(heap')
    BY <1>1 DEF Grows
  <1>6. Placed(e)'
    <2>1. e.fields <= Len(FieldsOf(c))
      BY <1>1, <1>4
    <2> QED
      BY <1>1, <1>2, <1>5, <2>1 DEF Placed
  <1>7. Memory'
    BY <1>0, <1>1, <1>3, <1>5, <1>6 DEF Laid, Memory, Entered
  <1>8. Apart'
    <2>1. DOMAIN open = 1..Len(open) /\ DOMAIN open' = 1..(Len(open) + 1)
      BY <1>1 DEF Laid, Memory
    <2>2. \A j \in DOMAIN open : open[j] \in Objects
      BY DEF Objects
    <2>3. \A j \in DOMAIN open' : (j \in DOMAIN open /\ open'[j] = open[j] /\ open[j].ref # e.ref)
                                  \/ (j = Len(open) + 1 /\ open'[j] = e)
      BY <1>1, <1>3, <2>1, <2>2
    <2>4. \A i, j \in DOMAIN open' : i # j => open'[i].ref # open'[j].ref
      BY <2>3 DEF Laid, Apart
    <2>5. \A o \in Finished', j \in DOMAIN open' : o.ref # open'[j].ref
      BY <1>1, <1>2, <1>3, <2>3 DEF Laid, Apart, Objects
    <2>6. \A n \in DOMAIN arrays', o \in Objects' : arrays'[n].ref # o.ref
      BY <1>1, <1>3 DEF Laid, Apart
    <2>7. \A n, m \in DOMAIN arrays' : n # m => arrays'[n].ref # arrays'[m].ref
      BY DEF Laid, Apart
    <2>8. \A d \in Classes' : \A o \in Objects' : label'[d] # Reference(o.ref)
      BY <1>0, <1>1, <1>2, <1>3 DEF Laid, Apart
    <2>9. \A d \in Classes' :
            /\ \A n \in DOMAIN arrays' : label'[d] # Reference(arrays'[n].ref)
            /\ \A b \in Classes' : d # b /\ label'[d] # Zero => label'[d] # label'[b]
      BY <1>0, <1>2 DEF Laid, Apart
    <2> QED
      BY <2>4, <2>5, <2>6, <2>7, <2>8, <2>9 DEF Apart
  <1>9. Labelled'
    <2>1. \A d : Passed(d)' <=> Passed(d)
      BY <1>0 DEF Passed, UnitOf
    <2> QED
      BY <1>0, <1>2, <1>3, <2>1 DEF Labelled, Laid
  <1>10. VectorsFull'
    BY <1>0, <1>3 DEF VectorsFull, Entered
  <1>11. Headers'
    <2> SUFFICES ASSUME NEW o \in Objects' PROVE Points(o)'
      BY DEF Headers
    <2>1. CASE o = e
      <3> SUFFICES ASSUME unit >= UnitOf(c) PROVE block[0] = label[c] /\ label[c] # Zero
        BY <1>0, <1>1, <1>5, <2>1 DEF Points, UnitOf
      <3>1. Passed(c)
        BY <1>4, UnitBounds, EveryUnit DEF Begun, Entered, Passed
      <3> QED
        BY <1>1, <1>4, <3>1 DEF Laid, Labelled
    <2>2. CASE o \in Objects
      BY <1>0, <1>3, <2>2 DEF Points, Laid, Headers, UnitOf, Memory, Placed
    <2> QED
      BY <1>1, <2>1, <2>2
  <1> QED
    BY <1>7, <1>8, <1>9, <1>10, <1>11 DEF Laid

\* A function on the first numbers is a sequence.
LEMMA FunctionIsSeq ==
    ASSUME NEW n \in Nat, NEW s, s = [i \in 1..n |-> s[i]]
    PROVE  IsSeq(s)
  <1> DEFINE R == {s[i] : i \in DOMAIN s}
  <1>1. s \in [1..n -> R]
    OBVIOUS
  <1> HIDE DEF R
  <1>2. s \in Seq(R)
    BY <1>1
  <1> QED
    BY <1>2 DEF R, IsSeq

\* The slots of a vector are numbered from 0, so its block has a word for each.
LEMMA SlotsNumbered ==
    ASSUME VectorInv, Begun, unit # 0, NEW c \in Classes
    PROVE  DOMAIN Filled(c) \subseteq 0..Cardinality(DOMAIN Filled(c))
  <1> DEFINE V == Virtual(method_list[c])
             S == {0} \cup {colour[m] : m \in V}
  <1>1. /\ Legal /\ c \in Type /\ Filled(c) = DispatchSlots(c) /\ phase = "build"
    BY Running0 DEF Begun
  <1>2. PICK k \in 1..Len(Units) : c = Units[k]
    BY <1>1, EveryUnit
  <1>3. k \in 1..added /\ colour \in [Vertices -> Nat]
    BY <1>1 DEF VectorInv, DInv, GraphFirst
  <1>4. V \subseteq Vertices
    BY <1>1, <1>2, <1>3, MethodsAreVertices DEF VectorInv, DInv
  <1>5. PICK b \in Nat : \A m \in Vertices : colour[m] <= b
    BY <1>1 DEF VectorInv, ColoursBounded
  <1>6. S \subseteq Nat /\ S # {} /\ \A n \in S : n <= b
    BY <1>3, <1>4, <1>5
  <1>7. Max(S) \in Nat
    <2> HIDE DEF S
    <2> QED
      BY <1>6, BoundedMax
  <1>8. DOMAIN DispatchSlots(c) = 0..Max(S)
    BY DEF DispatchSlots
  <1> HIDE DEF S
  <1>9. Cardinality(0..Max(S)) = Max(S) + 1
    BY <1>7, FS_Interval
  <1> QED
    BY <1>1, <1>7, <1>8, <1>9

\* A class is given its vector.
LEMMA AllocateLaid ==
    ASSUME VectorInv, Begun, Laid, unit # 0, NEW c \in Classes, AllocateVector(c), UNCHANGED arrays
    PROVE  Laid'
  <1>0. /\ UNCHANGED <<vars, unit, open, made>> /\ at = 0 /\ at' = 1
        /\ unit \in DOMAIN Units /\ Units[unit] = c
        /\ label' = [label EXCEPT ![c] = Reference(Len(heap) + 1)]
    BY DEF AllocateVector, Running, InUnits
  <1>1. /\ Objects' = Objects /\ Finished' = Finished /\ Classes' = Classes
        /\ ConcreteClasses' = ConcreteClasses
        /\ \A d : FieldsOf(d)' = FieldsOf(d) /\ Filled(d)' = Filled(d)
    BY <1>0, SameProgram DEF Objects, Finished
  <1> DEFINE block == [w \in 0..Cardinality(DOMAIN Filled(c)) |-> Garbage]
  <1>2. Grows(block)
    <2>1. heap' = Append(heap, block)
      BY DEF AllocateVector, Filled
    <2> HIDE DEF block
    <2> QED
      BY <2>1, Appended DEF Grows, Laid, Memory
  <1>3. /\ \A a \in DOMAIN heap : a \in DOMAIN heap' /\ heap'[a] = heap[a] /\ a # Len(heap) + 1
        /\ \A d \in Classes : label[d] # Zero => label[d] = Reference(label[d][2]) /\ label[d][2] \in DOMAIN heap
    BY <1>2 DEF Grows, Laid, Labelled
  <1>4. /\ label'[c] = Reference(Len(heap) + 1)
        /\ \A d \in Classes : d # c => label'[d] = label[d]
    BY <1>0 DEF Begun
  <1>5. /\ unit \in 1..Len(Units) /\ Len(Units) \in Nat /\ unit = UnitOf(c) /\ c \in Type
        /\ Classes \subseteq Type
    <2>1. c \in Type /\ Classes \subseteq Type
      BY Running0
    <2>2. unit \in 1..Len(Units) /\ Len(Units) \in Nat
      BY <1>0, UnitsAssumption
    <2> QED
      BY <1>0, <2>1, <2>2, UnitBounds
  <1>6. arrays = <<>> /\ ~Entered /\ ~Entered'
    BY <1>0, <1>5 DEF Entered, Laid, Memory
  <1>7. \A o \in Objects : Placed(o)' /\ o.ref # Len(heap) + 1 /\ o.ref \in DOMAIN heap
    BY <1>1, <1>3 DEF Laid, Memory, Placed
  <1>8. Memory'
    BY <1>0, <1>1, <1>2, <1>6, <1>7 DEF Laid, Memory, Grows
  <1>9. \A d \in Classes : label[d] # Reference(Len(heap) + 1)
    <2> SUFFICES ASSUME NEW d \in Classes, label[d] = Reference(Len(heap) + 1) PROVE FALSE
      OBVIOUS
    <2>1. label[d] # Zero /\ label[d][2] = Len(heap) + 1
      BY DEF Reference, Zero
    <2> QED
      BY <1>3, <2>1
  <1>10. Apart'
    <2>1. /\ \A i, j \in DOMAIN open' : i # j => open'[i].ref # open'[j].ref
          /\ \A o \in Finished', j \in DOMAIN open' : o.ref # open'[j].ref
      BY <1>0, <1>1 DEF Laid, Apart
    <2>2. ASSUME NEW d \in Classes, NEW o \in Objects PROVE label'[d] # Reference(o.ref)
      BY <1>4, <1>7 DEF Laid, Apart, Reference
    <2>3. ASSUME NEW d \in Classes, NEW b \in Classes, d # b, label'[d] # Zero
          PROVE  label'[d] # label'[b]
      BY <1>4, <1>9, <2>3 DEF Laid, Apart
    <2> QED
      BY <1>1, <1>6, <2>1, <2>2, <2>3 DEF Apart
  <1>11. Labelled'
    <2>1. ASSUME NEW d \in Classes PROVE Passed(d)' <=> (d = c \/ Passed(d))
      <3>1. UnitOf(d) = unit => d = c
        BY <1>0, <1>5, UnitBounds
      <3>2. UnitOf(d)' = UnitOf(d) /\ UnitOf(d) \in Nat /\ unit \in Nat
        BY <1>5, UnitBounds DEF UnitOf
      <3> QED
        BY <1>0, <1>5, <3>1, <3>2 DEF Passed
    <2>2. Reference(Len(heap) + 1) # Zero /\ Reference(Len(heap) + 1)[2] = Len(heap) + 1
      BY DEF Reference, Zero
    <2>3. Len(heap) + 1 \in DOMAIN heap' /\ DOMAIN heap'[Len(heap) + 1] = 0..Cardinality(DOMAIN Filled(c))
      BY <1>2 DEF Grows
    <2>4. ASSUME NEW d \in Classes
          PROVE  /\ label'[d] # Zero <=> Passed(d)'
                 /\ label'[d] # Zero =>
                     /\ label'[d] = Reference(label'[d][2]) /\ label'[d][2] \in DOMAIN heap'
                     /\ DOMAIN heap'[label'[d][2]] = 0..Cardinality(DOMAIN Filled(d))
      <3>1. CASE d = c
        BY <1>4, <2>1, <2>2, <2>3, <3>1
      <3>2. CASE d # c
        BY <1>3, <1>4, <2>1, <3>2 DEF Laid, Labelled
      <3> QED
        BY <3>1, <3>2
    <2> QED
      BY <1>1, <2>4 DEF Labelled
  <1>12. VectorsFull'
    BY <1>6 DEF VectorsFull
  <1>13. Headers'
    <2> SUFFICES ASSUME NEW o \in Objects PROVE Points(o)'
      BY <1>1 DEF Headers
    <2>1. heap'[o.ref] = heap[o.ref]
      BY <1>3, <1>7
    <2>2. Points(o) /\ o.class \in Classes
      BY DEF Laid, Headers, Memory, Placed, ConcreteClasses
    <2>3. o.class # c => label'[o.class] = label[o.class]
      BY <1>4, <2>2
    <2>4. o.class = c => ~(o.during >= UnitOf(c))
      <3>1. label[c] = Zero
        BY <1>0, <1>5 DEF Laid, Labelled, Passed
      <3> QED
        BY <2>2, <3>1 DEF Points
    <2> QED
      BY <2>1, <2>2, <2>3, <2>4 DEF Points, UnitOf
  <1> QED
    BY <1>8, <1>10, <1>11, <1>12, <1>13 DEF Laid

\* All vectors are filled.
LEMMA FillLaid ==
    ASSUME VectorInv, Begun, Laid, unit # 0, FillVectors, UNCHANGED arrays
    PROVE  Laid' /\ \A o \in Objects : heap'[o.ref] = heap[o.ref]
  <1>0. /\ UNCHANGED <<vars, label, open, made>> /\ unit = Len(Units) /\ unit' = unit + 1
        /\ unit \in DOMAIN Units /\ at' = 0
        /\ IsInterface(Units[unit]) \/ at > Len(Fields[Units[unit]])
    BY DEF FillVectors, InUnits
  <1>1. /\ Objects' = Objects /\ Finished' = Finished /\ Classes' = Classes
        /\ ConcreteClasses' = ConcreteClasses
        /\ \A d : FieldsOf(d)' = FieldsOf(d) /\ Filled(d)' = Filled(d)
    BY <1>0, SameProgram DEF Objects, Finished
  <1>2. Len(Units) \in Nat /\ ~Entered /\ Entered' /\ arrays = <<>>
    BY <1>0, EveryUnit DEF Entered, Laid, Memory
  <1>3. /\ Linking /\ Classes = {t \in Type : ~IsInterface(t)}
    BY Running0
  <1>4. ASSUME NEW c \in Classes PROVE label[c] # Zero
    <2>1. c \in Type /\ ~IsInterface(c)
      BY <1>3
    <2>2. UnitOf(c) \in 1..Len(Units) /\ Units[UnitOf(c)] = c
      BY <2>1, UnitBounds
    <2>3. UnitOf(c) = unit => at > 0
      <3>1. Fields[c] \in Seq(STRING)
        BY <2>1, FieldsAssumption
      <3>2. Len(Fields[c]) \in Nat /\ at \in Nat
        BY <3>1 DEF Begun
      <3>3. UnitOf(c) = unit => at > Len(Fields[c])
        BY <1>0, <2>1, <2>2
      <3> QED
        BY <3>2, <3>3
    <2>4. Passed(c)
      BY <1>0, <1>2, <2>2, <2>3 DEF Passed
    <2> QED
      BY <2>4 DEF Laid, Labelled
  <1>5. \A c \in Classes :
           /\ label[c] = Reference(label[c][2]) /\ label[c][2] \in DOMAIN heap
           /\ DOMAIN heap[label[c][2]] = 0..Cardinality(DOMAIN Filled(c))
           /\ DOMAIN Filled(c) \subseteq 0..Cardinality(DOMAIN Filled(c))
    BY <1>4, SlotsNumbered DEF Laid, Labelled
  <1> DEFINE Full(b) == LET c == CHOOSE d \in Classes : label[d] = Reference(b)
                        IN  [w \in DOMAIN heap[b] |->
                               IF w \in DOMAIN Filled(c) /\ Filled(c)[w] # {}
                               THEN Address(Filled(c)[w]) ELSE heap[b][w]]
             Owned(b) == \E c \in Classes : label[c] = Reference(b)
  <1>6. heap' = [b \in DOMAIN heap |-> IF Owned(b) THEN Full(b) ELSE heap[b]]
    BY DEF FillVectors
  <1>7. \A b : DOMAIN Full(b) = DOMAIN heap[b]
    OBVIOUS
  <1>8. ASSUME NEW c \in Classes, NEW b, label[c] = Reference(b)
        PROVE  /\ Owned(b)
               /\ \A w \in DOMAIN heap[b] : w \in DOMAIN Filled(c) /\ Filled(c)[w] # {} =>
                    Full(b)[w] = Address(Filled(c)[w])
    <2>1. \A d \in Classes : label[d] = Reference(b) => d = c
      BY <1>4, <1>8 DEF Laid, Apart
    <2>2. (CHOOSE d \in Classes : label[d] = Reference(b)) = c
      BY <1>8, <2>1
    <2> QED
      BY <1>8, <2>2
  <1> HIDE DEF Full, Owned
  <1>9. /\ DOMAIN heap' = DOMAIN heap /\ IsSeq(heap')
        /\ \A b \in DOMAIN heap : DOMAIN heap'[b] = DOMAIN heap[b]
    <2>1. Len(heap) \in Nat /\ DOMAIN heap = 1..Len(heap)
      BY DEF Laid, Memory, IsSeq
    <2>2. heap' = [b \in 1..Len(heap) |-> heap'[b]]
      BY <1>6, <2>1
    <2>3. IsSeq(heap')
      BY <2>1, <2>2, FunctionIsSeq
    <2> QED
      BY <1>6, <1>7, <2>3
  <1>10. ASSUME NEW o \in Objects
         PROVE  o.ref \in DOMAIN heap /\ heap'[o.ref] = heap[o.ref]
    <2>1. o.ref \in DOMAIN heap
      BY DEF Laid, Memory, Placed
    <2>2. ~Owned(o.ref)
      BY DEF Owned, Laid, Apart
    <2> QED
      BY <1>6, <2>1, <2>2
  <1>11. Memory'
    <2>1. \A o \in Objects : Placed(o)'
      BY <1>1, <1>9, <1>10 DEF Laid, Memory, Placed
    <2> QED
      BY <1>0, <1>1, <1>2, <1>9, <2>1 DEF Laid, Memory
  <1>12. Apart'
    BY <1>0, <1>1, <1>2 DEF Laid, Apart
  <1>13. Labelled'
    <2>1. ASSUME NEW c \in Classes PROVE Passed(c)'
      <3>1. UnitOf(c)' = UnitOf(c) /\ UnitOf(c) \in 1..Len(Units)
        BY <1>3, UnitBounds DEF UnitOf
      <3> QED
        BY <1>0, <1>2, <3>1 DEF Passed
    <2> QED
      BY <1>0, <1>1, <1>4, <1>5, <1>9, <2>1 DEF Labelled
  <1>14. VectorsFull'
    <2> SUFFICES ASSUME NEW c \in Classes, NEW w \in DOMAIN Filled(c), Filled(c)[w] # {}
                 PROVE  heap'[label[c][2]][w] = Address(Filled(c)[w])
      BY <1>0, <1>1 DEF VectorsFull
    <2> DEFINE b == label[c][2]
    <2>1. label[c] = Reference(b) /\ b \in DOMAIN heap /\ w \in DOMAIN heap[b]
      BY <1>5
    <2> HIDE DEF b
    <2>2. Owned(b) /\ Full(b)[w] = Address(Filled(c)[w])
      BY <1>8, <2>1
    <2> QED
      BY <1>6, <2>1, <2>2 DEF b
  <1>15. Headers'
    BY <1>0, <1>1, <1>10 DEF Laid, Headers, Points, UnitOf
  <1> QED
    BY <1>10, <1>11, <1>12, <1>13, <1>14, <1>15 DEF Laid

\* The program begins with nothing in memory.
LEMMA BeginLaid ==
    ASSUME VectorInv, Begun, NEW i, Begin(i), UNCHANGED arrays
    PROVE  Laid'
  <1>1. /\ unit = 0 /\ unit' = 1 /\ at' = 0 /\ label' = [c \in Classes |-> Zero]
        /\ open' = <<>> /\ made' = <<>> /\ arrays' = <<>> /\ heap' = <<>> /\ UNCHANGED vars
    BY DEF Begin, Begun
  <1>2. Len(Units) \in Nat /\ Len(Units) >= 1
    BY EveryUnit, TypesAssumption
  <1>3. Objects' = {} /\ Finished' = {} /\ Classes' = Classes
    BY <1>1, SameProgram DEF Objects, Finished
  <1>4. ~Entered'
    BY <1>1, <1>2 DEF Entered
  <1>5. Memory'
    BY <1>1, <1>3 DEF Memory, IsSeq
  <1>6. Apart'
    BY <1>1, <1>3 DEF Apart, Zero, Reference
  <1>7. Labelled'
    <2>1. Classes \subseteq Type
      BY DEF VectorInv, HInv, Classes
    <2>2. ASSUME NEW c \in Classes PROVE ~Passed(c)'
      <3>1. UnitOf(c)' = UnitOf(c) /\ UnitOf(c) \in 1..Len(Units)
        BY <2>1, UnitBounds DEF UnitOf
      <3> QED
        BY <1>1, <1>2, <3>1 DEF Passed
    <2> QED
      BY <1>1, <1>3, <2>2 DEF Labelled
  <1>8. VectorsFull' /\ Headers'
    BY <1>3, <1>4 DEF VectorsFull, Headers
  <1> QED
    BY <1>5, <1>6, <1>7, <1>8 DEF Laid

----------------------------------------------------------------------------
(* Arrays.                                                                  *)

\* A number that fits in a word is what the word holds.
LEMMA SignedFits ==
    ASSUME NEW n \in Nat, n < Limit
    PROVE  Signed(n) = n
  <1>1. n + Limit \in Nat /\ 2 * Limit \in Nat /\ n + Limit < 2 * Limit
    BY LimitAssumption
  <1>2. \A a, b \in Nat : a < b => a % b = a
    OBVIOUS
  <1> QED
    BY <1>1, <1>2, LimitAssumption DEF Signed

\* Where the words of an array are that fits: the loop of its creation writes
\* the words an access reads.
LEMMA ArrayWords ==
    ASSUME NEW size \in Nat, Fits(size)
    PROVE  /\ Bytes(size) \div 4 - 1 = size + 1
           /\ 2..(size + 1) \subseteq Zeroed(size) /\ 0 \notin Zeroed(size) /\ 1 \notin Zeroed(size)
           /\ \A i \in 0..(size - 1) : WordOf(i) = i + 2
  <1>1. Limit \in Nat /\ 4 * size + 8 < Limit
    BY LimitAssumption DEF Fits
  <1>2. Bytes(size) = 4 * size + 8 /\ Signed(4 * size) = 4 * size
    BY <1>1, SignedFits DEF Bytes
  <1>3. ASSUME NEW w \in 2..(size + 1) PROVE w \in Zeroed(size)
    <2> DEFINE k == w - 1
               t == 4 * k
    <2>1. k \in Nat /\ 1 <= k /\ k <= size /\ 4 * k <= 4 * size /\ 4 * k < Limit /\ w = 1 + k
      BY <1>1
    <2>2. k <= Limit \div 4 /\ Limit \div 4 \in Nat
      BY <1>1, <2>1
    <2>3. k \in 1..(Limit \div 4) /\ t \in 1..(4 * size) /\ w = 1 + t \div 4
      BY <2>1, <2>2
    <2> HIDE DEF k
    <2>4. t \in {4 * j : j \in 1..(Limit \div 4)}
      BY <2>3
    <2> HIDE DEF t
    <2> QED
      BY <1>2, <2>3, <2>4 DEF Zeroed
  <1>4. ASSUME NEW w \in Zeroed(size) PROVE w # 0 /\ w # 1
    <2>1. PICK k \in 1..(Limit \div 4) : w = 1 + (4 * k) \div 4
      BY DEF Zeroed
    <2> QED
      BY <1>1, <2>1
  <1>5. ASSUME NEW i \in 0..(size - 1) PROVE WordOf(i) = i + 2
    <2>1. 4 + 4 * i \in Nat /\ 4 + 4 * i < Limit
      BY <1>1
    <2>2. WordOf(i) = 1 + (4 + 4 * i) \div 4
      BY <2>1, SignedFits DEF WordOf
    <2> QED
      BY <2>2
  <1>6. (4 * size + 8) \div 4 - 1 = size + 1
    OBVIOUS
  <1> QED
    BY <1>2, <1>3, <1>4, <1>5, <1>6

\* An array is created.
LEMMA CreateArrayLaid ==
    ASSUME VectorInv, Begun, Laid, ArraysKept, NEW size \in Nat, CreateArray(size)
    PROVE  Laid' /\ ArraysKept' /\ \A o \in Objects : heap'[o.ref] = heap[o.ref]
  <1> DEFINE a == [ref |-> Len(heap) + 1, size |-> size,
                   elements |-> [i \in 0..(size - 1) |-> Zero]]
             block == [w \in 0..(Bytes(size) \div 4 - 1) |->
                         CASE w = 0 -> Number(size)
                           [] w = 1 -> label[ArraysClass]
                           [] w \in Zeroed(size) -> Zero
                           [] OTHER -> Garbage]
  <1>0. /\ UNCHANGED <<vars, unit, at, label, open, made>> /\ Entered
        /\ heap' = Append(heap, block) /\ arrays' = Append(arrays, a)
    BY DEF CreateArray, InMain, Entered
  <1>1. unit # 0
    BY <1>0, EveryUnit DEF Entered
  <1>2. /\ Objects' = Objects /\ Finished' = Finished /\ Classes' = Classes
        /\ ConcreteClasses' = ConcreteClasses
        /\ \A d : FieldsOf(d)' = FieldsOf(d) /\ Filled(d)' = Filled(d)
    BY <1>0, SameProgram DEF Objects, Finished
  <1>3. a.ref = Len(heap) + 1 /\ a.size = size /\ a.elements = [i \in 0..(size - 1) |-> Zero]
        /\ a = [ref |-> a.ref, size |-> a.size, elements |-> a.elements]
    OBVIOUS
  <1>4. Fits(size) => /\ DOMAIN block = 0..(size + 1)
                      /\ block[0] = Number(size) /\ block[1] = label[ArraysClass]
                      /\ \A i \in 0..(size - 1) : block[i + 2] = Zero
    <2> SUFFICES ASSUME Fits(size)
                 PROVE  /\ DOMAIN block = 0..(size + 1)
                        /\ block[0] = Number(size) /\ block[1] = label[ArraysClass]
                        /\ \A i \in 0..(size - 1) : block[i + 2] = Zero
      OBVIOUS
    <2>1. /\ Bytes(size) \div 4 - 1 = size + 1
          /\ 2..(size + 1) \subseteq Zeroed(size) /\ 0 \notin Zeroed(size) /\ 1 \notin Zeroed(size)
      BY ArrayWords
    <2>2. DOMAIN block = 0..(size + 1)
      BY <2>1
    <2>3. block[0] = Number(size) /\ block[1] = label[ArraysClass]
      BY <2>1
    <2>4. ASSUME NEW i \in 0..(size - 1) PROVE block[i + 2] = Zero
      <3>1. i + 2 \in 2..(size + 1) /\ i + 2 \in 0..(size + 1) /\ i + 2 # 0 /\ i + 2 # 1
        OBVIOUS
      <3> QED
        BY <2>1, <3>1
    <2> QED
      BY <2>2, <2>3, <2>4
  <1> HIDE DEF block, a
  <1>5. Grows(block)
    BY <1>0, Appended DEF Grows, Laid, Memory
  <1>6. /\ IsSeq(arrays') /\ DOMAIN arrays = 1..Len(arrays)
        /\ DOMAIN arrays' = 1..(Len(arrays) + 1) /\ arrays'[Len(arrays) + 1] = a
        /\ \A n \in DOMAIN arrays : n # Len(arrays) + 1 /\ arrays'[n] = arrays[n]
        /\ Len(arrays) \in Nat
    BY <1>0, Appended DEF Laid, Memory
  <1>7. \A n \in DOMAIN arrays' : (n \in DOMAIN arrays /\ arrays'[n] = arrays[n])
                                  \/ (n = Len(arrays) + 1 /\ arrays'[n] = a)
    BY <1>6
  <1>8. /\ \A b \in DOMAIN heap : b \in DOMAIN heap' /\ heap'[b] = heap[b] /\ b # Len(heap) + 1
        /\ \A o \in Objects : Placed(o)' /\ o.ref # Len(heap) + 1
        /\ \A n \in DOMAIN arrays : arrays[n].ref \in DOMAIN heap' /\ arrays[n].ref # Len(heap) + 1
        /\ \A d \in Classes : label[d] # Reference(Len(heap) + 1)
        /\ Entered /\ Entered' => VectorsFull'
    BY <1>0, <1>1, <1>5, NewBlock
  <1>9. a.ref \in DOMAIN heap' /\ IsSeq(heap')
    BY <1>3, <1>5 DEF Grows
  <1>10. Memory'
    BY <1>0, <1>2, <1>6, <1>7, <1>8, <1>9 DEF Laid, Memory, Entered
  <1>11. Apart'
    <2>1. /\ \A i, j \in DOMAIN open' : i # j => open'[i].ref # open'[j].ref
          /\ \A o \in Finished', j \in DOMAIN open' : o.ref # open'[j].ref
      BY <1>0, <1>2 DEF Laid, Apart
    <2>2. \A n \in DOMAIN arrays', o \in Objects' : arrays'[n].ref # o.ref
      BY <1>2, <1>3, <1>7, <1>8 DEF Laid, Apart
    <2>3. \A n, m \in DOMAIN arrays' : n # m => arrays'[n].ref # arrays'[m].ref
      BY <1>3, <1>7, <1>8 DEF Laid, Apart
    <2>4. \A c \in Classes' :
            /\ \A o \in Objects' : label'[c] # Reference(o.ref)
            /\ \A n \in DOMAIN arrays' : label'[c] # Reference(arrays'[n].ref)
            /\ \A d \in Classes' : c # d /\ label'[c] # Zero => label'[c] # label'[d]
      BY <1>0, <1>1, <1>2, <1>3, <1>7, <1>8 DEF Laid, Apart
    <2> QED
      BY <2>1, <2>2, <2>3, <2>4 DEF Apart
  <1>12. Labelled'
    <2>1. \A d : Passed(d)' <=> Passed(d)
      BY <1>0 DEF Passed, UnitOf
    <2> QED
      BY <1>0, <1>2, <1>8, <2>1 DEF Labelled, Laid
  <1>13. VectorsFull' /\ Headers'
    <2>1. VectorsFull'
      BY <1>0, <1>8 DEF VectorsFull, Entered
    <2>2. Headers'
      BY <1>0, <1>2, <1>8 DEF Points, Laid, Headers, UnitOf, Memory, Placed
    <2> QED
      BY <2>1, <2>2
  <1>14. ArraysKept'
    <2> SUFFICES ASSUME NEW x \in {arrays'[n] : n \in DOMAIN arrays'} PROVE ArrayKept(x)'
      BY DEF ArraysKept
    <2>1. CASE x = a
      <3>1. heap'[a.ref] = block /\ label' = label
        BY <1>0, <1>3, <1>5 DEF Grows
      <3>2. \A i \in 0..(size - 1) : a.elements[i] = Zero
        BY <1>3
      <3> QED
        BY <1>3, <1>4, <2>1, <3>1, <3>2 DEF ArrayKept
    <2>2. CASE x # a
      <3>1. PICK n \in DOMAIN arrays : x = arrays[n]
        BY <1>7, <2>2
      <3>2. ArrayKept(x) /\ heap'[x.ref] = heap[x.ref] /\ label' = label
        BY <1>0, <1>8, <3>1 DEF ArraysKept, Laid, Memory
      <3> QED
        BY <3>2 DEF ArrayKept
    <2> QED
      BY <2>1, <2>2
  <1>15. \A o \in Objects : heap'[o.ref] = heap[o.ref]
    BY <1>5 DEF Grows, Laid, Memory, Placed
  <1> QED
    BY <1>15, <1>10, <1>11, <1>12, <1>13, <1>14 DEF Laid


\* An element is stored.
LEMMA StoreElementLaid ==
    ASSUME VectorInv, Begun, Laid, ArraysKept, NEW n \in DOMAIN arrays, NEW index \in Indices,
           StoreElement(n, index)
    PROVE  Laid' /\ ArraysKept' /\ \A o \in Objects : heap'[o.ref] = heap[o.ref]
  <1> DEFINE a == arrays[n]
             b == a.ref
             block == [w \in DOMAIN heap[b] |->
                         IF w = WordOf(index) THEN Number(index) ELSE heap[b][w]]
             e == [a EXCEPT !.elements = [i \in DOMAIN @ |-> IF i = index THEN Number(index) ELSE @[i]]]
  <1>0. /\ UNCHANGED <<vars, unit, at, label, open, made>> /\ Entered
        /\ heap' = [heap EXCEPT ![b] = block]
        /\ arrays' = [arrays EXCEPT ![n] = e]
        /\ InBounds(index, heap[b][0][2])
    BY DEF StoreElement, InMain, Entered
  <1>1. unit # 0
    BY <1>0, EveryUnit DEF Entered
  <1>2. /\ Objects' = Objects /\ Finished' = Finished /\ Classes' = Classes
        /\ ConcreteClasses' = ConcreteClasses
        /\ \A d : FieldsOf(d)' = FieldsOf(d) /\ Filled(d)' = Filled(d)
    BY <1>0, SameProgram DEF Objects, Finished
  <1>3. /\ ArrayKept(a) /\ b \in DOMAIN heap /\ IsSeq(heap) /\ IsSeq(arrays)
    BY DEF ArraysKept, Laid, Memory
  <1>4. /\ e = [ref |-> b, size |-> a.size, elements |-> e.elements]
        /\ e.ref = b /\ e.size = a.size /\ DOMAIN e.elements = DOMAIN a.elements
        /\ \A i \in DOMAIN a.elements :
             e.elements[i] = IF i = index THEN Number(index) ELSE a.elements[i]
    <2>1. a = [ref |-> a.ref, size |-> a.size, elements |-> a.elements]
      BY <1>3 DEF ArrayKept
    <2>2. e = [ref |-> a.ref, size |-> a.size,
               elements |-> [i \in DOMAIN a.elements |->
                               IF i = index THEN Number(index) ELSE a.elements[i]]]
      BY <2>1
    <2> HIDE DEF a, e
    <2> QED
      BY <2>2
  <1>5. /\ DOMAIN block = DOMAIN heap[b]
        /\ \A w \in DOMAIN heap[b] :
             block[w] = IF w = WordOf(index) THEN Number(index) ELSE heap[b][w]
    OBVIOUS
  <1> HIDE DEF block, e
  <1>6. /\ IsSeq(heap') /\ DOMAIN heap' = DOMAIN heap /\ heap'[b] = block
        /\ \A c \in DOMAIN heap : c # b => heap'[c] = heap[c]
    BY <1>0, <1>3, Changed
  <1>7. /\ IsSeq(arrays') /\ DOMAIN arrays' = DOMAIN arrays /\ arrays'[n] = e
        /\ \A m \in DOMAIN arrays : m # n => arrays'[m] = arrays[m]
    BY <1>0, <1>3, Changed
  <1>8. \A m \in DOMAIN arrays : arrays'[m].ref = arrays[m].ref
    BY <1>4, <1>7
  <1>9. \A o \in Objects : o.ref \in DOMAIN heap /\ o.ref # b /\ heap'[o.ref] = heap[o.ref]
    BY <1>6 DEF Laid, Memory, Placed, Apart
  <1>10. \A c \in Classes : /\ label[c] # Zero /\ label[c] = Reference(label[c][2])
                            /\ label[c][2] \in DOMAIN heap
                            /\ heap'[label[c][2]] = heap[label[c][2]]
    <2> SUFFICES ASSUME NEW c \in Classes
                 PROVE  /\ label[c] # Zero /\ label[c] = Reference(label[c][2])
                        /\ label[c][2] \in DOMAIN heap
                        /\ heap'[label[c][2]] = heap[label[c][2]]
      OBVIOUS
    <2>1. label[c] # Zero /\ label[c] = Reference(label[c][2]) /\ label[c][2] \in DOMAIN heap
      BY <1>0, <1>1, AllLabelled DEF Laid, Labelled
    <2>2. label[c][2] # b
      BY <1>1, <2>1 DEF Laid, Apart
    <2> QED
      BY <1>6, <2>1, <2>2
  <1>11. Memory'
    <2>1. \A o \in Objects : Placed(o)'
      BY <1>2, <1>6, <1>9 DEF Laid, Memory, Placed
    <2> QED
      BY <1>0, <1>2, <1>6, <1>7, <1>8, <2>1 DEF Laid, Memory, Entered
  <1>12. Apart'
    BY <1>0, <1>2, <1>7, <1>8 DEF Laid, Apart
  <1>13. Labelled'
    BY <1>0, <1>2, <1>6, <1>10 DEF Labelled, Laid, Passed, UnitOf
  <1>14. VectorsFull'
    BY <1>0, <1>2, <1>10 DEF VectorsFull, Laid, Entered
  <1>15. Headers'
    BY <1>0, <1>2, <1>9 DEF Headers, Points, Laid, UnitOf
  <1>16. ASSUME NEW x, x = e PROVE ArrayKept(x)'
    <2> SUFFICES ASSUME Fits(a.size)
                 PROVE  /\ DOMAIN block = 0..(a.size + 1)
                        /\ block[0] = Number(a.size) /\ block[1] = label[ArraysClass]
                        /\ \A i \in 0..(a.size - 1) : block[i + 2] = e.elements[i]
      BY <1>0, <1>3, <1>4, <1>6, <1>16 DEF ArrayKept
    <2>1. /\ a.size \in Nat /\ DOMAIN a.elements = 0..(a.size - 1)
          /\ DOMAIN heap[b] = 0..(a.size + 1) /\ heap[b][0] = Number(a.size)
          /\ heap[b][1] = label[ArraysClass]
          /\ \A i \in 0..(a.size - 1) : heap[b][i + 2] = a.elements[i]
      BY <1>3 DEF ArrayKept
    <2>2. index \in 0..(a.size - 1)
      <3>1. heap[b][0][2] = a.size
        BY <2>1 DEF Number
      <3>2. index \in Int
        BY ArraysAssumption
      <3> QED
        BY <1>0, <2>1, <3>1, <3>2 DEF InBounds
    <2>3. WordOf(index) = index + 2
      BY <2>1, <2>2, ArrayWords
    <2> HIDE DEF a, b
    <2>4. DOMAIN block = 0..(a.size + 1) /\ block[0] = Number(a.size)
          /\ block[1] = label[ArraysClass]
      <3>1. 0 # index + 2 /\ 1 # index + 2 /\ 0 \in 0..(a.size + 1) /\ 1 \in 0..(a.size + 1)
        BY <2>1, <2>2
      <3> QED
        BY <1>5, <2>1, <2>3, <3>1
    <2>5. ASSUME NEW i \in 0..(a.size - 1) PROVE block[i + 2] = e.elements[i]
      <3>1. i + 2 \in 0..(a.size + 1) /\ (i + 2 = index + 2 <=> i = index)
        BY <2>1, <2>2
      <3> QED
        BY <1>4, <1>5, <2>1, <2>3, <3>1
    <2> QED
      BY <2>4, <2>5
  <1>17. ArraysKept'
    <2> SUFFICES ASSUME NEW x \in {arrays'[m] : m \in DOMAIN arrays'}, x # e PROVE ArrayKept(x)'
      BY <1>16 DEF ArraysKept
    <2>1. PICK m \in DOMAIN arrays : x = arrays[m] /\ m # n
      BY <1>7
    <2>2. ArrayKept(x) /\ x.ref # b /\ x.ref \in DOMAIN heap
      BY <2>1 DEF ArraysKept, Laid, Memory, Apart
    <2> QED
      BY <1>0, <1>6, <2>2 DEF ArrayKept
  <1> QED
    BY <1>9, <1>11, <1>12, <1>13, <1>14, <1>15, <1>17 DEF Laid

\* The other steps change no array.
LEMMA ArraysStay ==
    ASSUME ArraysKept, Memory, UNCHANGED <<arrays, label>>,
           \A n \in DOMAIN arrays : heap'[arrays[n].ref] = heap[arrays[n].ref]
    PROVE  ArraysKept'
  <1> SUFFICES ASSUME NEW a \in {arrays[n] : n \in DOMAIN arrays} PROVE ArrayKept(a)'
    BY DEF ArraysKept
  <1>1. heap'[a.ref] = heap[a.ref] /\ ArrayKept(a)
    BY DEF ArraysKept
  <1> QED
    BY <1>1 DEF ArrayKept

----------------------------------------------------------------------------
(* Constructors.                                                            *)

\* What is above a class is extended by a class.
LEMMA ExtendedBySome ==
    ASSUME Linking, NEW c \in Type, NEW d \in SuperClasses(c)
    PROVE  \E e \in Type : program[e].extended = d
  <1> DEFINE S == {u \in Type : \E e \in Type : program[e].extended = u}
  <1>1. \A u \in Type : SuperClass(u) \subseteq S
    BY Kinds DEF SuperClass
  <1> HIDE DEF S
  <1>2. SuperClass(c) \subseteq S /\ S \subseteq Type
    BY <1>1 DEF S
  <1>3. SuperClasses(c) \subseteq S
    BY <1>1, <1>2, Above
  <1> QED
    BY <1>3 DEF S

\* A superclass has one constructor without parameters of its own.
LEMMA OneDefault ==
    ASSUME Legal, NEW c \in Type, ~IsInterface(c), NEW d \in SuperClasses(c)
    PROVE  /\ \E k \in DefaultConstructors(d) : k.in = d
           /\ d # Object => \A k, l \in DefaultConstructors(d) : k.in = d /\ l.in = d => k = l
  <1>1. Linking /\ d \in ClassChain(c)
    BY DEF Legal, ClassChain
  <1>2. d \in Type /\ ~IsInterface(d) /\ program[d] \in Linked[d]
    BY <1>1, ChainOf DEF Linking
  <1>3. /\ method_list[d] = program[d].methods \cup InheritedMethods(d)
        /\ ~DuplicateSignature(Constructors(d))
    BY <1>2 DEF Legal, Checked, ClassRejected
  <1>4. PICK e \in Type : program[e].extended = d
    BY <1>1, ExtendedBySome
  <1>5. program[e] \in Linked[e] /\ d # None
    BY <1>1, <1>2, <1>4, TypesAssumption DEF Linking
  <1>6. PICK k \in program[d].methods : k.constructor /\ k.sig \in NoParameters
    BY <1>2, <1>4, <1>5, DefaultsAssumption
  <1>7. k \in DefaultConstructors(d) /\ k.in = d
    BY <1>1, <1>2, <1>3, <1>6, Kinds DEF DefaultConstructors
  <1>8. ASSUME d # Object, NEW m \in DefaultConstructors(d), NEW l \in DefaultConstructors(d),
               m.in = d, l.in = d
        PROVE  m = l
    <2>1. /\ m \in method_list[d] /\ l \in method_list[d] /\ m.constructor /\ l.constructor
          /\ {m.sig, l.sig} \subseteq NoParameters
      BY DEF DefaultConstructors
    <2>2. m \in program[d].methods /\ l \in program[d].methods
      <3>1. \A x \in program[Object].methods : x.in = Object
        BY <1>1, Kinds, TypesAssumption
      <3> QED
        BY <1>2, <1>8, <2>1, <3>1, ListedConstructor
    <2>3. m.sig = l.sig
      BY <1>2, <2>1, <2>2, DefaultsAssumption
    <2> QED
      BY <1>3, <2>1, <2>2, <2>3 DEF DuplicateSignature, SameSignature, Constructors
  <1> QED
    BY <1>7, <1>8

\* The calls of a new object are one for each class of its chain.
LEMMA CallsRemain ==
    ASSUME Legal, NEW c \in Type, ~IsInterface(c), NEW k \in Constructors(c),
           NEW o, o.class = c, o.calls = Calls(c, k), o.constructed = <<>>
    PROVE  Remaining(o)
  <1>1. \A x \in Calls(c, k) :
           /\ x[1] \in ClassChain(c) /\ x[2].in \in {x[1], Object} /\ x[2].in \in Type
           /\ \/ x = <<c, k>> /\ k.in = c
              \/ x[1] \in SuperClasses(c) /\ x[2] \in DefaultConstructors(x[1])
    <2> SUFFICES ASSUME NEW x \in Calls(c, k)
                 PROVE  /\ x[1] \in ClassChain(c) /\ x[2].in \in {x[1], Object} /\ x[2].in \in Type
                        /\ \/ x = <<c, k>> /\ k.in = c
                           \/ x[1] \in SuperClasses(c) /\ x[2] \in DefaultConstructors(x[1])
      OBVIOUS
    <2>1. /\ x[1] \in ClassChain(c) /\ x[2].in \in {x[1], Object}
          /\ \/ x = <<c, k>> /\ k.in = c
             \/ x[1] \in SuperClasses(c) /\ x[2] \in DefaultConstructors(x[1])
      BY CallsTyped
    <2>2. x \in Type \X Method
      BY CallsTyped
    <2>3. x[2].in \in Type
      BY <2>2 DEF Method
    <2> QED
      BY <2>1, <2>3
  <1>2. ASSUME NEW d \in ClassChain(c) \ {Object}
        PROVE  \E x \in Calls(c, k) : x[2].in = d
    <2>1. CASE d = c
      <3>1. <<c, k>> \in Calls(c, k) /\ k.in = c
        BY Kinds DEF Calls, Constructors, Legal
      <3> QED
        BY <2>1, <3>1
    <2>2. CASE d \in SuperClasses(c)
      <3>1. PICK l \in DefaultConstructors(d) : l.in = d
        BY <2>2, OneDefault
      <3>2. <<d, l>> \in {d} \X DefaultConstructors(d)
        OBVIOUS
      <3>3. <<d, l>> \in Calls(c, k)
        BY <2>2, <3>2, Zenon DEF Calls
      <3> QED
        BY <3>1, <3>3
    <2> QED
      BY <2>1, <2>2 DEF ClassChain
  <1>3. ASSUME NEW x \in Calls(c, k), NEW y \in Calls(c, k), x[2].in = y[2].in, x[2].in # Object
        PROVE  x = y
    <2>1. x[1] = x[2].in /\ y[1] = x[1]
      BY <1>1, <1>3
    <2>2. c \notin SuperClasses(c)
      BY Acyclic
    <2>3. CASE x[1] = c
      <3>1. x = <<c, k>> /\ y = <<c, k>>
        BY <1>1, <2>1, <2>2, <2>3
      <3> QED
        BY <3>1
    <2>4. CASE x[1] # c
      <3>1. /\ x[1] \in SuperClasses(c) /\ x[2] \in DefaultConstructors(x[1])
            /\ y[2] \in DefaultConstructors(x[1])
        <4>1. x # <<c, k>> /\ y # <<c, k>>
          BY <2>1, <2>4
        <4> QED
          BY <1>1, <2>1, <4>1
      <3>2. x[2] = y[2]
        BY <1>3, <2>1, <3>1, OneDefault
      <3>3. x = <<x[1], x[2]>> /\ y = <<y[1], y[2]>>
        BY CallsTyped
      <3> QED
        BY <2>1, <3>2, <3>3
    <2> QED
      BY <2>3, <2>4
  <1> QED
    BY <1>1, <1>2, <1>3 DEF Remaining, Remains, Ran

\* A constructor that runs leaves one call less, of those above which none is.
LEMMA OneCallLess ==
    ASSUME Legal, NEW o, NEW e, NEW x, o.class \in Type, ~IsInterface(o.class),
           o.constructed \in Seq(Type), InOrder(o), Remaining(o), x \in TopDown(o.calls),
           e.class = o.class, e.calls = o.calls \ {x},
           e.constructed = Append(o.constructed, x[2].in)
    PROVE  InOrder(e) /\ Remaining(e)
  <1> DEFINE run == {o.constructed[n] : n \in DOMAIN o.constructed}
             run1 == {e.constructed[n] : n \in DOMAIN e.constructed}
             c == x[2].in
  <1>1. /\ x \in o.calls /\ \A y \in o.calls : y[1] \notin SuperClasses(x[1])
        /\ x[1] \in ClassChain(o.class) /\ c \in {x[1], Object} /\ c \in Type
    BY DEF TopDown, Remaining, Remains, Ran
  <1>2. /\ DOMAIN o.constructed = 1..Len(o.constructed) /\ Len(o.constructed) \in Nat
        /\ DOMAIN e.constructed = 1..(Len(o.constructed) + 1)
        /\ e.constructed[Len(o.constructed) + 1] = c
        /\ \A n \in DOMAIN o.constructed : e.constructed[n] = o.constructed[n]
    BY <1>1
  <1>3. run1 = run \cup {c}
    BY <1>2
  <1>4. Remaining(e)
    <2>1. /\ \A y \in o.calls : /\ y[1] \in ClassChain(o.class) /\ y[2].in \in {y[1], Object}
                                /\ y[2].in \in Type
          /\ \A d \in ClassChain(o.class) \ {Object} :
               d \in run \/ \E y \in o.calls : y[2].in = d
          /\ \A y, z \in o.calls : y[2].in = z[2].in /\ y[2].in # Object => y = z
          /\ \A d \in run \ {Object}, y \in o.calls :
               y[2].in # Object => y[2].in # d /\ y[2].in \notin SuperClasses(d)
      BY DEF Remaining, Remains, Ran
    <2> HIDE DEF run
    <2>2. ASSUME NEW d \in ClassChain(o.class) \ {Object}
          PROVE  d \in run1 \/ \E y \in e.calls : y[2].in = d
      BY <1>3, <2>1
    <2>3. ASSUME NEW d \in run1 \ {Object}, NEW y \in e.calls, y[2].in # Object
          PROVE  y[2].in # d /\ y[2].in \notin SuperClasses(d)
      <3>1. CASE d \in run
        BY <2>1, <2>3, <3>1
      <3>2. CASE d = c
        <4>1. c = x[1] /\ y[2].in = y[1] /\ y \in o.calls /\ y # x
          BY <1>1, <2>1, <2>3, <3>2
        <4> QED
          BY <1>1, <2>1, <2>3, <3>2, <4>1
      <3> QED
        BY <1>3, <3>1, <3>2
    <2> HIDE DEF run1
    <2>4. /\ \A y \in e.calls : /\ y[1] \in ClassChain(e.class) /\ y[2].in \in {y[1], Object}
                                /\ y[2].in \in Type
          /\ \A d \in ClassChain(e.class) \ {Object} :
               d \in run1 \/ \E y \in e.calls : y[2].in = d
          /\ \A y, z \in e.calls : y[2].in = z[2].in /\ y[2].in # Object => y = z
          /\ \A d \in run1 \ {Object}, y \in e.calls :
               y[2].in # Object => y[2].in # d /\ y[2].in \notin SuperClasses(d)
      BY <2>1, <2>2, <2>3
    <2> QED
      BY <2>4 DEF Remaining, Remains, Ran, run1
  <1>5. ASSUME NEW n \in DOMAIN e.constructed
        PROVE  e.constructed[n] \in ClassChain(e.class) \cup {Object}
    BY <1>1, <1>2, <1>5 DEF InOrder
  <1>6. ASSUME NEW n \in DOMAIN e.constructed, NEW m \in 1..(n - 1)
        PROVE  \/ Object \in {e.constructed[m], e.constructed[n]}
               \/ e.constructed[m] \in SuperClasses(e.constructed[n])
    <2>1. m \in DOMAIN o.constructed /\ e.constructed[m] = o.constructed[m]
      BY <1>2
    <2>2. CASE n \in DOMAIN o.constructed
      BY <1>2, <2>1, <2>2 DEF InOrder
    <2>3. CASE n = Len(o.constructed) + 1
      <3> DEFINE d == o.constructed[m]
      <3> SUFFICES ASSUME c # Object, d # Object PROVE d \in SuperClasses(c)
        BY <1>2, <2>1, <2>3
      <3>1. c # d /\ c \notin SuperClasses(d)
        BY <1>1, <2>1 DEF Remaining, Remains, Ran
      <3>2. c \in ClassChain(o.class) /\ d \in ClassChain(o.class)
        BY <1>1, <2>1 DEF InOrder
      <3>3. c \in ClassChain(d) \/ d \in ClassChain(c)
        BY <3>2, ChainLinear DEF Legal
      <3> QED
        BY <3>1, <3>3 DEF ClassChain
    <2> QED
      BY <1>2, <2>2, <2>3
  <1> QED
    BY <1>4, <1>5, <1>6 DEF InOrder

----------------------------------------------------------------------------
(* What objects have been given.                                            *)

\* A value that is as declared stays so.
LEMMA DeclaredStays ==
    ASSUME UNCHANGED initialiser, Finished \subseteq Finished',
           NEW f, NEW v, AsDeclared(f, v)
    PROVE  AsDeclared(f, v)'
  <1>1. (CreatesObject(f)' <=> CreatesObject(f)) /\ Given(f)' = Given(f) /\ Constant(f)' = Constant(f)
    BY DEF CreatesObject, Given, Constant
  <1> QED
    BY <1>1 DEF AsDeclared

\* An object that does not change, nor its block.
LEMMA FieldsStay ==
    ASSUME UNCHANGED <<vars, initialiser>>, Finished \subseteq Finished',
           NEW o, FieldsKept(o), heap'[o.ref] = heap[o.ref]
    PROVE  FieldsKept(o)'
  <1>1. FieldsOf(o.class)' = FieldsOf(o.class)
    BY SameProgram
  <1>2. ASSUME NEW i \in 1..o.fields, o.stored[i] = None
        PROVE  AsDeclared(FieldsOf(o.class)[i], heap[o.ref][i])'
    <2> DEFINE f == FieldsOf(o.class)[i]
               v == heap[o.ref][i]
    <2>1. AsDeclared(f, v)
      BY <1>2 DEF FieldsKept
    <2>2. PICK g, w : g = f /\ w = v
      OBVIOUS
    <2>3. AsDeclared(g, w)
      BY <2>1, <2>2
    <2>4. AsDeclared(g, w)'
      BY <2>3, DeclaredStays
    <2>5. FieldsOf(o.class)'[i] = g /\ heap'[o.ref][i] = w
      BY <1>1, <2>2
    <2> QED
      BY <2>4, <2>5
  <1> QED
    BY <1>1, <1>2 DEF FieldsKept

\* The chain of constructors of an object that does not change.
LEMMA ChainStays ==
    ASSUME UNCHANGED vars, NEW o
    PROVE  /\ InOrder(o)' <=> InOrder(o)
           /\ Remaining(o)' <=> Remaining(o)
           /\ Complete(o)' <=> Complete(o)
           /\ \A c : Waits(o, c) /\ UNCHANGED initialiser => Waits(o, c)'
  <1>1. /\ \A c : /\ SuperClasses(c)' = SuperClasses(c) /\ ClassChain(c)' = ClassChain(c)
                  /\ FieldsOf(c)' = FieldsOf(c)
    BY SameProgram
  <1> QED
    BY <1>1 DEF InOrder, Remaining, Remains, Ran, Complete, Waits, Given

\* Steps that leave the objects alone.
LEMMA ObjectsQuiet ==
    ASSUME Constructed, FieldsGiven, UNCHANGED <<vars, initialiser, open, made>>,
           \A o \in Objects : heap'[o.ref] = heap[o.ref]
    PROVE  Constructed' /\ FieldsGiven'
  <1>1. Objects' = Objects /\ Opened' = Opened /\ Finished' = Finished
    BY DEF Objects, Opened, Finished
  <1>2. Constructed'
    BY <1>1, ChainStays DEF Constructed
  <1>3. FieldsGiven'
    BY <1>1, FieldsStay DEF FieldsGiven
  <1> QED
    BY <1>2, <1>3

\* Steps of the innermost object.
LEMMA TopGiven ==
    ASSUME Memory, Apart, Constructed, FieldsGiven, open # <<>>, UNCHANGED <<vars, initialiser, made>>,
           NEW e, TopBecomes(e), GoesOn(e, This), OnlyBlock(This.ref),
           InOrder(e), Remaining(e), FieldsKept(e)'
    PROVE  Constructed' /\ FieldsGiven'
  <1>1. /\ DOMAIN open' = DOMAIN open /\ Finished' = Finished
        /\ \A o \in Objects' : o = e \/ (o \in Objects /\ o.ref # This.ref)
    BY OthersStay
  <1>2. \A o \in Opened' : o = e \/ o \in Opened
    BY <1>1, Top DEF Opened, TopBecomes
  <1>3. Constructed'
    BY <1>1, <1>2, ChainStays DEF Constructed
  <1>4. FieldsGiven'
    <2> SUFFICES ASSUME NEW o \in Objects' PROVE FieldsKept(o)'
      BY DEF FieldsGiven
    <2>1. CASE o = e
      BY <2>1
    <2>2. CASE o # e
      <3>1. o \in Objects /\ o.ref # This.ref
        BY <1>1, <2>2
      <3>2. heap'[o.ref] = heap[o.ref]
        BY <3>1 DEF OnlyBlock, Memory, Placed
      <3> QED
        BY <1>1, <3>1, <3>2, FieldsStay DEF FieldsGiven
    <2> QED
      BY <2>1, <2>2
  <1> QED
    BY <1>3, <1>4

\* The initial value of a field is stored.
LEMMA StoreGiven ==
    ASSUME Memory, Apart, Constructed, FieldsGiven, ResultFits, NEW f, StoreField(f)
    PROVE  Constructed' /\ FieldsGiven'
  <1>0. UNCHANGED <<vars, initialiser, made>> /\ open # <<>> /\ Initialises(f) /\ result # None
    BY DEF StoreField
  <1>1. PICK e : /\ TopBecomes(e) /\ GoesOn(e, This) /\ e.fields = This.fields + 1
                 /\ e.calls = This.calls /\ e.constructed = This.constructed
                 /\ e.stored = This.stored
                 /\ OnlyBlock(This.ref) /\ heap'[This.ref][This.fields + 1] = result
                 /\ This.fields + 1 \in 1..Len(FieldsOf(This.class))
                 /\ f = FieldsOf(This.class)[This.fields + 1]
                 /\ \A w \in DOMAIN heap[This.ref] :
                      w # This.fields + 1 => heap'[This.ref][w] = heap[This.ref][w]
    BY StoreEffect
  <1>2. /\ This \in Objects /\ This \in Opened /\ This \in Creation /\ Placed(This)
        /\ e.class = This.class /\ e.ref = This.ref
    BY <1>0, <1>1, Top DEF Opened, This, GoesOn
  <1>3. InOrder(e) /\ Remaining(e)
    <2>1. InOrder(This) /\ Remaining(This)
      BY <1>2 DEF Constructed
    <2>2. /\ e.calls = This.calls /\ e.constructed = This.constructed
          /\ e.class = This.class
      BY <1>1, <1>2
    <2>3. InOrder(e)
      BY <2>1, <2>2, Zenon DEF InOrder
    <2>4. Ran(e) = Ran(This)
      BY <2>2 DEF Ran
    <2>5. Remaining(e)
      BY <2>1, <2>2, <2>4 DEF Remaining
    <2> QED
      BY <2>3, <2>5
  <1>4. /\ \A c : FieldsOf(c)' = FieldsOf(c)
        /\ Finished' = Finished
    BY <1>0, <1>2, SameProgram DEF Finished
  <1>5. /\ This.fields \in Nat /\ Len(FieldsOf(This.class)) = Len(This.stored)
        /\ DOMAIN This.stored = 1..Len(This.stored) /\ Len(This.stored) \in Nat
        /\ DOMAIN heap[This.ref] = 0..Len(This.stored)
    BY <1>2 DEF Creation, Placed
  <1>6. \A i \in DOMAIN This.stored : This.stored[i] = None
    BY <1>1, <1>2, <1>5 DEF FieldsGiven, FieldsKept
  <1>7. ASSUME NEW i \in 1..e.fields
        PROVE  AsDeclared(FieldsOf(e.class)[i], heap[e.ref][i])'
    <2> DEFINE g0 == FieldsOf(This.class)[i]
               v0 == IF i = e.fields THEN result ELSE heap[This.ref][i]
    <2>1. AsDeclared(g0, v0)
      <3>1. CASE i = e.fields
        BY <1>0, <1>1, <3>1 DEF ResultFits
      <3>2. CASE i # e.fields
        <4>1. i \in 1..This.fields /\ i \in DOMAIN This.stored
          BY <1>1, <1>5, <3>2
        <4> QED
          BY <1>2, <1>6, <3>2, <4>1 DEF FieldsGiven, FieldsKept
      <3> QED
        BY <3>1, <3>2
    <2>2. PICK g, v : g = g0 /\ v = v0
      OBVIOUS
    <2>3. AsDeclared(g, v)
      BY <2>1, <2>2
    <2>4. AsDeclared(g, v)'
      BY <1>0, <1>4, <2>3, DeclaredStays
    <2>5. FieldsOf(e.class)'[i] = g
      BY <1>2, <1>4, <2>2
    <2>6. heap'[e.ref][i] = v
      BY <1>1, <1>2, <1>5, <2>2
    <2> QED
      BY <2>4, <2>5, <2>6
  <1>8. FieldsKept(e)'
    BY <1>1, <1>5, <1>6, <1>7 DEF FieldsKept
  <1> QED
    BY <1>0, <1>1, <1>3, <1>8, TopGiven

\* A constructor runs.
LEMMA ConstructGiven ==
    ASSUME VectorInv, Begun, unit # 0, Memory, Apart, Constructed, FieldsGiven,
           NEW x, NEW n, Construct(x, n)
    PROVE  Constructed' /\ FieldsGiven'
  <1>0. /\ UNCHANGED <<vars, initialiser, made>> /\ open # <<>> /\ x \in TopDown(This.calls)
    BY DEF Construct
  <1>1. PICK e : /\ TopBecomes(e) /\ GoesOn(e, This) /\ e.fields = This.fields
                 /\ e.calls = This.calls \ {x}
                 /\ e.constructed = Append(This.constructed, x[2].in)
                 /\ OnlyBlock(This.ref) /\ This.fields = Len(FieldsOf(This.class))
                 /\ \A i \in 1..Len(This.stored) :
                      IF i = n THEN e.stored[i] = x[2].in /\ heap'[This.ref][i] = StoredBy(x[2].in)
                      ELSE e.stored[i] = This.stored[i] /\ heap'[This.ref][i] = heap[This.ref][i]
    BY ConstructEffect
  <1>2. /\ This \in Objects /\ This \in Opened /\ This \in Creation /\ Placed(This)
        /\ e.class = This.class /\ e.ref = This.ref
    BY <1>0, <1>1, Top DEF Opened, This, GoesOn
  <1>3. InOrder(e) /\ Remaining(e)
    <2>1. Legal /\ This.class \in Type /\ ~IsInterface(This.class)
      BY <1>2, Running0 DEF Placed, ConcreteClasses
    <2>2. This.constructed \in Seq(Type) /\ InOrder(This) /\ Remaining(This)
      BY <1>2 DEF Creation, Constructed
    <2> QED
      BY <1>0, <1>1, <1>2, <2>1, <2>2, OneCallLess
  <1>4. /\ \A c : FieldsOf(c)' = FieldsOf(c)
        /\ Finished' = Finished
    BY <1>0, SameProgram DEF Finished
  <1>5. /\ This.fields \in Nat /\ This.fields = Len(This.stored)
        /\ Len(FieldsOf(This.class)) = This.fields
    BY <1>1, <1>2 DEF Creation, Placed
  <1>6. x[2].in # None
    BY <1>0, <1>2, TypesAssumption DEF TopDown, Constructed, Remaining, Remains, Ran
  <1>7. ASSUME NEW i \in 1..e.fields
        PROVE  (IF e.stored[i] = None THEN AsDeclared(FieldsOf(e.class)[i], heap[e.ref][i])
                                      ELSE heap[e.ref][i] = StoredBy(e.stored[i]))'
    <2>1. i \in 1..Len(This.stored) /\ i \in 1..This.fields
      BY <1>1, <1>5
    <2>2. CASE i = n
      BY <1>1, <1>2, <1>6, <2>1, <2>2
    <2>3. CASE i # n /\ This.stored[i] # None
      BY <1>1, <1>2, <2>1, <2>3 DEF FieldsGiven, FieldsKept
    <2>4. CASE i # n /\ This.stored[i] = None
      <3> DEFINE g0 == FieldsOf(This.class)[i]
                 v0 == heap[This.ref][i]
      <3>1. AsDeclared(g0, v0)
        BY <1>2, <2>1, <2>4 DEF FieldsGiven, FieldsKept
      <3>2. PICK g, v : g = g0 /\ v = v0
        OBVIOUS
      <3>3. AsDeclared(g, v)
        BY <3>1, <3>2
      <3>4. AsDeclared(g, v)'
        BY <1>0, <1>4, <3>3, DeclaredStays
      <3>5. FieldsOf(e.class)'[i] = g /\ heap'[e.ref][i] = v /\ e.stored[i] = None
        BY <1>1, <1>2, <1>4, <2>1, <2>4, <3>2
      <3> QED
        BY <3>4, <3>5
    <2> QED
      BY <2>2, <2>3, <2>4
  <1>8. FieldsKept(e)'
    <2>1. FieldsOf(e.class)' = FieldsOf(This.class) /\ e.fields = This.fields
      BY <1>1, <1>2, <1>4
    <2>2. ~(e.fields < Len(FieldsOf(e.class)'))
      BY <1>5, <2>1
    <2> QED
      BY <1>7, <2>2 DEF FieldsKept
  <1> QED
    BY <1>0, <1>1, <1>3, <1>8, TopGiven

\* An object is created.
LEMMA CreateGiven ==
    ASSUME VectorInv, Begun, unit # 0, Memory, Constructed, FieldsGiven,
           NEW c \in ConcreteClasses, NEW k \in Constructors(c), NewObject(c, k)
    PROVE  Constructed' /\ FieldsGiven'
  <1>0. UNCHANGED <<vars, initialiser, made>>
    BY DEF NewObject
  <1>1. PICK e, block :
             /\ e \in Creation /\ e.ref = Len(heap) + 1 /\ e.class = c
             /\ e.fields = 0 /\ e.calls = Calls(c, k) /\ e.constructed = <<>>
             /\ \A i \in DOMAIN e.stored : e.stored[i] = None
             /\ Grows(block)
             /\ open' \in Seq(Creation) /\ Len(open') = Len(open) + 1
             /\ open'[Len(open) + 1] = e /\ Len(open) \in Nat
             /\ \A j \in DOMAIN open : j # Len(open) + 1 /\ open'[j] = open[j]
             /\ Objects' = Objects \cup {e}
    BY CreateEffect
  <1>2. Finished' = Finished
    BY <1>0 DEF Finished
  <1>3. \A o \in Opened' : o = e \/ o \in Opened
    <2>1. DOMAIN open = 1..Len(open) /\ DOMAIN open' = 1..(Len(open) + 1)
      BY <1>1 DEF Memory
    <2> QED
      BY <1>1, <2>1 DEF Opened
  <1>4. Legal /\ c \in Type /\ ~IsInterface(c)
    BY Running0 DEF ConcreteClasses
  <1>5. InOrder(e) /\ Remaining(e)
    <2>1. InOrder(e)
      BY <1>1 DEF InOrder
    <2> QED
      BY <1>1, <1>4, <2>1, CallsRemain
  <1>6. Constructed'
    BY <1>0, <1>1, <1>2, <1>3, <1>5, ChainStays DEF Constructed
  <1>7. FieldsKept(e)'
    <2>1. 1..e.fields = {}
      BY <1>1
    <2> QED
      BY <1>1, <2>1 DEF FieldsKept
  <1>8. \A o \in Objects : heap'[o.ref] = heap[o.ref]
    BY <1>1 DEF Grows, Memory, Placed
  <1>9. FieldsGiven'
    BY <1>0, <1>1, <1>2, <1>7, <1>8, FieldsStay DEF FieldsGiven
  <1> QED
    BY <1>6, <1>9

\* An object is finished.
LEMMA FinishGiven ==
    ASSUME Memory, Constructed, FieldsGiven, Finish
    PROVE  Constructed' /\ FieldsGiven'
  <1>0. UNCHANGED <<vars, initialiser, heap>> /\ FieldsDone(This) /\ This.calls = {} /\ open # <<>>
    BY DEF Finish
  <1>1. /\ Len(open') = Len(open) - 1 /\ open' \in Seq(Creation)
        /\ \A j \in 1..(Len(open) - 1) : open'[j] = open[j]
        /\ Finished' = Finished \cup {This} /\ Objects' = Objects
    BY FinishEffect
  <1>2. /\ This \in Objects /\ This \in Opened
        /\ DOMAIN open = 1..Len(open) /\ Len(open) \in Nat
    BY <1>0, Top DEF Opened, This, Memory
  <1>3. Opened' \subseteq Opened
    BY <1>1, <1>2 DEF Opened
  <1>4. Complete(This)
    <2> DEFINE run == {This.constructed[n] : n \in DOMAIN This.constructed}
    <2>1. \A d \in ClassChain(This.class) \ {Object} : d \in run
      BY <1>0, <1>2 DEF Constructed, Remaining, Remains, Ran
    <2> QED
      BY <1>0, <2>1 DEF Complete, FieldsDone
  <1>5. Constructed'
    BY <1>0, <1>1, <1>3, <1>4, ChainStays DEF Constructed
  <1>6. FieldsGiven'
    BY <1>0, <1>1, FieldsStay DEF FieldsGiven
  <1> QED
    BY <1>5, <1>6

----------------------------------------------------------------------------
(* The order in which fields are given their values.                        *)

\* A static field is one its class declares.
LEMMA StaticFieldAt ==
    ASSUME VectorInv, Begun, unit # 0, NEW f \in StaticFields
    PROVE  /\ f.in \in Classes /\ f.in \in Type /\ ~IsInterface(f.in) /\ IsStaticField(f)
           /\ Len(Fields[f.in]) \in Nat /\ DOMAIN Fields[f.in] = 1..Len(Fields[f.in])
           /\ \E i \in DOMAIN Fields[f.in] : OwnFields(f.in)[i] = f
  <1>1. f.in \in Classes /\ IsStaticField(f) /\ f \in DeclaredFields
    BY DEF StaticFields
  <1>2. f.in \in Type /\ ~IsInterface(f.in)
    BY <1>1, Running0
  <1>3. Len(Fields[f.in]) \in Nat /\ DOMAIN Fields[f.in] = 1..Len(Fields[f.in])
    <2>1. Fields[f.in] \in Seq(STRING)
      BY <1>2, FieldsAssumption
    <2> QED
      BY <2>1
  <1>4. PICK c \in Type : f \in ToSet(OwnFields(c))
    BY <1>1 DEF DeclaredFields
  <1>5. PICK i \in DOMAIN Fields[c] : f = [in |-> c, name |-> Fields[c][i]]
    BY <1>4 DEF ToSet, OwnFields
  <1>6. f.in = c /\ OwnFields(c)[i] = f
    BY <1>5 DEF OwnFields
  <1> QED
    BY <1>1, <1>2, <1>3, <1>6

\* A static field whose code has not run has still none after a step that only
\* moves on.
LEMMA StaticsGo ==
    ASSUME UNCHANGED <<vars, initialiser, statics>>, Finished \subseteq Finished', StaticsGiven,
           \A f \in StaticFields : Behind(f)' => Behind(f)
    PROVE  StaticsGiven'
  <1> SUFFICES ASSUME NEW f \in StaticFields, Behind(f)' PROVE AsDeclared(f, statics[f])'
    BY SameProgram DEF StaticsGiven
  <1>1. PICK v : v = statics[f]
    OBVIOUS
  <1>2. AsDeclared(f, v)
    BY <1>1 DEF StaticsGiven
  <1>3. AsDeclared(f, v)'
    BY <1>2, DeclaredStays
  <1>4. statics'[f] = v
    BY <1>1
  <1> QED
    BY <1>3, <1>4

\* The code stays where it is.
LEMMA BehindStays ==
    ASSUME UNCHANGED <<unit, at>>, NEW f
    PROVE  Behind(f)' <=> Behind(f)
  BY DEF Behind, UnitOf, OwnFields

\* After the last field of its class the code of a unit is behind.
LEMMA UnitBehind ==
    ASSUME VectorInv, Begun, InUnits, IsInterface(Units[unit]) \/ at > Len(Fields[Units[unit]]),
           unit' = unit + 1, at' = 0, NEW f \in StaticFields, Behind(f)'
    PROVE  Behind(f)
  <1>1. unit \in 1..Len(Units) /\ Len(Units) \in Nat /\ unit # 0
    BY EveryUnit, UnitsAssumption DEF InUnits
  <1>2. /\ f.in \in Type /\ ~IsInterface(f.in)
        /\ Len(Fields[f.in]) \in Nat /\ DOMAIN Fields[f.in] = 1..Len(Fields[f.in])
        /\ \E i \in DOMAIN Fields[f.in] : OwnFields(f.in)[i] = f
    BY <1>1, StaticFieldAt
  <1>3. UnitOf(f.in) \in 1..Len(Units) /\ Units[UnitOf(f.in)] = f.in
    BY <1>2, UnitBounds
  <1>4. UnitOf(f.in) < unit + 1
    <2>1. UnitOf(f.in)' = UnitOf(f.in)
      BY DEF UnitOf
    <2>2. \A i \in DOMAIN Fields[f.in] : ~(i < at')
      BY <1>2
    <2> QED
      BY <2>1, <2>2 DEF Behind
  <1>5. CASE UnitOf(f.in) < unit
    BY <1>5 DEF Behind
  <1>6. CASE UnitOf(f.in) = unit
    <2>1. at > Len(Fields[f.in]) /\ at \in Nat
      BY <1>2, <1>3, <1>6 DEF Begun
    <2>2. \A i \in 1..Len(Fields[f.in]) : i < at
      BY <1>2, <2>1
    <2> QED
      BY <1>2, <1>6, <2>2 DEF Behind
  <1> QED
    BY <1>1, <1>3, <1>4, <1>5, <1>6

\* One field at a time is to be given a value.
LEMMA OneInitialised ==
    ASSUME NEW f, NEW g, Initialises(f), Initialises(g)
    PROVE  f = g
  BY DEF Initialises, Running

\* It stays the same while neither the stack nor the code moves.
LEMMA InitialisesStays ==
    ASSUME UNCHANGED <<vars, unit, at, open>>, NEW f
    PROVE  Initialises(f)' <=> Initialises(f)
  <1>1. /\ Classes' = Classes /\ \A c : FieldsOf(c)' = FieldsOf(c) /\ IsInterface(c)' = IsInterface(c)
    BY SameProgram
  <1> QED
    BY <1>1 DEF Initialises, Running, InUnits, This, OwnFields, IsStaticField

\* With no field to be given a value there is none to store.
LEMMA NoResult ==
    ASSUME ResultFits, ~Entered, \A f : ~Initialises(f)
    PROVE  result = None
  BY DEF ResultFits

\* A value, or none, that is not to be stored yet.
LEMMA NothingToStore ==
    ASSUME result' = None \/ (Entered' /\ \A f : ~Initialises(f)')
    PROVE  ResultFits'
  BY DEF ResultFits

\* In the program's own code no field is initialised that is not an object's.
LEMMA NoneInMain ==
    ASSUME Entered, open = <<>>
    PROVE  \A f : ~Initialises(f)
  BY EveryUnit DEF Initialises, Running, InUnits, Entered

----------------------------------------------------------------------------
(* The steps, one by one.                                                   *)

\* The program goes on.
LEMMA BegunStays ==
    ASSUME Begun, unit # 0, UNCHANGED <<vars, initialiser>>, unit' \in 1..(Len(Units) + 1), at' \in Nat,
           label' = [c \in Classes |-> label'[c]], statics' = [f \in StaticFields |-> statics'[f]]
    PROVE  Begun'
  <1>1. phase' = phase /\ class_dvs' = class_dvs
    BY DEF vars, dispatchVars
  <1>2. /\ Classes' = Classes /\ ConcreteClasses' = ConcreteClasses /\ StaticFields' = StaticFields
        /\ \A c : FieldsOf(c)' = FieldsOf(c)
    BY SameProgram
  <1>3. \A f : (CreatesObject(f)' <=> CreatesObject(f)) /\ Given(f)' = Given(f)
    BY DEF CreatesObject, Given
  <1>4. unit' # 0 /\ unit' \in 0..(Len(Units) + 1)
    BY EveryUnit
  <1> QED
    BY <1>1, <1>2, <1>3, <1>4 DEF Begun

\* Nothing waits while nothing is created.
LEMMA NoneWaits ==
    ASSUME open' = <<>>
    PROVE  Waiting'
  BY DEF Waiting

\* The unit whose code runs is one, and a class's fields are numbered from 1.
LEMMA RunningUnit ==
    ASSUME VectorInv, Begun, unit # 0, NEW c \in Classes, Running(c)
    PROVE  /\ unit \in 1..Len(Units) /\ Len(Units) \in Nat /\ unit = UnitOf(c) /\ c \in Type
           /\ Units[unit] = c /\ open = <<>> /\ ~Entered
           /\ DOMAIN Fields[c] = 1..Len(Fields[c]) /\ Len(Fields[c]) \in Nat /\ at \in Nat
           /\ \A d \in Type : UnitOf(d) = unit => d = c
  <1>1. /\ unit \in 1..Len(Units) /\ Len(Units) \in Nat /\ Units[unit] = c /\ open = <<>>
    BY EveryUnit, UnitsAssumption DEF Running, InUnits
  <1>2. c \in Type
    BY Running0
  <1>3. Fields[c] \in Seq(STRING)
    BY <1>2, FieldsAssumption
  <1>4. unit = UnitOf(c) /\ \A d \in Type : UnitOf(d) = unit => d = c
    BY <1>1, <1>2, UnitBounds
  <1> QED
    BY <1>1, <1>2, <1>3, <1>4 DEF Begun, Entered

\* The next unit.
LEMMA NextUnitStep ==
    ASSUME VectorInv, StartupInv, unit # 0, NextUnit, UNCHANGED arrays
    PROVE  StartupInv'
  <1> USE DEF StartupInv
  <1>0. /\ UNCHANGED <<vars, initialiser, label, statics, heap, result, open, made>>
        /\ open = <<>> /\ InUnits /\ unit < Len(Units) /\ unit' = unit + 1 /\ at' = 0
        /\ IsInterface(Units[unit]) \/ at > Len(Fields[Units[unit]])
    BY DEF NextUnit
  <1>1. unit \in 1..Len(Units) /\ Len(Units) \in Nat /\ unit \in Nat /\ unit' # 0
        /\ ~Entered /\ ~Entered' /\ unit' \in 1..(Len(Units) + 1)
    BY <1>0, EveryUnit, UnitsAssumption, SMTT(30) DEF InUnits, Entered
  <1>2. Begun'
    BY <1>0, <1>1, BegunStays DEF Begun
  <1>3. Laid'
    <2>1. ASSUME NEW c \in Classes PROVE Passed(c)' <=> Passed(c)
      <3>1. c \in Type /\ ~IsInterface(c)
        BY Running0
      <3>2. /\ UnitOf(c) \in 1..Len(Units) /\ Units[UnitOf(c)] = c /\ UnitOf(c)' = UnitOf(c)
        BY <3>1, UnitBounds DEF UnitOf
      <3>3. UnitOf(c) = unit => at > 0
        <4>1. Fields[c] \in Seq(STRING)
          BY <3>1, FieldsAssumption
        <4>2. Len(Fields[c]) \in Nat /\ at \in Nat
          BY <4>1 DEF Begun
        <4>3. UnitOf(c) = unit => at > Len(Fields[c])
          BY <1>0, <3>1, <3>2
        <4> QED
          BY <4>2, <4>3
      <3> QED
        BY <1>0, <1>1, <3>2, <3>3 DEF Passed
    <2> QED
      BY <1>0, <1>1, <2>1, ControlLaid
  <1>4. ArraysKept'
    BY <1>0, ArraysStay DEF Laid
  <1>5. Constructed' /\ FieldsGiven'
    BY <1>0, ObjectsQuiet
  <1>6. Waiting'
    BY <1>0, NoneWaits
  <1>7. ResultFits'
    <2>1. ASSUME NEW c \in Classes, Running(c) PROVE at \notin DOMAIN Fields[c]
      BY <1>0, <2>1, RunningUnit DEF Running
    <2>2. \A f : ~Initialises(f)
      BY <1>0, <2>1 DEF Initialises
    <2> QED
      BY <1>0, <1>1, <2>2, NoResult, NothingToStore
  <1>8. StaticsGiven'
    <2>1. Finished \subseteq Finished'
      BY <1>0 DEF Finished
    <2> QED
      BY <1>0, <2>1, UnitBehind, StaticsGo
  <1> QED
    BY <1>2, <1>3, <1>4, <1>5, <1>6, <1>7, <1>8

\* A field that is not static.
LEMMA SkipFieldStep ==
    ASSUME VectorInv, StartupInv, unit # 0, NEW c \in Classes, SkipField(c), UNCHANGED arrays
    PROVE  StartupInv'
  <1> USE DEF StartupInv
  <1>0. /\ UNCHANGED <<vars, initialiser, unit, label, statics, heap, result, open, made>>
        /\ Running(c) /\ at' = at + 1 /\ at \in DOMAIN Fields[c] /\ ~IsStaticField(OwnFields(c)[at])
    BY DEF SkipField
  <1>1. /\ unit \in 1..Len(Units) /\ Len(Units) \in Nat /\ unit = UnitOf(c) /\ c \in Type
        /\ Units[unit] = c /\ open = <<>> /\ ~Entered
        /\ at \in Nat /\ at > 0 /\ \A d \in Type : UnitOf(d) = unit => d = c
    BY <1>0, RunningUnit
  <1>2. Begun'
    BY <1>0, <1>1, BegunStays DEF Begun
  <1>3. Laid'
    <2>1. \A d \in Classes : Passed(d)' <=> Passed(d)
      BY <1>0, <1>1 DEF Passed, UnitOf
    <2> QED
      BY <1>0, <1>1, <2>1, ControlLaid DEF Entered
  <1>4. ArraysKept'
    BY <1>0, ArraysStay DEF Laid
  <1>5. Constructed' /\ FieldsGiven'
    BY <1>0, ObjectsQuiet
  <1>6. Waiting'
    BY <1>0, <1>1, NoneWaits
  <1>7. ResultFits'
    <2>1. \A f : ~Initialises(f)
      BY <1>0, <1>1 DEF Initialises, Running
    <2> QED
      BY <1>0, <1>1, <2>1, NoResult, NothingToStore
  <1>8. StaticsGiven'
    <2>1. Finished \subseteq Finished'
      BY <1>0 DEF Finished
    <2>2. ASSUME NEW f \in StaticFields, Behind(f)' PROVE Behind(f)
      <3>1. f.in \in Type /\ IsStaticField(f) /\ UnitOf(f.in)' = UnitOf(f.in)
            /\ DOMAIN Fields[f.in] = 1..Len(Fields[f.in]) /\ Len(Fields[f.in]) \in Nat
        BY StaticFieldAt DEF UnitOf
      <3>2. CASE UnitOf(f.in) < unit
        BY <3>2 DEF Behind
      <3>3. CASE ~(UnitOf(f.in) < unit)
        <4>1. UnitOf(f.in) = unit
          BY <1>0, <2>2, <3>1, <3>3 DEF Behind
        <4>2. PICK i \in DOMAIN Fields[f.in] : i < at + 1 /\ OwnFields(f.in)[i] = f
          BY <1>0, <2>2, <3>1, <3>3 DEF Behind, OwnFields
        <4>3. i # at
          BY <1>0, <1>1, <3>1, <4>1, <4>2
        <4>4. i < at
          BY <1>1, <3>1, <4>2, <4>3
        <4> QED
          BY <4>1, <4>2, <4>4 DEF Behind
      <3> QED
        BY <3>2, <3>3
    <2> QED
      BY <1>0, <2>1, <2>2, StaticsGo
  <1> QED
    BY <1>0, <1>2, <1>3, <1>4, <1>5, <1>6, <1>7, <1>8

\* A class's vector.
LEMMA AllocateVectorStep ==
    ASSUME VectorInv, StartupInv, unit # 0, NEW c \in Classes, AllocateVector(c), UNCHANGED arrays
    PROVE  StartupInv'
  <1> USE DEF StartupInv
  <1>0. /\ UNCHANGED <<vars, initialiser, unit, statics, result, open, made>>
        /\ Running(c) /\ at = 0 /\ at' = 1
        /\ label' = [label EXCEPT ![c] = Reference(Len(heap) + 1)]
    BY DEF AllocateVector
  <1>1. /\ unit \in 1..Len(Units) /\ Len(Units) \in Nat /\ open = <<>> /\ ~Entered
        /\ DOMAIN Fields[c] = 1..Len(Fields[c]) /\ Units[unit] = c
    BY <1>0, RunningUnit
  <1>2. Begun'
    <2>1. label = [d \in Classes |-> label[d]] /\ statics = [f \in StaticFields |-> statics[f]]
      BY DEF Begun
    <2>2. label' = [d \in Classes |-> label'[d]]
      BY <1>0, <2>1
    <2>3. unit' \in 1..(Len(Units) + 1) /\ at' \in Nat
      BY <1>0, <1>1
    <2> QED
      BY <1>0, <2>1, <2>2, <2>3, BegunStays
  <1>3. Laid'
    BY AllocateLaid
  <1>4. ArraysKept'
    BY <1>1 DEF ArraysKept, Laid, Memory
  <1>5. Constructed' /\ FieldsGiven'
    <2>1. \A o \in Objects : heap'[o.ref] = heap[o.ref]
      <3> DEFINE block == [w \in 0..Cardinality(DOMAIN class_dvs[c].slots) |-> Garbage]
      <3>1. heap' = Append(heap, block)
        BY DEF AllocateVector
      <3> HIDE DEF block
      <3> QED
        BY <3>1, Appended DEF Laid, Memory, Placed
    <2> QED
      BY <1>0, <2>1, ObjectsQuiet
  <1>6. Waiting'
    BY <1>0, <1>1, NoneWaits
  <1>7. ResultFits'
    <2>1. \A f : ~Initialises(f)
      BY <1>0, <1>1 DEF Initialises, Running
    <2> QED
      BY <1>0, <1>1, <2>1, NoResult, NothingToStore
  <1>8. StaticsGiven'
    <2>1. Finished \subseteq Finished'
      BY <1>0 DEF Finished
    <2>2. ASSUME NEW f \in StaticFields, Behind(f)' PROVE Behind(f)
      <3>1. UnitOf(f.in)' = UnitOf(f.in)
            /\ DOMAIN Fields[f.in] = 1..Len(Fields[f.in]) /\ Len(Fields[f.in]) \in Nat
        BY StaticFieldAt DEF UnitOf
      <3>2. \A i \in DOMAIN Fields[f.in] : ~(i < at')
        BY <1>0, <3>1
      <3> QED
        BY <1>0, <2>2, <3>1, <3>2 DEF Behind
    <2> QED
      BY <1>0, <2>1, <2>2, StaticsGo
  <1> QED
    BY <1>0, <1>2, <1>3, <1>4, <1>5, <1>6, <1>7, <1>8

\* All vectors are filled, and the entry point is called.
LEMMA FillVectorsStep ==
    ASSUME VectorInv, StartupInv, unit # 0, FillVectors, UNCHANGED arrays
    PROVE  StartupInv'
  <1> USE DEF StartupInv
  <1>0. /\ UNCHANGED <<vars, initialiser, label, statics, result, open, made>>
        /\ open = <<>> /\ InUnits /\ unit = Len(Units) /\ unit' = unit + 1 /\ at' = 0
        /\ IsInterface(Units[unit]) \/ at > Len(Fields[Units[unit]])
    BY DEF FillVectors
  <1>1. /\ unit \in 1..Len(Units) /\ Len(Units) \in Nat
        /\ ~Entered /\ Entered' /\ unit' \in 1..(Len(Units) + 1)
    BY <1>0, EveryUnit, UnitsAssumption DEF InUnits, Entered
  <1>2. Begun'
    BY <1>0, <1>1, BegunStays DEF Begun
  <1>3. Laid' /\ \A o \in Objects : heap'[o.ref] = heap[o.ref]
    BY FillLaid
  <1>4. ArraysKept'
    BY <1>1 DEF ArraysKept, Laid, Memory
  <1>5. Constructed' /\ FieldsGiven'
    BY <1>0, <1>3, ObjectsQuiet
  <1>6. Waiting'
    BY <1>0, NoneWaits
  <1>7. ResultFits'
    <2>1. ASSUME NEW c \in Classes, Running(c) PROVE at \notin DOMAIN Fields[c]
      BY <1>0, <2>1, RunningUnit DEF Running
    <2>2. \A f : ~Initialises(f)
      BY <1>0, <2>1 DEF Initialises
    <2> QED
      BY <1>0, <1>1, <2>2, NoResult, NothingToStore
  <1>8. StaticsGiven'
    <2>1. Finished \subseteq Finished'
      BY <1>0 DEF Finished
    <2> QED
      BY <1>0, <2>1, UnitBehind, StaticsGo
  <1> QED
    BY <1>2, <1>3, <1>4, <1>5, <1>6, <1>7, <1>8

\* Waiting goes on while neither the stack nor the code moves.
LEMMA WaitingStays ==
    ASSUME UNCHANGED <<vars, initialiser, unit, at>>, Waiting, Memory, open # <<>>,
           Len(open') = Len(open), open' \in Seq(Creation),
           \A j \in DOMAIN open : open'[j].class = open[j].class,
           \A j \in DOMAIN open : j # Len(open) => open'[j] = open[j]
    PROVE  Waiting'
  <1>1. /\ Classes' = Classes /\ \A c : FieldsOf(c)' = FieldsOf(c)
    BY SameProgram
  <1>2. /\ DOMAIN open = 1..Len(open) /\ Len(open) \in Nat /\ Len(open) >= 1 /\ open' # <<>>
    BY Top DEF Memory
  <1>3. ASSUME NEW j \in 1..(Len(open') - 1) PROVE Waits(open[j], open[j + 1].class)'
    <2>1. j \in DOMAIN open /\ j # Len(open) /\ j + 1 \in DOMAIN open /\ j \in 1..(Len(open) - 1)
      BY <1>2
    <2>2. open'[j] = open[j] /\ open'[j + 1].class = open[j + 1].class
      BY <2>1
    <2>3. Waits(open[j], open[j + 1].class)
      BY <2>1 DEF Waiting
    <2> QED
      BY <1>1, <2>2, <2>3 DEF Waits, Given
  <1>4. ASSUME ~Entered' PROVE UnitWaits(open[1].class)'
    <2>1. UnitWaits(open[1].class) /\ open'[1].class = open[1].class
      BY <1>2, <1>4 DEF Waiting, Entered
    <2> QED
      BY <1>1, <2>1 DEF UnitWaits, Given, OwnFields, IsStaticField
  <1> QED
    BY <1>3, <1>4 DEF Waiting

\* The static fields while their code does not move.
LEMMA StaticsWait ==
    ASSUME UNCHANGED <<vars, initialiser, unit, at, statics>>, Finished \subseteq Finished', StaticsGiven
    PROVE  StaticsGiven'
  BY BehindStays, StaticsGo

\* A value that is no object.
LEMMA EvaluateStep ==
    ASSUME VectorInv, StartupInv, unit # 0, NEW f, Evaluate(f), UNCHANGED arrays
    PROVE  StartupInv'
  <1> USE DEF StartupInv
  <1>0. /\ UNCHANGED <<vars, initialiser, unit, at, label, statics, heap, open, made>>
        /\ Initialises(f) /\ ~CreatesObject(f) /\ result' = Constant(f)
    BY DEF Evaluate
  <1>1. Begun'
    BY <1>0, EveryUnit, BegunStays DEF Begun
  <1>2. Laid'
    BY <1>0, ControlLaid DEF Entered, Passed, UnitOf
  <1>3. ArraysKept'
    BY <1>0, ArraysStay DEF Laid
  <1>4. Constructed' /\ FieldsGiven'
    BY <1>0, ObjectsQuiet
  <1>5. Waiting'
    BY <1>0, WaitingStays, NoneWaits DEF Laid, Memory
  <1>6. ResultFits'
    <2>1. Initialises(f)'
      BY <1>0, InitialisesStays
    <2>2. AsDeclared(f, Constant(f))'
      BY <1>0 DEF AsDeclared, CreatesObject, Given, Constant
    <2>3. \A g : Initialises(g)' => g = f
      BY <1>0, InitialisesStays, OneInitialised
    <2>4. Constant(f)' = Constant(f)
      BY <1>0 DEF Constant, Given
    <2> QED
      BY <1>0, <2>1, <2>2, <2>3, <2>4 DEF ResultFits, AsDeclared
  <1>7. StaticsGiven'
    <2>1. Finished \subseteq Finished'
      BY <1>0 DEF Finished
    <2> QED
      BY <1>0, <2>1, StaticsWait
  <1> QED
    BY <1>0, <1>1, <1>2, <1>3, <1>4, <1>5, <1>6, <1>7

\* A static field.
LEMMA AssignStaticStep ==
    ASSUME VectorInv, StartupInv, unit # 0, NEW f, AssignStatic(f), UNCHANGED arrays
    PROVE  StartupInv'
  <1> USE DEF StartupInv
  <1>0. /\ UNCHANGED <<vars, initialiser, unit, label, heap, open, made>> /\ open = <<>>
        /\ Initialises(f) /\ result # None /\ at' = at + 1 /\ result' = None
        /\ statics' = [statics EXCEPT ![f] = result]
    BY DEF AssignStatic
  <1>1. PICK c \in Classes : /\ Running(c) /\ at \in DOMAIN Fields[c]
                             /\ f = OwnFields(c)[at] /\ IsStaticField(f)
    BY <1>0 DEF Initialises
  <1>2. /\ unit \in 1..Len(Units) /\ Len(Units) \in Nat /\ unit = UnitOf(c) /\ c \in Type
        /\ Units[unit] = c /\ ~Entered /\ DOMAIN Fields[c] = 1..Len(Fields[c])
        /\ at \in Nat /\ at > 0 /\ \A d \in Type : UnitOf(d) = unit => d = c
    BY <1>1, RunningUnit
  <1>3. f.in = c /\ f \in StaticFields
    <2>1. f = [in |-> c, name |-> Fields[c][at]] /\ f \in ToSet(OwnFields(c))
      BY <1>1 DEF OwnFields, ToSet
    <2> QED
      BY <1>1, <1>2, <2>1 DEF StaticFields, DeclaredFields
  <1>4. /\ statics = [g \in StaticFields |-> statics[g]]
        /\ statics' = [g \in StaticFields |-> statics'[g]]
        /\ \A g \in StaticFields : statics'[g] = IF g = f THEN result ELSE statics[g]
    <2>1. statics = [g \in StaticFields |-> statics[g]]
      BY DEF Begun
    <2> QED
      BY <1>0, <1>3, <2>1
  <1>5. Begun'
    <2>1. unit' \in 1..(Len(Units) + 1) /\ at' \in Nat
      BY <1>0, <1>2
    <2>2. label' = [d \in Classes |-> label'[d]]
      BY <1>0 DEF Begun
    <2> QED
      BY <1>0, <1>4, <2>1, <2>2, BegunStays
  <1>6. Laid'
    <2>1. \A d \in Classes : Passed(d)' <=> Passed(d)
      BY <1>0, <1>2 DEF Passed, UnitOf
    <2> QED
      BY <1>0, <2>1, ControlLaid DEF Entered
  <1>7. ArraysKept'
    BY <1>0, ArraysStay DEF Laid
  <1>8. Constructed' /\ FieldsGiven'
    BY <1>0, ObjectsQuiet
  <1>9. Waiting' /\ ResultFits'
    BY <1>0, NoneWaits, NothingToStore
  <1>10. StaticsGiven'
    <2> SUFFICES ASSUME NEW g \in StaticFields, Behind(g)' PROVE AsDeclared(g, statics[g])'
      BY <1>0, SameProgram DEF StaticsGiven
    <2>1. PICK v : v = IF g = f THEN result ELSE statics[g]
      OBVIOUS
    <2>2. AsDeclared(g, v)
      <3>1. CASE g = f
        BY <1>0, <2>1, <3>1 DEF ResultFits
      <3>2. CASE g # f
        <4>1. g.in \in Type /\ UnitOf(g.in)' = UnitOf(g.in)
              /\ DOMAIN Fields[g.in] = 1..Len(Fields[g.in]) /\ Len(Fields[g.in]) \in Nat
          BY StaticFieldAt DEF UnitOf
        <4>2. Behind(g)
          <5>1. CASE UnitOf(g.in) < unit
            BY <5>1 DEF Behind
          <5>2. CASE ~(UnitOf(g.in) < unit)
            <6>1. UnitOf(g.in) = unit
              BY <1>0, <2>1, <4>1, <5>2 DEF Behind
            <6>2. PICK i \in DOMAIN Fields[g.in] : i < at + 1 /\ OwnFields(g.in)[i] = g
              BY <1>0, <4>1, <5>2 DEF Behind, OwnFields
            <6>3. i # at
              BY <1>1, <1>2, <3>2, <4>1, <6>1, <6>2
            <6>4. i < at
              BY <1>2, <4>1, <6>2, <6>3
            <6> QED
              BY <6>1, <6>2, <6>4 DEF Behind
          <5> QED
            BY <5>1, <5>2
        <4> QED
          BY <2>1, <3>2, <4>2 DEF StaticsGiven
      <3> QED
        BY <3>1, <3>2
    <2>3. Finished \subseteq Finished'
      BY <1>0 DEF Finished
    <2>4. AsDeclared(g, v)'
      BY <1>0, <2>2, <2>3, DeclaredStays
    <2>5. statics'[g] = v
      BY <1>4, <2>1
    <2> QED
      BY <2>4, <2>5
  <1> QED
    BY <1>0, <1>5, <1>6, <1>7, <1>8, <1>9, <1>10

\* The innermost object changes and nothing but its block.
LEMMA TopStep ==
    ASSUME VectorInv, StartupInv, unit # 0, open # <<>>,
           UNCHANGED <<vars, initialiser, unit, at, label, statics, made, arrays>>,
           NEW e, TopBecomes(e), GoesOn(e, This), e.fields <= Len(FieldsOf(This.class)),
           OnlyBlock(This.ref), heap'[This.ref][0] = heap[This.ref][0]
    PROVE  Begun' /\ Laid' /\ ArraysKept' /\ Waiting' /\ StaticsGiven'
  <1> USE DEF StartupInv
  <1>1. Begun'
    BY EveryUnit, BegunStays DEF Begun
  <1>2. Laid'
    BY TopLaid
  <1>3. ArraysKept'
    <2>1. This \in Objects
      BY Top DEF Laid
    <2>2. \A n \in DOMAIN arrays : heap'[arrays[n].ref] = heap[arrays[n].ref]
      BY <2>1 DEF OnlyBlock, Laid, Memory, Apart
    <2> QED
      BY <2>2, ArraysStay DEF Laid
  <1>4. Waiting'
    <2>1. \A j \in DOMAIN open : open'[j].class = open[j].class
      BY OthersStay DEF Laid
    <2> QED
      BY <2>1, WaitingStays DEF Laid, TopBecomes
  <1>5. StaticsGiven'
    <2>1. Finished \subseteq Finished'
      BY DEF Finished
    <2> QED
      BY <2>1, StaticsWait
  <1> QED
    BY <1>1, <1>2, <1>3, <1>4, <1>5

\* A field of the innermost object.
LEMMA StoreFieldStep ==
    ASSUME VectorInv, StartupInv, unit # 0, NEW f, StoreField(f), UNCHANGED arrays
    PROVE  StartupInv'
  <1>0. /\ UNCHANGED <<vars, initialiser, unit, at, label, statics, made>>
        /\ open # <<>> /\ result' = None
    BY DEF StoreField
  <1>1. Memory /\ Apart /\ Constructed /\ FieldsGiven /\ ResultFits
    BY DEF StartupInv, Laid
  <1>2. PICK e : /\ TopBecomes(e) /\ GoesOn(e, This) /\ e.fields = This.fields + 1
                 /\ OnlyBlock(This.ref)
                 /\ This.fields + 1 \in 1..Len(FieldsOf(This.class))
                 /\ \A w \in DOMAIN heap[This.ref] :
                      w # This.fields + 1 => heap'[This.ref][w] = heap[This.ref][w]
    BY <1>1, StoreEffect
  <1>3. /\ e.fields <= Len(FieldsOf(This.class)) /\ heap'[This.ref][0] = heap[This.ref][0]
    <2>1. DOMAIN heap[This.ref] = 0..Len(FieldsOf(This.class))
          /\ Len(FieldsOf(This.class)) = Len(This.stored) /\ This \in Creation
      BY <1>0, <1>1, Top DEF Placed
    <2>2. Len(This.stored) \in Nat /\ This.fields \in Nat
      BY <2>1 DEF Creation
    <2>3. 0 \in DOMAIN heap[This.ref] /\ 0 # This.fields + 1
      BY <2>1, <2>2
    <2>4. e.fields <= Len(FieldsOf(This.class))
      BY <1>2, <2>1, <2>2
    <2> QED
      BY <1>2, <2>3, <2>4
  <1>4. Begun' /\ Laid' /\ ArraysKept' /\ Waiting' /\ StaticsGiven'
    BY <1>0, <1>2, <1>3, TopStep
  <1>5. Constructed' /\ FieldsGiven'
    BY <1>1, StoreGiven
  <1>6. ResultFits'
    BY <1>0, NothingToStore
  <1> QED
    BY <1>4, <1>5, <1>6 DEF StartupInv

\* A constructor of the innermost object.
LEMMA ConstructStep ==
    ASSUME VectorInv, StartupInv, unit # 0, NEW x, NEW n, Construct(x, n), UNCHANGED arrays
    PROVE  StartupInv'
  <1>0. /\ UNCHANGED <<vars, initialiser, unit, at, label, statics, made, result>>
        /\ open # <<>> /\ FieldsDone(This)
    BY DEF Construct
  <1>1. Begun /\ Memory /\ Apart /\ Constructed /\ FieldsGiven /\ ResultFits
    BY DEF StartupInv, Laid
  <1>2. PICK e : /\ TopBecomes(e) /\ GoesOn(e, This) /\ e.fields = This.fields
                 /\ OnlyBlock(This.ref) /\ This.fields = Len(FieldsOf(This.class))
                 /\ heap'[This.ref][0] = heap[This.ref][0]
    BY <1>1, ConstructEffect
  <1>3. /\ This \in Creation /\ Placed(This) /\ Len(open) \in DOMAIN open
        /\ Len(open) \in Nat /\ Len(open) >= 1
    BY <1>0, <1>1, Top
  <1>4. e.fields = Len(FieldsOf(e.class)) /\ e.fields \in Nat /\ e.class = This.class
    BY <1>2, <1>3 DEF GoesOn, Creation
  <1>5. Begun' /\ Laid' /\ ArraysKept' /\ Waiting' /\ StaticsGiven'
    <2>1. e.fields <= Len(FieldsOf(This.class))
      BY <1>4
    <2> QED
      BY <1>0, <1>2, <2>1, TopStep
  <1>6. Constructed' /\ FieldsGiven'
    BY <1>1, ConstructGiven
  <1>7. ResultFits'
    <2>1. \A f : ~Initialises(f)
      <3>1. ~(This.fields < Len(FieldsOf(This.class)))
        BY <1>2, <1>4
      <3> QED
        BY <1>0, <3>1 DEF Initialises, Running
    <2>2. \A f : ~Initialises(f)'
      <3>1. open' # <<>> /\ This' = e
        BY <1>2, <1>3 DEF TopBecomes, This
      <3>2. FieldsOf(e.class)' = FieldsOf(e.class)
        BY <1>0, SameProgram
      <3>3. ~(e.fields < Len(FieldsOf(e.class)'))
        BY <1>4, <3>2
      <3> QED
        BY <3>1, <3>3 DEF Initialises, Running
    <2> QED
      BY <1>0, <1>1, <2>1, <2>2, NoResult, NothingToStore DEF Entered
  <1> QED
    BY <1>5, <1>6, <1>7 DEF StartupInv

\* An object is begun, for a field or by the program's own code.
LEMMA NewObjectStep ==
    ASSUME VectorInv, StartupInv, unit # 0, UNCHANGED arrays,
           NEW c \in ConcreteClasses, NEW k \in Constructors(c), NewObject(c, k),
           at > 0 \/ Entered,
           open # <<>> => Waits(This, c), open = <<>> => Entered \/ UnitWaits(c)
    PROVE  StartupInv'
  <1>0. /\ UNCHANGED <<vars, initialiser, unit, at, label, statics, made>> /\ result' = None
    BY DEF NewObject
  <1>1. Begun /\ Laid /\ Memory /\ Constructed /\ FieldsGiven /\ ResultFits /\ Waiting /\ ArraysKept
    BY DEF StartupInv, Laid
  <1>2. Begun'
    BY <1>0, <1>1, EveryUnit, BegunStays DEF Begun
  <1>3. Laid'
    BY <1>1, CreateLaid
  <1>4. PICK e, block :
             /\ e.class = c /\ Grows(block)
             /\ open' \in Seq(Creation) /\ Len(open') = Len(open) + 1
             /\ open'[Len(open) + 1] = e /\ Len(open) \in Nat
             /\ \A j \in DOMAIN open : j # Len(open) + 1 /\ open'[j] = open[j]
    BY <1>1, CreateEffect
  <1>5. ArraysKept'
    <2>1. \A n \in DOMAIN arrays : heap'[arrays[n].ref] = heap[arrays[n].ref]
      BY <1>1, <1>4 DEF Grows, Memory
    <2> QED
      BY <1>0, <1>1, <2>1, ArraysStay
  <1>6. Constructed' /\ FieldsGiven'
    BY <1>1, CreateGiven
  <1>7. Waiting'
    <2>1. /\ Classes' = Classes /\ \A d : FieldsOf(d)' = FieldsOf(d)
      BY <1>0, SameProgram
    <2>2. DOMAIN open = 1..Len(open)
      BY <1>1 DEF Memory
    <2>3. ASSUME NEW j \in 1..(Len(open') - 1) PROVE Waits(open[j], open[j + 1].class)'
      <3>1. j \in DOMAIN open /\ open'[j] = open[j]
        BY <1>4, <2>2
      <3>2. Waits(open[j], open'[j + 1].class)
        <4>1. CASE j = Len(open)
          BY <1>4, <3>1, <4>1 DEF This
        <4>2. CASE j # Len(open)
          <5>1. j \in 1..(Len(open) - 1) /\ j + 1 \in DOMAIN open
            BY <1>4, <2>2, <3>1, <4>2
          <5> QED
            BY <1>1, <1>4, <5>1 DEF Waiting
        <4> QED
          BY <4>1, <4>2
      <3> QED
        BY <1>0, <2>1, <3>1, <3>2 DEF Waits, Given
    <2>4. ASSUME ~Entered' PROVE UnitWaits(open[1].class)'
      <3>1. UnitWaits(open'[1].class)
        <4>1. CASE open = <<>>
          <5>1. Len(open) = 0 /\ open'[1] = e
            BY <1>4, <4>1
          <5> QED
            BY <1>0, <1>4, <2>4, <4>1, <5>1 DEF Entered
        <4>2. CASE open # <<>>
          <5>1. 1 \in DOMAIN open
            BY <1>1, <4>2 DEF Memory
          <5>2. open'[1] = open[1]
            BY <1>4, <5>1
          <5> QED
            BY <1>0, <1>1, <2>4, <4>2, <5>2 DEF Waiting, Entered
        <4> QED
          BY <4>1, <4>2
      <3> QED
        BY <1>0, <2>1, <3>1 DEF UnitWaits, Given, OwnFields, IsStaticField
    <2> QED
      BY <2>3, <2>4 DEF Waiting
  <1>8. ResultFits'
    BY <1>0, NothingToStore
  <1>9. StaticsGiven'
    <2>1. Finished \subseteq Finished'
      BY <1>0 DEF Finished
    <2> QED
      BY <1>0, <2>1, StaticsWait DEF StartupInv
  <1> QED
    BY <1>2, <1>3, <1>5, <1>6, <1>7, <1>8, <1>9 DEF StartupInv

\* An object for a field.
LEMMA CreateStep ==
    ASSUME VectorInv, StartupInv, unit # 0, NEW f, Create(f), UNCHANGED arrays
    PROVE  StartupInv'
  <1>1. /\ Initialises(f) /\ CreatesObject(f)
    BY DEF Create
  <1> DEFINE c == Given(f)
  <1>2. PICK k \in Constructors(c) : NewObject(c, k)
    BY DEF Create
  <1>3. Begun /\ Memory /\ Waiting /\ Classes \subseteq Type
    BY Running0 DEF StartupInv, Laid
  <1>4. c \in ConcreteClasses
    BY <1>1, <1>3, InitialisedField
  <1>5. \A d \in Classes : unit \in DOMAIN Units /\ at \in DOMAIN Fields[d] => at > 0
    <2> SUFFICES ASSUME NEW d \in Classes, at \in DOMAIN Fields[d] PROVE at > 0
      OBVIOUS
    <2>1. Fields[d] \in Seq(STRING)
      BY <1>3, FieldsAssumption
    <2> QED
      BY <2>1
  <1>6. CASE open # <<>>
    <2>1. Waits(This, c)
      BY <1>1, <1>6 DEF Initialises, Running, Waits
    <2>2. at > 0 \/ Entered
      BY <1>3, <1>5, <1>6 DEF Waiting, UnitWaits
    <2> QED
      BY <1>2, <1>4, <1>6, <2>1, <2>2, NewObjectStep
  <1>7. CASE open = <<>>
    <2>1. UnitWaits(c)
      BY <1>1, <1>7 DEF Initialises, Running, InUnits, UnitWaits
    <2>2. at > 0
      BY <1>5, <2>1 DEF UnitWaits
    <2> QED
      BY <1>2, <1>4, <1>7, <2>1, <2>2, NewObjectStep
  <1> QED
    BY <1>6, <1>7

\* An object of the program's own.
LEMMA CreateInMainStep ==
    ASSUME VectorInv, StartupInv, unit # 0, NEW c \in ConcreteClasses, CreateInMain(c), UNCHANGED arrays
    PROVE  StartupInv'
  <1>1. PICK k \in Constructors(c) : NewObject(c, k)
    BY DEF CreateInMain
  <1>2. Entered /\ open = <<>>
    BY DEF CreateInMain, InMain, Entered
  <1> QED
    BY <1>1, <1>2, NewObjectStep

\* An object is finished, and is the value of the field that waits for it.
LEMMA FinishStep ==
    ASSUME VectorInv, StartupInv, unit # 0, Finish, UNCHANGED arrays
    PROVE  StartupInv'
  <1>0. /\ UNCHANGED <<vars, initialiser, unit, at, label, statics, heap>>
        /\ result' = Reference(This.ref)
    BY DEF Finish
  <1>1. Begun /\ Laid /\ Memory /\ Constructed /\ FieldsGiven /\ Waiting /\ ArraysKept
    BY DEF StartupInv, Laid
  <1>2. /\ open # <<>> /\ Len(open') = Len(open) - 1 /\ open' \in Seq(Creation)
        /\ \A j \in 1..(Len(open) - 1) : open'[j] = open[j]
        /\ Finished' = Finished \cup {This}
    BY <1>1, FinishEffect
  <1>3. /\ Len(open) \in Nat /\ Len(open) >= 1 /\ This = open[Len(open)] /\ Placed(This)
    BY <1>1, <1>2, Top DEF This
  <1>4. Begun'
    BY <1>0, <1>1, EveryUnit, BegunStays DEF Begun
  <1>5. Laid'
    BY <1>1, FinishLaid
  <1>6. ArraysKept'
    BY <1>0, <1>1, ArraysStay
  <1>7. Constructed' /\ FieldsGiven'
    BY <1>1, FinishGiven
  <1>8. /\ Classes' = Classes /\ ConcreteClasses' = ConcreteClasses
        /\ \A d : FieldsOf(d)' = FieldsOf(d) /\ IsInterface(d)' = IsInterface(d)
    BY <1>0, SameProgram
  <1>9. Waiting'
    <2>1. ASSUME NEW j \in 1..(Len(open') - 1) PROVE Waits(open[j], open[j + 1].class)'
      <3>1. j \in 1..(Len(open) - 1) /\ j + 1 \in 1..(Len(open) - 1)
        BY <1>2, <1>3
      <3>2. Waits(open[j], open[j + 1].class) /\ open'[j] = open[j] /\ open'[j + 1] = open[j + 1]
        BY <1>1, <1>2, <3>1 DEF Waiting
      <3> QED
        BY <1>0, <1>8, <3>2 DEF Waits, Given
    <2>2. ASSUME open' # <<>>, ~Entered' PROVE UnitWaits(open[1].class)'
      <3>1. 1 \in 1..(Len(open) - 1)
        BY <1>2, <1>3, <2>2
      <3>2. UnitWaits(open[1].class) /\ open'[1] = open[1]
        BY <1>0, <1>1, <1>2, <2>2, <3>1 DEF Waiting, Entered
      <3> QED
        BY <1>0, <1>8, <3>2 DEF UnitWaits, Given, OwnFields, IsStaticField
    <2> QED
      BY <2>1, <2>2 DEF Waiting
  <1>10. ResultFits'
    <2> DEFINE n == Len(open) - 1
    <2>1. CASE open' # <<>>
      <3>1. n \in 1..(Len(open) - 1) /\ n + 1 = Len(open) /\ Len(open') = n
        BY <1>2, <1>3, <2>1
      <3>2. Waits(open[n], This.class) /\ This' = open[n]
        BY <1>1, <1>2, <1>3, <3>1 DEF Waiting, This
      <3> DEFINE h == FieldsOf(open[n].class)[open[n].fields + 1]
      <3>0. PICK g : g = h
        OBVIOUS
      <3>3. Given(g) = This.class /\ open[n].fields < Len(FieldsOf(open[n].class))
        BY <3>2, <3>0 DEF Waits
      <3>4. Initialises(g)'
        BY <1>8, <2>1, <3>2, <3>3, <3>0 DEF Initialises
      <3>5. \A f : Initialises(f)' => f = g
        BY <1>8, <2>1, <3>2, <3>3, <3>0 DEF Initialises, Running
      <3>6. \A f : f = g => Given(f)' = This.class
        BY <1>0, <3>3 DEF Given
      <3>7. ASSUME NEW f, Initialises(f)' PROVE AsDeclared(f, result)'
        <4>1. Given(f)' = This.class /\ This.class \in Type
          BY <1>3, <3>5, <3>6, <3>7, Running0, <1>1 DEF Placed, ConcreteClasses
        <4>2. This \in Finished' /\ result' = Reference(This.ref)
          BY <1>0, <1>2
        <4> QED
          BY <4>1, <4>2 DEF AsDeclared, CreatesObject
      <3> QED
        BY <3>4, <3>7 DEF ResultFits
    <2>2. CASE open' = <<>> /\ Entered
      BY <1>0, <2>2, EveryUnit, NothingToStore DEF Initialises, Running, InUnits, Entered
    <2>3. CASE open' = <<>> /\ ~Entered
      <3>1. This = open[1]
        <4>1. Len(open') = 0
          BY <2>3
        <4>2. Len(open) = 1
          BY <1>2, <1>3, <4>1
        <4> QED
          BY <1>3, <4>2
      <3>2. PICK d \in Classes :
              /\ unit \in DOMAIN Units /\ d = Units[unit] /\ at \in DOMAIN Fields[d]
              /\ IsStaticField(OwnFields(d)[at]) /\ Given(OwnFields(d)[at]) = This.class
        BY <1>1, <1>2, <2>3, <3>1 DEF Waiting, UnitWaits
      <3> DEFINE g == OwnFields(d)[at]
      <3>3. ~IsInterface(d)
        BY <1>1, Running0
      <3>4. \A f : Initialises(f)' <=> f = g
        BY <1>0, <1>8, <2>3, <3>2, <3>3 DEF Initialises, Running, InUnits, OwnFields, IsStaticField
      <3>5. \A f : f = g => Given(f)' = This.class
        BY <1>0, <3>2 DEF Given
      <3> HIDE DEF g
      <3>6. ASSUME NEW f, Initialises(f)' PROVE AsDeclared(f, result)'
        <4>1. Given(f)' = This.class /\ This.class \in Type
          BY <1>3, <3>4, <3>5, <3>6, Running0, <1>1 DEF Placed, ConcreteClasses
        <4>2. This \in Finished' /\ result' = Reference(This.ref)
          BY <1>0, <1>2
        <4> QED
          BY <4>1, <4>2 DEF AsDeclared, CreatesObject
      <3> QED
        BY <3>4, <3>6 DEF ResultFits
    <2> QED
      BY <2>1, <2>2, <2>3
  <1>11. StaticsGiven'
    BY <1>0, <1>2, StaticsWait DEF StartupInv
  <1> QED
    BY <1>4, <1>5, <1>6, <1>7, <1>9, <1>10, <1>11 DEF StartupInv

\* Steps of the program's own code with arrays.
LEMMA ArrayStepKeeps ==
    ASSUME VectorInv, StartupInv, unit # 0, ArrayStep
    PROVE  StartupInv'
  <1>0. /\ UNCHANGED <<vars, initialiser, unit, at, label, statics, result, open, made>>
        /\ Entered /\ open = <<>> /\ Entered'
    BY DEF ArrayStep, CreateArray, StoreElement, Raise, objectVars, InMain, Entered
  <1>1. Begun /\ Laid /\ Constructed /\ FieldsGiven /\ ArraysKept
    BY DEF StartupInv
  <1>2. Laid' /\ ArraysKept' /\ \A o \in Objects : heap'[o.ref] = heap[o.ref]
    <2>1. CASE \E size \in Sizes : size >= 0 /\ CreateArray(size)
      <3>1. PICK size \in Sizes : size >= 0 /\ CreateArray(size)
        BY <2>1
      <3>2. size \in Nat
        BY <3>1, ArraysAssumption
      <3> QED
        BY <1>1, <3>1, <3>2, CreateArrayLaid
    <2>2. CASE \E n \in DOMAIN arrays, index \in Indices : StoreElement(n, index)
      BY <1>1, <2>2, StoreElementLaid
    <2>3. CASE Raise
      <3>1. UNCHANGED <<vars, label, heap, open, made, arrays, unit, at>>
        BY <2>3 DEF Raise, objectVars
      <3>2. Laid'
        BY <1>0, <1>1, <3>1, ControlLaid DEF Passed, UnitOf
      <3> QED
        BY <1>1, <3>1, <3>2, ArraysStay DEF Laid
    <2> QED
      BY <2>1, <2>2, <2>3 DEF ArrayStep
  <1>3. Begun'
    BY <1>0, <1>1, EveryUnit, BegunStays DEF Begun
  <1>4. Constructed' /\ FieldsGiven'
    BY <1>0, <1>1, <1>2, ObjectsQuiet
  <1>5. Waiting'
    BY <1>0, NoneWaits
  <1>6. ResultFits'
    <2>1. \A f : ~Initialises(f)
      BY <1>0, NoneInMain
    <2>2. \A f : ~Initialises(f)'
      BY <1>0, <2>1, InitialisesStays
    <2> QED
      BY <1>0, <2>2, NothingToStore
  <1>7. StaticsGiven'
    <2>1. Finished \subseteq Finished'
      BY <1>0 DEF Finished
    <2> QED
      BY <1>0, <2>1, StaticsWait DEF StartupInv
  <1> QED
    BY <1>2, <1>3, <1>4, <1>5, <1>6, <1>7 DEF StartupInv

\* The program begins.
LEMMA BeginStep ==
    ASSUME VectorInv, StartupInv, NEW i, Begin(i), UNCHANGED arrays
    PROVE  StartupInv'
  <1>0. /\ UNCHANGED vars /\ unit = 0 /\ unit' = 1 /\ at' = 0 /\ Begun
        /\ open' = <<>> /\ made' = <<>> /\ arrays' = <<>> /\ heap' = <<>> /\ result' = None
        /\ phase = "build" /\ Classes \subseteq DOMAIN class_dvs
    BY DEF Begin, StartupInv, Begun
  <1>1. /\ Classes' = Classes /\ ConcreteClasses' = ConcreteClasses /\ StaticFields' = StaticFields
        /\ \A c : FieldsOf(c)' = FieldsOf(c)
    BY <1>0, SameProgram
  <1>2. Begun'
    <2>1. unit' \in 0..(Len(Units) + 1) /\ at' \in Nat
      BY <1>0, EveryUnit, TypesAssumption
    <2>2. phase' = "build" /\ Classes' \subseteq DOMAIN class_dvs'
      BY <1>0, <1>1 DEF vars, dispatchVars
    <2>3. /\ label' = [c \in Classes' |-> label'[c]]
          /\ statics' = [f \in StaticFields' |-> statics'[f]]
      <3>1. label' = [c \in Classes |-> Zero] /\ statics' = [f \in StaticFields |-> Zero]
        BY DEF Begin
      <3> QED
        BY <1>1, <3>1
    <2>4. ASSUME NEW c \in Classes, NEW f \in ToSet(FieldsOf(c)), CreatesObject(f)'
          PROVE  Given(f)' \in ConcreteClasses
      <3>1. Given(f)' \in CreatedWith(c)
        BY <2>4 DEF CreatedWith, CreatesObject
      <3> QED
        BY <3>1 DEF Begin
    <2> QED
      BY <1>0, <1>1, <2>1, <2>2, <2>3, <2>4 DEF Begun
  <1>3. Laid'
    BY <1>0, BeginLaid
  <1>4. Objects' = {} /\ Opened' = {} /\ Finished' = {}
    BY <1>0 DEF Objects, Opened, Finished
  <1>5. ArraysKept' /\ Constructed' /\ FieldsGiven' /\ Waiting' /\ ResultFits'
    BY <1>0, <1>4 DEF ArraysKept, Constructed, FieldsGiven, Waiting, ResultFits
  <1>6. StaticsGiven'
    <2> SUFFICES ASSUME NEW f \in StaticFields PROVE ~Behind(f)'
      BY <1>1 DEF StaticsGiven
    <2>1. f.in \in Type /\ f \in DeclaredFields
      BY DEF StaticFields, VectorInv, HInv, Classes
    <2>2. UnitOf(f.in)' = UnitOf(f.in) /\ UnitOf(f.in) \in 1..Len(Units) /\ Len(Units) \in Nat
      BY <2>1, UnitBounds DEF UnitOf
    <2>3. \A k \in DOMAIN Fields[f.in] : ~(k < 0)
      <3>1. Fields[f.in] \in Seq(STRING)
        BY <2>1, FieldsAssumption
      <3> QED
        BY <3>1
    <2> QED
      BY <1>0, <2>2, <2>3 DEF Behind
  <1> QED
    BY <1>2, <1>3, <1>5, <1>6 DEF StartupInv

\* Before the program runs only Begin is possible.
LEMMA BeforeBegin ==
    ASSUME VectorInv, StartupInv, unit = 0, StartupStep
    PROVE  StartupInv'
  <1>1. open = <<>> /\ arrays = <<>> /\ ~Entered /\ ~InUnits
    <2>1. DOMAIN Units = 1..Len(Units) /\ Len(Units) \in Nat
      BY EveryUnit, UnitsAssumption
    <2> QED
      BY <2>1 DEF StartupInv, Begun, Entered, InUnits
  <1>2. ~InMain
    BY <1>1 DEF InMain, Entered
  <1>3. \A f : ~Initialises(f)
    BY <1>1 DEF Initialises, Running
  <1>4. ~ArrayStep
    <2>1. \A size \in Sizes : ~CreateArray(size)
      BY <1>2 DEF CreateArray
    <2>2. DOMAIN arrays = {}
      BY <1>1
    <2> QED
      BY <1>2, <2>1, <2>2, Zenon DEF ArrayStep
  <1>5. \E i \in Initialisers : Begin(i)
    BY <1>1, <1>2, <1>3, <1>4 DEF StartupStep, ObjectStep, NextUnit, AllocateVector, SkipField,
       Running, Evaluate, AssignStatic, StoreField, Create, Finish, FillVectors, CreateInMain
  <1>6. UNCHANGED arrays
    BY <1>4 DEF StartupStep
  <1> QED
    BY <1>5, <1>6, BeginStep

\* Every step keeps the invariant.
LEMMA StartupKeeps ==
    ASSUME VectorInv, StartupInv, [StartupNext]_allVars
    PROVE  StartupInv'
  <1>1. CASE UNCHANGED allVars
    <2>1. /\ UNCHANGED <<vars, initialiser, unit, at, label, statics, heap, result, open, made, arrays>>
      BY <1>1 DEF allVars, startupVars, objectVars
    <2>2. CASE unit = 0
      BY <2>1, <2>2 DEF StartupInv, Begun
    <2>3. CASE unit # 0
      <3>1. Begun'
        BY <2>1, <2>3, EveryUnit, BegunStays DEF StartupInv, Begun
      <3>2. Laid' /\ ArraysKept'
        BY <2>1, <2>3, ControlLaid, ArraysStay DEF StartupInv, Laid, Entered, Passed, UnitOf
      <3>3. Constructed' /\ FieldsGiven'
        BY <2>1, <2>3, ObjectsQuiet DEF StartupInv
      <3>4. Waiting'
        BY <2>1, <2>3, WaitingStays, NoneWaits DEF StartupInv, Laid, Memory
      <3>5. ResultFits'
        <4>1. \A f : Initialises(f)' <=> Initialises(f)
          BY <2>1, InitialisesStays
        <4>2. Finished' = Finished
          BY <2>1 DEF Finished
        <4>3. ASSUME NEW f, Initialises(f)', result' # None PROVE AsDeclared(f, result)'
          <5>1. PICK v : v = result
            OBVIOUS
          <5>2. AsDeclared(f, v)
            BY <2>1, <2>3, <4>1, <4>3, <5>1 DEF StartupInv, ResultFits
          <5>3. AsDeclared(f, v)'
            BY <2>1, <4>2, <5>2, DeclaredStays
          <5> QED
            BY <2>1, <5>1, <5>3
        <4>4. result' # None /\ ~Entered' => \E f : Initialises(f)'
          BY <2>1, <2>3, <4>1 DEF StartupInv, ResultFits, Entered
        <4> QED
          BY <4>3, <4>4 DEF ResultFits
      <3>6. StaticsGiven'
        BY <2>1, <2>3, StaticsWait DEF StartupInv, Finished
      <3> QED
        BY <3>1, <3>2, <3>3, <3>4, <3>5, <3>6 DEF StartupInv
    <2> QED
      BY <2>2, <2>3
  <1>2. CASE DispatchNext /\ UNCHANGED startupVars
    <2>1. unit = 0
      BY <1>2, CompilerDone DEF StartupInv
    <2> QED
      BY <1>2, <2>1 DEF StartupInv, Begun, startupVars, objectVars
  <1>3. CASE StartupStep /\ unit = 0
    BY <1>3, BeforeBegin
  <1>4. CASE ArrayStep /\ unit # 0
    BY <1>4, ArrayStepKeeps
  <1>5. CASE ObjectStep /\ UNCHANGED <<arrays, raised>> /\ unit # 0
    <2>1. CASE \E i \in Initialisers : Begin(i)
      BY <1>5, <2>1, BeginStep
    <2>2. CASE NextUnit
      BY <1>5, <2>2, NextUnitStep
    <2>3. CASE \E c \in Classes : AllocateVector(c)
      BY <1>5, <2>3, AllocateVectorStep
    <2>4. CASE \E c \in Classes : SkipField(c)
      BY <1>5, <2>4, SkipFieldStep
    <2>5. CASE \E f \in DeclaredFields : Evaluate(f)
      BY <1>5, <2>5, EvaluateStep
    <2>6. CASE \E f \in DeclaredFields : AssignStatic(f)
      BY <1>5, <2>6, AssignStaticStep
    <2>7. CASE \E f \in DeclaredFields : StoreField(f)
      BY <1>5, <2>7, StoreFieldStep
    <2>8. CASE \E f \in DeclaredFields : Create(f)
      BY <1>5, <2>8, CreateStep
    <2>9. CASE \E x \in This.calls, stored \in {0} \cup DOMAIN This.stored : Construct(x, stored)
      BY <1>5, <2>9, ConstructStep
    <2>10. CASE Finish
      BY <1>5, <2>10, FinishStep
    <2>11. CASE FillVectors
      BY <1>5, <2>11, FillVectorsStep
    <2>12. CASE \E c \in ConcreteClasses : CreateInMain(c)
      BY <1>5, <2>12, CreateInMainStep
    <2> QED
      BY <1>5, <2>1, <2>2, <2>3, <2>4, <2>5, <2>6, <2>7, <2>8, <2>9, <2>10, <2>11, <2>12
      DEF ObjectStep
  <1> QED
    BY <1>1, <1>2, <1>3, <1>4, <1>5 DEF StartupNext, StartupStep

\* Memory, the stack of objects being created, and what has been given to fields
\* stay as StartupInv says, from the first allocation to the end of the program.
THEOREM StartupInductive == StartupSpec => [](VectorInv /\ StartupInv)
  <1>1. StartupInit => StartupInv
    BY EveryUnit DEF StartupInit, StartupInv, Begun
  <1>2. VectorInv /\ StartupInv /\ [StartupNext]_allVars => StartupInv'
    BY StartupKeeps
  <1> QED
    BY <1>1, <1>2, StartupKeepsVectors, PTL DEF StartupSpec

----------------------------------------------------------------------------
(* What the program may rely on.                                            *)

\* An object created since its class has a vector finds in it, at the slot a call
\* reads, the method that method lookup finds, also when the object is older than
\* what is in the vector (assembly-generator.h:100-192).
THEOREM ObjectsFindMethods == StartupSpec => []ObjectsDispatch
  <1>1. ASSUME VectorInv, StartupInv PROVE ObjectsDispatch
    <2> SUFFICES ASSUME Entered, NEW o \in Objects, o.during >= UnitOf(o.class)
                 PROVE  /\ heap[o.ref][0] = label[o.class] /\ heap[o.ref][0] # Zero
                        /\ \A r \in Members(o.class) : \A m \in Implementation(o.class, r.sig) :
                             heap[heap[o.ref][0][2]][colour[m]] = Address({m})
      BY DEF ObjectsDispatch
    <2>1. unit # 0
      BY EveryUnit DEF Entered
    <2>2. Begun /\ Memory /\ VectorsFull /\ Headers
      BY <1>1, <2>1 DEF StartupInv, Laid
    <2>3. heap[o.ref][0] = label[o.class] /\ label[o.class] # Zero
      BY <2>2 DEF Headers, Points
    <2>4. o.class \in ConcreteClasses /\ o.class \in Classes /\ o.class \in DOMAIN class_dvs
      BY <2>1, <2>2, <1>1, Running0 DEF Memory, Placed, ConcreteClasses
    <2>5. ASSUME NEW r \in Members(o.class), NEW m \in Implementation(o.class, r.sig)
          PROVE  heap[label[o.class][2]][colour[m]] = Address({m})
      <3>1. colour[m] \in DOMAIN Filled(o.class) /\ Filled(o.class)[colour[m]] = {m}
        BY <1>1, <2>4, FoundIsVirtual, SlotOfMethod DEF Filled
      <3> QED
        BY <2>2, <2>4, <3>1 DEF VectorsFull
    <2> QED
      BY <2>3, <2>5
  <1> QED
    BY <1>1, StartupInductive, PTL

\* For every finished object one constructor of each class of its chain has run,
\* the superclasses' first (ast-to-ir.cc:594-642).
THEOREM ConstructorsInOrder == StartupSpec => []ConstructedInOrder
  <1>1. ASSUME VectorInv, StartupInv PROVE ConstructedInOrder
    <2> SUFFICES ASSUME NEW o \in Finished
                 PROVE  /\ {o.constructed[n] : n \in DOMAIN o.constructed} \ {Object}
                             = ClassChain(o.class) \ {Object}
                        /\ \A n \in DOMAIN o.constructed : \A m \in 1..(n - 1) :
                             \/ Object \in {o.constructed[m], o.constructed[n]}
                             \/ o.constructed[m] \in SuperClasses(o.constructed[n])
      BY DEF ConstructedInOrder
    <2>1. unit # 0
      BY <1>1 DEF StartupInv, Begun, Finished
    <2>2. InOrder(o) /\ Complete(o)
      BY <1>1, <2>1 DEF StartupInv, Constructed, Objects
    <2> QED
      BY <2>2 DEF InOrder, Complete
  <1> QED
    BY <1>1, StartupInductive, PTL

\* Fields have what Java gives them, static ones when the entry point is called
\* (ast-to-ir.cc:573-591, ir-canonicalizer.cc:34-48).
THEOREM FieldsHoldJavaValues == StartupSpec => []FieldsAsJava
  <1>1. ASSUME VectorInv, StartupInv PROVE FieldsAsJava
    <2>1. ASSUME NEW o \in Finished, NEW i \in DOMAIN FieldsOf(o.class)
          PROVE  IF o.stored[i] = None THEN AsDeclared(FieldsOf(o.class)[i], heap[o.ref][i])
                                       ELSE heap[o.ref][i] = StoredBy(o.stored[i])
      <3>1. unit # 0
        BY <1>1, <2>1 DEF StartupInv, Begun, Finished
      <3>2. /\ Complete(o) /\ FieldsKept(o) /\ o.class \in Classes
        BY <1>1, <3>1 DEF StartupInv, Constructed, FieldsGiven, Objects, Laid, Memory, Placed,
           ConcreteClasses
      <3>3. FieldsOf(o.class) \in Seq(FieldOf)
        BY <1>1, <3>1, <3>2, Running0 DEF StartupInv
      <3>4. i \in 1..o.fields
        BY <3>2, <3>3 DEF Complete
      <3> QED
        BY <3>2, <3>4 DEF FieldsKept
    <2>2. ASSUME Entered, NEW f \in StaticFields
          PROVE  AsDeclared(f, statics[f])
      <3>1. unit # 0 /\ Begun
        BY <1>1, <2>2, EveryUnit DEF StartupInv, Entered
      <3>2. f.in \in Type
        BY <1>1, <3>1, StaticFieldAt
      <3>3. UnitOf(f.in) < unit
        BY <2>2, <3>1, <3>2, UnitBounds DEF Begun, Entered
      <3> QED
        BY <1>1, <3>1, <3>3 DEF StartupInv, StaticsGiven, Behind
    <2> QED
      BY <2>1, <2>2 DEF FieldsAsJava
  <1> QED
    BY <1>1, StartupInductive, PTL

\* Arrays whose size fits hold what they were created with and what was stored,
\* whatever the size of a word (ast-to-ir.cc:802-906, 913-1089).
THEOREM ArraysHoldJavaValues == StartupSpec => []ArraysAsJava
  <1>1. ASSUME StartupInv PROVE ArraysAsJava
    <2> SUFFICES ASSUME NEW n \in DOMAIN arrays, Fits(arrays[n].size)
                 PROVE  /\ heap[arrays[n].ref][0] = Number(arrays[n].size)
                        /\ heap[arrays[n].ref][1] = label[ArraysClass]
                        /\ \A i \in DOMAIN arrays[n].elements :
                             heap[arrays[n].ref][WordOf(i)] = arrays[n].elements[i]
      BY DEF ArraysAsJava
    <2>1. unit # 0
      BY <1>1 DEF StartupInv, Begun
    <2>2. ArrayKept(arrays[n])
      BY <1>1, <2>1 DEF StartupInv, ArraysKept
    <2>3. \A i \in DOMAIN arrays[n].elements : WordOf(i) = i + 2
      BY <2>2, ArrayWords DEF ArrayKept
    <2> QED
      BY <2>2, <2>3 DEF ArrayKept
  <1> QED
    BY <1>1, StartupInductive, PTL
=============================================================================
