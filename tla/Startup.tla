------------------------------- MODULE Startup -------------------------------
(****************************************************************************)
(* What the code of main.s does before the program's own (generateCode):     *)
(* unit by unit it allocates the dispatch vector of the class and runs the   *)
(* initialisers of its static fields; only then it fills all the vectors,    *)
(* and calls the entry point.  Creating an object (ast-to-ir.cc, convert of  *)
(* a ClassInstanceCreationExpression) is the same code wherever it stands:   *)
(* an object created in a field's initialiser interrupts the creation of     *)
(* the field's own object, so `open` is a stack.                             *)
(*                                                                          *)
(* Memory is a sequence of blocks of words; a value is a pair that says what *)
(* it is.  Constructors are the program's: one may store in a field of the   *)
(* object, of whatever class of its chain, and has no other effect here.     *)
(****************************************************************************)
EXTENDS DispatchVector, Arrays

CONSTANTS NoParameters,   \* the constructor signatures without parameters
          Static,         \* the names of the static fields of each class
          Initialisers,   \* what the fields may be declared with: a class an
                          \*   object of which is created, None, another value
          ArraysClass,    \* java.util.Arrays, whose vector arrays have
          Sizes, Indices, \* those the program creates and stores to arrays with
          MaxObjects      \* bound: the objects and arrays it creates itself

ASSUME StaticAssumption == Static \in [Type -> SUBSET STRING]
ASSUME ArraysAssumption ==
    /\ ArraysClass \in Type /\ \A d \in Linked[ArraysClass] : ~d.interface
    /\ Sizes \cup Indices \subseteq Int
ASSUME MaxObjectsAssumption == MaxObjects \in Nat

\* The environment builder rejects a type declared twice.
ASSUME UnitsDistinct == IsInjective(Units)

\* A constructor has its class's name (typelinker.cc:265-278), so a class has at
\* most one without parameters, and a class that is extended has one
\* (typechecker.cc:97-114).
ASSUME DefaultsAssumption ==
    \A c \in Type : \A d \in Linked[c] :
        /\ \A k, l \in d.methods :
             k.constructor /\ l.constructor /\ {k.sig, l.sig} \subseteq NoParameters
               => k.sig = l.sig
        /\ d.extended # None => \A e \in Linked[d.extended] :
             \E k \in e.methods : k.constructor /\ k.sig \in NoParameters

VARIABLES initialiser,    \* one of Initialisers once the program runs
          unit,           \* the unit whose code runs; 0 before, beyond all in main
          at,             \* how far that code is: 0, the vector, i, its i-th field
          label, statics, \* the words of .data: one a class, one a static field
          heap,           \* the blocks malloc has returned
          result,         \* the value of the last expression, until it is stored
          open,           \* the objects being created, the innermost last
          made,           \* history: those created, how, and by whom
          arrays,         \* history: the arrays created, with their elements
          raised          \* whether an exception has ended the program

objectVars == <<initialiser, unit, at, label, statics, heap, result, open, made>>
startupVars == <<objectVars, arrays, raised>>
allVars == <<vars, startupVars>>

Zero == <<"zero", 0>>
Garbage == <<"garbage", 0>>
DeclaredValue(f) == <<"declared", f>>
Reference(b) == <<"block", b>>
Address(S) == <<"method", S>>
StoredBy(c) == <<"stored", c>>
Number(n) == <<"number", n>>

OwnFields(c) == [i \in DOMAIN Fields[c] |-> [in |-> c, name |-> Fields[c][i]]]
FieldsOf(c) == class_dvs[c].fields
IsStaticField(f) == f.name \in Static[f.in]
DeclaredFields == UNION {ToSet(OwnFields(c)) : c \in Type}
StaticFields == {f \in DeclaredFields : f.in \in Classes /\ IsStaticField(f)}

----------------------------------------------------------------------------
(* What is compiled.  A field without an initialiser is given zero.         *)
Given(f) == initialiser[f.in][f.name]
CreatesObject(f) == Given(f) \in Type
Constant(f) == IF Given(f) = None THEN Zero ELSE DeclaredValue(f)

\* All fields of the vector are initialised, the static ones too, before any
\* constructor is called.
NoWait(o) == TRUE
FieldsDone(o) == o.fields = Len(FieldsOf(o.class))

DefaultConstructors(c) == {k \in method_list[c] : k.constructor /\ k.sig \in NoParameters}

\* The constructors called for an object of c: those without parameters of each
\* superclass, also those its method_list has from Object, and k.
Calls(c, k) == {<<c, k>>} \cup UNION {{d} \X DefaultConstructors(d) : d \in SuperClasses(c)}

BottomUp(calls) == {x \in calls : \A y \in calls : x[1] \notin SuperClasses(y[1])}

\* construct goes up before it calls, so a superclass's come first; those of one
\* method_list come in the order of a set of pointers.
TopDown(calls) == {x \in calls : \A y \in calls : y[1] \notin SuperClasses(x[1])}

OwnMethodsOnly(c) == [s \in DOMAIN class_dvs[c].slots |->
                        class_dvs[c].slots[s] \cap program[c].methods]

\* The start statements of a class: no statement for a null slot.
Filled(c) == class_dvs[c].slots

----------------------------------------------------------------------------
StartupInit ==
    /\ DispatchInit
    /\ initialiser = <<>> /\ unit = 0 /\ at = 0
    /\ label = <<>> /\ statics = <<>> /\ heap = <<>>
    /\ result = None /\ open = <<>> /\ made = <<>> /\ arrays = <<>> /\ raised = FALSE

\* The classes whose objects are created with an object of c.
CreatedWith(c) == {Given(f)' : f \in ToSet(FieldsOf(c))} \cap Type

\* A vector for each class.  The type checker has rejected objects of abstract
\* classes; of a class whose creation contains itself, the code is endless.
Begin(i) ==
    /\ phase = "build" /\ Classes \subseteq DOMAIN class_dvs /\ unit = 0
    /\ initialiser' = i
    /\ \A c \in Classes : /\ CreatedWith(c) \subseteq ConcreteClasses
                          /\ c \notin Reached(CreatedWith, c)
    /\ unit' = 1 /\ at' = 0
    /\ label' = [c \in Classes |-> Zero]
    /\ statics' = [f \in StaticFields |-> Zero]
    /\ UNCHANGED <<vars, heap, result, open, made>>

InUnits == unit \in DOMAIN Units
InMain  == unit > Len(Units) /\ open = <<>> /\ ~raised
Entered == unit > Len(Units)

\* the class whose code runs, at its own level
Running(c) == InUnits /\ open = <<>> /\ c = Units[unit] /\ ~IsInterface(c)

NextUnit ==
    /\ InUnits /\ open = <<>> /\ unit < Len(Units)
    /\ IsInterface(Units[unit]) \/ at > Len(Fields[Units[unit]])
    /\ unit' = unit + 1 /\ at' = 0
    /\ UNCHANGED <<vars, initialiser, label, statics, heap, result, open, made>>

AllocateVector(c) ==
    /\ Running(c) /\ at = 0
    /\ heap' = Append(heap, [w \in 0..Cardinality(DOMAIN class_dvs[c].slots) |-> Garbage])
    /\ label' = [label EXCEPT ![c] = Reference(Len(heap) + 1)]
    /\ at' = 1
    /\ UNCHANGED <<vars, initialiser, unit, statics, result, open, made>>

\* Only the static fields of a class have code of their own.
SkipField(c) ==
    /\ Running(c) /\ at \in DOMAIN Fields[c] /\ ~IsStaticField(OwnFields(c)[at])
    /\ at' = at + 1
    /\ UNCHANGED <<vars, initialiser, unit, label, statics, heap, result, open, made>>

This == open[Len(open)]

\* f is the field to be given a value: the next one of the object being created,
\* or else the next one of the unit, a static one.
Initialises(f) ==
    \/ /\ open # <<>> /\ This.fields < Len(FieldsOf(This.class))
       /\ f = FieldsOf(This.class)[This.fields + 1]
    \/ \E c \in Classes : /\ Running(c) /\ at \in DOMAIN Fields[c]
                          /\ f = OwnFields(c)[at] /\ IsStaticField(f)

Evaluate(f) ==
    /\ Initialises(f) /\ result = None /\ ~CreatesObject(f)
    /\ result' = Constant(f)
    /\ UNCHANGED <<vars, initialiser, unit, at, label, statics, heap, open, made>>

AssignStatic(f) ==
    /\ open = <<>> /\ Initialises(f) /\ result # None
    /\ statics' = [statics EXCEPT ![f] = result]
    /\ at' = at + 1 /\ result' = None
    /\ UNCHANGED <<vars, initialiser, unit, label, heap, open, made>>

StoreField(f) ==
    /\ open # <<>> /\ Initialises(f) /\ result # None
    /\ heap' = [heap EXCEPT ![This.ref][This.fields + 1] = result]
    /\ open' = [open EXCEPT ![Len(open)].fields = @ + 1]
    /\ result' = None
    /\ UNCHANGED <<vars, initialiser, unit, at, label, statics, made>>

\* The class label is read as it is now.
NewObject(c, k) ==
    /\ heap' = Append(heap, [w \in 0..Len(FieldsOf(c)) |->
                               IF w = 0 THEN label[c] ELSE Garbage])
    /\ open' = Append(open, [ref |-> Len(heap) + 1, class |-> c, during |-> unit,
                             fields |-> 0, calls |-> Calls(c, k), constructed |-> <<>>,
                             stored |-> [i \in 1..Len(FieldsOf(c)) |-> None]])
    /\ result' = None
    /\ UNCHANGED <<vars, initialiser, unit, at, label, statics, made>>

Create(f) ==
    /\ Initialises(f) /\ result = None /\ CreatesObject(f)
    /\ \E k \in Constructors(Given(f)) : NewObject(Given(f), k)

\* A constructor runs, Object's own to no effect.
Construct(x, stored) ==
    /\ open # <<>> /\ FieldsDone(This) /\ x \in TopDown(This.calls)
    /\ stored \in {i \in DOMAIN This.stored : ~IsStaticField(FieldsOf(This.class)[i])} \cup {0}
    /\ x[2].in = Object => stored = 0
    /\ heap' = IF stored = 0 THEN heap
               ELSE [heap EXCEPT ![This.ref][stored] = StoredBy(x[2].in)]
    /\ open' = [open EXCEPT
         ![Len(open)].calls = @ \ {x},
         ![Len(open)].constructed = Append(@, x[2].in),
         ![Len(open)].stored = [i \in DOMAIN @ |-> IF i = stored THEN x[2].in ELSE @[i]]]
    /\ UNCHANGED <<vars, initialiser, unit, at, label, statics, result, made>>

Finish ==
    /\ open # <<>> /\ FieldsDone(This) /\ This.calls = {}
    /\ result' = Reference(This.ref)
    /\ made' = Append(made, This)
    /\ open' = SubSeq(open, 1, Len(open) - 1)
    /\ UNCHANGED <<vars, initialiser, unit, at, label, statics, heap>>

\* The start statements of all units, then the call of the entry point.
FillVectors ==
    /\ unit = Len(Units) /\ InUnits /\ open = <<>>
    /\ IsInterface(Units[unit]) \/ at > Len(Fields[Units[unit]])
    /\ unit' = unit + 1 /\ at' = 0
    /\ heap' = [b \in DOMAIN heap |->
                  IF \E c \in Classes : label[c] = Reference(b)
                  THEN LET c == CHOOSE d \in Classes : label[d] = Reference(b)
                       IN  [w \in DOMAIN heap[b] |->
                              IF w \in DOMAIN Filled(c) /\ Filled(c)[w] # {}
                              THEN Address(Filled(c)[w]) ELSE heap[b][w]]
                  ELSE heap[b]]
    /\ UNCHANGED <<vars, initialiser, label, statics, result, open, made>>

MadeInMain == SelectSeq(made, LAMBDA o : o.during > Len(Units))
CreatedInMain == Len(MadeInMain) + Len(arrays)

\* The program creates an object.
CreateInMain(c) ==
    /\ InMain /\ CreatedInMain < MaxObjects
    /\ \E k \in Constructors(c) : NewObject(c, k)

\* An exception ends the program.
Raise == raised' = TRUE /\ UNCHANGED <<vars, objectVars, arrays>>

\* A number of bytes with the sign bit set is more than malloc has.
CreateArray(size) ==
    /\ InMain /\ CreatedInMain < MaxObjects /\ Bytes(size) > 0
    /\ heap' = Append(heap, [w \in 0..(Bytes(size) \div 4 - 1) |->
                   CASE w = 0 -> Number(size)
                     [] w = 1 -> label[ArraysClass]
                     [] w \in Zeroed(size) -> Zero
                     [] OTHER -> Garbage])
    /\ arrays' = Append(arrays, [ref |-> Len(heap) + 1, size |-> size,
                                 elements |-> [i \in 0..(size - 1) |-> Zero]])
    /\ UNCHANGED <<vars, initialiser, unit, at, label, statics, result, open, made, raised>>

\* A store to a word outside the block is lost here.
StoreElement(n, index) ==
    /\ InMain
    /\ InBounds(index, heap[arrays[n].ref][0][2])
    /\ heap' = [heap EXCEPT ![arrays[n].ref] =
                  [w \in DOMAIN @ |-> IF w = WordOf(index) THEN Number(index) ELSE @[w]]]
    /\ arrays' = [arrays EXCEPT ![n].elements =
                  [i \in DOMAIN @ |-> IF i = index THEN Number(index) ELSE @[i]]]
    /\ UNCHANGED <<vars, initialiser, unit, at, label, statics, result, open, made, raised>>

ArrayStep ==
    \/ \E size \in Sizes : \/ size >= 0 /\ CreateArray(size)
                           \/ InMain /\ CreatedInMain < MaxObjects /\ size < 0 /\ Raise
    \/ \E n \in DOMAIN arrays, index \in Indices :
         \/ StoreElement(n, index)
         \/ InMain /\ ~InBounds(index, heap[arrays[n].ref][0][2]) /\ Raise

ObjectStep ==
    \/ \E i \in Initialisers : Begin(i)
    \/ NextUnit
    \/ \E c \in Classes : AllocateVector(c) \/ SkipField(c)
    \/ \E f \in DeclaredFields : Evaluate(f) \/ AssignStatic(f) \/ StoreField(f) \/ Create(f)
    \/ /\ open # <<>>
       /\ \E x \in This.calls, stored \in {0} \cup DOMAIN This.stored : Construct(x, stored)
    \/ Finish \/ FillVectors
    \/ \E c \in ConcreteClasses : CreateInMain(c)

StartupStep == \/ ObjectStep /\ UNCHANGED <<arrays, raised>>
               \/ ArrayStep

StartupNext == \/ DispatchNext /\ UNCHANGED startupVars
               \/ StartupStep

StartupSpec == StartupInit /\ [][StartupNext]_allVars

----------------------------------------------------------------------------
UnitOf(c) == CHOOSE i \in DOMAIN Units : Units[i] = c
Finished == {made[n] : n \in DOMAIN made}
Objects == Finished \cup {open[j] : j \in DOMAIN open}

\* Once the entry point is called, the vector an object points to holds each
\* method of its class at the slot calls read it from; also the vector of an
\* object that was created when all vectors were still empty.  One created in
\* the initialiser of a static field of a unit before its class's has none.
ObjectsDispatch ==
    Entered => \A o \in Objects : o.during >= UnitOf(o.class) =>
        LET vector == heap[o.ref][0]
        IN  /\ vector = label[o.class] /\ vector # Zero
            /\ \A r \in Members(o.class) : \A m \in Implementation(o.class, r.sig) :
                 heap[vector[2]][colour[m]] = Address({m})

\* Every constructor of the chain runs once, a superclass's before its
\* subclass's, whatever else a superclass's method_list holds.
ConstructedInOrder ==
    \A o \in Finished :
        LET run == o.constructed
        IN  /\ {run[n] : n \in DOMAIN run} \ {Object} = ClassChain(o.class) \ {Object}
            /\ \A n \in DOMAIN run : \A m \in 1..(n - 1) :
                 Object \in {run[m], run[n]} \/ run[m] \in SuperClasses(run[n])

\* A value is what the field f is declared with.
AsDeclared(f, value) ==
    IF CreatesObject(f) THEN \E o \in Finished : o.class = Given(f) /\ value = Reference(o.ref)
                        ELSE value = Constant(f)

\* A field has what its declaration gives it, unless a constructor stored in it
\* since, as in Java, where a class's initialisers run after the constructors of
\* its superclasses and not before them: so only if none of those was the last
\* to store in it.  A static field has what its declaration gives it.
FieldsAsJava ==
    /\ \A o \in Finished : \A i \in DOMAIN FieldsOf(o.class) :
         LET f == FieldsOf(o.class)[i]
             last == o.stored[i]
         IN  last \notin SuperClasses(f.in) =>
               IF last = None THEN AsDeclared(f, heap[o.ref][i])
                              ELSE heap[o.ref][i] = StoredBy(last)
    /\ Entered => \A f \in StaticFields : AsDeclared(f, statics[f])

\* The second word of an array has the vector of its class, its length is what
\* it was created with, and each element is zero or what was last stored in it,
\* for the creation loop and the checks of an access agree on where the elements
\* are; provided the number of bytes fits in a word, which nothing tests.
ArraysAsJava ==
    \A n \in DOMAIN arrays :
        LET array == arrays[n]
            block == heap[array.ref]
        IN  Fits(array.size) =>
               /\ block[0] = Number(array.size) /\ block[1] = label[ArraysClass]
               /\ \A i \in DOMAIN array.elements : block[WordOf(i)] = array.elements[i]
=============================================================================
