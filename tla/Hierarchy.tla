------------------------------ MODULE Hierarchy ------------------------------
(****************************************************************************)
(* Hierarchy checking (hierarchy-checking.cc): the compiler visits the       *)
(* compilation units in the order of the command line, rejects a unit that   *)
(* breaks a rule of the class hierarchy, and gives every other type its      *)
(* method_list, the methods it declares or inherits.  The visitor reads only *)
(* what environment building and type linking left (program), never the      *)
(* method_list of another type.                                              *)
(*                                                                          *)
(* A method stands for its MethodDeclarationObject: two are equal only when  *)
(* they are one declaration.  A signature is a name with parameter types.    *)
(****************************************************************************)
EXTENDS Naturals, Sequences, FiniteSets, FiniteSetsExt, SequencesExt

CONSTANTS Type,        \* the classes and interfaces of all units
          Object,      \* java.lang.Object
          None,        \* no superclass
          Signature,   \* method and constructor signatures
          Result,      \* result types
          Units,       \* the types in the order their units are visited
          Linked       \* what each of them may be once its types are linked

Modifier == {"public", "protected", "abstract", "static", "final"}

Method == [in : Type, sig : Signature, type : Result,
           mods : SUBSET Modifier, constructor : BOOLEAN]

\* supers: the implements clause of a class, the extends clause of an interface
Declaration == [interface : BOOLEAN, mods : SUBSET Modifier,
                extended : Type \cup {None}, supers : Seq(Type),
                methods : SUBSET Method]

ASSUME TypesAssumption == /\ Object \in Type /\ None \notin Type
                          /\ IsFiniteSet(Type)
ASSUME UnitsAssumption == Units \in Seq(Type) /\ ToSet(Units) = Type

\* The type linker resolves an extends or implements clause to a type of its kind.
ASSUME LinkedAssumption ==
    /\ Linked \in [Type -> SUBSET Declaration]
    /\ \A t \in Type : \A d \in Linked[t] :
         /\ \A m \in d.methods : m.in = t
         /\ d.interface => d.extended = None
         /\ d.extended # None => \A e \in Linked[d.extended] : ~e.interface
         /\ \A s \in ToSet(d.supers) : \A e \in Linked[s] : e.interface

\* No method has the name of a class.  Where the visitor looks for bodies it takes
\* a constructor for a method of its class's name (hierarchy-checking.cc:253).
ASSUME ConstructorAssumption ==
    \A t, u \in Type : \A d \in Linked[t], e \in Linked[u] :
        \A m \in d.methods, k \in e.methods :
            ~m.constructor /\ k.constructor => m.sig # k.sig

\* What the library's Object is.
ASSUME ObjectAssumption ==
    \A d \in Linked[Object] : /\ ~d.interface /\ d.extended = None /\ d.supers = <<>>
                             /\ "abstract" \notin d.mods
                             /\ \E k \in d.methods : k.constructor

VARIABLES program,      \* the linked declarations
          visited,      \* how many units have been visited
          method_list,  \* the methods each visited type declares or inherits
          verdict       \* "linking", "checking", "accepted" or "rejected"

hierarchyVars == <<program, visited, method_list, verdict>>

----------------------------------------------------------------------------
IsInterface(t) == program[t].interface
IsAbstract(m) == "abstract" \in m.mods
IsStatic(m) == "static" \in m.mods
SameSignature(m, r) == m.sig = r.sig
Declared(t) == {m \in program[t].methods : ~m.constructor}
Constructors(t) == {m \in program[t].methods : m.constructor}

SuperInterfaces(t) == ToSet(program[t].supers)
SuperClass(t) == {program[t].extended} \ {None}
Supers(t) == SuperClass(t) \cup SuperInterfaces(t)

\* The types reached from t in one step of Direct or more.
Reached(Direct(_), t) ==
    LET within[n \in 0..Cardinality(Type)] ==
            IF n = 0 THEN Direct(t)
            ELSE LET nearer == within[n - 1]
                 IN  nearer \cup UNION {Direct(u) : u \in nearer}
    IN  within[Cardinality(Type)]

Ancestors(t) == Reached(Supers, t)
SuperClasses(t) == Reached(SuperClass, t)
ClassChain(t) == {t} \cup SuperClasses(t)
InterfacesOf(t) == {i \in Ancestors(t) : IsInterface(i)}

CyclicHierarchy(t) == \E u \in {t} \cup Ancestors(t) : u \in Ancestors(u)
AllMethods(t) == UNION {Declared(u) : u \in {t} \cup Ancestors(t)}

----------------------------------------------------------------------------
(* The rules.                                                               *)
DuplicateSignature(S) == \E m, r \in S : m # r /\ SameSignature(m, r)

BadReplacement(m, r) ==
    \/ m.type # r.type
    \/ IsStatic(m) # IsStatic(r)
    \/ "protected" \in m.mods /\ "public" \in r.mods
    \/ "final" \in r.mods

DifferentResults(S) == \E m, r \in S : SameSignature(m, r) /\ m.type # r.type

RepeatsInterface(t) == ~IsInjective(program[t].supers)

ImplementedAnywhere(t, c, a) ==
    \E d \in ClassChain(t) : \E m \in program[d].methods :
        SameSignature(m, a) /\ ~IsAbstract(m)

\* A nearer class of the chain has a body for a.
ImplementedBelow(t, c, a) ==
    \E d \in ClassChain(t) : \E m \in program[d].methods :
        c \in SuperClasses(d) /\ SameSignature(m, a) /\ ~IsAbstract(m)

HasUnimplemented(t) ==
    \/ \E c \in ClassChain(t) : \E a \in program[c].methods :
            IsAbstract(a) /\ ~ImplementedBelow(t, c, a)
    \/ \E i \in UNION {InterfacesOf(c) : c \in ClassChain(t)} :
         \E a \in program[i].methods :
            \A c \in ClassChain(t) : \A m \in program[c].methods :
                SameSignature(m, a) => IsAbstract(m)

\* Object's constructors are among the methods a class takes from Object.
ExtendedMethods(t) ==
    (UNION {AllMethods(c) : c \in SuperClass(t)})
      \cup (IF t = Object THEN {} ELSE program[Object].methods)
ImplementedMethods(t) == UNION {AllMethods(i) : i \in SuperInterfaces(t)}

OnlyResultsDiffer(e, i) == SameSignature(e, i) /\ e.type # i.type

BadInheritance(e, i) ==
    /\ SameSignature(e, i)
    /\ IF IsAbstract(e) THEN e.type # i.type
                        ELSE IsStatic(e) \/ BadReplacement(e, i)

ClassRejected(t) ==
    \/ \E c \in SuperClass(t) : "final" \in program[c].mods
    \/ RepeatsInterface(t)
    \/ DuplicateSignature(Constructors(t)) \/ DuplicateSignature(Declared(t))
    \/ CyclicHierarchy(t)
    \/ "abstract" \notin program[t].mods /\ HasUnimplemented(t)
    \/ \E m \in Declared(t), r \in ExtendedMethods(t) \cup ImplementedMethods(t) :
            SameSignature(m, r) /\ BadReplacement(m, r)
    \/ \E e \in ExtendedMethods(t), i \in ImplementedMethods(t) : BadInheritance(e, i)
    \/ DifferentResults(AllMethods(t))

\* The public methods of Object are declared implicitly by every interface.
ImplicitMethods == {m \in program[Object].methods :
                        "public" \in m.mods /\ ~IsStatic(m)}

InterfaceRejected(t) ==
    \/ RepeatsInterface(t)
    \/ \E m \in program[t].methods :
         \E r \in (program[t].methods \cup ImplicitMethods) \ {m} : SameSignature(m, r)
    \/ CyclicHierarchy(t)
    \/ DifferentResults(AllMethods(t))

InterfacesReplaceToo(t) ==
    {m \in ExtendedMethods(t) \cup ImplementedMethods(t) :
        /\ \A r \in Declared(t) : ~SameSignature(r, m)
        /\ m \in ExtendedMethods(t) =>
             \A r \in ImplementedMethods(t) : ~SameSignature(r, m)}

\* The methods of the superclass and of the superinterfaces that the class does
\* not replace; a superclass's method also takes the place of an interface's.
InheritedMethods(t) ==
    {m \in ExtendedMethods(t) \cup ImplementedMethods(t) :
        /\ \A r \in Declared(t) : ~SameSignature(r, m)
        /\ m \in ImplementedMethods(t) =>
             \A r \in ExtendedMethods(t) : ~SameSignature(r, m)}

----------------------------------------------------------------------------
HierarchyInit == /\ program = [t \in {} |-> None]
                 /\ visited = 0
                 /\ method_list = [t \in Type |-> {}]
                 /\ verdict = "linking"

\* Type linking resolves the extends and implements clauses of a unit.
LinkUnit(t, d) ==
    /\ verdict = "linking" /\ visited < Len(Units) /\ t = Units[visited + 1]
    /\ program' = [u \in DOMAIN program \cup {t} |-> IF u = t THEN d ELSE program[u]]
    /\ visited' = visited + 1
    /\ UNCHANGED <<method_list, verdict>>

BeginChecking == /\ verdict = "linking" /\ visited = Len(Units)
                 /\ verdict' = "checking" /\ visited' = 0
                 /\ UNCHANGED <<program, method_list>>

Visiting(t) == /\ verdict = "checking"
               /\ visited < Len(Units)
               /\ t = Units[visited + 1]

Accept(t, methods) ==
    /\ method_list' = [method_list EXCEPT ![t] = methods]
    /\ visited' = visited + 1
    /\ UNCHANGED <<program, verdict>>

\* A rule is broken: the exception ends the compilation.
Reject(t) ==
    /\ Visiting(t)
    /\ IF IsInterface(t) THEN InterfaceRejected(t) ELSE ClassRejected(t)
    /\ verdict' = "rejected"
    /\ UNCHANGED <<program, visited, method_list>>

VisitClass(t) ==
    /\ Visiting(t) /\ ~IsInterface(t) /\ ~ClassRejected(t)
    /\ Accept(t, program[t].methods \cup InheritedMethods(t))

VisitInterface(t) ==
    /\ Visiting(t) /\ IsInterface(t) /\ ~InterfaceRejected(t)
    /\ Accept(t, program[t].methods \cup program[Object].methods
                   \cup UNION {AllMethods(i) : i \in SuperInterfaces(t)})

AcceptProgram == /\ verdict = "checking" /\ visited = Len(Units)
                 /\ verdict' = "accepted"
                 /\ UNCHANGED <<program, visited, method_list>>

Visit == \/ \E t \in Type : \E d \in Linked[t] : LinkUnit(t, d)
         \/ BeginChecking
         \/ \E t \in Type : Reject(t) \/ VisitClass(t) \/ VisitInterface(t)
         \/ AcceptProgram

HierarchySpec == HierarchyInit /\ [][Visit]_hierarchyVars

----------------------------------------------------------------------------
(* What hierarchy checking promises, against method lookup as the language   *)
(* defines it: the nearest declaration up the chain, Object's last.          *)
Classes == {t \in DOMAIN program : ~IsInterface(t)}
ConcreteClasses == {c \in Classes : "abstract" \notin program[c].mods}
Members(c) == AllMethods(c) \cup Declared(Object)
Nearer(d, c) == c \in SuperClasses(d) \/ (c = Object /\ d # Object)
Implementation(c, sig) ==
    {m \in UNION {Declared(d) : d \in ClassChain(c) \cup {Object}} :
        /\ m.sig = sig
        /\ \A d \in ClassChain(c) : Nearer(d, m.in) =>
             \A r \in Declared(d) : r.sig # sig}

\* An object of an accepted program has a body for every method its class
\* declares or inherits, so no slot of its dispatch vector is left to an
\* abstract method: the queues of hierarchy-checking.cc:246-291 against lookup.
NoAbstractObject ==
    verdict = "accepted" =>
        \A c \in ConcreteClasses : \A r \in Members(c) :
            \E m \in Implementation(c, r.sig) : ~IsAbstract(m)

\* Whatever method runs for a signature may stand for every method of that
\* signature in the supertypes: result, staticness, access and finality agree,
\* also when the method and the interface meet only in a subclass.
ImplementationStandsForAll ==
    verdict = "accepted" =>
        \A c \in ConcreteClasses : \A r \in Members(c) :
            \A m \in Implementation(c, r.sig) \ {r} : ~BadReplacement(m, r)

\* The method lookup finds is in method_list, from which the dispatch vectors
\* are filled: inheritance never loses it.
ImplementationListed ==
    verdict = "accepted" =>
        \A c \in ConcreteClasses : \A r \in Members(c) :
            Implementation(c, r.sig) \subseteq method_list[c]

\* symboltableentry.h:64 calls method_list "declared and inherited methods":
\* every signature a class contains is in it, whether or not it has a body.
MethodListComplete ==
    verdict = "accepted" =>
        \A c \in Classes : \A r \in AllMethods(c) :
            \E m \in method_list[c] : SameSignature(m, r)
=============================================================================
