------------------------------- MODULE Types -------------------------------
(***************************************************************************)
(* The types the checker gives expressions (LinkedType: a base and whether *)
(* it is an array), the rules it compares them with, and, to judge the     *)
(* rules by, the values a program may meet and which of them a type means. *)
(***************************************************************************)
EXTENDS Integers, Sequences, FiniteSets

CONSTANTS
    Class, Interface,   \* the declared types
    Supers,             \* what each of them extends and implements
    Final,              \* the final classes
    Object, String,     \* java.lang's
    ArraySuper,         \* java.lang.Cloneable and java.io.Serializable
    Element             \* the types there are arrays of

Declared == Class \cup Interface
Numeric == {"int", "short", "byte", "char"}
Primitive == Numeric \cup {"boolean", "void", "null"}

(* Numbers are told apart by the types that hold them: -1, 200 and 40000.  *)
NumbersOf == [int |-> {"negative", "medium", "large"},
              short |-> {"negative", "medium"},
              byte |-> {"negative"},
              char |-> {"medium", "large"}]

ASSUME HierarchyAssumption ==
    /\ Class \cap Interface = {}
    /\ Declared \cap (Primitive \cup NumbersOf.int) = {}
    /\ Supers \in [Declared -> SUBSET Declared]
    /\ {Object, String} \subseteq Class /\ Final \subseteq Class
    /\ ArraySuper \subseteq Interface
    /\ \A t \in {Object} \cup ArraySuper : Supers[t] = {}
    /\ Element \subseteq (Primitive \ {"void", "null"}) \cup Declared

\* A class extends one class, which is not final; an interface extends interfaces.
ASSUME ClausesAssumption ==
    /\ \A t \in Interface : Supers[t] \subseteq Interface
    /\ \A c \in Class : \A d, e \in Supers[c] \cap Class : d = e
    /\ \A t \in Declared : Supers[t] \cap Final = {}

-----------------------------------------------------------------------------
(* LinkedType.                                                             *)
Plain(base) == [base |-> base, array |-> FALSE]
ArrayOf(base) == [base |-> base, array |-> TRUE]
Type == {Plain(b) : b \in Primitive \cup Declared}
            \cup {ArrayOf(b) : b \in Element}

IsPrimitive(t) == ~t.array /\ t.base \in Primitive
IsReferenceType(t) == ~IsPrimitive(t)
IsNumeric(t) == ~t.array /\ t.base \in Numeric
IsNull(t) == t = Plain("null")
IsVoid(t) == t = Plain("void")
IsBoolean(t) == t = Plain("boolean")
IsFinal(t) == IsReferenceType(t) /\ t.base \in Final

(* What isSubType's search from d reaches: the least set that holds d and  *)
(* the supertypes of its members. An interface does not reach Object.      *)
Closed(S) == \A e \in S : Supers[e] \subseteq S
Above == [d \in Declared |->
            {e \in Declared : \A S \in SUBSET Declared : d \in S /\ Closed(S) => e \in S}]

IsSubElement(b, other) == b = other \/ (b \in Declared /\ other \in Above[b])

(* With an array on the right and none on the left the declared types are  *)
(* compared, and C is a subtype of C[].                                    *)
IsSubType(t, other) ==
    \/ t = other
    \/ /\ IsReferenceType(t) /\ IsReferenceType(other)
       /\ \/ t.array = other.array /\ IsSubElement(t.base, other.base)
          \/ t.array /\ ~other.array /\ other.base \in {Object} \cup ArraySuper
          \/ ~t.array /\ other.array /\ other.base \in Above[t.base]

\* Mutant: without the check that an array is stored in an array variable.
AssignabilityByName(to, from) ==
    IF IsPrimitive(to)
    THEN /\ IsPrimitive(from)
         /\ \/ to = from
            \/ to = Plain("int") /\ IsNumeric(from)
            \/ to = Plain("short") /\ from = Plain("byte")
    ELSE to.base = Object \/ IsNull(from) \/ IsSubType(from, to)

(* May a value of type from be stored in a variable of type to?            *)
CheckAssignability(to, from) ==
    IF IsPrimitive(to)
    THEN /\ IsPrimitive(from)
         /\ \/ to = from
            \/ to = Plain("int") /\ IsNumeric(from)
            \/ to = Plain("short") /\ from = Plain("byte")
    ELSE /\ to.array => from.array \/ IsNull(from)
         /\ to.base = Object \/ IsNull(from) \/ IsSubType(from, to)

(* One direction of (type) expression; a cast and instanceof try both.     *)
CheckCastability(type, expression) ==
    \/ IsNumeric(type) /\ IsNumeric(expression)
    \/ expression.base \in Interface /\ (type.base \in Interface \/ ~IsFinal(type))
    \/ type.base \in Interface /\ (expression.base \in Interface \/ ~IsFinal(expression))
    \/ IsNull(expression) /\ IsReferenceType(type)
    \/ type.base = Object
    \/ expression.base = Object /\ IsReferenceType(type)
    \/ IsSubType(type, expression)
\* Mutant: one direction, as for ==.
CastableUp(t, u) == CheckCastability(t, u)
Castable(t, u) == CheckCastability(t, u) \/ CheckCastability(u, t)

-----------------------------------------------------------------------------
(* Values: a number, a truth value, null, or an object known by its type.  *)
(* One known by an interface is of a class that implements no other.       *)
Numbers(b) == {Plain(n) : n \in NumbersOf[b]}
Null == Plain("null")
Objects == {Plain(d) : d \in Declared} \cup {t \in Type : t.array}
Garbage == Plain("garbage")
Value == Numbers("int") \cup {Plain("boolean"), Plain("void"), Null} \cup Objects

(* v is an object that Java lets a variable of reference type t hold.      *)
InstanceOf(v, t) ==
    IF t.array
    THEN v.array /\ (IsSubElement(v.base, t.base) \/ (t.base = Object /\ v.base \in Declared))
    ELSE \/ t.base = Object
         \/ IF v.array THEN t.base \in ArraySuper ELSE t.base \in Above[v.base]
Fits(v, t) ==
    IF IsPrimitive(t)
    THEN IF IsNumeric(t) THEN v \in Numbers(t.base) ELSE v = t
    ELSE v = Null \/ (v \in Objects /\ InstanceOf(v, t))
Values(t) == {v \in Value : Fits(v, t)}
=============================================================================
