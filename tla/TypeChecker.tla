---------------------------- MODULE TypeChecker ----------------------------
(***************************************************************************)
(* TypeChecker over the expressions of one class, taken bottom up. A       *)
(* finished subexpression is an operand on a stack: the type the checker   *)
(* linked it to, and a value the compiled program may have computed for    *)
(* it. Variables, fields and calls may hold any value of their type, since *)
(* everything stored passes through these actions too; after a step whose  *)
(* result the compiled program does not check (trusted = FALSE) that is no *)
(* longer so, and the program is not followed further.                     *)
(***************************************************************************)
EXTENDS Types

CONSTANTS
    CurrentClass, PackageOf, Abstract,
    Fields,             \* accessible_fields and overloaded_methods, by type,
    Methods,            \* as hierarchy checking leaves them
    MaxDepth            \* bound on the operands in progress

HasMember(t, m) == m.in \in Declared /\ m.in \in Above[t] \cup {Object}
                   /\ m.type \in Type \ {Plain("null")}
ASSUME MembersAssumption ==
    /\ CurrentClass \in Class
    /\ \A c \in Class : \A f \in Fields[c] : HasMember(c, f)
    /\ \A t \in Declared : \A m \in Methods[t] : HasMember(t, m)

VARIABLES stack, verdict, trusted, inStatic
vars == <<stack, verdict, trusted, inStatic>>

(* place is the type that what is stored in the operand must have; known   *)
(* says that the link's not_expression flag has been written.              *)
Operand(t, v, place, kind, known) ==
    [type |-> t, value |-> v, place |-> place, kind |-> kind, known |-> known]
Computed(t, v) == Operand(t, v, t, "value", TRUE)
Stored(t, v, kind) == Operand(t, v, t, kind, TRUE)
IsVariable(o) == o.kind \in {"name", "field", "element"}

Accepted == [why |-> "accepted", to |-> Null]
Checking == trusted /\ verdict = Accepted
Top == stack[Len(stack)]
Below == stack[Len(stack) - 1]

(* The last n operands become one, which is trusted only if ok; or the     *)
(* compilation ends with an error about them.                              *)
Become(n, o, ok) ==
    /\ stack' = Append(SubSeq(stack, 1, Len(stack) - n), o)
    /\ trusted' = ok
    /\ UNCHANGED <<verdict, inStatic>>
Room == Checking /\ Len(stack) < MaxDepth
RejectAs(n, to, why) ==
    /\ verdict' = [why |-> why, to |-> to]
    /\ stack' = SubSeq(stack, Len(stack) - n + 1, Len(stack))
    /\ UNCHANGED <<trusted, inStatic>>
Reject(n, why) == RejectAs(n, Null, why)
Ready(n) == Checking /\ Len(stack) >= n

-----------------------------------------------------------------------------
(* What the compiled program relies on and never checks.                   *)

\* A primitive value, or an array of them, becomes an Object or Object[].
BoxedUnchecked(to, from) ==
    to.base = Object /\ ~IsNull(from) /\ (IsPrimitive(from)
                            \/ (to.array /\ from.base \in Primitive))

\* A cast moves the value as it is, so every value of the operand must have
\* fitted already; int literals alone are cut to size.
CannotFail(to, from) == Values(from) \subseteq Values(to)

\* An array of a subclass may be known as an array of the superclass.
StoreUnchecked(o) == o.kind = "element" /\ IsReferenceType(o.type)

-----------------------------------------------------------------------------
(* Literals and names.                                                     *)
Literals == {Plain(b) : b \in {"int", "char", "boolean", "null", String}}
LiteralOperand ==
    /\ Room
    /\ \E t \in Literals : \E v \in Values(t) \ (IF t.base = String THEN {Null} ELSE {}) :
            Become(0, Stored(t, v, "literal"), TRUE)

Name ==
    /\ Room
    /\ \E t \in Type \ {Plain("void"), Plain("null")} : \E v \in Values(t) :
            Become(0, Stored(t, v, "name"), TRUE)

\* The objects this may be, and what a field or method of it needs.
IsThisAccessAllowed == ~inStatic
QualifiedThis ==
    /\ Room
    /\ IF IsThisAccessAllowed
       THEN \E v \in Values(Plain(CurrentClass)) \ {Null} :
                Become(0, Computed(Plain(CurrentClass), v), TRUE)
       ELSE Reject(0, "this")

Parenthesized == Ready(1) /\ Become(1, Operand(Top.type, Top.value, Top.type, "value", Top.known), TRUE)

-----------------------------------------------------------------------------
(* Storing: an assignment, an initialiser and a return.                    *)
Assignment ==
    /\ Ready(2)
    /\ IF ~IsVariable(Below) \/ ~CheckAssignability(Below.type, Top.type)
       THEN Reject(2, "assignment")
       ELSE Become(2, Operand(Below.type, Top.value, Below.place, "value", Below.known),
                   ~BoxedUnchecked(Below.type, Top.type) /\ ~StoreUnchecked(Below))

\* LocalVariableVisitor's own list of narrowing conversions, a later pass.
Narrowing(to, from) ==
    \/ from.base = "int" /\ to.base \in {"byte", "short", "char"}
    \/ from.base = "byte" /\ to.base = "char"
    \/ from.base = "short" /\ to.base \in {"char", "byte"}
    \/ from.base = "char" /\ to.base \in {"byte", "short"}
LocalVariableDeclaration ==
    /\ Ready(1)
    /\ \E t \in Type \ {Plain("void"), Plain("null")} :
         IF ~CheckAssignability(t, Top.type)
         THEN RejectAs(1, t, "declaration")
         ELSE IF IsPrimitive(t) /\ IsPrimitive(Top.type) /\ Narrowing(t, Top.type)
         THEN RejectAs(1, t, "narrowing")
         ELSE Become(1, Stored(t, Top.value, "name"), ~BoxedUnchecked(t, Top.type))

\* The value returned is the value of the call.
ReturnStatement ==
    /\ Ready(1)
    /\ \E t \in Type \ {Plain("null")} :
         IF IsVoid(t) \/ ~CheckAssignability(t, Top.type)
         THEN RejectAs(1, t, "return")
         ELSE Become(1, Computed(t, Top.value), ~BoxedUnchecked(t, Top.type))

\* The conditions of if, while and for.
Condition == Ready(1) /\ ~IsBoolean(Top.type) /\ Reject(1, "condition")

-----------------------------------------------------------------------------
(* Operators.                                                              *)
Arithmetic == Ready(2) /\ IsNumeric(Below.type) /\ IsNumeric(Top.type)
    /\ \E v \in Numbers("int") : Become(2, Computed(Plain("int"), v), TRUE)

IsString(t) == t.base = String
Concatenation ==
    /\ Ready(2) /\ ~(IsNumeric(Below.type) /\ IsNumeric(Top.type))
    /\ IF (IsString(Below.type) /\ ~IsVoid(Top.type)) \/ (IsString(Top.type) /\ ~IsVoid(Below.type))
       THEN Become(2, Computed(Plain(String), Plain(String)), TRUE)
       ELSE Reject(2, "plus")

Alike(t, u) == (IsNumeric(t) /\ IsNumeric(u)) \/ (IsBoolean(t) /\ IsBoolean(u))
Comparable(t, u) ==
    /\ ~IsVoid(t) /\ ~IsVoid(u)
    /\ \/ CheckCastability(t, u)
       \/ IsNull(t) /\ (IsReferenceType(u) \/ IsNull(u))
       \/ IsNull(u) /\ IsReferenceType(t)
       \/ Alike(t, u)
Equality ==
    /\ Ready(2)
    /\ IF Comparable(Below.type, Top.type)
       THEN Become(2, Computed(Plain("boolean"), Plain("boolean")), TRUE)
       ELSE Reject(2, "equality")

\* <, <=, >, >= over numbers and &&, ||, & and | over booleans.
Relation ==
    /\ Ready(2)
    /\ IF Alike(Below.type, Top.type)
       THEN Become(2, Computed(Plain("boolean"), Plain("boolean")), TRUE)
       ELSE Reject(2, "operands")

\* Minus keeps the type of its operand.
PrefixExpression ==
    /\ Ready(1)
    /\ IF IsNumeric(Top.type)
       THEN \E v \in Numbers("int") :
                Become(1, Operand(Top.type, v, Top.type, "value", FALSE), Top.type = Plain("int"))
       ELSE IF IsBoolean(Top.type)
       THEN Become(1, Operand(Top.type, Top.value, Top.type, "value", FALSE), TRUE)
       ELSE Reject(1, "prefix")

CastValues(to, o) ==
    IF o.kind # "literal" THEN {o.value}
    ELSE IF o.type = Plain("int") /\ IsNumeric(to) THEN Numbers(to.base)
    ELSE IF IsString(o.type) /\ to.base \in Class /\ ~to.array THEN {to}  \* its vector is replaced
    ELSE {o.value}
CastExpression ==
    /\ Ready(1)
    /\ \E to \in Type \ {Plain("void"), Plain("null")} :
         IF ~Castable(to, Top.type)
         THEN RejectAs(1, to, "cast")
         ELSE \E v \in CastValues(to, Top) :
                Become(1, Computed(to, v), CannotFail(to, Top.type)
                            \/ (Top.kind = "literal" /\ Top.type = Plain("int") /\ IsNumeric(to)))

InstanceOfExpression ==
    /\ Ready(1)
    /\ \E to \in Type \ {Plain("void"), Plain("null")} :
         IF /\ IsReferenceType(Top.type) \/ IsNull(Top.type)
            /\ IsReferenceType(to) /\ Castable(to, Top.type)
         THEN Become(1, Computed(Plain("boolean"), Plain("boolean")), TRUE)
         ELSE RejectAs(1, to, "instanceof")

-----------------------------------------------------------------------------
(* Arrays. The links of both are written in part: known is FALSE.          *)
ArrayCreationExpression ==
    /\ Ready(1)
    /\ \E t \in {u \in Type : u.array} :
         IF IsNumeric(Top.type)
         THEN Become(1, Operand(t, t, t, "value", FALSE), TRUE)
         ELSE Reject(1, "creation")

ArrayAccess ==
    /\ Ready(2)
    /\ IF ~Below.type.array \/ ~IsNumeric(Top.type)
       THEN Reject(2, "access")
       ELSE \E v \in Values(Plain(Below.value.base)) :
                /\ Below.value # Null
                /\ Become(2, Operand(Plain(Below.type.base), v, Plain(Below.value.base), "element", FALSE), TRUE)

-----------------------------------------------------------------------------
(* Members. receiver is a value, or nothing for a static member.           *)
Accessible(m, on) ==
    \/ ~m.protected \/ PackageOf[CurrentClass] = PackageOf[m.in]
    \/ /\ IsSubType(Plain(CurrentClass), Plain(m.in))
       /\ m.static \/ IsSubType(on, Plain(CurrentClass))

\* What a member holds; read from an object without such a member, it is
\* anything.
ValuesOf(m, value) ==
    IF m.static \/ InstanceOf(value, Plain(m.in)) THEN Values(m.type) ELSE {Garbage}

\* Read through not_expression, which may never have been written.
NotExpression(o) == IF o.known THEN {FALSE} ELSE BOOLEAN

FieldsNamed(base, n, static, on) ==
    {f \in IF base \in Class THEN Fields[base] ELSE {} :
        f.name = n /\ f.static = static /\ Accessible(f, on)}

\* o.n, by the class base; an array has length alone.
Access(o, n, static, base, kind) ==
    IF o.type.array /\ n = "length"
    THEN Become(1, Computed(Plain("int"), Plain("medium")), TRUE)
    ELSE LET found == FieldsNamed(base, n, static, Plain(base))
         IN  IF found = {} THEN Reject(0, "field")
             ELSE \E f \in found : \E v \in ValuesOf(f, o.value) :
                    Become(1, Stored(f.type, v, kind), ~o.type.array)
FieldName == {"length"} \cup {f.name : f \in UNION {Fields[c] : c \in Class}}

FieldAccess ==
    /\ Ready(1) /\ Top.value # Null
    /\ \E n \in FieldName, static \in NotExpression(Top) :
         Access(Top, n, static, IF Top.type.array THEN Null ELSE Top.type.base, "field")

\* a.n with a local or a field as its prefix: an array passes for its elements.
QualifiedIdentifier ==
    /\ Ready(1) /\ Top.kind = "name" /\ Top.value # Null
    /\ \E n \in FieldName : Access(Top, n, FALSE, Top.type.base, "name")

StaticField ==
    /\ Room
    /\ \E c \in Declared, n \in FieldName :
         LET found == FieldsNamed(c, n, TRUE, Plain(c))
         IN  IF found = {} THEN Reject(0, "field")
             ELSE \E f \in found : \E v \in Values(f.type) : Become(0, Stored(f.type, v, "name"), TRUE)

\* The types of the last n operands.
Arguments(n) == [i \in 1..n |-> stack[Len(stack) - n + i].type]
DetermineMethodSignature(on, name, arguments, constructor) ==
    LET found == {m \in IF on.base \in Declared THEN Methods[on.base] ELSE {} :
                    /\ m.constructor = constructor /\ m.name = name
                    /\ m.params = arguments /\ Accessible(m, on)}
        concrete == {m \in found : ~m.abstract}
    IN  IF Cardinality(found) > 1 /\ concrete # {} THEN concrete ELSE found
MethodName == {m.name : m \in UNION {Methods[t] : t \in Declared}}

MethodInvocation ==
    \E n \in 0..1, name \in MethodName :
        /\ Ready(n + 1)
        /\ LET on == stack[Len(stack) - n]
               found == DetermineMethodSignature(on.type, name, Arguments(n), FALSE)
           IN /\ on.value # Null
              /\ \E static \in NotExpression(on) :
                  IF \/ static /\ ~on.type.array /\ on.type.base \in Interface
                     \/ found = {}
                  THEN Reject(0, "method")
                  ELSE \E m \in found :
                         IF m.static # static THEN Reject(0, "static")
                         ELSE \E v \in ValuesOf(m, on.value) :
                                Become(n + 1, Computed(m.type, v), ~on.type.array \/ m.in = Object)

StaticMethodInvocation ==
    \E n \in 0..1, name \in MethodName, c \in Declared :
        /\ Ready(n) /\ Len(stack) - n < MaxDepth
        /\ LET found == DetermineMethodSignature(Plain(c), name, Arguments(n), FALSE)
           IN IF c \in Interface \/ found = {}
              THEN Reject(0, "method")
              ELSE \E m \in found :
                     IF ~m.static THEN Reject(0, "static")
                     ELSE \E v \in Values(m.type) : Become(n, Computed(m.type, v), TRUE)

ClassInstanceCreationExpression ==
    \E n \in 0..1, c \in Declared :
        /\ Ready(n) /\ Len(stack) - n < MaxDepth
        /\ IF c \in Interface \cup Abstract
              \/ DetermineMethodSignature(Plain(c), "new", Arguments(n), TRUE) = {}
           THEN Reject(0, "new")
           ELSE Become(n, Computed(Plain(c), Plain(c)), TRUE)

-----------------------------------------------------------------------------
Init == /\ stack = <<>> /\ verdict = Accepted /\ trusted = TRUE
        /\ inStatic \in BOOLEAN
Next == \/ LiteralOperand \/ Name \/ QualifiedThis \/ Parenthesized
        \/ Assignment \/ LocalVariableDeclaration \/ ReturnStatement \/ Condition
        \/ Arithmetic \/ Concatenation \/ Equality \/ Relation \/ PrefixExpression
        \/ CastExpression \/ InstanceOfExpression
        \/ ArrayCreationExpression \/ ArrayAccess
        \/ FieldAccess \/ QualifiedIdentifier \/ StaticField
        \/ MethodInvocation \/ StaticMethodInvocation \/ ClassInstanceCreationExpression
Spec == Init /\ [][Next]_vars

-----------------------------------------------------------------------------
(* A value always has the static type of its expression, and is what the   *)
(* place it was stored in holds: the checks of TypeChecker leave no way    *)
(* round them but the steps named above.                                   *)
ValuesFit == trusted => \A i \in DOMAIN stack :
    Fits(stack[i].value, stack[i].type) /\ Fits(stack[i].value, stack[i].place)

(* Nothing is rejected that could have gone well: a value stored might not *)
(* fit, and two operands of a cast, an instanceof or an equality have no   *)
(* object in common. A superclass to the left of == is rejected all the    *)
(* same: Comparable tries one direction of the cast.                       *)
MightNotFit(to, from) == ~(Values(from) \subseteq Values(to))
Apart(t, u) == (Values(t) \cap Values(u)) \ {Null} = {} /\ ~(IsNumeric(t) /\ IsNumeric(u))
RejectsOnlyHopeless ==
    LET to == verdict.to IN
    CASE verdict.why = "assignment" -> ~IsVariable(Below) \/ MightNotFit(Below.type, Top.type)
      [] verdict.why \in {"declaration", "narrowing"} -> MightNotFit(to, Top.type)
      [] verdict.why = "return" -> IsVoid(to) \/ MightNotFit(to, Top.type)
      [] verdict.why = "cast" -> Apart(to, Top.type)
      [] verdict.why = "instanceof" ->
            Apart(to, Top.type) \/ IsPrimitive(to) \/ (IsPrimitive(Top.type) /\ ~IsNull(Top.type))
      [] verdict.why = "equality" ->
            \/ IsVoid(Below.type) \/ IsVoid(Top.type) \/ Apart(Below.type, Top.type)
            \/ IsSubType(Top.type, Below.type)
      [] OTHER -> TRUE
=============================================================================
