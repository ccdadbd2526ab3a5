------------------------- MODULE TypeCheckerProofs -------------------------
(* No accepted expression has a value its type does not allow, whatever    *)
(* the classes, their members and the order of the operators, as long as   *)
(* none of the unchecked steps named in TypeChecker is taken.              *)
EXTENDS TypeChecker, TLAPS

(* A searched supertype's supertypes are found as well.                    *)
LEMMA AboveTransitive ==
    ASSUME NEW d \in Declared, NEW e \in Above[d], NEW f \in Above[e]
    PROVE  e \in Declared /\ f \in Declared /\ f \in Above[d]
  <1>1. e \in Declared /\ f \in Declared
    BY DEF Above
  <1>2. ASSUME NEW S \in SUBSET Declared, d \in S, Closed(S) PROVE f \in S
    <2>1. e \in S
      BY <1>2 DEF Above
    <2> QED
      BY <1>1, <1>2, <2>1 DEF Above
  <1> QED
    BY <1>1, <1>2 DEF Above

(* A type is found by its own search.                                      *)
LEMMA AboveReflexive == \A d \in Declared : d \in Above[d]
  BY DEF Above

(* Object and the supertypes of arrays have no supertypes of their own.    *)
LEMMA Roots == \A t \in {Object} \cup ArraySuper : Above[t] = {t}
  <1> TAKE t \in {Object} \cup ArraySuper
  <1>1. t \in Declared /\ Supers[t] = {}
    BY HierarchyAssumption DEF Declared
  <1>2. {t} \in SUBSET Declared /\ Closed({t})
    BY <1>1 DEF Closed
  <1> QED
    BY <1>1, <1>2 DEF Above

(* The parts of a type that is no array.                                   *)
LEMMA PlainParts == \A b : Plain(b).base = b /\ Plain(b).array = FALSE
  BY DEF Plain

(* What the base of a type may be.                                         *)
LEMMA Bases ==
    ASSUME NEW t \in Type
    PROVE  /\ t.array \in BOOLEAN
           /\ t = [base |-> t.base, array |-> t.array]
           /\ t.base \in Primitive \cup Declared
           /\ ~(t.base \in Primitive /\ t.base \in Declared)
           /\ t.array => t.base \in Element
           /\ IsReferenceType(t) /\ ~t.array => t.base \in Declared
  <1>1. \A b : b \in Declared => b \notin Primitive
    BY HierarchyAssumption
  <1>2. Element \subseteq Primitive \cup Declared
    BY HierarchyAssumption
  <1> HIDE DEF Declared, Primitive
  <1>3. \/ \E b \in Primitive \cup Declared : t = [base |-> b, array |-> FALSE]
        \/ \E b \in Element : t = [base |-> b, array |-> TRUE]
    BY DEF Type, Plain, ArrayOf
  <1>4. ASSUME NEW b \in Primitive \cup Declared, t = [base |-> b, array |-> FALSE]
        PROVE  t.base = b /\ t.array = FALSE
    BY <1>4
  <1>5. ASSUME NEW b \in Element, t = [base |-> b, array |-> TRUE]
        PROVE  t.base = b /\ t.array = TRUE
    BY <1>5
  <1>6. CASE \E b \in Primitive \cup Declared : t = [base |-> b, array |-> FALSE]
    BY <1>1, <1>4, <1>6 DEF IsReferenceType, IsPrimitive
  <1>7. CASE \E b \in Element : t = [base |-> b, array |-> TRUE]
    BY <1>1, <1>2, <1>5, <1>7
  <1> QED
    BY <1>3, <1>6, <1>7

(* The objects are of declared types or are arrays.                        *)
LEMMA ObjectBases ==
    ASSUME NEW v \in Objects
    PROVE  v \in Type /\ (~v.array => v.base \in Declared) /\ v \in Value
  BY DEF Objects, Plain, ArrayOf, Type, Value

(* A number of a type is a number of the types it widens to.               *)
LEMMA NumbersWiden ==
    /\ \A b \in Numeric : Numbers(b) \subseteq Numbers("int")
    /\ Numbers("byte") \subseteq Numbers("short")
  BY DEF Numbers, NumbersOf, Numeric

(* Every value that fits a type is a value.                                *)
LEMMA FitsIsValue ==
    ASSUME NEW t \in Type, NEW v, Fits(v, t)
    PROVE  v \in Value
  <1>1. CASE IsPrimitive(t)
    <2>1. CASE IsNumeric(t)
      BY <1>1, <2>1, NumbersWiden DEF Fits, Value, IsNumeric
    <2>2. CASE ~IsNumeric(t)
      BY <1>1, <2>2, Bases DEF Fits, Value, IsNumeric, IsPrimitive, Primitive, Plain, Null
    <2> QED
      BY <2>1, <2>2
  <1>2. CASE ~IsPrimitive(t)
    BY <1>2, ObjectBases DEF Fits, Value
  <1> QED
    BY <1>1, <1>2

(* An element that fits the array's own element type fits the type of the  *)
(* elements of any type the array fits.                                    *)
LEMMA ElementFits ==
    ASSUME NEW t \in Type, t.array, NEW a, Fits(a, t), a # Null,
           NEW v, Fits(v, Plain(a.base))
    PROVE  /\ Plain(a.base) \in Type /\ Plain(t.base) \in Type
           /\ Fits(v, Plain(t.base))
           /\ IsPrimitive(Plain(t.base)) => a.base = t.base
  <1>1. a \in Objects /\ InstanceOf(a, t) /\ a.array
    BY DEF Fits, IsPrimitive, InstanceOf
  <1>2. a \in Type
    BY <1>1, ObjectBases
  <1>3. Plain(a.base) \in Type /\ Plain(t.base) \in Type
    BY <1>2, Bases DEF Type
  <1>4. IsSubElement(a.base, t.base) \/ (t.base = Object /\ a.base \in Declared)
    BY <1>1 DEF InstanceOf
  <1>5. Object \in Declared
    BY HierarchyAssumption DEF Declared
  <1>6. CASE a.base = t.base
    BY <1>3, <1>6
  <1>7. CASE a.base # t.base
    <2> SUFFICES ~IsPrimitive(Plain(t.base)) /\ Fits(v, Plain(t.base))
      BY <1>3
    <2>1. a.base \in Declared /\ t.base \in Declared
      BY <1>4, <1>5, <1>7 DEF IsSubElement, Above
    <2>2. ~IsPrimitive(Plain(a.base)) /\ ~IsPrimitive(Plain(t.base))
      BY <2>1, <1>3, Bases DEF IsPrimitive, Plain
    <2>3. v = Null \/ (v \in Objects /\ InstanceOf(v, Plain(a.base)))
      BY <2>2 DEF Fits
    <2>4. CASE t.base = Object
      BY <2>2, <2>3, <2>4, PlainParts DEF Fits, InstanceOf
    <2>5. CASE t.base \in Above[a.base] /\ t.base # Object
      <3>1. a.base \notin {Object} \cup ArraySuper
        BY <1>7, <2>5, Roots
      <3>2. v # Null => v \in Objects /\ ~v.array /\ a.base \in Above[v.base] /\ v.base \in Declared
        BY <2>3, <3>1, ObjectBases DEF InstanceOf, Plain, Declared
      <3>3. v # Null => t.base \in Above[v.base]
        BY <2>5, <3>2, AboveTransitive
      <3> QED
        BY <2>2, <3>2, <3>3, PlainParts DEF Fits, InstanceOf
    <2> QED
      BY <1>4, <1>7, <2>2, <2>4, <2>5 DEF IsSubElement
  <1> QED
    BY <1>6, <1>7

(* An object of a subtype is an object of the type, as IsSubType has it    *)
(* between types of which the right one is no array unless the left is.    *)
LEMMA SubTypeFits ==
    ASSUME NEW t \in Type, NEW u \in Type, IsReferenceType(t), IsReferenceType(u),
           IsSubType(t, u), u.array => t.array, NEW v, Fits(v, t)
    PROVE  Fits(v, u)
  <1>1. CASE t = u
    BY <1>1
  <1>2. CASE t # u /\ v # Null
    <2>1. v \in Objects /\ InstanceOf(v, t)
      BY <1>2 DEF Fits, IsReferenceType
    <2>2. SUFFICES InstanceOf(v, u)
      BY <2>1, <2>2 DEF Fits, IsReferenceType
    <2>3. v \in Type /\ (~v.array => v.base \in Declared)
      BY <2>1, ObjectBases DEF Declared
    <2>4. \A b \in Declared, c \in Declared : IsSubElement(b, c) => c \in Above[b]
      BY AboveReflexive DEF IsSubElement
    <2>5. CASE t.array /\ u.array
      <3>1. t.base # u.base /\ t.base \in Declared /\ u.base \in Above[t.base]
        BY <1>2, <2>5, Bases DEF IsSubType, IsSubElement
      <3>2. v.array /\ (IsSubElement(v.base, t.base) \/ (t.base = Object /\ v.base \in Declared))
        BY <2>1, <2>5 DEF InstanceOf
      <3>3. t.base # Object
        BY <3>1, Roots
      <3>4. v.base \in Declared /\ t.base \in Above[v.base]
        BY <3>1, <3>2, <3>3, AboveReflexive DEF IsSubElement
      <3>5. u.base \in Above[v.base]
        BY <3>1, <3>4, AboveTransitive
      <3> QED
        BY <2>5, <3>2, <3>4, <3>5 DEF InstanceOf, IsSubElement
    <2>6. CASE t.array /\ ~u.array
      <3>1. u.base \in {Object} \cup ArraySuper
        BY <1>2, <2>6 DEF IsSubType
      <3>2. v.array
        BY <2>1, <2>6 DEF InstanceOf
      <3> QED
        BY <2>6, <3>1, <3>2 DEF InstanceOf
    <2>7. CASE ~t.array /\ ~u.array
      <3>1. t.base \in Declared /\ u.base \in Declared
        BY <2>7, Bases
      <3>2. u.base \in Above[t.base]
        BY <1>2, <2>4, <2>7, <3>1 DEF IsSubType
      <3>3. CASE t.base \in {Object} \cup ArraySuper
        BY <2>1, <2>7, <3>2, <3>3, Roots DEF InstanceOf
      <3>4. CASE t.base \notin {Object} \cup ArraySuper
        <4>1. ~v.array /\ t.base \in Above[v.base]
          BY <2>1, <2>7, <3>4 DEF InstanceOf
        <4>2. u.base \in Above[v.base]
          BY <2>3, <3>2, <4>1, AboveTransitive
        <4> QED
          BY <2>7, <4>1, <4>2 DEF InstanceOf
      <3> QED
        BY <3>3, <3>4
    <2> QED
      BY <2>5, <2>6, <2>7, Bases
  <1>3. CASE v = Null
    BY <1>3 DEF Fits, IsReferenceType
  <1> QED
    BY <1>1, <1>2, <1>3

(* What CheckAssignability lets into a variable fits it, primitives that   *)
(* become Objects apart.                                                   *)
LEMMA AssignableFits ==
    ASSUME NEW to \in Type, NEW from \in Type, CheckAssignability(to, from),
           ~BoxedUnchecked(to, from), NEW v, Fits(v, from)
    PROVE  Fits(v, to)
  <1>1. CASE IsPrimitive(to)
    <2>1. CASE to = from
      BY <2>1
    <2>2. CASE to = Plain("int") /\ IsNumeric(from)
      <3>1. v \in Numbers(from.base)
        BY <2>2 DEF Fits, IsNumeric, IsPrimitive, Primitive
      <3>2. v \in Numbers("int")
        BY <2>2, <3>1, NumbersWiden DEF IsNumeric
      <3> QED
        BY <1>1, <2>2, <3>2, PlainParts DEF Fits, IsNumeric, Numeric
    <2>3. CASE to = Plain("short") /\ from = Plain("byte")
      <3>1. IsPrimitive(from) /\ IsNumeric(from)
        BY <2>3, PlainParts DEF IsPrimitive, IsNumeric, Primitive, Numeric
      <3>2. v \in Numbers("byte")
        BY <2>3, <3>1, PlainParts DEF Fits
      <3>3. v \in Numbers("short")
        BY <3>2, NumbersWiden
      <3> QED
        BY <1>1, <2>3, <3>3, PlainParts DEF Fits, IsNumeric, Numeric
    <2> QED
      BY <1>1, <2>1, <2>2, <2>3 DEF CheckAssignability
  <1>2. CASE ~IsPrimitive(to)
    <2>1. CASE IsNull(from)
      <3>1. v = Null
        BY <2>1, PlainParts DEF Fits, IsNull, IsPrimitive, IsNumeric, Primitive, Numeric, Null
      <3> QED
        BY <1>2, <3>1 DEF Fits
    <2>2. CASE ~IsNull(from) /\ to.base = Object
      <3>1. ~IsPrimitive(from) /\ (to.array => from.array /\ from.base \notin Primitive)
        BY <1>2, <2>2 DEF BoxedUnchecked, CheckAssignability
      <3>2. v = Null \/ (v \in Objects /\ InstanceOf(v, from))
        BY <3>1 DEF Fits
      <3>3. to.array /\ v # Null => v.array /\ v.base \in Declared
        BY <3>1, <3>2, Bases DEF InstanceOf, IsSubElement
      <3> QED
        BY <1>2, <2>2, <3>2, <3>3 DEF Fits, InstanceOf
    <2>3. CASE ~IsNull(from) /\ to.base # Object
      <3>1. IsSubType(from, to) /\ (to.array => from.array)
        BY <1>2, <2>3 DEF CheckAssignability
      <3>2. IsReferenceType(from)
        BY <1>2, <3>1 DEF IsSubType, IsReferenceType
      <3> QED
        BY <1>2, <3>1, <3>2, SubTypeFits DEF IsReferenceType
    <2> QED
      BY <2>1, <2>2, <2>3
  <1> QED
    BY <1>1, <1>2

-----------------------------------------------------------------------------
(* What every operand is while nothing unchecked has happened. The place   *)
(* matters where it can be stored into, and no variable is of the null     *)
(* type.                                                                   *)
Kind == {"literal", "name", "field", "element", "value"}
Good(o) ==
    /\ Fits(o.value, o.type) /\ Fits(o.value, o.place)
    /\ IsVariable(o) /\ ~StoreUnchecked(o) => o.place = o.type
    /\ IsVariable(o) => ~IsNull(o.type)
GoodOperand ==
    {o \in [type : Type, value : Value, place : Type, kind : Kind, known : BOOLEAN] : Good(o)}
IInv == trusted => stack \in Seq(GoodOperand)

(* An operand is good if its value fits its type and its place.            *)
LEMMA OperandGood ==
    ASSUME NEW t \in Type, NEW v, NEW p \in Type, NEW k \in Kind, NEW b \in BOOLEAN,
           Fits(v, t), Fits(v, p),
           k = "value" \/ p = t \/ (k = "element" /\ IsReferenceType(t)),
           k \in {"value", "literal"} \/ ~IsNull(t)
    PROVE  Operand(t, v, p, k, b) \in GoodOperand
  <1> DEFINE o == Operand(t, v, p, k, b)
  <1>1. /\ o.type = t /\ o.value = v /\ o.place = p /\ o.kind = k
        /\ o \in [type : Type, value : Value, place : Type, kind : Kind, known : BOOLEAN]
    BY FitsIsValue DEF Operand
  <1> HIDE DEF o
  <1>2. Good(o)
    BY <1>1 DEF Good, IsVariable, StoreUnchecked
  <1>3. o \in GoodOperand
    BY <1>1, <1>2 DEF GoodOperand
  <1> QED
    BY <1>3 DEF o

(* A value an operator computes is a good operand.                         *)
LEMMA ComputedGood ==
    ASSUME NEW t \in Type, NEW v, Fits(v, t)
    PROVE  Computed(t, v) \in GoodOperand
  BY OperandGood DEF Computed, Kind

(* So is a value read from where a checked one was stored.                 *)
LEMMA StoredGood ==
    ASSUME NEW t \in Type, NEW v, NEW k \in Kind, Fits(v, t), k = "literal" \/ ~IsNull(t)
    PROVE  Stored(t, v, k) \in GoodOperand
  BY OperandGood DEF Stored

(* A step that replaces operands keeps them good, and so does an error.    *)
LEMMA BecomeGood ==
    ASSUME IInv, Checking, NEW n \in Nat, Len(stack) >= n, NEW o, NEW ok \in BOOLEAN,
           Become(n, o, ok), ok => o \in GoodOperand
    PROVE  IInv'
  <1>1. stack \in Seq(GoodOperand)
    BY DEF IInv, Checking
  <1>2. SubSeq(stack, 1, Len(stack) - n) \in Seq(GoodOperand)
    BY <1>1
  <1>3. trusted' => stack' \in Seq(GoodOperand)
    BY <1>2 DEF Become
  <1> QED
    BY <1>3 DEF IInv

(* A rejection keeps the invariant.                                        *)
LEMMA RejectGood ==
    ASSUME IInv, Checking, NEW n \in Nat, Len(stack) >= n, NEW to, NEW why,
           RejectAs(n, to, why)
    PROVE  IInv'
  <1>1. stack \in Seq(GoodOperand)
    BY DEF IInv, Checking
  <1>2. SubSeq(stack, Len(stack) - n + 1, Len(stack)) \in Seq(GoodOperand)
    BY <1>1
  <1> QED
    BY <1>2 DEF IInv, RejectAs

(* The operands a step works on.                                           *)
LEMMA Operands ==
    ASSUME IInv, Checking, NEW i \in 1..Len(stack)
    PROVE  /\ stack[i] \in GoodOperand
           /\ stack[i].type \in Type /\ stack[i].place \in Type /\ stack[i].value \in Value
           /\ stack[i].kind \in Kind /\ stack[i].known \in BOOLEAN
           /\ Good(stack[i])
  <1>1. stack \in Seq(GoodOperand)
    BY DEF IInv, Checking
  <1>2. stack[i] \in GoodOperand
    BY <1>1
  <1> QED
    BY <1>2 DEF GoodOperand

(* The stack's length is a number, and the top two operands are its last.  *)
LEMMA TopOperands ==
    ASSUME IInv, Checking
    PROVE  /\ Len(stack) \in Nat
           /\ Len(stack) >= 1 => Len(stack) \in 1..Len(stack)
           /\ Len(stack) >= 2 => Len(stack) - 1 \in 1..Len(stack)
  <1>1. stack \in Seq(GoodOperand)
    BY DEF IInv, Checking
  <1> QED
    BY <1>1

(* What a member holds fits the member, if the object has it.              *)
LEMMA MemberFits ==
    ASSUME NEW t \in Type, NEW a, Fits(a, t), a # Null, NEW m, HasMember(t.base, m),
           t.base \in Declared, ~t.array \/ m.in = Object, NEW v \in ValuesOf(m, a)
    PROVE  m.type \in Type /\ ~IsNull(m.type) /\ Fits(v, m.type)
  <1>1. ~IsPrimitive(t)
    BY Bases DEF IsPrimitive
  <1>2. a \in Objects /\ InstanceOf(a, t)
    BY <1>1 DEF Fits
  <1>3. InstanceOf(a, Plain(m.in))
    <2>1. CASE m.in = Object
      BY <2>1, PlainParts DEF InstanceOf
    <2>2. CASE m.in # Object /\ ~t.array /\ m.in \in Above[t.base]
      <3>1. CASE t.base = Object
        BY <2>2, <3>1, Roots
      <3>2. CASE t.base # Object /\ a.array
        BY <1>2, <2>2, <3>2, Roots, PlainParts DEF InstanceOf
      <3>3. CASE t.base # Object /\ ~a.array
        <4>1. a.base \in Declared /\ t.base \in Above[a.base]
          BY <1>2, <2>2, <3>3, ObjectBases DEF InstanceOf, Declared
        <4>2. m.in \in Above[a.base]
          BY <2>2, <4>1, AboveTransitive
        <4> QED
          BY <3>3, <4>2, PlainParts DEF InstanceOf
      <3> QED
        BY <3>1, <3>2, <3>3
    <2> QED
      BY <2>1, <2>2 DEF HasMember
  <1> QED
    BY <1>3 DEF HasMember, ValuesOf, Values, IsNull

(* The types the operators compute, and values that fit them.              *)
LEMMA Known ==
    /\ \A b \in Primitive \cup Declared : Plain(b) \in Type
    /\ \A c \in Class : Plain(c) \in Type /\ Fits(Plain(c), Plain(c))
    /\ \A t \in Type : t.array => Fits(t, t)
    /\ Plain("boolean") \in Type /\ Fits(Plain("boolean"), Plain("boolean"))
    /\ Plain("int") \in Type /\ \A v \in Numbers("int") : Fits(v, Plain("int"))
    /\ String \in Class
  <1>1. \A b \in Primitive \cup Declared : Plain(b) \in Type
    BY DEF Type
  <1>2. ASSUME NEW c \in Class PROVE Plain(c) \in Type /\ Fits(Plain(c), Plain(c))
    <2>1. Plain(c) \in Type /\ c \in Declared /\ c \in Above[c]
      BY <1>1, AboveReflexive DEF Declared
    <2>2. ~IsPrimitive(Plain(c)) /\ Plain(c) \in Objects
      BY <2>1, Bases, PlainParts DEF IsPrimitive, Objects
    <2> QED
      BY <2>1, <2>2, PlainParts DEF Fits, InstanceOf
  <1>3. \A t \in Type : t.array => Fits(t, t)
    BY DEF Fits, IsPrimitive, Objects, InstanceOf, IsSubElement
  <1>4. Plain("boolean") \in Type /\ Fits(Plain("boolean"), Plain("boolean"))
    BY <1>1, PlainParts DEF Fits, IsPrimitive, IsNumeric, Numeric, Primitive
  <1>5. Plain("int") \in Type /\ \A v \in Numbers("int") : Fits(v, Plain("int"))
    BY <1>1, PlainParts DEF Fits, IsPrimitive, IsNumeric, Numeric, Primitive
  <1>6. String \in Class
    BY HierarchyAssumption
  <1> QED
    BY <1>1, <1>2, <1>3, <1>4, <1>5, <1>6

(* A value chosen for its type fits it.                                    *)
LEMMA ValuesDoFit == \A t : \A v \in Values(t) : v \in Value /\ Fits(v, t)
  BY DEF Values

-----------------------------------------------------------------------------
(* Literals, names and declarations keep the invariant.                    *)
LEMMA NamesGood ==
    ASSUME IInv, LiteralOperand \/ Name \/ QualifiedThis \/ Parenthesized
    PROVE  IInv'
  <1>0. Checking
    BY DEF LiteralOperand, Name, QualifiedThis, Parenthesized, Room, Ready
  <1>1. Checking /\ Len(stack) \in Nat /\ Len(stack) >= 0
    <2>1. Len(stack) \in Nat
      BY <1>0, TopOperands
    <2> QED
      BY <1>0, <2>1
  <1>2. CASE LiteralOperand
    <2>0. PICK t \in Literals : \E v \in Values(t) : Become(0, Stored(t, v, "literal"), TRUE)
      BY <1>2 DEF LiteralOperand
    <2>1. PICK v \in Values(t) : Become(0, Stored(t, v, "literal"), TRUE)
      BY <2>0
    <2>2. t \in Type
      BY Known DEF Literals, Primitive, Numeric, Declared
    <2>3. Stored(t, v, "literal") \in GoodOperand
      BY <2>2, StoredGood, ValuesDoFit DEF Kind
    <2> QED
      BY <1>1, <2>1, <2>3, BecomeGood
  <1>3. CASE Name
    <2>0. PICK t \in Type : ~IsNull(t) /\ \E v \in Values(t) : Become(0, Stored(t, v, "name"), TRUE)
      BY <1>3 DEF Name, IsNull
    <2>1. PICK v \in Values(t) : Become(0, Stored(t, v, "name"), TRUE)
      BY <2>0
    <2>2. Stored(t, v, "name") \in GoodOperand
      BY <2>0, StoredGood, ValuesDoFit DEF Kind
    <2> QED
      BY <1>1, <2>1, <2>2, BecomeGood
  <1>4. CASE QualifiedThis
    <2>1. CASE IsThisAccessAllowed
      <3>1. PICK v \in Values(Plain(CurrentClass)) : Become(0, Computed(Plain(CurrentClass), v), TRUE)
        BY <1>4, <2>1 DEF QualifiedThis
      <3>2. Plain(CurrentClass) \in Type
        BY Known, MembersAssumption
      <3>3. Computed(Plain(CurrentClass), v) \in GoodOperand
        BY <3>2, ComputedGood, ValuesDoFit
      <3> QED
        BY <1>1, <3>1, <3>3, BecomeGood
    <2>2. CASE ~IsThisAccessAllowed
      <3>1. RejectAs(0, Null, "this")
        BY <1>4, <2>2 DEF QualifiedThis, Reject
      <3> QED
        BY <1>1, <3>1, RejectGood
    <2> QED
      BY <2>1, <2>2
  <1>5. CASE Parenthesized
    <2>1. Len(stack) >= 1 /\ Become(1, Operand(Top.type, Top.value, Top.type, "value", Top.known), TRUE)
      BY <1>5 DEF Parenthesized, Ready
    <2>2. Top.type \in Type /\ Top.known \in BOOLEAN /\ Good(Top)
      BY <1>1, <2>1, TopOperands, Operands DEF Top
    <2>3. Operand(Top.type, Top.value, Top.type, "value", Top.known) \in GoodOperand
      BY <2>2, OperandGood DEF Good, Kind
    <2> QED
      BY <1>1, <2>1, <2>3, BecomeGood
  <1> QED
    BY <1>2, <1>3, <1>4, <1>5

(* Assignments and returns keep it.                                        *)
LEMMA StoresGood ==
    ASSUME IInv, Assignment \/ LocalVariableDeclaration \/ ReturnStatement \/ Condition
    PROVE  IInv'
  <1>1. Checking /\ Len(stack) \in Nat /\ Len(stack) >= 1
    BY TopOperands DEF Assignment, LocalVariableDeclaration, ReturnStatement, Condition, Ready
  <1>2. Top.type \in Type /\ Good(Top)
    BY <1>1, TopOperands, Operands DEF Top
  <1>3. \A t, u : BoxedUnchecked(t, u) \in BOOLEAN
    BY DEF BoxedUnchecked
  <1>4. CASE Assignment
    <2>1. Len(stack) >= 2
      BY <1>4 DEF Assignment, Ready
    <2>2. /\ Below.type \in Type /\ Below.place \in Type /\ Below.known \in BOOLEAN /\ Good(Below)
      BY <1>1, <2>1, TopOperands, Operands DEF Below
    <2>3. CASE ~IsVariable(Below) \/ ~CheckAssignability(Below.type, Top.type)
      <3>1. RejectAs(2, Null, "assignment")
        BY <1>4, <2>3 DEF Assignment, Reject
      <3> QED
        BY <1>1, <2>1, <3>1, RejectGood
    <2>4. CASE IsVariable(Below) /\ CheckAssignability(Below.type, Top.type)
      <3> DEFINE o == Operand(Below.type, Top.value, Below.place, "value", Below.known)
                 ok == ~BoxedUnchecked(Below.type, Top.type) /\ ~StoreUnchecked(Below)
      <3>1. Become(2, o, ok)
        BY <1>4, <2>4 DEF Assignment
      <3>2. ASSUME ok PROVE o \in GoodOperand
        <4>1. Fits(Top.value, Below.type)
          BY <1>2, <2>2, <2>4, <3>2, AssignableFits DEF Good
        <4>2. Below.place = Below.type
          BY <2>2, <2>4, <3>2 DEF Good
        <4> QED
          BY <2>2, <4>1, <4>2, OperandGood DEF Kind
      <3>3. ok \in BOOLEAN
        BY DEF BoxedUnchecked, StoreUnchecked
      <3> HIDE DEF o, ok
      <3> QED
        BY <1>1, <2>1, <3>1, <3>2, <3>3, BecomeGood
    <2> QED
      BY <2>3, <2>4
  <1>5. CASE LocalVariableDeclaration
    <2>1. PICK t \in Type :
            \/ RejectAs(1, t, "declaration") \/ RejectAs(1, t, "narrowing")
            \/ /\ ~IsNull(t) /\ CheckAssignability(t, Top.type)
               /\ Become(1, Stored(t, Top.value, "name"), ~BoxedUnchecked(t, Top.type))
      BY <1>5 DEF LocalVariableDeclaration, IsNull
    <2>2. CASE RejectAs(1, t, "declaration") \/ RejectAs(1, t, "narrowing")
      BY <1>1, <2>2, RejectGood
    <2>3. CASE /\ ~IsNull(t) /\ CheckAssignability(t, Top.type)
               /\ Become(1, Stored(t, Top.value, "name"), ~BoxedUnchecked(t, Top.type))
      <3>1. ~BoxedUnchecked(t, Top.type) => Stored(t, Top.value, "name") \in GoodOperand
        BY <1>2, <2>3, AssignableFits, StoredGood DEF Good, Kind
      <3> QED
        BY <1>1, <1>3, <2>3, <3>1, BecomeGood
    <2> QED
      BY <2>1, <2>2, <2>3
  <1>6. CASE ReturnStatement
    <2>1. PICK t \in Type :
            \/ RejectAs(1, t, "return")
            \/ /\ CheckAssignability(t, Top.type)
               /\ Become(1, Computed(t, Top.value), ~BoxedUnchecked(t, Top.type))
      BY <1>6 DEF ReturnStatement
    <2>2. CASE RejectAs(1, t, "return")
      BY <1>1, <2>2, RejectGood
    <2>3. CASE /\ CheckAssignability(t, Top.type)
               /\ Become(1, Computed(t, Top.value), ~BoxedUnchecked(t, Top.type))
      <3>1. ~BoxedUnchecked(t, Top.type) => Computed(t, Top.value) \in GoodOperand
        BY <1>2, <2>3, AssignableFits, ComputedGood DEF Good
      <3> QED
        BY <1>1, <1>3, <2>3, <3>1, BecomeGood
    <2> QED
      BY <2>1, <2>2, <2>3
  <1>7. CASE Condition
    <2>1. RejectAs(1, Null, "condition")
      BY <1>7 DEF Condition, Reject
    <2> QED
      BY <1>1, <2>1, RejectGood
  <1> QED
    BY <1>4, <1>5, <1>6, <1>7

(* Operators keep it.                                                      *)
LEMMA OperatorsGood ==
    ASSUME IInv,
           \/ Arithmetic \/ Concatenation \/ Equality \/ Relation \/ PrefixExpression
           \/ CastExpression \/ InstanceOfExpression
    PROVE  IInv'
  <1>0. Checking /\ Len(stack) >= 1
    <2>1. Checking /\ (Len(stack) >= 1 \/ Len(stack) >= 2)
      BY DEF Arithmetic, Concatenation, Equality, Relation, PrefixExpression, CastExpression, InstanceOfExpression, Ready
    <2>2. Len(stack) \in Nat
      BY <2>1, TopOperands
    <2> QED
      BY <2>1, <2>2
  <1>1. Checking /\ Len(stack) \in Nat /\ Len(stack) >= 1
    BY <1>0, TopOperands
  <1>2. Top.type \in Type /\ Good(Top)
    BY <1>1, TopOperands, Operands DEF Top
  <1>3. Computed(Plain("boolean"), Plain("boolean")) \in GoodOperand
    BY Known, ComputedGood
  <1>4. CASE Arithmetic
    <2>1. Len(stack) >= 2
      BY <1>4 DEF Arithmetic, Ready
    <2>2. PICK v \in Numbers("int") : Become(2, Computed(Plain("int"), v), TRUE)
      BY <1>4 DEF Arithmetic
    <2>3. Computed(Plain("int"), v) \in GoodOperand
      BY Known, ComputedGood
    <2> QED
      BY <1>1, <2>1, <2>2, <2>3, BecomeGood
  <1>5. CASE Concatenation \/ Equality \/ Relation
    <2>1. Len(stack) >= 2
      BY <1>5 DEF Concatenation, Equality, Relation, Ready
    <2>2. Computed(Plain(String), Plain(String)) \in GoodOperand
      BY Known, ComputedGood
    <2>3. \/ \E why : RejectAs(2, Null, why)
          \/ Become(2, Computed(Plain(String), Plain(String)), TRUE)
          \/ Become(2, Computed(Plain("boolean"), Plain("boolean")), TRUE)
      BY <1>5 DEF Concatenation, Equality, Relation, Reject
    <2>4. CASE \E why : RejectAs(2, Null, why)
      BY <1>1, <2>1, <2>4, RejectGood
    <2>5. CASE Become(2, Computed(Plain(String), Plain(String)), TRUE)
      BY <1>1, <2>1, <2>2, <2>5, BecomeGood
    <2>6. CASE Become(2, Computed(Plain("boolean"), Plain("boolean")), TRUE)
      BY <1>1, <1>3, <2>1, <2>6, BecomeGood
    <2> QED
      BY <2>3, <2>4, <2>5, <2>6
  <1>6. CASE PrefixExpression
    <2>1. CASE IsNumeric(Top.type)
      <3>1. PICK v \in Numbers("int") :
                Become(1, Operand(Top.type, v, Top.type, "value", FALSE), Top.type = Plain("int"))
        BY <1>6, <2>1 DEF PrefixExpression
      <3>2. ASSUME Top.type = Plain("int")
            PROVE  Operand(Top.type, v, Top.type, "value", FALSE) \in GoodOperand
        BY <1>2, <3>2, Known, OperandGood DEF Kind
      <3>3. (Top.type = Plain("int")) \in BOOLEAN
        OBVIOUS
      <3> QED
        BY <1>1, <3>1, <3>2, <3>3, BecomeGood
    <2>2. CASE ~IsNumeric(Top.type) /\ IsBoolean(Top.type)
      <3>1. Become(1, Operand(Top.type, Top.value, Top.type, "value", FALSE), TRUE)
        BY <1>6, <2>2 DEF PrefixExpression
      <3>2. Operand(Top.type, Top.value, Top.type, "value", FALSE) \in GoodOperand
        BY <1>2, OperandGood DEF Good, Kind
      <3> QED
        BY <1>1, <3>1, <3>2, BecomeGood
    <2>3. CASE ~IsNumeric(Top.type) /\ ~IsBoolean(Top.type)
      <3>1. RejectAs(1, Null, "prefix")
        BY <1>6, <2>3 DEF PrefixExpression, Reject
      <3> QED
        BY <1>1, <3>1, RejectGood
    <2> QED
      BY <2>1, <2>2, <2>3
  <1>7. CASE CastExpression
    <2>1. PICK to \in Type :
            \/ RejectAs(1, to, "cast")
            \/ \E v \in CastValues(to, Top) :
                  Become(1, Computed(to, v), CannotFail(to, Top.type)
                            \/ (Top.kind = "literal" /\ Top.type = Plain("int") /\ IsNumeric(to)))
      BY <1>7 DEF CastExpression
    <2> DEFINE ok == CannotFail(to, Top.type)
                            \/ (Top.kind = "literal" /\ Top.type = Plain("int") /\ IsNumeric(to))
    <2>2. CASE RejectAs(1, to, "cast")
      BY <1>1, <2>2, RejectGood
    <2>3. CASE \E v \in CastValues(to, Top) : Become(1, Computed(to, v), ok)
      <3>1. PICK v \in CastValues(to, Top) : Become(1, Computed(to, v), ok)
        BY <2>3
      <3>2. ASSUME ok PROVE Fits(v, to)
        <4>1. CASE v \in Numbers(to.base) /\ IsNumeric(to)
          BY <4>1 DEF Fits, IsNumeric, IsPrimitive, Primitive
        <4>2. CASE v = to /\ to.base \in Class
          BY <4>2, Known, Bases, PlainParts DEF Plain
        <4>3. CASE v = Top.value /\ CannotFail(to, Top.type)
          <5>1. v \in Values(Top.type)
            BY <1>2, <4>3, FitsIsValue DEF Good, Values
          <5> QED
            BY <4>3, <5>1 DEF CannotFail, Values
        <4> QED
          BY <3>1, <3>2, <4>1, <4>2, <4>3 DEF CastValues
      <3>3. ok => Computed(to, v) \in GoodOperand
        BY <3>2, ComputedGood
      <3>4. ok \in BOOLEAN
        BY DEF CannotFail
      <3> HIDE DEF ok
      <3> QED
        BY <1>1, <3>1, <3>3, <3>4, BecomeGood
    <2> QED
      BY <2>1, <2>2, <2>3
  <1>8. CASE InstanceOfExpression
    <2>1. PICK to \in Type : \/ RejectAs(1, to, "instanceof")
                             \/ Become(1, Computed(Plain("boolean"), Plain("boolean")), TRUE)
      BY <1>8 DEF InstanceOfExpression
    <2>2. CASE RejectAs(1, to, "instanceof")
      BY <1>1, <2>2, RejectGood
    <2>3. CASE Become(1, Computed(Plain("boolean"), Plain("boolean")), TRUE)
      BY <1>1, <1>3, <2>3, BecomeGood
    <2> QED
      BY <2>1, <2>2, <2>3
  <1> QED
    BY <1>4, <1>5, <1>6, <1>7, <1>8

(* Array accesses and creations keep it.                                   *)
LEMMA ArraysGood ==
    ASSUME IInv, ArrayCreationExpression \/ ArrayAccess
    PROVE  IInv'
  <1>0. Checking /\ Len(stack) >= 1
    <2>1. Checking /\ (Len(stack) >= 1 \/ Len(stack) >= 2)
      BY DEF ArrayCreationExpression, ArrayAccess, Ready
    <2>2. Len(stack) \in Nat
      BY <2>1, TopOperands
    <2> QED
      BY <2>1, <2>2
  <1>1. Checking /\ Len(stack) \in Nat /\ Len(stack) >= 1
    BY <1>0, TopOperands
  <1>2. CASE ArrayCreationExpression
    <2>1. PICK t \in Type : t.array /\ (\/ RejectAs(1, Null, "creation")
                                       \/ Become(1, Operand(t, t, t, "value", FALSE), TRUE))
      BY <1>2 DEF ArrayCreationExpression, Reject
    <2>2. Operand(t, t, t, "value", FALSE) \in GoodOperand
      BY <2>1, Known, OperandGood DEF Kind
    <2> QED
      BY <1>1, <2>1, <2>2, BecomeGood, RejectGood
  <1>3. CASE ArrayAccess
    <2>1. Len(stack) >= 2
      BY <1>3 DEF ArrayAccess, Ready
    <2>2. Below.type \in Type /\ Good(Below)
      BY <1>1, <2>1, TopOperands, Operands DEF Below
    <2>3. CASE ~Below.type.array \/ ~IsNumeric(Top.type)
      <3>1. RejectAs(2, Null, "access")
        BY <1>3, <2>3 DEF ArrayAccess, Reject
      <3> QED
        BY <1>1, <2>1, <3>1, RejectGood
    <2>4. CASE Below.type.array /\ IsNumeric(Top.type)
      <3> DEFINE t == Plain(Below.type.base)
                 p == Plain(Below.value.base)
      <3>1. PICK v \in Values(p) : Below.value # Null /\ Become(2, Operand(t, v, p, "element", FALSE), TRUE)
        BY <1>3, <2>4 DEF ArrayAccess
      <3>2. Fits(v, p)
        BY <3>1, ValuesDoFit
      <3>3. Fits(Below.value, Below.type)
        BY <2>2 DEF Good
      <3>4. p \in Type /\ t \in Type /\ Fits(v, t) /\ (IsPrimitive(t) => p = t)
        BY <2>2, <2>4, <3>1, <3>2, <3>3, ElementFits
      <3>6. ~IsNull(t)
        <4>1. Below.type.base \in Element /\ "null" \notin Declared
          BY <2>2, <2>4, Bases, HierarchyAssumption DEF Primitive
        <4> QED
          BY <4>1, PlainParts, HierarchyAssumption DEF IsNull
      <3> HIDE DEF t, p
      <3>5. Operand(t, v, p, "element", FALSE) \in GoodOperand
        BY <3>2, <3>4, <3>6, OperandGood DEF Kind, IsReferenceType
      <3> QED
        BY <1>1, <2>1, <3>1, <3>5, BecomeGood
    <2> QED
      BY <2>3, <2>4
  <1> QED
    BY <1>2, <1>3

(* A field read off the operand on top.                                     *)
LEMMA AccessGood ==
    ASSUME IInv, Checking, Len(stack) >= 1, Top.value # Null,
           NEW n, NEW static, NEW base, NEW kind \in Kind,
           Access(Top, n, static, base, kind),
           ~Top.type.array => base = Top.type.base
    PROVE  IInv'
  <1>1. Checking /\ Len(stack) \in Nat /\ Len(stack) >= 0
    BY TopOperands
  <1>2. Top.type \in Type /\ Fits(Top.value, Top.type)
    BY <1>1, TopOperands, Operands DEF Top, Good
  <1>3. CASE Become(1, Computed(Plain("int"), Plain("medium")), TRUE)
    <2>1. Fits(Plain("medium"), Plain("int"))
      BY Known DEF Numbers, NumbersOf
    <2>2. Computed(Plain("int"), Plain("medium")) \in GoodOperand
      BY <2>1, Known, ComputedGood
    <2> QED
      BY <1>1, <1>3, <2>2, BecomeGood
  <1>4. CASE RejectAs(0, Null, "field")
    BY <1>1, <1>4, RejectGood
  <1>5. CASE \E f \in FieldsNamed(base, n, static, Plain(base)) : \E v \in ValuesOf(f, Top.value) :
                Become(1, Stored(f.type, v, kind), ~Top.type.array)
    <2>1. PICK f \in FieldsNamed(base, n, static, Plain(base)) : \E v \in ValuesOf(f, Top.value) :
                Become(1, Stored(f.type, v, kind), ~Top.type.array)
      BY <1>5
    <2>2. PICK v \in ValuesOf(f, Top.value) : Become(1, Stored(f.type, v, kind), ~Top.type.array)
      BY <2>1
    <2>3. base \in Class /\ base \in Declared /\ HasMember(base, f)
      BY MembersAssumption DEF FieldsNamed, Declared
    <2>4. ASSUME ~Top.type.array PROVE Stored(f.type, v, kind) \in GoodOperand
      <3>1. f.type \in Type /\ ~IsNull(f.type) /\ Fits(v, f.type)
        BY <1>2, <2>3, <2>4, MemberFits
      <3> QED
        BY <3>1, StoredGood
    <2>5. (~Top.type.array) \in BOOLEAN
      BY <1>2, Bases
    <2> QED
      BY <1>1, <2>2, <2>4, <2>5, BecomeGood
  <1> QED
    BY <1>3, <1>4, <1>5 DEF Access, Reject

(* Fields keep it.                                                         *)
LEMMA FieldsGood ==
    ASSUME IInv, FieldAccess \/ QualifiedIdentifier \/ StaticField
    PROVE  IInv'
  <1>1. Checking /\ Len(stack) \in Nat /\ Len(stack) >= 0
    <2>1. Checking
      BY DEF FieldAccess, QualifiedIdentifier, StaticField, Room, Ready
    <2>2. Len(stack) \in Nat
      BY <2>1, TopOperands
    <2> QED
      BY <2>1, <2>2
  <1>2. CASE FieldAccess
    <2>1. PICK n, static : Access(Top, n, static, IF Top.type.array THEN Null ELSE Top.type.base, "field")
      BY <1>2 DEF FieldAccess
    <2>2. Len(stack) >= 1 /\ Top.value # Null
      BY <1>2 DEF FieldAccess, Ready
    <2>3. "field" \in Kind
      BY DEF Kind
    <2> QED
      BY <1>1, <2>1, <2>2, <2>3, AccessGood
  <1>3. CASE QualifiedIdentifier
    <2>1. PICK n : Access(Top, n, FALSE, Top.type.base, "name")
      BY <1>3 DEF QualifiedIdentifier
    <2>2. Len(stack) >= 1 /\ Top.value # Null
      BY <1>3 DEF QualifiedIdentifier, Ready
    <2>3. "name" \in Kind
      BY DEF Kind
    <2> QED
      BY <1>1, <2>1, <2>2, <2>3, AccessGood
  <1>4. CASE StaticField
    <2>1. PICK c \in Declared, n \in FieldName :
            \/ RejectAs(0, Null, "field")
            \/ \E f \in FieldsNamed(c, n, TRUE, Plain(c)) :
                \E v \in Values(f.type) : Become(0, Stored(f.type, v, "name"), TRUE)
      BY <1>4 DEF StaticField, Reject
    <2>2. CASE RejectAs(0, Null, "field")
      BY <1>1, <2>2, RejectGood
    <2>3. CASE \E f \in FieldsNamed(c, n, TRUE, Plain(c)) :
               \E v \in Values(f.type) : Become(0, Stored(f.type, v, "name"), TRUE)
      <3>1. PICK f \in FieldsNamed(c, n, TRUE, Plain(c)) :
                \E v \in Values(f.type) : Become(0, Stored(f.type, v, "name"), TRUE)
        BY <2>3
      <3>2. PICK v \in Values(f.type) : Become(0, Stored(f.type, v, "name"), TRUE)
        BY <3>1
      <3>3. f.type \in Type /\ ~IsNull(f.type)
        BY MembersAssumption DEF FieldsNamed, HasMember, IsNull
      <3>4. Stored(f.type, v, "name") \in GoodOperand
        BY <3>3, ValuesDoFit, StoredGood DEF Kind
      <3> QED
        BY <1>1, <3>2, <3>4, BecomeGood
    <2> QED
      BY <2>1, <2>2, <2>3
  <1> QED
    BY <1>2, <1>3, <1>4

(* The methods found for a type are methods of it.                         *)
LEMMA Found ==
    ASSUME NEW t \in Type, NEW name, NEW arguments, NEW constructor,
           NEW m \in DetermineMethodSignature(t, name, arguments, constructor)
    PROVE  t.base \in Declared /\ HasMember(t.base, m)
  <1>1. m \in IF t.base \in Declared THEN Methods[t.base] ELSE {}
    BY DEF DetermineMethodSignature
  <1> QED
    BY <1>1, MembersAssumption

(* Calls and object creations keep it.                                     *)
LEMMA MethodsGood ==
    ASSUME IInv, MethodInvocation \/ StaticMethodInvocation \/ ClassInstanceCreationExpression
    PROVE  IInv'
  <1>1. Checking /\ Len(stack) \in Nat /\ Len(stack) >= 0
    <2>1. Checking
      BY DEF MethodInvocation, StaticMethodInvocation, ClassInstanceCreationExpression, Ready
    <2>2. Len(stack) \in Nat
      BY <2>1, TopOperands
    <2> QED
      BY <2>1, <2>2
  <1>2. ASSUME NEW why, RejectAs(0, Null, why) PROVE IInv'
    BY <1>1, <1>2, RejectGood
  <1>3. CASE MethodInvocation
    <2>1. PICK n \in 0..1, name \in MethodName :
            /\ Len(stack) >= n + 1 /\ stack[Len(stack) - n].value # Null
            /\ \/ RejectAs(0, Null, "method") \/ RejectAs(0, Null, "static")
               \/ \E m \in DetermineMethodSignature(stack[Len(stack) - n].type, name, Arguments(n), FALSE) :
                  \E v \in ValuesOf(m, stack[Len(stack) - n].value) :
                    Become(n + 1, Computed(m.type, v), ~stack[Len(stack) - n].type.array \/ m.in = Object)
      BY <1>3 DEF MethodInvocation, Ready, Reject
    <2> DEFINE on == stack[Len(stack) - n]
    <2>2. on.type \in Type /\ Fits(on.value, on.type)
      <3>1. Len(stack) - n \in 1..Len(stack)
        BY <1>1, <2>1
      <3> QED
        BY <1>1, <3>1, Operands DEF Good
    <2>3. CASE \E m \in DetermineMethodSignature(on.type, name, Arguments(n), FALSE) :
               \E v \in ValuesOf(m, on.value) :
                    Become(n + 1, Computed(m.type, v), ~on.type.array \/ m.in = Object)
      <3>1. PICK m \in DetermineMethodSignature(on.type, name, Arguments(n), FALSE) :
               \E v \in ValuesOf(m, on.value) :
                    Become(n + 1, Computed(m.type, v), ~on.type.array \/ m.in = Object)
        BY <2>3
      <3>2. PICK v \in ValuesOf(m, on.value) :
                    Become(n + 1, Computed(m.type, v), ~on.type.array \/ m.in = Object)
        BY <3>1
      <3> HIDE DEF on
      <3>3. on.type.base \in Declared /\ HasMember(on.type.base, m)
        BY <2>2, Found
      <3>4. ASSUME ~on.type.array \/ m.in = Object PROVE Computed(m.type, v) \in GoodOperand
        <4>1. on.value # Null
          BY <2>1 DEF on
        <4>2. m.type \in Type /\ Fits(v, m.type)
          BY <2>2, <3>3, <3>4, <4>1, MemberFits
        <4> QED
          BY <4>2, ComputedGood
      <3>5. (~on.type.array \/ m.in = Object) \in BOOLEAN
        BY <2>2, Bases
      <3>6. n + 1 \in Nat /\ Len(stack) >= n + 1
        BY <2>1
      <3> QED
        BY <1>1, <3>2, <3>4, <3>5, <3>6, BecomeGood
    <2> QED
      BY <1>2, <2>1, <2>3
  <1>4. CASE StaticMethodInvocation
    <2>1. PICK n \in 0..1, name \in MethodName, c \in Declared :
            /\ Len(stack) >= n
            /\ \/ RejectAs(0, Null, "method") \/ RejectAs(0, Null, "static")
               \/ \E m \in DetermineMethodSignature(Plain(c), name, Arguments(n), FALSE) :
                  \E v \in Values(m.type) : Become(n, Computed(m.type, v), TRUE)
      BY <1>4 DEF StaticMethodInvocation, Ready, Reject
    <2>2. CASE \E m \in DetermineMethodSignature(Plain(c), name, Arguments(n), FALSE) :
               \E v \in Values(m.type) : Become(n, Computed(m.type, v), TRUE)
      <3>1. PICK m \in DetermineMethodSignature(Plain(c), name, Arguments(n), FALSE) :
               \E v \in Values(m.type) : Become(n, Computed(m.type, v), TRUE)
        BY <2>2
      <3>2. PICK v \in Values(m.type) : Become(n, Computed(m.type, v), TRUE)
        BY <3>1
      <3>3. m.type \in Type
        BY Known, Found DEF HasMember
      <3>4. Computed(m.type, v) \in GoodOperand
        BY <3>3, ValuesDoFit, ComputedGood
      <3>5. n \in Nat /\ Len(stack) >= n
        BY <2>1
      <3> QED
        BY <1>1, <3>2, <3>4, <3>5, BecomeGood
    <2> QED
      BY <1>2, <2>1, <2>2
  <1>5. CASE ClassInstanceCreationExpression
    <2>1. PICK n \in 0..1, c \in Declared :
            /\ Len(stack) >= n
            /\ \/ RejectAs(0, Null, "new")
               \/ c \in Class /\ Become(n, Computed(Plain(c), Plain(c)), TRUE)
      BY <1>5 DEF ClassInstanceCreationExpression, Ready, Reject, Declared
    <2>2. CASE c \in Class /\ Become(n, Computed(Plain(c), Plain(c)), TRUE)
      <3>1. Computed(Plain(c), Plain(c)) \in GoodOperand
        BY <2>2, Known, ComputedGood
      <3>2. n \in Nat /\ Len(stack) >= n
        BY <2>1
      <3> QED
        BY <1>1, <2>2, <3>1, <3>2, BecomeGood
    <2> QED
      BY <1>2, <2>1, <2>2
  <1> QED
    BY <1>3, <1>4, <1>5

-----------------------------------------------------------------------------
(* What the checker refuses. The supertypes of an interface are interfaces. *)
LEMMA AboveInterface == \A i \in Interface : Above[i] \subseteq Interface
  <1> TAKE i \in Interface
  <1>1. Interface \in SUBSET Declared /\ Closed(Interface)
    BY ClausesAssumption DEF Declared, Closed
  <1> QED
    BY <1>1 DEF Above, Declared

(* A final class is above no other type.                                    *)
LEMMA AboveFinal == \A f \in Final : \A b \in Declared : f \in Above[b] => b = f
  <1> SUFFICES ASSUME NEW f \in Final, NEW b \in Declared, b # f PROVE f \notin Above[b]
    OBVIOUS
  <1> DEFINE S == Declared \ {f}
  <1>1. Closed(S)
    BY ClausesAssumption, HierarchyAssumption DEF Closed
  <1> QED
    BY <1>1 DEF Above

(* A type is above another, or above one of its supertypes.                 *)
LEMMA AboveStep ==
    ASSUME NEW e \in Declared, NEW c \in Above[e], c # e
    PROVE  \E g \in Supers[e] : g \in Declared /\ c \in Above[g]
  <1> DEFINE S == {e} \cup {d \in Declared : \E g \in Supers[e] : g \in Declared /\ d \in Above[g]}
  <1>1. Supers \in [Declared -> SUBSET Declared]
    BY HierarchyAssumption
  <1>2. S \in SUBSET Declared
    OBVIOUS
  <1>3. ASSUME NEW d \in S PROVE Supers[d] \subseteq S
    <2>1. CASE d = e
      BY <1>1, <2>1, AboveReflexive
    <2>2. CASE d # e
      <3>1. PICK g \in Supers[e] : g \in Declared /\ d \in Above[g]
        BY <1>3, <2>2
      <3>2. Supers[d] \subseteq Above[d]
        BY <1>1, <1>2, <1>3 DEF Above, Closed
      <3>3. Supers[d] \subseteq Above[g]
        BY <3>1, <3>2, AboveTransitive
      <3> QED
        BY <1>1, <1>2, <1>3, <3>1, <3>3
    <2> QED
      BY <2>1, <2>2
  <1>4. c \in S
    <2>1. e \in S /\ Closed(S)
      BY <1>3 DEF Closed
    <2> QED
      BY <1>2, <2>1 DEF Above
  <1> QED
    BY <1>4

(* Of two classes above one type, one is above the other: a class extends   *)
(* one class only.                                                          *)
LEMMA ClassesChain ==
    ASSUME NEW b \in Declared, NEW c \in Class, NEW d \in Class,
           c \in Above[b], d \in Above[b]
    PROVE  c \in Above[d] \/ d \in Above[c]
  <1> DEFINE S == {e \in Declared : e \in Interface \/ c \in Above[e] \/ e \in Above[c]}
  <1>1. Supers \in [Declared -> SUBSET Declared] /\ Class \cap Interface = {} /\ c \in Declared
    BY HierarchyAssumption DEF Declared
  <1>2. ASSUME NEW e \in S, NEW g \in Supers[e] PROVE g \in S
    <2>1. g \in Declared
      BY <1>1
    <2>2. CASE e \in Interface
      BY <2>1, <2>2, ClausesAssumption
    <2>3. CASE e \in Above[c]
      <3>1. g \in Above[e]
        BY <1>1, <2>1 DEF Above, Closed
      <3>2. g \in Above[c]
        BY <1>1, <2>3, <3>1, AboveTransitive
      <3> QED
        BY <2>1, <3>2
    <2>4. CASE e \in Class /\ c \in Above[e] /\ e # c /\ g \notin Interface
      <3>1. PICK h \in Supers[e] : h \in Declared /\ c \in Above[h]
        BY <2>4, AboveStep
      <3>2. h \in Class
        BY <1>1, <3>1, AboveInterface DEF Declared
      <3>3. g \in Class
        BY <2>1, <2>4 DEF Declared
      <3>4. g = h
        BY <2>4, <3>2, <3>3, ClausesAssumption
      <3> QED
        BY <2>1, <3>1, <3>4
    <2>5. CASE e = c
      BY <1>1, <2>3, <2>5, AboveReflexive
    <2> QED
      BY <2>1, <2>2, <2>3, <2>4, <2>5 DEF Declared
  <1>3. b \in S /\ S \in SUBSET Declared /\ Closed(S)
    BY <1>2 DEF Closed
  <1>4. d \in S
    BY <1>3 DEF Above
  <1> QED
    BY <1>1, <1>4

(* An object above whose type are two, one of them a final class or both    *)
(* classes, shows that one of the two is above the other.                   *)
LEMMA Related ==
    ASSUME NEW b \in Declared, NEW c \in Above[b], NEW d \in Above[b],
           ~(c \in Interface /\ d \in Interface),
           c \in Interface => d \in Final, d \in Interface => c \in Final
    PROVE  c \in Above[d] \/ d \in Above[c]
  <1>1. c \in Declared /\ d \in Declared
    BY DEF Above
  <1>2. CASE c \in Class /\ d \in Class
    BY <1>2, ClassesChain
  <1>3. CASE c \in Interface
    BY <1>1, <1>3, AboveFinal
  <1>4. CASE d \in Interface
    BY <1>1, <1>4, AboveFinal
  <1> QED
    BY <1>1, <1>2, <1>3, <1>4 DEF Declared

(* Reference types that no cast connects have no object in common.          *)
LEMMA NoCommonObject ==
    ASSUME NEW t \in Type, NEW u \in Type, IsReferenceType(t), IsReferenceType(u),
           ~CheckCastability(t, u), ~IsSubType(u, t),
           NEW v, Fits(v, t), Fits(v, u)
    PROVE  v = Null
  <1> SUFFICES ASSUME v # Null PROVE FALSE
    OBVIOUS
  <1>1. v \in Objects /\ InstanceOf(v, t) /\ InstanceOf(v, u)
    BY DEF Fits, IsReferenceType
  <1>2. v \in Type /\ (~v.array => v.base \in Declared) /\ v.array \in BOOLEAN
    BY <1>1, ObjectBases, Bases
  <1>3. t.base # Object /\ u.base # Object /\ t # u /\ ~IsSubType(t, u)
    BY DEF CheckCastability, IsSubType
  <1>4. /\ u.base \in Interface => t.base \notin Interface /\ t.base \in Final
        /\ t.base \in Interface => u.base \notin Interface /\ u.base \in Final
    BY DEF CheckCastability, IsFinal
  <1>5. t.array \in BOOLEAN /\ u.array \in BOOLEAN
    BY Bases
  <1>6. ~(t.array = u.array /\ IsSubElement(t.base, u.base))
        /\ ~(t.array = u.array /\ IsSubElement(u.base, t.base))
    BY <1>3 DEF IsSubType
  <1>7. CASE t.array /\ u.array
    <2>1. v.array /\ IsSubElement(v.base, t.base) /\ IsSubElement(v.base, u.base)
      BY <1>1, <1>3, <1>7 DEF InstanceOf
    <2>2. v.base \in Declared
      BY <1>6, <1>7, <2>1 DEF IsSubElement
    <2>3. t.base \in Above[v.base] /\ u.base \in Above[v.base]
      BY <2>1, <2>2, AboveReflexive DEF IsSubElement
    <2>4. t.base \in Declared /\ u.base \in Declared
      BY <2>2, <2>3 DEF Above
    <2>5. t.base \in Above[u.base] \/ u.base \in Above[t.base]
      BY <1>4, <2>2, <2>3, Related
    <2> QED
      BY <1>6, <1>7, <2>4, <2>5 DEF IsSubElement
  <1>8. CASE ~t.array /\ ~u.array
    <2>1. CASE v.array
      <3>1. t.base \in Interface /\ u.base \in Interface
        BY <1>1, <1>3, <1>8, <2>1, HierarchyAssumption DEF InstanceOf
      <3> QED
        BY <1>4, <3>1
    <2>2. CASE ~v.array
      <3>1. v.base \in Declared /\ t.base \in Above[v.base] /\ u.base \in Above[v.base]
        BY <1>1, <1>2, <1>3, <1>8, <2>2 DEF InstanceOf
      <3>2. t.base \in Declared /\ u.base \in Declared
        BY <3>1 DEF Above
      <3>3. t.base \in Above[u.base] \/ u.base \in Above[t.base]
        BY <1>4, <3>1, Related
      <3> QED
        BY <1>5, <1>6, <1>8, <3>2, <3>3 DEF IsSubElement
    <2> QED
      BY <1>2, <2>1, <2>2
  <1>9. CASE t.array /\ ~u.array
    <2>1. v.array
      BY <1>1, <1>9 DEF InstanceOf
    <2>2. u.base \in ArraySuper
      BY <1>1, <1>3, <1>9, <2>1 DEF InstanceOf
    <2> QED
      BY <1>3, <1>9, <2>2 DEF IsSubType
  <1>10. CASE ~t.array /\ u.array
    <2>1. v.array
      BY <1>1, <1>10 DEF InstanceOf
    <2>2. t.base \in ArraySuper
      BY <1>1, <1>3, <1>10, <2>1 DEF InstanceOf
    <2>3. IsSubType(u, t)
      BY <1>10, <2>2 DEF IsSubType
    <2> QED
      BY <2>3
  <1> QED
    BY <1>5, <1>7, <1>8, <1>9, <1>10

(* The values of a primitive type are no objects, and numbers tell the      *)
(* numeric types apart.                                                     *)
LEMMA PrimitiveValues ==
    /\ Plain("null") = Null /\ Null \notin Objects
    /\ \A b \in Numeric : NumbersOf[b] # {} /\ NumbersOf[b] \subseteq NumbersOf.int
    /\ \A n \in NumbersOf.int :
         Plain(n) \notin Objects /\ \A b \in Primitive : Plain(n) # Plain(b)
    /\ \A b \in Primitive : Plain(b) \notin Objects
  <1>1. \A v \in Objects : v.array \/ v.base \in Declared
    BY ObjectBases, Bases
  <1>2. \A b \in Primitive \cup NumbersOf.int : b \notin Declared
    BY HierarchyAssumption
  <1>3. \A b \in Primitive \cup NumbersOf.int : Plain(b) \notin Objects
    BY <1>1, <1>2, PlainParts
  <1>4. Plain("null") = Null /\ "null" \in Primitive
    BY DEF Null, Primitive
  <1>5. \A b \in Numeric : NumbersOf[b] # {} /\ NumbersOf[b] \subseteq NumbersOf.int
    BY DEF Numeric, NumbersOf
  <1>6. \A n \in NumbersOf.int, b \in Primitive : n # b
    BY DEF NumbersOf, Primitive, Numeric
  <1>7. \A n \in NumbersOf.int, b \in Primitive : Plain(n) # Plain(b)
    BY <1>6, PlainParts
  <1> QED
    BY <1>3, <1>4, <1>5, <1>7

(* What fits a primitive type.                                              *)
LEMMA PrimitiveFits ==
    ASSUME NEW t \in Type, IsPrimitive(t)
    PROVE  /\ t.base \in Primitive /\ t = Plain(t.base)
           /\ IsNumeric(t) => t.base \in Numeric /\ \A v : Fits(v, t) <=> v \in Numbers(t.base)
           /\ ~IsNumeric(t) => \A v : Fits(v, t) <=> v = t
  <1>1. t.base \in Primitive /\ t.array = FALSE /\ t = [base |-> t.base, array |-> t.array]
    BY Bases DEF IsPrimitive
  <1>2. t = Plain(t.base)
    BY <1>1 DEF Plain
  <1> QED
    BY <1>1, <1>2 DEF Fits, IsNumeric

(* A primitive type and another have no value in common but null, unless    *)
(* both are numeric.                                                        *)
LEMMA PrimitiveApart ==
    ASSUME NEW t \in Type, NEW u \in Type, IsPrimitive(t), t # u,
           ~(IsNumeric(t) /\ IsNumeric(u)), NEW v, Fits(v, t), Fits(v, u)
    PROVE  v = Null
  <1>1. CASE IsPrimitive(u)
    <2>1. CASE ~IsNumeric(t) /\ ~IsNumeric(u)
      BY <1>1, <2>1, PrimitiveFits
    <2>2. ASSUME NEW x \in Type, NEW y \in Type, IsPrimitive(x), IsPrimitive(y),
                 IsNumeric(x), ~IsNumeric(y), Fits(v, x), Fits(v, y)
          PROVE  FALSE
      <3>1. PICK n \in NumbersOf.int : v = Plain(n)
        BY <2>2, PrimitiveFits, PrimitiveValues DEF Numbers
      <3>2. v = Plain(y.base) /\ y.base \in Primitive
        BY <2>2, PrimitiveFits
      <3> QED
        BY <3>1, <3>2, PrimitiveValues
    <2> QED
      BY <1>1, <2>1, <2>2
  <1>2. CASE ~IsPrimitive(u)
    <2>1. v = Null \/ v \in Objects
      BY <1>2 DEF Fits
    <2>2. CASE IsNumeric(t)
      <3>1. PICK n \in NumbersOf.int : v = Plain(n)
        BY <2>2, PrimitiveFits, PrimitiveValues DEF Numbers
      <3> QED
        BY <2>1, <3>1, PrimitiveValues
    <2>3. CASE ~IsNumeric(t)
      <3>1. v = Plain(t.base) /\ t.base \in Primitive
        BY <2>3, PrimitiveFits
      <3> QED
        BY <2>1, <3>1, PrimitiveValues
    <2> QED
      BY <2>2, <2>3
  <1> QED
    BY <1>1, <1>2

(* Two types that no cast connects have no value in common but null.        *)
LEMMA Uncastable ==
    ASSUME NEW t \in Type, NEW u \in Type, ~CheckCastability(t, u), ~IsSubType(u, t)
    PROVE  Apart(t, u)
  <1>1. ~(IsNumeric(t) /\ IsNumeric(u)) /\ t # u
    BY DEF CheckCastability, IsSubType
  <1>2. ASSUME NEW v \in Values(t) \cap Values(u) PROVE v = Null
    <2>1. Fits(v, t) /\ Fits(v, u)
      BY DEF Values
    <2>2. CASE IsPrimitive(t)
      BY <1>1, <2>1, <2>2, PrimitiveApart
    <2>3. CASE IsPrimitive(u)
      BY <1>1, <2>1, <2>3, PrimitiveApart
    <2>4. CASE ~IsPrimitive(t) /\ ~IsPrimitive(u)
      BY <2>1, <2>4, NoCommonObject DEF IsReferenceType
    <2> QED
      BY <2>2, <2>3, <2>4
  <1> QED
    BY <1>1, <1>2 DEF Apart

(* A reference type not assignable to another has an object, that of the    *)
(* type itself, which does not fit it.                                      *)
LEMMA ReferenceMightNotFit ==
    ASSUME NEW to \in Type, NEW from \in Type, ~CheckAssignability(to, from),
           IsReferenceType(from), ~IsNull(to)
    PROVE  \E v : Fits(v, from) /\ ~Fits(v, to)
  <1>1. Fits(Null, from)
    BY DEF Fits, IsReferenceType
  <1>2. CASE IsPrimitive(to)
    <2>1. ~Fits(Null, to)
      BY <1>2, PrimitiveFits, PrimitiveValues DEF IsNull, Numbers, Null, Primitive
    <2> QED
      BY <1>1, <2>1
  <1>3. CASE ~IsPrimitive(to)
    <2>1. from \in Objects /\ from.array \in BOOLEAN
      BY Bases DEF Objects, Plain
    <2>2. ~from.array => from.base \in Declared /\ from.base \in Above[from.base]
      BY Bases, AboveReflexive
    <2>3. InstanceOf(from, from)
      BY <2>1, <2>2 DEF InstanceOf, IsSubElement
    <2>4. Fits(from, from)
      BY <2>1, <2>3 DEF Fits, IsReferenceType
    <2>5. from # Null
      BY <2>1, PrimitiveValues
    <2>6. ~InstanceOf(from, to)
      <3>1. IsReferenceType(to) /\ to.array \in BOOLEAN
        BY <1>3, Bases DEF IsReferenceType
      <3>2. CASE to.array /\ ~from.array
        BY <3>2 DEF InstanceOf
      <3>3. CASE to.array /\ from.array
        <4>1. to.base # Object /\ ~IsSubElement(from.base, to.base)
          BY <1>3, <2>1, <3>1, <3>3 DEF CheckAssignability, IsSubType
        <4> QED
          BY <3>3, <4>1 DEF InstanceOf
      <3>4. CASE ~to.array
        <4>1. to.base # Object /\ ~IsSubType(from, to)
          BY <1>3, <3>1, <3>4 DEF CheckAssignability
        <4> QED
          BY <2>1, <2>2, <3>1, <3>4, <4>1 DEF InstanceOf, IsSubType, IsSubElement
      <3> QED
        BY <2>1, <3>1, <3>2, <3>3, <3>4
    <2> QED
      BY <1>3, <2>4, <2>5, <2>6 DEF Fits
  <1> QED
    BY <1>2, <1>3

(* A primitive type not assignable to another has a value that does not     *)
(* fit it.                                                                  *)
LEMMA PrimitiveMightNotFit ==
    ASSUME NEW to \in Type, NEW from \in Type, ~CheckAssignability(to, from),
           IsPrimitive(from), ~IsNull(to)
    PROVE  \E v : Fits(v, from) /\ ~Fits(v, to)
  <1>1. to # from
    BY DEF CheckAssignability, IsSubType
  <1>2. CASE ~IsPrimitive(to)
    <2>1. \A v : Fits(v, to) => v = Null \/ v \in Objects
      BY <1>2 DEF Fits
    <2>2. ~IsNull(from) /\ from # Null
      BY <1>2, <1>1 DEF CheckAssignability, IsNull, Null
    <2>3. CASE IsNumeric(from)
      <3>1. PICK n \in NumbersOf[from.base] : n \in NumbersOf.int
        BY <2>3, PrimitiveFits, PrimitiveValues
      <3>2. Fits(Plain(n), from)
        BY <2>3, <3>1, PrimitiveFits DEF Numbers
      <3>3. Plain(n) \notin Objects /\ Plain(n) # Null
        BY <3>1, PrimitiveValues DEF Primitive
      <3> QED
        BY <2>1, <3>2, <3>3
    <2>4. CASE ~IsNumeric(from)
      <3>1. Fits(from, from) /\ from \notin Objects
        BY <2>4, PrimitiveFits, PrimitiveValues
      <3> QED
        BY <2>1, <2>2, <3>1
    <2> QED
      BY <2>3, <2>4
  <1>3. CASE IsPrimitive(to) /\ ~IsNumeric(from)
    <2>1. Fits(from, from) /\ from = Plain(from.base) /\ from.base \in Primitive
      BY <1>3, PrimitiveFits
    <2>2. CASE IsNumeric(to)
      <3>1. \A v : Fits(v, to) => \E n \in NumbersOf.int : v = Plain(n)
        BY <1>3, <2>2, PrimitiveFits, PrimitiveValues DEF Numbers
      <3> QED
        BY <2>1, <3>1, PrimitiveValues
    <2>3. CASE ~IsNumeric(to)
      BY <1>1, <1>3, <2>1, <2>3, PrimitiveFits
    <2> QED
      BY <2>2, <2>3
  <1>4. CASE IsPrimitive(to) /\ IsNumeric(from) /\ ~IsNumeric(to)
    <2>1. PICK n \in NumbersOf[from.base] : n \in NumbersOf.int
      BY <1>4, PrimitiveFits, PrimitiveValues
    <2>2. Fits(Plain(n), from)
      BY <1>4, <2>1, PrimitiveFits DEF Numbers
    <2>3. ~Fits(Plain(n), to)
      BY <1>4, <2>1, PrimitiveFits, PrimitiveValues
    <2> QED
      BY <2>2, <2>3
  <1>5. CASE IsPrimitive(to) /\ IsNumeric(from) /\ IsNumeric(to)
    <2>1. /\ to = Plain(to.base) /\ from = Plain(from.base)
          /\ to.base \in Numeric /\ from.base \in Numeric
      BY <1>5, PrimitiveFits
    <2>2. to # Plain("int") /\ ~(to = Plain("short") /\ from = Plain("byte"))
      BY <1>5 DEF CheckAssignability
    <2>3. /\ to.base # from.base /\ to.base # "int"
          /\ ~(to.base = "short" /\ from.base = "byte")
      BY <1>1, <2>1, <2>2
    <2>4. \E n \in NumbersOf[from.base] : n \notin NumbersOf[to.base]
      BY <2>1, <2>3 DEF Numeric, NumbersOf
    <2>5. PICK n \in NumbersOf[from.base] : n \notin NumbersOf[to.base]
      BY <2>4
    <2>6. Plain(n) \in Numbers(from.base) /\ Plain(n) \notin Numbers(to.base)
      BY <2>5, PlainParts DEF Numbers
    <2> QED
      BY <1>5, <2>6, PrimitiveFits
  <1> QED
    BY <1>2, <1>3, <1>4, <1>5

(* What is not assignable might not fit.                                    *)
LEMMA Unassignable ==
    ASSUME NEW to \in Type, NEW from \in Type, ~CheckAssignability(to, from), ~IsNull(to)
    PROVE  MightNotFit(to, from)
  <1>1. PICK v : Fits(v, from) /\ ~Fits(v, to)
    BY ReferenceMightNotFit, PrimitiveMightNotFit DEF IsReferenceType
  <1>2. v \in Values(from) /\ v \notin Values(to)
    BY <1>1, FitsIsValue DEF Values
  <1> QED
    BY <1>2 DEF MightNotFit

(* What is assignable is not refused as a narrowing.                        *)
LEMMA AssignableNotNarrowed ==
    ASSUME NEW to \in Type, NEW from \in Type, CheckAssignability(to, from), IsPrimitive(to)
    PROVE  ~Narrowing(to, from)
  BY PlainParts DEF CheckAssignability, Narrowing

(* A step that goes on refuses nothing.                                     *)
LEMMA GoesOn ==
    ASSUME Checking, NEW n, NEW o, NEW ok, Become(n, o, ok)
    PROVE  RejectsOnlyHopeless'
  BY DEF Checking, Become, Accepted, RejectsOnlyHopeless

(* The operands an error is about are the last of the stack.                *)
LEMMA RejectedOperands ==
    ASSUME IInv, Checking, NEW n \in 1..2, Len(stack) >= n, NEW to, NEW why, RejectAs(n, to, why)
    PROVE  /\ verdict'.why = why /\ verdict'.to = to /\ Top' = Top
           /\ n = 2 => Below' = Below
  <1>1. stack \in Seq(GoodOperand) /\ Len(stack) \in Nat
    BY TopOperands DEF IInv, Checking
  <1>2. stack' = SubSeq(stack, Len(stack) - n + 1, Len(stack))
    BY DEF RejectAs
  <1>3. Len(stack') = n /\ \A i \in 1..n : stack'[i] = stack[Len(stack) - n + i]
    <2> DEFINE first == Len(stack) - n + 1
    <2>1. first \in 1..(Len(stack) + 1) /\ Len(stack) - first + 1 = n
      BY <1>1
    <2>2. stack' = [i \in 1..(Len(stack) - first + 1) |-> stack[i + first - 1]]
      BY <1>1, <1>2, <2>1
    <2>3. stack' \in Seq(GoodOperand) /\ DOMAIN stack' = 1..n
      BY <1>1, <1>2, <2>1, <2>2
    <2>4. Len(stack') = n
      BY <2>3
    <2> QED
      BY <1>1, <2>1, <2>2, <2>4
  <1>4. stack'[n] = stack[Len(stack)] /\ (n = 2 => stack'[1] = stack[Len(stack) - 1])
    BY <1>1, <1>3
  <1> QED
    BY <1>3, <1>4 DEF RejectAs, Top, Below

(* Errors the property says nothing about.                                  *)
LEMMA OtherRejected ==
    ASSUME NEW n, NEW to, NEW why, RejectAs(n, to, why),
           why \notin {"assignment", "declaration", "narrowing", "return", "cast", "instanceof", "equality"}
    PROVE  RejectsOnlyHopeless'
  BY DEF RejectAs, RejectsOnlyHopeless

(* Storing is refused only where the value might not fit.                   *)
LEMMA StoresRefused ==
    ASSUME IInv, Assignment \/ LocalVariableDeclaration \/ ReturnStatement
    PROVE  RejectsOnlyHopeless'
  <1>1. Checking /\ Len(stack) \in Nat /\ Len(stack) >= 1
    BY TopOperands DEF Assignment, LocalVariableDeclaration, ReturnStatement, Ready
  <1>2. Top.type \in Type
    BY <1>1, TopOperands, Operands DEF Top
  <1>3. CASE Assignment
    <2>1. Len(stack) >= 2
      BY <1>3 DEF Assignment, Ready
    <2>2. Below.type \in Type /\ Good(Below)
      BY <1>1, <2>1, TopOperands, Operands DEF Below
    <2>3. CASE ~IsVariable(Below) \/ ~CheckAssignability(Below.type, Top.type)
      <3>1. RejectAs(2, Null, "assignment")
        BY <1>3, <2>3 DEF Assignment, Reject
      <3>2. verdict'.why = "assignment" /\ Top' = Top /\ Below' = Below
        BY <1>1, <2>1, <3>1, RejectedOperands
      <3>3. ~IsVariable(Below) \/ MightNotFit(Below.type, Top.type)
        BY <1>2, <2>2, <2>3, Unassignable DEF Good
      <3> QED
        BY <3>2, <3>3 DEF RejectsOnlyHopeless
    <2>4. CASE IsVariable(Below) /\ CheckAssignability(Below.type, Top.type)
      BY <1>1, <1>3, <2>4, GoesOn DEF Assignment
    <2> QED
      BY <2>3, <2>4
  <1>4. CASE LocalVariableDeclaration
    <2>1. PICK t \in Type :
            /\ ~IsNull(t)
            /\ \/ ~CheckAssignability(t, Top.type) /\ RejectAs(1, t, "declaration")
               \/ \E o, ok : Become(1, o, ok)
      BY <1>2, <1>4, AssignableNotNarrowed DEF LocalVariableDeclaration, IsNull
    <2>2. CASE ~CheckAssignability(t, Top.type) /\ RejectAs(1, t, "declaration")
      <3>1. verdict'.why = "declaration" /\ verdict'.to = t /\ Top' = Top
        BY <1>1, <2>2, RejectedOperands
      <3>2. MightNotFit(t, Top.type)
        BY <1>2, <2>1, <2>2, Unassignable
      <3> QED
        BY <3>1, <3>2 DEF RejectsOnlyHopeless
    <2> QED
      BY <1>1, <2>1, <2>2, GoesOn
  <1>5. CASE ReturnStatement
    <2>1. PICK t \in Type :
            /\ ~IsNull(t)
            /\ \/ (IsVoid(t) \/ ~CheckAssignability(t, Top.type)) /\ RejectAs(1, t, "return")
               \/ \E o, ok : Become(1, o, ok)
      BY <1>5 DEF ReturnStatement, IsNull
    <2>2. CASE (IsVoid(t) \/ ~CheckAssignability(t, Top.type)) /\ RejectAs(1, t, "return")
      <3>1. verdict'.why = "return" /\ verdict'.to = t /\ Top' = Top
        BY <1>1, <2>2, RejectedOperands
      <3>2. IsVoid(t) \/ MightNotFit(t, Top.type)
        BY <1>2, <2>1, <2>2, Unassignable
      <3> QED
        BY <3>1, <3>2 DEF RejectsOnlyHopeless
    <2> QED
      BY <1>1, <2>1, <2>2, GoesOn
  <1> QED
    BY <1>3, <1>4, <1>5

(* A cast, an instanceof or an equality is refused only of types that have  *)
(* no object in common.                                                     *)
LEMMA CastsRefused ==
    ASSUME IInv, CastExpression \/ InstanceOfExpression \/ Equality
    PROVE  RejectsOnlyHopeless'
  <1>1. Checking /\ Len(stack) \in Nat /\ Len(stack) >= 1
    <2>1. Checking /\ (Len(stack) >= 1 \/ Len(stack) >= 2)
      BY DEF CastExpression, InstanceOfExpression, Equality, Ready
    <2> QED
      BY <2>1, TopOperands
  <1>2. Top.type \in Type
    BY <1>1, TopOperands, Operands DEF Top
  <1>3. ASSUME NEW t \in Type, ~Castable(t, Top.type) PROVE Apart(t, Top.type)
    <2>1. ~CheckCastability(t, Top.type) /\ ~IsSubType(Top.type, t)
      BY <1>3 DEF Castable, CheckCastability
    <2> QED
      BY <1>2, <2>1, Uncastable
  <1>4. CASE CastExpression
    <2>1. PICK t \in Type : \/ ~Castable(t, Top.type) /\ RejectAs(1, t, "cast")
                            \/ \E o, ok : Become(1, o, ok)
      BY <1>4 DEF CastExpression
    <2>2. CASE ~Castable(t, Top.type) /\ RejectAs(1, t, "cast")
      <3>1. verdict'.why = "cast" /\ verdict'.to = t /\ Top' = Top
        BY <1>1, <2>2, RejectedOperands
      <3> QED
        BY <1>3, <2>2, <3>1 DEF RejectsOnlyHopeless
    <2> QED
      BY <1>1, <2>1, <2>2, GoesOn
  <1>5. CASE InstanceOfExpression
    <2>1. PICK t \in Type :
            \/ /\ \/ ~(IsReferenceType(Top.type) \/ IsNull(Top.type))
                  \/ ~IsReferenceType(t) \/ ~Castable(t, Top.type)
               /\ RejectAs(1, t, "instanceof")
            \/ \E o, ok : Become(1, o, ok)
      BY <1>5 DEF InstanceOfExpression
    <2>2. CASE /\ \/ ~(IsReferenceType(Top.type) \/ IsNull(Top.type))
                  \/ ~IsReferenceType(t) \/ ~Castable(t, Top.type)
               /\ RejectAs(1, t, "instanceof")
      <3>1. verdict'.why = "instanceof" /\ verdict'.to = t /\ Top' = Top
        BY <1>1, <2>2, RejectedOperands
      <3>2. Apart(t, Top.type) \/ IsPrimitive(t) \/ (IsPrimitive(Top.type) /\ ~IsNull(Top.type))
        BY <1>3, <2>2 DEF IsReferenceType
      <3> QED
        BY <3>1, <3>2 DEF RejectsOnlyHopeless
    <2> QED
      BY <1>1, <2>1, <2>2, GoesOn
  <1>6. CASE Equality
    <2>1. Len(stack) >= 2
      BY <1>6 DEF Equality, Ready
    <2>2. Below.type \in Type
      BY <1>1, <2>1, TopOperands, Operands DEF Below
    <2>3. CASE ~Comparable(Below.type, Top.type)
      <3>1. RejectAs(2, Null, "equality")
        BY <1>6, <2>3 DEF Equality, Reject
      <3>2. verdict'.why = "equality" /\ Top' = Top /\ Below' = Below
        BY <1>1, <2>1, <3>1, RejectedOperands
      <3>3. \/ IsVoid(Below.type) \/ IsVoid(Top.type) \/ Apart(Below.type, Top.type)
            \/ IsSubType(Top.type, Below.type)
        BY <1>2, <2>2, <2>3, Uncastable DEF Comparable
      <3> QED
        BY <3>2, <3>3 DEF RejectsOnlyHopeless
    <2>4. CASE Comparable(Below.type, Top.type)
      BY <1>1, <1>6, <2>4, GoesOn DEF Equality
    <2> QED
      BY <2>3, <2>4
  <1> QED
    BY <1>4, <1>5, <1>6

(* The other actions refuse what the property says nothing about.           *)
LEMMA OthersRefused ==
    ASSUME Checking,
           \/ \E n, o, ok : Become(n, o, ok)
           \/ \E n, to, why :
                /\ why \notin {"assignment", "declaration", "narrowing", "return",
                               "cast", "instanceof", "equality"}
                /\ RejectAs(n, to, why)
    PROVE  RejectsOnlyHopeless'
  BY GoesOn, OtherRejected

-----------------------------------------------------------------------------
(* Every operand stays good.                                               *)
THEOREM OperandsStayGood == Spec => []IInv
  <1>1. Init => IInv
    BY DEF Init, IInv
  <1>2. IInv /\ [Next]_vars => IInv'
    <2> SUFFICES ASSUME IInv, [Next]_vars PROVE IInv'
      OBVIOUS
    <2>1. CASE LiteralOperand \/ Name \/ QualifiedThis \/ Parenthesized
      BY <2>1, NamesGood
    <2>2. CASE Assignment \/ LocalVariableDeclaration \/ ReturnStatement \/ Condition
      BY <2>2, StoresGood
    <2>3. CASE \/ Arithmetic \/ Concatenation \/ Equality \/ Relation \/ PrefixExpression
               \/ CastExpression \/ InstanceOfExpression
      BY <2>3, OperatorsGood
    <2>4. CASE ArrayCreationExpression \/ ArrayAccess
      BY <2>4, ArraysGood
    <2>5. CASE FieldAccess \/ QualifiedIdentifier \/ StaticField
      BY <2>5, FieldsGood
    <2>6. CASE MethodInvocation \/ StaticMethodInvocation \/ ClassInstanceCreationExpression
      BY <2>6, MethodsGood
    <2>7. CASE UNCHANGED vars
      BY <2>7 DEF IInv, vars
    <2> QED
      BY <2>1, <2>2, <2>3, <2>4, <2>5, <2>6, <2>7 DEF Next
  <1> QED
    BY <1>1, <1>2, PTL DEF Spec

(* Type soundness: until the program takes a step the compiler leaves      *)
(* unchecked, every value has the type its expression was given, for any   *)
(* classes, interfaces and members.                                        *)
THEOREM TypesAreSound == Spec => []ValuesFit
  <1>1. IInv => ValuesFit
    <2> SUFFICES ASSUME IInv, trusted, NEW i \in DOMAIN stack
                 PROVE  Fits(stack[i].value, stack[i].type) /\ Fits(stack[i].value, stack[i].place)
      BY DEF ValuesFit
    <2>1. stack[i] \in GoodOperand
      BY DEF IInv
    <2> QED
      BY <2>1 DEF GoodOperand, Good
  <1> QED
    BY <1>1, OperandsStayGood, PTL

(* Nothing is refused that could have gone well, for any classes,           *)
(* interfaces and members: a value that is not assigned, initialised with   *)
(* or returned might not have fitted, and no object is of both types of a   *)
(* refused cast, instanceof or equality (but a superclass to the left of    *)
(* ==, which the code takes for unrelated).                                 *)
THEOREM RefusalsAreRight == Spec => []RejectsOnlyHopeless
  <1>1. Init => RejectsOnlyHopeless
    BY DEF Init, Accepted, RejectsOnlyHopeless
  <1>2. IInv /\ RejectsOnlyHopeless /\ [Next]_vars => RejectsOnlyHopeless'
    <2> SUFFICES ASSUME IInv, RejectsOnlyHopeless, [Next]_vars PROVE RejectsOnlyHopeless'
      OBVIOUS
    <2>1. CASE Assignment \/ LocalVariableDeclaration \/ ReturnStatement
      BY <2>1, StoresRefused
    <2>2. CASE CastExpression \/ InstanceOfExpression \/ Equality
      BY <2>2, CastsRefused
    <2>3. CASE LiteralOperand \/ Name \/ QualifiedThis \/ Parenthesized \/ Condition
      <3>1. Checking
        BY <2>3 DEF LiteralOperand, Name, QualifiedThis, Parenthesized, Condition, Room, Ready
      <3> QED
        BY <2>3, <3>1, OthersRefused
        DEF LiteralOperand, Name, QualifiedThis, Parenthesized, Condition, Reject
    <2>4. CASE Arithmetic \/ Concatenation \/ Relation \/ PrefixExpression
      <3>1. Checking
        BY <2>4 DEF Arithmetic, Concatenation, Relation, PrefixExpression, Ready
      <3> QED
        BY <2>4, <3>1, OthersRefused
        DEF Arithmetic, Concatenation, Relation, PrefixExpression, Reject
    <2>5. CASE ArrayCreationExpression \/ ArrayAccess
      <3>1. Checking
        BY <2>5 DEF ArrayCreationExpression, ArrayAccess, Ready
      <3> QED
        BY <2>5, <3>1, OthersRefused DEF ArrayCreationExpression, ArrayAccess, Reject
    <2>6. CASE FieldAccess \/ QualifiedIdentifier \/ StaticField
      <3>1. Checking
        BY <2>6 DEF FieldAccess, QualifiedIdentifier, StaticField, Room, Ready
      <3> QED
        BY <2>6, <3>1, OthersRefused
        DEF FieldAccess, QualifiedIdentifier, StaticField, Access, Reject
    <2>7. CASE MethodInvocation
      <3>1. Checking
        BY <2>7 DEF MethodInvocation, Ready
      <3> QED
        BY <2>7, <3>1, OthersRefused DEF MethodInvocation, Reject
    <2>8. CASE StaticMethodInvocation \/ ClassInstanceCreationExpression
      <3>1. Checking
        BY <2>8 DEF StaticMethodInvocation, ClassInstanceCreationExpression, Ready
      <3> QED
        BY <2>8, <3>1, OthersRefused
        DEF StaticMethodInvocation, ClassInstanceCreationExpression, Reject
    <2>9. CASE UNCHANGED vars
      BY <2>9 DEF vars, RejectsOnlyHopeless, Top, Below
    <2> QED
      BY <2>1, <2>2, <2>3, <2>4, <2>5, <2>6, <2>7, <2>8, <2>9 DEF Next
  <1> QED
    BY <1>1, <1>2, OperandsStayGood, PTL DEF Spec
=============================================================================
