--------------------------- MODULE ConstantFolding ---------------------------
(***************************************************************************)
(* The folding of a loop's condition (isConstantExpression and             *)
(* evalConstantExpression of reachability.cc), beside the value Java gives *)
(* the same constant expression. An expression the type checker accepts is *)
(* taken bottom up: a finished subexpression is an operand on a stack. An  *)
(* operation on which the two are known to differ leaves an operand that   *)
(* is not exact, and the expression is not followed further.               *)
(***************************************************************************)
EXTENDS Integers, Sequences

CONSTANTS
    ByteBits, ShortBits, IntBits,   \* the widths of Java's integers
    CharBits,                       \* and of a char in C++, which is signed
    MaxLetters, MaxOperands         \* bounds on strings and operands in progress

ASSUME WidthsAssumption ==
    /\ {ByteBits, CharBits, MaxLetters, MaxOperands} \subseteq Nat \ {0}
    /\ {ShortBits, IntBits} \subseteq Nat
    /\ ByteBits < ShortBits /\ ShortBits < IntBits /\ 2 * CharBits <= IntBits

VARIABLES operands,     \* the subexpressions in progress
          conditions    \* what is known of the conditions a loop may have

foldVars == <<operands, conditions>>

-----------------------------------------------------------------------------
(* Literals: a variant is a record of the one alternative it holds.        *)
Int64(n) == [int64 |-> n]
Char(n) == [char |-> n]
Bool(b) == [bool |-> b]
Str(s) == [string |-> s]
Nullptr == [nullptr |-> TRUE]
Holds(literal, kind) == kind \in DOMAIN literal
Both(l, r, kind) == Holds(l, kind) /\ Holds(r, kind)

Varying == [varying |-> TRUE]   \* not constant
Raises == [raises |-> TRUE]     \* THROW_CompilerError, or a trap
Unfollowed == [unfollowed |-> TRUE]
IsConstant(literal) == literal # Varying

Power[n \in Nat] == IF n = 0 THEN 1 ELSE 2 * Power[n - 1]
Signed(n, bits) == ((n + Power[bits - 1]) % Power[bits]) - Power[bits - 1]
RangeOf(bits) == -Power[bits - 1]..(Power[bits - 1] - 1)
Bits == [byte |-> ByteBits, short |-> ShortBits, int |-> IntBits]
Letters == {"a", "b"}

\* Division is cut off towards zero, in C++ as in Java.
Quot(x, y) == LET q == (IF x < 0 THEN -x ELSE x) \div (IF y < 0 THEN -y ELSE y)
              IN  IF (x < 0) = (y < 0) THEN q ELSE -q
Rem(x, y) == x - y * Quot(x, y)

Operand(type, folded, java, exact) ==
    [type |-> type, folded |-> folded, java |-> java, exact |-> exact]
Top == operands[Len(operands)]
Below == operands[Len(operands) - 1]
Numeric == {"byte", "short", "int", "char"}
Reference == {"String", "Object", "null"}

Ready(n) == Len(operands) >= n /\ \A i \in DOMAIN operands : operands[i].exact
Become(n, o) == operands' = Append(SubSeq(operands, 1, Len(operands) - n), o)

-----------------------------------------------------------------------------
(* Leaves. A char literal of the upper half is negative in C++; null is a  *)
(* constant to the compiler and not to Java.                               *)
LiteralExpression ==
    /\ Ready(0) /\ Len(operands) < MaxOperands
    /\ \/ \E n \in RangeOf(IntBits) : Become(0, Operand("int", Int64(n), Int64(n), TRUE))
       \/ \E c \in 0..(Power[CharBits] - 1) :
             Become(0, Operand("char", Char(Signed(c, CharBits)), Char(c), c < Power[CharBits - 1]))
       \/ \E b \in BOOLEAN : Become(0, Operand("boolean", Bool(b), Bool(b), TRUE))
       \/ \E s \in {<<a>> : a \in Letters} : Become(0, Operand("String", Str(s), Str(s), TRUE))
       \/ Become(0, Operand("null", Nullptr, Varying, TRUE))

\* A name, a call, an assignment or any other expression.
OtherExpression ==
    /\ Ready(0) /\ Len(operands) < MaxOperands
    /\ \E type \in Numeric \cup {"boolean", "String", "Object"} :
          Become(0, Operand(type, Varying, Varying, TRUE))

-----------------------------------------------------------------------------
(* Casts. Numbers are not cut to their new size.                           *)
FoldCast(type, literal) ==
    CASE type \in DOMAIN Bits /\ Holds(literal, "int64") -> literal
      [] type \in DOMAIN Bits /\ Holds(literal, "char") -> Int64(literal.char)
      [] type = "char" /\ Holds(literal, "char") -> literal
      [] type = "boolean" /\ Holds(literal, "bool") -> literal
      [] type = "String" /\ Holds(literal, "string") -> literal
      [] OTHER -> Raises

Number(literal) == IF Holds(literal, "char") THEN literal.char ELSE literal.int64
JavaCast(type, literal) ==
    CASE type \in DOMAIN Bits -> Int64(Signed(Number(literal), Bits[type]))
      [] type = "char" /\ Holds(literal, "int64") -> Char(literal.int64 % Power[CharBits])
      [] OTHER -> literal

FoldedAsCast(type, o) ==
    /\ o.type # "null"
    /\ type = "char" => o.type = "char"
    /\ type \in DOMAIN Bits => Number(o.java) \in RangeOf(Bits[type])

CastExpression ==
    /\ Ready(1)
    /\ \E type \in Numeric \cup {"boolean", "String", "Object"} :
          /\ \E types \in {Numeric, {"boolean"}, Reference} : {type, Top.type} \subseteq types
          /\ IF IsConstant(Top.folded) /\ type # "Object"
             THEN Become(1, Operand(type, FoldCast(type, Top.folded),
                                    IF IsConstant(Top.java) THEN JavaCast(type, Top.java) ELSE Varying,
                                    FoldedAsCast(type, Top)))
             ELSE Become(1, Operand(type, Varying, Varying, TRUE))

-----------------------------------------------------------------------------
(* Unary operators. The type of a minus is its operand's, to which the     *)
(* operand is cut; a char has no minus.                                    *)
FoldMinus(type, literal) ==
    IF type \in DOMAIN Bits THEN Int64(-Signed(literal.int64, Bits[type])) ELSE Raises

FoldedAsMinus(o) == o.type \in DOMAIN Bits /\ o.java.int64 \in RangeOf(Bits[o.type]) \ {-(Power[IntBits - 1])}

PrefixExpression ==
    /\ Ready(1)
    /\ \/ /\ Top.type \in Numeric
          /\ IF IsConstant(Top.folded)
             THEN Become(1, Operand(Top.type, FoldMinus(Top.type, Top.folded),
                                    Int64(Signed(-Number(Top.java), IntBits)), FoldedAsMinus(Top)))
             ELSE Become(1, Top)
       \/ /\ Top.type = "boolean"
          /\ IF IsConstant(Top.folded)
             THEN Become(1, Operand("boolean", Bool(~Top.folded.bool), Bool(~Top.java.bool), TRUE))
             ELSE Become(1, Top)

-----------------------------------------------------------------------------
(* Binary operators, by the types the checker asks of their operands.      *)
Arithmetic == {"PLUS", "MINUS", "MULTIPLY", "DIVIDE", "MODULO"}
Relational == {"LESS_THAN", "GREATER_THAN", "LESS_THAN_EQUAL", "GREATER_THAN_EQUAL"}
Equality == {"BOOLEAN_EQUAL", "BOOLEAN_NOT_EQUAL"}
Logical == {"BOOLEAN_AND", "BOOLEAN_OR", "EAGER_AND", "EAGER_OR"}

\* The result's type, or nothing for operands the checker rejects.
InfixTypes(op, t, u) ==
    CASE op = "PLUS" /\ "String" \in {t, u} -> {"String"}
      [] op \in Arithmetic -> IF {t, u} \subseteq Numeric THEN {"int"} ELSE {}
      [] op \in Relational -> IF {t, u} \subseteq Numeric THEN {"boolean"} ELSE {}
      [] op \in Logical -> IF {t, u} = {"boolean"} THEN {"boolean"} ELSE {}
      [] OTHER -> IF \E types \in {Numeric, {"boolean"}, Reference} : {t, u} \subseteq types
                  THEN {"boolean"} ELSE {}

Compute(op, x, y) ==
    CASE op = "PLUS" -> x + y
      [] op = "MINUS" -> x - y
      [] op = "MULTIPLY" -> x * y
      [] op = "DIVIDE" -> Quot(x, y)
      [] op = "MODULO" -> Rem(x, y)
Compare(op, x, y) ==
    CASE op = "LESS_THAN" -> x < y
      [] op = "GREATER_THAN" -> x > y
      [] op = "LESS_THAN_EQUAL" -> x <= y
      [] op = "GREATER_THAN_EQUAL" -> x >= y
Connect(op, b, c) == IF op \in {"BOOLEAN_AND", "EAGER_AND"} THEN b /\ c ELSE b \/ c
Equals(op, same) == Bool(same = (op = "BOOLEAN_EQUAL"))

\* A comparison of chars is turned into an int64, as their sum is. What the
\* code calls right_nullptr is read from the left operand.
FoldInfix(op, l, r) ==
    CASE op \in {"DIVIDE", "MODULO"} /\ r \in {Int64(0), Char(0)} -> Raises
      [] op \in Logical /\ Both(l, r, "bool") -> Bool(Connect(op, l.bool, r.bool))
      [] op \in Equality /\ \E kind \in {"int64", "char", "string", "bool"} : Both(l, r, kind) ->
            Equals(op, l = r)
      [] op \in Equality /\ Holds(l, "nullptr") -> Equals(op, ~Holds(r, "string"))
      [] op \in Arithmetic /\ Both(l, r, "int64") -> Int64(Compute(op, l.int64, r.int64))
      [] op \in Arithmetic /\ Both(l, r, "char") -> Int64(Compute(op, l.char, r.char))
      [] op = "PLUS" /\ Both(l, r, "string") -> Str(l.string \o r.string)
      [] op \in Relational /\ Both(l, r, "int64") -> Bool(Compare(op, l.int64, r.int64))
      [] op \in Relational /\ Both(l, r, "char") ->
            Int64(IF Compare(op, l.char, r.char) THEN 1 ELSE 0)
      [] OTHER -> Raises

\* Mutant: a division is not looked at more closely.
BothConstant(op, l, r) == IsConstant(l) /\ IsConstant(r)

\* isConstantExpression of an infix expression; of divisors only an int is
\* compared with zero.
IsConstantInfix(op, l, r) ==
    /\ IsConstant(l) /\ IsConstant(r)
    /\ op \in {"DIVIDE", "MODULO"} => r # Int64(0)

JavaInfix(op, l, r) ==
    CASE op \in Logical -> Bool(Connect(op, l.bool, r.bool))
      [] op \in Equality ->
            Equals(op, IF Holds(l, "int64") \/ Holds(l, "char") THEN Number(l) = Number(r) ELSE l = r)
      [] op \in Relational -> Bool(Compare(op, Number(l), Number(r)))
      [] op \in {"DIVIDE", "MODULO"} /\ Number(r) = 0 -> Varying
      [] op = "PLUS" /\ Both(l, r, "string") -> Str(l.string \o r.string)
      [] OTHER -> Int64(Signed(Compute(op, Number(l), Number(r)), IntBits))

(* Where the folding is Java's: no null, no int beside a char or a String  *)
(* beside something else, no order of chars, no division of chars by zero  *)
(* (a trap), and no result beyond an int.                                  *)
FoldedAsInfix(op, l, r) ==
    /\ "null" \notin {l.type, r.type}
    /\ \E kind \in {"int64", "char", "string", "bool"} : Both(l.folded, r.folded, kind)
    /\ l.type = "char" => op \notin Relational
    /\ l.type = "char" /\ op \in {"DIVIDE", "MODULO"} => r.folded # Char(0)
    /\ op \in Arithmetic /\ Both(l.java, r.java, "int64") /\ r.java # Int64(0) =>
            Compute(op, l.java.int64, r.java.int64) \in RangeOf(IntBits)

InfixExpression ==
    /\ Ready(2)
    /\ \E op \in Arithmetic \cup Relational \cup Equality \cup Logical :
       \E type \in InfixTypes(op, Below.type, Top.type) :
          LET l == Below
              r == Top
              folded == IF IsConstantInfix(op, l.folded, r.folded)
                        THEN FoldInfix(op, l.folded, r.folded) ELSE Varying
          IN  /\ Both(l.folded, r.folded, "string") =>
                    Len(l.folded.string \o r.folded.string) <= MaxLetters
              /\ IF ~IsConstant(l.folded) \/ ~IsConstant(r.folded)
                 THEN Become(2, Operand(type, folded, Varying, TRUE))
                 ELSE IF FoldedAsInfix(op, l, r)
                 THEN Become(2, Operand(type, folded, JavaInfix(op, l.java, r.java), TRUE))
                 ELSE Become(2, Operand(type, folded, Unfollowed, FALSE))

-----------------------------------------------------------------------------
(* What a loop's condition is worth to the walk: folded is what the code   *)
(* makes of it and java what Java does, "none" a condition left out. A     *)
(* literal and a variable are conditions from the start.                   *)
Outcome(literal) == CASE literal = Bool(TRUE) -> "true"
                      [] literal = Bool(FALSE) -> "false"
                      [] OTHER -> "varying"
Plain(outcome) == [folded |-> outcome, java |-> outcome]
NoCondition == [folded |-> "none", java |-> "true"]

InitFolding == /\ operands = <<>>
               /\ conditions = {NoCondition} \cup {Plain(o) : o \in {"true", "false", "varying"}}
EndCondition ==
    /\ Ready(1) /\ Len(operands) = 1 /\ Top.type = "boolean"
    /\ conditions' = conditions \cup {[folded |-> Outcome(Top.folded), java |-> Outcome(Top.java)]}
    /\ operands' = <<>>
Expression ==
    \/ /\ LiteralExpression \/ OtherExpression \/ CastExpression \/ PrefixExpression \/ InfixExpression
       /\ UNCHANGED conditions
    \/ EndCondition

(* Wherever the folding is claimed to be Java's, an expression is constant *)
(* to the compiler exactly if it is to Java, and is worth the same.        *)
FoldsAsJava == \A i \in DOMAIN operands :
    operands[i].exact /\ operands[i].type # "null" => operands[i].folded = operands[i].java
=============================================================================
