------------------------- MODULE ControlFlowProofs -------------------------
(***************************************************************************)
(* The reachability check accepts exactly the methods the language allows: *)
(* for any number of statements, however nested, and any widths of the     *)
(* integers their conditions compute with.  An edge of the graph is        *)
(* accounted for by one statement (Wired, EdgeOf), every node the walk     *)
(* comes to by what it was reached from (Justified), and a node it has     *)
(* visited by where it leads (Closed); induction over the syntax turns     *)
(* these into the rules of the language (CanComplete), bottom up for what  *)
(* completes and top down for what is reached.                             *)
(***************************************************************************)
EXTENDS ControlFlow, WellFoundedInduction, TLAPS

-----------------------------------------------------------------------------
(* Integers of any width.                                                  *)

\* Induction over the numbers, from their having a least element.
LEMMA Induct ==
    ASSUME NEW S, 0 \in S, \A n \in Nat : n \in S => n + 1 \in S
    PROVE  Nat \subseteq S
  <1>1. SUFFICES ASSUME Nat \ S # {} PROVE FALSE
    OBVIOUS
  <1>2. PICK n \in Nat \ S : \A k \in Nat \ S : ~(<<k, n>> \in OpToRel(<, Nat))
    BY <1>1, NatLessThanWellFounded, WFMin
  <1>3. n \in Nat /\ n \notin S /\ n # 0
    BY <1>2
  <1>4. n - 1 \in Nat /\ n - 1 < n /\ (n - 1) + 1 = n
    BY <1>3
  <1>5. n - 1 \notin S
    BY <1>3, <1>4
  <1>6. ~(<<n - 1, n>> \in OpToRel(<, Nat))
    BY <1>2, <1>4, <1>5
  <1> QED
    BY <1>3, <1>4, <1>6 DEF OpToRel

\* The powers up to any number can be tabled, so their recursion defines them.
LEMMA PowerExists == \E f : f = [n \in Nat |-> IF n = 0 THEN 1 ELSE 2 * f[n - 1]]
  <1> DEFINE Step(f, n) == IF n = 0 THEN 1 ELSE 2 * f[n - 1]
             Table(m, f) == f = [n \in 0..m |-> Step(f, n)]
             Good == {m \in Nat : \E f : Table(m, f)}
             Same == {m \in Nat : \A j \in Nat, k \in Nat : m <= j /\ m <= k =>
                         \A f, g : Table(j, f) /\ Table(k, g) => f[m] = g[m]}
  <1>1. Nat \subseteq Good
    <2>1. 0 \in Good
      <3> DEFINE g == [n \in 0..0 |-> 1]
      <3>1. Table(0, g)
        OBVIOUS
      <3> HIDE DEF g
      <3> QED
        BY <3>1
    <2>2. ASSUME NEW m \in Nat, m \in Good PROVE m + 1 \in Good
      <3>1. PICK f : f = [n \in 0..m |-> Step(f, n)]
        BY <2>2
      <3> DEFINE g == [n \in 0..(m + 1) |-> IF n \in 0..m THEN f[n] ELSE Step(f, m + 1)]
      <3>2. ASSUME NEW n \in 0..(m + 1) PROVE g[n] = Step(g, n)
        <4>1. n # 0 => n - 1 \in 0..m
          BY <3>2
        <4>2. n # 0 => g[n - 1] = f[n - 1]
          BY <4>1
        <4>3. Step(g, n) = Step(f, n)
          BY <4>2
        <4>4. CASE n \in 0..m
          BY <4>3, <4>4, <3>1
        <4>5. CASE n = m + 1
          BY <4>3, <4>5
        <4> QED
          BY <3>2, <4>4, <4>5
      <3>3. g = [n \in 0..(m + 1) |-> g[n]]
        OBVIOUS
      <3> HIDE DEF g
      <3>4. Table(m + 1, g)
        BY <3>2, <3>3
      <3>5. m + 1 \in Nat
        OBVIOUS
      <3> HIDE DEF Table
      <3> QED
        BY <3>4, <3>5
    <2> HIDE DEF Good
    <2> QED
      BY <2>1, <2>2, Induct
  <1>2. Nat \subseteq Same
    <2>1. 0 \in Same
      OBVIOUS
    <2>2. ASSUME NEW m \in Nat, m \in Same PROVE m + 1 \in Same
      <3> SUFFICES ASSUME NEW j \in Nat, NEW k \in Nat, m + 1 <= j, m + 1 <= k,
                          NEW f, NEW g, Table(j, f), Table(k, g)
                   PROVE  f[m + 1] = g[m + 1]
        OBVIOUS
      <3>1. f[m] = g[m]
        <4>1. m <= j /\ m <= k
          OBVIOUS
        <4> HIDE DEF Table
        <4> QED
          BY <2>2, <4>1
      <3>2. f[m + 1] = 2 * f[m] /\ g[m + 1] = 2 * g[m]
        <4>1. m + 1 \in 0..j /\ m + 1 \in 0..k /\ m + 1 # 0 /\ (m + 1) - 1 = m
          OBVIOUS
        <4> QED
          BY <4>1
      <3> QED
        BY <3>1, <3>2
    <2> HIDE DEF Same
    <2> QED
      BY <2>1, <2>2, Induct
  <1> DEFINE table[m \in Nat] == CHOOSE f : Table(m, f)
             power == [n \in Nat |-> table[n][n]]
  <1>3. \A m \in Nat : Table(m, table[m])
    <2> TAKE m \in Nat
    <2>1. \E f : Table(m, f)
      BY <1>1
    <2> HIDE DEF Table
    <2> QED
      BY <2>1
  <1>4. ASSUME NEW n \in Nat PROVE power[n] = Step(power, n)
    <2>1. table[n][n] = Step(table[n], n)
      <3>1. Table(n, table[n])
        BY <1>3
      <3> HIDE DEF table
      <3> QED
        BY <3>1
    <2>2. CASE n = 0
      BY <2>1, <2>2
    <2>3. CASE n # 0
      <3>1. n - 1 \in Nat /\ n - 1 <= n
        BY <2>3
      <3>2. n - 1 \in Same
        BY <1>2, <3>1
      <3>3. Table(n - 1, table[n - 1]) /\ Table(n, table[n])
        BY <1>3, <3>1
      <3>4. table[n][n - 1] = table[n - 1][n - 1]
        <4> HIDE DEF Table, table
        <4> QED
          BY <3>1, <3>2, <3>3
      <3>5. power[n - 1] = table[n - 1][n - 1]
        BY <3>1
      <3> QED
        BY <2>1, <2>3, <3>4, <3>5
    <2> QED
      BY <2>2, <2>3
  <1>5. power = [n \in Nat |-> power[n]]
    OBVIOUS
  <1> HIDE DEF power
  <1>6. power = [n \in Nat |-> Step(power, n)]
    BY <1>4, <1>5
  <1> QED
    BY <1>6

\* A power is twice the one before.
LEMMA PowerDoubles == /\ Power[0] = 1
                      /\ \A n \in Nat : Power[n + 1] = 2 * Power[n]
  <1>1. Power = [n \in Nat |-> IF n = 0 THEN 1 ELSE 2 * Power[n - 1]]
    BY PowerExists DEF Power
  <1>2. \A n \in Nat : n + 1 \in Nat /\ n + 1 # 0 /\ (n + 1) - 1 = n
    OBVIOUS
  <1>3. Power[0] = 1
    BY <1>1
  <1>4. ASSUME NEW n \in Nat PROVE Power[n + 1] = 2 * Power[n]
    BY <1>1, <1>2
  <1> QED
    BY <1>3, <1>4

\* Powers of two are positive numbers.
LEMMA PowerPositive == \A n \in Nat : Power[n] \in Nat /\ Power[n] > 0
  <1> DEFINE S == {n \in Nat : Power[n] \in Nat /\ Power[n] > 0}
  <1>1. 0 \in S
    BY PowerDoubles
  <1>2. \A n \in Nat : n \in S => n + 1 \in S
    BY PowerDoubles
  <1> HIDE DEF S
  <1>3. Nat \subseteq S
    BY <1>1, <1>2, Induct
  <1> QED
    BY <1>3 DEF S

\* Of two powers the product is a power, so they grow.
LEMMA PowerSum == \A m \in Nat, n \in Nat : Power[m + n] = Power[m] * Power[n]
  <1> TAKE m \in Nat
  <1> DEFINE S == {n \in Nat : Power[m + n] = Power[m] * Power[n]}
  <1>1. 0 \in S
    BY PowerDoubles, PowerPositive
  <1>2. ASSUME NEW n \in Nat, n \in S PROVE n + 1 \in S
    <2>1. Power[m + (n + 1)] = 2 * Power[m + n]
      BY PowerDoubles, m + (n + 1) = (m + n) + 1, m + n \in Nat
    <2>2. Power[n + 1] = 2 * Power[n]
      BY PowerDoubles
    <2>3. Power[m] \in Nat /\ Power[n] \in Nat
      BY PowerPositive
    <2>4. Power[m + n] = Power[m] * Power[n]
      BY <1>2
    <2>5. \A a \in Nat, b \in Nat : 2 * (a * b) = a * (2 * b)
      OBVIOUS
    <2> QED
      BY <2>1, <2>2, <2>3, <2>4, <2>5
  <1> HIDE DEF S
  <1>3. Nat \subseteq S
    BY <1>1, <1>2, Induct
  <1> QED
    BY <1>3 DEF S

\* A wider integer has no fewer values.
LEMMA PowerGrows == \A m \in Nat, n \in Nat : m <= n => Power[m] <= Power[n]
  <1> SUFFICES ASSUME NEW m \in Nat, NEW n \in Nat, m <= n PROVE Power[m] <= Power[n]
    OBVIOUS
  <1>1. n - m \in Nat /\ m + (n - m) = n
    OBVIOUS
  <1>2. Power[n] = Power[m] * Power[n - m]
    BY <1>1, PowerSum
  <1>3. \A a \in Nat, b \in Nat : b > 0 => a <= a * b
    OBVIOUS
  <1> QED
    BY <1>1, <1>2, <1>3, PowerPositive

\* A number that fits a width is its own value in that width.
LEMMA SignedFits ==
    ASSUME NEW bits \in Nat \ {0}, NEW n \in RangeOf(bits)
    PROVE  Signed(n, bits) = n
  <1>1. bits - 1 \in Nat /\ (bits - 1) + 1 = bits
    OBVIOUS
  <1>2. Power[bits] = 2 * Power[bits - 1] /\ Power[bits - 1] \in Nat /\ Power[bits - 1] > 0
    BY <1>1, PowerDoubles, PowerPositive
  <1>3. n + Power[bits - 1] \in Nat /\ n + Power[bits - 1] < Power[bits] /\ n \in Int
    BY <1>2 DEF RangeOf
  <1>4. \A x \in Nat, m \in Nat : x < m => x % m = x
    OBVIOUS
  <1>5. (n + Power[bits - 1]) % Power[bits] = n + Power[bits - 1]
    BY <1>2, <1>3, <1>4
  <1> QED
    BY <1>2, <1>3, <1>5 DEF Signed

\* Bits are few enough for the numbers of each type to be ints.
LEMMA Widths == /\ \A type \in DOMAIN Bits : /\ Bits[type] \in Nat \ {0}
                                             /\ RangeOf(Bits[type]) \subseteq RangeOf(IntBits)
                /\ IntBits \in Nat \ {0} /\ CharBits \in Nat \ {0}
                /\ IntBits - 1 \in Nat /\ Power[IntBits - 1] \in Nat /\ Power[IntBits - 1] > 0
                /\ CharBits - 1 \in Nat /\ Power[CharBits - 1] \in Nat /\ Power[CharBits - 1] > 0
  <1>1. /\ ByteBits \in Nat \ {0} /\ ShortBits \in Nat \ {0} /\ IntBits \in Nat \ {0} /\ CharBits \in Nat \ {0}
        /\ ByteBits < ShortBits /\ ShortBits < IntBits
    BY WidthsAssumption
  <1>2. /\ ByteBits - 1 \in Nat /\ ShortBits - 1 \in Nat /\ IntBits - 1 \in Nat /\ CharBits - 1 \in Nat
        /\ ByteBits - 1 <= IntBits - 1 /\ ShortBits - 1 <= IntBits - 1
    BY <1>1
  <1>3. \A b \in Nat \ {0} : b - 1 \in Nat /\ b - 1 <= IntBits - 1 => RangeOf(b) \subseteq RangeOf(IntBits)
    BY <1>2, PowerGrows, PowerPositive DEF RangeOf
  <1>4. DOMAIN Bits = {"byte", "short", "int"} /\ Bits["byte"] = ByteBits /\ Bits["short"] = ShortBits
        /\ Bits["int"] = IntBits
    BY DEF Bits
  <1> QED
    BY <1>1, <1>2, <1>3, <1>4, PowerPositive

-----------------------------------------------------------------------------
(* Division, and the characters both sides hold alike.                     *)

\* Division and remainder are integers, and of numbers not negative no greater than what is divided.
LEMMA Quotients ==
    ASSUME NEW x \in Int, NEW y \in Int, y # 0
    PROVE  /\ Quot(x, y) \in Int /\ Rem(x, y) \in Int
           /\ x >= 0 /\ y > 0 => /\ 0 <= Quot(x, y) /\ Quot(x, y) <= x
                                 /\ 0 <= Rem(x, y) /\ Rem(x, y) <= x
  <1> DEFINE a == IF x < 0 THEN -x ELSE x
             b == IF y < 0 THEN -y ELSE y
             q == a \div b
  <1>1. a \in Nat /\ b \in Nat /\ b > 0
    OBVIOUS
  <1>2. \A c \in Nat, d \in Nat : d > 0 => c \div d \in Nat /\ d * (c \div d) <= c /\ c \div d <= c
    OBVIOUS
  <1> HIDE DEF a, b
  <1>3. q \in Nat /\ b * q <= a /\ q <= a
    BY <1>1, <1>2
  <1>4. Quot(x, y) = IF (x < 0) = (y < 0) THEN q ELSE -q
    BY DEF Quot, a, b
  <1> HIDE DEF q
  <1>5. Quot(x, y) \in Int
    BY <1>3, <1>4
  <1>6. Rem(x, y) \in Int
    BY <1>5 DEF Rem
  <1>7. ASSUME x >= 0, y > 0 PROVE /\ 0 <= Quot(x, y) /\ Quot(x, y) <= x
                                   /\ 0 <= Rem(x, y) /\ Rem(x, y) <= x
    <2>1. a = x /\ b = y
      BY <1>7 DEF a, b
    <2>2. Quot(x, y) = q
      BY <1>4, <1>7
    <2>3. y * q \in Nat
      BY <1>3, <1>1, <2>1
    <2> QED
      BY <1>3, <2>1, <2>2, <2>3 DEF Rem
  <1> QED
    BY <1>5, <1>6, <1>7

Small == 0..(Power[CharBits - 1] - 1)

\* What is computed from two chars fits an int.
LEMMA CharsFit ==
    ASSUME NEW op \in Arithmetic, NEW x \in Small, NEW y \in Small,
           op \in {"DIVIDE", "MODULO"} => y # 0
    PROVE  Compute(op, x, y) \in RangeOf(IntBits)
  <1> DEFINE H == Power[CharBits - 1]
             I == Power[IntBits - 1]
  <1>1. H \in Nat /\ H > 0 /\ I \in Nat /\ I > 0
    BY Widths
  <1>2. H * H <= I
    <2>1. CharBits \in Nat \ {0} /\ IntBits \in Nat \ {0} /\ 2 * CharBits <= IntBits
      BY Widths, WidthsAssumption
    <2>2. CharBits - 1 \in Nat /\ IntBits - 1 \in Nat /\ (CharBits - 1) + (CharBits - 1) <= IntBits - 1
          /\ (CharBits - 1) + (CharBits - 1) \in Nat
      BY <2>1
    <2> QED
      BY <2>2, PowerSum, PowerGrows, PowerPositive
  <1>3. 2 * H <= I
    <2>1. CharBits \in Nat \ {0} /\ IntBits \in Nat \ {0} /\ 2 * CharBits <= IntBits
      BY Widths, WidthsAssumption
    <2>2. CharBits - 1 \in Nat /\ IntBits - 1 \in Nat /\ (CharBits - 1) + 1 <= IntBits - 1
          /\ (CharBits - 1) + 1 \in Nat
      BY <2>1
    <2> QED
      BY <2>2, PowerDoubles, PowerGrows, PowerPositive
  <1>4. RangeOf(IntBits) = (-I)..(I - 1)
    BY DEF RangeOf
  <1>5. x \in Int /\ y \in Int /\ 0 <= x /\ x < H /\ 0 <= y /\ y < H
    BY <1>1 DEF Small
  <1> HIDE DEF H, I
  <1>6. \A a \in Int, b \in Int : 0 <= a /\ a < H /\ 0 <= b /\ b < H => 0 <= a * b /\ a * b < H * H /\ a * b \in Int
    <2> SUFFICES ASSUME NEW a \in Int, NEW b \in Int, 0 <= a, a < H, 0 <= b, b < H
                 PROVE  0 <= a * b /\ a * b < H * H /\ a * b \in Int
      OBVIOUS
    <2>1. a * b <= a * H
      BY <1>1
    <2>2. a * H < H * H
      BY <1>1
    <2> QED
      BY <2>1, <2>2, <1>1
  <1>7. op \in {"DIVIDE", "MODULO"} => /\ Quot(x, y) \in Int /\ Rem(x, y) \in Int
                                       /\ 0 <= Quot(x, y) /\ Quot(x, y) <= x
                                       /\ 0 <= Rem(x, y) /\ Rem(x, y) <= x
    BY <1>5, Quotients
  <1>8. x * y \in Int /\ 0 <= x * y /\ x * y < I
    BY <1>1, <1>2, <1>5, <1>6
  <1>9. op \in {"PLUS", "MINUS", "MULTIPLY", "DIVIDE", "MODULO"}
    BY DEF Arithmetic
  <1>a. CASE op = "PLUS"
    BY <1>a, <1>1, <1>3, <1>4, <1>5 DEF Compute
  <1>b. CASE op = "MINUS"
    BY <1>b, <1>1, <1>3, <1>4, <1>5 DEF Compute
  <1>c. CASE op = "MULTIPLY"
    BY <1>c, <1>1, <1>8, <1>4 DEF Compute
  <1>d. CASE op = "DIVIDE"
    BY <1>d, <1>1, <1>3, <1>4, <1>5, <1>7 DEF Compute
  <1>e. CASE op = "MODULO"
    BY <1>e, <1>1, <1>3, <1>4, <1>5, <1>7 DEF Compute
  <1> QED
    BY <1>9, <1>a, <1>b, <1>c, <1>d, <1>e

-----------------------------------------------------------------------------
(* The invariant of the folding, and expressions with one operand or none. *)

\* The constants of a type.
ConstantOf(type) ==
    CASE type \in {"byte", "short", "int"} -> {Int64(n) : n \in RangeOf(IntBits)}
      [] type = "char" -> {Char(c) : c \in Small}
      [] type = "boolean" -> {Bool(b) : b \in BOOLEAN}
      [] type = "String" -> {Str(s) : s \in Seq(Letters)}
      [] OTHER -> {}

\* What makes an operand worth the same to the compiler and to Java.
Sound(o) == o.exact /\ o.type # "null" => /\ o.folded = o.java
                                          /\ o.folded \in ConstantOf(o.type) \cup {Varying}
Outcomes == {NoCondition} \cup {Plain(o) : o \in {"true", "false", "varying"}}
FoldInv == /\ \E S : operands \in Seq(S)
           /\ \A i \in DOMAIN operands : Sound(operands[i])
           /\ conditions \subseteq Outcomes

\* Literals of different alternatives differ.
LEMMA Alternatives ==
    /\ \A n : Holds(Int64(n), "int64") /\ ~Holds(Int64(n), "char") /\ ~Holds(Int64(n), "bool") /\ ~Holds(Int64(n), "string") /\ ~Holds(Int64(n), "nullptr")
    /\ \A n : ~Holds(Char(n), "int64") /\ Holds(Char(n), "char") /\ ~Holds(Char(n), "bool") /\ ~Holds(Char(n), "string") /\ ~Holds(Char(n), "nullptr")
    /\ \A n : ~Holds(Bool(n), "int64") /\ ~Holds(Bool(n), "char") /\ Holds(Bool(n), "bool") /\ ~Holds(Bool(n), "string") /\ ~Holds(Bool(n), "nullptr")
    /\ \A n : ~Holds(Str(n), "int64") /\ ~Holds(Str(n), "char") /\ ~Holds(Str(n), "bool") /\ Holds(Str(n), "string") /\ ~Holds(Str(n), "nullptr")
    /\ \A kind \in {"int64", "char", "bool", "string", "nullptr"} : ~Holds(Varying, kind)
  BY DEF Holds, Int64, Char, Bool, Str, Varying

\* What a literal holds is what it was made of.
LEMMA Contents ==
    /\ \A n : Int64(n).int64 = n /\ Char(n).char = n /\ Bool(n).bool = n /\ Str(n).string = n
    /\ \A n, m : (Int64(n) = Int64(m) <=> n = m) /\ (Char(n) = Char(m) <=> n = m) /\ Int64(n) # Char(m)
    /\ \A n : Int64(n) # Varying /\ Char(n) # Varying /\ Bool(n) # Varying /\ Str(n) # Varying
    /\ \A n : Number(Int64(n)) = n /\ Number(Char(n)) = n
  <1>1. \A n : Int64(n).int64 = n /\ Char(n).char = n /\ Bool(n).bool = n /\ Str(n).string = n
    BY DEF Int64, Char, Bool, Str
  <1>2. \A n, m : Int64(n) # Char(m)
    BY Alternatives
  <1>3. \A n, m : (Int64(n) = Int64(m) <=> n = m) /\ (Char(n) = Char(m) <=> n = m)
    BY <1>1
  <1>4. \A n : Int64(n) # Varying /\ Char(n) # Varying /\ Bool(n) # Varying /\ Str(n) # Varying
    BY Alternatives
  <1>5. \A n : Number(Int64(n)) = n /\ Number(Char(n)) = n
    BY Alternatives, <1>1 DEF Number
  <1> QED
    BY <1>1, <1>2, <1>3, <1>4, <1>5

\* The constants of each type, one type at a time.
LEMMA ConstantsOfTypes ==
    /\ \A type \in {"byte", "short", "int"} : ConstantOf(type) = {Int64(n) : n \in RangeOf(IntBits)}
    /\ ConstantOf("char") = {Char(c) : c \in Small}
    /\ ConstantOf("boolean") = {Bool(b) : b \in BOOLEAN}
    /\ ConstantOf("String") = {Str(s) : s \in Seq(Letters)}
    /\ ConstantOf("Object") = {}
  BY DEF ConstantOf

\* The result of an operation is put in the place of its operands.
LEMMA Becomes ==
    ASSUME FoldInv, NEW n \in {0, 1, 2}, Len(operands) >= n,
           NEW o, Become(n, o), Sound(o), UNCHANGED conditions
    PROVE  FoldInv'
  <1>1. PICK S : operands \in Seq(S)
    BY DEF FoldInv
  <1> DEFINE T == S \cup {o}
             rest == SubSeq(operands, 1, Len(operands) - n)
  <1>2. operands \in Seq(T)
    BY <1>1
  <1> HIDE DEF T
  <1>3. /\ rest \in Seq(T) /\ Len(rest) = Len(operands) - n
        /\ \A i \in 1..Len(rest) : rest[i] = operands[i] /\ i \in DOMAIN operands
    BY <1>2
  <1>4. o \in T
    BY DEF T
  <1>5. operands' = Append(rest, o)
    BY DEF Become
  <1> HIDE DEF rest
  <1>6. operands' \in Seq(T)
    BY <1>3, <1>4, <1>5
  <1>7. ASSUME NEW i \in DOMAIN operands' PROVE Sound(operands'[i])
    <2>1. i \in 1..Len(rest) \/ i = Len(rest) + 1
      BY <1>3, <1>4, <1>5
    <2>2. CASE i \in 1..Len(rest)
      <3>1. operands'[i] = operands[i] /\ i \in DOMAIN operands
        BY <1>3, <1>4, <1>5, <2>2
      <3> QED
        BY <3>1 DEF FoldInv
    <2>3. CASE i = Len(rest) + 1
      BY <1>3, <1>4, <1>5, <2>3
    <2> QED
      BY <2>1, <2>2, <2>3
  <1> QED
    BY <1>6, <1>7 DEF FoldInv, Sound

\* What an operand was made of.
LEMMA OperandFields ==
    \A t, f, j, e : /\ Operand(t, f, j, e).type = t /\ Operand(t, f, j, e).folded = f
                    /\ Operand(t, f, j, e).java = j /\ Operand(t, f, j, e).exact = e
  BY DEF Operand

\* An operand that is not constant to either is worth the same to both.
LEMMA NoConstant == ASSUME NEW t PROVE Sound(Operand(t, Varying, Varying, TRUE))
  <1> DEFINE o == Operand(t, Varying, Varying, TRUE)
  <1>1. o.folded = Varying /\ o.java = Varying
    BY DEF Operand
  <1> HIDE DEF o
  <1>2. Sound(o)
    BY <1>1 DEF Sound
  <1> QED
    BY <1>2 DEF o

\* An operand that is not followed further is not claimed to be worth the same.
LEMMA NotFollowed == ASSUME NEW t, NEW f, NEW j PROVE Sound(Operand(t, f, j, FALSE))
  <1>1. ~Operand(t, f, j, FALSE).exact
    BY DEF Operand
  <1> QED
    BY <1>1 DEF Sound

\* A constant of its type that is the same to both is worth the same to both.
LEMMA SoundIf ==
    ASSUME NEW t, NEW f, NEW j, NEW e,
           e => f = j /\ f \in ConstantOf(t) \cup {Varying}
    PROVE  Sound(Operand(t, f, j, e))
  BY OperandFields DEF Sound

\* Every literal the compiler holds as Java does is worth the same: the upper half of
\* the characters is not followed.
LEMMA LiteralsSound ==
    ASSUME FoldInv, LiteralExpression, UNCHANGED conditions PROVE FoldInv'
  <1>0. Len(operands) >= 0
    BY DEF FoldInv
  <1>1. ASSUME NEW n \in RangeOf(IntBits) PROVE Sound(Operand("int", Int64(n), Int64(n), TRUE))
    BY ConstantsOfTypes, SoundIf
  <1>2. ASSUME NEW c \in 0..(Power[CharBits] - 1)
        PROVE  Sound(Operand("char", Char(Signed(c, CharBits)), Char(c), c < Power[CharBits - 1]))
    <2>1. c < Power[CharBits - 1] => c \in Small /\ c \in RangeOf(CharBits)
      BY Widths DEF Small, RangeOf
    <2>2. c < Power[CharBits - 1] => Signed(c, CharBits) = c
      BY <2>1, SignedFits, Widths
    <2>3. c \in Small => Char(c) \in ConstantOf("char")
      BY ConstantsOfTypes
    <2> QED
      BY <2>1, <2>2, <2>3, SoundIf
  <1>3. ASSUME NEW b \in BOOLEAN PROVE Sound(Operand("boolean", Bool(b), Bool(b), TRUE))
    BY ConstantsOfTypes, SoundIf
  <1>4. ASSUME NEW s \in {<<a>> : a \in Letters} PROVE Sound(Operand("String", Str(s), Str(s), TRUE))
    <2>1. s \in Seq(Letters)
      <3>1. PICK a \in Letters : s = <<a>>
        OBVIOUS
      <3> QED
        BY <3>1
    <2>2. Str(s) \in ConstantOf("String")
      BY <2>1, ConstantsOfTypes
    <2> QED
      BY <2>2, SoundIf
  <1>5. Sound(Operand("null", Nullptr, Varying, TRUE))
    <2>1. Operand("null", Nullptr, Varying, TRUE).type = "null"
      BY DEF Operand
    <2> QED
      BY <2>1 DEF Sound
  <1>6. \E o : Sound(o) /\ Become(0, o)
    BY <1>1, <1>2, <1>3, <1>4, <1>5 DEF LiteralExpression
  <1> QED
    BY <1>0, <1>6, Becomes

\* A name, a call or an assignment is constant to neither.
LEMMA OthersSound ==
    ASSUME FoldInv, OtherExpression, UNCHANGED conditions PROVE FoldInv'
  <1>0. Len(operands) >= 0
    BY DEF FoldInv
  <1>1. \E o : Sound(o) /\ Become(0, o)
    BY NoConstant DEF OtherExpression
  <1> QED
    BY <1>0, <1>1, Becomes

\* The operand on top, once there is one.
LEMMA TopIsSound ==
    ASSUME FoldInv, Ready(1) PROVE Len(operands) >= 1 /\ Top.exact /\ Sound(Top)
  BY DEF FoldInv, Ready, Top

\* Where FoldedAsCast claims it, FoldCast is the cast of Java.
LEMMA CastsSound ==
    ASSUME FoldInv, CastExpression, UNCHANGED conditions PROVE FoldInv'
  <1>1. Len(operands) >= 1 /\ Top.exact /\ Sound(Top)
    BY TopIsSound DEF CastExpression
  <1>2. PICK type \in Numeric \cup {"boolean", "String", "Object"} :
          /\ \E types \in {Numeric, {"boolean"}, Reference} : {type, Top.type} \subseteq types
          /\ IF IsConstant(Top.folded) /\ type # "Object"
             THEN Become(1, Operand(type, FoldCast(type, Top.folded),
                                    IF IsConstant(Top.java) THEN JavaCast(type, Top.java) ELSE Varying,
                                    FoldedAsCast(type, Top)))
             ELSE Become(1, Operand(type, Varying, Varying, TRUE))
    BY DEF CastExpression
  <1>3. CASE ~(IsConstant(Top.folded) /\ type # "Object")
    BY <1>1, <1>2, <1>3, NoConstant, Becomes
  <1>4. CASE IsConstant(Top.folded) /\ type # "Object"
    <2> DEFINE folded == FoldCast(type, Top.folded)
               java == IF IsConstant(Top.java) THEN JavaCast(type, Top.java) ELSE Varying
    <2>1. ASSUME FoldedAsCast(type, Top)
          PROVE  folded = java /\ folded \in ConstantOf(type)
      <3>1. Top.type # "null" /\ (type = "char" => Top.type = "char")
            /\ (type \in DOMAIN Bits => Number(Top.java) \in RangeOf(Bits[type]))
        BY <2>1 DEF FoldedAsCast
      <3>2. Top.folded = Top.java /\ Top.folded \in ConstantOf(Top.type) /\ IsConstant(Top.java)
        BY <1>1, <1>4, <3>1 DEF Sound, IsConstant
      <3>3. DOMAIN Bits = {"byte", "short", "int"}
        BY DEF Bits
      <3>4. java = JavaCast(type, Top.java)
        BY <3>2
      <3>5. CASE type \in DOMAIN Bits
        <4>1. Top.type \in {"byte", "short", "int"} \/ Top.type = "char"
          BY <1>2, <3>3, <3>5 DEF Numeric, Reference
        <4>2. PICK n : (Top.java = Int64(n) \/ Top.java = Char(n)) /\ Number(Top.java) = n
          BY <3>2, <4>1, ConstantsOfTypes, Contents
        <4>3. n \in RangeOf(Bits[type]) /\ Signed(n, Bits[type]) = n /\ n \in RangeOf(IntBits)
          BY <3>1, <3>5, <4>2, Widths, SignedFits
        <4>4. JavaCast(type, Top.java) = Int64(n)
          BY <3>5, <3>3, <4>2, <4>3 DEF JavaCast
        <4>5. folded = Int64(n)
          BY <3>2, <3>3, <3>5, <4>2, Alternatives, Contents DEF FoldCast
        <4>6. Int64(n) \in ConstantOf(type)
          BY <3>3, <3>5, <4>3, ConstantsOfTypes
        <4> QED
          BY <3>4, <4>4, <4>5, <4>6
      <3>6. CASE type = "char"
        <4>1. PICK c \in Small : Top.java = Char(c)
          BY <3>1, <3>2, <3>6, ConstantsOfTypes
        <4>2. JavaCast(type, Top.java) = Top.java
          BY <3>3, <3>6, <4>1, Alternatives DEF JavaCast
        <4>3. folded = Top.java
          BY <3>2, <3>3, <3>6, <4>1, Alternatives DEF FoldCast
        <4> QED
          BY <3>1, <3>2, <3>4, <3>6, <4>2, <4>3
      <3>7. CASE type = "boolean"
        <4>0. Top.type = "boolean"
          BY <1>2, <3>7 DEF Numeric, Reference
        <4>1. PICK b : Top.java = Bool(b)
          BY <3>2, <4>0, ConstantsOfTypes
        <4>2. JavaCast(type, Top.java) = Top.java
          BY <3>3, <3>7, <4>1, Alternatives DEF JavaCast
        <4>3. folded = Top.java
          BY <3>2, <3>3, <3>7, <4>1, Alternatives DEF FoldCast
        <4> QED
          BY <3>1, <3>2, <3>4, <3>7, <4>0, <4>2, <4>3
      <3>8. CASE type = "String"
        <4>0. Top.type = "String"
          BY <1>2, <3>1, <3>2, <3>8, ConstantsOfTypes DEF Numeric, Reference
        <4>1. PICK b : Top.java = Str(b)
          BY <3>2, <4>0, ConstantsOfTypes
        <4>2. JavaCast(type, Top.java) = Top.java
          BY <3>3, <3>8, <4>1, Alternatives DEF JavaCast
        <4>3. folded = Top.java
          BY <3>2, <3>3, <3>8, <4>1, Alternatives DEF FoldCast
        <4> QED
          BY <3>1, <3>2, <3>4, <3>8, <4>0, <4>2, <4>3
      <3> QED
        BY <1>4, <3>3, <3>5, <3>6, <3>7, <3>8 DEF Numeric
    <2>2. Sound(Operand(type, folded, java, FoldedAsCast(type, Top)))
      <3> HIDE DEF folded, java
      <3> QED
        BY <2>1, SoundIf
    <2> QED
      BY <1>1, <1>2, <1>4, <2>2, Becomes
  <1> QED
    BY <1>3, <1>4

-----------------------------------------------------------------------------
(* Operators.                                                              *)

\* Where FoldedAsMinus claims it, a minus is folded as Java does, and a complement always.
LEMMA PrefixesSound ==
    ASSUME FoldInv, PrefixExpression, UNCHANGED conditions PROVE FoldInv'
  <1>1. Len(operands) >= 1 /\ Top.exact /\ Sound(Top)
    BY TopIsSound DEF PrefixExpression
  <1>2. CASE Become(1, Top)
    BY <1>1, <1>2, Becomes
  <1>3. ASSUME Top.type \in Numeric, IsConstant(Top.folded)
        PROVE  Sound(Operand(Top.type, FoldMinus(Top.type, Top.folded),
                             Int64(Signed(-Number(Top.java), IntBits)), FoldedAsMinus(Top)))
    <2>1. ASSUME FoldedAsMinus(Top)
          PROVE  /\ FoldMinus(Top.type, Top.folded) = Int64(Signed(-Number(Top.java), IntBits))
                 /\ FoldMinus(Top.type, Top.folded) \in ConstantOf(Top.type)
      <3>1. Top.type \in DOMAIN Bits /\ Top.type \in {"byte", "short", "int"}
            /\ Top.java.int64 \in RangeOf(Bits[Top.type]) /\ Top.java.int64 # -Power[IntBits - 1]
        BY <2>1 DEF FoldedAsMinus, Bits
      <3>2. Top.folded = Top.java /\ Top.folded \in ConstantOf(Top.type)
        BY <1>1, <1>3, <3>1 DEF Sound, IsConstant
      <3>3. PICK n : Top.java = Int64(n) /\ n \in RangeOf(Bits[Top.type]) /\ n # -Power[IntBits - 1]
        BY <3>1, <3>2, ConstantsOfTypes, Contents
      <3>4. n \in RangeOf(IntBits) /\ Signed(n, Bits[Top.type]) = n
        BY <3>1, <3>3, Widths, SignedFits
      <3>5. -n \in RangeOf(IntBits)
        BY <3>3, <3>4, Widths DEF RangeOf
      <3>6. Signed(-n, IntBits) = -n
        BY <3>5, Widths, SignedFits
      <3>7. FoldMinus(Top.type, Top.folded) = Int64(-n)
        BY <3>1, <3>2, <3>3, <3>4, Contents DEF FoldMinus
      <3>8. Int64(Signed(-Number(Top.java), IntBits)) = Int64(-n)
        BY <3>3, <3>6, Contents
      <3>9. Int64(-n) \in ConstantOf(Top.type)
        BY <3>1, <3>5, ConstantsOfTypes
      <3> QED
        BY <3>7, <3>8, <3>9
    <2> QED
      BY <2>1, SoundIf
  <1>4. ASSUME Top.type = "boolean", IsConstant(Top.folded)
        PROVE  Sound(Operand("boolean", Bool(~Top.folded.bool), Bool(~Top.java.bool), TRUE))
    <2>1. Top.folded = Top.java /\ Top.folded \in ConstantOf("boolean")
      BY <1>1, <1>4 DEF Sound, IsConstant
    <2>2. Bool(~Top.folded.bool) \in ConstantOf("boolean")
      BY ConstantsOfTypes
    <2> QED
      BY <2>1, <2>2, SoundIf
  <1>5. \E o : Sound(o) /\ Become(1, o)
    BY <1>1, <1>3, <1>4 DEF PrefixExpression
  <1> QED
    BY <1>1, <1>5, Becomes

\* Where the folding is claimed to be Java's, the result is the same constant of the result's type.
LEMMA InfixFolds ==
    ASSUME NEW op \in Arithmetic \cup Relational \cup Equality \cup Logical,
           NEW l, NEW r, NEW type \in InfixTypes(op, l.type, r.type),
           l.exact, r.exact, Sound(l), Sound(r),
           IsConstant(l.folded), IsConstant(r.folded), FoldedAsInfix(op, l, r),
           NEW folded, folded = IF IsConstantInfix(op, l.folded, r.folded)
                                THEN FoldInfix(op, l.folded, r.folded) ELSE Varying
    PROVE  folded = JavaInfix(op, l.java, r.java) /\ folded \in ConstantOf(type) \cup {Varying}
  <1>1. /\ l.folded = l.java /\ l.folded \in ConstantOf(l.type)
        /\ r.folded = r.java /\ r.folded \in ConstantOf(r.type)
    BY DEF FoldedAsInfix, Sound, IsConstant
  <1>2. l.type \in Numeric \cup {"boolean", "String"} /\ r.type \in Numeric \cup {"boolean", "String"}
    BY <1>1 DEF ConstantOf, Numeric
  <1>3. \E kind \in {"int64", "char", "string", "bool"} : Both(l.folded, r.folded, kind)
    BY DEF FoldedAsInfix
  <1>4. op \in Arithmetic \cup Relational \cup Equality \cup Logical
    OBVIOUS
  <1>5. CASE l.type \in {"byte", "short", "int"}
    <2>1. PICK x \in RangeOf(IntBits) : l.folded = Int64(x)
      BY <1>1, <1>5, ConstantsOfTypes
    <2>2. r.type \in {"byte", "short", "int"}
      BY <1>1, <1>2, <1>3, <2>1, ConstantsOfTypes, Alternatives DEF Both, Numeric
    <2>3. PICK y \in RangeOf(IntBits) : r.folded = Int64(y)
      BY <1>1, <2>2, ConstantsOfTypes
    <2>4. x \in Int /\ y \in Int
      BY Widths DEF RangeOf
    <2>5. type = IF op \in Arithmetic THEN "int" ELSE "boolean"
      BY <1>4, <1>5, <2>2 DEF InfixTypes, Numeric, Reference, Arithmetic, Relational, Equality, Logical
    <2>6. op \notin Logical
      BY <1>5, <2>2 DEF InfixTypes, Numeric, Reference, Arithmetic, Relational, Equality, Logical
    <2>7. CASE op \in Arithmetic /\ op \in {"DIVIDE", "MODULO"} /\ y = 0
      <3>1. folded = Varying
        BY <2>3, <2>7 DEF IsConstantInfix
      <3>2. JavaInfix(op, l.java, r.java) = Varying
        BY <1>1, <2>3, <2>7, Contents, Alternatives DEF JavaInfix, Arithmetic, Relational, Equality, Logical, Both
      <3> QED
        BY <3>1, <3>2
    <2>8. CASE op \in Arithmetic /\ ~(op \in {"DIVIDE", "MODULO"} /\ y = 0)
      <3>1. IsConstantInfix(op, l.folded, r.folded)
        BY <2>3, <2>8, Contents DEF IsConstantInfix
      <3>2. FoldInfix(op, l.folded, r.folded) = Int64(Compute(op, x, y))
        BY <2>1, <2>3, <2>8, Contents, Alternatives DEF FoldInfix, Arithmetic, Relational, Equality, Logical, Both
      <3>3. JavaInfix(op, l.java, r.java) = Int64(Signed(Compute(op, x, y), IntBits))
        BY <1>1, <2>1, <2>3, <2>8, Contents, Alternatives DEF JavaInfix, Arithmetic, Relational, Equality, Logical, Both
      <3>4. Compute(op, x, y) \in RangeOf(IntBits)
        <4>1. CASE y # 0
          <5>1. Both(l.java, r.java, "int64") /\ r.java # Int64(0) /\ l.java.int64 = x /\ r.java.int64 = y
            BY <1>1, <2>1, <2>3, <4>1, Contents, Alternatives DEF Both
          <5> QED
            BY <2>8, <5>1 DEF FoldedAsInfix
        <4>2. CASE y = 0
          <5>1. op \in {"PLUS", "MINUS", "MULTIPLY"}
            BY <2>8, <4>2 DEF Arithmetic
          <5>2. x * 0 = 0 /\ 0 \in RangeOf(IntBits) /\ x + 0 = x /\ x - 0 = x
            BY <2>4, Widths DEF RangeOf
          <5> QED
            BY <4>2, <5>1, <5>2 DEF Compute
        <4> QED
          BY <4>1, <4>2
      <3>5. Signed(Compute(op, x, y), IntBits) = Compute(op, x, y)
        BY <3>4, Widths, SignedFits
      <3>6. Int64(Compute(op, x, y)) \in ConstantOf("int")
        BY <3>4, ConstantsOfTypes
      <3> QED
        BY <2>5, <2>8, <3>1, <3>2, <3>3, <3>5, <3>6
    <2>9. CASE op \in Relational
      <3>1. IsConstantInfix(op, l.folded, r.folded)
        BY <2>9 DEF IsConstantInfix, Relational
      <3>2. FoldInfix(op, l.folded, r.folded) = Bool(Compare(op, x, y))
        BY <2>1, <2>3, <2>9, Contents, Alternatives DEF FoldInfix, Arithmetic, Relational, Equality, Logical, Both
      <3>3. JavaInfix(op, l.java, r.java) = Bool(Compare(op, x, y))
        BY <1>1, <2>1, <2>3, <2>9, Contents, Alternatives DEF JavaInfix, Arithmetic, Relational, Equality, Logical, Both
      <3>4. Bool(Compare(op, x, y)) \in ConstantOf("boolean")
        <4>1. op = "LESS_THAN" => Compare(op, x, y) \in BOOLEAN
          BY DEF Compare
        <4>2. op = "GREATER_THAN" => Compare(op, x, y) \in BOOLEAN
          BY DEF Compare
        <4>3. op = "LESS_THAN_EQUAL" => Compare(op, x, y) \in BOOLEAN
          BY DEF Compare
        <4>4. op = "GREATER_THAN_EQUAL" => Compare(op, x, y) \in BOOLEAN
          BY DEF Compare
        <4>5. Compare(op, x, y) \in BOOLEAN
          BY <2>9, <4>1, <4>2, <4>3, <4>4 DEF Relational
        <4> QED
          BY <4>5, ConstantsOfTypes
      <3> QED
        BY <2>5, <2>9, <3>1, <3>2, <3>3, <3>4 DEF Arithmetic, Relational
    <2>10. CASE op \in Equality
      <3>1. IsConstantInfix(op, l.folded, r.folded)
        BY <2>10 DEF IsConstantInfix, Equality
      <3>2. FoldInfix(op, l.folded, r.folded) = Equals(op, x = y)
        BY <2>1, <2>3, <2>10, Contents, Alternatives DEF FoldInfix, Arithmetic, Relational, Equality, Logical, Both
      <3>3. JavaInfix(op, l.java, r.java) = Equals(op, x = y)
        BY <1>1, <2>1, <2>3, <2>10, Contents, Alternatives DEF JavaInfix, Arithmetic, Relational, Equality, Logical, Both
      <3>4. Equals(op, x = y) \in ConstantOf("boolean")
        BY ConstantsOfTypes DEF Equals
      <3> QED
        BY <2>5, <2>10, <3>1, <3>2, <3>3, <3>4 DEF Arithmetic, Equality
    <2> QED
      BY <1>4, <2>6, <2>7, <2>8, <2>9, <2>10
  <1>6. CASE l.type = "char"
    <2>1. PICK x \in Small : l.folded = Char(x)
      BY <1>1, <1>6, ConstantsOfTypes
    <2>2. r.type = "char"
      BY <1>1, <1>2, <1>3, <2>1, ConstantsOfTypes, Alternatives DEF Both, Numeric
    <2>3. PICK y \in Small : r.folded = Char(y)
      BY <1>1, <2>2, ConstantsOfTypes
    <2>5. type = IF op \in Arithmetic THEN "int" ELSE "boolean"
      BY <1>4, <1>6, <2>2 DEF InfixTypes, Numeric, Reference, Arithmetic, Relational, Equality, Logical
    <2>6. op \notin Logical /\ op \notin Relational
      BY <1>6, <2>2 DEF InfixTypes, Numeric, Reference, Arithmetic, Relational, Equality, Logical, FoldedAsInfix
    <2>7. CASE op \in Arithmetic
      <3>0. op \in {"DIVIDE", "MODULO"} => y # 0
        BY <1>6, <2>3, Contents DEF FoldedAsInfix
      <3>1. IsConstantInfix(op, l.folded, r.folded)
        BY <2>3, Contents DEF IsConstantInfix
      <3>2. FoldInfix(op, l.folded, r.folded) = Int64(Compute(op, x, y))
        BY <2>1, <2>3, <2>7, <3>0, Contents, Alternatives DEF FoldInfix, Arithmetic, Relational, Equality, Logical, Both
      <3>3. JavaInfix(op, l.java, r.java) = Int64(Signed(Compute(op, x, y), IntBits))
        BY <1>1, <2>1, <2>3, <2>7, <3>0, Contents, Alternatives DEF JavaInfix, Arithmetic, Relational, Equality, Logical, Both
      <3>4. Compute(op, x, y) \in RangeOf(IntBits)
        BY <2>7, <3>0, CharsFit
      <3>5. Signed(Compute(op, x, y), IntBits) = Compute(op, x, y)
        BY <3>4, Widths, SignedFits
      <3>6. Int64(Compute(op, x, y)) \in ConstantOf("int")
        BY <3>4, ConstantsOfTypes
      <3> QED
        BY <2>5, <2>7, <3>1, <3>2, <3>3, <3>5, <3>6
    <2>8. CASE op \in Equality
      <3>1. IsConstantInfix(op, l.folded, r.folded)
        BY <2>8 DEF IsConstantInfix, Equality
      <3>2. FoldInfix(op, l.folded, r.folded) = Equals(op, x = y)
        BY <2>1, <2>3, <2>8, Contents, Alternatives DEF FoldInfix, Arithmetic, Relational, Equality, Logical, Both
      <3>3. JavaInfix(op, l.java, r.java) = Equals(op, x = y)
        BY <1>1, <2>1, <2>3, <2>8, Contents, Alternatives DEF JavaInfix, Arithmetic, Relational, Equality, Logical, Both
      <3>4. Equals(op, x = y) \in ConstantOf("boolean")
        BY ConstantsOfTypes DEF Equals
      <3> QED
        BY <2>5, <2>8, <3>1, <3>2, <3>3, <3>4 DEF Arithmetic, Equality
    <2> QED
      BY <1>4, <2>6, <2>7, <2>8
  <1>7. CASE l.type = "boolean"
    <2>1. PICK b \in BOOLEAN : l.folded = Bool(b)
      BY <1>1, <1>7, ConstantsOfTypes
    <2>2. r.type = "boolean"
      BY <1>1, <1>2, <1>3, <2>1, ConstantsOfTypes, Alternatives DEF Both, Numeric
    <2>3. PICK c \in BOOLEAN : r.folded = Bool(c)
      BY <1>1, <2>2, ConstantsOfTypes
    <2>4. l.folded.bool = b /\ r.folded.bool = c
      BY <2>1, <2>3, Contents
    <2>5. op \notin Arithmetic /\ op \notin Relational /\ type = "boolean"
      BY <1>4, <1>7, <2>2 DEF InfixTypes, Numeric, Reference, Arithmetic, Relational, Equality, Logical
    <2>6. IsConstantInfix(op, l.folded, r.folded)
      BY <2>5 DEF IsConstantInfix, Arithmetic
    <2>7. CASE op \in Logical
      <3>2. FoldInfix(op, l.folded, r.folded) = Bool(Connect(op, l.folded.bool, r.folded.bool))
        BY <2>1, <2>3, <2>7, Alternatives DEF FoldInfix, Arithmetic, Relational, Equality, Logical, Both
      <3>3. JavaInfix(op, l.java, r.java) = Bool(Connect(op, l.java.bool, r.java.bool))
        BY <1>1, <2>1, <2>3, <2>7, Alternatives DEF JavaInfix, Arithmetic, Relational, Equality, Logical, Both
      <3>4. Bool(Connect(op, l.folded.bool, r.folded.bool)) \in ConstantOf("boolean")
        BY ConstantsOfTypes DEF Connect
      <3> QED
        BY <1>1, <2>5, <2>6, <3>2, <3>3, <3>4
    <2>8. CASE op \in Equality
      <3>2. FoldInfix(op, l.folded, r.folded) = Equals(op, l.folded = r.folded)
        BY <2>1, <2>3, <2>8, Alternatives DEF FoldInfix, Arithmetic, Relational, Equality, Logical, Both
      <3>3. JavaInfix(op, l.java, r.java) = Equals(op, l.java = r.java)
        BY <1>1, <2>1, <2>3, <2>8, Alternatives DEF JavaInfix, Arithmetic, Relational, Equality, Logical, Both
      <3>4. Equals(op, l.folded = r.folded) \in ConstantOf("boolean")
        BY ConstantsOfTypes DEF Equals
      <3> QED
        BY <1>1, <2>5, <2>6, <3>2, <3>3, <3>4
    <2> QED
      BY <1>4, <2>5, <2>7, <2>8
  <1>8. CASE l.type = "String"
    <2>1. PICK b \in Seq(Letters) : l.folded = Str(b)
      BY <1>1, <1>8, ConstantsOfTypes
    <2>2. r.type = "String"
      BY <1>1, <1>2, <1>3, <2>1, ConstantsOfTypes, Alternatives DEF Both, Numeric
    <2>3. PICK c \in Seq(Letters) : r.folded = Str(c)
      BY <1>1, <2>2, ConstantsOfTypes
    <2>4. l.folded.string = b /\ r.folded.string = c
      BY <2>1, <2>3, Contents
    <2>5. (op = "PLUS" /\ type = "String") \/ (op \in Equality /\ type = "boolean")
      BY <1>4, <1>8, <2>2 DEF InfixTypes, Numeric, Reference, Arithmetic, Relational, Equality, Logical
    <2>6. IsConstantInfix(op, l.folded, r.folded)
      BY <2>5 DEF IsConstantInfix, Equality
    <2>7. CASE op = "PLUS"
      <3>2. FoldInfix(op, l.folded, r.folded) = Str(b \o c)
        BY <2>1, <2>3, <2>4, <2>7, Alternatives DEF FoldInfix, Arithmetic, Relational, Equality, Logical, Both
      <3>3. JavaInfix(op, l.java, r.java) = Str(b \o c)
        BY <1>1, <2>1, <2>3, <2>4, <2>7, Alternatives DEF JavaInfix, Arithmetic, Relational, Equality, Logical, Both
      <3>4. b \o c \in Seq(Letters)
        OBVIOUS
      <3>5. Str(b \o c) \in ConstantOf("String")
        BY <3>4, ConstantsOfTypes
      <3> QED
        BY <2>5, <2>6, <2>7, <3>2, <3>3, <3>5 DEF Equality
    <2>8. CASE op \in Equality
      <3>2. FoldInfix(op, l.folded, r.folded) = Equals(op, l.folded = r.folded)
        BY <2>1, <2>3, <2>8, Alternatives DEF FoldInfix, Arithmetic, Relational, Equality, Logical, Both
      <3>3. JavaInfix(op, l.java, r.java) = Equals(op, l.java = r.java)
        BY <1>1, <2>1, <2>3, <2>8, Alternatives DEF JavaInfix, Arithmetic, Relational, Equality, Logical, Both
      <3>4. Equals(op, l.folded = r.folded) \in ConstantOf("boolean")
        BY ConstantsOfTypes DEF Equals
      <3> QED
        BY <1>1, <2>5, <2>6, <2>8, <3>2, <3>3, <3>4 DEF Equality
    <2> QED
      BY <2>5, <2>7, <2>8
  <1> QED
    BY <1>2, <1>5, <1>6, <1>7, <1>8 DEF Numeric

\* An operation on two operands worth the same leaves one worth the same, or one that is
\* not followed.
LEMMA InfixesSound ==
    ASSUME FoldInv, InfixExpression, UNCHANGED conditions PROVE FoldInv'
  <1>1. Len(operands) >= 2 /\ Below.exact /\ Top.exact /\ Sound(Below) /\ Sound(Top)
    BY DEF InfixExpression, FoldInv, Ready, Below, Top
  <1>2. PICK op \in Arithmetic \cup Relational \cup Equality \cup Logical :
        \E type \in InfixTypes(op, Below.type, Top.type) :
          LET l == Below
              r == Top
              folded == IF IsConstantInfix(op, l.folded, r.folded)
                        THEN FoldInfix(op, l.folded, r.folded) ELSE Varying
          IN  IF ~IsConstant(l.folded) \/ ~IsConstant(r.folded)
              THEN Become(2, Operand(type, folded, Varying, TRUE))
              ELSE IF FoldedAsInfix(op, l, r)
              THEN Become(2, Operand(type, folded, JavaInfix(op, l.java, r.java), TRUE))
              ELSE Become(2, Operand(type, folded, Unfollowed, FALSE))
    BY DEF InfixExpression
  <1> DEFINE folded == IF IsConstantInfix(op, Below.folded, Top.folded)
                       THEN FoldInfix(op, Below.folded, Top.folded) ELSE Varying
  <1>3. PICK type \in InfixTypes(op, Below.type, Top.type) :
              IF ~IsConstant(Below.folded) \/ ~IsConstant(Top.folded)
              THEN Become(2, Operand(type, folded, Varying, TRUE))
              ELSE IF FoldedAsInfix(op, Below, Top)
              THEN Become(2, Operand(type, folded, JavaInfix(op, Below.java, Top.java), TRUE))
              ELSE Become(2, Operand(type, folded, Unfollowed, FALSE))
    BY <1>2
  <1>4. CASE ~IsConstant(Below.folded) \/ ~IsConstant(Top.folded)
    <2>1. folded = Varying
      BY <1>4 DEF IsConstantInfix
    <2>2. Become(2, Operand(type, folded, Varying, TRUE))
      BY <1>3, <1>4
    <2>3. Sound(Operand(type, folded, Varying, TRUE))
      BY <2>1, NoConstant
    <2> QED
      BY <1>1, <2>2, <2>3, Becomes
  <1>5. CASE IsConstant(Below.folded) /\ IsConstant(Top.folded) /\ FoldedAsInfix(op, Below, Top)
    <2> HIDE DEF folded
    <2>1. folded = JavaInfix(op, Below.java, Top.java) /\ folded \in ConstantOf(type) \cup {Varying}
      BY <1>1, <1>5, InfixFolds DEF folded
    <2>2. Sound(Operand(type, folded, JavaInfix(op, Below.java, Top.java), TRUE))
      BY <2>1, SoundIf
    <2> QED
      BY <1>1, <1>3, <1>5, <2>2, Becomes
  <1>6. CASE IsConstant(Below.folded) /\ IsConstant(Top.folded) /\ ~FoldedAsInfix(op, Below, Top)
    <2> HIDE DEF folded
    <2> QED
      BY <1>1, <1>3, <1>6, NotFollowed, Becomes
  <1> QED
    BY <1>4, <1>5, <1>6

\* A condition is worth to the walk what it is to Java.
LEMMA ConditionsSound ==
    ASSUME FoldInv, EndCondition PROVE FoldInv'
  <1>1. Top.exact /\ Sound(Top) /\ Top.type = "boolean"
    BY TopIsSound DEF EndCondition
  <1>2. Top.folded = Top.java
    BY <1>1 DEF Sound
  <1>3. [folded |-> Outcome(Top.folded), java |-> Outcome(Top.java)] = Plain(Outcome(Top.java))
    BY <1>2 DEF Plain
  <1>4. Outcome(Top.java) \in {"true", "false", "varying"}
    BY DEF Outcome
  <1>5. conditions' \subseteq Outcomes
    BY <1>3, <1>4 DEF EndCondition, FoldInv, Outcomes
  <1>6. operands' = <<>>
    BY DEF EndCondition
  <1> QED
    BY <1>5, <1>6 DEF FoldInv

\* The conditions there are from the start are worth the same to both.
LEMMA FoldStart == InitFolding => FoldInv
  BY DEF InitFolding, FoldInv, Outcomes

\* No step of an expression breaks the invariant of the folding.
LEMMA FoldStep == ASSUME FoldInv, Expression PROVE FoldInv'
  BY LiteralsSound, OthersSound, CastsSound, PrefixesSound, InfixesSound, ConditionsSound DEF Expression

-----------------------------------------------------------------------------
(* The invariant of the tree and the graph.                                *)

Stmt(s) == <<"statement", s>>
In(s) == <<"in", s>>
Out(s) == <<"out", s>>
Expr(s) == <<"expression", s>>
Branching == {"if", "ifelse", "loop"}
Inner(s) == syntax[s].inner

\* What holds of a statement and those in it.
Shape(s) ==
    /\ Kind(s) \in {"simple", "return", "block"} \cup Branching
    /\ syntax[s].cond \in Outcomes
    /\ Inner(s) \in Seq(Nat)
    /\ \A i \in DOMAIN Inner(s) : Inner(s)[i] \in Statements /\ Inner(s)[i] < s
    /\ Kind(s) \in {"simple", "return"} => Len(Inner(s)) = 0
    /\ Kind(s) \in {"if", "loop"} => Len(Inner(s)) = 1
    /\ Kind(s) = "ifelse" => Len(Inner(s)) = 2

\* Every statement is in one place.
Placed(s) == \/ \E i \in DOMAIN open : open[i] = s
             \/ \E t \in Statements : \E i \in DOMAIN Inner(t) : Inner(t)[i] = s
PlacedOnce ==
    /\ \A i, j \in DOMAIN open : open[i] = open[j] => i = j
    /\ \A s \in Statements : \A i \in DOMAIN Inner(s), j \in DOMAIN open : Inner(s)[i] # open[j]
    /\ \A s, t \in Statements : \A i \in DOMAIN Inner(s), j \in DOMAIN Inner(t) :
          Inner(s)[i] = Inner(t)[j] => s = t /\ i = j

TreeInv == /\ \E S : syntax \in Seq(S)
           /\ pair \in Seq(Node \X Node) /\ Len(pair) = Len(syntax)
           /\ open \in Seq(Nat) /\ \A i \in DOMAIN open : open[i] \in Statements
           /\ \A s \in Statements : Shape(s) /\ Placed(s)
           /\ PlacedOnce

\* The edges each kind of statement has.
Leads(n, m) == n \in DOMAIN next /\ next[n] = m
Chained(list) == \A i \in 1..(Len(list) - 1) : Leads(Last(list[i]), First(list[i + 1]))
Wired(s) ==
    /\ Kind(s) \in {"simple", "return"} => pair[s] = <<Stmt(s), Stmt(s)>>
    /\ Kind(s) = "block" => /\ First(s) = Stmt(s)
                            /\ Len(Inner(s)) = 0 => Last(s) = Stmt(s)
                            /\ Len(Inner(s)) > 0 => /\ Last(s) = Last(Inner(s)[Len(Inner(s))])
                                                    /\ Leads(Stmt(s), First(Inner(s)[1]))
                            /\ Chained(Inner(s))
    /\ Kind(s) \in Branching => /\ pair[s] = <<In(s), Out(s)>> /\ Leads(In(s), Expr(s))
                                /\ Expr(s) \in DOMAIN branch
    /\ Kind(s) = "if" => /\ Leads(Last(Inner(s)[1]), Out(s))
                         /\ branch[Expr(s)] = <<First(Inner(s)[1]), Out(s)>>
    /\ Kind(s) = "ifelse" => /\ Leads(Last(Inner(s)[1]), Out(s)) /\ Leads(Last(Inner(s)[2]), Out(s))
                             /\ branch[Expr(s)] = <<First(Inner(s)[1]), First(Inner(s)[2])>>
    /\ Kind(s) = "loop" => /\ Leads(Last(Inner(s)[1]), Expr(s))
                           /\ branch[Expr(s)] = <<First(Inner(s)[1]), Out(s)>>

\* And no others.
Follows(list, n, m) == \E i \in 1..(Len(list) - 1) : n = Last(list[i]) /\ m = First(list[i + 1])
EdgeOf(s, n, m) ==
    \/ Kind(s) \in Branching /\ n = In(s) /\ m = Expr(s)
    \/ Kind(s) \in {"if", "ifelse"} /\ m = Out(s) /\ \E i \in DOMAIN Inner(s) : n = Last(Inner(s)[i])
    \/ Kind(s) = "loop" /\ m = Expr(s) /\ n = Last(Inner(s)[1])
    \/ Kind(s) = "block" /\ Len(Inner(s)) > 0 /\ n = Stmt(s) /\ m = First(Inner(s)[1])
    \/ Kind(s) = "block" /\ Follows(Inner(s), n, m)

\* The last node of a statement leads on, or is the last of one no other contains.
EndIn(s) == Last(s)[1] \in {"statement", "out"} /\ Last(s)[2] \in Statements /\ Last(s)[2] <= s
EndsOpen(s) == Last(s) \in DOMAIN next \/ \E i \in DOMAIN open : Last(s) = Last(open[i])
EndsDone(s) == Last(s) \in DOMAIN next \/ (Len(open) > 0 /\ Last(s) = Last(open[Len(open)]))

GraphInv ==
    /\ \A n \in DOMAIN next : n \in Node /\ next[n] \in Node /\ n[2] \in Statements
    /\ \A n \in DOMAIN branch : n \in Node /\ n[2] \in Statements
    /\ \A s \in Statements : EndIn(s) /\ Wired(s)

Building ==
    /\ phase = "build"
    /\ \A n \in DOMAIN next : \E s \in Statements : EdgeOf(s, n, next[n])
    /\ \A s \in Statements : EndsOpen(s)
    /\ \A i \in DOMAIN open : Last(open[i]) \notin DOMAIN next
    /\ \A i, j \in DOMAIN open : Last(open[i]) = Last(open[j]) => i = j

Built ==
    /\ phase \in {"walk", "check", "rejected", "run", "returned"}
    /\ \A n \in DOMAIN next : \/ \E s \in Statements : EdgeOf(s, n, next[n])
                              \/ Follows(open, n, next[n])
    /\ \A s \in Statements : EndsDone(s)
    /\ Chained(open)
    /\ Len(open) > 0 => Last(open[Len(open)]) \notin DOMAIN next

\* What a new statement leaves as it was, and what it is.
Grown(v, kind, cond, k, nodes) ==
    /\ Statements = 1..Len(syntax) /\ Len(syntax) \in Nat /\ New = Len(syntax) + 1
    /\ Statements' = Statements \cup {v} /\ v \notin Statements
    /\ \A s \in Statements : /\ syntax'[s] = syntax[s] /\ pair'[s] = pair[s]
                             /\ First(s)' = First(s) /\ Last(s)' = Last(s)
                             /\ Kind(s)' = Kind(s) /\ Inner(s)' = Inner(s)
    /\ Kind(v)' = kind /\ syntax'[v].cond = cond
    /\ Inner(v)' \in Seq(Nat) /\ Len(Inner(v)') = k
    /\ \A i \in 1..k : Inner(v)'[i] = open[Len(open) - k + i]
    /\ pair'[v] = nodes /\ First(v)' = nodes[1] /\ Last(v)' = nodes[2]
    /\ open' \in Seq(Nat) /\ Len(open') = Len(open) - k + 1 /\ open'[Len(open) - k + 1] = v
    /\ \A i \in 1..(Len(open) - k) : open'[i] = open[i]
    /\ pair' \in Seq(Node \X Node) /\ Len(pair') = Len(syntax')
    /\ \E S : syntax' \in Seq(S)

\* No edge there was is redirected.
EdgesStay == \A n \in DOMAIN next : next'[n] = next[n]

\* A new statement changes none of those there are.
LEMMA Kept ==
    ASSUME TreeInv, NEW v, v = New, NEW kind, NEW cond,
           NEW k \in 0..Len(open), NEW nodes \in Node \X Node, NEW nexts, NEW branches,
           CreateCfg(kind, cond, k, nodes, nexts, branches)
    PROVE  Grown(v, kind, cond, k, nodes)
  <1>1. PICK S : syntax \in Seq(S)
    BY DEF TreeInv
  <1> DEFINE inner == SubSeq(open, Len(open) - k + 1, Len(open))
             r == [kind |-> kind, cond |-> cond, inner |-> inner]
             rest == SubSeq(open, 1, Len(open) - k)
             T == S \cup {r}
  <1>2. syntax' = Append(syntax, r) /\ open' = Append(rest, New) /\ pair' = Append(pair, nodes)
    BY DEF CreateCfg
  <1>3. open \in Seq(Nat) /\ pair \in Seq(Node \X Node) /\ Len(pair) = Len(syntax)
    BY DEF TreeInv
  <1>4. inner \in Seq(Nat) /\ Len(inner) = k /\ \A i \in 1..k : inner[i] = open[Len(open) - k + i]
    BY <1>3, SMTT(30)
  <1>5. rest \in Seq(Nat) /\ Len(rest) = Len(open) - k /\ \A i \in 1..(Len(open) - k) : rest[i] = open[i]
    BY <1>3
  <1> HIDE DEF inner, rest
  <1>6. r.kind = kind /\ r.cond = cond /\ r.inner = inner
    OBVIOUS
  <1>7. r \in T /\ syntax \in Seq(T)
    BY <1>1
  <1> HIDE DEF r, T
  <1>8. Statements = 1..Len(syntax) /\ Len(syntax) \in Nat /\ New = Len(syntax) + 1
    BY <1>1 DEF Statements, New
  <1>9. syntax' \in Seq(T) /\ Len(syntax') = Len(syntax) + 1 /\ syntax'[v] = r
        /\ \A s \in Statements : syntax'[s] = syntax[s]
    BY <1>2, <1>7, <1>8
  <1>10. pair' \in Seq(Node \X Node) /\ Len(pair') = Len(syntax) + 1 /\ pair'[v] = nodes
         /\ \A s \in Statements : pair'[s] = pair[s]
    BY <1>2, <1>3, <1>8
  <1>11. open' \in Seq(Nat) /\ Len(open') = Len(open) - k + 1 /\ open'[Len(open) - k + 1] = v
           /\ \A i \in 1..(Len(open) - k) : open'[i] = open[i]
    BY <1>2, <1>3, <1>5, <1>8
  <1>12. Statements' = Statements \cup {v} /\ v \notin Statements
    BY <1>8, <1>9 DEF Statements
  <1>13. \A s \in Statements : /\ First(s)' = First(s) /\ Last(s)' = Last(s)
                               /\ Kind(s)' = Kind(s) /\ Inner(s)' = Inner(s)
    BY <1>9, <1>10 DEF First, Last, Kind, Inner
  <1>14. /\ Kind(v)' = kind /\ syntax'[v].cond = cond /\ Inner(v)' = inner
         /\ First(v)' = nodes[1] /\ Last(v)' = nodes[2]
    BY <1>6, <1>9, <1>10 DEF Kind, Inner, First, Last
  <1> QED
    BY <1>4, <1>8, <1>9, <1>10, <1>11, <1>12, <1>13, <1>14 DEF Grown

\* The statements stay one tree.
LEMMA CreatedTree ==
    ASSUME TreeInv, NEW v, v = New, NEW kind, NEW cond,
           NEW k \in 0..Len(open), NEW nodes \in Node \X Node, NEW nexts, NEW branches,
           CreateCfg(kind, cond, k, nodes, nexts, branches),
           kind \in {"simple", "return", "block"} \cup Branching, cond \in Outcomes,
           kind \in {"simple", "return"} => k = 0,
           kind \in {"if", "loop"} => k = 1,
           kind = "ifelse" => k = 2
    PROVE  TreeInv'
  <1>g. Grown(v, kind, cond, k, nodes)
    BY Kept
  <1>1. /\ Statements = 1..Len(syntax) /\ Len(syntax) \in Nat /\ v = Len(syntax) + 1
        /\ Statements' = Statements \cup {v} /\ v \notin Statements
        /\ \A s \in Statements : syntax'[s] = syntax[s] /\ Kind(s)' = Kind(s) /\ Inner(s)' = Inner(s)
        /\ Kind(v)' = kind /\ syntax'[v].cond = cond
        /\ Inner(v)' \in Seq(Nat) /\ Len(Inner(v)') = k
        /\ \A i \in 1..k : Inner(v)'[i] = open[Len(open) - k + i]
    BY <1>g DEF Grown
  <1>2. /\ open' \in Seq(Nat) /\ Len(open') = Len(open) - k + 1 /\ open'[Len(open) - k + 1] = v
        /\ \A i \in 1..(Len(open) - k) : open'[i] = open[i]
        /\ pair' \in Seq(Node \X Node) /\ Len(pair') = Len(syntax')
        /\ \E S : syntax' \in Seq(S)
    BY <1>g DEF Grown
  <1>0. open \in Seq(Nat) /\ \A i \in DOMAIN open : open[i] \in Statements
    BY DEF TreeInv
  <1>3. /\ DOMAIN open = 1..Len(open) /\ Len(open) \in Nat /\ DOMAIN open' = 1..(Len(open) - k + 1)
        /\ DOMAIN Inner(v)' = 1..k /\ k \in Nat /\ k <= Len(open)
    BY <1>0, <1>1, <1>2
  <1>4. ASSUME NEW i \in 1..k
        PROVE  Len(open) - k + i \in DOMAIN open /\ Inner(v)'[i] \in Statements
    <2>1. Len(open) - k + i \in 1..Len(open)
      BY <1>3
    <2>2. Inner(v)'[i] = open[Len(open) - k + i]
      BY <1>1
    <2> QED
      BY <1>0, <1>3, <2>1, <2>2
  <1>5. \A s \in Statements : Shape(s) /\ Placed(s) /\ DOMAIN Inner(s) = 1..Len(Inner(s))
    BY DEF Shape, TreeInv
  <1>6. ASSUME NEW i \in DOMAIN open'
        PROVE  /\ \/ i \in DOMAIN open /\ i <= Len(open) - k /\ open'[i] = open[i] /\ open'[i] \in Statements
                  \/ i = Len(open) - k + 1 /\ open'[i] = v
               /\ open'[i] \in Statements'
    <2>1. CASE i \in 1..(Len(open) - k)
      <3>1. i \in DOMAIN open
        BY <1>3, <2>1
      <3>2. open'[i] = open[i]
        BY <1>2, <2>1
      <3>3. i <= Len(open) - k
        BY <2>1, <1>3
      <3> QED
        BY <1>0, <1>1, <3>1, <3>2, <3>3
    <2>2. CASE i = Len(open) - k + 1
      BY <1>1, <1>2, <2>2
    <2> QED
      BY <1>3, <1>6, <2>1, <2>2
  <1>7. ASSUME NEW s \in Statements' PROVE Shape(s)'
    <2>1. CASE s \in Statements
      <3>1. Shape(s)
        BY <1>5, <2>1
      <3>2. s \in Nat /\ Kind(s)' = Kind(s) /\ Inner(s)' = Inner(s) /\ syntax'[s].cond = syntax[s].cond
        BY <1>1, <2>1
      <3> QED
        BY <3>1, <3>2, <1>1 DEF Shape
    <2>2. CASE s = v
      <3>1. \A i \in 1..k : Inner(v)'[i] \in Statements' /\ Inner(v)'[i] < v
        BY <1>1, <1>4
      <3> QED
        BY <1>1, <1>3, <2>2, <3>1 DEF Shape
    <2> QED
      BY <1>1, <2>1, <2>2
  <1>8. ASSUME NEW s \in Statements' PROVE Placed(s)'
    <2>1. CASE s = v
      <3>1. Len(open) - k + 1 \in DOMAIN open'
        BY <1>3
      <3> QED
        BY <1>2, <2>1, <3>1 DEF Placed
    <2>2. CASE s \in Statements
      <3>1. Placed(s)
        BY <1>5, <2>2
      <3>2. ASSUME NEW t \in Statements, NEW i \in DOMAIN Inner(t), Inner(t)[i] = s PROVE Placed(s)'
        <4>1. t \in Statements' /\ i \in DOMAIN Inner(t)' /\ Inner(t)'[i] = s
          BY <1>1, <3>2
        <4> QED
          BY <4>1 DEF Placed
      <3>3. ASSUME NEW i \in DOMAIN open, open[i] = s PROVE Placed(s)'
        <4>1. CASE i <= Len(open) - k
          <5>1. i \in DOMAIN open' /\ i \in 1..(Len(open) - k)
            BY <1>3, <3>3, <4>1
          <5>2. open'[i] = s
            BY <1>2, <3>3, <5>1
          <5> QED
            BY <5>1, <5>2 DEF Placed
        <4>2. CASE i > Len(open) - k
          <5>1. i - (Len(open) - k) \in 1..k /\ Len(open) - k + (i - (Len(open) - k)) = i
            BY <1>3, <4>2
          <5>2. i - (Len(open) - k) \in DOMAIN Inner(v)' /\ Inner(v)'[i - (Len(open) - k)] = s
            BY <1>1, <1>3, <3>3, <5>1
          <5>3. v \in Statements'
            BY <1>1
          <5> QED
            BY <5>2, <5>3 DEF Placed
        <4> QED
          BY <1>3, <4>1, <4>2
      <3> QED
        BY <3>1, <3>2, <3>3 DEF Placed
    <2> QED
      BY <1>1, <2>1, <2>2
  <1>9. PlacedOnce'
    <2>1. /\ \A i, j \in DOMAIN open : open[i] = open[j] => i = j
          /\ \A s \in Statements : \A i \in DOMAIN Inner(s), j \in DOMAIN open : Inner(s)[i] # open[j]
          /\ \A s, t \in Statements : \A i \in DOMAIN Inner(s), j \in DOMAIN Inner(t) :
                Inner(s)[i] = Inner(t)[j] => s = t /\ i = j
      BY DEF PlacedOnce, TreeInv
    <2>2. \A i \in DOMAIN open' : \/ i \in DOMAIN open /\ i <= Len(open) - k /\ open'[i] = open[i] /\ open'[i] \in Statements
                                  \/ i = Len(open) - k + 1 /\ open'[i] = v
      BY <1>6
    <2>3. \A i \in 1..k : Len(open) - k + i \in DOMAIN open /\ Len(open) - k + i > Len(open) - k
      BY <1>3
    <2>4. ASSUME NEW i \in DOMAIN open', NEW j \in DOMAIN open', open'[i] = open'[j] PROVE i = j
      BY <1>1, <2>1, <2>2, <2>4
    <2>5. ASSUME NEW s \in Statements', NEW i \in DOMAIN Inner(s)', NEW j \in DOMAIN open'
          PROVE  Inner(s)'[i] # open'[j]
      <3>1. CASE s \in Statements
        <4>1. Inner(s)' = Inner(s) /\ Inner(s)[i] \in Statements
          BY <1>1, <1>5, <2>5, <3>1 DEF Shape
        <4> QED
          BY <1>1, <2>1, <2>2, <2>5, <3>1, <4>1
      <3>2. CASE s = v
        <4>1. i \in 1..k /\ Inner(s)'[i] = open[Len(open) - k + i] /\ Inner(s)'[i] \in Statements
          BY <1>1, <1>3, <1>4, <2>5, <3>2
        <4>2. /\ Len(open) - k + i \in DOMAIN open
              /\ Len(open) - k + i > Len(open) - k
          BY <2>3, <4>1
        <4>3. CASE open'[j] = v
          BY <1>1, <4>1, <4>3
        <4>4. CASE j \in DOMAIN open /\ j <= Len(open) - k /\ open'[j] = open[j]
          <5>1. j # Len(open) - k + i
            BY <1>3, <4>1, <4>2, <4>4
          <5> QED
            BY <2>1, <4>1, <4>2, <4>4, <5>1
        <4> QED
          BY <2>2, <2>5, <4>3, <4>4
      <3> QED
        BY <1>1, <2>5, <3>1, <3>2
    <2>6. ASSUME NEW s \in Statements', NEW t \in Statements', NEW i \in DOMAIN Inner(s)', NEW j \in DOMAIN Inner(t)',
                 Inner(s)'[i] = Inner(t)'[j]
          PROVE  s = t /\ i = j
      <3>1. CASE s \in Statements /\ t \in Statements
        BY <1>1, <2>1, <2>6, <3>1
      <3>2. CASE s = v /\ t = v
        <4>1. i \in 1..k /\ j \in 1..k /\ open[Len(open) - k + i] = open[Len(open) - k + j]
          BY <1>1, <1>3, <2>6, <3>2
        <4>2. Len(open) - k + i = Len(open) - k + j
          BY <2>1, <2>3, <4>1
        <4> QED
          BY <1>3, <3>2, <4>1, <4>2
      <3>3. CASE s = v /\ t \in Statements
        <4>1. i \in 1..k /\ Inner(t)[j] = open[Len(open) - k + i] /\ j \in DOMAIN Inner(t)
          BY <1>1, <1>3, <2>6, <3>3
        <4> QED
          BY <2>1, <2>3, <3>3, <4>1
      <3>4. CASE t = v /\ s \in Statements
        <4>1. j \in 1..k /\ Inner(s)[i] = open[Len(open) - k + j] /\ i \in DOMAIN Inner(s)
          BY <1>1, <1>3, <2>6, <3>4
        <4> QED
          BY <2>1, <2>3, <3>4, <4>1
      <3> QED
        BY <1>1, <2>6, <3>1, <3>2, <3>3, <3>4
    <2> QED
      BY <2>4, <2>5, <2>6 DEF PlacedOnce
  <1> QED
    BY <1>2, <1>6, <1>7, <1>8, <1>9 DEF TreeInv

\* The edges of a new statement start at nodes that lead nowhere yet, so each edge stays.
LEMMA CreatedGraph ==
    ASSUME TreeInv, GraphInv, Building, NEW v, v = New, NEW kind, NEW cond,
           NEW k \in 0..Len(open), NEW nodes \in Node \X Node, NEW nexts, NEW branches,
           CreateCfg(kind, cond, k, nodes, nexts, branches),
           \A n \in DOMAIN nexts :
              /\ n \in Node /\ nexts[n] \in Node
              /\ n[2] = v \/ \E j \in (Len(open) - k + 1)..Len(open) : n = Last(open[j]),
           DOMAIN branches \subseteq {Expr(v)},
           nodes[2][1] \in {"statement", "out"}, nodes[2] \notin DOMAIN nexts,
           nodes[2][2] = v \/ (k > 0 /\ nodes[2] = Last(open[Len(open)])),
           \A j \in (Len(open) - k + 1)..Len(open) : Last(open[j]) \in DOMAIN nexts \/ Last(open[j]) = nodes[2],
           Wired(v)', \A n \in DOMAIN nexts : EdgeOf(v, n, nexts[n])'
    PROVE  GraphInv' /\ Building' /\ EdgesStay
  <1>g. Grown(v, kind, cond, k, nodes)
    BY Kept
  <1>1. /\ Statements = 1..Len(syntax) /\ Len(syntax) \in Nat /\ v = Len(syntax) + 1
        /\ Statements' = Statements \cup {v} /\ v \notin Statements
    BY <1>g DEF Grown
  <1>2. \A s \in Statements : /\ First(s)' = First(s) /\ Last(s)' = Last(s) /\ pair'[s] = pair[s]
                              /\ Kind(s)' = Kind(s) /\ Inner(s)' = Inner(s)
    BY <1>g DEF Grown
  <1>3. Last(v)' = nodes[2]
    BY <1>g DEF Grown
  <1>4. /\ open' \in Seq(Nat) /\ Len(open') = Len(open) - k + 1 /\ open'[Len(open) - k + 1] = v
        /\ \A i \in 1..(Len(open) - k) : open'[i] = open[i]
    BY <1>g DEF Grown
  <1>5. /\ open \in Seq(Nat) /\ DOMAIN open = 1..Len(open) /\ Len(open) \in Nat /\ k \in Nat /\ k <= Len(open)
        /\ \A i \in DOMAIN open : open[i] \in Statements
        /\ DOMAIN open' = 1..(Len(open) - k + 1)
    BY <1>4 DEF TreeInv
  <1>6. next' = With(nexts, next) /\ branch' = With(branches, branch) /\ phase' = "build"
    BY DEF CreateCfg
  <1>7. /\ \A n \in DOMAIN next : n \in Node /\ next[n] \in Node /\ n[2] \in Statements
        /\ \A n \in DOMAIN branch : n \in Node /\ n[2] \in Statements
        /\ \A s \in Statements : EndIn(s) /\ Wired(s)
    BY DEF GraphInv
  <1>8. /\ \A n \in DOMAIN next : \E s \in Statements : EdgeOf(s, n, next[n])
        /\ \A s \in Statements : EndsOpen(s)
        /\ \A i \in DOMAIN open : Last(open[i]) \notin DOMAIN next
        /\ \A i, j \in DOMAIN open : Last(open[i]) = Last(open[j]) => i = j
    BY DEF Building
  <1>9. \A n \in DOMAIN nexts : n \notin DOMAIN next
    <2> TAKE n \in DOMAIN nexts
    <2>1. CASE n[2] = v
      BY <1>1, <1>7, <2>1
    <2>2. ASSUME NEW j \in (Len(open) - k + 1)..Len(open), n = Last(open[j]) PROVE n \notin DOMAIN next
      <3>1. j \in DOMAIN open
        BY <1>5
      <3> QED
        BY <1>8, <2>2, <3>1
    <2> QED
      BY <2>1, <2>2
  <1>10. /\ DOMAIN next' = DOMAIN nexts \cup DOMAIN next
         /\ \A n \in DOMAIN nexts : next'[n] = nexts[n]
         /\ \A n \in DOMAIN next : next'[n] = next[n]
    BY <1>6, <1>9 DEF With
  <1>11. /\ DOMAIN branch' = DOMAIN branches \cup DOMAIN branch
         /\ \A n \in DOMAIN branch : branch'[n] = branch[n]
    <2>1. \A n \in DOMAIN branch : n \notin DOMAIN branches
      <3>1. Expr(v)[2] = v
        BY DEF Expr
      <3> QED
        BY <1>1, <1>7, <3>1
    <2> QED
      BY <1>6, <2>1 DEF With
  <1>12. \A n, m : Leads(n, m) => Leads(n, m)'
    BY <1>10 DEF Leads
  <1>13. ASSUME NEW s \in Statements
         PROVE  /\ \A i \in DOMAIN Inner(s) : Inner(s)[i] \in Statements
                /\ Inner(s) \in Seq(Nat) /\ Shape(s)
                /\ \A i \in DOMAIN Inner(s) : First(Inner(s)[i])' = First(Inner(s)[i]) /\ Last(Inner(s)[i])' = Last(Inner(s)[i])
    <2>1. Shape(s)
      BY DEF TreeInv
    <2>2. \A i \in DOMAIN Inner(s) : Inner(s)[i] \in Statements
      BY <2>1 DEF Shape
    <2> QED
      <3>1. \A t \in Statements : First(t)' = First(t) /\ Last(t)' = Last(t)
        BY <1>2
      <3>2. ASSUME NEW i \in DOMAIN Inner(s), Inner(s)' = Inner(s)
            PROVE  First(Inner(s)[i])' = First(Inner(s)[i]) /\ Last(Inner(s)[i])' = Last(Inner(s)[i])
        <4> DEFINE t == Inner(s)[i]
        <4>1. t \in Statements /\ t' = t
          BY <2>2, <3>2
        <4>2. First(t)' = pair'[t'][1] /\ Last(t)' = pair'[t'][2]
          BY DEF First, Last
        <4>3. First(t) = pair[t][1] /\ Last(t) = pair[t][2] /\ pair'[t] = pair[t]
          BY <1>2, <4>1 DEF First, Last
        <4> HIDE DEF t
        <4>4. First(t)' = First(t) /\ Last(t)' = Last(t)
          BY <4>1, <4>2, <4>3
        <4> QED
          BY <4>4 DEF t
      <3> QED
        BY <1>2, <2>1, <2>2, <3>2 DEF Shape
  <1>14. ASSUME NEW s \in Statements PROVE Wired(s)'
    <2>1. Wired(s)
      BY <1>7
    <2> QED
      BY <1>2, <1>11, <1>12, <1>13, <2>1, SMTT(30) DEF Wired, Chained, Shape
  <1>15. ASSUME NEW s \in Statements, NEW n, NEW m, EdgeOf(s, n, m) PROVE EdgeOf(s, n, m)'
    BY <1>2, <1>13, <1>15 DEF EdgeOf, Follows, Shape
  <1>16. \A n \in DOMAIN next' : n \in Node /\ next'[n] \in Node /\ n[2] \in Statements'
    <2> TAKE n \in DOMAIN next'
    <2>1. CASE n \in DOMAIN next
      BY <1>1, <1>7, <1>10, <2>1
    <2>2. CASE n \in DOMAIN nexts
      <3>1. n[2] \in Statements'
        <4>1. ASSUME NEW j \in (Len(open) - k + 1)..Len(open), n = Last(open[j]) PROVE n[2] \in Statements
          <5>1. j \in DOMAIN open
            BY <1>5
          <5>2. open[j] \in Statements
            BY <1>5, <5>1
          <5> QED
            BY <1>7, <4>1, <5>2 DEF EndIn
        <4> QED
          BY <1>1, <2>2, <4>1
      <3> QED
        BY <1>10, <2>2, <3>1
    <2> QED
      BY <1>10, <2>1, <2>2
  <1>17. \A n \in DOMAIN branch' : n \in Node /\ n[2] \in Statements'
    <2>1. Expr(v) \in Node /\ Expr(v)[2] = v
      BY <1>1 DEF Expr, Node
    <2> QED
      BY <1>1, <1>7, <1>11, <2>1
  <1>18. ASSUME NEW s \in Statements' PROVE EndIn(s)'
    <2>1. CASE s \in Statements
      BY <1>1, <1>2, <1>7, <2>1 DEF EndIn
    <2>2. CASE s = v
      <3>1. CASE nodes[2][2] = v
        BY <1>1, <1>3, <2>2, <3>1 DEF EndIn
      <3>2. CASE k > 0 /\ nodes[2] = Last(open[Len(open)])
        <4>1. open[Len(open)] \in Statements
          BY <1>5, <3>2
        <4>2. nodes[2][2] \in Statements
          BY <1>7, <3>2, <4>1 DEF EndIn
        <4> QED
          BY <1>1, <1>3, <2>2, <4>2 DEF EndIn
      <3> QED
        BY <3>1, <3>2
    <2> QED
      BY <1>1, <2>1, <2>2
  <1>19. GraphInv'
    BY <1>1, <1>14, <1>16, <1>17, <1>18 DEF GraphInv
  <1>20. ASSUME NEW n \in DOMAIN next' PROVE \E s \in Statements' : EdgeOf(s, n, next[n])'
    <2>1. CASE n \in DOMAIN next
      <3>1. PICK s \in Statements : EdgeOf(s, n, next[n])
        BY <1>8, <2>1
      <3> DEFINE m == next[n]
      <3>2. m' = m
        BY <1>10, <2>1
      <3>3. EdgeOf(s, n, m)
        BY <3>1
      <3> HIDE DEF m
      <3>4. EdgeOf(s, n, m)'
        <4>1. PICK z : z = m
          OBVIOUS
        <4>2. EdgeOf(s, n, z)'
          BY <1>15, <3>3, <4>1
        <4> QED
          BY <3>2, <4>1, <4>2 DEF EdgeOf, Follows
      <3> QED
        BY <1>1, <3>4 DEF m
    <2>2. CASE n \in DOMAIN nexts
      <3>1. next'[n] = nexts[n] /\ EdgeOf(v, n, nexts[n])'
        BY <1>10, <2>2
      <3>2. EdgeOf(v, n, next[n])'
        BY <3>1 DEF EdgeOf, Follows
      <3> QED
        BY <1>1, <3>2
    <2> QED
      BY <1>10, <2>1, <2>2
  <1>21. ASSUME NEW s \in Statements' PROVE EndsOpen(s)'
    <2>1. ASSUME Last(s)' = nodes[2] PROVE EndsOpen(s)'
      <3>0. PICK e : e = Len(open) - k + 1
        OBVIOUS
      <3>1. e \in DOMAIN open'
        BY <1>5, <3>0
      <3>2. Last(open[e])' = nodes[2]
        BY <1>3, <1>4, <3>0 DEF Last
      <3> QED
        BY <2>1, <3>1, <3>2 DEF EndsOpen
    <2>2. CASE s \in Statements
      <3>1. Last(s)' = Last(s) /\ EndsOpen(s)
        BY <1>2, <1>8, <2>2
      <3>2. CASE Last(s) \in DOMAIN next
        BY <1>10, <3>1, <3>2 DEF EndsOpen
      <3>3. ASSUME NEW i \in DOMAIN open, Last(s) = Last(open[i]) PROVE EndsOpen(s)'
        <4>1. CASE i \in 1..(Len(open) - k)
          <5>0. i \in DOMAIN open'
            BY <1>5, <4>1
          <5>1. i \in DOMAIN open' /\ open'[i] = open[i] /\ open[i] \in Statements
            BY <1>4, <1>5, <3>3, <4>1, <5>0
          <5>2. Last(open[i])' = Last(open[i])
            BY <1>2, <5>1 DEF Last
          <5> QED
            BY <3>1, <3>3, <5>1, <5>2 DEF EndsOpen
        <4>2. CASE i \in (Len(open) - k + 1)..Len(open)
          BY <1>10, <2>1, <3>1, <3>3, <4>2 DEF EndsOpen
        <4> QED
          BY <1>5, <3>3, <4>1, <4>2
      <3> QED
        BY <3>1, <3>2, <3>3 DEF EndsOpen
    <2> QED
      BY <1>1, <1>3, <2>1, <2>2
  <1>22. ASSUME NEW i \in DOMAIN open'
         PROVE  \/ i \in 1..(Len(open) - k) /\ i \in DOMAIN open /\ Last(open[i])' = Last(open[i])
                \/ i = Len(open) - k + 1 /\ Last(open[i])' = nodes[2]
    <2>1. CASE i \in 1..(Len(open) - k)
      <3>1. i \in DOMAIN open /\ open'[i] = open[i] /\ open[i] \in Statements
        BY <1>4, <1>5, <2>1
      <3> QED
        BY <1>2, <2>1, <3>1 DEF Last
    <2>2. CASE i = Len(open) - k + 1
      BY <1>3, <1>4, <2>2 DEF Last
    <2> QED
      BY <1>5, <2>1, <2>2
  <1>23. ASSUME NEW i \in 1..(Len(open) - k) PROVE Last(open[i]) # nodes[2] /\ Last(open[i]) \notin DOMAIN nexts
    <2>1. i \in DOMAIN open /\ open[i] \in Statements
      BY <1>5
    <2>2. Last(open[i])[2] # v
      BY <1>1, <1>7, <2>1 DEF EndIn
    <2>3. ASSUME NEW j \in (Len(open) - k + 1)..Len(open) PROVE Last(open[i]) # Last(open[j])
      <3>1. j \in DOMAIN open /\ i # j
        BY <1>5
      <3> QED
        BY <1>8, <2>1, <3>1
    <2>4. k > 0 => Len(open) \in (Len(open) - k + 1)..Len(open)
      BY <1>5
    <2> QED
      BY <2>2, <2>3, <2>4
  <1>24. nodes[2] \notin DOMAIN next
    <2>1. k > 0 => Len(open) \in DOMAIN open
      BY <1>5
    <2> QED
      BY <1>1, <1>7, <1>8, <2>1
  <1>25. ASSUME NEW i \in DOMAIN open' PROVE Last(open[i])' \notin DOMAIN next'
    <2>1. CASE i \in 1..(Len(open) - k) /\ i \in DOMAIN open /\ Last(open[i])' = Last(open[i])
      BY <1>8, <1>10, <1>23, <2>1
    <2>2. CASE i = Len(open) - k + 1 /\ Last(open[i])' = nodes[2]
      BY <1>10, <1>24, <2>2
    <2> QED
      BY <1>22, <2>1, <2>2
  <1>26. ASSUME NEW i \in DOMAIN open', NEW j \in DOMAIN open', Last(open[i])' = Last(open[j])' PROVE i = j
    BY <1>8, <1>22, <1>23, <1>26, ZenonT(40)
  <1>27. Building'
    BY <1>6, <1>20, <1>21, <1>25, <1>26 DEF Building
  <1> QED
    BY <1>10, <1>19, <1>27 DEF EdgesStay

-----------------------------------------------------------------------------
(* What createCfg makes of each kind of statement.                         *)

\* The edges a new statement asks for are those the graph has afterwards.
LEMMA NewEdges ==
    ASSUME NEW kind, NEW cond, NEW k, NEW nodes, NEW nexts, NEW branches,
           CreateCfg(kind, cond, k, nodes, nexts, branches)
    PROVE  /\ \A n \in DOMAIN nexts : Leads(n, nexts[n])'
           /\ \A n \in DOMAIN branches : n \in DOMAIN branch' /\ branch'[n] = branches[n]
  BY DEF CreateCfg, With, Leads

\* The first and the last node of the statements that are now inside the new one.
InnerNodes(v, k) == \A i \in 1..k : /\ Len(open) - k + i \in DOMAIN open
                                    /\ open[Len(open) - k + i] \in Statements
                                    /\ First(Inner(v)[i])' = First(open[Len(open) - k + i])
                                    /\ Last(Inner(v)[i])' = Last(open[Len(open) - k + i])
\* The statements inside a new one are the last that were open.
LEMMA InnerOf ==
    ASSUME TreeInv, NEW v, NEW kind, NEW cond, NEW k \in 0..Len(open), NEW nodes,
           Grown(v, kind, cond, k, nodes)
    PROVE  InnerNodes(v, k)
  <1> SUFFICES ASSUME NEW i \in 1..k
               PROVE  /\ Len(open) - k + i \in DOMAIN open
                      /\ open[Len(open) - k + i] \in Statements
                      /\ First(Inner(v)[i])' = First(open[Len(open) - k + i])
                      /\ Last(Inner(v)[i])' = Last(open[Len(open) - k + i])
    BY DEF InnerNodes
  <1>1. Len(open) \in Nat /\ DOMAIN open = 1..Len(open) /\ k \in Nat /\ k <= Len(open)
    BY DEF TreeInv
  <1>2. PICK j : j = Len(open) - k + i
    OBVIOUS
  <1>3. j \in DOMAIN open
    BY <1>1, <1>2
  <1>4. open[j] \in Statements
    BY <1>3 DEF TreeInv
  <1>5. Inner(v)'[i] = open[j]
    BY <1>2 DEF Grown
  <1>6. pair'[open[j]] = pair[open[j]]
    BY <1>4 DEF Grown
  <1> QED
    BY <1>2, <1>3, <1>4, <1>5, <1>6 DEF First, Last

\* What a map of edges put over another holds.
LEMMA EdgeValues ==
    /\ \A n, m : DOMAIN Edge(n, m) = {n} /\ Edge(n, m)[n] = m
    /\ DOMAIN NoEdges = {}
    /\ \A f, g : /\ DOMAIN With(f, g) = DOMAIN f \cup DOMAIN g
                 /\ \A n \in DOMAIN f : With(f, g)[n] = f[n]
                 /\ \A n \in DOMAIN g : n \notin DOMAIN f => With(f, g)[n] = g[n]
  BY DEF Edge, NoEdges, With

\* The links of a list lead from the end of each statement to the beginning of the next
\* one, as long as no two of them end at the same node.
LEMMA LinksOf ==
    ASSUME NEW list, Len(list) \in Nat,
           \A i, j \in 1..(Len(list) - 1) : Last(list[i]) = Last(list[j]) => i = j
    PROVE  /\ DOMAIN Links(list) = {Last(list[i]) : i \in 1..(Len(list) - 1)}
           /\ \A i \in 1..(Len(list) - 1) : Links(list)[Last(list[i])] = First(list[i + 1])
  <1>1. DOMAIN Links(list) = {Last(list[i]) : i \in 1..(Len(list) - 1)}
    BY DEF Links
  <1>2. ASSUME NEW i \in 1..(Len(list) - 1) PROVE Links(list)[Last(list[i])] = First(list[i + 1])
    <2> DEFINE j == CHOOSE h \in 1..(Len(list) - 1) : Last(list[h]) = Last(list[i])
    <2>1. j \in 1..(Len(list) - 1) /\ Last(list[j]) = Last(list[i])
      OBVIOUS
    <2>2. Links(list)[Last(list[i])] = First(list[1 + j])
      BY DEF Links
    <2> HIDE DEF j
    <2>3. j = i
      BY <2>1
    <2> QED
      BY <2>2, <2>3
  <1> QED
    BY <1>1, <1>2

\* The four nodes a statement may have.
LEMMA NodesOf ==
    ASSUME NEW v, v \in Nat
    PROVE  /\ Stmt(v) \in Node /\ In(v) \in Node /\ Out(v) \in Node /\ Expr(v) \in Node
           /\ <<In(v), Out(v)>> \in Node \X Node /\ <<Stmt(v), Stmt(v)>> \in Node \X Node
           /\ Stmt(v)[2] = v /\ In(v)[2] = v /\ Out(v)[2] = v /\ Expr(v)[2] = v
           /\ Stmt(v)[1] = "statement" /\ In(v)[1] = "in" /\ Out(v)[1] = "out" /\ Expr(v)[1] = "expression"
           /\ In(v) # Out(v) /\ Stmt(v) # In(v)
  BY DEF Node, Stmt, In, Out, Expr

\* A graph begins and ends at nodes.
LEMMA FirstAndLast ==
    ASSUME TreeInv, NEW s \in Statements PROVE First(s) \in Node /\ Last(s) \in Node
  <1>1. s \in DOMAIN pair
    BY DEF TreeInv, Statements
  <1>2. pair[s] \in Node \X Node
    BY <1>1 DEF TreeInv
  <1> QED
    BY <1>2 DEF First, Last

\* A return, declaration, expression or empty statement is a graph of one node.
LEMMA CreatedSimple ==
    ASSUME TreeInv, GraphInv, Building, NEW kind \in {"simple", "return"}, SimpleStatement(kind)
    PROVE  TreeInv' /\ GraphInv' /\ Building' /\ EdgesStay
  <1> PICK v : v = New
    OBVIOUS
  <1>1. CreateCfg(kind, NoCondition, 0, <<Stmt(v), Stmt(v)>>, NoEdges, NoEdges)
    BY DEF SimpleStatement, Stmt
  <1>2. Len(open) \in Nat /\ 0 \in 0..Len(open) /\ v \in Nat
    BY DEF TreeInv, New
  <1>3. Grown(v, kind, NoCondition, 0, <<Stmt(v), Stmt(v)>>)
    BY <1>1, <1>2, Kept, NodesOf
  <1>4. TreeInv'
    BY <1>1, <1>2, CreatedTree, NodesOf DEF Outcomes, Branching
  <1>5. Wired(v)'
    BY <1>3 DEF Grown, Wired, Branching
  <1>6. GraphInv' /\ Building' /\ EdgesStay
    <2>1. \A j \in (Len(open) - 0 + 1)..Len(open) : FALSE
      BY <1>2
    <2>2. <<Stmt(v), Stmt(v)>>[2] = Stmt(v)
      OBVIOUS
    <2> QED
      BY <1>1, <1>2, <1>5, <2>1, <2>2, CreatedGraph, NodesOf, EdgeValues
  <1> QED
    BY <1>4, <1>6

\* Two edges from different nodes are both kept.
LEMMA TwoEdges ==
    ASSUME NEW n, NEW m, NEW p, NEW q, n # p
    PROVE  /\ DOMAIN With(Edge(n, m), Edge(p, q)) = {n, p}
           /\ With(Edge(n, m), Edge(p, q))[n] = m
           /\ With(Edge(n, m), Edge(p, q))[p] = q
  BY DEF With, Edge

\* The dummy before a new statement is no node of the statements there are.
LEMMA LastElsewhere ==
    ASSUME TreeInv, GraphInv, NEW i \in {0, 1}, Len(open) >= i + 1
    PROVE  In(New) # Last(open[Len(open) - i])
  <1>1. Len(open) - i \in DOMAIN open
    BY DEF TreeInv
  <1>2. open[Len(open) - i] \in Statements
    BY <1>1 DEF TreeInv
  <1> QED
    BY <1>2 DEF GraphInv, EndIn, In

\* An if or a loop around the last statement, or the last two.
LEMMA CreatedBranching ==
    ASSUME TreeInv, GraphInv, Building, NEW v, v = New, NEW kind \in Branching, NEW cond \in Outcomes,
           NEW k \in {1, 2}, k = IF kind = "ifelse" THEN 2 ELSE 1, k <= Len(open),
           NEW s, s = open[Len(open) - k + 1], NEW t, t = open[Len(open)],
           NEW nexts, DOMAIN nexts = {In(v), Last(s), Last(t)}, nexts[In(v)] = Expr(v),
           NEW target, target = IF kind = "loop" THEN Expr(v) ELSE Out(v),
           nexts[Last(s)] = target, nexts[Last(t)] = target,
           NEW branches, DOMAIN branches = {Expr(v)},
           branches[Expr(v)] = <<First(s), IF kind = "ifelse" THEN First(t) ELSE Out(v)>>,
           CreateCfg(kind, cond, k, <<In(v), Out(v)>>, nexts, branches)
    PROVE  TreeInv' /\ GraphInv' /\ Building' /\ EdgesStay
  <1> DEFINE nodes == <<In(v), Out(v)>>
  <1>1. /\ Len(open) \in Nat /\ k \in 0..Len(open) /\ Len(open) \in DOMAIN open /\ Len(open) - k + 1 \in DOMAIN open
        /\ v \in Nat /\ v \notin Statements /\ k \in Nat /\ k > 0
    BY DEF TreeInv, New, Statements
  <1>2. s \in Statements /\ t \in Statements
    BY <1>1 DEF TreeInv
  <1>3. Last(s) \in Node /\ First(s) \in Node /\ Last(t) \in Node /\ First(t) \in Node
    BY <1>2, FirstAndLast
  <1>4. Last(s)[2] # v /\ Last(t)[2] # v
    BY <1>1, <1>2 DEF GraphInv, EndIn
  <1>5. nodes \in Node \X Node /\ nodes[1] = In(v) /\ nodes[2] = Out(v)
    BY <1>1, NodesOf
  <1>6. CreateCfg(kind, cond, k, nodes, nexts, branches)
    OBVIOUS
  <1> HIDE DEF nodes
  <1>7. Grown(v, kind, cond, k, nodes)
    BY <1>1, <1>5, <1>6, Kept
  <1>8. /\ First(Inner(v)[1])' = First(s) /\ Last(Inner(v)[1])' = Last(s)
        /\ k = 2 => First(Inner(v)[2])' = First(t) /\ Last(Inner(v)[2])' = Last(t)
        /\ k = 1 => t = s
    <2>1. 1 \in 1..k /\ (k = 2 => 2 \in 1..k) /\ (k = 2 => Len(open) - k + 2 = Len(open)) /\ (k = 1 => Len(open) - k + 1 = Len(open))
      BY <1>1
    <2>2. InnerNodes(v, k)
      BY <1>1, <1>7, InnerOf
    <2>3. First(Inner(v)[1])' = First(s) /\ Last(Inner(v)[1])' = Last(s)
      BY <2>1, <2>2 DEF InnerNodes
    <2>4. ASSUME k = 2 PROVE First(Inner(v)[2])' = First(t) /\ Last(Inner(v)[2])' = Last(t)
      <3>1. 2 \in 1..k /\ open[Len(open) - k + 2] = t
        BY <2>1, <2>4
      <3> QED
        BY <2>2, <3>1 DEF InnerNodes
    <2> QED
      BY <2>1, <2>3, <2>4
  <1>9. TreeInv'
    BY <1>1, <1>5, <1>6, CreatedTree DEF Branching
  <1>10. /\ \A n \in DOMAIN nexts : n \in DOMAIN next' /\ next'[n] = nexts[n]
         /\ Expr(v) \in DOMAIN branch' /\ branch'[Expr(v)] = branches[Expr(v)]
    BY <1>6, NewEdges DEF Leads
  <1>11. /\ pair'[v] = nodes /\ Kind(v)' = kind /\ Inner(v)' \in Seq(Nat) /\ Len(Inner(v)') = k
    BY <1>7 DEF Grown
  <1>12. Wired(v)'
    <2>1. /\ In(v) \in DOMAIN next' /\ next'[In(v)] = Expr(v)
          /\ Last(Inner(v)[1])' \in DOMAIN next' /\ next'[Last(Inner(v)[1])'] = target
          /\ k = 2 => Last(Inner(v)[2])' \in DOMAIN next' /\ next'[Last(Inner(v)[2])'] = target
      BY <1>8, <1>10
    <2>2. Leads(In(v), Expr(v))'
      BY <2>1 DEF Leads, In, Expr
    <2>3. kind \in {"if", "ifelse"} => Leads(Last(Inner(v)[1]), Out(v))'
      BY <2>1 DEF Leads, Out
    <2>4. kind = "ifelse" => Leads(Last(Inner(v)[2]), Out(v))'
      BY <2>1 DEF Leads, Out
    <2>5. kind = "loop" => Leads(Last(Inner(v)[1]), Expr(v))'
      BY <2>1 DEF Leads, Expr
    <2>6. /\ Expr(v) \in DOMAIN branch'
          /\ branch'[Expr(v)] = <<First(Inner(v)[1])', IF kind = "ifelse" THEN First(Inner(v)[2])' ELSE Out(v)>>
      BY <1>8, <1>10
    <2> QED
      BY <1>5, <1>11, <2>2, <2>3, <2>4, <2>5, <2>6 DEF Wired, Branching, nodes, In, Out, Expr
  <1>13. ASSUME NEW n \in DOMAIN nexts PROVE EdgeOf(v, n, nexts[n])'
    <2>1. 1 \in DOMAIN Inner(v)' /\ (k = 2 => 2 \in DOMAIN Inner(v)')
      BY <1>1, <1>11
    <2>2. CASE n = In(v)
      BY <1>11, <2>2 DEF EdgeOf, In, Expr
    <2>3. CASE n = Last(s)
      <3>1. n = Last(Inner(v)[1])' /\ nexts[n] = target
        BY <1>8, <2>3
      <3> QED
        BY <1>11, <2>1, <3>1 DEF EdgeOf, Out, Expr, Branching
    <2>4. CASE n = Last(t)
      <3>1. nexts[n] = target /\ IF k = 2 THEN n = Last(Inner(v)[2])' ELSE n = Last(Inner(v)[1])'
        BY <1>8, <2>4
      <3> QED
        BY <1>11, <2>1, <3>1 DEF EdgeOf, Out, Expr, Branching
    <2> QED
      BY <2>2, <2>3, <2>4
  <1>14. GraphInv' /\ Building' /\ EdgesStay
    <2>0. Len(open) \in (Len(open) - k + 1)..Len(open) /\ Len(open) - k + 1 \in (Len(open) - k + 1)..Len(open)
      BY <1>1
    <2>1. ASSUME NEW n \in DOMAIN nexts
          PROVE  /\ n \in Node /\ nexts[n] \in Node
                 /\ n[2] = v \/ \E j \in (Len(open) - k + 1)..Len(open) : n = Last(open[j])
      <3>1. target \in Node /\ In(v) \in Node /\ Expr(v) \in Node /\ In(v)[2] = v
        BY <1>1 DEF Node, In, Out, Expr
      <3> QED
        BY <1>3, <2>0, <2>1, <3>1
    <2>2. Out(v) \notin DOMAIN nexts
      BY <1>1, <1>4, NodesOf
    <2>3. \A j \in (Len(open) - k + 1)..Len(open) : Last(open[j]) \in DOMAIN nexts
      <3>1. \A j \in (Len(open) - k + 1)..Len(open) : j = Len(open) \/ j = Len(open) - k + 1
        BY <1>1
      <3> QED
        BY <3>1
    <2>4. nodes[2][1] \in {"statement", "out"} /\ nodes[2][2] = v
      BY <1>1, <1>5 DEF Out
    <2> QED
      BY <1>1, <1>5, <1>6, <1>12, <1>13, <2>1, <2>2, <2>3, <2>4, CreatedGraph
  <1> QED
    BY <1>9, <1>14

\* An if statement without else is wired as a branching statement is.
LEMMA CreatedIfThen ==
    ASSUME TreeInv, GraphInv, Building, IfThenStatement
    PROVE  TreeInv' /\ GraphInv' /\ Building' /\ EdgesStay
  <1> PICK v, t : v = New /\ t = open[Len(open)]
    OBVIOUS
  <1>1. /\ CreateCfg("if", Plain("varying"), 1, <<In(v), Out(v)>>,
                     With(Edge(In(v), Expr(v)), Edge(Last(t), Out(v))),
                     Edge(Expr(v), <<First(t), Out(v)>>))
        /\ Len(open) >= 1
    BY DEF IfThenStatement, In, Out, Expr, Dummies, Condition
  <1>2. In(v) # Last(t) /\ Len(open) - 1 + 1 = Len(open)
    BY <1>1, LastElsewhere
  <1>3. PICK nexts, branches : /\ nexts = With(Edge(In(v), Expr(v)), Edge(Last(t), Out(v)))
                               /\ branches = Edge(Expr(v), <<First(t), Out(v)>>)
    OBVIOUS
  <1>4. /\ DOMAIN nexts = {In(v), Last(t), Last(t)} /\ nexts[In(v)] = Expr(v) /\ nexts[Last(t)] = Out(v)
        /\ DOMAIN branches = {Expr(v)} /\ branches[Expr(v)] = <<First(t), Out(v)>>
    BY <1>2, <1>3 DEF With, Edge
  <1>5. CreateCfg("if", Plain("varying"), 1, <<In(v), Out(v)>>, nexts, branches)
    BY <1>1, <1>3
  <1>6. Plain("varying") \in Outcomes /\ "if" \in Branching /\ 1 \in {1, 2} /\ "if" # "ifelse" /\ "if" # "loop"
    BY DEF Outcomes, Branching
  <1> QED
    BY <1>1, <1>2, <1>4, <1>5, <1>6, CreatedBranching

\* So is a while or a for statement.
LEMMA CreatedLoop ==
    ASSUME TreeInv, GraphInv, Building, NEW cond \in Outcomes, LoopStatement(cond)
    PROVE  TreeInv' /\ GraphInv' /\ Building' /\ EdgesStay
  <1> PICK v, t : v = New /\ t = open[Len(open)]
    OBVIOUS
  <1>1. /\ CreateCfg("loop", cond, 1, <<In(v), Out(v)>>,
                     With(Edge(In(v), Expr(v)), Edge(Last(t), Expr(v))),
                     Edge(Expr(v), <<First(t), Out(v)>>))
        /\ Len(open) >= 1
    BY DEF LoopStatement, In, Out, Expr, Dummies, Condition
  <1>2. In(v) # Last(t) /\ Len(open) - 1 + 1 = Len(open)
    BY <1>1, LastElsewhere
  <1>3. PICK nexts, branches : /\ nexts = With(Edge(In(v), Expr(v)), Edge(Last(t), Expr(v)))
                               /\ branches = Edge(Expr(v), <<First(t), Out(v)>>)
    OBVIOUS
  <1>4. /\ DOMAIN nexts = {In(v), Last(t), Last(t)} /\ nexts[In(v)] = Expr(v) /\ nexts[Last(t)] = Expr(v)
        /\ DOMAIN branches = {Expr(v)} /\ branches[Expr(v)] = <<First(t), Out(v)>>
    BY <1>2, <1>3 DEF With, Edge
  <1>5. CreateCfg("loop", cond, 1, <<In(v), Out(v)>>, nexts, branches)
    BY <1>1, <1>3
  <1>6. "loop" \in Branching /\ 1 \in {1, 2} /\ "loop" # "ifelse"
    BY DEF Branching
  <1> QED
    BY <1>1, <1>2, <1>4, <1>5, <1>6, CreatedBranching

\* And an if statement with else.
LEMMA CreatedIfElse ==
    ASSUME TreeInv, GraphInv, Building, IfThenElseStatement
    PROVE  TreeInv' /\ GraphInv' /\ Building' /\ EdgesStay
  <1> PICK v, s, t : v = New /\ s = open[Len(open) - 1] /\ t = open[Len(open)]
    OBVIOUS
  <1>1. /\ CreateCfg("ifelse", Plain("varying"), 2, <<In(v), Out(v)>>,
                     With(Edge(In(v), Expr(v)), With(Edge(Last(s), Out(v)), Edge(Last(t), Out(v)))),
                     Edge(Expr(v), <<First(s), First(t)>>))
        /\ Len(open) >= 2
    BY DEF IfThenElseStatement, In, Out, Expr, Dummies, Condition
  <1>2. In(v) # Last(s) /\ In(v) # Last(t) /\ Len(open) - 2 + 1 = Len(open) - 1
    <2>1. Len(open) \in Nat /\ Len(open) - 0 = Len(open)
      BY DEF TreeInv
    <2> QED
      BY <1>1, <2>1, LastElsewhere
  <1>3. PICK ends, nexts, branches :
           /\ ends = With(Edge(Last(s), Out(v)), Edge(Last(t), Out(v)))
           /\ nexts = With(Edge(In(v), Expr(v)), ends)
           /\ branches = Edge(Expr(v), <<First(s), First(t)>>)
    OBVIOUS
  <1>4. DOMAIN ends = {Last(s), Last(t)} /\ ends[Last(s)] = Out(v) /\ ends[Last(t)] = Out(v)
    BY <1>3 DEF With, Edge
  <1>5. /\ DOMAIN nexts = {In(v), Last(s), Last(t)} /\ nexts[In(v)] = Expr(v)
        /\ nexts[Last(s)] = Out(v) /\ nexts[Last(t)] = Out(v)
        /\ DOMAIN branches = {Expr(v)} /\ branches[Expr(v)] = <<First(s), First(t)>>
    BY <1>2, <1>3, <1>4 DEF With, Edge
  <1>6. CreateCfg("ifelse", Plain("varying"), 2, <<In(v), Out(v)>>, nexts, branches)
    BY <1>1, <1>3
  <1>7. Plain("varying") \in Outcomes /\ "ifelse" \in Branching /\ 2 \in {1, 2} /\ "ifelse" # "loop"
    BY DEF Outcomes, Branching
  <1> QED
    BY <1>1, <1>2, <1>5, <1>6, <1>7, CreatedBranching

\* A block begins at its own node and ends where its last statement does.
LEMMA CreatedBlock ==
    ASSUME TreeInv, GraphInv, Building, NEW k \in 0..Len(open), Block(k)
    PROVE  TreeInv' /\ GraphInv' /\ Building' /\ EdgesStay
  <1> PICK v : v = New
    OBVIOUS
  <1>1. Len(open) \in Nat /\ k \in Nat /\ k <= Len(open) /\ DOMAIN open = 1..Len(open) /\ v \in Nat /\ v \notin Statements
    BY DEF TreeInv, New, Statements
  <1>n. /\ Stmt(v) \in Node /\ Stmt(v)[2] = v /\ Stmt(v)[1] = "statement"
        /\ <<Stmt(v), Stmt(v)>> \in Node \X Node
    BY <1>1 DEF Node, Stmt
  <1>2. CASE k = 0
    <2>1. CreateCfg("block", NoCondition, 0, <<Stmt(v), Stmt(v)>>, NoEdges, NoEdges)
      BY <1>2 DEF Block, Stmt
    <2>3. Grown(v, "block", NoCondition, 0, <<Stmt(v), Stmt(v)>>)
      BY <1>1, <1>n, <2>1, Kept
    <2>4. TreeInv'
      BY <1>1, <2>1, CreatedTree, <1>n DEF Outcomes, Branching
    <2>5. Wired(v)'
      <3>1. Len(Inner(v)') = 0 /\ Kind(v)' = "block" /\ First(v)' = Stmt(v) /\ Last(v)' = Stmt(v)
        BY <2>3 DEF Grown
      <3> QED
        BY <3>1 DEF Wired, Branching, Chained
    <2>6. GraphInv' /\ Building' /\ EdgesStay
      <3>1. PICK nodes, none : nodes = <<Stmt(v), Stmt(v)>> /\ none = NoEdges
        OBVIOUS
      <3>2. /\ CreateCfg("block", NoCondition, 0, nodes, none, none) /\ nodes \in Node \X Node
            /\ nodes[2][1] = "statement" /\ nodes[2][2] = v
        BY <1>n, <2>1, <3>1
      <3>3. DOMAIN none = {} /\ nodes[2] \notin DOMAIN none /\ \A n \in DOMAIN none : FALSE
        BY <3>1, EdgeValues
      <3>4. 0 \in 0..Len(open) /\ \A j \in (Len(open) - 0 + 1)..Len(open) : FALSE
        BY <1>1
      <3>5. DOMAIN none \subseteq {Expr(v)} /\ \A n \in DOMAIN none : EdgeOf(v, n, none[n])'
        BY <3>3
      <3> QED
        BY <2>5, <3>2, <3>3, <3>4, <3>5, CreatedGraph
    <2> QED
      BY <2>4, <2>6
  <1>3. CASE k # 0
    <2>0. PICK inner, nodes, nexts :
             /\ inner = SubSeq(open, Len(open) - k + 1, Len(open))
             /\ nodes = <<Stmt(v), Last(inner[k])>>
             /\ nexts = With(Edge(Stmt(v), First(inner[1])), Links(inner))
      OBVIOUS
    <2>1. CreateCfg("block", NoCondition, k, nodes, nexts, NoEdges)
      BY <1>3, <2>0 DEF Block, Stmt
    <2>2. /\ Len(inner) = k /\ \A i \in 1..k : inner[i] = open[Len(open) - k + i]
      BY <1>1, <1>3, <2>0 DEF TreeInv
    <2>3. ASSUME NEW i \in 1..k
          PROVE  /\ Len(open) - k + i \in DOMAIN open /\ inner[i] \in Statements
                 /\ First(inner[i]) \in Node /\ Last(inner[i]) \in Node /\ Last(inner[i])[2] # v
                 /\ Last(inner[i])[1] \in {"statement", "out"}
      <3>1. Len(open) - k + i \in DOMAIN open
        BY <1>1
      <3>2. inner[i] \in Statements
        BY <2>2, <3>1 DEF TreeInv
      <3> QED
        BY <1>1, <3>1, <3>2, FirstAndLast DEF GraphInv, EndIn
    <2>4. ASSUME NEW i \in 1..k, NEW j \in 1..k, Last(inner[i]) = Last(inner[j]) PROVE i = j
      <3>1. Len(open) - k + i \in DOMAIN open /\ Len(open) - k + j \in DOMAIN open
        BY <2>3
      <3>2. Len(open) - k + i = Len(open) - k + j
        BY <2>2, <2>4, <3>1 DEF Building
      <3> QED
        BY <1>1, <3>2
    <2>5. /\ DOMAIN Links(inner) = {Last(inner[i]) : i \in 1..(k - 1)}
          /\ \A i \in 1..(k - 1) : Links(inner)[Last(inner[i])] = First(inner[i + 1])
      <3>1. \A i, j \in 1..(k - 1) : Last(inner[i]) = Last(inner[j]) => i = j
        BY <1>1, <2>4
      <3> QED
        BY <1>1, <2>2, <3>1, LinksOf
    <2>6. /\ DOMAIN nexts = {Stmt(v)} \cup {Last(inner[i]) : i \in 1..(k - 1)}
          /\ nexts[Stmt(v)] = First(inner[1])
          /\ \A i \in 1..(k - 1) : nexts[Last(inner[i])] = First(inner[i + 1])
      <3>1. \A i \in 1..(k - 1) : Last(inner[i]) # Stmt(v)
        <4> TAKE i \in 1..(k - 1)
        <4>1. i \in 1..k
          BY <1>1
        <4> QED
          BY <1>1, <2>3, <4>1, <1>n
      <3> DEFINE links == Links(inner)
      <3>2. DOMAIN links = {Last(inner[i]) : i \in 1..(k - 1)} /\ \A i \in 1..(k - 1) : links[Last(inner[i])] = First(inner[i + 1])
        BY <2>5
      <3>3. nexts = With(Edge(Stmt(v), First(inner[1])), links)
        BY <2>0
      <3> HIDE DEF links
      <3> QED
        BY <3>1, <3>2, <3>3 DEF With, Edge
    <2>7. nodes \in Node \X Node /\ nodes[1] = Stmt(v) /\ nodes[2] = Last(inner[k]) /\ k \in 1..k
      BY <2>0, <1>1, <1>3, <2>3, <1>n
    <2>8. inner[k] = open[Len(open)] /\ Len(open) - k + k = Len(open)
      BY <1>1, <2>2, <2>7
    <2>9. Grown(v, "block", NoCondition, k, nodes)
      BY <2>1, <2>7, Kept
    <2>10. \A i \in 1..k : First(Inner(v)[i])' = First(inner[i]) /\ Last(Inner(v)[i])' = Last(inner[i])
      <3>1. InnerNodes(v, k)
        BY <2>9, InnerOf
      <3> QED
        BY <2>2, <3>1 DEF InnerNodes
    <2>11. TreeInv'
      BY <1>1, <2>1, <2>7, CreatedTree DEF Outcomes, Branching
    <2>12. /\ Stmt(v) \in DOMAIN next' /\ next'[Stmt(v)] = First(inner[1])
           /\ \A i \in 1..(k - 1) : Last(inner[i]) \in DOMAIN next' /\ next'[Last(inner[i])] = First(inner[i + 1])
      <3>1. \A n \in DOMAIN nexts : n \in DOMAIN next' /\ next'[n] = nexts[n]
        BY <2>1, NewEdges DEF Leads
      <3> QED
        BY <2>6, <3>1
    <2>13. /\ Kind(v)' = "block" /\ First(v)' = Stmt(v) /\ Last(v)' = Last(inner[k])
           /\ Inner(v)' \in Seq(Nat) /\ Len(Inner(v)') = k
      BY <2>7, <2>9 DEF Grown
    <2>14. \A i \in 1..(k - 1) : i \in 1..k /\ i + 1 \in 1..k
      BY <1>1
    <2>15. Chained(Inner(v))'
      BY <2>10, <2>12, <2>13, <2>14 DEF Chained, Leads
    <2>16. Wired(v)'
      <3>1. 1 \in 1..k
        BY <1>1, <1>3
      <3>2. Last(v)' = Last(Inner(v)[Len(Inner(v))])'
        BY <2>7, <2>10, <2>13
      <3>3. Leads(Stmt(v), First(Inner(v)[1]))'
        <4>1. First(Inner(v)[1])' = First(inner[1])
          BY <2>10, <3>1
        <4> QED
          BY <2>12, <4>1 DEF Leads, Stmt
      <3> QED
        BY <1>3, <2>13, <2>15, <3>2, <3>3 DEF Wired, Branching
    <2>17. ASSUME NEW n \in DOMAIN nexts PROVE EdgeOf(v, n, nexts[n])'
      <3>1. CASE n = Stmt(v)
        <4>1. 1 \in 1..k
          BY <1>1, <1>3
        <4>2. nexts[n] = First(Inner(v)[1])'
          BY <2>6, <2>10, <3>1, <4>1
        <4> QED
          BY <1>1, <1>3, <2>13, <3>1, <4>2 DEF EdgeOf, Stmt
      <3>2. ASSUME NEW i \in 1..(k - 1), n = Last(inner[i]) PROVE EdgeOf(v, n, nexts[n])'
        <4>1. nexts[n] = First(inner[i + 1])
          BY <2>6, <3>2
        <4>2. n = Last(Inner(v)[i])' /\ nexts[n] = First(Inner(v)[i + 1])'
          BY <2>10, <2>14, <3>2, <4>1
        <4>3. Follows(Inner(v), n, nexts[n])'
          BY <2>13, <4>2 DEF Follows
        <4> QED
          BY <2>13, <4>3 DEF EdgeOf
      <3> QED
        BY <2>6, <3>1, <3>2
    <2>18. GraphInv' /\ Building' /\ EdgesStay
      <3>1. ASSUME NEW n \in DOMAIN nexts
            PROVE  /\ n \in Node /\ nexts[n] \in Node
                   /\ n[2] = v \/ \E j \in (Len(open) - k + 1)..Len(open) : n = Last(open[j])
        <4>1. CASE n = Stmt(v)
          <5>1. 1 \in 1..k
            BY <1>1, <1>3
          <5> QED
            BY <1>1, <2>3, <2>6, <4>1, <5>1, <1>n
        <4>2. ASSUME NEW i \in 1..(k - 1), n = Last(inner[i])
              PROVE  /\ n \in Node /\ nexts[n] \in Node
                     /\ \E j \in (Len(open) - k + 1)..Len(open) : n = Last(open[j])
          <5>1. i \in 1..k /\ i + 1 \in 1..k
            BY <2>14
          <5>2. Len(open) - k + i \in (Len(open) - k + 1)..Len(open)
            BY <1>1, <5>1
          <5>3. n = Last(open[Len(open) - k + i])
            BY <2>2, <4>2, <5>1
          <5> QED
            BY <2>3, <2>6, <4>2, <5>1, <5>2, <5>3
        <4> QED
          BY <2>6, <4>1, <4>2
      <3>2. nodes[2] \notin DOMAIN nexts
        <4>1. \A i \in 1..(k - 1) : i # k
          BY <1>1
        <4> QED
          BY <1>1, <2>3, <2>4, <2>6, <2>7, <2>14, <4>1, <1>n
      <3>3. ASSUME NEW j \in (Len(open) - k + 1)..Len(open)
            PROVE  Last(open[j]) \in DOMAIN nexts \/ Last(open[j]) = nodes[2]
        <4>1. PICK i : i = j - (Len(open) - k)
          OBVIOUS
        <4>2. i \in 1..k /\ Len(open) - k + i = j /\ (i # k => i \in 1..(k - 1))
          BY <1>1, <4>1
        <4>3. Last(open[j]) = Last(inner[i])
          BY <2>2, <4>2
        <4> QED
          BY <2>6, <2>7, <4>2, <4>3
      <3>4. nodes[2][1] \in {"statement", "out"} /\ k > 0 /\ nodes[2] = Last(open[Len(open)])
        BY <1>1, <1>3, <2>3, <2>7, <2>8
      <3>5. DOMAIN NoEdges \subseteq {Expr(v)}
        BY EdgeValues
      <3> QED
        BY <2>1, <2>7, <2>16, <2>17, <3>1, <3>2, <3>3, <3>4, <3>5, CreatedGraph
    <2> QED
      BY <2>11, <2>18
  <1> QED
    BY <1>2, <1>3

-----------------------------------------------------------------------------
(* The finished graph, and the rules of the language one statement at a time. *)

\* The tree depends on the syntax alone.
LEMMA TreeStays == ASSUME TreeInv, UNCHANGED <<treeVars, pair>> PROVE TreeInv'
  BY DEF TreeInv, treeVars, Statements, Shape, Placed, PlacedOnce, Kind, Inner

\* The wiring depends on the syntax and the edges alone.
LEMMA GraphStays ==
    ASSUME GraphInv, UNCHANGED <<treeVars, pair, next, branch>> PROVE GraphInv'
  BY DEF GraphInv, treeVars, Statements, EndIn, Wired, Chained, Leads, Kind, Inner, First, Last

\* And so does what holds of the graph once it is built.
LEMMA BuiltStays ==
    ASSUME Built, UNCHANGED <<treeVars, graphVars>>,
           phase' \in {"walk", "check", "rejected", "run", "returned"}
    PROVE  Built'
  BY DEF Built, treeVars, graphVars, Statements, EdgeOf, EndsDone, Follows, Chained, Leads, Kind, Inner, First, Last

\* The statements of the body are linked like those of a block.
LEMMA MethodDone ==
    ASSUME TreeInv, GraphInv, Building, MethodDeclaration
    PROVE  TreeInv' /\ GraphInv' /\ Built' /\ EdgesStay
  <1>1. /\ next' = With(Links(open), next) /\ phase' = "walk"
        /\ UNCHANGED <<treeVars, pair, branch>> /\ syntax' = syntax /\ open' = open
    BY DEF MethodDeclaration, treeVars
  <1>2. TreeInv'
    BY <1>1, TreeStays DEF treeVars
  <1>3. Len(open) \in Nat /\ DOMAIN open = 1..Len(open) /\ \A i \in DOMAIN open : open[i] \in Statements
    BY DEF TreeInv
  <1>4. /\ DOMAIN Links(open) = {Last(open[i]) : i \in 1..(Len(open) - 1)}
        /\ \A i \in 1..(Len(open) - 1) : Links(open)[Last(open[i])] = First(open[i + 1])
    <2>1. \A i, j \in 1..(Len(open) - 1) : Last(open[i]) = Last(open[j]) => i = j
      BY <1>3 DEF Building
    <2> QED
      BY <1>3, <2>1, LinksOf
  <1>5. \A i \in 1..(Len(open) - 1) : i \in DOMAIN open /\ i + 1 \in DOMAIN open
    BY <1>3
  <1>6. \A n \in DOMAIN Links(open) : n \notin DOMAIN next
    BY <1>4, <1>5 DEF Building
  <1>7. /\ DOMAIN next' = DOMAIN Links(open) \cup DOMAIN next
        /\ \A n \in DOMAIN Links(open) : next'[n] = Links(open)[n]
        /\ \A n \in DOMAIN next : next'[n] = next[n]
    BY <1>1, <1>6 DEF With
  <1>8. /\ \A s : First(s)' = First(s) /\ Last(s)' = Last(s) /\ Kind(s)' = Kind(s) /\ Inner(s)' = Inner(s)
        /\ Statements' = Statements
    BY <1>1 DEF First, Last, Kind, Inner, Statements
  <1>9. \A n, m : Leads(n, m) => n \in DOMAIN next' /\ next'[n] = m
    BY <1>7 DEF Leads
  <1>10. ASSUME NEW s \in Statements PROVE Wired(s)'
    <2>1. Wired(s)
      BY DEF GraphInv
    <2> QED
      BY <1>1, <1>9, <2>1 DEF Wired, Chained, Leads, First, Last, Kind, Inner
  <1>11. GraphInv'
    <2>1. ASSUME NEW n \in DOMAIN next' PROVE n \in Node /\ next'[n] \in Node /\ n[2] \in Statements
      <3>1. CASE n \in DOMAIN next
        BY <1>7, <3>1 DEF GraphInv
      <3>2. ASSUME NEW i \in 1..(Len(open) - 1), n = Last(open[i]) PROVE n \in Node /\ next'[n] \in Node /\ n[2] \in Statements
        <4>1. open[i] \in Statements /\ open[i + 1] \in Statements
          BY <1>3, <1>5
        <4>2. next'[n] = First(open[i + 1])
          BY <1>4, <1>7, <3>2
        <4> QED
          BY <3>2, <4>1, <4>2, FirstAndLast DEF GraphInv, EndIn
      <3> QED
        BY <1>4, <1>7, <3>1, <3>2
    <2>2. \A s \in Statements : EndIn(s)'
      BY <1>1 DEF GraphInv, EndIn, Last, Statements
    <2> QED
      BY <1>1, <1>8, <1>10, <2>1, <2>2 DEF GraphInv
  <1>12. ASSUME NEW n \in DOMAIN next'
         PROVE  (\E s \in Statements : EdgeOf(s, n, next[n])') \/ Follows(open, n, next[n])'
    <2>1. CASE n \in DOMAIN next
      <3>1. PICK s \in Statements : EdgeOf(s, n, next[n])
        BY <2>1 DEF Building
      <3>2. EdgeOf(s, n, next[n])'
        BY <1>1, <1>7, <2>1, <3>1 DEF EdgeOf, Follows, Kind, Inner, First, Last
      <3> QED
        BY <3>2
    <2>2. ASSUME NEW i \in 1..(Len(open) - 1), n = Last(open[i]) PROVE Follows(open, n, next[n])'
      <3>1. next'[n] = First(open[i + 1])
        BY <1>4, <1>7, <2>2
      <3> QED
        BY <1>1, <2>2, <3>1 DEF Follows, First, Last
    <2> QED
      BY <1>4, <1>7, <2>1, <2>2
  <1>13. ASSUME NEW s \in Statements PROVE EndsDone(s)'
    <2>1. EndsOpen(s)
      BY DEF Building
    <2>2. CASE Last(s) \in DOMAIN next
      BY <1>7, <1>8, <2>2 DEF EndsDone
    <2>3. ASSUME NEW i \in DOMAIN open, Last(s) = Last(open[i]) PROVE EndsDone(s)'
      <3>1. CASE i \in 1..(Len(open) - 1)
        BY <1>4, <1>7, <1>8, <2>3, <3>1 DEF EndsDone
      <3>2. CASE i = Len(open)
        BY <1>1, <1>3, <2>3, <3>2 DEF EndsDone, Last
      <3> QED
        BY <1>3, <2>3, <3>1, <3>2
    <2> QED
      BY <2>1, <2>2, <2>3 DEF EndsOpen
  <1>14. Chained(open)'
    BY <1>1, <1>4, <1>7 DEF Chained, Leads, First, Last
  <1>15. Len(open) > 0 => Last(open[Len(open)])' \notin DOMAIN next'
    <2> SUFFICES ASSUME Len(open) > 0 PROVE Last(open[Len(open)]) \notin DOMAIN next'
      BY <1>1 DEF Last
    <2>1. Len(open) \in DOMAIN open
      BY <1>3
    <2>2. ASSUME NEW i \in 1..(Len(open) - 1) PROVE Last(open[i]) # Last(open[Len(open)])
      <3>0. Len(open) \in Nat
        BY <1>3
      <3>1. i # Len(open)
        BY <3>0
      <3>2. i \in DOMAIN open
        BY <1>5
      <3> QED
        BY <2>1, <3>1, <3>2 DEF Building
    <2> QED
      BY <1>4, <1>7, <2>1, <2>2 DEF Building
  <1>16. Built'
    BY <1>1, <1>8, <1>12, <1>13, <1>14, <1>15 DEF Built
  <1> QED
    BY <1>2, <1>7, <1>11, <1>16 DEF EdgesStay

\* One step of the recursion of CanComplete.
Completes(f, s) ==
    CASE Kind(s) = "return" -> FALSE
      [] Kind(s) = "block" -> \A i \in DOMAIN syntax[s].inner : f[syntax[s].inner[i]]
      [] Kind(s) = "ifelse" -> \E i \in {1, 2} : f[syntax[s].inner[i]]
      [] Kind(s) = "loop" -> syntax[s].cond.java # "true"
      [] OTHER -> TRUE

\* Whether a statement can complete depends on the statements inside it alone.
LEMMA CompletesLocal ==
    ASSUME TreeInv, NEW s \in Statements, NEW f, NEW g, \A t \in Statements : t < s => f[t] = g[t]
    PROVE  Completes(f, s) = Completes(g, s)
  <1>1. /\ \A i \in DOMAIN syntax[s].inner : f[syntax[s].inner[i]] = g[syntax[s].inner[i]]
    BY DEF TreeInv, Shape, Inner
  <1>2. CASE Kind(s) = "block"
    BY <1>1, <1>2 DEF Completes
  <1>3. CASE Kind(s) = "ifelse"
    <2>1. 1 \in DOMAIN syntax[s].inner /\ 2 \in DOMAIN syntax[s].inner
      BY <1>3 DEF TreeInv, Shape, Inner
    <2>2. f[syntax[s].inner[1]] = g[syntax[s].inner[1]] /\ f[syntax[s].inner[2]] = g[syntax[s].inner[2]]
      BY <1>1, <2>1
    <2> QED
      BY <1>3, <2>2 DEF Completes
  <1>4. CASE Kind(s) \notin {"block", "ifelse"}
    BY <1>4 DEF Completes
  <1> QED
    BY <1>2, <1>3, <1>4

\* The rules can be tabled for the statements up to any one, so their recursion defines
\* which statements can complete.
LEMMA CompletesExists ==
    ASSUME TreeInv PROVE \E f : f = [s \in Statements |-> Completes(f, s)]
  <1> DEFINE L == Len(syntax)
             Good == {m \in Nat : m <= L => \E f : f = [s \in 1..m |-> Completes(f, s)]}
  <1>1. L \in Nat /\ Statements = 1..L
    BY DEF TreeInv, Statements
  <1>2. 0 \in Good
    <2>1. PICK f : f = [s \in 1..0 |-> TRUE]
      OBVIOUS
    <2>2. f = [s \in 1..0 |-> Completes(f, s)]
      BY <2>1
    <2> QED
      BY <2>2
  <1>3. ASSUME NEW m \in Nat, m \in Good PROVE m + 1 \in Good
    <2> SUFFICES ASSUME m + 1 <= L PROVE \E f : f = [s \in 1..(m + 1) |-> Completes(f, s)]
      OBVIOUS
    <2>1. PICK f : f = [s \in 1..m |-> Completes(f, s)]
      BY <1>1, <1>3
    <2>2. PICK g : g = [s \in 1..(m + 1) |-> IF s \in 1..m THEN f[s] ELSE Completes(f, m + 1)]
      OBVIOUS
    <2>3. ASSUME NEW s \in 1..(m + 1) PROVE g[s] = Completes(g, s)
      <3>1. s \in Statements
        BY <1>1
      <3>2. \A t \in Statements : t < s => g[t] = f[t]
        BY <1>1, <2>2
      <3>3. Completes(g, s) = Completes(f, s)
        BY <3>1, <3>2, CompletesLocal
      <3>4. CASE s \in 1..m
        BY <2>1, <2>2, <3>3, <3>4
      <3>5. CASE s = m + 1
        BY <2>2, <3>3, <3>5
      <3> QED
        BY <2>3, <3>4, <3>5
    <2>4. DOMAIN g = 1..(m + 1) /\ g = [s \in 1..(m + 1) |-> g[s]]
      BY <2>2
    <2>5. g = [s \in 1..(m + 1) |-> Completes(g, s)]
      BY <2>3, <2>4
    <2> QED
      BY <2>5
  <1>4. Nat \subseteq Good
    <2> HIDE DEF Good
    <2> QED
      BY <1>2, <1>3, Induct
  <1> QED
    BY <1>1, <1>4

\* CanComplete satisfies its recursion.
LEMMA Completion == ASSUME TreeInv, NEW s \in Statements PROVE CanComplete[s] = Completes(CanComplete, s)
  <1>1. CanComplete = [t \in Statements |-> Completes(CanComplete, t)]
    BY CompletesExists DEF CanComplete, Completes
  <1> QED
    BY <1>1

-----------------------------------------------------------------------------
(* Why the walk is at a node.                                              *)

\* What a node the walk is called with owes its place to: seen are the nodes it has
\* been called with, done those of them it has visited.
Finished(t, done) == Last(t) \in done /\ ~Returns(Last(t))
NodeOf(s, m) == IF Kind(s) \in Branching THEN m \in {In(s), Out(s), Expr(s)} ELSE m = Stmt(s)
Known(m) == (m = EmptyBody /\ Len(open) = 0) \/ \E s \in Statements : NodeOf(s, m)
Begins(s, i, seen, done) ==
    /\ First(s) \in seen
    /\ Kind(s) = "loop" => syntax[s].cond.folded # "false"
    /\ Kind(s) = "block" /\ i > 1 => Finished(Inner(s)[i - 1], done)
Ends(s, done) ==
    /\ Kind(s) = "ifelse" => \E i \in {1, 2} : Finished(Inner(s)[i], done)
    /\ Kind(s) = "loop" => syntax[s].cond.folded \in {"false", "varying"}
Justified(m, seen, done) ==
    /\ Known(m)
    /\ \A s \in Statements :
          /\ Kind(s) \in Branching /\ m = Expr(s) => In(s) \in seen
          /\ Kind(s) \in Branching /\ m = Out(s) => In(s) \in seen /\ Ends(s, done)
          /\ \A i \in DOMAIN Inner(s) : m = First(Inner(s)[i]) => Begins(s, i, seen, done)
    /\ \A i \in DOMAIN open : m = First(open[i]) /\ i > 1 => Finished(open[i - 1], done)

\* A reason for a node to be walked to is not lost as the walk goes on.
LEMMA JustifiedMore ==
    ASSUME NEW m, NEW seen, NEW done, Justified(m, seen, done),
           NEW seen2, seen \subseteq seen2, NEW done2, done \subseteq done2
    PROVE  Justified(m, seen2, done2)
  <1>1. \A t : Finished(t, done) => Finished(t, done2)
    BY DEF Finished
  <1>2. \A s \in Statements : Ends(s, done) => Ends(s, done2)
    BY <1>1 DEF Ends
  <1>3. \A s, i : Begins(s, i, seen, done) => Begins(s, i, seen2, done2)
    BY <1>1 DEF Begins
  <1> QED
    BY <1>1, <1>2, <1>3 DEF Justified

\* Nor by what leaves the tree and the graph alone.
LEMMA JustifiedStays ==
    ASSUME UNCHANGED <<treeVars, pair>>, NEW m, NEW seen, NEW done, Justified(m, seen, done)
    PROVE  Justified(m, seen, done)'
  BY SMTT(30) DEF treeVars, Justified, Known, NodeOf, Begins, Ends, Finished, Returns, Statements, Kind, Inner, First, Last

\* The nodes at the ends of a statement.
LEMMA Nodes ==
    ASSUME TreeInv, GraphInv, NEW s \in Statements
    PROVE  /\ s \in Nat /\ s # 0
           /\ First(s) = IF Kind(s) \in Branching THEN In(s) ELSE Stmt(s)
           /\ Kind(s) \in Branching => Last(s) = Out(s)
           /\ Kind(s) \in {"simple", "return"} => Last(s) = Stmt(s)
           /\ Kind(s) \in {"simple", "return", "block"} \cup Branching
           /\ syntax[s].cond \in Outcomes
  <1>1. s \in 1..Len(syntax) /\ Len(syntax) \in Nat
    BY DEF TreeInv, Statements
  <1>2. Shape(s) /\ Wired(s)
    BY DEF TreeInv, GraphInv
  <1> QED
    BY <1>1, <1>2 DEF Shape, Wired, First, Last, Branching

\* No two statements share a first node, and it is neither a condition nor an end.
LEMMA FirstsDiffer ==
    ASSUME TreeInv, GraphInv, NEW s \in Statements, NEW t \in Statements
    PROVE  /\ First(s) = First(t) => s = t
           /\ First(s) # Expr(t) /\ First(s) # Out(t) /\ Expr(s) # Out(t)
           /\ Expr(s) = Expr(t) => s = t
           /\ Out(s) = Out(t) => s = t
           /\ First(s) # EmptyBody
  BY Nodes DEF In, Stmt, Out, Expr, EmptyBody

\* The condition of a statement that was entered may be walked to.
LEMMA JustifiedExpr ==
    ASSUME TreeInv, GraphInv, NEW s \in Statements, Kind(s) \in Branching, NEW seen, NEW done, In(s) \in seen
    PROVE  Justified(Expr(s), seen, done)
  <1>1. Known(Expr(s))
    BY DEF Known, NodeOf
  <1>2. \A t \in Statements : \A i \in DOMAIN Inner(t) : Inner(t)[i] \in Statements
    BY DEF TreeInv, Shape
  <1>3. \A i \in DOMAIN open : open[i] \in Statements
    BY DEF TreeInv
  <1> QED
    BY <1>1, <1>2, <1>3, FirstsDiffer DEF Justified

\* The end of a branching statement may be walked to once what leads there has ended.
LEMMA JustifiedOut ==
    ASSUME TreeInv, GraphInv, NEW s \in Statements, Kind(s) \in Branching,
           NEW seen, NEW done, In(s) \in seen, Ends(s, done)
    PROVE  Justified(Out(s), seen, done)
  <1>1. Known(Out(s))
    BY DEF Known, NodeOf
  <1>2. \A t \in Statements : \A i \in DOMAIN Inner(t) : Inner(t)[i] \in Statements
    BY DEF TreeInv, Shape
  <1>3. \A i \in DOMAIN open : open[i] \in Statements
    BY DEF TreeInv
  <1> QED
    BY <1>1, <1>2, <1>3, FirstsDiffer DEF Justified

\* The beginning of an inner statement may be walked to once its place allows.
LEMMA JustifiedFirst ==
    ASSUME TreeInv, GraphInv, NEW s \in Statements, NEW i \in DOMAIN Inner(s),
           NEW seen, NEW done, Begins(s, i, seen, done)
    PROVE  Justified(First(Inner(s)[i]), seen, done)
  <1>1. \A t \in Statements : \A j \in DOMAIN Inner(t) : Inner(t)[j] \in Statements
    BY DEF TreeInv, Shape
  <1>2. \A j \in DOMAIN open : open[j] \in Statements
    BY DEF TreeInv
  <1>3. Known(First(Inner(s)[i]))
    BY <1>1, Nodes DEF Known, NodeOf
  <1>4. ASSUME NEW t \in Statements, NEW j \in DOMAIN Inner(t), First(Inner(s)[i]) = First(Inner(t)[j])
        PROVE  Begins(t, j, seen, done)
    <2>1. Inner(s)[i] = Inner(t)[j]
      BY <1>1, <1>4, FirstsDiffer
    <2>2. s = t /\ i = j
      BY <2>1 DEF TreeInv, PlacedOnce
    <2> QED
      BY <2>2
  <1>5. \A j \in DOMAIN open : First(Inner(s)[i]) # First(open[j])
    <2> SUFFICES ASSUME NEW j \in DOMAIN open, First(Inner(s)[i]) = First(open[j]) PROVE FALSE
      OBVIOUS
    <2>1. Inner(s)[i] = open[j]
      BY <1>1, <1>2, FirstsDiffer
    <2> QED
      BY <2>1 DEF TreeInv, PlacedOnce
  <1> QED
    BY <1>1, <1>3, <1>4, <1>5, FirstsDiffer DEF Justified

\* And that of a statement of the body once the one before it has ended.
LEMMA JustifiedOpen ==
    ASSUME TreeInv, GraphInv, NEW i \in DOMAIN open,
           NEW seen, NEW done, i > 1 => Finished(open[i - 1], done)
    PROVE  Justified(First(open[i]), seen, done)
  <1>1. \A t \in Statements : \A j \in DOMAIN Inner(t) : Inner(t)[j] \in Statements
    BY DEF TreeInv, Shape
  <1>2. \A j \in DOMAIN open : open[j] \in Statements
    BY DEF TreeInv
  <1>3. Known(First(open[i]))
    BY <1>2, Nodes DEF Known, NodeOf
  <1>4. ASSUME NEW t \in Statements, NEW j \in DOMAIN Inner(t), First(open[i]) = First(Inner(t)[j]) PROVE FALSE
    <2>1. open[i] = Inner(t)[j]
      BY <1>1, <1>2, <1>4, FirstsDiffer
    <2> QED
      BY <2>1 DEF TreeInv, PlacedOnce
  <1>5. \A j \in DOMAIN open : First(open[i]) = First(open[j]) => i = j
    <2> SUFFICES ASSUME NEW j \in DOMAIN open, First(open[i]) = First(open[j]) PROVE i = j
      OBVIOUS
    <2>1. open[i] = open[j]
      BY <1>2, FirstsDiffer
    <2> QED
      BY <2>1 DEF TreeInv, PlacedOnce
  <1> QED
    BY <1>2, <1>3, <1>4, <1>5, FirstsDiffer DEF Justified

\* An empty body has a node of its own, at which the walk starts.
LEMMA JustifiedEmpty ==
    ASSUME TreeInv, GraphInv, Len(open) = 0, NEW seen, NEW done PROVE Justified(EmptyBody, seen, done)
  <1>1. \A t \in Statements : \A j \in DOMAIN Inner(t) : Inner(t)[j] \in Statements
    BY DEF TreeInv, Shape
  <1>2. DOMAIN open = {}
    BY DEF TreeInv
  <1>3. \A t \in Statements : EmptyBody # Expr(t) /\ EmptyBody # Out(t)
    BY DEF EmptyBody, Expr, Out
  <1> QED
    BY <1>1, <1>2, <1>3, FirstsDiffer DEF Justified, Known

\* Induction from the inner statements to those around them.
LEMMA BottomUp ==
    ASSUME TreeInv, NEW G, \A s \in Statements : (\A t \in Statements : t < s => t \in G) => s \in G
    PROVE  Statements \subseteq G
  <1> DEFINE Good == {m \in Nat : \A s \in Statements : s <= m => s \in G}
  <1>1. Len(syntax) \in Nat /\ Statements = 1..Len(syntax)
    BY DEF TreeInv, Statements
  <1>2. 0 \in Good
    BY <1>1
  <1>3. ASSUME NEW m \in Nat, m \in Good PROVE m + 1 \in Good
    <2> SUFFICES ASSUME NEW s \in Statements, s <= m + 1 PROVE s \in G
      OBVIOUS
    <2>1. \A t \in Statements : t < s => t <= m
      BY <1>1
    <2> QED
      BY <1>3, <2>1
  <1>4. Nat \subseteq Good
    <2> HIDE DEF Good
    <2> QED
      BY <1>2, <1>3, Induct
  <1> QED
    BY <1>1, <1>4

\* Induction from the outer statements to those inside them.
LEMMA TopDown ==
    ASSUME TreeInv, NEW G, \A s \in Statements : (\A t \in Statements : s < t => t \in G) => s \in G
    PROVE  Statements \subseteq G
  <1> DEFINE L == Len(syntax)
             Good == {m \in Nat : \A s \in Statements : L - s < m => s \in G}
  <1>1. L \in Nat /\ Statements = 1..L
    BY DEF TreeInv, Statements
  <1>2. 0 \in Good
    BY <1>1
  <1>3. ASSUME NEW m \in Nat, m \in Good PROVE m + 1 \in Good
    <2> SUFFICES ASSUME NEW s \in Statements, L - s < m + 1 PROVE s \in G
      OBVIOUS
    <2>1. \A t \in Statements : s < t => L - t < m
      BY <1>1
    <2> QED
      BY <1>3, <2>1
  <1>4. Nat \subseteq Good
    <2> HIDE DEF Good
    <2> QED
      BY <1>2, <1>3, Induct
  <1>5. L + 1 \in Nat /\ \A s \in Statements : L - s < L + 1
    BY <1>1
  <1> QED
    BY <1>4, <1>5

AllJustified(seen, done) == done \subseteq seen /\ \A m \in seen : Justified(m, seen, done)

\* The walk does not come to the end of a statement it did not enter.
LEMMA LastThenFirst ==
    ASSUME TreeInv, GraphInv, NEW seen, NEW done, AllJustified(seen, done)
    PROVE  \A s \in Statements : Last(s) \in seen => First(s) \in seen
  <1> DEFINE G == {s \in Statements : Last(s) \in seen => First(s) \in seen}
  <1>1. ASSUME NEW s \in Statements, \A t \in Statements : t < s => t \in G, Last(s) \in seen
        PROVE  First(s) \in seen
    <2>1. Justified(Last(s), seen, done)
      BY <1>1 DEF AllJustified
    <2>2. CASE Kind(s) \in Branching
      BY <2>1, <2>2, Nodes DEF Justified
    <2>3. CASE Kind(s) \in {"simple", "return"}
      BY <1>1, <2>3, Nodes DEF Branching
    <2>4. CASE Kind(s) = "block" /\ Len(Inner(s)) = 0
      <3>1. Wired(s)
        BY DEF GraphInv
      <3> QED
        BY <1>1, <2>4, <3>1 DEF Wired
    <2>5. CASE Kind(s) = "block" /\ Len(Inner(s)) # 0
      <3>1. Inner(s) \in Seq(Nat) /\ \A i \in DOMAIN Inner(s) : Inner(s)[i] \in Statements /\ Inner(s)[i] < s
        BY DEF TreeInv, Shape
      <3>2. PICK k : k = Len(Inner(s))
        OBVIOUS
      <3>3. k \in DOMAIN Inner(s) /\ Len(Inner(s)) > 0
        BY <2>5, <3>1, <3>2
      <3>4. Last(s) = Last(Inner(s)[k])
        BY <2>5, <3>2, <3>3 DEF GraphInv, Wired
      <3>5. First(Inner(s)[k]) \in seen
        BY <1>1, <3>1, <3>3, <3>4
      <3>6. Justified(First(Inner(s)[k]), seen, done)
        BY <3>5 DEF AllJustified
      <3> QED
        BY <3>3, <3>6 DEF Justified, Begins
    <2> QED
      BY <2>2, <2>3, <2>4, <2>5, Nodes
  <1>2. \A s \in Statements : (\A t \in Statements : t < s => t \in G) => s \in G
    BY <1>1
  <1>3. Statements \subseteq G
    <2> HIDE DEF G
    <2> QED
      BY <1>2, BottomUp
  <1> QED
    BY <1>3

\* A statement that has ended began as its place in the tree allows.
LEMMA Began ==
    ASSUME TreeInv, GraphInv, NEW seen, NEW done, AllJustified(seen, done),
           NEW s \in Statements, NEW i \in DOMAIN Inner(s), Last(Inner(s)[i]) \in seen
    PROVE  Begins(s, i, seen, done)
  <1>1. Inner(s)[i] \in Statements
    BY DEF TreeInv, Shape
  <1>2. Justified(First(Inner(s)[i]), seen, done)
    BY <1>1, LastThenFirst DEF AllJustified
  <1> QED
    BY <1>2 DEF Justified

\* The edge from a visited node leads to a node that may be walked to.
LEMMA JustifiedNext ==
    ASSUME TreeInv, GraphInv, Built, NEW seen, NEW done, AllJustified(seen, done),
           NEW n \in done, ~Returns(n), n \in DOMAIN next
    PROVE  Justified(next[n], seen, done)
  <1> PICK m : m = next[n]
    OBVIOUS
  <1>1. n \in seen
    BY DEF AllJustified
  <1>2. ASSUME NEW s \in Statements, EdgeOf(s, n, m) PROVE Justified(m, seen, done)
    <2>1. /\ Inner(s) \in Seq(Nat) /\ \A i \in DOMAIN Inner(s) : Inner(s)[i] \in Statements
          /\ Kind(s) \in {"if", "loop"} => Len(Inner(s)) = 1
          /\ Kind(s) = "ifelse" => Len(Inner(s)) = 2
      BY DEF TreeInv, Shape
    <2>2. CASE Kind(s) \in Branching /\ n = In(s) /\ m = Expr(s)
      BY <1>1, <2>2, JustifiedExpr
    <2>3. ASSUME Kind(s) \in {"if", "ifelse"}, m = Out(s), NEW i \in DOMAIN Inner(s), n = Last(Inner(s)[i])
          PROVE  Justified(m, seen, done)
      <3>1. In(s) \in seen
        BY <1>1, <2>3, Began, Nodes DEF Begins, Branching
      <3>2. Kind(s) = "ifelse" => i \in {1, 2}
        BY <2>1
      <3>3. Ends(s, done)
        BY <2>3, <3>2 DEF Ends, Finished
      <3> QED
        BY <2>3, <3>1, <3>3, JustifiedOut DEF Branching
    <2>4. CASE Kind(s) = "loop" /\ m = Expr(s) /\ n = Last(Inner(s)[1])
      <3>1. 1 \in DOMAIN Inner(s)
        BY <2>1, <2>4
      <3>2. In(s) \in seen
        BY <1>1, <2>4, <3>1, Began, Nodes DEF Begins, Branching
      <3> QED
        BY <2>4, <3>2, JustifiedExpr DEF Branching
    <2>5. CASE Kind(s) = "block" /\ Len(Inner(s)) > 0 /\ n = Stmt(s) /\ m = First(Inner(s)[1])
      <3>1. 1 \in DOMAIN Inner(s)
        BY <2>1, <2>5
      <3>2. Begins(s, 1, seen, done)
        BY <1>1, <2>5, Nodes DEF Begins, Branching
      <3> QED
        BY <2>5, <3>1, <3>2, JustifiedFirst
    <2>6. CASE Kind(s) = "block" /\ Follows(Inner(s), n, m)
      <3>1. PICK i \in 1..(Len(Inner(s)) - 1) : n = Last(Inner(s)[i]) /\ m = First(Inner(s)[i + 1])
        BY <2>6 DEF Follows
      <3>2. Len(Inner(s)) \in Nat /\ DOMAIN Inner(s) = 1..Len(Inner(s))
        BY <2>1
      <3>3. i \in DOMAIN Inner(s) /\ i + 1 \in DOMAIN Inner(s) /\ (i + 1) - 1 = i
        BY <3>2
      <3>4. First(s) \in seen
        BY <1>1, <3>1, <3>3, Began DEF Begins
      <3>5. Finished(Inner(s)[i], done)
        BY <3>1 DEF Finished
      <3>6. Begins(s, i + 1, seen, done)
        BY <2>6, <3>3, <3>4, <3>5 DEF Begins
      <3> QED
        BY <3>1, <3>3, <3>6, JustifiedFirst
    <2> QED
      BY <1>2, <2>2, <2>3, <2>4, <2>5, <2>6 DEF EdgeOf
  <1>3. ASSUME Follows(open, n, m) PROVE Justified(m, seen, done)
    <2>1. PICK i \in 1..(Len(open) - 1) : n = Last(open[i]) /\ m = First(open[i + 1])
      BY <1>3 DEF Follows
    <2>2. Len(open) \in Nat /\ DOMAIN open = 1..Len(open)
      BY DEF TreeInv
    <2>3. i + 1 \in DOMAIN open /\ (i + 1) - 1 = i
      BY <2>2
    <2>4. Finished(open[i], done)
      BY <2>1 DEF Finished
    <2> QED
      BY <2>1, <2>3, <2>4, JustifiedOpen
  <1> QED
    BY <1>2, <1>3 DEF Built

LeadsOn(list, seen, done) ==
    /\ \E S : list \in Seq(S)
    /\ \A i \in DOMAIN list : Justified(list[i], seen, done)

\* A condition that leads one way.
LEMMA LeadsToOne ==
    ASSUME NEW a, NEW seen, NEW done, Justified(a, seen, done) PROVE LeadsOn(<<a>>, seen, done)
  <1>1. <<a>> \in Seq({a}) /\ DOMAIN <<a>> = {1} /\ <<a>>[1] = a
    OBVIOUS
  <1> PICK list : list = <<a>>
    OBVIOUS
  <1> QED
    BY <1>1 DEF LeadsOn

\* A condition that leads two ways.
LEMMA LeadsToTwo ==
    ASSUME NEW a, NEW b, NEW seen, NEW done, Justified(a, seen, done), Justified(b, seen, done)
    PROVE  LeadsOn(<<a, b>>, seen, done)
  <1>1. <<a, b>> \in Seq({a, b}) /\ DOMAIN <<a, b>> = {1, 2} /\ <<a, b>>[1] = a /\ <<a, b>>[2] = b
    OBVIOUS
  <1> PICK list : list = <<a, b>>
    OBVIOUS
  <1> QED
    BY <1>1 DEF LeadsOn

\* A condition leads to a statement inside or out of the statement it belongs to.
LEMMA JustifiedBranch ==
    ASSUME TreeInv, GraphInv, NEW seen, NEW done, AllJustified(seen, done),
           NEW n \in seen, n[1] = "expression"
    PROVE  LeadsOn(Branches(n), seen, done)
  <1>1. Justified(n, seen, done)
    BY DEF AllJustified
  <1>2. PICK s \in Statements : Kind(s) \in Branching /\ n = Expr(s)
    BY <1>1 DEF Justified, Known, NodeOf, EmptyBody, In, Out, Stmt, Expr
  <1>3. n[2] = s /\ In(s) \in seen /\ First(s) = In(s)
    BY <1>1, <1>2, Nodes DEF Expr, Justified
  <1>4. /\ Inner(s) \in Seq(Nat) /\ \A i \in DOMAIN Inner(s) : Inner(s)[i] \in Statements
        /\ Kind(s) \in {"if", "loop"} => Len(Inner(s)) = 1
        /\ Kind(s) = "ifelse" => Len(Inner(s)) = 2
    BY DEF TreeInv, Shape
  <1>5. Wired(s) /\ syntax[s].cond \in Outcomes
    BY Nodes DEF GraphInv
  <1>6. syntax[s].cond.folded \in {"none", "true", "false", "varying"}
    BY <1>5 DEF Outcomes, NoCondition, Plain
  <1>7. PICK a, b, o : a = First(Inner(s)[1]) /\ b = First(Inner(s)[2]) /\ o = Out(s)
    OBVIOUS
  <1>8. CASE Kind(s) = "if"
    <2>1. Branches(n) = <<a, o>>
      BY <1>2, <1>3, <1>5, <1>7, <1>8 DEF Branches, Kind, Wired
    <2>2. Justified(a, seen, done)
      BY <1>3, <1>4, <1>7, <1>8, JustifiedFirst DEF Begins
    <2>3. Justified(o, seen, done)
      BY <1>2, <1>3, <1>7, <1>8, JustifiedOut DEF Ends
    <2> QED
      BY <2>1, <2>2, <2>3, LeadsToTwo
  <1>9. CASE Kind(s) = "ifelse"
    <2>1. Branches(n) = <<a, b>>
      BY <1>2, <1>3, <1>5, <1>7, <1>9 DEF Branches, Kind, Wired
    <2>2. Justified(a, seen, done) /\ Justified(b, seen, done)
      BY <1>3, <1>4, <1>7, <1>9, JustifiedFirst DEF Begins
    <2> QED
      BY <2>1, <2>2, LeadsToTwo
  <1>10. CASE Kind(s) = "loop"
    <2>1. branch[n] = <<a, o>>
      BY <1>2, <1>5, <1>7, <1>10 DEF Wired
    <2>2. syntax[s].cond.folded # "false" => Justified(a, seen, done)
      BY <1>3, <1>4, <1>7, <1>10, JustifiedFirst DEF Begins
    <2>3. syntax[s].cond.folded \in {"false", "varying"} => Justified(o, seen, done)
      BY <1>2, <1>3, <1>7, <1>10, JustifiedOut DEF Ends
    <2>4. CASE syntax[s].cond.folded \in {"none", "true"}
      <3>1. Branches(n) = <<a>>
        BY <1>3, <1>10, <2>1, <2>4 DEF Branches, Kind
      <3> QED
        BY <2>2, <2>4, <3>1, LeadsToOne
    <2>5. CASE syntax[s].cond.folded = "false"
      <3>1. Branches(n) = <<o>>
        BY <1>3, <1>10, <2>1, <2>5 DEF Branches, Kind
      <3> QED
        BY <2>3, <2>5, <3>1, LeadsToOne
    <2>6. CASE syntax[s].cond.folded = "varying"
      <3>1. Branches(n) = <<a, o>>
        BY <1>3, <1>10, <2>1, <2>6 DEF Branches, Kind
      <3> QED
        BY <2>2, <2>3, <2>6, <3>1, LeadsToTwo
    <2> QED
      BY <1>6, <2>4, <2>5, <2>6
  <1> QED
    BY <1>2, <1>8, <1>9, <1>10 DEF Branching

-----------------------------------------------------------------------------
(* What the walk leaves behind.                                            *)

\* Induction from the end of a list to its beginning.
LEMMA DownTo ==
    ASSUME NEW k \in Nat, NEW G, k \in G, \A i \in 1..(k - 1) : i + 1 \in G => i \in G
    PROVE  1..k \subseteq G
  <1> DEFINE Good == {m \in Nat : \A i \in 1..k : k - i <= m => i \in G}
  <1>1. 0 \in Good
    <2> SUFFICES ASSUME NEW i \in 1..k, k - i <= 0 PROVE i \in G
      OBVIOUS
    <2>1. i = k
      OBVIOUS
    <2> QED
      BY <2>1
  <1>2. ASSUME NEW m \in Nat, m \in Good PROVE m + 1 \in Good
    <2> SUFFICES ASSUME NEW i \in 1..k, k - i <= m + 1 PROVE i \in G
      OBVIOUS
    <2>1. CASE i = k
      BY <2>1
    <2>2. CASE i < k
      <3>1. i + 1 \in 1..k /\ k - (i + 1) <= m /\ i \in 1..(k - 1)
        BY <2>2
      <3> QED
        BY <1>2, <3>1
    <2> QED
      BY <2>1, <2>2
  <1>3. Nat \subseteq Good
    <2> HIDE DEF Good
    <2> QED
      BY <1>1, <1>2, Induct
  <1>4. \A i \in 1..k : k - i <= k
    OBVIOUS
  <1> QED
    BY <1>3, <1>4

\* Induction from the beginning of a list to its end.
LEMMA UpTo ==
    ASSUME NEW k \in Nat, NEW G, 1 \in G, \A i \in 1..(k - 1) : i \in G => i + 1 \in G
    PROVE  1..k \subseteq G
  <1> DEFINE Good == {m \in Nat : \A i \in 1..k : i <= m + 1 => i \in G}
  <1>1. 0 \in Good
    OBVIOUS
  <1>2. ASSUME NEW m \in Nat, m \in Good PROVE m + 1 \in Good
    <2> SUFFICES ASSUME NEW i \in 1..k, i <= (m + 1) + 1 PROVE i \in G
      OBVIOUS
    <2>1. CASE i = 1
      BY <2>1
    <2>2. CASE i > 1
      <3>1. i - 1 \in 1..(k - 1) /\ i - 1 <= m + 1 /\ i - 1 \in 1..k /\ (i - 1) + 1 = i
        BY <2>2
      <3> QED
        BY <1>2, <3>1
    <2> QED
      BY <2>1, <2>2
  <1>3. Nat \subseteq Good
    <2> HIDE DEF Good
    <2> QED
      BY <1>1, <1>2, Induct
  <1> QED
    BY <1>3

\* A block that has ended has ended every statement in it.
LEMMA BlockFinished ==
    ASSUME TreeInv, GraphInv, NEW seen, NEW done, AllJustified(seen, done),
           NEW s \in Statements, Kind(s) = "block", Finished(s, done)
    PROVE  \A i \in DOMAIN Inner(s) : Finished(Inner(s)[i], done)
  <1>1. Inner(s) \in Seq(Nat) /\ Wired(s)
    BY DEF TreeInv, Shape, GraphInv
  <1>2. PICK k \in Nat : k = Len(Inner(s)) /\ DOMAIN Inner(s) = 1..k
    BY <1>1
  <1>3. CASE k = 0
    BY <1>2, <1>3
  <1>4. CASE k > 0
    <2> DEFINE G == {i \in 1..k : Finished(Inner(s)[i], done)}
    <2>1. k \in G
      <3>1. Last(s) = Last(Inner(s)[k])
        BY <1>1, <1>2, <1>4 DEF Wired
      <3> QED
        BY <1>4, <3>1 DEF Finished
    <2>2. ASSUME NEW i \in 1..(k - 1), i + 1 \in G PROVE i \in G
      <3>1. i + 1 \in DOMAIN Inner(s) /\ i + 1 > 1 /\ (i + 1) - 1 = i /\ i \in 1..k
        BY <1>2
      <3>2. Last(Inner(s)[i + 1]) \in seen
        BY <2>2 DEF Finished, AllJustified
      <3> QED
        BY <3>1, <3>2, Began DEF Begins
    <2>3. 1..k \subseteq G
      <3> HIDE DEF G
      <3> QED
        BY <2>1, <2>2, DownTo
    <2> QED
      BY <1>2, <2>3
  <1> QED
    BY <1>3, <1>4

\* The same of the body: if its last statement has ended so have all.
LEMMA BodyFinished ==
    ASSUME TreeInv, GraphInv, NEW seen, NEW done, AllJustified(seen, done),
           Len(open) > 0, Finished(open[Len(open)], done)
    PROVE  \A i \in DOMAIN open : Finished(open[i], done)
  <1>1. PICK k \in Nat : k = Len(open) /\ DOMAIN open = 1..k
    BY DEF TreeInv
  <1> DEFINE G == {i \in 1..k : Finished(open[i], done)}
  <1>2. k \in G
    BY <1>1
  <1>3. ASSUME NEW i \in 1..(k - 1), i + 1 \in G PROVE i \in G
    <2>1. i + 1 \in DOMAIN open /\ i + 1 > 1 /\ (i + 1) - 1 = i /\ i \in 1..k
      BY <1>1
    <2>2. Last(open[i + 1]) \in seen /\ open[i + 1] \in Statements
      BY <1>3, <2>1 DEF Finished, AllJustified, TreeInv
    <2>3. Justified(First(open[i + 1]), seen, done)
      BY <2>2, LastThenFirst DEF AllJustified
    <2> QED
      BY <2>1, <2>3 DEF Justified
  <1>4. 1..k \subseteq G
    <2> HIDE DEF G
    <2> QED
      BY <1>2, <1>3, DownTo
  <1> QED
    BY <1>1, <1>4

\* What the walk folds a condition to says whether Java may take it as true and as false.
LEMMA Conditions ==
    ASSUME TreeInv, NEW s \in Statements
    PROVE  /\ syntax[s].cond.java # "true" <=> syntax[s].cond.folded \in {"false", "varying"}
           /\ syntax[s].cond.java # "false" <=> syntax[s].cond.folded # "false"
  BY SMTT(30) DEF TreeInv, Shape, Outcomes, NoCondition, Plain

\* Only a statement the language lets complete is left by the walk.
LEMMA FinishedCompletes ==
    ASSUME TreeInv, GraphInv, NEW seen, NEW done, AllJustified(seen, done)
    PROVE  \A s \in Statements : Finished(s, done) => CanComplete[s]
  <1> DEFINE G == {s \in Statements : Finished(s, done) => CanComplete[s]}
  <1>1. ASSUME NEW s \in Statements, \A t \in Statements : t < s => t \in G, Finished(s, done)
        PROVE  CanComplete[s]
    <2>1. CanComplete[s] = Completes(CanComplete, s)
      BY Completion
    <2>2. /\ \A i \in DOMAIN Inner(s) : Inner(s)[i] \in Statements /\ Inner(s)[i] < s
          /\ Kind(s) = "ifelse" => DOMAIN Inner(s) = {1, 2}
      BY DEF TreeInv, Shape
    <2>3. CASE Kind(s) \in {"simple", "if"}
      BY <2>1, <2>3 DEF Completes
    <2>4. CASE Kind(s) = "return"
      <3>1. Returns(Stmt(s)) /\ Last(s) = Stmt(s)
        BY <2>4, Nodes DEF Returns, Stmt
      <3> QED
        BY <1>1, <3>1 DEF Finished
    <2>5. CASE Kind(s) = "block"
      <3>1. \A i \in DOMAIN Inner(s) : Finished(Inner(s)[i], done)
        BY <1>1, <2>5, BlockFinished
      <3>2. \A i \in DOMAIN Inner(s) : CanComplete[Inner(s)[i]]
        BY <1>1, <2>2, <3>1
      <3> QED
        BY <2>1, <2>5, <3>2 DEF Completes, Inner
    <2>6. CASE Kind(s) \in {"ifelse", "loop"}
      <3>1. Last(s) = Out(s) /\ Last(s) \in seen
        BY <1>1, <2>6, Nodes DEF Branching, Finished, AllJustified
      <3>2. Ends(s, done)
        BY <2>6, <3>1 DEF AllJustified, Justified, Branching
      <3>3. CASE Kind(s) = "ifelse"
        <4>1. PICK i \in {1, 2} : Finished(Inner(s)[i], done)
          BY <3>2, <3>3 DEF Ends
        <4>2. CanComplete[Inner(s)[i]]
          BY <1>1, <2>2, <3>3, <4>1
        <4> QED
          BY <2>1, <3>3, <4>2 DEF Completes, Inner
      <3>4. CASE Kind(s) = "loop"
        <4>1. syntax[s].cond.java # "true"
          BY <3>2, <3>4, Conditions DEF Ends
        <4> QED
          BY <2>1, <3>4, <4>1 DEF Completes
      <3> QED
        BY <2>6, <3>3, <3>4
    <2> QED
      BY <2>3, <2>4, <2>5, <2>6, Nodes DEF Branching
  <1>2. \A s \in Statements : (\A t \in Statements : t < s => t \in G) => s \in G
    BY <1>1
  <1>3. Statements \subseteq G
    <2> HIDE DEF G
    <2> QED
      BY <1>2, BottomUp
  <1> QED
    BY <1>3

\* Where the walk goes from a node it visits.
Closed(n, seen) ==
    /\ n[1] = "expression" => \A i \in DOMAIN Branches(n) : Branches(n)[i] \in seen
    /\ n[1] # "expression" /\ ~Returns(n) /\ n \in DOMAIN next => next[n] \in seen
AllClosed(done) == \A n \in done : Closed(n, done)

\* A branching statement the walk has entered is walked through as its condition allows.
LEMMA Entered ==
    ASSUME TreeInv, GraphInv, NEW done, AllClosed(done),
           NEW s \in Statements, Kind(s) \in Branching, In(s) \in done
    PROVE  /\ Expr(s) \in done
           /\ Kind(s) \in {"if", "ifelse"} => First(Inner(s)[1]) \in done
           /\ Kind(s) = "ifelse" => First(Inner(s)[2]) \in done
           /\ Kind(s) = "if" => Out(s) \in done
           /\ Kind(s) = "loop" /\ syntax[s].cond.folded # "false" => First(Inner(s)[1]) \in done
           /\ Kind(s) = "loop" /\ syntax[s].cond.folded \in {"false", "varying"} => Out(s) \in done
  <1>1. Wired(s) /\ syntax[s].cond \in Outcomes
    BY Nodes DEF GraphInv
  <1>2. In(s)[1] = "in" /\ In(s)[2] = s /\ Expr(s)[1] = "expression" /\ Expr(s)[2] = s
    BY DEF In, Expr
  <1>3. ~Returns(In(s))
    BY <1>2 DEF Returns, Branching
  <1>4. Expr(s) \in done
    BY <1>1, <1>2, <1>3 DEF AllClosed, Closed, Wired, Leads
  <1>5. \A i \in DOMAIN Branches(Expr(s)) : Branches(Expr(s))[i] \in done
    BY <1>2, <1>4 DEF AllClosed, Closed
  <1>6. syntax[s].cond.folded \in {"none", "true", "false", "varying"}
    BY <1>1 DEF Outcomes, NoCondition, Plain
  <1>7. CASE Kind(s) = "if"
    <2>1. Branches(Expr(s)) = <<First(Inner(s)[1]), Out(s)>>
      BY <1>1, <1>2, <1>7 DEF Branches, Kind, Wired
    <2> QED
      BY <1>4, <1>5, <1>7, <2>1
  <1>8. CASE Kind(s) = "ifelse"
    <2>1. Branches(Expr(s)) = <<First(Inner(s)[1]), First(Inner(s)[2])>>
      BY <1>1, <1>2, <1>8 DEF Branches, Kind, Wired
    <2> QED
      BY <1>4, <1>5, <1>8, <2>1
  <1>9. CASE Kind(s) = "loop"
    <2>1. branch[Expr(s)] = <<First(Inner(s)[1]), Out(s)>>
      BY <1>1, <1>9 DEF Wired
    <2>2. CASE syntax[s].cond.folded \in {"none", "true"}
      <3>1. Branches(Expr(s)) = <<First(Inner(s)[1])>>
        BY <1>2, <1>9, <2>1, <2>2 DEF Branches, Kind
      <3> QED
        BY <1>4, <1>5, <1>9, <2>2, <3>1
    <2>3. CASE syntax[s].cond.folded = "false"
      <3>1. Branches(Expr(s)) = <<Out(s)>>
        BY <1>2, <1>9, <2>1, <2>3 DEF Branches, Kind
      <3> QED
        BY <1>4, <1>5, <1>9, <2>3, <3>1
    <2>4. CASE syntax[s].cond.folded = "varying"
      <3>1. Branches(Expr(s)) = <<First(Inner(s)[1]), Out(s)>>
        BY <1>2, <1>9, <2>1, <2>4 DEF Branches, Kind
      <3> QED
        BY <1>4, <1>5, <1>9, <2>4, <3>1
    <2> QED
      BY <1>6, <2>2, <2>3, <2>4
  <1> QED
    BY <1>7, <1>8, <1>9 DEF Branching

\* Along a list whose statements end once entered, every statement is entered.
LEMMA ChainReached ==
    ASSUME TreeInv, GraphInv, NEW done, AllClosed(done), NEW list, NEW k \in Nat, Len(list) = k, k > 0,
           Chained(list), \A i \in 1..k : list[i] \in Statements, First(list[1]) \in done,
           \A i \in 1..(k - 1) : First(list[i]) \in done => Finished(list[i], done)
    PROVE  \A i \in 1..k : First(list[i]) \in done
  <1> DEFINE G == {i \in 1..k : First(list[i]) \in done}
  <1>1. 1 \in G
    OBVIOUS
  <1>2. ASSUME NEW i \in 1..(k - 1), i \in G PROVE i + 1 \in G
    <2>1. i \in 1..k /\ i + 1 \in 1..k
      OBVIOUS
    <2>2. Finished(list[i], done) /\ EndIn(list[i])
      BY <1>2, <2>1 DEF GraphInv
    <2>3. Closed(Last(list[i]), done)
      BY <2>2 DEF Finished, AllClosed
    <2>4. Leads(Last(list[i]), First(list[i + 1]))
      BY DEF Chained
    <2> QED
      BY <2>1, <2>2, <2>3, <2>4 DEF Closed, Leads, EndIn, Finished
  <1>3. 1..k \subseteq G
    <2> HIDE DEF G
    <2> QED
      BY <1>1, <1>2, UpTo
  <1> QED
    BY <1>3

\* The walk leaves every statement it enters that the language lets complete.
LEMMA CompletesFinished ==
    ASSUME TreeInv, GraphInv, NEW done, AllClosed(done)
    PROVE  \A s \in Statements : First(s) \in done /\ CanComplete[s] => Finished(s, done)
  <1> DEFINE G == {s \in Statements : First(s) \in done /\ CanComplete[s] => Finished(s, done)}
  <1>1. ASSUME NEW s \in Statements, \A t \in Statements : t < s => t \in G,
               First(s) \in done, CanComplete[s]
        PROVE  Finished(s, done)
    <2>1. Completes(CanComplete, s)
      BY <1>1, Completion
    <2>2. /\ \A i \in DOMAIN Inner(s) : Inner(s)[i] \in Statements /\ Inner(s)[i] < s
          /\ Inner(s) \in Seq(Nat)
          /\ Kind(s) \in {"if", "loop"} => DOMAIN Inner(s) = {1}
          /\ Kind(s) = "ifelse" => DOMAIN Inner(s) = {1, 2}
          /\ Wired(s)
      BY DEF TreeInv, Shape, GraphInv
    <2>3. Stmt(s)[2] = s /\ Stmt(s)[1] = "statement" /\ Out(s)[2] = s /\ Out(s)[1] = "out"
      BY DEF Stmt, Out
    <2>4. CASE Kind(s) = "simple"
      BY <1>1, <2>3, <2>4, Nodes DEF Finished, Returns, Branching
    <2>5. CASE Kind(s) = "return"
      BY <2>1, <2>5 DEF Completes
    <2>6. CASE Kind(s) = "block"
      <3>0. First(s) = Stmt(s) /\ ~Returns(Stmt(s))
        BY <2>3, <2>6, Nodes DEF Branching, Returns
      <3>1. PICK k \in Nat : k = Len(Inner(s)) /\ DOMAIN Inner(s) = 1..k
        BY <2>2
      <3>2. CASE k = 0
        BY <1>1, <2>2, <2>6, <3>0, <3>1, <3>2 DEF Wired, Finished
      <3>3. CASE k > 0
        <4>1. Leads(Stmt(s), First(Inner(s)[1])) /\ Last(s) = Last(Inner(s)[k]) /\ Chained(Inner(s))
          BY <2>2, <2>6, <3>1, <3>3 DEF Wired
        <4>2. First(Inner(s)[1]) \in done
          BY <1>1, <2>3, <3>0, <4>1 DEF AllClosed, Closed, Leads
        <4>3. \A i \in 1..k : First(Inner(s)[i]) \in done => Finished(Inner(s)[i], done)
          BY <1>1, <2>1, <2>2, <2>6, <3>1 DEF Completes, Inner
        <4>4. \A i \in 1..k : First(Inner(s)[i]) \in done
          <5>1. \A i \in 1..(k - 1) : First(Inner(s)[i]) \in done => Finished(Inner(s)[i], done)
            BY <4>3
          <5> QED
            BY <2>2, <3>1, <3>3, <4>1, <4>2, <5>1, ChainReached
        <4> QED
          BY <3>3, <4>1, <4>3, <4>4 DEF Finished
      <3> QED
        BY <3>1, <3>2, <3>3
    <2>7. CASE Kind(s) \in Branching
      <3>1. First(s) = In(s) /\ Last(s) = Out(s) /\ ~Returns(Out(s))
        BY <2>3, <2>7, Nodes DEF Returns, Branching
      <3>2. CASE Kind(s) = "if"
        BY <1>1, <2>7, <3>1, <3>2, Entered DEF Finished
      <3>3. CASE Kind(s) = "loop"
        <4>1. syntax[s].cond.java # "true"
          BY <2>1, <3>3 DEF Completes
        <4> QED
          BY <1>1, <2>7, <3>1, <3>3, <4>1, Conditions, Entered DEF Finished
      <3>4. CASE Kind(s) = "ifelse"
        <4>1. PICK i \in {1, 2} : CanComplete[Inner(s)[i]]
          BY <2>1, <3>4 DEF Completes, Inner
        <4>2. First(Inner(s)[i]) \in done
          BY <1>1, <2>7, <3>1, <3>4, Entered
        <4>3. Finished(Inner(s)[i], done) /\ EndIn(Inner(s)[i])
          BY <1>1, <2>2, <3>4, <4>1, <4>2 DEF GraphInv
        <4>4. Leads(Last(Inner(s)[i]), Out(s))
          BY <2>2, <3>4 DEF Wired
        <4>5. Closed(Last(Inner(s)[i]), done)
          BY <4>3 DEF Finished, AllClosed
        <4> QED
          BY <3>1, <4>3, <4>4, <4>5 DEF Finished, Closed, Leads, EndIn
      <3> QED
        BY <2>7, <3>2, <3>3, <3>4 DEF Branching
    <2> QED
      BY <2>4, <2>5, <2>6, <2>7, Nodes
  <1>2. \A s \in Statements : (\A t \in Statements : t < s => t \in G) => s \in G
    BY <1>1
  <1>3. Statements \subseteq G
    <2> HIDE DEF G
    <2> QED
      BY <1>2, BottomUp
  <1> QED
    BY <1>3

Start == IF open = <<>> THEN EmptyBody ELSE First(open[1])
ReachedBy(done) == {n[2] : n \in {m \in done : m[1] \notin {"in", "out"}}} \ {0}

\* So it is along the body of a method in which no statement follows one that cannot
\* complete.
LEMMA OpenReached ==
    ASSUME TreeInv, GraphInv, Built, NEW done, AllClosed(done), Start \in done, InOrder(open)
    PROVE  \A i \in DOMAIN open : First(open[i]) \in done
  <1>1. PICK k \in Nat : k = Len(open) /\ DOMAIN open = 1..k
    BY DEF TreeInv
  <1>2. \A i \in 1..k : open[i] \in Statements
    BY <1>1 DEF TreeInv
  <1>3. CASE k > 0
    <2>1. open # <<>>
      BY <1>1, <1>3
    <2>2. First(open[1]) \in done
      BY <2>1 DEF Start
    <2>3. \A i \in 1..(k - 1) : First(open[i]) \in done => Finished(open[i], done)
      BY <1>1, <1>2, CompletesFinished DEF InOrder
    <2> QED
      BY <1>1, <1>2, <1>3, <2>2, <2>3, ChainReached DEF Built
  <1> QED
    BY <1>1, <1>3

\* The walk of a legal method enters every statement.
LEMMA AllReached ==
    ASSUME TreeInv, GraphInv, Built, NEW done, AllClosed(done), Start \in done, Legal
    PROVE  \A s \in Statements : First(s) \in done
  <1> DEFINE G == {s \in Statements : First(s) \in done}
  <1>1. ASSUME NEW s \in Statements, \A t \in Statements : s < t => t \in G PROVE First(s) \in done
    <2>1. CASE \E i \in DOMAIN open : open[i] = s
      BY <2>1, OpenReached DEF Legal
    <2>2. ASSUME NEW t \in Statements, NEW i \in DOMAIN Inner(t), Inner(t)[i] = s PROVE First(s) \in done
      <3>1. /\ \A j \in DOMAIN Inner(t) : Inner(t)[j] \in Statements /\ Inner(t)[j] < t
            /\ Inner(t) \in Seq(Nat)
            /\ Kind(t) \in {"simple", "return"} => DOMAIN Inner(t) = {}
            /\ Kind(t) \in {"if", "loop"} => DOMAIN Inner(t) = {1}
            /\ Kind(t) = "ifelse" => DOMAIN Inner(t) = {1, 2}
            /\ Wired(t)
        BY DEF TreeInv, Shape, GraphInv
      <3>2. First(t) \in done
        BY <1>1, <2>2, <3>1
      <3>3. CASE Kind(t) \in Branching
        <4>1. In(t) \in done
          BY <3>2, <3>3, Nodes
        <4>2. Kind(t) = "loop" => syntax[t].cond.folded # "false"
          BY Conditions DEF Legal
        <4> QED
          BY <2>2, <3>1, <3>3, <4>1, <4>2, Entered DEF Branching
      <3>4. CASE Kind(t) = "block"
        <4>1. PICK k \in Nat : k = Len(Inner(t)) /\ DOMAIN Inner(t) = 1..k
          BY <3>1
        <4>2. k > 0
          BY <4>1
        <4>3. Leads(Stmt(t), First(Inner(t)[1])) /\ Chained(Inner(t))
          BY <3>1, <3>4, <4>1, <4>2 DEF Wired
        <4>4. First(t) = Stmt(t) /\ Stmt(t)[1] = "statement" /\ ~Returns(Stmt(t))
          BY <3>4, Nodes DEF Stmt, Returns, Branching
        <4>5. First(Inner(t)[1]) \in done
          BY <3>2, <4>3, <4>4 DEF AllClosed, Closed, Leads
        <4>6. \A j \in 1..(k - 1) : CanComplete[Inner(t)[j]]
          BY <3>4, <4>1 DEF Legal, InOrder, Inner
        <4>7. \A j \in 1..(k - 1) : First(Inner(t)[j]) \in done => Finished(Inner(t)[j], done)
          BY <3>1, <4>1, <4>6, CompletesFinished
        <4>8. \A j \in 1..k : First(Inner(t)[j]) \in done
          BY <3>1, <4>1, <4>2, <4>3, <4>5, <4>7, ChainReached
        <4> QED
          BY <2>2, <4>1, <4>8
      <3> QED
        BY <3>1, <3>3, <3>4, Nodes DEF Branching
    <2> QED
      BY <2>1, <2>2 DEF TreeInv, Placed
  <1>2. \A s \in Statements : (\A t \in Statements : s < t => t \in G) => s \in G
    BY <1>1
  <1>3. Statements \subseteq G
    <2> HIDE DEF G
    <2> QED
      BY <1>2, TopDown
  <1> QED
    BY <1>3

\* A finished walk that did not reach every statement shows that the method is not legal.
LEMMA NotAllReached ==
    ASSUME TreeInv, GraphInv, Built, NEW done, AllClosed(done), Start \in done,
           ~(Statements \subseteq ReachedBy(done))
    PROVE  ~Legal
  <1> SUFFICES ASSUME Legal, NEW s \in Statements PROVE s \in ReachedBy(done)
    OBVIOUS
  <1>1. First(s) \in done /\ s # 0
    BY AllReached, Nodes
  <1>2. CASE Kind(s) \in Branching
    <2>1. Expr(s) \in done
      BY <1>1, <1>2, Nodes, Entered
    <2>2. Expr(s)[1] \notin {"in", "out"} /\ Expr(s)[2] = s
      BY DEF Expr
    <2> QED
      BY <1>1, <2>1, <2>2 DEF ReachedBy
  <1>3. CASE Kind(s) \notin Branching
    <2>1. Stmt(s) \in done
      BY <1>1, <1>3, Nodes
    <2>2. Stmt(s)[1] \notin {"in", "out"} /\ Stmt(s)[2] = s
      BY DEF Stmt
    <2> QED
      BY <1>1, <2>1, <2>2 DEF ReachedBy
  <1> QED
    BY <1>2, <1>3

\* The end of the graph is the end of the body.
LEMMA EndReached ==
    ASSUME TreeInv, GraphInv, Built, NEW seen, NEW done, AllJustified(seen, done),
           NEW n \in done, n[1] # "expression", MustReturn(n)
    PROVE  ~Legal
  <1>1. ~void /\ ~Returns(n) /\ n \notin DOMAIN next
    BY DEF MustReturn
  <1>2. Known(n)
    BY DEF AllJustified, Justified
  <1>3. CASE Len(open) = 0
    <2>1. DOMAIN open = {}
      BY <1>3 DEF TreeInv
    <2> QED
      BY <1>1, <2>1 DEF Legal
  <1>4. CASE Len(open) # 0
    <2>1. PICK s \in Statements : NodeOf(s, n)
      BY <1>2, <1>4 DEF Known
    <2>2. Wired(s) /\ Inner(s) \in Seq(Nat)
      BY DEF GraphInv, TreeInv, Shape
    <2>3. n # Expr(s) /\ (Kind(s) \in Branching => n # In(s))
      BY <1>1, <2>2 DEF Expr, Wired, Leads
    <2>4. n = Last(s)
      <3>1. CASE Kind(s) \in Branching
        BY <2>1, <2>3, <3>1, Nodes DEF NodeOf
      <3>2. CASE Kind(s) \in {"simple", "return"}
        BY <2>1, <3>2, Nodes DEF NodeOf, Branching
      <3>3. CASE Kind(s) = "block"
        <4>1. n = Stmt(s)
          BY <2>1, <3>3 DEF NodeOf, Branching
        <4>2. ~(Len(Inner(s)) > 0)
          BY <1>1, <2>2, <3>3, <4>1 DEF Wired, Leads
        <4>3. Len(Inner(s)) = 0
          BY <2>2, <4>2
        <4> QED
          BY <2>2, <3>3, <4>1, <4>3 DEF Wired
      <3> QED
        BY <3>1, <3>2, <3>3, Nodes
    <2>5. Len(open) > 0 /\ n = Last(open[Len(open)])
      BY <1>1, <2>4 DEF Built, EndsDone
    <2>6. Finished(open[Len(open)], done)
      BY <1>1, <2>5 DEF Finished
    <2>7. \A i \in DOMAIN open : open[i] \in Statements /\ Finished(open[i], done)
      BY <2>5, <2>6, BodyFinished DEF TreeInv
    <2> QED
      BY <1>1, <2>7, FinishedCompletes DEF Legal
  <1> QED
    BY <1>3, <1>4

\* What both visitors accept is legal.
LEMMA AcceptedIsLegal ==
    ASSUME TreeInv, GraphInv, Built, NEW done, AllJustified(done, done), AllClosed(done), Start \in done,
           Statements \subseteq ReachedBy(done),
           \A n \in done : n[1] # "expression" => ~MustReturn(n)
    PROVE  Legal
  <1>1. ASSUME NEW s \in Statements PROVE First(s) \in done
    <2>1. PICK n \in done : n[1] \notin {"in", "out"} /\ n[2] = s
      BY DEF ReachedBy
    <2>2. Justified(n, done, done) /\ s # 0
      BY Nodes DEF AllJustified
    <2>3. PICK t \in Statements : NodeOf(t, n)
      BY <2>1, <2>2 DEF Justified, Known, EmptyBody
    <2>4. t = s /\ n # In(s) /\ n # Out(s)
      BY <2>1, <2>3 DEF NodeOf, In, Out, Expr, Stmt
    <2>5. CASE Kind(s) \in Branching
      BY <2>2, <2>3, <2>4, <2>5, Nodes DEF NodeOf, Justified
    <2>6. CASE Kind(s) \notin Branching
      BY <2>3, <2>4, <2>6, Nodes DEF NodeOf
    <2> QED
      BY <2>5, <2>6
  <1>2. \A s \in Statements : Justified(First(s), done, done)
    BY <1>1 DEF AllJustified
  <1>3. InOrder(open)
    <2> SUFFICES ASSUME NEW i \in 1..(Len(open) - 1) PROVE CanComplete[open[i]]
      BY DEF InOrder
    <2>1. i \in DOMAIN open /\ i + 1 \in DOMAIN open /\ i + 1 > 1 /\ (i + 1) - 1 = i
      BY DEF TreeInv
    <2>2. open[i] \in Statements /\ open[i + 1] \in Statements
      BY <2>1 DEF TreeInv
    <2>3. Finished(open[i], done)
      BY <1>2, <2>1, <2>2 DEF Justified
    <2> QED
      BY <2>2, <2>3, FinishedCompletes
  <1>4. ASSUME NEW s \in Statements, Kind(s) = "block" PROVE InOrder(Inner(s))
    <2> SUFFICES ASSUME NEW i \in 1..(Len(Inner(s)) - 1) PROVE CanComplete[Inner(s)[i]]
      BY DEF InOrder
    <2>0. Inner(s) \in Seq(Nat) /\ \A j \in DOMAIN Inner(s) : Inner(s)[j] \in Statements
      BY DEF TreeInv, Shape
    <2>1. i \in DOMAIN Inner(s) /\ i + 1 \in DOMAIN Inner(s) /\ i + 1 > 1 /\ (i + 1) - 1 = i
      BY <2>0
    <2>2. Begins(s, i + 1, done, done)
      BY <1>2, <2>0, <2>1 DEF Justified
    <2>3. Finished(Inner(s)[i], done)
      BY <1>4, <2>1, <2>2 DEF Begins
    <2> QED
      BY <2>0, <2>1, <2>3, FinishedCompletes
  <1>5. ASSUME NEW s \in Statements, Kind(s) = "loop" PROVE syntax[s].cond.java # "false"
    <2>1. 1 \in DOMAIN Inner(s) /\ Inner(s)[1] \in Statements
      BY <1>5 DEF TreeInv, Shape
    <2>2. Begins(s, 1, done, done)
      BY <1>2, <2>1 DEF Justified
    <2> QED
      BY <1>5, <2>2, Conditions DEF Begins
  <1>6. ASSUME ~void, \A i \in DOMAIN open : CanComplete[open[i]] PROVE FALSE
    <2>1. CASE Len(open) = 0
      <3>1. Start = EmptyBody
        BY <2>1 DEF Start, TreeInv
      <3>2. EmptyBody[2] = 0 /\ EmptyBody[1] # "expression"
        BY DEF EmptyBody
      <3>3. 0 \notin Statements
        BY Nodes
      <3>4. EmptyBody \notin DOMAIN next
        BY <3>2, <3>3 DEF GraphInv
      <3>5. MustReturn(EmptyBody)
        BY <1>6, <3>2, <3>3, <3>4 DEF MustReturn, Returns
      <3> QED
        BY <3>1, <3>2, <3>5
    <2>2. CASE Len(open) # 0
      <3>1. Len(open) > 0 /\ Len(open) \in DOMAIN open
        BY <2>2 DEF TreeInv
      <3>2. open[Len(open)] \in Statements
        BY <3>1 DEF TreeInv
      <3>3. Finished(open[Len(open)], done) /\ EndIn(open[Len(open)])
        BY <1>1, <1>6, <3>1, <3>2, CompletesFinished DEF GraphInv
      <3>4. Last(open[Len(open)]) \notin DOMAIN next
        BY <3>1 DEF Built
      <3> QED
        BY <1>6, <3>3, <3>4 DEF Finished, MustReturn, EndIn
    <2> QED
      BY <2>1, <2>2
  <1> QED
    BY <1>3, <1>4, <1>5, <1>6 DEF Legal, Inner

-----------------------------------------------------------------------------
(* The invariant of the walk.                                              *)

Elements(s) == {s[i] : i \in DOMAIN s}
Seen == visited \cup Elements(calls)

WalkInv ==
    /\ \E S : calls \in Seq(S)
    /\ AllJustified(Seen, visited)
    /\ Start \in Seen
    /\ \A n \in visited : Closed(n, Seen)
    /\ reached = ReachedBy(visited)
    /\ phase # "rejected" => \A n \in visited : n[1] # "expression" => ~MustReturn(n)
    /\ phase \in {"check", "run", "returned"} => calls = <<>>
    /\ phase \in {"run", "returned"} => Statements \subseteq reached
    /\ phase = "rejected" => \/ \E n \in visited : n[1] # "expression" /\ MustReturn(n)
                             \/ calls = <<>> /\ ~(Statements \subseteq reached)

\* The elements of a sequence are its head and those of its tail.
LEMMA HeadAndTail ==
    ASSUME NEW S, NEW s \in Seq(S), s # <<>>
    PROVE  /\ Elements(s) = {Head(s)} \cup Elements(Tail(s)) /\ Tail(s) \in Seq(S)
  <1>1. Len(s) > 0 /\ Len(Tail(s)) = Len(s) - 1 /\ Tail(s) \in Seq(S) /\ Head(s) = s[1]
        /\ \A i \in 1..(Len(s) - 1) : Tail(s)[i] = s[i + 1]
    OBVIOUS
  <1>2. DOMAIN s = 1..Len(s) /\ DOMAIN Tail(s) = 1..(Len(s) - 1) /\ Len(s) \in Nat
    BY <1>1
  <1>3. ASSUME NEW x \in Elements(s) PROVE x \in {Head(s)} \cup Elements(Tail(s))
    <2>1. PICK i \in 1..Len(s) : x = s[i]
      BY <1>2 DEF Elements
    <2>2. CASE i = 1
      BY <1>1, <2>1, <2>2
    <2>3. CASE i > 1
      <3>1. i - 1 \in 1..(Len(s) - 1) /\ (i - 1) + 1 = i
        BY <1>2, <2>3
      <3>2. Tail(s)[i - 1] = x
        BY <1>1, <2>1, <3>1
      <3> QED
        BY <1>2, <3>1, <3>2 DEF Elements
    <2> QED
      BY <1>2, <2>2, <2>3
  <1>4. ASSUME NEW x \in Elements(Tail(s)) PROVE x \in Elements(s)
    <2>1. PICK i \in 1..(Len(s) - 1) : x = Tail(s)[i]
      BY <1>2 DEF Elements
    <2>2. i + 1 \in 1..Len(s) /\ x = s[i + 1]
      BY <1>1, <1>2, <2>1
    <2> QED
      BY <1>2, <2>2 DEF Elements
  <1>5. Head(s) \in Elements(s)
    BY <1>1, <1>2 DEF Elements
  <1> QED
    BY <1>1, <1>3, <1>4, <1>5

\* The elements of two sequences put together.
LEMMA Joined ==
    ASSUME NEW S, NEW s \in Seq(S), NEW t \in Seq(S)
    PROVE  s \o t \in Seq(S) /\ Elements(s \o t) = Elements(s) \cup Elements(t)
  <1>1. /\ s \o t \in Seq(S) /\ DOMAIN (s \o t) = 1..(Len(s) + Len(t)) /\ Len(s) \in Nat /\ Len(t) \in Nat
        /\ DOMAIN s = 1..Len(s) /\ DOMAIN t = 1..Len(t)
        /\ \A i \in 1..Len(s) : (s \o t)[i] = s[i]
        /\ \A i \in 1..Len(t) : (s \o t)[Len(s) + i] = t[i]
    OBVIOUS
  <1>2. ASSUME NEW x \in Elements(s \o t) PROVE x \in Elements(s) \cup Elements(t)
    <2>1. PICK i \in 1..(Len(s) + Len(t)) : x = (s \o t)[i]
      BY <1>1 DEF Elements
    <2>2. CASE i \in 1..Len(s)
      BY <1>1, <2>1, <2>2 DEF Elements
    <2>3. CASE i > Len(s)
      <3>1. i - Len(s) \in 1..Len(t) /\ Len(s) + (i - Len(s)) = i
        BY <1>1, <2>3
      <3>2. x = t[i - Len(s)]
        BY <1>1, <2>1, <3>1
      <3> QED
        BY <1>1, <3>1, <3>2 DEF Elements
    <2> QED
      BY <1>1, <2>2, <2>3
  <1>3. ASSUME NEW x \in Elements(s) PROVE x \in Elements(s \o t)
    <2>1. PICK i \in 1..Len(s) : x = s[i]
      BY <1>1 DEF Elements
    <2>2. i \in 1..(Len(s) + Len(t)) /\ x = (s \o t)[i]
      BY <1>1, <2>1
    <2> QED
      BY <1>1, <2>2 DEF Elements
  <1>4. ASSUME NEW x \in Elements(t) PROVE x \in Elements(s \o t)
    <2>1. PICK i \in 1..Len(t) : x = t[i]
      BY <1>1 DEF Elements
    <2>2. Len(s) + i \in 1..(Len(s) + Len(t)) /\ x = (s \o t)[Len(s) + i]
      BY <1>1, <2>1
    <2> QED
      BY <1>1, <2>2 DEF Elements
  <1> QED
    BY <1>1, <1>2, <1>3, <1>4

\* Sequences of any kinds have a set that both are over.
LEMMA JoinedAny ==
    ASSUME NEW s, NEW t, \E S : s \in Seq(S), \E T : t \in Seq(T)
    PROVE  (\E S : s \o t \in Seq(S)) /\ Elements(s \o t) = Elements(s) \cup Elements(t)
  <1>1. PICK S : s \in Seq(S)
    OBVIOUS
  <1>2. PICK T : t \in Seq(T)
    OBVIOUS
  <1>3. s \in Seq(S \cup T) /\ t \in Seq(S \cup T)
    BY <1>1, <1>2
  <1> QED
    BY <1>3, Joined

\* The method itself is not changed by the walk.
LEMMA MethodStays ==
    ASSUME UNCHANGED <<treeVars, graphVars>>, NEW seen, NEW done
    PROVE  /\ AllJustified(seen, done) => AllJustified(seen, done)'
           /\ Start' = Start /\ Statements' = Statements
           /\ ReachedBy(done)' = ReachedBy(done)
           /\ \A n : Closed(n, seen) => Closed(n, seen)'
           /\ \A n : MustReturn(n)' <=> MustReturn(n)
  <1>1. AllJustified(seen, done) => AllJustified(seen, done)'
    BY JustifiedStays DEF AllJustified, graphVars
  <1> QED
    BY <1>1 DEF treeVars, graphVars, Start, Statements, ReachedBy, Closed, Branches, Returns, MustReturn, Kind, First

\* A visit keeps the invariant of the walk if every node it leads to has its reason.
LEMMA VisitNext ==
    ASSUME TreeInv, GraphInv, Built, WalkInv, NEW n, NEW more, Visit(n, more),
           LeadsOn(more, Seen, visited \cup {n}), Closed(n, Seen \cup Elements(more)),
           phase' = IF n[1] # "expression" /\ MustReturn(n) THEN "rejected" ELSE "walk"
    PROVE  TreeInv' /\ GraphInv' /\ Built' /\ WalkInv'
  <1> PICK seen, done : seen = Seen \cup Elements(more) /\ done = visited \cup {n}
    OBVIOUS
  <1>1. /\ UNCHANGED <<treeVars, graphVars>> /\ visited' = done /\ calls' = more \o Tail(calls)
        /\ n = Head(calls) /\ calls # <<>> /\ phase = "walk"
        /\ reached' = reached \cup (IF n[1] \in {"in", "out"} THEN {} ELSE {n[2]} \ {0})
    BY DEF Visit, Walking
  <1>2. TreeInv' /\ GraphInv' /\ Built'
    BY <1>1, TreeStays, GraphStays, BuiltStays DEF graphVars
  <1>3. PICK S : calls \in Seq(S)
    BY DEF WalkInv
  <1>4. Elements(calls) = {n} \cup Elements(Tail(calls)) /\ Tail(calls) \in Seq(S)
    BY <1>1, <1>3, HeadAndTail
  <1>5. (\E T : calls' \in Seq(T)) /\ Elements(more \o Tail(calls)) = Elements(more) \cup Elements(Tail(calls))
    BY <1>1, <1>4, JoinedAny DEF LeadsOn
  <1>6. Elements(calls)' = Elements(more \o Tail(calls))
    BY <1>1 DEF Elements
  <1>7. Seen' = seen /\ n \in Seen
    BY <1>1, <1>4, <1>5, <1>6 DEF Seen
  <1>8. AllJustified(seen, done)
    <2>1. done \subseteq seen
      BY <1>7 DEF Seen
    <2>2. ASSUME NEW m \in seen PROVE Justified(m, seen, done)
      <3>1. CASE m \in Seen
        BY <3>1, JustifiedMore DEF WalkInv, AllJustified
      <3>2. CASE m \in Elements(more)
        <4>1. Justified(m, Seen, done)
          BY <3>2 DEF LeadsOn, Elements
        <4> QED
          BY <4>1, JustifiedMore
      <3> QED
        BY <3>1, <3>2
    <2> QED
      BY <2>1, <2>2 DEF AllJustified
  <1>9. \A m \in done : Closed(m, seen)
    BY DEF WalkInv, Closed
  <1>10. reached' = ReachedBy(done)
    BY <1>1 DEF WalkInv, ReachedBy
  <1>11. Start \in seen
    BY DEF WalkInv
  <1>12. /\ AllJustified(Seen, visited)' /\ (Start \in Seen)' /\ (\A m \in visited : Closed(m, Seen))'
         /\ (reached = ReachedBy(visited))'
    <2>1. AllJustified(seen, done)' /\ \A m \in done : Closed(m, seen)'
      BY <1>1, <1>8, <1>9, MethodStays
    <2>2. Start' = Start /\ ReachedBy(done)' = ReachedBy(done)
      BY <1>1, MethodStays
    <2>3. AllJustified(Seen, visited)'
      BY <1>1, <1>7, <2>1 DEF AllJustified
    <2>4. (\A m \in visited : Closed(m, Seen))'
      BY <1>1, <1>7, <2>1
    <2> QED
      BY <1>1, <1>7, <1>10, <1>11, <2>2, <2>3, <2>4 DEF ReachedBy
  <1>13. \A m : MustReturn(m)' <=> MustReturn(m)
    BY <1>1, MethodStays
  <1>14. phase' # "rejected" => \A m \in visited' : m[1] # "expression" => ~MustReturn(m)'
    BY <1>1, <1>13 DEF WalkInv
  <1>15. phase' = "rejected" => \E m \in visited' : m[1] # "expression" /\ MustReturn(m)'
    BY <1>1, <1>13
  <1>16. phase' \in {"walk", "rejected"}
    OBVIOUS
  <1>17. WalkInv'
    BY <1>5, <1>12, <1>14, <1>15, <1>16 DEF WalkInv
  <1> QED
    BY <1>2, <1>17

-----------------------------------------------------------------------------
(* The invariant of the method.                                            *)

Idle == calls = <<>> /\ visited = {} /\ reached = {} /\ todo = <<>>
RunInv == /\ todo \in Seq(Statements)
          /\ phase = "run" /\ ~void => \E i \in DOMAIN todo : ~CanComplete[todo[i]]

MethodInv == /\ FoldInv /\ TreeInv /\ GraphInv /\ RunInv
             /\ (Building /\ Idle) \/ (Built /\ WalkInv)

\* Whether a method is legal depends on its syntax alone.
LEMMA LegalStays == UNCHANGED <<treeVars, void>> => (CanComplete' = CanComplete) /\ (Legal' <=> Legal)
  BY DEF treeVars, Legal, InOrder, CanComplete, Statements, Kind

\* A method that both visitors accept is legal, any other is not.
LEMMA Verdict ==
    ASSUME TreeInv, GraphInv, Built, WalkInv
    PROVE  /\ phase \in {"check", "run", "returned"} /\ Statements \subseteq reached => Legal
           /\ phase = "check" /\ ~(Statements \subseteq reached) => ~Legal
           /\ phase = "rejected" => ~Legal
  <1>1. calls = <<>> => Seen = visited
    BY DEF Seen, Elements
  <1>2. calls = <<>> => AllJustified(visited, visited) /\ AllClosed(visited) /\ Start \in visited
    BY <1>1 DEF WalkInv, AllClosed
  <1>3. calls = <<>> /\ ~(Statements \subseteq reached) => ~Legal
    BY <1>2, NotAllReached DEF WalkInv
  <1>4. ASSUME phase \in {"check", "run", "returned"}, Statements \subseteq reached PROVE Legal
    <2>1. calls = <<>> /\ \A n \in visited : n[1] # "expression" => ~MustReturn(n)
      BY <1>4 DEF WalkInv
    <2> QED
      BY <1>2, <1>4, <2>1, AcceptedIsLegal DEF WalkInv
  <1>5. ASSUME phase = "rejected" PROVE ~Legal
    <2>1. CASE \E n \in visited : n[1] # "expression" /\ MustReturn(n)
      BY <2>1, EndReached DEF WalkInv
    <2> QED
      BY <1>3, <1>5, <2>1 DEF WalkInv
  <1>6. phase = "check" => calls = <<>>
    BY DEF WalkInv
  <1> QED
    BY <1>3, <1>4, <1>5, <1>6

\* The invariant holds before anything is built.
LEMMA MethodStart == ASSUME Init PROVE MethodInv
  <1>1. syntax = <<>> /\ open = <<>> /\ pair = <<>> /\ next = NoEdges /\ branch = NoEdges /\ phase = "build"
        /\ calls = <<>> /\ visited = {} /\ reached = {} /\ todo = <<>> /\ InitFolding
    BY DEF Init
  <1>2. Statements = {} /\ DOMAIN open = {} /\ Len(open) = 0
    BY <1>1 DEF Statements
  <1>3. DOMAIN next = {} /\ DOMAIN branch = {}
    BY <1>1, EdgeValues
  <1>4. TreeInv
    <2>1. syntax \in Seq({}) /\ pair \in Seq(Node \X Node) /\ Len(pair) = Len(syntax) /\ open \in Seq(Nat)
      BY <1>1
    <2> QED
      BY <1>2, <2>1 DEF TreeInv, PlacedOnce
  <1>5. GraphInv /\ Building /\ Idle
    BY <1>1, <1>2, <1>3 DEF GraphInv, Building, Idle
  <1>6. RunInv
    BY <1>1 DEF RunInv
  <1> QED
    BY <1>1, <1>4, <1>5, <1>6, FoldStart DEF MethodInv

\* A step of an expression leaves the method as it is.
LEMMA MethodUnchanged == ASSUME MethodInv, UNCHANGED methodVars, FoldInv' PROVE MethodInv'
  <1>1. UNCHANGED <<treeVars, pair, next, branch, void, phase, calls, visited, reached, todo>>
        /\ UNCHANGED <<treeVars, graphVars>>
    BY DEF methodVars, graphVars, walkVars
  <1>2. TreeInv' /\ GraphInv'
    BY <1>1, TreeStays, GraphStays DEF MethodInv
  <1>3. RunInv'
    BY <1>1, LegalStays DEF MethodInv, RunInv, treeVars, Statements
  <1>4. CASE Building /\ Idle
    <2>1. Building' /\ Idle'
      BY <1>1, <1>4 DEF Building, Idle, treeVars, Statements, EdgeOf, EndsOpen, Follows, Kind, Inner, First, Last
    <2> QED
      BY <1>2, <1>3, <2>1 DEF MethodInv
  <1>5. CASE Built /\ WalkInv
    <2>1. Built'
      BY <1>1, <1>5, BuiltStays DEF Built
    <2>2. PICK seen, done : seen = Seen /\ done = visited
      OBVIOUS
    <2>3. Seen' = seen /\ visited' = done /\ calls' = calls /\ reached' = reached /\ phase' = phase
      BY <1>1, <2>2 DEF Seen, Elements
    <2>4. AllJustified(seen, done)' /\ Start' = Start /\ Statements' = Statements /\ ReachedBy(done)' = ReachedBy(done)
          /\ (\A m : Closed(m, seen) => Closed(m, seen)') /\ (\A m : MustReturn(m)' <=> MustReturn(m))
      BY <1>1, <1>5, <2>2, MethodStays DEF WalkInv
    <2>5. AllJustified(Seen, visited)' /\ (\A n \in visited : Closed(n, Seen))' /\ (reached = ReachedBy(visited))'
      BY <1>5, <2>2, <2>3, <2>4 DEF AllJustified, WalkInv, ReachedBy
    <2>6. WalkInv'
      BY <1>5, <2>2, <2>3, <2>4, <2>5 DEF WalkInv
    <2> QED
      BY <1>2, <1>3, <2>1, <2>6 DEF MethodInv
  <1> QED
    BY <1>4, <1>5 DEF MethodInv

\* createCfg keeps the invariant, and every edge there was.
LEMMA BuildStep == ASSUME MethodInv, Compile, UNCHANGED foldVars PROVE MethodInv' /\ EdgesStay
  <1>1. phase = "build"
    BY DEF Compile, SimpleStatement, IfThenStatement, IfThenElseStatement, LoopStatement, Block, CreateCfg, MethodDeclaration
  <1>2. TreeInv /\ GraphInv /\ Building /\ Idle
    BY <1>1 DEF MethodInv, Built
  <1>3. FoldInv'
    BY DEF MethodInv, FoldInv, foldVars
  <1>4. CASE MethodDeclaration
    <2>1. /\ UNCHANGED <<treeVars, pair, branch, void, visited, reached, todo>> /\ phase' = "walk"
          /\ calls' = <<Start>> /\ visited' = {} /\ reached' = {} /\ todo' = <<>>
      BY <1>2, <1>4 DEF MethodDeclaration, Start, Idle
    <2>2. TreeInv' /\ GraphInv' /\ Built' /\ EdgesStay
      BY <1>2, <1>4, MethodDone
    <2>3. PICK start, seen : start = Start /\ seen = {start}
      OBVIOUS
    <2>4. Justified(start, seen, {})
      <3>1. CASE open = <<>>
        BY <1>2, <2>3, <3>1, JustifiedEmpty DEF Start
      <3>2. CASE open # <<>>
        <4>1. 1 \in DOMAIN open
          BY <1>2, <3>2 DEF TreeInv
        <4> QED
          BY <1>2, <2>3, <3>2, <4>1, JustifiedOpen DEF Start
      <3> QED
        BY <3>1, <3>2
    <2>5. Justified(start, seen, {})'
      BY <2>1, <2>4, JustifiedStays
    <2>6. Start' = start
      BY <2>1, <2>3 DEF treeVars, Start, First
    <2>7. Elements(calls)' = seen /\ calls' \in Seq(seen)
      BY <2>1, <2>3 DEF Elements
    <2>8. Seen' = seen
      BY <2>1, <2>7 DEF Seen
    <2>9. AllJustified(Seen, visited)'
      BY <2>1, <2>3, <2>5, <2>8 DEF AllJustified
    <2>10. (reached = ReachedBy(visited))'
      BY <2>1 DEF ReachedBy
    <2>11. WalkInv'
      BY <2>1, <2>3, <2>6, <2>7, <2>8, <2>9, <2>10 DEF WalkInv
    <2>12. RunInv'
      BY <2>1 DEF RunInv
    <2> QED
      BY <1>3, <2>2, <2>11, <2>12 DEF MethodInv
  <1>5. CASE ~MethodDeclaration
    <2>1. UNCHANGED <<void, phase, walkVars, todo>>
      BY <1>5 DEF Compile, SimpleStatement, IfThenStatement, IfThenElseStatement, LoopStatement, Block, CreateCfg
    <2>2. Idle' /\ RunInv'
      BY <1>1, <1>2, <2>1 DEF Idle, walkVars, RunInv
    <2>3. conditions \subseteq Outcomes
      BY DEF MethodInv, FoldInv
    <2>4. TreeInv' /\ GraphInv' /\ Building' /\ EdgesStay
      BY <1>2, <1>5, <2>3, CreatedSimple, CreatedIfThen, CreatedIfElse, CreatedLoop, CreatedBlock DEF Compile
    <2> QED
      BY <1>3, <2>2, <2>4 DEF MethodInv
  <1> QED
    BY <1>4, <1>5

-----------------------------------------------------------------------------
(* Every step keeps it.                                                    *)

\* The walk and the check of the statements keep the invariant.
LEMMA WalkStep == ASSUME MethodInv, Walk, UNCHANGED foldVars PROVE MethodInv'
  <1>1. phase \in {"walk", "check"}
    BY DEF Walk, SkipVisited, VisitNode, VisitStatement, VisitExpression, Visit, Walking, EndWalk, CheckStatements
  <1>2. TreeInv /\ GraphInv /\ Built /\ WalkInv
    BY <1>1 DEF MethodInv, Building
  <1>3. FoldInv'
    BY DEF MethodInv, FoldInv, foldVars
  <1>4. todo \in Seq(Statements)
    BY DEF MethodInv, RunInv
  <1>5. PICK S : calls \in Seq(S)
    BY <1>2 DEF WalkInv
  <1>6. CASE VisitNode
    <2>1. PICK n \in {calls[i] : i \in DOMAIN calls} : VisitStatement(n) \/ VisitExpression(n)
      BY <1>6 DEF VisitNode
    <2>2. PICK done : done = visited \cup {n}
      OBVIOUS
    <2>3. Visit(n, IF Returns(n) THEN <<>> ELSE Successor(n)) \/ Visit(n, Branches(n))
      BY <2>1 DEF VisitStatement, VisitExpression
    <2>4. n \notin visited /\ phase = "walk" /\ UNCHANGED <<treeVars, graphVars, todo>>
      BY <2>3 DEF Visit, Walking
    <2>5. n \in Seen
      BY <2>1 DEF Seen, Elements
    <2>6. AllJustified(Seen, done)
      <3>1. done \subseteq Seen
        BY <2>2, <2>5 DEF Seen
      <3>2. \A m \in Seen : Justified(m, Seen, done)
        BY <1>2, <2>2, JustifiedMore DEF WalkInv, AllJustified
      <3> QED
        BY <3>1, <3>2 DEF AllJustified
    <2>7. ASSUME VisitStatement(n) PROVE TreeInv' /\ GraphInv' /\ Built' /\ WalkInv'
      <3>1. PICK more : more = IF Returns(n) THEN <<>> ELSE Successor(n)
        OBVIOUS
      <3>2. n[1] # "expression" /\ Visit(n, more) /\ phase' = IF MustReturn(n) THEN "rejected" ELSE "walk"
        BY <2>7, <3>1 DEF VisitStatement
      <3>3. CASE ~Returns(n) /\ n \in DOMAIN next
        <4>1. more = <<next[n]>>
          BY <3>1, <3>3 DEF Successor
        <4>2. Justified(next[n], Seen, done)
          BY <1>2, <2>2, <2>6, <3>3, JustifiedNext
        <4>3. LeadsOn(more, Seen, done)
          BY <4>1, <4>2, LeadsToOne
        <4>4. next[n] \in Elements(more)
          BY <4>1 DEF Elements
        <4>5. Closed(n, Seen \cup Elements(more))
          BY <3>2, <4>4 DEF Closed
        <4>6. LeadsOn(more, Seen, visited \cup {n})
          BY <2>2, <4>3
        <4>7. phase' = IF n[1] # "expression" /\ MustReturn(n) THEN "rejected" ELSE "walk"
          BY <3>2
        <4> QED
          BY <1>2, <3>2, <4>5, <4>6, <4>7, VisitNext
      <3>4. CASE Returns(n) \/ n \notin DOMAIN next
        <4>1. more = <<>>
          BY <3>1, <3>4 DEF Successor
        <4>2. LeadsOn(more, Seen, done)
          BY <4>1 DEF LeadsOn
        <4>3. Closed(n, Seen \cup Elements(more))
          BY <3>2, <3>4 DEF Closed
        <4>4. LeadsOn(more, Seen, visited \cup {n})
          BY <2>2, <4>2
        <4>5. phase' = IF n[1] # "expression" /\ MustReturn(n) THEN "rejected" ELSE "walk"
          BY <3>2
        <4> QED
          BY <1>2, <3>2, <4>3, <4>4, <4>5, VisitNext
      <3> QED
        BY <3>3, <3>4
    <2>8. ASSUME VisitExpression(n) PROVE TreeInv' /\ GraphInv' /\ Built' /\ WalkInv'
      <3>1. PICK more : more = Branches(n)
        OBVIOUS
      <3>2. n[1] = "expression" /\ Visit(n, more) /\ phase' = "walk"
        BY <2>4, <2>8, <3>1 DEF VisitExpression
      <3>3. LeadsOn(more, Seen, done)
        BY <1>2, <2>5, <2>6, <3>1, <3>2, JustifiedBranch
      <3>4. Closed(n, Seen \cup Elements(more))
        BY <3>1, <3>2 DEF Closed, Elements
      <3>5. LeadsOn(more, Seen, visited \cup {n})
        BY <2>2, <3>3
      <3>6. phase' = IF n[1] # "expression" /\ MustReturn(n) THEN "rejected" ELSE "walk"
        BY <3>2
      <3> QED
        BY <1>2, <3>2, <3>4, <3>5, <3>6, VisitNext
    <2>9. RunInv'
      <3>1. phase' # "run"
        BY <2>1, <2>4 DEF VisitStatement, VisitExpression
      <3> QED
        BY <1>4, <2>4, <3>1 DEF RunInv, treeVars, Statements
    <2> QED
      BY <1>3, <2>1, <2>7, <2>8, <2>9 DEF MethodInv
  <1>7. CASE ~VisitNode
    <2>1. /\ UNCHANGED <<treeVars, graphVars, visited, reached>>
          /\ SkipVisited \/ EndWalk \/ CheckStatements
      BY <1>7 DEF Walk, SkipVisited, EndWalk, CheckStatements, walkVars
    <2>2. TreeInv' /\ GraphInv'
      BY <1>2, <2>1, TreeStays, GraphStays DEF graphVars
    <2>3. phase' \in {"walk", "check", "run", "rejected"}
      BY <1>1, <2>1 DEF SkipVisited, EndWalk, CheckStatements
    <2>4. Built'
      BY <1>2, <2>1, <2>3, BuiltStays
    <2>5. Seen' = Seen /\ \E T : calls' \in Seq(T)
      <3>1. CASE SkipVisited
        <4>1. calls # <<>> /\ Head(calls) \in visited /\ calls' = Tail(calls)
          BY <3>1 DEF SkipVisited, Walking
        <4>2. Elements(calls) = {Head(calls)} \cup Elements(Tail(calls)) /\ Tail(calls) \in Seq(S)
          BY <1>5, <4>1, HeadAndTail
        <4>3. Elements(calls)' = Elements(Tail(calls))
          BY <4>1 DEF Elements
        <4> QED
          BY <2>1, <4>1, <4>2, <4>3 DEF Seen
      <3>2. CASE UNCHANGED calls
        BY <1>5, <2>1, <3>2 DEF Seen, Elements
      <3> QED
        BY <2>1, <3>1, <3>2 DEF EndWalk, CheckStatements, walkVars
    <2>6. PICK seen, done : seen = Seen /\ done = visited
      OBVIOUS
    <2>7. AllJustified(seen, done)' /\ Start' = Start /\ Statements' = Statements /\ ReachedBy(done)' = ReachedBy(done)
          /\ (\A m : Closed(m, seen) => Closed(m, seen)') /\ (\A m : MustReturn(m)' <=> MustReturn(m))
      BY <1>2, <2>1, <2>6, MethodStays DEF WalkInv
    <2>8. Seen' = seen /\ visited' = done /\ reached' = reached
      BY <2>1, <2>5, <2>6
    <2>9. AllJustified(Seen, visited)' /\ (\A n \in visited : Closed(n, Seen))' /\ (reached = ReachedBy(visited))'
      BY <1>2, <2>6, <2>7, <2>8 DEF AllJustified, WalkInv, ReachedBy
    <2>10. phase # "rejected" /\ \A n \in visited' : n[1] # "expression" => ~MustReturn(n)'
      BY <1>1, <1>2, <2>6, <2>7, <2>8 DEF WalkInv
    <2>11. /\ phase' \in {"check", "run", "returned"} => calls' = <<>>
           /\ phase' \in {"run", "returned"} => Statements \subseteq reached
           /\ phase' = "rejected" => calls' = <<>> /\ ~(Statements \subseteq reached)
      BY <1>1, <1>2, <2>1 DEF WalkInv, SkipVisited, Walking, EndWalk, CheckStatements, walkVars
    <2>12. WalkInv'
      BY <1>2, <2>5, <2>6, <2>7, <2>8, <2>9, <2>10, <2>11 DEF WalkInv
    <2>13. RunInv'
      <3>1. CanComplete' = CanComplete /\ void' = void
        BY <2>1, LegalStays DEF graphVars
      <3>2. CASE CheckStatements /\ Statements \subseteq reached
        <4>1. Legal /\ todo' = open
          BY <1>2, <3>2, Verdict DEF CheckStatements
        <4>2. open \in Seq(Statements)
          BY <1>2 DEF TreeInv
        <4> QED
          BY <2>7, <3>1, <4>1, <4>2 DEF RunInv, Legal
      <3>3. CASE ~(CheckStatements /\ Statements \subseteq reached)
        <4>1. phase' # "run" /\ todo' \in {todo, <<>>}
          BY <1>1, <2>1, <3>3 DEF SkipVisited, EndWalk, CheckStatements
        <4>2. <<>> \in Seq(Statements)
          OBVIOUS
        <4>3. todo' \in Seq(Statements)
          BY <1>4, <4>1, <4>2
        <4> QED
          BY <2>7, <4>1, <4>3 DEF RunInv
      <3> QED
        BY <3>2, <3>3
    <2> QED
      BY <1>3, <2>2, <2>4, <2>12, <2>13 DEF MethodInv
  <1> QED
    BY <1>6, <1>7

\* What is executed in place of a statement that cannot complete has one that cannot.
LEMMA RunStep == ASSUME MethodInv, RunMethod, UNCHANGED foldVars PROVE MethodInv'
  <1>1. PICK s \in Statements : Run(s) \/ RunReturn(s)
    BY DEF RunMethod
  <1>2. phase = "run" /\ todo # <<>> /\ s = Head(todo)
    BY <1>1 DEF Run, RunReturn, Execute
  <1>3. TreeInv /\ GraphInv /\ Built /\ WalkInv /\ todo \in Seq(Statements)
    BY <1>2 DEF MethodInv, RunInv, Building
  <1>4. FoldInv'
    BY DEF MethodInv, FoldInv, foldVars
  <1>5. UNCHANGED <<treeVars, graphVars, walkVars>> /\ phase' \in {"run", "returned"}
    BY <1>1, <1>2 DEF Run, RunReturn, Execute
  <1>6. TreeInv' /\ GraphInv' /\ Built'
    BY <1>3, <1>5, TreeStays, GraphStays, BuiltStays DEF graphVars
  <1>7. WalkInv'
    <2>1. PICK seen, done : seen = Seen /\ done = visited
      OBVIOUS
    <2>2. Seen' = seen /\ visited' = done /\ calls' = calls /\ reached' = reached
      BY <1>5, <2>1 DEF Seen, Elements, walkVars
    <2>3. AllJustified(seen, done)' /\ Start' = Start /\ Statements' = Statements /\ ReachedBy(done)' = ReachedBy(done)
          /\ (\A m : Closed(m, seen) => Closed(m, seen)') /\ (\A m : MustReturn(m)' <=> MustReturn(m))
      BY <1>3, <1>5, <2>1, MethodStays DEF WalkInv
    <2>4. AllJustified(Seen, visited)' /\ (\A n \in visited : Closed(n, Seen))' /\ (reached = ReachedBy(visited))'
      BY <1>3, <2>1, <2>2, <2>3 DEF AllJustified, WalkInv, ReachedBy
    <2> QED
      BY <1>2, <1>3, <1>5, <2>1, <2>2, <2>3, <2>4 DEF WalkInv
  <1>8. RunInv'
    <2>1. CanComplete' = CanComplete /\ Statements' = Statements /\ void' = void
      BY <1>5, LegalStays DEF graphVars, treeVars, Statements
    <2>2. CASE RunReturn(s)
      <3>1. todo' = <<>> /\ phase' = "returned"
        BY <2>2 DEF RunReturn
      <3> QED
        BY <3>1 DEF RunInv
    <2>3. CASE Run(s)
      <3>1. Shape(s) /\ (CanComplete[s] <=> Completes(CanComplete, s))
        BY <1>3, Completion DEF TreeInv
      <3>2. Inner(s) \in Seq(Statements)
        BY <3>1 DEF Shape
      <3>3. PICK more : /\ more \in Seq(Statements) /\ Execute(s, more)
                        /\ ~CanComplete[s] => \E x \in Elements(more) : ~CanComplete[x]
        <4>1. CASE Kind(s) = "simple" /\ Execute(s, <<>>)
          <5>1. CanComplete[s]
            BY <3>1, <4>1 DEF Completes
          <5>2. <<>> \in Seq(Statements)
            OBVIOUS
          <5> QED
            BY <4>1, <5>1, <5>2
        <4>2. CASE Kind(s) = "block" /\ Execute(s, syntax[s].inner)
          BY <3>1, <3>2, <4>2 DEF Completes, Elements, Inner
        <4>3. CASE Kind(s) \in {"if", "ifelse"} /\ Execute(s, <<syntax[s].inner[1]>>)
          <5>1. PICK x : x = Inner(s)[1]
            OBVIOUS
          <5>2. x \in Statements
            BY <3>1, <4>3, <5>1 DEF Shape
          <5>3. <<x>> \in Seq(Statements) /\ x \in Elements(<<x>>)
            BY <5>2 DEF Elements
          <5>4. ~CanComplete[s] => ~CanComplete[x]
            BY <3>1, <4>3, <5>1 DEF Completes, Inner
          <5> QED
            BY <4>3, <5>1, <5>3, <5>4 DEF Inner
        <4>4. CASE Kind(s) \in {"if", "ifelse"} /\ Execute(s, Tail(syntax[s].inner))
          <5>1. PICK rest : rest = Tail(Inner(s))
            OBVIOUS
          <5>0. Len(Inner(s)) \in {1, 2} /\ (Kind(s) = "ifelse" => Len(Inner(s)) = 2)
            BY <3>1, <4>4 DEF Shape
          <5>2. rest \in Seq(Statements) /\ Len(rest) = Len(Inner(s)) - 1
                /\ \A i \in 1..(Len(Inner(s)) - 1) : rest[i] = Inner(s)[i + 1]
            BY <3>2, <5>0, <5>1
          <5>3. CASE Kind(s) = "if"
            BY <3>1, <4>4, <5>1, <5>2, <5>3 DEF Completes, Inner
          <5>4. CASE Kind(s) = "ifelse"
            <6>1. Len(rest) = 1 /\ rest[1] = Inner(s)[2]
              BY <5>0, <5>2, <5>4
            <6>2. Inner(s)[2] \in Elements(rest)
              BY <5>2, <6>1 DEF Elements
            <6>3. ~CanComplete[s] => ~CanComplete[Inner(s)[2]]
              BY <3>1, <5>4 DEF Completes, Inner
            <6> QED
              BY <4>4, <5>1, <5>2, <6>2, <6>3 DEF Inner
          <5> QED
            BY <4>4, <5>3, <5>4
        <4>5. CASE Kind(s) = "loop" /\ MayHold(s) /\ Execute(s, syntax[s].inner \o <<s>>)
          <5>1. PICK me : me = <<s>>
            OBVIOUS
          <5>2. me \in Seq(Statements) /\ s \in Elements(me)
            BY <5>1 DEF Elements
          <5>3. Inner(s) \o me \in Seq(Statements) /\ s \in Elements(Inner(s) \o me)
            BY <3>2, <5>2, Joined
          <5> QED
            BY <4>5, <5>1, <5>3 DEF Inner
        <4>6. CASE Kind(s) = "loop" /\ MayFail(s) /\ Execute(s, <<>>)
          <5>1. CanComplete[s]
            BY <3>1, <4>6 DEF Completes, MayFail
          <5>2. <<>> \in Seq(Statements)
            OBVIOUS
          <5> QED
            BY <4>6, <5>1, <5>2
        <4> QED
          BY <2>3, <4>1, <4>2, <4>3, <4>4, <4>5, <4>6 DEF Run
      <3>4. todo' = more \o Tail(todo)
        BY <3>3 DEF Execute
      <3>5. Elements(todo) = {s} \cup Elements(Tail(todo)) /\ Tail(todo) \in Seq(Statements)
        BY <1>2, <1>3, HeadAndTail
      <3>6. todo' \in Seq(Statements) /\ Elements(more \o Tail(todo)) = Elements(more) \cup Elements(Tail(todo))
        BY <3>3, <3>4, <3>5, Joined, ZenonT(40)
      <3>7. ASSUME ~void PROVE \E i \in DOMAIN todo' : ~CanComplete[todo'[i]]
        <4>1. PICK x \in Elements(todo) : ~CanComplete[x]
          BY <1>2, <3>7 DEF MethodInv, RunInv, Elements
        <4>2. \E y \in Elements(more \o Tail(todo)) : ~CanComplete[y]
          BY <3>3, <3>5, <3>6, <4>1
        <4> QED
          BY <3>4, <4>2 DEF Elements
      <3> QED
        BY <2>1, <3>6, <3>7 DEF RunInv
    <2> QED
      BY <1>1, <2>2, <2>3
  <1> QED
    BY <1>4, <1>6, <1>7, <1>8 DEF MethodInv

\* The invariant of the folding, the tree, the graph, the walk and the run, together, is kept
\* by every step (createCfg, visit of cfg-visitor.cc, the checks of reachability.cc and
\* reached-statement.cc).
THEOREM MethodInductive == Spec => []MethodInv
  <1>1. Init => MethodInv
    BY MethodStart
  <1>2. MethodInv /\ [CfgNext]_vars => MethodInv'
    <2> SUFFICES ASSUME MethodInv, [CfgNext]_vars PROVE MethodInv'
      OBVIOUS
    <2>1. CASE Expression /\ UNCHANGED methodVars
      BY <2>1, FoldStep, MethodUnchanged DEF MethodInv
    <2>2. CASE Compile /\ UNCHANGED foldVars
      BY <2>2, BuildStep
    <2>3. CASE Walk /\ UNCHANGED foldVars
      BY <2>3, WalkStep
    <2>4. CASE RunMethod /\ UNCHANGED foldVars
      BY <2>4, RunStep
    <2>5. CASE UNCHANGED vars
      <3>1. FoldInv'
        BY <2>5 DEF vars, foldVars, MethodInv, FoldInv
      <3> QED
        BY <2>5, <3>1, MethodUnchanged DEF vars
    <2> QED
      BY <2>1, <2>2, <2>3, <2>4, <2>5 DEF CfgNext
  <1> QED
    BY <1>1, <1>2, PTL DEF Spec

\* evalConstantExpression folds an expression to what Java does, for integers of any width,
\* wherever FoldedAsCast, FoldedAsMinus and FoldedAsInfix claim it.
THEOREM FoldsSound == Spec => []FoldsAsJava
  <1>1. MethodInv => FoldsAsJava
    BY DEF MethodInv, FoldInv, Sound, FoldsAsJava
  <1> QED
    BY <1>1, MethodInductive, PTL

\* The two visitors accept a method exactly if every statement of it is reachable by the
\* rules of the language and it does not end without the result it owes, whatever its
\* statements and however they are nested.
THEOREM AcceptsExactlyLegal == Spec => []AgreesWithLanguage
  <1>1. ASSUME MethodInv PROVE AgreesWithLanguage
    <2>1. CASE phase \in {"run", "returned", "rejected"}
      <3>1. TreeInv /\ GraphInv /\ Built /\ WalkInv
        BY <1>1, <2>1 DEF MethodInv, Building
      <3>2. phase \in {"run", "returned"} => Statements \subseteq reached
        BY <3>1 DEF WalkInv
      <3> QED
        BY <3>1, <3>2, Verdict DEF AgreesWithLanguage
    <2>2. CASE phase \notin {"run", "returned", "rejected"}
      BY <2>2 DEF AgreesWithLanguage
    <2> QED
      BY <2>1, <2>2
  <1> QED
    BY <1>1, MethodInductive, PTL

\* A method with a result that was accepted does not run off the end of its body.
THEOREM RunsEndInReturn == Spec => []NeverFallsOff
  <1>1. ASSUME MethodInv PROVE NeverFallsOff
    BY <1>1 DEF MethodInv, RunInv, NeverFallsOff
  <1> QED
    BY <1>1, MethodInductive, PTL

\* No createCfg redirects an edge, although a block hands out the last node of another
\* statement.
THEOREM EdgesLinkedOnce == Spec => LinkedOnce
  <1>1. MethodInv /\ [CfgNext]_vars => [\A n \in DOMAIN next : next'[n] = next[n]]_next
    <2> SUFFICES ASSUME MethodInv, [CfgNext]_vars PROVE EdgesStay \/ UNCHANGED next
      BY DEF EdgesStay
    <2>1. CASE Compile /\ UNCHANGED foldVars
      BY <2>1, BuildStep
    <2>2. CASE Walk
      BY <2>2 DEF Walk, SkipVisited, VisitNode, VisitStatement, VisitExpression, Visit, EndWalk, CheckStatements, graphVars
    <2>3. CASE RunMethod
      BY <2>3 DEF RunMethod, Run, Execute, RunReturn, graphVars
    <2>4. CASE UNCHANGED methodVars
      BY <2>4 DEF methodVars, graphVars
    <2> QED
      BY <2>1, <2>2, <2>3, <2>4 DEF CfgNext, vars
  <1> QED
    BY <1>1, MethodInductive, PTL DEF Spec, LinkedOnce
=============================================================================
