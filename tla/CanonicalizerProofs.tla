------------------------- MODULE CanonicalizerProofs -------------------------
(****************************************************************************)
(* Canonicalisation is right for every body, however large: the list of     *)
(* statements that convert makes of a tree means what the tree does         *)
(* (SameMeaning), is canonical (Canonical), and sets every generated        *)
(* temporary once (GeneratedTempsSetOnce).                                  *)
(*                                                                          *)
(* SameMeaning speaks of the run from Start. What is proved of a result is  *)
(* more, for it must survive its being put into another tree: Lowers says   *)
(* that from any two states that agree on the events and on the program's   *)
(* temporary, whatever is on the stack and in the generated temporaries,    *)
(* the tree and the list end in states that agree again, that the list      *)
(* writes no temporary generated later, and that the expression may be read *)
(* in any state that differs in its stack. There is one lemma per kind of   *)
(* node (BinOpLowers, CallLowers, ...), resting on what the interpreter     *)
(* does with an order after another (InterpretConcat) and with each step    *)
(* (LeaveTemp, LeaveMove, ...). The form of the list is in Neat and Tidy,   *)
(* and Apart says that no generated temporary belongs to two results.       *)
(****************************************************************************)
EXTENDS Canonicalizer, SequenceTheorems, WellFoundedInduction, TLAPS

----------------------------------------------------------------------------
(* Induction over the numbers, from their having a least element.           *)
LEMMA Induct ==
  ASSUME NEW S, 0 \in S, \A n \in Nat : n \in S => n + 1 \in S
  PROVE  Nat \subseteq S
<1>1. SUFFICES ASSUME Nat \ S # {} PROVE FALSE OBVIOUS
<1>2. PICK n \in Nat \ S : \A k \in Nat \ S : ~(<<k, n>> \in OpToRel(<, Nat))
  BY <1>1, NatLessThanWellFounded, WFMin
<1>3. n \in Nat /\ n \notin S /\ n # 0 BY <1>2
<1>4. n - 1 \in Nat /\ n - 1 < n /\ (n - 1) + 1 = n BY <1>3
<1>5. n - 1 \notin S BY <1>3, <1>4
<1>6. ~(<<n - 1, n>> \in OpToRel(<, Nat)) BY <1>2, <1>4, <1>5
<1> QED BY <1>3, <1>4, <1>6 DEF OpToRel

\* The concatenation of the first sequences of a list.
JoinStep(q, f, j) == IF j = 0 THEN <<>> ELSE f[j - 1] \o q[j]
Joined(q) == CHOOSE f : f = [j \in 0..Len(q) |-> JoinStep(q, f, j)]

(* The recursion of Joined has a solution.                                  *)
LEMMA JoinedExists ==
  ASSUME NEW S, NEW q \in Seq(S)
  PROVE  Joined(q) = [j \in 0..Len(q) |-> JoinStep(q, Joined(q), j)]
<1> DEFINE Good == {n \in Nat : \E f : f = [j \in 0..n |-> JoinStep(q, f, j)]}
<1>1. 0 \in Good
  <2> DEFINE f == [j \in 0..0 |-> <<>>]
  <2>1. f = [j \in 0..0 |-> JoinStep(q, f, j)] BY DEF JoinStep
  <2> HIDE DEF f
  <2> QED BY <2>1
<1>2. ASSUME NEW n \in Nat, n \in Good PROVE n + 1 \in Good
  <2>1. PICK f : f = [j \in 0..n |-> JoinStep(q, f, j)] BY <1>2
  <2> DEFINE g == [j \in 0..n + 1 |-> IF j \in 0..n THEN f[j] ELSE JoinStep(q, f, n + 1)]
  <2>2. ASSUME NEW j \in 0..n + 1 PROVE g[j] = JoinStep(q, g, j)
    <3>1. j # 0 => j - 1 \in 0..n BY <2>2
    <3>2. j # 0 => g[j - 1] = f[j - 1] BY <3>1
    <3>3. JoinStep(q, g, j) = JoinStep(q, f, j) BY <3>2 DEF JoinStep
    <3>4. CASE j \in 0..n BY <3>3, <3>4, <2>1
    <3>5. CASE j = n + 1 BY <3>3, <3>5
    <3> QED BY <2>2, <3>4, <3>5
  <2>3. g = [j \in 0..n + 1 |-> g[j]] OBVIOUS
  <2> HIDE DEF g
  <2>4. g = [j \in 0..n + 1 |-> JoinStep(q, g, j)] BY <2>2, <2>3
  <2> QED BY <2>4
<1>3. Nat \subseteq Good BY <1>1, <1>2, Induct
<1>4. Len(q) \in Nat BY LenProperties
<1>5. \E f : f = [j \in 0..Len(q) |-> JoinStep(q, f, j)] BY <1>3, <1>4
<1> QED BY <1>5 DEF Joined

(* FlattenSeq joins all the sequences of its list.                          *)
LEMMA FlattenIsJoined ==
  ASSUME NEW S, NEW q \in Seq(Seq(S))
  PROVE  /\ FlattenSeq(q) = Joined(q)[Len(q)] /\ Joined(q)[0] = <<>>
         /\ \A j \in 1..Len(q) : Joined(q)[j] = Joined(q)[j - 1] \o q[j]
<1>1. Len(q) \in Nat /\ \A j \in 1..Len(q) : q[j] \in Seq(S) BY LenProperties, ElementOfSeq
<1>0. Joined(q) = [j \in 0..Len(q) |-> JoinStep(q, Joined(q), j)]
  <2> DEFINE T == Seq(S)
  <2>1. q \in Seq(T) OBVIOUS
  <2> HIDE DEF T
  <2> QED BY <2>1, JoinedExists
<1>2. Joined(q)[0] = <<>>
  <2>1. 0 \in 0..Len(q) BY <1>1
  <2>2. Joined(q)[0] = JoinStep(q, Joined(q), 0) BY <1>0, <2>1
  <2> QED BY <2>2 DEF JoinStep
<1>3. ASSUME NEW j \in 1..Len(q) PROVE Joined(q)[j] = Joined(q)[j - 1] \o q[j]
  <2>1. j \in 0..Len(q) /\ j # 0 BY <1>1
  <2>2. Joined(q)[j] = JoinStep(q, Joined(q), j) BY <1>0, <2>1
  <2> QED BY <2>1, <2>2 DEF JoinStep
<1>4. CASE Len(q) = 0
  <2>1. q = <<>> BY <1>4, EmptySeq
  <2> QED BY <1>2, <1>3, <1>4, <2>1 DEF FlattenSeq
<1>5. CASE Len(q) # 0
  <2> DEFINE F(f) == [i \in 1..Len(q) |-> IF i = 1 THEN q[i] ELSE f[i - 1] \o q[i]]
             g == [i \in 1..Len(q) |-> Joined(q)[i]]
  <2>1. ASSUME NEW i \in 1..Len(q) PROVE g[i] = F(g)[i]
    <3>1. CASE i = 1
      <4>1. Joined(q)[1] = <<>> \o q[1]
        <5>1. 1 \in 1..Len(q) /\ 1 - 1 = 0 BY <1>1, <1>5
        <5>2. Joined(q)[1] = Joined(q)[1 - 1] \o q[1] BY <1>3, <5>1
        <5> QED BY <1>2, <5>1, <5>2
      <4>2. q[1] \in Seq(S) BY <1>1, <1>5
      <4> QED BY <3>1, <4>1, <4>2, ConcatEmptySeq
    <3>2. CASE i # 1
      <4>1. i - 1 \in 1..Len(q) BY <1>1, <3>2
      <4> QED BY <1>3, <3>2, <4>1
    <3> QED BY <3>1, <3>2
  <2>2. g = F(g) BY <2>1
  <2>3. ASSUME NEW f, f = F(f) PROVE f[Len(q)] = g[Len(q)]
    <3> DEFINE Good == {n \in Nat : n + 1 \in 1..Len(q) => f[n + 1] = g[n + 1]}
    <3>1. 0 \in Good
      <4>1. ASSUME 1 \in 1..Len(q) PROVE f[1] = g[1]
        <5>1. f[1] = F(f)[1] BY <2>3
        <5>2. g[1] = F(g)[1] BY <2>2
        <5> QED BY <4>1, <5>1, <5>2
      <4> QED BY <4>1
    <3>2. ASSUME NEW n \in Nat, n \in Good PROVE n + 1 \in Good
      <4>1. ASSUME (n + 1) + 1 \in 1..Len(q) PROVE f[(n + 1) + 1] = g[(n + 1) + 1]
        <5> DEFINE i == (n + 1) + 1
        <5>0. i \in 1..Len(q) /\ i # 1 /\ i - 1 = n + 1 /\ n + 1 \in 1..Len(q) BY <1>1, <4>1
        <5>1. f[n + 1] = g[n + 1] BY <3>2, <5>0
        <5> HIDE DEF i, g
        <5>2. f[i] = F(f)[i] BY <2>3
        <5>3. g[i] = F(g)[i] BY <2>2
        <5>4. F(f)[i] = f[n + 1] \o q[i] BY <5>0
        <5>5. F(g)[i] = g[n + 1] \o q[i] BY <5>0
        <5>6. f[i] = g[i] BY <5>1, <5>2, <5>3, <5>4, <5>5
        <5> QED BY <5>6 DEF i
      <4> QED BY <4>1
    <3> HIDE DEF Good
    <3>3. Nat \subseteq Good BY <3>1, <3>2, Induct
    <3> USE DEF Good
    <3>4. Len(q) - 1 \in Nat /\ (Len(q) - 1) + 1 = Len(q) BY <1>1, <1>5
    <3>5. Len(q) - 1 \in Good BY <3>3, <3>4
    <3> HIDE DEF g
    <3> QED BY <1>1, <1>5, <3>4, <3>5
  <2>4. FlattenSeq(q) = (CHOOSE f : f = F(f))[Len(q)] BY <1>5 DEF FlattenSeq
  <2>5. (CHOOSE f : f = F(f)) = F(CHOOSE f : f = F(f)) BY <2>2
  <2> HIDE DEF F
  <2>6. FlattenSeq(q) = g[Len(q)] BY <2>3, <2>4, <2>5
  <2>7. Len(q) \in 1..Len(q) BY <1>1, <1>5
  <2>8. g[Len(q)] = Joined(q)[Len(q)] BY <2>7
  <2> QED BY <1>2, <1>3, <2>6, <2>8
<1> QED BY <1>4, <1>5

(* Induction over sequences, from the empty one by appending.               *)
LEMMA SeqInduct ==
  ASSUME NEW T, NEW P, <<>> \in P,
         \A q \in Seq(T), x \in T : q \in P => Append(q, x) \in P
  PROVE  Seq(T) \subseteq P
<1> DEFINE Good == {n \in Nat : \A q \in Seq(T) : Len(q) = n => q \in P}
<1>1. 0 \in Good
  <2>1. ASSUME NEW q \in Seq(T), Len(q) = 0 PROVE q \in P
    <3>1. q = <<>> BY <2>1, EmptySeq
    <3> QED BY <3>1
  <2> QED BY <2>1
<1>2. ASSUME NEW n \in Nat, n \in Good PROVE n + 1 \in Good
  <2>1. ASSUME NEW q \in Seq(T), Len(q) = n + 1 PROVE q \in P
    <3>1. q # <<>> BY <2>1, EmptySeq
    <3>2. PICK p \in Seq(T), x \in T : q = Append(p, x) BY <3>1, SequenceEmptyOrAppend
    <3>3. Len(q) = Len(p) + 1 /\ Len(p) \in Nat BY <3>2, AppendProperties, LenProperties
    <3>4. p \in P BY <1>2, <2>1, <3>3
    <3> QED BY <3>2, <3>4
  <2> QED BY <2>1
<1> HIDE DEF Good
<1>3. Nat \subseteq Good BY <1>1, <1>2, Induct
<1> USE DEF Good
<1> QED BY <1>3, LenProperties

(* FlattenSeq, one sequence after another.                                  *)
LEMMA FlattenEmpty == FlattenSeq(<<>>) = <<>>
  BY DEF FlattenSeq

(* One more sequence comes last.                                            *)
LEMMA FlattenAppend ==
  ASSUME NEW S, NEW q \in Seq(Seq(S)), NEW x \in Seq(S)
  PROVE  FlattenSeq(Append(q, x)) = FlattenSeq(q) \o x
<1> DEFINE T == Seq(S)
           r == Append(q, x)
<1>1. /\ r \in Seq(T) /\ Len(r) = Len(q) + 1 /\ r[Len(q) + 1] = x
      /\ \A i \in 1..Len(q) : r[i] = q[i]
  <2>1. q \in Seq(T) /\ x \in T OBVIOUS
  <2> HIDE DEF T
  <2> QED BY <2>1, AppendProperties
<1>2. Len(q) \in Nat BY LenProperties
<1> DEFINE Good == {n \in Nat : n <= Len(q) => Joined(r)[n] = Joined(q)[n]}
<1> HIDE DEF r
<1>3. 0 \in Good BY <1>1, FlattenIsJoined
<1>4. ASSUME NEW n \in Nat, n \in Good PROVE n + 1 \in Good
  <2>1. ASSUME n + 1 <= Len(q) PROVE Joined(r)[n + 1] = Joined(q)[n + 1]
    <3>1. n + 1 \in 1..Len(q) /\ n + 1 \in 1..Len(r) /\ (n + 1) - 1 = n /\ n <= Len(q)
      BY <1>1, <1>2, <2>1
    <3>2. Joined(r)[n + 1] = Joined(r)[n] \o r[n + 1] BY <1>1, <3>1, FlattenIsJoined
    <3>3. Joined(q)[n + 1] = Joined(q)[n] \o q[n + 1] BY <3>1, FlattenIsJoined
    <3>4. Joined(r)[n] = Joined(q)[n] BY <1>4, <3>1
    <3> QED BY <1>1, <3>1, <3>2, <3>3, <3>4
  <2> QED BY <2>1
<1> HIDE DEF Good
<1>5. Nat \subseteq Good BY <1>3, <1>4, Induct
<1>6. Joined(r)[Len(q)] = Joined(q)[Len(q)] BY <1>2, <1>5 DEF Good
<1>7. Len(r) \in 1..Len(r) /\ Len(r) - 1 = Len(q) BY <1>1, <1>2
<1>8. Joined(r)[Len(r)] = Joined(r)[Len(r) - 1] \o r[Len(r)] BY <1>1, <1>7, FlattenIsJoined
<1>9. FlattenSeq(r) = Joined(r)[Len(r)] BY <1>1, FlattenIsJoined
<1>10. FlattenSeq(q) = Joined(q)[Len(q)] BY FlattenIsJoined
<1>11. FlattenSeq(r) = FlattenSeq(q) \o x BY <1>1, <1>6, <1>7, <1>8, <1>9, <1>10
<1> QED BY <1>11 DEF r

(* Sequences of steps flatten to a sequence of steps.                       *)
LEMMA FlattenType ==
  ASSUME NEW S, NEW q \in Seq(Seq(S))
  PROVE  FlattenSeq(q) \in Seq(S)
<1> DEFINE T == Seq(S)
           P == {p \in Seq(T) : FlattenSeq(p) \in Seq(S)}
<1>1. <<>> \in P BY FlattenEmpty, EmptySeq
<1>2. ASSUME NEW p \in Seq(T), NEW x \in T, p \in P PROVE Append(p, x) \in P
  <2>1. FlattenSeq(Append(p, x)) = FlattenSeq(p) \o x BY FlattenAppend
  <2>2. Append(p, x) \in Seq(T) BY AppendProperties
  <2> QED BY <1>2, <2>1, <2>2, ConcatProperties
<1> HIDE DEF P
<1>3. q \in Seq(T) OBVIOUS
<1> HIDE DEF T
<1>4. Seq(T) \subseteq P BY <1>1, <1>2, SeqInduct
<1>5. q \in P BY <1>3, <1>4
<1> QED BY <1>5 DEF P

(* Flattening two lists of sequences, one after the other.                  *)
LEMMA FlattenConcat ==
  ASSUME NEW S, NEW a \in Seq(Seq(S)), NEW b \in Seq(Seq(S))
  PROVE  FlattenSeq(a \o b) = FlattenSeq(a) \o FlattenSeq(b)
<1> DEFINE T == Seq(S)
           P == {p \in Seq(T) : FlattenSeq(a \o p) = FlattenSeq(a) \o FlattenSeq(p)}
<1>0. a \in Seq(T) /\ b \in Seq(T) OBVIOUS
<1>a. FlattenSeq(a) \in Seq(S) BY FlattenType
<1>1. <<>> \in P
  <2>1. a \o <<>> = a BY <1>0, ConcatEmptySeq
  <2>2. FlattenSeq(a) \o <<>> = FlattenSeq(a) BY <1>a, ConcatEmptySeq
  <2>3. <<>> \in Seq(T) BY EmptySeq
  <2> QED BY <2>1, <2>2, <2>3, FlattenEmpty
<1>2. ASSUME NEW p \in Seq(T), NEW x \in T, p \in P PROVE Append(p, x) \in P
  <2>1. FlattenSeq(Append(p, x)) = FlattenSeq(p) \o x BY FlattenAppend
  <2>2. Append(p, x) \in Seq(T) BY AppendProperties
  <2>3. a \o Append(p, x) = Append(a \o p, x) BY <1>0
  <2>4. a \o p \in Seq(T) BY <1>0, ConcatProperties
  <2>5. FlattenSeq(Append(a \o p, x)) = FlattenSeq(a \o p) \o x BY <2>4, FlattenAppend
  <2>6. FlattenSeq(p) \in Seq(S) /\ x \in Seq(S) BY FlattenType
  <2>7. (FlattenSeq(a) \o FlattenSeq(p)) \o x = FlattenSeq(a) \o (FlattenSeq(p) \o x)
    BY <1>a, <2>6, ConcatAssociative, SMTT(30)
  <2> QED BY <1>2, <2>1, <2>2, <2>3, <2>5, <2>7
<1> HIDE DEF P, T
<1>4. Seq(T) \subseteq P BY <1>1, <1>2, SeqInduct
<1>5. b \in P BY <1>0, <1>4
<1> QED BY <1>5 DEF P

----------------------------------------------------------------------------
\* The state after each step of an order, from a state on.
StateStep(o, s, f, k) == IF k = 0 THEN s ELSE Leave(o[k], f[k - 1])
States(o, s) == CHOOSE f : f = [k \in 0..Len(o) |-> StateStep(o, s, f, k)]

(* The recursion of Interpret has a solution.                               *)
LEMMA StatesExist ==
  ASSUME NEW S, NEW o \in Seq(S), NEW s
  PROVE  States(o, s) = [k \in 0..Len(o) |-> StateStep(o, s, States(o, s), k)]
<1> DEFINE Good == {n \in Nat : \E f : f = [k \in 0..n |-> StateStep(o, s, f, k)]}
<1>1. 0 \in Good
  <2> DEFINE f == [k \in 0..0 |-> s]
  <2>1. f = [k \in 0..0 |-> StateStep(o, s, f, k)] BY DEF StateStep
  <2> HIDE DEF f
  <2> QED BY <2>1
<1>2. ASSUME NEW n \in Nat, n \in Good PROVE n + 1 \in Good
  <2>1. PICK f : f = [k \in 0..n |-> StateStep(o, s, f, k)] BY <1>2
  <2> DEFINE g == [k \in 0..n + 1 |-> IF k \in 0..n THEN f[k] ELSE StateStep(o, s, f, n + 1)]
  <2>2. ASSUME NEW k \in 0..n + 1 PROVE g[k] = StateStep(o, s, g, k)
    <3>1. k # 0 => k - 1 \in 0..n BY <2>2
    <3>2. k # 0 => g[k - 1] = f[k - 1] BY <3>1
    <3>3. StateStep(o, s, g, k) = StateStep(o, s, f, k) BY <3>2 DEF StateStep
    <3>4. CASE k \in 0..n BY <3>3, <3>4, <2>1
    <3>5. CASE k = n + 1 BY <3>3, <3>5
    <3> QED BY <2>2, <3>4, <3>5
  <2>3. g = [k \in 0..n + 1 |-> g[k]] OBVIOUS
  <2> HIDE DEF g
  <2>4. g = [k \in 0..n + 1 |-> StateStep(o, s, g, k)] BY <2>2, <2>3
  <2> QED BY <2>4
<1>3. Nat \subseteq Good BY <1>1, <1>2, Induct
<1>4. Len(o) \in Nat BY LenProperties
<1>5. \E f : f = [k \in 0..Len(o) |-> StateStep(o, s, f, k)] BY <1>3, <1>4
<1> QED BY <1>5 DEF States

(* Interpret is the last of the states.                                     *)
LEMMA InterpretIsLast ==
  ASSUME NEW S, NEW o \in Seq(S), NEW s
  PROVE  /\ Interpret(o, s) = States(o, s)[Len(o)] /\ States(o, s)[0] = s
         /\ \A k \in 1..Len(o) : States(o, s)[k] = Leave(o[k], States(o, s)[k - 1])
<1>1. Len(o) \in Nat BY LenProperties
<1>2. States(o, s)[0] = s
  <2>1. 0 \in 0..Len(o) BY <1>1
  <2>2. States(o, s)[0] = StateStep(o, s, States(o, s), 0) BY <2>1, StatesExist
  <2> QED BY <2>2 DEF StateStep
<1>3. ASSUME NEW k \in 1..Len(o) PROVE States(o, s)[k] = Leave(o[k], States(o, s)[k - 1])
  <2>1. k \in 0..Len(o) /\ k # 0 BY <1>1
  <2>2. States(o, s)[k] = StateStep(o, s, States(o, s), k) BY <2>1, StatesExist
  <2> QED BY <2>1, <2>2 DEF StateStep
<1>4. Interpret(o, s) = States(o, s)[Len(o)] BY DEF Interpret, States, StateStep
<1> QED BY <1>2, <1>3, <1>4

(* The interpreter, one step after another.                                 *)
LEMMA InterpretEmpty == \A s : Interpret(<<>>, s) = s
<1> TAKE s
<1> DEFINE o == <<>>
<1>1. o \in Seq({}) /\ Len(o) = 0 BY EmptySeq
<1> HIDE DEF o
<1>2. Interpret(o, s) = States(o, s)[Len(o)] /\ States(o, s)[0] = s BY <1>1, InterpretIsLast
<1>3. Interpret(o, s) = s BY <1>1, <1>2
<1> QED BY <1>3 DEF o

(* One more step of an order.                                               *)
LEMMA InterpretAppend ==
  ASSUME NEW S, NEW o \in Seq(S), NEW x \in S, NEW s
  PROVE  Interpret(Append(o, x), s) = Leave(x, Interpret(o, s))
<1> DEFINE r == Append(o, x)
<1>1. /\ r \in Seq(S) /\ Len(r) = Len(o) + 1 /\ r[Len(o) + 1] = x
      /\ \A i \in 1..Len(o) : r[i] = o[i]
  BY AppendProperties
<1>2. Len(o) \in Nat BY LenProperties
<1> DEFINE Good == {n \in Nat : n <= Len(o) => States(r, s)[n] = States(o, s)[n]}
<1> HIDE DEF r
<1>3. 0 \in Good BY <1>1, InterpretIsLast
<1>4. ASSUME NEW n \in Nat, n \in Good PROVE n + 1 \in Good
  <2>1. ASSUME n + 1 <= Len(o) PROVE States(r, s)[n + 1] = States(o, s)[n + 1]
    <3>1. n + 1 \in 1..Len(o) /\ n + 1 \in 1..Len(r) /\ (n + 1) - 1 = n /\ n <= Len(o)
      BY <1>1, <1>2, <2>1
    <3>2. States(r, s)[n + 1] = Leave(r[n + 1], States(r, s)[n])
      <4>1. States(r, s)[n + 1] = Leave(r[n + 1], States(r, s)[(n + 1) - 1])
        BY <1>1, <3>1, InterpretIsLast
      <4> QED BY <3>1, <4>1
    <3>3. States(o, s)[n + 1] = Leave(o[n + 1], States(o, s)[n]) BY <3>1, InterpretIsLast
    <3>4. States(r, s)[n] = States(o, s)[n] BY <1>4, <3>1
    <3> QED BY <1>1, <3>1, <3>2, <3>3, <3>4
  <2> QED BY <2>1
<1> HIDE DEF Good
<1>5. Nat \subseteq Good BY <1>3, <1>4, Induct
<1>6. States(r, s)[Len(o)] = States(o, s)[Len(o)] BY <1>2, <1>5 DEF Good
<1>7. Len(r) \in 1..Len(r) /\ Len(r) - 1 = Len(o) BY <1>1, <1>2
<1>8. States(r, s)[Len(r)] = Leave(r[Len(r)], States(r, s)[Len(r) - 1])
  BY <1>1, <1>7, InterpretIsLast
<1>9. Interpret(r, s) = States(r, s)[Len(r)] BY <1>1, InterpretIsLast
<1>10. Interpret(o, s) = States(o, s)[Len(o)] BY InterpretIsLast
<1>11. Interpret(r, s) = Leave(x, Interpret(o, s)) BY <1>1, <1>6, <1>7, <1>8, <1>9, <1>10
<1> QED BY <1>11 DEF r

(* An order after another goes on from the state the first one ends in.     *)
LEMMA InterpretConcat ==
  ASSUME NEW S, NEW a \in Seq(S), NEW b \in Seq(S), NEW s
  PROVE  Interpret(a \o b, s) = Interpret(b, Interpret(a, s))
<1> DEFINE P == {p \in Seq(S) : Interpret(a \o p, s) = Interpret(p, Interpret(a, s))}
<1>1. <<>> \in P
  <2>1. a \o <<>> = a BY ConcatEmptySeq
  <2>2. <<>> \in Seq(S) BY EmptySeq
  <2> QED BY <2>1, <2>2, InterpretEmpty
<1>2. ASSUME NEW p \in Seq(S), NEW x \in S, p \in P PROVE Append(p, x) \in P
  <2>1. Interpret(Append(p, x), Interpret(a, s)) = Leave(x, Interpret(p, Interpret(a, s)))
    BY InterpretAppend
  <2>2. Append(p, x) \in Seq(S) BY AppendProperties
  <2>3. a \o Append(p, x) = Append(a \o p, x) OBVIOUS
  <2>4. a \o p \in Seq(S) BY ConcatProperties
  <2>5. Interpret(Append(a \o p, x), s) = Leave(x, Interpret(a \o p, s))
    BY <2>4, InterpretAppend
  <2> QED BY <1>2, <2>1, <2>2, <2>3, <2>5
<1> HIDE DEF P
<1>4. Seq(S) \subseteq P BY <1>1, <1>2, SeqInduct
<1>5. b \in P BY <1>4
<1> QED BY <1>5 DEF P

----------------------------------------------------------------------------
Ops == Pure \cup {"call", "virtual", "move", "exp", "cjump", "return", "label", "seq", "eseq",
                 "none"}
Steps == [op : Ops, name : Nat, arity : Nat]
Code == Seq(Steps)
Orders(q) == [i \in DOMAIN q |-> q[i].order]

\* A list of nodes that can be interpreted.
IsList(q) == \E N : q \in Seq(N) /\ \A x \in N : x.order \in Code

(* The orders of a list are those of its parts.                             *)
LEMMA OrdersAre ==
  ASSUME NEW q, IsList(q)
  PROVE  /\ Orders(q) \in Seq(Code) /\ Len(Orders(q)) = Len(q) /\ Len(q) \in Nat
         /\ DOMAIN q = 1..Len(q) /\ \A i \in 1..Len(q) : Orders(q)[i] = q[i].order
<1>1. PICK N : q \in Seq(N) /\ \A x \in N : x.order \in Code BY DEF IsList
<1>2. Len(q) \in Nat /\ DOMAIN q = 1..Len(q) /\ \A i \in 1..Len(q) : q[i] \in N
  BY <1>1, LenProperties, ElementOfSeq
<1>3. Orders(q) = [i \in 1..Len(q) |-> q[i].order] BY <1>2 DEF Orders
<1> DEFINE C == Code
<1>4. \A i \in 1..Len(q) : q[i].order \in C BY <1>1, <1>2
<1> HIDE DEF C
<1>5. [i \in 1..Len(q) |-> q[i].order] \in Seq(C) BY <1>2, <1>4
<1> QED BY <1>2, <1>3, <1>5 DEF C

(* The empty list.                                                          *)
LEMMA ListEmpty == IsList(<<>>)
<1> DEFINE N == {}
<1>1. <<>> \in Seq(N) /\ \A x \in N : x.order \in Code BY EmptySeq
<1> HIDE DEF N
<1> QED BY <1>1 DEF IsList

(* A list after another.                                                    *)
LEMMA ListConcat ==
  ASSUME NEW a, IsList(a), NEW b, IsList(b)
  PROVE  IsList(a \o b) /\ Orders(a \o b) = Orders(a) \o Orders(b)
<1>1. PICK M : a \in Seq(M) /\ \A x \in M : x.order \in Code BY DEF IsList
<1>2. PICK N : b \in Seq(N) /\ \A x \in N : x.order \in Code BY DEF IsList
<1> DEFINE T == M \cup N
<1>3. a \in Seq(T) /\ b \in Seq(T) BY <1>1, <1>2, SeqMonotonic
<1>4. \A x \in T : x.order \in Code BY <1>1, <1>2
<1> HIDE DEF T
<1>5. /\ a \o b \in Seq(T) /\ Len(a \o b) = Len(a) + Len(b)
      /\ \A i \in 1..Len(a) + Len(b) :
           (a \o b)[i] = IF i <= Len(a) THEN a[i] ELSE b[i - Len(a)]
  BY <1>3, ConcatProperties
<1>6. IsList(a \o b) BY <1>4, <1>5 DEF IsList
<1> DEFINE c == a \o b
<1>7. /\ Orders(c) \in Seq(Code) /\ Len(Orders(c)) = Len(c)
      /\ \A i \in 1..Len(c) : Orders(c)[i] = c[i].order
  BY <1>6, OrdersAre
<1>8. /\ Orders(a) \in Seq(Code) /\ Len(Orders(a)) = Len(a) /\ Len(a) \in Nat
      /\ \A i \in 1..Len(a) : Orders(a)[i] = a[i].order
  BY OrdersAre
<1>9. /\ Orders(b) \in Seq(Code) /\ Len(Orders(b)) = Len(b) /\ Len(b) \in Nat
      /\ \A i \in 1..Len(b) : Orders(b)[i] = b[i].order
  BY OrdersAre
<1> DEFINE C == Code
           d == Orders(a) \o Orders(b)
<1>10. Orders(a) \in Seq(C) /\ Orders(b) \in Seq(C) /\ Orders(c) \in Seq(C)
  BY <1>7, <1>8, <1>9
<1> HIDE DEF C
<1>11. /\ d \in Seq(C) /\ Len(d) = Len(a) + Len(b)
       /\ \A i \in 1..Len(a) + Len(b) :
            d[i] = IF i <= Len(a) THEN Orders(a)[i] ELSE Orders(b)[i - Len(a)]
  <2>1. Len(d) = Len(Orders(a)) + Len(Orders(b)) BY <1>10, ConcatProperties
  <2> QED BY <1>8, <1>9, <1>10, <2>1, ConcatProperties
<1>12. Len(c) = Len(a) + Len(b) BY <1>5
<1>13. ASSUME NEW i \in 1..Len(c) PROVE Orders(c)[i] = d[i]
  <2>1. CASE i <= Len(a)
    <3>1. i \in 1..Len(a) BY <1>8, <2>1
    <3>2. c[i] = a[i] BY <1>5, <1>12, <2>1
    <3> HIDE DEF c, d
    <3> QED BY <1>7, <1>8, <1>11, <1>12, <2>1, <3>1, <3>2
  <2>2. CASE ~(i <= Len(a))
    <3>1. i - Len(a) \in 1..Len(b) BY <1>8, <1>9, <1>12, <2>2
    <3>2. c[i] = b[i - Len(a)] BY <1>5, <1>12, <2>2
    <3> HIDE DEF c, d
    <3> QED BY <1>7, <1>9, <1>11, <1>12, <2>2, <3>1, <3>2
  <2> QED BY <2>1, <2>2
<1> HIDE DEF c, d
<1>14. Orders(c) = d BY <1>7, <1>10, <1>11, <1>12, <1>13, SeqEqual
<1> QED BY <1>6, <1>14 DEF c, d

(* A list of one node.                                                      *)
LEMMA ListOne ==
  ASSUME NEW x, x.order \in Code
  PROVE  IsList(<<x>>) /\ Orders(<<x>>) = <<x.order>>
<1> DEFINE N == {x}
<1>1. <<x>> \in Seq(N) /\ \A y \in N : y.order \in Code OBVIOUS
<1> HIDE DEF N
<1>2. IsList(<<x>>) BY <1>1 DEF IsList
<1>3. Orders(<<x>>) = <<x.order>> BY DEF Orders
<1> QED BY <1>2, <1>3

(* The postorder of a list.                                                 *)
LEMMA PostorderEmpty == Postorder(<<>>) = <<>>
<1>1. [i \in DOMAIN <<>> |-> <<>>[i].order] = <<>> OBVIOUS
<1> QED BY <1>1, FlattenEmpty DEF Postorder

(* A list's postorder is that of its nodes, flattened.                      *)
LEMMA PostorderType ==
  ASSUME NEW q, IsList(q)
  PROVE  Postorder(q) \in Code /\ Postorder(q) = FlattenSeq(Orders(q))
<1>1. Orders(q) \in Seq(Seq(Steps)) BY OrdersAre DEF Code
<1>2. FlattenSeq(Orders(q)) \in Seq(Steps) BY <1>1, FlattenType
<1> QED BY <1>2 DEF Postorder, Orders, Code

(* Lists one after the other have their orders one after the other.         *)
LEMMA PostorderConcat ==
  ASSUME NEW a, IsList(a), NEW b, IsList(b)
  PROVE  Postorder(a \o b) = Postorder(a) \o Postorder(b)
<1>1. Orders(a) \in Seq(Seq(Steps)) /\ Orders(b) \in Seq(Seq(Steps)) BY OrdersAre DEF Code
<1>2. FlattenSeq(Orders(a) \o Orders(b)) = FlattenSeq(Orders(a)) \o FlattenSeq(Orders(b))
  BY <1>1, FlattenConcat
<1>3. IsList(a \o b) /\ Orders(a \o b) = Orders(a) \o Orders(b) BY ListConcat
<1>4. Postorder(a \o b) = FlattenSeq(Orders(a \o b)) BY <1>3, PostorderType
<1> QED BY <1>2, <1>3, <1>4, PostorderType

(* The order of one node's list is the node's.                              *)
LEMMA PostorderOne ==
  ASSUME NEW x, x.order \in Code
  PROVE  Postorder(<<x>>) = x.order
<1> DEFINE o == x.order
<1>1. Orders(<<x>>) = <<o>> /\ IsList(<<x>>) BY ListOne
<1>2. o \in Seq(Steps) BY DEF Code
<1> HIDE DEF o
<1>3. <<>> \in Seq(Seq(Steps)) /\ <<o>> = Append(<<>>, o) BY <1>2
<1>4. FlattenSeq(<<o>>) = FlattenSeq(<<>>) \o o BY <1>2, <1>3, FlattenAppend
<1>5. FlattenSeq(<<o>>) = o BY <1>2, <1>4, FlattenEmpty, ConcatEmptySeq
<1> QED BY <1>1, <1>5, PostorderType DEF o

----------------------------------------------------------------------------
IsSeq(q) == \E I : q \in Seq(I)

IsState(s) ==
  /\ s = [temps |-> s.temps, events |-> s.events, stack |-> s.stack]
  /\ s.temps = [m \in DOMAIN s.temps |-> s.temps[m]]
  /\ IsSeq(s.stack)

(* Sequences of any items.                                                  *)
LEMMA SeqAppend ==
  ASSUME NEW q, IsSeq(q), NEW x
  PROVE  /\ IsSeq(Append(q, x)) /\ Append(q, x) = q \o <<x>>
         /\ Len(q) \in Nat /\ Len(Append(q, x)) = Len(q) + 1
         /\ Append(q, x)[Len(q) + 1] = x /\ SubSeq(Append(q, x), 1, Len(q)) = q
         /\ \A i \in 1..Len(q) : Append(q, x)[i] = q[i]
<1>1. PICK I : q \in Seq(I) BY DEF IsSeq
<1> DEFINE J == I \cup {x}
<1>2. q \in Seq(J) /\ x \in J BY <1>1, SeqMonotonic
<1> HIDE DEF J
<1>3. Append(q, x) \in Seq(J) BY <1>2, AppendProperties
<1>4. Len(q) \in Nat BY <1>2, LenProperties
<1>5. SubSeq(Append(q, x), 1, Len(q)) = q BY <1>2, <1>4
<1> QED BY <1>2, <1>3, <1>4, <1>5, AppendProperties, AppendIsConcat DEF IsSeq

(* One sequence of any items after another.                                 *)
LEMMA SeqConcat ==
  ASSUME NEW q, IsSeq(q), NEW p, IsSeq(p)
  PROVE  /\ IsSeq(q \o p) /\ Len(q) \in Nat /\ Len(p) \in Nat
         /\ Len(q \o p) = Len(q) + Len(p)
         /\ \A i \in 1..Len(p) : (q \o p)[Len(q) + i] = p[i]
         /\ SubSeq(q \o p, 1, Len(q)) = q
         /\ \A x : Append(q \o p, x) = q \o Append(p, x)
         /\ q \o <<>> = q
<1>1. PICK I : q \in Seq(I) BY DEF IsSeq
<1>2. PICK K : p \in Seq(K) BY DEF IsSeq
<1> DEFINE J == I \cup K
<1>3. q \in Seq(J) /\ p \in Seq(J) BY <1>1, <1>2, SeqMonotonic
<1> HIDE DEF J
<1>4. /\ q \o p \in Seq(J) /\ Len(q \o p) = Len(q) + Len(p)
      /\ \A i \in 1..Len(q) + Len(p) :
           (q \o p)[i] = IF i <= Len(q) THEN q[i] ELSE p[i - Len(q)]
  BY <1>3, ConcatProperties
<1>5. Len(q) \in Nat /\ Len(p) \in Nat BY <1>3, LenProperties
<1>6. ASSUME NEW i \in 1..Len(p) PROVE (q \o p)[Len(q) + i] = p[i]
  <2>1. /\ Len(q) + i \in 1..Len(q) + Len(p) /\ ~(Len(q) + i <= Len(q))
        /\ (Len(q) + i) - Len(q) = i
    BY <1>5
  <2> QED BY <1>4, <2>1
<1>7. SubSeq(q \o p, 1, Len(q)) = q
  <2> DEFINE r == SubSeq(q \o p, 1, Len(q))
  <2>1. \A i \in 1..Len(q) : (q \o p)[i] = q[i] /\ (q \o p)[i] \in J
    BY <1>3, <1>4, <1>5, ElementOfSeq
  <2>2. /\ r \in Seq(J) /\ Len(r) = IF 1 <= Len(q) THEN Len(q) - 1 + 1 ELSE 0
        /\ \A i \in 1..Len(q) - 1 + 1 : r[i] = (q \o p)[1 + i - 1]
    BY <1>5, <2>1, SubSeqProperties
  <2>3. Len(r) = Len(q) BY <1>5, <2>2
  <2>4. \A i \in 1..Len(r) : r[i] = q[i] BY <1>5, <2>1, <2>2, <2>3
  <2> HIDE DEF r
  <2>5. r \in Seq(J) BY <2>2
  <2>6. r = q BY <1>3, <2>3, <2>4, <2>5, SeqEqual
  <2> QED BY <2>6 DEF r
<1>8. ASSUME NEW x PROVE Append(q \o p, x) = q \o Append(p, x)
  <2> DEFINE L == J \cup {x}
  <2>1. q \in Seq(L) /\ p \in Seq(L) /\ x \in L BY <1>3, SeqMonotonic
  <2> HIDE DEF L
  <2>2. q \o p \in Seq(L) /\ <<x>> \in Seq(L) BY <2>1, ConcatProperties
  <2>3. Append(q \o p, x) = (q \o p) \o <<x>> BY <2>1, <2>2, AppendIsConcat
  <2>4. Append(p, x) = p \o <<x>> BY <2>1, AppendIsConcat
  <2> QED BY <2>1, <2>2, <2>3, <2>4, ConcatAssociative
<1> QED BY <1>3, <1>4, <1>5, <1>6, <1>7, <1>8, ConcatEmptySeq DEF IsSeq

(* What is pushed, popped and done.                                         *)
LEMMA PushIs ==
  ASSUME NEW s, IsState(s), NEW item
  PROVE  /\ IsState(Push(item, s)) /\ Push(item, s).temps = s.temps
         /\ Push(item, s).events = s.events /\ Push(item, s).stack = Append(s.stack, item)
<1>1. Push(item, s) = [temps |-> s.temps, events |-> s.events, stack |-> Append(s.stack, item)]
  <2>1. s = [temps |-> s.temps, events |-> s.events, stack |-> s.stack] BY DEF IsState
  <2> QED BY <2>1 DEF Push
<1>2. IsSeq(Append(s.stack, item)) BY SeqAppend DEF IsState
<1> QED BY <1>1, <1>2 DEF IsState

(* An event is the last one; nothing else changes.                          *)
LEMMA EventIs ==
  ASSUME NEW s, IsState(s), NEW op, NEW of
  PROVE  /\ IsState(Event(op, of, s)) /\ Event(op, of, s).temps = s.temps
         /\ Event(op, of, s).events = Append(s.events, Term(op, 0, of, 0))
         /\ Event(op, of, s).stack = s.stack
<1>1. Event(op, of, s) = [temps |-> s.temps, events |-> Append(s.events, Term(op, 0, of, 0)),
                          stack |-> s.stack]
  BY DEF Event, IsState
<1> QED BY <1>1 DEF IsState

(* A temporary that is set has the value; the others keep theirs.           *)
LEMMA PutIs ==
  ASSUME NEW s, IsState(s), NEW m, NEW value
  PROVE  LET t == [s EXCEPT !.temps[m] = value]
         IN  /\ IsState(t) /\ t.events = s.events /\ t.stack = s.stack
             /\ t.temps = [s.temps EXCEPT ![m] = value] /\ DOMAIN t.temps = DOMAIN s.temps
             /\ m \in DOMAIN s.temps => t.temps[m] = value
             /\ \A l \in DOMAIN s.temps : l # m => t.temps[l] = s.temps[l]
<1> DEFINE t == [s EXCEPT !.temps[m] = value]
           u == [s.temps EXCEPT ![m] = value]
<1>1. t = [temps |-> u, events |-> s.events, stack |-> s.stack] BY DEF IsState
<1>2. u = [l \in DOMAIN s.temps |-> IF l = m THEN value ELSE s.temps[l]] BY DEF IsState
<1>3. DOMAIN u = DOMAIN s.temps BY <1>2
<1>4. \A l \in DOMAIN s.temps : u[l] = IF l = m THEN value ELSE s.temps[l] BY <1>2
<1>5. u = [l \in DOMAIN u |-> u[l]] BY <1>2
<1> HIDE DEF u
<1>6. t.temps = u /\ t.events = s.events /\ t.stack = s.stack BY <1>1
<1>7. IsState(t) BY <1>1, <1>5 DEF IsState
<1> HIDE DEF t
<1>8. /\ IsState(t) /\ t.events = s.events /\ t.stack = s.stack
      /\ t.temps = u /\ DOMAIN t.temps = DOMAIN s.temps
      /\ m \in DOMAIN s.temps => t.temps[m] = value
      /\ \A l \in DOMAIN s.temps : l # m => t.temps[l] = s.temps[l]
  BY <1>3, <1>4, <1>6, <1>7
<1> QED BY <1>8 DEF t, u

(* Popping takes the last items away and yields their values in order.      *)
LEMMA PopIs ==
  ASSUME NEW s, IsState(s), NEW base, IsSeq(base), NEW items, IsSeq(items),
         s.stack = base \o items
  PROVE  /\ IsState(Pop(Len(items), s)) /\ Pop(Len(items), s).temps = s.temps
         /\ Pop(Len(items), s).events = s.events /\ Pop(Len(items), s).stack = base
         /\ Popped(Len(items), s) = [i \in 1..Len(items) |-> items[i].value]
<1> DEFINE k == Len(items)
<1>1. /\ Len(s.stack) = Len(base) + k /\ Len(base) \in Nat /\ k \in Nat
      /\ SubSeq(s.stack, 1, Len(base)) = base
      /\ \A i \in 1..k : s.stack[Len(base) + i] = items[i]
  BY SeqConcat
<1>2. Len(s.stack) - k = Len(base) BY <1>1
<1>3. Pop(k, s) = [temps |-> s.temps, events |-> s.events, stack |-> base]
  BY <1>1, <1>2 DEF Pop, IsState
<1>4. Popped(k, s) = [i \in 1..k |-> items[i].value] BY <1>1, <1>2 DEF Popped
<1> QED BY <1>3, <1>4 DEF IsState

\* A state with these parts.
Is(s, temps, events, stack) ==
  IsState(s) /\ s.temps = temps /\ s.events = events /\ s.stack = stack

(* What is pushed on, done to and put into a state.                         *)
LEMMA Pushes ==
  ASSUME NEW s, NEW temps, NEW events, NEW stack, Is(s, temps, events, stack), NEW item
  PROVE  Is(Push(item, s), temps, events, Append(stack, item))
<1>1. IsState(s) BY DEF Is
<1> QED BY <1>1, PushIs DEF Is

(* An event in such a state.                                                *)
LEMMA Happens ==
  ASSUME NEW s, NEW temps, NEW events, NEW stack, Is(s, temps, events, stack), NEW op, NEW of
  PROVE  Is(Event(op, of, s), temps, Append(events, Term(op, 0, of, 0)), stack)
<1>1. IsState(s) BY DEF Is
<1> QED BY <1>1, EventIs DEF Is

(* A temporary set in such a state.                                         *)
LEMMA Puts ==
  ASSUME NEW s, NEW temps, NEW events, NEW stack, Is(s, temps, events, stack),
         NEW m, NEW value
  PROVE  Is([s EXCEPT !.temps[m] = value], [temps EXCEPT ![m] = value], events, stack)
<1>1. IsState(s) BY DEF Is
<1> DEFINE t == [s EXCEPT !.temps[m] = value]
<1>2. /\ IsState(t) /\ t.events = s.events /\ t.stack = s.stack
      /\ t.temps = [s.temps EXCEPT ![m] = value]
  BY <1>1, PutIs
<1> HIDE DEF t
<1>3. Is(t, [temps EXCEPT ![m] = value], events, stack) BY <1>2 DEF Is
<1> QED BY <1>3 DEF t

(* Popping none, one and two items.                                         *)
LEMMA PopNone ==
  ASSUME NEW s, IsState(s)
  PROVE  Is(Pop(0, s), s.temps, s.events, s.stack) /\ Popped(0, s) = <<>>
<1> DEFINE n == <<>>
<1>1. n \in Seq({}) /\ Len(n) = 0 BY EmptySeq
<1>2. s.stack \o n = s.stack
  <2>1. PICK I : s.stack \in Seq(I) BY DEF IsState, IsSeq
  <2> QED BY <2>1, ConcatEmptySeq
<1>3. IsSeq(n) BY <1>1 DEF IsSeq
<1> HIDE DEF n
<1>4. IsSeq(s.stack) BY DEF IsState
<1>5. Is(Pop(0, s), s.temps, s.events, s.stack) BY <1>1, <1>2, <1>3, <1>4, PopIs DEF Is
<1>6. Popped(0, s) = <<>> BY DEF Popped
<1> QED BY <1>5, <1>6

(* One item popped.                                                         *)
LEMMA PopOne ==
  ASSUME NEW s, IsState(s), NEW base, IsSeq(base), NEW item, s.stack = Append(base, item)
  PROVE  Is(Pop(1, s), s.temps, s.events, base) /\ Popped(1, s) = <<item.value>>
<1> DEFINE n == <<item>>
<1>1. n \in Seq({item}) /\ Len(n) = 1 /\ n[1] = item OBVIOUS
<1>2. s.stack = base \o n BY SeqAppend
<1>3. IsSeq(n) BY <1>1 DEF IsSeq
<1> HIDE DEF n
<1>4. Is(Pop(1, s), s.temps, s.events, base) /\ Popped(1, s) = [i \in 1..1 |-> n[i].value]
  <2>1. /\ IsState(Pop(Len(n), s)) /\ Pop(Len(n), s).temps = s.temps
        /\ Pop(Len(n), s).events = s.events /\ Pop(Len(n), s).stack = base
        /\ Popped(Len(n), s) = [i \in 1..Len(n) |-> n[i].value]
    BY <1>2, <1>3, PopIs, SMTT(30)
  <2>2. Is(Pop(Len(n), s), s.temps, s.events, base) BY <2>1 DEF Is
  <2> QED BY <1>1, <2>1, <2>2
<1>5. [i \in 1..1 |-> n[i].value] = <<item.value>> BY <1>1
<1> QED BY <1>4, <1>5

(* Two items popped.                                                        *)
LEMMA PopTwo ==
  ASSUME NEW s, IsState(s), NEW base, IsSeq(base), NEW l, NEW r,
         s.stack = Append(Append(base, l), r)
  PROVE  Is(Pop(2, s), s.temps, s.events, base) /\ Popped(2, s) = <<l.value, r.value>>
         /\ s.stack[Len(s.stack) - 1] = l
<1> DEFINE n == <<l, r>>
<1>1. n \in Seq({l, r}) /\ Len(n) = 2 /\ n[1] = l /\ n[2] = r OBVIOUS
<1>2. s.stack = base \o n
  <2>1. PICK I : base \in Seq(I) BY DEF IsSeq
  <2> DEFINE J == I \cup {l, r}
  <2>2. base \in Seq(J) /\ l \in J /\ r \in J BY <2>1, SeqMonotonic
  <2> HIDE DEF J
  <2>3. <<l>> \in Seq(J) /\ <<r>> \in Seq(J) /\ <<l>> \o <<r>> = <<l, r>>
    <3>1. <<l>> \in Seq(J) /\ <<r>> \in Seq(J) BY <2>2
    <3>2. Append(<<l>>, r) = <<l>> \o <<r>> BY <2>2, <3>1, AppendIsConcat
    <3>3. Append(<<l>>, r) = <<l, r>>
      <4> DEFINE a == Append(<<l>>, r)
                 b == <<l, r>>
      <4>1. a \in Seq(J) /\ Len(a) = 2 /\ a[1] = l /\ a[2] = r BY <2>2, <3>1
      <4>2. b \in Seq(J) /\ Len(b) = 2 /\ b[1] = l /\ b[2] = r BY <2>2
      <4> HIDE DEF a, b
      <4>3. \A i \in 1..Len(a) : a[i] = b[i] BY <4>1, <4>2
      <4>4. a = b BY <4>1, <4>2, <4>3, SeqEqual
      <4> QED BY <4>4 DEF a, b
    <3> QED BY <3>1, <3>2, <3>3
  <2>4. Append(base, l) = base \o <<l>> /\ base \o <<l>> \in Seq(J)
    BY <2>2, <2>3, AppendIsConcat, ConcatProperties
  <2>5. Append(base \o <<l>>, r) = (base \o <<l>>) \o <<r>> BY <2>2, <2>4, AppendIsConcat
  <2>6. (base \o <<l>>) \o <<r>> = base \o (<<l>> \o <<r>>)
    BY <2>2, <2>3, ConcatAssociative, SMTT(30)
  <2> QED BY <2>3, <2>4, <2>5, <2>6
<1>3. IsSeq(n) BY <1>1 DEF IsSeq
<1>6. s.stack[Len(s.stack) - 1] = l
  <2>1. IsSeq(Append(base, l)) /\ Len(base) \in Nat /\ Len(Append(base, l)) = Len(base) + 1
        /\ Append(base, l)[Len(base) + 1] = l
    BY SeqAppend
  <2> DEFINE q == Append(base, l)
  <2> HIDE DEF q
  <2>2. Len(s.stack) = Len(q) + 1 /\ Len(q) = Len(base) + 1
        /\ \A i \in 1..Len(q) : s.stack[i] = q[i]
    BY <2>1, SeqAppend DEF q
  <2>3. Len(s.stack) - 1 = Len(q) /\ Len(q) \in 1..Len(q) BY <2>1, <2>2
  <2> QED BY <2>1, <2>2, <2>3 DEF q
<1> HIDE DEF n
<1>4. Is(Pop(2, s), s.temps, s.events, base) /\ Popped(2, s) = [i \in 1..2 |-> n[i].value]
  <2>1. /\ IsState(Pop(Len(n), s)) /\ Pop(Len(n), s).temps = s.temps
        /\ Pop(Len(n), s).events = s.events /\ Pop(Len(n), s).stack = base
        /\ Popped(Len(n), s) = [i \in 1..Len(n) |-> n[i].value]
    BY <1>2, <1>3, PopIs, SMTT(30)
  <2>2. Is(Pop(Len(n), s), s.temps, s.events, base) BY <2>1 DEF Is
  <2> QED BY <1>1, <2>1, <2>2
<1>5. [i \in 1..2 |-> n[i].value] = <<l.value, r.value>> BY <1>1
<1> QED BY <1>4, <1>5, <1>6

(* Simulator::leave on each kind of node.                                   *)
LEMMA LeaveTemp ==
  ASSUME NEW s, IsState(s), NEW m
  PROVE  Is(Leave(Step("temp", m, 0), s), s.temps, s.events,
            Append(s.stack, Item("temp", s.temps[m], m)))
<1>1. Leave(Step("temp", m, 0), s) = Push(Item("temp", s.temps[m], m), Pop(0, s))
  BY DEF Leave, Step, Operators, Comparisons, Dividing
<1> QED BY <1>1, PopNone, Pushes

(* A static field is read when it is left.                                  *)
LEMMA LeaveGlobal ==
  ASSUME NEW s, IsState(s), NEW m
  PROVE  Is(Leave(Step("global", m, 0), s), s.temps, s.events,
            Append(s.stack, Item("global", Term("global", m, <<>>, Len(s.events)), m)))
<1>1. Leave(Step("global", m, 0), s)
        = Push(Item("global", Term("global", m, <<>>, Len(s.events)), m), Pop(0, s))
  BY DEF Leave, Step, Operators, Comparisons, Dividing
<1> QED BY <1>1, PopNone, Pushes

(* A word of memory is read, and knows the address it is from.              *)
LEMMA LeaveMem ==
  ASSUME NEW s, IsState(s), NEW base, IsSeq(base), NEW item, s.stack = Append(base, item)
  PROVE  Is(Leave(Step("mem", 0, 1), s), s.temps, s.events,
            Append(base, Item("mem", Term("mem", 0, <<item.value>>, Len(s.events)), item.value)))
<1>1. Leave(Step("mem", 0, 1), s)
        = Push(Item("mem", Term("mem", 0, Popped(1, s), Len(s.events)), Popped(1, s)[1]), Pop(1, s))
  BY DEF Leave, Step, Operators, Comparisons, Dividing
<1>2. Popped(1, s)[1] = item.value BY PopOne
<1> QED BY <1>1, <1>2, PopOne, Pushes

(* An operator takes two values; a division may end the program.            *)
LEMMA LeaveOperator ==
  ASSUME NEW op \in Operators, NEW s, IsState(s), NEW base, IsSeq(base), NEW l, NEW r,
         s.stack = Append(Append(base, l), r)
  PROVE  Is(Leave(Step(op, 0, 2), s), s.temps,
            IF op \in Dividing THEN Append(s.events, Term("div", 0, <<l.value, r.value>>, 0))
                               ELSE s.events,
            Append(base, Computed(Term(op, 0, <<l.value, r.value>>, 0))))
<1> DEFINE of == Popped(2, s)
           rest == Pop(2, s)
           t == IF op \in Dividing THEN Event("div", of, rest) ELSE rest
<1>1. op \notin {"temp", "global", "mem"} BY DEF Operators, Comparisons, Dividing
<1>2. Leave(Step(op, 0, 2), s) = Push(Computed(Term(op, 0, of, 0)), t)
  <2>1. op \notin {"call", "virtual", "move", "exp", "cjump", "return", "label"}
    BY DEF Operators, Comparisons, Dividing
  <2>2. Step(op, 0, 2).op = op /\ Step(op, 0, 2).arity = 2 BY DEF Step
  <2> QED BY <1>1, <2>1, <2>2 DEF Leave
<1>3. of = <<l.value, r.value>> /\ Is(rest, s.temps, s.events, base) BY PopTwo
<1> HIDE DEF of, rest
<1>4. Is(t, s.temps, IF op \in Dividing THEN Append(s.events, Term("div", 0, of, 0))
                                        ELSE s.events, base)
  <2>1. CASE op \in Dividing BY <1>3, <2>1, Happens
  <2>2. CASE op \notin Dividing BY <1>3, <2>2
  <2> QED BY <2>1, <2>2
<1> HIDE DEF t
<1> QED BY <1>2, <1>3, <1>4, Pushes

(* A move assigns the place it popped first.                                *)
LEMMA LeaveMove ==
  ASSUME NEW s, IsState(s), NEW base, IsSeq(base), NEW l, NEW r,
         s.stack = Append(Append(base, l), r)
  PROVE  LET t == Leave(Step("move", 0, 2), s)
         IN  /\ l.kind = "temp" => Is(t, [s.temps EXCEPT ![l.place] = r.value], s.events, base)
             /\ l.kind = "mem" => Is(t, s.temps,
                   Append(s.events, Term("store", 0, <<l.place, r.value>>, 0)), base)
             /\ l.kind = "global" => Is(t, s.temps,
                   Append(s.events, Term("set", 0, <<r.value>>, 0)), base)
<1> DEFINE rest == Pop(2, s)
           of == Popped(2, s)
<1>1. Leave(Step("move", 0, 2), s) = Assign(s.stack[Len(s.stack) - 1], of[2], rest)
  BY DEF Leave, Step, Operators, Comparisons, Dividing
<1>2. of[2] = r.value /\ s.stack[Len(s.stack) - 1] = l /\ Is(rest, s.temps, s.events, base)
  <2>1. of = <<l.value, r.value>> /\ s.stack[Len(s.stack) - 1] = l
        /\ Is(rest, s.temps, s.events, base)
    BY PopTwo
  <2> HIDE DEF of, rest
  <2> QED BY <2>1
<1> HIDE DEF of, rest
<1>3. Leave(Step("move", 0, 2), s) = Assign(l, r.value, rest) BY <1>1, <1>2
<1>4. CASE l.kind = "temp"
  <2>1. Assign(l, r.value, rest) = [rest EXCEPT !.temps[l.place] = r.value] BY <1>4 DEF Assign
  <2>2. Is([rest EXCEPT !.temps[l.place] = r.value], [s.temps EXCEPT ![l.place] = r.value],
           s.events, base)
    BY <1>2, Puts
  <2> QED BY <1>3, <1>4, <2>1, <2>2
<1>5. CASE l.kind = "mem"
  <2>1. Assign(l, r.value, rest) = Event("store", <<l.place, r.value>>, rest)
    BY <1>5 DEF Assign
  <2> QED BY <1>2, <1>3, <1>5, <2>1, Happens
<1>6. CASE l.kind = "global"
  <2>1. Assign(l, r.value, rest) = Event("set", <<r.value>>, rest) BY <1>6 DEF Assign
  <2> QED BY <1>2, <1>3, <1>6, <2>1, Happens
<1> QED BY <1>4, <1>5, <1>6

(* Of an expression statement over a call the value is taken away.          *)
LEMMA LeaveExp ==
  ASSUME NEW s, IsState(s), NEW base, IsSeq(base), NEW item, s.stack = Append(base, item)
  PROVE  Is(Leave(Step("exp", 0, 1), s), s.temps, s.events, base)
<1>1. Leave(Step("exp", 0, 1), s) = Pop(1, s)
  BY DEF Leave, Step, Operators, Comparisons, Dividing
<1> QED BY <1>1, PopOne

(* A jump is an event.                                                      *)
LEMMA LeaveJump ==
  ASSUME NEW op \in {"cjump", "return"}, NEW s, IsState(s), NEW base, IsSeq(base), NEW item,
         s.stack = Append(base, item)
  PROVE  Is(Leave(Step(op, 0, 1), s), s.temps,
            Append(s.events, Term(op, 0, <<item.value>>, 0)), base)
<1>1. Leave(Step(op, 0, 1), s) = Event(op, Popped(1, s), Pop(1, s))
  BY DEF Leave, Step, Operators, Comparisons, Dividing
<1> QED BY <1>1, PopOne, Happens

(* A label is an event.                                                     *)
LEMMA LeaveLabel ==
  ASSUME NEW s, IsState(s)
  PROVE  Is(Leave(Step("label", 0, 0), s), s.temps,
            Append(s.events, Term("label", 0, <<>>, 0)), s.stack)
<1>1. Leave(Step("label", 0, 0), s) = Event("label", Popped(0, s), Pop(0, s))
  BY DEF Leave, Step, Operators, Comparisons, Dividing
<1> QED BY <1>1, PopNone, Happens

(* Sequences do nothing when they are left.                                 *)
LEMMA LeaveOther ==
  ASSUME NEW op \in {"seq", "eseq"}, NEW k, NEW s
  PROVE  Leave(Step(op, 0, k), s) = s
  BY DEF Leave, Step, Operators, Comparisons, Dividing


(* A call takes its arguments and leaves its value twice.                   *)
LEMMA LeaveCalls ==
  ASSUME NEW op \in {"call", "virtual"}, NEW s, IsState(s), NEW base, IsSeq(base),
         NEW items, IsSeq(items), s.stack = base \o items, IsSeq(s.events)
  PROVE  LET of == [i \in 1..Len(items) |-> items[i].value]
             after == Append(s.events, Term("call", 0, of, 0))
             value == Term("returned", 0, <<>>, Len(after))
         IN  Is(Leave(Step(op, 0, Len(items)), s), [s.temps EXCEPT ![Ret] = value], after,
                Append(base, Computed(value)))
<1> DEFINE of == [i \in 1..Len(items) |-> items[i].value]
           after == Append(s.events, Term("call", 0, of, 0))
           value == Term("returned", 0, <<>>, Len(after))
           t == Event("call", of, Pop(Len(items), s))
           u == [t EXCEPT !.temps[Ret] = value]
<1>1. Leave(Step(op, 0, Len(items)), s) = LeaveCall(Popped(Len(items), s), Pop(Len(items), s))
  BY DEF Leave, Step, Operators, Comparisons, Dividing
<1>2. Popped(Len(items), s) = of /\ Is(Pop(Len(items), s), s.temps, s.events, base)
  BY PopIs, SMTT(30) DEF Is
<1> HIDE DEF of
<1>3. Is(t, s.temps, after, base) BY <1>2, Happens
<1> HIDE DEF after
<1>4. LeaveCall(of, Pop(Len(items), s)) = Push(Computed(value), u)
  BY <1>3 DEF LeaveCall, Returned, Is
<1> HIDE DEF t, value
<1>5. Is(u, [s.temps EXCEPT ![Ret] = value], after, base) BY <1>3, Puts
<1> HIDE DEF u
<1>6. Is(Push(Computed(value), u), [s.temps EXCEPT ![Ret] = value], after,
         Append(base, Computed(value)))
  BY <1>5, Pushes
<1>7. Is(Leave(Step(op, 0, Len(items)), s), [s.temps EXCEPT ![Ret] = value], after,
         Append(base, Computed(value)))
  BY <1>1, <1>2, <1>4, <1>6
<1> QED BY <1>7 DEF of, after, value

----------------------------------------------------------------------------
(* Running nodes: one, and a list of them.                                  *)
Do(x, s) == Interpret(x.order, s)
Run(q, s) == Interpret(Postorder(q), s)

(* A list of two is a list of one and another of one.                       *)
LEMMA TwoIsConcat ==
  ASSUME NEW l, NEW r
  PROVE  <<l>> \o <<r>> = <<l, r>>
<1> DEFINE J == {l, r}
           a == <<l>> \o <<r>>
           b == <<l, r>>
<1>1. l \in J /\ r \in J OBVIOUS
<1> HIDE DEF J
<1>2. <<l>> \in Seq(J) /\ <<r>> \in Seq(J) BY <1>1
<1>3. /\ a \in Seq(J) /\ Len(a) = 2
      /\ \A i \in 1..2 : a[i] = IF i <= 1 THEN <<l>>[i] ELSE <<r>>[i - 1]
  BY <1>2, ConcatProperties
<1>4. b \in Seq(J) /\ Len(b) = 2 /\ b[1] = l /\ b[2] = r BY <1>1
<1>5. a[1] = l /\ a[2] = r BY <1>3
<1> HIDE DEF a, b
<1>6. \A i \in 1..Len(a) : a[i] = b[i] BY <1>3, <1>4, <1>5
<1>7. a = b BY <1>3, <1>4, <1>6, SeqEqual
<1> QED BY <1>7 DEF a, b

(* A list after another runs from the state the first one ends in.          *)
LEMMA RunConcat ==
  ASSUME NEW a, IsList(a), NEW b, IsList(b), NEW s
  PROVE  Run(a \o b, s) = Run(b, Run(a, s))
<1>1. Postorder(a \o b) = Postorder(a) \o Postorder(b) BY PostorderConcat
<1>2. Postorder(a) \in Seq(Steps) /\ Postorder(b) \in Seq(Steps) BY PostorderType DEF Code
<1> QED BY <1>1, <1>2, InterpretConcat DEF Run

(* The empty list does nothing.                                             *)
LEMMA RunNone == \A s : Run(<<>>, s) = s
  BY PostorderEmpty, InterpretEmpty DEF Run

(* A list of one node does what the node does.                              *)
LEMMA RunOne ==
  ASSUME NEW x, x.order \in Code, NEW s
  PROVE  Run(<<x>>, s) = Do(x, s)
  BY PostorderOne DEF Run, Do

(* A list of two.                                                           *)
LEMMA RunTwo ==
  ASSUME NEW x, x.order \in Code, NEW y, y.order \in Code, NEW s
  PROVE  IsList(<<x, y>>) /\ Run(<<x, y>>, s) = Do(y, Do(x, s))
<1> DEFINE a == <<x>>
           b == <<y>>
<1>1. IsList(a) /\ IsList(b) BY ListOne
<1>2. a \o b = <<x, y>> BY TwoIsConcat
<1>3. Run(a, s) = Do(x, s) /\ Run(b, Do(x, s)) = Do(y, Do(x, s)) BY RunOne
<1> HIDE DEF a, b
<1>4. Run(a \o b, s) = Run(b, Run(a, s)) /\ IsList(a \o b) BY <1>1, RunConcat, ListConcat
<1> QED BY <1>2, <1>3, <1>4

(* A node is left after its children; of a call through a vector the target *)
(* comes after the arguments.                                               *)
LEMMA NodeRuns ==
  ASSUME NEW op \in Ops, op # "virtual", NEW name \in Nat, NEW c, IsList(c), NEW s
  PROVE  /\ Node(op, name, c).order = Append(Postorder(c), Step(op, name, Len(c)))
         /\ Node(op, name, c).order \in Code
         /\ Do(Node(op, name, c), s) = Leave(Step(op, name, Len(c)), Run(c, s))
<1> DEFINE x == Step(op, name, Len(c))
           o == Postorder(c)
<1>1. Len(c) \in Nat BY OrdersAre
<1>2. x \in Steps BY <1>1 DEF Step, Steps
<1>3. o \in Seq(Steps) BY PostorderType DEF Code
<1> HIDE DEF x
<1>4. Node(op, name, c).order = Append(o, x) BY DEF Node, Visited, x
<1> HIDE DEF o
<1>5. Append(o, x) \in Seq(Steps) BY <1>2, <1>3, AppendProperties
<1>6. Interpret(Append(o, x), s) = Leave(x, Interpret(o, s)) BY <1>2, <1>3, InterpretAppend
<1> QED BY <1>4, <1>5, <1>6 DEF Code, Do, Run, o, x

(* A call through a vector.                                                 *)
LEMMA VirtualRuns ==
  ASSUME NEW x, x.order \in Code, NEW c, IsList(c), NEW s
  PROVE  LET v == Node("virtual", 0, <<x>> \o c)
         IN  /\ v.order = Append(Postorder(Append(c, x)), Step("virtual", 0, Len(c) + 1))
             /\ v.order \in Code
             /\ Do(v, s) = Leave(Step("virtual", 0, Len(c) + 1), Do(x, Run(c, s)))
<1> DEFINE d == <<x>> \o c
<1>1. /\ Head(d) = x /\ Tail(d) = c /\ Len(d) = Len(c) + 1 /\ Append(c, x) = c \o <<x>>
  <2>1. PICK N : c \in Seq(N) BY DEF IsList
  <2> DEFINE M == N \cup {x}
  <2>2. c \in Seq(M) /\ x \in M BY <2>1, SeqMonotonic
  <2> HIDE DEF M
  <2>3. <<x>> \in Seq(M) /\ Len(<<x>>) = 1 BY <2>2
  <2>4. d \in Seq(M) /\ Len(d) = 1 + Len(c) /\ Len(c) \in Nat
        /\ \A i \in 1..1 + Len(c) : d[i] = IF i <= 1 THEN <<x>>[i] ELSE c[i - 1]
    BY <2>2, <2>3, ConcatProperties, LenProperties
  <2>5. d[1] = x BY <2>4
  <2>6. \A i \in 1..Len(c) : d[i + 1] = c[i] BY <2>4
  <2>7. Append(c, x) = c \o <<x>> BY <2>2, AppendIsConcat
  <2> HIDE DEF d
  <2>8. d # <<>> BY <2>4
  <2>9. Head(d) = x BY <2>4, <2>5, <2>8, HeadTailProperties
  <2>10. Tail(d) \in Seq(M) /\ Len(Tail(d)) = Len(c)
         /\ \A i \in 1..Len(Tail(d)) : Tail(d)[i] = d[i + 1]
    BY <2>4, <2>8, HeadTailProperties
  <2>11. Tail(d) = c BY <2>2, <2>6, <2>10, SeqEqual
  <2> QED BY <2>4, <2>7, <2>9, <2>11
<1>2. IsList(<<x>>) BY ListOne
<1>3. IsList(c \o <<x>>) /\ IsList(d) BY <1>2, ListConcat
<1> DEFINE e == Append(c, x)
           y == Step("virtual", 0, Len(c) + 1)
           v == Node("virtual", 0, d)
<1>4. Run(e, s) = Do(x, Run(c, s)) BY <1>1, <1>2, RunConcat, RunOne
<1>5. v.order = Append(Postorder(e), y) BY <1>1 DEF Node, Visited
<1>6. IsList(e) /\ Len(c) \in Nat BY <1>1, <1>3, OrdersAre
<1>7. y \in Steps
  <2> DEFINE k == Len(c) + 1
  <2>1. k \in Nat BY <1>6
  <2> HIDE DEF k
  <2>2. Step("virtual", 0, k) \in Steps BY <2>1 DEF Step, Steps, Ops
  <2> QED BY <2>2 DEF k
<1> HIDE DEF e, y
<1>8. Postorder(e) \in Seq(Steps) BY <1>6, PostorderType DEF Code
<1>9. Append(Postorder(e), y) \in Seq(Steps) BY <1>7, <1>8, AppendProperties
<1>10. Interpret(Append(Postorder(e), y), s) = Leave(y, Interpret(Postorder(e), s))
  BY <1>7, <1>8, InterpretAppend
<1> HIDE DEF v
<1>11. Do(v, s) = Leave(y, Do(x, Run(c, s))) BY <1>4, <1>5, <1>10 DEF Do, Run
<1>12. v.order \in Code BY <1>5, <1>9 DEF Code
<1> QED BY <1>5, <1>11, <1>12 DEF v, d, e, y

(* The nodes that do more than leave: a temporary, a global, a move.        *)
LEMMA TempRuns ==
  ASSUME NEW m \in Nat
  PROVE  /\ Temp(m).order = <<Step("temp", m, 0)>> /\ Temp(m).order \in Code
         /\ \A s : IsState(s) => Is(Do(Temp(m), s), s.temps, s.events,
                                    Append(s.stack, Item("temp", s.temps[m], m)))
<1> DEFINE c == <<>>
           x == Node("temp", m, c)
           y == Step("temp", m, 0)
<1>1. IsList(c) /\ Len(c) = 0 BY ListEmpty
<1>2. "temp" \in Ops BY DEF Ops, Pure
<1>3. Postorder(c) = <<>> /\ \A s : Run(c, s) = s BY PostorderEmpty, RunNone
<1> HIDE DEF c
<1>4. x.order = Append(Postorder(c), y) /\ x.order \in Code BY <1>1, <1>2, NodeRuns
<1>5. ASSUME NEW s, IsState(s)
      PROVE  Is(Do(x, s), s.temps, s.events, Append(s.stack, Item("temp", s.temps[m], m)))
  <2>1. Do(x, s) = Leave(y, Run(c, s)) BY <1>1, <1>2, NodeRuns
  <2>2. Do(x, s) = Leave(y, s) BY <1>3, <2>1
  <2> QED BY <1>5, <2>2, LeaveTemp
<1> HIDE DEF x, y
<1>6. x.order = <<y>> BY <1>3, <1>4
<1> QED BY <1>4, <1>5, <1>6 DEF x, y, c, Temp

(* A static field.                                                          *)
LEMMA GlobalRuns ==
  ASSUME NEW m \in Nat
  PROVE  /\ Global(m).order = <<Step("global", m, 0)>> /\ Global(m).order \in Code
         /\ \A s : IsState(s) => Is(Do(Global(m), s), s.temps, s.events,
              Append(s.stack, Item("global", Term("global", m, <<>>, Len(s.events)), m)))
<1> DEFINE c == <<>>
           x == Node("global", m, c)
           y == Step("global", m, 0)
<1>1. IsList(c) /\ Len(c) = 0 BY ListEmpty
<1>2. "global" \in Ops BY DEF Ops, Pure
<1>3. Postorder(c) = <<>> /\ \A s : Run(c, s) = s BY PostorderEmpty, RunNone
<1> HIDE DEF c
<1>4. x.order = Append(Postorder(c), y) /\ x.order \in Code BY <1>1, <1>2, NodeRuns
<1>5. ASSUME NEW s, IsState(s)
      PROVE  Is(Do(x, s), s.temps, s.events,
                Append(s.stack, Item("global", Term("global", m, <<>>, Len(s.events)), m)))
  <2>1. Do(x, s) = Leave(y, Run(c, s)) BY <1>1, <1>2, NodeRuns
  <2>2. Do(x, s) = Leave(y, s) BY <1>3, <2>1
  <2> QED BY <1>5, <2>2, LeaveGlobal
<1> HIDE DEF x, y
<1>6. x.order = <<y>> BY <1>3, <1>4
<1> QED BY <1>4, <1>5, <1>6 DEF x, y, c, Global

(* A node with one child and one with two.                                  *)
One(op, x) == Node(op, 0, <<x>>)
Two(op, x, y) == Node(op, 0, <<x, y>>)

(* The order of a node with one child.                                      *)
LEMMA OneOrder ==
  ASSUME NEW op \in Ops, op # "virtual", NEW x, x.order \in Code
  PROVE  One(op, x).order = Append(x.order, Step(op, 0, 1)) /\ One(op, x).order \in Code
<1> DEFINE c == <<x>>
<1>1. IsList(c) /\ Len(c) = 1 BY ListOne
<1>2. Postorder(c) = x.order BY PostorderOne
<1> HIDE DEF c
<1>3. /\ Node(op, 0, c).order = Append(Postorder(c), Step(op, 0, Len(c)))
      /\ Node(op, 0, c).order \in Code
  BY <1>1, NodeRuns
<1> QED BY <1>1, <1>2, <1>3 DEF c, One

(* What it does.                                                            *)
LEMMA OneRuns ==
  ASSUME NEW op \in Ops, op # "virtual", NEW x, x.order \in Code, NEW s
  PROVE  Do(One(op, x), s) = Leave(Step(op, 0, 1), Do(x, s))
<1> DEFINE c == <<x>>
<1>1. IsList(c) /\ Len(c) = 1 BY ListOne
<1>2. Run(c, s) = Do(x, s) BY RunOne
<1> HIDE DEF c
<1>0. 0 \in Nat OBVIOUS
<1>3. Do(Node(op, 0, c), s) = Leave(Step(op, 0, Len(c)), Run(c, s)) BY <1>0, <1>1, NodeRuns, ZenonT(60)
<1> QED BY <1>1, <1>2, <1>3 DEF c, One

(* The order of a node with two children.                                   *)
LEMMA TwoOrder ==
  ASSUME NEW op \in Ops, op # "virtual", NEW x, x.order \in Code, NEW y, y.order \in Code
  PROVE  /\ Two(op, x, y).order = Append(x.order \o y.order, Step(op, 0, 2))
         /\ Two(op, x, y).order \in Code
<1> DEFINE c == <<x, y>>
<1>1. IsList(c) /\ Len(c) = 2 BY RunTwo
<1>2. Postorder(c) = x.order \o y.order
  <2> DEFINE a == <<x>>
             b == <<y>>
  <2>1. IsList(a) /\ IsList(b) BY ListOne
  <2>2. Postorder(a) = x.order /\ Postorder(b) = y.order BY PostorderOne
  <2>3. a \o b = c BY TwoIsConcat
  <2> HIDE DEF a, b, c
  <2> QED BY <2>1, <2>2, <2>3, PostorderConcat
<1> HIDE DEF c
<1>3. /\ Node(op, 0, c).order = Append(Postorder(c), Step(op, 0, Len(c)))
      /\ Node(op, 0, c).order \in Code
  BY <1>1, NodeRuns
<1> QED BY <1>1, <1>2, <1>3 DEF c, Two

(* What it does.                                                            *)
LEMMA TwoRuns ==
  ASSUME NEW op \in Ops, op # "virtual", NEW x, x.order \in Code, NEW y, y.order \in Code, NEW s
  PROVE  Do(Two(op, x, y), s) = Leave(Step(op, 0, 2), Do(y, Do(x, s)))
<1> DEFINE c == <<x, y>>
<1>1. IsList(c) /\ Len(c) = 2 BY RunTwo
<1>2. Run(c, s) = Do(y, Do(x, s)) BY RunTwo
<1> HIDE DEF c
<1>0. 0 \in Nat OBVIOUS
<1>3. Do(Node(op, 0, c), s) = Leave(Step(op, 0, Len(c)), Run(c, s)) BY <1>0, <1>1, NodeRuns, ZenonT(60)
<1> QED BY <1>1, <1>2, <1>3 DEF c, Two

(* The order of a move.                                                     *)
LEMMA MoveOrder ==
  ASSUME NEW x, x.order \in Code, NEW y, y.order \in Code
  PROVE  /\ Move(x, y).order = Append(x.order \o y.order, Step("move", 0, 2))
         /\ Move(x, y).order \in Code
<1>1. "move" \in Ops /\ "move" # "virtual" BY DEF Ops
<1>2. /\ Two("move", x, y).order = Append(x.order \o y.order, Step("move", 0, 2))
      /\ Two("move", x, y).order \in Code
  BY <1>1, TwoOrder
<1> QED BY <1>2 DEF Move, Two

(* What it does.                                                            *)
LEMMA MoveRuns ==
  ASSUME NEW x, x.order \in Code, NEW y, y.order \in Code, NEW s
  PROVE  Do(Move(x, y), s) = Leave(Step("move", 0, 2), Do(y, Do(x, s)))
<1>1. "move" \in Ops /\ "move" # "virtual" BY DEF Ops
<1>2. Do(Two("move", x, y), s) = Leave(Step("move", 0, 2), Do(y, Do(x, s)))
  BY <1>1, TwoRuns
<1> QED BY <1>2 DEF Move, Two

----------------------------------------------------------------------------
(* Canonicalisation keeps the meaning: started in states that agree on the  *)
(* events and on the program's temporary, the tree and the list end in such *)
(* states, and the list writes no temporary above n.                        *)
Wide(s, n) == IsState(s) /\ IsSeq(s.events) /\ 0..n \subseteq DOMAIN s.temps
Alike(s, t) == s.events = t.events /\ s.temps[Local] = t.temps[Local]
Kept(s, t) == IsState(t) /\ IsSeq(t.events) /\ DOMAIN t.temps = DOMAIN s.temps
Unchanged(s, t, names) == \A m \in names : t.temps[m] = s.temps[m]

\* In a state that differs from l in its stack only, e has this value.
Gives(e, value, b, l) ==
  \A u : IsState(u) /\ u.temps = l.temps /\ u.events = l.events =>
    /\ IsState(Do(e, u)) /\ Do(e, u).temps = l.temps /\ Alike(b, Do(e, u))
    /\ \E item : Do(e, u).stack = Append(u.stack, item) /\ item.value = value

Follows(r, n, s, t) ==
  LET b == Do(r.tree, s)
      l == Run(r.statements, t)
  IN  /\ Kept(s, b) /\ Kept(t, l)
      /\ Unchanged(t, l, DOMAIN t.temps \ 0..n)
      /\ IsExpression(r) =>
           \E item : b.stack = Append(s.stack, item) /\ Gives(r.expression, item.value, b, l)
      /\ ~IsExpression(r) => b.stack = s.stack /\ Alike(b, l)

Lowers(r, n) == \A s, t : Wide(s, n) /\ Wide(t, n) /\ Alike(s, t) => Follows(r, n, s, t)

IsResult(r) == /\ r.tree.order \in Code /\ IsList(r.statements)
               /\ IsExpression(r) => r.expression.order \in Code

(* More temporaries do no harm.                                             *)
LEMMA LowersMore ==
  ASSUME NEW r, NEW n \in Nat, NEW m \in Nat, n <= m, Lowers(r, n)
  PROVE  Lowers(r, m)
<1> SUFFICES ASSUME NEW s, NEW t, Wide(s, m), Wide(t, m), Alike(s, t)
    PROVE  LET b == Do(r.tree, s)
               l == Run(r.statements, t)
           IN  /\ Kept(s, b) /\ Kept(t, l)
               /\ Unchanged(t, l, DOMAIN t.temps \ 0..m)
               /\ IsExpression(r) => \E item : b.stack = Append(s.stack, item)
                                               /\ Gives(r.expression, item.value, b, l)
               /\ ~IsExpression(r) => b.stack = s.stack /\ Alike(b, l)
  BY DEF Lowers, Follows
<1>1. 0..n \subseteq 0..m OBVIOUS
<1>2. Wide(s, n) /\ Wide(t, n) BY <1>1 DEF Wide
<1>3. DOMAIN t.temps \ 0..m \subseteq DOMAIN t.temps \ 0..n BY <1>1
<1>4. \A l : Unchanged(t, l, DOMAIN t.temps \ 0..n) => Unchanged(t, l, DOMAIN t.temps \ 0..m)
  BY <1>3 DEF Unchanged
<1> QED BY <1>2, <1>4 DEF Lowers, Follows

(* A value computed into a temporary.                                       *)
Into(r, m) == r.statements \o <<Move(Temp(m), r.expression)>>
Saves(r, n, m, s, t) ==
  LET b == Do(r.tree, s)
      l == Run(Into(r, m), t)
  IN  /\ Kept(s, b) /\ Kept(t, l) /\ l.events = b.events
      /\ m # Local => l.temps[Local] = b.temps[Local]
      /\ Unchanged(t, l, (DOMAIN t.temps \ 0..n) \ {m})
      /\ \E item : b.stack = Append(s.stack, item) /\ l.temps[m] = item.value

(* A value can be computed into any temporary of the state.                 *)
LEMMA SavedInto ==
  ASSUME NEW n \in Nat, n >= Static, NEW r, IsResult(r), Lowers(r, n), IsExpression(r),
         NEW s, Wide(s, n), NEW t, Wide(t, n), Alike(s, t), NEW m \in DOMAIN t.temps, m \in Nat
  PROVE  Saves(r, n, m, s, t) /\ IsList(Into(r, m))
<1> DEFINE b == Do(r.tree, s)
           e == r.expression
           move == Move(Temp(m), e)
           q == Run(r.statements, t)
           u == Do(Temp(m), q)
           v == Do(e, u)
           w == Do(move, q)
           place == Item("temp", q.temps[m], m)
<1>1. /\ Kept(s, b) /\ Kept(t, q)
      /\ Unchanged(t, q, DOMAIN t.temps \ 0..n)
  BY DEF Lowers, Follows
<1>2. PICK item : b.stack = Append(s.stack, item) /\ Gives(e, item.value, b, q)
  BY DEF Lowers, Follows
<1>3. Temp(m).order \in Code /\ e.order \in Code BY TempRuns DEF IsResult
<1>4. Is(u, q.temps, q.events, Append(q.stack, place)) BY <1>1, TempRuns DEF Kept
<1>5. PICK top : IsState(v) /\ v.temps = q.temps /\ Alike(b, v)
        /\ v.stack = Append(Append(q.stack, place), top) /\ top.value = item.value
  <2> HIDE DEF q, b, u, e, place
  <2>1. IsState(u) /\ u.temps = q.temps /\ u.events = q.events
        /\ u.stack = Append(q.stack, place)
    BY <1>4 DEF Is
  <2> QED BY <1>2, <2>1 DEF Gives
<1>6. move.order \in Code /\ w = Leave(Step("move", 0, 2), v)
  <2> HIDE DEF q, e
  <2> QED BY <1>3, MoveRuns, MoveOrder
<1>7. Is(w, [q.temps EXCEPT ![m] = top.value], v.events, q.stack)
  <2>1. IsSeq(q.stack) BY <1>1 DEF Kept, IsState
  <2>2. place.kind = "temp" /\ place.place = m BY DEF Item
  <2> HIDE DEF q, v, w, place
  <2>3. Is(Leave(Step("move", 0, 2), v), [v.temps EXCEPT ![place.place] = top.value],
           v.events, q.stack)
    BY <1>5, <2>1, <2>2, LeaveMove
  <2> QED BY <1>5, <1>6, <2>2, <2>3
<1> DEFINE l == Run(r.statements \o <<move>>, t)
<1>8. l = w /\ IsList(r.statements \o <<move>>)
  <2> DEFINE a == <<move>>
  <2>1. IsList(a) /\ Run(a, q) = w BY <1>6, ListOne, RunOne
  <2>2. IsList(r.statements) BY DEF IsResult
  <2> HIDE DEF a, w
  <2>3. Run(r.statements \o a, t) = w /\ IsList(r.statements \o a)
    BY <2>1, <2>2, RunConcat, ListConcat
  <2> QED BY <2>3 DEF a
<1> HIDE DEF b, q, v, w, l, move, place, u, e
<1>9. /\ IsState(w) /\ w.events = b.events
      /\ w.temps = [q.temps EXCEPT ![m] = item.value]
  BY <1>1, <1>5, <1>7 DEF Is, Alike
<1>10. /\ DOMAIN q.temps = DOMAIN t.temps /\ DOMAIN w.temps = DOMAIN t.temps
       /\ w.temps[m] = item.value /\ \A k \in DOMAIN t.temps : k # m => w.temps[k] = q.temps[k]
  BY <1>1, <1>9 DEF Kept
<1>11. Kept(t, w) BY <1>1, <1>9, <1>10 DEF Kept
<1>12. Unchanged(t, w, (DOMAIN t.temps \ 0..n) \ {m}) BY <1>1, <1>10 DEF Unchanged
<1>13. ASSUME m # Local PROVE w.temps[Local] = b.temps[Local]
  <2>1. Local \in DOMAIN t.temps BY DEF Wide, Local, Static
  <2>2. w.temps[Local] = q.temps[Local] BY <1>10, <1>13, <2>1
  <2> QED BY <1>5, <2>2 DEF Alike
<1>14. /\ IsList(r.statements \o <<move>>)
       /\ Kept(s, b) /\ Kept(t, l) /\ l.events = b.events
       /\ m # Local => l.temps[Local] = b.temps[Local]
       /\ Unchanged(t, l, (DOMAIN t.temps \ 0..n) \ {m})
       /\ b.stack = Append(s.stack, item) /\ l.temps[m] = item.value
  BY <1>1, <1>2, <1>6, <1>8, <1>9, <1>10, <1>11, <1>12, <1>13
<1> QED BY <1>14 DEF b, l, move, e, Into, Saves

(* What is kept is as wide, and a temporary is no Nothing.                  *)
LEMMA KeptWide ==
  ASSUME NEW s, NEW b, NEW n, Wide(s, n), Kept(s, b)
  PROVE  Wide(b, n)
  BY DEF Wide, Kept

(* A state with room for m temporaries has room for fewer.                  *)
LEMMA WideLess ==
  ASSUME NEW s, NEW n \in Nat, NEW m \in Nat, n <= m, Wide(s, m)
  PROVE  Wide(s, n)
<1>1. 0..n \subseteq 0..m OBVIOUS
<1> QED BY <1>1 DEF Wide

(* No node but the one for nothing is taken for it.                         *)
LEMMA AreExpressions ==
  /\ \A op, name, c : op # "none" => Node(op, name, c) # Nothing
  /\ \A m : Temp(m) # Nothing /\ Global(m) # Nothing
  /\ \A op \in Operators : \A x, y : BinOp(op, x, y) # Nothing
  /\ \A x : Mem(x) # Nothing
<1>1. ASSUME NEW op, NEW name, NEW c, op # "none" PROVE Node(op, name, c) # Nothing
  <2>1. Node(op, name, c).op = op /\ Nothing.op = "none" BY DEF Node, Nothing
  <2> QED BY <1>1, <2>1
<1>2. \A op \in Operators : op # "none" BY DEF Operators, Comparisons, Dividing
<1> QED BY <1>1, <1>2 DEF Temp, Global, BinOp, Mem

(* The operators' nodes.                                                    *)
LEMMA BinOpOrder ==
  ASSUME NEW op \in Operators, NEW x, x.order \in Code, NEW y, y.order \in Code
  PROVE  /\ BinOp(op, x, y).order = Append(x.order \o y.order, Step(op, 0, 2))
         /\ BinOp(op, x, y).order \in Code
<1>1. op \in Ops /\ op # "virtual" BY DEF Ops, Pure, Operators, Comparisons, Dividing
<1>2. BinOp(op, x, y) = Two(op, x, y) BY DEF BinOp, Two
<1> QED BY <1>1, <1>2, TwoOrder

(* What an operator's node does.                                            *)
LEMMA BinOpRuns ==
  ASSUME NEW op \in Operators, NEW x, x.order \in Code, NEW y, y.order \in Code, NEW s
  PROVE  Do(BinOp(op, x, y), s) = Leave(Step(op, 0, 2), Do(y, Do(x, s)))
<1>1. op \in Ops /\ op # "virtual" BY DEF Ops, Pure, Operators, Comparisons, Dividing
<1>2. BinOp(op, x, y) = Two(op, x, y) BY DEF BinOp, Two
<1> QED BY <1>1, <1>2, TwoRuns

(* The order of a word of memory.                                           *)
LEMMA MemOrder ==
  ASSUME NEW x, x.order \in Code
  PROVE  Mem(x).order = Append(x.order, Step("mem", 0, 1)) /\ Mem(x).order \in Code
<1>1. "mem" \in Ops /\ "mem" # "virtual" BY DEF Ops, Pure
<1>2. Mem(x) = One("mem", x) BY DEF Mem, One
<1> QED BY <1>1, <1>2, OneOrder

(* What it does.                                                            *)
LEMMA MemRuns ==
  ASSUME NEW x, x.order \in Code, NEW s
  PROVE  Do(Mem(x), s) = Leave(Step("mem", 0, 1), Do(x, s))
<1>1. "mem" \in Ops /\ "mem" # "virtual" BY DEF Ops, Pure
<1>2. Mem(x) = One("mem", x) BY DEF Mem, One
<1> QED BY <1>1, <1>2, OneRuns

(* A leaf is left as it is.                                                 *)
LEMMA LeafLowers ==
  ASSUME NEW n \in Nat, n >= Static, NEW e \in {Temp(Local), Global(Static)},
         NEW r, r.tree = e, r.statements = <<>>, r.expression = e
  PROVE  Lowers(r, n) /\ IsResult(r)
<1>1. e.order \in Code /\ e # Nothing BY TempRuns, GlobalRuns, AreExpressions DEF Local, Static
<1>2. IsResult(r) BY <1>1, ListEmpty DEF IsResult
<1>3. ASSUME NEW s, NEW t, Wide(s, n), Wide(t, n), Alike(s, t)
      PROVE  LET b == Do(r.tree, s)
                 l == Run(r.statements, t)
             IN  /\ Kept(s, b) /\ Kept(t, l)
                 /\ Unchanged(t, l, DOMAIN t.temps \ 0..n)
                 /\ \E item : /\ b.stack = Append(s.stack, item)
                              /\ Gives(r.expression, item.value, b, l)
  <2>1. Run(r.statements, t) = t BY RunNone
  <2>2. ASSUME NEW v, NEW w, IsState(v), IsState(w), v.events = w.events,
               v.temps[Local] = w.temps[Local]
        PROVE  \E x, y : /\ Is(Do(e, v), v.temps, v.events, Append(v.stack, x))
                         /\ Is(Do(e, w), w.temps, w.events, Append(w.stack, y))
                         /\ x.value = y.value
    <3>1. CASE e = Temp(Local)
      <4> DEFINE x == Item("temp", v.temps[Local], Local)
                 y == Item("temp", w.temps[Local], Local)
      <4>1. x.value = y.value BY <2>2 DEF Item
      <4>2. /\ Is(Do(e, v), v.temps, v.events, Append(v.stack, x))
            /\ Is(Do(e, w), w.temps, w.events, Append(w.stack, y))
        BY <2>2, <3>1, TempRuns DEF Local
      <4> QED BY <4>1, <4>2
    <3>2. CASE e = Global(Static)
      <4> DEFINE x == Item("global", Term("global", Static, <<>>, Len(v.events)), Static)
                 y == Item("global", Term("global", Static, <<>>, Len(w.events)), Static)
      <4>1. x.value = y.value BY <2>2 DEF Item
      <4>2. /\ Is(Do(e, v), v.temps, v.events, Append(v.stack, x))
            /\ Is(Do(e, w), w.temps, w.events, Append(w.stack, y))
        BY <2>2, <3>2, GlobalRuns DEF Static
      <4> QED BY <4>1, <4>2
    <3> QED BY <3>1, <3>2
  <2> DEFINE b == Do(e, s)
  <2>3. PICK item : Is(b, s.temps, s.events, Append(s.stack, item))
    BY <1>3, <2>2 DEF Wide
  <2>4. Gives(e, item.value, b, t)
    <3>1. SUFFICES ASSUME NEW u, IsState(u), u.temps = t.temps, u.events = t.events
          PROVE  /\ IsState(Do(e, u)) /\ Do(e, u).temps = t.temps /\ Alike(b, Do(e, u))
                 /\ \E top : Do(e, u).stack = Append(u.stack, top) /\ top.value = item.value
      BY DEF Gives
    <3>2. IsState(s) /\ s.events = u.events /\ s.temps[Local] = u.temps[Local]
      BY <1>3, <3>1 DEF Wide, Alike
    <3>3. PICK x, y : /\ Is(Do(e, s), s.temps, s.events, Append(s.stack, x))
                      /\ Is(Do(e, u), u.temps, u.events, Append(u.stack, y))
                      /\ x.value = y.value
      BY <2>2, <3>1, <3>2
    <3>4. x = item
      <4>1. Append(s.stack, x) = Append(s.stack, item) BY <2>3, <3>3 DEF Is
      <4>2. IsSeq(s.stack) BY <3>2 DEF IsState
      <4>3. x = Append(s.stack, x)[Len(s.stack) + 1] BY <4>2, SeqAppend
      <4>4. item = Append(s.stack, item)[Len(s.stack) + 1] BY <4>2, SeqAppend
      <4> QED BY <4>1, <4>3, <4>4
    <3> HIDE DEF b
    <3> QED BY <2>3, <3>1, <3>2, <3>3, <3>4 DEF Is, Alike
  <2>5. Kept(s, b) /\ Kept(t, t) BY <1>3, <2>3 DEF Is, Kept, Wide
  <2>6. b.stack = Append(s.stack, item) BY <2>3 DEF Is
  <2> QED BY <2>1, <2>4, <2>5, <2>6 DEF Unchanged
<1>4. IsExpression(r) BY <1>1 DEF IsExpression
<1> QED BY <1>2, <1>3, <1>4 DEF Lowers, Follows

(* The operators.                                                           *)
LEMMA BinOpLowers ==
  ASSUME NEW n \in Nat, n >= Static, NEW op \in Operators,
         NEW left, IsResult(left), Lowers(left, n), IsExpression(left),
         NEW right, IsResult(right), Lowers(right, n), IsExpression(right),
         NEW r, r.tree = BinOp(op, left.tree, right.tree),
         r.statements = left.statements \o <<Move(Temp(n + 1), left.expression)>>
                          \o right.statements,
         r.expression = BinOp(op, Temp(n + 1), right.expression)
  PROVE  Lowers(r, n + 1) /\ IsResult(r)
<1> DEFINE m == n + 1
           a == Into(left, m)
           e == right.expression
<1>1. m \in Nat /\ n <= m /\ m # Local /\ m \notin 0..n BY DEF Local, Static
<1>2. Temp(m).order \in Code BY <1>1, TempRuns
<1>3. /\ left.tree.order \in Code /\ right.tree.order \in Code /\ e.order \in Code
      /\ left.expression.order \in Code /\ IsList(left.statements) /\ IsList(right.statements)
  BY DEF IsResult
<1>4. IsList(a) /\ IsList(a \o right.statements)
  <2> DEFINE move == Move(Temp(m), left.expression)
  <2>1. move.order \in Code BY <1>2, <1>3, MoveOrder
  <2> HIDE DEF move, m
  <2>2. IsList(<<move>>) BY <2>1, ListOne
  <2>3. IsList(left.statements \o <<move>>) BY <1>3, <2>2, ListConcat
  <2>4. a = left.statements \o <<move>> BY DEF move, Into
  <2> HIDE DEF a
  <2> QED BY <1>3, <2>3, <2>4, ListConcat
<1>5. IsExpression(r) BY AreExpressions DEF IsExpression
<1>6. IsResult(r)
  <2>1. BinOp(op, left.tree, right.tree).order \in Code BY <1>3, BinOpOrder
  <2>2. BinOp(op, Temp(m), e).order \in Code
    <3> HIDE DEF m, e
    <3> QED BY <1>2, <1>3, BinOpOrder
  <2> QED BY <1>4, <2>1, <2>2 DEF IsResult, Into
<1>7. ASSUME NEW s, NEW t, Wide(s, m), Wide(t, m), Alike(s, t)
      PROVE  LET b == Do(r.tree, s)
                 l == Run(r.statements, t)
             IN  /\ Kept(s, b) /\ Kept(t, l)
                 /\ Unchanged(t, l, DOMAIN t.temps \ 0..m)
                 /\ \E item : /\ b.stack = Append(s.stack, item)
                              /\ Gives(r.expression, item.value, b, l)
  <2> DEFINE b1 == Do(left.tree, s)
             l1 == Run(a, t)
             b2 == Do(right.tree, b1)
             l2 == Run(right.statements, l1)
             b == Do(r.tree, s)
  <2>0. Wide(s, n) /\ Wide(t, n) BY <1>1, <1>7, WideLess
  <2>1. m \in DOMAIN t.temps BY <1>1, <1>7 DEF Wide
  <2>2. /\ Kept(s, b1) /\ Kept(t, l1) /\ Alike(b1, l1)
        /\ Unchanged(t, l1, (DOMAIN t.temps \ 0..n) \ {m})
        /\ \E item : b1.stack = Append(s.stack, item) /\ l1.temps[m] = item.value
    <3> HIDE DEF m
    <3>1. Saves(left, n, m, s, t) BY <1>1, <1>7, <2>0, <2>1, SavedInto
    <3>2. /\ Kept(s, b1) /\ Kept(t, l1) /\ l1.events = b1.events
          /\ m # Local => l1.temps[Local] = b1.temps[Local]
          /\ Unchanged(t, l1, (DOMAIN t.temps \ 0..n) \ {m})
          /\ \E item : b1.stack = Append(s.stack, item) /\ l1.temps[m] = item.value
      BY <3>1 DEF Saves
    <3> HIDE DEF b1, l1
    <3> QED BY <1>1, <3>2 DEF Alike
  <2>3. PICK l : b1.stack = Append(s.stack, l) /\ l1.temps[m] = l.value BY <2>2
  <2>4. Wide(b1, n) /\ Wide(l1, n) BY <2>0, <2>2, KeptWide
  <2>5. /\ Kept(b1, b2) /\ Kept(l1, l2)
        /\ Unchanged(l1, l2, DOMAIN l1.temps \ 0..n)
        /\ \E item : b2.stack = Append(b1.stack, item) /\ Gives(e, item.value, b2, l2)
    <3> HIDE DEF a, b1, l1
    <3> QED BY <2>2, <2>4 DEF Lowers, Follows
  <2>6. PICK x : b2.stack = Append(b1.stack, x) /\ Gives(e, x.value, b2, l2) BY <2>5
  <2>7. b = Leave(Step(op, 0, 2), b2) BY <1>3, BinOpRuns
  <2>8. Run(r.statements, t) = l2
    <3> HIDE DEF a
    <3>1. Run(a \o right.statements, t) = Run(right.statements, Run(a, t))
      BY <1>3, <1>4, RunConcat
    <3> QED BY <3>1 DEF a, Into
  <2> DEFINE after == IF op \in Dividing
                      THEN Append(b2.events, Term("div", 0, <<l.value, x.value>>, 0))
                      ELSE b2.events
             top == Computed(Term(op, 0, <<l.value, x.value>>, 0))
  <2>9. IsSeq(s.stack) /\ IsState(b2) /\ IsSeq(b2.events)
    BY <1>7, <2>5 DEF Wide, IsState, Kept
  <2>10. Is(b, b2.temps, after, Append(s.stack, top))
    <3> HIDE DEF b, b2, b1, top, after
    <3> QED BY <2>3, <2>6, <2>7, <2>9, LeaveOperator DEF top, after
  <2>11. l2.temps[m] = l.value /\ DOMAIN l2.temps = DOMAIN t.temps
         /\ DOMAIN l1.temps = DOMAIN t.temps
    <3> HIDE DEF b1, b2, l1, l2, m
    <3>1. DOMAIN l1.temps = DOMAIN t.temps /\ DOMAIN l2.temps = DOMAIN t.temps
      BY <2>2, <2>5 DEF Kept
    <3>2. l2.temps[m] = l1.temps[m] BY <1>1, <2>1, <2>5, <3>1 DEF Unchanged
    <3> QED BY <2>3, <3>1, <3>2
  <2>12. Gives(r.expression, top.value, b, l2)
    <3>1. SUFFICES ASSUME NEW u, IsState(u), u.temps = l2.temps, u.events = l2.events
          PROVE  LET d == Do(r.expression, u)
                 IN  /\ IsState(d) /\ d.temps = l2.temps /\ Alike(b, d)
                     /\ \E item : d.stack = Append(u.stack, item) /\ item.value = top.value
      BY DEF Gives
    <3> DEFINE u1 == Do(Temp(m), u)
               u2 == Do(e, u1)
               place == Item("temp", u.temps[m], m)
               d == Do(r.expression, u)
    <3>2. Is(u1, u.temps, u.events, Append(u.stack, place)) BY <1>1, <3>1, TempRuns
    <3>3. PICK y : /\ IsState(u2) /\ u2.temps = l2.temps /\ Alike(b2, u2)
                   /\ u2.stack = Append(u1.stack, y) /\ y.value = x.value
      <4> HIDE DEF b2, l2, e, u1
      <4>1. IsState(u1) /\ u1.temps = l2.temps /\ u1.events = l2.events
        BY <3>1, <3>2 DEF Is
      <4> QED BY <2>6, <4>1 DEF Gives
    <3>4. d = Leave(Step(op, 0, 2), u2)
      <4> DEFINE z == Temp(m)
      <4>1. z.order \in Code /\ e.order \in Code BY <1>2, <1>3
      <4> HIDE DEF z, e, m
      <4>2. Do(BinOp(op, z, e), u) = Leave(Step(op, 0, 2), Do(e, Do(z, u)))
        BY <4>1, BinOpRuns, SMTT(30)
      <4> QED BY <4>2 DEF z, e, m
    <3>5. place.value = l.value BY <2>11, <3>1 DEF Item
    <3>6. IsSeq(u.stack) BY <3>1 DEF IsState
    <3> HIDE DEF d, u1, u2, place, b, b2, l2, e, b1, l1
    <3>7. u2.stack = Append(Append(u.stack, place), y) BY <3>2, <3>3 DEF Is
    <3>8. Is(d, u2.temps, after, Append(u.stack, top))
      <4>1. u2.events = b2.events BY <3>3 DEF Alike
      <4> HIDE DEF top
      <4>2. Is(Leave(Step(op, 0, 2), u2), u2.temps,
               IF op \in Dividing
               THEN Append(u2.events, Term("div", 0, <<place.value, y.value>>, 0))
               ELSE u2.events,
               Append(u.stack, Computed(Term(op, 0, <<place.value, y.value>>, 0))))
        BY <3>3, <3>6, <3>7, LeaveOperator
      <4> QED BY <3>3, <3>4, <3>5, <4>1, <4>2 DEF top
    <3> HIDE DEF after, top
    <3>9. b.events = after /\ b.temps = b2.temps BY <2>10 DEF Is
    <3>10. b2.temps[Local] = u2.temps[Local] BY <3>3 DEF Alike
    <3>11. /\ IsState(d) /\ d.temps = l2.temps /\ Alike(b, d)
           /\ d.stack = Append(u.stack, top)
      BY <3>3, <3>8, <3>9, <3>10 DEF Is, Alike
    <3> QED BY <3>11 DEF d
  <2>13. Kept(s, b)
    <3>1. IsSeq(after) BY <2>9, SeqAppend
    <3> HIDE DEF after, top, b, b2, b1
    <3> QED BY <2>2, <2>5, <2>10, <3>1 DEF Kept, Is
  <2>14. Unchanged(t, l2, DOMAIN t.temps \ 0..m)
    <3> HIDE DEF b1, b2, l1, l2
    <3>1. DOMAIN t.temps \ 0..m \subseteq (DOMAIN t.temps \ 0..n) \ {m} BY <1>1
    <3> QED BY <2>2, <2>5, <2>11, <3>1 DEF Unchanged
  <2>15. Kept(t, l2)
    <3> HIDE DEF b1, b2, l1, l2
    <3> QED BY <2>2, <2>5 DEF Kept
  <2>16. b.stack = Append(s.stack, top) BY <2>10 DEF Is
  <2> HIDE DEF top, b, l2
  <2>17. \E item : b.stack = Append(s.stack, item) /\ Gives(r.expression, item.value, b, l2)
    BY <2>12, <2>16
  <2> QED BY <2>8, <2>13, <2>14, <2>15, <2>17 DEF b
<1> HIDE DEF m
<1>8. Lowers(r, m) BY <1>5, <1>7 DEF Lowers, Follows
<1> QED BY <1>6, <1>8 DEF m

(* An expression in a state that differs in its stack only.                 *)
LEMMA GivesIn ==
  ASSUME NEW e, NEW value, NEW b, NEW l, Gives(e, value, b, l),
         NEW u, IsState(u), u.temps = l.temps, u.events = l.events
  PROVE  /\ b.temps[Local] = l.temps[Local]
         /\ \E item : Is(Do(e, u), l.temps, b.events, Append(u.stack, item)) /\ item.value = value
  BY DEF Gives, Alike, Is

(* An access to memory.                                                     *)
LEMMA MemLowers ==
  ASSUME NEW n \in Nat, NEW a, IsResult(a), Lowers(a, n), IsExpression(a),
         NEW r, r.tree = Mem(a.tree), r.statements = a.statements,
         r.expression = Mem(a.expression)
  PROVE  Lowers(r, n) /\ IsResult(r)
<1> DEFINE e == a.expression
           x == a.tree
<1>1. x.order \in Code /\ e.order \in Code /\ IsList(a.statements) BY DEF IsResult
<1>2. IsExpression(r) BY AreExpressions DEF IsExpression
<1>3. IsResult(r) BY <1>1, MemOrder DEF IsResult
<1>4. ASSUME NEW s, NEW t, Wide(s, n), Wide(t, n), Alike(s, t) PROVE Follows(r, n, s, t)
  <2> DEFINE b1 == Do(x, s)
             l == Run(a.statements, t)
             b == Do(r.tree, s)
  <2>1. /\ Kept(s, b1) /\ Kept(t, l)
        /\ Unchanged(t, l, DOMAIN t.temps \ 0..n)
        /\ \E item : b1.stack = Append(s.stack, item) /\ Gives(e, item.value, b1, l)
    BY <1>4 DEF Lowers, Follows
  <2>2. PICK item : b1.stack = Append(s.stack, item) /\ Gives(e, item.value, b1, l) BY <2>1
  <2> DEFINE value == Term("mem", 0, <<item.value>>, Len(b1.events))
             top == Item("mem", value, item.value)
  <2>3. b = Leave(Step("mem", 0, 1), b1)
    <3> HIDE DEF x
    <3> QED BY <1>1, MemRuns DEF x
  <2>4. IsState(b1) /\ IsSeq(s.stack) BY <1>4, <2>1 DEF Kept, Wide, IsState
  <2>5. Is(b, b1.temps, b1.events, Append(s.stack, top))
    <3> HIDE DEF b, b1
    <3> QED BY <2>2, <2>3, <2>4, LeaveMem
  <2>6. top.value = value BY DEF Item
  <2>7. Gives(r.expression, top.value, b, l)
    <3>1. SUFFICES ASSUME NEW u, IsState(u), u.temps = l.temps, u.events = l.events
          PROVE  LET d == Do(r.expression, u)
                 IN  /\ IsState(d) /\ d.temps = l.temps /\ Alike(b, d)
                     /\ \E y : d.stack = Append(u.stack, y) /\ y.value = top.value
      BY DEF Gives
    <3> DEFINE d == Do(r.expression, u)
               d1 == Do(e, u)
    <3> HIDE DEF b, b1, l, e
    <3>2. b1.temps[Local] = l.temps[Local] BY <2>2, <3>1, GivesIn
    <3>3. PICK y : Is(d1, l.temps, b1.events, Append(u.stack, y)) /\ y.value = item.value
      BY <2>2, <3>1, GivesIn
    <3>4. d = Leave(Step("mem", 0, 1), d1) BY <1>1, MemRuns DEF e
    <3>5. IsSeq(u.stack) BY <3>1 DEF IsState
    <3> HIDE DEF d, d1
    <3>6. Is(d, l.temps, b1.events, Append(u.stack,
             Item("mem", Term("mem", 0, <<y.value>>, Len(d1.events)), y.value)))
      BY <3>3, <3>4, <3>5, LeaveMem, SMTT(30) DEF Is
    <3>7. Is(d, l.temps, b1.events, Append(u.stack, top)) BY <3>3, <3>6 DEF Is
    <3> HIDE DEF top
    <3>8. IsState(d) /\ d.temps = l.temps /\ Alike(b, d) /\ d.stack = Append(u.stack, top)
      BY <2>5, <3>2, <3>7 DEF Is, Alike
    <3> QED BY <3>8 DEF d
  <2>8. Kept(s, b)
    <3> HIDE DEF b, b1, top
    <3> QED BY <2>1, <2>5 DEF Kept, Is
  <2>9. b.stack = Append(s.stack, top) BY <2>5 DEF Is
  <2> HIDE DEF top, b, l
  <2>10. \E z : b.stack = Append(s.stack, z) /\ Gives(r.expression, z.value, b, l)
    BY <2>7, <2>9
  <2> QED BY <1>2, <2>1, <2>8, <2>10 DEF b, l, Follows
<1> QED BY <1>3, <1>4 DEF Lowers

(* A statement, then an expression.                                         *)
LEMMA ESeqLowers ==
  ASSUME NEW n \in Nat, NEW a, IsResult(a), Lowers(a, n), ~IsExpression(a),
         NEW e, IsResult(e), Lowers(e, n), IsExpression(e),
         NEW r, r.tree = Node("eseq", 0, <<a.tree, e.tree>>),
         r.statements = a.statements \o e.statements, r.expression = e.expression
  PROVE  Lowers(r, n) /\ IsResult(r)
<1> DEFINE x == a.tree
           y == e.tree
           p == a.statements
           q == e.statements
<1>1. x.order \in Code /\ y.order \in Code /\ IsList(p) /\ IsList(q) /\ e.expression.order \in Code
  BY DEF IsResult
<1>2. IsExpression(r) BY DEF IsExpression
<1>3. "eseq" \in Ops /\ "eseq" # "virtual" BY DEF Ops
<1>4. r.tree = Two("eseq", x, y) BY DEF Two
<1>5. IsResult(r)
  <2>1. Two("eseq", x, y).order \in Code
    <3> HIDE DEF x, y
    <3> QED BY <1>1, <1>3, TwoOrder
  <2>2. IsList(p \o q)
    <3> HIDE DEF p, q
    <3> QED BY <1>1, ListConcat
  <2> QED BY <1>1, <1>4, <2>1, <2>2 DEF IsResult
<1>6. ASSUME NEW s, NEW t, Wide(s, n), Wide(t, n), Alike(s, t) PROVE Follows(r, n, s, t)
  <2> DEFINE b1 == Do(x, s)
             l1 == Run(p, t)
             b2 == Do(y, b1)
             l2 == Run(q, l1)
  <2>1. /\ Kept(s, b1) /\ Kept(t, l1) /\ b1.stack = s.stack
        /\ Alike(b1, l1) /\ Unchanged(t, l1, DOMAIN t.temps \ 0..n)
    BY <1>6 DEF Lowers, Follows
  <2>2. Wide(b1, n) /\ Wide(l1, n) BY <1>6, <2>1, KeptWide
  <2>3. /\ Kept(b1, b2) /\ Kept(l1, l2)
        /\ Unchanged(l1, l2, DOMAIN l1.temps \ 0..n)
        /\ \E item : b2.stack = Append(b1.stack, item)
                     /\ Gives(e.expression, item.value, b2, l2)
    <3> HIDE DEF b1, l1
    <3> QED BY <2>1, <2>2 DEF Lowers, Follows
  <2>4. Do(r.tree, s) = b2
    <3>1. Do(Two("eseq", x, y), s) = Leave(Step("eseq", 0, 2), b2)
      <4> HIDE DEF x, y
      <4> QED BY <1>1, <1>3, TwoRuns
    <3>2. Leave(Step("eseq", 0, 2), b2) = b2 BY LeaveOther
    <3> QED BY <1>4, <3>1, <3>2
  <2>5. Run(r.statements, t) = l2
    <3>1. Run(p \o q, t) = Run(q, Run(p, t))
      <4> HIDE DEF p, q
      <4> QED BY <1>1, RunConcat
    <3> QED BY <3>1
  <2> HIDE DEF b1, b2, l1, l2
  <2>6. /\ Kept(s, b2) /\ Kept(t, l2)
        /\ Unchanged(t, l2, DOMAIN t.temps \ 0..n)
        /\ \E item : b2.stack = Append(s.stack, item) /\ Gives(e.expression, item.value, b2, l2)
    BY <2>1, <2>3 DEF Kept, Unchanged
  <2> QED BY <1>2, <2>4, <2>5, <2>6 DEF Follows
<1> QED BY <1>5, <1>6 DEF Lowers

(* A statement at the end of a list.                                        *)
LEMMA RunThen ==
  ASSUME NEW a, IsList(a), NEW x, x.order \in Code, NEW s
  PROVE  IsList(a \o <<x>>) /\ Run(a \o <<x>>, s) = Do(x, Run(a, s))
<1> DEFINE b == <<x>>
           q == Run(a, s)
<1>1. IsList(b) /\ Run(b, q) = Do(x, q) BY ListOne, RunOne
<1> HIDE DEF b
<1>2. IsList(a \o b) /\ Run(a \o b, s) = Run(b, Run(a, s)) BY <1>1, RunConcat, ListConcat
<1> QED BY <1>1, <1>2 DEF b

(* The same of every state a list is run in.                                *)
OneThen(a, x) == IsList(a \o <<x>>) /\ \A s : Run(a \o <<x>>, s) = Do(x, Run(a, s))
(* One node after a list, in every state.                                   *)
LEMMA RunOneThen ==
  ASSUME NEW a, IsList(a), NEW x, x.order \in Code
  PROVE  OneThen(a, x)
<1>1. ASSUME NEW s PROVE IsList(a \o <<x>>) /\ Run(a \o <<x>>, s) = Do(x, Run(a, s)) BY RunThen
<1> QED BY <1>1 DEF OneThen

(* What a move does once its value is known, in states that agree.          *)
Moves(v, w, base, below) ==
  LET b == Leave(Step("move", 0, 2), v)
      l == Leave(Step("move", 0, 2), w)
  IN  /\ Kept(v, b) /\ Kept(w, l) /\ Alike(b, l) /\ b.stack = base /\ l.stack = below
      /\ Unchanged(w, l, DOMAIN w.temps \ {Local})

(* Equal values moved to equal places leave the states alike.               *)
LEMMA MovesAlike ==
  ASSUME NEW v, IsState(v), NEW w, IsState(w), Alike(v, w), IsSeq(v.events),
         Local \in DOMAIN v.temps, Local \in DOMAIN w.temps,
         NEW base, IsSeq(base), NEW below, IsSeq(below),
         NEW p, NEW q, p.kind = q.kind, p.kind \in {"temp", "mem", "global"},
         p.kind # "global" => p.place = q.place,
         p.kind = "temp" => p.place = Local, NEW x, NEW y, x.value = y.value,
         v.stack = Append(Append(base, p), x), w.stack = Append(Append(below, q), y)
  PROVE  Moves(v, w, base, below)
<1> DEFINE b == Leave(Step("move", 0, 2), v)
           l == Leave(Step("move", 0, 2), w)
<1>0. v.events = w.events BY DEF Alike
<1>1. CASE p.kind = "temp"
  <2>1. /\ Is(b, [v.temps EXCEPT ![Local] = x.value], v.events, base)
        /\ Is(l, [w.temps EXCEPT ![Local] = y.value], w.events, below)
    BY <1>1, LeaveMove
  <2> HIDE DEF b, l
  <2>2. /\ b.temps = [v.temps EXCEPT ![Local] = x.value]
        /\ l.temps = [w.temps EXCEPT ![Local] = y.value]
    BY <2>1 DEF Is
  <2>3. /\ DOMAIN b.temps = DOMAIN v.temps /\ DOMAIN l.temps = DOMAIN w.temps
        /\ b.temps[Local] = x.value /\ l.temps[Local] = y.value
        /\ \A m \in DOMAIN w.temps : m # Local => l.temps[m] = w.temps[m]
    BY <2>2
  <2>4. /\ Kept(v, b) /\ Kept(w, l) /\ Alike(b, l) /\ b.stack = base /\ l.stack = below
        /\ Unchanged(w, l, DOMAIN w.temps \ {Local})
    BY <1>0, <2>1, <2>3 DEF Kept, Alike, Is, Unchanged
  <2> QED BY <2>4 DEF b, l, Moves
<1>2. CASE p.kind = "mem"
  <2> DEFINE after == Append(v.events, Term("store", 0, <<p.place, x.value>>, 0))
  <2>1. Is(b, v.temps, after, base) BY <1>2, LeaveMove
  <2>2. Is(l, w.temps, after, below) BY <1>0, <1>2, LeaveMove
  <2>3. IsSeq(after) BY SeqAppend
  <2> HIDE DEF b, l, after
  <2>4. /\ Kept(v, b) /\ Kept(w, l) /\ Alike(b, l) /\ b.stack = base /\ l.stack = below
        /\ Unchanged(w, l, DOMAIN w.temps \ {Local})
    BY <2>1, <2>2, <2>3 DEF Kept, Alike, Is, Unchanged
  <2> QED BY <2>4 DEF b, l, Moves
<1>3. CASE p.kind = "global"
  <2> DEFINE after == Append(v.events, Term("set", 0, <<x.value>>, 0))
  <2>1. Is(b, v.temps, after, base) BY <1>3, LeaveMove
  <2>2. Is(l, w.temps, after, below) BY <1>0, <1>3, LeaveMove
  <2>3. IsSeq(after) BY SeqAppend
  <2> HIDE DEF b, l, after
  <2>4. /\ Kept(v, b) /\ Kept(w, l) /\ Alike(b, l) /\ b.stack = base /\ l.stack = below
        /\ Unchanged(w, l, DOMAIN w.temps \ {Local})
    BY <2>1, <2>2, <2>3 DEF Kept, Alike, Is, Unchanged
  <2> QED BY <2>4 DEF b, l, Moves
<1> QED BY <1>1, <1>2, <1>3

(* The place that a target pushes.                                          *)
Targets == {Temp(Local), Global(Static)}
IsPlace(p, target, s) ==
  /\ Is(Do(target, s), s.temps, s.events, Append(s.stack, p))
  /\ p.kind = target.op /\ p.kind \in {"temp", "global"}
  /\ p.kind = "temp" => p.place = Local

(* A target that is a temporary or a static field is a place.               *)
LEMMA TargetRuns ==
  ASSUME NEW target \in Targets, NEW s, IsState(s)
  PROVE  target.order \in Code /\ \E p : IsPlace(p, target, s)
<1>1. CASE target = Temp(Local)
  <2> DEFINE p == Item("temp", s.temps[Local], Local)
  <2>1. p.kind = "temp" /\ p.place = Local /\ target.op = "temp"
    BY <1>1 DEF Item, Temp, Node
  <2>2. target.order \in Code /\ Is(Do(target, s), s.temps, s.events, Append(s.stack, p))
    BY <1>1, TempRuns DEF Local
  <2> HIDE DEF p
  <2> QED BY <2>1, <2>2 DEF IsPlace
<1>2. CASE target = Global(Static)
  <2> DEFINE p == Item("global", Term("global", Static, <<>>, Len(s.events)), Static)
  <2>1. p.kind = "global" /\ target.op = "global" BY <1>2 DEF Item, Global, Node
  <2>2. target.order \in Code /\ Is(Do(target, s), s.temps, s.events, Append(s.stack, p))
    BY <1>2, GlobalRuns DEF Static
  <2> HIDE DEF p
  <2> QED BY <2>1, <2>2 DEF IsPlace
<1> QED BY <1>1, <1>2 DEF Targets

(* An assignment to a temporary or a static field.                          *)
LEMMA MoveToTempLowers ==
  ASSUME NEW n \in Nat, n >= Static, NEW a, IsResult(a), Lowers(a, n), IsExpression(a),
         NEW target \in Targets, NEW r, r.tree = Move(target, a.tree),
         r.statements = a.statements \o <<Move(target, a.expression)>>, r.expression = Nothing
  PROVE  Lowers(r, n) /\ IsResult(r)
<1> DEFINE e == a.expression
           x == a.tree
           p == a.statements
           move == Move(target, e)
<1>1. x.order \in Code /\ e.order \in Code /\ IsList(p) BY DEF IsResult
<1>2. target.order \in Code BY TempRuns, GlobalRuns DEF Local, Static, Targets
<1>3. ~IsExpression(r) BY DEF IsExpression
<1>4. Move(target, x).order \in Code /\ move.order \in Code
  <2> HIDE DEF e, x
  <2> QED BY <1>1, <1>2, MoveOrder
<1>5. /\ IsList(p \o <<move>>)
      /\ \A t : Run(p \o <<move>>, t) = Do(move, Run(p, t))
  <2> HIDE DEF p, move
  <2> QED BY <1>1, <1>4, RunThen
<1>6. IsResult(r) BY <1>3, <1>4, <1>5 DEF IsResult
<1>7. ASSUME NEW s, NEW t, Wide(s, n), Wide(t, n), Alike(s, t) PROVE Follows(r, n, s, t)
  <2> DEFINE s0 == Do(target, s)
             b1 == Do(x, s0)
             b == Do(r.tree, s)
             l1 == Run(p, t)
             t0 == Do(target, l1)
             v == Do(e, t0)
             l == Do(move, l1)
  <2>1. PICK place : /\ Is(s0, s.temps, s.events, Append(s.stack, place))
                     /\ place.kind = target.op /\ place.kind \in {"temp", "global"}
                     /\ place.kind = "temp" => place.place = Local
    <3>1. IsState(s) BY <1>7 DEF Wide
    <3> HIDE DEF s0
    <3> QED BY <3>1, TargetRuns DEF IsPlace, s0
  <2>2. Wide(s0, n) /\ Alike(s0, t)
    <3> HIDE DEF s0
    <3> QED BY <1>7, <2>1 DEF Wide, Is, Alike
  <2>3. /\ Kept(s0, b1) /\ Kept(t, l1)
        /\ Unchanged(t, l1, DOMAIN t.temps \ 0..n)
        /\ \E item : b1.stack = Append(s0.stack, item) /\ Gives(e, item.value, b1, l1)
    <3> HIDE DEF s0
    <3> QED BY <1>7, <2>2 DEF Lowers, Follows
  <2>4. PICK item : b1.stack = Append(s0.stack, item) /\ Gives(e, item.value, b1, l1) BY <2>3
  <2>5. PICK q : /\ Is(t0, l1.temps, l1.events, Append(l1.stack, q))
                 /\ q.kind = target.op /\ q.kind \in {"temp", "global"}
                 /\ q.kind = "temp" => q.place = Local
    <3> HIDE DEF l1
    <3>1. IsState(l1) BY <2>3 DEF Kept
    <3> HIDE DEF t0
    <3> QED BY <3>1, TargetRuns DEF IsPlace, t0
  <2>6. /\ b1.temps[Local] = l1.temps[Local]
        /\ \E y : Is(v, l1.temps, b1.events, Append(t0.stack, y)) /\ y.value = item.value
    <3> HIDE DEF t0, l1, b1, e
    <3>1. IsState(t0) /\ t0.temps = l1.temps /\ t0.events = l1.events BY <2>5 DEF Is
    <3> QED BY <2>4, <3>1, GivesIn
  <2>7. PICK y : Is(v, l1.temps, b1.events, Append(t0.stack, y)) /\ y.value = item.value
    BY <2>6
  <2>8. b = Leave(Step("move", 0, 2), b1)
    <3> HIDE DEF x
    <3> QED BY <1>1, <1>2, MoveRuns DEF x
  <2>9. l = Leave(Step("move", 0, 2), v)
    <3> HIDE DEF e, l1
    <3> QED BY <1>1, <1>2, MoveRuns
  <2> HIDE DEF s0, b1, b, l1, t0, v, l
  <2>10. /\ IsState(b1) /\ IsState(v) /\ Alike(b1, v) /\ IsSeq(b1.events)
         /\ DOMAIN b1.temps = DOMAIN s.temps /\ DOMAIN v.temps = DOMAIN t.temps
         /\ Local \in DOMAIN s.temps /\ Local \in DOMAIN t.temps
         /\ IsSeq(s.stack) /\ IsSeq(l1.stack)
    <3>1. /\ IsState(b1) /\ IsSeq(b1.events) /\ DOMAIN b1.temps = DOMAIN s.temps
          /\ DOMAIN l1.temps = DOMAIN t.temps
      BY <2>1, <2>3 DEF Kept, Is
    <3>2. IsState(v) /\ v.temps = l1.temps /\ v.events = b1.events BY <2>7 DEF Is
    <3>3. Alike(b1, v) BY <2>6, <3>2 DEF Alike
    <3>4. Local \in 0..n BY DEF Local, Static
    <3> QED BY <1>7, <2>3, <3>1, <3>2, <3>3, <3>4 DEF Kept, Wide, IsState
  <2>11. /\ b1.stack = Append(Append(s.stack, place), item)
         /\ v.stack = Append(Append(l1.stack, q), y)
    BY <2>1, <2>3, <2>4, <2>5, <2>7 DEF Is
  <2>12. /\ Kept(b1, b) /\ Kept(v, l) /\ Alike(b, l) /\ b.stack = s.stack
         /\ Unchanged(v, l, DOMAIN v.temps \ {Local})
    <3>1. place.kind = q.kind /\ place.kind \in {"temp", "mem", "global"}
          /\ (place.kind # "global" => place.place = q.place)
      BY <2>1, <2>5
    <3>2. Local \in DOMAIN b1.temps /\ Local \in DOMAIN v.temps BY <2>10
    <3>3. Moves(b1, v, s.stack, l1.stack)
      BY <2>1, <2>7, <2>10, <2>11, <3>1, <3>2, MovesAlike
    <3> QED BY <2>8, <2>9, <3>3 DEF Moves
  <2>13. Kept(s, b) /\ Kept(t, l) BY <2>10, <2>12 DEF Kept
  <2>14. Unchanged(t, l, DOMAIN t.temps \ 0..n)
    <3>1. v.temps = l1.temps BY <2>7 DEF Is
    <3>2. DOMAIN t.temps \ 0..n \subseteq DOMAIN v.temps \ {Local} BY <2>10 DEF Local, Static
    <3> QED BY <2>3, <2>12, <3>1, <3>2 DEF Unchanged
  <2>15. Run(r.statements, t) = l BY <1>5 DEF l, l1
  <2> QED BY <1>3, <2>12, <2>13, <2>14, <2>15 DEF Follows, b
<1> QED BY <1>6, <1>7 DEF Lowers

(* An assignment to memory.                                                 *)
LEMMA MoveToMemLowers ==
  ASSUME NEW n \in Nat, n >= Static, NEW a, IsResult(a), Lowers(a, n), IsExpression(a),
         NEW c, IsResult(c), Lowers(c, n), IsExpression(c),
         NEW r, r.tree = Move(Mem(a.tree), c.tree),
         r.statements = a.statements \o <<Move(Temp(n + 1), a.expression)>> \o c.statements
                          \o <<Move(Mem(Temp(n + 1)), c.expression)>>,
         r.expression = Nothing
  PROVE  Lowers(r, n + 1) /\ IsResult(r)
<1> DEFINE m == n + 1
           x == a.tree
           y == c.tree
           e == c.expression
           head == Into(a, m)
           p == head \o c.statements
           place == Mem(Temp(m))
           move == Move(place, e)
<1>1. m \in Nat /\ n <= m /\ m # Local /\ m \notin 0..n BY DEF Local, Static
<1>2. /\ x.order \in Code /\ y.order \in Code /\ e.order \in Code /\ a.expression.order \in Code
      /\ IsList(a.statements) /\ IsList(c.statements)
  BY DEF IsResult
<1>3. ~IsExpression(r) BY DEF IsExpression
<1>4. Temp(m).order \in Code /\ place.order \in Code
  <2> HIDE DEF m
  <2> QED BY <1>1, TempRuns, MemOrder
<1>5. IsList(head) /\ IsList(p)
  <2> DEFINE save == Move(Temp(m), a.expression)
  <2>1. save.order \in Code BY <1>2, <1>4, MoveOrder
  <2> HIDE DEF save
  <2>2. IsList(a.statements \o <<save>>) BY <1>2, <2>1, RunThen
  <2>3. head = a.statements \o <<save>> BY DEF Into, save
  <2> HIDE DEF head
  <2> QED BY <1>2, <2>2, <2>3, ListConcat
<1>6. move.order \in Code /\ Mem(x).order \in Code
  <2> HIDE DEF place, e, x
  <2> QED BY <1>2, <1>4, MoveOrder, MemOrder
<1>7. Move(Mem(x), y).order \in Code
  <2> DEFINE z == Mem(x)
  <2>1. z.order \in Code BY <1>6
  <2> HIDE DEF z, y
  <2> QED BY <1>2, <2>1, MoveOrder DEF z
<1>8. /\ IsList(p \o <<move>>) /\ \A t : Run(p \o <<move>>, t) = Do(move, Run(p, t))
      /\ \A t : Run(p, t) = Run(c.statements, Run(head, t))
  <2> HIDE DEF head, move
  <2>1. \A t : Run(p, t) = Run(c.statements, Run(head, t)) BY <1>2, <1>5, RunConcat
  <2> HIDE DEF p
  <2>2. OneThen(p, move) BY <1>5, <1>6, RunOneThen, Zenon
  <2> QED BY <2>1, <2>2 DEF OneThen
<1>9. r.statements = p \o <<move>> BY DEF Into
<1>10. IsResult(r) BY <1>3, <1>7, <1>8, <1>9 DEF IsResult
<1>11. ASSUME NEW s, NEW t, Wide(s, m), Wide(t, m), Alike(s, t) PROVE Follows(r, m, s, t)
  <2> DEFINE b1 == Do(x, s)
             b2 == Do(Mem(x), s)
             b3 == Do(y, b2)
             b == Do(r.tree, s)
             l1 == Run(head, t)
             l2 == Run(c.statements, l1)
             u1 == Do(Temp(m), l2)
             u2 == Do(place, l2)
             u3 == Do(e, u2)
             l == Do(move, l2)
  <2>0. Wide(s, n) /\ Wide(t, n) BY <1>1, <1>11, WideLess
  <2>1. m \in DOMAIN t.temps BY <1>1, <1>11 DEF Wide
  <2>2. Saves(a, n, m, s, t)
    <3> HIDE DEF m
    <3> QED BY <1>1, <1>11, <2>0, <2>1, SavedInto
  <2>3. /\ Kept(s, b1) /\ Kept(t, l1) /\ Alike(b1, l1)
        /\ Unchanged(t, l1, (DOMAIN t.temps \ 0..n) \ {m})
        /\ \E item : b1.stack = Append(s.stack, item) /\ l1.temps[m] = item.value
    BY <1>1, <2>2 DEF Saves, Alike
  <2>4. PICK i : b1.stack = Append(s.stack, i) /\ l1.temps[m] = i.value BY <2>3
  <2> DEFINE value == Term("mem", 0, <<i.value>>, Len(b1.events))
             cell == Item("mem", value, i.value)
  <2>5. Is(b2, b1.temps, b1.events, Append(s.stack, cell))
    <3>1. b2 = Leave(Step("mem", 0, 1), b1)
      <4> HIDE DEF x
      <4> QED BY <1>2, MemRuns
    <3>2. IsState(b1) /\ IsSeq(s.stack) BY <1>11, <2>3 DEF Kept, Wide, IsState
    <3> HIDE DEF b1, b2
    <3> QED BY <2>4, <3>1, <3>2, LeaveMem
  <2>6. Wide(b2, n) /\ Wide(l1, n) /\ Alike(b2, l1) /\ DOMAIN b2.temps = DOMAIN s.temps
        /\ DOMAIN l1.temps = DOMAIN t.temps
    <3> HIDE DEF b1, b2, l1
    <3> QED BY <2>0, <2>3, <2>5 DEF Wide, Kept, Is, Alike
  <2>7. Follows(c, n, b2, l1)
    <3> HIDE DEF b2, l1
    <3> QED BY <2>6 DEF Lowers
  <2>8. /\ Kept(b2, b3) /\ Kept(l1, l2)
        /\ Unchanged(l1, l2, DOMAIN l1.temps \ 0..n)
        /\ \E item : b3.stack = Append(b2.stack, item) /\ Gives(e, item.value, b3, l2)
    BY <2>7 DEF Follows
  <2>9. PICK j : b3.stack = Append(b2.stack, j) /\ Gives(e, j.value, b3, l2) BY <2>8
  <2>10. l2.temps[m] = i.value /\ DOMAIN l2.temps = DOMAIN t.temps
    <3> HIDE DEF b1, b2, b3, l1, l2
    <3> QED BY <1>1, <2>1, <2>4, <2>6, <2>8 DEF Kept, Unchanged
  <2> DEFINE low == Item("temp", l2.temps[m], m)
             spot == Item("mem", Term("mem", 0, <<low.value>>, Len(u1.events)), low.value)
  <2>11. IsState(l2) /\ IsSeq(l2.stack) BY <2>8 DEF Kept, IsState
  <2>12. Is(u1, l2.temps, l2.events, Append(l2.stack, low))
    <3> HIDE DEF l2
    <3> QED BY <1>1, <2>11, TempRuns
  <2>13. Is(u2, l2.temps, l2.events, Append(l2.stack, spot))
    <3>1. u2 = Leave(Step("mem", 0, 1), u1)
      <4> DEFINE z == Temp(m)
      <4> HIDE DEF z, l2
      <4> QED BY <1>4, MemRuns DEF z
    <3> HIDE DEF u1, u2, l2, low
    <3>2. IsState(u1) /\ u1.stack = Append(l2.stack, low) /\ u1.temps = l2.temps
          /\ u1.events = l2.events
      BY <2>12 DEF Is
    <3> QED BY <2>11, <3>1, <3>2, LeaveMem
  <2>14. spot.kind = "mem" /\ spot.place = i.value /\ cell.kind = "mem" /\ cell.place = i.value
    BY <2>10 DEF Item
  <2>15. b3.temps[Local] = l2.temps[Local]
         /\ \E z : Is(u3, l2.temps, b3.events, Append(u2.stack, z)) /\ z.value = j.value
    <3> HIDE DEF u2, l2, b3, e, spot
    <3>1. IsState(u2) /\ u2.temps = l2.temps /\ u2.events = l2.events BY <2>13 DEF Is
    <3> QED BY <2>9, <3>1, GivesIn
  <2>16. PICK z : Is(u3, l2.temps, b3.events, Append(u2.stack, z)) /\ z.value = j.value
    BY <2>15
  <2>17. b = Leave(Step("move", 0, 2), b3)
    <3> DEFINE w == Mem(x)
    <3>1. w.order \in Code BY <1>6
    <3>2. Do(Move(w, y), s) = Leave(Step("move", 0, 2), Do(y, Do(w, s)))
      <4> HIDE DEF w, y
      <4> QED BY <1>2, <3>1, MoveRuns
    <3> QED BY <3>2
  <2>18. l = Leave(Step("move", 0, 2), u3)
    <3> HIDE DEF place, e, l2
    <3> QED BY <1>2, <1>4, MoveRuns
  <2>19. Run(r.statements, t) = l BY <1>8, <1>9
  <2> HIDE DEF b1, b2, b3, b, l1, l2, u1, u2, u3, l, cell, spot, value, low
  <2>20. /\ IsState(b3) /\ IsState(u3) /\ Alike(b3, u3) /\ IsSeq(b3.events)
         /\ DOMAIN b3.temps = DOMAIN s.temps /\ DOMAIN u3.temps = DOMAIN t.temps
         /\ Local \in DOMAIN s.temps /\ Local \in DOMAIN t.temps
         /\ IsSeq(s.stack) /\ IsSeq(l2.stack)
    <3>1. /\ IsState(b3) /\ IsSeq(b3.events) /\ DOMAIN b3.temps = DOMAIN s.temps
      BY <2>6, <2>8 DEF Kept
    <3>2. IsState(u3) /\ u3.temps = l2.temps /\ u3.events = b3.events BY <2>16 DEF Is
    <3>3. Alike(b3, u3) BY <2>15, <3>2 DEF Alike
    <3>4. Local \in 0..n BY DEF Local, Static
    <3> QED BY <1>11, <2>0, <2>3, <2>8, <2>10, <2>11, <3>1, <3>2, <3>3, <3>4 DEF Wide, IsState
  <2>21. /\ b3.stack = Append(Append(s.stack, cell), j)
         /\ u3.stack = Append(Append(l2.stack, spot), z)
    BY <2>5, <2>9, <2>13, <2>16, <2>20 DEF Is
  <2>22. Moves(b3, u3, s.stack, l2.stack)
    <3>1. cell.kind = spot.kind /\ cell.kind \in {"temp", "mem", "global"}
          /\ (cell.kind # "global" => cell.place = spot.place) /\ cell.kind # "temp"
      BY <2>14
    <3>2. Local \in DOMAIN b3.temps /\ Local \in DOMAIN u3.temps BY <2>20
    <3> QED BY <2>16, <2>20, <2>21, <3>1, <3>2, MovesAlike
  <2>23. /\ Kept(b3, b) /\ Kept(u3, l) /\ Alike(b, l) /\ b.stack = s.stack
         /\ Unchanged(u3, l, DOMAIN u3.temps \ {Local})
    BY <2>17, <2>18, <2>22 DEF Moves
  <2>24. Kept(s, b) /\ Kept(t, l) BY <2>20, <2>23 DEF Kept
  <2>25. Unchanged(t, l, DOMAIN t.temps \ 0..m)
    <3>1. u3.temps = l2.temps BY <2>16 DEF Is
    <3>2. DOMAIN t.temps \ 0..m \subseteq DOMAIN u3.temps \ {Local} BY <2>20 DEF Local, Static
    <3>3. DOMAIN t.temps \ 0..m \subseteq (DOMAIN t.temps \ 0..n) \ {m} BY <1>1
    <3> QED BY <2>3, <2>6, <2>8, <2>23, <3>1, <3>2, <3>3 DEF Unchanged
  <2> QED BY <1>3, <2>19, <2>23, <2>24, <2>25 DEF Follows, b
<1> HIDE DEF m
<1>12. Lowers(r, m) BY <1>11 DEF Lowers
<1> QED BY <1>10, <1>12 DEF m

(* A value that is discarded: what it is lowered to reads a temporary.      *)
LEMMA ExpLowers ==
  ASSUME NEW n \in Nat, NEW a, IsResult(a), Lowers(a, n), IsExpression(a),
         NEW m \in Nat, a.expression = Temp(m),
         NEW r, r.tree = Node("exp", 0, <<a.tree>>), r.statements = a.statements,
         r.expression = Nothing
  PROVE  Lowers(r, n) /\ IsResult(r)
<1> DEFINE x == a.tree
<1>1. x.order \in Code /\ IsList(a.statements) BY DEF IsResult
<1>2. ~IsExpression(r) BY DEF IsExpression
<1>3. "exp" \in Ops /\ "exp" # "virtual" BY DEF Ops
<1>4. r.tree = One("exp", x) BY DEF One
<1>5. /\ One("exp", x).order \in Code
      /\ \A s : Do(One("exp", x), s) = Leave(Step("exp", 0, 1), Do(x, s))
  <2> HIDE DEF x
  <2> QED BY <1>1, <1>3, OneOrder, OneRuns
<1>6. IsResult(r) BY <1>1, <1>2, <1>4, <1>5 DEF IsResult
<1>7. ASSUME NEW s, NEW t, Wide(s, n), Wide(t, n), Alike(s, t) PROVE Follows(r, n, s, t)
  <2> DEFINE b1 == Do(x, s)
             b == Do(r.tree, s)
             l == Run(a.statements, t)
             d == Do(Temp(m), l)
  <2>1. /\ Kept(s, b1) /\ Kept(t, l)
        /\ Unchanged(t, l, DOMAIN t.temps \ 0..n)
        /\ \E item : b1.stack = Append(s.stack, item) /\ Gives(Temp(m), item.value, b1, l)
    BY <1>7 DEF Lowers, Follows
  <2>2. PICK i : b1.stack = Append(s.stack, i) /\ Gives(Temp(m), i.value, b1, l) BY <2>1
  <2>3. b = Leave(Step("exp", 0, 1), b1) BY <1>4, <1>5
  <2>4. IsState(l) /\ IsState(b1) /\ IsSeq(s.stack) BY <1>7, <2>1 DEF Wide, Kept, IsState
  <2>5. Is(b, b1.temps, b1.events, s.stack)
    <3> HIDE DEF b1, b
    <3> QED BY <2>2, <2>3, <2>4, LeaveExp
  <2>6. Alike(b1, l)
    <3> HIDE DEF l, b1
    <3>1. Is(d, l.temps, l.events, Append(l.stack, Item("temp", l.temps[m], m)))
      BY <2>4, TempRuns
    <3>2. Alike(b1, d) BY <2>2, <2>4 DEF Gives
    <3> HIDE DEF d
    <3> QED BY <3>1, <3>2 DEF Alike, Is
  <2> HIDE DEF b1, b, l
  <2>7. Kept(s, b) /\ Alike(b, l) /\ b.stack = s.stack
    BY <2>1, <2>5, <2>6 DEF Kept, Alike, Is
  <2> QED BY <1>2, <2>1, <2>7 DEF Follows, b, l
<1> QED BY <1>6, <1>7 DEF Lowers

(* A jump or a return, and a label.                                         *)
LEMMA JumpLowers ==
  ASSUME NEW n \in Nat, NEW op \in {"cjump", "return"}, NEW a, IsResult(a), Lowers(a, n),
         IsExpression(a), NEW r, r.tree = Node(op, 0, <<a.tree>>),
         r.statements = a.statements \o <<Node(op, 0, <<a.expression>>)>>,
         r.expression = Nothing
  PROVE  Lowers(r, n) /\ IsResult(r)
<1> DEFINE x == a.tree
           e == a.expression
           p == a.statements
           jump == One(op, e)
<1>1. x.order \in Code /\ e.order \in Code /\ IsList(p) BY DEF IsResult
<1>2. ~IsExpression(r) BY DEF IsExpression
<1>3. op \in Ops /\ op # "virtual" BY DEF Ops
<1>4. r.tree = One(op, x) /\ r.statements = p \o <<jump>> BY DEF One
<1>5. /\ One(op, x).order \in Code /\ jump.order \in Code
      /\ \A s : Do(One(op, x), s) = Leave(Step(op, 0, 1), Do(x, s))
      /\ \A s : Do(jump, s) = Leave(Step(op, 0, 1), Do(e, s))
  <2> HIDE DEF x, e
  <2> QED BY <1>1, <1>3, OneOrder, OneRuns
<1>6. IsList(p \o <<jump>>) /\ \A t : Run(p \o <<jump>>, t) = Do(jump, Run(p, t))
  <2> HIDE DEF p, jump
  <2>1. OneThen(p, jump) BY <1>1, <1>5, RunOneThen, Zenon
  <2> QED BY <2>1 DEF OneThen
<1>7. IsResult(r) BY <1>2, <1>4, <1>5, <1>6 DEF IsResult
<1>8. ASSUME NEW s, NEW t, Wide(s, n), Wide(t, n), Alike(s, t) PROVE Follows(r, n, s, t)
  <2> DEFINE b1 == Do(x, s)
             b == Do(r.tree, s)
             l1 == Run(p, t)
             d == Do(e, l1)
             l == Do(jump, l1)
  <2>1. /\ Kept(s, b1) /\ Kept(t, l1)
        /\ Unchanged(t, l1, DOMAIN t.temps \ 0..n)
        /\ \E item : b1.stack = Append(s.stack, item) /\ Gives(e, item.value, b1, l1)
    BY <1>8 DEF Lowers, Follows
  <2>2. PICK i : b1.stack = Append(s.stack, i) /\ Gives(e, i.value, b1, l1) BY <2>1
  <2>3. b = Leave(Step(op, 0, 1), b1) /\ l = Leave(Step(op, 0, 1), d) BY <1>4, <1>5
  <2>4. IsState(l1) /\ IsState(b1) /\ IsSeq(s.stack) /\ IsSeq(l1.stack) /\ IsSeq(b1.events)
    BY <1>8, <2>1 DEF Wide, Kept, IsState
  <2>5. /\ b1.temps[Local] = l1.temps[Local]
        /\ \E z : Is(d, l1.temps, b1.events, Append(l1.stack, z)) /\ z.value = i.value
    <3> HIDE DEF l1, b1, e
    <3> QED BY <2>2, <2>4, GivesIn
  <2>6. PICK z : Is(d, l1.temps, b1.events, Append(l1.stack, z)) /\ z.value = i.value BY <2>5
  <2> DEFINE after == Append(b1.events, Term(op, 0, <<i.value>>, 0))
  <2>7. Is(b, b1.temps, after, s.stack)
    <3> HIDE DEF b1, b
    <3> QED BY <2>2, <2>3, <2>4, LeaveJump
  <2>8. Is(l, l1.temps, after, l1.stack)
    <3> HIDE DEF b1, l1, l, d
    <3>1. /\ IsState(d) /\ d.stack = Append(l1.stack, z) /\ d.temps = l1.temps
          /\ d.events = b1.events
      BY <2>1, <2>6 DEF Is
    <3> QED BY <2>3, <2>4, <2>6, <3>1, LeaveJump
  <2>9. IsSeq(after) BY <2>4, SeqAppend
  <2> HIDE DEF b1, b, l1, l, d, after
  <2>10. Kept(s, b) /\ Kept(t, l) /\ Alike(b, l) /\ b.stack = s.stack
         /\ Unchanged(t, l, DOMAIN t.temps \ 0..n)
    BY <2>1, <2>5, <2>7, <2>8, <2>9 DEF Kept, Alike, Is, Unchanged
  <2>11. Run(r.statements, t) = l BY <1>4, <1>6 DEF l, l1
  <2> QED BY <1>2, <2>10, <2>11 DEF Follows, b
<1> QED BY <1>7, <1>8 DEF Lowers

(* A label stays a label.                                                   *)
LEMMA LabelLowers ==
  ASSUME NEW n \in Nat, NEW r, r.tree = Node("label", 0, <<>>),
         r.statements = <<Node("label", 0, <<>>)>>, r.expression = Nothing
  PROVE  Lowers(r, n) /\ IsResult(r)
<1> DEFINE c == <<>>
           x == Node("label", 0, c)
<1>1. IsList(c) /\ Len(c) = 0 /\ \A s : Run(c, s) = s BY ListEmpty, RunNone
<1>2. "label" \in Ops /\ "label" # "virtual" BY DEF Ops
<1>3. ~IsExpression(r) BY DEF IsExpression
<1>4. x.order \in Code /\ \A s : Do(x, s) = Leave(Step("label", 0, 0), s)
  <2> HIDE DEF c
  <2>1. x.order \in Code BY <1>1, <1>2, NodeRuns
  <2>2. ASSUME NEW s PROVE Do(x, s) = Leave(Step("label", 0, 0), s)
    <3>1. Do(x, s) = Leave(Step("label", 0, Len(c)), Run(c, s)) BY <1>1, <1>2, NodeRuns
    <3> QED BY <1>1, <3>1
  <2> QED BY <2>1, <2>2
<1>5. IsList(<<x>>) /\ \A s : Run(<<x>>, s) = Do(x, s)
  <2> HIDE DEF x
  <2> QED BY <1>4, ListOne, RunOne
<1>6. r.tree = x /\ r.statements = <<x>> OBVIOUS
<1> HIDE DEF x
<1>7. IsResult(r) BY <1>3, <1>4, <1>5, <1>6 DEF IsResult
<1>8. ASSUME NEW s, NEW t, Wide(s, n), Wide(t, n), Alike(s, t) PROVE Follows(r, n, s, t)
  <2> DEFINE b == Do(x, s)
             l == Do(x, t)
             after == Append(s.events, Term("label", 0, <<>>, 0))
  <2>1. Is(b, s.temps, after, s.stack) BY <1>4, <1>8, LeaveLabel DEF Wide
  <2>2. Is(l, t.temps, after, t.stack) BY <1>4, <1>8, LeaveLabel DEF Wide, Alike
  <2>3. IsSeq(after) BY <1>8, SeqAppend DEF Wide
  <2> HIDE DEF b, l, after
  <2>4. Kept(s, b) /\ Kept(t, l) /\ Alike(b, l) /\ b.stack = s.stack
        /\ Unchanged(t, l, DOMAIN t.temps \ 0..n)
    BY <1>8, <2>1, <2>2, <2>3 DEF Kept, Alike, Is, Unchanged
  <2> QED BY <1>3, <1>5, <1>6, <2>4 DEF Follows, b, l
<1> QED BY <1>7, <1>8 DEF Lowers

----------------------------------------------------------------------------
(* Lists of results.                                                        *)
TreesOf(q) == [i \in DOMAIN q |-> q[i].tree]
StatementsOf(q) == [i \in DOMAIN q |-> q[i].statements]
IntosOf(q, n) == [i \in DOMAIN q |-> Into(q[i], n + i)]
Args(n, k) == [i \in 1..k |-> Temp(n + i)]

(* A sequence that another begins.                                          *)
IsTuple(g, k) == g = [i \in 1..k |-> g[i]]

(* A function on the first numbers is a sequence.                           *)
LEMMA TupleType ==
  ASSUME NEW k \in Nat, NEW g, IsTuple(g, k), NEW T, \A i \in 1..k : g[i] \in T
  PROVE  g \in Seq(T) /\ Len(g) = k
<1> DEFINE f == [i \in 1..k |-> g[i]]
<1>1. f \in Seq(T) /\ Len(f) = k OBVIOUS
<1>2. g = f BY DEF IsTuple
<1> HIDE DEF f
<1> QED BY <1>1, <1>2

(* A sequence that agrees with another on all but its last item.            *)
LEMMA Extended ==
  ASSUME NEW k \in Nat, NEW g, IsTuple(g, k), NEW h, IsTuple(h, k + 1),
         \A i \in 1..k : h[i] = g[i]
  PROVE  h = Append(g, h[k + 1])
<1> DEFINE T == {h[i] : i \in 1..k + 1}
           x == h[k + 1]
           a == Append(g, x)
<1>1. \A i \in 1..k + 1 : h[i] \in T OBVIOUS
<1> HIDE DEF T
<1>2. \A i \in 1..k : i \in 1..k + 1 OBVIOUS
<1>3. \A i \in 1..k : g[i] \in T BY <1>1, <1>2
<1>4. g \in Seq(T) /\ Len(g) = k BY <1>3, TupleType
<1>5. h \in Seq(T) /\ Len(h) = k + 1 BY <1>1, TupleType
<1>6. x \in T BY <1>1
<1>7. a \in Seq(T) /\ Len(a) = k + 1 /\ a[k + 1] = x /\ \A i \in 1..k : a[i] = g[i]
  BY <1>4, <1>6, AppendProperties
<1> HIDE DEF a
<1>8. \A i \in 1..k + 1 : i \in 1..k \/ i = k + 1 OBVIOUS
<1>9. \A i \in 1..Len(h) : h[i] = a[i] BY <1>5, <1>7, <1>8 DEF x
<1>10. h = a BY <1>5, <1>7, <1>9, SeqEqual
<1> QED BY <1>10 DEF a

(* One more result.                                                         *)
LEMMA AppendDomain ==
  ASSUME NEW R, NEW q \in Seq(R), NEW x \in R
  PROVE  /\ Append(q, x) \in Seq(R) /\ Len(Append(q, x)) = Len(q) + 1 /\ Len(q) \in Nat
         /\ DOMAIN q = 1..Len(q) /\ DOMAIN Append(q, x) = 1..Len(q) + 1
         /\ Append(q, x)[Len(q) + 1] = x /\ \A i \in 1..Len(q) : Append(q, x)[i] = q[i]
<1>1. Len(q) \in Nat /\ DOMAIN q = 1..Len(q) BY LenProperties
<1>2. Append(q, x) \in Seq(R) /\ Len(Append(q, x)) = Len(q) + 1 BY AppendProperties
<1>3. DOMAIN Append(q, x) = 1..Len(q) + 1
  <2> DEFINE p == Append(q, x)
  <2>1. p \in Seq(R) /\ Len(p) = Len(q) + 1 BY <1>2
  <2> HIDE DEF p
  <2>2. DOMAIN p = 1..Len(p) BY <2>1, LenProperties
  <2>3. DOMAIN p = 1..Len(q) + 1 BY <2>1, <2>2
  <2> QED BY <2>3 DEF p
<1> QED BY <1>1, <1>2, <1>3, AppendProperties

(* One more result, one more tree, list of statements and saved value.      *)
LEMMA MapsAppend ==
  ASSUME NEW R, NEW q \in Seq(R), NEW x \in R, NEW n
  PROVE  /\ TreesOf(Append(q, x)) = Append(TreesOf(q), x.tree)
         /\ StatementsOf(Append(q, x)) = Append(StatementsOf(q), x.statements)
         /\ IntosOf(Append(q, x), n) = Append(IntosOf(q, n), Into(x, n + (Len(q) + 1)))
<1> DEFINE p == Append(q, x)
           k == Len(q)
<1>1. /\ k \in Nat /\ DOMAIN q = 1..k /\ DOMAIN p = 1..k + 1
      /\ p[k + 1] = x /\ \A i \in 1..k : p[i] = q[i]
  BY AppendDomain
<1> HIDE DEF p, k
<1>2. TreesOf(p) = Append(TreesOf(q), x.tree)
  <2> DEFINE g == TreesOf(q)
             h == TreesOf(p)
  <2>1. g = [i \in 1..k |-> q[i].tree] /\ h = [i \in 1..k + 1 |-> p[i].tree]
    BY <1>1 DEF TreesOf
  <2> HIDE DEF g, h
  <2>2. IsTuple(g, k) /\ IsTuple(h, k + 1) BY <2>1 DEF IsTuple
  <2>3. \A i \in 1..k : h[i] = g[i] BY <1>1, <2>1
  <2>4. h[k + 1] = x.tree BY <1>1, <2>1
  <2>5. h = Append(g, h[k + 1]) BY <1>1, <2>2, <2>3, Extended
  <2> QED BY <2>4, <2>5 DEF g, h
<1>3. StatementsOf(p) = Append(StatementsOf(q), x.statements)
  <2> DEFINE g == StatementsOf(q)
             h == StatementsOf(p)
  <2>1. g = [i \in 1..k |-> q[i].statements] /\ h = [i \in 1..k + 1 |-> p[i].statements]
    BY <1>1 DEF StatementsOf
  <2> HIDE DEF g, h
  <2>2. IsTuple(g, k) /\ IsTuple(h, k + 1) BY <2>1 DEF IsTuple
  <2>3. \A i \in 1..k : h[i] = g[i] BY <1>1, <2>1
  <2>4. h[k + 1] = x.statements BY <1>1, <2>1
  <2>5. h = Append(g, h[k + 1]) BY <1>1, <2>2, <2>3, Extended
  <2> QED BY <2>4, <2>5 DEF g, h
<1>4. IntosOf(p, n) = Append(IntosOf(q, n), Into(x, n + (k + 1)))
  <2> DEFINE g == IntosOf(q, n)
             h == IntosOf(p, n)
  <2>1. g = [i \in 1..k |-> Into(q[i], n + i)] /\ h = [i \in 1..k + 1 |-> Into(p[i], n + i)]
    BY <1>1 DEF IntosOf
  <2> HIDE DEF g, h
  <2>2. IsTuple(g, k) /\ IsTuple(h, k + 1) BY <2>1 DEF IsTuple
  <2>3. \A i \in 1..k : h[i] = g[i] BY <1>1, <2>1
  <2>4. h[k + 1] = Into(x, n + (k + 1)) BY <1>1, <2>1
  <2>5. h = Append(g, h[k + 1]) BY <1>1, <2>2, <2>3, Extended
  <2> QED BY <2>4, <2>5 DEF g, h
<1> QED BY <1>2, <1>3, <1>4 DEF p, k

(* A list of lists, one list at a time.                                     *)
LEMMA FlattenLists ==
  ASSUME NEW L, \A a \in L : IsList(a), NEW q \in Seq(L), NEW x \in L,
         IsList(FlattenSeq(q))
  PROVE  /\ FlattenSeq(Append(q, x)) = FlattenSeq(q) \o x
         /\ IsList(FlattenSeq(q) \o x)
         /\ \A s : Run(FlattenSeq(Append(q, x)), s) = Run(x, Run(FlattenSeq(q), s))
<1> DEFINE S == UNION {{a[i] : i \in DOMAIN a} : a \in L}
           T == Seq(S)
<1>1. ASSUME NEW a \in L PROVE a \in T
  <2>1. PICK N : a \in Seq(N) BY DEF IsList
  <2>2. \A i \in 1..Len(a) : a[i] \in S BY <2>1
  <2>3. Len(a) \in Nat /\ a = [i \in 1..Len(a) |-> a[i]] BY <2>1, LenProperties
  <2> HIDE DEF S
  <2>4. [i \in 1..Len(a) |-> a[i]] \in Seq(S) BY <2>2, <2>3
  <2> QED BY <2>3, <2>4
<1> HIDE DEF S
<1>2. x \in Seq(S) /\ q \in Seq(T) /\ q \in Seq(Seq(S))
  <2>1. L \subseteq T BY <1>1
  <2> HIDE DEF T
  <2>2. q \in Seq(T) /\ x \in T BY <2>1, SeqMonotonic
  <2> QED BY <2>2 DEF T
<1>3. FlattenSeq(Append(q, x)) = FlattenSeq(q) \o x BY <1>2, FlattenAppend
<1>4. IsList(x) OBVIOUS
<1> DEFINE f == FlattenSeq(q)
<1> HIDE DEF f
<1>5. IsList(f \o x) /\ \A s : Run(f \o x, s) = Run(x, Run(f, s))
  BY <1>4, ListConcat, RunConcat DEF f
<1> QED BY <1>3, <1>5 DEF f

(* One more node of a list.                                                 *)
LEMMA ListMore ==
  ASSUME NEW a, IsList(a), NEW x, x.order \in Code
  PROVE  IsList(Append(a, x)) /\ \A s : Run(Append(a, x), s) = Do(x, Run(a, s))
<1>1. IsSeq(a) BY DEF IsList, IsSeq
<1>2. Append(a, x) = a \o <<x>> BY <1>1, SeqAppend
<1> DEFINE b == Append(a, x)
<1>3. IsList(a \o <<x>>) /\ \A s : Run(a \o <<x>>, s) = Do(x, Run(a, s)) BY RunThen
<1> QED BY <1>2, <1>3

----------------------------------------------------------------------------
(* Statements, one after another.                                           *)
FollowsAll(p, n, s, t) ==
  LET b == Run(TreesOf(p), s)
      l == Run(FlattenSeq(StatementsOf(p)), t)
  IN  /\ Kept(s, b) /\ Kept(t, l) /\ Alike(b, l) /\ b.stack = s.stack
      /\ Unchanged(t, l, DOMAIN t.temps \ 0..n)

LowersAll(p, n) ==
  /\ IsList(TreesOf(p)) /\ IsList(FlattenSeq(StatementsOf(p)))
  /\ \A s, t : Wide(s, n) /\ Wide(t, n) /\ Alike(s, t) => FollowsAll(p, n, s, t)

(* No results have no trees and no statements.                              *)
LEMMA EmptyMaps ==
  \A n : TreesOf(<<>>) = <<>> /\ StatementsOf(<<>>) = <<>> /\ IntosOf(<<>>, n) = <<>>
  BY DEF TreesOf, StatementsOf, IntosOf

(* Statements one after another mean what their trees do.                   *)
LEMMA StatementsLower ==
  ASSUME NEW n \in Nat, NEW R, \A x \in R : IsResult(x) /\ Lowers(x, n) /\ ~IsExpression(x),
         NEW q \in Seq(R)
  PROVE  LowersAll(q, n)
<1> DEFINE P == {p \in Seq(R) : StatementsOf(p) \in Seq({x.statements : x \in R})
                                /\ LowersAll(p, n)}
           L == {x.statements : x \in R}
<1>1. <<>> \in P
  <2> DEFINE o == <<>>
  <2>1. o \in Seq(R) /\ o \in Seq(L) /\ IsList(o) BY ListEmpty, EmptySeq
  <2>2. /\ TreesOf(o) = o /\ StatementsOf(o) = o /\ FlattenSeq(o) = o
        /\ \A s : Run(o, s) = s
    BY EmptyMaps, FlattenEmpty, RunNone
  <2> HIDE DEF o, L
  <2>3. ASSUME NEW s, NEW t, Wide(s, n), Wide(t, n), Alike(s, t) PROVE FollowsAll(o, n, s, t)
    BY <2>2, <2>3 DEF FollowsAll, Kept, Unchanged, Wide
  <2>4. LowersAll(o, n) BY <2>1, <2>2, <2>3 DEF LowersAll
  <2> QED BY <2>1, <2>2, <2>4 DEF o, L
<1>2. ASSUME NEW p \in Seq(R), NEW x \in R, p \in P PROVE Append(p, x) \in P
  <2> DEFINE o == Append(p, x)
             f == FlattenSeq(StatementsOf(p))
  <2>1. /\ TreesOf(o) = Append(TreesOf(p), x.tree)
        /\ StatementsOf(o) = Append(StatementsOf(p), x.statements)
    BY MapsAppend
  <2>2. o \in Seq(R) BY AppendProperties
  <2>3. /\ StatementsOf(p) \in Seq(L) /\ x.statements \in L /\ IsList(TreesOf(p)) /\ IsList(f)
        /\ \A a \in L : IsList(a)
    BY <1>2 DEF IsResult, LowersAll
  <2>4. StatementsOf(o) \in Seq(L)
    <3> HIDE DEF L, o
    <3> QED BY <2>1, <2>3, AppendProperties
  <2>5. IsList(TreesOf(o)) /\ \A s : Run(TreesOf(o), s) = Do(x.tree, Run(TreesOf(p), s))
    <3> HIDE DEF o
    <3> QED BY <2>1, <2>3, ListMore DEF IsResult
  <2>6. /\ IsList(FlattenSeq(StatementsOf(o)))
        /\ \A t : Run(FlattenSeq(StatementsOf(o)), t) = Run(x.statements, Run(f, t))
    <3> DEFINE g == StatementsOf(p)
               y == x.statements
    <3> HIDE DEF L, g, y
    <3>1. g \in Seq(L) /\ y \in L /\ IsList(FlattenSeq(g)) BY <2>3 DEF g, y
    <3>2. /\ FlattenSeq(Append(g, y)) = FlattenSeq(g) \o y /\ IsList(FlattenSeq(g) \o y)
          /\ \A s : Run(FlattenSeq(Append(g, y)), s) = Run(y, Run(FlattenSeq(g), s))
      BY <2>3, <3>1, FlattenLists
    <3> QED BY <2>1, <3>2 DEF g, y
  <2> HIDE DEF o, f
  <2>7. ASSUME NEW s, NEW t, Wide(s, n), Wide(t, n), Alike(s, t) PROVE FollowsAll(o, n, s, t)
    <3> DEFINE b == Run(TreesOf(p), s)
               l == Run(f, t)
               c == Do(x.tree, b)
               m == Run(x.statements, l)
    <3>1. /\ Kept(s, b) /\ Kept(t, l) /\ Alike(b, l) /\ b.stack = s.stack
          /\ Unchanged(t, l, DOMAIN t.temps \ 0..n)
      BY <1>2, <2>7 DEF LowersAll, FollowsAll, f
    <3>2. Wide(b, n) /\ Wide(l, n) BY <2>7, <3>1, KeptWide
    <3> HIDE DEF b, l
    <3>3. /\ Kept(b, c) /\ Kept(l, m) /\ Unchanged(l, m, DOMAIN l.temps \ 0..n)
          /\ c.stack = b.stack /\ Alike(c, m)
      BY <3>1, <3>2 DEF Lowers, Follows
    <3>4. Run(TreesOf(o), s) = c /\ Run(FlattenSeq(StatementsOf(o)), t) = m
      BY <2>5, <2>6 DEF b, l
    <3> HIDE DEF c, m
    <3>5. /\ Kept(s, c) /\ Kept(t, m) /\ Alike(c, m) /\ c.stack = s.stack
          /\ Unchanged(t, m, DOMAIN t.temps \ 0..n)
      BY <3>1, <3>3 DEF Kept, Unchanged
    <3> QED BY <3>4, <3>5 DEF FollowsAll
  <2>8. LowersAll(o, n) BY <2>5, <2>6, <2>7 DEF LowersAll
  <2> QED BY <2>2, <2>4, <2>8 DEF o
<1> HIDE DEF P, L
<1>3. Seq(R) \subseteq P BY <1>1, <1>2, SeqInduct
<1>4. q \in P BY <1>3
<1> QED BY <1>4 DEF P

(* A sequence of statements.                                                *)
LEMMA SeqLowers ==
  ASSUME NEW n \in Nat, NEW R, \A x \in R : IsResult(x) /\ Lowers(x, n) /\ ~IsExpression(x),
         NEW q \in Seq(R), NEW r, r.tree = Node("seq", 0, TreesOf(q)),
         r.statements = FlattenSeq(StatementsOf(q)), r.expression = Nothing
  PROVE  Lowers(r, n) /\ IsResult(r)
<1> DEFINE c == TreesOf(q)
           x == Node("seq", 0, c)
<1>1. LowersAll(q, n) BY StatementsLower
<1>2. IsList(c) /\ IsList(r.statements) BY <1>1 DEF LowersAll
<1>3. "seq" \in Ops /\ "seq" # "virtual" BY DEF Ops
<1>4. ~IsExpression(r) BY DEF IsExpression
<1>5. x.order \in Code /\ \A s : Do(x, s) = Run(c, s)
  <2> HIDE DEF c
  <2>1. x.order \in Code BY <1>2, <1>3, NodeRuns
  <2>2. ASSUME NEW s PROVE Do(x, s) = Run(c, s)
    <3>1. Do(x, s) = Leave(Step("seq", 0, Len(c)), Run(c, s)) BY <1>2, <1>3, NodeRuns
    <3> DEFINE k == Len(c)
    <3> HIDE DEF k
    <3>2. Leave(Step("seq", 0, k), Run(c, s)) = Run(c, s) BY LeaveOther
    <3> QED BY <3>1, <3>2 DEF k
  <2> QED BY <2>1, <2>2
<1>6. IsResult(r) BY <1>2, <1>4, <1>5 DEF IsResult
<1>7. ASSUME NEW s, NEW t, Wide(s, n), Wide(t, n), Alike(s, t) PROVE Follows(r, n, s, t)
  <2>1. FollowsAll(q, n, s, t) BY <1>1, <1>7 DEF LowersAll
  <2>2. Do(r.tree, s) = Run(TreesOf(q), s) BY <1>5
  <2> QED BY <1>4, <2>1, <2>2 DEF Follows, FollowsAll
<1> QED BY <1>6, <1>7 DEF Lowers

----------------------------------------------------------------------------
(* Arguments: each is computed into a temporary of its own.                 *)
Passes(p, n, s, t) ==
  LET b == Run(TreesOf(p), s)
      l == Run(FlattenSeq(IntosOf(p, n)), t)
  IN  /\ Kept(s, b) /\ Kept(t, l) /\ Alike(b, l)
      /\ Unchanged(t, l, DOMAIN t.temps \ 0..n + Len(p))
      /\ \E items : /\ IsSeq(items) /\ Len(items) = Len(p) /\ b.stack = s.stack \o items
                    /\ \A i \in 1..Len(p) : l.temps[n + i] = items[i].value

PassesAll(p, n) ==
  /\ IsList(TreesOf(p)) /\ IsList(FlattenSeq(IntosOf(p, n)))
  /\ \A s, t : Wide(s, n) /\ Wide(t, n + Len(p)) /\ Alike(s, t) => Passes(p, n, s, t)

(* Nothing after a sequence.                                                *)
LEMMA NoItems ==
  ASSUME NEW q, IsSeq(q)
  PROVE  q \o <<>> = q
<1>1. PICK I : q \in Seq(I) BY DEF IsSeq
<1> QED BY <1>1, ConcatEmptySeq

Longer(q, p, x) == Append(q \o p, x) = q \o Append(p, x)

(* Appending to the second of two sequences appends to both.                *)
LEMMA OneMoreItem ==
  ASSUME NEW q, IsSeq(q), NEW p, IsSeq(p), NEW x
  PROVE  Longer(q, p, x)
<1>1. PICK I : q \in Seq(I) BY DEF IsSeq
<1>2. PICK K : p \in Seq(K) BY DEF IsSeq
<1> DEFINE J == I \cup K \cup {x}
<1>3. q \in Seq(J) /\ p \in Seq(J) /\ x \in J BY <1>1, <1>2, SeqMonotonic
<1> HIDE DEF J
<1>4. q \o p \in Seq(J) /\ <<x>> \in Seq(J) BY <1>3, ConcatProperties
<1>5. Append(q \o p, x) = (q \o p) \o <<x>> BY <1>3, <1>4, AppendIsConcat
<1>6. Append(p, x) = p \o <<x>> BY <1>3, AppendIsConcat
<1>7. (q \o p) \o <<x>> = q \o (p \o <<x>>) BY <1>3, <1>4, ConcatAssociative, SMTT(30)
<1> QED BY <1>5, <1>6, <1>7 DEF Longer

(* One more item, of any kind.                                              *)
LEMMA ItemAdded ==
  ASSUME NEW items, IsSeq(items), NEW k, Len(items) = k, NEW item
  PROVE  LET all == Append(items, item)
         IN  /\ IsSeq(all) /\ Len(all) = k + 1 /\ all[k + 1] = item
             /\ \A i \in 1..k : all[i] = items[i]
  BY SeqAppend

(* Arguments computed into temporaries hold what their trees leave.         *)
LEMMA ArgumentsPassed ==
  ASSUME NEW n \in Nat, n >= Static,
         NEW R, \A x \in R : IsResult(x) /\ Lowers(x, n) /\ IsExpression(x), NEW q \in Seq(R)
  PROVE  PassesAll(q, n)
<1> DEFINE L == {Into(x, m) : x \in R, m \in Nat}
           P == {p \in Seq(R) : IntosOf(p, n) \in Seq(L) /\ PassesAll(p, n)}
<1>0. ASSUME NEW x \in R, NEW m \in Nat PROVE IsList(Into(x, m))
  <2> DEFINE move == Move(Temp(m), x.expression)
  <2>1. move.order \in Code BY TempRuns, MoveOrder DEF IsResult
  <2> HIDE DEF move
  <2>2. IsList(x.statements \o <<move>>) BY <2>1, RunThen DEF IsResult
  <2> QED BY <2>2 DEF Into, move
<1>1. <<>> \in P
  <2> DEFINE o == <<>>
  <2>1. o \in Seq(R) /\ o \in Seq(L) /\ IsList(o) /\ Len(o) = 0 BY ListEmpty, EmptySeq
  <2>2. /\ TreesOf(o) = o /\ IntosOf(o, n) = o /\ FlattenSeq(o) = o
        /\ \A s : Run(o, s) = s
    BY EmptyMaps, FlattenEmpty, RunNone
  <2>3. IsSeq(o) /\ \A a : IsSeq(a) => a \o o = a BY <2>1, NoItems DEF IsSeq
  <2> HIDE DEF o, L
  <2>4. ASSUME NEW s, NEW t, Wide(s, n), Wide(t, n + Len(o)), Alike(s, t)
        PROVE  Passes(o, n, s, t)
    <3>1. /\ Kept(s, s) /\ Kept(t, t) /\ Unchanged(t, t, DOMAIN t.temps \ 0..n + Len(o))
      BY <2>4 DEF Kept, Unchanged, Wide
    <3>2. s.stack = s.stack \o o BY <2>3, <2>4 DEF Wide, IsState
    <3>3. \A i \in 1..Len(o) : t.temps[n + i] = o[i].value BY <2>1
    <3>4. \E items : /\ IsSeq(items) /\ Len(items) = Len(o) /\ s.stack = s.stack \o items
                     /\ \A i \in 1..Len(o) : t.temps[n + i] = items[i].value
      BY <2>3, <3>2, <3>3
    <3> QED BY <2>2, <2>4, <3>1, <3>4 DEF Passes
  <2>5. PassesAll(o, n) BY <2>1, <2>2, <2>4 DEF PassesAll
  <2> QED BY <2>1, <2>2, <2>5 DEF o
<1>2. ASSUME NEW p \in Seq(R), NEW x \in R, p \in P PROVE Append(p, x) \in P
  <2> DEFINE o == Append(p, x)
             f == FlattenSeq(IntosOf(p, n))
             k == Len(p)
             m == n + (k + 1)
             y == Into(x, m)
  <2>0. k \in Nat /\ m \in Nat /\ m # Local /\ m \notin 0..n + k /\ n <= m /\ n + k <= m
        /\ 0..n \subseteq 0..n + k
    <3>1. k \in Nat BY LenProperties
    <3> HIDE DEF k
    <3> QED BY <3>1 DEF Local, Static
  <2>1. /\ TreesOf(o) = Append(TreesOf(p), x.tree)
        /\ IntosOf(o, n) = Append(IntosOf(p, n), y)
    BY MapsAppend
  <2>2. o \in Seq(R) /\ Len(o) = k + 1 BY AppendProperties
  <2>3. /\ IntosOf(p, n) \in Seq(L) /\ y \in L /\ IsList(TreesOf(p)) /\ IsList(f)
        /\ \A a \in L : IsList(a)
    BY <1>0, <1>2, <2>0 DEF PassesAll
  <2> HIDE DEF L, o, k, m
  <2>4. IntosOf(o, n) \in Seq(L) BY <2>1, <2>3, AppendProperties
  <2>5. IsList(TreesOf(o)) /\ \A s : Run(TreesOf(o), s) = Do(x.tree, Run(TreesOf(p), s))
    BY <2>1, <2>3, ListMore DEF IsResult
  <2>6. /\ IsList(FlattenSeq(IntosOf(o, n)))
        /\ \A t : Run(FlattenSeq(IntosOf(o, n)), t) = Run(y, Run(f, t))
    <3> DEFINE g == IntosOf(p, n)
    <3> HIDE DEF g, y
    <3>1. g \in Seq(L) /\ y \in L /\ IsList(FlattenSeq(g)) BY <2>3 DEF g
    <3>2. /\ FlattenSeq(Append(g, y)) = FlattenSeq(g) \o y /\ IsList(FlattenSeq(g) \o y)
          /\ \A s : Run(FlattenSeq(Append(g, y)), s) = Run(y, Run(FlattenSeq(g), s))
      BY <2>3, <3>1, FlattenLists
    <3> QED BY <2>1, <3>2 DEF g
  <2> HIDE DEF f
  <2>7. ASSUME NEW s, NEW t, Wide(s, n), Wide(t, n + Len(o)), Alike(s, t)
        PROVE  Passes(o, n, s, t)
    <3> DEFINE b == Run(TreesOf(p), s)
               l == Run(f, t)
               c == Do(x.tree, b)
               d == Run(y, l)
    <3>0. n + Len(o) = m BY <2>0, <2>2 DEF m
    <3>1. Wide(t, n + k) /\ Wide(t, n)
      <4>1. n + k \in Nat BY <2>0
      <4> QED BY <2>0, <2>7, <3>0, <4>1, WideLess
    <3>2. Passes(p, n, s, t) BY <1>2, <2>7, <3>1 DEF PassesAll, k
    <3>3. /\ Kept(s, b) /\ Kept(t, l) /\ Alike(b, l)
          /\ Unchanged(t, l, DOMAIN t.temps \ 0..n + k)
          /\ \E items : /\ IsSeq(items) /\ Len(items) = k /\ b.stack = s.stack \o items
                        /\ \A i \in 1..k : l.temps[n + i] = items[i].value
      BY <3>2 DEF Passes, f, k
    <3>4. PICK items : /\ IsSeq(items) /\ Len(items) = k /\ b.stack = s.stack \o items
                       /\ \A i \in 1..k : l.temps[n + i] = items[i].value
      BY <3>3
    <3> HIDE DEF b, l
    <3>5. Wide(b, n) /\ Wide(l, n) BY <2>7, <3>1, <3>3, KeptWide
    <3>6. DOMAIN l.temps = DOMAIN t.temps /\ 0..m \subseteq DOMAIN t.temps
      BY <2>7, <3>0, <3>3 DEF Kept, Wide
    <3>7. m \in DOMAIN l.temps BY <2>0, <3>6
    <3>8. Saves(x, n, m, b, l) BY <2>0, <3>3, <3>5, <3>7, SavedInto
    <3>9. /\ Kept(b, c) /\ Kept(l, d) /\ Alike(c, d)
          /\ Unchanged(l, d, (DOMAIN l.temps \ 0..n) \ {m})
          /\ \E item : c.stack = Append(b.stack, item) /\ d.temps[m] = item.value
      BY <2>0, <3>8 DEF Saves, Alike
    <3>10. PICK item : c.stack = Append(b.stack, item) /\ d.temps[m] = item.value BY <3>9
    <3>11. Run(TreesOf(o), s) = c /\ Run(FlattenSeq(IntosOf(o, n)), t) = d
      BY <2>5, <2>6 DEF b, l
    <3> HIDE DEF c, d, y
    <3>12. IsSeq(s.stack) BY <2>7 DEF Wide, IsState
    <3>13. c.stack = s.stack \o Append(items, item)
      <4>1. Longer(s.stack, items, item) BY <3>4, <3>12, OneMoreItem
      <4> QED BY <3>4, <3>10, <4>1 DEF Longer
    <3> DEFINE all == Append(items, item)
    <3>14. /\ IsSeq(all) /\ Len(all) = k + 1 /\ all[k + 1] = item
           /\ \A i \in 1..k : all[i] = items[i]
      BY <3>4, SeqAppend, ZenonT(60)
    <3> HIDE DEF all
    <3>15. ASSUME NEW i \in 1..Len(o) PROVE d.temps[n + i] = all[i].value
      <4>1. CASE i = k + 1 BY <3>10, <3>14, <4>1 DEF m
      <4>2. CASE i # k + 1
        <5>1. i \in 1..k BY <2>0, <2>2, <4>2
        <5>2. n + i \in (DOMAIN l.temps \ 0..n) \ {m}
          <6>1. n + i \in 0..m /\ n + i \notin 0..n /\ n + i # m BY <2>0, <5>1 DEF m
          <6> QED BY <3>6, <6>1
        <5>3. d.temps[n + i] = l.temps[n + i] BY <3>9, <5>2 DEF Unchanged
        <5> QED BY <3>4, <3>14, <5>1, <5>3
      <4> QED BY <4>1, <4>2
    <3>16. Kept(s, c) /\ Kept(t, d) BY <3>3, <3>9 DEF Kept
    <3>17. Unchanged(t, d, DOMAIN t.temps \ 0..n + Len(o))
      <4>1. DOMAIN t.temps \ 0..m \subseteq DOMAIN t.temps \ 0..n + k BY <2>0
      <4>2. DOMAIN t.temps \ 0..m \subseteq (DOMAIN l.temps \ 0..n) \ {m} BY <2>0, <3>6
      <4> QED BY <3>0, <3>3, <3>9, <4>1, <4>2 DEF Unchanged
    <3>18. c.stack = s.stack \o all BY <3>13 DEF all
    <3> QED BY <2>2, <3>9, <3>11, <3>14, <3>15, <3>16, <3>17, <3>18 DEF Passes
  <2>8. PassesAll(o, n) BY <2>5, <2>6, <2>7 DEF PassesAll
  <2> QED BY <2>2, <2>4, <2>8 DEF o, L
<1> HIDE DEF P, L
<1>3. Seq(R) \subseteq P BY <1>1, <1>2, SeqInduct
<1>4. q \in P BY <1>3
<1> QED BY <1>4 DEF P

(* The temporaries of the arguments are read in order.                      *)
ReadsAll(n, k, l) ==
  \E items : /\ IsSeq(items) /\ Len(items) = k
             /\ Is(Run(Args(n, k), l), l.temps, l.events, l.stack \o items)
             /\ \A i \in 1..k : items[i].value = l.temps[n + i]

(* One more argument.                                                       *)
LEMMA ArgsAppend ==
  ASSUME NEW n, NEW k \in Nat
  PROVE  Args(n, k + 1) = Append(Args(n, k), Temp(n + (k + 1)))
<1> DEFINE g == Args(n, k)
           h == Args(n, k + 1)
<1>1. g = [i \in 1..k |-> Temp(n + i)] /\ h = [i \in 1..k + 1 |-> Temp(n + i)] BY DEF Args
<1> HIDE DEF g, h
<1>2. IsTuple(g, k) /\ IsTuple(h, k + 1) BY <1>1 DEF IsTuple
<1>3. \A i \in 1..k : h[i] = g[i]
  <2>1. \A i \in 1..k : i \in 1..k + 1 OBVIOUS
  <2> QED BY <1>1, <2>1
<1>4. h[k + 1] = Temp(n + (k + 1))
  <2>1. k + 1 \in 1..k + 1 OBVIOUS
  <2> QED BY <1>1, <2>1
<1>5. h = Append(g, h[k + 1]) BY <1>2, <1>3, Extended
<1> QED BY <1>4, <1>5 DEF g, h

(* Reading the temporaries of the arguments puts them on the stack.         *)
LEMMA ArgumentsRead ==
  ASSUME NEW n \in Nat, NEW k \in Nat
  PROVE  IsList(Args(n, k)) /\ Len(Args(n, k)) = k /\ \A l : IsState(l) => ReadsAll(n, k, l)
<1> DEFINE G == {j \in Nat : IsList(Args(n, j)) /\ Len(Args(n, j)) = j
                             /\ \A l : IsState(l) => ReadsAll(n, j, l)}
<1>1. 0 \in G
  <2> DEFINE o == <<>>
  <2>1. Args(n, 0) = o /\ Len(o) = 0 /\ IsList(o) /\ IsSeq(o)
        /\ (\A l : Run(o, l) = l) /\ \A a : IsSeq(a) => a \o o = a
    <3>1. Args(n, 0) = o BY DEF Args
    <3>2. IsSeq(o) BY EmptySeq DEF IsSeq
    <3> QED BY <3>1, <3>2, ListEmpty, RunNone, NoItems
  <2> HIDE DEF o
  <2>2. ASSUME NEW l, IsState(l) PROVE ReadsAll(n, 0, l)
    <3>1. Is(Run(Args(n, 0), l), l.temps, l.events, l.stack \o o)
      BY <2>1, <2>2 DEF Is, IsState
    <3>2. \A i \in 1..0 : o[i].value = l.temps[n + i] OBVIOUS
    <3> QED BY <2>1, <3>1, <3>2 DEF ReadsAll
  <2> QED BY <2>1, <2>2
<1>2. ASSUME NEW j \in Nat, j \in G PROVE j + 1 \in G
  <2> DEFINE a == Args(n, j)
             b == Args(n, j + 1)
             m == n + (j + 1)
  <2>1. b = Append(a, Temp(m)) BY ArgsAppend
  <2>2. IsList(a) /\ Len(a) = j /\ m \in Nat BY <1>2
  <2>3. Temp(m).order \in Code BY <2>2, TempRuns
  <2> HIDE DEF m, a, b
  <2>4. IsList(b) /\ \A s : Run(b, s) = Do(Temp(m), Run(a, s)) BY <2>1, <2>2, <2>3, ListMore
  <2>5. Len(b) = j + 1
    <3>1. IsSeq(a) BY <2>2 DEF IsList, IsSeq
    <3> QED BY <2>1, <2>2, <3>1, SeqAppend
  <2>6. ASSUME NEW l, IsState(l) PROVE ReadsAll(n, j + 1, l)
    <3>1. PICK items : /\ IsSeq(items) /\ Len(items) = j
                       /\ Is(Run(a, l), l.temps, l.events, l.stack \o items)
                       /\ \A i \in 1..j : items[i].value = l.temps[n + i]
      BY <1>2, <2>6 DEF ReadsAll, a
    <3> DEFINE c == Run(a, l)
               item == Item("temp", l.temps[m], m)
               all == Append(items, item)
    <3> HIDE DEF c
    <3>2. IsState(c) /\ c.temps = l.temps /\ c.events = l.events /\ c.stack = l.stack \o items
      BY <3>1 DEF c, Is
    <3>3. Is(Do(Temp(m), c), l.temps, l.events, Append(l.stack \o items, item))
      BY <2>2, <3>2, TempRuns
    <3>4. item.value = l.temps[m] BY DEF Item
    <3> HIDE DEF item
    <3>5. IsSeq(l.stack) BY <2>6 DEF IsState
    <3>6. Append(l.stack \o items, item) = l.stack \o all
      <4>1. Longer(l.stack, items, item) BY <3>1, <3>5, OneMoreItem
      <4> QED BY <4>1 DEF Longer
    <3>7. /\ IsSeq(all) /\ Len(all) = j + 1 /\ all[j + 1] = item
          /\ \A i \in 1..j : all[i] = items[i]
      BY <3>1, ItemAdded
    <3> HIDE DEF all
    <3>8. Is(Run(b, l), l.temps, l.events, l.stack \o all) BY <2>4, <3>3, <3>6 DEF c
    <3>9. ASSUME NEW i \in 1..j + 1 PROVE all[i].value = l.temps[n + i]
      <4>1. CASE i = j + 1 BY <3>4, <3>7, <4>1 DEF m
      <4>2. CASE i # j + 1
        <5>1. i \in 1..j BY <4>2
        <5> QED BY <3>1, <3>7, <5>1
      <4> QED BY <4>1, <4>2
    <3> QED BY <3>7, <3>8, <3>9 DEF ReadsAll, b
  <2> QED BY <2>4, <2>5, <2>6 DEF b
<1> HIDE DEF G
<1>3. Nat \subseteq G BY <1>1, <1>2, Induct
<1>4. k \in G BY <1>3
<1> QED BY <1>4 DEF G

----------------------------------------------------------------------------
(* Calls, in states that agree and with the same values for the arguments.  *)
Calls(op, k, v, w, base) ==
  LET b == Leave(Step(op, 0, k), v)
      l == Leave(Step(op, 0, k), w)
  IN  /\ Kept(v, b) /\ Kept(w, l) /\ Alike(b, l) /\ Unchanged(w, l, DOMAIN w.temps \ {Ret})
      /\ \E value : b.stack = Append(base, Computed(value)) /\ l.temps[Ret] = value

(* A call with the same arguments leaves the states alike.                  *)
LEMMA CallsAlike ==
  ASSUME NEW op \in {"call", "virtual"}, NEW k \in Nat,
         NEW v, IsState(v), NEW w, IsState(w), Alike(v, w), IsSeq(v.events),
         {Ret, Local} \subseteq DOMAIN v.temps, {Ret, Local} \subseteq DOMAIN w.temps,
         NEW base, IsSeq(base), NEW below, IsSeq(below),
         NEW items, IsSeq(items), Len(items) = k, NEW others, IsSeq(others), Len(others) = k,
         \A i \in 1..k : items[i].value = others[i].value,
         v.stack = base \o items, w.stack = below \o others
  PROVE  Calls(op, k, v, w, base)
<1> DEFINE b == Leave(Step(op, 0, k), v)
           l == Leave(Step(op, 0, k), w)
           of == [i \in 1..k |-> items[i].value]
           after == Append(v.events, Term("call", 0, of, 0))
           value == Term("returned", 0, <<>>, Len(after))
<1>0. v.events = w.events /\ v.temps[Local] = w.temps[Local] BY DEF Alike
<1>1. of = [i \in 1..k |-> others[i].value] OBVIOUS
<1>2. Is(b, [v.temps EXCEPT ![Ret] = value], after, Append(base, Computed(value)))
  BY LeaveCalls
<1>3. Is(l, [w.temps EXCEPT ![Ret] = value], after, Append(below, Computed(value)))
  <2>1. Is(Leave(Step(op, 0, Len(others)), w),
           [w.temps EXCEPT ![Ret] = Term("returned", 0, <<>>,
              Len(Append(w.events, Term("call", 0, [i \in 1..Len(others) |-> others[i].value], 0))))],
           Append(w.events, Term("call", 0, [i \in 1..Len(others) |-> others[i].value], 0)),
           Append(below, Computed(Term("returned", 0, <<>>,
              Len(Append(w.events, Term("call", 0, [i \in 1..Len(others) |-> others[i].value], 0)))))))
    <3>1. IsSeq(w.events) BY <1>0
    <3> QED BY <3>1, LeaveCalls
  <2> QED BY <1>0, <1>1, <2>1
<1>4. IsSeq(after) BY SeqAppend
<1> HIDE DEF b, l, after, value, of
<1>5. /\ b.temps = [v.temps EXCEPT ![Ret] = value] /\ l.temps = [w.temps EXCEPT ![Ret] = value]
  BY <1>2, <1>3 DEF Is
<1>6. /\ DOMAIN b.temps = DOMAIN v.temps /\ DOMAIN l.temps = DOMAIN w.temps
      /\ l.temps[Ret] = value /\ \A m \in DOMAIN w.temps : m # Ret => l.temps[m] = w.temps[m]
      /\ \A m \in DOMAIN v.temps : m # Ret => b.temps[m] = v.temps[m]
  BY <1>5
<1>7. b.temps[Local] = l.temps[Local]
  <2>1. Local # Ret BY DEF Ret, Local
  <2>2. b.temps[Local] = v.temps[Local] /\ l.temps[Local] = w.temps[Local] BY <1>6, <2>1
  <2> QED BY <1>0, <2>2
<1>8. /\ Kept(v, b) /\ Kept(w, l) /\ Alike(b, l) /\ Unchanged(w, l, DOMAIN w.temps \ {Ret})
      /\ b.stack = Append(base, Computed(value))
  BY <1>2, <1>3, <1>4, <1>6, <1>7 DEF Kept, Alike, Is, Unchanged
<1> QED BY <1>6, <1>8 DEF Calls, b, l

(* A temporary gives the value it holds.                                    *)
LEMMA GivesTemp ==
  ASSUME NEW m \in Nat, NEW b, NEW l, Alike(b, l)
  PROVE  Gives(Temp(m), l.temps[m], b, l)
<1> SUFFICES ASSUME NEW u, IsState(u), u.temps = l.temps, u.events = l.events
    PROVE  LET d == Do(Temp(m), u)
           IN  /\ IsState(d) /\ d.temps = l.temps /\ Alike(b, d)
               /\ \E item : d.stack = Append(u.stack, item) /\ item.value = l.temps[m]
  BY DEF Gives
<1> DEFINE d == Do(Temp(m), u)
           item == Item("temp", u.temps[m], m)
<1>1. Is(d, u.temps, u.events, Append(u.stack, item)) BY TempRuns
<1>2. item.value = l.temps[m] BY DEF Item
<1> HIDE DEF d, item
<1>3. IsState(d) /\ d.temps = l.temps /\ Alike(b, d) /\ d.stack = Append(u.stack, item)
  BY <1>1 DEF Is, Alike
<1> QED BY <1>2, <1>3 DEF d

(* A call: each argument into a temporary of its own, then the call.        *)
LEMMA CallLowers ==
  ASSUME NEW n \in Nat, n >= Static,
         NEW R, \A x \in R : IsResult(x) /\ Lowers(x, n) /\ IsExpression(x), NEW q \in Seq(R),
         NEW r, r.tree = Node("call", 0, TreesOf(q)),
         r.statements = FlattenSeq(IntosOf(q, n)) \o <<Node("call", 0, Args(n, Len(q)))>>,
         r.expression = Temp(Ret)
  PROVE  Lowers(r, n + Len(q)) /\ IsResult(r)
<1> DEFINE k == Len(q)
           c == TreesOf(q)
           f == FlattenSeq(IntosOf(q, n))
           a == Args(n, k)
           call == Node("call", 0, a)
           m == n + k
<1>1. PassesAll(q, n) BY ArgumentsPassed
<1>2. k \in Nat /\ DOMAIN q = 1..k BY LenProperties
<1>3. IsList(c) /\ IsList(f) BY <1>1 DEF PassesAll
<1>4. Len(c) = k
  <2>1. c = [i \in 1..k |-> q[i].tree] BY <1>2 DEF TreesOf
  <2> HIDE DEF k, c
  <2>2. IsTuple(c, k) BY <2>1 DEF IsTuple
  <2>3. \A i \in 1..k : c[i] \in {c[j] : j \in 1..k} OBVIOUS
  <2> QED BY <1>2, <2>2, <2>3, TupleType
<1>5. "call" \in Ops /\ "call" # "virtual" BY DEF Ops
<1> HIDE DEF k
<1>6. IsList(a) /\ Len(a) = k /\ \A l : IsState(l) => ReadsAll(n, k, l)
  BY <1>2, ArgumentsRead
<1>7. /\ Node("call", 0, c).order \in Code
      /\ \A s : Do(Node("call", 0, c), s) = Leave(Step("call", 0, Len(c)), Run(c, s))
  <2> HIDE DEF c
  <2>1. Node("call", 0, c).order \in Code BY <1>3, <1>5, NodeRuns
  <2>2. ASSUME NEW s PROVE Do(Node("call", 0, c), s) = Leave(Step("call", 0, Len(c)), Run(c, s))
    BY <1>3, <1>5, NodeRuns
  <2> QED BY <2>1, <2>2
<1>8. /\ call.order \in Code
      /\ \A s : Do(call, s) = Leave(Step("call", 0, Len(a)), Run(a, s))
  <2> HIDE DEF a
  <2> QED BY <1>5, <1>6, NodeRuns
<1>9. /\ IsList(f \o <<call>>) /\ \A t : Run(f \o <<call>>, t) = Do(call, Run(f, t))
  <2> HIDE DEF f, call
  <2> QED BY <1>3, <1>8, RunThen
<1>10. IsExpression(r) BY AreExpressions DEF IsExpression
<1>11. r.statements = f \o <<call>> BY DEF k
<1>12. IsResult(r)
  <2>1. Temp(Ret).order \in Code BY TempRuns DEF Ret
  <2> QED BY <1>7, <1>9, <1>11, <2>1 DEF IsResult
<1>13. ASSUME NEW s, NEW t, Wide(s, m), Wide(t, m), Alike(s, t) PROVE Follows(r, m, s, t)
  <2> DEFINE b0 == Run(c, s)
             l0 == Run(f, t)
             l1 == Run(a, l0)
             b == Leave(Step("call", 0, k), b0)
             l == Leave(Step("call", 0, k), l1)
  <2>0. m \in Nat /\ n <= m /\ {Ret, Local} \subseteq 0..n BY <1>2 DEF Ret, Local, Static
  <2>1. Wide(s, n) /\ Wide(t, n)
    <3> HIDE DEF m
    <3> QED BY <1>13, <2>0, WideLess
  <2>2. Passes(q, n, s, t) BY <1>1, <1>13, <2>1 DEF PassesAll, k
  <2>3. /\ Kept(s, b0) /\ Kept(t, l0) /\ Alike(b0, l0)
        /\ Unchanged(t, l0, DOMAIN t.temps \ 0..m)
        /\ \E items : /\ IsSeq(items) /\ Len(items) = k /\ b0.stack = s.stack \o items
                      /\ \A i \in 1..k : l0.temps[n + i] = items[i].value
    BY <2>2 DEF Passes, k
  <2>4. PICK items : /\ IsSeq(items) /\ Len(items) = k /\ b0.stack = s.stack \o items
                     /\ \A i \in 1..k : l0.temps[n + i] = items[i].value
    BY <2>3
  <2>5. ReadsAll(n, k, l0) BY <1>6, <2>3 DEF Kept
  <2>6. PICK others : /\ IsSeq(others) /\ Len(others) = k
                      /\ Is(l1, l0.temps, l0.events, l0.stack \o others)
                      /\ \A i \in 1..k : others[i].value = l0.temps[n + i]
    BY <2>5 DEF ReadsAll
  <2>7. Run(r.statements, t) = l BY <1>6, <1>8, <1>9, <1>11
  <2>8. Do(r.tree, s) = b BY <1>4, <1>7
  <2> HIDE DEF b0, l0, l1
  <2>9. /\ IsState(b0) /\ IsState(l1) /\ Alike(b0, l1) /\ IsSeq(b0.events)
        /\ {Ret, Local} \subseteq DOMAIN b0.temps /\ {Ret, Local} \subseteq DOMAIN l1.temps
        /\ IsSeq(s.stack) /\ IsSeq(l0.stack) /\ l1.stack = l0.stack \o others
    BY <2>0, <2>1, <2>3, <2>6 DEF Kept, Wide, Is, Alike, IsState
  <2>10. \A i \in 1..k : items[i].value = others[i].value BY <2>4, <2>6
  <2>11. Calls("call", k, b0, l1, s.stack) BY <1>2, <2>4, <2>6, <2>9, <2>10, CallsAlike
  <2>12. /\ Kept(b0, b) /\ Kept(l1, l) /\ Alike(b, l)
         /\ Unchanged(l1, l, DOMAIN l1.temps \ {Ret})
         /\ \E value : b.stack = Append(s.stack, Computed(value)) /\ l.temps[Ret] = value
    BY <2>11 DEF Calls
  <2>13. PICK value : b.stack = Append(s.stack, Computed(value)) /\ l.temps[Ret] = value
    BY <2>12
  <2> HIDE DEF b, l
  <2>14. Gives(r.expression, value, b, l)
    <3>1. Ret \in Nat BY DEF Ret
    <3> QED BY <2>12, <2>13, <3>1, GivesTemp
  <2>15. Computed(value).value = value BY DEF Computed, Item
  <2>16. Kept(s, b) /\ Kept(t, l) BY <2>3, <2>6, <2>12 DEF Kept, Is
  <2>17. Unchanged(t, l, DOMAIN t.temps \ 0..m)
    <3>1. l1.temps = l0.temps /\ DOMAIN l0.temps = DOMAIN t.temps BY <2>3, <2>6 DEF Is, Kept
    <3>2. DOMAIN t.temps \ 0..m \subseteq DOMAIN l1.temps \ {Ret} BY <2>0, <3>1 DEF Ret
    <3> QED BY <2>3, <2>12, <3>1, <3>2 DEF Unchanged
  <2>18. \E item : b.stack = Append(s.stack, item) /\ Gives(r.expression, item.value, b, l)
    BY <2>13, <2>14, <2>15
  <2> QED BY <1>10, <2>7, <2>8, <2>16, <2>17, <2>18 DEF Follows
<1> HIDE DEF m
<1>14. Lowers(r, m) BY <1>13 DEF Lowers
<1> QED BY <1>12, <1>14 DEF m, k

(* A call through a vector: the target's statements come last, as it does.  *)
LEMMA VirtualLowers ==
  ASSUME NEW n \in Nat, n >= Static,
         NEW R, \A x \in R : IsResult(x) /\ Lowers(x, n) /\ IsExpression(x), NEW q \in Seq(R),
         NEW y, IsResult(y), Lowers(y, n), IsExpression(y),
         NEW r, r.tree = Node("virtual", 0, <<y.tree>> \o TreesOf(q)),
         r.statements = FlattenSeq(IntosOf(q, n)) \o y.statements
                          \o <<Node("virtual", 0, <<y.expression>> \o Args(n, Len(q)))>>,
         r.expression = Temp(Ret)
  PROVE  Lowers(r, n + Len(q)) /\ IsResult(r)
<1> DEFINE k == Len(q)
           c == TreesOf(q)
           f == FlattenSeq(IntosOf(q, n))
           a == Args(n, k)
           x == y.tree
           e == y.expression
           p == y.statements
           call == Node("virtual", 0, <<e>> \o a)
           m == n + k
<1>1. PassesAll(q, n) BY ArgumentsPassed
<1>2. k \in Nat /\ DOMAIN q = 1..k BY LenProperties
<1>3. IsList(c) /\ IsList(f) BY <1>1 DEF PassesAll
<1>4. Len(c) = k
  <2>1. c = [i \in 1..k |-> q[i].tree] BY <1>2 DEF TreesOf
  <2> HIDE DEF k, c
  <2>2. IsTuple(c, k) BY <2>1 DEF IsTuple
  <2>3. \A i \in 1..k : c[i] \in {c[j] : j \in 1..k} OBVIOUS
  <2> QED BY <1>2, <2>2, <2>3, TupleType
<1>5. x.order \in Code /\ e.order \in Code /\ IsList(p) BY DEF IsResult
<1> HIDE DEF k
<1>6. IsList(a) /\ Len(a) = k /\ \A l : IsState(l) => ReadsAll(n, k, l)
  BY <1>2, ArgumentsRead
<1>7. /\ r.tree.order \in Code
      /\ \A s : Do(r.tree, s) = Leave(Step("virtual", 0, k + 1), Do(x, Run(c, s)))
  <2> HIDE DEF c, x
  <2>1. ASSUME NEW s
        PROVE  LET v == Node("virtual", 0, <<x>> \o c)
               IN  v.order \in Code
                   /\ Do(v, s) = Leave(Step("virtual", 0, Len(c) + 1), Do(x, Run(c, s)))
    BY <1>3, <1>5, VirtualRuns
  <2>2. r.tree = Node("virtual", 0, <<x>> \o c) BY DEF x, c
  <2> QED BY <1>4, <2>1, <2>2
<1>8. /\ call.order \in Code
      /\ \A s : Do(call, s) = Leave(Step("virtual", 0, k + 1), Do(e, Run(a, s)))
  <2> HIDE DEF a, e
  <2>1. ASSUME NEW s
        PROVE  LET v == Node("virtual", 0, <<e>> \o a)
               IN  v.order \in Code
                   /\ Do(v, s) = Leave(Step("virtual", 0, Len(a) + 1), Do(e, Run(a, s)))
    BY <1>5, <1>6, VirtualRuns
  <2> QED BY <1>6, <2>1
<1>9. /\ IsList(f \o p \o <<call>>)
      /\ \A t : Run(f \o p \o <<call>>, t) = Do(call, Run(p, Run(f, t)))
  <2> DEFINE g == f \o p
  <2>1. IsList(g) /\ \A t : Run(g, t) = Run(p, Run(f, t))
    <3> HIDE DEF f, p
    <3> QED BY <1>3, <1>5, ListConcat, RunConcat
  <2>3. call.order \in Code BY <1>8
  <2> HIDE DEF g, call
  <2>4. OneThen(g, call) BY <2>1, <2>3, RunOneThen
  <2>2. IsList(g \o <<call>>) /\ \A t : Run(g \o <<call>>, t) = Do(call, Run(g, t))
    BY <2>4 DEF OneThen
  <2> QED BY <2>1, <2>2 DEF g
<1>10. IsExpression(r) BY AreExpressions DEF IsExpression
<1>11. r.statements = f \o p \o <<call>> BY DEF k
<1>12. IsResult(r)
  <2>1. Temp(Ret).order \in Code BY TempRuns DEF Ret
  <2> QED BY <1>7, <1>9, <1>11, <2>1 DEF IsResult
<1>13. ASSUME NEW s, NEW t, Wide(s, m), Wide(t, m), Alike(s, t) PROVE Follows(r, m, s, t)
  <2> DEFINE b0 == Run(c, s)
             b1 == Do(x, b0)
             l0 == Run(f, t)
             l1 == Run(p, l0)
             l2 == Run(a, l1)
             l3 == Do(e, l2)
             b == Leave(Step("virtual", 0, k + 1), b1)
             l == Leave(Step("virtual", 0, k + 1), l3)
  <2>0. m \in Nat /\ n <= m /\ {Ret, Local} \subseteq 0..n BY <1>2 DEF Ret, Local, Static
  <2>1. Wide(s, n) /\ Wide(t, n)
    <3> HIDE DEF m
    <3> QED BY <1>13, <2>0, WideLess
  <2>2. Passes(q, n, s, t) BY <1>1, <1>13, <2>1 DEF PassesAll, k
  <2>3. /\ Kept(s, b0) /\ Kept(t, l0) /\ Alike(b0, l0)
        /\ Unchanged(t, l0, DOMAIN t.temps \ 0..m)
        /\ \E items : /\ IsSeq(items) /\ Len(items) = k /\ b0.stack = s.stack \o items
                      /\ \A i \in 1..k : l0.temps[n + i] = items[i].value
    BY <2>2 DEF Passes, k
  <2>4. PICK items : /\ IsSeq(items) /\ Len(items) = k /\ b0.stack = s.stack \o items
                     /\ \A i \in 1..k : l0.temps[n + i] = items[i].value
    BY <2>3
  <2>5. Wide(b0, n) /\ Wide(l0, n)
    <3> HIDE DEF b0, l0
    <3> QED BY <2>1, <2>3, KeptWide
  <2>6. /\ Kept(b0, b1) /\ Kept(l0, l1) /\ Unchanged(l0, l1, DOMAIN l0.temps \ 0..n)
        /\ \E item : b1.stack = Append(b0.stack, item) /\ Gives(e, item.value, b1, l1)
    <3> HIDE DEF b0, l0
    <3> QED BY <2>3, <2>5 DEF Lowers, Follows
  <2>7. PICK item : b1.stack = Append(b0.stack, item) /\ Gives(e, item.value, b1, l1) BY <2>6
  <2>8. ReadsAll(n, k, l1) BY <1>6, <2>6 DEF Kept
  <2>9. PICK others : /\ IsSeq(others) /\ Len(others) = k
                      /\ Is(l2, l1.temps, l1.events, l1.stack \o others)
                      /\ \A i \in 1..k : others[i].value = l1.temps[n + i]
    BY <2>8 DEF ReadsAll
  <2>10. /\ b1.temps[Local] = l1.temps[Local]
         /\ \E z : Is(l3, l1.temps, b1.events, Append(l2.stack, z)) /\ z.value = item.value
    <3> HIDE DEF l2, l1, b1, e
    <3>1. IsState(l2) /\ l2.temps = l1.temps /\ l2.events = l1.events BY <2>9 DEF Is
    <3> QED BY <2>7, <3>1, GivesIn
  <2>11. PICK z : Is(l3, l1.temps, b1.events, Append(l2.stack, z)) /\ z.value = item.value
    BY <2>10
  <2>12. Run(r.statements, t) = l BY <1>8, <1>9, <1>11
  <2>13. Do(r.tree, s) = b BY <1>7
  <2> DEFINE all == Append(items, item)
             passed == Append(others, z)
  <2> HIDE DEF b0, b1, l0, l1, l2, l3
  <2>14. /\ IsState(b1) /\ IsState(l3) /\ Alike(b1, l3) /\ IsSeq(b1.events)
         /\ {Ret, Local} \subseteq DOMAIN b1.temps /\ {Ret, Local} \subseteq DOMAIN l3.temps
         /\ IsSeq(s.stack) /\ IsSeq(l1.stack) /\ l2.stack = l1.stack \o others
         /\ l3.temps = l1.temps /\ DOMAIN l1.temps = DOMAIN t.temps
         /\ DOMAIN l0.temps = DOMAIN t.temps
    BY <2>0, <2>1, <2>3, <2>6, <2>9, <2>10, <2>11 DEF Kept, Wide, Is, Alike, IsState
  <2>15. b1.stack = s.stack \o all
    <3>1. Longer(s.stack, items, item) BY <2>4, <2>14, OneMoreItem
    <3> QED BY <2>4, <2>7, <3>1 DEF Longer
  <2>16. l3.stack = l1.stack \o passed
    <3>1. Longer(l1.stack, others, z) BY <2>9, <2>14, OneMoreItem
    <3> QED BY <2>11, <2>14, <3>1 DEF Longer, Is
  <2>17. /\ IsSeq(all) /\ Len(all) = k + 1 /\ all[k + 1] = item
         /\ \A i \in 1..k : all[i] = items[i]
    BY <2>4, ItemAdded
  <2>18. /\ IsSeq(passed) /\ Len(passed) = k + 1 /\ passed[k + 1] = z
         /\ \A i \in 1..k : passed[i] = others[i]
    BY <2>9, ItemAdded
  <2> HIDE DEF all, passed
  <2>19. ASSUME NEW i \in 1..k + 1 PROVE all[i].value = passed[i].value
    <3>1. CASE i = k + 1 BY <2>11, <2>17, <2>18, <3>1
    <3>2. CASE i # k + 1
      <4>1. i \in 1..k BY <1>2, <3>2
      <4>2. n + i \in DOMAIN l0.temps \ 0..n
        <5>1. n + i \in 0..m /\ n + i \notin 0..n BY <1>2, <4>1
        <5> QED BY <1>13, <2>14, <5>1 DEF Wide
      <4>3. l1.temps[n + i] = l0.temps[n + i] BY <2>6, <4>2 DEF Unchanged
      <4> QED BY <2>4, <2>9, <2>17, <2>18, <4>1, <4>3
    <3> QED BY <3>1, <3>2
  <2>20. Calls("virtual", k + 1, b1, l3, s.stack)
    <3>1. k + 1 \in Nat BY <1>2
    <3> QED BY <2>14, <2>15, <2>16, <2>17, <2>18, <2>19, <3>1, CallsAlike
  <2>21. /\ Kept(b1, b) /\ Kept(l3, l) /\ Alike(b, l)
         /\ Unchanged(l3, l, DOMAIN l3.temps \ {Ret})
         /\ \E value : b.stack = Append(s.stack, Computed(value)) /\ l.temps[Ret] = value
    BY <2>20 DEF Calls
  <2>22. PICK value : b.stack = Append(s.stack, Computed(value)) /\ l.temps[Ret] = value
    BY <2>21
  <2> HIDE DEF b, l
  <2>23. Gives(r.expression, value, b, l)
    <3>1. Ret \in Nat BY DEF Ret
    <3> QED BY <2>21, <2>22, <3>1, GivesTemp
  <2>24. Computed(value).value = value BY DEF Computed, Item
  <2>25. Kept(s, b) /\ Kept(t, l) BY <2>3, <2>6, <2>14, <2>21 DEF Kept
  <2>26. Unchanged(t, l, DOMAIN t.temps \ 0..m)
    <3>1. DOMAIN t.temps \ 0..m \subseteq DOMAIN l3.temps \ {Ret} BY <2>0, <2>14 DEF Ret
    <3>2. DOMAIN t.temps \ 0..m \subseteq DOMAIN l0.temps \ 0..n BY <2>0, <2>14
    <3> QED BY <2>3, <2>6, <2>14, <2>21, <3>1, <3>2 DEF Unchanged
  <2>27. \E i : b.stack = Append(s.stack, i) /\ Gives(r.expression, i.value, b, l)
    BY <2>22, <2>23, <2>24
  <2> QED BY <1>10, <2>12, <2>13, <2>25, <2>26, <2>27 DEF Follows
<1> HIDE DEF m
<1>14. Lowers(r, m) BY <1>13 DEF Lowers
<1> QED BY <1>12, <1>14 DEF m, k

----------------------------------------------------------------------------
(* The results of convert.  The value of a tree that a statement may discard*)
(* ends up in a temporary.                                                  *)
Plain(r) == IsExpression(r) /\ (r.tree.op = "temp" \/ Discardable(r.tree)) =>
              \E m \in Nat : r.expression = Temp(m)

Sound(r, n) == IsResult(r) /\ Lowers(r, n) /\ Plain(r)

Counted == /\ IsSeq(lowered) /\ num_temps \in Nat /\ num_temps >= Static
SoundResults == \A i \in DOMAIN lowered : Sound(lowered[i], num_temps)

(* A sequence has its members.                                              *)
LEMMA SeqMembers ==
  ASSUME NEW q, IsSeq(q)
  PROVE  /\ Len(q) \in Nat /\ DOMAIN q = 1..Len(q)
         /\ q \in Seq({q[i] : i \in DOMAIN q})
<1>1. PICK I : q \in Seq(I) BY DEF IsSeq
<1>2. Len(q) \in Nat /\ DOMAIN q = 1..Len(q) BY <1>1, LenProperties
<1>3. q = [i \in 1..Len(q) |-> q[i]] BY <1>1, <1>2
<1> DEFINE k == Len(q)
           M == {q[i] : i \in DOMAIN q}
<1>4. k \in Nat /\ IsTuple(q, k) BY <1>2, <1>3 DEF IsTuple
<1>5. \A i \in 1..k : q[i] \in M BY <1>2
<1> HIDE DEF k, M
<1>6. q \in Seq(M) BY <1>4, <1>5, TupleType
<1> QED BY <1>2, <1>6 DEF M

(* The last results of lowered.                                             *)
Lasts(k) == /\ Len(Children(k)) = k
            /\ DOMAIN Children(k) = 1..k
            /\ \A i \in 1..k : /\ Len(lowered) - k + i \in 1..Len(lowered)
                               /\ Children(k)[i] = lowered[Len(lowered) - k + i]

(* They are the end of lowered.                                             *)
LEMMA LastResults ==
  ASSUME Counted, NEW k \in Nat, k <= Len(lowered)
  PROVE  IsSeq(Children(k)) /\ Lasts(k)
<1>1. PICK I : lowered \in Seq(I) BY DEF Counted, IsSeq
<1>2. Len(lowered) \in Nat BY <1>1, LenProperties
<1> DEFINE c == Children(k)
           b == Len(lowered) - k
<1>3. b \in Nat /\ b + k = Len(lowered) BY <1>2
<1>4. c = SubSeq(lowered, b + 1, b + k) BY <1>3 DEF Children
<1> HIDE DEF b
<1>5. \A i \in b + 1..b + k : lowered[i] \in I BY <1>1, <1>2, <1>3
<1>6. c = [i \in 1..k |-> lowered[b + i]]
  <2>1. SubSeq(lowered, b + 1, b + k) = [i \in 1..(b + k) - (b + 1) + 1 |-> lowered[i + (b + 1) - 1]]
    BY <1>3
  <2>2. (b + k) - (b + 1) + 1 = k BY <1>3
  <2>3. \A i \in 1..k : i + (b + 1) - 1 = b + i BY <1>3
  <2> QED BY <1>4, <2>1, <2>2, <2>3
<1>7. \A i \in 1..k : b + i \in 1..Len(lowered) /\ c[i] = lowered[b + i]
  BY <1>3, <1>6
<1> HIDE DEF c
<1>8. IsTuple(c, k) BY <1>6 DEF IsTuple
<1>9. \A i \in 1..k : c[i] \in I BY <1>1, <1>7
<1>10. c \in Seq(I) /\ Len(c) = k BY <1>8, <1>9, TupleType
<1>11. DOMAIN c = 1..k BY <1>10, LenProperties
<1> QED BY <1>7, <1>10, <1>11 DEF Lasts, IsSeq, b, c

Result(tree, statements, expression) ==
  [tree |-> tree, statements |-> statements, expression |-> expression]

\* What a conversion does to lowered.
Adds(k, r, generated) ==
  /\ IsSeq(lowered') /\ DOMAIN lowered' = 1..(Len(lowered) - k) + 1
  /\ lowered'[(Len(lowered) - k) + 1] = r
  /\ \A i \in 1..Len(lowered) - k : i \in DOMAIN lowered /\ lowered'[i] = lowered[i]
  /\ num_temps' = num_temps + generated

(* A conversion takes k results away and adds one.                          *)
LEMMA Converted ==
  ASSUME Counted, NEW k \in Nat, k <= Len(lowered), NEW tree, NEW statements, NEW expression,
         NEW generated \in Nat, Convert(k, tree, statements, expression, generated)
  PROVE  Adds(k, Result(tree, statements, expression), generated) /\ Counted'
<1> DEFINE r == Result(tree, statements, expression)
           b == Len(lowered) - k
           front == SubSeq(lowered, 1, b)
<1>1. /\ lowered' = Append(front, r) /\ num_temps' = num_temps + generated
  BY DEF Convert, Result
<1>2. PICK I : lowered \in Seq(I) BY DEF Counted, IsSeq
<1>3. Len(lowered) \in Nat /\ DOMAIN lowered = 1..Len(lowered) BY <1>2, LenProperties
<1>4. b \in Nat /\ b <= Len(lowered) BY <1>3
<1> HIDE DEF b, r
<1>5. front = [i \in 1..b |-> lowered[i]]
  <2>1. front = [i \in 1..b - 1 + 1 |-> lowered[i + 1 - 1]] BY <1>4
  <2>2. b - 1 + 1 = b BY <1>4
  <2>3. \A i \in 1..b : i + 1 - 1 = i BY <1>4
  <2> QED BY <2>1, <2>2, <2>3
<1>6. \A i \in 1..b : i \in DOMAIN lowered /\ front[i] = lowered[i] /\ lowered[i] \in I
  BY <1>2, <1>3, <1>4, <1>5
<1> HIDE DEF front
<1>7. IsTuple(front, b) BY <1>5 DEF IsTuple
<1>8. front \in Seq(I) /\ Len(front) = b BY <1>4, <1>6, <1>7, TupleType
<1> DEFINE J == I \cup {r}
<1>9. front \in Seq(J) /\ r \in J BY <1>8, SeqMonotonic
<1> HIDE DEF J
<1>10. /\ Append(front, r) \in Seq(J) /\ DOMAIN Append(front, r) = 1..b + 1
       /\ Append(front, r)[b + 1] = r /\ \A i \in 1..b : Append(front, r)[i] = front[i]
  BY <1>8, <1>9, AppendDomain
<1>11. Adds(k, r, generated) BY <1>1, <1>6, <1>10 DEF Adds, IsSeq, b
<1>12. num_temps' \in Nat /\ num_temps' >= Static
  BY <1>1 DEF Counted, Static
<1> QED BY <1>11, <1>12 DEF Adds, Counted, r

(* One more sound result: the others stay sound with more temporaries.      *)
LEMMA SoundAdded ==
  ASSUME Counted, SoundResults, NEW k \in Nat, k <= Len(lowered), NEW generated \in Nat,
         NEW r, Adds(k, r, generated), Sound(r, num_temps + generated)
  PROVE  SoundResults'
<1> DEFINE b == Len(lowered) - k
<1>1. b \in Nat BY SeqMembers DEF Counted
<1> HIDE DEF b
<1>2. ASSUME NEW i \in 1..b + 1 PROVE Sound(lowered'[i], num_temps')
  <2>1. CASE i = b + 1 BY <2>1 DEF Adds, b
  <2>2. CASE i # b + 1
    <3>1. i \in 1..b BY <1>1, <2>2
    <3>2. lowered'[i] = lowered[i] /\ i \in DOMAIN lowered BY <3>1 DEF Adds, b
    <3>3. Sound(lowered[i], num_temps) BY <3>2 DEF SoundResults
    <3>4. /\ num_temps \in Nat /\ num_temps + generated \in Nat
          /\ num_temps <= num_temps + generated
      BY DEF Counted
    <3>5. Lowers(lowered[i], num_temps + generated) BY <3>3, <3>4, LowersMore DEF Sound
    <3>6. num_temps' = num_temps + generated BY DEF Adds
    <3> QED BY <3>2, <3>3, <3>5, <3>6 DEF Sound
  <2> QED BY <2>1, <2>2
<1>3. DOMAIN lowered' = 1..b + 1 BY DEF Adds, b
<1> QED BY <1>2, <1>3 DEF SoundResults

(* The results a conversion takes.                                          *)
LEMMA Taken ==
  ASSUME Counted, SoundResults, NEW k \in Nat, k <= Len(lowered)
  PROVE  /\ Len(Children(k)) = k /\ IsSeq(Children(k))
         /\ \A i \in 1..k : Sound(Children(k)[i], num_temps)
         /\ Trees(k) = TreesOf(Children(k))
<1>1. IsSeq(Children(k)) /\ Lasts(k) BY LastResults
<1>2. DOMAIN lowered = 1..Len(lowered) BY SeqMembers DEF Counted
<1>3. \A i \in 1..k : Sound(Children(k)[i], num_temps) BY <1>1, <1>2 DEF Lasts, SoundResults
<1>4. Trees(k) = TreesOf(Children(k)) BY <1>1 DEF Lasts, Trees, TreesOf
<1> QED BY <1>1, <1>3, <1>4 DEF Lasts

(* The trees of one result, and of two.                                     *)
LEMMA FewTrees ==
  ASSUME NEW c, IsSeq(c)
  PROVE  /\ Len(c) = 1 => TreesOf(c) = <<c[1].tree>>
         /\ Len(c) = 2 => TreesOf(c) = <<c[1].tree, c[2].tree>>
<1>1. DOMAIN c = 1..Len(c) BY SeqMembers
<1>2. ASSUME Len(c) = 1 PROVE TreesOf(c) = <<c[1].tree>>
  <2>1. TreesOf(c) = [i \in 1..1 |-> c[i].tree] BY <1>1, <1>2 DEF TreesOf
  <2> DEFINE g == TreesOf(c)
             h == <<c[1].tree>>
  <2>2. h = [i \in 1..1 |-> h[i]] /\ h[1] = c[1].tree OBVIOUS
  <2> QED BY <2>1, <2>2
<1>3. ASSUME Len(c) = 2 PROVE TreesOf(c) = <<c[1].tree, c[2].tree>>
  <2>1. TreesOf(c) = [i \in 1..2 |-> c[i].tree] BY <1>1, <1>3 DEF TreesOf
  <2> DEFINE h == <<c[1].tree, c[2].tree>>
  <2>2. h = [i \in 1..2 |-> h[i]] /\ h[1] = c[1].tree /\ h[2] = c[2].tree OBVIOUS
  <2> QED BY <2>1, <2>2
<1> QED BY <1>2, <1>3

(* The results a call through a vector takes: its target, then the arguments.*)
LEMMA TargetFirst ==
  ASSUME Counted, SoundResults, NEW k \in Nat, k + 1 <= Len(lowered)
  PROVE  /\ Children(k + 1)[1] = lowered[Len(lowered) - k] /\ Len(lowered) - k \in DOMAIN lowered
         /\ \A i \in 1..k : Children(k + 1)[i + 1] = Children(k)[i]
         /\ TreesOf(Children(k + 1)) = <<Children(k + 1)[1].tree>> \o TreesOf(Children(k))
<1>1. Len(lowered) \in Nat /\ DOMAIN lowered = 1..Len(lowered) BY SeqMembers DEF Counted
<1>2. k + 1 \in Nat /\ k <= Len(lowered) BY <1>1
<1>3. Lasts(k) /\ Lasts(k + 1) BY <1>2, LastResults
<1>4. /\ Len(lowered) - (k + 1) + 1 = Len(lowered) - k
      /\ \A i \in 1..k : Len(lowered) - (k + 1) + (i + 1) = Len(lowered) - k + i
  BY <1>1
<1>5. 1 \in 1..k + 1 /\ \A i \in 1..k : i + 1 \in 1..k + 1 OBVIOUS
<1>6. \A i \in 1..k : Children(k + 1)[i + 1] = Children(k)[i] BY <1>3, <1>4, <1>5 DEF Lasts
<1>7. /\ Children(k + 1)[1] = lowered[Len(lowered) - k]
      /\ Len(lowered) - k \in DOMAIN lowered
  BY <1>1, <1>2, <1>3, <1>4, <1>5 DEF Lasts
<1> DEFINE c == Children(k)
           d == Children(k + 1)
           S == {d[i].tree : i \in 1..k + 1}
           y == d[1].tree
           g == TreesOf(c)
           h == TreesOf(d)
<1>8. g = [i \in 1..k |-> c[i].tree] /\ h = [i \in 1..k + 1 |-> d[i].tree]
  BY <1>3 DEF TreesOf, Lasts
<1>9. \A i \in 1..k : g[i] = d[i + 1].tree /\ g[i] \in S BY <1>5, <1>6, <1>8
<1>10. y \in S /\ \A i \in 1..k + 1 : h[i] \in S BY <1>5, <1>8
<1>11. \A i \in 1..k + 1 : h[i] = d[i].tree BY <1>8
<1> HIDE DEF c, S
<1>12. IsTuple(g, k) /\ IsTuple(h, k + 1) BY <1>8 DEF IsTuple
<1> HIDE DEF g, h
<1>13. g \in Seq(S) /\ Len(g) = k /\ h \in Seq(S) /\ Len(h) = k + 1
  BY <1>2, <1>9, <1>10, <1>12, TupleType
<1> DEFINE p == <<y>>
<1>14. p \in Seq(S) /\ Len(p) = 1 /\ p[1] = y BY <1>10
<1> HIDE DEF d, y
<1> HIDE DEF p
<1>15. /\ p \o g \in Seq(S) /\ Len(p \o g) = 1 + k
       /\ \A i \in 1..1 + k : (p \o g)[i] = IF i <= 1 THEN p[i] ELSE g[i - 1]
  <2>1. /\ p \o g \in Seq(S) /\ Len(p \o g) = Len(p) + Len(g)
        /\ \A i \in 1..Len(p) + Len(g) :
             (p \o g)[i] = IF i <= Len(p) THEN p[i] ELSE g[i - Len(p)]
    <3>1. p \in Seq(S) /\ g \in Seq(S) BY <1>13, <1>14
    <3> QED BY <3>1, ConcatProperties
  <2> QED BY <1>13, <1>14, <2>1
<1> DEFINE z == p \o g
<1>16. z \in Seq(S) /\ Len(z) = k + 1 BY <1>15
<1>17. ASSUME NEW i \in 1..k + 1 PROVE h[i] = z[i]
  <2>1. CASE i = 1 BY <1>5, <1>11, <1>14, <1>15, <2>1 DEF y
  <2>2. CASE i # 1
    <3>1. i - 1 \in 1..k /\ (i - 1) + 1 = i /\ ~(i <= 1) /\ i \in 1..1 + k BY <2>2
    <3>2. z[i] = g[i - 1] BY <1>15, <3>1
    <3> QED BY <1>9, <1>11, <3>1, <3>2
  <2> QED BY <2>1, <2>2
<1> HIDE DEF z
<1>18. h = z BY <1>13, <1>16, <1>17, SeqEqual
<1> QED BY <1>6, <1>7, <1>18 DEF z, p, y, g, h, c, d

----------------------------------------------------------------------------
(* What each conversion adds.                                               *)
Converts(k, r, generated) ==
  /\ k \in Nat /\ k <= Len(lowered) /\ generated \in Nat
  /\ Adds(k, r, generated) /\ Counted' /\ Sound(r, num_temps + generated)

(* A temporary or a static field.                                           *)
LEMMA ConvertsLeaf ==
  ASSUME Counted, SoundResults, NEW e \in {Temp(Local), Global(Static)}, ConvertLeaf(e)
  PROVE  Converts(0, Result(e, <<>>, e), 0)
<1> DEFINE r == Result(e, <<>>, e)
<1>1. Len(lowered) \in Nat BY SeqMembers DEF Counted
<1>2. 0 <= Len(lowered) /\ Convert(0, e, <<>>, e, 0) BY <1>1 DEF ConvertLeaf
<1>3. Adds(0, r, 0) /\ Counted' BY <1>2, Converted
<1>4. r.tree = e /\ r.statements = <<>> /\ r.expression = e BY DEF Result
<1> HIDE DEF r
<1>5. num_temps \in Nat /\ num_temps >= Static /\ num_temps + 0 = num_temps BY DEF Counted
<1>6. Lowers(r, num_temps) /\ IsResult(r) BY <1>4, <1>5, LeafLowers
<1>7. Plain(r)
  <2>1. CASE e = Temp(Local) BY <2>1, <1>4 DEF Plain, Local
  <2>2. CASE e = Global(Static)
    <3>1. e.op = "global" BY <2>2 DEF Global, Node
    <3> QED BY <1>4, <3>1 DEF Plain, Discardable
  <2> QED BY <2>1, <2>2
<1> QED BY <1>1, <1>2, <1>3, <1>5, <1>6, <1>7 DEF Converts, Sound, r

(* An operator.                                                             *)
LEMMA ConvertsBinOp ==
  ASSUME Counted, SoundResults, NEW op \in {"add", "div"}, ConvertBinOp(op)
  PROVE  LET a == Children(2)[1]
             c == Children(2)[2]
             m == num_temps + 1
         IN  /\ Converts(2, Result(BinOp(op, a.tree, c.tree),
                                   a.statements \o <<Move(Temp(m), a.expression)>> \o c.statements,
                                   BinOp(op, Temp(m), c.expression)), 1)
             /\ IsExpression(a) /\ IsExpression(c)
<1> DEFINE a == Children(2)[1]
           c == Children(2)[2]
           m == num_temps + 1
           x == BinOp(op, a.tree, c.tree)
           q == a.statements \o <<Move(Temp(m), a.expression)>> \o c.statements
           e == BinOp(op, Temp(m), c.expression)
           r == Result(x, q, e)
<1>1. 2 <= Len(lowered) /\ IsExpression(a) /\ IsExpression(c) BY DEF ConvertBinOp, Expressions
<1>2. Sound(a, num_temps) /\ Sound(c, num_temps) BY <1>1, Taken
<1>3. Convert(2, x, q, e, 1) BY DEF ConvertBinOp
<1>4. r.tree = x /\ r.statements = q /\ r.expression = e BY DEF Result
<1>5. num_temps \in Nat /\ num_temps >= Static BY DEF Counted
<1>6. op \in Operators BY DEF Operators, Dividing
<1>7. x.op = op BY DEF BinOp, Node
<1>8. Adds(2, r, 1) /\ Counted'
  <2> HIDE DEF x, q, e
  <2> QED BY <1>1, <1>3, Converted
<1> HIDE DEF r, a, c
<1>9. Lowers(r, num_temps + 1) /\ IsResult(r)
  BY <1>1, <1>2, <1>4, <1>5, <1>6, BinOpLowers DEF Sound
<1>10. Plain(r) BY <1>4, <1>7 DEF Plain, Discardable
<1>11. Converts(2, r, 1) BY <1>1, <1>8, <1>9, <1>10 DEF Converts, Sound
<1> QED BY <1>1, <1>11 DEF r, a, c

(* A word of memory.                                                        *)
LEMMA ConvertsMem ==
  ASSUME Counted, SoundResults, ConvertMem
  PROVE  LET a == Children(1)[1]
         IN  /\ Converts(1, Result(Mem(a.tree), a.statements, Mem(a.expression)), 0)
             /\ IsExpression(a)
<1> DEFINE a == Children(1)[1]
           x == Mem(a.tree)
           q == a.statements
           e == Mem(a.expression)
           r == Result(x, q, e)
<1>1. 1 <= Len(lowered) /\ IsExpression(a) BY DEF ConvertMem, Expressions
<1>2. Sound(a, num_temps) BY <1>1, Taken
<1>3. Convert(1, x, q, e, 0) BY DEF ConvertMem
<1>4. r.tree = x /\ r.statements = q /\ r.expression = e BY DEF Result
<1>5. num_temps \in Nat /\ num_temps + 0 = num_temps BY DEF Counted
<1>7. x.op = "mem" BY DEF Mem, Node
<1>8. Adds(1, r, 0) /\ Counted'
  <2> HIDE DEF x, q, e
  <2> QED BY <1>1, <1>3, Converted
<1> HIDE DEF r, a
<1>9. Lowers(r, num_temps) /\ IsResult(r) BY <1>1, <1>2, <1>4, <1>5, MemLowers DEF Sound
<1>10. Plain(r) BY <1>4, <1>7 DEF Plain, Discardable
<1>11. Converts(1, r, 0) BY <1>1, <1>5, <1>8, <1>9, <1>10 DEF Converts, Sound
<1> QED BY <1>1, <1>11 DEF r, a

(* A statement before an expression.                                        *)
LEMMA ConvertsESeq ==
  ASSUME Counted, SoundResults, ConvertESeq
  PROVE  LET a == Children(2)[1]
             c == Children(2)[2]
         IN  /\ Converts(2, Result(Node("eseq", 0, <<a.tree, c.tree>>),
                                   a.statements \o c.statements, c.expression), 0)
             /\ ~IsExpression(a) /\ IsExpression(c)
<1> DEFINE a == Children(2)[1]
           c == Children(2)[2]
           x == Node("eseq", 0, <<a.tree, c.tree>>)
           q == a.statements \o c.statements
           e == c.expression
           r == Result(x, q, e)
<1>1. Len(lowered) \in Nat /\ 2 <= Len(lowered) /\ 1 <= Len(lowered)
  BY SeqMembers DEF ConvertESeq, Counted
<1>2. ~IsExpression(a) /\ IsExpression(c)
  <2>1. IsExpression(Children(1)[1]) BY DEF ConvertESeq, Expressions
  <2>2. Lasts(1) /\ Lasts(2) BY <1>1, LastResults
  <2>3. Children(1)[1] = lowered[Len(lowered) - 1 + 1] BY <2>2 DEF Lasts
  <2>4. Children(2)[2] = lowered[Len(lowered) - 2 + 2] BY <2>2 DEF Lasts
  <2>5. Len(lowered) - 1 + 1 = Len(lowered) - 2 + 2 BY <1>1
  <2> QED BY <2>1, <2>3, <2>4, <2>5 DEF ConvertESeq
<1>3. Sound(a, num_temps) /\ Sound(c, num_temps) BY <1>1, Taken
<1>4. Trees(2) = <<a.tree, c.tree>>
  <2>1. /\ Len(Children(2)) = 2 /\ IsSeq(Children(2)) /\ Trees(2) = TreesOf(Children(2))
    BY <1>1, Taken
  <2> QED BY <2>1, FewTrees
<1>5. Convert(2, x, q, e, 0) BY <1>4 DEF ConvertESeq
<1>6. r.tree = x /\ r.statements = q /\ r.expression = e BY DEF Result
<1>7. num_temps \in Nat /\ num_temps + 0 = num_temps BY DEF Counted
<1>8. x.op = "eseq" /\ x.children[2] = c.tree BY DEF Node
<1>9. Adds(2, r, 0) /\ Counted'
  <2> HIDE DEF x, q, e
  <2> QED BY <1>1, <1>5, Converted
<1> HIDE DEF r, a, c
<1>10. Lowers(r, num_temps) /\ IsResult(r) BY <1>2, <1>3, <1>6, <1>7, ESeqLowers DEF Sound
<1>11. Plain(r)
  <2>1. SUFFICES ASSUME Discardable(x) PROVE \E m \in Nat : c.expression = Temp(m)
    BY <1>6, <1>8 DEF Plain
  <2>2. c.tree.op \in {"call", "virtual", "temp"} BY <1>8, <2>1 DEF Discardable
  <2>3. c.tree.op = "temp" \/ Discardable(c.tree) BY <2>2 DEF Discardable
  <2> QED BY <1>2, <1>3, <2>3 DEF Sound, Plain
<1>12. Converts(2, r, 0) BY <1>1, <1>7, <1>9, <1>10, <1>11 DEF Converts, Sound
<1> QED BY <1>2, <1>12 DEF r, a, c

(* A move to a temporary or a static field.                                 *)
LEMMA ConvertsMoveToTemp ==
  ASSUME Counted, SoundResults, NEW target \in Targets, ConvertMoveToTemp(target)
  PROVE  LET a == Children(1)[1]
         IN  /\ Converts(1, Result(Move(target, a.tree),
                                   a.statements \o <<Move(target, a.expression)>>, Nothing), 0)
             /\ IsExpression(a)
<1> DEFINE a == Children(1)[1]
           x == Move(target, a.tree)
           q == a.statements \o <<Move(target, a.expression)>>
           e == Nothing
           r == Result(x, q, e)
<1>1. 1 <= Len(lowered) /\ IsExpression(a) BY DEF ConvertMoveToTemp, Expressions
<1>2. Sound(a, num_temps) BY <1>1, Taken
<1>3. Convert(1, x, q, e, 0) BY DEF ConvertMoveToTemp
<1>4. r.tree = x /\ r.statements = q /\ r.expression = e BY DEF Result
<1>5. num_temps \in Nat /\ num_temps >= Static /\ num_temps + 0 = num_temps BY DEF Counted
<1>6. ~IsExpression(r) BY <1>4 DEF IsExpression
<1>8. Adds(1, r, 0) /\ Counted'
  <2> HIDE DEF x, q, e
  <2> QED BY <1>1, <1>3, Converted
<1> HIDE DEF r, a
<1>9. Lowers(r, num_temps) /\ IsResult(r)
  BY <1>1, <1>2, <1>4, <1>5, MoveToTempLowers DEF Sound
<1>11. Converts(1, r, 0) BY <1>1, <1>5, <1>6, <1>8, <1>9 DEF Converts, Sound, Plain
<1> QED BY <1>1, <1>11 DEF r, a

(* A move to memory.                                                        *)
LEMMA ConvertsMoveToMem ==
  ASSUME Counted, SoundResults, ConvertMoveToMem
  PROVE  LET a == Children(2)[1]
             c == Children(2)[2]
             m == num_temps + 1
         IN  /\ Converts(2, Result(Move(Mem(a.tree), c.tree),
                                   a.statements \o <<Move(Temp(m), a.expression)>> \o c.statements
                                     \o <<Move(Mem(Temp(m)), c.expression)>>, Nothing), 1)
             /\ IsExpression(a) /\ IsExpression(c)
<1> DEFINE a == Children(2)[1]
           c == Children(2)[2]
           m == num_temps + 1
           x == Move(Mem(a.tree), c.tree)
           q == a.statements \o <<Move(Temp(m), a.expression)>> \o c.statements
                  \o <<Move(Mem(Temp(m)), c.expression)>>
           e == Nothing
           r == Result(x, q, e)
<1>1. 2 <= Len(lowered) /\ IsExpression(a) /\ IsExpression(c)
  BY DEF ConvertMoveToMem, Expressions
<1>2. Sound(a, num_temps) /\ Sound(c, num_temps) BY <1>1, Taken
<1>3. Convert(2, x, q, e, 1) BY DEF ConvertMoveToMem
<1>4. r.tree = x /\ r.statements = q /\ r.expression = e BY DEF Result
<1>5. num_temps \in Nat /\ num_temps >= Static BY DEF Counted
<1>6. ~IsExpression(r) BY <1>4 DEF IsExpression
<1>8. Adds(2, r, 1) /\ Counted'
  <2> HIDE DEF x, q, e
  <2> QED BY <1>1, <1>3, Converted
<1> HIDE DEF r, a, c
<1>9. Lowers(r, num_temps + 1) /\ IsResult(r)
  BY <1>1, <1>2, <1>4, <1>5, MoveToMemLowers DEF Sound
<1>11. Converts(2, r, 1) BY <1>1, <1>6, <1>8, <1>9 DEF Converts, Sound, Plain
<1> QED BY <1>1, <1>11 DEF r, a, c

(* A value that is not used.                                                *)
LEMMA ConvertsExp ==
  ASSUME Counted, SoundResults, ConvertExp
  PROVE  LET a == Children(1)[1]
         IN  /\ Converts(1, Result(Node("exp", 0, <<a.tree>>), a.statements, Nothing), 0)
             /\ IsExpression(a)
<1> DEFINE a == Children(1)[1]
           x == Node("exp", 0, <<a.tree>>)
           q == a.statements
           e == Nothing
           r == Result(x, q, e)
<1>1. 1 <= Len(lowered) /\ IsExpression(a) /\ Discardable(a.tree)
  BY DEF ConvertExp, Expressions
<1>2. Sound(a, num_temps) BY <1>1, Taken
<1>7. Trees(1) = <<a.tree>>
  <2>1. /\ Len(Children(1)) = 1 /\ IsSeq(Children(1)) /\ Trees(1) = TreesOf(Children(1))
    BY <1>1, Taken
  <2> QED BY <2>1, FewTrees
<1>3. Convert(1, x, q, e, 0) BY <1>7 DEF ConvertExp
<1>4. r.tree = x /\ r.statements = q /\ r.expression = e BY DEF Result
<1>5. num_temps \in Nat /\ num_temps + 0 = num_temps BY DEF Counted
<1>6. ~IsExpression(r) BY <1>4 DEF IsExpression
<1>8. Adds(1, r, 0) /\ Counted'
  <2> HIDE DEF x, q, e
  <2> QED BY <1>1, <1>3, Converted
<1> HIDE DEF r, a
<1>10. PICK m \in Nat : a.expression = Temp(m) BY <1>1, <1>2 DEF Sound, Plain
<1>9. Lowers(r, num_temps) /\ IsResult(r) BY <1>1, <1>2, <1>4, <1>5, <1>10, ExpLowers DEF Sound
<1>11. Converts(1, r, 0) BY <1>1, <1>5, <1>6, <1>8, <1>9 DEF Converts, Sound, Plain
<1> QED BY <1>1, <1>11 DEF r, a

(* A conditional jump or a return.                                          *)
LEMMA ConvertsJump ==
  ASSUME Counted, SoundResults, NEW op \in {"cjump", "return"}, ConvertJump(op)
  PROVE  LET a == Children(1)[1]
         IN  /\ Converts(1, Result(Node(op, 0, <<a.tree>>),
                                   a.statements \o <<Node(op, 0, <<a.expression>>)>>, Nothing), 0)
             /\ IsExpression(a)
<1> DEFINE a == Children(1)[1]
           x == Node(op, 0, <<a.tree>>)
           q == a.statements \o <<Node(op, 0, <<a.expression>>)>>
           e == Nothing
           r == Result(x, q, e)
<1>1. 1 <= Len(lowered) /\ IsExpression(a) BY DEF ConvertJump, Expressions
<1>2. Sound(a, num_temps) BY <1>1, Taken
<1>7. Trees(1) = <<a.tree>>
  <2>1. /\ Len(Children(1)) = 1 /\ IsSeq(Children(1)) /\ Trees(1) = TreesOf(Children(1))
    BY <1>1, Taken
  <2> QED BY <2>1, FewTrees
<1>3. Convert(1, x, q, e, 0) BY <1>7 DEF ConvertJump
<1>4. r.tree = x /\ r.statements = q /\ r.expression = e BY DEF Result
<1>5. num_temps \in Nat /\ num_temps + 0 = num_temps BY DEF Counted
<1>6. ~IsExpression(r) BY <1>4 DEF IsExpression
<1>8. Adds(1, r, 0) /\ Counted'
  <2> HIDE DEF x, q, e
  <2> QED BY <1>1, <1>3, Converted
<1> HIDE DEF r, a
<1>9. Lowers(r, num_temps) /\ IsResult(r) BY <1>1, <1>2, <1>4, <1>5, JumpLowers DEF Sound
<1>11. Converts(1, r, 0) BY <1>1, <1>5, <1>6, <1>8, <1>9 DEF Converts, Sound, Plain
<1> QED BY <1>1, <1>11 DEF r, a

(* A label.                                                                 *)
LEMMA ConvertsLabel ==
  ASSUME Counted, SoundResults, ConvertLabel
  PROVE  LET x == Node("label", 0, <<>>)
         IN  Converts(0, Result(x, <<x>>, Nothing), 0)
<1> DEFINE x == Node("label", 0, <<>>)
           q == <<x>>
           e == Nothing
           r == Result(x, q, e)
<1>1. Len(lowered) \in Nat /\ 0 <= Len(lowered) BY SeqMembers DEF Counted
<1>3. Convert(0, x, q, e, 0) BY DEF ConvertLabel
<1>4. r.tree = x /\ r.statements = q /\ r.expression = e BY DEF Result
<1>5. num_temps \in Nat /\ num_temps + 0 = num_temps BY DEF Counted
<1>6. ~IsExpression(r) BY <1>4 DEF IsExpression
<1>8. Adds(0, r, 0) /\ Counted'
  <2> HIDE DEF x, q, e
  <2> QED BY <1>1, <1>3, Converted
<1> HIDE DEF r
<1>9. Lowers(r, num_temps) /\ IsResult(r) BY <1>4, <1>5, LabelLowers
<1>11. Converts(0, r, 0) BY <1>1, <1>5, <1>6, <1>8, <1>9 DEF Converts, Sound, Plain
<1> QED BY <1>11 DEF r

(* Statements one after another.                                            *)
LEMMA ConvertsSeq ==
  ASSUME Counted, SoundResults, NEW k \in Nat, ConvertSeq(k)
  PROVE  LET c == Children(k)
         IN  /\ Converts(k, Result(Node("seq", 0, TreesOf(c)), FlattenSeq(StatementsOf(c)),
                                   Nothing), 0)
             /\ \A i \in 1..k : ~IsExpression(c[i])
<1> DEFINE c == Children(k)
           x == Node("seq", 0, TreesOf(c))
           q == FlattenSeq(StatementsOf(c))
           e == Nothing
           r == Result(x, q, e)
           R == {c[i] : i \in DOMAIN c}
<1>1. k <= Len(lowered) /\ \A i \in 1..k : ~IsExpression(c[i]) BY DEF ConvertSeq
<1>2. /\ Len(c) = k /\ IsSeq(c) /\ \A i \in 1..k : Sound(c[i], num_temps)
      /\ Trees(k) = TreesOf(c)
  BY <1>1, Taken
<1>3. DOMAIN c = 1..k /\ c \in Seq(R) BY <1>2, SeqMembers
<1>4. StatementsOf(c) = [i \in 1..k |-> Children(k)[i].statements] BY <1>3 DEF StatementsOf
<1>5. Convert(k, x, q, e, 0) BY <1>2, <1>4 DEF ConvertSeq
<1>6. r.tree = x /\ r.statements = q /\ r.expression = e BY DEF Result
<1>7. num_temps \in Nat /\ num_temps + 0 = num_temps BY DEF Counted
<1>8. ~IsExpression(r) BY <1>6 DEF IsExpression
<1>9. Adds(k, r, 0) /\ Counted'
  <2> HIDE DEF x, q, e
  <2> QED BY <1>1, <1>5, Converted
<1>10. \A y \in R : IsResult(y) /\ Lowers(y, num_temps) /\ ~IsExpression(y)
  BY <1>1, <1>2, <1>3 DEF Sound
<1> HIDE DEF r, c, R
<1>11. Lowers(r, num_temps) /\ IsResult(r) BY <1>3, <1>6, <1>7, <1>10, SeqLowers
<1>12. Converts(k, r, 0) BY <1>1, <1>7, <1>8, <1>9, <1>11 DEF Converts, Sound, Plain
<1> QED BY <1>1, <1>12 DEF r, c

(* A call.                                                                  *)
LEMMA ConvertsCall ==
  ASSUME Counted, SoundResults, NEW k \in Nat, ConvertCall(k)
  PROVE  LET c == Children(k)
         IN  /\ Converts(k, Result(Node("call", 0, TreesOf(c)),
                                   FlattenSeq(IntosOf(c, num_temps))
                                     \o <<Node("call", 0, Args(num_temps, k))>>, Temp(Ret)), k)
             /\ \A i \in 1..k : IsExpression(c[i])
<1> DEFINE c == Children(k)
           x == Node("call", 0, TreesOf(c))
           q == FlattenSeq(IntosOf(c, num_temps)) \o <<Node("call", 0, Args(num_temps, k))>>
           e == Temp(Ret)
           r == Result(x, q, e)
           R == {c[i] : i \in DOMAIN c}
<1>1. k <= Len(lowered) /\ \A i \in 1..k : IsExpression(c[i]) BY DEF ConvertCall, Expressions
<1>2. /\ Len(c) = k /\ IsSeq(c) /\ \A i \in 1..k : Sound(c[i], num_temps)
      /\ Trees(k) = TreesOf(c)
  BY <1>1, Taken
<1>3. DOMAIN c = 1..k /\ c \in Seq(R) BY <1>2, SeqMembers
<1>4. /\ IntoTemporaries(c) = FlattenSeq(IntosOf(c, num_temps))
      /\ Arguments(k) = Args(num_temps, k)
  BY DEF IntoTemporaries, IntosOf, Into, Arguments, Args
<1>5. Convert(k, x, q, e, k) BY <1>2, <1>4 DEF ConvertCall
<1>6. r.tree = x /\ r.statements = q /\ r.expression = e BY DEF Result
<1>7. num_temps \in Nat /\ num_temps >= Static BY DEF Counted
<1>8. Plain(r)
  <2>1. Ret \in Nat BY DEF Ret
  <2> QED BY <1>6, <2>1 DEF Plain
<1>9. Adds(k, r, k) /\ Counted'
  <2> HIDE DEF x, q, e
  <2> QED BY <1>1, <1>5, Converted
<1>10. \A y \in R : IsResult(y) /\ Lowers(y, num_temps) /\ IsExpression(y)
  BY <1>1, <1>2, <1>3 DEF Sound
<1> HIDE DEF r, c, R
<1>13. q = FlattenSeq(IntosOf(c, num_temps)) \o <<Node("call", 0, Args(num_temps, Len(c)))>>
  BY <1>2
<1>11. Lowers(r, num_temps + Len(c)) /\ IsResult(r)
  <2> HIDE DEF q
  <2>1. r.tree = Node("call", 0, TreesOf(c)) /\ r.expression = Temp(Ret)
        /\ r.statements = FlattenSeq(IntosOf(c, num_temps))
                            \o <<Node("call", 0, Args(num_temps, Len(c)))>>
    BY <1>6, <1>13
  <2> QED BY <1>3, <1>7, <1>10, <2>1, CallLowers
<1>12. Converts(k, r, k) BY <1>1, <1>2, <1>8, <1>9, <1>11 DEF Converts, Sound
<1> QED BY <1>1, <1>12 DEF r, c

(* A call through a vector.                                                 *)
LEMMA ConvertsVirtualCall ==
  ASSUME Counted, SoundResults, NEW k \in Nat, ConvertVirtualCall(k)
  PROVE  LET c == Children(k)
             y == Children(k + 1)[1]
         IN  /\ Converts(k + 1, Result(Node("virtual", 0, <<y.tree>> \o TreesOf(c)),
                                       FlattenSeq(IntosOf(c, num_temps)) \o y.statements
                                         \o <<Node("virtual", 0,
                                                   <<y.expression>> \o Args(num_temps, k))>>,
                                       Temp(Ret)), k)
             /\ IsExpression(y) /\ \A i \in 1..k : IsExpression(c[i])
<1> DEFINE c == Children(k)
           y == Children(k + 1)[1]
           x == Node("virtual", 0, <<y.tree>> \o TreesOf(c))
           q == FlattenSeq(IntosOf(c, num_temps)) \o y.statements
                  \o <<Node("virtual", 0, <<y.expression>> \o Args(num_temps, k))>>
           e == Temp(Ret)
           r == Result(x, q, e)
           R == {c[i] : i \in DOMAIN c}
<1>0. Len(lowered) \in Nat /\ k + 1 \in Nat BY SeqMembers DEF Counted
<1>a. k + 1 <= Len(lowered) /\ \A i \in 1..k + 1 : IsExpression(Children(k + 1)[i])
  BY DEF ConvertVirtualCall, Expressions
<1>b. k <= Len(lowered) BY <1>0, <1>a
<1>c. /\ \A i \in 1..k : Children(k + 1)[i + 1] = c[i]
      /\ TreesOf(Children(k + 1)) = <<y.tree>> \o TreesOf(c)
  BY <1>a, TargetFirst
<1>1. IsExpression(y) /\ \A i \in 1..k : IsExpression(c[i])
  <2>1. 1 \in 1..k + 1 /\ \A i \in 1..k : i + 1 \in 1..k + 1 OBVIOUS
  <2> QED BY <1>a, <1>c, <2>1
<1>2. /\ Len(c) = k /\ IsSeq(c) /\ \A i \in 1..k : Sound(c[i], num_temps)
  BY <1>b, Taken
<1>d. Sound(y, num_temps) /\ Trees(k + 1) = <<y.tree>> \o TreesOf(c)
  <2>1. 1 \in 1..k + 1 OBVIOUS
  <2>2. /\ \A i \in 1..k + 1 : Sound(Children(k + 1)[i], num_temps)
        /\ Trees(k + 1) = TreesOf(Children(k + 1))
    BY <1>0, <1>a, Taken
  <2> QED BY <1>c, <2>1, <2>2
<1>3. DOMAIN c = 1..k /\ c \in Seq(R) BY <1>2, SeqMembers
<1>4. /\ IntoTemporaries(c) = FlattenSeq(IntosOf(c, num_temps))
      /\ Arguments(k) = Args(num_temps, k)
  BY DEF IntoTemporaries, IntosOf, Into, Arguments, Args
<1>5. Convert(k + 1, x, q, e, k) BY <1>d, <1>4 DEF ConvertVirtualCall
<1>6. r.tree = x /\ r.statements = q /\ r.expression = e BY DEF Result
<1>7. num_temps \in Nat /\ num_temps >= Static BY DEF Counted
<1>8. Plain(r)
  <2>1. Ret \in Nat BY DEF Ret
  <2> QED BY <1>6, <2>1 DEF Plain
<1>9. Adds(k + 1, r, k) /\ Counted'
  <2> HIDE DEF x, q, e
  <2> QED BY <1>0, <1>a, <1>5, Converted
<1>10. \A z \in R : IsResult(z) /\ Lowers(z, num_temps) /\ IsExpression(z)
  BY <1>1, <1>2, <1>3 DEF Sound
<1> HIDE DEF r, c, R, y
<1>13. q = FlattenSeq(IntosOf(c, num_temps)) \o y.statements
             \o <<Node("virtual", 0, <<y.expression>> \o Args(num_temps, Len(c)))>>
  BY <1>2
<1>11. Lowers(r, num_temps + Len(c)) /\ IsResult(r)
  <2> HIDE DEF q
  <2>1. /\ r.tree = Node("virtual", 0, <<y.tree>> \o TreesOf(c)) /\ r.expression = Temp(Ret)
        /\ r.statements = FlattenSeq(IntosOf(c, num_temps)) \o y.statements
                            \o <<Node("virtual", 0, <<y.expression>> \o Args(num_temps, Len(c)))>>
    BY <1>6, <1>13
  <2> QED BY <1>1, <1>3, <1>7, <1>d, <1>10, <2>1, VirtualLowers DEF Sound
<1>12. Converts(k + 1, r, k) BY <1>0, <1>a, <1>2, <1>8, <1>9, <1>11 DEF Converts, Sound
<1> QED BY <1>1, <1>12 DEF r, c, y

----------------------------------------------------------------------------
(* The results mean what they did, started from Start as well.              *)
LEMMA StartIs ==
  ASSUME num_temps \in Nat
  PROVE  Wide(Start, num_temps) /\ Alike(Start, Start)
<1>1. Start.temps = [name \in 0..num_temps |-> Term("initially", name, <<>>, 0)]
  BY DEF Start
<1>2. Start.events = <<>> /\ Start.stack = <<>> BY DEF Start
<1>3. Start = [temps |-> Start.temps, events |-> Start.events, stack |-> Start.stack]
  BY DEF Start
<1>4. IsSeq(<<>>)
  <2> DEFINE I == {}
  <2>1. <<>> \in Seq(I) BY EmptySeq
  <2> HIDE DEF I
  <2> QED BY <2>1 DEF IsSeq
<1>5. IsState(Start)
  <2>1. Start.temps = [m \in DOMAIN Start.temps |-> Start.temps[m]] BY <1>1
  <2> QED BY <1>2, <1>3, <1>4, <2>1 DEF IsState
<1>6. 0..num_temps \subseteq DOMAIN Start.temps BY <1>1
<1> QED BY <1>2, <1>4, <1>5, <1>6 DEF Wide, Alike

(* SameMeaning is what it is for a result to be sound, from Start.          *)
LEMMA MeaningKept ==
  ASSUME Counted, SoundResults
  PROVE  SameMeaning
<1> SUFFICES ASSUME NEW r \in Results
    PROVE  LET before == Interpret(r.tree.order, Start)
               list == Interpret(Postorder(r.statements), Start)
               after == IF IsExpression(r) THEN Interpret(r.expression.order, list) ELSE list
           IN  /\ IsExpression(r) => Answer(after) = Answer(before)
               /\ after.events = before.events
               /\ after.temps[Local] = before.temps[Local]
  BY DEF SameMeaning
<1>1. PICK i \in DOMAIN lowered : r = lowered[i] BY DEF Results
<1>2. IsResult(r) /\ Lowers(r, num_temps) BY <1>1 DEF SoundResults, Sound
<1>3. Follows(r, num_temps, Start, Start) BY <1>2, StartIs DEF Counted, Lowers
<1> DEFINE b == Do(r.tree, Start)
           l == Run(r.statements, Start)
           a == Do(r.expression, l)
<1>4. /\ Interpret(r.tree.order, Start) = b /\ Interpret(Postorder(r.statements), Start) = l
      /\ Interpret(r.expression.order, l) = a
  BY DEF Do, Run
<1>5. /\ Kept(Start, b) /\ Kept(Start, l)
      /\ IsExpression(r) =>
           \E item : b.stack = Append(Start.stack, item) /\ Gives(r.expression, item.value, b, l)
      /\ ~IsExpression(r) => Alike(b, l)
  BY <1>3 DEF Follows
<1>6. IsSeq(Start.stack) /\ IsSeq(l.stack) BY <1>5, StartIs DEF Kept, IsState, Wide, Counted
<1> HIDE DEF b, l
<1>7. CASE ~IsExpression(r) BY <1>4, <1>5, <1>7 DEF Alike
<1>8. CASE IsExpression(r)
  <2>1. PICK item : b.stack = Append(Start.stack, item) /\ Gives(r.expression, item.value, b, l)
    BY <1>5, <1>8
  <2>2. IsState(l) BY <1>5 DEF Kept
  <2>3. /\ Alike(b, a)
        /\ \E other : a.stack = Append(l.stack, other) /\ other.value = item.value
    BY <2>1, <2>2 DEF Gives
  <2>4. PICK other : a.stack = Append(l.stack, other) /\ other.value = item.value BY <2>3
  <2>5. Answer(b) = item.value
    <3>1. /\ Len(Start.stack) \in Nat /\ Len(b.stack) = Len(Start.stack) + 1
          /\ b.stack[Len(Start.stack) + 1] = item
      BY <1>6, <2>1, SeqAppend
    <3> QED BY <3>1 DEF Answer
  <2> HIDE DEF a
  <2>6. Answer(a) = other.value
    <3>1. /\ Len(l.stack) \in Nat /\ Len(a.stack) = Len(l.stack) + 1
          /\ a.stack[Len(l.stack) + 1] = other
      BY <1>6, <2>4, SeqAppend
    <3> QED BY <3>1 DEF Answer
  <2> QED BY <1>4, <1>8, <2>3, <2>4, <2>5, <2>6 DEF Alike, a
<1> QED BY <1>7, <1>8

(* There are no results at first.                                           *)
LEMMA SoundInitially ==
  ASSUME Init
  PROVE  Counted /\ SoundResults
<1> DEFINE I == {}
<1>1. <<>> \in Seq(I) BY EmptySeq
<1> HIDE DEF I
<1>2. IsSeq(<<>>) BY <1>1 DEF IsSeq
<1> QED BY <1>2 DEF Init, Counted, SoundResults, Static

(* Every conversion keeps the results sound.                                *)
LEMMA SoundNext ==
  ASSUME Counted, SoundResults, [Next]_vars
  PROVE  Counted' /\ SoundResults'
<1>0. ASSUME NEW k, NEW r, NEW n, Converts(k, r, n) PROVE Counted' /\ SoundResults'
  BY <1>0, SoundAdded DEF Converts
<1>1. CASE UNCHANGED vars BY <1>1 DEF vars, Counted, SoundResults
<1>2. ASSUME NEW e \in {Temp(Local), Global(Static)}, ConvertLeaf(e)
      PROVE  Counted' /\ SoundResults'
  BY <1>0, <1>2, ConvertsLeaf
<1>3. ASSUME NEW e \in {Temp(Local), Global(Static)}, ConvertMoveToTemp(e)
      PROVE  Counted' /\ SoundResults'
  <2>1. e \in Targets BY DEF Targets
  <2> QED BY <1>0, <1>3, <2>1, ConvertsMoveToTemp
<1>4. ASSUME NEW op \in {"add", "div"}, ConvertBinOp(op) PROVE Counted' /\ SoundResults'
  BY <1>0, <1>4, ConvertsBinOp
<1>5. CASE ConvertMem BY <1>0, <1>5, ConvertsMem
<1>6. ASSUME NEW k \in 0..MaxArguments, ConvertCall(k) PROVE Counted' /\ SoundResults'
  <2>1. k \in Nat OBVIOUS
  <2> QED BY <1>0, <1>6, <2>1, ConvertsCall
<1>7. ASSUME NEW k \in 0..MaxArguments, ConvertVirtualCall(k) PROVE Counted' /\ SoundResults'
  <2>1. k \in Nat OBVIOUS
  <2> QED BY <1>0, <1>7, <2>1, ConvertsVirtualCall
<1>8. CASE ConvertESeq BY <1>0, <1>8, ConvertsESeq
<1>9. CASE ConvertMoveToMem BY <1>0, <1>9, ConvertsMoveToMem
<1>10. CASE ConvertExp BY <1>0, <1>10, ConvertsExp
<1>11. ASSUME NEW op \in {"cjump", "return"}, ConvertJump(op) PROVE Counted' /\ SoundResults'
  BY <1>0, <1>11, ConvertsJump
<1>12. CASE ConvertLabel BY <1>0, <1>12, ConvertsLabel
<1>13. ASSUME NEW k \in 2..Len(lowered), ConvertSeq(k) PROVE Counted' /\ SoundResults'
  <2>1. k \in Nat OBVIOUS
  <2> QED BY <1>0, <1>13, <2>1, ConvertsSeq
<1> QED BY <1>1, <1>2, <1>3, <1>4, <1>5, <1>6, <1>7, <1>8, <1>9, <1>10, <1>11, <1>12, <1>13
        DEF Next

----------------------------------------------------------------------------
(* What a list of statements names.  A temporary above Low is generated.    *)
Low == 0..Static
Named(o) == {e.name : e \in {d \in Range(o) : d.op = "temp"}}
PureCode(o) == \A e \in Range(o) : e.op \in Pure

(* The steps of an order.                                                   *)
LEMMA RangeAppend ==
  ASSUME NEW o \in Code, NEW y \in Steps
  PROVE  Range(Append(o, y)) = Range(o) \cup {y}
<1> DEFINE p == Append(o, y)
           k == Len(o)
           S == Steps
<1>1. /\ k \in Nat /\ DOMAIN o = 1..k /\ DOMAIN p = 1..k + 1
      /\ p[k + 1] = y /\ \A i \in 1..k : p[i] = o[i]
  <2>1. o \in Seq(S) /\ y \in S BY DEF Code
  <2> HIDE DEF S
  <2> QED BY <2>1, AppendDomain
<1> HIDE DEF p, k
<1>2. Range(p) = {p[i] : i \in 1..k + 1} /\ Range(o) = {o[i] : i \in 1..k} BY <1>1 DEF Range
<1>3. 1..k + 1 = 1..k \cup {k + 1} BY <1>1
<1> QED BY <1>1, <1>2, <1>3 DEF p

(* The steps of two orders.                                                 *)
LEMMA RangeConcat ==
  ASSUME NEW a \in Code, NEW b \in Code
  PROVE  Range(a \o b) = Range(a) \cup Range(b)
<1> DEFINE S == Steps
           c == a \o b
<1>1. a \in Seq(S) /\ b \in Seq(S) BY DEF Code
<1> HIDE DEF S
<1>2. /\ c \in Seq(S) /\ Len(c) = Len(a) + Len(b)
      /\ \A i \in 1..Len(a) + Len(b) : c[i] = IF i <= Len(a) THEN a[i] ELSE b[i - Len(a)]
  BY <1>1, ConcatProperties
<1>3. /\ Len(a) \in Nat /\ Len(b) \in Nat /\ DOMAIN a = 1..Len(a) /\ DOMAIN b = 1..Len(b)
      /\ DOMAIN c = 1..Len(c)
  BY <1>1, <1>2, LenProperties
<1> HIDE DEF c
<1>4. \A i \in 1..Len(c) : c[i] \in Range(a) \cup Range(b)
  <2> SUFFICES ASSUME NEW i \in 1..Len(c) PROVE c[i] \in Range(a) \cup Range(b) OBVIOUS
  <2>1. CASE i <= Len(a) BY <1>2, <1>3, <2>1 DEF Range
  <2>2. CASE ~(i <= Len(a))
    <3>1. i - Len(a) \in 1..Len(b) BY <1>2, <1>3, <2>2
    <3> QED BY <1>2, <1>3, <2>2, <3>1 DEF Range
  <2> QED BY <2>1, <2>2
<1>5. \A i \in 1..Len(a) : i \in 1..Len(c) /\ c[i] = a[i] BY <1>2, <1>3
<1>6. \A i \in 1..Len(b) : Len(a) + i \in 1..Len(c) /\ c[Len(a) + i] = b[i] BY <1>2, <1>3
<1>7. Range(c) \subseteq Range(a) \cup Range(b) BY <1>3, <1>4 DEF Range
<1>8. Range(a) \subseteq Range(c) BY <1>3, <1>5 DEF Range
<1>9. Range(b) \subseteq Range(c) BY <1>3, <1>6 DEF Range
<1> QED BY <1>7, <1>8, <1>9 DEF c

(* No steps.                                                                *)
LEMMA RangeEmpty == Range(<<>>) = {}
  BY DEF Range

\* What an order is made of.
Ends(o, y) == LET p == Append(o, y)
              IN  /\ Named(p) = Named(o) \cup (IF y.op = "temp" THEN {y.name} ELSE {})
                  /\ PureCode(p) <=> PureCode(o) /\ y.op \in Pure
                  /\ Front(p) = o
Both(a, b) == LET c == a \o b
              IN  /\ Named(c) = Named(a) \cup Named(b)
                  /\ PureCode(c) <=> PureCode(a) /\ PureCode(b)
                  /\ c \in Code

(* An order with one more step.                                             *)
LEMMA EndsWith ==
  ASSUME NEW o \in Code, NEW y \in Steps
  PROVE  Ends(o, y)
<1> DEFINE p == Append(o, y)
<1>1. Range(p) = Range(o) \cup {y} BY RangeAppend
<1>2. Front(p) = o
  <2>1. IsSeq(o) BY DEF Code, IsSeq
  <2>2. Len(o) \in Nat /\ Len(p) = Len(o) + 1 /\ SubSeq(p, 1, Len(o)) = o BY <2>1, SeqAppend
  <2> HIDE DEF p
  <2>3. Len(p) - 1 = Len(o) BY <2>2
  <2> QED BY <2>2, <2>3 DEF Front
<1> HIDE DEF p
<1>3. Named(p) = Named(o) \cup (IF y.op = "temp" THEN {y.name} ELSE {}) BY <1>1 DEF Named
<1>4. PureCode(p) <=> PureCode(o) /\ y.op \in Pure BY <1>1 DEF PureCode
<1> QED BY <1>2, <1>3, <1>4 DEF Ends, p

(* One order after another.                                                 *)
LEMMA BothOf ==
  ASSUME NEW a \in Code, NEW b \in Code
  PROVE  Both(a, b)
<1> DEFINE c == a \o b
<1>1. Range(c) = Range(a) \cup Range(b) BY RangeConcat
<1>2. c \in Code BY ConcatProperties DEF Code
<1> HIDE DEF c
<1>3. Named(c) = Named(a) \cup Named(b) BY <1>1 DEF Named
<1>4. PureCode(c) <=> PureCode(a) /\ PureCode(b) BY <1>1 DEF PureCode
<1> QED BY <1>2, <1>3, <1>4 DEF Both, c

(* The empty order.                                                         *)
LEMMA EmptyOrder == <<>> \in Code /\ Named(<<>>) = {} /\ PureCode(<<>>)
  BY RangeEmpty, EmptySeq DEF Code, Named, PureCode

----------------------------------------------------------------------------
(* Expressions without side effects and the temporaries they name.          *)
IsValue(e, names) == e.order \in Code /\ PureCode(e.order) /\ Reads(e) = names

(* A node reads what its order names.                                       *)
LEMMA ReadsAre == \A x : Reads(x) = Named(x.order)
  BY DEF Reads, Named

(* What a step is made of.                                                  *)
LEMMA StepsAre ==
  /\ \A op \in Ops, name \in Nat, arity \in Nat : Step(op, name, arity) \in Steps
  /\ \A op, name, arity : /\ Step(op, name, arity).op = op
                          /\ Step(op, name, arity).name = name
  BY DEF Step, Steps

(* A temporary names itself.                                                *)
LEMMA TempNames ==
  ASSUME NEW m \in Nat
  PROVE  IsValue(Temp(m), {m})
<1> DEFINE y == Step("temp", m, 0)
           e == <<>>
<1>1. Temp(m).order = <<y>> /\ Temp(m).order \in Code BY TempRuns
<1>2. y \in Steps /\ y.op = "temp" /\ y.name = m /\ y.op \in Pure
  BY StepsAre DEF Ops, Pure
<1>3. e \in Code /\ Named(e) = {} /\ PureCode(e) BY EmptyOrder
<1>4. Append(e, y) = <<y>> OBVIOUS
<1> HIDE DEF e, y
<1>5. Ends(e, y) BY <1>2, <1>3, EndsWith
<1>6. Named(Append(e, y)) = {m} /\ PureCode(Append(e, y)) BY <1>2, <1>3, <1>5 DEF Ends
<1> QED BY <1>1, <1>4, <1>6, ReadsAre DEF IsValue

(* A static field names no temporary.                                       *)
LEMMA GlobalNames ==
  ASSUME NEW m \in Nat
  PROVE  IsValue(Global(m), {})
<1> DEFINE y == Step("global", m, 0)
           e == <<>>
<1>1. Global(m).order = <<y>> /\ Global(m).order \in Code BY GlobalRuns
<1>2. y \in Steps /\ y.op = "global" /\ y.op \in Pure
  BY StepsAre DEF Ops, Pure
<1>3. e \in Code /\ Named(e) = {} /\ PureCode(e) BY EmptyOrder
<1>4. Append(e, y) = <<y>> OBVIOUS
<1> HIDE DEF e, y
<1>5. Ends(e, y) BY <1>2, <1>3, EndsWith
<1>6. Named(Append(e, y)) = {} /\ PureCode(Append(e, y)) BY <1>2, <1>3, <1>5 DEF Ends
<1> QED BY <1>1, <1>4, <1>6, ReadsAre DEF IsValue

(* A word of memory names what its address does.                            *)
LEMMA MemNames ==
  ASSUME NEW e, NEW names, IsValue(e, names)
  PROVE  IsValue(Mem(e), names)
<1> DEFINE y == Step("mem", 0, 1)
           o == e.order
<1>1. o \in Code /\ PureCode(o) /\ Named(o) = names BY ReadsAre DEF IsValue
<1>2. y \in Steps /\ y.op = "mem" /\ y.op \in Pure BY StepsAre DEF Ops, Pure
<1>3. Mem(e).order = Append(o, y) /\ Mem(e).order \in Code BY <1>1, MemOrder
<1> HIDE DEF o, y
<1>4. Ends(o, y) BY <1>1, <1>2, EndsWith
<1>5. Named(Append(o, y)) = names /\ PureCode(Append(o, y)) BY <1>1, <1>2, <1>4 DEF Ends
<1> QED BY <1>3, <1>5, ReadsAre DEF IsValue

(* An operator names what its sides do.                                     *)
LEMMA BinOpNames ==
  ASSUME NEW op \in Operators, NEW e, NEW names, IsValue(e, names),
         NEW d, NEW others, IsValue(d, others)
  PROVE  IsValue(BinOp(op, e, d), names \cup others)
<1> DEFINE y == Step(op, 0, 2)
           a == e.order
           b == d.order
           o == a \o b
<1>1. /\ a \in Code /\ PureCode(a) /\ Named(a) = names
      /\ b \in Code /\ PureCode(b) /\ Named(b) = others
  BY ReadsAre DEF IsValue
<1>2. y \in Steps /\ y.op = op /\ y.op \in Pure /\ op # "temp"
  <2>1. op \in Pure /\ op \in Ops /\ op # "temp"
    BY DEF Ops, Pure, Operators, Comparisons, Dividing
  <2> QED BY <2>1, StepsAre
<1>3. BinOp(op, e, d).order = Append(o, y) /\ BinOp(op, e, d).order \in Code
  BY <1>1, BinOpOrder
<1> HIDE DEF y, a, b
<1>4. Both(a, b) BY <1>1, BothOf
<1>5. o \in Code /\ PureCode(o) /\ Named(o) = names \cup others BY <1>1, <1>4 DEF Both
<1> HIDE DEF o
<1>6. Ends(o, y) BY <1>2, <1>5, EndsWith
<1>7. Named(Append(o, y)) = names \cup others /\ PureCode(Append(o, y))
  BY <1>2, <1>5, <1>6 DEF Ends
<1> QED BY <1>3, <1>7, ReadsAre DEF IsValue

(* Statements whose expressions have no side effects.                       *)
Kinds == {"move", "call", "virtual", "cjump", "return", "label"}
IsStatement(x, names, written) ==
  /\ x.order \in Code /\ x.op \in Kinds /\ PureCode(Front(x.order))
  /\ Reads(x) = names /\ Writes(x) = written

(* A statement is left last; what comes before is without side effects.     *)
LEMMA StatementEnds ==
  ASSUME NEW x, x.op \in Kinds, NEW o \in Code, PureCode(o), NEW y \in Steps, y.op # "temp",
         x.order = Append(o, y), x.order \in Code
  PROVE  IsStatement(x, Named(o), Writes(x))
<1>1. Ends(o, y) BY EndsWith
<1> DEFINE p == Append(o, y)
<1>2. Named(p) = Named(o) /\ Front(p) = o BY <1>1 DEF Ends
<1> HIDE DEF p
<1>3. x.order = p BY DEF p
<1> QED BY <1>2, <1>3, ReadsAre DEF IsStatement

(* A move writes its target, if that is a temporary.                        *)
LEMMA MoveNames ==
  ASSUME NEW a, NEW names, IsValue(a, names), NEW e, NEW others, IsValue(e, others)
  PROVE  LET x == Move(a, e)
         IN  /\ IsStatement(x, names \cup others, Writes(x))
             /\ Writes(x) = IF a.op = "temp" THEN {a.name} ELSE {}
<1> DEFINE y == Step("move", 0, 2)
           c == a.order
           b == e.order
           o == c \o b
           x == Move(a, e)
<1>1. /\ c \in Code /\ PureCode(c) /\ Named(c) = names
      /\ b \in Code /\ PureCode(b) /\ Named(b) = others
  BY ReadsAre DEF IsValue
<1>2. y \in Steps /\ y.op # "temp" BY StepsAre DEF Ops, Pure
<1>3. x.order = Append(o, y) /\ x.order \in Code BY <1>1, MoveOrder
<1>4. x.op = "move" /\ x.children[1] = a BY DEF Move, Node
<1>5. Writes(x) = IF a.op = "temp" THEN {a.name} ELSE {} BY <1>4 DEF Writes
<1>6. x.op \in Kinds BY <1>4 DEF Kinds
<1> HIDE DEF y, c, b, x
<1>7. Both(c, b) BY <1>1, BothOf
<1>8. o \in Code /\ PureCode(o) /\ Named(o) = names \cup others BY <1>1, <1>7 DEF Both
<1> HIDE DEF o
<1>9. IsStatement(x, Named(o), Writes(x)) BY <1>2, <1>3, <1>6, <1>8, StatementEnds
<1> QED BY <1>5, <1>8, <1>9 DEF x

(* A jump writes nothing.                                                   *)
LEMMA JumpNames ==
  ASSUME NEW op \in {"cjump", "return"}, NEW e, NEW names, IsValue(e, names)
  PROVE  IsStatement(Node(op, 0, <<e>>), names, {})
<1> DEFINE y == Step(op, 0, 1)
           o == e.order
           x == One(op, e)
<1>1. o \in Code /\ PureCode(o) /\ Named(o) = names BY ReadsAre DEF IsValue
<1>2. y \in Steps /\ y.op # "temp" /\ op \in Ops /\ op # "virtual" BY StepsAre DEF Ops, Pure
<1>3. x.order = Append(o, y) /\ x.order \in Code BY <1>1, <1>2, OneOrder
<1>4. x.op = op BY DEF One, Node
<1>5. Writes(x) = {} /\ x.op \in Kinds BY <1>4 DEF Writes, Kinds
<1> HIDE DEF y, o, x
<1>6. IsStatement(x, Named(o), Writes(x)) BY <1>1, <1>2, <1>3, <1>5, StatementEnds
<1> QED BY <1>1, <1>5, <1>6 DEF x, One

(* A label names nothing.                                                   *)
LEMMA LabelNames == IsStatement(Node("label", 0, <<>>), {}, {})
<1> DEFINE c == <<>>
           y == Step("label", 0, 0)
           x == Node("label", 0, c)
<1>1. IsList(c) /\ Len(c) = 0 BY ListEmpty
<1>8. Postorder(c) = c BY PostorderEmpty
<1>2. y \in Steps /\ y.op # "temp" /\ "label" \in Ops /\ "label" # "virtual"
  BY StepsAre DEF Ops, Pure
<1>3. c \in Code /\ PureCode(c) /\ Named(c) = {} BY EmptyOrder
<1>4. x.op = "label" BY DEF Node
<1>5. Writes(x) = {} /\ x.op \in Kinds BY <1>4 DEF Writes, Kinds
<1> HIDE DEF c
<1>6. x.order = Append(Postorder(c), y) /\ x.order \in Code
  <2>1. /\ Node("label", 0, c).order = Append(Postorder(c), Step("label", 0, Len(c)))
        /\ Node("label", 0, c).order \in Code
    BY <1>1, <1>2, NodeRuns
  <2> QED BY <1>1, <2>1
<1> HIDE DEF y, x
<1>7. IsStatement(x, Named(c), Writes(x)) BY <1>8, <1>2, <1>3, <1>5, <1>6, StatementEnds
<1> QED BY <1>3, <1>5, <1>7 DEF x, c

(* The arguments of a call, which are temporaries, and the calls.           *)
ArgsName(n, k) == LET o == Postorder(Args(n, k))
                  IN  o \in Code /\ PureCode(o) /\ Named(o) \subseteq n + 1..n + k

(* The arguments name the temporaries they are.                             *)
LEMMA ArgsNames ==
  ASSUME NEW n \in Nat, NEW k \in Nat
  PROVE  ArgsName(n, k)
<1> DEFINE G == {j \in Nat : ArgsName(n, j)}
<1>1. 0 \in G
  <2>1. Args(n, 0) = <<>> BY DEF Args
  <2> QED BY <2>1, PostorderEmpty, EmptyOrder DEF ArgsName
<1>2. ASSUME NEW j \in Nat, j \in G PROVE j + 1 \in G
  <2> DEFINE m == n + (j + 1)
             x == Temp(m)
             a == Args(n, j)
             b == <<x>>
             o == Postorder(a)
             p == x.order
  <2>1. m \in Nat OBVIOUS
  <2>2. Args(n, j + 1) = Append(a, x) BY ArgsAppend
  <2>3. IsList(a) BY ArgumentsRead
  <2> HIDE DEF m
  <2>4. p \in Code /\ PureCode(p) /\ Named(p) = {m} BY <2>1, TempNames, ReadsAre DEF IsValue
  <2> HIDE DEF x
  <2>5. Append(a, x) = a \o b
    <3>1. IsSeq(a) BY <2>3 DEF IsList, IsSeq
    <3> QED BY <3>1, SeqAppend
  <2>6. IsList(b) /\ Postorder(b) = p BY <2>4, ListOne, PostorderOne
  <2>7. o \in Code /\ PureCode(o) /\ Named(o) \subseteq n + 1..n + j BY <1>2 DEF ArgsName
  <2> HIDE DEF a, b
  <2>8. Postorder(a \o b) = Postorder(a) \o Postorder(b) BY <2>3, <2>6, PostorderConcat
  <2> HIDE DEF p, o
  <2>9. Both(o, p) BY <2>4, <2>7, BothOf
  <2>10. Postorder(a \o b) = o \o p BY <2>6, <2>8 DEF o
  <2>11. /\ o \o p \in Code /\ PureCode(o \o p) /\ Named(o \o p) = Named(o) \cup {m}
    BY <2>4, <2>7, <2>9 DEF Both
  <2>12. Named(o) \cup {m} \subseteq n + 1..n + (j + 1) BY <2>7 DEF m
  <2>13. Postorder(Args(n, j + 1)) = o \o p BY <2>2, <2>5, <2>10
  <2>14. ArgsName(n, j + 1) BY <2>11, <2>12, <2>13 DEF ArgsName
  <2> QED BY <2>14
<1> HIDE DEF G
<1>3. Nat \subseteq G BY <1>1, <1>2, Induct
<1> QED BY <1>3 DEF G

(* A call writes nothing and reads its arguments.                           *)
LEMMA CallNames ==
  ASSUME NEW n \in Nat, NEW k \in Nat
  PROVE  LET x == Node("call", 0, Args(n, k))
         IN  IsStatement(x, Reads(x), {}) /\ Reads(x) \subseteq n + 1..n + k
<1> DEFINE c == Args(n, k)
           y == Step("call", 0, k)
           x == Node("call", 0, c)
           o == Postorder(c)
<1>1. IsList(c) /\ Len(c) = k BY ArgumentsRead
<1>2. y \in Steps /\ y.op # "temp" /\ "call" \in Ops /\ "call" # "virtual" BY StepsAre, SMTT(30) DEF Ops
<1>3. o \in Code /\ PureCode(o) /\ Named(o) \subseteq n + 1..n + k BY ArgsNames DEF ArgsName
<1>4. x.op = "call" BY DEF Node
<1>5. Writes(x) = {} /\ x.op \in Kinds BY <1>4 DEF Writes, Kinds
<1> HIDE DEF c
<1>6. x.order = Append(o, y) /\ x.order \in Code
  <2>1. /\ Node("call", 0, c).order = Append(Postorder(c), Step("call", 0, Len(c)))
        /\ Node("call", 0, c).order \in Code
    BY <1>1, <1>2, NodeRuns
  <2> QED BY <1>1, <2>1
<1> HIDE DEF y, x, o
<1>7. IsStatement(x, Named(o), Writes(x)) BY <1>2, <1>3, <1>5, <1>6, StatementEnds
<1>8. Reads(x) = Named(o) BY <1>7 DEF IsStatement
<1> QED BY <1>3, <1>5, <1>7, <1>8 DEF x, c

(* A call through a vector reads its target's temporaries as well.          *)
LEMMA VirtualNames ==
  ASSUME NEW n \in Nat, NEW k \in Nat, NEW e, NEW names, IsValue(e, names)
  PROVE  LET x == Node("virtual", 0, <<e>> \o Args(n, k))
         IN  IsStatement(x, Reads(x), {}) /\ Reads(x) \subseteq names \cup n + 1..n + k
<1> DEFINE c == Args(n, k)
           y == Step("virtual", 0, k + 1)
           x == Node("virtual", 0, <<e>> \o c)
           b == <<e>>
           p == Postorder(c)
           q == e.order
           o == p \o q
<1>1. IsList(c) /\ Len(c) = k BY ArgumentsRead
<1>2. y \in Steps /\ y.op # "temp" BY StepsAre DEF Ops
<1>3. p \in Code /\ PureCode(p) /\ Named(p) \subseteq n + 1..n + k BY ArgsNames DEF ArgsName
<1>4. q \in Code /\ PureCode(q) /\ Named(q) = names BY ReadsAre DEF IsValue
<1>5. x.op = "virtual" BY DEF Node
<1>6. Writes(x) = {} /\ x.op \in Kinds BY <1>5 DEF Writes, Kinds
<1>7. IsList(b) /\ Postorder(b) = q BY <1>4, ListOne, PostorderOne
<1> HIDE DEF c
<1>8. /\ x.order = Append(Postorder(Append(c, e)), y) /\ x.order \in Code
  <2>1. ASSUME NEW s
        PROVE  LET v == Node("virtual", 0, <<e>> \o c)
               IN  /\ v.order = Append(Postorder(Append(c, e)), Step("virtual", 0, Len(c) + 1))
                   /\ v.order \in Code
    BY <1>1, <1>4, VirtualRuns
  <2> QED BY <1>1, <2>1
<1>9. Append(c, e) = c \o b
  <2>1. IsSeq(c) BY <1>1 DEF IsList, IsSeq
  <2> QED BY <2>1, SeqAppend
<1> HIDE DEF b
<1>10. Postorder(c \o b) = Postorder(c) \o Postorder(b) BY <1>1, <1>7, PostorderConcat
<1>11. x.order = Append(o, y) BY <1>7, <1>8, <1>9, <1>10
<1> HIDE DEF y, x, p, q
<1>12. Both(p, q) BY <1>3, <1>4, BothOf
<1>13. o \in Code /\ PureCode(o) /\ Named(o) = Named(p) \cup names BY <1>3, <1>4, <1>12 DEF Both
<1> HIDE DEF o
<1>14. IsStatement(x, Named(o), Writes(x)) BY <1>2, <1>6, <1>8, <1>11, <1>13, StatementEnds
<1>15. Reads(x) = Named(o) BY <1>14 DEF IsStatement
<1>16. Reads(x) \subseteq names \cup n + 1..n + k BY <1>3, <1>13, <1>15
<1> QED BY <1>6, <1>14, <1>15, <1>16 DEF x, c

----------------------------------------------------------------------------
(* Lists of statements that write no generated temporary twice, nor after   *)
(* it has been read.                                                        *)
Names(q) == UNION {Reads(q[i]) : i \in DOMAIN q}
Written(q) == UNION {Writes(q[i]) : i \in DOMAIN q}
Once(q) == \A i, j \in DOMAIN q : \A t \in Writes(q[i]) \ Low : t \in Reads(q[j]) =>
             i <= j /\ (t \in Writes(q[j]) => i = j)
AreStatements(q) == \A i \in DOMAIN q : /\ IsStatement(q[i], Reads(q[i]), Writes(q[i]))
                                        /\ Writes(q[i]) \subseteq Reads(q[i])
Neat(q) == IsList(q) /\ AreStatements(q) /\ Once(q)

(* What is written is named.                                                *)
LEMMA WrittenNamed ==
  ASSUME NEW q, Neat(q)
  PROVE  Written(q) \subseteq Names(q)
BY DEF Neat, AreStatements, Written, Names

(* The empty list.                                                          *)
LEMMA NeatEmpty == Neat(<<>>) /\ Names(<<>>) = {} /\ Written(<<>>) = {}
BY ListEmpty DEF Neat, AreStatements, Once, Names, Written

(* A list of one statement.                                                 *)
LEMMA NeatOne ==
  ASSUME NEW x, NEW names, NEW written, IsStatement(x, names, written),
         written \subseteq names
  PROVE  Neat(<<x>>) /\ Names(<<x>>) = names /\ Written(<<x>>) = written
<1> DEFINE q == <<x>>
<1>1. DOMAIN q = {1} /\ q[1] = x OBVIOUS
<1>2. IsList(q) BY ListOne DEF IsStatement
<1> HIDE DEF q
<1>3. Reads(x) = names /\ Writes(x) = written BY DEF IsStatement
<1>4. Names(q) = names /\ Written(q) = written BY <1>1, <1>3 DEF Names, Written
<1>5. AreStatements(q) BY <1>1, <1>3 DEF AreStatements
<1>6. Once(q) BY <1>1 DEF Once
<1> QED BY <1>2, <1>4, <1>5, <1>6 DEF Neat, q

\* One list after another.
Follow(a, b) == LET c == a \o b
                IN  /\ Neat(c) /\ Names(c) = Names(a) \cup Names(b)
                    /\ Written(c) = Written(a) \cup Written(b)

(* Lists stay neat if the second writes nothing generated that the first    *)
(* names.                                                                   *)
LEMMA NeatConcat ==
  ASSUME NEW a, Neat(a), NEW b, Neat(b), Written(b) \cap Names(a) \subseteq Low
  PROVE  Follow(a, b)
<1> DEFINE c == a \o b
           k == Len(a)
<1>1. PICK M : a \in Seq(M) BY DEF Neat, IsList
<1>2. PICK N : b \in Seq(N) BY DEF Neat, IsList
<1> DEFINE T == M \cup N
<1>3. a \in Seq(T) /\ b \in Seq(T) BY <1>1, <1>2, SeqMonotonic
<1> HIDE DEF T
<1>4. /\ c \in Seq(T) /\ Len(c) = Len(a) + Len(b)
      /\ \A i \in 1..Len(a) + Len(b) : c[i] = IF i <= Len(a) THEN a[i] ELSE b[i - Len(a)]
  BY <1>3, ConcatProperties
<1>5. /\ k \in Nat /\ Len(b) \in Nat /\ DOMAIN a = 1..k /\ DOMAIN b = 1..Len(b)
      /\ DOMAIN c = 1..k + Len(b)
  BY <1>3, <1>4, LenProperties
<1>6. IsList(c) BY ListConcat DEF Neat
<1> HIDE DEF c, k
<1>7. \A i \in DOMAIN a : i \in DOMAIN c /\ c[i] = a[i] BY <1>4, <1>5 DEF k
<1>8. \A i \in DOMAIN b : k + i \in DOMAIN c /\ c[k + i] = b[i] BY <1>4, <1>5 DEF k
<1>9. \A i \in DOMAIN c : \/ i \in DOMAIN a /\ c[i] = a[i]
                          \/ i \notin DOMAIN a /\ i - k \in DOMAIN b /\ c[i] = b[i - k]
  BY <1>4, <1>5 DEF k
<1>10. Names(c) = Names(a) \cup Names(b)
  <2>1. Names(c) \subseteq Names(a) \cup Names(b) BY <1>9 DEF Names
  <2>2. Names(a) \subseteq Names(c) BY <1>7 DEF Names
  <2>3. Names(b) \subseteq Names(c) BY <1>8 DEF Names
  <2> QED BY <2>1, <2>2, <2>3
<1>11. Written(c) = Written(a) \cup Written(b)
  <2>1. Written(c) \subseteq Written(a) \cup Written(b) BY <1>9 DEF Written
  <2>2. Written(a) \subseteq Written(c) BY <1>7 DEF Written
  <2>3. Written(b) \subseteq Written(c) BY <1>8 DEF Written
  <2> QED BY <2>1, <2>2, <2>3
<1>12. AreStatements(c) BY <1>9 DEF Neat, AreStatements
<1>13. Once(c)
  <2> SUFFICES ASSUME NEW i \in DOMAIN c, NEW j \in DOMAIN c, NEW t \in Writes(c[i]) \ Low,
                      t \in Reads(c[j])
               PROVE  i <= j /\ (t \in Writes(c[j]) => i = j)
    BY DEF Once
  <2>1. CASE i \in DOMAIN a /\ j \in DOMAIN a
    <3>1. c[i] = a[i] /\ c[j] = a[j] BY <1>7, <2>1
    <3> QED BY <2>1, <3>1 DEF Neat, Once
  <2>2. CASE i \in DOMAIN a /\ j \notin DOMAIN a
    <3>1. c[i] = a[i] /\ c[j] = b[j - k] /\ j - k \in DOMAIN b BY <1>7, <1>9, <2>2
    <3>2. i <= j BY <1>5, <2>2
    <3>3. Writes(a[i]) \subseteq Reads(a[i]) BY <2>2 DEF Neat, AreStatements
    <3>4. t \in Names(a) BY <2>2, <3>1, <3>3 DEF Names
    <3>5. t \notin Writes(c[j]) BY <3>1, <3>4 DEF Written
    <3> QED BY <3>2, <3>5
  <2>3. CASE i \notin DOMAIN a /\ j \in DOMAIN a
    <3>1. c[i] = b[i - k] /\ i - k \in DOMAIN b /\ c[j] = a[j] BY <1>7, <1>9, <2>3
    <3>2. t \in Written(b) /\ t \in Names(a) BY <2>3, <3>1 DEF Written, Names
    <3> QED BY <3>2
  <2>4. CASE i \notin DOMAIN a /\ j \notin DOMAIN a
    <3>1. /\ c[i] = b[i - k] /\ i - k \in DOMAIN b
          /\ c[j] = b[j - k] /\ j - k \in DOMAIN b
      BY <1>9, <2>4
    <3>2. i - k <= j - k /\ (t \in Writes(b[j - k]) => i - k = j - k)
      BY <3>1 DEF Neat, Once
    <3> QED BY <1>5, <3>1, <3>2
  <2> QED BY <2>1, <2>2, <2>3, <2>4
<1> QED BY <1>6, <1>10, <1>11, <1>12, <1>13 DEF Follow, Neat, c

\* Lists that name no generated temporary of one another, one after another.
Separate(q) == /\ \A i \in DOMAIN q : Neat(q[i])
               /\ \A i, j \in DOMAIN q : i # j => Names(q[i]) \cap Names(q[j]) \subseteq Low
AllNames(q) == UNION {Names(q[i]) : i \in DOMAIN q}
Flattens(q) == LET f == FlattenSeq(q) IN Neat(f) /\ Names(f) \subseteq AllNames(q)

(* Separate lists are neat one after another.                               *)
LEMMA NeatFlatten ==
  ASSUME NEW L, \A a \in L : IsList(a), NEW q \in Seq(L), Separate(q)
  PROVE  Flattens(q)
<1> DEFINE P == {p \in Seq(L) : Separate(p) => Flattens(p)}
<1>1. <<>> \in P
  <2>1. Flattens(<<>>) BY FlattenEmpty, NeatEmpty DEF Flattens
  <2>2. <<>> \in Seq(L) BY EmptySeq
  <2> QED BY <2>1, <2>2
<1>2. ASSUME NEW p \in Seq(L), NEW x \in L, p \in P PROVE Append(p, x) \in P
  <2> DEFINE r == Append(p, x)
             k == Len(p)
             f == FlattenSeq(p)
  <2>1. /\ r \in Seq(L) /\ k \in Nat /\ DOMAIN p = 1..k /\ DOMAIN r = 1..k + 1
        /\ r[k + 1] = x /\ \A i \in 1..k : r[i] = p[i]
    BY AppendDomain
  <2> HIDE DEF r, k
  <2>2. SUFFICES ASSUME Separate(r) PROVE Flattens(r) BY <2>1 DEF r
  <2>3. Separate(p) /\ Neat(x)
    <3>1. \A i \in DOMAIN p : i \in DOMAIN r /\ r[i] = p[i] BY <2>1
    <3>2. k + 1 \in DOMAIN r BY <2>1
    <3> QED BY <2>1, <2>2, <3>1, <3>2 DEF Separate
  <2>4. Neat(f) /\ Names(f) \subseteq AllNames(p) BY <1>2, <2>3 DEF Flattens
  <2>5. Names(x) \cap AllNames(p) \subseteq Low
    <3>1. \A i \in DOMAIN p : /\ i \in DOMAIN r /\ k + 1 \in DOMAIN r /\ i # k + 1
                              /\ r[i] = p[i]
      BY <2>1
    <3>2. \A i \in DOMAIN p : Names(x) \cap Names(p[i]) \subseteq Low
      BY <2>1, <2>2, <3>1 DEF Separate
    <3> QED BY <3>2 DEF AllNames
  <2>6. Written(x) \cap Names(f) \subseteq Low BY <2>3, <2>4, <2>5, WrittenNamed
  <2>7. FlattenSeq(r) = f \o x
    <3>1. IsList(f) BY <2>4 DEF Neat
    <3> QED BY <3>1, FlattenLists DEF r
  <2> HIDE DEF f
  <2>8. Follow(f, x) BY <2>3, <2>4, <2>6, NeatConcat
  <2> DEFINE g == f \o x
  <2>9. Neat(g) /\ Names(g) = Names(f) \cup Names(x) BY <2>8 DEF Follow
  <2>10. AllNames(p) \cup Names(x) \subseteq AllNames(r)
    <3>1. \A i \in DOMAIN p : i \in DOMAIN r /\ r[i] = p[i] BY <2>1
    <3>2. k + 1 \in DOMAIN r /\ r[k + 1] = x BY <2>1
    <3> QED BY <3>1, <3>2 DEF AllNames
  <2> HIDE DEF g
  <2>11. FlattenSeq(r) = g BY <2>7 DEF g
  <2> QED BY <2>4, <2>9, <2>10, <2>11 DEF Flattens
<1> HIDE DEF P
<1>3. Seq(L) \subseteq P BY <1>1, <1>2, SeqInduct
<1>4. q \in P BY <1>3
<1> QED BY <1>4 DEF P

----------------------------------------------------------------------------
(* The results name generated temporaries of their own.                     *)
Tidy(r) == /\ Neat(r.statements)
           /\ IsExpression(r) => IsValue(r.expression, Reads(r.expression))
Mentions(r) == Names(r.statements)
                 \cup (IF IsExpression(r) THEN Reads(r.expression) ELSE {})
TidyResults == \A i \in DOMAIN lowered : /\ Tidy(lowered[i])
                                         /\ Mentions(lowered[i]) \subseteq 0..num_temps
Apart == \A i, j \in DOMAIN lowered :
           i # j => Mentions(lowered[i]) \cap Mentions(lowered[j]) \subseteq Low

(* A value computed into a temporary that is new.                           *)
LEMMA IntoNames ==
  ASSUME NEW r, Tidy(r), IsExpression(r), NEW m \in Nat, m \notin Mentions(r)
  PROVE  Neat(Into(r, m)) /\ Names(Into(r, m)) = Mentions(r) \cup {m}
<1> DEFINE x == Move(Temp(m), r.expression)
           a == r.statements
           b == <<x>>
           n == Reads(r.expression)
<1>1. IsValue(r.expression, n) BY DEF Tidy
<1>2. IsValue(Temp(m), {m}) BY TempNames
<1>3. Temp(m).op = "temp" /\ Temp(m).name = m BY DEF Temp, Node
<1>4. IsStatement(x, {m} \cup n, {m})
  <2> DEFINE t == Temp(m)
             e == r.expression
             v == Move(t, e)
  <2>1. IsValue(t, {m}) /\ IsValue(e, n) /\ t.op = "temp" /\ t.name = m BY <1>1, <1>2, <1>3
  <2> HIDE DEF n, t, e
  <2>2. IsStatement(v, {m} \cup n, Writes(v)) /\ Writes(v) = IF t.op = "temp" THEN {t.name} ELSE {}
    BY <2>1, MoveNames
  <2>3. Writes(v) = {m} BY <2>1, <2>2
  <2> QED BY <2>2, <2>3 DEF t, e
<1>5. Neat(b) /\ Names(b) = {m} \cup n /\ Written(b) = {m}
  <2> HIDE DEF x, n
  <2> QED BY <1>4, NeatOne
<1>6. Neat(a) /\ Mentions(r) = Names(a) \cup n BY DEF Tidy, Mentions
<1> HIDE DEF b, a
<1>7. Written(b) \cap Names(a) \subseteq Low BY <1>5, <1>6
<1>8. Follow(a, b) BY <1>5, <1>6, <1>7, NeatConcat
<1>9. Neat(a \o b) /\ Names(a \o b) = Names(a) \cup Names(b) BY <1>8 DEF Follow
<1>10. Into(r, m) = a \o b BY DEF Into, a, b
<1> QED BY <1>5, <1>6, <1>9, <1>10

\* What the last k results mention.
Gathered(k) == UNION {Mentions(Children(k)[i]) : i \in 1..k}
Fits(k, r, generated) ==
  /\ Tidy(r)
  /\ Mentions(r) \subseteq Gathered(k) \cup (num_temps + 1..num_temps + generated) \cup Low

(* A result that mentions only what it took, and new temporaries, is apart. *)
LEMMA TidyAdded ==
  ASSUME Counted, TidyResults, Apart, NEW k, NEW generated, NEW r,
         Converts(k, r, generated), Fits(k, r, generated)
  PROVE  TidyResults' /\ Apart'
<1> DEFINE b == Len(lowered) - k
           n == num_temps
           m == num_temps + generated
<1>1. /\ k \in Nat /\ k <= Len(lowered) /\ generated \in Nat /\ Adds(k, r, generated)
      /\ num_temps \in Nat /\ num_temps >= Static /\ Len(lowered) \in Nat
      /\ DOMAIN lowered = 1..Len(lowered)
  BY SeqMembers DEF Converts, Counted
<1>2. b \in Nat BY <1>1
<1>3. /\ DOMAIN lowered' = 1..b + 1 /\ lowered'[b + 1] = r
      /\ \A i \in 1..b : i \in DOMAIN lowered /\ lowered'[i] = lowered[i]
      /\ num_temps' = m
  BY <1>1 DEF Adds
<1>4. \A i \in 1..k : b + i \in DOMAIN lowered /\ Children(k)[i] = lowered[b + i] /\ b + i > b
  BY <1>1, <1>2, LastResults DEF Lasts
<1> HIDE DEF b
<1>5. \A i \in DOMAIN lowered : Tidy(lowered[i]) /\ Mentions(lowered[i]) \subseteq 0..n
  BY DEF TidyResults
<1>6. Gathered(k) \subseteq 0..n BY <1>4, <1>5 DEF Gathered
<1>7. Tidy(r) /\ Mentions(r) \subseteq Gathered(k) \cup (n + 1..m) \cup Low BY DEF Fits
<1>8. Mentions(r) \subseteq 0..m
  <2>1. 0..n \subseteq 0..m /\ n + 1..m \subseteq 0..m /\ Low \subseteq 0..m
    BY <1>1 DEF Low, Static
  <2> QED BY <1>6, <1>7, <2>1
<1>9. 0..n \subseteq 0..m BY <1>1
<1> HIDE DEF n, m
<1>10. ASSUME NEW i \in 1..b PROVE Mentions(lowered[i]) \cap Mentions(r) \subseteq Low
  <2>1. i \in DOMAIN lowered BY <1>3
  <2>2. Mentions(lowered[i]) \cap Gathered(k) \subseteq Low
    <3>1. ASSUME NEW j \in 1..k
          PROVE  Mentions(lowered[i]) \cap Mentions(Children(k)[j]) \subseteq Low
      <4>1. i # b + j BY <1>2, <1>4
      <4> QED BY <1>4, <2>1, <4>1 DEF Apart
    <3> QED BY <3>1 DEF Gathered
  <2>3. Mentions(lowered[i]) \subseteq 0..n BY <1>5, <2>1
  <2>4. 0..n \cap (n + 1..m) = {} BY <1>1 DEF n
  <2> QED BY <1>7, <2>2, <2>3, <2>4
<1>11. TidyResults'
  <2>1. ASSUME NEW i \in 1..b + 1
        PROVE  Tidy(lowered'[i]) /\ Mentions(lowered'[i]) \subseteq 0..num_temps'
    <3>1. CASE i = b + 1 BY <1>3, <1>7, <1>8, <3>1
    <3>2. CASE i # b + 1
      <4>1. i \in 1..b BY <1>2, <3>2
      <4> QED BY <1>3, <1>5, <1>9, <4>1
    <3> QED BY <3>1, <3>2
  <2> QED BY <1>3, <2>1 DEF TidyResults
<1>12. Apart'
  <2>1. ASSUME NEW i \in 1..b + 1, NEW j \in 1..b + 1, i # j
        PROVE  Mentions(lowered'[i]) \cap Mentions(lowered'[j]) \subseteq Low
    <3>1. CASE i = b + 1
      <4>1. j \in 1..b BY <1>2, <2>1, <3>1
      <4> QED BY <1>3, <1>10, <3>1, <4>1
    <3>2. CASE j = b + 1
      <4>1. i \in 1..b BY <1>2, <2>1, <3>2
      <4> QED BY <1>3, <1>10, <3>2, <4>1
    <3>3. CASE i # b + 1 /\ j # b + 1
      <4>1. i \in 1..b /\ j \in 1..b BY <1>2, <3>3
      <4> QED BY <1>3, <2>1, <4>1 DEF Apart
    <3> QED BY <3>1, <3>2, <3>3
  <2> QED BY <1>3, <2>1 DEF Apart
<1> QED BY <1>11, <1>12

(* The results a conversion takes.                                          *)
LEMMA TidyTaken ==
  ASSUME Counted, TidyResults, Apart, NEW k \in Nat, k <= Len(lowered)
  PROVE  /\ \A i \in 1..k : /\ Tidy(Children(k)[i])
                            /\ Mentions(Children(k)[i]) \subseteq 0..num_temps
                            /\ Mentions(Children(k)[i]) \subseteq Gathered(k)
         /\ \A i, j \in 1..k : i # j =>
              Mentions(Children(k)[i]) \cap Mentions(Children(k)[j]) \subseteq Low
<1>1. DOMAIN lowered = 1..Len(lowered) /\ Len(lowered) \in Nat BY SeqMembers DEF Counted
<1>2. \A i \in 1..k : /\ Len(lowered) - k + i \in DOMAIN lowered
                      /\ Children(k)[i] = lowered[Len(lowered) - k + i]
  BY <1>1, LastResults DEF Lasts
<1>3. \A i \in 1..k : /\ Tidy(Children(k)[i])
                      /\ Mentions(Children(k)[i]) \subseteq 0..num_temps
                      /\ Mentions(Children(k)[i]) \subseteq Gathered(k)
  BY <1>2 DEF TidyResults, Gathered
<1>4. ASSUME NEW i \in 1..k, NEW j \in 1..k, i # j
      PROVE  Mentions(Children(k)[i]) \cap Mentions(Children(k)[j]) \subseteq Low
  <2>1. Len(lowered) - k + i # Len(lowered) - k + j BY <1>1, <1>4
  <2> QED BY <1>2, <2>1 DEF Apart
<1> QED BY <1>3, <1>4


\* What a result may mention.
Room(k, generated) == Gathered(k) \cup (num_temps + 1..num_temps + generated) \cup Low

(* The result for an expression.                                            *)
LEMMA ExpressionFits ==
  ASSUME NEW k, NEW generated, NEW x, NEW q, Neat(q), Names(q) \subseteq Room(k, generated),
         NEW e, NEW names, IsValue(e, names), names \subseteq Room(k, generated)
  PROVE  Fits(k, Result(x, q, e), generated)
<1> DEFINE r == Result(x, q, e)
<1>1. r.statements = q /\ r.expression = e BY DEF Result
<1> HIDE DEF r
<1>2. Reads(e) = names BY DEF IsValue
<1>3. Tidy(r) BY <1>1, <1>2 DEF Tidy
<1>4. Mentions(r) \subseteq Room(k, generated) BY <1>1, <1>2 DEF Mentions
<1> QED BY <1>3, <1>4 DEF Fits, Room, r

(* The result for a statement.                                              *)
LEMMA StatementsFit ==
  ASSUME NEW k, NEW generated, NEW x, NEW q, Neat(q), Names(q) \subseteq Room(k, generated)
  PROVE  Fits(k, Result(x, q, Nothing), generated)
<1> DEFINE r == Result(x, q, Nothing)
<1>1. r.statements = q /\ r.expression = Nothing BY DEF Result
<1> HIDE DEF r
<1>2. ~IsExpression(r) BY <1>1 DEF IsExpression
<1>3. Tidy(r) BY <1>1, <1>2 DEF Tidy
<1>4. Mentions(r) \subseteq Room(k, generated) BY <1>1, <1>2 DEF Mentions
<1> QED BY <1>3, <1>4 DEF Fits, Room, r

\* The invariant: each result is a lowering of its tree, and a generated
\* temporary belongs to one result.
AllSound == Counted /\ SoundResults /\ TidyResults /\ Apart
StayTidy == TidyResults' /\ Apart'

(* A temporary or a static field.                                           *)
LEMMA LeafTidy ==
  ASSUME AllSound, NEW e \in {Temp(Local), Global(Static)}, ConvertLeaf(e)
  PROVE  StayTidy
<1> DEFINE r == Result(e, <<>>, e)
<1>1. Converts(0, r, 0) BY ConvertsLeaf DEF AllSound
<1>2. \E names : IsValue(e, names) /\ names \subseteq Low
  <2>1. CASE e = Temp(Local)
    <3>1. IsValue(e, {Local}) /\ {Local} \subseteq Low
      BY <2>1, TempNames DEF Low, Local, Static
    <3> QED BY <3>1
  <2>2. CASE e = Global(Static)
    <3>1. IsValue(e, {}) BY <2>2, GlobalNames DEF Static
    <3> QED BY <3>1
  <2> QED BY <2>1, <2>2
<1>3. PICK names : IsValue(e, names) /\ names \subseteq Low BY <1>2
<1>4. Fits(0, r, 0)
  <2>1. names \subseteq Room(0, 0) /\ Names(<<>>) \subseteq Room(0, 0) BY <1>3, NeatEmpty DEF Room
  <2> QED BY <1>3, <2>1, NeatEmpty, ExpressionFits
<1> HIDE DEF r
<1> QED BY <1>1, <1>4, TidyAdded DEF AllSound, StayTidy

(* An operator, whose left side is saved into a new temporary.              *)
LEMMA BinOpTidy ==
  ASSUME AllSound, NEW op \in {"add", "div"}, ConvertBinOp(op)
  PROVE  StayTidy
<1> DEFINE a == Children(2)[1]
           c == Children(2)[2]
           m == num_temps + 1
           x == BinOp(op, a.tree, c.tree)
           i == Into(a, m)
           b == c.statements
           q == i \o b
           n == Reads(c.expression)
           e == BinOp(op, Temp(m), c.expression)
           r == Result(x, q, e)
<1>1. Converts(2, r, 1) /\ IsExpression(a) /\ IsExpression(c)
  BY ConvertsBinOp DEF AllSound, Into
<1>2. 2 <= Len(lowered) /\ num_temps \in Nat /\ num_temps >= Static
  BY <1>1 DEF Converts, AllSound, Counted
<1>3. /\ Tidy(a) /\ Mentions(a) \subseteq 0..num_temps /\ Mentions(a) \subseteq Gathered(2)
      /\ Tidy(c) /\ Mentions(c) \subseteq 0..num_temps /\ Mentions(c) \subseteq Gathered(2)
      /\ Mentions(a) \cap Mentions(c) \subseteq Low
  BY <1>2, TidyTaken DEF AllSound
<1> HIDE DEF a, c
<1>4. m \in Nat /\ m \notin 0..num_temps /\ m \in num_temps + 1..num_temps + 1 BY <1>2
<1> HIDE DEF m, x
<1>5. Neat(i) /\ Names(i) = Mentions(a) \cup {m} BY <1>1, <1>3, <1>4, IntoNames
<1>6. Neat(b) /\ Mentions(c) = Names(b) \cup n /\ IsValue(c.expression, n)
  BY <1>1, <1>3 DEF Tidy, Mentions
<1>7. op \in Operators BY DEF Operators, Dividing
<1> HIDE DEF i, b, n
<1>8. Written(b) \cap Names(i) \subseteq Low BY <1>3, <1>4, <1>5, <1>6, WrittenNamed
<1>9. Follow(i, b) BY <1>5, <1>6, <1>8, NeatConcat
<1>10. Neat(q) /\ Names(q) = Names(i) \cup Names(b) BY <1>9 DEF Follow
<1>11. IsValue(Temp(m), {m}) BY <1>4, TempNames
<1>12. IsValue(e, {m} \cup n) BY <1>6, <1>7, <1>11, BinOpNames
<1>13. {m} \cup Mentions(a) \cup Mentions(c) \subseteq Room(2, 1) BY <1>3, <1>4 DEF Room
<1> HIDE DEF q, e
<1>14. Fits(2, r, 1)
  <2>1. Names(q) \subseteq Room(2, 1) /\ {m} \cup n \subseteq Room(2, 1)
    BY <1>5, <1>6, <1>10, <1>13
  <2> QED BY <1>10, <1>12, <2>1, ExpressionFits
<1> HIDE DEF r
<1> QED BY <1>1, <1>14, TidyAdded DEF AllSound, StayTidy

(* A word of memory.                                                        *)
LEMMA MemTidy ==
  ASSUME AllSound, ConvertMem
  PROVE  StayTidy
<1> DEFINE a == Children(1)[1]
           x == Mem(a.tree)
           q == a.statements
           n == Reads(a.expression)
           e == Mem(a.expression)
           r == Result(x, q, e)
<1>1. Converts(1, r, 0) /\ IsExpression(a) BY ConvertsMem DEF AllSound
<1>2. 1 <= Len(lowered) BY <1>1 DEF Converts
<1>3. Tidy(a) /\ Mentions(a) \subseteq Gathered(1) BY <1>2, TidyTaken DEF AllSound
<1> HIDE DEF a, x
<1>4. Neat(q) /\ Mentions(a) = Names(q) \cup n /\ IsValue(a.expression, n)
  BY <1>1, <1>3 DEF Tidy, Mentions
<1> HIDE DEF q, n
<1>5. IsValue(e, n) BY <1>4, MemNames
<1>6. Names(q) \subseteq Room(1, 0) /\ n \subseteq Room(1, 0) BY <1>3, <1>4 DEF Room
<1> HIDE DEF e
<1>7. Fits(1, r, 0) BY <1>4, <1>5, <1>6, ExpressionFits
<1> HIDE DEF r
<1> QED BY <1>1, <1>7, TidyAdded DEF AllSound, StayTidy

(* A statement before an expression.                                        *)
LEMMA ESeqTidy ==
  ASSUME AllSound, ConvertESeq
  PROVE  StayTidy
<1> DEFINE a == Children(2)[1]
           c == Children(2)[2]
           x == Node("eseq", 0, <<a.tree, c.tree>>)
           i == a.statements
           b == c.statements
           q == i \o b
           e == c.expression
           n == Reads(e)
           r == Result(x, q, e)
<1>1. Converts(2, r, 0) /\ ~IsExpression(a) /\ IsExpression(c) BY ConvertsESeq DEF AllSound
<1>2. 2 <= Len(lowered) BY <1>1 DEF Converts
<1>3. /\ Tidy(a) /\ Mentions(a) \subseteq Gathered(2)
      /\ Tidy(c) /\ Mentions(c) \subseteq Gathered(2)
      /\ Mentions(a) \cap Mentions(c) \subseteq Low
  BY <1>2, TidyTaken DEF AllSound
<1> HIDE DEF a, c, x
<1>4. Neat(i) /\ Mentions(a) = Names(i) BY <1>1, <1>3 DEF Tidy, Mentions
<1>5. Neat(b) /\ Mentions(c) = Names(b) \cup n /\ IsValue(e, n) BY <1>1, <1>3 DEF Tidy, Mentions
<1> HIDE DEF i, b, n, e
<1>6. Written(b) \cap Names(i) \subseteq Low BY <1>3, <1>4, <1>5, WrittenNamed
<1>7. Follow(i, b) BY <1>4, <1>5, <1>6, NeatConcat
<1>8. Neat(q) /\ Names(q) = Names(i) \cup Names(b) BY <1>7 DEF Follow
<1>9. Mentions(a) \cup Mentions(c) \subseteq Room(2, 0) BY <1>3 DEF Room
<1> HIDE DEF q
<1>10. Fits(2, r, 0)
  <2>1. Names(q) \subseteq Room(2, 0) /\ n \subseteq Room(2, 0) BY <1>4, <1>5, <1>8, <1>9
  <2> QED BY <1>5, <1>8, <2>1, ExpressionFits
<1> HIDE DEF r
<1> QED BY <1>1, <1>10, TidyAdded DEF AllSound, StayTidy

\* A statement after others, which writes no generated temporary.
LEMMA LastStatement ==
  ASSUME NEW q, Neat(q), NEW x, NEW names, NEW written, IsStatement(x, names, written),
         written \subseteq Low, written \subseteq names
  PROVE  Neat(q \o <<x>>) /\ Names(q \o <<x>>) = Names(q) \cup names
<1> DEFINE b == <<x>>
<1>1. Neat(b) /\ Names(b) = names /\ Written(b) = written BY NeatOne
<1> HIDE DEF b
<1>2. Written(b) \cap Names(q) \subseteq Low BY <1>1
<1>3. Follow(q, b) BY <1>1, <1>2, NeatConcat
<1>4. Neat(q \o b) /\ Names(q \o b) = Names(q) \cup Names(b) BY <1>3 DEF Follow
<1> QED BY <1>1, <1>4 DEF b

(* A move to a temporary of the program or a static field.                  *)
LEMMA MoveToTempTidy ==
  ASSUME AllSound, NEW target \in Targets, ConvertMoveToTemp(target)
  PROVE  StayTidy
<1> DEFINE a == Children(1)[1]
           x == Move(target, a.tree)
           i == a.statements
           e == a.expression
           y == Move(target, e)
           q == i \o <<y>>
           n == Reads(e)
           r == Result(x, q, Nothing)
<1>1. Converts(1, r, 0) /\ IsExpression(a) BY ConvertsMoveToTemp DEF AllSound
<1>2. 1 <= Len(lowered) BY <1>1 DEF Converts
<1>3. Tidy(a) /\ Mentions(a) \subseteq Gathered(1) BY <1>2, TidyTaken DEF AllSound
<1> HIDE DEF a, x
<1>4. Neat(i) /\ Mentions(a) = Names(i) \cup n /\ IsValue(e, n) BY <1>1, <1>3 DEF Tidy, Mentions
<1>5. \E names : /\ IsValue(target, names) /\ names \subseteq Low
                 /\ (target.op = "temp" => target.name \in names)
  <2>1. CASE target = Temp(Local)
    <3>1. IsValue(target, {Local}) /\ {Local} \subseteq Low /\ target.name = Local
      BY <2>1, TempNames DEF Low, Local, Static, Temp, Node
    <3> QED BY <3>1
  <2>2. CASE target = Global(Static)
    <3>1. IsValue(target, {}) BY <2>2, GlobalNames DEF Static
    <3>2. target.op = "global" BY <2>2 DEF Global, Node
    <3> QED BY <3>1, <3>2
  <2> QED BY <2>1, <2>2 DEF Targets
<1>6. PICK names : /\ IsValue(target, names) /\ names \subseteq Low
                   /\ (target.op = "temp" => target.name \in names)
  BY <1>5
<1> HIDE DEF i, e, n
<1> DEFINE w == Writes(y)
           others == names \cup n
<1>7. IsStatement(y, others, w) /\ w = (IF target.op = "temp" THEN {target.name} ELSE {})
  BY <1>4, <1>6, MoveNames
<1>8. w \subseteq Low /\ w \subseteq others BY <1>6, <1>7
<1>9. others \subseteq Mentions(a) \cup Low BY <1>4, <1>6
<1> HIDE DEF y, w, others
<1>10. Neat(q) /\ Names(q) = Names(i) \cup others BY <1>4, <1>7, <1>8, LastStatement
<1> HIDE DEF q
<1>11. Names(q) \subseteq Room(1, 0) BY <1>3, <1>4, <1>9, <1>10 DEF Room
<1>12. Fits(1, r, 0) BY <1>10, <1>11, StatementsFit
<1> HIDE DEF r
<1> QED BY <1>1, <1>12, TidyAdded DEF AllSound, StayTidy

(* A move to memory, whose address is saved into a new temporary.           *)
LEMMA MoveToMemTidy ==
  ASSUME AllSound, ConvertMoveToMem
  PROVE  StayTidy
<1> DEFINE a == Children(2)[1]
           c == Children(2)[2]
           m == num_temps + 1
           x == Move(Mem(a.tree), c.tree)
           i == Into(a, m)
           b == c.statements
           p == i \o b
           n == Reads(c.expression)
           t == Mem(Temp(m))
           y == Move(t, c.expression)
           q == p \o <<y>>
           r == Result(x, q, Nothing)
<1>1. Converts(2, r, 1) /\ IsExpression(a) /\ IsExpression(c)
  BY ConvertsMoveToMem DEF AllSound, Into
<1>2. 2 <= Len(lowered) /\ num_temps \in Nat /\ num_temps >= Static
  BY <1>1 DEF Converts, AllSound, Counted
<1>3. /\ Tidy(a) /\ Mentions(a) \subseteq 0..num_temps /\ Mentions(a) \subseteq Gathered(2)
      /\ Tidy(c) /\ Mentions(c) \subseteq 0..num_temps /\ Mentions(c) \subseteq Gathered(2)
      /\ Mentions(a) \cap Mentions(c) \subseteq Low
  BY <1>2, TidyTaken DEF AllSound
<1> HIDE DEF a, c
<1>4. m \in Nat /\ m \notin 0..num_temps /\ m \in num_temps + 1..num_temps + 1 BY <1>2
<1> HIDE DEF m, x
<1>5. Neat(i) /\ Names(i) = Mentions(a) \cup {m} BY <1>1, <1>3, <1>4, IntoNames
<1>6. Neat(b) /\ Mentions(c) = Names(b) \cup n /\ IsValue(c.expression, n)
  BY <1>1, <1>3 DEF Tidy, Mentions
<1> HIDE DEF i, b, n
<1>8. Written(b) \cap Names(i) \subseteq Low BY <1>3, <1>4, <1>5, <1>6, WrittenNamed
<1>9. Follow(i, b) BY <1>5, <1>6, <1>8, NeatConcat
<1>10. Neat(p) /\ Names(p) = Names(i) \cup Names(b) BY <1>9 DEF Follow
<1>11. IsValue(t, {m}) BY <1>4, TempNames, MemNames
<1>12. t.op = "mem" BY DEF Mem, Node
<1> DEFINE w == Writes(y)
           others == {m} \cup n
<1> HIDE DEF p, t
<1>13. IsStatement(y, others, w) /\ w = (IF t.op = "temp" THEN {t.name} ELSE {})
  BY <1>6, <1>11, MoveNames
<1>14. w = {} BY <1>12, <1>13
<1>15. {m} \cup Mentions(a) \cup Mentions(c) \subseteq Room(2, 1) BY <1>3, <1>4 DEF Room
<1>16. Names(p) \cup others \subseteq Room(2, 1) BY <1>5, <1>6, <1>10, <1>15
<1> HIDE DEF y, w, others
<1>17. Neat(q) /\ Names(q) = Names(p) \cup others BY <1>10, <1>13, <1>14, LastStatement
<1> HIDE DEF q
<1>18. Fits(2, r, 1) BY <1>16, <1>17, StatementsFit
<1> HIDE DEF r
<1> QED BY <1>1, <1>18, TidyAdded DEF AllSound, StayTidy

(* A value that is not used.                                                *)
LEMMA ExpTidy ==
  ASSUME AllSound, ConvertExp
  PROVE  StayTidy
<1> DEFINE a == Children(1)[1]
           x == Node("exp", 0, <<a.tree>>)
           q == a.statements
           r == Result(x, q, Nothing)
<1>1. Converts(1, r, 0) BY ConvertsExp DEF AllSound
<1>2. 1 <= Len(lowered) BY <1>1 DEF Converts
<1>3. Tidy(a) /\ Mentions(a) \subseteq Gathered(1) BY <1>2, TidyTaken DEF AllSound
<1> HIDE DEF a, x
<1>4. Neat(q) /\ Names(q) \subseteq Mentions(a) BY <1>3 DEF Tidy, Mentions
<1> HIDE DEF q
<1>5. Names(q) \subseteq Room(1, 0) BY <1>3, <1>4 DEF Room
<1>6. Fits(1, r, 0) BY <1>4, <1>5, StatementsFit
<1> HIDE DEF r
<1> QED BY <1>1, <1>6, TidyAdded DEF AllSound, StayTidy

(* A conditional jump or a return.                                          *)
LEMMA JumpTidy ==
  ASSUME AllSound, NEW op \in {"cjump", "return"}, ConvertJump(op)
  PROVE  StayTidy
<1> DEFINE a == Children(1)[1]
           x == Node(op, 0, <<a.tree>>)
           i == a.statements
           e == a.expression
           y == Node(op, 0, <<e>>)
           q == i \o <<y>>
           n == Reads(e)
           r == Result(x, q, Nothing)
<1>1. Converts(1, r, 0) /\ IsExpression(a) BY ConvertsJump DEF AllSound
<1>2. 1 <= Len(lowered) BY <1>1 DEF Converts
<1>3. Tidy(a) /\ Mentions(a) \subseteq Gathered(1) BY <1>2, TidyTaken DEF AllSound
<1> HIDE DEF a, x
<1>4. Neat(i) /\ Mentions(a) = Names(i) \cup n /\ IsValue(e, n) BY <1>1, <1>3 DEF Tidy, Mentions
<1> HIDE DEF i, e, n
<1>5. IsStatement(y, n, {}) BY <1>4, JumpNames
<1> HIDE DEF y
<1>6. Neat(q) /\ Names(q) = Names(i) \cup n BY <1>4, <1>5, LastStatement
<1> HIDE DEF q
<1>7. Names(q) \subseteq Room(1, 0) BY <1>3, <1>4, <1>6 DEF Room
<1>8. Fits(1, r, 0) BY <1>6, <1>7, StatementsFit
<1> HIDE DEF r
<1> QED BY <1>1, <1>8, TidyAdded DEF AllSound, StayTidy

(* A label.                                                                 *)
LEMMA LabelTidy ==
  ASSUME AllSound, ConvertLabel
  PROVE  StayTidy
<1> DEFINE x == Node("label", 0, <<>>)
           q == <<x>>
           r == Result(x, q, Nothing)
<1>1. Converts(0, r, 0) BY ConvertsLabel DEF AllSound
<1>2. IsStatement(x, {}, {}) BY LabelNames
<1> HIDE DEF x
<1>3. Neat(q) /\ Names(q) = {} BY <1>2, NeatOne
<1> HIDE DEF q
<1>4. Names(q) \subseteq Room(0, 0) BY <1>3
<1>5. Fits(0, r, 0) BY <1>3, <1>4, StatementsFit
<1> HIDE DEF r
<1> QED BY <1>1, <1>5, TidyAdded DEF AllSound, StayTidy

(* Statements one after another.                                            *)
LEMMA SeqTidy ==
  ASSUME AllSound, NEW k \in Nat, ConvertSeq(k)
  PROVE  StayTidy
<1> DEFINE c == Children(k)
           x == Node("seq", 0, TreesOf(c))
           z == StatementsOf(c)
           q == FlattenSeq(z)
           r == Result(x, q, Nothing)
           L == {z[i] : i \in DOMAIN z}
<1>1. Converts(k, r, 0) /\ \A i \in 1..k : ~IsExpression(c[i]) BY ConvertsSeq DEF AllSound
<1>2. k <= Len(lowered) BY <1>1 DEF Converts
<1>3. /\ \A i \in 1..k : Tidy(c[i]) /\ Mentions(c[i]) \subseteq Gathered(k)
      /\ \A i, j \in 1..k : i # j => Mentions(c[i]) \cap Mentions(c[j]) \subseteq Low
  BY <1>2, TidyTaken DEF AllSound
<1>4. DOMAIN c = 1..k BY <1>2, LastResults DEF Lasts, AllSound
<1>5. z = [i \in 1..k |-> c[i].statements] BY <1>4 DEF StatementsOf
<1> HIDE DEF c, x, z
<1>6. DOMAIN z = 1..k /\ \A i \in 1..k : z[i] = c[i].statements BY <1>5
<1>7. \A i \in 1..k : Neat(z[i]) /\ Names(z[i]) \subseteq Mentions(c[i])
  BY <1>3, <1>6 DEF Tidy, Mentions
<1>8. \A a \in L : IsList(a) BY <1>6, <1>7 DEF Neat
<1>9. z \in Seq(L)
  <2>1. IsTuple(z, k) BY <1>5 DEF IsTuple
  <2>2. \A i \in 1..k : z[i] \in L BY <1>6
  <2> HIDE DEF L
  <2> QED BY <2>1, <2>2, TupleType
<1> HIDE DEF L
<1>10. Separate(z) BY <1>3, <1>6, <1>7 DEF Separate
<1>11. Flattens(z) BY <1>8, <1>9, <1>10, NeatFlatten
<1>12. AllNames(z) \subseteq Gathered(k) BY <1>3, <1>6, <1>7 DEF AllNames
<1>13. Neat(q) /\ Names(q) \subseteq AllNames(z) BY <1>11 DEF Flattens
<1> HIDE DEF q
<1>14. Names(q) \subseteq Room(k, 0) BY <1>12, <1>13 DEF Room
<1>15. Fits(k, r, 0) BY <1>13, <1>14, StatementsFit
<1> HIDE DEF r
<1> QED BY <1>1, <1>15, TidyAdded DEF AllSound, StayTidy

\* The arguments of a call, computed into temporaries.
PassedNeatly(c, k) ==
  LET f == FlattenSeq(IntosOf(c, num_temps))
  IN  Neat(f) /\ Names(f) \subseteq Gathered(k) \cup num_temps + 1..num_temps + k

(* The arguments go into new temporaries, one each.                         *)
LEMMA ArgumentsTidy ==
  ASSUME AllSound, NEW k \in Nat, k <= Len(lowered), \A i \in 1..k : IsExpression(Children(k)[i])
  PROVE  PassedNeatly(Children(k), k)
<1> DEFINE c == Children(k)
           n == num_temps
           z == IntosOf(c, n)
           L == {z[i] : i \in DOMAIN z}
           G == Gathered(k)
<1>1. /\ \A i \in 1..k : Tidy(c[i]) /\ Mentions(c[i]) \subseteq 0..n /\ Mentions(c[i]) \subseteq G
      /\ \A i, j \in 1..k : i # j => Mentions(c[i]) \cap Mentions(c[j]) \subseteq Low
  BY TidyTaken DEF AllSound
<1>2. DOMAIN c = 1..k BY LastResults DEF Lasts, AllSound
<1>3. z = [i \in 1..k |-> Into(c[i], n + i)] BY <1>2 DEF IntosOf
<1>4. n \in Nat BY DEF AllSound, Counted
<1>5. \A i \in 1..k : IsExpression(c[i]) OBVIOUS
<1> HIDE DEF c, z, n, G
<1>6. DOMAIN z = 1..k /\ \A i \in 1..k : z[i] = Into(c[i], n + i) BY <1>3
<1>7. ASSUME NEW i \in 1..k
      PROVE  Neat(z[i]) /\ Names(z[i]) = Mentions(c[i]) \cup {n + i}
  <2>1. n + i \in Nat /\ n + i \notin 0..n BY <1>4
  <2>2. n + i \notin Mentions(c[i]) BY <1>1, <2>1
  <2> QED BY <1>1, <1>5, <1>6, <2>1, <2>2, IntoNames
<1>8. \A a \in L : IsList(a) BY <1>6, <1>7 DEF Neat
<1>9. z \in Seq(L)
  <2>1. IsTuple(z, k) BY <1>3 DEF IsTuple
  <2>2. \A i \in 1..k : z[i] \in L BY <1>6
  <2> HIDE DEF L
  <2> QED BY <2>1, <2>2, TupleType
<1> HIDE DEF L
<1>10. Separate(z)
  <2>1. ASSUME NEW i \in 1..k, NEW j \in 1..k, i # j
        PROVE  Names(z[i]) \cap Names(z[j]) \subseteq Low
    <3>1. n + i \notin 0..n /\ n + j \notin 0..n /\ n + i # n + j BY <1>4, <2>1
    <3>2. n + i \notin Mentions(c[j]) /\ n + j \notin Mentions(c[i]) BY <1>1, <3>1
    <3>3. Mentions(c[i]) \cap Mentions(c[j]) \subseteq Low BY <1>1, <2>1
    <3> QED BY <1>7, <3>1, <3>2, <3>3
  <2> QED BY <1>6, <1>7, <2>1 DEF Separate
<1>11. Flattens(z) BY <1>8, <1>9, <1>10, NeatFlatten
<1>12. AllNames(z) \subseteq G \cup n + 1..n + k
  <2>1. \A i \in 1..k : n + i \in n + 1..n + k BY <1>4
  <2> QED BY <1>1, <1>6, <1>7, <2>1 DEF AllNames
<1>13. Neat(FlattenSeq(z)) /\ Names(FlattenSeq(z)) \subseteq AllNames(z) BY <1>11 DEF Flattens
<1>14. Names(FlattenSeq(z)) \subseteq G \cup n + 1..n + k BY <1>12, <1>13
<1> QED BY <1>13, <1>14 DEF PassedNeatly, z, n, G, c

\* What is returned is in a temporary of its own, which is not generated.
LEMMA RetNames == IsValue(Temp(Ret), {Ret}) /\ {Ret} \subseteq Low
<1>1. Ret \in Nat /\ Ret \in Low BY DEF Ret, Low, Static
<1> QED BY <1>1, TempNames

(* A call.                                                                  *)
LEMMA CallTidy ==
  ASSUME AllSound, NEW k \in Nat, ConvertCall(k)
  PROVE  StayTidy
<1> DEFINE c == Children(k)
           n == num_temps
           x == Node("call", 0, TreesOf(c))
           f == FlattenSeq(IntosOf(c, n))
           y == Node("call", 0, Args(n, k))
           q == f \o <<y>>
           e == Temp(Ret)
           r == Result(x, q, e)
           w == Reads(y)
<1>1. Converts(k, r, k) /\ \A i \in 1..k : IsExpression(c[i]) BY ConvertsCall DEF AllSound
<1>2. k <= Len(lowered) /\ n \in Nat BY <1>1 DEF Converts, AllSound, Counted
<1>3. Neat(f) /\ Names(f) \subseteq Gathered(k) \cup n + 1..n + k
  BY <1>1, <1>2, ArgumentsTidy DEF PassedNeatly
<1>4. IsStatement(y, w, {}) /\ w \subseteq n + 1..n + k BY <1>2, CallNames
<1> HIDE DEF f, y, w, x
<1>5. Neat(q) /\ Names(q) = Names(f) \cup w BY <1>3, <1>4, LastStatement
<1>6. IsValue(e, {Ret}) /\ {Ret} \subseteq Low BY RetNames
<1> HIDE DEF q, e
<1>7. Names(q) \subseteq Room(k, k) /\ {Ret} \subseteq Room(k, k) BY <1>3, <1>4, <1>5, <1>6 DEF Room
<1>8. Fits(k, r, k) BY <1>5, <1>6, <1>7, ExpressionFits
<1> HIDE DEF r
<1> QED BY <1>1, <1>8, TidyAdded DEF AllSound, StayTidy

(* A call through a vector.                                                 *)
LEMMA VirtualTidy ==
  ASSUME AllSound, NEW k \in Nat, ConvertVirtualCall(k)
  PROVE  StayTidy
<1> DEFINE c == Children(k)
           t == Children(k + 1)[1]
           n == num_temps
           x == Node("virtual", 0, <<t.tree>> \o TreesOf(c))
           f == FlattenSeq(IntosOf(c, n))
           b == t.statements
           p == f \o b
           d == t.expression
           y == Node("virtual", 0, <<d>> \o Args(n, k))
           q == p \o <<y>>
           e == Temp(Ret)
           r == Result(x, q, e)
           m == Reads(d)
           w == Reads(y)
           G == Gathered(k + 1)
<1>1. Converts(k + 1, r, k) /\ IsExpression(t) /\ \A i \in 1..k : IsExpression(c[i])
  BY ConvertsVirtualCall DEF AllSound
<1>2. /\ k + 1 <= Len(lowered) /\ n \in Nat /\ Len(lowered) \in Nat /\ k + 1 \in Nat
      /\ k <= Len(lowered) /\ 1 \in 1..k + 1
      /\ \A i \in 1..k : i + 1 \in 1..k + 1 /\ i + 1 # 1
  <2>1. Len(lowered) \in Nat BY SeqMembers DEF AllSound, Counted
  <2> QED BY <1>1, <2>1 DEF Converts, AllSound, Counted
<1>3. Neat(f) /\ Names(f) \subseteq Gathered(k) \cup n + 1..n + k
  BY <1>1, <1>2, ArgumentsTidy DEF PassedNeatly
<1>4. \A i \in 1..k : Children(k + 1)[i + 1] = c[i] BY <1>2, TargetFirst DEF AllSound
<1>5. Tidy(t) /\ Mentions(t) \subseteq 0..n /\ Mentions(t) \subseteq G
  BY <1>2, TidyTaken DEF AllSound
<1>6. Gathered(k) \subseteq G
  <2>1. \A i \in 1..k : Mentions(c[i]) \subseteq G BY <1>2, <1>4, TidyTaken DEF AllSound
  <2> HIDE DEF G
  <2> QED BY <2>1 DEF Gathered
<1>7. Mentions(t) \cap Gathered(k) \subseteq Low
  <2>1. \A i, j \in 1..k + 1 :
          i # j => Mentions(Children(k + 1)[i]) \cap Mentions(Children(k + 1)[j]) \subseteq Low
    BY <1>2, TidyTaken DEF AllSound
  <2>2. \A i \in 1..k : Mentions(t) \cap Mentions(c[i]) \subseteq Low
    BY <1>2, <1>4, <2>1
  <2> HIDE DEF t
  <2> QED BY <2>2 DEF Gathered
<1>8. Neat(b) /\ Mentions(t) = Names(b) \cup m /\ IsValue(d, m)
  BY <1>1, <1>5 DEF Tidy, Mentions
<1> HIDE DEF f, b, m, d, t, x, G
<1>9. Written(b) \cap Names(f) \subseteq Low
  <2>1. Written(b) \subseteq Mentions(t) BY <1>8, WrittenNamed
  <2>2. 0..n \cap (n + 1..n + k) = {} BY <1>2
  <2> QED BY <1>3, <1>5, <1>7, <2>1, <2>2
<1>10. Follow(f, b) BY <1>3, <1>8, <1>9, NeatConcat
<1>11. Neat(p) /\ Names(p) = Names(f) \cup Names(b) BY <1>10 DEF Follow
<1>12. IsStatement(y, w, {}) /\ w \subseteq m \cup n + 1..n + k BY <1>2, <1>8, VirtualNames
<1> HIDE DEF y, w, p
<1>13. Neat(q) /\ Names(q) = Names(p) \cup w BY <1>11, <1>12, LastStatement
<1>14. IsValue(e, {Ret}) /\ {Ret} \subseteq Low BY RetNames
<1> HIDE DEF q, e
<1>15. Names(q) \subseteq G \cup n + 1..n + k BY <1>3, <1>5, <1>6, <1>8, <1>11, <1>12, <1>13
<1>16. Names(q) \subseteq Room(k + 1, k) /\ {Ret} \subseteq Room(k + 1, k)
  BY <1>14, <1>15 DEF Room, G
<1>17. Fits(k + 1, r, k) BY <1>13, <1>14, <1>16, ExpressionFits
<1> HIDE DEF r
<1> QED BY <1>1, <1>17, TidyAdded DEF AllSound, StayTidy

----------------------------------------------------------------------------
\* Every conversion keeps the invariant.
LEMMA AllSoundNext ==
  ASSUME AllSound, [Next]_vars
  PROVE  AllSound'
<1>0. Counted' /\ SoundResults' BY SoundNext DEF AllSound
<1>a. SUFFICES StayTidy BY <1>0 DEF AllSound, StayTidy
<1>1. CASE UNCHANGED vars BY <1>1 DEF vars, AllSound, TidyResults, Apart, StayTidy
<1>2. ASSUME NEW e \in {Temp(Local), Global(Static)}, ConvertLeaf(e) PROVE StayTidy
  BY <1>2, LeafTidy
<1>3. ASSUME NEW e \in {Temp(Local), Global(Static)}, ConvertMoveToTemp(e) PROVE StayTidy
  <2>1. e \in Targets BY DEF Targets
  <2> QED BY <1>3, <2>1, MoveToTempTidy
<1>4. ASSUME NEW op \in {"add", "div"}, ConvertBinOp(op) PROVE StayTidy BY <1>4, BinOpTidy
<1>5. CASE ConvertMem BY <1>5, MemTidy
<1>6. ASSUME NEW k \in 0..MaxArguments, ConvertCall(k) PROVE StayTidy
  <2>1. k \in Nat OBVIOUS
  <2> QED BY <1>6, <2>1, CallTidy
<1>7. ASSUME NEW k \in 0..MaxArguments, ConvertVirtualCall(k) PROVE StayTidy
  <2>1. k \in Nat OBVIOUS
  <2> QED BY <1>7, <2>1, VirtualTidy
<1>8. CASE ConvertESeq BY <1>8, ESeqTidy
<1>9. CASE ConvertMoveToMem BY <1>9, MoveToMemTidy
<1>10. CASE ConvertExp BY <1>10, ExpTidy
<1>11. ASSUME NEW op \in {"cjump", "return"}, ConvertJump(op) PROVE StayTidy BY <1>11, JumpTidy
<1>12. CASE ConvertLabel BY <1>12, LabelTidy
<1>13. ASSUME NEW k \in 2..Len(lowered), ConvertSeq(k) PROVE StayTidy
  <2>1. k \in Nat OBVIOUS
  <2> QED BY <1>13, <2>1, SeqTidy
<1> QED BY <1>1, <1>2, <1>3, <1>4, <1>5, <1>6, <1>7, <1>8, <1>9, <1>10, <1>11, <1>12, <1>13
        DEF Next

(* There are no results at first.                                           *)
LEMMA AllSoundInitially ==
  ASSUME Init
  PROVE  AllSound
<1>1. Counted /\ SoundResults BY SoundInitially
<1> QED BY <1>1 DEF Init, AllSound, TidyResults, Apart

(* The form of the results is part of the invariant.                        *)
LEMMA CanonicalNow ==
  ASSUME AllSound
  PROVE  Canonical /\ GeneratedTempsSetOnce
<1>1. ASSUME NEW r \in Results PROVE Tidy(r)
  BY DEF Results, AllSound, TidyResults
<1>2. \A r \in Results : /\ IsExpression(r) => PureCode(r.expression.order)
                         /\ AreStatements(r.statements) /\ Once(r.statements)
  BY <1>1 DEF Tidy, IsValue, Neat
<1>3. Canonical BY <1>2 DEF Canonical, PureCode, AreStatements, IsStatement, Kinds
<1>4. GeneratedTempsSetOnce
  <2>1. \A t \in Static + 1..num_temps : t \notin Low BY DEF Low, Static
  <2> QED BY <1>2, <2>1 DEF GeneratedTempsSetOnce, Once
<1> QED BY <1>3, <1>4

(* The invariant: every result of convert not used yet means what its tree  *)
(* does, in every pair of states that agree, and the generated temporaries  *)
(* it mentions are no other result's.                                       *)
THEOREM ResultsAreSound == Spec => []AllSound
<1>1. Init => AllSound BY AllSoundInitially
<1>2. AllSound /\ [Next]_vars => AllSound' BY AllSoundNext
<1> QED BY <1>1, <1>2, PTL DEF Spec

(* Canonicalisation keeps the meaning of a function (SameMeaning), for      *)
(* bodies and calls of any size: the list does the calls, stores,           *)
(* divisions, jumps and labels of the tree in its order, with its values,   *)
(* and ends with its result.                                                *)
THEOREM LoweringKeepsMeaning == Spec => []SameMeaning
<1>1. AllSound => SameMeaning BY MeaningKept DEF AllSound
<1> QED BY <1>1, ResultsAreSound, PTL

(* What CanonicalChecker checks after every canonicalisation (Canonical)    *)
(* holds of every result, so check-canonical.cc never finds anything.       *)
THEOREM LoweringIsCanonical == Spec => []Canonical
<1>1. AllSound => Canonical BY CanonicalNow
<1> QED BY <1>1, ResultsAreSound, PTL

(* A generated temporary is written by one statement and read only after it *)
(* (GeneratedTempsSetOnce), so it has one interval.                         *)
THEOREM GeneratedTempsAreSetOnce == Spec => []GeneratedTempsSetOnce
<1>1. AllSound => GeneratedTempsSetOnce BY CanonicalNow
<1> QED BY <1>1, ResultsAreSound, PTL
=============================================================================
