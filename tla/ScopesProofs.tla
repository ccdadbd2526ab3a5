---------------------------- MODULE ScopesProofs ----------------------------
(***************************************************************************)
(* The local variables of every method body, whatever its names, its       *)
(* length and the depth of its blocks.                                     *)
(*                                                                         *)
(* A pass is a recursion over the items of the body, and its proof an      *)
(* induction along them. Nest says which scopes are open after each item,  *)
(* by the items alone. Tables says what the scopes hold that the           *)
(* environment builder has filled: each the declarations of its own block, *)
(* in order, and a key for every one. A pass starts with these tables and  *)
(* keeps them but for the keys its lookups add, so at item i it finds a    *)
(* name among all declarations of the blocks open there, later ones        *)
(* included. That it finds the right one is because no name is declared    *)
(* twice where both could be seen (Distinct). The positions compared by    *)
(* the check of forward references are of the outermost declarations, and  *)
(* in the order of the items but where DeclaredOutside says they are not.  *)
(***************************************************************************)
EXTENDS Scopes, SequenceTheorems, FiniteSetTheorems, WellFoundedInduction, TLAPS

-----------------------------------------------------------------------------
\* The scopes open after an item, and the number of scopes met.
Entered(s, item) ==
  IF item.op = "open"
  THEN [open |-> Append(s.open, s.met + 1), met |-> s.met + 1]
  ELSE IF item.op = "close" THEN [open |-> Front(s.open), met |-> s.met] ELSE s

Step(b, f, k) ==
  IF k = 0 THEN [open |-> <<1>>, met |-> 1] ELSE Entered(f[k - 1], b[k])
Nest(b) == CHOOSE f : f = [k \in 0..Len(b) |-> Step(b, f, k)]

Stack(b, k) == Nest(b)[k].open
Met(b, k) == Nest(b)[k].met

\* A block is closed only where one is open.
WellNested(b) ==
  /\ b \in Seq(Items)
  /\ \A k \in 1..Len(b) : b[k].op = "close" => Len(Stack(b, k - 1)) > 1

\* the scope of an item, and whether it is open after another
ScopeAt(b, d) == Stack(b, d)[Len(Stack(b, d))]
OpenAt(b, d, i) == \E p \in DOMAIN Stack(b, i) : Stack(b, i)[p] = ScopeAt(b, d)

(* Induction over the numbers, from their having a least element.          *)
LEMMA Induct ==
  ASSUME NEW S, 0 \in S, \A n \in Nat : n \in S => n + 1 \in S
  PROVE  Nat \subseteq S
<1>1. SUFFICES ASSUME Nat \ S # {} PROVE FALSE OBVIOUS
<1>2. PICK n \in Nat \ S : \A k \in Nat \ S : ~(<<k, n>> \in OpToRel(<, Nat))
  BY <1>1, NatLessThanWellFounded, WFMin
<1>3. n \in Nat /\ n \notin S /\ n # 0 BY <1>2
<1>4. n - 1 \in Nat /\ n - 1 < n /\ (n - 1) + 1 = n BY <1>3
<1>5. n - 1 \notin S BY <1>3, <1>4
<1>6. ~(<<n - 1, n>> \in OpToRel(<, Nat)) BY <1>2, <1>4, <1>5
<1> QED BY <1>3, <1>4, <1>6 DEF OpToRel

(* The recursion of Nest has a solution.                                   *)
LEMMA NestExists ==
  ASSUME NEW b \in Seq(Items)
  PROVE  Nest(b) = [k \in 0..Len(b) |-> Step(b, Nest(b), k)]
<1> DEFINE Good == {n \in Nat : \E f : f = [k \in 0..n |-> Step(b, f, k)]}
<1>1. 0 \in Good
  <2> DEFINE f == [k \in 0..0 |-> [open |-> <<1>>, met |-> 1]]
  <2>1. f = [k \in 0..0 |-> Step(b, f, k)] BY DEF Step
  <2> HIDE DEF f
  <2> QED BY <2>1
<1>2. ASSUME NEW n \in Nat, n \in Good PROVE n + 1 \in Good
  <2>1. PICK f : f = [k \in 0..n |-> Step(b, f, k)] BY <1>2
  <2> DEFINE g == [k \in 0..n + 1 |-> IF k \in 0..n THEN f[k] ELSE Step(b, f, n + 1)]
  <2>2. ASSUME NEW k \in 0..n + 1 PROVE g[k] = Step(b, g, k)
    <3>1. k # 0 => k - 1 \in 0..n BY <2>2
    <3>2. k # 0 => g[k - 1] = f[k - 1] BY <3>1
    <3>3. Step(b, g, k) = Step(b, f, k) BY <3>2 DEF Step
    <3>4. CASE k \in 0..n BY <3>3, <3>4, <2>1
    <3>5. CASE k = n + 1 BY <3>3, <3>5
    <3> QED BY <2>2, <3>4, <3>5
  <2>3. g = [k \in 0..n + 1 |-> g[k]] OBVIOUS
  <2> HIDE DEF g
  <2>4. g = [k \in 0..n + 1 |-> Step(b, g, k)] BY <2>2, <2>3
  <2> QED BY <2>4
<1>3. Nat \subseteq Good BY <1>1, <1>2, Induct
<1>4. Len(b) \in Nat BY LenProperties
<1>5. \E f : f = [k \in 0..Len(b) |-> Step(b, f, k)] BY <1>3, <1>4
<1> QED BY <1>5 DEF Nest

(* The scopes open after each item follow from those before it.            *)
LEMMA NestSteps ==
  ASSUME NEW b \in Seq(Items)
  PROVE  /\ Stack(b, 0) = <<1>> /\ Met(b, 0) = 1
         /\ \A k \in 1..Len(b) :
              /\ b[k].op = "open" => /\ Stack(b, k) = Append(Stack(b, k - 1), Met(b, k - 1) + 1)
                                     /\ Met(b, k) = Met(b, k - 1) + 1
              /\ b[k].op = "close" => /\ Stack(b, k) = Front(Stack(b, k - 1))
                                      /\ Met(b, k) = Met(b, k - 1)
              /\ b[k].op \notin {"open", "close"} => /\ Stack(b, k) = Stack(b, k - 1)
                                                     /\ Met(b, k) = Met(b, k - 1)
<1>1. Len(b) \in Nat BY LenProperties
<1>2. Nest(b)[0] = [open |-> <<1>>, met |-> 1] BY <1>1, NestExists DEF Step
<1>3. ASSUME NEW k \in 1..Len(b) PROVE Nest(b)[k] = Entered(Nest(b)[k - 1], b[k])
  BY <1>1, NestExists DEF Step
<1>4. Stack(b, 0) = <<1>> /\ Met(b, 0) = 1 BY <1>2 DEF Stack, Met
<1>5. ASSUME NEW k \in 1..Len(b), b[k].op = "open"
      PROVE  /\ Stack(b, k) = Append(Stack(b, k - 1), Met(b, k - 1) + 1)
             /\ Met(b, k) = Met(b, k - 1) + 1
  <2> DEFINE s == Nest(b)[k - 1]
  <2>1. Nest(b)[k] = [open |-> Append(s.open, s.met + 1), met |-> s.met + 1]
    BY <1>3, <1>5 DEF Entered
  <2>2. Nest(b)[k].open = Append(s.open, s.met + 1) /\ Nest(b)[k].met = s.met + 1
    BY <2>1
  <2> QED BY <2>2 DEF Stack, Met
<1>6. ASSUME NEW k \in 1..Len(b), b[k].op = "close"
      PROVE  Stack(b, k) = Front(Stack(b, k - 1)) /\ Met(b, k) = Met(b, k - 1)
  <2> DEFINE s == Nest(b)[k - 1]
  <2>1. Nest(b)[k] = [open |-> Front(s.open), met |-> s.met]
    BY <1>3, <1>6 DEF Entered
  <2>2. Nest(b)[k].open = Front(s.open) /\ Nest(b)[k].met = s.met
    BY <2>1
  <2> QED BY <2>2 DEF Stack, Met
<1>7. ASSUME NEW k \in 1..Len(b), b[k].op \notin {"open", "close"}
      PROVE  Stack(b, k) = Stack(b, k - 1) /\ Met(b, k) = Met(b, k - 1)
  BY <1>3, <1>7 DEF Entered, Stack, Met
<1> QED BY <1>4, <1>5, <1>6, <1>7

\* A stack of open scopes is not empty, goes up, and holds scopes met so far.
GoesUp(s, m) ==
  /\ s \in Seq(Nat) /\ Len(s) \in Nat \ {0} /\ m \in Nat \ {0}
  /\ \A p \in 1..Len(s) : s[p] \in 1..m
  /\ \A p, q \in 1..Len(s) : p < q => s[p] < s[q]

(* A new scope on top of the stack has a number of its own.                *)
LEMMA PushGoesUp ==
  ASSUME NEW s, NEW m, GoesUp(s, m)
  PROVE  /\ GoesUp(Append(s, m + 1), m + 1)
         /\ Len(Append(s, m + 1)) = Len(s) + 1
         /\ \A p \in 1..Len(s) : Append(s, m + 1)[p] = s[p]
         /\ Append(s, m + 1)[Len(s) + 1] = m + 1
<1>1. /\ Append(s, m + 1) \in Seq(Nat)
      /\ Len(Append(s, m + 1)) = Len(s) + 1
      /\ \A p \in 1..Len(s) : Append(s, m + 1)[p] = s[p]
      /\ Append(s, m + 1)[Len(s) + 1] = m + 1
  BY AppendProperties DEF GoesUp
<1> QED BY <1>1 DEF GoesUp

(* What is left of a stack when its last scope is closed.                  *)
LEMMA PopGoesUp ==
  ASSUME NEW s, NEW m, GoesUp(s, m), Len(s) > 1
  PROVE  /\ GoesUp(Front(s), m)
         /\ Len(Front(s)) = Len(s) - 1
         /\ \A p \in 1..Len(s) - 1 : Front(s)[p] = s[p]
<1>1. \A p \in 1..Len(s) - 1 : s[p] \in Nat BY DEF GoesUp
<1>2. /\ Front(s) \in Seq(Nat)
      /\ Len(Front(s)) = Len(s) - 1
      /\ \A p \in 1..Len(s) - 1 : Front(s)[p] = s[p]
  <2>1. 1 \in Int /\ Len(s) - 1 \in Int /\ 1 <= Len(s) - 1 BY DEF GoesUp
  <2>2. /\ SubSeq(s, 1, Len(s) - 1) \in Seq(Nat)
        /\ Len(SubSeq(s, 1, Len(s) - 1)) = (Len(s) - 1) - 1 + 1
        /\ \A i \in 1..(Len(s) - 1) - 1 + 1 : SubSeq(s, 1, Len(s) - 1)[i] = s[1 + i - 1]
    BY <1>1, <2>1, SubSeqProperties
  <2> QED BY <2>1, <2>2 DEF Front, GoesUp
<1> QED BY <1>2 DEF GoesUp

(* The open scopes after every item are in the order they were opened in.  *)
LEMMA StackGoesUp ==
  ASSUME NEW b, WellNested(b)
  PROVE  \A k \in 0..Len(b) : GoesUp(Stack(b, k), Met(b, k))
<1> DEFINE Good == {k \in Nat : k <= Len(b) => GoesUp(Stack(b, k), Met(b, k))}
<1>1. b \in Seq(Items) /\ Len(b) \in Nat BY LenProperties DEF WellNested
<1>2. 0 \in Good
  <2>1. <<1>> \in Seq(Nat) /\ Len(<<1>>) = 1 /\ <<1>>[1] = 1 OBVIOUS
  <2>2. GoesUp(<<1>>, 1) BY <2>1 DEF GoesUp
  <2> QED BY <1>1, <2>2, NestSteps
<1>3. ASSUME NEW k \in Nat, k \in Good PROVE k + 1 \in Good
  <2> SUFFICES ASSUME k + 1 <= Len(b) PROVE GoesUp(Stack(b, k + 1), Met(b, k + 1))
    OBVIOUS
  <2>1. k + 1 \in 1..Len(b) /\ (k + 1) - 1 = k /\ k <= Len(b) BY <1>1
  <2>2. GoesUp(Stack(b, k), Met(b, k)) BY <1>3, <2>1
  <2>3. CASE b[k + 1].op = "open"
    <3>1. /\ Stack(b, k + 1) = Append(Stack(b, k), Met(b, k) + 1)
          /\ Met(b, k + 1) = Met(b, k) + 1
      BY <1>1, <2>1, <2>3, NestSteps
    <3>2. GoesUp(Append(Stack(b, k), Met(b, k) + 1), Met(b, k) + 1) BY <2>2, PushGoesUp
    <3> QED BY <3>1, <3>2
  <2>4. CASE b[k + 1].op = "close"
    BY <1>1, <2>1, <2>2, <2>4, NestSteps, PopGoesUp DEF WellNested
  <2>5. CASE b[k + 1].op \notin {"open", "close"} BY <1>1, <2>1, <2>2, <2>5, NestSteps
  <2> QED BY <2>3, <2>4, <2>5
<1> HIDE DEF Good
<1>4. Nat \subseteq Good BY <1>2, <1>3, Induct
<1> QED BY <1>1, <1>4 DEF Good

(* What is read later does not change which scopes were open.              *)
LEMMA NestAppend ==
  ASSUME NEW b \in Seq(Items), NEW item \in Items
  PROVE  /\ Append(b, item) \in Seq(Items)
         /\ Len(Append(b, item)) = Len(b) + 1
         /\ \A i \in 1..Len(b) : Append(b, item)[i] = b[i]
         /\ Append(b, item)[Len(b) + 1] = item
         /\ \A k \in 0..Len(b) : /\ Stack(Append(b, item), k) = Stack(b, k)
                                 /\ Met(Append(b, item), k) = Met(b, k)
<1> DEFINE c == Append(b, item)
           Good == {k \in Nat : k <= Len(b) => /\ Stack(c, k) = Stack(b, k)
                                               /\ Met(c, k) = Met(b, k)}
<1>1. Len(b) \in Nat BY LenProperties
<1>2. /\ c \in Seq(Items) /\ Len(c) = Len(b) + 1
      /\ \A i \in 1..Len(b) : c[i] = b[i]
      /\ c[Len(b) + 1] = item
  BY AppendProperties
<1> HIDE DEF c
<1>3. 0 \in Good BY <1>2, NestSteps
<1>4. ASSUME NEW k \in Nat, k \in Good PROVE k + 1 \in Good
  <2> SUFFICES ASSUME k + 1 <= Len(b)
               PROVE  Stack(c, k + 1) = Stack(b, k + 1) /\ Met(c, k + 1) = Met(b, k + 1)
    OBVIOUS
  <2>1. /\ k + 1 \in 1..Len(b) /\ k + 1 \in 1..Len(c) /\ (k + 1) - 1 = k
        /\ c[k + 1] = b[k + 1]
    BY <1>1, <1>2
  <2>2. Stack(c, k) = Stack(b, k) /\ Met(c, k) = Met(b, k) BY <1>1, <1>4
  <2>3. CASE b[k + 1].op = "open"
    <3>1. /\ Stack(b, k + 1) = Append(Stack(b, k), Met(b, k) + 1)
          /\ Met(b, k + 1) = Met(b, k) + 1
      BY <2>1, <2>3, NestSteps
    <3>2. /\ Stack(c, k + 1) = Append(Stack(c, k), Met(c, k) + 1)
          /\ Met(c, k + 1) = Met(c, k) + 1
      BY <1>2, <2>1, <2>3, NestSteps
    <3> QED BY <2>2, <3>1, <3>2
  <2>4. CASE b[k + 1].op = "close"
    <3>1. Stack(b, k + 1) = Front(Stack(b, k)) /\ Met(b, k + 1) = Met(b, k)
      BY <2>1, <2>4, NestSteps
    <3>2. Stack(c, k + 1) = Front(Stack(c, k)) /\ Met(c, k + 1) = Met(c, k)
      BY <1>2, <2>1, <2>4, NestSteps
    <3> QED BY <2>2, <3>1, <3>2
  <2>5. CASE b[k + 1].op \notin {"open", "close"}
    BY <1>2, <2>1, <2>2, <2>5, NestSteps
  <2> QED BY <2>3, <2>4, <2>5
<1> HIDE DEF Good
<1>5. Nat \subseteq Good BY <1>3, <1>4, Induct
<1> QED BY <1>1, <1>2, <1>5 DEF Good, c

(* Two stacks that share a scope agree up to it: a scope is closed before  *)
(* the one it stands in, and never opened again.                           *)
LEMMA StacksShare ==
  ASSUME NEW b, WellNested(b), NEW i \in 0..Len(b), NEW e \in 0..Len(b), i <= e
  PROVE  /\ Met(b, i) <= Met(b, e)
         /\ \A p \in DOMAIN Stack(b, i), q \in DOMAIN Stack(b, e) :
              Stack(b, i)[p] = Stack(b, e)[q] =>
                p = q /\ \A r \in 1..p : Stack(b, i)[r] = Stack(b, e)[r]
<1> DEFINE Share(k) == \A p \in 1..Len(Stack(b, i)), q \in 1..Len(Stack(b, k)) :
                         Stack(b, i)[p] = Stack(b, k)[q] =>
                           p = q /\ \A r \in 1..p : Stack(b, i)[r] = Stack(b, k)[r]
           Good == {n \in Nat : i + n <= Len(b) => Met(b, i) <= Met(b, i + n) /\ Share(i + n)}
<1>1. b \in Seq(Items) /\ Len(b) \in Nat BY LenProperties DEF WellNested
<1>2. \A k \in 0..Len(b) : GoesUp(Stack(b, k), Met(b, k)) BY StackGoesUp
<1>3. 0 \in Good
  <2>1. Share(i)
    <3>1. GoesUp(Stack(b, i), Met(b, i)) BY <1>2
    <3> QED BY <3>1 DEF GoesUp
  <2>2. i + 0 = i /\ Met(b, i) \in Nat BY <1>1, <1>2 DEF GoesUp
  <2> HIDE DEF Share
  <2> QED BY <2>1, <2>2
<1>4. ASSUME NEW n \in Nat, n \in Good PROVE n + 1 \in Good
  <2> DEFINE k == i + n
  <2> SUFFICES ASSUME k + 1 <= Len(b) PROVE Met(b, i) <= Met(b, k + 1) /\ Share(k + 1)
    BY <1>1
  <2>1. k + 1 \in 1..Len(b) /\ (k + 1) - 1 = k /\ k \in 0..Len(b) BY <1>1
  <2>2. Met(b, i) <= Met(b, k) /\ Share(k) BY <1>1, <1>4, <2>1
  <2>3. GoesUp(Stack(b, k), Met(b, k)) /\ GoesUp(Stack(b, i), Met(b, i)) BY <1>1, <1>2, <2>1
  <2> HIDE DEF k
  <2>4. CASE b[k + 1].op = "open"
    <3>1. /\ Stack(b, k + 1) = Append(Stack(b, k), Met(b, k) + 1)
          /\ Met(b, k + 1) = Met(b, k) + 1
      BY <1>1, <2>1, <2>4, NestSteps
    <3>2. /\ Len(Stack(b, k + 1)) = Len(Stack(b, k)) + 1
          /\ \A p \in 1..Len(Stack(b, k)) : Stack(b, k + 1)[p] = Stack(b, k)[p]
          /\ Stack(b, k + 1)[Len(Stack(b, k)) + 1] = Met(b, k) + 1
      BY <2>3, <3>1, PushGoesUp
    <3>3. Met(b, i) <= Met(b, k + 1) BY <2>2, <2>3, <3>1 DEF GoesUp
    <3>4. ASSUME NEW p \in 1..Len(Stack(b, i)), NEW q \in 1..Len(Stack(b, k + 1)),
                 Stack(b, i)[p] = Stack(b, k + 1)[q]
          PROVE  p = q /\ \A r \in 1..p : Stack(b, i)[r] = Stack(b, k + 1)[r]
      <4>1. Stack(b, i)[p] \in 1..Met(b, i) BY <2>3 DEF GoesUp
      <4>2. q # Len(Stack(b, k)) + 1 BY <2>2, <2>3, <3>2, <3>4, <4>1 DEF GoesUp
      <4>3. q \in 1..Len(Stack(b, k)) BY <2>3, <3>2, <4>2 DEF GoesUp
      <4>4. p = q /\ \A r \in 1..p : Stack(b, i)[r] = Stack(b, k)[r]
        BY <2>2, <3>2, <3>4, <4>3
      <4> QED BY <2>3, <3>2, <4>3, <4>4 DEF GoesUp
    <3> QED BY <3>3, <3>4
  <2>5. CASE b[k + 1].op = "close"
    <3>1. Stack(b, k + 1) = Front(Stack(b, k)) /\ Met(b, k + 1) = Met(b, k)
          /\ Len(Stack(b, k)) > 1
      BY <1>1, <2>1, <2>5, NestSteps DEF WellNested
    <3>2. /\ Len(Stack(b, k + 1)) = Len(Stack(b, k)) - 1
          /\ \A p \in 1..Len(Stack(b, k)) - 1 : Stack(b, k + 1)[p] = Stack(b, k)[p]
      BY <2>3, <3>1, PopGoesUp
    <3>3. ASSUME NEW p \in 1..Len(Stack(b, i)), NEW q \in 1..Len(Stack(b, k + 1)),
                 Stack(b, i)[p] = Stack(b, k + 1)[q]
          PROVE  p = q /\ \A r \in 1..p : Stack(b, i)[r] = Stack(b, k + 1)[r]
      <4>1. q \in 1..Len(Stack(b, k)) /\ Stack(b, k + 1)[q] = Stack(b, k)[q]
        BY <2>3, <3>2, SMTT(30) DEF GoesUp
      <4>2. p = q /\ \A r \in 1..p : Stack(b, i)[r] = Stack(b, k)[r]
        BY <2>2, <3>3, <4>1
      <4> QED BY <2>3, <3>2, <4>2 DEF GoesUp
    <3> QED BY <2>2, <3>1, <3>3
  <2>6. CASE b[k + 1].op \notin {"open", "close"}
    <3>1. Stack(b, k + 1) = Stack(b, k) /\ Met(b, k + 1) = Met(b, k)
      BY <1>1, <2>1, <2>6, NestSteps
    <3> QED BY <2>2, <3>1
  <2> QED BY <2>4, <2>5, <2>6
<1> HIDE DEF Good
<1>5. Nat \subseteq Good BY <1>3, <1>4, Induct
<1>6. e - i \in Nat /\ i + (e - i) = e BY <1>1
<1>7. e - i \in Good BY <1>5, <1>6
<1>8. Met(b, i) <= Met(b, e) /\ Share(e) BY <1>1, <1>6, <1>7 DEF Good
<1>9. DOMAIN Stack(b, i) = 1..Len(Stack(b, i)) /\ DOMAIN Stack(b, e) = 1..Len(Stack(b, e))
  BY <1>2, LenProperties DEF GoesUp
<1> QED BY <1>8, <1>9

(* A scope met by item i and open after item e was open all the time       *)
(* between them.                                                           *)
LEMMA OpenBetween ==
  ASSUME NEW b, WellNested(b), NEW i \in 0..Len(b), NEW e \in 0..Len(b),
         NEW k \in i..e, NEW q \in DOMAIN Stack(b, e), Stack(b, e)[q] <= Met(b, i)
  PROVE  \E p \in DOMAIN Stack(b, k) : Stack(b, k)[p] = Stack(b, e)[q]
<1> DEFINE j == Stack(b, e)[q]
           Has(m) == \E p \in 1..Len(Stack(b, m)) : Stack(b, m)[p] = j
           Good == {n \in Nat : k <= e - n => Has(e - n)}
<1>1. b \in Seq(Items) /\ Len(b) \in Nat BY LenProperties DEF WellNested
<1>2. \A m \in 0..Len(b) : /\ GoesUp(Stack(b, m), Met(b, m))
                           /\ DOMAIN Stack(b, m) = 1..Len(Stack(b, m))
  BY StackGoesUp, LenProperties DEF GoesUp
<1>3. 0 \in Good
  <2>1. Has(e) BY <1>2
  <2> HIDE DEF Has
  <2> QED BY <1>1, <2>1
<1>4. ASSUME NEW n \in Nat, n \in Good PROVE n + 1 \in Good
  <2> DEFINE m == e - (n + 1)
  <2> SUFFICES ASSUME k <= m PROVE Has(m)
    OBVIOUS
  <2>1. /\ m + 1 \in 1..Len(b) /\ (m + 1) - 1 = m /\ m \in 0..Len(b) /\ m + 1 = e - n
        /\ i <= m /\ k <= m + 1
    BY <1>1
  <2>2. Has(m + 1) BY <1>4, <2>1
  <2>3. GoesUp(Stack(b, m), Met(b, m)) BY <1>2, <2>1
  <2>4. j <= Met(b, m) /\ j \in Nat
    <3>1. Met(b, i) <= Met(b, m) BY <2>1, StacksShare
    <3>2. j \in Nat
      <4>1. GoesUp(Stack(b, e), Met(b, e)) /\ q \in 1..Len(Stack(b, e)) BY <1>2
      <4> QED BY <4>1 DEF GoesUp
    <3>3. Met(b, i) \in Nat /\ Met(b, m) \in Nat BY <1>2, <2>1 DEF GoesUp
    <3> QED BY <3>1, <3>2, <3>3
  <2> HIDE DEF m, j
  <2>5. CASE b[m + 1].op = "open"
    <3>1. Stack(b, m + 1) = Append(Stack(b, m), Met(b, m) + 1)
      BY <1>1, <2>1, <2>5, NestSteps
    <3>2. /\ Len(Stack(b, m + 1)) = Len(Stack(b, m)) + 1
          /\ \A p \in 1..Len(Stack(b, m)) : Stack(b, m + 1)[p] = Stack(b, m)[p]
          /\ Stack(b, m + 1)[Len(Stack(b, m)) + 1] = Met(b, m) + 1
      BY <2>3, <3>1, PushGoesUp
    <3> QED BY <2>2, <2>3, <2>4, <3>2 DEF GoesUp
  <2>6. CASE b[m + 1].op = "close"
    <3>1. Stack(b, m + 1) = Front(Stack(b, m)) /\ Len(Stack(b, m)) > 1
      BY <1>1, <2>1, <2>6, NestSteps DEF WellNested
    <3>2. /\ Len(Stack(b, m + 1)) = Len(Stack(b, m)) - 1
          /\ \A p \in 1..Len(Stack(b, m)) - 1 : Stack(b, m + 1)[p] = Stack(b, m)[p]
      BY <2>3, <3>1, PopGoesUp
    <3>3. PICK p \in 1..Len(Stack(b, m + 1)) : Stack(b, m + 1)[p] = j BY <2>2
    <3>4. Len(Stack(b, m)) \in Nat BY <2>3 DEF GoesUp
    <3>5. p \in 1..Len(Stack(b, m)) - 1 BY <3>2, <3>3, <3>4
    <3>6. p \in 1..Len(Stack(b, m)) /\ Stack(b, m)[p] = j BY <3>2, <3>3, <3>4, <3>5
    <3> QED BY <3>6
  <2>7. CASE b[m + 1].op \notin {"open", "close"}
    BY <1>1, <2>1, <2>2, <2>7, NestSteps
  <2> QED BY <2>5, <2>6, <2>7
<1> HIDE DEF Good
<1>5. Nat \subseteq Good BY <1>3, <1>4, Induct
<1>6. e - k \in Nat /\ e - (e - k) = k /\ k \in 0..Len(b) BY <1>1
<1>7. Has(k)
  <2>1. e - k \in Good BY <1>5, <1>6
  <2> HIDE DEF Has
  <2> QED BY <1>6, <2>1 DEF Good
<1> QED BY <1>2, <1>6, <1>7

-----------------------------------------------------------------------------
\* Level, InScope and Locals of Scopes, of any body.
LevelIn(b, i) ==
  Cardinality({k \in 1..i : b[k].op = "open"})
    - Cardinality({k \in 1..i : b[k].op = "close"})
LocalsIn(b, i, n) ==
  {d \in 1..i : /\ b[d].op = "declare" /\ \A k \in d..i : LevelIn(b, k) >= LevelIn(b, d)
                /\ b[d].name = n}

(* Items are as deep as scopes are open above the method's own.            *)
LEMMA LevelIsDepth ==
  ASSUME NEW b, WellNested(b)
  PROVE  \A i \in 0..Len(b) : LevelIn(b, i) = Len(Stack(b, i)) - 1
<1> DEFINE Opened(i) == {k \in 1..i : b[k].op = "open"}
           Closed(i) == {k \in 1..i : b[k].op = "close"}
           Good == {i \in Nat : i <= Len(b) =>
                      /\ IsFiniteSet(Opened(i)) /\ IsFiniteSet(Closed(i))
                      /\ Cardinality(Opened(i)) \in Nat /\ Cardinality(Closed(i)) \in Nat
                      /\ Cardinality(Opened(i)) - Cardinality(Closed(i)) = Len(Stack(b, i)) - 1}
<1>1. b \in Seq(Items) /\ Len(b) \in Nat BY LenProperties DEF WellNested
<1>2. 0 \in Good
  <2>1. Opened(0) = {} /\ Closed(0) = {} OBVIOUS
  <2>2. Len(Stack(b, 0)) = 1 BY <1>1, NestSteps
  <2>3. Cardinality({}) = 0 /\ IsFiniteSet({}) BY FS_EmptySet
  <2>4. IsFiniteSet(Opened(0)) /\ IsFiniteSet(Closed(0)) BY <2>1, <2>3
  <2>5. Cardinality(Opened(0)) = 0 /\ Cardinality(Closed(0)) = 0 BY <2>1, <2>3
  <2>6. Cardinality(Opened(0)) - Cardinality(Closed(0)) = Len(Stack(b, 0)) - 1
    <3>1. Len(Stack(b, 0)) - 1 = 0 BY <2>2
    <3>2. Cardinality(Opened(0)) - Cardinality(Closed(0)) = 0 
      <4> HIDE DEF Opened, Closed
      <4> QED BY <2>5
    <3> QED BY <3>1, <3>2
  <2> HIDE DEF Opened, Closed
  <2> QED BY <2>4, <2>5, <2>6
<1>3. ASSUME NEW i \in Nat, i \in Good PROVE i + 1 \in Good
  <2> SUFFICES ASSUME i + 1 <= Len(b)
               PROVE  /\ IsFiniteSet(Opened(i + 1)) /\ IsFiniteSet(Closed(i + 1))
                      /\ Cardinality(Opened(i + 1)) \in Nat
                      /\ Cardinality(Closed(i + 1)) \in Nat
                      /\ Cardinality(Opened(i + 1)) - Cardinality(Closed(i + 1))
                           = Len(Stack(b, i + 1)) - 1
    OBVIOUS
  <2>1. i + 1 \in 1..Len(b) /\ (i + 1) - 1 = i /\ i \in 0..Len(b) BY <1>1
  <2>2. /\ IsFiniteSet(Opened(i)) /\ IsFiniteSet(Closed(i))
        /\ Cardinality(Opened(i)) \in Nat /\ Cardinality(Closed(i)) \in Nat
        /\ Cardinality(Opened(i)) - Cardinality(Closed(i)) = Len(Stack(b, i)) - 1
    BY <1>1, <1>3
  <2>3. GoesUp(Stack(b, i), Met(b, i)) /\ Len(Stack(b, i)) \in Nat
    BY <2>1, StackGoesUp DEF GoesUp
  <2>4. i + 1 \notin Opened(i) /\ i + 1 \notin Closed(i) OBVIOUS
  <2>5. CASE b[i + 1].op = "open"
    <3>1. Opened(i + 1) = Opened(i) \cup {i + 1} /\ Closed(i + 1) = Closed(i) BY <2>5
    <3>2. Len(Stack(b, i + 1)) = Len(Stack(b, i)) + 1
      BY <1>1, <2>1, <2>3, <2>5, NestSteps, PushGoesUp
    <3> HIDE DEF Opened, Closed
    <3>3. IsFiniteSet(Opened(i + 1)) /\ Cardinality(Opened(i + 1)) = Cardinality(Opened(i)) + 1
      BY <2>2, <2>4, <3>1, FS_AddElement
    <3> QED BY <2>2, <2>3, <3>1, <3>2, <3>3
  <2>6. CASE b[i + 1].op = "close"
    <3>1. Closed(i + 1) = Closed(i) \cup {i + 1} /\ Opened(i + 1) = Opened(i) BY <2>6
    <3>2. Len(Stack(b, i + 1)) = Len(Stack(b, i)) - 1
      BY <1>1, <2>1, <2>3, <2>6, NestSteps, PopGoesUp DEF WellNested
    <3> HIDE DEF Opened, Closed
    <3>3. IsFiniteSet(Closed(i + 1)) /\ Cardinality(Closed(i + 1)) = Cardinality(Closed(i)) + 1
      BY <2>2, <2>4, <3>1, FS_AddElement
    <3> QED BY <2>2, <2>3, <3>1, <3>2, <3>3
  <2>7. CASE b[i + 1].op \notin {"open", "close"}
    <3>1. Closed(i + 1) = Closed(i) /\ Opened(i + 1) = Opened(i) BY <2>7
    <3>2. Stack(b, i + 1) = Stack(b, i) BY <1>1, <2>1, <2>7, NestSteps
    <3> QED BY <2>2, <3>1, <3>2
  <2> QED BY <2>5, <2>6, <2>7
<1> HIDE DEF Good
<1>4. Nat \subseteq Good BY <1>2, <1>3, Induct
<1> QED BY <1>1, <1>4 DEF Good, LevelIn

(* A declaration is in scope as long as its scope is open: the blocks that *)
(* are entered and left meanwhile are nested in its own.                   *)
LEMMA InScopeIsOpen ==
  ASSUME NEW b, WellNested(b), NEW i \in 1..Len(b), NEW d \in 1..i
  PROVE  (\A k \in d..i : LevelIn(b, k) >= LevelIn(b, d)) <=> OpenAt(b, d, i)
<1>1. b \in Seq(Items) /\ Len(b) \in Nat BY LenProperties DEF WellNested
<1>2. \A k \in 0..Len(b) : /\ GoesUp(Stack(b, k), Met(b, k))
                           /\ DOMAIN Stack(b, k) = 1..Len(Stack(b, k))
                           /\ LevelIn(b, k) = Len(Stack(b, k)) - 1
  BY StackGoesUp, LenProperties, LevelIsDepth DEF GoesUp
<1> DEFINE top == Len(Stack(b, d))
<1>3. d \in 0..Len(b) /\ i \in 0..Len(b) /\ top \in Nat \ {0} BY <1>1, <1>2 DEF GoesUp
<1>4. ASSUME NEW k \in d..i, NEW p \in DOMAIN Stack(b, k), Stack(b, k)[p] = ScopeAt(b, d)
      PROVE  p = top
  <2>1. k \in 0..Len(b) /\ d <= k /\ top \in DOMAIN Stack(b, d) BY <1>1, <1>2, <1>3
  <2> QED BY <1>3, <1>4, <2>1, StacksShare DEF ScopeAt
<1>5. ASSUME OpenAt(b, d, i), NEW k \in d..i PROVE LevelIn(b, k) >= LevelIn(b, d)
  <2>1. PICK q \in DOMAIN Stack(b, i) : Stack(b, i)[q] = ScopeAt(b, d) BY <1>5 DEF OpenAt
  <2>2. ScopeAt(b, d) <= Met(b, d)
    <3>1. GoesUp(Stack(b, d), Met(b, d)) BY <1>2, <1>3
    <3> QED BY <3>1 DEF ScopeAt, GoesUp
  <2>3. PICK p \in DOMAIN Stack(b, k) : Stack(b, k)[p] = ScopeAt(b, d)
    <3>1. Stack(b, i)[q] <= Met(b, d) BY <2>1, <2>2
    <3>2. \E p \in DOMAIN Stack(b, k) : Stack(b, k)[p] = Stack(b, i)[q]
      BY <1>3, <3>1, OpenBetween
    <3> QED BY <2>1, <3>2
  <2>4. p = top BY <1>4, <2>3
  <2>5. k \in 0..Len(b) BY <1>1
  <2>6. Len(Stack(b, k)) \in Nat /\ p \in 1..Len(Stack(b, k)) BY <1>2, <2>3, <2>5 DEF GoesUp
  <2> QED BY <1>2, <1>3, <2>4, <2>5, <2>6
<1>6. ASSUME \A k \in d..i : LevelIn(b, k) >= LevelIn(b, d) PROVE OpenAt(b, d, i)
  <2> DEFINE Kept(k) == Len(Stack(b, k)) >= top /\ Stack(b, k)[top] = ScopeAt(b, d)
             Good == {n \in Nat : d + n <= i => Kept(d + n)}
  <2>1. 0 \in Good
    <3>1. d + 0 = d /\ Kept(d) BY <1>3 DEF ScopeAt
    <3> HIDE DEF Kept
    <3> QED BY <3>1
  <2>2. ASSUME NEW n \in Nat, n \in Good PROVE n + 1 \in Good
    <3> DEFINE k == d + n
    <3> SUFFICES ASSUME k + 1 <= i PROVE Kept(k + 1)
      BY <1>3
    <3>1. /\ k + 1 \in 1..Len(b) /\ (k + 1) - 1 = k /\ k \in 0..Len(b)
          /\ k + 1 \in d..i /\ k + 1 \in 0..Len(b)
      BY <1>1
    <3>2. Kept(k) BY <1>1, <2>2, <3>1
    <3> HIDE DEF k
    <3>3. GoesUp(Stack(b, k), Met(b, k)) /\ Len(Stack(b, k)) \in Nat BY <1>2, <3>1 DEF GoesUp
    <3>4. Len(Stack(b, k + 1)) >= top
      <4>1. LevelIn(b, k + 1) >= LevelIn(b, d) BY <1>6, <3>1
      <4>2. Len(Stack(b, k + 1)) \in Nat BY <1>2, <3>1 DEF GoesUp
      <4> QED BY <1>2, <1>3, <3>1, <4>1, <4>2
    <3>5. CASE b[k + 1].op = "open"
      <4>1. Stack(b, k + 1) = Append(Stack(b, k), Met(b, k) + 1)
        BY <1>1, <3>1, <3>5, NestSteps
      <4>2. Stack(b, k + 1)[top] = Stack(b, k)[top]
        BY <1>3, <3>2, <3>3, <4>1, PushGoesUp
      <4> QED BY <3>2, <3>4, <4>2
    <3>6. CASE b[k + 1].op = "close"
      <4>1. Stack(b, k + 1) = Front(Stack(b, k)) /\ Len(Stack(b, k)) > 1
        BY <1>1, <3>1, <3>6, NestSteps DEF WellNested
      <4>2. /\ Len(Stack(b, k + 1)) = Len(Stack(b, k)) - 1
            /\ \A p \in 1..Len(Stack(b, k)) - 1 : Stack(b, k + 1)[p] = Stack(b, k)[p]
        BY <3>3, <4>1, PopGoesUp
      <4>3. top \in 1..Len(Stack(b, k)) - 1 BY <1>3, <3>3, <3>4, <4>2
      <4> QED BY <3>2, <3>4, <4>2, <4>3
    <3>7. CASE b[k + 1].op \notin {"open", "close"}
      <4>1. Stack(b, k + 1) = Stack(b, k) BY <1>1, <3>1, <3>7, NestSteps
      <4> QED BY <3>2, <3>4, <4>1
    <3> QED BY <3>5, <3>6, <3>7
  <2> HIDE DEF Good
  <2>3. Nat \subseteq Good BY <2>1, <2>2, Induct
  <2>4. i - d \in Nat /\ d + (i - d) = i BY <1>1
  <2>5. i - d \in Good BY <2>3, <2>4
  <2>6. Kept(i)
    <3> HIDE DEF Kept
    <3> QED BY <2>4, <2>5 DEF Good
  <2>7. top \in DOMAIN Stack(b, i)
    <3>1. DOMAIN Stack(b, i) = 1..Len(Stack(b, i)) /\ Len(Stack(b, i)) \in Nat
      BY <1>2, <1>3 DEF GoesUp
    <3> QED BY <1>3, <2>6, <3>1
  <2> QED BY <2>6, <2>7 DEF OpenAt
<1> QED BY <1>5, <1>6

(* The locals in scope at an item are those whose scopes are open there.   *)
LEMMA LocalsAreOpen ==
  ASSUME NEW b, WellNested(b), NEW i \in 1..Len(b), NEW n
  PROVE  LocalsIn(b, i, n)
           = {d \in 1..i : b[d].op = "declare" /\ b[d].name = n /\ OpenAt(b, d, i)}
  BY InScopeIsOpen DEF LocalsIn

-----------------------------------------------------------------------------
Table == [symbols : Seq(Nat), keys : SUBSET (Names \X {"simple", "field"})]

\* A scope holds declarations of its own block in their order, under keys.
TableOf(b, t, j) ==
  /\ IsFiniteSet(t.keys)
  /\ \A p \in 1..Len(t.symbols) :
       /\ t.symbols[p] \in 1..Len(b)
       /\ b[t.symbols[p]].op = "declare" /\ ScopeAt(b, t.symbols[p]) = j
       /\ Key(b[t.symbols[p]].name) \in t.keys
  /\ \A p, q \in 1..Len(t.symbols) : p < q => t.symbols[p] < t.symbols[q]

Tables(b, ts) ==
  /\ ts \in Seq(Table) /\ Len(ts) = Met(b, Len(b))
  /\ \A j \in 1..Len(ts) : TableOf(b, ts[j], j)

\* A declaration is in the scope it stands in, and a key of every open scope:
\* addVariable has looked for it in all of them.
Filed(b, ts, d) ==
  /\ \E p \in 1..Len(ts[ScopeAt(b, d)].symbols) : ts[ScopeAt(b, d)].symbols[p] = d
  /\ \A q \in DOMAIN Stack(b, d) : Key(b[d].name) \in ts[Stack(b, d)[q]].keys

Complete(b, ts) == \A d \in 1..Len(b) : b[d].op = "declare" => Filed(b, ts, d)

\* No variable is declared where another of its name can be seen.
Distinct(b, ps) ==
  \A i \in 1..Len(b) : b[i].op = "declare" =>
    /\ b[i].name \notin ps
    /\ \A d \in 1..i - 1 :
         b[d].op = "declare" /\ b[d].name = b[i].name => ~OpenAt(b, d, i)

\* d declares name n and can be seen at item i.
Seen(b, d, i, n) ==
  d \in 1..i /\ b[d].op = "declare" /\ b[d].name = n /\ OpenAt(b, d, i)

(* A scope that is open is a scope that has been met.                      *)
LEMMA ScopeNumbers ==
  ASSUME NEW b, WellNested(b), NEW i \in 0..Len(b)
  PROVE  /\ DOMAIN Stack(b, i) = 1..Len(Stack(b, i)) /\ Len(Stack(b, i)) \in Nat \ {0}
         /\ \A p \in DOMAIN Stack(b, i) : /\ Stack(b, i)[p] \in 1..Met(b, i)
                                          /\ Stack(b, i)[p] \in 1..Met(b, Len(b))
         /\ Len(Stack(b, i)) \in DOMAIN Stack(b, i) /\ ScopeAt(b, i) \in 1..Met(b, Len(b))
<1>1. b \in Seq(Items) /\ Len(b) \in Nat BY LenProperties DEF WellNested
<1>2. GoesUp(Stack(b, i), Met(b, i)) /\ GoesUp(Stack(b, Len(b)), Met(b, Len(b)))
  BY <1>1, StackGoesUp
<1>3. Met(b, i) <= Met(b, Len(b)) BY <1>1, StacksShare
<1>4. DOMAIN Stack(b, i) = 1..Len(Stack(b, i)) /\ Len(Stack(b, i)) \in Nat \ {0}
  BY <1>2, LenProperties DEF GoesUp
<1>5. \A p \in DOMAIN Stack(b, i) : Stack(b, i)[p] \in 1..Met(b, i) BY <1>2, <1>4 DEF GoesUp
<1>6. Met(b, i) \in Nat /\ Met(b, Len(b)) \in Nat BY <1>2 DEF GoesUp
<1>7. \A p \in DOMAIN Stack(b, i) : Stack(b, i)[p] \in 1..Met(b, Len(b))
  BY <1>3, <1>5, <1>6
<1> QED BY <1>4, <1>5, <1>7 DEF ScopeAt

(* A declaration in sight of an item is in the scope at the depth at which *)
(* it was declared, and no other of its name is there or deeper: not one   *)
(* before the item, and not one after it, for the first is in sight of it. *)
LEMMA OnlyOneDeeper ==
  ASSUME NEW b, WellNested(b), NEW ps, Distinct(b, ps), NEW i \in 1..Len(b), NEW n,
         NEW d, Seen(b, d, i, n)
  PROVE  /\ Len(Stack(b, d)) \in DOMAIN Stack(b, i)
         /\ Stack(b, i)[Len(Stack(b, d))] = ScopeAt(b, d)
         /\ \A e \in 1..Len(b), q \in DOMAIN Stack(b, i) :
              /\ b[e].op = "declare" /\ b[e].name = n
              /\ Stack(b, i)[q] = ScopeAt(b, e) /\ Len(Stack(b, d)) <= q
              => e = d
<1>1. b \in Seq(Items) /\ Len(b) \in Nat BY LenProperties DEF WellNested
<1>2. d \in 1..i /\ d \in 0..Len(b) /\ i \in 0..Len(b) /\ b[d].op = "declare" /\ b[d].name = n
  BY <1>1 DEF Seen
<1>3. PICK p \in DOMAIN Stack(b, i) : Stack(b, i)[p] = ScopeAt(b, d) BY DEF Seen, OpenAt
<1>4. p = Len(Stack(b, d))
  BY <1>2, <1>3, StacksShare, ScopeNumbers DEF ScopeAt
<1>5. ASSUME NEW e \in 1..Len(b), NEW q \in DOMAIN Stack(b, i),
             b[e].op = "declare", b[e].name = n,
             Stack(b, i)[q] = ScopeAt(b, e), Len(Stack(b, d)) <= q
      PROVE  e = d
  <2>1. e \in 0..Len(b) BY <1>1
  <2>2. ScopeAt(b, e) <= Met(b, e) /\ ScopeAt(b, d) <= Met(b, d)
    <3>1. ScopeAt(b, e) \in 1..Met(b, e) /\ ScopeAt(b, d) \in 1..Met(b, d)
      BY <1>2, <2>1, ScopeNumbers DEF ScopeAt
    <3>2. Met(b, e) \in Nat /\ Met(b, d) \in Nat BY <1>2, <2>1, StackGoesUp DEF GoesUp
    <3> QED BY <3>1, <3>2
  <2>3. CASE e < d
    <3>1. d \in e..i BY <1>1, <1>2, <2>3
    <3>2. Stack(b, i)[q] <= Met(b, e) BY <1>5, <2>2
    <3>3. \E r \in DOMAIN Stack(b, d) : Stack(b, d)[r] = Stack(b, i)[q]
      BY <1>2, <2>1, <3>1, <3>2, OpenBetween
    <3>4. OpenAt(b, e, d) BY <1>5, <3>3 DEF OpenAt
    <3>5. d \in 1..Len(b) /\ e \in 1..d - 1 BY <1>1, <1>2, <2>3
    <3> QED BY <1>2, <1>5, <3>4, <3>5 DEF Distinct
  <2>4. CASE d < e
    <3>1. OpenAt(b, d, e)
      <4>1. CASE e <= i
        <5>1. e \in d..i BY <1>1, <1>2, <2>4, <4>1
        <5>2. Stack(b, i)[p] <= Met(b, d) BY <1>3, <2>2
        <5>3. \E r \in DOMAIN Stack(b, e) : Stack(b, e)[r] = Stack(b, i)[p]
          BY <1>2, <2>1, <5>1, <5>2, OpenBetween
        <5> QED BY <1>3, <5>3 DEF OpenAt
      <4>2. CASE i < e
        <5>1. Len(Stack(b, e)) \in DOMAIN Stack(b, e) BY <2>1, ScopeNumbers
        <5>2. Stack(b, i)[q] = Stack(b, e)[Len(Stack(b, e))] BY <1>5 DEF ScopeAt
        <5>3. i <= e BY <1>1, <4>2
        <5>4. q = Len(Stack(b, e)) /\ \A r \in 1..q : Stack(b, i)[r] = Stack(b, e)[r]
          BY <1>2, <2>1, <5>1, <5>2, <5>3, StacksShare
        <5>5. p \in 1..q /\ p \in DOMAIN Stack(b, e)
          <6>1. /\ DOMAIN Stack(b, i) = 1..Len(Stack(b, i)) /\ Len(Stack(b, i)) \in Nat
                /\ DOMAIN Stack(b, e) = 1..Len(Stack(b, e)) /\ Len(Stack(b, e)) \in Nat
            BY <1>2, <2>1, ScopeNumbers
          <6> QED BY <1>4, <1>5, <5>4, <6>1
        <5>6. Stack(b, e)[p] = ScopeAt(b, d) BY <1>3, <5>4, <5>5
        <5> QED BY <5>5, <5>6 DEF OpenAt
      <4> QED BY <1>1, <4>1, <4>2
    <3>2. d \in 1..e - 1 BY <1>1, <1>2, <2>4
    <3> QED BY <1>2, <1>5, <3>1, <3>2 DEF Distinct
  <2> QED BY <1>1, <1>2, <2>3, <2>4
<1> QED BY <1>3, <1>4, <1>5

(* Of a name, one declaration at most is in sight.                         *)
LEMMA OneSeen ==
  ASSUME NEW b, WellNested(b), NEW ps, Distinct(b, ps), NEW i \in 1..Len(b), NEW n,
         NEW d, Seen(b, d, i, n), NEW e, Seen(b, e, i, n)
  PROVE  d = e
<1>1. Len(b) \in Nat BY LenProperties DEF WellNested
<1>2. /\ d \in 1..Len(b) /\ b[d].op = "declare" /\ b[d].name = n
      /\ e \in 1..Len(b) /\ b[e].op = "declare" /\ b[e].name = n
  BY <1>1 DEF Seen
<1>3. /\ Len(Stack(b, d)) \in DOMAIN Stack(b, i)
      /\ Stack(b, i)[Len(Stack(b, d))] = ScopeAt(b, d)
      /\ Len(Stack(b, e)) \in DOMAIN Stack(b, i)
      /\ Stack(b, i)[Len(Stack(b, e))] = ScopeAt(b, e)
  BY OnlyOneDeeper
<1>4. Len(Stack(b, d)) \in Nat /\ Len(Stack(b, e)) \in Nat
  <2>1. d \in 0..Len(b) /\ e \in 0..Len(b) BY <1>1, <1>2
  <2> QED BY <2>1, ScopeNumbers
<1>5. CASE Len(Stack(b, d)) <= Len(Stack(b, e)) BY <1>2, <1>3, <1>5, OnlyOneDeeper
<1>6. CASE Len(Stack(b, e)) <= Len(Stack(b, d)) BY <1>2, <1>3, <1>6, OnlyOneDeeper
<1> QED BY <1>4, <1>5, <1>6

(* Some number of a set of numbers up to a bound is the largest.           *)
LEMMA Largest ==
  ASSUME NEW n \in Nat, NEW S \in SUBSET (1..n), S # {}
  PROVE  \E m \in S : \A k \in S : k <= m
<1> DEFINE Good == {m \in Nat : \A T \in SUBSET (1..m) :
                                  T # {} => \E x \in T : \A y \in T : y <= x}
<1>1. 0 \in Good
  <2>1. 1..0 = {} OBVIOUS
  <2> QED BY <2>1
<1>2. ASSUME NEW m \in Nat, m \in Good PROVE m + 1 \in Good
  <2> SUFFICES ASSUME NEW T \in SUBSET (1..m + 1), T # {}
               PROVE  \E x \in T : \A y \in T : y <= x
    OBVIOUS
  <2>1. CASE m + 1 \in T
    <3>1. \A y \in T : y <= m + 1 OBVIOUS
    <3> QED BY <2>1, <3>1
  <2>2. CASE m + 1 \notin T
    <3>1. T \in SUBSET (1..m) BY <2>2
    <3> QED BY <1>2, <3>1
  <2> QED BY <2>1, <2>2
<1> HIDE DEF Good
<1>3. Nat \subseteq Good BY <1>1, <1>2, Induct
<1> QED BY <1>3 DEF Good

(* Some number of a set of numbers is the smallest.                        *)
LEMMA Smallest ==
  ASSUME NEW S \in SUBSET Nat, S # {}
  PROVE  \E m \in S : \A k \in S : m <= k
<1>1. PICK m \in S : \A k \in S : ~(<<k, m>> \in OpToRel(<, Nat))
  BY NatLessThanWellFounded, WFMin
<1>2. \A k \in S : ~(k < m) BY <1>1 DEF OpToRel
<1> QED BY <1>2

\* A pass with the tables of the body, at item i.
At(s, i) ==
  /\ Tables(body, s.scopes) /\ Complete(body, s.scopes) /\ s.open = Stack(body, i)

(* The deepest open scope that holds a name is one of those that do.       *)
LEMMA DepthHolds ==
  ASSUME WellNested(body), NEW s, NEW i \in 1..Len(body), s.open = Stack(body, i),
         NEW key, Found(s, key)
  PROVE  /\ Depth(s, key) \in Holders(s, key)
         /\ \A e \in Holders(s, key) : e <= Depth(s, key)
<1>1. body \in Seq(Items) /\ Len(body) \in Nat BY LenProperties DEF WellNested
<1>2. i \in 0..Len(body) BY <1>1
<1>3. Holders(s, key) \subseteq 1..Len(Stack(body, i)) /\ Len(Stack(body, i)) \in Nat
  BY <1>2, ScopeNumbers DEF Holders
<1>4. \E d \in Holders(s, key) : \A e \in Holders(s, key) : e <= d
  BY <1>3, Largest DEF Found
<1> QED BY <1>4 DEF Depth

(* So is the outermost, and it is no deeper.                               *)
LEMMA OutermostHolds ==
  ASSUME WellNested(body), NEW s, NEW i \in 1..Len(body), s.open = Stack(body, i),
         NEW key, Found(s, key)
  PROVE  /\ Outermost(s, key) \in Holders(s, key)
         /\ \A e \in Holders(s, key) : Outermost(s, key) <= e
<1>1. body \in Seq(Items) /\ Len(body) \in Nat BY LenProperties DEF WellNested
<1>2. i \in 0..Len(body) BY <1>1
<1>3. Holders(s, key) \subseteq 1..Len(Stack(body, i)) /\ Len(Stack(body, i)) \in Nat
  BY <1>2, ScopeNumbers DEF Holders
<1>4. Holders(s, key) \in SUBSET Nat BY <1>3
<1>5. \E d \in Holders(s, key) : \A e \in Holders(s, key) : d <= e
  BY <1>4, Smallest DEF Found
<1> QED BY <1>5 DEF Outermost

(* What a scope that holds a name has at the name's position.              *)
LEMMA HolderSymbol ==
  ASSUME WellNested(body), NEW s, NEW i \in 1..Len(body), At(s, i), NEW n,
         NEW m \in Holders(s, Key(n))
  PROVE  LET scope == s.scopes[Stack(body, i)[m]]
             p == Position(scope, Key(n))
         IN  /\ m \in DOMAIN Stack(body, i)
             /\ p \in 1..Len(scope.symbols) /\ scope.symbols[p] \in 1..Len(body)
             /\ body[scope.symbols[p]].op = "declare" /\ body[scope.symbols[p]].name = n
             /\ ScopeAt(body, scope.symbols[p]) = Stack(body, i)[m]
<1> DEFINE scope == s.scopes[Stack(body, i)[m]]
           p == Position(scope, Key(n))
<1>1. body \in Seq(Items) /\ Len(body) \in Nat BY LenProperties DEF WellNested
<1>2. m \in DOMAIN Stack(body, i) /\ Holds(scope, Key(n)) BY DEF Holders, At
<1>3. Stack(body, i)[m] \in 1..Len(s.scopes)
  <2>1. i \in 0..Len(body) BY <1>1
  <2> QED BY <1>2, <2>1, ScopeNumbers DEF At, Tables
<1>4. TableOf(body, scope, Stack(body, i)[m]) BY <1>3 DEF At, Tables
<1>5. DOMAIN scope.symbols = 1..Len(scope.symbols)
  <2>1. s.scopes \in Seq(Table) BY DEF At, Tables
  <2>2. scope \in Table BY <1>3, <2>1
  <2> QED BY <2>2, LenProperties DEF Table
<1>6. p \in DOMAIN scope.symbols /\ KeyOf(scope.symbols[p]) = Key(n)
  BY <1>2 DEF Holds, Position
<1>7. body[scope.symbols[p]].name = n BY <1>6 DEF KeyOf, Key
<1> HIDE DEF scope, p
<1>8. p \in 1..Len(scope.symbols) BY <1>5, <1>6
<1>9. /\ scope.symbols[p] \in 1..Len(body) /\ body[scope.symbols[p]].op = "declare"
      /\ ScopeAt(body, scope.symbols[p]) = Stack(body, i)[m]
  BY <1>4, <1>8 DEF TableOf
<1> QED BY <1>2, <1>7, <1>8, <1>9 DEF scope, p

(* A lookup of a name finds the declaration in sight, though the scopes    *)
(* hold those that come later as well.                                     *)
LEMMA FindsSeen ==
  ASSUME WellNested(body), NEW ps, Distinct(body, ps), NEW s, NEW i \in 1..Len(body),
         At(s, i), NEW n, NEW d, Seen(body, d, i, n)
  PROVE  /\ Found(s, Key(n)) /\ Depth(s, Key(n)) = Len(Stack(body, d))
         /\ Variable(s, Key(n)) = d
         /\ s.open[Len(Stack(body, d))] = ScopeAt(body, d)
<1> DEFINE top == Len(Stack(body, d))
           m == Depth(s, Key(n))
           scope == s.scopes[ScopeAt(body, d)]
<1>1. body \in Seq(Items) /\ Len(body) \in Nat /\ i \in 0..Len(body)
  BY LenProperties DEF WellNested
<1>2. d \in 1..Len(body) /\ d \in 0..Len(body) /\ body[d].op = "declare" /\ body[d].name = n
  BY <1>1 DEF Seen
<1>3. top \in DOMAIN Stack(body, i) /\ Stack(body, i)[top] = ScopeAt(body, d)
  BY OnlyOneDeeper
<1>4. top \in Holders(s, Key(n))
  <2>1. PICK p \in 1..Len(scope.symbols) : scope.symbols[p] = d
    BY <1>2 DEF At, Complete, Filed
  <2>2. DOMAIN scope.symbols = 1..Len(scope.symbols)
    <3>1. ScopeAt(body, d) \in 1..Len(s.scopes) BY <1>2, ScopeNumbers DEF At, Tables
    <3>2. scope \in Table
      <4>1. s.scopes \in Seq(Table) BY DEF At, Tables
      <4> QED BY <3>1, <4>1
    <3> QED BY <3>2, LenProperties DEF Table
  <2>3. Holds(scope, Key(n)) BY <1>2, <2>1, <2>2 DEF Holds, KeyOf
  <2> QED BY <1>3, <2>3 DEF Holders, At
<1>5. Found(s, Key(n)) BY <1>4 DEF Found
<1>6. m \in Holders(s, Key(n)) /\ top <= m
  <2>1. s.open = Stack(body, i) BY DEF At
  <2> QED BY <1>4, <1>5, <2>1, DepthHolds
<1> DEFINE found == s.scopes[Stack(body, i)[m]]
           p == Position(found, Key(n))
<1>7. /\ m \in DOMAIN Stack(body, i)
      /\ p \in 1..Len(found.symbols) /\ found.symbols[p] \in 1..Len(body)
      /\ body[found.symbols[p]].op = "declare" /\ body[found.symbols[p]].name = n
      /\ ScopeAt(body, found.symbols[p]) = Stack(body, i)[m]
  BY <1>6, HolderSymbol, SMTT(30)
<1>8. found.symbols[p] = d
  <2> DEFINE e == found.symbols[p]
  <2>1. /\ e \in 1..Len(body) /\ m \in DOMAIN Stack(body, i) /\ body[e].op = "declare"
        /\ body[e].name = n /\ Stack(body, i)[m] = ScopeAt(body, e)
        /\ Len(Stack(body, d)) <= m
    BY <1>6, <1>7
  <2> HIDE DEF e, m
  <2>2. e = d BY <2>1, OnlyOneDeeper
  <2> QED BY <2>2 DEF e, m
<1>9. m = top
  <2>1. Stack(body, i)[m] = Stack(body, i)[top] BY <1>3, <1>7, <1>8
  <2>2. i <= i BY <1>1
  <2> HIDE DEF m, top
  <2>3. m \in DOMAIN Stack(body, i) /\ top \in DOMAIN Stack(body, i) BY <1>3, <1>7
  <2> QED BY <1>1, <2>1, <2>2, <2>3, StacksShare
<1>10. Variable(s, Key(n)) = d BY <1>8 DEF Variable, At
<1> QED BY <1>3, <1>5, <1>9, <1>10 DEF At

(* Where no declaration of the name is in sight, one that is found comes   *)
(* later in an open block.                                                 *)
LEMMA FindsLater ==
  ASSUME WellNested(body), NEW s, NEW i \in 1..Len(body), At(s, i), NEW n,
         \A d : ~Seen(body, d, i, n), Found(s, Key(n))
  PROVE  /\ Variable(s, Key(n)) \in 1..Len(body) /\ Variable(s, Key(n)) \notin 1..i
         /\ body[Variable(s, Key(n))].op = "declare" /\ body[Variable(s, Key(n))].name = n
<1> DEFINE m == Depth(s, Key(n))
           v == Variable(s, Key(n))
<1>1. m \in Holders(s, Key(n))
  <2>1. s.open = Stack(body, i) BY DEF At
  <2> QED BY <2>1, DepthHolds
<1>2. /\ m \in DOMAIN Stack(body, i) /\ v \in 1..Len(body) /\ body[v].op = "declare"
      /\ body[v].name = n /\ ScopeAt(body, v) = Stack(body, i)[m]
  <2> DEFINE scope == s.scopes[Stack(body, i)[m]]
             p == Position(scope, Key(n))
  <2>1. /\ m \in DOMAIN Stack(body, i) /\ scope.symbols[p] \in 1..Len(body)
        /\ body[scope.symbols[p]].op = "declare" /\ body[scope.symbols[p]].name = n
        /\ ScopeAt(body, scope.symbols[p]) = Stack(body, i)[m]
    BY <1>1, HolderSymbol, SMTT(30)
  <2>2. v = scope.symbols[p] BY DEF Variable, At
  <2> QED BY <2>1, <2>2
<1> HIDE DEF m, v
<1>3. v \notin 1..i
  <2>1. OpenAt(body, v, i) BY <1>2 DEF OpenAt
  <2> QED BY <1>2, <2>1 DEF Seen
<1> QED BY <1>2, <1>3 DEF v

-----------------------------------------------------------------------------
Target == {<<>>} \cup ({"local"} \X Nat) \cup ({"parameter", "field"} \X Names)
PassState == [scopes : Seq(Table), open : Seq(Nat), declared : SUBSET Nat, at : Nat,
              met : Nat, refers : Seq(Target), ok : BOOLEAN]
KeySet == Names \X {"simple", "field"}

\* What a lookup does to the scopes it visits.
KeysAdded(ts, V, key) ==
  [i \in DOMAIN ts |-> IF i \in V THEN [ts[i] EXCEPT !.keys = @ \cup {key}] ELSE ts[i]]

(* A key more leaves the declarations of every scope as they were.         *)
LEMMA KeysAddedKeeps ==
  ASSUME NEW b, NEW ts, Tables(b, ts), NEW V, NEW key \in KeySet
  PROVE  /\ Tables(b, KeysAdded(ts, V, key))
         /\ Complete(b, ts) /\ WellNested(b) => Complete(b, KeysAdded(ts, V, key))
<1> DEFINE us == KeysAdded(ts, V, key)
<1>1. ts \in Seq(Table) /\ Len(ts) \in Nat /\ DOMAIN ts = 1..Len(ts) /\ Len(ts) = Met(b, Len(b))
  BY LenProperties DEF Tables
<1>2. ASSUME NEW j \in 1..Len(ts)
      PROVE  /\ us[j] \in Table /\ us[j].symbols = ts[j].symbols /\ TableOf(b, us[j], j)
             /\ ts[j].keys \subseteq us[j].keys
  <2>1. ts[j] \in Table /\ TableOf(b, ts[j], j) BY <1>1 DEF Tables
  <2>2. us[j] = IF j \in V THEN [ts[j] EXCEPT !.keys = @ \cup {key}] ELSE ts[j]
    BY <1>1 DEF KeysAdded
  <2> HIDE DEF us
  <2>3. CASE j \notin V BY <2>1, <2>2, <2>3
  <2>4. CASE j \in V
    <3>1. us[j] = [ts[j] EXCEPT !.keys = @ \cup {key}] BY <2>2, <2>4
    <3>2. us[j].symbols = ts[j].symbols /\ us[j].keys = ts[j].keys \cup {key}
          /\ us[j] \in Table
      BY <2>1, <3>1 DEF Table, KeySet
    <3>3. IsFiniteSet(us[j].keys) BY <2>1, <3>2, FS_AddElement DEF TableOf
    <3>4. TableOf(b, us[j], j)
      <4>1. \A k : k \in ts[j].keys => k \in us[j].keys BY <3>2
      <4> QED BY <2>1, <3>2, <3>3, <4>1 DEF TableOf
    <3> QED BY <3>2, <3>4
  <2> QED BY <2>3, <2>4
<1>3. us = [j \in 1..Len(ts) |-> us[j]] BY <1>1 DEF KeysAdded
<1> HIDE DEF us
<1>4. us \in [1..Len(ts) -> Table] BY <1>2, <1>3
<1>5. us \in Seq(Table) BY <1>1, <1>4
<1>6. Len(us) = Len(ts)
  <2>1. DOMAIN us = 1..Len(ts) BY <1>4
  <2>2. DOMAIN us = 1..Len(us) /\ Len(us) \in Nat BY <1>5, LenProperties
  <2> QED BY <1>1, <2>1, <2>2
<1>7. Tables(b, us) BY <1>1, <1>2, <1>5, <1>6 DEF Tables
<1>8. ASSUME Complete(b, ts), WellNested(b) PROVE Complete(b, us)
  <2> SUFFICES ASSUME NEW d \in 1..Len(b), b[d].op = "declare" PROVE Filed(b, us, d)
    BY DEF Complete
  <2>1. /\ ScopeAt(b, d) \in 1..Len(ts)
        /\ \A q \in DOMAIN Stack(b, d) : Stack(b, d)[q] \in 1..Len(ts)
    <3>1. b \in Seq(Items) /\ Len(b) \in Nat BY <1>8, LenProperties DEF WellNested
    <3>2. d \in 0..Len(b) BY <3>1
    <3> QED BY <1>1, <1>8, <3>2, ScopeNumbers
  <2>2. Filed(b, ts, d) BY <1>8 DEF Complete
  <2> QED BY <1>2, <2>1, <2>2 DEF Filed
<1> QED BY <1>7, <1>8 DEF us

(* A visit of open scopes in a pass changes nothing but keys.              *)
LEMMA VisitedKeeps ==
  ASSUME WellNested(body), NEW s \in PassState, NEW i \in 1..Len(body), At(s, i),
         NEW key \in KeySet, NEW depths
  PROVE  LET t == Visited(s, key, depths)
         IN  /\ t \in PassState /\ At(t, i)
             /\ t.declared = s.declared /\ t.at = s.at /\ t.met = s.met
             /\ t.refers = s.refers /\ t.ok = s.ok
<1> DEFINE V == {s.open[d] : d \in depths}
           us == KeysAdded(s.scopes, V, key)
           t == Visited(s, key, depths)
<1>1. t = [s EXCEPT !.scopes = us] BY DEF Visited, KeysAdded
<1>2. Tables(body, us) /\ Complete(body, us) BY KeysAddedKeeps DEF At
<1>3. us \in Seq(Table) BY <1>2 DEF Tables
<1> HIDE DEF us, t
<1>4. /\ t \in PassState /\ t.scopes = us /\ t.open = s.open
      /\ t.declared = s.declared /\ t.at = s.at /\ t.met = s.met
      /\ t.refers = s.refers /\ t.ok = s.ok
  BY <1>1, <1>3 DEF PassState
<1>5. At(t, i) BY <1>2, <1>4 DEF At
<1> QED BY <1>4, <1>5 DEF t

(* A lookup, and the walk for a position, are such visits.                 *)
LEMMA LookedUpKeeps ==
  ASSUME WellNested(body), NEW s \in PassState, NEW i \in 1..Len(body), At(s, i),
         NEW key \in KeySet
  PROVE  \A t \in {LookedUp(s, key), Positioned(s, key)} :
           /\ t \in PassState /\ At(t, i)
           /\ t.declared = s.declared /\ t.at = s.at /\ t.met = s.met
           /\ t.refers = s.refers /\ t.ok = s.ok
  BY VisitedKeeps DEF LookedUp, Positioned

(* A scope has at least as many keys as declarations.                      *)
LEMMA KeysEnough ==
  ASSUME WellNested(body), NEW ps, Distinct(body, ps), NEW t \in Table, NEW j,
         TableOf(body, t, j)
  PROVE  Len(t.symbols) <= Cardinality(t.keys) /\ Cardinality(t.keys) \in Nat
<1> DEFINE f == [p \in 1..Len(t.symbols) |-> KeyOf(t.symbols[p])]
<1>1. Len(t.symbols) \in Nat BY LenProperties DEF Table
<1>2. f \in [1..Len(t.symbols) -> t.keys] BY DEF TableOf, KeyOf
<1>3. ASSUME NEW p \in 1..Len(t.symbols), NEW q \in 1..Len(t.symbols), p < q
      PROVE  f[p] # f[q]
  <2> DEFINE d == t.symbols[p]
             e == t.symbols[q]
  <2>1. /\ d \in 1..Len(body) /\ e \in 1..Len(body) /\ d < e
        /\ body[d].op = "declare" /\ body[e].op = "declare"
        /\ ScopeAt(body, d) = j /\ ScopeAt(body, e) = j
    BY <1>3 DEF TableOf
  <2>2. OpenAt(body, d, e)
    <3>1. e \in 0..Len(body)
      <4>1. Len(body) \in Nat BY LenProperties DEF WellNested
      <4> QED BY <2>1, <4>1
    <3>2. Len(Stack(body, e)) \in DOMAIN Stack(body, e) BY <3>1, ScopeNumbers
    <3> QED BY <2>1, <3>2 DEF OpenAt, ScopeAt
  <2>3. d \in 1..e - 1 BY <2>1
  <2>4. body[d].name # body[e].name BY <2>1, <2>2, <2>3 DEF Distinct
  <2> QED BY <2>4 DEF KeyOf, Key
<1> HIDE DEF f
<1>4. \A p, q \in 1..Len(t.symbols) : f[p] = f[q] => p = q BY <1>1, <1>3
<1>5. f \in Injection(1..Len(t.symbols), t.keys) BY <1>2, <1>4 DEF Injection, IsInjective
<1>6. IsFiniteSet(t.keys) BY DEF TableOf
<1>7. Cardinality(1..Len(t.symbols)) = Len(t.symbols) BY <1>1, FS_Interval
<1>8. Cardinality(1..Len(t.symbols)) <= Cardinality(t.keys) BY <1>5, <1>6, FS_Injection
<1>9. Cardinality(t.keys) \in Nat BY <1>6, FS_CardinalityType
<1> QED BY <1>7, <1>8, <1>9

(* An open block's scope is a table.                                       *)
LEMMA OpenTables ==
  ASSUME WellNested(body), NEW s, NEW i \in 1..Len(body), At(s, i),
         NEW e \in 1..Len(Stack(body, i))
  PROVE  /\ s.scopes[s.open[e]] \in Table
         /\ TableOf(body, s.scopes[s.open[e]], Stack(body, i)[e])
<1>1. i \in 0..Len(body)
  <2>1. Len(body) \in Nat BY LenProperties DEF WellNested
  <2> QED BY <2>1
<1>2. Stack(body, i)[e] \in 1..Len(s.scopes) BY <1>1, ScopeNumbers DEF At, Tables
<1>3. s.scopes \in Seq(Table) BY DEF At, Tables
<1> QED BY <1>2, <1>3 DEF At, Tables

-----------------------------------------------------------------------------
\* The offsets getInsertPosition adds up below depth d.
OffsetStep(s, f, e) ==
  IF e = 0 THEN 0 ELSE f[e - 1] + Cardinality(s.scopes[s.open[e]].keys)
Offset(s, d) == CHOOSE f : f = [e \in 0..(d - 1) |-> OffsetStep(s, f, e)]

(* The recursion of InsertPosition has a solution.                         *)
LEMMA OffsetExists ==
  ASSUME NEW s, NEW d \in Nat \ {0}
  PROVE  Offset(s, d) = [e \in 0..(d - 1) |-> OffsetStep(s, Offset(s, d), e)]
<1> DEFINE Good == {n \in Nat : \E f : f = [e \in 0..n |-> OffsetStep(s, f, e)]}
<1>1. 0 \in Good
  <2> DEFINE f == [e \in 0..0 |-> 0]
  <2>1. f = [e \in 0..0 |-> OffsetStep(s, f, e)] BY DEF OffsetStep
  <2> HIDE DEF f
  <2> QED BY <2>1
<1>2. ASSUME NEW n \in Nat, n \in Good PROVE n + 1 \in Good
  <2>1. PICK f : f = [e \in 0..n |-> OffsetStep(s, f, e)] BY <1>2
  <2> DEFINE g == [e \in 0..n + 1 |-> IF e \in 0..n THEN f[e] ELSE OffsetStep(s, f, n + 1)]
  <2>2. ASSUME NEW e \in 0..n + 1 PROVE g[e] = OffsetStep(s, g, e)
    <3>1. e # 0 => e - 1 \in 0..n BY <2>2
    <3>2. e # 0 => g[e - 1] = f[e - 1] BY <3>1
    <3>3. OffsetStep(s, g, e) = OffsetStep(s, f, e) BY <3>2 DEF OffsetStep
    <3>4. CASE e \in 0..n BY <3>3, <3>4, <2>1
    <3>5. CASE e = n + 1 BY <3>3, <3>5
    <3> QED BY <2>2, <3>4, <3>5
  <2>3. g = [e \in 0..n + 1 |-> g[e]] OBVIOUS
  <2> HIDE DEF g
  <2>4. g = [e \in 0..n + 1 |-> OffsetStep(s, g, e)] BY <2>2, <2>3
  <2> QED BY <2>4
<1>3. Nat \subseteq Good BY <1>1, <1>2, Induct
<1>4. d - 1 \in Nat OBVIOUS
<1>5. \E f : f = [e \in 0..(d - 1) |-> OffsetStep(s, f, e)] BY <1>3, <1>4
<1> QED BY <1>5 DEF Offset

(* Offsets are numbers, grow with the depth, and are the same seen from    *)
(* every depth.                                                            *)
LEMMA OffsetsGrow ==
  ASSUME WellNested(body), NEW ps, Distinct(body, ps), NEW s, NEW i \in 1..Len(body),
         At(s, i), NEW c \in 1..Len(Stack(body, i)), NEW d \in 1..Len(Stack(body, i)),
         c < d
  PROVE  /\ Offset(s, c)[c - 1] \in Nat /\ Offset(s, d)[d - 1] \in Nat
         /\ Offset(s, c)[c - 1] + Cardinality(s.scopes[s.open[c]].keys)
              <= Offset(s, d)[d - 1]
<1> DEFINE keys(e) == Cardinality(s.scopes[s.open[e]].keys)
<1>1. \A e \in 1..Len(Stack(body, i)) : keys(e) \in Nat BY OpenTables, KeysEnough
<1>2. Len(Stack(body, i)) \in Nat /\ c \in Nat \ {0} /\ d \in Nat \ {0}
  <2>1. Len(body) \in Nat BY LenProperties DEF WellNested
  <2>2. i \in 0..Len(body) BY <2>1
  <2>3. Len(Stack(body, i)) \in Nat BY <2>2, ScopeNumbers
  <2> QED BY <2>3
<1> DEFINE C == Offset(s, c)
           D == Offset(s, d)
<1>3. /\ C[0] = 0 /\ \A e \in 1..c - 1 : C[e] = C[e - 1] + keys(e)
      /\ D[0] = 0 /\ \A e \in 1..d - 1 : D[e] = D[e - 1] + keys(e)
  BY <1>2, OffsetExists DEF OffsetStep
<1> HIDE DEF keys, C, D
<1>4. \A n \in Nat : n <= d - 1 => /\ D[n] \in Nat /\ (n <= c - 1 => C[n] = D[n])
                                   /\ (c <= n => C[c - 1] \in Nat /\ C[c - 1] + keys(c) <= D[n])
  <2> DEFINE Good == {n \in Nat : n <= d - 1 => /\ D[n] \in Nat /\ (n <= c - 1 => C[n] = D[n])
                                               /\ (c <= n => C[c - 1] \in Nat /\ C[c - 1] + keys(c) <= D[n])}
  <2>1. 0 \in Good BY <1>2, <1>3
  <2>2. ASSUME NEW n \in Nat, n \in Good PROVE n + 1 \in Good
    <3> SUFFICES ASSUME n + 1 <= d - 1
                 PROVE  /\ D[n + 1] \in Nat /\ (n + 1 <= c - 1 => C[n + 1] = D[n + 1])
                        /\ (c <= n + 1 => C[c - 1] \in Nat /\ C[c - 1] + keys(c) <= D[n + 1])
      OBVIOUS
    <3>1. /\ D[n] \in Nat /\ (n <= c - 1 => C[n] = D[n])
          /\ (c <= n => C[c - 1] \in Nat /\ C[c - 1] + keys(c) <= D[n])
      BY <1>2, <2>2
    <3>2. n + 1 \in 1..d - 1 /\ (n + 1) - 1 = n /\ n + 1 \in 1..Len(Stack(body, i)) BY <1>2
    <3>3. D[n + 1] = D[n] + keys(n + 1) BY <1>3, <3>2
    <3>4. n + 1 <= c - 1 => C[n + 1] = C[n] + keys(n + 1) BY <1>3, <3>2
    <3>5. keys(n + 1) \in Nat BY <1>1, <3>2
    <3>6. CASE c = n + 1
      <4>1. C[c - 1] = D[n] BY <1>2, <3>1, <3>6
      <4> QED BY <1>2, <3>1, <3>3, <3>5, <3>6, <4>1
    <3>7. CASE c # n + 1
      <4>1. c <= n + 1 => C[c - 1] \in Nat /\ C[c - 1] + keys(c) <= D[n]
        BY <1>2, <3>1, <3>7
      <4>2. keys(c) \in Nat BY <1>1
      <4>3. c <= n + 1 => C[c - 1] + keys(c) <= D[n + 1] BY <3>1, <3>3, <3>5, <4>1, <4>2
      <4>4. n + 1 <= c - 1 => C[n + 1] = D[n + 1] BY <1>2, <3>1, <3>3, <3>4
      <4>5. D[n + 1] \in Nat BY <3>1, <3>3, <3>5
      <4> QED BY <4>1, <4>3, <4>4, <4>5
    <3> QED BY <3>6, <3>7
  <2> HIDE DEF Good
  <2>3. Nat \subseteq Good BY <2>1, <2>2, Induct
  <2> QED BY <2>3 DEF Good
<1>5. c - 1 \in Nat /\ d - 1 \in Nat /\ c - 1 <= d - 1 /\ c <= d - 1 BY <1>2
<1>6. C[c - 1] = D[c - 1] /\ D[c - 1] \in Nat /\ D[d - 1] \in Nat
      /\ C[c - 1] + keys(c) <= D[d - 1]
  BY <1>4, <1>5
<1> QED BY <1>6 DEF keys, C, D

(* Where an open scope holds a name, earlier or later than the item, every *)
(* scope outside it has the name's key.                                    *)
LEMMA HolderFiled ==
  ASSUME WellNested(body), NEW s, NEW i \in 1..Len(body), At(s, i), NEW n,
         NEW m \in Holders(s, Key(n)), NEW r \in 1..m
  PROVE  Key(n) \in s.scopes[s.open[r]].keys
<1> DEFINE d == s.scopes[Stack(body, i)[m]].symbols[Position(s.scopes[Stack(body, i)[m]], Key(n))]
<1>1. /\ m \in DOMAIN Stack(body, i) /\ d \in 1..Len(body) /\ body[d].op = "declare"
      /\ body[d].name = n /\ ScopeAt(body, d) = Stack(body, i)[m]
  BY HolderSymbol, SMTT(30)
<1> HIDE DEF d
<1>2. body \in Seq(Items) /\ Len(body) \in Nat /\ i \in 0..Len(body) /\ d \in 0..Len(body)
  BY <1>1, LenProperties DEF WellNested
<1>3. Filed(body, s.scopes, d) /\ s.open = Stack(body, i) BY <1>1 DEF At, Complete
<1> DEFINE top == Len(Stack(body, d))
<1>4. top \in DOMAIN Stack(body, d) /\ Stack(body, d)[top] = Stack(body, i)[m]
  BY <1>1, <1>2, ScopeNumbers DEF ScopeAt
<1>5. m = top /\ Stack(body, i)[r] = Stack(body, d)[r]
  <2> HIDE DEF top
  <2>1. CASE i <= d BY <1>1, <1>2, <1>4, <2>1, StacksShare
  <2>2. CASE d <= i
    <3>1. top = m /\ \A q \in 1..top : Stack(body, d)[q] = Stack(body, i)[q]
      BY <1>1, <1>2, <1>4, <2>2, StacksShare
    <3> QED BY <3>1
  <2> QED BY <1>2, <2>1, <2>2
<1>6. r \in DOMAIN Stack(body, d)
  <2>1. DOMAIN Stack(body, d) = 1..top /\ top \in Nat BY <1>2, ScopeNumbers
  <2> HIDE DEF top
  <2> QED BY <1>5, <2>1
<1> QED BY <1>1, <1>3, <1>5, <1>6 DEF Filed

(* So the walk for a position adds no key where the name is found.         *)
LEMMA PositionedSame ==
  ASSUME WellNested(body), NEW s \in PassState, NEW i \in 1..Len(body), At(s, i), NEW n,
         Found(s, Key(n))
  PROVE  Positioned(s, Key(n)) = s
<1> DEFINE key == Key(n)
           c == Outermost(s, key)
           us == KeysAdded(s.scopes, {s.open[d] : d \in 1..c}, key)
<1>1. c \in Holders(s, key)
  <2>1. s.open = Stack(body, i) BY DEF At
  <2> QED BY <2>1, OutermostHolds
<1>2. \A d \in 1..c : key \in s.scopes[s.open[d]].keys BY <1>1, HolderFiled
<1>3. s.scopes \in Seq(Table) /\ DOMAIN s.scopes = 1..Len(s.scopes)
  BY LenProperties DEF PassState
<1> HIDE DEF key, c
<1>4. ASSUME NEW k \in DOMAIN s.scopes PROVE us[k] = s.scopes[k]
  <2>1. CASE k \in {s.open[d] : d \in 1..c}
    <3>1. us[k] = [s.scopes[k] EXCEPT !.keys = @ \cup {key}] BY <2>1 DEF KeysAdded
    <3>2. key \in s.scopes[k].keys BY <1>2, <2>1
    <3>3. s.scopes[k] \in Table BY <1>3
    <3> DEFINE t == s.scopes[k]
    <3>4. t.keys \cup {key} = t.keys BY <3>2
    <3> HIDE DEF t
    <3>5. us[k] = [t EXCEPT !.keys = t.keys] BY <3>1, <3>4 DEF t
    <3>6. t \in Table BY <3>3 DEF t
    <3>7. [t EXCEPT !.keys = t.keys] = t BY <3>6 DEF Table
    <3> QED BY <3>5, <3>7 DEF t
  <2>2. CASE k \notin {s.open[d] : d \in 1..c} BY <2>2 DEF KeysAdded
  <2> QED BY <2>1, <2>2
<1>5. us = [k \in DOMAIN s.scopes |-> us[k]] BY DEF KeysAdded
<1> HIDE DEF us
<1>6. us = s.scopes
  <2>1. us = [k \in DOMAIN s.scopes |-> s.scopes[k]] BY <1>4, <1>5
  <2>2. s.scopes = [k \in DOMAIN s.scopes |-> s.scopes[k]] BY <1>3
  <2> QED BY <2>1, <2>2
<1>7. Positioned(s, key) = [s EXCEPT !.scopes = us]
  BY DEF Positioned, Visited, KeysAdded, us, c
<1>8. [s EXCEPT !.scopes = s.scopes] = s BY DEF PassState
<1> QED BY <1>6, <1>7, <1>8 DEF key

(* The positions of two names in sight are in the order of their           *)
(* declarations, whatever keys lookups have left in the scopes, provided   *)
(* that the outermost declaration of the later name, which may come after  *)
(* the item, is not outside the block of the earlier one.                  *)
LEMMA PositionsInOrder ==
  ASSUME WellNested(body), NEW ps, Distinct(body, ps), NEW s, NEW i \in 1..Len(body),
         At(s, i), NEW n, NEW d, Seen(body, d, i, n), NEW x, Seen(body, i, i, x), d < i,
         Len(Stack(body, d)) <= Outermost(s, Key(x))
  PROVE  ~(InsertPosition(s, Key(x)) < InsertPosition(s, Key(n)))
<1> DEFINE top == Len(Stack(body, d))
           c == Outermost(s, Key(n))
           e == Outermost(s, Key(x))
           p == Position(s.scopes[s.open[c]], Key(n))
           q == Position(s.scopes[s.open[e]], Key(x))
           j == s.scopes[s.open[e]].symbols[q]
<1>0. s.open = Stack(body, i) BY DEF At
<1>1. body \in Seq(Items) /\ Len(body) \in Nat /\ i \in 0..Len(body) /\ d \in 0..Len(body)
  BY LenProperties DEF WellNested, Seen
<1>2. /\ Depth(s, Key(n)) = top /\ Variable(s, Key(n)) = d /\ Found(s, Key(n))
      /\ Found(s, Key(x))
  BY FindsSeen
<1>3. c \in Holders(s, Key(n)) /\ e \in Holders(s, Key(x)) /\ c <= top
  <2>1. top \in Holders(s, Key(n)) BY <1>0, <1>2, DepthHolds
  <2> QED BY <1>0, <1>2, <2>1, OutermostHolds
<1>4. /\ c \in DOMAIN Stack(body, i) /\ p \in 1..Len(s.scopes[s.open[c]].symbols)
  BY <1>0, <1>3, HolderSymbol
<1>5. /\ e \in DOMAIN Stack(body, i) /\ q \in 1..Len(s.scopes[s.open[e]].symbols)
      /\ j \in 1..Len(body) /\ body[j].op = "declare" /\ body[j].name = x
      /\ ScopeAt(body, j) = Stack(body, i)[e]
  <2> HIDE DEF e
  <2> QED BY <1>0, <1>3, HolderSymbol, SMTT(60) DEF j, q
<1>6. /\ c \in 1..Len(Stack(body, i)) /\ e \in 1..Len(Stack(body, i))
      /\ c \in Nat \ {0} /\ e \in Nat \ {0} /\ top \in Nat /\ c <= e
  <2>1. /\ DOMAIN Stack(body, i) = 1..Len(Stack(body, i)) /\ Len(Stack(body, i)) \in Nat
        /\ top \in Nat
    BY <1>1, ScopeNumbers
  <2>2. c \in DOMAIN Stack(body, i) /\ e \in DOMAIN Stack(body, i) /\ c <= top /\ top <= e
    BY <1>3, <1>4, <1>5
  <2> HIDE DEF c, e, top
  <2> QED BY <2>1, <2>2
<1>7. /\ InsertPosition(s, Key(n)) = Offset(s, c)[c - 1] + p - 1
      /\ InsertPosition(s, Key(x)) = Offset(s, e)[e - 1] + q - 1
  BY DEF InsertPosition, Offset, OffsetStep
<1>8. /\ Len(s.scopes[s.open[c]].symbols) <= Cardinality(s.scopes[s.open[c]].keys)
      /\ Cardinality(s.scopes[s.open[c]].keys) \in Nat
      /\ Len(s.scopes[s.open[c]].symbols) \in Nat
  <2>1. /\ s.scopes[s.open[c]] \in Table
        /\ TableOf(body, s.scopes[s.open[c]], Stack(body, i)[c])
    BY <1>6, OpenTables
  <2> QED BY <2>1, KeysEnough, LenProperties DEF Table
<1>9. CASE c < e
  <2>1. /\ Offset(s, c)[c - 1] \in Nat /\ Offset(s, e)[e - 1] \in Nat
        /\ Offset(s, c)[c - 1] + Cardinality(s.scopes[s.open[c]].keys)
             <= Offset(s, e)[e - 1]
    BY <1>6, <1>9, OffsetsGrow
  <2>2. p \in Nat /\ q \in Nat /\ p <= Len(s.scopes[s.open[c]].symbols) /\ 1 <= q
    <3>1. Len(s.scopes[s.open[e]].symbols) \in Nat
      <4>1. s.scopes[s.open[e]] \in Table BY <1>6, OpenTables
      <4> QED BY <4>1, LenProperties DEF Table
    <3> HIDE DEF c, e, p, q, j
    <3> QED BY <1>4, <1>5, <1>8, <3>1
  <2> HIDE DEF c, e, p, q
  <2> QED BY <1>7, <1>8, <2>1, <2>2, SMTT(60)
<1>10. CASE c = e
  <2>1. TableOf(body, s.scopes[s.open[e]], Stack(body, i)[e]) BY <1>6, OpenTables
  <2>2. c = Depth(s, Key(n))
    <3> HIDE DEF c, e, top
    <3> QED BY <1>2, <1>3, <1>6, <1>10 DEF e, top
  <2>3. /\ p \in 1..Len(s.scopes[s.open[e]].symbols)
        /\ s.scopes[s.open[e]].symbols[p] = d
    BY <1>2, <1>4, <1>10, <2>2 DEF Variable
  <2>4. p \in Nat /\ q \in Nat
    <3> HIDE DEF c, e, p, q, j
    <3> QED BY <1>4, <1>5, <1>8, <1>10
  <2>5. i <= j
    <3>1. ASSUME j \in 1..i PROVE j = i
      <4>1. OpenAt(body, j, i) BY <1>5 DEF OpenAt
      <4>2. Seen(body, j, i, x) BY <1>5, <3>1, <4>1 DEF Seen
      <4> HIDE DEF j
      <4> QED BY <4>2, OneSeen
    <3> HIDE DEF j
    <3> QED BY <1>1, <1>5, <3>1
  <2>6. p <= q
    <3>1. q < p => s.scopes[s.open[e]].symbols[q] < s.scopes[s.open[e]].symbols[p]
      BY <1>5, <2>1, <2>3 DEF TableOf
    <3>2. ~(q < p)
      <4>1. s.scopes[s.open[e]].symbols[q] = j OBVIOUS
      <4> HIDE DEF j, q, p
      <4> QED BY <1>1, <1>5, <2>3, <2>5, <3>1, <4>1
    <3> QED BY <2>4, <3>2
  <2>7. Offset(s, e)[e - 1] \in Nat
    <3>1. CASE e = 1
      <4>1. Offset(s, e)[0] = 0 BY <1>6, OffsetExists DEF OffsetStep
      <4> QED BY <3>1, <4>1
    <3>2. CASE e # 1
      <4>1. 1 \in 1..Len(Stack(body, i)) /\ 1 < e
        <5>1. Len(Stack(body, i)) \in Nat BY <1>1, ScopeNumbers
        <5> HIDE DEF e
        <5> QED BY <1>6, <3>2, <5>1
      <4> QED BY <1>6, <4>1, OffsetsGrow
    <3> QED BY <3>1, <3>2
  <2>8. InsertPosition(s, Key(n)) = Offset(s, e)[e - 1] + p - 1 BY <1>7, <1>10
  <2> HIDE DEF c, e, p, q
  <2> QED BY <1>7, <2>4, <2>6, <2>7, <2>8
<1>11. c < e \/ c = e
  <2> HIDE DEF c, e
  <2> QED BY <1>6
<1> QED BY <1>9, <1>10, <1>11

-----------------------------------------------------------------------------
(* What an item may be.                                                    *)
LEMMA ItemKinds ==
  ASSUME NEW x \in Items
  PROVE  /\ x.op \in {"open", "close", "use", "declare"}
         /\ x.op = "declare" => x.name \in Names
         /\ x.op # "declare" => x.name = None
         /\ x.use.name # None => x.use \in Use /\ x.op \in {"use", "declare"}
<1>1. CASE x = Open BY <1>1 DEF Open, Missing
<1>2. CASE x = Close BY <1>2 DEF Close, Missing
<1>3. ASSUME NEW n \in Names, x = Mention([name |-> n, form |-> "simple"])
      PROVE  /\ x.op = "use" /\ x.name = None /\ x.use \in Use
  BY <1>3 DEF Mention, Use, Forms
<1>4. ASSUME NEW n \in Names, NEW u \in Use \cup {Literal, Missing}, x = Declare(n, u)
      PROVE  /\ x.op = "declare" /\ x.name \in Names
             /\ x.use.name # None => x.use \in Use
  BY <1>4 DEF Declare, Literal, Missing
<1>5. CASE \E n \in Names : x = Mention([name |-> n, form |-> "simple"])
  <2>1. x.op = "use" /\ x.name = None /\ x.use \in Use BY <1>3, <1>5
  <2> QED BY <2>1
<1>6. CASE \E n \in Names, u \in Use \cup {Literal, Missing} : x = Declare(n, u)
  <2>1. /\ x.op = "declare" /\ x.name \in Names
        /\ x.use.name # None => x.use \in Use
    BY <1>4, <1>6
  <2> QED BY <2>1
<1> QED BY <1>1, <1>2, <1>5, <1>6 DEF Items

(* A declaration is in sight of itself.                                    *)
LEMMA SeesItself ==
  ASSUME NEW b, WellNested(b), NEW i \in 1..Len(b), b[i].op = "declare"
  PROVE  Seen(b, i, i, b[i].name)
<1>1. Len(b) \in Nat BY LenProperties DEF WellNested
<1>2. i \in 0..Len(b) BY <1>1
<1>3. Len(Stack(b, i)) \in DOMAIN Stack(b, i) BY <1>2, ScopeNumbers
<1> QED BY <1>1, <1>3 DEF Seen, OpenAt, ScopeAt

\* NoRedeclaration of Scopes, of any body.
NoneTwice(b, ps) ==
  \A i \in DOMAIN b : b[i].op = "declare" =>
    b[i].name \notin ps /\ LocalsIn(b, i, b[i].name) = {i}

(* The rule of the language, that a local may not be declared in the scope *)
(* of another of its name, is that declarations are distinct in sight.     *)
LEMMA DistinctIsTheRule ==
  ASSUME NEW b, WellNested(b), NEW ps
  PROVE  Distinct(b, ps) <=> NoneTwice(b, ps)
<1>1. Len(b) \in Nat /\ DOMAIN b = 1..Len(b) BY LenProperties DEF WellNested
<1>2. ASSUME NEW i \in 1..Len(b), b[i].op = "declare"
      PROVE  LocalsIn(b, i, b[i].name) = {i}
               <=> \A d \in 1..i - 1 : b[d].op = "declare" /\ b[d].name = b[i].name =>
                                         ~OpenAt(b, d, i)
  <2>1. LocalsIn(b, i, b[i].name)
          = {d \in 1..i : b[d].op = "declare" /\ b[d].name = b[i].name /\ OpenAt(b, d, i)}
    BY LocalsAreOpen
  <2>2. i \in LocalsIn(b, i, b[i].name) BY <1>2, <2>1, SeesItself DEF Seen
  <2>3. \A d \in 1..i : d = i \/ d \in 1..i - 1 BY <1>1
  <2>4. \A d \in 1..i - 1 : d \in 1..i /\ d # i BY <1>1
  <2> QED BY <2>1, <2>2, <2>3, <2>4
<1> QED BY <1>1, <1>2 DEF Distinct, NoneTwice

(* What the language says a name means, by what is in sight.               *)
LEMMA MeaningBySight ==
  ASSUME WellNested(body), Distinct(body, parameters), NEW i \in 1..Len(body), NEW n
  PROVE  /\ \A d : Seen(body, d, i, n) => Meaning(i, n) = <<"local", d>>
         /\ (\A d : ~Seen(body, d, i, n)) =>
              Meaning(i, n) = IF n \in parameters THEN <<"parameter", n>>
                              ELSE IF this /\ n \in fields \cup inherited THEN <<"field", n>>
                              ELSE <<>>
<1>1. Locals(i, n) = LocalsIn(body, i, n)
  BY DEF Locals, LocalsIn, InScope, Level, LevelIn
<1>2. Locals(i, n)
        = {d \in 1..i : body[d].op = "declare" /\ body[d].name = n /\ OpenAt(body, d, i)}
  BY <1>1, LocalsAreOpen
<1>3. \A d : d \in Locals(i, n) <=> Seen(body, d, i, n) BY <1>2 DEF Seen
<1>4. ASSUME NEW d, Seen(body, d, i, n) PROVE Meaning(i, n) = <<"local", d>>
  <2>1. Locals(i, n) # {} /\ \A e \in Locals(i, n) : e = d BY <1>3, <1>4, OneSeen
  <2>2. (CHOOSE e \in Locals(i, n) : TRUE) = d BY <2>1
  <2> QED BY <2>1, <2>2 DEF Meaning
<1>5. ASSUME \A d : ~Seen(body, d, i, n) PROVE Locals(i, n) = {} BY <1>3, <1>5
<1> QED BY <1>4, <1>5 DEF Meaning

(* The rule as the module states it.                                       *)
LEMMA DistinctNow ==
  ASSUME WellNested(body)
  PROVE  Distinct(body, parameters) <=> NoRedeclaration
<1>1. NoneTwice(body, parameters) <=> NoRedeclaration
  BY DEF NoneTwice, NoRedeclaration, Locals, LocalsIn, InScope, Level, LevelIn
<1> QED BY <1>1, DistinctIsTheRule

-----------------------------------------------------------------------------
\* What the environment builder leaves to the passes.
Ready ==
  /\ WellNested(body) /\ Distinct(body, parameters)
  /\ Tables(body, scopes) /\ Complete(body, scopes)
  /\ refers \in Seq(Target) /\ Len(refers) = Len(body)

\* The language rejects the body, or one of the exceptions RejectsOnlyInvalid makes
\* is in it.
Wrong == ~InheritedBefore /\ ~DeclaredOutside => ~Valid

\* A pass keeps the tables of the body and is at the item it says.
OnItsWay(s, at, i) ==
  /\ s \in PassState /\ Tables(body, s.scopes) /\ Complete(body, s.scopes)
  /\ Len(s.refers) = Len(body)
  /\ s.ok => s.at = at /\ s.open = Stack(body, i) /\ s.met = Met(body, i)
  /\ ~s.ok => Wrong

\* What each pass has established of the first i items.
Established(kind, s, i) ==
  /\ kind # "types" => s.refers = refers
  /\ kind = "types" /\ s.ok =>
       /\ s.declared = {d \in 1..i : body[d].op = "declare"}
       /\ \A k \in 1..i : body[k].use.name # None =>
            s.refers[k] = Meaning(k, body[k].use.name)
  /\ kind = "locals" /\ s.ok =>
       \A k \in 1..i : body[k].op = "declare" => body[k].use # Missing

PassInv(kind, s, i) == OnItsWay(s, i + 1, i) /\ Established(kind, s, i)

(* A pass is at an item with the scopes open that are open there.          *)
LEMMA SameBlock ==
  ASSUME WellNested(body), NEW i \in 1..Len(body), body[i].op \notin {"open", "close"}
  PROVE  Stack(body, i) = Stack(body, i - 1) /\ Met(body, i) = Met(body, i - 1)
  BY NestSteps DEF WellNested

(* Disambiguation rejects a name only where nothing has it.                *)
LEMMA DisambiguatedRight ==
  ASSUME Ready, NEW i \in 1..Len(body), NEW s, OnItsWay(s, i, i), s.ok
  PROVE  /\ OnItsWay(Disambiguated(s, body[i]), i, i)
         /\ Disambiguated(s, body[i]).refers = s.refers
<1> DEFINE n == body[i].use.name
           t == LookedUp(s, Key(n))
<1>1. CASE n = None BY <1>1 DEF Disambiguated
<1>2. CASE n # None
  <2>0. body \in Seq(Items) /\ DOMAIN body = 1..Len(body)
    BY LenProperties DEF Ready, WellNested
  <2>1. n \in Names
    <3>1. body[i] \in Items BY <2>0
    <3>2. body[i].use \in Use BY <1>2, <3>1, ItemKinds
    <3> QED BY <3>2 DEF Use
  <2>2. At(s, i) BY DEF OnItsWay, At
  <2>3. Key(n) \in KeySet BY <2>1 DEF Key, KeySet
  <2>4. /\ t \in PassState /\ At(t, i) /\ t.at = s.at /\ t.met = s.met
        /\ t.refers = s.refers /\ t.ok = s.ok
    BY <2>2, <2>3, LookedUpKeeps DEF Ready, OnItsWay
  <2> HIDE DEF t
  <2>5. OnItsWay(t, i, i) BY <2>4 DEF OnItsWay, At
  <2>6. CASE Found(s, Key(n)) \/ n \in parameters \cup fields \cup inherited
    <3>1. Disambiguated(s, body[i]) = t BY <1>2, <2>6 DEF Disambiguated, t
    <3> QED BY <2>4, <2>5, <3>1
  <2>7. CASE ~Found(s, Key(n)) /\ n \notin parameters \cup fields \cup inherited
    <3>1. Disambiguated(s, body[i]) = [t EXCEPT !.ok = FALSE]
      BY <1>2, <2>7 DEF Disambiguated, Rejected, t
    <3>2. \A d : ~Seen(body, d, i, n) BY <2>2, <2>7, FindsSeen DEF Ready
    <3>3. Meaning(i, n) = <<>> BY <2>7, <3>2, MeaningBySight DEF Ready
    <3>4. i \in Uses BY <1>2, <2>0 DEF Uses
    <3>5. ~Valid BY <3>3, <3>4 DEF Valid
    <3> DEFINE r == [t EXCEPT !.ok = FALSE]
    <3>6. /\ r \in PassState /\ r.scopes = t.scopes /\ r.refers = t.refers /\ ~r.ok
      BY <2>4 DEF PassState
    <3> HIDE DEF r
    <3>7. OnItsWay(r, i, i) BY <2>4, <3>5, <3>6 DEF OnItsWay, At, Wrong
    <3> QED BY <2>4, <3>1, <3>6, <3>7 DEF r
  <2> QED BY <2>6, <2>7
<1> QED BY <1>1, <1>2

(* A pass that has thrown keeps its tables.                                *)
LEMMA RejectedRight ==
  ASSUME NEW i, NEW t \in PassState, At(t, i), Len(t.refers) = Len(body), Wrong
  PROVE  OnItsWay(Rejected(t), i, i) /\ Rejected(t).refers = t.refers /\ ~Rejected(t).ok
<1> DEFINE r == [t EXCEPT !.ok = FALSE]
<1>1. r \in PassState /\ r.scopes = t.scopes /\ r.refers = t.refers /\ ~r.ok
  BY DEF PassState
<1> HIDE DEF r
<1>2. OnItsWay(r, i, i) BY <1>1 DEF OnItsWay, At
<1>3. Rejected(t) = r BY DEF Rejected, r
<1> QED BY <1>1, <1>2, <1>3

(* But for the exception DeclaredOutside, a local's outermost declaration  *)
(* is not outside the block of a local its initialiser uses.               *)
LEMMA NotOutside ==
  ASSUME WellNested(body), NEW ps, Distinct(body, ps), NEW s, NEW i \in Compared, At(s, i),
         NEW d, Seen(body, d, i, body[i].use.name), ~DeclaredOutside
  PROVE  Len(Stack(body, d)) <= Outermost(s, Key(body[i].name))
<1> DEFINE x == body[i].name
           top == Len(Stack(body, d))
           e == Outermost(s, Key(x))
           scope == s.scopes[Stack(body, i)[e]]
           j == scope.symbols[Position(scope, Key(x))]
<1>0. s.open = Stack(body, i) BY DEF At
<1>1. /\ body \in Seq(Items) /\ Len(body) \in Nat /\ DOMAIN body = 1..Len(body)
      /\ i \in 1..Len(body) /\ i \in 0..Len(body) /\ body[i].op = "declare"
  BY LenProperties DEF WellNested, Compared, Uses
<1>2. d \in 1..Len(body) /\ d \in 0..Len(body) /\ d \in 1..i BY <1>1 DEF Seen
<1>3. Seen(body, i, i, x) BY <1>1, SeesItself
<1>4. e \in Holders(s, Key(x))
  <2>1. Found(s, Key(x)) BY <1>1, <1>3, FindsSeen
  <2> QED BY <1>0, <1>1, <2>1, OutermostHolds
<1>5. /\ e \in DOMAIN Stack(body, i) /\ j \in 1..Len(body) /\ body[j].op = "declare"
      /\ body[j].name = x /\ ScopeAt(body, j) = Stack(body, i)[e]
  <2>1. i \in 1..Len(body) BY <1>1
  <2> HIDE DEF e, x
  <2> QED BY <1>4, <2>1, HolderSymbol, SMTT(60)
<1> HIDE DEF e, j
<1>6. /\ Len(Stack(body, j)) \in DOMAIN Stack(body, j) /\ j \in 0..Len(body)
      /\ Stack(body, j)[Len(Stack(body, j))] = Stack(body, i)[e]
  BY <1>1, <1>5, ScopeNumbers DEF ScopeAt
<1>7. top \in Nat /\ e \in Nat /\ Len(Stack(body, j)) \in Nat
  BY <1>1, <1>2, <1>5, <1>6, ScopeNumbers
<1>8. CASE j \in 1..i
  <2>1. Seen(body, j, i, x) BY <1>5, <1>8 DEF Seen, OpenAt
  <2>2. j = i BY <1>1, <1>3, <2>1, OneSeen
  <2>3. e = Len(Stack(body, i)) /\ i <= i BY <1>1, <1>5, <1>6, <2>2, StacksShare
  <2>4. top \in DOMAIN Stack(body, i) BY <1>1, OnlyOneDeeper
  <2> QED BY <1>1, <1>7, <2>3, <2>4, ScopeNumbers DEF e, x
<1>9. CASE j \notin 1..i
  <2>1. i < j BY <1>1, <1>5, <1>9
  <2>2. e = Len(Stack(body, j)) BY <1>1, <1>5, <1>6, <2>1, StacksShare
  <2>3. \A k \in 0..Len(body) : Level(k) = Len(Stack(body, k)) - 1
    BY LevelIsDepth DEF Level, LevelIn
  <2>4. ASSUME NEW k \in i..j PROVE Level(k) >= Level(j)
    <3>1. k \in 0..Len(body) /\ k <= j BY <1>1, <1>6
    <3>2. Stack(body, j)[Len(Stack(body, j))] <= Met(body, i)
      <4>1. Stack(body, i)[e] \in 1..Met(body, i) BY <1>1, <1>5, ScopeNumbers
      <4>2. Met(body, i) \in Nat BY <1>1, StackGoesUp DEF GoesUp
      <4> QED BY <1>6, <4>1, <4>2
    <3>3. PICK p \in DOMAIN Stack(body, k) :
            Stack(body, k)[p] = Stack(body, j)[Len(Stack(body, j))]
      BY <1>1, <1>6, <3>2, OpenBetween
    <3>4. p = Len(Stack(body, j)) BY <1>6, <3>1, <3>3, StacksShare
    <3>5. DOMAIN Stack(body, k) = 1..Len(Stack(body, k)) /\ Len(Stack(body, k)) \in Nat
      BY <3>1, ScopeNumbers
    <3> QED BY <1>6, <1>7, <2>3, <3>1, <3>3, <3>4, <3>5
  <2>5. d \in Locals(i, body[i].use.name)
    <3>1. Locals(i, body[i].use.name) = LocalsIn(body, i, body[i].use.name)
      BY DEF Locals, LocalsIn, InScope, Level, LevelIn
    <3> QED BY <1>1, <3>1, LocalsAreOpen DEF Seen
  <2>6. ~(Level(d) > Level(j))
    <3>1. j \in DOMAIN body BY <1>1, <1>5
    <3> QED BY <1>5, <2>1, <2>4, <2>5, <3>1 DEF DeclaredOutside
  <2>7. Level(d) = top - 1 /\ Level(j) = Len(Stack(body, j)) - 1 BY <1>2, <1>6, <2>3
  <2>8. top <= e
    <3> HIDE DEF top
    <3> QED BY <1>7, <2>2, <2>6, <2>7
  <2> QED BY <2>8 DEF e, x
<1> QED BY <1>8, <1>9

(* The check of forward references throws at no local the language accepts *)
(* (but for the two exceptions): what is in sight was declared before, and *)
(* has its position before; what is found and not in sight comes later,    *)
(* and is no parameter's namesake.                                         *)
LEMMA ForwardedRight ==
  ASSUME Ready, NEW i \in 1..Len(body), NEW s, OnItsWay(s, i, i), s.ok
  PROVE  /\ OnItsWay(Forwarded(s, body[i]), i, i)
         /\ Forwarded(s, body[i]).refers = s.refers
<1> DEFINE item == body[i]
           u == body[i].use
           n == body[i].use.name
           x == body[i].name
           skipped == \/ item.op # "declare" \/ n = None \/ u.form = "assigned"
                      \/ FieldExcuses(u)
           t == LookedUp(LookedUp(s, Key(x)), Offender(u))
           a == Positioned(t, Key(x))
           v == Positioned(a, Offender(u))
<1>0. body \in Seq(Items) /\ DOMAIN body = 1..Len(body) /\ body[i] \in Items
  BY LenProperties DEF Ready, WellNested
<1>1. CASE skipped BY <1>1 DEF Forwarded
<1>2. CASE ~skipped
  <2>1. /\ item.op = "declare" /\ x \in Names /\ n \in Names /\ u.form \in Forms
        /\ u.form # "assigned" /\ ~FieldExcuses(u) /\ n # None
    BY <1>0, <1>2, ItemKinds DEF Use
  <2>2. At(s, i) BY DEF OnItsWay, At
  <2>3. Key(x) \in KeySet /\ Offender(u) \in KeySet
    BY <2>1 DEF Key, Offender, KeySet
  <2>4. /\ t \in PassState /\ At(t, i) /\ t.at = s.at /\ t.met = s.met
        /\ t.refers = s.refers /\ t.ok = s.ok
    <3> DEFINE r == LookedUp(s, Key(x))
    <3>1. /\ r \in PassState /\ At(r, i) /\ r.at = s.at /\ r.met = s.met
          /\ r.refers = s.refers /\ r.ok = s.ok
      BY <2>2, <2>3, LookedUpKeeps DEF Ready, OnItsWay
    <3> HIDE DEF r
    <3>2. /\ LookedUp(r, Offender(u)) \in PassState /\ At(LookedUp(r, Offender(u)), i)
          /\ LookedUp(r, Offender(u)).at = r.at /\ LookedUp(r, Offender(u)).met = r.met
          /\ LookedUp(r, Offender(u)).refers = r.refers /\ LookedUp(r, Offender(u)).ok = r.ok
      BY <2>3, <3>1, LookedUpKeeps DEF Ready
    <3> QED BY <3>1, <3>2 DEF r
  <2> DEFINE throws == InsertPosition(a, Key(x)) < InsertPosition(v, Offender(u))
  <2>5. Forwarded(s, item) = IF ~Found(s, Offender(u)) THEN t
                             ELSE IF throws THEN Rejected(v) ELSE v
    BY <1>2 DEF Forwarded
  <2> HIDE DEF t
  <2>5a. /\ a \in PassState /\ At(a, i) /\ a.at = s.at /\ a.met = s.met
         /\ a.refers = s.refers /\ a.ok = s.ok
    BY <2>3, <2>4, LookedUpKeeps DEF Ready
  <2> HIDE DEF a
  <2>5b. /\ v \in PassState /\ At(v, i) /\ v.at = s.at /\ v.met = s.met
         /\ v.refers = s.refers /\ v.ok = s.ok
    BY <2>3, <2>5a, LookedUpKeeps DEF Ready
  <2> HIDE DEF v
  <2>6. ASSUME Found(s, Offender(u)), throws, ~InheritedBefore, ~DeclaredOutside, Valid
        PROVE  FALSE
    <3>1. CASE u.form = "qualified"
      <4>1. Offender(u) = <<n, "field">> BY <3>1 DEF Offender
      <4>2. \A scope : ~Holds(scope, Offender(u)) BY <4>1 DEF Holds, KeyOf, Key
      <4> QED BY <2>6, <4>2 DEF Found, Holders
    <3>2. CASE u.form # "qualified"
      <4>1. Offender(u) = Key(n) /\ n \notin fields BY <2>1, <3>2 DEF Offender, FieldExcuses
      <4>2. i \in Uses BY <1>0, <2>1 DEF Uses
      <4>3. Meaning(i, n) # <<>> /\ n # x BY <2>1, <2>6, <4>2 DEF Valid, NoSelfUse
      <4>4. CASE \E d : Seen(body, d, i, n)
        <5>1. PICK d : Seen(body, d, i, n) BY <4>4
        <5>2. Seen(body, i, i, x) BY <2>1, SeesItself DEF Ready
        <5>3. d < i
          <6>1. d \in 1..i /\ d # i BY <4>3, <5>1 DEF Seen
          <6> QED BY <6>1
        <5>4. u.form \in {"simple", "receiver"} BY <2>1, <3>2 DEF Forms
        <5>5. i \in Compared BY <2>1, <4>2, <5>4 DEF Compared
        <5>6. Len(Stack(body, d)) <= Outermost(t, Key(x))
          BY <2>4, <2>6, <5>1, <5>5, NotOutside DEF Ready
        <5>7. ~(InsertPosition(t, Key(x)) < InsertPosition(t, Key(n)))
          BY <2>4, <5>1, <5>2, <5>3, <5>6, PositionsInOrder DEF Ready
        <5>8. Found(t, Key(x)) /\ Found(t, Key(n))
          BY <2>4, <5>1, <5>2, FindsSeen DEF Ready
        <5>9. a = t BY <2>4, <5>8, PositionedSame DEF Ready, a
        <5>10. v = t BY <2>4, <4>1, <5>8, <5>9, PositionedSame DEF Ready, v
        <5> QED BY <2>6, <4>1, <5>7, <5>9, <5>10
      <4>5. CASE \A d : ~Seen(body, d, i, n)
        <5>1. n \in parameters \cup inherited
          BY <4>1, <4>3, <4>5, MeaningBySight DEF Ready
        <5>2. Found(s, Key(n)) BY <2>6, <4>1
        <5>3. PICK l \in 1..Len(body) :
                l \notin 1..i /\ body[l].op = "declare" /\ body[l].name = n
          BY <2>2, <4>5, <5>2, FindsLater DEF Ready
        <5>4. n \notin inherited
          <6>1. i < l
            <7>1. Len(body) \in Nat BY <1>0, LenProperties
            <7> QED BY <5>3, <7>1
          <6>2. u.form \in {"simple", "receiver"} BY <2>1, <3>2 DEF Forms
          <6>3. i \in Compared BY <2>1, <4>2, <6>2 DEF Compared
          <6> QED BY <1>0, <2>6, <5>3, <6>1, <6>3 DEF InheritedBefore
        <5> QED BY <5>1, <5>3, <5>4 DEF Ready, Distinct
      <4> QED BY <4>4, <4>5
    <3> QED BY <3>1, <3>2
  <2>7. CASE ~Found(s, Offender(u))
    <3>1. OnItsWay(t, i, i) BY <2>4 DEF OnItsWay, At
    <3> QED BY <2>4, <2>5, <2>7, <3>1
  <2>8. CASE Found(s, Offender(u)) /\ ~throws
    <3>1. OnItsWay(v, i, i) BY <2>5b DEF OnItsWay, At
    <3>2. Forwarded(s, item) = v BY <2>5, <2>8
    <3> QED BY <2>5b, <3>1, <3>2
  <2>9. CASE Found(s, Offender(u)) /\ throws
    <3>1. Wrong BY <2>6, <2>9 DEF Wrong
    <3>2. Len(v.refers) = Len(body) BY <2>5b DEF OnItsWay
    <3>3. OnItsWay(Rejected(v), i, i) /\ Rejected(v).refers = v.refers
      BY <2>5b, <3>1, <3>2, RejectedRight
    <3>4. Forwarded(s, item) = Rejected(v) BY <2>5, <2>9
    <3> QED BY <2>5b, <3>3, <3>4
  <2> QED BY <2>7, <2>8, <2>9
<1> QED BY <1>1, <1>2

(* The type checker gives a name the variable the language means, though   *)
(* its lookup finds later declarations too: those are not declared yet.    *)
LEMMA LinkedRight ==
  ASSUME Ready, NEW i \in 1..Len(body), NEW s, OnItsWay(s, i, i), s.ok,
         s.declared = {d \in 1..i : body[d].op = "declare"}
  PROVE  LET t == Linked(s, body[i])
         IN  /\ OnItsWay(t, i, i)
             /\ t.ok => /\ t.declared = s.declared
                        /\ \A k \in 1..Len(body) : k # i => t.refers[k] = s.refers[k]
                        /\ body[i].use.name # None =>
                             t.refers[i] = Meaning(i, body[i].use.name)
<1> DEFINE n == body[i].use.name
           t == LookedUp(s, Key(n))
           target == IF Declared(s, n) THEN <<"local", Variable(s, Key(n))>>
                     ELSE IF n \in parameters THEN <<"parameter", n>>
                     ELSE IF this /\ n \in fields \cup inherited THEN <<"field", n>>
                     ELSE <<>>
<1>0. body \in Seq(Items) /\ DOMAIN body = 1..Len(body) /\ body[i] \in Items
  BY LenProperties DEF Ready, WellNested
<1>1. CASE n = None BY <1>1 DEF Linked
<1>2. CASE n # None
  <2>1. n \in Names BY <1>0, <1>2, ItemKinds DEF Use
  <2>2. At(s, i) BY DEF OnItsWay, At
  <2>3. Key(n) \in KeySet BY <2>1 DEF Key, KeySet
  <2>4. /\ t \in PassState /\ At(t, i) /\ t.declared = s.declared /\ t.at = s.at
        /\ t.met = s.met /\ t.refers = s.refers /\ t.ok = s.ok
    BY <2>2, <2>3, LookedUpKeeps DEF Ready, OnItsWay
  <2>5. target = Meaning(i, n) /\ target \in Target
    <3>1. CASE \E d : Seen(body, d, i, n)
      <4>1. PICK d : Seen(body, d, i, n) BY <3>1
      <4>2. Found(s, Key(n)) /\ Variable(s, Key(n)) = d BY <2>2, <4>1, FindsSeen DEF Ready
      <4>3. d \in 1..i /\ d \in s.declared BY <4>1 DEF Seen
      <4>4. target = <<"local", d>> BY <4>2, <4>3 DEF Declared
      <4>5. Meaning(i, n) = <<"local", d>> BY <4>1, MeaningBySight DEF Ready
      <4> QED BY <4>3, <4>4, <4>5 DEF Target
    <3>2. CASE \A d : ~Seen(body, d, i, n)
      <4>1. ~Declared(s, n)
        <5> SUFFICES ASSUME Found(s, Key(n)) PROVE Variable(s, Key(n)) \notin s.declared
          BY DEF Declared
        <5> QED BY <2>2, <3>2, FindsLater DEF Ready
      <4>2. Meaning(i, n) = target BY <3>2, <4>1, MeaningBySight DEF Ready
      <4>3. target \in Target BY <2>1, <4>1 DEF Target
      <4> QED BY <4>2, <4>3
    <3> QED BY <3>1, <3>2
  <2>6. Linked(s, body[i])
          = IF target = <<>> THEN Rejected(t)
            ELSE [t EXCEPT !.refers = [@ EXCEPT ![s.at] = target]]
    BY <1>2 DEF Linked
  <2>7. s.at = i /\ Len(s.refers) = Len(body) BY DEF OnItsWay
  <2> HIDE DEF t, target
  <2>8. CASE target = <<>>
    <3>1. i \in Uses BY <1>0, <1>2 DEF Uses
    <3>2. ~Valid BY <2>5, <2>8, <3>1 DEF Valid
    <3>3. OnItsWay(Rejected(t), i, i) /\ ~Rejected(t).ok
      BY <2>4, <2>7, <3>2, RejectedRight DEF Wrong
    <3> QED BY <2>6, <2>8, <3>3
  <2>9. CASE target # <<>>
    <3> DEFINE refs == [t.refers EXCEPT ![i] = target]
               r == [t EXCEPT !.refers = refs]
    <3>1. t.refers \in Seq(Target) /\ i \in 1..Len(t.refers) BY <2>4, <2>7 DEF PassState
    <3>2. /\ refs \in Seq(Target) /\ Len(refs) = Len(t.refers)
          /\ \A k \in 1..Len(t.refers) : refs[k] = IF k = i THEN target ELSE t.refers[k]
      BY <2>5, <3>1, ExceptSeq
    <3> HIDE DEF refs
    <3>3. /\ r \in PassState /\ r.refers = refs /\ r.scopes = t.scopes /\ r.open = t.open
          /\ r.declared = t.declared /\ r.at = t.at /\ r.met = t.met /\ r.ok = t.ok
      BY <2>4, <3>2 DEF PassState
    <3>4. Linked(s, body[i]) = r BY <2>6, <2>7, <2>9 DEF refs
    <3> HIDE DEF r
    <3>5. OnItsWay(r, i, i) BY <2>4, <2>7, <3>2, <3>3 DEF OnItsWay, At
    <3>6. /\ r.declared = s.declared /\ r.refers[i] = Meaning(i, n)
          /\ \A k \in 1..Len(body) : k # i => r.refers[k] = s.refers[k]
      BY <2>4, <2>5, <2>7, <3>2, <3>3
    <3> QED BY <3>4, <3>5, <3>6
  <2> QED BY <2>8, <2>9
<1> QED BY <1>1, <1>2

(* The type checker declares the local its declaration declares.           *)
LEMMA TypeCheckedRight ==
  ASSUME Ready, NEW i \in 1..Len(body), NEW s, OnItsWay(s, i, i), s.ok,
         s.declared = {d \in 1..i - 1 : body[d].op = "declare"}
  PROVE  LET t == TypeChecked(s, body[i])
         IN  /\ OnItsWay(t, i, i)
             /\ t.ok => /\ t.declared = {d \in 1..i : body[d].op = "declare"}
                        /\ \A k \in 1..Len(body) : k # i => t.refers[k] = s.refers[k]
                        /\ body[i].use.name # None =>
                             t.refers[i] = Meaning(i, body[i].use.name)
<1>0. Len(body) \in Nat BY LenProperties DEF Ready, WellNested
<1>1. CASE body[i].op # "declare"
  <2>1. s.declared = {d \in 1..i : body[d].op = "declare"} BY <1>0, <1>1
  <2>2. TypeChecked(s, body[i]) = Linked(s, body[i]) BY <1>1 DEF TypeChecked
  <2> QED BY <2>1, <2>2, LinkedRight
<1>2. CASE body[i].op = "declare"
  <2> DEFINE x == body[i].name
             r == [s EXCEPT !.declared = @ \cup {Variable(s, Key(x))}]
  <2>1. Variable(s, Key(x)) = i
    <3>1. Seen(body, i, i, x) BY <1>2, SeesItself DEF Ready
    <3>2. At(s, i) BY DEF OnItsWay, At
    <3> QED BY <3>1, <3>2, FindsSeen DEF Ready
  <2>2. TypeChecked(s, body[i]) = Linked(r, body[i]) BY <1>2 DEF TypeChecked
  <2>3. /\ r \in PassState /\ r.scopes = s.scopes /\ r.open = s.open
        /\ r.declared = s.declared \cup {i} /\ r.at = s.at /\ r.met = s.met
        /\ r.refers = s.refers /\ r.ok = s.ok
    BY <1>0, <2>1 DEF OnItsWay, PassState
  <2> HIDE DEF r
  <2>4. OnItsWay(r, i, i) BY <2>3 DEF OnItsWay
  <2>5. r.declared = {d \in 1..i : body[d].op = "declare"} BY <1>0, <1>2, <2>3
  <2> DEFINE t == Linked(r, body[i])
  <2>6. /\ OnItsWay(t, i, i)
        /\ t.ok => /\ t.declared = r.declared
                   /\ \A k \in 1..Len(body) : k # i => t.refers[k] = r.refers[k]
                   /\ body[i].use.name # None =>
                        t.refers[i] = Meaning(i, body[i].use.name)
    <3>1. r.ok BY <2>3
    <3> QED BY <2>4, <2>5, <3>1, LinkedRight
  <2> HIDE DEF t
  <2> QED BY <2>2, <2>3, <2>5, <2>6 DEF t
<1> QED BY <1>1, <1>2

(* The last pass rejects a local only for its initialiser.                 *)
LEMMA InitialisedRight ==
  ASSUME Ready, NEW i \in 1..Len(body), NEW s, OnItsWay(s, i, i), s.ok
  PROVE  LET t == Initialised(s, body[i])
         IN  /\ OnItsWay(t, i, i) /\ t.refers = s.refers
             /\ t.ok /\ body[i].op = "declare" => body[i].use # Missing
<1>0. body \in Seq(Items) /\ DOMAIN body = 1..Len(body) /\ body[i] \in Items
  BY LenProperties DEF Ready, WellNested
<1>1. CASE body[i].op = "declare" /\ (body[i].use = Missing \/ MentionsItself(body[i]))
  <2>1. Wrong
    <3>1. body[i].use = Missing => ~Initialisers BY <1>0, <1>1 DEF Initialisers
    <3>2. MentionsItself(body[i]) => ~NoSelfUse
      <4> SUFFICES ASSUME MentionsItself(body[i]) PROVE ~NoSelfUse
        OBVIOUS
      <4>1. body[i].use.name = body[i].name /\ body[i].name \in Names
        BY <1>0, <1>1, ItemKinds DEF MentionsItself
      <4>2. i \in Uses BY <1>0, <4>1, NoneAssumption DEF Uses
      <4> QED BY <1>1, <4>1, <4>2 DEF NoSelfUse
    <3> QED BY <1>1, <3>1, <3>2 DEF Valid, Wrong
  <2>2. /\ s \in PassState /\ At(s, i) /\ Len(s.refers) = Len(body) BY DEF OnItsWay, At
  <2>3. /\ OnItsWay(Rejected(s), i, i) /\ Rejected(s).refers = s.refers /\ ~Rejected(s).ok
    BY <2>1, <2>2, RejectedRight
  <2>4. Initialised(s, body[i]) = Rejected(s) BY <1>1 DEF Initialised
  <2> QED BY <2>3, <2>4
<1>2. CASE ~(body[i].op = "declare" /\ (body[i].use = Missing \/ MentionsItself(body[i])))
  BY <1>2 DEF Initialised
<1> QED BY <1>1, <1>2

(* Between two items a pass only counts.                                   *)
LEMMA NextItem ==
  ASSUME NEW i \in Nat, NEW t, OnItsWay(t, i, i)
  PROVE  LET r == [t EXCEPT !.at = @ + 1]
         IN  /\ OnItsWay(r, i + 1, i) /\ r.ok = t.ok /\ r.refers = t.refers
             /\ r.declared = t.declared
<1> DEFINE r == [t EXCEPT !.at = @ + 1]
<1>1. /\ r \in PassState /\ r.scopes = t.scopes /\ r.open = t.open
      /\ r.declared = t.declared /\ r.at = t.at + 1 /\ r.met = t.met
      /\ r.refers = t.refers /\ r.ok = t.ok
  <2>1. t \in PassState BY DEF OnItsWay
  <2>2. t.at + 1 \in Nat BY <2>1 DEF PassState
  <2> QED BY <2>1, <2>2 DEF PassState
<1> HIDE DEF r
<1>2. OnItsWay(r, i + 1, i) BY <1>1 DEF OnItsWay
<1> QED BY <1>1, <1>2 DEF r

(* A block's brace opens and closes the scopes that the item opens and     *)
(* closes.                                                                 *)
LEMMA NestedRight ==
  ASSUME Ready, NEW i \in 1..Len(body), NEW s, OnItsWay(s, i, i - 1), s.ok,
         body[i].op \in {"open", "close"}
  PROVE  LET t == Nested(s, body[i])
         IN  OnItsWay(t, i, i) /\ t.ok /\ t.refers = s.refers /\ t.declared = s.declared
<1> DEFINE t == Nested(s, body[i])
<1>0. body \in Seq(Items) /\ Len(body) \in Nat /\ i - 1 \in 0..Len(body)
  BY LenProperties DEF Ready, WellNested
<1>1. GoesUp(Stack(body, i - 1), Met(body, i - 1)) BY <1>0, StackGoesUp DEF Ready
<1>2. /\ s \in PassState /\ s.at = i /\ s.open = Stack(body, i - 1) /\ s.met = Met(body, i - 1)
  BY DEF OnItsWay
<1>3. CASE body[i].op = "open"
  <2>1. t = [s EXCEPT !.met = @ + 1, !.open = Append(@, s.met + 1)] BY <1>3 DEF Nested
  <2>2. /\ Stack(body, i) = Append(Stack(body, i - 1), Met(body, i - 1) + 1)
        /\ Met(body, i) = Met(body, i - 1) + 1
    BY <1>0, <1>3, NestSteps
  <2>3. Append(s.open, s.met + 1) \in Seq(Nat) BY <1>1, <1>2, PushGoesUp DEF GoesUp
  <2> HIDE DEF t
  <2>4. /\ t \in PassState /\ t.scopes = s.scopes /\ t.open = Append(s.open, s.met + 1)
        /\ t.declared = s.declared /\ t.at = s.at /\ t.met = s.met + 1
        /\ t.refers = s.refers /\ t.ok = s.ok
    <3>1. s.met + 1 \in Nat BY <1>2 DEF PassState
    <3> DEFINE o == Append(s.open, s.met + 1)
    <3>2. o \in Seq(Nat) BY <2>3
    <3>3. t = [s EXCEPT !.met = s.met + 1, !.open = o] BY <1>2, <2>1 DEF PassState
    <3> HIDE DEF o
    <3>4. /\ t \in PassState /\ t.scopes = s.scopes /\ t.open = o
          /\ t.declared = s.declared /\ t.at = s.at /\ t.met = s.met + 1
          /\ t.refers = s.refers /\ t.ok = s.ok
      BY <1>2, <3>1, <3>2, <3>3 DEF PassState
    <3> QED BY <3>4 DEF o
  <2>5. OnItsWay(t, i, i) BY <1>2, <2>2, <2>4 DEF OnItsWay
  <2> QED BY <2>4, <2>5 DEF t
<1>4. CASE body[i].op = "close"
  <2>1. t = [s EXCEPT !.open = Front(@)] BY <1>4 DEF Nested
  <2>2. /\ Stack(body, i) = Front(Stack(body, i - 1)) /\ Met(body, i) = Met(body, i - 1)
        /\ Len(Stack(body, i - 1)) > 1
    BY <1>0, <1>4, NestSteps DEF Ready, WellNested
  <2>3. Front(s.open) \in Seq(Nat) BY <1>1, <1>2, <2>2, PopGoesUp DEF GoesUp
  <2> HIDE DEF t
  <2>4. /\ t \in PassState /\ t.scopes = s.scopes /\ t.open = Front(s.open)
        /\ t.declared = s.declared /\ t.at = s.at /\ t.met = s.met
        /\ t.refers = s.refers /\ t.ok = s.ok
    BY <1>2, <2>1, <2>3 DEF PassState
  <2>5. OnItsWay(t, i, i) BY <1>2, <2>2, <2>4 DEF OnItsWay
  <2> QED BY <2>4, <2>5 DEF t
<1> QED BY <1>3, <1>4

(* Every item of every pass keeps what the pass relies on.                 *)
LEMMA VisitRight ==
  ASSUME Ready, NEW kind \in DOMAIN After, NEW i \in 1..Len(body), NEW s,
         PassInv(kind, s, i - 1)
  PROVE  PassInv(kind, Visit(kind, s, body[i]), i)
<1> DEFINE item == body[i]
<1>0. /\ body \in Seq(Items) /\ Len(body) \in Nat /\ body[i] \in Items
      /\ i \in Nat /\ (i - 1) + 1 = i
  BY LenProperties DEF Ready, WellNested
<1>1. OnItsWay(s, i, i - 1) /\ Established(kind, s, i - 1) BY <1>0 DEF PassInv
<1>2. CASE ~s.ok
  <2>1. Visit(kind, s, item) = s BY <1>2 DEF Visit
  <2>2. OnItsWay(s, i + 1, i) BY <1>1, <1>2 DEF OnItsWay
  <2>3. Established(kind, s, i) BY <1>1, <1>2 DEF Established
  <2> QED BY <2>1, <2>2, <2>3 DEF PassInv
<1>3. CASE s.ok /\ item.op \in {"open", "close"}
  <2> DEFINE t == Nested(s, item)
             r == [t EXCEPT !.at = @ + 1]
  <2>1. Visit(kind, s, item) = r BY <1>3 DEF Visit
  <2>2. OnItsWay(t, i, i) /\ t.ok /\ t.refers = s.refers /\ t.declared = s.declared
    BY <1>1, <1>3, NestedRight
  <2> HIDE DEF t
  <2>3. /\ OnItsWay(r, i + 1, i) /\ r.ok = t.ok /\ r.refers = t.refers
        /\ r.declared = t.declared
    BY <1>0, <2>2, NextItem
  <2> HIDE DEF r
  <2>4. item.op # "declare" /\ item.use.name = None BY <1>0, <1>3, ItemKinds
  <2>5. \A k \in 1..i : k = i \/ k \in 1..i - 1 BY <1>0
  <2>6. {d \in 1..i : body[d].op = "declare"} = {d \in 1..i - 1 : body[d].op = "declare"}
    BY <1>0, <2>4
  <2>7. Established(kind, r, i)
    BY <1>1, <1>3, <2>2, <2>3, <2>4, <2>5, <2>6 DEF Established
  <2> QED BY <2>1, <2>3, <2>7 DEF PassInv
<1>4. CASE s.ok /\ item.op \notin {"open", "close"}
  <2>1. OnItsWay(s, i, i)
    <3>1. Stack(body, i) = Stack(body, i - 1) /\ Met(body, i) = Met(body, i - 1)
      BY <1>4, SameBlock DEF Ready
    <3> QED BY <1>1, <3>1 DEF OnItsWay
  <2>2. \A k \in 1..i : k = i \/ k \in 1..i - 1 BY <1>0
  <2>3. CASE kind = "disambiguation"
    <3> DEFINE t == Disambiguated(s, item)
               r == [t EXCEPT !.at = @ + 1]
    <3>1. Visit(kind, s, item) = r BY <1>4, <2>3 DEF Visit
    <3>2. OnItsWay(t, i, i) /\ t.refers = s.refers BY <1>4, <2>1, DisambiguatedRight
    <3> HIDE DEF t
    <3>3. OnItsWay(r, i + 1, i) /\ r.refers = t.refers BY <1>0, <3>2, NextItem
    <3>4. Established(kind, r, i) BY <1>1, <2>3, <3>2, <3>3 DEF Established
    <3> QED BY <3>1, <3>3, <3>4 DEF PassInv
  <2>4. CASE kind = "forward"
    <3> DEFINE t == Forwarded(s, item)
               r == [t EXCEPT !.at = @ + 1]
    <3>1. Visit(kind, s, item) = r BY <1>4, <2>4 DEF Visit
    <3>2. OnItsWay(t, i, i) /\ t.refers = s.refers BY <1>4, <2>1, ForwardedRight
    <3> HIDE DEF t
    <3>3. OnItsWay(r, i + 1, i) /\ r.refers = t.refers BY <1>0, <3>2, NextItem
    <3>4. Established(kind, r, i) BY <1>1, <2>4, <3>2, <3>3 DEF Established
    <3> QED BY <3>1, <3>3, <3>4 DEF PassInv
  <2>5. CASE kind = "types"
    <3> DEFINE t == TypeChecked(s, item)
               r == [t EXCEPT !.at = @ + 1]
    <3>1. Visit(kind, s, item) = r BY <1>4, <2>5 DEF Visit
    <3>2. s.declared = {d \in 1..i - 1 : body[d].op = "declare"}
      BY <1>1, <1>4, <2>5 DEF Established
    <3>3. /\ OnItsWay(t, i, i)
          /\ t.ok => /\ t.declared = {d \in 1..i : body[d].op = "declare"}
                     /\ \A k \in 1..Len(body) : k # i => t.refers[k] = s.refers[k]
                     /\ item.use.name # None => t.refers[i] = Meaning(i, item.use.name)
      BY <1>4, <2>1, <3>2, TypeCheckedRight
    <3> HIDE DEF t
    <3>4. /\ OnItsWay(r, i + 1, i) /\ r.ok = t.ok /\ r.refers = t.refers
          /\ r.declared = t.declared
      BY <1>0, <3>3, NextItem
    <3> HIDE DEF r
    <3>5. ASSUME r.ok, NEW k \in 1..i, body[k].use.name # None
          PROVE  r.refers[k] = Meaning(k, body[k].use.name)
      <4>1. CASE k = i BY <3>3, <3>4, <3>5, <4>1
      <4>2. CASE k # i
        <5>1. k \in 1..i - 1 /\ k \in 1..Len(body) BY <1>0, <4>2
        <5>2. s.refers[k] = Meaning(k, body[k].use.name)
          BY <1>1, <1>4, <2>5, <3>5, <5>1 DEF Established
        <5> QED BY <3>3, <3>4, <3>5, <4>2, <5>1, <5>2
      <4> QED BY <4>1, <4>2
    <3>6. Established(kind, r, i) BY <2>5, <3>3, <3>4, <3>5 DEF Established
    <3> QED BY <3>1, <3>4, <3>6 DEF PassInv
  <2>6. CASE kind = "locals"
    <3> DEFINE t == Initialised(s, item)
               r == [t EXCEPT !.at = @ + 1]
    <3>1. Visit(kind, s, item) = r BY <1>4, <2>6 DEF Visit
    <3>2. /\ OnItsWay(t, i, i) /\ t.refers = s.refers
          /\ t.ok /\ item.op = "declare" => item.use # Missing
      BY <1>4, <2>1, InitialisedRight
    <3> HIDE DEF t
    <3>3. OnItsWay(r, i + 1, i) /\ r.ok = t.ok /\ r.refers = t.refers
      BY <1>0, <3>2, NextItem
    <3> HIDE DEF r
    <3>4. Established(kind, r, i)
      BY <1>1, <1>4, <2>2, <2>6, <3>2, <3>3 DEF Established
    <3> QED BY <3>1, <3>3, <3>4 DEF PassInv
  <2> QED BY <2>3, <2>4, <2>5, <2>6 DEF After
<1> QED BY <1>2, <1>3, <1>4

\* The recursion a pass is.
RunStep(kind, f, k) == IF k = 0 THEN Start(<<1>>) ELSE Visit(kind, f[k - 1], body[k])

(* The recursion has a solution.                                           *)
LEMMA RunExists ==
  ASSUME body \in Seq(Items), NEW kind
  PROVE  Run(kind) = [k \in 0..Len(body) |-> RunStep(kind, Run(kind), k)]
<1> DEFINE Good == {n \in Nat : \E f : f = [k \in 0..n |-> RunStep(kind, f, k)]}
<1>1. 0 \in Good
  <2> DEFINE f == [k \in 0..0 |-> Start(<<1>>)]
  <2>1. f = [k \in 0..0 |-> RunStep(kind, f, k)] BY DEF RunStep
  <2> HIDE DEF f
  <2> QED BY <2>1
<1>2. ASSUME NEW n \in Nat, n \in Good PROVE n + 1 \in Good
  <2>1. PICK f : f = [k \in 0..n |-> RunStep(kind, f, k)] BY <1>2
  <2> DEFINE g == [k \in 0..n + 1 |-> IF k \in 0..n THEN f[k] ELSE RunStep(kind, f, n + 1)]
  <2>2. ASSUME NEW k \in 0..n + 1 PROVE g[k] = RunStep(kind, g, k)
    <3>1. k # 0 => k - 1 \in 0..n BY <2>2
    <3>2. k # 0 => g[k - 1] = f[k - 1] BY <3>1
    <3>3. RunStep(kind, g, k) = RunStep(kind, f, k) BY <3>2 DEF RunStep
    <3>4. CASE k \in 0..n BY <3>3, <3>4, <2>1
    <3>5. CASE k = n + 1 BY <3>3, <3>5
    <3> QED BY <2>2, <3>4, <3>5
  <2>3. g = [k \in 0..n + 1 |-> g[k]] OBVIOUS
  <2> HIDE DEF g
  <2>4. g = [k \in 0..n + 1 |-> RunStep(kind, g, k)] BY <2>2, <2>3
  <2> QED BY <2>4
<1>3. Nat \subseteq Good BY <1>1, <1>2, Induct
<1>4. Len(body) \in Nat BY LenProperties
<1>5. \E f : f = [k \in 0..Len(body) |-> RunStep(kind, f, k)] BY <1>3, <1>4
<1>6. Run(kind) = CHOOSE f : f = [k \in 0..Len(body) |-> RunStep(kind, f, k)]
  BY DEF Run, RunStep
<1> QED BY <1>5, <1>6

(* A pass over the whole body, by induction along its items.               *)
LEMMA RunRight ==
  ASSUME Ready, NEW kind \in DOMAIN After
  PROVE  PassInv(kind, Run(kind)[Len(body)], Len(body))
<1> DEFINE Good == {k \in Nat : k <= Len(body) => PassInv(kind, Run(kind)[k], k)}
<1>0. body \in Seq(Items) /\ Len(body) \in Nat BY LenProperties DEF Ready, WellNested
<1>1. 0 \in Good
  <2> DEFINE s == Start(<<1>>)
  <2>1. Run(kind)[0] = s BY <1>0, RunExists DEF RunStep
  <2>2. Stack(body, 0) = <<1>> /\ Met(body, 0) = 1 BY <1>0, NestSteps
  <2>3. <<1>> \in Seq(Nat) OBVIOUS
  <2>4. s \in PassState
    BY <2>3 DEF Start, PassState, Ready, Tables
  <2>5. /\ s.scopes = scopes /\ s.open = <<1>> /\ s.declared = {} /\ s.at = 1 /\ s.met = 1
        /\ s.refers = refers /\ s.ok
    BY DEF Start
  <2> HIDE DEF s
  <2>6. OnItsWay(s, 0 + 1, 0) BY <2>2, <2>4, <2>5 DEF OnItsWay, Ready
  <2>7. Established(kind, s, 0) BY <2>5 DEF Established
  <2> QED BY <2>1, <2>6, <2>7 DEF PassInv
<1>2. ASSUME NEW k \in Nat, k \in Good PROVE k + 1 \in Good
  <2> SUFFICES ASSUME k + 1 <= Len(body) PROVE PassInv(kind, Run(kind)[k + 1], k + 1)
    OBVIOUS
  <2>1. k + 1 \in 1..Len(body) /\ (k + 1) - 1 = k /\ k <= Len(body) BY <1>0
  <2>2. Run(kind)[k + 1] = Visit(kind, Run(kind)[k], body[k + 1])
    <3>1. k + 1 \in 0..Len(body) /\ k + 1 # 0 BY <1>0
    <3>2. Run(kind)[k + 1] = RunStep(kind, Run(kind), k + 1) BY <1>0, <3>1, RunExists
    <3> QED BY <2>1, <3>1, <3>2 DEF RunStep
  <2>3. PassInv(kind, Run(kind)[k], (k + 1) - 1) BY <1>2, <2>1
  <2> QED BY <2>1, <2>2, <2>3, VisitRight
<1> HIDE DEF Good
<1>3. Nat \subseteq Good BY <1>1, <1>2, Induct
<1>4. Len(body) \in Good BY <1>0, <1>3
<1> QED BY <1>0, <1>4 DEF Good

-----------------------------------------------------------------------------
\* The inductive invariant.
ScopesInv ==
  /\ pass \in {"environment", "accepted", "rejected"} \cup DOMAIN After
  /\ WellNested(body) /\ Tables(body, scopes)
  /\ refers \in Seq(Target) /\ Len(refers) = Len(body)
  /\ open = <<>> \/ open = Stack(body, Len(body))
  /\ pass = "environment" => open = Stack(body, Len(body))
  /\ pass # "rejected" => Complete(body, scopes) /\ Distinct(body, parameters)
  /\ pass \in {"locals", "accepted"} =>
       \A i \in Uses : refers[i] = Meaning(i, body[i].use.name)
  /\ pass = "accepted" => Initialisers
  /\ pass = "rejected" => Wrong

(* Before the first item there is the method's own scope.                  *)
LEMMA InitScopesInv == Init => ScopesInv
<1> SUFFICES ASSUME Init PROVE ScopesInv
  OBVIOUS
<1>1. body = <<>> /\ body \in Seq(Items) /\ Len(body) = 0 BY DEF Init
<1>2. Stack(body, 0) = <<1>> /\ Met(body, 0) = 1 BY <1>1, NestSteps
<1>3. WellNested(body) BY <1>1 DEF WellNested
<1>4. Tables(body, scopes)
  <2>1. scopes = <<NewScope>> BY DEF Init
  <2>2. NewScope \in Table /\ NewScope.symbols = <<>> /\ NewScope.keys = {}
    BY DEF NewScope, Table
  <2>3. scopes \in Seq(Table) /\ Len(scopes) = 1 /\ scopes[1] = NewScope BY <2>1, <2>2
  <2>4. IsFiniteSet({}) BY FS_EmptySet
  <2>5. TableOf(body, NewScope, 1) BY <2>2, <2>4 DEF TableOf
  <2> QED BY <1>1, <1>2, <2>3, <2>5 DEF Tables
<1>5. Complete(body, scopes) /\ Distinct(body, parameters) BY <1>1 DEF Complete, Distinct
<1>6. refers \in Seq(Target) /\ Len(refers) = Len(body) BY <1>1 DEF Init
<1>7. pass = "environment" /\ open = Stack(body, Len(body)) BY <1>1, <1>2 DEF Init
<1> QED BY <1>3, <1>4, <1>5, <1>6, <1>7 DEF ScopesInv

(* What was in sight stays in sight when the body grows.                   *)
LEMMA OpenAtAppend ==
  ASSUME NEW b \in Seq(Items), NEW item \in Items
  PROVE  /\ \A d \in 0..Len(b) : ScopeAt(Append(b, item), d) = ScopeAt(b, d)
         /\ \A d \in 0..Len(b), i \in 0..Len(b) :
              OpenAt(Append(b, item), d, i) <=> OpenAt(b, d, i)
  BY NestAppend DEF ScopeAt, OpenAt

(* The scopes of a body are scopes of the longer one, but for what its     *)
(* last item adds.                                                         *)
LEMMA TablesAppend ==
  ASSUME NEW b \in Seq(Items), NEW item \in Items
  PROVE  /\ \A t, j : TableOf(b, t, j) => TableOf(Append(b, item), t, j)
         /\ \A ps : Distinct(b, ps) /\ item.op # "declare" =>
              Distinct(Append(b, item), ps)
<1> DEFINE c == Append(b, item)
<1>1. Len(b) \in Nat BY LenProperties
<1>2. /\ Len(c) = Len(b) + 1 /\ c[Len(b) + 1] = item
      /\ \A i \in 1..Len(b) : c[i] = b[i]
      /\ \A d \in 0..Len(b) : ScopeAt(c, d) = ScopeAt(b, d)
      /\ \A d \in 0..Len(b), i \in 0..Len(b) : OpenAt(c, d, i) <=> OpenAt(b, d, i)
  BY NestAppend, OpenAtAppend
<1> HIDE DEF c
<1>3. \A i \in 1..Len(b) : i \in 1..Len(c) /\ i \in 0..Len(b) BY <1>1, <1>2
<1>4. ASSUME NEW t, NEW j, TableOf(b, t, j) PROVE TableOf(c, t, j)
  BY <1>2, <1>3, <1>4 DEF TableOf
<1>5. ASSUME NEW ps, Distinct(b, ps), item.op # "declare" PROVE Distinct(c, ps)
  <2> SUFFICES ASSUME NEW i \in 1..Len(c), c[i].op = "declare"
               PROVE  /\ c[i].name \notin ps
                      /\ \A d \in 1..i - 1 : c[d].op = "declare" /\ c[d].name = c[i].name =>
                                               ~OpenAt(c, d, i)
    BY DEF Distinct
  <2>1. i \in 1..Len(b)
    <3>1. i # Len(b) + 1 BY <1>2, <1>5
    <3> QED BY <1>1, <1>2, <3>1
  <2>2. \A d \in 1..i - 1 : d \in 1..Len(b) BY <1>1, <2>1
  <2> QED BY <1>2, <1>3, <1>5, <2>1, <2>2 DEF Distinct
<1> QED BY <1>4, <1>5 DEF c

(* An item after which the same scopes hold the same declarations.         *)
LEMMA TablesSame ==
  ASSUME NEW b, WellNested(b), NEW item \in Items, NEW ts, Tables(b, ts),
         item.op # "open", item.op = "close" => Len(Stack(b, Len(b))) > 1
  PROVE  /\ WellNested(Append(b, item)) /\ Tables(Append(b, item), ts)
         /\ Complete(b, ts) /\ item.op # "declare" => Complete(Append(b, item), ts)
<1> DEFINE c == Append(b, item)
<1>1. b \in Seq(Items) /\ Len(b) \in Nat BY LenProperties DEF WellNested
<1>2. /\ c \in Seq(Items) /\ Len(c) = Len(b) + 1 /\ c[Len(b) + 1] = item
      /\ \A i \in 1..Len(b) : c[i] = b[i]
      /\ \A k \in 0..Len(b) : Stack(c, k) = Stack(b, k) /\ Met(c, k) = Met(b, k)
      /\ \A d \in 0..Len(b) : ScopeAt(c, d) = ScopeAt(b, d)
      /\ \A t, j : TableOf(b, t, j) => TableOf(c, t, j)
  BY <1>1, NestAppend, OpenAtAppend, TablesAppend
<1> HIDE DEF c
<1>3. WellNested(c)
  <2> SUFFICES ASSUME NEW k \in 1..Len(c), c[k].op = "close"
               PROVE  Len(Stack(c, k - 1)) > 1
    BY <1>2 DEF WellNested
  <2>1. k - 1 \in 0..Len(b) /\ (k \in 1..Len(b) \/ k = Len(b) + 1) BY <1>1, <1>2
  <2>2. CASE k \in 1..Len(b) BY <1>2, <2>1, <2>2 DEF WellNested
  <2>3. CASE k = Len(b) + 1
    <3>1. k - 1 = Len(b) BY <1>1, <2>3
    <3> QED BY <1>2, <2>1, <2>3, <3>1
  <2> QED BY <2>1, <2>2, <2>3
<1>4. Met(c, Len(c)) = Met(b, Len(b))
  <2>1. Len(b) + 1 \in 1..Len(c) /\ (Len(b) + 1) - 1 = Len(b) /\ Len(b) \in 0..Len(b)
    BY <1>1, <1>2
  <2>2. item.op \in {"open", "close", "use", "declare"} BY ItemKinds
  <2>3. Met(c, Len(b) + 1) = Met(c, Len(b)) BY <1>2, <2>1, <2>2, NestSteps
  <2> QED BY <1>2, <2>1, <2>3
<1>5. Tables(c, ts) BY <1>2, <1>4 DEF Tables
<1>6. ASSUME Complete(b, ts), item.op # "declare" PROVE Complete(c, ts)
  <2> SUFFICES ASSUME NEW d \in 1..Len(c), c[d].op = "declare" PROVE Filed(c, ts, d)
    BY DEF Complete
  <2>1. d # Len(b) + 1 BY <1>2, <1>6
  <2>2. d \in 1..Len(b) /\ d \in 0..Len(b) BY <1>1, <1>2, <2>1
  <2>3. Filed(b, ts, d) BY <1>2, <1>6, <2>2 DEF Complete
  <2> QED BY <1>2, <2>2, <2>3 DEF Filed
<1> QED BY <1>3, <1>5, <1>6 DEF c

(* A block adds a scope that is empty.                                     *)
LEMMA TablesOpen ==
  ASSUME NEW b, WellNested(b), NEW item \in Items, item.op = "open",
         NEW ts, Tables(b, ts), Complete(b, ts)
  PROVE  /\ WellNested(Append(b, item)) /\ Tables(Append(b, item), Append(ts, NewScope))
         /\ Complete(Append(b, item), Append(ts, NewScope))
         /\ Stack(Append(b, item), Len(b) + 1) = Append(Stack(b, Len(b)), Len(ts) + 1)
<1> DEFINE c == Append(b, item)
           us == Append(ts, NewScope)
<1>1. b \in Seq(Items) /\ Len(b) \in Nat BY LenProperties DEF WellNested
<1>2. /\ c \in Seq(Items) /\ Len(c) = Len(b) + 1 /\ c[Len(b) + 1] = item
      /\ \A i \in 1..Len(b) : c[i] = b[i]
      /\ \A k \in 0..Len(b) : Stack(c, k) = Stack(b, k) /\ Met(c, k) = Met(b, k)
      /\ \A d \in 0..Len(b) : ScopeAt(c, d) = ScopeAt(b, d)
      /\ \A t, j : TableOf(b, t, j) => TableOf(c, t, j)
  BY <1>1, NestAppend, OpenAtAppend, TablesAppend
<1>3. /\ ts \in Seq(Table) /\ Len(ts) \in Nat /\ Len(ts) = Met(b, Len(b))
      /\ \A j \in 1..Len(ts) : TableOf(b, ts[j], j)
  BY LenProperties DEF Tables
<1>4. NewScope \in Table /\ NewScope.symbols = <<>> /\ NewScope.keys = {}
  BY DEF NewScope, Table
<1>5. /\ us \in Seq(Table) /\ Len(us) = Len(ts) + 1 /\ us[Len(ts) + 1] = NewScope
      /\ \A j \in 1..Len(ts) : us[j] = ts[j]
  BY <1>3, <1>4, AppendProperties
<1> HIDE DEF c, us
<1>6. WellNested(c)
  <2> SUFFICES ASSUME NEW k \in 1..Len(c), c[k].op = "close"
               PROVE  Len(Stack(c, k - 1)) > 1
    BY <1>2 DEF WellNested
  <2>1. k # Len(b) + 1 BY <1>2
  <2>2. k - 1 \in 0..Len(b) /\ k \in 1..Len(b) BY <1>1, <1>2, <2>1
  <2> QED BY <1>2, <2>2 DEF WellNested
<1>7. /\ Met(c, Len(b) + 1) = Met(b, Len(b)) + 1
      /\ Stack(c, Len(b) + 1) = Append(Stack(b, Len(b)), Met(b, Len(b)) + 1)
  <2>1. Len(b) + 1 \in 1..Len(c) /\ (Len(b) + 1) - 1 = Len(b) /\ Len(b) \in 0..Len(b)
    BY <1>1, <1>2
  <2> QED BY <1>2, <2>1, NestSteps
<1>8. Tables(c, us)
  <2>1. TableOf(c, NewScope, Len(ts) + 1)
    <3>1. IsFiniteSet({}) BY FS_EmptySet
    <3> QED BY <1>4, <3>1 DEF TableOf
  <2>2. \A j \in 1..Len(us) : TableOf(c, us[j], j)
    <3>1. \A j \in 1..Len(us) : j \in 1..Len(ts) \/ j = Len(ts) + 1 BY <1>3, <1>5
    <3> QED BY <1>2, <1>3, <1>5, <2>1, <3>1
  <2> QED BY <1>2, <1>3, <1>5, <1>7, <2>2 DEF Tables
<1>9. Complete(c, us)
  <2> SUFFICES ASSUME NEW d \in 1..Len(c), c[d].op = "declare" PROVE Filed(c, us, d)
    BY DEF Complete
  <2>1. d # Len(b) + 1 BY <1>2
  <2>2. d \in 1..Len(b) /\ d \in 0..Len(b) BY <1>1, <1>2, <2>1
  <2>3. /\ ScopeAt(b, d) \in 1..Len(ts)
        /\ \A q \in DOMAIN Stack(b, d) : Stack(b, d)[q] \in 1..Len(ts)
    BY <1>3, <2>2, ScopeNumbers
  <2>4. Filed(b, ts, d) BY <1>2, <2>2 DEF Complete
  <2> QED BY <1>2, <1>5, <2>2, <2>3, <2>4 DEF Filed
<1> QED BY <1>3, <1>6, <1>7, <1>8, <1>9 DEF c, us

(* A name is looked for among the open scopes, where it is found if and    *)
(* only if a declaration of it is in sight of the item that is read.       *)
LEMMA RedeclaredIsInSight ==
  ASSUME WellNested(body), Tables(body, scopes), Complete(body, scopes),
         Distinct(body, parameters), open = Stack(body, Len(body)),
         NEW item \in Items, item.op = "declare"
  PROVE  Redeclared([scopes |-> scopes, open |-> open], item.name)
           <=> ~Distinct(Append(body, item), parameters)
<1> DEFINE c == Append(body, item)
           i == Len(body) + 1
           n == item.name
           s == [scopes |-> scopes, open |-> open]
<1>1. body \in Seq(Items) /\ Len(body) \in Nat BY LenProperties DEF WellNested
<1>2. /\ c \in Seq(Items) /\ Len(c) = i /\ c[i] = item
      /\ \A k \in 1..Len(body) : c[k] = body[k]
      /\ \A k \in 0..Len(body) : Stack(c, k) = Stack(body, k)
      /\ \A d \in 0..Len(body) : ScopeAt(c, d) = ScopeAt(body, d)
      /\ \A d \in 0..Len(body), k \in 0..Len(body) : OpenAt(c, d, k) <=> OpenAt(body, d, k)
  BY <1>1, NestAppend, OpenAtAppend
<1> HIDE DEF c
<1>3. Stack(c, i) = open
  <2>1. i \in 1..Len(c) /\ i - 1 = Len(body) /\ Len(body) \in 0..Len(body) BY <1>1, <1>2
  <2>2. Stack(c, i) = Stack(c, i - 1) BY <1>2, <2>1, NestSteps
  <2> QED BY <1>2, <2>1, <2>2
<1>4. /\ scopes \in Seq(Table) /\ Len(scopes) \in Nat /\ DOMAIN scopes = 1..Len(scopes)
      /\ Len(scopes) = Met(body, Len(body))
      /\ \A j \in 1..Len(scopes) : TableOf(body, scopes[j], j)
  BY LenProperties DEF Tables
<1>5. \A j \in 1..Len(scopes) : DOMAIN scopes[j].symbols = 1..Len(scopes[j].symbols)
  BY <1>4, LenProperties DEF Table
<1>6. ASSUME Found(s, Key(n))
      PROVE  \E d \in 1..Len(body) : c[d].op = "declare" /\ c[d].name = n /\ OpenAt(c, d, i)
  <2>1. PICK m \in DOMAIN open : Holds(scopes[open[m]], Key(n))
    BY <1>6 DEF Found, Holders
  <2>2. open[m] \in 1..Len(scopes)
    <3>1. Len(body) \in 0..Len(body) BY <1>1
    <3> QED BY <1>4, <2>1, <3>1, ScopeNumbers
  <2>3. PICK q \in 1..Len(scopes[open[m]].symbols) :
          KeyOf(scopes[open[m]].symbols[q]) = Key(n)
    BY <1>5, <2>1, <2>2 DEF Holds
  <2> DEFINE d == scopes[open[m]].symbols[q]
  <2>4. /\ d \in 1..Len(body) /\ body[d].op = "declare" /\ ScopeAt(body, d) = open[m]
        /\ body[d].name = n
    BY <1>4, <2>2, <2>3 DEF TableOf, KeyOf, Key
  <2> HIDE DEF d
  <2>5. d \in 0..Len(body) BY <1>1, <2>4
  <2>6. OpenAt(c, d, i) BY <1>2, <1>3, <2>1, <2>4, <2>5 DEF OpenAt
  <2> QED BY <1>2, <2>4, <2>6
<1>7. ASSUME NEW d \in 1..i - 1, c[d].op = "declare", c[d].name = n, OpenAt(c, d, i)
      PROVE  Found(s, Key(n))
  <2>1. d \in 1..Len(body) /\ d \in 0..Len(body) BY <1>1
  <2>2. body[d].op = "declare" /\ body[d].name = n BY <1>2, <1>7, <2>1
  <2>3. PICK m \in DOMAIN open : open[m] = ScopeAt(body, d)
    BY <1>2, <1>3, <1>7, <2>1 DEF OpenAt
  <2>4. PICK q \in 1..Len(scopes[open[m]].symbols) : scopes[open[m]].symbols[q] = d
    BY <2>1, <2>2, <2>3 DEF Complete, Filed
  <2>5. open[m] \in 1..Len(scopes) BY <1>4, <2>1, <2>3, ScopeNumbers
  <2>6. Holds(scopes[open[m]], Key(n)) BY <1>5, <2>2, <2>4, <2>5 DEF Holds, KeyOf
  <2> QED BY <2>3, <2>6 DEF Found, Holders
<1>8. Redeclared(s, n) <=> n \in parameters \/ Found(s, Key(n)) BY DEF Redeclared
<1>9. ASSUME Redeclared(s, n) PROVE ~Distinct(c, parameters)
  <2>1. i \in 1..Len(c) /\ c[i].op = "declare" /\ c[i].name = n BY <1>1, <1>2
  <2>2. \A d \in 1..Len(body) : d \in 1..i - 1 BY <1>1
  <2> QED BY <1>6, <1>8, <1>9, <2>1, <2>2 DEF Distinct
<1>10. ASSUME ~Redeclared(s, n) PROVE Distinct(c, parameters)
  <2> SUFFICES ASSUME NEW k \in 1..Len(c), c[k].op = "declare"
               PROVE  /\ c[k].name \notin parameters
                      /\ \A d \in 1..k - 1 : c[d].op = "declare" /\ c[d].name = c[k].name =>
                                               ~OpenAt(c, d, k)
    BY DEF Distinct
  <2>1. CASE k = i BY <1>2, <1>7, <1>8, <1>10, <2>1
  <2>2. CASE k # i
    <3>1. k \in 1..Len(body) /\ k \in 0..Len(body) BY <1>1, <1>2, <2>2
    <3>2. \A d \in 1..k - 1 : d \in 1..Len(body) /\ d \in 0..Len(body) BY <1>1, <3>1
    <3> QED BY <1>2, <3>1, <3>2 DEF Distinct
  <2> QED BY <2>1, <2>2
<1> QED BY <1>9, <1>10 DEF c

(* A declaration is added to the scope it stands in, at the end.           *)
LEMMA TablesDeclare ==
  ASSUME WellNested(body), Tables(body, scopes), Complete(body, scopes),
         open = Stack(body, Len(body)), NEW item \in Items, item.op = "declare",
         ~Found([scopes |-> scopes, open |-> open], Key(item.name))
  PROVE  LET us == AddVariable([scopes |-> scopes, open |-> open], item.name,
                               Len(body) + 1).scopes
         IN  Tables(Append(body, item), us) /\ Complete(Append(body, item), us)
<1> DEFINE c == Append(body, item)
           i == Len(body) + 1
           n == item.name
           s == [scopes |-> scopes, open |-> open]
           V == {open[d] : d \in DOMAIN open}
           ts == KeysAdded(scopes, V, Key(n))
           j == ScopeAt(body, Len(body))
           new == [symbols |-> Append(ts[j].symbols, i), keys |-> ts[j].keys \cup {Key(n)}]
           us == AddVariable(s, n, i).scopes
<1>1. body \in Seq(Items) /\ Len(body) \in Nat /\ Len(body) \in 0..Len(body)
  BY LenProperties DEF WellNested
<1>2. us = [ts EXCEPT ![j] = new]
  <2>1. LookedUp(s, Key(n)) = [s EXCEPT !.scopes = ts]
    <3> DEFINE depths == {e \in DOMAIN s.open : Found(s, Key(n)) => e >= Depth(s, Key(n))}
    <3>1. depths = DOMAIN open OBVIOUS
    <3> HIDE DEF depths
    <3>2. Visited(s, Key(n), depths) = [s EXCEPT !.scopes = ts]
      BY <3>1 DEF Visited, KeysAdded
    <3> QED BY <3>2 DEF LookedUp, depths
  <2>2. LookedUp(s, Key(n)) = [scopes |-> ts, open |-> open]
    <3> HIDE DEF ts
    <3> QED BY <2>1
  <2>3. s.open[Len(s.open)] = j BY DEF ScopeAt
  <2> HIDE DEF s, ts, j
  <2>4. AddVariable(s, n, i)
          = [[scopes |-> ts, open |-> open] EXCEPT
               !.scopes[j] = [symbols |-> Append(@.symbols, i), keys |-> @.keys \cup {Key(n)}]]
    BY <2>2, <2>3 DEF AddVariable
  <2> QED BY <2>4
<1> HIDE DEF us
<1>3. Key(n) \in KeySet BY ItemKinds DEF Key, KeySet
<1>4. Tables(body, ts) /\ Complete(body, ts) BY <1>3, KeysAddedKeeps
<1>4a. \A q \in DOMAIN open : Key(n) \in ts[open[q]].keys
  <2> SUFFICES ASSUME NEW q \in DOMAIN open PROVE Key(n) \in ts[open[q]].keys
    OBVIOUS
  <2>1. open[q] \in V OBVIOUS
  <2>2. scopes \in Seq(Table) /\ DOMAIN scopes = 1..Len(scopes)
        /\ Len(scopes) = Met(body, Len(body))
    BY LenProperties DEF Tables
  <2>3. open[q] \in DOMAIN scopes /\ scopes[open[q]] \in Table
    BY <1>1, <2>2, ScopeNumbers
  <2>4. ts[open[q]] = [scopes[open[q]] EXCEPT !.keys = @ \cup {Key(n)}]
    BY <2>1, <2>3 DEF KeysAdded
  <2> HIDE DEF ts, V
  <2> QED BY <2>3, <2>4 DEF Table
<1> HIDE DEF ts, V
<1>5. /\ ts \in Seq(Table) /\ Len(ts) \in Nat /\ DOMAIN ts = 1..Len(ts)
      /\ Len(ts) = Met(body, Len(body))
      /\ \A k \in 1..Len(ts) : TableOf(body, ts[k], k)
  BY <1>4, LenProperties DEF Tables
<1>6. j \in 1..Len(ts) BY <1>1, <1>5, ScopeNumbers
<1>7. /\ c \in Seq(Items) /\ Len(c) = i /\ c[i] = item
      /\ \A k \in 1..Len(body) : c[k] = body[k]
      /\ \A k \in 0..Len(body) : Stack(c, k) = Stack(body, k) /\ Met(c, k) = Met(body, k)
      /\ \A d \in 0..Len(body) : ScopeAt(c, d) = ScopeAt(body, d)
      /\ \A t, k : TableOf(body, t, k) => TableOf(c, t, k)
  BY <1>1, NestAppend, OpenAtAppend, TablesAppend
<1>8. Stack(c, i) = Stack(body, Len(body)) /\ Met(c, i) = Met(body, Len(body))
  <2>1. i \in 1..Len(c) /\ i - 1 = Len(body) BY <1>1, <1>7
  <2> QED BY <1>1, <1>7, <2>1, NestSteps
<1>9. ScopeAt(c, i) = j BY <1>8 DEF ScopeAt
<1> HIDE DEF c, j
<1>10. /\ new \in Table /\ new.keys = ts[j].keys \cup {Key(n)}
       /\ Len(new.symbols) = Len(ts[j].symbols) + 1 /\ Len(ts[j].symbols) \in Nat
       /\ \A p \in 1..Len(ts[j].symbols) : new.symbols[p] = ts[j].symbols[p]
       /\ new.symbols[Len(ts[j].symbols) + 1] = i
  <2>1. ts[j] \in Table BY <1>5, <1>6
  <2>2. ts[j].symbols \in Seq(Nat) /\ i \in Nat BY <1>1, <2>1 DEF Table
  <2> DEFINE sy == Append(ts[j].symbols, i)
             ks == ts[j].keys \cup {Key(n)}
  <2>3. /\ sy \in Seq(Nat) /\ Len(sy) = Len(ts[j].symbols) + 1 /\ Len(ts[j].symbols) \in Nat
        /\ \A p \in 1..Len(ts[j].symbols) : sy[p] = ts[j].symbols[p]
        /\ sy[Len(ts[j].symbols) + 1] = i
    BY <2>2, AppendProperties, LenProperties
  <2>4. ks \in SUBSET KeySet BY <1>3, <2>1 DEF Table, KeySet
  <2> HIDE DEF sy, ks
  <2>5. [symbols |-> sy, keys |-> ks] \in Table BY <2>3, <2>4 DEF Table, KeySet
  <2> QED BY <2>3, <2>5 DEF sy, ks
<1> HIDE DEF new
<1>11. /\ us \in Seq(Table) /\ Len(us) = Len(ts) /\ us[j] = new
       /\ \A k \in 1..Len(ts) : k # j => us[k] = ts[k]
  BY <1>2, <1>5, <1>6, <1>10, ExceptSeq
<1>12. TableOf(c, new, j)
  <2>1. TableOf(body, ts[j], j) /\ TableOf(c, ts[j], j) BY <1>5, <1>6, <1>7
  <2>2. IsFiniteSet(new.keys)
    <3>1. IsFiniteSet(ts[j].keys) BY <2>1 DEF TableOf
    <3> QED BY <1>10, <3>1, FS_AddElement
  <2>3. ASSUME NEW p \in 1..Len(new.symbols)
        PROVE  /\ new.symbols[p] \in 1..Len(c)
               /\ c[new.symbols[p]].op = "declare" /\ ScopeAt(c, new.symbols[p]) = j
               /\ Key(c[new.symbols[p]].name) \in new.keys
    <3>1. CASE p \in 1..Len(ts[j].symbols) BY <1>10, <2>1, <3>1 DEF TableOf
    <3>2. CASE p = Len(ts[j].symbols) + 1
      <4>1. new.symbols[p] = i /\ i \in 1..Len(c) BY <1>1, <1>7, <1>10, <3>2
      <4> QED BY <1>7, <1>9, <1>10, <4>1
    <3> QED BY <1>10, <3>1, <3>2, SMTT(30)
  <2>4. ASSUME NEW p \in 1..Len(new.symbols), NEW q \in 1..Len(new.symbols), p < q
        PROVE  new.symbols[p] < new.symbols[q]
    <3>1. p \in 1..Len(ts[j].symbols) BY <1>10, <2>4
    <3>2. new.symbols[p] = ts[j].symbols[p] /\ ts[j].symbols[p] \in 1..Len(body)
      BY <1>10, <2>1, <3>1 DEF TableOf
    <3>3. CASE q \in 1..Len(ts[j].symbols)
      BY <1>10, <2>1, <2>4, <3>1, <3>2, <3>3 DEF TableOf
    <3>4. CASE q = Len(ts[j].symbols) + 1 BY <1>1, <1>10, <3>2, <3>4
    <3> QED BY <1>10, <3>3, <3>4, SMTT(30)
  <2> QED BY <2>2, <2>3, <2>4 DEF TableOf
<1>13. Tables(c, us)
  <2>1. ASSUME NEW k \in 1..Len(us) PROVE TableOf(c, us[k], k)
    BY <1>5, <1>6, <1>7, <1>11, <1>12
  <2> QED BY <1>5, <1>7, <1>8, <1>11, <2>1 DEF Tables
<1>14. Complete(c, us)
  <2> SUFFICES ASSUME NEW d \in 1..Len(c), c[d].op = "declare" PROVE Filed(c, us, d)
    BY DEF Complete
  <2>0. \A k \in 1..Len(ts) : ts[k].keys \subseteq us[k].keys BY <1>10, <1>11
  <2>1. CASE d = i
    <3>1. us[ScopeAt(c, d)] = new /\ Len(ts[j].symbols) + 1 \in 1..Len(new.symbols)
      BY <1>9, <1>10, <1>11, <2>1
    <3>2. \A q \in DOMAIN open : open[q] \in 1..Len(ts) BY <1>1, <1>5, ScopeNumbers
    <3>3. \A q \in DOMAIN Stack(c, d) : Key(c[d].name) \in us[Stack(c, d)[q]].keys
      BY <1>4a, <1>7, <1>8, <2>0, <2>1, <3>2
    <3> QED BY <1>10, <2>1, <3>1, <3>3 DEF Filed
  <2>2. CASE d # i
    <3>1. d \in 1..Len(body) /\ d \in 0..Len(body) BY <1>1, <1>7, <2>2
    <3>2. /\ ScopeAt(c, d) = ScopeAt(body, d) /\ ScopeAt(body, d) \in 1..Len(ts)
          /\ Stack(c, d) = Stack(body, d)
          /\ \A q \in DOMAIN Stack(body, d) : Stack(body, d)[q] \in 1..Len(ts)
      BY <1>5, <1>7, <3>1, ScopeNumbers
    <3>3. Filed(body, ts, d) BY <1>4, <1>7, <3>1 DEF Complete
    <3>4. PICK p \in 1..Len(ts[ScopeAt(body, d)].symbols) :
            ts[ScopeAt(body, d)].symbols[p] = d
      BY <3>3 DEF Filed
    <3>5. \E r \in 1..Len(us[ScopeAt(c, d)].symbols) : us[ScopeAt(c, d)].symbols[r] = d
      <4>1. CASE ScopeAt(body, d) = j
        <5>1. p \in 1..Len(new.symbols) /\ new.symbols[p] = d
          BY <1>10, <3>4, <4>1, SMTT(30)
        <5> QED BY <1>11, <3>2, <4>1, <5>1
      <4>2. CASE ScopeAt(body, d) # j BY <1>11, <3>2, <3>4, <4>2
      <4> QED BY <4>1, <4>2
    <3>6. \A q \in DOMAIN Stack(c, d) : Key(c[d].name) \in us[Stack(c, d)[q]].keys
      BY <1>7, <2>0, <3>1, <3>2, <3>3 DEF Filed
    <3> QED BY <3>5, <3>6 DEF Filed
  <2> QED BY <2>1, <2>2
<1> QED BY <1>13, <1>14 DEF c, us

-----------------------------------------------------------------------------
(* Reading an item.                                                        *)
LEMMA ReadKeeps ==
  ASSUME ScopesInv, NEW item \in Items, Read(item)
  PROVE  ScopesInv'
<1> DEFINE c == Append(body, item)
           s == [scopes |-> scopes, open |-> open]
<1>0. /\ pass = "environment" /\ body' = c /\ refers' = Append(refers, <<>>)
      /\ item.op = "close" => Len(open) > 1
      /\ UNCHANGED <<parameters, fields, inherited, this>>
  BY DEF Read
<1>1. /\ WellNested(body) /\ Tables(body, scopes) /\ open = Stack(body, Len(body))
      /\ Complete(body, scopes) /\ Distinct(body, parameters)
      /\ refers \in Seq(Target) /\ Len(refers) = Len(body)
  BY <1>0 DEF ScopesInv
<1>2. /\ body \in Seq(Items) /\ Len(body) \in Nat /\ c \in Seq(Items) /\ Len(c) = Len(body) + 1
      /\ c[Len(body) + 1] = item
      /\ \A k \in 0..Len(body) : Stack(c, k) = Stack(body, k)
  BY <1>1, LenProperties, NestAppend DEF WellNested
<1>3. refers' \in Seq(Target) /\ Len(refers') = Len(body')
  <2>1. <<>> \in Target BY DEF Target
  <2> QED BY <1>0, <1>1, <1>2, <2>1, AppendProperties
<1>4. item.op \in {"open", "close", "use", "declare"} BY ItemKinds
<1> HIDE DEF c
<1>5. ASSUME pass' = "environment", WellNested(c), Tables(c, scopes'), Complete(c, scopes'),
             Distinct(c, parameters), open' = Stack(c, Len(c))
      PROVE  ScopesInv'
  BY <1>0, <1>3, <1>5 DEF ScopesInv
<1>6. CASE item.op = "open"
  <2>1. /\ scopes' = Append(scopes, NewScope) /\ open' = Append(open, Len(scopes) + 1)
        /\ pass' = pass
    BY <1>6 DEF Read
  <2>2. /\ WellNested(c) /\ Tables(c, scopes') /\ Complete(c, scopes')
        /\ Stack(c, Len(body) + 1) = open'
    BY <1>1, <1>6, <2>1, TablesOpen DEF c
  <2>3. Distinct(c, parameters) BY <1>1, <1>2, <1>6, TablesAppend DEF c
  <2> QED BY <1>0, <1>2, <1>5, <2>1, <2>2, <2>3
<1>7. CASE item.op \in {"close", "use"}
  <2>1. /\ scopes' = scopes /\ pass' = pass
        /\ open' = IF item.op = "close" THEN Front(open) ELSE open
    BY <1>7 DEF Read
  <2>2. WellNested(c) /\ Tables(c, scopes) /\ Complete(c, scopes)
    <3>1. item.op # "open" /\ item.op # "declare" BY <1>7
    <3> QED BY <1>0, <1>1, <3>1, TablesSame DEF c
  <2>3. Distinct(c, parameters)
    <3>1. item.op # "declare" BY <1>7
    <3> QED BY <1>1, <1>2, <3>1, TablesAppend DEF c
  <2>4. open' = Stack(c, Len(c))
    <3>1. /\ Len(c) \in 1..Len(c) /\ Len(c) - 1 = Len(body) /\ Len(body) \in 0..Len(body)
          /\ c[Len(c)] = item
      BY <1>2
    <3>2. Stack(c, Len(c) - 1) = open BY <1>1, <1>2, <3>1
    <3>3. CASE item.op = "close"
      <4>1. Stack(c, Len(c)) = Front(Stack(c, Len(c) - 1)) BY <1>2, <3>1, <3>3, NestSteps
      <4> QED BY <2>1, <3>2, <3>3, <4>1
    <3>4. CASE item.op = "use"
      <4>1. Stack(c, Len(c)) = Stack(c, Len(c) - 1) BY <1>2, <3>1, <3>4, NestSteps
      <4> QED BY <2>1, <3>2, <3>4, <4>1
    <3> QED BY <1>7, <3>3, <3>4
  <2> QED BY <1>0, <1>5, <2>1, <2>2, <2>3, <2>4
<1>8. CASE item.op = "declare"
  <2>1. /\ pass' = IF Redeclared(s, item.name) THEN "rejected" ELSE pass
        /\ scopes' = IF Redeclared(s, item.name) THEN scopes
                     ELSE AddVariable(s, item.name, Len(body) + 1).scopes
        /\ open' = open
    BY <1>8 DEF Read
  <2>2. WellNested(c) /\ Tables(c, scopes)
    <3>1. item.op # "open" /\ item.op # "close" BY <1>8
    <3> QED BY <1>1, <3>1, TablesSame DEF c
  <2>3. Redeclared(s, item.name) <=> ~Distinct(c, parameters)
    BY <1>1, <1>8, RedeclaredIsInSight DEF c
  <2>4. open' = Stack(c, Len(c))
    <3>1. /\ Len(c) \in 1..Len(c) /\ Len(c) - 1 = Len(body) /\ Len(body) \in 0..Len(body)
          /\ c[Len(c)] = item
      BY <1>2
    <3>2. Stack(c, Len(c)) = Stack(c, Len(c) - 1) BY <1>2, <1>8, <3>1, NestSteps
    <3> QED BY <1>1, <1>2, <2>1, <3>1, <3>2
  <2> HIDE DEF s
  <2>5. CASE Redeclared(s, item.name)
    <3>1. ~NoneTwice(c, parameters) BY <2>2, <2>3, <2>5, DistinctIsTheRule
    <3>2. ~NoneTwice(body', parameters') BY <1>0, <3>1
    <3>3. NoneTwice(body', parameters') <=> NoRedeclaration'
      BY DEF NoneTwice, NoRedeclaration, Locals, LocalsIn, InScope, Level, LevelIn
    <3>4. Wrong' BY <3>2, <3>3 DEF Wrong, Valid
    <3>5. pass' = "rejected" /\ scopes' = scopes BY <2>1, <2>5
    <3> QED BY <1>0, <1>3, <2>2, <2>4, <3>4, <3>5 DEF ScopesInv
  <2>6. CASE ~Redeclared(s, item.name)
    <3>0. ~Found([scopes |-> scopes, open |-> open], Key(item.name))
      BY <2>6 DEF Redeclared, s
    <3>1. Tables(c, scopes') /\ Complete(c, scopes')
      BY <1>1, <1>8, <2>1, <2>6, <3>0, TablesDeclare DEF c, s
    <3> QED BY <1>0, <1>5, <2>1, <2>2, <2>3, <2>4, <2>6, <3>1
  <2> QED BY <2>5, <2>6
<1> QED BY <1>4, <1>6, <1>7, <1>8

(* A pass over the body.                                                   *)
LEMMA RunPassKeeps ==
  ASSUME ScopesInv, NEW kind \in DOMAIN After, RunPass(kind)
  PROVE  ScopesInv'
<1> DEFINE end == Run(kind)[Len(body)]
<1>1. /\ pass = kind /\ pass' = IF end.ok THEN After[kind] ELSE "rejected"
      /\ scopes' = end.scopes /\ refers' = end.refers
      /\ UNCHANGED <<body, parameters, fields, inherited, this, open>>
  BY DEF RunPass
<1>2. Ready /\ DOMAIN body = 1..Len(body) /\ Len(body) \in Nat
  <2>1. Ready BY <1>1 DEF ScopesInv, Ready, After
  <2> QED BY <2>1, LenProperties DEF Ready, WellNested
<1>3. OnItsWay(end, Len(body) + 1, Len(body)) /\ Established(kind, end, Len(body))
  BY <1>2, RunRight DEF PassInv
<1> HIDE DEF end
<1>4. /\ WellNested(body') /\ Tables(body', scopes') /\ Complete(body', scopes')
      /\ Distinct(body', parameters') /\ refers' \in Seq(Target) /\ Len(refers') = Len(body')
  BY <1>1, <1>2, <1>3 DEF OnItsWay, PassState, Ready
<1>5. pass' \in {"forward", "types", "locals", "accepted", "rejected"} BY <1>1 DEF After
<1>6. (Wrong <=> Wrong') /\ (Initialisers <=> Initialisers') /\ Uses' = Uses
      /\ \A i, n : Meaning(i, n)' = Meaning(i, n)
  BY <1>1 DEF Wrong, Compared, InheritedBefore, DeclaredOutside, Valid, NoRedeclaration, NoSelfUse, Initialisers, Uses,
              Meaning, Locals, InScope, Level
<1>7. pass' = "rejected" => Wrong'
  <2>1. pass' = "rejected" => ~end.ok BY <1>1 DEF After
  <2> QED BY <1>3, <1>6, <2>1 DEF OnItsWay
<1>8. pass' \in {"locals", "accepted"} =>
        \A i \in Uses : refers'[i] = Meaning(i, body[i].use.name)
  <2> SUFFICES ASSUME pass' \in {"locals", "accepted"}, NEW i \in Uses
               PROVE  refers'[i] = Meaning(i, body[i].use.name)
    OBVIOUS
  <2>1. end.ok /\ kind \in {"types", "locals"} BY <1>1 DEF After
  <2>2. i \in 1..Len(body) /\ body[i].use.name # None BY <1>2 DEF Uses
  <2>3. CASE kind = "types" BY <1>1, <1>3, <2>1, <2>2, <2>3 DEF Established
  <2>4. CASE kind = "locals"
    <3>1. refers' = refers BY <1>1, <1>3, <2>4 DEF Established
    <3> QED BY <1>1, <2>4, <3>1 DEF ScopesInv
  <2> QED BY <2>1, <2>3, <2>4
<1>9. pass' = "accepted" => Initialisers
  <2> SUFFICES ASSUME pass' = "accepted" PROVE Initialisers
    OBVIOUS
  <2>1. end.ok /\ kind = "locals" BY <1>1 DEF After
  <2> QED BY <1>2, <1>3, <2>1 DEF Established, Initialisers
<1>10. open' = <<>> \/ open' = Stack(body', Len(body')) BY <1>1 DEF ScopesInv
<1>11. \A i \in Uses' : body'[i].use.name = body[i].use.name
                        /\ Meaning(i, body[i].use.name)' = Meaning(i, body[i].use.name)
  BY <1>1, <1>6
<1>12. pass' \in {"locals", "accepted"} =>
         \A i \in Uses' : refers'[i] = Meaning(i, body[i].use.name)'
  BY <1>6, <1>8, <1>11
<1> QED
  BY <1>1, <1>4, <1>5, <1>6, <1>7, <1>9, <1>10, <1>12 DEF ScopesInv, After

(* Every step keeps the invariant.                                         *)
LEMMA NextScopesInv == ScopesInv /\ [Next]_vars => ScopesInv'
<1> SUFFICES ASSUME ScopesInv, [Next]_vars PROVE ScopesInv'
  OBVIOUS
<1>1. CASE \E item \in Items : Read(item) BY <1>1, ReadKeeps
<1>2. CASE EndOfBody
  <2>1. /\ pass = "environment" /\ pass' = "disambiguation" /\ open' = <<>>
        /\ UNCHANGED <<body, parameters, fields, inherited, this, scopes, refers>>
    BY <1>2 DEF EndOfBody
  <2> QED BY <2>1 DEF ScopesInv, After
<1>3. CASE \E kind \in DOMAIN After : RunPass(kind) BY <1>3, RunPassKeeps
<1>4. CASE UNCHANGED vars
  <2>1. (Wrong <=> Wrong') /\ (Initialisers <=> Initialisers') /\ Uses' = Uses
        /\ \A i, n : Meaning(i, n)' = Meaning(i, n)
    BY <1>4 DEF vars, Wrong, Compared, InheritedBefore, DeclaredOutside, Valid, NoRedeclaration, NoSelfUse,
                Initialisers, Uses, Meaning, Locals, InScope, Level
  <2> QED BY <1>4, <2>1 DEF vars, ScopesInv
<1> QED BY <1>1, <1>2, <1>3, <1>4 DEF Next

(* The invariant, of every body of every method.                           *)
THEOREM ScopesHold == Spec => []ScopesInv
<1> QED BY InitScopesInv, NextScopesInv, PTL DEF Spec

(* The scopes, and what refers says, are of the body.                      *)
THEOREM ScopesType == Spec => []TypeOK
<1>1. ASSUME ScopesInv PROVE TypeOK
  <2>1. body \in Seq(Items) /\ Len(body) \in Nat
    BY <1>1, LenProperties DEF ScopesInv, WellNested
  <2>2. /\ scopes \in Seq(Table) /\ DOMAIN scopes = 1..Len(scopes)
        /\ Len(scopes) = Met(body, Len(body))
        /\ \A j \in 1..Len(scopes) : TableOf(body, scopes[j], j)
    BY <1>1, LenProperties DEF ScopesInv, Tables
  <2>3. ASSUME NEW j \in DOMAIN scopes, NEW k \in DOMAIN scopes[j].symbols
        PROVE  /\ body[scopes[j].symbols[k]].op = "declare"
               /\ KeyOf(scopes[j].symbols[k]) \in scopes[j].keys
    <3>1. scopes[j] \in Table /\ TableOf(body, scopes[j], j) BY <2>2
    <3>2. k \in 1..Len(scopes[j].symbols) BY <3>1, LenProperties DEF Table
    <3> QED BY <3>1, <3>2 DEF TableOf, KeyOf
  <2>4. ASSUME NEW d \in DOMAIN open PROVE open[d] \in DOMAIN scopes
    <3>1. CASE open = <<>> BY <3>1
    <3>2. CASE open = Stack(body, Len(body))
      <4>1. Len(body) \in 0..Len(body) BY <2>1
      <4> QED BY <1>1, <2>2, <3>2, <4>1, ScopeNumbers DEF ScopesInv
    <3> QED BY <1>1, <3>1, <3>2 DEF ScopesInv
  <2> QED BY <1>1, <2>3, <2>4 DEF ScopesInv, TypeOK
<1> QED BY <1>1, ScopesHold, PTL

(* In a body the compiler accepts, every name means what the language      *)
(* says, whatever the body.                                                *)
THEOREM NamesMeanInnermost == Spec => []MeansInnermost
<1>1. ASSUME ScopesInv PROVE MeansInnermost
  <2>1. WellNested(body) BY <1>1 DEF ScopesInv
  <2> QED BY <1>1, <2>1, DistinctNow DEF ScopesInv, MeansInnermost
<1> QED BY <1>1, ScopesHold, PTL

(* A body is rejected only if the language rejects it, or for one of the   *)
(* two exceptions: an inherited field used before a local of its name, and *)
(* a local declared again later outside the block of the one it uses.      *)
THEOREM RejectionsAreRight == Spec => []RejectsOnlyInvalid
<1>1. ASSUME ScopesInv PROVE RejectsOnlyInvalid
  BY <1>1 DEF ScopesInv, RejectsOnlyInvalid, Wrong
<1> QED BY <1>1, ScopesHold, PTL
=============================================================================
