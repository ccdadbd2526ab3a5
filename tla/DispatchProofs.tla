---------------------------- MODULE DispatchProofs ----------------------------
(****************************************************************************)
(* Hierarchy checking: what an accepted program promises, for every set of   *)
(* types and every one of their declarations.                                *)
(*                                                                          *)
(* Reached is a recursion that stops at the number of types.  Three lemmas   *)
(* show that it has the least set closed under Supers (or SuperClass) by     *)
(* then, and nothing else about it is used: a set that is closed contains    *)
(* the ancestors.  The invariant HInv says that a type the visitor has       *)
(* passed breaks no rule and keeps the method_list it was given; Legal, that *)
(* this is so of all types, is what the promises are derived from.           *)
(*                                                                          *)
(* Dispatch: the vectors of every program that hierarchy checking accepts,   *)
(* whatever the order of its units and the order in which the unordered_map  *)
(* yields the vertices.                                                      *)
(*                                                                          *)
(* DInv says what the loop of assignColours relies on: the graph is complete *)
(* on each method_list before the first colour is given and does not change  *)
(* afterwards; it is symmetric, so a vertex coloured later looks at every    *)
(* neighbour coloured before it; no vertex is its own neighbour.  VectorInv  *)
(* adds what hierarchy checking has left (HInv), that every method of a list *)
(* is a vertex, since the list has a constructor beside it, and what the     *)
(* cached vectors hold.                                                      *)
(****************************************************************************)
EXTENDS DispatchVector, FiniteSetTheorems, WellFoundedInduction, TLAPS

----------------------------------------------------------------------------
(* Reachability.  The recursion of Reached goes on for as many steps as there *)
(* are types; what it has by then is closed under Direct, since each step     *)
(* before adds a type, and it is the least such set.                          *)

\* Induction over the numbers, from their having a least element.
LEMMA Induct ==
    ASSUME NEW S, 0 \in S, \A n \in Nat : n \in S => n + 1 \in S
    PROVE  Nat \subseteq S
  <1>1. SUFFICES ASSUME Nat \ S # {} PROVE FALSE
    OBVIOUS
  <1>2. PICK n \in Nat \ S : \A k \in Nat \ S : ~(<<k, n>> \in OpToRel(<, Nat))
    BY <1>1, NatLessThanWellFounded, WFMin
  <1>3. n \in Nat /\ n \notin S /\ n # 0
    BY <1>2
  <1>4. n - 1 \in Nat /\ n - 1 < n /\ (n - 1) + 1 = n
    BY <1>3
  <1>5. n - 1 \notin S
    BY <1>3, <1>4
  <1>6. ~(<<n - 1, n>> \in OpToRel(<, Nat))
    BY <1>2, <1>4, <1>5
  <1> QED
    BY <1>3, <1>4, <1>6 DEF OpToRel

\* A set that D leads nowhere out of.
ClosedUnder(D, S) == \A u \in S : D[u] \subseteq S

\* The types D leads to from t: closed, and least.
LeastFrom(D, t, R) ==
    /\ R \subseteq Type /\ D[t] \subseteq R /\ ClosedUnder(D, R)
    /\ \A S \in SUBSET Type : D[t] \subseteq S /\ ClosedUnder(D, S) => R \subseteq S

\* The recursion of Reached, along as many steps as there are types.
StepsFrom(D, t, w) ==
    /\ w[0] = D[t]
    /\ \A n \in 1..Cardinality(Type) :
         w[n - 1] \subseteq Type => w[n] = w[n - 1] \cup UNION {D[u] : u \in w[n - 1]}

\* After n steps the set is closed or has more than n types.
LEMMA StepsGrow ==
    ASSUME NEW D \in [Type -> SUBSET Type], NEW t \in Type, NEW w, StepsFrom(D, t, w),
           NEW n \in Nat, n \in 0..Cardinality(Type)
    PROVE  /\ w[n] \subseteq Type /\ D[t] \subseteq w[n]
           /\ ClosedUnder(D, w[n]) \/ Cardinality(w[n]) >= n + 1
           /\ \A S \in SUBSET Type :
                D[t] \subseteq S /\ ClosedUnder(D, S) => w[n] \subseteq S
  <1> DEFINE P(k) == /\ w[k] \subseteq Type /\ D[t] \subseteq w[k]
                     /\ ClosedUnder(D, w[k]) \/ Cardinality(w[k]) >= k + 1
                     /\ \A S \in SUBSET Type :
                          D[t] \subseteq S /\ ClosedUnder(D, S) => w[k] \subseteq S
             Good == {k \in Nat : k \in 0..Cardinality(Type) => P(k)}
  <1>0. IsFiniteSet(Type) /\ Cardinality(Type) \in Nat
    BY TypesAssumption, FS_CardinalityType
  <1>1. \A S \in SUBSET Type : IsFiniteSet(S) /\ Cardinality(S) \in Nat
    BY <1>0, FS_Subset, FS_CardinalityType
  <1>2. P(0)
    <2>1. w[0] = D[t] /\ D[t] \in SUBSET Type
      BY DEF StepsFrom
    <2>2. ClosedUnder(D, w[0]) \/ Cardinality(w[0]) >= 0 + 1
      <3>1. CASE w[0] = {}
        BY <3>1 DEF ClosedUnder
      <3>2. CASE w[0] # {}
        <4>1. Cardinality(w[0]) \in Nat /\ Cardinality(w[0]) # 0
          BY <1>1, <2>1, <3>2, FS_EmptySet
        <4> QED
          BY <4>1
      <3> QED
        BY <3>1, <3>2
    <2> QED
      BY <2>1, <2>2
  <1>3. ASSUME NEW k \in Nat, k + 1 \in 0..Cardinality(Type), P(k)
        PROVE  P(k + 1)
    <2>1. k + 1 \in 1..Cardinality(Type) /\ (k + 1) - 1 = k
      BY <1>3, <1>0
    <2>2. w[k + 1] = w[k] \cup UNION {D[u] : u \in w[k]}
      BY <2>1, <1>3 DEF StepsFrom
    <2>3. w[k + 1] \subseteq Type /\ w[k] \subseteq w[k + 1]
      BY <2>2, <1>3
    <2>4. \A S \in SUBSET Type :
             D[t] \subseteq S /\ ClosedUnder(D, S) => w[k + 1] \subseteq S
      BY <2>2, <1>3 DEF ClosedUnder
    <2>5. CASE ClosedUnder(D, w[k])
      <3>1. w[k + 1] = w[k]
        BY <2>2, <2>5 DEF ClosedUnder
      <3> QED
        BY <1>3, <2>3, <2>4, <2>5, <3>1
    <2>6. CASE ~ClosedUnder(D, w[k])
      <3>1. PICK x \in w[k + 1] : x \notin w[k]
        BY <2>2, <2>6 DEF ClosedUnder
      <3>2. w[k] \cup {x} \subseteq w[k + 1] /\ w[k] \cup {x} \in SUBSET Type
        BY <2>3, <3>1, <1>3
      <3>3. Cardinality(w[k] \cup {x}) = Cardinality(w[k]) + 1
        BY <1>1, <1>3, <3>1, FS_AddElement
      <3>4. Cardinality(w[k] \cup {x}) <= Cardinality(w[k + 1])
        BY <1>1, <2>3, <3>2, FS_Subset
      <3>5. Cardinality(w[k]) >= k + 1 /\ Cardinality(w[k]) \in Nat
            /\ Cardinality(w[k + 1]) \in Nat
        BY <1>1, <1>3, <2>3, <2>6
      <3>6. Cardinality(w[k + 1]) >= (k + 1) + 1
        BY <3>3, <3>4, <3>5
      <3> QED
        BY <1>3, <2>3, <2>4, <3>6
    <2> QED
      BY <2>5, <2>6
  <1> HIDE DEF P
  <1>4. 0 \in Good
    BY <1>2
  <1>5. ASSUME NEW k \in Nat, k \in Good PROVE k + 1 \in Good
    <2>1. k + 1 \in 0..Cardinality(Type) => k \in 0..Cardinality(Type)
      BY <1>0
    <2> QED
      BY <1>3, <1>5, <2>1
  <1>6. n \in Good
    <2> HIDE DEF Good
    <2>1. Nat \subseteq Good
      BY <1>4, <1>5, Induct
    <2> QED
      BY <2>1
  <1> QED
    BY <1>6 DEF P

\* The last step has the least closed set.
LEMMA StepsLeast ==
    ASSUME NEW D \in [Type -> SUBSET Type], NEW t \in Type, NEW w, StepsFrom(D, t, w)
    PROVE  LeastFrom(D, t, w[Cardinality(Type)])
  <1> DEFINE N == Cardinality(Type)
  <1>1. IsFiniteSet(Type) /\ N \in Nat /\ N \in 0..N
    BY TypesAssumption, FS_CardinalityType
  <1> HIDE DEF N
  <1>2. /\ w[N] \subseteq Type /\ D[t] \subseteq w[N]
        /\ ClosedUnder(D, w[N]) \/ Cardinality(w[N]) >= N + 1
        /\ \A S \in SUBSET Type :
             D[t] \subseteq S /\ ClosedUnder(D, S) => w[N] \subseteq S
    BY <1>1, StepsGrow DEF N
  <1>3. Cardinality(w[N]) <= N /\ Cardinality(w[N]) \in Nat
    BY <1>1, <1>2, FS_Subset, FS_CardinalityType DEF N
  <1> QED
    BY <1>1, <1>2, <1>3 DEF LeastFrom, N

\* A function that follows the steps exists.
LEMMA StepsExist ==
    ASSUME NEW D \in [Type -> SUBSET Type], NEW t \in Type
    PROVE  \E w : w = [n \in 0..Cardinality(Type) |->
                         IF n = 0 THEN D[t] ELSE w[n - 1] \cup UNION {D[u] : u \in w[n - 1]}]
  <1> DEFINE Step(f, n) == IF n = 0 THEN D[t]
                           ELSE f[n - 1] \cup UNION {D[u] : u \in f[n - 1]}
             Good == {m \in Nat : \E f : f = [n \in 0..m |-> Step(f, n)]}
  <1>1. 0 \in Good
    <2> DEFINE g == [n \in 0..0 |-> D[t]]
    <2>1. g = [n \in 0..0 |-> Step(g, n)]
      OBVIOUS
    <2> HIDE DEF g
    <2> QED
      BY <2>1
  <1>2. ASSUME NEW m \in Nat, m \in Good PROVE m + 1 \in Good
    <2>1. PICK f : f = [n \in 0..m |-> Step(f, n)]
      BY <1>2
    <2> DEFINE g == [n \in 0..(m + 1) |-> IF n \in 0..m THEN f[n] ELSE Step(f, m + 1)]
    <2>2. ASSUME NEW n \in 0..(m + 1) PROVE g[n] = Step(g, n)
      <3>1. n # 0 => n - 1 \in 0..m
        BY <2>2
      <3>2. n # 0 => g[n - 1] = f[n - 1]
        BY <3>1
      <3>3. Step(g, n) = Step(f, n)
        BY <3>2
      <3>4. CASE n \in 0..m
        BY <3>3, <3>4, <2>1
      <3>5. CASE n = m + 1
        BY <3>3, <3>5
      <3> QED
        BY <2>2, <3>4, <3>5
    <2>3. g = [n \in 0..(m + 1) |-> g[n]]
      OBVIOUS
    <2> HIDE DEF g
    <2>4. g = [n \in 0..(m + 1) |-> Step(g, n)]
      BY <2>2, <2>3
    <2> QED
      BY <2>4
  <1>3. Nat \subseteq Good
    <2> HIDE DEF Good
    <2> QED
      BY <1>1, <1>2, Induct
  <1>4. Cardinality(Type) \in Nat
    BY TypesAssumption, FS_CardinalityType
  <1> QED
    BY <1>3, <1>4

\* The program once every unit is linked.
Linking == program \in [Type -> Declaration] /\ \A t \in Type : program[t] \in Linked[t]

\* What a declaration leads to are types.
LEMMA SupersAreTypes ==
    ASSUME Linking
    PROVE  /\ [u \in Type |-> Supers(u)] \in [Type -> SUBSET Type]
           /\ [u \in Type |-> SuperClass(u)] \in [Type -> SUBSET Type]
  <1>1. ASSUME NEW u \in Type
        PROVE  SuperClass(u) \subseteq Type /\ SuperInterfaces(u) \subseteq Type
    <2>1. program[u].extended \in Type \cup {None} /\ program[u].supers \in Seq(Type)
      BY DEF Linking, Declaration
    <2>2. SuperClass(u) \subseteq Type
      BY <2>1 DEF SuperClass
    <2>3. ToSet(program[u].supers) \subseteq Type
      BY <2>1 DEF ToSet
    <2> QED
      BY <2>2, <2>3 DEF SuperInterfaces
  <1>2. \A u \in Type : Supers(u) \subseteq Type
    BY <1>1 DEF Supers
  <1> QED
    BY <1>1, <1>2

\* Ancestors is the least set closed under Supers.
LEMMA AncestorsLeast ==
    ASSUME Linking, NEW t \in Type
    PROVE  LeastFrom([u \in Type |-> Supers(u)], t, Ancestors(t))
  <1> DEFINE D == [u \in Type |-> Supers(u)]
             N == Cardinality(Type)
  <1>1. D \in [Type -> SUBSET Type]
    BY SupersAreTypes
  <1>2. N \in Nat
    BY TypesAssumption, FS_CardinalityType
  <1>3. PICK w : w = [n \in 0..N |-> IF n = 0 THEN D[t]
                                    ELSE w[n - 1] \cup UNION {D[u] : u \in w[n - 1]}]
    <2> HIDE DEF D
    <2> QED
      BY <1>1, StepsExist
  <1>4. \A n \in 0..N : w[n] = IF n = 0 THEN D[t]
                               ELSE w[n - 1] \cup UNION {D[u] : u \in w[n - 1]}
    BY <1>3
  <1>5. \A n \in 0..N : w[n] \subseteq Type
    <2>1. StepsFrom(D, t, w)
      <3> HIDE DEF D, N
      <3>1. \A n \in 1..N : n \in 0..N /\ n # 0
        BY <1>2
      <3>2. 0 \in 0..N
        BY <1>2
      <3> QED
        BY <1>4, <3>1, <3>2 DEF StepsFrom, N
    <2> HIDE DEF D
    <2> QED
      BY <1>1, <1>2, <2>1, StepsGrow
  <1>6. w = [n \in 0..N |-> IF n = 0 THEN Supers(t)
                            ELSE w[n - 1] \cup UNION {Supers(u) : u \in w[n - 1]}]
    <2>1. ASSUME NEW n \in 0..N
          PROVE  w[n] = IF n = 0 THEN Supers(t)
                        ELSE w[n - 1] \cup UNION {Supers(u) : u \in w[n - 1]}
      <3>1. CASE n = 0
        BY <1>4, <3>1
      <3>2. CASE n # 0
        <4>1. n - 1 \in 0..N
          BY <1>2, <3>2
        <4>2. \A u \in w[n - 1] : D[u] = Supers(u)
          BY <1>5, <4>1
        <4> HIDE DEF D, N
        <4>3. UNION {D[u] : u \in w[n - 1]} = UNION {Supers(u) : u \in w[n - 1]}
          BY <4>2
        <4> QED
          BY <1>4, <3>2, <4>3
      <3> QED
        BY <3>1, <3>2
    <2>2. w = [n \in 0..N |-> w[n]]
      BY <1>3
    <2> QED
      BY <2>1, <2>2
  <1> DEFINE v == CHOOSE f : f = [n \in 0..N |-> IF n = 0 THEN Supers(t)
                                    ELSE f[n - 1] \cup UNION {Supers(u) : u \in f[n - 1]}]
  <1>7. v = [n \in 0..N |-> IF n = 0 THEN Supers(t)
                            ELSE v[n - 1] \cup UNION {Supers(u) : u \in v[n - 1]}]
    BY <1>6
  <1>8. Ancestors(t) = v[N]
    BY DEF Ancestors, Reached
  <1> HIDE DEF v
  <1>9. StepsFrom(D, t, v)
    <2>1. v[0] = D[t]
      BY <1>2, <1>7
    <2>2. ASSUME NEW n \in 1..N, v[n - 1] \subseteq Type
          PROVE  v[n] = v[n - 1] \cup UNION {D[u] : u \in v[n - 1]}
      <3>1. n \in 0..N /\ n # 0
        BY <1>2
      <3>2. v[n] = v[n - 1] \cup UNION {Supers(u) : u \in v[n - 1]}
        BY <1>7, <3>1
      <3>3. \A u \in v[n - 1] : D[u] = Supers(u)
        BY <2>2
      <3> HIDE DEF D
      <3> QED
        BY <3>2, <3>3
    <2> QED
      BY <2>1, <2>2 DEF StepsFrom
  <1> HIDE DEF D
  <1> QED
    BY <1>1, <1>8, <1>9, StepsLeast DEF D

\* SuperClasses is the least set closed under SuperClass.
LEMMA SuperClassesLeast ==
    ASSUME Linking, NEW t \in Type
    PROVE  LeastFrom([u \in Type |-> SuperClass(u)], t, SuperClasses(t))
  <1> DEFINE D == [u \in Type |-> SuperClass(u)]
             N == Cardinality(Type)
  <1>1. D \in [Type -> SUBSET Type]
    BY SupersAreTypes
  <1>2. N \in Nat
    BY TypesAssumption, FS_CardinalityType
  <1>3. PICK w : w = [n \in 0..N |-> IF n = 0 THEN D[t]
                                    ELSE w[n - 1] \cup UNION {D[u] : u \in w[n - 1]}]
    <2> HIDE DEF D
    <2> QED
      BY <1>1, StepsExist
  <1>4. \A n \in 0..N : w[n] = IF n = 0 THEN D[t]
                               ELSE w[n - 1] \cup UNION {D[u] : u \in w[n - 1]}
    BY <1>3
  <1>5. \A n \in 0..N : w[n] \subseteq Type
    <2>1. StepsFrom(D, t, w)
      <3> HIDE DEF D, N
      <3>1. \A n \in 1..N : n \in 0..N /\ n # 0
        BY <1>2
      <3>2. 0 \in 0..N
        BY <1>2
      <3> QED
        BY <1>4, <3>1, <3>2 DEF StepsFrom, N
    <2> HIDE DEF D
    <2> QED
      BY <1>1, <1>2, <2>1, StepsGrow
  <1>6. w = [n \in 0..N |-> IF n = 0 THEN SuperClass(t)
                            ELSE w[n - 1] \cup UNION {SuperClass(u) : u \in w[n - 1]}]
    <2>1. ASSUME NEW n \in 0..N
          PROVE  w[n] = IF n = 0 THEN SuperClass(t)
                        ELSE w[n - 1] \cup UNION {SuperClass(u) : u \in w[n - 1]}
      <3>1. CASE n = 0
        BY <1>4, <3>1
      <3>2. CASE n # 0
        <4>1. n - 1 \in 0..N
          BY <1>2, <3>2
        <4>2. \A u \in w[n - 1] : D[u] = SuperClass(u)
          BY <1>5, <4>1
        <4> HIDE DEF D, N
        <4>3. UNION {D[u] : u \in w[n - 1]} = UNION {SuperClass(u) : u \in w[n - 1]}
          BY <4>2
        <4> QED
          BY <1>4, <3>2, <4>3
      <3> QED
        BY <3>1, <3>2
    <2>2. w = [n \in 0..N |-> w[n]]
      BY <1>3
    <2> QED
      BY <2>1, <2>2
  <1> DEFINE v == CHOOSE f : f = [n \in 0..N |-> IF n = 0 THEN SuperClass(t)
                                    ELSE f[n - 1] \cup UNION {SuperClass(u) : u \in f[n - 1]}]
  <1>7. v = [n \in 0..N |-> IF n = 0 THEN SuperClass(t)
                            ELSE v[n - 1] \cup UNION {SuperClass(u) : u \in v[n - 1]}]
    BY <1>6
  <1>8. SuperClasses(t) = v[N]
    BY DEF SuperClasses, Reached
  <1> HIDE DEF v
  <1>9. StepsFrom(D, t, v)
    <2>1. v[0] = D[t]
      BY <1>2, <1>7
    <2>2. ASSUME NEW n \in 1..N, v[n - 1] \subseteq Type
          PROVE  v[n] = v[n - 1] \cup UNION {D[u] : u \in v[n - 1]}
      <3>1. n \in 0..N /\ n # 0
        BY <1>2
      <3>2. v[n] = v[n - 1] \cup UNION {SuperClass(u) : u \in v[n - 1]}
        BY <1>7, <3>1
      <3>3. \A u \in v[n - 1] : D[u] = SuperClass(u)
        BY <2>2
      <3> HIDE DEF D
      <3> QED
        BY <3>2, <3>3
    <2> QED
      BY <2>1, <2>2 DEF StepsFrom
  <1> HIDE DEF D
  <1> QED
    BY <1>1, <1>8, <1>9, StepsLeast DEF D

----------------------------------------------------------------------------
(* Ancestors and superclasses of a linked program.                          *)

\* What the two lemmas above say, in the words of the model.
LEMMA Above ==
    ASSUME Linking, NEW t \in Type
    PROVE  /\ Ancestors(t) \subseteq Type /\ Supers(t) \subseteq Ancestors(t)
           /\ \A u \in Ancestors(t) : Supers(u) \subseteq Ancestors(t)
           /\ \A S \in SUBSET Type :
                Supers(t) \subseteq S /\ (\A u \in S : Supers(u) \subseteq S)
                  => Ancestors(t) \subseteq S
           /\ SuperClasses(t) \subseteq Type /\ SuperClass(t) \subseteq SuperClasses(t)
           /\ \A u \in SuperClasses(t) : SuperClass(u) \subseteq SuperClasses(t)
           /\ \A S \in SUBSET Type :
                SuperClass(t) \subseteq S /\ (\A u \in S : SuperClass(u) \subseteq S)
                  => SuperClasses(t) \subseteq S
  <1>1. LeastFrom([u \in Type |-> Supers(u)], t, Ancestors(t))
    BY AncestorsLeast
  <1>2. LeastFrom([u \in Type |-> SuperClass(u)], t, SuperClasses(t))
    BY SuperClassesLeast
  <1> QED
    BY <1>1, <1>2 DEF LeastFrom, ClosedUnder

\* The ancestors of an ancestor, and of the superclasses, are ancestors.
LEMMA AboveAncestor ==
    ASSUME Linking, NEW t \in Type
    PROVE  /\ SuperClasses(t) \subseteq Ancestors(t)
           /\ \A u \in Ancestors(t) : Ancestors(u) \subseteq Ancestors(t)
           /\ \A u \in SuperClasses(t) : SuperClasses(u) \subseteq SuperClasses(t)
  <1>1. SuperClasses(t) \subseteq Ancestors(t)
    BY Above DEF Supers
  <1>2. ASSUME NEW u \in Ancestors(t) PROVE Ancestors(u) \subseteq Ancestors(t)
    <2>1. u \in Type
      BY Above
    <2> QED
      BY <1>2, <2>1, Above
  <1>3. ASSUME NEW u \in SuperClasses(t) PROVE SuperClasses(u) \subseteq SuperClasses(t)
    <2>1. u \in Type
      BY Above
    <2> QED
      BY <1>3, <2>1, Above
  <1> QED
    BY <1>1, <1>2, <1>3

\* A superclass is the one extended or above it.
LEMMA ThroughParent ==
    ASSUME Linking, NEW t \in Type, NEW u \in SuperClasses(t)
    PROVE  \E p \in SuperClass(t) : SuperClass(t) = {p} /\ u \in ClassChain(p)
  <1> DEFINE S == UNION {ClassChain(p) : p \in SuperClass(t)}
  <1>1. SuperClass(t) \subseteq Type
    BY Above
  <1>2. S \subseteq Type
    BY <1>1, Above DEF ClassChain
  <1>3. SuperClass(t) \subseteq S
    BY DEF ClassChain
  <1>4. ASSUME NEW v \in S PROVE SuperClass(v) \subseteq S
    <2>1. PICK p \in SuperClass(t) : v \in ClassChain(p)
      OBVIOUS
    <2>2. SuperClass(v) \subseteq SuperClasses(p)
      BY <1>1, <2>1, Above DEF ClassChain
    <2> QED
      BY <2>2 DEF ClassChain
  <1>5. SuperClasses(t) \subseteq S
    <2> HIDE DEF S
    <2> QED
      BY <1>2, <1>3, <1>4, Above
  <1>6. \A p, q \in SuperClass(t) : p = q
    BY DEF SuperClass
  <1> QED
    BY <1>5, <1>6

\* What linking and the library guarantee of the kinds of types.
LEMMA Kinds ==
    ASSUME Linking, NEW t \in Type
    PROVE  /\ \A m \in program[t].methods : m.in = t
           /\ IsInterface(t) => SuperClass(t) = {}
           /\ \A p \in SuperClass(t) : p \in Type /\ ~IsInterface(p)
           /\ \A i \in SuperInterfaces(t) : i \in Type /\ IsInterface(i)
           /\ ~IsInterface(Object) /\ "abstract" \notin program[Object].mods
           /\ Supers(Object) = {} /\ SuperInterfaces(Object) = {}
  <1>1. /\ program[t] \in Linked[t] /\ program[t] \in Declaration
        /\ program[Object] \in Linked[Object] /\ Object \in Type
    BY TypesAssumption DEF Linking
  <1>2. /\ \A m \in program[t].methods : m.in = t
        /\ program[t].interface => program[t].extended = None
        /\ program[t].extended # None => \A e \in Linked[program[t].extended] : ~e.interface
        /\ \A s \in ToSet(program[t].supers) : \A e \in Linked[s] : e.interface
    BY <1>1, LinkedAssumption
  <1>3. \A p \in SuperClass(t) : p \in Type /\ ~IsInterface(p)
    BY <1>1, <1>2 DEF SuperClass, IsInterface, Linking, Declaration
  <1>4. SuperInterfaces(t) \subseteq Type
    BY <1>1 DEF SuperInterfaces, ToSet, Declaration
  <1>5. \A i \in SuperInterfaces(t) : IsInterface(i)
    BY <1>2, <1>4 DEF SuperInterfaces, IsInterface, Linking
  <1>6. /\ ~program[Object].interface /\ program[Object].extended = None
        /\ program[Object].supers = <<>> /\ "abstract" \notin program[Object].mods
    BY <1>1, ObjectAssumption
  <1>7. ToSet(program[Object].supers) = {}
    BY <1>6 DEF ToSet
  <1> QED
    BY <1>2, <1>3, <1>4, <1>5, <1>6, <1>7 DEF SuperClass, SuperInterfaces, Supers, IsInterface

\* Above an interface there are interfaces, superclasses are classes.
LEMMA KindsAbove ==
    ASSUME Linking, NEW t \in Type
    PROVE  /\ IsInterface(t) => \A u \in Ancestors(t) : IsInterface(u)
           /\ \A u \in SuperClasses(t) : ~IsInterface(u)
  <1>1. ASSUME IsInterface(t) PROVE \A u \in Ancestors(t) : IsInterface(u)
    <2> DEFINE S == {u \in Type : IsInterface(u)}
    <2>1. \A u \in Type : IsInterface(u) => Supers(u) \subseteq S
      BY Kinds DEF Supers
    <2>2. Ancestors(t) \subseteq S
      BY <1>1, <2>1, Above
    <2> QED
      BY <2>2
  <1>2. \A u \in SuperClasses(t) : ~IsInterface(u)
    <2> DEFINE S == {u \in Type : ~IsInterface(u)}
    <2>1. \A u \in Type : SuperClass(u) \subseteq S
      BY Kinds
    <2>2. SuperClasses(t) \subseteq S
      BY <2>1, Above
    <2> QED
      BY <2>2
  <1> QED
    BY <1>1, <1>2

\* An interface above a class is one some class of its chain implements, or
\* above such a one.
LEMMA InterfaceComesFrom ==
    ASSUME Linking, NEW c \in Type, NEW u \in Ancestors(c), IsInterface(u)
    PROVE  \E e \in ClassChain(c) : \E i \in SuperInterfaces(e) : u \in {i} \cup Ancestors(i)
  <1> DEFINE From == {v \in Type : \E e \in ClassChain(c) : \E i \in SuperInterfaces(e) :
                                     v \in {i} \cup Ancestors(i)}
             S == SuperClasses(c) \cup From
  <1>1. ClassChain(c) \subseteq Type
    BY Above DEF ClassChain
  <1>2. \A e \in ClassChain(c) : SuperClass(e) \subseteq SuperClasses(c)
    BY Above DEF ClassChain
  <1>3. \A e \in ClassChain(c) : SuperInterfaces(e) \subseteq From
    BY <1>1, Kinds
  <1>4. \A v \in From : Supers(v) \subseteq From
    <2> SUFFICES ASSUME NEW v \in From PROVE Supers(v) \subseteq From
      OBVIOUS
    <2>1. PICK e \in ClassChain(c) : \E i \in SuperInterfaces(e) : v \in {i} \cup Ancestors(i)
      OBVIOUS
    <2>2. PICK i \in SuperInterfaces(e) : v \in {i} \cup Ancestors(i)
      BY <2>1
    <2>3. i \in Type
      BY <1>1, <2>2, Kinds
    <2>4. Supers(v) \subseteq Ancestors(i) /\ Ancestors(i) \subseteq Type
      BY <2>2, <2>3, Above
    <2> QED
      BY <2>2, <2>4
  <1>5. c \in ClassChain(c) /\ SuperClasses(c) \subseteq ClassChain(c)
        /\ SuperClasses(c) \subseteq Type
    BY Above DEF ClassChain
  <1> HIDE DEF From
  <1>6. Supers(c) \subseteq S /\ \A v \in S : Supers(v) \subseteq S
    BY <1>2, <1>3, <1>4, <1>5 DEF Supers
  <1>7. S \subseteq Type
    BY <1>5 DEF From
  <1>8. Ancestors(c) \subseteq S
    <2> HIDE DEF S
    <2> QED
      BY <1>6, <1>7, Above
  <1>9. u \in From
    BY <1>8, KindsAbove
  <1> QED
    BY <1>9 DEF From

----------------------------------------------------------------------------
(* The visitor.  A type it has passed breaks no rule, and its method_list is *)
(* the one the rules were checked with: no later unit changes it.            *)
Checked(t) ==
    IF IsInterface(t)
      THEN /\ ~InterfaceRejected(t)
           /\ method_list[t] = program[t].methods \cup program[Object].methods
                                 \cup UNION {AllMethods(i) : i \in SuperInterfaces(t)}
      ELSE /\ ~ClassRejected(t)
           /\ method_list[t] = program[t].methods \cup InheritedMethods(t)

HInv ==
    /\ verdict \in {"linking", "checking", "accepted", "rejected"}
    /\ visited \in Nat /\ visited <= Len(Units)
    /\ method_list = [t \in Type |-> method_list[t]]
    /\ program = [t \in DOMAIN program |-> program[t]] /\ DOMAIN program \subseteq Type
    /\ \A t \in DOMAIN program : program[t] \in Linked[t]
    /\ verdict = "linking" => \A k \in 1..visited : Units[k] \in DOMAIN program
    /\ verdict # "linking" => Linking
    /\ verdict = "checking" => \A k \in 1..visited : Checked(Units[k])
    /\ verdict = "accepted" => \A t \in Type : Checked(t)

\* Every type is one of the units.
LEMMA EveryUnit == /\ Len(Units) \in Nat
                   /\ \A k \in 1..Len(Units) : Units[k] \in Type
                   /\ \A t \in Type : \E k \in 1..Len(Units) : t = Units[k]
  BY UnitsAssumption DEF ToSet

\* What the rules say of a type does not change while the declarations do not.
LEMMA RulesStay ==
    ASSUME program' = program, NEW t
    PROVE  /\ ClassRejected(t)' <=> ClassRejected(t)
           /\ InterfaceRejected(t)' <=> InterfaceRejected(t)
           /\ InheritedMethods(t)' = InheritedMethods(t)
           /\ (UNION {AllMethods(i) : i \in SuperInterfaces(t)})'
                = UNION {AllMethods(i) : i \in SuperInterfaces(t)}
           /\ IsInterface(t)' <=> IsInterface(t)
  <1>1. ClassRejected(t)' <=> ClassRejected(t)
    BY DEF ClassRejected, Ancestors, SuperClasses, ClassChain, Reached, Supers, SuperClass,
           SuperInterfaces, InterfacesOf, IsInterface, IsAbstract, IsStatic, SameSignature,
           Declared, Constructors, CyclicHierarchy, AllMethods, DuplicateSignature,
           BadReplacement, DifferentResults, RepeatsInterface, ImplementedBelow,
           HasUnimplemented, ExtendedMethods, ImplementedMethods, BadInheritance
  <1>2. InterfaceRejected(t)' <=> InterfaceRejected(t)
    BY DEF InterfaceRejected, Ancestors, Reached, Supers, SuperClass, SuperInterfaces,
           IsStatic, SameSignature, Declared, CyclicHierarchy, AllMethods,
           DifferentResults, RepeatsInterface, ImplicitMethods
  <1>3. InheritedMethods(t)' = InheritedMethods(t)
    BY DEF InheritedMethods, ExtendedMethods, ImplementedMethods, AllMethods, Declared,
           Ancestors, Reached, Supers, SuperClass, SuperInterfaces, SameSignature
  <1>4. (UNION {AllMethods(i) : i \in SuperInterfaces(t)})'
           = UNION {AllMethods(i) : i \in SuperInterfaces(t)}
    BY DEF AllMethods, Declared, Ancestors, Reached, Supers, SuperClass, SuperInterfaces
  <1>5. IsInterface(t)' <=> IsInterface(t)
    BY DEF IsInterface
  <1> QED
    BY <1>1, <1>2, <1>3, <1>4, <1>5

\* What a unit was checked for does not change while the declarations and its
\* method_list do not.
LEMMA CheckedStays ==
    ASSUME program' = program, NEW t, method_list'[t] = method_list[t]
    PROVE  Checked(t)' <=> Checked(t)
  BY RulesStay DEF Checked

\* Nothing is visited at the start.
LEMMA HierarchyStart == HierarchyInit => HInv
  <1> SUFFICES ASSUME HierarchyInit PROVE HInv
    OBVIOUS
  <1>1. /\ program = [t \in {} |-> None] /\ visited = 0 /\ verdict = "linking"
        /\ method_list = [t \in Type |-> {}]
    BY DEF HierarchyInit
  <1>2. DOMAIN program = {} /\ program = [t \in DOMAIN program |-> program[t]]
    BY <1>1
  <1>3. method_list = [t \in Type |-> method_list[t]]
    BY <1>1
  <1> QED
    BY <1>1, <1>2, <1>3, EveryUnit DEF HInv

\* A unit that breaks no rule gets its method_list.
LEMMA AcceptStep ==
    ASSUME HInv, NEW t \in Type, NEW S, Visiting(t), Accept(t, S),
           Checked(t)'
    PROVE  HInv'
  <1>1. /\ verdict = "checking" /\ visited < Len(Units) /\ t = Units[visited + 1]
        /\ method_list' = [method_list EXCEPT ![t] = S]
        /\ visited' = visited + 1 /\ program' = program /\ verdict' = verdict
    BY DEF Visiting, Accept
  <1>2. visited' \in Nat /\ visited' <= Len(Units)
    BY <1>1, EveryUnit DEF HInv
  <1>3. \A u \in Type : u # t => method_list'[u] = method_list[u]
    BY <1>1 DEF HInv
  <1>4. ASSUME NEW k \in 1..visited' PROVE Checked(Units[k])'
    <2>1. k \in 1..Len(Units) /\ Units[k] \in Type
      BY <1>2, EveryUnit
    <2>2. CASE Units[k] = t
      BY <2>2
    <2>3. CASE Units[k] # t
      <3>1. k \in 1..visited
        BY <1>1, <2>3 DEF HInv
      <3>2. Checked(Units[k])
        BY <1>1, <3>1 DEF HInv
      <3> DEFINE u == Units[k]
      <3>3. method_list'[u] = method_list[u]
        BY <1>3, <2>1, <2>3
      <3>4. Checked(u)' <=> Checked(u)
        BY <1>1, <3>3, CheckedStays
      <3> QED
        BY <3>2, <3>4
    <2> QED
      BY <2>2, <2>3
  <1>5. method_list' = [u \in Type |-> method_list'[u]]
    BY <1>1 DEF HInv
  <1>6. Linking'
    BY <1>1 DEF HInv, Linking
  <1> QED
    BY <1>1, <1>2, <1>4, <1>5, <1>6 DEF HInv

\* Every step of the compiler over the units keeps the invariant.
LEMMA HierarchyStep ==
    ASSUME HInv, [Visit]_hierarchyVars
    PROVE  HInv'
  <1>1. ASSUME NEW t \in Type, NEW d \in Linked[t], LinkUnit(t, d) PROVE HInv'
    <2>1. /\ verdict = "linking" /\ visited < Len(Units) /\ t = Units[visited + 1]
          /\ program' = [u \in DOMAIN program \cup {t} |-> IF u = t THEN d ELSE program[u]]
          /\ visited' = visited + 1 /\ method_list' = method_list /\ verdict' = verdict
      BY <1>1 DEF LinkUnit
    <2>2. visited' \in Nat /\ visited' <= Len(Units)
      BY <2>1, EveryUnit DEF HInv
    <2> DEFINE f == [u \in DOMAIN program \cup {t} |-> IF u = t THEN d ELSE program[u]]
    <2>3. /\ DOMAIN f = DOMAIN program \cup {t} /\ f = [u \in DOMAIN f |-> f[u]]
          /\ \A u \in DOMAIN f : (f[u] = program[u] /\ u \in DOMAIN program) \/ (u = t /\ f[u] = d)
      <3>1. DOMAIN f = DOMAIN program \cup {t} /\ f = [u \in DOMAIN f |-> f[u]]
        OBVIOUS
      <3>2. ASSUME NEW u \in DOMAIN f
            PROVE  (f[u] = program[u] /\ u \in DOMAIN program) \/ (u = t /\ f[u] = d)
        <4>1. f[u] = IF u = t THEN d ELSE program[u]
          OBVIOUS
        <4>2. u \in DOMAIN program \cup {t}
          BY <3>1
        <4> HIDE DEF f
        <4> QED
          BY <4>1, <4>2
      <3> HIDE DEF f
      <3> QED
        BY <3>1, <3>2
    <2>6. program' = f
      BY <2>1
    <2> HIDE DEF f
    <2>4. \A u \in DOMAIN program' : program'[u] \in Linked[u]
      BY <2>3, <2>6 DEF HInv
    <2>5. \A k \in 1..visited' : Units[k] \in DOMAIN program'
      <3>1. \A k \in 1..visited' : k \in 1..visited \/ k = visited + 1
        BY <2>1 DEF HInv
      <3> QED
        BY <2>1, <2>3, <2>6, <3>1 DEF HInv
    <2> QED
      BY <2>1, <2>2, <2>3, <2>4, <2>5, <2>6 DEF HInv
  <1>2. CASE BeginChecking
    <2>1. /\ verdict = "linking" /\ visited = Len(Units)
          /\ verdict' = "checking" /\ visited' = 0
          /\ program' = program /\ method_list' = method_list
      BY <1>2 DEF BeginChecking
    <2>2. DOMAIN program = Type
      BY <2>1, EveryUnit DEF HInv
    <2>3. Linking
      BY <2>2, LinkedAssumption DEF HInv, Linking
    <2>4. Linking'
      BY <2>1, <2>3 DEF Linking
    <2> QED
      BY <2>1, <2>4, EveryUnit DEF HInv
  <1>3. ASSUME NEW t \in Type, Reject(t) PROVE HInv'
    <2>1. /\ verdict = "checking" /\ verdict' = "rejected" /\ visited' = visited
          /\ program' = program /\ method_list' = method_list
      BY <1>3 DEF Reject, Visiting
    <2> QED
      BY <2>1 DEF HInv, Linking
  <1>4. ASSUME NEW t \in Type, VisitClass(t) PROVE HInv'
    <2> DEFINE S == program[t].methods \cup InheritedMethods(t)
    <2>1. Visiting(t) /\ Accept(t, S) /\ ~IsInterface(t) /\ ~ClassRejected(t)
      BY <1>4 DEF VisitClass
    <2>2. program' = program /\ method_list'[t] = S
      BY <2>1 DEF Accept, HInv
    <2>3. ~ClassRejected(t)' /\ ~IsInterface(t)' /\ InheritedMethods(t)' = InheritedMethods(t)
      BY <2>1, <2>2, RulesStay
    <2>4. Checked(t)'
      BY <2>2, <2>3 DEF Checked
    <2> QED
      BY <2>1, <2>4, AcceptStep
  <1>5. ASSUME NEW t \in Type, VisitInterface(t) PROVE HInv'
    <2> DEFINE U == UNION {AllMethods(i) : i \in SuperInterfaces(t)}
               S == program[t].methods \cup program[Object].methods \cup U
    <2>1. Visiting(t) /\ Accept(t, S) /\ IsInterface(t) /\ ~InterfaceRejected(t)
      BY <1>5 DEF VisitInterface
    <2>2. program' = program /\ method_list'[t] = S
      BY <2>1 DEF Accept, HInv
    <2>3. ~InterfaceRejected(t)' /\ IsInterface(t)' /\ U' = U
      BY <2>1, <2>2, RulesStay
    <2>4. Checked(t)'
      BY <2>2, <2>3 DEF Checked
    <2> QED
      BY <2>1, <2>4, AcceptStep
  <1>6. CASE AcceptProgram
    <2>1. /\ verdict = "checking" /\ visited = Len(Units) /\ verdict' = "accepted"
          /\ program' = program /\ visited' = visited /\ method_list' = method_list
      BY <1>6 DEF AcceptProgram
    <2>2. \A t \in Type : Checked(t)
      BY <2>1, EveryUnit DEF HInv
    <2>3. \A t \in Type : Checked(t)' <=> Checked(t)
      BY <2>1, CheckedStays
    <2> QED
      BY <2>1, <2>2, <2>3 DEF HInv, Linking
  <1>7. CASE UNCHANGED hierarchyVars
    <2>1. /\ verdict' = verdict /\ visited' = visited
          /\ program' = program /\ method_list' = method_list
      BY <1>7 DEF hierarchyVars
    <2>2. \A t : Checked(t)' <=> Checked(t)
      BY <2>1, CheckedStays
    <2> QED
      BY <2>1, <2>2 DEF HInv, Linking
  <1> QED
    BY <1>1, <1>2, <1>3, <1>4, <1>5, <1>6, <1>7 DEF Visit

(* What the visitor knows of the units it has passed, for any program.       *)
THEOREM HierarchyInductive == HierarchySpec => []HInv
  BY HierarchyStart, HierarchyStep, PTL DEF HierarchySpec

----------------------------------------------------------------------------
(* What the rules say of a program the visitor has accepted.                *)
Legal == Linking /\ \A t \in Type : Checked(t)

\* No type is above itself.
LEMMA Acyclic ==
    ASSUME Legal, NEW t \in Type
    PROVE  t \notin Ancestors(t) /\ t \notin SuperClasses(t)
  <1>1. ~CyclicHierarchy(t)
    BY DEF Legal, Checked, ClassRejected, InterfaceRejected
  <1>2. t \notin Ancestors(t)
    BY <1>1 DEF CyclicHierarchy
  <1> QED
    BY <1>2, AboveAncestor DEF Legal

\* Object has no superclass.
LEMMA ObjectOnTop ==
    ASSUME Linking
    PROVE  SuperClasses(Object) = {} /\ Object \in Type /\ ~IsInterface(Object)
  <1>1. Object \in Type
    BY TypesAssumption
  <1>2. SuperClass(Object) = {} /\ ~IsInterface(Object)
    BY <1>1, Kinds DEF Supers
  <1>3. SuperClasses(Object) \subseteq {}
    BY <1>1, <1>2, Above
  <1> QED
    BY <1>1, <1>2, <1>3

\* The chain of a class has classes only, and the chain of each of them.
LEMMA ChainOf ==
    ASSUME Linking, NEW c \in Type, ~IsInterface(c), NEW e \in ClassChain(c)
    PROVE  /\ e \in Type /\ ~IsInterface(e)
           /\ ClassChain(e) \subseteq ClassChain(c)
           /\ SuperClasses(e) \subseteq SuperClasses(c)
           /\ {e} \cup Ancestors(e) \subseteq {c} \cup Ancestors(c)
  <1>1. e = c \/ e \in SuperClasses(c)
    BY DEF ClassChain
  <1>2. e \in Type /\ ~IsInterface(e)
    BY <1>1, Above, KindsAbove
  <1>3. SuperClasses(e) \subseteq SuperClasses(c)
    BY <1>1, AboveAncestor
  <1>4. Ancestors(e) \subseteq Ancestors(c)
    BY <1>1, AboveAncestor
  <1>5. SuperClasses(c) \subseteq Ancestors(c)
    BY AboveAncestor
  <1> QED
    BY <1>1, <1>2, <1>3, <1>4, <1>5 DEF ClassChain

\* Of two classes of a chain one is in the chain of the other.
LEMMA ChainLinear ==
    ASSUME Linking, NEW c \in Type, NEW d \in ClassChain(c), NEW e \in ClassChain(c)
    PROVE  d \in ClassChain(e) \/ e \in ClassChain(d)
  <1> DEFINE S == {x \in Type : d \in ClassChain(x) \/ x \in ClassChain(d)}
  <1>1. ClassChain(c) \subseteq Type /\ c \in S
    BY Above DEF ClassChain
  <1>2. ASSUME NEW x \in S PROVE SuperClass(x) \subseteq S
    <2>1. SuperClass(x) \subseteq Type
      BY Above
    <2>2. CASE x \in ClassChain(d)
      <3>1. SuperClass(x) \subseteq SuperClasses(d)
        BY <1>1, <2>2, Above DEF ClassChain
      <3> QED
        BY <2>1, <3>1 DEF ClassChain
    <2>3. CASE d \in SuperClasses(x)
      <3>1. PICK p \in SuperClass(x) : SuperClass(x) = {p} /\ d \in ClassChain(p)
        BY <2>3, ThroughParent
      <3> QED
        BY <2>1, <3>1
    <2>4. d = x \/ d \in SuperClasses(x) \/ x \in ClassChain(d)
      BY DEF ClassChain
    <2> QED
      BY <2>2, <2>3, <2>4 DEF ClassChain
  <1>3. SuperClasses(c) \subseteq S
    <2>1. S \subseteq Type
      OBVIOUS
    <2> HIDE DEF S
    <2> QED
      BY <1>1, <1>2, <2>1, Above
  <1>4. e \in S
    BY <1>1, <1>3 DEF ClassChain
  <1> QED
    BY <1>4

\* A class above a class is a superclass of it.
LEMMA ClassComesFrom ==
    ASSUME Linking, NEW c \in Type, NEW u \in Ancestors(c), ~IsInterface(u)
    PROVE  u \in SuperClasses(c)
  <1> DEFINE S == SuperClasses(c) \cup {v \in Type : IsInterface(v)}
  <1>1. S \subseteq Type /\ Supers(c) \subseteq S
    BY Above, Kinds DEF Supers
  <1>2. ASSUME NEW v \in S PROVE Supers(v) \subseteq S
    <2>1. v \in Type
      BY <1>1
    <2>2. SuperInterfaces(v) \subseteq S
      BY <2>1, Kinds
    <2>3. SuperClass(v) \subseteq S
      BY <2>1, Above, Kinds
    <2> QED
      BY <2>2, <2>3 DEF Supers
  <1>3. Ancestors(c) \subseteq S
    <2> HIDE DEF S
    <2> QED
      BY <1>1, <1>2, Above
  <1> QED
    BY <1>3

----------------------------------------------------------------------------
(* What a class takes from above.                                           *)

\* The methods of its superclasses and of all that is above them.
LEMMA TakenFromClass ==
    ASSUME Linking, NEW e \in Type, NEW d \in SuperClasses(e), NEW v \in {d} \cup Ancestors(d)
    PROVE  Declared(v) \subseteq ExtendedMethods(e)
  <1>1. PICK p \in SuperClass(e) : SuperClass(e) = {p} /\ d \in ClassChain(p)
    BY ThroughParent
  <1>2. p \in Type
    BY Kinds
  <1>3. d = p \/ d \in Ancestors(p)
    BY <1>1, <1>2, AboveAncestor DEF ClassChain
  <1>4. v \in {p} \cup Ancestors(p)
    BY <1>2, <1>3, AboveAncestor
  <1>5. Declared(v) \subseteq AllMethods(p)
    BY <1>4 DEF AllMethods
  <1> QED
    BY <1>1, <1>5 DEF ExtendedMethods

\* Everything of Object.
LEMMA TakenFromObject ==
    ASSUME NEW e, e # Object
    PROVE  Declared(Object) \subseteq ExtendedMethods(e)
  <1>1. program[Object].methods \subseteq ExtendedMethods(e)
    <2> SUFFICES ASSUME NEW m \in program[Object].methods PROVE m \in ExtendedMethods(e)
      OBVIOUS
    <2>1. m \in (IF e = Object THEN {} ELSE program[Object].methods)
      OBVIOUS
    <2> QED
      BY <2>1, Zenon DEF ExtendedMethods
  <1>2. Declared(Object) \subseteq program[Object].methods
    BY DEF Declared
  <1> QED
    BY <1>1, <1>2

\* The methods of what is above its interfaces.
LEMMA TakenFromInterface ==
    ASSUME NEW e, NEW i \in SuperInterfaces(e), NEW v \in {i} \cup Ancestors(i)
    PROVE  Declared(v) \subseteq ImplementedMethods(e)
  BY DEF ImplementedMethods, AllMethods

\* What a class implements is declared by interfaces.
LEMMA ImplementedByInterfaces ==
    ASSUME Linking, NEW e \in Type, NEW m \in ImplementedMethods(e)
    PROVE  m.in \in Type /\ IsInterface(m.in)
  <1>1. PICK i \in SuperInterfaces(e) : m \in AllMethods(i)
    BY DEF ImplementedMethods
  <1>2. i \in Type /\ IsInterface(i)
    BY Kinds
  <1>3. PICK u \in {i} \cup Ancestors(i) : m \in Declared(u)
    BY <1>1 DEF AllMethods
  <1>4. u \in Type /\ IsInterface(u)
    BY <1>2, <1>3, Above, KindsAbove
  <1>5. m.in = u
    BY <1>3, <1>4, Kinds DEF Declared
  <1> QED
    BY <1>4, <1>5

\* A method that lookup finds: where it is, and that none is nearer.
LEMMA Found ==
    ASSUME Linking, NEW c \in Type, ~IsInterface(c), NEW sig, NEW m \in Implementation(c, sig)
    PROVE  /\ m.in \in ClassChain(c) \cup {Object} /\ m.in \in Type /\ ~IsInterface(m.in)
           /\ m \in Declared(m.in) /\ m.sig = sig
           /\ \A e \in ClassChain(c) : Nearer(e, m.in) =>
                \A r \in Declared(e) : r.sig # sig
  <1>1. PICK d \in ClassChain(c) \cup {Object} : m \in Declared(d)
    BY DEF Implementation
  <1>2. d \in Type /\ ~IsInterface(d)
    BY ChainOf, ObjectOnTop
  <1>3. m.in = d
    BY <1>1, <1>2, Kinds DEF Declared
  <1> QED
    BY <1>1, <1>2, <1>3 DEF Implementation

\* Inheritance keeps what lookup finds.
LEMMA FoundIsListed ==
    ASSUME Legal, NEW c \in Type, ~IsInterface(c), NEW sig, NEW m \in Implementation(c, sig)
    PROVE  m \in method_list[c]
  <1> DEFINE d == m.in
  <1>0. Linking
    BY DEF Legal
  <1>1. /\ d \in ClassChain(c) \cup {Object} /\ d \in Type /\ ~IsInterface(d)
        /\ m \in Declared(d) /\ m.sig = sig
        /\ \A e \in ClassChain(c) : Nearer(e, d) => \A r \in Declared(e) : r.sig # sig
    BY <1>0, Found
  <1>2. method_list[c] = program[c].methods \cup InheritedMethods(c)
    BY DEF Legal, Checked
  <1> HIDE DEF d
  <1>3. CASE d = c
    BY <1>1, <1>2, <1>3 DEF Declared
  <1>4. CASE d # c
    <2>1. d \in SuperClasses(c) \/ (d = Object /\ c # Object)
      BY <1>1, <1>4 DEF ClassChain
    <2>2. m \in ExtendedMethods(c)
      <3>1. CASE d \in SuperClasses(c)
        BY <1>0, <1>1, <3>1, TakenFromClass
      <3>2. CASE d = Object /\ c # Object
        BY <1>1, <3>2, TakenFromObject
      <3> QED
        BY <2>1, <3>1, <3>2
    <2>3. c \in ClassChain(c) /\ Nearer(c, d)
      BY <2>1 DEF Nearer, ClassChain
    <2>4. \A r \in Declared(c) : ~SameSignature(r, m)
      BY <1>1, <2>3 DEF SameSignature
    <2>5. m \notin ImplementedMethods(c)
      BY <1>0, <1>1, ImplementedByInterfaces DEF d
    <2>6. m \in InheritedMethods(c)
      BY <2>2, <2>4, <2>5 DEF InheritedMethods
    <2> QED
      BY <1>2, <2>6
  <1> QED
    BY <1>3, <1>4

----------------------------------------------------------------------------
(* The nearest declaration has a body.                                      *)

\* Some member of a set of classes is a superclass of none of them.
LEMMA Nearest ==
    ASSUME Legal, NEW Y \in SUBSET Type, Y # {}
    PROVE  \E d \in Y : \A e \in Y : d \notin SuperClasses(e)
  <1> DEFINE Height(d) == Cardinality(Type) - Cardinality(SuperClasses(d))
             H == {n \in Nat : \E d \in Y : n = Height(d)}
  <1>0. Linking /\ IsFiniteSet(Type) /\ Cardinality(Type) \in Nat
    BY TypesAssumption, FS_CardinalityType DEF Legal
  <1>1. ASSUME NEW d \in Y
        PROVE  /\ IsFiniteSet(SuperClasses(d)) /\ SuperClasses(d) \subseteq Type
               /\ Cardinality(SuperClasses(d)) \in Nat /\ Height(d) \in Nat
    <2>1. SuperClasses(d) \subseteq Type
      BY <1>0, Above
    <2>2. /\ IsFiniteSet(SuperClasses(d)) /\ Cardinality(SuperClasses(d)) \in Nat
          /\ Cardinality(SuperClasses(d)) <= Cardinality(Type)
      BY <1>0, <2>1, FS_Subset, FS_CardinalityType
    <2> QED
      BY <1>0, <2>1, <2>2
  <1>2. ASSUME NEW d \in Y, NEW e \in Y, d \in SuperClasses(e)
        PROVE  Height(e) < Height(d)
    <2>1. d \in Type /\ e \in Type /\ d \notin SuperClasses(d)
      BY Acyclic
    <2>2. SuperClasses(d) \cup {d} \subseteq SuperClasses(e)
      BY <1>0, <1>2, <2>1, AboveAncestor
    <2>3. Cardinality(SuperClasses(d) \cup {d}) = Cardinality(SuperClasses(d)) + 1
      BY <1>1, <2>1, FS_AddElement
    <2>4. Cardinality(SuperClasses(d) \cup {d}) <= Cardinality(SuperClasses(e))
      BY <1>1, <2>2, FS_Subset
    <2> QED
      BY <1>0, <1>1, <2>3, <2>4
  <1> HIDE DEF Height
  <1>3. H # {} /\ H \subseteq Nat
    BY <1>1
  <1>4. PICK n \in H : \A k \in H : ~(<<k, n>> \in OpToRel(<, Nat))
    <2> HIDE DEF H
    <2> QED
      BY <1>3, NatLessThanWellFounded, WFMin
  <1>5. PICK d \in Y : n = Height(d)
    OBVIOUS
  <1>6. \A e \in Y : ~(Height(e) < Height(d))
    BY <1>1, <1>4, <1>5 DEF OpToRel
  <1> QED
    BY <1>2, <1>5, <1>6

\* No method of a signature that a method has is a constructor.
LEMMA NoConstructor ==
    ASSUME Linking, NEW t \in Type, NEW u \in Type,
           NEW m \in Declared(t), NEW k \in program[u].methods, SameSignature(k, m)
    PROVE  k \in Declared(u)
  <1>1. program[t] \in Linked[t] /\ program[u] \in Linked[u]
    BY DEF Linking
  <1>2. m \in program[t].methods /\ ~m.constructor /\ m.sig = k.sig
    BY DEF Declared, SameSignature
  <1>3. ~k.constructor
    BY <1>1, <1>2, ConstructorAssumption
  <1> QED
    BY <1>3 DEF Declared

\* In a class that is not abstract lookup never ends at an abstract method.
LEMMA FoundHasBody ==
    ASSUME Legal, NEW c \in Type, ~IsInterface(c), "abstract" \notin program[c].mods,
           NEW sig, NEW m \in Implementation(c, sig)
    PROVE  ~IsAbstract(m)
  <1> DEFINE d == m.in
  <1>0. Linking
    BY DEF Legal
  <1>1. /\ d \in ClassChain(c) \cup {Object} /\ d \in Type /\ ~IsInterface(d)
        /\ m \in Declared(d) /\ m.sig = sig
        /\ \A e \in ClassChain(c) : Nearer(e, d) => \A r \in Declared(e) : r.sig # sig
    BY <1>0, Found
  <1> HIDE DEF d
  <1>2. SUFFICES ASSUME IsAbstract(m) PROVE FALSE
    OBVIOUS
  <1>3. m \in program[d].methods
    BY <1>1 DEF Declared
  <1>4. CASE d \in ClassChain(c)
    <2>1. ~HasUnimplemented(c)
      BY DEF Legal, Checked, ClassRejected
    <2>2. ImplementedBelow(c, d, m)
      BY <1>2, <1>3, <1>4, <2>1 DEF HasUnimplemented
    <2>3. PICK e \in ClassChain(c) : \E k \in program[e].methods :
                d \in SuperClasses(e) /\ SameSignature(k, m) /\ ~IsAbstract(k)
      BY <2>2 DEF ImplementedBelow
    <2>4. PICK k \in program[e].methods : d \in SuperClasses(e) /\ SameSignature(k, m)
      BY <2>3
    <2>5. e \in Type
      BY <1>0, ChainOf
    <2>6. k \in Declared(e) /\ k.sig = sig
      BY <1>0, <1>1, <2>4, <2>5, NoConstructor DEF SameSignature
    <2> QED
      BY <1>1, <2>4, <2>6 DEF Nearer
  <1>5. CASE d = Object
    <2>1. SuperClasses(Object) = {} /\ Object \in Type /\ ~IsInterface(Object)
          /\ "abstract" \notin program[Object].mods
      BY <1>0, ObjectOnTop, Kinds
    <2>2. ~HasUnimplemented(Object)
      BY <2>1 DEF Legal, Checked, ClassRejected
    <2>3. ImplementedBelow(Object, Object, m)
      BY <1>2, <1>3, <1>5, <2>2 DEF HasUnimplemented, ClassChain
    <2> QED
      BY <2>1, <2>3 DEF ImplementedBelow, ClassChain
  <1> QED
    BY <1>1, <1>4, <1>5

\* Lookup finds something for every method a class declares or inherits.
LEMMA SomethingFound ==
    ASSUME Legal, NEW c \in Type, ~IsInterface(c), "abstract" \notin program[c].mods,
           NEW r \in Members(c)
    PROVE  Implementation(c, r.sig) # {}
  <1> DEFINE X == {d \in ClassChain(c) \cup {Object} : \E m \in Declared(d) : m.sig = r.sig}
             Y == X \ {Object}
  <1>0. Linking
    BY DEF Legal
  <1>1. ClassChain(c) \subseteq Type /\ \A e \in ClassChain(c) : ~IsInterface(e)
    BY <1>0, ChainOf
  <1>2. PICK u \in {c} \cup Ancestors(c) \cup {Object} : r \in Declared(u)
    BY DEF Members, AllMethods
  <1>3. u \in Type
    BY <1>0, <1>2, Above, ObjectOnTop
  <1>4. X # {}
    <2>1. CASE ~IsInterface(u)
      <3>1. u \in ClassChain(c) \cup {Object}
        BY <1>0, <1>2, <2>1, ClassComesFrom DEF ClassChain
      <3> QED
        BY <1>2, <3>1
    <2>2. CASE IsInterface(u)
      <3>1. u \in InterfacesOf(c) /\ c \in ClassChain(c)
        BY <1>0, <1>2, <2>2, ObjectOnTop DEF InterfacesOf, ClassChain
      <3>2. ~HasUnimplemented(c)
        BY DEF Legal, Checked, ClassRejected
      <3>3. r \in program[u].methods
        BY <1>2 DEF Declared
      <3>4. PICK e \in ClassChain(c) : \E k \in program[e].methods :
                   SameSignature(k, r) /\ ~IsAbstract(k)
        BY <3>1, <3>2, <3>3 DEF HasUnimplemented
      <3>5. PICK k \in program[e].methods : SameSignature(k, r)
        BY <3>4
      <3>6. k \in Declared(e) /\ k.sig = r.sig
        BY <1>0, <1>1, <1>2, <1>3, <3>5, NoConstructor DEF SameSignature
      <3> QED
        BY <3>6
    <2> QED
      BY <2>1, <2>2
  <1>5. PICK d \in X : \A e \in ClassChain(c) : Nearer(e, d) => e \notin X
    <2>1. CASE Y = {}
      <3>1. X = {Object}
        BY <1>4, <2>1
      <3>2. \A e \in ClassChain(c) : Nearer(e, Object) => e # Object
        BY <1>0, ObjectOnTop DEF Nearer
      <3> QED
        BY <3>1, <3>2
    <2>2. CASE Y # {}
      <3>1. Y \in SUBSET Type
        BY <1>1
      <3>2. PICK d \in Y : \A e \in Y : d \notin SuperClasses(e)
        <4> HIDE DEF X
        <4> HIDE DEF Y
        <4> QED
          BY <2>2, <3>1, Nearest
      <3>3. ASSUME NEW e \in ClassChain(c), Nearer(e, d), e \in X PROVE FALSE
        <4>1. d \in SuperClasses(e)
          BY <3>2, <3>3 DEF Nearer
        <4>2. e # Object
          BY <1>0, <4>1, ObjectOnTop
        <4> QED
          BY <3>2, <3>3, <4>1, <4>2
      <3> QED
        BY <3>2, <3>3
    <2> QED
      BY <2>1, <2>2
  <1>6. PICK m \in Declared(d) : m.sig = r.sig
    OBVIOUS
  <1>7. d \in Type
    BY <1>0, <1>1, ObjectOnTop
  <1>8. m.in = d
    BY <1>0, <1>6, <1>7, Kinds DEF Declared
  <1>9. m \in Implementation(c, r.sig)
    <2>1. \A e \in ClassChain(c) : Nearer(e, m.in) => \A k \in Declared(e) : k.sig # r.sig
      BY <1>5, <1>8
    <2> QED
      BY <1>6, <2>1 DEF Implementation
  <1> QED
    BY <1>9

----------------------------------------------------------------------------
(* What is found may stand for the rest.                                    *)

\* The rules a class has been held to.
LEMMA ClassRules ==
    ASSUME Legal, NEW e \in Type, ~IsInterface(e)
    PROVE  /\ \A m, r \in Declared(e) : SameSignature(m, r) => m = r
           /\ \A m \in Declared(e), r \in ExtendedMethods(e) \cup ImplementedMethods(e) :
                SameSignature(m, r) => ~BadReplacement(m, r)
           /\ \A m \in ExtendedMethods(e), r \in ImplementedMethods(e) :
                SameSignature(m, r) /\ ~IsAbstract(m) => ~BadReplacement(m, r)
  <1>1. ~ClassRejected(e)
    BY DEF Legal, Checked
  <1>2. ~DuplicateSignature(Declared(e))
    BY <1>1 DEF ClassRejected
  <1>3. \A m \in Declared(e), r \in ExtendedMethods(e) \cup ImplementedMethods(e) :
            SameSignature(m, r) => ~BadReplacement(m, r)
    BY <1>1 DEF ClassRejected
  <1>4. \A m \in ExtendedMethods(e), r \in ImplementedMethods(e) : ~BadInheritance(m, r)
    BY <1>1 DEF ClassRejected
  <1> QED
    BY <1>2, <1>3, <1>4 DEF DuplicateSignature, BadInheritance

\* Against the methods of classes.
LEMMA StandsForClasses ==
    ASSUME Legal, NEW c \in Type, ~IsInterface(c), NEW u \in ClassChain(c) \cup {Object},
           NEW r \in Declared(u), NEW m \in Implementation(c, r.sig), m # r
    PROVE  ~BadReplacement(m, r)
  <1> DEFINE d == m.in
  <1>0. Linking
    BY DEF Legal
  <1>1. /\ d \in ClassChain(c) \cup {Object} /\ d \in Type /\ ~IsInterface(d)
        /\ m \in Declared(d) /\ m.sig = r.sig
        /\ \A e \in ClassChain(c) : Nearer(e, d) => \A k \in Declared(e) : k.sig # r.sig
    BY <1>0, Found
  <1> HIDE DEF d
  <1>2. SameSignature(m, r)
    BY <1>1 DEF SameSignature
  <1>3. d # u
    BY <1>1, <1>2, ClassRules
  <1>4. ~(u \in ClassChain(c) /\ Nearer(u, d))
    BY <1>1
  <1>5. r \in ExtendedMethods(d)
    <2>1. CASE u \in ClassChain(c) /\ d \in ClassChain(c)
      <3>1. u \in SuperClasses(d)
        BY <1>0, <1>3, <1>4, <2>1, ChainLinear DEF Nearer, ClassChain
      <3> QED
        BY <1>0, <1>1, <3>1, TakenFromClass
    <2>2. CASE u \in ClassChain(c) /\ d \notin ClassChain(c)
      BY <1>1, <1>3, <1>4, <2>2 DEF Nearer
    <2>3. CASE u = Object
      BY <1>3, <2>3, TakenFromObject
    <2> QED
      BY <2>1, <2>2, <2>3
  <1> QED
    BY <1>1, <1>2, <1>5, ClassRules

\* Against the methods of interfaces.
LEMMA StandsForInterfaces ==
    ASSUME Legal, NEW c \in Type, ~IsInterface(c), "abstract" \notin program[c].mods,
           NEW u \in Ancestors(c), IsInterface(u),
           NEW r \in Declared(u), NEW m \in Implementation(c, r.sig)
    PROVE  ~BadReplacement(m, r)
  <1> DEFINE d == m.in
  <1>0. Linking
    BY DEF Legal
  <1>1. /\ d \in ClassChain(c) \cup {Object} /\ d \in Type /\ ~IsInterface(d)
        /\ m \in Declared(d) /\ m.sig = r.sig
    BY <1>0, Found
  <1> HIDE DEF d
  <1>2. SameSignature(m, r) /\ ~IsAbstract(m)
    BY <1>1, FoundHasBody DEF SameSignature
  <1>3. PICK e \in ClassChain(c) : \E i \in SuperInterfaces(e) : u \in {i} \cup Ancestors(i)
    BY <1>0, InterfaceComesFrom
  <1>4. e \in Type /\ ~IsInterface(e)
    BY <1>0, ChainOf
  <1>5. r \in ImplementedMethods(e)
    BY <1>3, TakenFromInterface
  <1>6. CASE d = e
    BY <1>1, <1>2, <1>4, <1>5, <1>6, ClassRules
  <1>7. CASE d \in ClassChain(c) /\ e \in SuperClasses(d)
    <2>1. PICK i \in SuperInterfaces(e) : u \in {i} \cup Ancestors(i)
      BY <1>3
    <2>2. i \in Ancestors(e)
      BY <1>0, <1>4, Above DEF Supers
    <2>3. u \in {e} \cup Ancestors(e)
      BY <1>0, <1>4, <2>1, <2>2, AboveAncestor
    <2>4. r \in ExtendedMethods(d)
      BY <1>0, <1>1, <1>7, <2>3, TakenFromClass
    <2> QED
      BY <1>1, <1>2, <2>4, ClassRules
  <1>8. CASE d \in SuperClasses(e) \/ (d = Object /\ e # Object)
    <2>1. m \in ExtendedMethods(e)
      BY <1>0, <1>1, <1>4, <1>8, TakenFromClass, TakenFromObject
    <2> QED
      BY <1>2, <1>4, <1>5, <2>1, ClassRules
  <1>9. d \in ClassChain(c) => d = e \/ e \in SuperClasses(d) \/ d \in SuperClasses(e)
    BY <1>0, ChainLinear DEF ClassChain
  <1> QED
    BY <1>1, <1>6, <1>7, <1>8, <1>9

\* Together: whatever runs for a signature may stand for all its methods.
LEMMA StandsForAll ==
    ASSUME Legal, NEW c \in Type, ~IsInterface(c), "abstract" \notin program[c].mods,
           NEW r \in Members(c), NEW m \in Implementation(c, r.sig), m # r
    PROVE  ~BadReplacement(m, r)
  <1>0. Linking
    BY DEF Legal
  <1>1. PICK u \in {c} \cup Ancestors(c) \cup {Object} : r \in Declared(u)
    BY DEF Members, AllMethods
  <1>2. CASE IsInterface(u)
    <2>1. u \in Ancestors(c)
      BY <1>0, <1>1, <1>2, ObjectOnTop
    <2> QED
      BY <1>1, <1>2, <2>1, StandsForInterfaces
  <1>3. CASE ~IsInterface(u)
    <2>1. u \in ClassChain(c) \cup {Object}
      BY <1>0, <1>1, <1>3, ClassComesFrom DEF ClassChain
    <2> QED
      BY <1>1, <2>1, StandsForClasses
  <1> QED
    BY <1>2, <1>3

----------------------------------------------------------------------------
(* The promises.                                                            *)

\* A program that has been accepted breaks no rule.
LEMMA AcceptedIsLegal ==
    ASSUME HInv, verdict = "accepted"
    PROVE  /\ Legal
           /\ \A c \in ConcreteClasses :
                c \in Type /\ ~IsInterface(c) /\ "abstract" \notin program[c].mods
  <1>1. Legal
    BY DEF HInv, Legal
  <1>2. DOMAIN program = Type
    BY <1>1 DEF Legal, Linking
  <1> QED
    BY <1>1, <1>2 DEF ConcreteClasses, Classes

\* The promises follow from the invariant.
LEMMA Promises ==
    ASSUME HInv
    PROVE  NoAbstractObject /\ ImplementationStandsForAll /\ ImplementationListed
  <1>1. NoAbstractObject
    <2> SUFFICES ASSUME verdict = "accepted", NEW c \in ConcreteClasses, NEW r \in Members(c)
                 PROVE  \E m \in Implementation(c, r.sig) : ~IsAbstract(m)
      BY DEF NoAbstractObject
    <2> QED
      BY AcceptedIsLegal, SomethingFound, FoundHasBody
  <1>2. ImplementationStandsForAll
    BY AcceptedIsLegal, StandsForAll DEF ImplementationStandsForAll
  <1>3. ImplementationListed
    <2> SUFFICES ASSUME verdict = "accepted", NEW c \in ConcreteClasses, NEW r \in Members(c),
                        NEW m \in Implementation(c, r.sig)
                 PROVE  m \in method_list[c]
      BY DEF ImplementationListed
    <2> QED
      BY AcceptedIsLegal, FoundIsListed
  <1> QED
    BY <1>1, <1>2, <1>3

\* An object of an accepted program has a body for every method of its class
\* (hierarchy-checking.cc:246-291).
THEOREM EveryMethodHasBody == HierarchySpec => []NoAbstractObject
  BY HierarchyInductive, Promises, PTL

\* Whatever runs for a signature may stand for every method of that signature
\* above the class (hierarchy-checking.cc:300-420).
THEOREM ReplacementsAgree == HierarchySpec => []ImplementationStandsForAll
  BY HierarchyInductive, Promises, PTL

\* What lookup finds is in the method_list the dispatch vectors are filled from.
THEOREM LookupIsListed == HierarchySpec => []ImplementationListed
  BY HierarchyInductive, Promises, PTL

-----------------------------------------------------------------------------
(* Dispatch vectors.                                                       *)

\* The edges come in pairs and join different methods.
Symmetric == \A e \in neighbours : /\ e = <<e[1], e[2]>> /\ e[1] # e[2]
                                   /\ <<e[2], e[1]>> \in neighbours

\* Hierarchy checking is over before the graph is begun, so no list grows.
ListsFixed == phase # "wait" => verdict = "accepted"

\* The methods of the units added so far are cliques of the graph.
Cliques == /\ added \in Nat /\ added <= Len(Units)
           /\ \A k \in 1..added : Clique(method_list[Units[k]]) \subseteq neighbours

\* No vertex is coloured before the graph is complete.
GraphFirst == /\ phase \in {"wait", "graph", "colour", "build", "failed"}
              /\ phase = "wait" => added = 0
              /\ phase \in {"wait", "graph"} => coloured = {}
              /\ phase \notin {"wait", "graph"} => added = Len(Units)
              /\ phase \notin {"wait", "graph"} => colour \in [Vertices -> Nat]
              /\ coloured \subseteq Vertices

\* Coloured neighbours have different colours.
NeighboursApart == \A m, n \in coloured :
                       <<m, n>> \in neighbours => colour[m] # colour[n]

DInv == Symmetric /\ ListsFixed /\ Cliques /\ GraphFirst /\ NeighboursApart

----------------------------------------------------------------------------
(* The clique of any set of methods is symmetric and has no loop.            *)
LEMMA CliqueSymmetric ==
    ASSUME NEW S, NEW e \in Clique(S)
    PROVE  e = <<e[1], e[2]>> /\ e[1] # e[2] /\ <<e[2], e[1]>> \in Clique(S)
  BY DEF Clique

(* Two different methods of a set, neither a constructor, are an edge of its *)
(* clique.                                                                   *)
LEMMA CliqueComplete ==
    ASSUME NEW S, NEW m \in Virtual(S), NEW n \in Virtual(S), m # n
    PROVE  <<m, n>> \in Clique(S)
  BY DEF Clique, Virtual

(* Nothing is coloured before the graph is built.                          *)
LEMMA InitDInv == DispatchInit => DInv
  <1> SUFFICES ASSUME DispatchInit PROVE DInv
    OBVIOUS
  <1> USE DEF DispatchInit
  <1>1. Symmetric /\ ListsFixed /\ NeighboursApart
    BY DEF Symmetric, ListsFixed, NeighboursApart
  <1>2. Cliques
    BY UnitsAssumption DEF Cliques
  <1>3. GraphFirst
    BY DEF GraphFirst
  <1> QED
    BY <1>1, <1>2, <1>3 DEF DInv

(* While the graph waits for hierarchy checking it has no edge and no vertex. *)
LEMMA VisitStep ==
    ASSUME DInv, Visit, UNCHANGED dispatchVars
    PROVE  DInv'
  <1> USE DEF dispatchVars
  <1>1. phase = "wait"
    BY DEF DInv, ListsFixed, Visit, LinkUnit, BeginChecking, Reject, VisitClass,
           VisitInterface, Visiting, AcceptProgram
  <1>2. Symmetric' /\ NeighboursApart'
    BY DEF DInv, Symmetric, NeighboursApart
  <1>3. ListsFixed'
    BY <1>1 DEF ListsFixed
  <1>4. Cliques'
    BY <1>1, UnitsAssumption DEF DInv, GraphFirst, Cliques
  <1>5. GraphFirst'
    BY DEF DInv, GraphFirst, Vertices
  <1> QED
    BY <1>2, <1>3, <1>4, <1>5 DEF DInv

(* Starting the graph keeps the invariant.                                 *)
LEMMA BeginGraphStep ==
    ASSUME DInv, BeginGraph
    PROVE  DInv'
  <1> USE DEF BeginGraph, hierarchyVars
  <1>1. Symmetric' /\ NeighboursApart'
    BY DEF DInv, Symmetric, NeighboursApart
  <1>2. ListsFixed' /\ Cliques'
    BY DEF DInv, ListsFixed, Cliques, Clique
  <1>3. GraphFirst'
    BY DEF DInv, GraphFirst, Vertices
  <1> QED
    BY <1>1, <1>2, <1>3 DEF DInv

(* Adding the methods of a class keeps it.                                 *)
LEMMA AddMethodsStep ==
    ASSUME DInv, NEW t \in Type, AddMethodsToGraph(t)
    PROVE  DInv'
  <1> USE DEF AddMethodsToGraph, hierarchyVars
  <1>1. Symmetric'
    <2> SUFFICES ASSUME NEW e \in neighbours'
                 PROVE  /\ e = <<e[1], e[2]>> /\ e[1] # e[2]
                        /\ <<e[2], e[1]>> \in neighbours'
      BY DEF Symmetric
    <2>1. CASE e \in neighbours
      BY <2>1 DEF DInv, Symmetric
    <2>2. CASE e \in Clique(method_list[t])
      BY <2>2, CliqueSymmetric
    <2> QED
      BY <2>1, <2>2
  <1>2. ListsFixed'
    BY DEF DInv, ListsFixed
  <1>3. Cliques'
    <2>1. added' \in Nat /\ added' <= Len(Units)
      BY UnitsAssumption DEF DInv, Cliques
    <2>2. ASSUME NEW k \in 1..added'
          PROVE  Clique(method_list[Units[k]])' \subseteq neighbours'
      <3>1. CASE k = added + 1
        BY <3>1 DEF Clique
      <3>2. CASE k # added + 1
        <4>1. k \in 1..added
          BY <3>2 DEF DInv, Cliques
        <4> QED
          BY <4>1 DEF DInv, Cliques, Clique
      <3> QED
        BY <3>1, <3>2
    <2> QED
      BY <2>1, <2>2 DEF Cliques
  <1>4. GraphFirst' /\ NeighboursApart'
    BY DEF DInv, GraphFirst, NeighboursApart
  <1> QED
    BY <1>1, <1>2, <1>3, <1>4 DEF DInv

(* Starting to colour keeps it.                                            *)
LEMMA BeginColourStep ==
    ASSUME DInv, NEW m, BeginColour(m)
    PROVE  DInv'
  <1> USE DEF BeginColour, hierarchyVars
  <1>1. Symmetric' /\ ListsFixed' /\ Cliques'
    BY DEF DInv, Symmetric, ListsFixed, Cliques, Clique
  <1>2. GraphFirst'
    BY DEF DInv, GraphFirst, Vertices
  <1>3. NeighboursApart'
    BY DEF DInv, Symmetric, NeighboursApart
  <1> QED
    BY <1>1, <1>2, <1>3 DEF DInv

(* The vertex just coloured has a colour none of its neighbours has, and it   *)
(* is a neighbour of each of its neighbours.                                  *)
LEMMA AssignColourStep ==
    ASSUME DInv, NEW m, AssignColour(m)
    PROVE  DInv'
  <1> USE DEF AssignColour, hierarchyVars
  <1>1. Symmetric' /\ ListsFixed' /\ Cliques'
    BY DEF DInv, Symmetric, ListsFixed, Cliques, Clique
  <1>2. PICK c \in 1..(Cardinality(Vertices) + 1) :
            LeastFree(m, c) /\ colour' = [colour EXCEPT ![m] = c]
    OBVIOUS
  <1>3. colour \in [Vertices -> Nat] /\ m \in Vertices /\ c \in Nat
    BY DEF DInv, GraphFirst
  <1>4. GraphFirst'
    BY <1>2, <1>3 DEF DInv, GraphFirst, Vertices
  <1>5. \A n \in Neighbours(m) : colour[n] # c
    BY <1>2 DEF LeastFree, Free
  <1>6. NeighboursApart'
    <2> SUFFICES ASSUME NEW u \in coloured', NEW v \in coloured', <<u, v>> \in neighbours'
                 PROVE  colour'[u] # colour'[v]
      BY DEF NeighboursApart
    <2>1. <<u, v>> \in neighbours /\ <<v, u>> \in neighbours /\ u # v
      BY DEF DInv, Symmetric
    <2>2. u \in Vertices /\ v \in Vertices
      BY <2>1 DEF Vertices
    <2>3. CASE u = m
      <3>1. v \in Neighbours(m)
        BY <2>1, <2>2, <2>3 DEF Neighbours
      <3> QED
        BY <1>2, <1>3, <1>5, <2>1, <2>2, <2>3, <3>1
    <2>4. CASE v = m
      <3>1. u \in Neighbours(m)
        BY <2>1, <2>2, <2>4 DEF Neighbours
      <3> QED
        BY <1>2, <1>3, <1>5, <2>1, <2>2, <2>4, <3>1
    <2>5. CASE u # m /\ v # m
      <3>1. u \in coloured /\ v \in coloured
        BY <2>5
      <3> QED
        BY <1>2, <1>3, <2>1, <2>2, <2>5, <3>1 DEF DInv, NeighboursApart
    <2> QED
      BY <2>3, <2>4, <2>5
  <1> QED
    BY <1>1, <1>4, <1>6 DEF DInv

(* The passes after colouring leave the colours alone.                     *)
LEMMA AfterColouringStep ==
    ASSUME DInv, AssertColoured \/ (\E c \in Type : BuildDV(c)) \/ UNCHANGED vars
    PROVE  DInv'
  <1>1. UNCHANGED <<hierarchyVars, added, neighbours, colour, coloured>>
    BY DEF AssertColoured, BuildDV, vars, dispatchVars
  <1>2. phase' = phase \/ (phase = "colour" /\ phase' \in {"build", "failed"})
    BY DEF AssertColoured, BuildDV, vars, dispatchVars
  <1>3. Symmetric' /\ ListsFixed' /\ Cliques'
    BY <1>1, <1>2 DEF DInv, Symmetric, ListsFixed, Cliques, Clique, hierarchyVars
  <1>4. GraphFirst' /\ NeighboursApart'
    BY <1>1, <1>2 DEF DInv, GraphFirst, NeighboursApart, Vertices
  <1> QED
    BY <1>3, <1>4 DEF DInv

(* The graph and its colouring, in every state of dispatch-vector building. *)
THEOREM DispatchInductive == DispatchSpec => []DInv
  <1>1. DInv /\ [DispatchNext]_vars => DInv'
    BY VisitStep, BeginGraphStep, AddMethodsStep, BeginColourStep, AssignColourStep,
       AfterColouringStep DEF DispatchNext
  <1> QED
    BY InitDInv, <1>1, PTL DEF DispatchSpec

(* Two methods one type declares or inherits never share a dispatch slot.     *)
THEOREM SlotsStayApart == DispatchSpec => []SlotsApart
  <1>1. DInv => SlotsApart
    <2> SUFFICES ASSUME DInv, NEW t \in ToSet(Units),
                        NEW m \in Virtual(method_list[t]) \cap coloured,
                        NEW n \in Virtual(method_list[t]) \cap coloured, m # n
                 PROVE  colour[m] # colour[n]
      BY DEF SlotsApart
    <2>1. PICK k \in 1..Len(Units) : t = Units[k]
      BY UnitsAssumption DEF ToSet
    <2>2. k \in 1..added
      BY DEF DInv, GraphFirst
    <2>3. <<m, n>> \in Clique(method_list[t])
      BY CliqueComplete
    <2>4. <<m, n>> \in neighbours
      BY <2>1, <2>2, <2>3 DEF DInv, Cliques
    <2> QED
      BY <2>4 DEF DInv, NeighboursApart
  <1> QED
    BY <1>1, DispatchInductive, PTL

----------------------------------------------------------------------------
(* Every method gets a slot.  A method_list always has a constructor, the    *)
(* class's own or Object's, so no method is without a neighbour and none is  *)
(* left out of the graph that is coloured.                                  *)

\* The methods of the graph are those of the units added.
MethodsFrom == \A m \in methods : \E k \in 1..added : m \in Virtual(method_list[Units[k]])

\* What has been coloured has a colour, and there is a greatest colour.
ColoursBounded ==
    /\ \A m \in coloured : colour[m] > 0
    /\ phase \notin {"wait", "graph"} => \E b \in Nat : \A m \in Vertices : colour[m] <= b

FieldOf == [in : Type, name : STRING]

\* A cached vector is the one its class would be given now, and the vectors of
\* the superclasses are cached too.
Built ==
    /\ phase = "build" => coloured = Vertices
    /\ class_dvs = [c \in DOMAIN class_dvs |-> class_dvs[c]] /\ DOMAIN class_dvs \subseteq Type
    /\ DOMAIN class_dvs # {} => phase = "build"
    /\ \A c \in DOMAIN class_dvs :
         /\ SuperClass(c) \subseteq DOMAIN class_dvs
         /\ class_dvs[c].slots = DispatchSlots(c)
         /\ class_dvs[c].fields = FieldVector(c)
         /\ class_dvs[c].fields \in Seq(FieldOf)

VectorInv == HInv /\ DInv /\ MethodsFrom /\ ColoursBounded /\ Built /\ phase # "failed"

\* Hierarchy checking goes on as it does alone.
LEMMA HierarchyGoesOn ==
    ASSUME HInv, [DispatchNext]_vars
    PROVE  HInv'
  <1>1. [Visit]_hierarchyVars
    BY DEF DispatchNext, vars, BeginGraph, AddMethodsToGraph, BeginColour, AssignColour,
           AssertColoured, BuildDV
  <1> QED
    BY <1>1, HierarchyStep

\* After the graph is begun the program is a legal one.
LEMMA GraphIsLegal ==
    ASSUME HInv, ListsFixed, phase # "wait"
    PROVE  Legal
  BY AcceptedIsLegal DEF ListsFixed

\* There is a constructor in the method_list of every type.
LEMMA ListHasConstructor ==
    ASSUME Legal, NEW t \in Type
    PROVE  \E k \in method_list[t] : k.constructor
  <1>0. Linking
    BY DEF Legal
  <1>1. Object \in Type /\ program[Object] \in Linked[Object] /\ program[t] \in Linked[t]
    BY <1>0, TypesAssumption DEF Linking
  <1>2. PICK k \in program[Object].methods : k.constructor
    BY <1>1, ObjectAssumption
  <1>3. CASE IsInterface(t)
    BY <1>2, <1>3 DEF Legal, Checked
  <1>4. CASE ~IsInterface(t) /\ t = Object
    BY <1>2, <1>4 DEF Legal, Checked
  <1>5. CASE ~IsInterface(t) /\ t # Object
    <2>1. k \in ExtendedMethods(t)
      <3>1. k \in (IF t = Object THEN {} ELSE program[Object].methods)
        BY <1>2, <1>5
      <3> QED
        BY <3>1, Zenon DEF ExtendedMethods
    <2>2. \A r \in Declared(t) : ~SameSignature(r, k)
      <3> SUFFICES ASSUME NEW r \in Declared(t), SameSignature(r, k) PROVE FALSE
        OBVIOUS
      <3>1. k \in Declared(Object)
        BY <1>0, <1>1, <1>2, NoConstructor DEF SameSignature
      <3> QED
        BY <1>2, <3>1 DEF Declared
    <2>3. k \notin ImplementedMethods(t)
      <3>1. k.in = Object
        BY <1>0, <1>1, <1>2, Kinds
      <3> QED
        BY <1>0, <3>1, ImplementedByInterfaces, ObjectOnTop
    <2>4. k \in InheritedMethods(t)
      BY <2>1, <2>2, <2>3 DEF InheritedMethods
    <2>5. method_list[t] = program[t].methods \cup InheritedMethods(t)
      BY <1>5 DEF Legal, Checked
    <2> QED
      BY <1>2, <2>4, <2>5
  <1> QED
    BY <1>3, <1>4, <1>5

\* So every method of a unit that has been added is a vertex.
LEMMA MethodsAreVertices ==
    ASSUME Legal, Cliques, NEW k \in 1..added, NEW m \in Virtual(method_list[Units[k]])
    PROVE  m \in Vertices
  <1> DEFINE t == Units[k]
  <1>1. k \in 1..Len(Units) /\ t \in Type
    BY EveryUnit DEF Cliques
  <1>2. PICK n \in method_list[t] : n.constructor
    BY <1>1, ListHasConstructor
  <1>3. m \in method_list[t] /\ ~m.constructor
    BY DEF Virtual
  <1>4. <<m, n>> \in Clique(method_list[t])
    BY <1>2, <1>3 DEF Clique
  <1>5. <<m, n>> \in neighbours
    BY <1>4 DEF Cliques
  <1> QED
    BY <1>5 DEF Vertices

\* The assertion of assignColours holds.
LEMMA AllColoured ==
    ASSUME VectorInv, phase = "colour", coloured = Vertices
    PROVE  ProperlyColoured
  <1>1. Legal
    BY GraphIsLegal DEF VectorInv, DInv
  <1> SUFFICES ASSUME NEW m \in methods
               PROVE  /\ m \in Vertices /\ colour[m] > 0
                      /\ \A n \in Neighbours(m) : colour[n] # colour[m]
    BY DEF ProperlyColoured
  <1>2. PICK k \in 1..added : m \in Virtual(method_list[Units[k]])
    BY DEF VectorInv, MethodsFrom
  <1>3. m \in Vertices
    BY <1>1, <1>2, MethodsAreVertices DEF VectorInv, DInv
  <1>4. colour[m] > 0
    BY <1>3 DEF VectorInv, ColoursBounded
  <1>5. \A n \in Neighbours(m) : colour[n] # colour[m]
    BY <1>3 DEF VectorInv, DInv, NeighboursApart, Neighbours
  <1> QED
    BY <1>3, <1>4, <1>5

\* A vector does not change while lists, colours and the program do not.
LEMMA VectorsStay ==
    ASSUME method_list' = method_list, colour' = colour, NEW c
    PROVE  DispatchSlots(c)' = DispatchSlots(c)
  BY DEF DispatchSlots, Virtual

\* The fields of a class are a sequence that begins with its superclass's.
LEMMA FieldsInOrder ==
    ASSUME Built, Linking, NEW c \in Type, SuperClass(c) \subseteq DOMAIN class_dvs
    PROVE  /\ FieldVector(c) \in Seq(FieldOf)
           /\ \A p \in SuperClass(c) :
                /\ Len(class_dvs[p].fields) <= Len(FieldVector(c))
                /\ \A i \in 1..Len(class_dvs[p].fields) :
                     FieldVector(c)[i] = class_dvs[p].fields[i]
  <1> DEFINE own == [i \in DOMAIN Fields[c] |-> [in |-> c, name |-> Fields[c][i]]]
             up == ParentFields(c)
  <1>1. own \in Seq(FieldOf)
    <2>1. Fields[c] \in Seq(STRING)
      BY FieldsAssumption
    <2>2. DOMAIN Fields[c] = 1..Len(Fields[c]) /\ Len(Fields[c]) \in Nat
      BY <2>1
    <2>3. \A i \in DOMAIN Fields[c] : [in |-> c, name |-> Fields[c][i]] \in FieldOf
      BY <2>1, <2>2 DEF FieldOf
    <2>4. own \in [1..Len(Fields[c]) -> FieldOf]
      BY <2>2, <2>3
    <2> QED
      BY <2>2, <2>4
  <1>2. /\ up \in Seq(FieldOf)
        /\ \A p \in SuperClass(c) : up = class_dvs[p].fields
    <2>1. CASE program[c].extended = None
      <3>1. up = <<>> /\ SuperClass(c) = {}
        BY <2>1 DEF ParentFields, SuperClass
      <3> QED
        BY <3>1
    <2>2. CASE program[c].extended # None
      <3>1. SuperClass(c) = {program[c].extended}
        BY <2>2 DEF SuperClass
      <3>2. up = class_dvs[program[c].extended].fields
        BY <2>2 DEF ParentFields
      <3> QED
        BY <3>1, <3>2 DEF Built
    <2> QED
      BY <2>1, <2>2
  <1>3. FieldVector(c) = up \o own
    BY DEF FieldVector
  <1> HIDE DEF own, up
  <1>4. /\ up \o own \in Seq(FieldOf) /\ Len(up) <= Len(up \o own)
        /\ \A i \in 1..Len(up) : (up \o own)[i] = up[i]
    BY <1>1, <1>2
  <1> QED
    BY <1>2, <1>3, <1>4

\* Nothing is there at the start.
LEMMA VectorStart == DispatchInit => VectorInv
  <1> SUFFICES ASSUME DispatchInit PROVE VectorInv
    OBVIOUS
  <1>1. HInv /\ DInv
    BY HierarchyStart, InitDInv DEF DispatchInit
  <1>2. /\ phase = "wait" /\ methods = {} /\ coloured = {}
        /\ class_dvs = [c \in {} |-> None]
    BY DEF DispatchInit
  <1>3. MethodsFrom /\ ColoursBounded
    BY <1>2 DEF MethodsFrom, ColoursBounded
  <1>4. DOMAIN class_dvs = {} /\ class_dvs = [c \in DOMAIN class_dvs |-> class_dvs[c]]
    BY <1>2
  <1>5. Built
    BY <1>2, <1>4 DEF Built
  <1> QED
    BY <1>1, <1>2, <1>3, <1>5 DEF VectorInv

\* Every step but the building of a vector leaves the cached vectors alone: there
\* are none until the colours are fixed.
LEMMA NoVectorYet ==
    ASSUME VectorInv, class_dvs' = class_dvs, phase # "build", phase' # "build"
    PROVE  Built'
  <1>1. DOMAIN class_dvs = {} /\ class_dvs = [c \in DOMAIN class_dvs |-> class_dvs[c]]
    BY DEF VectorInv, Built
  <1> QED
    BY <1>1 DEF Built

\* While the graph waits or is built.
LEMMA GraphSteps ==
    ASSUME VectorInv, (Visit /\ UNCHANGED dispatchVars) \/ BeginGraph
                        \/ (\E t \in Type : AddMethodsToGraph(t))
    PROVE  MethodsFrom' /\ ColoursBounded' /\ Built' /\ phase' # "failed"
  <1>1. CASE Visit /\ UNCHANGED dispatchVars
    <2>1. phase = "wait"
      BY <1>1 DEF VectorInv, DInv, ListsFixed, Visit, LinkUnit, BeginChecking, Reject,
           VisitClass, VisitInterface, Visiting, AcceptProgram
    <2>2. /\ phase' = "wait" /\ added' = 0 /\ methods' = methods /\ coloured' = coloured
          /\ class_dvs' = class_dvs /\ added = 0 /\ coloured = {}
      BY <1>1, <2>1 DEF VectorInv, DInv, GraphFirst, dispatchVars
    <2>3. methods = {}
      BY <2>2 DEF VectorInv, MethodsFrom
    <2> QED
      BY <2>1, <2>2, <2>3, NoVectorYet DEF MethodsFrom, ColoursBounded
  <1>2. CASE BeginGraph
    <2>1. /\ phase = "wait" /\ phase' = "graph" /\ added' = added /\ methods' = methods
          /\ method_list' = method_list /\ coloured' = coloured /\ class_dvs' = class_dvs
          /\ coloured = {}
      BY <1>2 DEF BeginGraph, hierarchyVars, VectorInv, DInv, GraphFirst
    <2> QED
      BY <2>1, NoVectorYet DEF MethodsFrom, ColoursBounded, VectorInv, Virtual
  <1>3. ASSUME NEW t \in Type, AddMethodsToGraph(t)
        PROVE  MethodsFrom' /\ ColoursBounded' /\ Built' /\ phase' # "failed"
    <2>1. /\ phase = "graph" /\ phase' = "graph" /\ added' = added + 1 /\ t = Units[added + 1]
          /\ methods' = methods \cup Virtual(method_list[t])
          /\ method_list' = method_list /\ coloured' = coloured /\ class_dvs' = class_dvs
          /\ coloured = {} /\ added \in Nat
      BY <1>3 DEF AddMethodsToGraph, hierarchyVars, VectorInv, DInv, GraphFirst, Cliques
    <2>2. \A m \in methods' : \E k \in 1..added' : m \in Virtual(method_list[Units[k]])
      BY <2>1 DEF VectorInv, MethodsFrom
    <2> QED
      BY <2>1, <2>2, NoVectorYet DEF MethodsFrom, ColoursBounded, Virtual
  <1> QED
    BY <1>1, <1>2, <1>3

\* While the graph is coloured.
LEMMA ColourSteps ==
    ASSUME VectorInv, NEW m \in Vertices, BeginColour(m) \/ AssignColour(m)
    PROVE  MethodsFrom' /\ ColoursBounded' /\ Built' /\ phase' # "failed"
  <1>1. /\ phase' = "colour" /\ phase # "build" /\ added' = added /\ methods' = methods
        /\ method_list' = method_list /\ class_dvs' = class_dvs /\ neighbours' = neighbours
    BY DEF BeginColour, AssignColour, hierarchyVars
  <1>2. MethodsFrom'
    BY <1>1 DEF VectorInv, MethodsFrom, Virtual
  <1>3. Vertices' = Vertices
    BY <1>1 DEF Vertices
  <1>4. CASE BeginColour(m)
    <2>1. colour' = [n \in Vertices |-> IF n = m THEN 1 ELSE 0] /\ coloured' = {m}
      BY <1>4 DEF BeginColour
    <2>2. \A n \in Vertices : colour'[n] <= 1
      BY <2>1
    <2>3. \E b \in Nat : \A n \in Vertices : colour'[n] <= b
      BY <2>2
    <2> QED
      BY <1>1, <1>2, <1>3, <2>1, <2>3, NoVectorYet DEF ColoursBounded
  <1>5. CASE AssignColour(m)
    <2>1. PICK c \in 1..(Cardinality(Vertices) + 1) : colour' = [colour EXCEPT ![m] = c]
      BY <1>5 DEF AssignColour
    <2>2. /\ coloured' = coloured \cup {m} /\ colour \in [Vertices -> Nat]
          /\ coloured \subseteq Vertices /\ phase = "colour"
      BY <1>5 DEF AssignColour, VectorInv, DInv, GraphFirst
    <2>3. c \in Nat /\ c > 0
      BY <2>1
    <2>4. PICK b \in Nat : \A n \in Vertices : colour[n] <= b
      BY <2>2 DEF VectorInv, ColoursBounded
    <2>5. \A n \in Vertices : colour'[n] <= b + c
      BY <2>1, <2>2, <2>3, <2>4
    <2>6. \E d \in Nat : \A n \in Vertices : colour'[n] <= d
      BY <2>3, <2>5
    <2>7. \A n \in coloured' : colour'[n] > 0
      BY <2>1, <2>2, <2>3 DEF VectorInv, ColoursBounded
    <2> QED
      BY <1>1, <1>2, <1>3, <2>6, <2>7, NoVectorYet DEF ColoursBounded
  <1> QED
    BY <1>4, <1>5

\* Once the graph is coloured.
LEMMA BuildSteps ==
    ASSUME VectorInv, AssertColoured \/ (\E c \in Type : BuildDV(c)) \/ UNCHANGED vars
    PROVE  MethodsFrom' /\ ColoursBounded' /\ Built' /\ phase' # "failed"
  <1>1. /\ added' = added /\ methods' = methods /\ neighbours' = neighbours
        /\ colour' = colour /\ coloured' = coloured
        /\ program' = program /\ method_list' = method_list
    BY DEF AssertColoured, BuildDV, vars, dispatchVars, hierarchyVars
  <1>2. phase' = phase \/ (phase = "colour" /\ AssertColoured)
    BY DEF AssertColoured, BuildDV, vars, dispatchVars
  <1>3. phase' \in {phase, "build"} /\ (phase' # phase => phase = "colour" /\ coloured = Vertices
                                                           /\ class_dvs' = class_dvs)
    BY <1>2, AllColoured DEF AssertColoured
  <1>4. Vertices' = Vertices
    BY <1>1 DEF Vertices
  <1>5. MethodsFrom' /\ ColoursBounded' /\ phase' # "failed"
    BY <1>1, <1>3, <1>4 DEF VectorInv, MethodsFrom, ColoursBounded, Virtual
  <1>6. \A d : DispatchSlots(d)' = DispatchSlots(d)
    BY <1>1, VectorsStay
  <1>7. \A d : SuperClass(d)' = SuperClass(d)
    BY <1>1 DEF SuperClass
  <1>8. phase' = "build" => coloured' = Vertices'
    BY <1>1, <1>3, <1>4 DEF VectorInv, Built
  <1>9. ASSUME class_dvs' = class_dvs PROVE Built'
    <2>1. \A d : FieldVector(d)' = FieldVector(d)
      BY <1>1, <1>9 DEF FieldVector, ParentFields
    <2>2. DOMAIN class_dvs' # {} => phase' = "build"
      BY <1>3, <1>9 DEF VectorInv, Built
    <2> QED
      BY <1>6, <1>7, <1>8, <1>9, <2>1, <2>2 DEF VectorInv, Built
  <1>10. ASSUME NEW c \in Type, BuildDV(c) PROVE Built'
    <2> DEFINE new == [slots |-> DispatchSlots(c), fields |-> FieldVector(c)]
               D == DOMAIN class_dvs
    <2>1. /\ phase = "build" /\ phase' = "build" /\ c \notin D /\ SuperClass(c) \subseteq D
          /\ class_dvs' = [d \in D \cup {c} |-> IF d = c THEN new ELSE class_dvs[d]]
      BY <1>10 DEF BuildDV
    <2>2. Linking
      BY <2>1, GraphIsLegal DEF VectorInv, DInv, Legal
    <2>3. new.slots = DispatchSlots(c) /\ new.fields = FieldVector(c)
          /\ FieldVector(c) \in Seq(FieldOf)
      BY <2>1, <2>2, FieldsInOrder DEF VectorInv
    <2> HIDE DEF new
    <2>4. /\ DOMAIN class_dvs' = D \cup {c} /\ class_dvs'[c] = new
          /\ \A d \in D : class_dvs'[d] = class_dvs[d]
          /\ class_dvs' = [d \in DOMAIN class_dvs' |-> class_dvs'[d]]
      <3>1. DOMAIN class_dvs' = D \cup {c}
        BY <2>1
      <3>2. class_dvs'[c] = new
        BY <2>1
      <3>3. \A d \in D : class_dvs'[d] = class_dvs[d]
        BY <2>1
      <3>4. class_dvs' = [d \in DOMAIN class_dvs' |-> class_dvs'[d]]
        BY <2>1
      <3> QED
        BY <3>1, <3>2, <3>3, <3>4
    <2>5. ASSUME NEW d \in D \cup {c}
          PROVE  SuperClass(d) \subseteq D /\ FieldVector(d)' = FieldVector(d)
      <3>1. SuperClass(d) \subseteq D
        BY <2>1 DEF VectorInv, Built
      <3>2. program[d].extended # None => program[d].extended \in D
        BY <3>1 DEF SuperClass
      <3>3. ParentFields(d)' = ParentFields(d)
        BY <1>1, <2>4, <3>2 DEF ParentFields
      <3> QED
        BY <3>1, <3>3 DEF FieldVector
    <2>6. ASSUME NEW d \in DOMAIN class_dvs'
          PROVE  /\ SuperClass(d)' \subseteq DOMAIN class_dvs'
                 /\ class_dvs'[d].slots = DispatchSlots(d)'
                 /\ class_dvs'[d].fields = FieldVector(d)'
                 /\ class_dvs'[d].fields \in Seq(FieldOf)
      BY <1>6, <1>7, <2>3, <2>4, <2>5 DEF VectorInv, Built
    <2>7. DOMAIN class_dvs' \subseteq Type
      BY <2>4 DEF VectorInv, Built
    <2> QED
      BY <1>8, <2>1, <2>4, <2>6, <2>7 DEF Built
  <1> QED
    BY <1>5, <1>9, <1>10 DEF AssertColoured, vars, dispatchVars

\* Every step keeps it.
LEMMA VectorStep ==
    ASSUME VectorInv, [DispatchNext]_vars
    PROVE  VectorInv'
  <1>1. HInv'
    BY HierarchyGoesOn DEF VectorInv
  <1>2. DInv'
    BY VisitStep, BeginGraphStep, AddMethodsStep, BeginColourStep, AssignColourStep,
       AfterColouringStep DEF DispatchNext, VectorInv
  <1>3. MethodsFrom' /\ ColoursBounded' /\ Built' /\ phase' # "failed"
    BY GraphSteps, ColourSteps, BuildSteps DEF DispatchNext
  <1> QED
    BY <1>1, <1>2, <1>3 DEF VectorInv

\* The invariant of dispatch-vector building.
THEOREM VectorInductive == DispatchSpec => []VectorInv
  BY VectorStart, VectorStep, PTL DEF DispatchSpec

\* assertColoured never throws.
THEOREM EveryMethodColoured == DispatchSpec => []ColouringSucceeds
  <1>1. VectorInv => ColouringSucceeds
    BY DEF VectorInv, ColouringSucceeds
  <1> QED
    BY <1>1, VectorInductive, PTL

----------------------------------------------------------------------------
(* What the vectors hold.                                                   *)

\* A bounded set of numbers has a greatest.
LEMMA BoundedMax ==
    ASSUME NEW S \in SUBSET Nat, S # {}, NEW b \in Nat, \A n \in S : n <= b
    PROVE  Max(S) \in S /\ \A n \in S : n <= Max(S)
  <1> DEFINE H == {k \in Nat : \E n \in S : k = b - n}
  <1>1. \A n \in S : b - n \in Nat
    OBVIOUS
  <1>2. H # {} /\ H \subseteq Nat
    BY <1>1
  <1>3. PICK k \in H : \A j \in H : ~(<<j, k>> \in OpToRel(<, Nat))
    <2> HIDE DEF H
    <2> QED
      BY <1>2, NatLessThanWellFounded, WFMin
  <1>4. PICK x \in S : k = b - x
    OBVIOUS
  <1>5. \A n \in S : x >= n
    <2> SUFFICES ASSUME NEW n \in S, ~(x >= n) PROVE FALSE
      OBVIOUS
    <2>1. b - n \in H /\ b - n < k
      BY <1>1, <1>4
    <2> QED
      BY <1>2, <1>3, <2>1 DEF OpToRel
  <1>6. Max(S) \in S /\ \A n \in S : Max(S) >= n
    BY <1>5 DEF Max
  <1> QED
    BY <1>6

\* A method of a class is in the vector at its colour, and alone there.
LEMMA SlotOfMethod ==
    ASSUME VectorInv, NEW c \in DOMAIN class_dvs, NEW m \in Virtual(method_list[c])
    PROVE  /\ colour[m] \in DOMAIN class_dvs[c].slots
           /\ class_dvs[c].slots[colour[m]] = {m}
  <1> DEFINE V == Virtual(method_list[c])
             S == {0} \cup {colour[x] : x \in V}
  <1>1. /\ phase = "build" /\ coloured = Vertices /\ c \in Type
        /\ class_dvs[c].slots = DispatchSlots(c)
    BY DEF VectorInv, Built
  <1>2. Legal
    BY <1>1, GraphIsLegal DEF VectorInv, DInv
  <1>3. PICK k \in 1..Len(Units) : c = Units[k]
    BY <1>1, EveryUnit
  <1>4. k \in 1..added /\ colour \in [Vertices -> Nat]
    BY <1>1 DEF VectorInv, DInv, GraphFirst
  <1>5. V \subseteq Vertices
    BY <1>2, <1>3, <1>4, MethodsAreVertices DEF VectorInv, DInv
  <1>6. PICK b \in Nat : \A x \in Vertices : colour[x] <= b
    BY <1>1 DEF VectorInv, ColoursBounded
  <1>7. S \subseteq Nat /\ S # {} /\ \A n \in S : n <= b
    BY <1>4, <1>5, <1>6
  <1>8. Max(S) \in Nat /\ colour[m] <= Max(S)
    <2>1. colour[m] \in S
      OBVIOUS
    <2> HIDE DEF S
    <2> QED
      BY <1>7, <2>1, BoundedMax
  <1>9. colour[m] \in 0..Max(S)
    BY <1>4, <1>5, <1>8
  <1>10. DispatchSlots(c) = [s \in 0..Max(S) |-> {x \in V : colour[x] = s}]
    BY DEF DispatchSlots
  <1>11. \A x \in V : colour[x] = colour[m] => x = m
    <2> SUFFICES ASSUME NEW x \in V, colour[x] = colour[m], x # m PROVE FALSE
      OBVIOUS
    <2>1. <<x, m>> \in Clique(method_list[c])
      BY CliqueComplete
    <2>2. <<x, m>> \in neighbours
      BY <1>3, <1>4, <2>1 DEF VectorInv, DInv, Cliques
    <2> QED
      BY <1>1, <1>5, <2>2 DEF VectorInv, DInv, NeighboursApart
  <1> HIDE DEF S
  <1> QED
    BY <1>1, <1>9, <1>10, <1>11

\* Method lookup finds methods of the method_list.
LEMMA FoundIsVirtual ==
    ASSUME VectorInv, NEW c \in DOMAIN class_dvs, c \in ConcreteClasses,
           NEW r \in Members(c), NEW m \in Implementation(c, r.sig)
    PROVE  m \in Virtual(method_list[c])
  <1>1. Legal
    BY GraphIsLegal DEF VectorInv, DInv, Built
  <1>2. c \in Type /\ ~IsInterface(c)
    BY <1>1 DEF ConcreteClasses, Classes, Legal, Linking
  <1>3. m \in method_list[c]
    BY <1>1, <1>2, FoundIsListed
  <1>4. m \in Declared(m.in)
    BY <1>1, <1>2, Found DEF Legal
  <1> QED
    BY <1>3, <1>4 DEF Virtual, Declared

\* They are in the vector.
LEMMA VectorsHold ==
    ASSUME VectorInv
    PROVE  DVHoldsImplementation
  BY FoundIsVirtual, SlotOfMethod DEF DVHoldsImplementation

\* The vector of a class with objects holds what method lookup finds, at the
\* method's own colour, and nothing else is in that slot (dispatch-vector.cc:20-36).
THEOREM VectorsHoldImplementations == DispatchSpec => []DVHoldsImplementation
  BY VectorsHold, VectorInductive, PTL

\* A field is at the same offset in an object for every class of its chain.
THEOREM FieldsKeepOffsets == DispatchSpec => []FieldOffsetsAgree
  <1>1. ASSUME VectorInv PROVE FieldOffsetsAgree
    <2> SUFFICES ASSUME NEW c \in DOMAIN class_dvs, NEW p \in SuperClasses(c),
                        NEW i \in DOMAIN class_dvs[p].fields
                 PROVE  class_dvs[c].fields[i] = class_dvs[p].fields[i]
      BY DEF FieldOffsetsAgree
    <2> DEFINE Begins(q, d) ==
                 /\ Len(class_dvs[q].fields) <= Len(class_dvs[d].fields)
                 /\ \A j \in 1..Len(class_dvs[q].fields) :
                      class_dvs[d].fields[j] = class_dvs[q].fields[j]
               S == {q \in DOMAIN class_dvs : Begins(q, c)}
    <2>1. Linking /\ DOMAIN class_dvs \subseteq Type
      BY <1>1, GraphIsLegal DEF VectorInv, DInv, Built, Legal
    <2>2. \A d \in DOMAIN class_dvs :
             class_dvs[d].fields \in Seq(FieldOf) /\ Len(class_dvs[d].fields) \in Nat
      BY <1>1 DEF VectorInv, Built
    <2>3. \A d \in DOMAIN class_dvs : \A q \in SuperClass(d) :
             q \in DOMAIN class_dvs /\ Begins(q, d)
      <3> SUFFICES ASSUME NEW d \in DOMAIN class_dvs, NEW q \in SuperClass(d)
                   PROVE  q \in DOMAIN class_dvs /\ Begins(q, d)
        OBVIOUS
      <3>1. SuperClass(d) \subseteq DOMAIN class_dvs /\ class_dvs[d].fields = FieldVector(d)
        BY <1>1 DEF VectorInv, Built
      <3> QED
        BY <1>1, <2>1, <3>1, FieldsInOrder DEF VectorInv
    <2>4. ASSUME NEW d \in S, NEW q \in SuperClass(d) PROVE q \in S
      <3>1. q \in DOMAIN class_dvs /\ Begins(q, d) /\ Begins(d, c)
        BY <2>3
      <3>2. /\ Len(class_dvs[q].fields) \in Nat /\ Len(class_dvs[d].fields) \in Nat
            /\ Len(class_dvs[c].fields) \in Nat
        BY <2>2, <3>1
      <3>3. Begins(q, c)
        BY <3>1, <3>2
      <3> QED
        BY <3>1, <3>3
    <2>5. SuperClass(c) \subseteq S /\ S \subseteq Type
      BY <2>1, <2>3
    <2>6. SuperClasses(c) \subseteq S
      <3> HIDE DEF S
      <3> QED
        BY <2>1, <2>4, <2>5, Above
    <2>7. p \in DOMAIN class_dvs /\ Begins(p, c)
      BY <2>6
    <2>8. i \in 1..Len(class_dvs[p].fields)
      BY <2>2, <2>7
    <2> QED
      BY <2>7, <2>8
  <1> QED
    BY <1>1, VectorInductive, PTL
=============================================================================
