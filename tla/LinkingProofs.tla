---------------------------- MODULE LinkingProofs ----------------------------
(***************************************************************************)
(* Proofs for Packages, TypeLinking and Disambiguation: the units are      *)
(* rejected in any order or in none, the imports of a linked unit exist,   *)
(* its names mean what is written, and disambiguation reads them as the    *)
(* type linker does, whatever the units, imports and names.                *)
(***************************************************************************)
EXTENDS Disambiguation, SequenceTheorems, FiniteSetTheorems,
        WellFoundedInduction, TLAPS

\* the strings, those of java.lang among them
Ids   == STRING \cup {"java", "lang"}
Paths == Seq(Ids)

\* Packages are sequences of identifiers, java.lang's and its types' too.
LEMMA PathsAreTyped ==
  /\ Lang \in Paths /\ Len(Lang) = 2 /\ Default \in Paths
  /\ \A t \in Unit \cup LangTypes : t.package \in Paths /\ t.name \in Ids
  /\ \A t \in LangTypes : t.package = Lang
<1>1. Lang \in Paths /\ Len(Lang) = 2 /\ Default \in Paths
  <2>1. <<"java", "lang">> \in Seq(Ids)
    <3>1. "java" \in Ids /\ "lang" \in Ids BY DEF Ids
    <3>2. <<"java", "lang">> \in [1 .. 2 -> Ids] BY <3>1
    <3>3. [1 .. 2 -> Ids] \subseteq Seq(Ids) BY SeqDef
    <3> QED BY <3>2, <3>3
  <2>2. Len(<<"java", "lang">>) = 2 OBVIOUS
  <2> QED BY <2>1, <2>2, EmptySeq DEF Lang, Default, Paths
<1>2. Seq(STRING) \subseteq Paths BY SeqMonotonic DEF Paths, Ids
<1>3. \A t \in Unit : t.package \in Paths /\ t.name \in Ids
  BY <1>2, Identifiers DEF Unit, Ids
<1>4. \A t \in LangTypes : t.package = Lang /\ t.name \in Ids
  BY LangIsSound DEF Ids
<1> QED BY <1>1, <1>3, <1>4

\* what SubSeq returns on the first k identifiers
LEMMA FirstSteps ==
  ASSUME NEW p \in Paths, NEW k \in 0 .. Len(p)
  PROVE  /\ SubSeq(p, 1, k) \in Paths
         /\ Len(SubSeq(p, 1, k)) = k
         /\ \A i \in 1 .. k : SubSeq(p, 1, k)[i] = p[i]
<1>1. Len(p) \in Nat BY LenProperties DEF Paths
<1>2. CASE k = 0
  BY <1>2, <1>1, SubSeqEmpty, EmptySeq DEF Paths
<1>3. CASE k # 0
  <2>1. 1 \in 1 .. Len(p) /\ k \in 1 .. Len(p) BY <1>3, <1>1
  <2>2. SubSeq(p, 1, k) \in Paths /\ Len(SubSeq(p, 1, k)) = k
    BY <2>1, SubSeqProperties DEF Paths
  <2>3. \A i \in 1 .. k : SubSeq(p, 1, k)[i] = p[i]
    BY <2>1, <1>1, SubSeqProperties DEF Paths
  <2> QED BY <2>2, <2>3
<1> QED BY <1>2, <1>3

\* The first identifiers of the first identifiers are the first ones.
LEMMA FirstOfFirst ==
  ASSUME NEW p \in Paths, NEW k \in 0 .. Len(p), NEW j \in 0 .. k
  PROVE  SubSeq(SubSeq(p, 1, k), 1, j) = SubSeq(p, 1, j)
<1> DEFINE q == SubSeq(p, 1, k)
<1>0. Len(p) \in Nat BY LenProperties DEF Paths
<1>1. q \in Paths /\ Len(q) = k /\ \A i \in 1 .. k : q[i] = p[i]
  BY FirstSteps
<1> HIDE DEF q
<1>2. j \in 0 .. Len(p) BY <1>0
<1>3. /\ SubSeq(q, 1, j) \in Paths /\ Len(SubSeq(q, 1, j)) = j
      /\ \A i \in 1 .. j : SubSeq(q, 1, j)[i] = q[i]
  BY <1>1, FirstSteps
<1>4. /\ SubSeq(p, 1, j) \in Paths /\ Len(SubSeq(p, 1, j)) = j
      /\ \A i \in 1 .. j : SubSeq(p, 1, j)[i] = p[i]
  BY <1>2, FirstSteps
<1>5. \A i \in 1 .. j : SubSeq(q, 1, j)[i] = SubSeq(p, 1, j)[i]
  BY <1>1, <1>3, <1>4, <1>0
<1> QED BY <1>3, <1>4, <1>5, SeqEqual DEF q, Paths

\* the prefixes of a path, and those of a prefix among them
LEMMA PrefixClosed ==
  ASSUME NEW p \in Paths, NEW q \in Prefixes(p)
  PROVE  q \in Paths /\ Prefixes(q) \subseteq Prefixes(p)
<1>0. Len(p) \in Nat BY LenProperties DEF Paths
<1>1. PICK k \in 0 .. Len(p) : q = SubSeq(p, 1, k) BY DEF Prefixes
<1>2. q \in Paths /\ Len(q) = k BY <1>1, FirstSteps
<1>3. ASSUME NEW r \in Prefixes(q) PROVE r \in Prefixes(p)
  <2>1. PICK j \in 0 .. k : r = SubSeq(q, 1, j) BY <1>2 DEF Prefixes
  <2>2. r = SubSeq(p, 1, j) BY <1>1, <2>1, FirstOfFirst
  <2> QED BY <2>2, <1>0 DEF Prefixes
<1> QED BY <1>2, <1>3

\* A path is a prefix of itself.
LEMMA PrefixOfItself ==
  ASSUME NEW p \in Paths
  PROVE  p \in Prefixes(p) /\ p = SubSeq(p, 1, Len(p))
<1>0. Len(p) \in Nat BY LenProperties DEF Paths
<1>1. SubSeq(p, 1, Len(p)) \in Paths /\ Len(SubSeq(p, 1, Len(p))) = Len(p)
      /\ \A i \in 1 .. Len(p) : SubSeq(p, 1, Len(p))[i] = p[i]
  BY <1>0, FirstSteps
<1>2. SubSeq(p, 1, Len(p)) = p BY <1>0, <1>1, SeqEqual DEF Paths
<1>3. Len(p) \in 0 .. Len(p) BY <1>0
<1>4. SubSeq(p, 1, Len(p)) \in Prefixes(p) BY <1>3 DEF Prefixes
<1> QED BY <1>2, <1>4

\* the two forms the library has for a prefix
LEMMA IsPrefixIsPrefix ==
  ASSUME NEW p \in Paths, NEW q \in Paths
  PROVE  IsPrefix(q, p) <=> q \in Prefixes(p)
<1>0. Len(p) \in Nat /\ Len(q) \in Nat BY LenProperties DEF Paths
<1>1. q = SubSeq(q, 1, Len(q)) BY PrefixOfItself
<1>2. ASSUME IsPrefix(q, p) PROVE q \in Prefixes(p)
  <2>1. Len(q) \in 0 .. Len(p) /\ q = SubSeq(p, 1, Len(q))
    BY <1>0, <1>1, <1>2 DEF IsPrefix
  <2>2. SubSeq(p, 1, Len(q)) \in Prefixes(p) BY <2>1 DEF Prefixes
  <2> QED BY <2>1, <2>2
<1>3. ASSUME q \in Prefixes(p) PROVE IsPrefix(q, p)
  <2>1. PICK k \in 0 .. Len(p) : q = SubSeq(p, 1, k) BY <1>3 DEF Prefixes
  <2>2. Len(q) = k BY <2>1, FirstSteps
  <2> QED BY <2>1, <2>2, <1>1, <1>0 DEF IsPrefix
<1> QED BY <1>2, <1>3

\* a path with one more identifier is a prefix where that identifier is a step
LEMMA StepOfPath ==
  ASSUME NEW p \in Paths, NEW q \in Paths, NEW n \in Ids
  PROVE  /\ Append(q, n) \in Paths /\ Len(Append(q, n)) = Len(q) + 1
         /\ IsPrefix(Append(q, n), p)
               <=> \E i \in DOMAIN p : Enclosing(p, i) = q /\ p[i] = n
<1> DEFINE a == Append(q, n)
<1>0. Len(p) \in Nat /\ Len(q) \in Nat /\ DOMAIN p = 1 .. Len(p)
  BY LenProperties DEF Paths
<1>1. a \in Paths /\ Len(a) = Len(q) + 1 /\ a[Len(q) + 1] = n
      /\ \A i \in 1 .. Len(q) : a[i] = q[i]
  <2>1. a \in Seq(Ids) BY AppendProperties DEF Paths
  <2>2. Len(a) = Len(q) + 1 BY AppendProperties DEF Paths
  <2>3. ASSUME NEW i \in 1 .. Len(q) PROVE a[i] = q[i]
    BY AppendProperties DEF Paths
  <2>4. a[Len(q) + 1] = n BY Zenon, AppendProperties DEF Paths
  <2> QED BY <2>1, <2>2, <2>3, <2>4 DEF Paths
<1> HIDE DEF a
<1>2. ASSUME IsPrefix(a, p)
      PROVE  \E i \in DOMAIN p : Enclosing(p, i) = q /\ p[i] = n
  <2>1. PICK k \in 0 .. Len(p) : a = SubSeq(p, 1, k)
    BY <1>1, <1>2, IsPrefixIsPrefix DEF Prefixes
  <2>2. k = Len(q) + 1 /\ \A i \in 1 .. k : a[i] = p[i]
    BY <2>1, <1>1, FirstSteps
  <2>3. k \in DOMAIN p /\ p[k] = n
    <3>1. k \in 1 .. k /\ k \in 1 .. Len(p) BY <2>2, <1>0
    <3> QED BY <3>1, <2>2, <1>0, <1>1
  <2>4. Len(q) \in 0 .. Len(p) BY <2>2, <1>0
  <2>5. /\ SubSeq(p, 1, Len(q)) \in Paths /\ Len(SubSeq(p, 1, Len(q))) = Len(q)
        /\ \A i \in 1 .. Len(q) : SubSeq(p, 1, Len(q))[i] = p[i]
    BY <2>4, FirstSteps
  <2>6. \A i \in 1 .. Len(q) : SubSeq(p, 1, Len(q))[i] = q[i]
    BY <2>2, <2>5, <1>1, <1>0
  <2>7. SubSeq(p, 1, Len(q)) = q BY <2>5, <2>6, SeqEqual DEF Paths
  <2>8. Enclosing(p, k) = q BY <2>2, <2>7, <1>0 DEF Enclosing
  <2> QED BY <2>3, <2>8
<1>3. ASSUME NEW i \in DOMAIN p, Enclosing(p, i) = q, p[i] = n
      PROVE  IsPrefix(a, p)
  <2>1. i \in 1 .. Len(p) /\ i \in 0 .. Len(p) /\ i - 1 \in 0 .. Len(p) BY <1>0
  <2>2. SubSeq(p, 1, i - 1) = q BY <1>3 DEF Enclosing
  <2>3. Len(q) = i - 1 /\ \A j \in 1 .. i - 1 : q[j] = p[j]
    BY <2>1, <2>2, FirstSteps
  <2>4. /\ SubSeq(p, 1, i) \in Paths /\ Len(SubSeq(p, 1, i)) = i
        /\ \A j \in 1 .. i : SubSeq(p, 1, i)[j] = p[j]
    BY <2>1, FirstSteps
  <2>5. Len(a) = i /\ \A j \in 1 .. i : SubSeq(p, 1, i)[j] = a[j]
    <3>1. Len(a) = i BY <2>1, <2>3, <1>1
    <3>2. SubSeq(p, 1, i)[i] = a[i]
      <4>1. i \in 1 .. i BY <2>1
      <4>2. SubSeq(p, 1, i)[i] = n BY <4>1, <2>4, <1>3
      <4>3. Len(q) + 1 = i BY <2>1, <2>3
      <4> QED BY <4>2, <4>3, <1>1
    <3>3. ASSUME NEW j \in 1 .. i - 1 PROVE SubSeq(p, 1, i)[j] = a[j]
      BY <2>1, <2>3, <2>4, <1>1
    <3> QED BY <3>1, <3>2, <3>3, <2>1
  <2>6. SubSeq(p, 1, i) = a BY <2>4, <2>5, <1>1, SeqEqual DEF Paths
  <2>7. a \in Prefixes(p) BY <2>1, <2>6 DEF Prefixes
  <2> QED BY <2>7, <1>1, IsPrefixIsPrefix
<1> QED BY <1>1, <1>2, <1>3 DEF a

-----------------------------------------------------------------------------
(* The package objects are the packages of the types and what encloses     *)
(* them: EnvironmentBuilder adds no other and forgets none.                *)
PackagesOf(units) == Prefixes(Lang) \cup UNION {Prefixes(t.package) : t \in units}

PackagesInv ==
  /\ phase \in {"environment", "clash", "imports", "linked", "error"}
  /\ declared \subseteq Unit
  /\ types \subseteq Unit \cup LangTypes
  /\ types \subseteq declared \cup LangTypes
  /\ packages = PackagesOf(types)
  /\ phase # "clash" => declared \subseteq types
  /\ ClashFoundInAnyOrder

\* With a package there are the ones that enclose it.
LEMMA PackagesOfTypes ==
  ASSUME NEW units \in SUBSET (Unit \cup LangTypes)
  PROVE  /\ PackagesOf(units) \subseteq Paths
         /\ \A p \in PackagesOf(units) : Prefixes(p) \subseteq PackagesOf(units)
         /\ \A t \in units : t.package \in PackagesOf(units)
<1>1. Lang \in Paths /\ \A t \in units : t.package \in Paths BY PathsAreTyped
<1>2. ASSUME NEW p \in PackagesOf(units)
      PROVE  p \in Paths /\ Prefixes(p) \subseteq PackagesOf(units)
  <2>1. CASE p \in Prefixes(Lang)
    BY <2>1, <1>1, PrefixClosed DEF PackagesOf
  <2>2. ASSUME NEW t \in units, p \in Prefixes(t.package)
        PROVE  p \in Paths /\ Prefixes(p) \subseteq PackagesOf(units)
    BY <2>2, <1>1, PrefixClosed DEF PackagesOf
  <2> QED BY <2>1, <2>2 DEF PackagesOf
<1>3. \A t \in units : t.package \in PackagesOf(units)
  BY <1>1, PrefixOfItself DEF PackagesOf
<1> QED BY <1>2, <1>3

\* OnPath, read off the steps of the path or off its prefixes
LEMMA OnPathForms ==
  ASSUME NEW u \in Unit \cup LangTypes, NEW p \in Paths
  PROVE  /\ OnPath(u, p) <=> /\ u.package # Default
                             /\ Append(u.package, u.name) \in Prefixes(p)
         /\ OnPath(u, p) <=> /\ u.package # Default
                             /\ \E i \in DOMAIN p : /\ Enclosing(p, i) = u.package
                                                   /\ p[i] = u.name
<1>1. u.package \in Paths /\ u.name \in Ids BY PathsAreTyped
<1>2. Append(u.package, u.name) \in Paths BY <1>1, StepOfPath
<1>3. IsPrefix(Append(u.package, u.name), p)
        <=> Append(u.package, u.name) \in Prefixes(p)
  BY <1>2, IsPrefixIsPrefix
<1>4. IsPrefix(Append(u.package, u.name), p)
        <=> \E i \in DOMAIN p : Enclosing(p, i) = u.package /\ p[i] = u.name
  BY <1>1, StepOfPath
<1> QED BY <1>3, <1>4 DEF OnPath

\* no type is inside a package of its own name
LEMMA NotOnOwnPath ==
  ASSUME NEW u \in Unit \cup LangTypes
  PROVE  ~OnPath(u, u.package)
<1>1. u.package \in Paths /\ u.name \in Ids BY PathsAreTyped
<1>2. Len(u.package) \in Nat BY <1>1, LenProperties DEF Paths
<1>3. Len(Append(u.package, u.name)) = Len(u.package) + 1 BY <1>1, StepOfPath
<1> QED BY <1>2, <1>3 DEF OnPath, IsPrefix

\* The first test of EnvironmentBuilder: a type names a step of the path.
LEMMA PackageIsTypeForm ==
  ASSUME types \subseteq Unit \cup LangTypes, NEW p \in Paths
  PROVE  PackageIsType(p) <=> \E t \in types : OnPath(t, p)
<1>1. ASSUME NEW t \in types
      PROVE  OnPath(t, p) <=> /\ t.package # Default
                              /\ \E i \in DOMAIN p : /\ Enclosing(p, i) = t.package
                                                    /\ p[i] = t.name
  BY OnPathForms
<1> QED BY <1>1 DEF PackageIsType, TypesIn

\* The second: the type names a step of the path of a package.
LEMMA TypeIsPackageForm ==
  ASSUME types \subseteq Unit \cup LangTypes, packages = PackagesOf(types),
         NEW u \in Unit
  PROVE  TypeIsPackage(u)
           <=> OnPath(u, Lang) \/ \E t \in types : OnPath(u, t.package)
<1>1. Lang \in Paths /\ \A t \in types : t.package \in Paths BY PathsAreTyped
<1>2. OnPath(u, Lang) <=> /\ u.package # Default
                          /\ Append(u.package, u.name) \in Prefixes(Lang)
  BY <1>1, OnPathForms
<1>3. ASSUME NEW t \in types
      PROVE  OnPath(u, t.package)
               <=> /\ u.package # Default
                   /\ Append(u.package, u.name) \in Prefixes(t.package)
  BY <1>1, OnPathForms
<1> QED BY <1>2, <1>3 DEF TypeIsPackage, PackagesOf

(* A unit is refused exactly when it clashes with the ones before it.      *)
LEMMA RefusedWhenClashing ==
  ASSUME PackagesInv, phase = "environment", NEW u \in Unit, u \notin declared
  PROVE  PackageIsType(u.package) \/ TypeIsPackage(u) \/ Redeclared(u)
           <=> Clashing(types \cup {u})
<1>1. /\ types \subseteq Unit \cup LangTypes /\ packages = PackagesOf(types)
      /\ declared \cup types = types /\ ~Clashing(types)
  BY DEF PackagesInv, ClashFoundInAnyOrder
<1>2. u \notin types BY LangIsSound DEF PackagesInv
<1>3. u.package \in Paths BY PathsAreTyped
<1>4. PackageIsType(u.package) <=> \E t \in types : OnPath(t, u.package)
  BY <1>1, <1>3, PackageIsTypeForm
<1>5. TypeIsPackage(u) <=> OnPath(u, Lang) \/ \E t \in types : OnPath(u, t.package)
  BY <1>1, TypeIsPackageForm
<1>6. Redeclared(u) <=> \E t \in types : t.package = u.package /\ t.name = u.name
  BY DEF Redeclared, TypesIn
<1>7. ~OnPath(u, u.package) BY NotOnOwnPath
<1>8. \A s \in types : ~OnPath(s, Lang) /\ \A t \in types : ~Clash(s, t)
  BY <1>1 DEF Clashing
<1>9. Clashing(types \cup {u})
        <=> \/ OnPath(u, Lang)
            \/ \E t \in types : Clash(u, t) \/ Clash(t, u)
  BY <1>8, <1>7 DEF Clashing, Clash
<1> QED BY <1>2, <1>4, <1>5, <1>6, <1>9 DEF Clash

\* The compiler starts with java.lang alone, in which nothing clashes.
LEMMA PackagesStart == Init => PackagesInv
<1> SUFFICES ASSUME Init PROVE PackagesInv OBVIOUS
<1>1. types \in {{}, LangTypes} /\ declared = {} /\ phase = "environment"
      /\ packages = Prefixes(Lang)
  BY DEF Init, PackagesInit
<1>2. packages = PackagesOf(types)
  BY <1>1, LangIsSound DEF PackagesOf
<1>3. ~Clashing(types)
  <2>1. SUFFICES ASSUME NEW u \in types PROVE ~OnPath(u, Lang) /\ \A v \in types : ~Clash(u, v)
    BY DEF Clashing
  <2>2. u \in LangTypes /\ \A v \in types : v \in LangTypes BY <1>1
  <2>3. u.package = Lang /\ \A v \in types : v.package = Lang BY <2>2, PathsAreTyped
  <2>4. ~OnPath(u, Lang) BY <2>2, <2>3, NotOnOwnPath
  <2> QED BY <2>2, <2>3, <2>4, LangIsSound DEF Clash
<1> QED BY <1>1, <1>2, <1>3 DEF PackagesInv, ClashFoundInAnyOrder

\* Every step keeps the packages those of the types.
LEMMA PackagesStep ==
  ASSUME PackagesInv, [Next]_<<phase, packageVars, linkVars>>
  PROVE  PackagesInv'
<1>1. ASSUME NEW u \in Unit, DeclareUnit(u) PROVE PackagesInv'
  <2>1. /\ phase = "environment" /\ u \notin declared /\ declared' = declared \cup {u}
    BY <1>1 DEF DeclareUnit
  <2>2. PackageIsType(u.package) \/ TypeIsPackage(u) \/ Redeclared(u)
          <=> Clashing(types \cup {u})
    BY <2>1, RefusedWhenClashing
  <2>3. declared \subseteq types BY <2>1 DEF PackagesInv
  <2>4. CASE Clashing(types \cup {u})
    <3>1. phase' = "clash" /\ packages' = packages /\ types' = types
      BY <1>1, <2>2, <2>4 DEF DeclareUnit
    <3>2. declared' \cup types' = types \cup {u} BY <2>1, <2>3, <3>1
    <3>3. ClashFoundInAnyOrder' BY <2>4, <3>1, <3>2 DEF ClashFoundInAnyOrder
    <3> QED BY <2>1, <3>1, <3>3 DEF PackagesInv
  <2>5. CASE ~Clashing(types \cup {u})
    <3>1. /\ phase' = phase /\ packages' = packages \cup Prefixes(u.package)
          /\ types' = types \cup {u}
      BY <1>1, <2>2, <2>5 DEF DeclareUnit
    <3>2. declared' \cup types' = types \cup {u} BY <2>1, <2>3, <3>1
    <3>3. ClashFoundInAnyOrder' BY <2>1, <2>5, <3>1, <3>2 DEF ClashFoundInAnyOrder
    <3>4. packages' = PackagesOf(types') BY <3>1 DEF PackagesOf, PackagesInv
    <3> QED BY <2>1, <2>3, <3>1, <3>3, <3>4 DEF PackagesInv
  <2> QED BY <2>4, <2>5
<1>2. ASSUME UNCHANGED packageVars, phase # "clash",
             phase' \in {"environment", "imports", "linked", "error"}
      PROVE  PackagesInv'
  <2>1. declared' = declared /\ packages' = packages /\ types' = types
    BY <1>2 DEF packageVars
  <2> QED BY <1>2, <2>1 DEF PackagesInv, ClashFoundInAnyOrder
<1>3. ASSUME NEW u \in declared, BeginUnit(u) PROVE PackagesInv'
  BY <1>2, <1>3 DEF BeginUnit
<1>4. ASSUME NEW path \in OnDemandNames, ImportOnDemand(path) PROVE PackagesInv'
  <2>1. UNCHANGED packageVars /\ phase = "imports" /\ phase' \in {"imports", "error"}
    BY <1>4 DEF ImportOnDemand
  <2> QED BY <1>2, <2>1
<1>5. ASSUME NEW path \in ImportNames, ImportType(path) PROVE PackagesInv'
  <2>1. UNCHANGED packageVars /\ phase = "imports" /\ phase' \in {"imports", "error"}
    BY <1>5 DEF ImportType
  <2> QED BY <1>2, <2>1
<1>6. ASSUME NEW super \in SuperNames \cup {None}, NEW kind \in Kinds,
             LinkDeclaration(super, kind)
      PROVE  PackagesInv'
  <2>1. UNCHANGED packageVars /\ phase = "imports" /\ phase' \in {"linked", "error"}
    BY <1>6 DEF LinkDeclaration
  <2> QED BY <1>2, <2>1
<1>7. CASE UNCHANGED <<phase, packageVars, linkVars>>
  BY <1>7 DEF PackagesInv, ClashFoundInAnyOrder, packageVars
<1> QED BY <1>1, <1>3, <1>4, <1>5, <1>6, <1>7 DEF Next

(* Whatever the units and the order they are given in, they are rejected   *)
(* exactly when two of them, or one of them and a package, share a fully   *)
(* qualified name (EnvironmentBuilder).                                    *)
THEOREM UnitsRejectedInAnyOrder == Spec => []ClashFoundInAnyOrder
<1>1. PackagesInv => ClashFoundInAnyOrder BY DEF PackagesInv
<1> QED BY <1>1, PackagesStart, PackagesStep, PTL DEF Spec

-----------------------------------------------------------------------------
(* What the type linker knows of the unit: the packages imported on demand *)
(* are those written and java.lang, the types imported by name those of    *)
(* the imports it kept, and once the unit is linked its own name and the   *)
(* imported ones are unambiguous.                                          *)
LinkInv ==
  /\ IsFiniteSet(declared)
  /\ onDemand \in Seq(Paths) /\ single \subseteq ImportNames
  /\ phase = "environment" => onDemand = <<>> /\ single = {} /\ singleImports = {}
  /\ phase \in {"imports", "linked"} =>
       /\ unit \in declared
       /\ starImports = {Lang} \cup Range(onDemand)
       /\ starImports \subseteq packages
       /\ singleImports = UNION {Kept(path) : path \in single}
       /\ \A path \in single : TypeFound(path)
  /\ phase = "linked" => ~SameNameTwice /\ Resolves(<<unit.name>>)

\* An import names a path with at least one identifier.
LEMMA ImportedPaths ==
  OnDemandNames \cup ImportNames \subseteq Paths \ {<<>>}
<1>1. Seq(STRING) \subseteq Paths BY SeqMonotonic DEF Paths, Ids
<1> QED BY <1>1, ImportsAreNames

\* One more import on demand adds one package.
LEMMA AppendRange ==
  ASSUME NEW s \in Seq(Paths), NEW p \in Paths
  PROVE  Append(s, p) \in Seq(Paths) /\ Range(Append(s, p)) = Range(s) \cup {p}
<1> DEFINE a == Append(s, p)
<1>1. a \in Seq(Paths) BY AppendProperties
<1>2. Len(a) = Len(s) + 1 BY AppendProperties
<1>3. a[Len(s) + 1] = p BY Zenon, AppendProperties
<1>4. \A i \in 1 .. Len(s) : a[i] = s[i]
  <2> SUFFICES ASSUME NEW i \in 1 .. Len(s) PROVE a[i] = s[i] OBVIOUS
  <2> QED BY AppendProperties
<1>5. Len(s) \in Nat BY LenProperties
<1> HIDE DEF a
<1>6. Range(a) = {a[i] : i \in 1 .. Len(a)} /\ Range(s) = {s[i] : i \in 1 .. Len(s)}
  BY <1>1, RangeEquality
<1>7. Range(a) \subseteq Range(s) \cup {p}
  BY <1>2, <1>3, <1>4, <1>5, <1>6
<1>8. p \in Range(a)
  <2>1. Len(s) + 1 \in 1 .. Len(a) BY <1>2, <1>5
  <2> QED BY <2>1, <1>3, <1>6
<1>9. ASSUME NEW i \in 1 .. Len(s) PROVE s[i] \in Range(a)
  <2>1. i \in 1 .. Len(a) BY <1>2, <1>5
  <2> QED BY <2>1, <1>4, <1>6
<1> QED BY <1>1, <1>6, <1>7, <1>8, <1>9 DEF a

\* Before a unit is linked nothing is imported.
LEMMA LinkStart == Init => LinkInv
<1> SUFFICES ASSUME Init PROVE LinkInv OBVIOUS
<1>1. /\ declared = {} /\ phase = "environment"
      /\ onDemand = <<>> /\ single = {} /\ singleImports = {}
  BY DEF Init, PackagesInit
<1>2. IsFiniteSet({}) BY FS_EmptySet
<1>3. onDemand \in Seq(Paths) BY <1>1, EmptySeq
<1> QED BY <1>1, <1>2, <1>3 DEF LinkInv

\* Every step of the type linker keeps what it knows of the unit.
LEMMA LinkStep ==
  ASSUME PackagesInv, LinkInv, [Next]_<<phase, packageVars, linkVars>>
  PROVE  LinkInv'
<1>1. ASSUME NEW u \in Unit, DeclareUnit(u), UNCHANGED linkVars PROVE LinkInv'
  <2>1. IsFiniteSet(declared \cup {u}) BY FS_AddElement DEF LinkInv
  <2>2. /\ phase = "environment" /\ phase' \in {"environment", "clash"}
        /\ declared' = declared \cup {u}
        /\ onDemand' = onDemand /\ single' = single /\ singleImports' = singleImports
    BY <1>1 DEF DeclareUnit, linkVars
  <2> QED BY <2>1, <2>2 DEF LinkInv
<1>2. ASSUME NEW u \in declared, BeginUnit(u) PROVE LinkInv'
  <2>1. /\ phase = "environment" /\ phase' = "imports" /\ unit' = u
        /\ starImports' = {Lang} /\ onDemand' = onDemand /\ single' = single
        /\ singleImports' = singleImports
        /\ declared' = declared /\ packages' = packages /\ types' = types
    BY <1>2 DEF BeginUnit, packageVars
  <2>2. onDemand = <<>> /\ single = {} /\ singleImports = {}
    BY <2>1 DEF LinkInv
  <2>3. Range(onDemand) = {}
    <3>1. <<>> \in Seq(Paths) /\ Len(<<>>) = 0 BY EmptySeq
    <3>2. Range(<<>>) = {<<>>[i] : i \in 1 .. Len(<<>>)} BY <3>1, RangeEquality
    <3> QED BY <3>1, <3>2, <2>2
  <2>4. Lang \in packages BY PathsAreTyped, PrefixOfItself DEF PackagesInv, PackagesOf
  <2> QED BY <2>1, <2>2, <2>3, <2>4 DEF LinkInv
<1>3. ASSUME NEW path \in OnDemandNames, ImportOnDemand(path) PROVE LinkInv'
  <2>1. path \in Paths BY ImportedPaths
  <2>2. Append(onDemand, path) \in Seq(Paths)
        /\ Range(Append(onDemand, path)) = Range(onDemand) \cup {path}
    BY <2>1, AppendRange DEF LinkInv
  <2>3. /\ phase = "imports" /\ single = {} /\ onDemand' = Append(onDemand, path)
        /\ unit' = unit /\ single' = single /\ singleImports' = singleImports
        /\ declared' = declared /\ packages' = packages /\ types' = types
    BY <1>3 DEF ImportOnDemand, packageVars
  <2>4. CASE PackageFound(path)
    <3>1. starImports' = starImports \cup {path} /\ phase' = "imports"
      BY <1>3, <2>3, <2>4 DEF ImportOnDemand
    <3>2. path \in packages BY <2>4 DEF PackageFound
    <3> QED BY <2>2, <2>3, <3>1, <3>2 DEF LinkInv
  <2>5. CASE ~PackageFound(path)
    <3>1. phase' = "error" BY <1>3, <2>5 DEF ImportOnDemand
    <3> QED BY <2>2, <2>3, <3>1 DEF LinkInv
  <2> QED BY <2>4, <2>5
<1>4. ASSUME NEW path \in ImportNames, ImportType(path) PROVE LinkInv'
  <2>1. /\ phase = "imports" /\ single' = single \cup {path}
        /\ unit' = unit /\ onDemand' = onDemand /\ starImports' = starImports
        /\ declared' = declared /\ packages' = packages /\ types' = types
    BY <1>4 DEF ImportType, packageVars
  <2>2. CASE TypeFound(path) /\ PackageFound(Front(path))
    <3>1. singleImports' = singleImports \cup Kept(path) /\ phase' = "imports"
      BY <1>4, <2>1, <2>2 DEF ImportType
    <3>2. \A p \in single' : Kept(p)' = Kept(p) /\ (TypeFound(p)' <=> TypeFound(p))
      BY <2>1 DEF Kept, TypesIn, TypeFound, PackageIsType
    <3>3. singleImports' = UNION {Kept(p) : p \in single'}
      BY <2>1, <3>1 DEF LinkInv
    <3>4. singleImports' = UNION {Kept(p)' : p \in single'}
      BY <3>2, <3>3
    <3>5. \A p \in single' : TypeFound(p)'
      BY <2>1, <2>2, <3>2 DEF LinkInv
    <3> QED BY <2>1, <3>1, <3>4, <3>5 DEF LinkInv
  <2>3. CASE ~(TypeFound(path) /\ PackageFound(Front(path)))
    <3>1. phase' = "error" BY <1>4, <2>3 DEF ImportType
    <3> QED BY <2>1, <3>1 DEF LinkInv
  <2> QED BY <2>2, <2>3
<1>5. ASSUME NEW super \in SuperNames \cup {None}, NEW kind \in Kinds,
             LinkDeclaration(super, kind)
      PROVE  LinkInv'
  <2>1. /\ phase = "imports" /\ phase' \in {"linked", "error"}
        /\ phase' = "linked" => ~SameNameTwice /\ Resolves(<<unit.name>>)
        /\ unit' = unit /\ onDemand' = onDemand /\ single' = single
        /\ starImports' = starImports /\ singleImports' = singleImports
        /\ declared' = declared /\ packages' = packages /\ types' = types
    BY <1>5 DEF LinkDeclaration, packageVars
  <2>2. /\ SameNameTwice' <=> SameNameTwice
        /\ Resolves(<<unit.name>>)' <=> Resolves(<<unit.name>>)
    BY <2>1 DEF SameNameTwice, Resolves, Candidates, SomePrefixIsType,
                LookupSimpleType, OwnOrImported, ValidCandidates, TypesIn
  <2>3. \A p \in single : Kept(p)' = Kept(p) /\ (TypeFound(p)' <=> TypeFound(p))
    BY <2>1 DEF Kept, TypesIn, TypeFound, PackageIsType
  <2>4. UNION {Kept(p)' : p \in single'} = UNION {Kept(p) : p \in single}
    BY <2>1, <2>3
  <2> QED BY <2>1, <2>2, <2>3, <2>4 DEF LinkInv
<1>6. CASE UNCHANGED <<phase, packageVars, linkVars>>
  BY <1>6 DEF LinkInv, packageVars, linkVars, Kept, TypesIn, TypeFound, PackageIsType,
              SameNameTwice, Resolves, Candidates, SomePrefixIsType,
              LookupSimpleType, OwnOrImported, ValidCandidates
<1> QED BY <1>1, <1>2, <1>3, <1>4, <1>5, <1>6 DEF Next

\* Both invariants hold of every behaviour.
LEMMA LinkInductive == Spec => [](PackagesInv /\ LinkInv)
<1> QED BY PackagesStart, PackagesStep, LinkStart, LinkStep, PTL DEF Spec

(* Every type is in a package there is, and of a linked unit every package *)
(* and type the imports leave behind exists (TypeLinker).                  *)
THEOREM ImportsExist == Spec => []TypeOK
<1>1. ASSUME PackagesInv, LinkInv PROVE TypeOK
  <2>1. \A t \in types : t.package \in packages
    BY <1>1, PackagesOfTypes DEF PackagesInv
  <2>2. phase \in {"imports", "linked"} => unit \in types
    BY <1>1 DEF PackagesInv, LinkInv
  <2>3. phase \in {"imports", "linked"} => singleImports \subseteq types
    BY <1>1 DEF LinkInv, Kept, TypesIn
  <2> QED BY <1>1, <2>1, <2>2, <2>3 DEF PackagesInv, LinkInv, TypeOK
<1> QED BY <1>1, LinkInductive, PTL

-----------------------------------------------------------------------------
(* A linked unit none of whose imports is forgotten, as the properties of  *)
(* names take it.                                                          *)
Linked == PackagesInv /\ LinkInv /\ phase = "linked" /\ ~Forgotten

\* What the invariants say of a linked unit, in one place.
LEMMA LinkedFacts ==
  ASSUME Linked
  PROVE  /\ types \subseteq Unit \cup LangTypes /\ IsFiniteSet(types)
         /\ packages = PackagesOf(types) /\ packages \subseteq Paths
         /\ \A u, v \in types : ~Clash(u, v)
         /\ unit \in types /\ unit.package \in Paths /\ unit.name \in Ids
         /\ starImports = {Lang} \cup Range(onDemand) /\ starImports \subseteq Paths
         /\ singleImports = UNION {TypesIn(Front(path), Last(path)) : path \in single}
<1>1. /\ types \subseteq Unit \cup LangTypes /\ packages = PackagesOf(types)
      /\ types \subseteq declared \cup LangTypes /\ declared \subseteq types
      /\ ~Clashing(types)
  <2>1. declared \subseteq types BY DEF Linked, PackagesInv
  <2>2. declared \cup types = types BY <2>1
  <2> QED BY <2>1, <2>2 DEF Linked, PackagesInv, ClashFoundInAnyOrder
<1>2. IsFiniteSet(types)
  <2>1. IsFiniteSet(declared \cup LangTypes)
    BY FS_Union, LangIsSound DEF Linked, LinkInv
  <2> QED BY <1>1, <2>1, FS_Subset
<1>3. packages \subseteq Paths BY <1>1, PackagesOfTypes
<1>4. unit \in types BY <1>1 DEF Linked, LinkInv
<1>5. unit.package \in Paths /\ unit.name \in Ids BY <1>1, <1>4, PathsAreTyped
<1>6. starImports = {Lang} \cup Range(onDemand) /\ starImports \subseteq Paths
  BY <1>3 DEF Linked, LinkInv
<1>7. \A path \in single : Kept(path) = TypesIn(Front(path), Last(path))
  BY DEF Linked, Forgotten, Kept
<1>8. singleImports = UNION {Kept(path) : path \in single} BY DEF Linked, LinkInv
<1>9. singleImports = UNION {TypesIn(Front(path), Last(path)) : path \in single}
  BY <1>7, <1>8
<1> QED BY <1>1, <1>2, <1>3, <1>4, <1>5, <1>6, <1>9 DEF Clashing

\* a package holds at most one type of a name
LEMMA OneInPackage ==
  ASSUME Linked, NEW p, NEW n, NEW t \in TypesIn(p, n)
  PROVE  TypesIn(p, n) = {t}
BY LinkedFacts DEF TypesIn, Clash

\* what a set of candidates with one member is
LEMMA OneCandidate ==
  ASSUME Linked, NEW S \in SUBSET types
  PROVE  Cardinality(S) = 1 <=> \E t \in S : S = {t}
<1>1. IsFiniteSet(S) BY LinkedFacts, FS_Subset
<1> QED BY <1>1, FS_Singleton

\* The name of a linked unit is its own alone.
LEMMA OwnIsOne ==
  ASSUME Linked
  PROVE  OwnOrImported(unit.name) = {unit}
<1>1. unit \in OwnOrImported(unit.name) BY DEF OwnOrImported
<1>2. Candidates(<<unit.name>>) = OwnOrImported(unit.name)
  <2>1. Len(<<unit.name>>) = 1 /\ Head(<<unit.name>>) = unit.name OBVIOUS
  <2> QED BY <1>1, <2>1 DEF Candidates, LookupSimpleType
<1>3. Cardinality(OwnOrImported(unit.name)) = 1
  BY <1>2 DEF Linked, LinkInv, Resolves
<1>4. OwnOrImported(unit.name) \subseteq types
  BY LinkedFacts DEF OwnOrImported, TypesIn
<1> QED BY <1>1, <1>3, <1>4, OneCandidate

(* The type linker's lookup of a simple name agrees with the declarations. *)
LEMMA SimpleNames ==
  ASSUME Linked, NEW n
  PROVE  LookupSimpleType(n) = SimpleMeaning(n)
<1> DEFINE imported == UNION {TypesIn(Front(p), n) : p \in {q \in single : Last(q) = n}}
<1>1. imported = {t \in singleImports : t.name = n}
  BY LinkedFacts DEF TypesIn
<1>2. OwnOrImported(n) = {t \in {unit} : t.name = n} \cup imported
  BY <1>1 DEF OwnOrImported
<1>3. unit.name = n => OwnOrImported(n) = {unit} BY OwnIsOne
<1>4. starImports = {Lang} \cup Range(onDemand) BY LinkedFacts
<1>5. unit.name # n => OwnOrImported(n) = imported BY <1>2
<1> HIDE DEF imported
<1>6. SimpleMeaning(n) = IF unit.name = n THEN {unit}
                         ELSE IF imported # {} THEN imported
                         ELSE IF TypesIn(unit.package, n) # {} THEN TypesIn(unit.package, n)
                         ELSE UNION {TypesIn(p, n) : p \in {Lang} \cup Range(onDemand)}
  BY DEF SimpleMeaning, imported
<1> QED BY <1>3, <1>4, <1>5, <1>6 DEF LookupSimpleType

\* a package inside p whose next step is h makes p.h a package
LEMMA InsidePackage ==
  ASSUME Linked, NEW p \in Paths, NEW r \in Paths, r # <<>>, p \o r \in packages
  PROVE  Append(p, Head(r)) \in packages
<1>1. p \o r \in Paths /\ Len(p \o r) = Len(p) + Len(r)
  BY ConcatProperties DEF Paths
<1>2. \A i \in 1 .. Len(p) + Len(r) :
        (p \o r)[i] = IF i <= Len(p) THEN p[i] ELSE r[i - Len(p)]
  BY ConcatProperties DEF Paths
<1>3. /\ Len(p) \in Nat /\ Len(r) \in Nat /\ Len(r) # 0
      /\ DOMAIN (p \o r) = 1 .. Len(p \o r)
  BY <1>1, LenProperties, EmptySeq DEF Paths
<1>4. Head(r) \in Ids /\ Head(r) = r[1] BY HeadTailProperties DEF Paths
<1> DEFINE i == Len(p) + 1
<1>5. i \in DOMAIN (p \o r) /\ (p \o r)[i] = Head(r)
  BY <1>1, <1>2, <1>3, <1>4
<1>6. Enclosing(p \o r, i) = p
  <2>1. Len(p) \in 0 .. Len(p \o r) BY <1>1, <1>3
  <2>2. /\ SubSeq(p \o r, 1, Len(p)) \in Paths
        /\ Len(SubSeq(p \o r, 1, Len(p))) = Len(p)
        /\ \A j \in 1 .. Len(p) : SubSeq(p \o r, 1, Len(p))[j] = (p \o r)[j]
    BY <1>1, <2>1, FirstSteps
  <2>3. \A j \in 1 .. Len(p) : SubSeq(p \o r, 1, Len(p))[j] = p[j]
    BY <1>2, <1>3, <2>2
  <2>4. SubSeq(p \o r, 1, Len(p)) = p BY <2>2, <2>3, SeqEqual DEF Paths
  <2> QED BY <2>4, <1>3 DEF Enclosing
<1>7. IsPrefix(Append(p, Head(r)), p \o r) /\ Append(p, Head(r)) \in Paths
  BY <1>1, <1>4, <1>5, <1>6, StepOfPath
<1>8. Append(p, Head(r)) \in Prefixes(p \o r) BY <1>1, <1>7, IsPrefixIsPrefix
<1> QED BY <1>8, LinkedFacts, PackagesOfTypes

(* Read from no package in scope, a qualified name is read from the        *)
(* default package.                                                        *)
LEMMA QualifiedTypes ==
  ASSUME Linked, NEW name, ~Relative(name),
         NEW r \in Paths, r # <<>>, Head(r) = Head(name), NEW n
  PROVE  ValidCandidates(r, n) = TypesIn(r, n)
<1>1. Default \o r = r BY ConcatEmptySeq DEF Default, Paths
<1>2. ASSUME NEW p \in starImports \cup {unit.package}, p # Default
      PROVE  TypesIn(p \o r, n) = {}
  <2>1. SUFFICES ASSUME NEW t \in TypesIn(p \o r, n) PROVE FALSE OBVIOUS
  <2>2. t \in types /\ t.package = p \o r BY <2>1 DEF TypesIn
  <2>3. p \o r \in packages BY <2>2, LinkedFacts, PackagesOfTypes
  <2>4. p \in Paths BY LinkedFacts
  <2>5. Append(p, Head(name)) \in packages BY <2>3, <2>4, InsidePackage
  <2> QED BY <1>2, <2>5 DEF Relative
<1>3. ASSUME NEW p \in starImports \cup {Default, unit.package}
      PROVE  TypesIn(p \o r, n) = IF p = Default THEN TypesIn(r, n) ELSE {}
  BY <1>1, <1>2
<1> QED BY <1>3 DEF ValidCandidates

\* the identifiers before the i-th of a qualified name
LEMMA NameParts ==
  ASSUME NEW name \in Paths, NEW i \in 2 .. Len(name)
  PROVE  /\ Enclosing(name, i) \in Paths \ {<<>>}
         /\ Len(Enclosing(name, i)) = i - 1
         /\ Head(Enclosing(name, i)) = Head(name)
         /\ \A j \in 1 .. i - 1 : /\ Enclosing(name, i)[j] = name[j]
                                /\ Enclosing(Enclosing(name, i), j) = Enclosing(name, j)
<1>0. Len(name) \in Nat BY LenProperties DEF Paths
<1>1. i - 1 \in 0 .. Len(name) /\ i - 1 \in 1 .. Len(name) /\ 1 \in 1 .. Len(name) BY <1>0
<1>2. /\ Enclosing(name, i) \in Paths /\ Len(Enclosing(name, i)) = i - 1
      /\ \A j \in 1 .. i - 1 : Enclosing(name, i)[j] = name[j]
  BY <1>1, FirstSteps DEF Enclosing
<1>3. Enclosing(name, i) # <<>>
  <2>1. Len(Enclosing(name, i)) # 0 BY <1>2
  <2> QED BY <2>1, EmptySeq
<1>4. Head(Enclosing(name, i)) = Head(name)
  <2>1. Head(SubSeq(name, 1, i - 1)) = name[1]
    BY <1>1, <1>0, HeadTailOfSubSeq DEF Paths
  <2>2. Head(name) = name[1] BY <1>1
  <2> QED BY <2>1, <2>2 DEF Enclosing
<1>5. ASSUME NEW j \in 1 .. i - 1
      PROVE  Enclosing(Enclosing(name, i), j) = Enclosing(name, j)
  <2>1. j - 1 \in 0 .. i - 1 BY <1>0
  <2> QED BY <1>1, <2>1, FirstOfFirst DEF Enclosing
<1> QED BY <1>2, <1>3, <1>4, <1>5

(* The candidates of a qualified name that is not read from inside a       *)
(* package: the types of its package, unless a part of it is a type.       *)
LEMMA QualifiedCandidates ==
  ASSUME Linked, NEW name \in Paths, ~Relative(name),
         NEW i \in 2 .. Len(name)
  PROVE  Candidates(Enclosing(name, i + 1)) =
           IF \/ LookupSimpleType(Head(name)) # {}
              \/ \E j \in 2 .. i - 1 : TypesIn(Enclosing(name, j), name[j]) # {}
             THEN {} ELSE TypesIn(Enclosing(name, i), name[i])
<1> DEFINE whole == SubSeq(name, 1, i)
           front == Enclosing(name, i)
<1>0. Len(name) \in Nat BY LenProperties DEF Paths
<1>1. Enclosing(name, i + 1) = whole BY <1>0 DEF Enclosing
<1>2. i \in 0 .. Len(name) BY <1>0
<1>3. /\ whole \in Paths /\ Len(whole) = i
      /\ \A j \in 1 .. i : whole[j] = name[j]
  BY <1>2, FirstSteps
<1>4. Front(whole) = front /\ Last(whole) = name[i]
  <2>1. i - 1 \in 0 .. i /\ i \in 1 .. i BY <1>0
  <2>2. SubSeq(whole, 1, i - 1) = SubSeq(name, 1, i - 1) BY <1>2, <2>1, FirstOfFirst
  <2> QED BY <1>3, <2>1, <2>2 DEF Front, Last, Enclosing
<1>5. /\ front \in Paths \ {<<>>} /\ Len(front) = i - 1 /\ Head(front) = Head(name)
      /\ \A j \in 1 .. i - 1 : /\ front[j] = name[j]
                             /\ Enclosing(front, j) = Enclosing(name, j)
  BY NameParts
<1> HIDE DEF whole, front
<1>6. ValidCandidates(front, name[i]) = TypesIn(front, name[i])
  BY <1>5, QualifiedTypes
<1>7. ASSUME NEW j \in 2 .. i - 1
      PROVE  ValidCandidates(Enclosing(front, j), front[j])
               = TypesIn(Enclosing(name, j), name[j])
  <2>1. j \in 2 .. Len(name) /\ j \in 1 .. i - 1 BY <1>0
  <2>2. /\ Enclosing(name, j) \in Paths \ {<<>>}
        /\ Head(Enclosing(name, j)) = Head(name)
    BY <2>1, NameParts
  <2>3. front[j] = name[j] /\ Enclosing(front, j) = Enclosing(name, j)
    BY <1>5, <2>1
  <2> QED BY <2>2, <2>3, QualifiedTypes
<1>8. SomePrefixIsType(front)
        <=> \/ LookupSimpleType(Head(name)) # {}
            \/ \E j \in 2 .. i - 1 : TypesIn(Enclosing(name, j), name[j]) # {}
  BY <1>5, <1>7 DEF SomePrefixIsType
<1>9. Len(whole) # 1 BY <1>3, <1>0
<1> QED BY <1>1, <1>4, <1>6, <1>8, <1>9 DEF Candidates, front

\* What comes before the end of a name is the name.
LEMMA WholeName ==
  ASSUME NEW name \in Paths
  PROVE  Enclosing(name, Len(name) + 1) = name
<1>1. Len(name) \in Nat BY LenProperties DEF Paths
<1>2. SubSeq(name, 1, Len(name)) = name BY PrefixOfItself
<1> QED BY <1>1, <1>2 DEF Enclosing

\* The names looked up have at least one identifier.
LEMMA LookedUpPaths == Names \subseteq Paths \ {<<>>}
<1>1. Seq(STRING) \subseteq Paths BY SeqMonotonic DEF Paths, Ids
<1> QED BY <1>1, LookedUpAreNames

(* A part of a qualified name that is a type leaves its package without    *)
(* types, so the name means what it says.                                  *)
LEMMA MeansWhatIsWritten ==
  ASSUME Linked, NEW name \in Paths \ {<<>>}, ~Relative(name)
  PROVE  Candidates(name) = Meaning(name)
<1>0. Len(name) \in Nat /\ Len(name) # 0 BY LenProperties, EmptySeq DEF Paths
<1>1. CASE Len(name) = 1
  BY <1>1, SimpleNames DEF Candidates, Meaning
<1>2. CASE Len(name) # 1
  <2> DEFINE i == Len(name)
  <2>1. i \in 2 .. Len(name)
    <3>1. \A k \in Nat : k # 0 /\ k # 1 => k \in 2 .. k OBVIOUS
    <3> QED BY <3>1, <1>0, <1>2
  <2>2. Candidates(name) =
          IF \/ LookupSimpleType(Head(name)) # {}
             \/ \E j \in 2 .. i - 1 : TypesIn(Enclosing(name, j), name[j]) # {}
            THEN {} ELSE TypesIn(Enclosing(name, i), name[i])
    BY <2>1, WholeName, QualifiedCandidates
  <2>3. LookupSimpleType(Head(name)) = SimpleMeaning(Head(name)) BY SimpleNames
  <2>4. Front(name) = Enclosing(name, i) /\ Last(name) = name[i]
    BY DEF Front, Last, Enclosing
  <2>5. ASSUME NEW j \in 2 .. i - 1, NEW t \in TypesIn(Enclosing(name, j), name[j])
        PROVE  TypesIn(Enclosing(name, i), name[i]) = {}
    <3>1. SUFFICES ASSUME NEW v \in TypesIn(Enclosing(name, i), name[i]) PROVE FALSE
      OBVIOUS
    <3>2. /\ t \in types /\ t.package = Enclosing(name, j) /\ t.name = name[j]
          /\ v \in types /\ v.package = Enclosing(name, i)
      BY <2>5 DEF TypesIn
    <3>3. j \in 2 .. Len(name) /\ j \in 1 .. i - 1 BY <1>0
    <3>4. /\ Enclosing(name, i) \in Paths /\ Len(Enclosing(name, i)) = i - 1
          /\ Enclosing(name, i)[j] = name[j]
          /\ Enclosing(Enclosing(name, i), j) = Enclosing(name, j)
      BY <2>1, <3>3, NameParts
    <3>5. j \in DOMAIN Enclosing(name, i)
      <4>1. DOMAIN Enclosing(name, i) = 1 .. Len(Enclosing(name, i))
        BY <3>4, LenProperties DEF Paths
      <4> QED BY <4>1, <3>3, <3>4
    <3>6. t.package # Default BY <3>2, <3>3, NameParts DEF Default
    <3>7. OnPath(t, v.package)
      BY <3>2, <3>4, <3>5, <3>6, LinkedFacts, OnPathForms
    <3> QED BY <3>2, <3>7, LinkedFacts DEF Clash
  <2>6. Meaning(name) = IF SimpleMeaning(Head(name)) # {} THEN {}
                        ELSE TypesIn(Enclosing(name, i), name[i])
    BY <1>2, <2>4 DEF Meaning
  <2> HIDE DEF i
  <2> QED BY <2>2, <2>3, <2>5, <2>6
<1> QED BY <1>1, <1>2

(* In a linked unit a name means the type the package structure and the    *)
(* import declarations say, or is rejected as they say                     *)
(* (CompilationUnitNamespace::lookupQualifiedType).                        *)
THEOREM NamesMean == Spec => []NamesMeanWhatIsWritten
<1>1. ASSUME PackagesInv, LinkInv PROVE NamesMeanWhatIsWritten
  BY <1>1, MeansWhatIsWritten, LookedUpPaths DEF NamesMeanWhatIsWritten, Linked
<1> QED BY <1>1, LinkInductive, PTL

-----------------------------------------------------------------------------
(* Induction over the numbers, from their having a least element.          *)
LEMMA Induct ==
  ASSUME NEW S, 0 \in S, \A n \in Nat : n \in S => n + 1 \in S
  PROVE  Nat \subseteq S
<1>1. SUFFICES ASSUME Nat \ S # {} PROVE FALSE OBVIOUS
<1>2. PICK n \in Nat \ S : \A k \in Nat \ S : ~(<<k, n>> \in OpToRel(<, Nat))
  BY <1>1, NatLessThanWellFounded, WFMin
<1>3. n \in Nat /\ n \notin S /\ n # 0 BY <1>2
<1>4. n - 1 \in Nat /\ n - 1 < n /\ (n - 1) + 1 = n BY <1>3
<1>5. n - 1 \notin S BY <1>3, <1>4
<1>6. ~(<<n - 1, n>> \in OpToRel(<, Nat)) BY <1>2, <1>4, <1>5
<1> QED BY <1>3, <1>4, <1>6 DEF OpToRel

\* the values of the function Classification defines along the name
KindsAlong(name, f) ==
  f = [i \in DOMAIN name |->
         IF i = 1 THEN SimpleKind(name[1])
         ELSE QualifiedKind(Enclosing(name, i), f[i - 1], name[i])]

\* The function Classification takes its value from exists.
LEMMA ClassificationExists ==
  ASSUME NEW name \in Paths \ {<<>>}
  PROVE  \E f : KindsAlong(name, f) /\ Classification(name) = f[Len(name)]
<1> DEFINE Step(f, i) == IF i = 1 THEN SimpleKind(name[1])
                         ELSE QualifiedKind(Enclosing(name, i), f[i - 1], name[i])
           Good == {n \in Nat : \E f : f = [i \in 1 .. n |-> Step(f, i)]}
<1>1. 0 \in Good
  <2> DEFINE none == [k \in {} |-> 0]
  <2>1. none = [i \in 1 .. 0 |-> Step(none, i)] OBVIOUS
  <2> HIDE DEF none
  <2> QED BY <2>1
<1>2. ASSUME NEW n \in Nat, n \in Good PROVE n + 1 \in Good
  <2>1. PICK f : f = [i \in 1 .. n |-> Step(f, i)] BY <1>2
  <2> DEFINE g == [i \in 1 .. n + 1 |-> IF i \in 1 .. n THEN f[i] ELSE Step(f, n + 1)]
  <2>2. ASSUME NEW i \in 1 .. n + 1 PROVE g[i] = Step(g, i)
    <3>1. i # 1 => i - 1 \in 1 .. n BY <2>2
    <3>2. i # 1 => g[i - 1] = f[i - 1] BY <3>1
    <3>3. Step(g, i) = Step(f, i) BY <3>2
    <3>4. CASE i \in 1 .. n BY <3>3, <3>4, <2>1
    <3>5. CASE i = n + 1 BY <3>3, <3>5
    <3> QED BY <2>2, <3>4, <3>5
  <2>3. g = [i \in 1 .. n + 1 |-> g[i]] OBVIOUS
  <2> HIDE DEF g
  <2>4. g = [i \in 1 .. n + 1 |-> Step(g, i)] BY <2>2, <2>3
  <2> QED BY <2>4
<1>3. Nat \subseteq Good BY <1>1, <1>2, Induct
<1>4. Len(name) \in Nat /\ DOMAIN name = 1 .. Len(name) BY LenProperties DEF Paths
<1>5. \E f : f = [i \in DOMAIN name |-> Step(f, i)] BY <1>3, <1>4, ZenonT(40)
<1> DEFINE kind == CHOOSE f : f = [i \in DOMAIN name |-> Step(f, i)]
<1>6. kind = [i \in DOMAIN name |-> Step(kind, i)] BY <1>5
<1>7. Classification(name) = kind[Len(name)] BY DEF Classification
<1> QED BY <1>6, <1>7 DEF KindsAlong

(* The first identifier: the tables disambiguation searches hold what the  *)
(* type linker's do. An import twice found is java.lang's or an ambiguity. *)
LEMMA SimpleKindsAgree ==
  ASSUME Linked, IsInjective(onDemand), NEW n, n \notin {Local, Member}
  PROVE  /\ SimpleKind(n) = "type" <=> Cardinality(LookupSimpleType(n)) = 1
         /\ SimpleKind(n) = "package" => LookupSimpleType(n) = {} /\ <<n>> \in packages
         /\ SimpleKind(n) # "package" => LookupSimpleType(n) # {} \/ <<n>> \notin packages
<1>1. LookupSimpleType(n) \subseteq types
  BY LinkedFacts DEF LookupSimpleType, OwnOrImported, TypesIn
<1>2. unit.name = n \/ ImportedByName(n) <=> OwnOrImported(n) # {}
  <2>1. ASSUME NEW path \in single, Last(path) = n
        PROVE  OwnOrImported(n) # {}
    <3>1. TypesIn(Front(path), n) # {} BY <2>1 DEF Linked, LinkInv, TypeFound
    <3>2. TypesIn(Front(path), n) \subseteq singleImports BY <2>1, LinkedFacts
    <3> QED BY <3>1, <3>2 DEF OwnOrImported, TypesIn
  <2>2. ASSUME NEW t \in OwnOrImported(n), unit.name # n PROVE ImportedByName(n)
    BY <2>2, LinkedFacts DEF OwnOrImported, ImportedByName, TypesIn
  <2>3. unit.name = n => unit \in OwnOrImported(n) BY DEF OwnOrImported
  <2> QED BY <2>1, <2>2, <2>3 DEF ImportedByName
<1>3. ASSUME NEW t \in OwnOrImported(n) PROVE OwnOrImported(n) = {t}
  <2>1. CASE unit.name = n BY <1>3, <2>1, OwnIsOne
  <2>2. CASE unit.name # n
    <3>1. \A s, u \in singleImports : s.name = u.name => s = u
      BY DEF Linked, LinkInv, SameNameTwice
    <3>2. OwnOrImported(n) = {s \in singleImports : s.name = n}
      BY <2>2 DEF OwnOrImported
    <3> QED BY <1>3, <3>1, <3>2
  <2> QED BY <2>1, <2>2
<1>4. CASE OwnOrImported(n) # {}
  <2>1. LookupSimpleType(n) = OwnOrImported(n) BY <1>4 DEF LookupSimpleType
  <2>2. SimpleKind(n) = "type" BY <1>2, <1>4 DEF SimpleKind
  <2> QED BY <1>1, <1>3, <1>4, <2>1, <2>2, OneCandidate
<1>5. CASE OwnOrImported(n) = {} /\ TypesIn(unit.package, n) # {}
  <2>1. LookupSimpleType(n) = TypesIn(unit.package, n) BY <1>5 DEF LookupSimpleType
  <2>2. SimpleKind(n) = "type" BY <1>5 DEF SimpleKind
  <2> QED BY <1>1, <1>5, <2>1, <2>2, OneInPackage, OneCandidate
<1>6. CASE OwnOrImported(n) = {} /\ TypesIn(unit.package, n) = {}
  <2>0. Len(onDemand) \in Nat /\ DOMAIN onDemand = 1 .. Len(onDemand)
    BY LenProperties DEF Linked, LinkInv
  <2>1. LookupSimpleType(n) = UNION {TypesIn(p, n) : p \in starImports}
    BY <1>6 DEF LookupSimpleType
  <2>2. starImports = {Searched(i) : i \in 0 .. Len(onDemand)}
    <3>1. Range(onDemand) = {onDemand[i] : i \in 1 .. Len(onDemand)}
      BY RangeEquality DEF Linked, LinkInv
    <3>2. \A i \in 1 .. Len(onDemand) : Searched(i) = onDemand[i] /\ i \in 0 .. Len(onDemand)
      BY <2>0 DEF Searched
    <3>3. Searched(0) = Lang /\ 0 \in 0 .. Len(onDemand) BY <2>0 DEF Searched
    <3>4. \A i \in 0 .. Len(onDemand) : i = 0 \/ i \in 1 .. Len(onDemand) BY <2>0
    <3>5. starImports = {Lang} \cup {onDemand[i] : i \in 1 .. Len(onDemand)}
      BY <3>1, LinkedFacts
    <3> QED BY <3>2, <3>3, <3>4, <3>5
  <2>3. \A i \in Hits(n) : TypesIn(Searched(i), n) \subseteq LookupSimpleType(n)
    BY <2>1, <2>2 DEF Hits
  <2>4. CASE FoundTwice(n)
    <3>1. PICK i, j \in Hits(n) : i < j /\ Searched(j) # Lang BY <2>4 DEF FoundTwice
    <3>2. i \in 0 .. Len(onDemand) /\ j \in 1 .. Len(onDemand) BY <3>1, <2>0 DEF Hits
    <3>3. Searched(i) # Searched(j)
      <4>1. CASE i = 0 BY <4>1, <3>1 DEF Searched
      <4>2. CASE i # 0
        <5>1. i \in DOMAIN onDemand /\ j \in DOMAIN onDemand /\ i # j
          BY <2>0, <3>1, <3>2, <4>2
        <5> QED BY <5>1, <3>2, <4>2, <2>0 DEF IsInjective, Searched
      <4> QED BY <4>1, <4>2
    <3>4. PICK s \in TypesIn(Searched(i), n), t \in TypesIn(Searched(j), n) : TRUE
      BY <3>1 DEF Hits
    <3>5. s # t BY <3>3, <3>4 DEF TypesIn
    <3>6. s \in LookupSimpleType(n) /\ t \in LookupSimpleType(n) BY <2>3, <3>1, <3>4
    <3>7. Cardinality(LookupSimpleType(n)) # 1 BY <1>1, <3>5, <3>6, OneCandidate
    <3>8. SimpleKind(n) = "error" BY <1>2, <1>6, <2>4 DEF SimpleKind
    <3> QED BY <3>6, <3>7, <3>8
  <2>5. CASE ~FoundTwice(n) /\ Hits(n) # {}
    <3>1. PICK i \in Hits(n) : TRUE BY <2>5
    <3>2. ASSUME NEW k \in Hits(n), NEW j \in Hits(n), k < j
          PROVE  Searched(k) = Searched(j)
      <4>1. Searched(j) = Lang BY <3>2, <2>5 DEF FoundTwice
      <4>2. 0 \in Hits(n) BY <4>1, <2>0 DEF Hits, Searched
      <4>3. CASE k = 0 BY <4>1, <4>3 DEF Searched
      <4>4. CASE k # 0
        <5>1. 0 < k BY <4>4, <2>0 DEF Hits
        <5> QED BY <5>1, <4>1, <4>2, <2>5 DEF FoundTwice
      <4> QED BY <4>3, <4>4
    <3>3. \A j \in Hits(n) : Searched(j) = Searched(i)
      <4> SUFFICES ASSUME NEW j \in Hits(n) PROVE Searched(j) = Searched(i) OBVIOUS
      <4>1. i \in Int /\ j \in Int BY <2>0 DEF Hits
      <4>2. i < j \/ j < i \/ i = j BY <4>1
      <4> QED BY <4>2, <3>2
    <3>4. LookupSimpleType(n) = TypesIn(Searched(i), n)
      <4>1. ASSUME NEW t \in LookupSimpleType(n) PROVE t \in TypesIn(Searched(i), n)
        <5>1. PICK j \in 0 .. Len(onDemand) : t \in TypesIn(Searched(j), n)
          BY <2>1, <2>2, <4>1
        <5>2. j \in Hits(n) BY <5>1 DEF Hits
        <5> QED BY <5>1, <5>2, <3>3
      <4> QED BY <4>1, <2>3
    <3>5. LookupSimpleType(n) # {} BY <3>1, <3>4 DEF Hits
    <3>6. SimpleKind(n) = "type" BY <1>2, <1>6, <2>5 DEF SimpleKind
    <3> QED BY <1>1, <3>4, <3>5, <3>6, OneInPackage, OneCandidate
  <2>6. CASE ~FoundTwice(n) /\ Hits(n) = {}
    <3>1. LookupSimpleType(n) = {} BY <2>1, <2>2, <2>6 DEF Hits
    <3>2. Cardinality(LookupSimpleType(n)) # 1 BY <3>1, FS_EmptySet
    <3>3. SimpleKind(n) = IF <<n>> \in packages THEN "package" ELSE "error"
      BY <1>2, <1>6, <2>6 DEF SimpleKind
    <3> QED BY <3>1, <3>2, <3>3
  <2> QED BY <2>4, <2>5, <2>6
<1> QED BY <1>4, <1>5, <1>6

\* Appending the next identifier to the ones before it
LEMMA NextPart ==
  ASSUME NEW name \in Paths, NEW i \in 2 .. Len(name)
  PROVE  /\ Enclosing(name, i + 1) = Append(Enclosing(name, i), name[i])
         /\ Enclosing(name, i + 1) \in Paths
         /\ Enclosing(name, i) \in Prefixes(Enclosing(name, i + 1))
<1>0. Len(name) \in Nat BY LenProperties DEF Paths
<1>1. i \in 0 .. Len(name) /\ i - 1 \in 0 .. Len(name) /\ i - 1 \in 0 .. i
      /\ (i + 1) - 1 = i /\ i \in 1 .. Len(name) /\ i \in 1 .. i
  BY <1>0
<1> DEFINE q == SubSeq(name, 1, i - 1)
           r == SubSeq(name, 1, i)
<1>2. /\ q \in Paths /\ Len(q) = i - 1 /\ \A j \in 1 .. i - 1 : q[j] = name[j]
      /\ r \in Paths /\ Len(r) = i /\ \A j \in 1 .. i : r[j] = name[j]
  BY <1>1, FirstSteps
<1>3. name[i] \in Ids BY <1>1, ElementOfSeq DEF Paths
<1>4. q = SubSeq(r, 1, i - 1) BY <1>1, FirstOfFirst
<1> HIDE DEF q, r
<1>5. q \in Prefixes(r) BY <1>1, <1>2, <1>4 DEF Prefixes
<1> DEFINE a == Append(q, name[i])
<1>6. a \in Paths /\ Len(a) = i
  BY <1>0, <1>2, <1>3, StepOfPath
<1>7. a[i] = name[i]
  <2>1. Append(q, name[i])[Len(q) + 1] = name[i]
    BY Zenon, <1>2, <1>3, AppendProperties DEF Paths
  <2>2. Len(q) + 1 = i BY <1>0, <1>2
  <2> QED BY <2>1, <2>2
<1>8. ASSUME NEW j \in 1 .. i - 1 PROVE a[j] = name[j]
  <2>1. j \in 1 .. Len(q) BY <1>2
  <2>2. Append(q, name[i])[j] = q[j] BY <2>1, <1>2, <1>3, AppendProperties DEF Paths
  <2> QED BY <2>2, <1>2
<1> HIDE DEF a
<1>9. \A j \in 1 .. i : a[j] = r[j]
  <2> SUFFICES ASSUME NEW j \in 1 .. i PROVE a[j] = r[j] OBVIOUS
  <2>1. j = i \/ j \in 1 .. i - 1 BY <1>0
  <2> QED BY <2>1, <1>2, <1>7, <1>8
<1>10. a = r BY <1>2, <1>6, <1>9, SeqEqual DEF Paths
<1>11. Enclosing(name, i) = q /\ Enclosing(name, i + 1) = r
  BY <1>1 DEF Enclosing, q, r
<1> QED BY <1>2, <1>5, <1>10, <1>11 DEF a

\* A name up to its first identifier.
LEMMA FirstPart ==
  ASSUME NEW name \in Paths \ {<<>>}
  PROVE  /\ 1 \in DOMAIN name /\ Len(name) \in Nat \ {0}
         /\ Enclosing(name, 2) = <<name[1]>> /\ Head(name) = name[1]
<1>1. /\ Len(name) \in Nat /\ Len(name) # 0 /\ DOMAIN name = 1 .. Len(name)
  BY LenProperties, EmptySeq DEF Paths
<1>2. 1 \in 1 .. Len(name) /\ 1 \in 0 .. Len(name) BY <1>1
<1> DEFINE q == SubSeq(name, 1, 1)
<1>3. q \in Paths /\ Len(q) = 1 /\ \A j \in 1 .. 1 : q[j] = name[j]
  BY <1>2, FirstSteps
<1>4. q[1] = name[1] BY <1>3
<1>5. name[1] \in Ids BY <1>2, ElementOfSeq DEF Paths
<1> DEFINE a == <<name[1]>>
<1>6. a \in Seq(Ids) /\ Len(a) = 1 /\ a[1] = name[1] BY <1>5
<1> HIDE DEF q, a
<1>7. \A j \in 1 .. 1 : a[j] = q[j] BY <1>4, <1>6
<1>8. a = q BY <1>3, <1>6, <1>7, SeqEqual DEF Paths
<1>9. Enclosing(name, 2) = q BY DEF Enclosing, q
<1> QED BY <1>1, <1>2, <1>8, <1>9 DEF a

\* one of the first i identifiers of the name is a type
Typed(name, i) ==
  \/ LookupSimpleType(Head(name)) # {}
  \/ \E j \in 2 .. i : TypesIn(Enclosing(name, j), name[j]) # {}

(* What disambiguation knows after i identifiers, and the type linker of   *)
(* that much of the name. Past a type or a missing package it finds        *)
(* nothing any more, and neither does the type linker.                     *)
Alike(name, f, i) ==
  /\ f[i] = "type" <=> Resolves(Enclosing(name, i + 1))
  /\ f[i] = "package" => ~Typed(name, i)
  /\ f[i] # "package" => Typed(name, i) \/ Enclosing(name, i + 1) \notin packages

\* The two passes agree on every part of a name, by induction along it.
LEMMA ClassifiedAlike ==
  ASSUME Linked, IsInjective(onDemand), NEW name \in Paths \ {<<>>}, ~Relative(name),
         Head(name) \notin {Local, Member}, NEW f, KindsAlong(name, f)
  PROVE  \A i \in 1 .. Len(name) : Alike(name, f, i)
<1>0. Len(name) \in Nat \ {0} /\ DOMAIN name = 1 .. Len(name)
  BY FirstPart, LenProperties DEF Paths
<1>1. Alike(name, f, 1)
  <2>1. /\ Enclosing(name, 2) = <<name[1]>> /\ Head(name) = name[1] /\ 1 \in DOMAIN name
    BY FirstPart
  <2>2. f[1] = SimpleKind(Head(name)) BY <2>1 DEF KindsAlong
  <2>3. Candidates(<<name[1]>>) = LookupSimpleType(Head(name))
    <3>1. Len(<<name[1]>>) = 1 /\ Head(<<name[1]>>) = name[1] OBVIOUS
    <3> QED BY <3>1, <2>1 DEF Candidates
  <2>4. Typed(name, 1) <=> LookupSimpleType(Head(name)) # {} BY DEF Typed
  <2>5. Resolves(<<name[1]>>) <=> Cardinality(LookupSimpleType(Head(name))) = 1
    BY <2>3 DEF Resolves
  <2>6. Enclosing(name, 1 + 1) = <<Head(name)>> BY <2>1
  <2> QED BY <2>1, <2>2, <2>4, <2>5, <2>6, SimpleKindsAgree DEF Alike
<1>2. ASSUME NEW i \in 2 .. Len(name), Alike(name, f, i - 1)
      PROVE  Alike(name, f, i)
  <2> DEFINE part == Enclosing(name, i)
             whole == Enclosing(name, i + 1)
  <2>1. f[i] = QualifiedKind(part, f[i - 1], name[i])
    <3>1. i \in DOMAIN name /\ i # 1 BY <1>0
    <3> QED BY <3>1 DEF KindsAlong
  <2>2. /\ f[i - 1] = "type" <=> Resolves(part)
        /\ f[i - 1] = "package" => ~Typed(name, i - 1)
        /\ f[i - 1] # "package" => Typed(name, i - 1) \/ part \notin packages
    <3>1. (i - 1) + 1 = i BY <1>0
    <3> QED BY <1>2, <3>1 DEF Alike
  <2>3. Candidates(whole) = IF Typed(name, i - 1) THEN {} ELSE TypesIn(part, name[i])
    BY QualifiedCandidates DEF Typed
  <2>4. Typed(name, i) <=> Typed(name, i - 1) \/ TypesIn(part, name[i]) # {}
    <3>1. \A j : j \in 2 .. i <=> j \in 2 .. i - 1 \/ j = i BY <1>0
    <3> QED BY <3>1 DEF Typed
  <2>5. whole = Append(part, name[i]) /\ part \in Prefixes(whole) BY NextPart
  <2>6. whole \in packages => part \in packages BY <2>5, LinkedFacts, PackagesOfTypes
  <2>7. TypesIn(part, name[i]) # {} => part \in packages
    BY LinkedFacts, PackagesOfTypes DEF TypesIn
  <2>8. Resolves(whole) => Candidates(whole) # {}
    <3>1. SUFFICES ASSUME Candidates(whole) = {} PROVE ~Resolves(whole) OBVIOUS
    <3>2. Cardinality({}) = 0 BY FS_EmptySet
    <3>3. Cardinality(Candidates(whole)) = 0 BY Zenon, <3>1, <3>2
    <3> QED BY <3>3 DEF Resolves
  <2>9. TypesIn(part, name[i]) # {} => Cardinality(TypesIn(part, name[i])) = 1
    <3>1. TypesIn(part, name[i]) \subseteq types BY DEF TypesIn
    <3> QED BY <3>1, OneInPackage, OneCandidate
  <2> HIDE DEF part, whole
  <2>10. CASE f[i - 1] = "package"
    <3>1. f[i] = IF TypesIn(part, name[i]) # {} THEN "type"
                 ELSE IF whole \in packages THEN "package" ELSE "error"
      BY <2>1, <2>5, <2>10 DEF QualifiedKind
    <3>2. Resolves(whole) <=> TypesIn(part, name[i]) # {}
      BY <2>2, <2>3, <2>8, <2>9, <2>10 DEF Resolves
    <3> QED BY <3>1, <3>2, <2>2, <2>4, <2>10 DEF Alike, whole
  <2>11. CASE f[i - 1] # "package"
    <3>1. f[i] \in {"expression", "error"} BY <2>1, <2>11 DEF QualifiedKind
    <3>2. Candidates(whole) = {} BY <2>2, <2>3, <2>7, <2>11
    <3>3. Typed(name, i) \/ whole \notin packages BY <2>2, <2>4, <2>6, <2>11
    <3> QED BY <3>1, <3>2, <3>3, <2>8 DEF Alike, whole
  <2> QED BY <2>10, <2>11
<1> DEFINE S == {n \in Nat : n + 1 \in 1 .. Len(name) => Alike(name, f, n + 1)}
<1>3. 0 \in S
  <2>1. 0 + 1 = 1 OBVIOUS
  <2> QED BY <2>1, <1>1
<1>4. ASSUME NEW n \in Nat, n \in S PROVE n + 1 \in S
  <2>1. SUFFICES ASSUME (n + 1) + 1 \in 1 .. Len(name) PROVE Alike(name, f, (n + 1) + 1)
    OBVIOUS
  <2>2. n + 1 \in 1 .. Len(name) /\ (n + 1) + 1 \in 2 .. Len(name)
        /\ ((n + 1) + 1) - 1 = n + 1
    BY <2>1, <1>0
  <2>3. Alike(name, f, n + 1) BY <1>4, <2>2
  <2> QED BY <2>2, <2>3, <1>2
<1>5. Nat \subseteq S
  <2> HIDE DEF S
  <2> QED BY <1>3, <1>4, Induct
<1>6. ASSUME NEW i \in 1 .. Len(name) PROVE Alike(name, f, i)
  <2>1. i - 1 \in Nat /\ (i - 1) + 1 = i BY <1>0
  <2> QED BY <2>1, <1>5
<1> QED BY <1>6

(* Disambiguation calls a name a type exactly when the type linker         *)
(* resolves it to one, unless a package is imported twice or an import     *)
(* forgotten: the two search different tables (disambiguate).              *)
THEOREM NamesReadAlike == Spec => []PassesAgree
<1>1. ASSUME PackagesInv, LinkInv PROVE PassesAgree
  <2>1. SUFFICES ASSUME Linked, IsInjective(onDemand), NEW name \in Names, ~Relative(name),
                        Head(name) \notin {Local, Member}
                 PROVE  (Classification(name) = "type") <=> Resolves(name)
    BY <1>1 DEF PassesAgree, Linked
  <2>2. name \in Paths \ {<<>>} BY LookedUpPaths
  <2>3. PICK f : KindsAlong(name, f) /\ Classification(name) = f[Len(name)]
    BY <2>2, ClassificationExists
  <2>4. Len(name) \in 1 .. Len(name)
    <3>1. \A k \in Nat \ {0} : k \in 1 .. k OBVIOUS
    <3> QED BY <3>1, <2>2, FirstPart
  <2>5. Alike(name, f, Len(name)) BY <2>1, <2>2, <2>3, <2>4, ClassifiedAlike
  <2>6. Enclosing(name, Len(name) + 1) = name BY <2>2, WholeName
  <2> QED BY <2>3, <2>5, <2>6 DEF Alike
<1> QED BY <1>1, LinkInductive, PTL
=============================================================================
