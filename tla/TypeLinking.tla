----------------------------- MODULE TypeLinking -----------------------------
(***************************************************************************)
(* TypeLinker on one compilation unit once every unit is in the            *)
(* environment, and CompilationUnitNamespace, the lookups it leaves        *)
(* behind. Linking a unit changes nothing another unit's linking reads,    *)
(* so one unit, any of those declared, is linked in a behaviour.           *)
(***************************************************************************)
EXTENDS Packages

CONSTANTS OnDemandNames, ImportNames,  \* what an import may name
          SuperNames,                  \* what extends or implements may name
          MaxOnDemand, MaxSingle,      \* bounds: imports of each form
          None

ASSUME ImportsAreNames ==
  OnDemandNames \cup ImportNames \subseteq Seq(STRING) \ {<<>>}

VARIABLES unit,            \* the unit being linked
          onDemand,        \* its import-on-demand declarations, in order
          single,          \* its single-type imports
          starImports, singleImports,     \* what is kept of them
          extended         \* the type its extends or implements names

linkVars == <<unit, onDemand, single, starImports, singleImports, extended>>

\* mutant: a package nobody declared
Undeclared(path) == ~PackageIsType(path)

\* findPackageDeclaration
PackageFound(path) == ~PackageIsType(path) /\ path \in packages

\* findTypeImport
TypeFound(path) ==
  /\ ~PackageIsType(Front(path))
  /\ Front(path) \in packages
  /\ TypesIn(Front(path), Last(path)) # {}

-----------------------------------------------------------------------------
\* the type of the unit and the imported ones
OwnOrImported(n) == {t \in {unit} \cup singleImports : t.name = n}

\* mutant: the package before the imports
PackageFirst(n) ==
  IF TypesIn(unit.package, n) # {} THEN TypesIn(unit.package, n)
  ELSE IF OwnOrImported(n) # {} THEN OwnOrImported(n)
  ELSE UNION {TypesIn(p, n) : p \in starImports}

\* lookupSimpleType: the candidates of the first rule that has any
LookupSimpleType(n) ==
  IF OwnOrImported(n) # {} THEN OwnOrImported(n)
  ELSE IF TypesIn(unit.package, n) # {} THEN TypesIn(unit.package, n)
  ELSE UNION {TypesIn(p, n) : p \in starImports}

\* getValidCandidates: the type n of package q, seen from each package in scope
ValidCandidates(q, n) ==
  UNION {TypesIn(p \o q, n) : p \in starImports \cup {Default, unit.package}}

SomePrefixIsType(q) ==
  \/ LookupSimpleType(Head(q)) # {}
  \/ \E i \in 2..Len(q) : ValidCandidates(Enclosing(q, i), q[i]) # {}

(* The candidates lookupQualifiedType hands to resolveCandidates, which    *)
(* accepts just one.                                                       *)
Candidates(name) ==
  IF Len(name) = 1 THEN LookupSimpleType(Head(name))
  ELSE IF SomePrefixIsType(Front(name)) THEN {}
  ELSE ValidCandidates(Front(name), Last(name))

Resolves(name) == Cardinality(Candidates(name)) = 1

-----------------------------------------------------------------------------
BeginUnit(u) ==
  /\ phase = "environment"
  /\ u \in declared
  /\ phase' = "imports"
  /\ unit' = u
  /\ starImports' = {Lang}
  /\ UNCHANGED <<packageVars, onDemand, single, singleImports, extended>>

ImportOnDemand(path) ==
  /\ phase = "imports"
  /\ single = {}
  /\ Len(onDemand) < MaxOnDemand
  /\ onDemand' = Append(onDemand, path)
  /\ IF PackageFound(path)
       THEN starImports' = starImports \cup {path} /\ UNCHANGED phase
       ELSE phase' = "error" /\ UNCHANGED starImports
  /\ UNCHANGED <<packageVars, unit, single, singleImports, extended>>

\* what a single-type import adds: nothing if its package is imported whole
Kept(path) ==
  IF Front(path) \in starImports THEN {} ELSE TypesIn(Front(path), Last(path))

ImportType(path) ==
  /\ phase = "imports"
  /\ path \notin single
  /\ Cardinality(single) < MaxSingle
  /\ single' = single \cup {path}
  /\ IF TypeFound(path) /\ PackageFound(Front(path))
       THEN singleImports' = singleImports \cup Kept(path) /\ UNCHANGED phase
       ELSE phase' = "error" /\ UNCHANGED singleImports
  /\ UNCHANGED <<packageVars, unit, onDemand, starImports, extended>>

SameNameTwice ==
  \E s, t \in singleImports : s # t /\ s.name = t.name

(* The rest of operator()(CompilationUnit) and operator() of the class or  *)
(* interface: its own name must be unambiguous, and what it extends or     *)
(* implements of the right kind.                                           *)
LinkDeclaration(super, kind) ==
  /\ phase = "imports"
  /\ unit.kind = "interface" => kind = "interface"
  /\ IF /\ ~SameNameTwice
        /\ Resolves(<<unit.name>>)
        /\ super # None => Resolves(super) /\ \A t \in Candidates(super) : t.kind = kind
       THEN /\ phase' = "linked"
            /\ extended' = IF super = None THEN None
                           ELSE CHOOSE t \in Candidates(super) : TRUE
       ELSE phase' = "error" /\ UNCHANGED extended
  /\ UNCHANGED <<packageVars, unit, onDemand, single, starImports, singleImports>>

Init ==
  /\ PackagesInit
  /\ unit = None
  /\ onDemand = <<>>
  /\ single = {}
  /\ starImports = {}
  /\ singleImports = {}
  /\ extended = None

Next ==
  \/ \E u \in Unit : DeclareUnit(u) /\ UNCHANGED linkVars
  \/ \E u \in declared : BeginUnit(u)
  \/ \E path \in OnDemandNames : ImportOnDemand(path)
  \/ \E path \in ImportNames : ImportType(path)
  \/ \E super \in SuperNames \cup {None}, kind \in Kinds :
       LinkDeclaration(super, kind)

Spec == Init /\ [][Next]_<<phase, packageVars, linkVars>>
=============================================================================
