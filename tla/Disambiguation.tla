---------------------------- MODULE Disambiguation ----------------------------
(***************************************************************************)
(* DisambiguationVisitor::disambiguate on the names of a linked class: how *)
(* it classifies an ambiguous name by what its first identifiers are. It   *)
(* reads the import declarations as they are written, the type linker what *)
(* it kept of them, and both must read a name the same way. Every type has *)
(* a member, Member, and Local is a variable in scope.                     *)
(***************************************************************************)
EXTENDS TypeLinking

CONSTANTS Member, Local, Names        \* Names: what the properties look up

ASSUME LookedUpAreNames == Names \subseteq Seq(STRING) \ {<<>>}

\* mutant: single-type imports are not searched
NotImported(n) == FALSE

ImportedByName(n) == \E path \in single : Last(path) = n

\* java.lang, then the on-demand imports as written, in order
Searched(i) == IF i = 0 THEN Lang ELSE onDemand[i]
Hits(n) == {i \in 0..Len(onDemand) : TypesIn(Searched(i), n) # {}}
\* a second hit is an error, but for an explicit import of java.lang
FoundTwice(n) ==
  \E i, j \in Hits(n) : i < j /\ Searched(j) # Lang

SimpleKind(n) ==
  IF n \in {Local, Member} THEN "expression"
  ELSE IF unit.name = n \/ ImportedByName(n) \/ TypesIn(unit.package, n) # {} THEN "type"
  ELSE IF FoundTwice(n) THEN "error"
  ELSE IF Hits(n) # {} THEN "type"
  ELSE IF <<n>> \in packages THEN "package" ELSE "error"

\* the class of prefix.n, given the class of the prefix
QualifiedKind(prefix, kind, n) ==
  CASE kind = "expression" -> "expression"
    [] kind = "type"       -> IF Resolves(prefix) /\ n = Member THEN "expression"
                                                                ELSE "error"
    [] kind = "package"    -> IF TypesIn(prefix, n) # {} THEN "type"
                              ELSE IF Append(prefix, n) \in packages THEN "package"
                              ELSE "error"
    [] OTHER               -> "error"

Classification(name) ==
  LET kind[i \in DOMAIN name] ==
        IF i = 1 THEN SimpleKind(name[1])
        ELSE QualifiedKind(Enclosing(name, i), kind[i - 1], name[i])
  IN  kind[Len(name)]
-----------------------------------------------------------------------------
\* what a name means by the rules the tests of type linking state
SimpleMeaning(n) ==
  LET imported == UNION {TypesIn(Front(p), n) : p \in {q \in single : Last(q) = n}}
  IN  IF unit.name = n THEN {unit}
      ELSE IF imported # {} THEN imported
      ELSE IF TypesIn(unit.package, n) # {} THEN TypesIn(unit.package, n)
      ELSE UNION {TypesIn(p, n) : p \in {Lang} \cup Range(onDemand)}

Meaning(name) ==
  IF Len(name) = 1 THEN SimpleMeaning(Head(name))
  ELSE IF SimpleMeaning(Head(name)) # {} THEN {}
  ELSE TypesIn(Front(name), Last(name))

\* the type linker also reads a qualified name from the packages in scope
Relative(name) ==
  \E p \in starImports \cup {unit.package} :
    p # Default /\ Append(p, Head(name)) \in packages

\* a single-type import from a package also imported on demand is forgotten
Forgotten == \E path \in single : Front(path) \in starImports

TypeOK ==
  /\ phase \in {"environment", "clash", "imports", "linked", "error"}
  /\ declared \subseteq Unit
  /\ types \subseteq Unit \cup LangTypes
  /\ \A t \in types : t.package \in packages
  /\ phase \in {"imports", "linked"} => /\ unit \in types
                                        /\ starImports \subseteq packages
                                        /\ singleImports \subseteq types

(* A name means the type the package structure and the import declarations *)
(* say, or is rejected as they say, wherever the type linker neither       *)
(* forgets an import nor reads a qualified name from inside a package      *)
(* (CompilationUnitNamespace::lookupQualifiedType).                        *)
NamesMeanWhatIsWritten ==
  phase = "linked" /\ ~Forgotten =>
    \A name \in Names : Relative(name) \/ Candidates(name) = Meaning(name)

(* Disambiguation calls a name a type exactly when the type linker         *)
(* resolves it to one, though it searches other tables, unless a package   *)
(* is imported twice or an import forgotten (disambiguate).                *)
PassesAgree ==
  phase = "linked" /\ unit.kind = "class" /\ IsInjective(onDemand) /\ ~Forgotten =>
    \A name \in Names : \/ Relative(name) \/ Head(name) \in {Local, Member}
                        \/ (Classification(name) = "type") <=> Resolves(name)
=============================================================================
