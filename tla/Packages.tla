------------------------------ MODULE Packages ------------------------------
(***************************************************************************)
(* EnvironmentBuilder on the declarations of packages and types: a tree of *)
(* package objects, each with its classes, interfaces and sub-packages.    *)
(* A package is its path from the default package <<>>; a type is the unit *)
(* that declares it. full_qualified_name is left out: labels carry a       *)
(* number that makes them distinct without it (code-gen-constants.h).      *)
(***************************************************************************)
EXTENDS Naturals, FiniteSets, SequencesExt

CONSTANTS UnitPackages,    \* the packages a compilation unit may name
          TypeNames,       \* the types it may declare
          LangTypes,       \* the types java.lang may have
          MaxUnits         \* bound: units given to the compiler

Default == <<>>
Lang    == <<"java", "lang">>
Kinds   == {"class", "interface"}

Unit == [package : UnitPackages, name : TypeNames, kind : Kinds]

\* a name is one identifier, a package a sequence of them
ASSUME Identifiers ==
  UnitPackages \subseteq Seq(STRING) /\ TypeNames \subseteq STRING

\* the types of java.lang have different names, and none is given twice
ASSUME LangIsSound ==
  /\ LangTypes \subseteq [package : {Lang}, name : STRING, kind : Kinds]
  /\ IsFiniteSet(LangTypes)
  /\ \A s, t \in LangTypes : s.name = t.name => s = t
  /\ LangTypes \cap Unit = {}

VARIABLES phase,       \* the pass running
          declared,    \* the units visited so far
          packages,    \* the package objects
          types        \* their classes and interfaces

packageVars == <<declared, packages, types>>

\* lookups in the tables of a package object
TypesIn(package, name) == {t \in types : t.package = package /\ t.name = name}
Enclosing(path, i) == SubSeq(path, 1, i - 1)

\* a step of the path names a type of a package other than the default one
PackageIsType(path) ==
  \E i \in DOMAIN path : /\ Enclosing(path, i) # Default
                         /\ TypesIn(Enclosing(path, i), path[i]) # {}

\* mutant: a type may have the name of a sub-package
NeverPackage(u) == FALSE

TypeIsPackage(u) ==
  u.package # Default /\ Append(u.package, u.name) \in packages

Redeclared(u) == TypesIn(u.package, u.name) # {}

PackagesInit ==
  /\ phase = "environment"
  /\ declared = {}
  /\ packages = Prefixes(Lang)
  /\ types \in {{}, LangTypes}

\* EnvironmentBuilder on a compilation unit, as far as its one type
DeclareUnit(u) ==
  /\ phase = "environment"
  /\ u \notin declared
  /\ Cardinality(declared) < MaxUnits
  /\ declared' = declared \cup {u}
  /\ IF PackageIsType(u.package) \/ TypeIsPackage(u) \/ Redeclared(u)
       THEN phase' = "clash" /\ UNCHANGED <<packages, types>>
       ELSE /\ packages' = packages \cup Prefixes(u.package)
            /\ types' = types \cup {u}
            /\ UNCHANGED phase
-----------------------------------------------------------------------------
\* a type that the default package does not hold names a step of the path
OnPath(u, path) ==
  u.package # Default /\ IsPrefix(Append(u.package, u.name), path)

\* two units whose names cannot both be fully qualified names
Clash(u, v) ==
  \/ u # v /\ u.package = v.package /\ u.name = v.name
  \/ OnPath(u, v.package)

\* java.lang is a package even when no unit of it is given
Clashing(units) ==
  \E u \in units : OnPath(u, Lang) \/ \E v \in units : Clash(u, v)

(* Whether the units are accepted depends on the units alone, whatever     *)
(* order the command line gives them in: they are rejected exactly when a  *)
(* type has the name of a package or of another type (EnvironmentBuilder). *)
ClashFoundInAnyOrder ==
  (phase = "clash") <=> Clashing(declared \cup types)
=============================================================================
