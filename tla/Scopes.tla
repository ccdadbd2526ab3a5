------------------------------- MODULE Scopes -------------------------------
(***************************************************************************)
(* The local variables of one method body through the passes that share    *)
(* its LocalVariableScopeManager: EnvironmentBuilder, which fills the      *)
(* scopes while it reads the body, then DisambiguationVisitor,             *)
(* ForwardDeclarationVisitor, TypeChecker and LocalVariableVisitor, each a *)
(* visit of the whole body. A pass opens the scopes of the blocks it is in *)
(* and leaves the tables, whose entries a lookup adds to, to the next one. *)
(*                                                                         *)
(* A block and a for statement are both an "open" item and its "close". A  *)
(* use is a name in an expression, `form` how it stands there: alone, on   *)
(* the left of an assignment, before a field or before a method call.      *)
(***************************************************************************)
EXTENDS Naturals, FiniteSets, SequencesExt

CONSTANTS Names, Parameters,    \* the parameters a method may have
          MaxItems,             \* bound on the items of a body
          MaxUses,              \* bound on those that are not Plain
          None

ASSUME NoneAssumption == None \notin Names

Forms   == {"simple", "assigned", "qualified", "receiver"}
Use     == [name : Names, form : Forms]
Literal == [name |-> None, form |-> "literal"]
Missing == [name |-> None, form |-> "missing"]

Open  == [op |-> "open", name |-> None, use |-> Missing]
Close == [op |-> "close", name |-> None, use |-> Missing]
Declare(n, init) == [op |-> "declare", name |-> n, use |-> init]
Mention(u) == [op |-> "use", name |-> None, use |-> u]

\* the items that use no name and omit no initialiser
Plain == {Open, Close} \cup {Declare(n, Literal) : n \in Names}

VARIABLES
  pass,         \* the pass that runs next, "accepted" or "rejected"
  body,         \* the items read so far
  parameters, fields, inherited,     \* the other variables with these names
  this,         \* whether the method has one (it is not static)
  scopes,       \* of the scope manager
  open,         \* open_scopes
  refers        \* what each item's use was found to be (setRefersTo)

vars == <<pass, body, parameters, fields, inherited, this, scopes, open, refers>>

-----------------------------------------------------------------------------
(* A scope is its symbols in insertion order, each the item that declares  *)
(* it, and the keys of its hashmap, which a lookup inserts; a key is a     *)
(* name, or a name with a field.                                           *)
NewScope == [symbols |-> <<>>, keys |-> {}]
Key(n) == <<n, "simple">>

KeyOf(d) == Key(body[d].name)
Holds(scope, key) == \E i \in DOMAIN scope.symbols : KeyOf(scope.symbols[i]) = key

\* the open scopes that hold the key
Holders(s, key) == {d \in DOMAIN s.open : Holds(s.scopes[s.open[d]], key)}
Found(s, key) == Holders(s, key) # {}
Depth(s, key) == CHOOSE d \in Holders(s, key) : \A e \in Holders(s, key) : e <= d

\* lookupUniqueSymbol in the open scopes at these depths
Visited(s, key, depths) ==
  LET visited == {s.open[d] : d \in depths}
  IN  [s EXCEPT !.scopes = [i \in DOMAIN s.scopes |->
         IF i \in visited THEN [s.scopes[i] EXCEPT !.keys = @ \cup {key}]
                          ELSE s.scopes[i]]]

\* lookupVariable goes from the innermost open scope to one that holds the key
LookedUp(s, key) ==
  Visited(s, key, {e \in DOMAIN s.open : Found(s, key) => e >= Depth(s, key)})

Position(scope, key) ==
  CHOOSE i \in DOMAIN scope.symbols : KeyOf(scope.symbols[i]) = key

\* the variable lookupVariable returns
Variable(s, key) ==
  LET scope == s.scopes[s.open[Depth(s, key)]]
  IN  scope.symbols[Position(scope, key)]

\* getInsertPosition goes the other way, from the outermost open scope
Outermost(s, key) == CHOOSE d \in Holders(s, key) : \A e \in Holders(s, key) : d <= e
Positioned(s, key) == Visited(s, key, 1..Outermost(s, key))

\* what it returns, in the tables it leaves: the keys of the scopes before the
\* one that holds the key, and the symbols before it there
InsertPosition(s, key) ==
  LET d == Outermost(s, key)
      offset[e \in 0..(d - 1)] ==
        IF e = 0 THEN 0 ELSE offset[e - 1] + Cardinality(s.scopes[s.open[e]].keys)
  IN  offset[d - 1] + Position(s.scopes[s.open[d]], key) - 1

\* mutant: the symbol is added under no key
AddUnlisted(s, n, item) ==
  [s EXCEPT !.scopes[s.open[Len(s.open)]].symbols = Append(@, item)]

\* addVariable, called at the last item of the body
AddVariable(s, n, item) ==
  [LookedUp(s, Key(n)) EXCEPT
     !.scopes[s.open[Len(s.open)]] = [symbols |-> Append(@.symbols, item),
                                      keys |-> @.keys \cup {Key(n)}]]

\* mutant: the variable is not looked for among those of enclosing blocks
RedeclaredInBlock(s, n) ==
  n \in parameters \/ Holds(s.scopes[s.open[Len(s.open)]], Key(n))

Redeclared(s, n) == n \in parameters \/ Found(s, Key(n))

-----------------------------------------------------------------------------
(* A pass carries the scope manager, the item it is at, the number of      *)
(* scopes met, and whether it has thrown.                                  *)
Start(opened) == [scopes |-> scopes, open |-> opened, declared |-> {},
                  at |-> 1, met |-> 1, refers |-> refers, ok |-> TRUE]

Rejected(s) == [s EXCEPT !.ok = FALSE]

\* a block: openScope(scope_id), the children, closeScope(scope_id)
Nested(s, item) ==
  IF item.op = "open" THEN [s EXCEPT !.met = @ + 1, !.open = Append(@, s.met + 1)]
  ELSE IF item.op = "close" THEN [s EXCEPT !.open = Front(@)]
  ELSE s

\* DisambiguationVisitor::disambiguate on the first identifier of a use
Disambiguated(s, item) ==
  LET n == item.use.name
      t == LookedUp(s, Key(n))
  IN  IF n = None THEN s
      ELSE IF Found(s, Key(n)) \/ n \in parameters \cup fields \cup inherited
        THEN t ELSE Rejected(t)

\* the whole of a name but on the left of an assignment
Offender(u) == IF u.form = "qualified" THEN <<u.name, "field">> ELSE Key(u.name)

\* mutant: a field does not excuse the use
NoFieldExcuses(u) == FALSE

FieldExcuses(u) == u.form # "qualified" /\ u.name \in fields

\* ForwardDeclarationVisitor on a name in the initialiser of a local
Forwarded(s, item) ==
  IF \/ item.op # "declare" \/ item.use.name = None \/ item.use.form = "assigned"
     \/ FieldExcuses(item.use)
  THEN s
  ELSE LET t == LookedUp(LookedUp(s, Key(item.name)), Offender(item.use))
           u == Positioned(t, Key(item.name))
           v == Positioned(u, Offender(item.use))
       IN  IF ~Found(s, Offender(item.use)) THEN t
           ELSE IF InsertPosition(u, Key(item.name)) < InsertPosition(v, Offender(item.use))
             THEN Rejected(v) ELSE v

\* lookupDeclaredVariable
Declared(s, n) == Found(s, Key(n)) /\ Variable(s, Key(n)) \in s.declared

\* TypeChecker on a name: local, parameter, field of this, in that order
Linked(s, item) ==
  LET n      == item.use.name
      t      == LookedUp(s, Key(n))
      target == IF Declared(s, n) THEN <<"local", Variable(s, Key(n))>>
                ELSE IF n \in parameters THEN <<"parameter", n>>
                ELSE IF this /\ n \in fields \cup inherited THEN <<"field", n>>
                ELSE <<>>
  IN  IF n = None THEN s
      ELSE IF target = <<>> THEN Rejected(t)
      ELSE [t EXCEPT !.refers = [@ EXCEPT ![s.at] = target]]

\* TypeChecker on a local declaration: declareVariable, then the initialiser
TypeChecked(s, item) ==
  IF item.op = "declare"
  THEN Linked([s EXCEPT !.declared = @ \cup {Variable(s, Key(item.name))}], item)
  ELSE Linked(s, item)

\* checkExpressionForIdentifier looks only at names that stand alone
MentionsItself(item) ==
  item.use.name = item.name /\ item.use.form \in {"simple", "assigned"}

\* LocalVariableVisitor on a local declaration
Initialised(s, item) ==
  IF item.op = "declare" /\ (item.use = Missing \/ MentionsItself(item))
  THEN Rejected(s) ELSE s

\* one item of a pass; nothing is visited after the exception
Visit(kind, s, item) ==
  IF ~s.ok THEN s
  ELSE LET t == IF item.op \in {"open", "close"} THEN Nested(s, item)
                ELSE CASE kind = "disambiguation" -> Disambiguated(s, item)
                       [] kind = "forward"        -> Forwarded(s, item)
                       [] kind = "types"          -> TypeChecked(s, item)
                       [] OTHER                   -> Initialised(s, item)
       IN  [t EXCEPT !.at = @ + 1]

\* a pass after each item
Run(kind) ==
  LET run[k \in 0..Len(body)] ==
        IF k = 0 THEN Start(<<1>>) ELSE Visit(kind, run[k - 1], body[k])
  IN  run

-----------------------------------------------------------------------------
Init ==
  /\ pass = "environment"
  /\ body = <<>>
  /\ parameters \in {{}, Parameters}
  /\ \E owned \in SUBSET Names, above \in SUBSET Names :
       /\ owned \cap above = {} /\ Cardinality(owned \cup above) <= 1
       /\ fields = owned /\ inherited = above
  /\ this \in BOOLEAN
  /\ scopes = <<NewScope>>
  /\ open = <<1>>
  /\ refers = <<>>

\* EnvironmentBuilder on the next item of the body
Read(item) ==
  /\ pass = "environment"
  /\ Len(body) < MaxItems
  /\ item \notin Plain => Cardinality({i \in DOMAIN body : body[i] \notin Plain}) < MaxUses
  /\ item.op = "close" => Len(open) > 1
  /\ body' = Append(body, item)
  /\ refers' = Append(refers, <<>>)
  /\ LET s == [scopes |-> scopes, open |-> open]
     IN  CASE item.op = "open"  -> /\ scopes' = Append(scopes, NewScope)
                                   /\ open' = Append(open, Len(scopes) + 1)
                                   /\ UNCHANGED pass
           [] item.op = "close" -> open' = Front(open) /\ UNCHANGED <<pass, scopes>>
           [] item.op = "use"   -> UNCHANGED <<pass, scopes, open>>
           [] OTHER -> /\ pass' = IF Redeclared(s, item.name) THEN "rejected" ELSE pass
                       /\ scopes' = IF Redeclared(s, item.name) THEN scopes
                                    ELSE AddVariable(s, item.name, Len(body) + 1).scopes
                       /\ UNCHANGED open
  /\ UNCHANGED <<parameters, fields, inherited, this>>

EndOfBody ==
  /\ pass = "environment"
  /\ pass' = "disambiguation"
  /\ open' = <<>>
  /\ UNCHANGED <<body, parameters, fields, inherited, this, scopes, refers>>

After == [disambiguation |-> "forward", forward |-> "types", types |-> "locals",
          locals |-> "accepted"]

\* one of the later passes, over the whole body
RunPass(kind) ==
  /\ pass = kind
  /\ LET end == Run(kind)[Len(body)]
     IN  /\ pass' = IF end.ok THEN After[kind] ELSE "rejected"
         /\ scopes' = end.scopes
         /\ refers' = end.refers
  /\ UNCHANGED <<body, parameters, fields, inherited, this, open>>

Items ==
  {Open, Close} \cup {Mention([name |-> n, form |-> "simple"]) : n \in Names}
  \cup {Declare(n, u) : n \in Names, u \in Use \cup {Literal, Missing}}

Next ==
  \/ \E item \in Items : Read(item)
  \/ EndOfBody
  \/ \E kind \in DOMAIN After : RunPass(kind)

Spec == Init /\ [][Next]_vars
-----------------------------------------------------------------------------
\* how deep item i is nested, and the declarations in scope there
Level(i) ==
  Cardinality({k \in 1..i : body[k].op = "open"})
    - Cardinality({k \in 1..i : body[k].op = "close"})
InScope(d, i) == body[d].op = "declare" /\ \A k \in d..i : Level(k) >= Level(d)
Locals(i, n) == {d \in 1..i : InScope(d, i) /\ body[d].name = n}

\* what a name in item i means by the rules of the language
Meaning(i, n) ==
  IF Locals(i, n) # {} THEN <<"local", CHOOSE d \in Locals(i, n) : TRUE>>
  ELSE IF n \in parameters THEN <<"parameter", n>>
  ELSE IF this /\ n \in fields \cup inherited THEN <<"field", n>> ELSE <<>>

Uses == {i \in DOMAIN body : body[i].use.name # None}

\* a body the language accepts
NoRedeclaration ==
  \A i \in DOMAIN body : body[i].op = "declare" =>
    /\ body[i].name \notin parameters
    /\ Locals(i, body[i].name) = {i}
NoSelfUse == \A i \in Uses : body[i].op = "declare" => body[i].use.name # body[i].name
Initialisers == \A i \in DOMAIN body : body[i].op = "declare" => body[i].use # Missing
Valid ==
  /\ NoRedeclaration /\ NoSelfUse /\ Initialisers
  /\ \A i \in Uses : Meaning(i, body[i].use.name) # <<>>

\* the scopes, and what refers says, are of the body
TypeOK ==
  /\ pass \in {"environment", "accepted", "rejected"} \cup DOMAIN After
  /\ \A i \in DOMAIN scopes : \A k \in DOMAIN scopes[i].symbols :
         /\ body[scopes[i].symbols[k]].op = "declare"
         /\ KeyOf(scopes[i].symbols[k]) \in scopes[i].keys
  /\ \A d \in DOMAIN open : open[d] \in DOMAIN scopes
  /\ Len(refers) = Len(body)

(* In a body the compiler accepts, every name means the variable the       *)
(* language says: the declaration before it in the innermost block still   *)
(* open, else a parameter, else a field, however the five passes, which    *)
(* look variables up in tables filled by whole blocks, came to it.         *)
MeansInnermost ==
  pass = "accepted" =>
    /\ NoRedeclaration /\ Initialisers
    /\ \A i \in Uses : refers[i] = Meaning(i, body[i].use.name)

\* the locals whose initialisers ForwardDeclarationVisitor compares with a name
Compared == {i \in Uses : /\ body[i].op = "declare"
                          /\ body[i].use.form \in {"simple", "receiver"}}

\* an inherited field in the initialiser of a local, and later a local of its name
InheritedBefore ==
  \E i \in Compared, j \in DOMAIN body :
    /\ i < j /\ body[j].op = "declare" /\ body[j].name = body[i].use.name
    /\ body[j].name \in inherited

\* a local whose name is declared again later in an enclosing block, one that
\* also encloses the block of the local its initialiser uses
DeclaredOutside ==
  \E i \in Compared, j \in DOMAIN body :
    /\ i < j /\ body[j].op = "declare" /\ body[j].name = body[i].name
    /\ \A k \in i..j : Level(k) >= Level(j)
    /\ \E d \in Locals(i, body[i].use.name) : Level(d) > Level(j)

(* A body is rejected only if the language rejects it, but for two faults  *)
(* of ForwardDeclarationVisitor: it looks at the class's own fields only,  *)
(* and its positions are of the outermost open scope that holds a name     *)
(* (scope.cc:43), so that { int w = 1; int x = w; } int x = 2; is rejected,*)
(* the later x being at 0 and w behind the outer block's two keys.         *)
RejectsOnlyInvalid ==
  pass = "rejected" /\ ~InheritedBefore /\ ~DeclaredOutside => ~Valid
=============================================================================
