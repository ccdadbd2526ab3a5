# Verification of joosc, a compiler from Joos to x86

The repository is a compiler for Joos, a subset of Java, written in C++. It
reads Joos classes, checks them, lowers them through a tree IR to x86 assembly
and links that with a small run-time library. This directory models it in
TLA+: TLC checks the models on small instances, and TLAPS checks proofs, for
instances of any size, of what matters most about both register allocators,
hierarchy checking, dispatch vectors and startup, packages and names, local
variables, control flow and constant folding, and the type checker.

Sources are named relative to `src/src/`, the compiler's own code.

## 1. The system

### 1.1 Components

A compilation is one sequential pipeline, `compiler/compiler.cc`. Each phase
runs over every unit before the next begins. A unit that breaks a rule raises an
exception, which ends the compilation: a `CompilerError` with return code 1,
any other with 42, an invalid program.

| Component | State it keeps | Operations | Modelled in |
|---|---|---|---|
| Parsing, weeder (`parsing`, `weeder`) | the syntax tree; a list of violations | parse, local checks of nodes | - |
| Environments (`environment-builder`) | packages, symbol tables, one scope stack per method | declare packages, types, members; open and close scopes, look up | `Packages`, `Scopes`, `Hierarchy` |
| Type linking (`type-linking`) | links from names to declarations, imports of a unit | link imports, `extends`, `implements`, types of variables | `TypeLinking`; the clauses, `Hierarchy` |
| Hierarchy checking (`hierarchy-checking`) | `method_list` and `all_fields` of each type | check a class, check an interface | `Hierarchy`, `DispatchVector` |
| Disambiguation and forward references (`disambiguation`) | links in names | classify a name, find locals and fields, compare positions | `Disambiguation`, `Scopes` |
| Type checking (`type-checker`, `type-decl`) | the type linked to each expression | a rule per kind of expression and statement | `Types`, `TypeChecker`, `Scopes` |
| Local variables (`local-variables`) | a list of locals per method | visit a method | `Scopes` |
| Control flow and reachability (`cfg-builder`, `reachability`) | a graph per method; the sets `visited` and `reached` | build the graph, fold conditions, walk it, check that statements were reached | `ControlFlow`, `ConstantFolding` |
| Dispatch vectors (`IR-builder/dispatch-vector`) | static: the graph of methods, its colours, a vector per class | add the methods of a type, colour, assert, build a vector | `DispatchVector` |
| IR building (`IR-builder/ast-to-ir`) | the counters of names of temporaries and labels | convert each kind of node | `IRBuilder`; creation of objects and arrays, `Startup`, `Arrays` |
| IR canonicalisation (`IR-canonicalizer`) | the counter of names of temporaries | lower each kind of node; check the result | `Canonicalizer` |
| Tiling (`IR-tiling/tiling`) | a table of the cheapest tile of each node | choose the tile, emit its instructions | `Tiling` |
| Register allocation (`IR-tiling/register-allocation`) | intervals, free registers and slots, the next slot | five passes over a function body, or one | `LinearScan`, `SpillAll` |
| Assembly and startup (`IR-tiling/assembly*`) | instructions with the registers they read and write | write functions, static initialisers, vectors | `Assembly`, `AssemblyGenerator`, `Startup` |
| IR interpreter (`IR-interpreter`) | a stack, a heap, frames | run the IR, in tests | its order of evaluation, `Evaluation`, `Canonicalizer` |

### 1.2 How they interact

- Type linking leaves the declarations that hierarchy checking reads;
  hierarchy checking leaves the `method_list` that dispatch vectors and the
  type checker read. `DispatchVector` extends `Hierarchy` for that reason: only
  programs that hierarchy checking accepts get vectors.
- Every package and type is declared before the first unit is linked, and a name
  is resolved twice: by the type linker, from the imports it has kept, and by
  disambiguation, from the import declarations as written. The two must agree.
- Five passes share one scope manager per method: the environment builder fills
  its tables, the others each open and close the scopes again, and a look-up may
  leave an entry behind for the next pass.
- The type checker gives types to expressions from which the IR builder derives
  offsets and slots; the program checks no type again when it runs.
- The reachability check reads the graph through pointers held in the syntax
  tree: what one `createCfg` hands out another links on.
- The IR builder reads colours as slots. A slot a call reads and a slot a
  vector was filled at must be the same number. An object gets the vector its
  class's label holds when it is created, which the startup code writes and fills.
- A tile leaves its result in a register, in the flags or on the stack for the
  tile around it to read.
- The canonicaliser takes temporaries for granted to be fresh, and the register
  allocators take every temporary to be written before it is read.
- The allocator relies on what each instruction says it reads and writes; what
  an instruction leaves out (`cdq` writes EDX) is invisible to it.

### 1.3 What is hard

Nothing runs concurrently and nothing is persisted. What is hard to test is:

- **order**: passes over one function body that leave free lists to the next
  pass; side effects of an expression that may move over those of another;
  static initialisers against the filling of vectors;
- **hash order**: intervals, free registers and the vertices of the method
  graph come out of `unordered_map` and `unordered_set` in an order no test
  fixes. The models let every order happen;
- **state that outlives its user**: static tables keyed by addresses, a stack
  slot reused while its temporary is live, a node of a graph shared by two
  statements;
- **combinations of types**: a method of a class, of its superclass and of two
  interfaces that only meet in a subclass;
- **loops**: a jump back re-enters code whose temporaries seem dead in textual
  order; a walk of the graph must end though the graph has cycles;
- **boundaries**: the last instruction of an interval, the last word of a
  frame, the size of an array in bytes, arithmetic folded in 64 bits and run
  in 32.

`PROJECT.json` lists each at its line, with the properties that cover it.

### 1.4 What makes each component correct

- Packages and names: the same programs are rejected in whatever order units
  come; a name means what package structure, imports and scopes say, to every
  pass.
- Type checking: a value has the type its expression was given; nothing is
  rejected that could have gone well.
- Hierarchy checking: what it accepts can be run; no object lacks a method, and
  the method that runs may stand for every method it replaces.
- Dispatch vectors: two methods of a type never share a slot, a vector holds at
  each slot the method that implements it, fields keep the offsets of the
  superclass, a call reaches the implementation.
- Control flow: the methods accepted are those the rules of the language allow.
- Startup: an object can be called, its constructors have run from the top of
  the chain down, its fields hold what they were declared with.
- IR building: the IR calls, stores and computes what Java does, in Java's
  order, and its jumps can be tiled.
- Tiling: no tile overwrites what a later one reads.
- Canonicalisation: the same events, in the same order, with the same values.
- Register allocation: a body behaves as if each temporary had a register of
  its own.

## 2. Modules

| Module | What it models |
|---|---|
| `Packages` | the environment builder on packages and types, unit by unit |
| `TypeLinking` | the imports of one unit, its namespace and look-ups; extends `Packages` |
| `Disambiguation` | the classification of names; extends `TypeLinking` |
| `LinkingProofs` | proofs about these three |
| `Scopes` | the five passes over the local variables of one method body |
| `ScopesProofs` | proofs about `Scopes` |
| `Types` | `LinkedType`, the rules it compares types with, and the values of each type |
| `TypeChecker` | the type checker's rule of each kind of expression and statement; extends `Types` |
| `TypeCheckerProofs` | proofs about `TypeChecker` |
| `Hierarchy` | both visitors of hierarchy checking and the method lists |
| `DispatchVector` | `DVBuilder` and `DV`, on programs `Hierarchy` accepted |
| `DispatchProofs` | proofs about `Hierarchy` and `DispatchVector` |
| `Startup` | static initialisers, the filling of vectors, creation of objects; extends `DispatchVector` |
| `Arrays` | the layout of arrays in words of bounded width; used by `Startup` |
| `StartupProofs` | proofs about `Startup` and `Arrays` |
| `ConstantFolding` | constant conditions, beside their value in Java |
| `ControlFlow` | `createCfg`, the walk, both checks, and a run of the method; extends `ConstantFolding` |
| `ControlFlowProofs` | proofs about both |
| `Evaluation` | the meaning of a Java tree and of a tree of the IR |
| `IRBuilder` | `convert` on the nodes of Java, each tree with its IR |
| `Canonicalizer` | `convert` on each kind of node, and the meaning of the IR |
| `CanonicalizerProofs` | proofs about `Canonicalizer` |
| `Tiling` | the tile of each canonical node, run on a processor; extends `Canonicalizer` |
| `Assembly` | instructions by the registers they declare (`assembly-common.h`, `assembly.h`, `registers.h`) |
| `FunctionBodies` | the function bodies an allocator is given: what the tiling can emit; extends `Assembly` |
| `LinearScan` | `LinearScanningRegisterAllocator::allocateRegisters`, one action per step of each pass |
| `Processor` | where control goes, and what the registers hold, when every register a body names is real |
| `TempMachine` | abstract specification: what a body means when each temporary is a register |
| `FrameMachine` | what a rewritten instruction does: loads, execution, stores, caller saves |
| `GeneratedCode` | the prologue and the store a run starts from, shared by both allocators |
| `LinearScanRun` | the linear scan, then a run of its code; implements `TempMachine` |
| `SpillAll` | the brainless allocator, then a run of its code; implements `TempMachine` |
| `AssemblyGenerator` | one function through the allocator the command line chose; extends `LinearScanRun` and `SpillAll` |
| `AllocationProofs` | proofs about `LinearScan` and `SpillAll`, and that the code of either implements `TempMachine` |
| `TileBodies` | the function bodies TLC is given, made of the tiles of `ir-tiling.cc` |
| `MC*` | instances for TLC |

### 2.1 Register allocation

`allocateRegisters` makes passes over `function_body`; `phase` names the pass
and `current` the instruction it is at. `CheckInitialized` is
`checkAllTemporariesInitialized`, `ConstructIntervals` builds the intervals,
`ExtendToLabels` extends those live at a label over the jumps back to it,
`AssignInterval` takes one interval in the order of starts and gives it a
register or a slot, `Rewrite` re-activates intervals and gives each call its
caller saves, `Finish` sizes the frame. `Begin...` are the resets between the
passes. `\E` stands for the choices hash order makes: the order of intervals
with one start, the register or slot taken from a free set.

`LinearScanRun` appends a run: `FrameMachine` executes a rewritten instruction
on real registers and stack words, control takes any branch, a call leaves
anything in registers the callee may clobber. `TempMachine` executes the body as
it was. `ImplementsTempMachine` is the refinement: `env` is a history variable,
the registers of the abstract machine, and `seen` what the instruction read.
A value is named by the register and the instruction that wrote it, so two reads
agree only if the same write reached both. Memory and conditions are left out:
control may take either branch. A body that reads a register nobody wrote, or a
call clobbered, is outside the contract and stops. So is a temporary first
mentioned inside a loop, read again after the jump back without being written:
the IR builder initialises each variable where it declares it.

`SpillAll` gives each temporary a slot the first time it meets it and wraps each
instruction in loads and stores. `AssemblyGenerator` is `generateCode` on one
body: whichever allocator is chosen, the code implements the same `TempMachine`,
of which `FrameMachine` has an `INSTANCE`.

### 2.2 Packages, names and scopes

A package object is its path, a type the unit that declares it.
`DeclareUnit` is the environment builder on one unit, and the units come in any
order. Linking a unit changes nothing the linking of another reads, so one unit
is linked. `NamesMeanWhatIsWritten` compares the look-ups with a definition of
what a name means, and names two deviations of the code as exceptions:
`Forgotten`, a single-type import from a package that is also imported on demand
is dropped, and `Relative`, a qualified name is tried relative to the packages in
scope. Where a package is imported twice, disambiguation rejects names that type
linking resolves (`PassesAgree` asks for distinct imports).

A method body is a sequence of items: a scope opens or closes, a variable is
declared, a name is used. Each pass of `Scopes` goes over the body; what it
reads and leaves in the tables is what the code does, a look-up of a name that
is no variable included, which takes a place in the table and counts in the
positions `ForwardDeclarationVisitor` compares. `Meaning` is the language's
rule. `RejectsOnlyInvalid` has two exceptions, both faults of
`ForwardDeclarationVisitor`. `InheritedBefore`: a local initialised from an
inherited field of the name of a later local is rejected, because only the
class's own fields are looked at. `DeclaredOutside`: `lookupVariable` searches
the open scopes from the innermost, but `getInsertPosition` from the outermost
(`InsertPosition`), and the tables hold later declarations as well; a local whose
name is declared again later in an enclosing block has the position of that
later one (3.3).

### 2.3 Type checking

Expressions are built bottom up; a finished one is an operand on `stack`, with
the type the checker linked to it and a value the program may have computed.
A variable, a field or a call may yield any value of its type. That is justified
because whatever is stored, returned or passed goes through an action of this
module too, and is the induction behind `ValuesFit`: the program's own
stores are what the property constrains (`place` is the type of the variable
stored in). Some steps break the argument by design of the code, for the
compiled program checks nothing; after one of them `trusted` is false and the
program is not followed further:

- `BoxedUnchecked`: a primitive value may be stored in an `Object`;
- casts move the value as it is, down a hierarchy or to a smaller width
  (trusted only when `CannotFail`), and a minus of a narrow type keeps its type;
- `StoreUnchecked`: an element stored through an array of a superclass;
- members looked up on arrays, which pass for their elements
  (`linkedtype.cc:80`).

An object is of a declared class, or an array. One that is known by an
interface only is of a class that implements that interface and no other, so
`Objects` has a plain object for every declared type, interfaces included.

`RejectsOnlyHopeless` has one exception: `==` tries one direction of the
cast (`typechecker.cc:484`), so `superclass == subclass` is rejected.
`return;` in a method with a result is left out: it passes a null pointer to
`getLink` (`typechecker.cc:841`).

### 2.4 Hierarchy checking, dispatch and startup

A type is a record of its linked declaration; a method is its
`MethodDeclarationObject`, so two are equal only when they are one declaration.
`VisitClass` and `VisitInterface` are the two visitors: all their checks in
order, then the method list. Programs are chosen unit by unit (`LinkUnit`).

`AddMethodsToGraph`, `BeginColour`, `AssignColour`, `AssertColoured` and
`BuildDV` are the functions of `DVBuilder` and the constructor of `DV`. The
vertices come in any order.

Once the vectors are known, `Startup` runs the code the program starts with.
`unit` is the unit whose code runs and `at` how far that is: the vector is
allocated, then each static field is given a value. Creating an object is the
same code wherever it stands, so the objects being created are a stack, `open`,
each with the number of its fields that have a value and the constructors still
to call; `result` is the value of an expression until it is stored, in a field
of the innermost object or in a static field of the unit. `FillVectors` comes
after the last unit, then `main` creates objects and arrays. Memory is a sequence
of blocks of words, with `Garbage` in what `malloc` returns. Facts of the code
that the properties have to spell out:

- the initialisers of static fields run before any vector is filled; an object of
  a later unit's class created there has a null vector for good, hence
  `during >= UnitOf` in `ObjectsDispatch`;
- the initialisers of all fields of a chain run before any constructor, while in
  Java those of a class run after the superclass's constructor: `FieldsAsJava`
  excludes a value that a superclass's constructor stored;
- static fields have a slot in every object too, and their initialisers run again
  for each object, to no effect on the static field;
- the constructors called are those without parameters in `method_list`; that of
  `Object` can be there more than once or not at all, so `ConstructedInOrder`
  leaves it out;
- a class that creates its own objects in the initialiser of a field sends the
  IR builder into endless recursion; `Begin` leaves it out;
- an array takes `4 * size + 8` bytes and nothing tests that this fits in a word;
  `ArraysAsJava` speaks of arrays that fit (`Fits`), the model has the others.

### 2.5 Control flow

The syntax tree is chosen while `createCfg` returns from it, inner statements
first. `calls` is the stack of calls of `visit_child`. An accepted method may
run: `todo` is what is left of it and conditions that are not constant go both
ways. The reference, `Legal`, is the language's definition of reachability
(JLS 14.20), over the syntax tree and not the graph.

A loop's condition is folded first. `ConstantFolding` takes an expression bottom
up, each operand with the folded literal and with the value Java gives it, and
collects what conditions there can be; `ControlFlow` builds loops from
those. Operations on which the two are known to differ are modelled and marked:
their result is not `exact` and the expression is not followed. They are:
results beyond an `int` (folding has 64 bits), casts that cut a number, `char`
literals of the upper half, `null` (a constant to the compiler; the literal
called right is read from the left operand), the order of `char`s, an `int`
beside a `char`, a `String` plus anything else, a minus of a `char`.

### 2.6 IR building

As below, `built` holds the results of `convert` that no caller has used yet,
each with the Java tree it was given. A method has one local of each type
(integer, boolean, object, array), the first of them its parameter; fields and
elements are integers. `LocalVariable`, `OwnField` and `ArrayLength` are the
cases of a qualified name; `For` has its optional parts; the labels and the
temporaries are numbered as `generateName` does.

`Evaluation` runs both trees on terms. Nothing decides a condition beforehand:
both outcomes are followed and remembered, so that a tree has a set of outcomes,
each with the conditions met, the calls and stores made and the variables. Java
is by the rules of the language (JLS 15.7, 15.13, 15.26): operands from left to
right, the checks of an array access after its index. The IR runs as the
interpreter runs it. Two differences remain, and the properties say so:

- the code tests an array for null before the index is computed and for its
  bounds before the right-hand side is, so an exception may come before calls
  that Java would still make (`RaisesNoLater`);
- an object whose field is assigned to is computed after the value (3.3).

A null object is not an error in the code, which has no test for it; it is not
one in the model of Java either.

### 2.7 Canonicalisation and tiling

`lowered` holds the results of `convert` that no caller has used yet; each
action is `convert` on one kind of node, applied to the last results. A tree is
compared with its lowered form by running both as the IR interpreter does: it
leaves the nodes one by one in the order in which `MapsBuilder` numbered them,
children first, with a stack of what they gave (`Interpret`, `Leave`). The order
is kept in the node. Values are terms: a term says how a value was computed and,
for a load or a call, after how many events. Calls, stores, divisions, jumps and
labels are events. Temporaries that nobody wrote hold arbitrary numbers in the
interpreter (`rand`), and terms of their own here. A jump is an event and not a
change of order: both sides are straight lines between labels.

An item of the stack remembers, for the target of a move, the place it was read
from (`stack-item.h`). What a lowered call leaves on the stack nobody pops, here
as in the interpreter; the comparison is of events, temporaries and the top.

Two arguments of a call have different temporaries, and the target of a virtual
call is looked up after its arguments, as Java asks (JLS 15.12.4). The
interpreter looks it up before them, but cannot run a virtual call at all.

`Tiling` goes on from the lowered statements: each is tiled as
`IRToTilesConverter` does, a tile being instructions and tiles of its subtrees,
and `Run` executes the instructions on registers, flags and a stack whose words
are the same terms. `TilesDoTheSame` compares the events and the variables with
those of the statements. The choice by cost is left out: the code offers one
tile for each node.

## 3. Runs

| Run | States | Shows |
|---|---|---|
| `allocation` | 1,209,607 | on every body of five tiles and at most twelve instructions over three temporaries, with either allocator: live temporaries are apart, untouched by real uses and by caller saves, inside the frame, replaced wherever used; the code written reads, along every path, what `TempMachine` reads |
| `hierarchy` | 287,572 | of programs of `Object`, two classes and two interfaces, those accepted can be dispatched |
| `inherited` | violation | a method reached twice is lost from `method_list` |
| `dispatch` | 357,079 | of programs of `Object`, two classes and an interface, for every colouring order: slots apart, vectors right; after startup objects can be called, are constructed in order, and fields and arrays hold what Java says |
| `calls` | violation | a call can read a slot that its implementation does not have |
| `control_flow` | 705,485 | of all methods of up to five statements, the methods accepted are the legal ones; conditions are folded as Java does; no statement's end is linked twice; the walk ends |
| `ir_builder` | 575,341 | the IR of every Java tree of up to six nodes does what Java says, raises exceptions no later, and its jumps fall through to the false label |
| `evaluation_order` | violation | an object whose field is assigned to is computed after the value |
| `canonicalizer` | 432,366 | every tree of up to six nodes keeps its meaning, becomes canonical, and keeps its meaning in the instructions of its tiles |
| `linking` | 976,692 | three units in any order, one linked with up to four imports: clashes are found, names mean what is written, both passes agree |
| `scopes` | 1,770,340 | in every body of five items each name means the variable the language says after all five passes, and no valid body is rejected, the two exceptions of 2.2 apart |
| `type_checker` | 388,519 | in expressions of two operands over a small hierarchy, values have the types given, and what is rejected could not go well |

Each property of a passing run has a mutant in `PROJECT.json`: an operator in
the module that changes a definition as a plausible bug would, with which TLC
finds the property violated. Deadlock checking is off, because a compilation
ends.

### 3.1 Bounds, and why they are enough

- **Bodies of five tiles over three temporaries.** Three registers can be
  allocated (EAX, EBX, EDX), division, multiplication, comparison and calls
  name EAX or EDX, so two named registers are enough to spill two of three
  temporaries; five tiles hold a definition, a loop label, a use, a redefinition
  and the jump back. `MaxInstructions` = 12 leaves out bodies of two divisions,
  `MaxSpilled` = 9 bounds those the brainless allocator gets, which looks at one
  instruction at a time. A tile reads what is written before it; the bodies of one
  tile that do not are there for the error.
- **Two classes, two interfaces.** The rules relate at most a type, a class
  above and an interface; a fourth type lets the superclass and an interface
  share an interface. Methods differ in result, access, staticness, finality
  and abstractness, one property at a time. The declarations that break a rule
  are in it, so rejection happens too.
- **Dispatch**: one interface and fewer methods than in `hierarchy`, since every
  order of colouring is explored. Programs of at most four methods
  (`MaxMethods`) are started, with fields that create an object of an earlier or
  a later class, and `main` creates one object or array (`MaxObjects`). Words
  have six bits: arrays of -1, 0, 2 and 16 elements are refused, empty, ordinary,
  and too large for the number of bytes.
- **Linking**: three units over the packages `p`, `q` and `p.q` and type names
  that include a package's; two imports of each form. Three units are a type, a
  type whose name is a package's prefix, and a third both may be confused with.
- **`Scopes`, `MaxItems` = 5, `MaxUses` = 2**: a block with a declaration and one
  that uses it, and after the block a declaration of either name, the shortest
  body in which outermost and innermost declaration differ where positions are
  compared. `MaxUses` bounds the items that use a name or declare a variable
  without initialiser; the others are braces and declarations initialised by a
  literal. Two uses are one whose look-ups leave keys and one that counts
  them. Two names may be a parameter or a field.
- **`TypeChecker`, `MaxDepth` = 2**: no rule has more than two operands but
  calls, which have their parameter and object. Numbers are three values that
  tell the numeric types apart.
- **Folding**: `byte`, `short`, `int` of 2, 3 and 4 bits, `char` of 2, strings of
  two letters; each operation is met with operands at both ends of its range.
- **`MaxStatements` = 5**: a loop in a block in an alternative, with a
  statement before and after.
- **`IRBuilder`, `MaxNodes` = 6, `MaxDecisions` = 4**: an array element assigned
  a call's result, a loop whose body and update both have effects, a call on the
  result of a call inside a condition. Four decisions are three rounds of a
  simple loop; a run with more is cut off and not compared. Calls have up
  to two arguments, the object included.
- **`Canonicalizer`, `MaxNodes` = 6, `MaxArguments` = 2**: a call of two arguments with a side
  effect in each, or a store with a call on either side, fit with room for an
  enclosing node. Deeper trees lower each child in the same way.

### 3.2 Fairness

`ControlFlow` assumes `WF_methodVars(Walk)`: the compiler runs its visitors to the
end, so a walk that can go on does. It is needed for `WalkEnds` only. Building
the tree and running the method have no fairness: a program may loop. The other
specifications state safety only.

### 3.3 Disagreements with the code

1. **`method_list` can lose an inherited method** (`inherited`,
   `hierarchy-checking/hierarchy-checking.cc:385`). With
   `abstract class B implements I` and `abstract class A extends B implements I`,
   `I`'s method is in the list from the superclass and in the list from the
   interfaces; it is matched against itself and erased. `symboltableentry.h:64` says the list holds "declared and
   inherited methods". `ImplementationListed` shows the weaker fact that does
   hold: an implementation is never the method lost.
2. **A call can read the wrong slot** (`calls`, `IR-builder/dispatch-vector.cc:26`).
   Slots are colours of declarations; nothing ties the colour of an overriding
   method to that of the method it overrides. A call through the static type
   reads the slot of the method found there (`ast-to-ir.cc:780`), where the
   object's vector may have null or another method. The test
   `J1_callbeforereturn` calls `size()` of a `LinkedList` through `List`.

3. **An assignment to a field computes the object last** (`evaluation_order`,
   `IR-builder/ast-to-ir.cc:63`). The value is computed into `assign_src` before
   the address of the place, unless the place is an array element, whose checks
   are taken out of it and put first. In `obj.foo().a = obj.bar()` of the test
   `J1_sideeffects_obj3`, `bar` runs before `foo`.
4. **A valid body can be rejected as a forward reference**
   (`environment-builder/scope.cc:43`, `disambiguation/forward-decl.cc:86`). In
   `{ int w = 1; int x = w; } int x = 2;` the position of `x` is that of the outer
   declaration, 0, and the position of `w` is 2, the two keys of the outer scope
   and none before it; the first is less, and the body is rejected because `x`
   "uses forward declaration of `w`". `RejectsOnlyInvalid` excepts such bodies
   openly, as `DeclaredOutside`; without that exception TLC finds this body.

## 4. Proofs

A proof holds for every value of the constants that meets the assumptions its
module states; TLC evaluates those on the instances it checks. In every component
the property of interest is not inductive, and the proof is about an invariant
that says why it is true. There is a lemma for each action, then the step, then
the temporal theorem. What a recursive definition computes is never taken for
granted: a lemma shows it by descent to a least counterexample
(`WellFoundedInduction` gives one for the natural numbers) and the proofs use
that lemma.

### 4.1 Register allocation (`AllocationProofs`)

For every set of temporaries, every set of bodies and every choice of hash order.
The assumptions: the names of real registers differ (`RegistersDistinct`),
temporaries are finitely many (`TempsFinite`), and of the bodies

- `BodiesAreCode`: they are sequences of instructions that name at most three
  temporaries;
- `BodiesAreTiled`, for the runs: real registers in `ir-tiling.cc` are EAX
  (`REG32_ACCUM`), EDX (`REG32_DATA`) and those of the frame; `cdq` (line 77, 88)
  comes before an `idiv`, which names EDX; a label is an instruction of its own;
- `LoopsNest`, for the runs: the code jumps back only in a `while`
  (`ast-to-ir.cc:1358`) and a `for` (`:1413`), in the loop that fills an array
  (`:1011`), and to the error label of an array access (`:795`). Each is the code
  of one node of the tree, which encloses that of its children.

Of the linear scan:

- `TypeCorrect`: `Spec => []TypeOK`; `Inductive`: `Spec => []IInv`;
- `LocationsApart`: `Spec => []NoSharedLocation`, temporaries live together have
  different locations;
- `NeverClobbered`: `Spec => []NoRealUseInside`;
- `CallsKeepLive`: `Spec => []SavesAreApart`;
- `EveryTempReplaced`: `Spec => []ReplacesEveryTemp`;
- `SlotsInFrame`: `Spec => []FrameCovers`, from `FrameLaidOut`;
- `LoopsCovered`: when `extendToLabels` is over, an interval live at a label
  lasts to every jump back to it;
- `OverlapsWithAnyUse`: `intervalOverlapsWith` holds of exactly the registers
  the body names anywhere, so the allocator never uses a named register. This
  makes `NoRealUseInside` true, at the price of spilling more than necessary.

`NoSharedLocation` is not inductive: a step of the assignment pass takes a
location from a free set, and nothing in the property says what is free.
`IInv` adds that an active interval's location is in no free set
(`ActiveHoldTheirs`), that intervals no longer active end before any still to
come (the reason for taking them in order of start, `TodoLast`), that slots
lie below `nextSlot` (`SlotsBounded`), and that intervals cover their uses
(`UsesCovered`). `FrameInv` says where slots and saves lie in the frame.
`LoopInv` is what makes one pass over the labels enough: a label remembers each
interval live at it (`LabelsKnowLive`) unless a loop around it, or one that is
over, has reached past it; this is where loops have to nest.

Then that the code written implements `TempMachine`, step for step:

- `LinearScanImplements`: `RunSpec => ImplementsTempMachine`;
- `BrainlessImplements`: the same of the brainless allocator's code;
- `GeneratorImplements`: the same of `GeneratorSpec`, whichever was chosen;
- `GeneratorOwnsSlots`: `GeneratorSpec => []OwnSlotInFrame`;
- `RunHolds`, `SpillInductive`, `GeneratorHolds`: their invariants.

The part on the runs begins with what the replacement of one instruction does to the
store: it reads and writes the places of the registers it names and leaves every
other alone but the instruction registers and the slots of the saves. `RunInv`
relates the two machines: while a temporary's interval lasts, its place holds
`env` of it, and so does each real register that `env` has a value for, none of
which is an instruction register. It is kept because live places are apart,
because no instruction names a temporary's register, and, when control jumps
back, because what is live at the label is live at the jump. Of the brainless
allocator, `OffsetsInv` ties `stack_offset` to the number of registers that have
one, and `SpillRunInv` says that a slot holds what the register would.

### 4.2 Hierarchy checking and dispatch (`DispatchProofs`)

For every finite set of types, any declarations of them and any order of units:

- `EveryMethodHasBody`: `HierarchySpec => []NoAbstractObject`, look-up in a class that is
  not abstract finds a body for every method it declares or inherits;
- `ReplacementsAgree`: `HierarchySpec => []ImplementationStandsForAll`;
- `LookupIsListed`: `HierarchySpec => []ImplementationListed`;
- `HierarchyInductive`: `HierarchySpec => []HInv`.

`HInv` says that a type passed breaks no rule and has the method list its
superclass and interfaces gave it. The promises follow from that of all types
together: an offending method met high in the hierarchy was compared, in the
class where two paths meet, with the one that is found. The lemmas are about
`Reached`, which stops after as many steps as there are types: by then it is
closed under `Supers`, and it is the least such set. The assumptions are what the
type linker establishes of clauses (`LinkedAssumption`, `typelinker.cc:199` to
`:249`: a class extends a class and implements interfaces, an interface extends
interfaces), what `Object` is (`ObjectAssumption`), and `ConstructorAssumption`:
no method has the name of a class. The last is a limit of the promise, for
nothing rejects such a method: where the visitor looks for bodies it counts the
constructor as the implementation of an abstract method of its class's name
(`hierarchy-checking.cc:253`).

For every order of the vertices as well:

- `SlotsStayApart`: `DispatchSpec => []SlotsApart`;
- `EveryMethodColoured`: `DispatchSpec => []ColouringSucceeds`, the assertion
  after the colouring never fails;
- `VectorsHoldImplementations`: `DispatchSpec => []DVHoldsImplementation`;
- `FieldsKeepOffsets`: `DispatchSpec => []FieldOffsetsAgree`;
- `DispatchInductive`, `VectorInductive`: the invariants `DInv` and `VectorInv`.

The colouring is greedy and the first vertex takes colour 1 without a look at
its neighbours. `DInv` has what makes that safe: the graph is complete on each
method list before a colour is given (`Cliques`, `GraphFirst`), the lists no
longer change (`ListsFixed`), and edges come in pairs (`Symmetric`), so whichever
of two neighbours is coloured later looks at the other. `VectorInv` adds `HInv`,
that colours are positive and bounded, and that a cached vector is the one the
class would be given now. A method without a neighbour would get no colour; there
is none, since a list always has `Object`'s constructor too.

### 4.3 Startup (`StartupProofs`)

For any accepted program, any fields and values they are declared with, any
constructors, sizes and widths of words:

- `StartupKeepsVectors`: `StartupSpec => []VectorInv`, what 4.2 says of the
  vectors still holds while the code runs;
- `ObjectsFindMethods`: `StartupSpec => []ObjectsDispatch`;
- `ConstructorsInOrder`: `StartupSpec => []ConstructedInOrder`;
- `FieldsHoldJavaValues`: `StartupSpec => []FieldsAsJava`;
- `ArraysHoldJavaValues`: `StartupSpec => []ArraysAsJava`;
- `StartupInductive`: the invariant, `StartupInv`.

The properties speak of objects that are finished and of vectors that are filled;
the invariant says what holds before. Its parts:

- *memory*: every object has a block with a word for its vector and one for each
  field (`Memory`), and vectors, objects and arrays are different blocks
  (`Apart`), so that a store to one leaves the others alone;
- *vectors*: a class has one once its unit's code has run (`Labelled`), with a
  word for every slot, and an object has the vector its class had when it was
  created (`Headers`). `FillVectors` looks a block's class up by its label, and
  the class is the right one because labels are apart. From then on a vector
  holds what the cached one does (`VectorsFull`), and
  `VectorsHoldImplementations` says that these are the implementations;
- *constructors*: those that have run stand in the order of the chain
  (`InOrder`). Each class of the chain has either run or has a call left, and no
  call left is of a class that has run or above one that has (`Remaining`).
  `TopDown` takes the highest, which keeps both, and when no call is left none is
  missing (`Complete`). No constructor runs twice, for a class has at most one
  without parameters (`DefaultsAssumption`);
- *waiting*: the objects being created wait for one another (`Waits`): all but
  the innermost are at a field which is declared with an object, the class of
  the one after it, and the outermost in a unit is what its static field is
  declared with (`UnitWaits`). So what a finished object becomes, the `result`
  (`ResultFits`), is what the next store needs;
- *fields*: a field that has been initialised keeps what it was given until a
  constructor stores in it (`FieldsKept`), and of a unit the static fields
  before `at` have what they are declared with (`StaticsGiven`);
- *arrays*: `ArraysKept` says for each element where its word is.

It assumes, beside what 4.2 does, that no type is declared twice
(`UnitsDistinct`), that constructors have the name of their class and a class that
is extended has one without parameters (`DefaultsAssumption`, from
`typelinker.cc:265` and `typechecker.cc:97`), that `java.util.Arrays` is a class
(`ArraysAssumption`), and that a word has room for an array of no elements and is
a whole number of words long (`LimitAssumption`, true of 2^31).

### 4.4 Packages, imports and names (`LinkingProofs`)

For any units in any order, any imports and names of any length:

- `UnitsRejectedInAnyOrder`: `Spec => []ClashFoundInAnyOrder`;
- `ImportsExist`: `Spec => []TypeOK`;
- `NamesMean`: `Spec => []NamesMeanWhatIsWritten`;
- `NamesReadAlike`: `Spec => []PassesAgree`.

`PackagesInv`: the package objects are exactly the prefixes of the packages of
the types declared, so whether a unit clashes depends on which were declared, not
on when. `LinkInv`: the namespace is what the imports kept so far put there.
`NamesReadAlike` goes along the name, identifier by identifier: what the
classification calls each prefix of it is a recursion (`KindsAlong`), compared
with what the type linker resolves of the same prefix. The assumptions are that names are sequences of identifiers
(`Identifiers`, `ImportsAreNames`, `LookedUpAreNames`) and that the types of
`java.lang` have different names (`LangIsSound`). The exceptions of 2.2 are in
the properties and so in the theorems.

### 4.5 Local variables (`ScopesProofs`)

For bodies of any length and depth, any names, parameters and fields:

- `NamesMeanInnermost`: `Spec => []MeansInnermost`, every name of an accepted
  body was linked to the variable the language says;
- `RejectionsAreRight`: `Spec => []RejectsOnlyInvalid`, what is rejected is
  invalid, but for the two exceptions of 2.2;
- `ScopesType`: `Spec => []TypeOK`;
- `ScopesHold`: the invariant, `ScopesInv`.

A pass is a recursion over the body (`Run`), and what it does is shown by
induction along the items, once for each of the four passes after the
environment builder (`RunRight`). `Nest` says which scopes are open after each
item, from the items alone. `ScopesInv` says that the body closes only blocks it
opened (`WellNested`), that each scope holds the declarations of its own block
in order, each under a key (`Tables`), that a declaration's key is in every scope
open there, since `addVariable` looked for it in all (`Complete`), and that no
variable is declared where another of its name can be seen (`Distinct`).

The passes look names up in tables that also hold declarations further down, so a
look-up may find a variable not declared yet. That the type checker still links
the right one is because at most one declaration of a name, earlier or later,
lies at or below the depth at which the one in sight was declared
(`OnlyOneDeeper`): a look-up from inside out meets it first. The check of forward
references compares positions that sum the *keys* of the enclosing scopes, which
grow with every look-up, and count *symbols* in the last, which is the outermost
that holds the name. The walk for a position adds no key where the name is found,
every scope on the way having it (`PositionedSame`), so both positions are of the
same tables. A scope never has fewer keys than symbols, so they are in the order of
the items wherever the outermost declaration of the later name is not outside the
block of the earlier (`PositionsInOrder`); that is what `DeclaredOutside` excepts
(`NotOutside`). The language's rules, which are stated by levels of nesting,
and the scopes open are shown to agree in `InScopeIsOpen`. The only assumption is
that the mark for "no name" is no name (`NoneAssumption`).

### 4.6 Control flow and folding (`ControlFlowProofs`)

For any number of statements, however nested, and integers of any widths:

- `AcceptsExactlyLegal`: `Spec => []AgreesWithLanguage`, a method is accepted
  exactly if the rules of the language allow it;
- `RunsEndInReturn`: `Spec => []NeverFallsOff`;
- `EdgesLinkedOnce`: `Spec => LinkedOnce`, an action property;
- `FoldsSound`: `Spec => []FoldsAsJava`;
- `MethodInductive`: the invariant, `MethodInv`.

The graph is made by pointers that one `createCfg` hands out and another sets, so
the graph by itself says nothing of the statements. `GraphInv` accounts for every
edge by the one statement that made it (`Wired`, `EdgeOf`) and for every node
without a successor as the end of a statement still open; `LinkedOnce` follows.
`WalkInv` has the two halves of the check: a node in `visited` has a reason, an
edge from another such node (`Justified`), and where a visited node leads is
visited or still to be (`Closed`). From the first, by induction from the innermost
statements out, the end of a statement is visited only if the language says that
it can complete; from the second, outermost in, whatever the language calls
reachable is visited. `CanComplete` is a recursion over the statements;
`CompletesExists` shows that it means what it says. `RunInv` says that among what
a run of a method with a result has left to do there is always a statement that
cannot complete, so the run does not come to the end of the body.

The folding is sound because a literal that is `exact` fits the width of its type
and is Java's value (`Sound`), and each operation on such literals gives such a
literal. `WidthsAssumption` is what that takes of the widths: Java's grow from
`byte` to `int`, and sums and products of two C++ `char`s fit in an `int`, as they
do with 8 and 32 bits.

### 4.7 The type checker (`TypeCheckerProofs`)

For every hierarchy, set of members and depth, from `HierarchyAssumption` and
`ClausesAssumption` (what the grammar and hierarchy checking establish of the
declared types: no cycles, a class extends one class and implements interfaces,
an interface extends interfaces, nothing extends a final class) and
`MembersAssumption` (members are declared in the type or above it, or in
`Object`, and have types there are):

- `TypesAreSound`: `Spec => []ValuesFit`, until an unchecked step a value has the
  type its expression was given and the one it was stored under;
- `OperandsStayGood`: the inductive invariant. `ValuesFit` is not inductive: an
  assignment compares with the type of the operand stored to, while what is stored
  must fit its `place`. `Good` adds that the two are the same for everything that
  can be assigned to, but for elements of reference arrays, which are
  `StoreUnchecked`;
- `RefusalsAreRight`: `Spec => []RejectsOnlyHopeless`, what is refused could not
  go well. Of an assignment this asks for a value of the expression's type that
  does not fit, and the type's own object is one (`Unassignable`). Of a cast,
  `instanceof` or `==` it asks that no object be of both types. The classes above
  a class form a chain, so two classes with a common object are one above the
  other (`NoCommonObject`), and a final class has nothing below it (`Uncastable`).
  `Good` has a part for this theorem: no variable has the type of `null`.

The lemmas are about the rules: what may be assigned to a type fits it
(`AssignableFits`), values of a subtype fit the supertype (`SubTypeFits`), a
member's value fits the member's type for every object it may be read from
(`MemberFits`); then there is one lemma per group of actions. `Above` is defined
as the least closed set, so that the search of `isSubType` needs no induction.

### 4.8 Canonicalisation (`CanonicalizerProofs`)

For bodies of any size and calls with any number of arguments:

- `LoweringKeepsMeaning`: `Spec => []SameMeaning`;
- `LoweringIsCanonical`: `Spec => []Canonical`;
- `GeneratedTempsAreSetOnce`: `Spec => []GeneratedTempsSetOnce`;
- `ResultsAreSound`: the invariant, `AllSound`.

`SameMeaning` compares two runs from `Start`, and what is compared is put into
larger trees later, where it starts from whatever came before. `Lowers` is what
survives that: from *any* two states that agree on the events and the program's
temporary, the tree and the list end in two states that agree again; the list
writes no temporary that is generated later, and its expression, which is read
after it, gives the tree's value whatever is on the stack (`Gives`). Static fields
and memory need no condition of their own: a term for a load has the number of
events in it, so states that agree on the events load the same.

There is one lemma per kind of node (`BinOpLowers`, `ESeqLowers`,
`MoveToMemLowers`, `CallLowers`, ...). `BinOpLowers` and `MoveToMemLowers` are
where the saved side matters: the temporary it is saved in is above all those the
other side writes. The arguments of a call are taken one at a time
(`ArgumentsPassed`): after each, the temporaries of those before still hold the
values the tree's run has on its stack. `Plain` carries what `ConvertExp` needs,
which drops the expression of a statement: it is then one that does nothing.

The other two properties are about the form of the list, so their part of the
invariant is about names. `Tidy` says that expressions are pure and that each
generated temporary is written by one statement, before it is read. Two lists
are put one after the other all the time, which keeps this only because no
generated temporary belongs to two results (`Apart`).

No assumption is made. TLC checks the three properties on the run;
`Lowers` speaks of all states and is not for TLC.

### 4.9 Model-checked only

- `WalkEnds`: it is a liveness property and needs fairness, which the provers
  cannot reason about.
- `SameAsJava`, `RaisesNoLater` and `JumpsFallThrough` of `IRBuilder`, and
  `TilesDoTheSame` of `Tiling`: `Evaluation` runs a Java program by RECURSIVE
  operators, for a loop has no order to leave its nodes in, and `Tiling` chooses
  the tile of a tree by one. The provers cannot reason about those.

## 5. Not modelled, and why

- **Parsing, graph output, formatting**: a grammar and text. The fuzzer's
  protocol-buffer sources are generated.
- **IR of string literals, casts, `instanceof` and names of three parts**: small
  cases whose faults are local to one line. Found while reading: a string
  literal's characters are stored a word below where they are read
  (`ast-to-ir.cc:470`), its cast to a superclass changes the vector of the one object (`:318`), `instanceof` is
  decided by the static class alone (`:1224`), a name with a field as prefix
  reads a temporary nobody writes (`:1189`), and a `for` without condition fails
  an assertion (`:1396`).
- **`this` in a field's initialiser**, which is the creator's `this` because
  the initialiser is compiled in where the object is created.
- **Constructors' returns and the search for a superclass constructor** in the
  type checker (`typechecker.cc:97` to `:114`), and the order of field
  initialisers in disambiguation.
- **Weeder**: checks of single nodes.
- **Undefined behaviour**: `hierarchy-checking.cc:253` reads the front of a
  queue it has popped. The object outlives the queue's element, and the model
  reads what was there.
- **Several compilations in one process** (the fuzzer): static tables are keyed
  by addresses (`reachability.cc:11`, `dispatch-vector.h:47`) that a later
  compilation may use again. One compilation is modelled.
- **Return codes**: which exception ends a compilation is kept, the number is not.
- **The interpreter's call stack and heap**: a testing aid.
- **Run-time library and class library**: external; what calls may do to
  registers is in `TempMachine`.

## 6. Plan

1. Register allocation, with both allocators as implementations of one abstract
   machine. *Done*, and proved.
2. Hierarchy checking, dispatch vectors and startup. *Done*, and proved.
3. Control flow, reachability and constant folding. *Done*, and proved but for
   `WalkEnds`.
4. Canonicalisation and tiling. *Done*; canonicalisation is proved.
5. IR building. *Done* for assignments, operators, accesses, calls, statements,
   methods, objects and arrays. To come: casts, `instanceof`, names of three
   parts and string literals, see 5.
6. Packages, type linking, disambiguation. *Done*, and proved.
7. Scopes. *Done*, and proved.
8. Type checking. *Done*, and proved. To come: the constructor rules.
