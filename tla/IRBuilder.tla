------------------------------ MODULE IRBuilder ------------------------------
(****************************************************************************)
(* From Java to the IR (IRBuilderVisitor, ast-to-ir.cc): convert is called   *)
(* on the parts of an expression or statement and puts their trees together, *)
(* with temporaries and labels it names itself.  The calls that have         *)
(* returned and that no other has used yet are in built, each with the Java  *)
(* tree it was given.  What either tree computes is in Evaluation.           *)
(*                                                                          *)
(* A method has a local of each type, the first of them its parameter;       *)
(* fields and elements are integers.  A name that needs no tree of its own   *)
(* (a method, a field, an operator) is left out.                             *)
(****************************************************************************)
EXTENDS Evaluation

CONSTANT MaxNodes         \* bound on the nodes of a Java tree

VARIABLES built,          \* the results of convert not used yet, in order
          made,           \* how many calls have returned
          num_temps,      \* TempIR::generateName's counter, after the locals
          num_labels      \* LabelIR::generateName's counter

vars == <<built, made, num_temps, num_labels>>

LocalOf == [int |-> 3, boolean |-> 4, object |-> 5, array |-> 6]
Types == DOMAIN LocalOf
LastLocal == 6
New(k) == num_temps + k
NewLabel(k) == num_labels + k

Init == built = <<>> /\ made = 0 /\ num_temps = LastLocal /\ num_labels = 0

----------------------------------------------------------------------------
(* One call of convert: the last k results become one.                      *)
Part(k, i) == built[Len(built) - k + i]
Parts(k) == [i \in 1..k |-> Part(k, i)]
JavaOf(parts) == [i \in DOMAIN parts |-> parts[i].java]
IROf(parts) == [i \in DOMAIN parts |-> parts[i].ir]

Are(types) == /\ Len(built) >= Len(types)
              /\ \A i \in DOMAIN types : Part(Len(types), i).type = types[i]

\* No node has more than four parts, so what waits can still become one tree.
Build(k, type, java, ir, temps, labels) ==
    /\ made < MaxNodes /\ Len(built) - k <= 3 * (MaxNodes - made - 1)
    /\ built' = Append(SubSeq(built, 1, Len(built) - k), [type |-> type, java |-> java, ir |-> ir])
    /\ made' = made + 1
    /\ num_temps' = num_temps + temps
    /\ num_labels' = num_labels + labels

----------------------------------------------------------------------------
(* Expressions.                                                             *)
QualifiedThis == Build(0, "object", Node("local", This, <<>>), Temp(This), 0, 0)

LocalVariable(type) ==
    Build(0, type, Node("local", LocalOf[type], <<>>), Temp(LocalOf[type]), 0, 0)

OwnField == Build(0, "int", Node("own", 0, <<>>), Mem(FieldOf(Temp(This))), 0, 0)

FieldAccess ==
    /\ Are(<<"object">>)
    /\ LET object == Part(1, 1)
       IN  Build(1, "int", Node("access", 0, <<object.java>>), Mem(FieldOf(object.ir)), 0, 0)

\* Null is an error.
NullGoesOn(array, from, error, nonnull) ==
    <<Move(array, from), CJump(NotNull(array), error, nonnull), Label(nonnull), Exp(Exception), Label(error)>>

CheckedForNull(array, from, error, nonnull) ==
    <<Move(array, from), CJump(NotNull(array), nonnull, error), Label(error), Exp(Exception), Label(nonnull)>>

ArrayLength ==
    /\ Are(<<"array">>)
    /\ LET array == Temp(New(1))
       IN  Build(1, "int", Node("size", 0, <<Part(1, 1).java>>),
                 ESeq(CheckedForNull(array, Part(1, 1).ir, NewLabel(1), NewLabel(2)), LengthOf(array)),
                 1, 2)

ArrayAccess ==
    /\ Are(<<"array", "int">>)
    /\ LET array == Temp(New(1))
           selector == Temp(New(2))
           error == NewLabel(1)
           inbound == NewLabel(3)
       IN  Build(2, "int", Node("index", 0, JavaOf(Parts(2))),
                 ESeq(CheckedForNull(array, Part(2, 1).ir, error, NewLabel(2))
                        \o <<Move(selector, Part(2, 2).ir), CJump(Outside(selector, array), error, inbound),
                             Label(inbound)>>,
                      Mem(ElementOf(array, selector))),
                 2, 3)

\* What is assigned to must be a place: what comes before it is done first.
Before(target) == IF target.op = "eseq" THEN target.children[1].children ELSE <<>>
Place(target) == IF target.op = "eseq" THEN target.children[2] ELSE target

AssignableTo(target, source) ==
    /\ target.java.op \in {"local", "own", "access", "index"} /\ target.ir # Temp(This)
    /\ target.type = source.type

\* The value is saved before the address of the place is computed.
Assignment ==
    /\ Len(built) >= 2 /\ AssignableTo(Part(2, 1), Part(2, 2))
    /\ LET target == Part(2, 1).ir
           saved == Temp(New(1))
       IN  Build(2, Part(2, 1).type, Node("assign", 0, JavaOf(Parts(2))),
                 ESeq(Before(target) \o <<Move(saved, Part(2, 2).ir), Move(Place(target), saved)>>, saved),
                 1, 0)

\* The second operand is computed if the first does not decide.
TargetsSwapped(op, temp, first, second, true, false) ==
    IF op = "and"
    THEN <<Move(temp, first), CJump(temp, true, false), Label(true), Move(temp, second), Label(false)>>
    ELSE <<Move(temp, first), CJump(temp, true, false), Label(false), Move(temp, second), Label(true)>>

ShortCircuit(op, temp, first, second, true, false) ==
    IF op = "and"
    THEN <<Move(temp, first), CJump(Not(temp), false, true), Label(true), Move(temp, second), Label(false)>>
    ELSE <<Move(temp, first), CJump(temp, true, false), Label(false), Move(temp, second), Label(true)>>

BooleanInfix(op) ==
    /\ Are(<<"boolean", "boolean">>)
    /\ LET temp == Temp(New(1))
       IN  Build(2, "boolean", Node(op, 0, JavaOf(Parts(2))),
                 ESeq(ShortCircuit(op, temp, Part(2, 1).ir, Part(2, 2).ir, NewLabel(1), NewLabel(2)), temp),
                 1, 2)

Infix(op) ==
    /\ Are(<<"int", "int">>)
    /\ Build(2, IF op = "less" THEN "boolean" ELSE "int",
             Node(op, 0, JavaOf(Parts(2))), Node(op, 0, IROf(Parts(2))), 0, 0)

Negation ==
    /\ Are(<<"boolean">>)
    /\ Build(1, "boolean", Node("not", 0, <<Part(1, 1).java>>), Not(Part(1, 1).ir), 0, 0)

\* Calls, of integer arguments.
StaticCall(k, type) ==
    /\ Are([i \in 1..k |-> "int"])
    /\ Build(k, type, Node("call", 0, JavaOf(Parts(k))), Node("call", 0, IROf(Parts(k))), 0, 0)

\* The method is found in the dispatch vector of the object.
CallOn(object, arguments) ==
    Node("virtual", 0, <<Mem(Node("slot", 0, <<Mem(object)>>)), object>> \o arguments)

OwnCall(k, type) ==
    /\ Are([i \in 1..k |-> "int"])
    /\ Build(k, type, Node("invoke", 0, <<Node("local", This, <<>>)>> \o JavaOf(Parts(k))),
             CallOn(Temp(This), IROf(Parts(k))), 0, 0)

InstanceCall(k, type) ==
    /\ Are(<<"object">> \o [i \in 1..k |-> "int"])
    /\ LET object == Temp(New(1))
       IN  Build(k + 1, type, Node("invoke", 0, JavaOf(Parts(k + 1))),
                 ESeq(<<Move(object, Part(k + 1, 1).ir)>>, CallOn(object, Tail(IROf(Parts(k + 1))))),
                 1, 0)

----------------------------------------------------------------------------
(* Statements.                                                              *)
ExpressionStatement ==
    /\ built # <<>> /\ Part(1, 1).type \in Types /\ Part(1, 1).java.op \in {"assign", "call", "invoke"}
    /\ Build(1, "statement", Exp(Part(1, 1).java), Exp(Part(1, 1).ir), 0, 0)

ReturnStatement ==
    /\ built # <<>> /\ Part(1, 1).type \in Types
    /\ Build(1, "statement", Return(Part(1, 1).java), Return(Part(1, 1).ir), 0, 0)

LocalVariableDeclaration ==
    /\ built # <<>> /\ Part(1, 1).type \in Types
    /\ LET local == LocalOf[Part(1, 1).type]
       IN  Build(1, "statement", Node("declare", 0, <<Node("local", local, <<>>), Part(1, 1).java>>),
                 Move(Temp(local), Part(1, 1).ir), 0, 0)

Block(k) ==
    /\ Are([i \in 1..k |-> "statement"])
    /\ Build(k, "statement", Node("block", 0, JavaOf(Parts(k))), Sequence(IROf(Parts(k))), 0, 0)

IfThen ==
    /\ Are(<<"boolean", "statement">>)
    /\ LET true == NewLabel(1)
           exit == NewLabel(2)
       IN  Build(2, "statement", Node("if", 0, JavaOf(Parts(2))),
                 Sequence(<<CJump(Not(Part(2, 1).ir), exit, true), Label(true), Part(2, 2).ir, Label(exit)>>),
                 0, 2)

IfThenElse ==
    /\ Are(<<"boolean", "statement", "statement">>)
    /\ LET true == NewLabel(1)
           false == NewLabel(2)
           exit == NewLabel(3)
       IN  Build(3, "statement", Node("if", 0, JavaOf(Parts(3))),
                 Sequence(<<CJump(Not(Part(3, 1).ir), false, true), Label(true), Part(3, 2).ir, Jump(exit),
                            Label(false), Part(3, 3).ir, Label(exit)>>),
                 0, 3)

\* What a while and a for loop have in common.
Loop(condition, body) ==
    LET start == NewLabel(1)
        true == NewLabel(2)
        exit == NewLabel(3)
    IN  <<Label(start), CJump(Not(condition), exit, true), Label(true)>> \o body
          \o <<Jump(start), Label(exit)>>

While ==
    /\ Are(<<"boolean", "statement">>)
    /\ Build(2, "statement", Node("while", 0, JavaOf(Parts(2))),
             Sequence(Loop(Part(2, 1).ir, <<Part(2, 2).ir>>)), 0, 3)

\* A for statement may leave out what it does first and what it does after
\* its body.
If(present, list) == IF present THEN list ELSE <<>>
ForParts(init, update) ==
    If(init, <<"statement">>) \o <<"boolean">> \o If(update, <<"statement">>) \o <<"statement">>
UpdateFirst(body, update) == update \o body
ThenUpdate(body, update) == body \o update
JavaFor(init, condition, update, body) ==
    Node("for", 0, <<Node("block", 0, init), condition, Node("block", 0, update), body>>)

For(init, update) ==
    LET k == Len(ForParts(init, update))
        first == If(init, <<Part(k, 1)>>)
        after == If(update, <<Part(k, k - 1)>>)
        condition == Part(k, Len(first) + 1)
    IN  /\ Are(ForParts(init, update))
        /\ Build(k, "statement", JavaFor(JavaOf(first), condition.java, JavaOf(after), Part(k, k).java),
                 Sequence(IROf(first) \o Loop(condition.ir, ThenUpdate(<<Part(k, k).ir>>, IROf(after)))), 0, 3)

Method ==
    /\ Len(built) = 1 /\ Part(1, 1).java.op = "block"
    /\ LET parameter == LocalOf["int"]
       IN  Build(1, "method", Node("method", parameter, <<Part(1, 1).java>>),
                 Sequence(<<Move(Temp(This), Temp(Arg[1])), Move(Temp(parameter), Temp(Arg[2]))>>
                            \o Part(1, 1).ir.children \o <<Return(Const)>>),
                 0, 0)

Next ==
    \/ QualifiedThis \/ OwnField \/ FieldAccess \/ ArrayLength \/ ArrayAccess \/ Assignment
    \/ Negation \/ \E op \in {"add", "less"} : Infix(op)
    \/ \E op \in {"and", "or"} : BooleanInfix(op)
    \/ \E type \in Types : LocalVariable(type) \/ StaticCall(0, type)
    \/ StaticCall(1, "boolean") \/ StaticCall(2, "int")
    \/ \E k \in 0..1 : OwnCall(k, "int") \/ InstanceCall(k, "object")
    \/ ExpressionStatement \/ ReturnStatement \/ LocalVariableDeclaration
    \/ \E k \in 0..2 : Block(k)
    \/ IfThen \/ IfThenElse \/ While \/ Method
    \/ \E init, update \in BOOLEAN : For(init, update)

Spec == Init /\ [][Next]_vars

----------------------------------------------------------------------------
(* Properties, of a whole tree: every part of one is a whole tree elsewhere. *)
Whole == Len(built) = 1
Tree == built[1]

\* What can be seen of an outcome: the conditions met, the calls and stores,
\* the variables, and the value of an expression.
Seen(o) == [known |-> o.state.known, events |-> o.state.events, over |-> o.state.over,
            locals |-> [n \in {This} \cup {LocalOf[t] : t \in Types} |-> o.state.temps[n]],
            value |-> IF Tree.type \in Types THEN o.value ELSE None]

Outcomes(e) == Eval(e, Start(0..num_temps))
Completed(outcomes) == {Seen(o) : o \in {x \in outcomes : x.state.over \in {"no", "returned"}}}
Raised(outcomes) == {o.state : o \in {x \in outcomes : x.state.over = "exception"}}

\* An assignment to a field of an object other than "this".
ReachesIntoObject(java) == \E n \in Nodes(java) : n.op = "assign" /\ n.children[1].op = "access"

\* The IR of an expression or statement does what Java says: in each run that
\* raises no exception it makes the same calls and stores in the same order and
\* leaves the same values.  (An assignment to a field of an object is left to
\* CompletesAsJava.)
SameAsJava ==
    (Whole /\ ~ReachesIntoObject(Tree.java)) =>
        Completed(Outcomes(Tree.ir)) = Completed(Outcomes(Tree.java))

\* The same of every tree, as src/tests/programs/a6/marmoset/valid/J1_sideeffects_obj3.java:17
\* expects it.
CompletesAsJava ==
    Whole => Completed(Outcomes(Tree.ir)) = Completed(Outcomes(Tree.java))

Agree(s, t) == \A k \in s.known : <<k[1], ~k[2]>> \notin t.known

\* The IR raises an exception exactly where Java does, or earlier: nothing is
\* called or stored before it that Java would not have done.  (The code tests
\* an array for null before the index is computed, and the index against the
\* bounds before the right-hand side is.)
RaisesNoLater ==
    (Whole /\ ~ReachesIntoObject(Tree.java)) =>
        LET ir == Raised(Outcomes(Tree.ir))
            java == Outcomes(Tree.java)
        IN  /\ \A s \in ir : \E o \in java :
                   /\ o.state.over \in {"exception", "cut"} /\ Agree(s, o.state)
                   /\ IsPrefix(s.events, o.state.events)
            /\ \A t \in Raised(java) : \E s \in ir : Agree(s, t) /\ IsPrefix(s.events, t.events)

\* The labels a tree defines, in order.
RECURSIVE Defined(_)
Defined(e) == IF e.op = "label" THEN <<e.name>>
              ELSE IF e.op \in {"jump", "cjump"} THEN <<>>
              ELSE FlattenSeq([i \in DOMAIN e.children |-> Defined(e.children[i])])

\* A jump leads to a label of its own sequence, defined once in the tree, and
\* the false label of a conditional jump comes right after it, for tiling
\* makes no jump to it (check-canonical.cc).
JumpsFallThrough ==
    Whole =>
        /\ IsInjective(Defined(Tree.ir))
        /\ \A n \in {x \in Nodes(Tree.ir) : x.op = "seq"} : \A i \in DOMAIN n.children :
               LET at == n.children[i]
                   targets == {t \in ToSet(at.children) : t.op = "label"}
               IN  /\ at.op \in {"jump", "cjump"} => targets \subseteq ToSet(n.children)
                   /\ at.op = "cjump" => i < Len(n.children) /\ n.children[i + 1] = at.children[3]
=============================================================================
