---------------------------- MODULE Canonicalizer ----------------------------
(****************************************************************************)
(* Canonicalisation (ir-canonicalizer.cc): a tree of the IR becomes a list   *)
(* of statements whose expressions have no side effect.  convert is called   *)
(* on a node after its children; each call that has returned and that no     *)
(* other has used yet is in lowered, with the tree it was given.             *)
(*                                                                          *)
(* The meaning of a tree is what the interpreter of the IR computes          *)
(* (simulation.cc), which leaves the nodes one by one, children first, over  *)
(* terms instead of numbers: a term records what it was computed from and,   *)
(* for what a call or a store may change, when.  Division may end the        *)
(* program, so it counts among the events.  Labels and jumps are events too: *)
(* canonicalisation must not move anything over them.                        *)
(****************************************************************************)
EXTENDS Naturals, Sequences, SequencesExt

CONSTANTS MaxNodes,       \* bound on the nodes of a function body
          MaxArguments    \* bound on the arguments of a call

VARIABLES lowered,        \* the results of convert not used yet, in order
          made,           \* how many nodes have been converted
          num_temps       \* TempIR::generateName's counter

vars == <<lowered, made, num_temps>>

Ret == 0                  \* CGConstants::ABSTRACT_RET
Local == 1                \* a temporary of the program; those above are generated
Static == 2               \* a static field, a temporary that is global

----------------------------------------------------------------------------
(* The IR.  A node keeps its subtrees and, for the interpreter, the nodes of *)
(* its tree in the order in which they are left (MapsBuilder).  Of a call    *)
(* through a vector the target comes last, see the README.                   *)
Step(op, name, arity) == [op |-> op, name |-> name, arity |-> arity]
Postorder(list) == FlattenSeq([i \in DOMAIN list |-> list[i].order])
Visited(op, children) ==
    IF op = "virtual" THEN Append(Tail(children), Head(children)) ELSE children
Node(op, name, children) ==
    [op |-> op, name |-> name, children |-> children,
     order |-> Append(Postorder(Visited(op, children)), Step(op, name, Len(children)))]

Temp(name) == Node("temp", name, <<>>)
Global(name) == Node("global", name, <<>>)
BinOp(op, left, right) == Node(op, 0, <<left, right>>)
Mem(address) == Node("mem", 0, <<address>>)
Move(target, source) == Node("move", 0, <<target, source>>)
Nothing == Node("none", 0, <<>>)

Comparisons == {"eq", "neq", "lt", "gt", "leq", "geq"}
Dividing == {"div", "mod"}
Operators == {"add", "sub", "mul", "and", "or"} \cup Comparisons \cup Dividing
Pure == {"temp", "global", "mem"} \cup Operators

----------------------------------------------------------------------------
(* Lowering: what convert returns for a node, from the results of its        *)
(* children, which are the last of lowered.                                 *)
Init == lowered = <<>> /\ made = 0 /\ num_temps = Static

Children(k) == SubSeq(lowered, Len(lowered) - k + 1, Len(lowered))
Trees(k) == [i \in 1..k |-> Children(k)[i].tree]
IsExpression(r) == r.expression # Nothing

Convert(k, tree, statements, expression, generated) ==
    /\ made < MaxNodes
    /\ lowered' = Append(SubSeq(lowered, 1, Len(lowered) - k),
                         [tree |-> tree, statements |-> statements, expression |-> expression])
    /\ made' = made + 1
    /\ num_temps' = num_temps + generated

\* The last k results are of expressions.
Expressions(k) == k <= Len(lowered) /\ \A i \in 1..k : IsExpression(Children(k)[i])

ConvertLeaf(e) == Convert(0, e, <<>>, e, 0)

LeftNotSaved(op) ==
    /\ Expressions(2)
    /\ LET left == Children(2)[1]
           right == Children(2)[2]
       IN  Convert(2, BinOp(op, left.tree, right.tree), left.statements \o right.statements,
                   BinOp(op, left.expression, right.expression), 0)

\* The left side is saved, for the right side's side effects may change it.
ConvertBinOp(op) ==
    /\ Expressions(2)
    /\ LET left == Children(2)[1]
           right == Children(2)[2]
           saved == Temp(num_temps + 1)
       IN  Convert(2, BinOp(op, left.tree, right.tree),
                   left.statements \o <<Move(saved, left.expression)>> \o right.statements,
                   BinOp(op, saved, right.expression), 1)

AddressNotLowered ==
    /\ Expressions(1)
    /\ LET address == Children(1)[1]
       IN  Convert(1, Mem(address.tree), <<>>, Mem(address.tree), 0)

ConvertMem ==
    /\ Expressions(1)
    /\ LET address == Children(1)[1]
       IN  Convert(1, Mem(address.tree), address.statements, Mem(address.expression), 0)

\* Each argument is computed into a temporary of its own, then the target.
Arguments(k) == [i \in 1..k |-> Temp(num_temps + i)]
IntoTemporaries(results) ==
    FlattenSeq([i \in DOMAIN results |->
        results[i].statements \o <<Move(Temp(num_temps + i), results[i].expression)>>])

SameTemporaries(k) ==
    /\ Expressions(k)
    /\ Convert(k, Node("call", 0, Trees(k)),
               IntoTemporaries(Children(k)) \o <<Node("call", 0, Arguments(k))>>, Temp(Ret), 0)

ConvertCall(k) ==
    /\ Expressions(k)
    /\ Convert(k, Node("call", 0, Trees(k)),
               IntoTemporaries(Children(k)) \o <<Node("call", 0, Arguments(k))>>, Temp(Ret), k)

ConvertVirtualCall(k) ==
    /\ Expressions(k + 1)
    /\ LET target == Children(k + 1)[1]
       IN  Convert(k + 1, Node("virtual", 0, Trees(k + 1)),
                   IntoTemporaries(Children(k)) \o target.statements
                     \o <<Node("virtual", 0, <<target.expression>> \o Arguments(k))>>,
                   Temp(Ret), k)

ConvertESeq ==
    /\ Len(lowered) >= 2 /\ Expressions(1) /\ ~IsExpression(Children(2)[1])
    /\ Convert(2, Node("eseq", 0, Trees(2)),
               Children(2)[1].statements \o Children(2)[2].statements,
               Children(2)[2].expression, 0)

ConvertMoveToTemp(target) ==
    /\ Expressions(1)
    /\ LET source == Children(1)[1]
       IN  Convert(1, Move(target, source.tree),
                   source.statements \o <<Move(target, source.expression)>>, Nothing, 0)

\* The address is saved, for the source's side effects may change it.
ConvertMoveToMem ==
    /\ Expressions(2)
    /\ LET address == Children(2)[1]
           source == Children(2)[2]
           saved == Temp(num_temps + 1)
       IN  Convert(2, Move(Mem(address.tree), source.tree),
                   address.statements \o <<Move(saved, address.expression)>> \o source.statements
                     \o <<Move(Mem(saved), source.expression)>>, Nothing, 1)

\* Statements are made of calls, perhaps after the receiver is saved, and of
\* assignments and creations, whose value is in a temporary.
Discardable(e) == LET value == IF e.op = "eseq" THEN e.children[2] ELSE e
                  IN  \/ value.op \in {"call", "virtual"}
                      \/ e.op = "eseq" /\ value.op = "temp"

ConvertExp ==
    /\ Expressions(1) /\ Discardable(Children(1)[1].tree)
    /\ Convert(1, Node("exp", 0, Trees(1)), Children(1)[1].statements, Nothing, 0)

\* A conditional jump or a return.
ConvertJump(op) ==
    /\ Expressions(1)
    /\ Convert(1, Node(op, 0, Trees(1)),
               Children(1)[1].statements \o <<Node(op, 0, <<Children(1)[1].expression>>)>>,
               Nothing, 0)

ConvertLabel == Convert(0, Node("label", 0, <<>>), <<Node("label", 0, <<>>)>>, Nothing, 0)

ConvertSeq(k) ==
    /\ k <= Len(lowered) /\ \A i \in 1..k : ~IsExpression(Children(k)[i])
    /\ Convert(k, Node("seq", 0, Trees(k)),
               FlattenSeq([i \in 1..k |-> Children(k)[i].statements]), Nothing, 0)

Next == \/ \E e \in {Temp(Local), Global(Static)} : ConvertLeaf(e) \/ ConvertMoveToTemp(e)
        \/ \E op \in {"add", "div"} : ConvertBinOp(op)
        \/ ConvertMem
        \/ \E k \in 0..MaxArguments : ConvertCall(k) \/ ConvertVirtualCall(k)
        \/ ConvertESeq \/ ConvertMoveToMem \/ ConvertExp
        \/ \E op \in {"cjump", "return"} : ConvertJump(op)
        \/ ConvertLabel
        \/ \E k \in 2..Len(lowered) : ConvertSeq(k)

Spec == Init /\ [][Next]_vars

----------------------------------------------------------------------------
(* The meaning of the IR, before and after.  An item of the interpreter's    *)
(* stack has a value and, for the target of a move, the place it is from.    *)
Term(op, name, of, at) == [op |-> op, name |-> name, of |-> of, at |-> at]
Item(kind, value, place) == [kind |-> kind, value |-> value, place |-> place]
Computed(value) == Item("computed", value, value)

Start == [temps |-> [name \in 0..num_temps |-> Term("initially", name, <<>>, 0)],
          events |-> <<>>, stack |-> <<>>]

Event(op, of, s) == [s EXCEPT !.events = Append(@, Term(op, 0, of, 0))]
Push(item, s) == [s EXCEPT !.stack = Append(@, item)]
Pop(k, s) == [s EXCEPT !.stack = SubSeq(@, 1, Len(@) - k)]
Popped(k, s) == [i \in 1..k |-> s.stack[Len(s.stack) - k + i].value]
Returned(s) == Term("returned", 0, <<>>, Len(s.events))

LeaveCall(of, s) ==
    LET after == Event("call", of, s)
    IN  Push(Computed(Returned(after)), [after EXCEPT !.temps[Ret] = Returned(after)])

Assign(target, value, s) ==
    CASE target.kind = "temp" -> [s EXCEPT !.temps[target.place] = value]
      [] target.kind = "mem" -> Event("store", <<target.place, value>>, s)
      [] target.kind = "global" -> Event("set", <<value>>, s)

\* Simulator::leave
Leave(step, s) ==
    LET of == Popped(step.arity, s)
        rest == Pop(step.arity, s)
        now == Len(s.events)
    IN  CASE step.op = "temp" -> Push(Item("temp", s.temps[step.name], step.name), rest)
          [] step.op = "global" ->
               Push(Item("global", Term("global", step.name, <<>>, now), step.name), rest)
          [] step.op = "mem" -> Push(Item("mem", Term("mem", 0, of, now), of[1]), rest)
          [] step.op \in Operators ->
               Push(Computed(Term(step.op, 0, of, 0)),
                    IF step.op \in Dividing THEN Event("div", of, rest) ELSE rest)
          [] step.op \in {"call", "virtual"} -> LeaveCall(of, rest)
          [] step.op = "move" -> Assign(s.stack[Len(s.stack) - 1], of[2], rest)
          [] step.op = "exp" -> rest
          [] step.op \in {"cjump", "return", "label"} -> Event(step.op, of, rest)
          [] OTHER -> s

\* The state after each step, and after the last.
Interpret(order, s) ==
    LET state[k \in 0..Len(order)] == IF k = 0 THEN s ELSE Leave(order[k], state[k - 1])
    IN  state[Len(order)]

Answer(s) == s.stack[Len(s.stack)].value

Results == {lowered[i] : i \in DOMAIN lowered}

----------------------------------------------------------------------------
\* The list of statements followed by the expression does what the tree does:
\* the same calls, stores, divisions, jumps and labels in the same order, with
\* the same values, then the same result and the same temporaries.
SameMeaning ==
    \A r \in Results :
        LET before == Interpret(r.tree.order, Start)
            list == Interpret(Postorder(r.statements), Start)
            after == IF IsExpression(r) THEN Interpret(r.expression.order, list) ELSE list
        IN  /\ IsExpression(r) => Answer(after) = Answer(before)
            /\ after.events = before.events
            /\ after.temps[Local] = before.temps[Local]

\* What CanonicalChecker (check-canonical.cc) checks, and compiler.cc:251 turns
\* into a compiler error: no call and no statement inside an expression.  (That
\* its false label follows a conditional jump is for the IR builder to see to.)
Canonical ==
    \A r \in Results :
        /\ IsExpression(r) => \A e \in Range(r.expression.order) : e.op \in Pure
        /\ \A i \in DOMAIN r.statements :
             /\ r.statements[i].op \in {"move", "call", "virtual", "cjump", "return", "label"}
             /\ \A e \in Range(Front(r.statements[i].order)) : e.op \in Pure

\* A generated temporary is written by one statement and read only after it, so
\* the register allocators find it initialised (register-allocator.cc:11) with
\* an interval of its own.
Writes(stmt) == IF stmt.op = "move" /\ stmt.children[1].op = "temp"
                THEN {stmt.children[1].name} ELSE {}
Reads(stmt) == {e.name : e \in {d \in Range(stmt.order) : d.op = "temp"}}
GeneratedTempsSetOnce ==
    \A r \in Results : \A i, j \in DOMAIN r.statements : \A t \in (Static + 1)..num_temps :
        t \in Writes(r.statements[i]) /\ t \in Reads(r.statements[j]) =>
            /\ i <= j
            /\ t \in Writes(r.statements[j]) => i = j
=============================================================================
