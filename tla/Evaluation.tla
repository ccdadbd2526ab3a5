------------------------------ MODULE Evaluation ------------------------------
(****************************************************************************)
(* What a Java tree computes and what a tree of the IR computes, the one by  *)
(* the rules of the language (JLS 15.7), the other as simulation.cc does,    *)
(* over terms instead of numbers.  A term records what it was computed from, *)
(* and for what a call or a store may change after how many events.          *)
(*                                                                          *)
(* Nothing decides a condition in advance: both outcomes are followed, and   *)
(* remembered, so a condition tested twice comes out the same.  A tree has   *)
(* therefore a set of outcomes.  Null is a failure where the code tests for  *)
(* it, at arrays; a field of null is read like any other.                    *)
(****************************************************************************)
EXTENDS Naturals, Sequences, SequencesExt

CONSTANT MaxDecisions     \* bound on the conditions decided in one run

This == 0                 \* the temporary "this"
Arg == <<1, 2>>           \* the abstract argument registers

----------------------------------------------------------------------------
(* Trees, of both languages.                                                *)
Node(op, name, children) == [op |-> op, name |-> name, children |-> children]

Temp(name) == Node("temp", name, <<>>)
Const == Node("const", 0, <<>>)
Mem(address) == Node("mem", 0, <<address>>)
FieldOf(object) == Node("field", 0, <<object>>)
ElementOf(array, index) == Node("element", 0, <<array, index>>)
LengthOf(array) == Node("length", 0, <<array>>)
Not(e) == Node("not", 0, <<e>>)
NotNull(e) == Node("notnull", 0, <<e>>)
Outside(index, array) == Node("outside", 0, <<index, LengthOf(array)>>)
Move(target, source) == Node("move", 0, <<target, source>>)
Exp(e) == Node("exp", 0, <<e>>)
Exception == Node("exception", 0, <<>>)
Sequence(statements) == Node("seq", 0, statements)
ESeq(statements, e) == Node("eseq", 0, <<Sequence(statements), e>>)
Label(name) == Node("label", name, <<>>)
Jump(name) == Node("jump", 0, <<Label(name)>>)
CJump(condition, true, false) == Node("cjump", 0, <<condition, Label(true), Label(false)>>)
Return(e) == Node("ret", 0, <<e>>)

RECURSIVE Nodes(_)
Nodes(e) == {e} \cup UNION {Nodes(e.children[i]) : i \in DOMAIN e.children}

----------------------------------------------------------------------------
(* Runs.                                                                    *)
Term(op, name, of, at) == [op |-> op, name |-> name, of |-> of, at |-> at]
None == Term("none", 0, <<>>, 0)
Pass(value, s) == {[value |-> value, state |-> s]}
Stop(how, s) == Pass(None, [s EXCEPT !.over = how])

\* What follows a run, unless it is over.
Then(outcomes, Rest(_)) == UNION {IF o.state.over = "no" THEN Rest(o) ELSE {o} : o \in outcomes}

Event(op, of, s) == [s EXCEPT !.events = Append(@, Term(op, 0, of, 0))]
Load(address, s) == Term("mem", 0, <<address>>, Len(s.events))
Store(address, value, s) == Pass(value, Event("store", <<address, value>>, s))
Set(name, value, s) == Pass(value, [s EXCEPT !.temps[name] = value])
Call(of, s) == LET after == Event("call", of, s)
               IN  Pass(Term("returned", 0, <<>>, Len(after.events)), after)

\* The truth of a condition: as it was decided before, or either way.
RECURSIVE Decide(_, _)
Decide(t, s) ==
    IF t.op = "not" THEN {[o EXCEPT !.value = ~@] : o \in Decide(t.of[1], s)}
    ELSE IF s.decisions = MaxDecisions THEN {[value |-> FALSE, state |-> [s EXCEPT !.over = "cut"]]}
    ELSE {[value |-> holds, state |-> [s EXCEPT !.decisions = @ + 1,
                                               !.known = @ \cup {<<t, holds>>}]] :
             holds \in {h \in BOOLEAN : <<t, ~h>> \notin s.known}}

Start(names) == [temps |-> [n \in names |-> Term("initially", n, <<>>, 0)],
                 known |-> {}, events |-> <<>>, decisions |-> 0, over |-> "no"]

FieldAt(object) == Term("field", 0, <<object>>, 0)
ElementAt(array, index) == Term("element", 0, <<array, index>>, 0)
LengthAt(array) == Term("length", 0, <<array>>, 0)

\* An array access fails on null and outside the bounds.
CheckNull(array, s) ==
    Then(Decide(Term("notnull", 0, <<array>>, 0), s), LAMBDA d :
         IF d.value THEN Pass(None, d.state) ELSE Stop("exception", d.state))
CheckAccess(array, index, s) ==
    Then(CheckNull(array, s), LAMBDA c :
         Then(Decide(Term("outside", 0, <<index, LengthAt(array)>>, 0), c.state), LAMBDA d :
              IF d.value THEN Stop("exception", d.state) ELSE Pass(None, d.state)))

RECURSIVE Eval(_, _), EvalAll(_, _), Run(_, _, _)

EvalAll(list, s) ==
    IF list = <<>> THEN Pass(<<>>, s)
    ELSE Then(Eval(Head(list), s), LAMBDA o :
              Then(EvalAll(Tail(list), o.state), LAMBDA rest :
                   Pass(<<o.value>> \o rest.value, rest.state)))

\* A list of statements from the i-th on; its labels are jumped to from it only.
Goto(list, label) == CHOOSE i \in DOMAIN list : list[i] = label
Run(list, i, s) ==
    IF i > Len(list) THEN Pass(None, s)
    ELSE LET at == list[i]
         IN  CASE at.op = "jump" -> Run(list, Goto(list, at.children[1]), s)
               [] at.op = "cjump" ->
                    Then(Eval(at.children[1], s), LAMBDA o :
                         Then(Decide(o.value, o.state), LAMBDA d :
                              Run(list, Goto(list, at.children[IF d.value THEN 2 ELSE 3]), d.state)))
               [] OTHER -> Then(Eval(at, s), LAMBDA o : Run(list, i + 1, o.state))

Assign(target, source, s) ==
    CASE target.op = "local" ->
           Then(Eval(source, s), LAMBDA o : Set(target.name, o.value, o.state))
      [] target.op = "own" ->
           Then(Eval(source, s), LAMBDA o : Store(FieldAt(o.state.temps[This]), o.value, o.state))
      [] target.op = "access" ->
           Then(EvalAll(Append(target.children, source), s), LAMBDA o :
                Store(FieldAt(o.value[1]), o.value[2], o.state))
      [] target.op = "index" ->
           Then(EvalAll(Append(target.children, source), s), LAMBDA o :
                Then(CheckAccess(o.value[1], o.value[2], o.state), LAMBDA c :
                     Store(ElementAt(o.value[1], o.value[2]), o.value[3], c.state)))

\* A condition, and what to do with either outcome.
Branch(condition, s, Holds(_), Fails(_)) ==
    Then(Eval(condition, s), LAMBDA o :
         Then(Decide(o.value, o.state), LAMBDA d : IF d.value THEN Holds(d) ELSE Fails(d)))

\* The expressions and statements of Java.
Java(e, s) ==
    LET part == e.children
    IN  CASE e.op = "own" -> Pass(Load(FieldAt(s.temps[This]), s), s)
          [] e.op = "access" ->
               Then(Eval(part[1], s), LAMBDA o : Pass(Load(FieldAt(o.value), o.state), o.state))
          [] e.op = "index" ->
               Then(EvalAll(part, s), LAMBDA o :
                    Then(CheckAccess(o.value[1], o.value[2], o.state), LAMBDA c :
                         Pass(Load(ElementAt(o.value[1], o.value[2]), c.state), c.state)))
          [] e.op = "size" ->
               Then(Eval(part[1], s), LAMBDA o :
                    Then(CheckNull(o.value, o.state), LAMBDA c : Pass(LengthAt(o.value), c.state)))
          [] e.op \in {"assign", "declare"} -> Assign(part[1], part[2], s)
          [] e.op \in {"and", "or"} ->
               Then(Eval(part[1], s), LAMBDA o :
                    Then(Decide(o.value, o.state), LAMBDA d :
                         IF d.value = (e.op = "and") THEN Eval(part[2], d.state)
                         ELSE Pass(o.value, d.state)))
          [] e.op = "invoke" ->
               Then(EvalAll(part, s), LAMBDA o :
                    LET table == Term("slot", 0, <<Load(o.value[1], o.state)>>, 0)
                    IN  Call(<<Load(table, o.state)>> \o o.value, o.state))
          [] e.op = "if" ->
               Branch(part[1], s, LAMBDA d : Eval(part[2], d.state),
                      LAMBDA d : IF Len(part) = 3 THEN Eval(part[3], d.state) ELSE Pass(None, d.state))
          [] e.op = "while" ->
               Branch(part[1], s,
                      LAMBDA d : Then(Eval(part[2], d.state), LAMBDA o : Eval(e, o.state)),
                      LAMBDA d : Pass(None, d.state))
          [] e.op = "for" ->
               Then(Eval(part[1], s), LAMBDA o :
                    Eval(Node("while", 0, <<part[2], Node("block", 0, <<part[4], part[3]>>)>>), o.state))
          [] e.op = "method" ->
               LET called == [s EXCEPT !.temps[This] = s.temps[Arg[1]],
                                       !.temps[e.name] = s.temps[Arg[2]]]
               IN  Then(Eval(part[1], called), LAMBDA o : Eval(Return(Const), o.state))

\* The expressions and statements of the IR, and those the two have in common.
Eval(e, s) ==
    LET part == e.children
    IN  CASE e.op \in {"temp", "local"} -> Pass(s.temps[e.name], s)
          [] e.op \in {"const", "add", "less", "not", "notnull", "outside", "field", "element", "length", "slot"} ->
               Then(EvalAll(part, s), LAMBDA o : Pass(Term(e.op, 0, o.value, 0), o.state))
          [] e.op = "mem" ->
               Then(EvalAll(part, s), LAMBDA o : Pass(Load(o.value[1], o.state), o.state))
          [] e.op = "call" -> Then(EvalAll(part, s), LAMBDA o : Call(o.value, o.state))
          [] e.op = "virtual" ->
               Then(EvalAll(Tail(part), s), LAMBDA o :
                    Then(Eval(part[1], o.state), LAMBDA t : Call(<<t.value>> \o o.value, t.state)))
          [] e.op = "exception" -> Stop("exception", s)
          [] e.op = "eseq" -> Then(Eval(part[1], s), LAMBDA o : Eval(part[2], o.state))
          [] e.op = "move" /\ part[1].op = "temp" ->
               Then(Eval(part[2], s), LAMBDA o : Set(part[1].name, o.value, o.state))
          [] e.op = "move" /\ part[1].op = "mem" ->
               Then(EvalAll(<<part[1].children[1], part[2]>>, s), LAMBDA o :
                    Store(o.value[1], o.value[2], o.state))
          [] e.op = "exp" -> Eval(part[1], s)
          [] e.op = "label" -> Pass(None, s)
          [] e.op \in {"seq", "block"} -> Run(part, 1, s)
          [] e.op = "ret" ->
               Then(EvalAll(part, s), LAMBDA o : Stop("returned", Event("return", o.value, o.state)))
          [] OTHER -> Java(e, s)
=============================================================================
