------------------------------- MODULE Tiling -------------------------------
(****************************************************************************)
(* Instruction tiling (IRToTilesConverter, ir-tiling.cc; Tile, tile.cc): the *)
(* canonical statements of a function become instructions over abstract      *)
(* registers.  A tile holds instructions, and tiles of subtrees each with    *)
(* the register its value goes to; its own value goes to a placeholder, and  *)
(* getFullInstructions puts in the registers.  One tile is offered per node. *)
(*                                                                          *)
(* The instructions run on a processor over the terms of Canonicalizer: the  *)
(* registers they are written with, the flags, and a stack.  A function does *)
(* what its statements do if every step of the processor finds in eax, edx,  *)
(* the flags and the stack what the tile before it left there.               *)
(****************************************************************************)
EXTENDS Canonicalizer, TLC

EAX == <<"eax", 0>>
EDX == <<"edx", 0>>
EBP == <<"ebp", 0>>
Placeholder == <<"placeholder", 0>>            \* Tile::ABSTRACT_REG
AbstractRegister(n) == <<"abstract", n>>       \* newAbstractRegister
EscapeTemporary(name) == <<"temp", name>>

\* Operands: a register, the word a register points at, the word after the base
\* pointer's, a static field, the sum of two registers, zero.
Operand(form, reg) == [form |-> form, regs |-> <<reg>>]
Reg(reg) == Operand("reg", reg)
Address(reg) == Operand("mem", reg)
StaticField == Operand("static", EBP)
Sum(left, right) == [form |-> "sum", regs |-> <<left, right>>]
Zero == Operand("zero", EBP)

Instr(op, dest, source) == [op |-> op, dest |-> dest, source |-> source]
Mov(dest, source) == Instr("mov", dest, source)

----------------------------------------------------------------------------
(* Tiles: sequences of instructions and of pairs of a tile and a register.   *)
In(tile, reg) == [op |-> "tile", tile |-> tile, reg |-> reg]

AssignAbstract(i, reg) ==
    LET Put(o) == [o EXCEPT !.regs = [k \in DOMAIN @ |-> IF @[k] = Placeholder THEN reg ELSE @[k]]]
    IN  [i EXCEPT !.dest = Put(@), !.source = Put(@)]

RECURSIVE FullInstructions(_, _)
FullInstructions(tile, reg) ==
    FlattenSeq([k \in DOMAIN tile |-> IF tile[k].op = "tile" THEN FullInstructions(tile[k].tile, tile[k].reg)
                                      ELSE <<AssignAbstract(tile[k], reg)>>])

\* The instructions after those of the operands, by the operator.
Quotient(left, right, result) ==
    <<Instr("cmp", Reg(right), Zero), Instr("je", Zero, Zero), Mov(Reg(EAX), Reg(left)),
      Instr("cdq", Zero, Zero), Instr("idiv", Zero, Reg(right)), Mov(Reg(Placeholder), Reg(result))>>

Operation(op, left, right) ==
    CASE op = "add" -> <<Instr("lea", Reg(Placeholder), Sum(left, right))>>
      [] op \in {"sub", "and", "or"} ->
            <<Instr(op, Reg(left), Reg(right)), Mov(Reg(Placeholder), Reg(left))>>
      [] op = "mul" ->
            <<Mov(Reg(EAX), Reg(left)), Instr("imul", Zero, Reg(right)), Mov(Reg(Placeholder), Reg(EAX))>>
      [] op = "div" -> Quotient(left, right, EAX)
      [] op = "mod" -> Quotient(left, right, EDX)
      [] op \in Comparisons ->
            <<Instr("cmp", Reg(left), Reg(right)), Instr(op, Reg(EAX), Zero),
              Instr("movzx", Reg(Placeholder), Reg(EAX))>>

\* Registers are numbered by the path from the root of the function: n is the
\* first of those that are left, and a node hands its subtrees disjoint ranges.
RECURSIVE TileExpression(_, _)
TileExpression(e, n) ==
    CASE e.op \in Operators ->
            LET left == AbstractRegister(2 * n)
                right == AbstractRegister(2 * n + 1)
            IN  <<In(TileExpression(e.children[1], 2 * n), left),
                  In(TileExpression(e.children[2], 2 * n + 1), right)>> \o Operation(e.op, left, right)
      [] e.op = "mem" ->
            LET address == AbstractRegister(2 * n)
            IN  <<In(TileExpression(e.children[1], 2 * n), address), Mov(Reg(Placeholder), Address(address))>>
      [] e.op = "temp" /\ e.name = Ret -> <<Mov(Reg(Placeholder), Reg(EAX))>>
      [] e.op = "temp" /\ e.name # Ret -> <<Mov(Reg(Placeholder), Reg(EscapeTemporary(e.name)))>>
      [] e.op = "global" -> <<Mov(Reg(Placeholder), StaticField)>>

\* The argument a function reads as its n-th, from the base pointer on: the
\* caller's base pointer, the return address and the arguments lie there.
Argument(stack, n) == (<<"base pointer", "return address">> \o stack)[n + 3]

PushedInOrder(arguments, n) ==
    FlattenSeq([i \in DOMAIN arguments |->
        LET register == AbstractRegister(n + i)
        IN  <<In(TileExpression(arguments[i], n + i), register), Instr("push", Zero, Reg(register))>>])

\* The arguments are pushed from the last to the first; __malloc and nativeWrite
\* take their one in eax.
Pushed(arguments, n) ==
    FlattenSeq([k \in DOMAIN arguments |->
        LET i == Len(arguments) - k + 1
            register == AbstractRegister(n + i)
        IN  <<In(TileExpression(arguments[i], n + i), register), Instr("push", Zero, Reg(register))>>])

CallInstr(op, target, arity) == [op |-> op, dest |-> Zero, source |-> target, arity |-> arity]
PopArguments(arity) == [op |-> "addesp", dest |-> Zero, source |-> Zero, arity |-> arity]

LibraryCall(argument, n) ==
    <<In(TileExpression(argument, n), EAX), CallInstr("library", Zero, 1)>>

\* Trees of a statement have the numbers from n on, to 2 * n - 1.
TileStatement(stmt, n, library) ==
    CASE stmt.op = "cjump" ->
            LET condition == AbstractRegister(n)
            IN  <<In(TileExpression(stmt.children[1], n), condition),
                  Instr("test", Reg(condition), Reg(condition)), Instr("jnz", Zero, Zero)>>
      [] stmt.op = "label" -> <<Instr("label", Zero, Zero)>>
      [] stmt.op = "move" /\ stmt.children[1].op = "global" ->
            <<In(TileExpression(stmt.children[2], n), AbstractRegister(n)),
              Mov(StaticField, Reg(AbstractRegister(n)))>>
      [] stmt.op = "move" /\ stmt.children[1].op = "temp" ->
            <<In(TileExpression(stmt.children[2], n), EscapeTemporary(stmt.children[1].name))>>
      [] stmt.op = "move" /\ stmt.children[1].op = "mem" ->
            LET address == AbstractRegister(n)
                source == AbstractRegister(n + 1)
            IN  <<In(TileExpression(stmt.children[2], n + 1), source),
                  In(TileExpression(stmt.children[1].children[1], n), address),
                  Mov(Address(address), Reg(source))>>
      [] stmt.op = "return" ->
            <<In(TileExpression(stmt.children[1], n), EAX), Instr("epilogue", Zero, Zero), Instr("ret", Zero, Zero)>>
      [] stmt.op = "call" /\ library /\ Len(stmt.children) = 1 -> LibraryCall(stmt.children[1], n)
      [] stmt.op = "call" /\ ~(library /\ Len(stmt.children) = 1) ->
            Pushed(stmt.children, n)
              \o <<CallInstr("call", Zero, Len(stmt.children)), PopArguments(Len(stmt.children))>>
      [] stmt.op = "virtual" ->
            LET arguments == Tail(stmt.children)
                address == AbstractRegister(n)
            IN  Pushed(arguments, n)
                  \o <<In(TileExpression(stmt.children[1], n), address),
                       CallInstr("virtual", Reg(address), Len(arguments)), PopArguments(Len(arguments))>>

----------------------------------------------------------------------------
(* The processor.                                                           *)
Garbage == Term("garbage", 0, <<>>, 0)
Nought == Term("zero", 0, <<>>, 0)

Processor == [regs |-> [r \in {EscapeTemporary(name) : name \in 0..num_temps} \cup {EAX, EDX} |->
                          IF r = EAX THEN Start.temps[Ret] ELSE IF r = EDX THEN Garbage ELSE Start.temps[r[2]]],
              flags |-> Garbage, positive |-> Garbage, stack |-> <<>>, events |-> <<>>]

Value(o, s) ==
    CASE o.form = "reg" -> s.regs[o.regs[1]]
      [] o.form = "mem" -> Term("mem", 0, <<s.regs[o.regs[1]]>>, Len(s.events))
      [] o.form = "static" -> Term("global", Static, <<>>, Len(s.events))
      [] o.form = "sum" -> Term("add", 0, <<s.regs[o.regs[1]], s.regs[o.regs[2]]>>, 0)
      [] o.form = "zero" -> Nought

Set(reg, value, s) == [s EXCEPT !.regs = (reg :> value) @@ @]
Called(of, s) ==
    LET after == Event("call", of, s)
    IN  Set(EDX, Garbage, Set(EAX, Returned(after), after))
Passed(arity, s) == [n \in 1..arity |-> Argument(s.stack, n - 1)]

Execute(i, s) ==
    LET source == Value(i.source, s)
    IN
    CASE i.op \in {"mov", "lea", "movzx"} ->
            IF i.dest.form = "reg" THEN Set(i.dest.regs[1], source, s)
            ELSE IF i.dest.form = "static" THEN Event("set", <<source>>, s)
            ELSE Event("store", <<s.regs[i.dest.regs[1]], source>>, s)
      [] i.op \in {"sub", "and", "or"} ->
            Set(i.dest.regs[1], Term(i.op, 0, <<Value(i.dest, s), source>>, 0), [s EXCEPT !.flags = Garbage])
      [] i.op = "imul" ->
            Set(EDX, Garbage, Set(EAX, Term("mul", 0, <<s.regs[EAX], source>>, 0), [s EXCEPT !.flags = Garbage]))
      [] i.op \in {"cmp", "test"} -> [s EXCEPT !.flags = Term(i.op, 0, <<Value(i.dest, s), source>>, 0)]
      [] i.op = "je" -> [s EXCEPT !.positive = IF s.flags.op = "cmp" /\ s.flags.of[2] = Nought
                                              THEN s.flags.of[1] ELSE Garbage]
      [] i.op = "cdq" -> Set(EDX, Term("sign", 0, <<s.regs[EAX]>>, 0), s)
      [] i.op = "idiv" ->
            LET of == <<s.regs[EAX], source>>
                right == s.regs[EDX] = Term("sign", 0, <<s.regs[EAX]>>, 0) /\ s.positive = source
                after == Event(IF right THEN "div" ELSE "fault", of, [s EXCEPT !.flags = Garbage])
            IN  Set(EDX, Term("mod", 0, of, 0), Set(EAX, Term("div", 0, of, 0), after))
      [] i.op \in Comparisons ->
            Set(EAX, IF s.flags.op = "cmp" THEN Term(i.op, 0, s.flags.of, 0) ELSE Garbage, s)
      [] i.op = "jnz" ->
            Event("cjump", <<IF s.flags.op = "test" /\ s.flags.of[1] = s.flags.of[2]
                             THEN s.flags.of[1] ELSE Garbage>>, s)
      [] i.op = "label" -> Event("label", <<>>, s)
      [] i.op = "push" -> [s EXCEPT !.stack = <<source>> \o @]
      [] i.op = "addesp" -> [s EXCEPT !.stack = SubSeq(@, i.arity + 1, Len(@))]
      [] i.op = "library" -> Called(<<s.regs[EAX]>>, s)
      [] i.op = "call" -> Called(Passed(i.arity, s), s)
      [] i.op = "virtual" -> Called(Append(Passed(i.arity, s), source), s)
      [] i.op = "epilogue" -> [s EXCEPT !.stack = <<>>]
      [] i.op = "ret" -> Event("return", <<s.regs[EAX]>>, s)

RECURSIVE Run(_, _)
Run(code, s) == IF code = <<>> THEN s ELSE Run(Tail(code), Execute(Head(code), s))

----------------------------------------------------------------------------
(* Canonicalizer builds its trees of one operator that may fail and one that *)
(* cannot; here each stands for several, and a call of one argument for a library's.  *)
RECURSIVE With(_, _)
With(e, op) == Node(IF e.op = "div" THEN op.dividing ELSE IF e.op = "add" THEN op.plain ELSE e.op,
                    e.name, [i \in DOMAIN e.children |-> With(e.children[i], op)])

Chosen == {[plain |-> "add", dividing |-> "div", library |-> FALSE],
           [plain |-> "mul", dividing |-> "mod", library |-> FALSE],
           [plain |-> "sub", dividing |-> "mod", library |-> TRUE],
           [plain |-> "lt",  dividing |-> "div", library |-> TRUE]}

Function(statements, library) ==
    FlattenSeq([k \in DOMAIN statements |->
        FullInstructions(TileStatement(statements[k], 8, library), Placeholder)])

\* The instructions of a function make its calls, stores, divisions, jumps and
\* returns in the order of its statements and with their values, and leave the
\* same in its variables and the stack as it was: no tile overwrites in eax,
\* edx, the flags or on the stack what a later one reads.
TilesDoTheSame ==
    lowered # <<>> =>
        LET r == lowered[Len(lowered)]
        IN  \A op \in Chosen :
              LET statements == [k \in DOMAIN r.statements |-> With(r.statements[k], op)]
                  list == Interpret(Postorder(statements), Start)
                  ran == Run(Function(statements, op.library), Processor)
                  expression == With(r.expression, op)
                  before == Interpret(expression.order, list)
                  after == Run(FullInstructions(TileExpression(expression, 1), AbstractRegister(1)), ran)
              IN  /\ ran.events = list.events /\ ran.stack = <<>>
                  /\ ran.regs[EscapeTemporary(Local)] = list.temps[Local]
                  /\ IsExpression(r) =>
                        /\ after.regs[AbstractRegister(1)] = Answer(before)
                        /\ after.events = before.events
=============================================================================
