----------------------------- MODULE TileBodies ----------------------------
(***************************************************************************)
(* Function bodies for TLC: every sequence of so many tiles, as the     *)
(* tiling emits them, over an ordered set of temporaries. A tile           *)
(* reads only temporaries written before it, except in bodies of one tile; *)
(* at most one loop is opened, and closed by a jump back to its label.     *)
(***************************************************************************)
EXTENDS Assembly, Functions

CONSTANTS t1, t2, t3, LoopStart, Exception, Callee

Order == <<t1, t2, t3>>

Constant(t)    == <<Mov(Reg(t), Imm)>>
Argument(t)    == <<Push(Reg(t))>>
Copy(t, u)     == <<Mov(Reg(t), Reg(u))>>
Sum(t, u)      == <<Add(Reg(t), Reg(u))>>
Store(t, u)    == <<Mov(Addr({t}), Reg(u))>>
Quotient(t, u) == <<Cmp(Reg(u), Imm), Je(Use(Exception)), Mov(Reg(EAX), Reg(t)),
                    Cdq, IDiv(Reg(u)), Mov(Reg(t), Reg(EAX))>>
Product(t, u)  == <<Mov(Reg(EAX), Reg(t)), IMul(Reg(u)), Mov(Reg(t), Reg(EAX))>>
Equal(t, u)    == <<Cmp(Reg(t), Reg(u)), SetCC(Reg(EAX)), MovZX(Reg(t), Reg(EAX))>>
Invoke(t)      == <<Push(Reg(t)), Call(Use(Callee)), Mov(Reg(t), Reg(EAX))>>
Loop           == <<LabelDef(LoopStart)>>
Again(t)       == <<Test(Reg(t), Reg(t)), JumpIfNZ(Use(LoopStart))>>

\* a partial body: its code, how many temporaries it has written, its loop
Empty == [code |-> <<>>, known |-> 0, loop |-> "none"]

Known(b) == {Order[i] : i \in 1..b.known}
Newest(b) == {Order[i] : i \in {b.known + 1} \cap DOMAIN Order}

Grown(b, tile, fresh, loop) ==
  [code |-> b.code \o tile, known |-> b.known + fresh, loop |-> loop]

Extensions(b) ==
  {Grown(b, Constant(t), 1, b.loop) : t \in Newest(b)}
  \cup {Grown(b, Copy(t, u), 1, b.loop) : t \in Newest(b), u \in Known(b)}
  \cup {Grown(b, Argument(t), 0, b.loop) : t \in Known(b)}
  \cup {Grown(b, Invoke(t), 0, b.loop) : t \in Known(b)}
  \cup (UNION {{Grown(b, Sum(t, u), 0, b.loop), Grown(b, Quotient(t, u), 0, b.loop)}
               : <<t, u>> \in {p \in Known(b) \X Known(b) : p[1] # p[2]}})
  \cup (IF b.loop = "none" /\ b.known > 0 THEN {Grown(b, Loop, 0, "open")} ELSE {})
  \cup (IF b.loop = "open" THEN {Grown(b, Again(t), 0, "closed") : t \in Known(b)}
                           ELSE {})

Partial[n \in Nat] ==
  IF n = 0 THEN {Empty} ELSE UNION {Extensions(b) : b \in Partial[n - 1]}

Uninitialized == {Argument(t1), Copy(t1, t2), Sum(t1, t1), Store(t1, t1)}

\* the bodies of n tiles, and the short ones a body of one tile can be
BodiesOf(n) ==
  Uninitialized \cup {<<>>} \cup {b.code : b \in {c \in Partial[n] : c.loop # "open"}}
=============================================================================
