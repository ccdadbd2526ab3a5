----------------------------- MODULE ControlFlow -----------------------------
(****************************************************************************)
(* The control flow of one method: createCfg (cfg-builder.cc) builds a graph *)
(* for each statement after those inside it, the reachability visitor        *)
(* (cfg-visitor.cc, reachability.cc) walks the graph from the start, and     *)
(* the statement visitor (reached-statement.cc) rejects a method with a      *)
(* statement the walk did not reach.  A method they accept may be run: its   *)
(* statements are interpreted as the language defines them, without looking  *)
(* at the graph.                                                            *)
(*                                                                          *)
(* The syntax tree is chosen while createCfg returns from it, inner          *)
(* statements first; statement s is the s-th it returns from.  A loop's      *)
(* condition is one of those ConstantFolding has met before the method       *)
(* began: what the walk folds it to, and what it is to Java.                 *)
(****************************************************************************)
EXTENDS ConstantFolding

CONSTANT MaxStatements      \* bound on the statements of a method

ASSUME MaxStatementsAssumption == MaxStatements \in Nat

VARIABLES syntax,    \* each statement: its kind, condition and inner statements
          open,      \* the statements no other contains yet, in order
          pair,      \* the first and the last node of each statement's graph
          next,      \* CfgStatement::next, where it is not null
          branch,    \* the true_branch and false_branch of each CfgExpression
          void,      \* a method without a result, or a constructor
          phase,     \* "build", "walk", "check", "rejected", "run" or "returned"
          calls,     \* the nodes visit_child is still to be called with, in order
          visited, reached,
          todo       \* what a running method is still to execute, in order

treeVars == <<syntax, open>>
graphVars == <<pair, next, branch, void>>
walkVars == <<calls, visited, reached>>
methodVars == <<treeVars, graphVars, phase, walkVars, todo>>
vars == <<methodVars, foldVars>>

Statements == DOMAIN syntax
Kind(s) == syntax[s].kind

\* A CfgStatement for a statement, the two dummies around a branching one and
\* its CfgExpression.
Node == {"statement", "in", "out", "expression"} \X Nat
EmptyBody == <<"statement", 0>>

Edge(n, m) == [x \in {n} |-> m]
NoEdges == [n \in {} |-> EmptyBody]
With(new, old) == [n \in DOMAIN new \cup DOMAIN old |->
                      IF n \in DOMAIN new THEN new[n] ELSE old[n]]

----------------------------------------------------------------------------
(* Building the graph.                                                      *)
Init == /\ syntax = <<>> /\ open = <<>>
        /\ pair = <<>> /\ next = NoEdges
        /\ branch = NoEdges
        /\ void \in BOOLEAN
        /\ phase = "build"
        /\ calls = <<>> /\ visited = {} /\ reached = {} /\ todo = <<>>
        /\ InitFolding

New == Len(syntax) + 1
First(s) == pair[s][1]
Last(s) == pair[s][2]

\* The last node of each statement of a list leads to the first of the one after.
Links(list) == [n \in {Last(list[i]) : i \in 1..(Len(list) - 1)} |->
                   First(list[1 + CHOOSE i \in 1..(Len(list) - 1) : Last(list[i]) = n])]

\* createCfg returns a graph for a statement that contains the last k open ones.
CreateCfg(kind, cond, k, nodes, nexts, branches) ==
    /\ phase = "build" /\ New <= MaxStatements
    /\ syntax' = Append(syntax, [kind |-> kind, cond |-> cond,
                                 inner |-> SubSeq(open, Len(open) - k + 1, Len(open))])
    /\ open' = Append(SubSeq(open, 1, Len(open) - k), New)
    /\ pair' = Append(pair, nodes)
    /\ next' = With(nexts, next)
    /\ branch' = With(branches, branch)
    /\ UNCHANGED <<void, phase, walkVars, todo>>

\* Return, declaration, expression and empty statements.
SimpleStatement(kind) ==
    CreateCfg(kind, NoCondition, 0, <<<<"statement", New>>, <<"statement", New>>>>, NoEdges, NoEdges)

Dummies == <<<<"in", New>>, <<"out", New>>>>
Condition == <<"expression", New>>

IfThenStatement ==
    /\ Len(open) >= 1
    /\ LET then == open[Len(open)]
       IN  CreateCfg("if", Plain("varying"), 1, Dummies,
                     With(Edge(<<"in", New>>, Condition), Edge(Last(then), <<"out", New>>)),
                     Edge(Condition, <<First(then), <<"out", New>>>>))

IfThenElseStatement ==
    /\ Len(open) >= 2
    /\ LET then == open[Len(open) - 1]
           else == open[Len(open)]
       IN  CreateCfg("ifelse", Plain("varying"), 2, Dummies,
                     With(Edge(<<"in", New>>, Condition),
                          With(Edge(Last(then), <<"out", New>>), Edge(Last(else), <<"out", New>>))),
                     Edge(Condition, <<First(then), First(else)>>))

\* A while or a for statement; only a for may have no condition.
LoopStatement(cond) ==
    /\ Len(open) >= 1
    /\ LET body == open[Len(open)]
       IN  CreateCfg("loop", cond, 1, Dummies,
                     With(Edge(<<"in", New>>, Condition), Edge(Last(body), Condition)),
                     Edge(Condition, <<First(body), <<"out", New>>>>))

BlockEndsAtItself(k) ==
    /\ k <= Len(open)
    /\ LET inner == SubSeq(open, Len(open) - k + 1, Len(open))
           self == <<"statement", New>>
       IN  IF k = 0
           THEN CreateCfg("block", NoCondition, 0, <<self, self>>, NoEdges, NoEdges)
           ELSE CreateCfg("block", NoCondition, k, <<self, self>>,
                          With(Edge(self, First(inner[1])), Links(inner)), NoEdges)

Block(k) ==
    /\ k <= Len(open)
    /\ LET inner == SubSeq(open, Len(open) - k + 1, Len(open))
           self == <<"statement", New>>
       IN  IF k = 0
           THEN CreateCfg("block", NoCondition, 0, <<self, self>>, NoEdges, NoEdges)
           ELSE CreateCfg("block", NoCondition, k, <<self, Last(inner[k])>>,
                          With(Edge(self, First(inner[1])), Links(inner)), NoEdges)

\* The body's statements are linked and the walk starts at cfg_start.
MethodDeclaration ==
    /\ phase = "build"
    /\ next' = With(Links(open), next)
    /\ calls' = <<IF open = <<>> THEN EmptyBody ELSE First(open[1])>>
    /\ phase' = "walk"
    /\ UNCHANGED <<treeVars, pair, branch, void, visited, reached, todo>>
----------------------------------------------------------------------------
(* Walking the graph.                                                       *)
Returns(n) == n[2] \in Statements /\ Kind(n[2]) = "return"
Successor(n) == IF n \in DOMAIN next THEN <<next[n]>> ELSE <<>>

Walking == phase = "walk" /\ calls # <<>>

\* visit_child of a node visited before does nothing.
SkipVisited == /\ Walking /\ Head(calls) \in visited
               /\ calls' = Tail(calls)
               /\ UNCHANGED <<treeVars, graphVars, phase, visited, reached, todo>>

VisitsAgain(n, more) ==
    /\ Walking /\ n = Head(calls)
    /\ visited' = visited \cup {n}
    /\ reached' = reached \cup (IF n[1] \in {"in", "out"} THEN {} ELSE {n[2]} \ {0})
    /\ calls' = more \o Tail(calls)
    /\ UNCHANGED <<treeVars, graphVars, todo>>

\* The statement of a node is reached; the dummies of a branching one have none.
Visit(n, more) == /\ Walking /\ n = Head(calls) /\ n \notin visited
                  /\ visited' = visited \cup {n}
                  /\ reached' = reached \cup
                        (IF n[1] \in {"in", "out"} THEN {} ELSE {n[2]} \ {0})
                  /\ calls' = more \o Tail(calls)
                  /\ UNCHANGED <<treeVars, graphVars, todo>>

MustReturnAtStatement(n) ==
    ~void /\ n[1] = "statement" /\ ~Returns(n) /\ n \notin DOMAIN next

\* Without a return the end of the graph must not be reached, unless void.
MustReturn(n) == ~void /\ ~Returns(n) /\ n \notin DOMAIN next

VisitStatement(n) ==
    /\ n[1] # "expression"
    /\ Visit(n, IF Returns(n) THEN <<>> ELSE Successor(n))
    /\ phase' = IF MustReturn(n) THEN "rejected" ELSE "walk"

BothBranches(n) == branch[n]

\* The condition of a loop leads one way when it is constant, or missing.
Branches(n) ==
    CASE syntax[n[2]].kind = "loop" /\ syntax[n[2]].cond.folded \in {"none", "true"} -> <<branch[n][1]>>
      [] syntax[n[2]].kind = "loop" /\ syntax[n[2]].cond.folded = "false" -> <<branch[n][2]>>
      [] OTHER -> branch[n]

VisitExpression(n) == /\ n[1] = "expression"
                      /\ Visit(n, Branches(n))
                      /\ phase' = phase

VisitNode == \E n \in {calls[i] : i \in DOMAIN calls} : VisitStatement(n) \/ VisitExpression(n)

EndWalk == /\ phase = "walk" /\ calls = <<>>
           /\ phase' = "check"
           /\ UNCHANGED <<treeVars, graphVars, walkVars, todo>>

\* Every statement of the method must have been reached.
CheckStatements ==
    /\ phase = "check"
    /\ phase' = IF Statements \subseteq reached THEN "run" ELSE "rejected"
    /\ todo' = IF Statements \subseteq reached THEN open ELSE <<>>
    /\ UNCHANGED <<treeVars, graphVars, walkVars>>

----------------------------------------------------------------------------
(* Running an accepted method: todo is what is left of it.                  *)
Execute(s, more) == /\ phase = "run" /\ todo # <<>> /\ s = Head(todo)
                    /\ todo' = more \o Tail(todo)
                    /\ UNCHANGED <<treeVars, graphVars, phase, walkVars>>

MayHold(s) == syntax[s].cond.java \in {"true", "varying"}
MayFail(s) == syntax[s].cond.java \in {"false", "varying"}

Run(s) ==
    \/ Kind(s) = "simple" /\ Execute(s, <<>>)
    \/ Kind(s) = "block" /\ Execute(s, syntax[s].inner)
    \/ Kind(s) \in {"if", "ifelse"} /\ Execute(s, <<syntax[s].inner[1]>>)
    \/ Kind(s) \in {"if", "ifelse"} /\ Execute(s, Tail(syntax[s].inner))
    \/ Kind(s) = "loop" /\ MayHold(s) /\ Execute(s, syntax[s].inner \o <<s>>)
    \/ Kind(s) = "loop" /\ MayFail(s) /\ Execute(s, <<>>)

RunReturn(s) == /\ phase = "run" /\ todo # <<>> /\ s = Head(todo)
                /\ Kind(s) = "return"
                /\ phase' = "returned" /\ todo' = <<>>
                /\ UNCHANGED <<treeVars, graphVars, walkVars>>

Compile == \/ \E kind \in {"simple", "return"} : SimpleStatement(kind)
           \/ IfThenStatement \/ IfThenElseStatement
           \/ \E cond \in conditions : LoopStatement(cond)
           \/ \E k \in 0..Len(open) : Block(k)
           \/ MethodDeclaration
Walk == SkipVisited \/ VisitNode \/ EndWalk \/ CheckStatements
RunMethod == \E s \in Statements : Run(s) \/ RunReturn(s)

\* The conditions come first, so that few of them are in progress at a time.
CfgNext == \/ phase = "build" /\ syntax = <<>> /\ Expression /\ UNCHANGED methodVars
           \/ operands = <<>> /\ (Compile \/ Walk \/ RunMethod) /\ UNCHANGED foldVars

\* The compiler does not stop in the middle of a walk.
Spec == Init /\ [][CfgNext]_vars /\ WF_methodVars(Walk)

----------------------------------------------------------------------------
\* A method with a result that passes both visitors never runs off the end of
\* its body, whatever its conditions turn out to be.
NeverFallsOff == phase = "run" /\ ~void => todo # <<>>

\* The rules of the language (JLS 14.20): which statements can complete normally,
\* given that they can begin, and which can begin in their surroundings.
CanComplete ==
    LET complete[s \in Statements] ==
            CASE Kind(s) = "return" -> FALSE
              [] Kind(s) = "block" -> \A i \in DOMAIN syntax[s].inner : complete[syntax[s].inner[i]]
              [] Kind(s) = "ifelse" -> \E i \in {1, 2} : complete[syntax[s].inner[i]]
              [] Kind(s) = "loop" -> syntax[s].cond.java # "true"
              [] OTHER -> TRUE
    IN  complete

InOrder(list) == \A i \in 1..(Len(list) - 1) : CanComplete[list[i]]

Legal == /\ InOrder(open)
         /\ \A s \in Statements : /\ Kind(s) = "block" => InOrder(syntax[s].inner)
                                  /\ ~(Kind(s) = "loop" /\ syntax[s].cond.java = "false")
         /\ void \/ \E i \in DOMAIN open : ~CanComplete[open[i]]

\* The graph and its walk accept exactly the methods whose statements are all
\* reachable by the rules of the language and that cannot end without a result.
AgreesWithLanguage == /\ phase \in {"run", "returned"} => Legal
                      /\ phase = "rejected" => ~Legal

\* Once a node leads somewhere no later createCfg redirects it: a statement's
\* last node is linked by the one statement that contains it, although a block
\* hands out the last node of another statement.
LinkedOnce == [][\A n \in DOMAIN next : next'[n] = next[n]]_next

\* The walk ends, through loops that lead back to their condition.
WalkEnds == (phase = "walk") ~> (phase \in {"rejected", "run"})
=============================================================================
