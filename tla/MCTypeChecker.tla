--------------------------- MODULE MCTypeChecker ---------------------------
(* A class D below C, an unrelated class E that implements I as D does, and  *)
(* fields and methods of C that are static, protected or plain.              *)
EXTENDS TypeChecker
CONSTANTS ObjectC, StringC, C, D, E, I, Cloneable

MCClass == {ObjectC, StringC, C, D, E}
MCInterface == {I, Cloneable}
MCElement == {"byte", ObjectC, C, D, I}
MCSupers == [t \in MCClass \cup MCInterface |->
    CASE t = D -> {C, I} [] t = E -> {ObjectC, I} [] t \in {C, StringC} -> {ObjectC} [] OTHER -> {}]
MCPackageOf == [t \in MCClass \cup MCInterface |-> IF t = C THEN "p" ELSE "q"]

Field(name, type, static, protected) ==
    [in |-> C, name |-> name, type |-> type, static |-> static, protected |-> protected]
FieldsOfC == {Field("f", Plain(C), FALSE, FALSE), Field("p", Plain("byte"), FALSE, TRUE),
              Field("s", ArrayOf(C), TRUE, TRUE)}
MCFields == [t \in MCClass |-> IF t \in {C, D} THEN FieldsOfC ELSE {}]

Method(in, name, params, type, static, protected) ==
    [in |-> in, name |-> name, params |-> params, type |-> type, static |-> static,
     protected |-> protected, abstract |-> in = I, constructor |-> name = "new"]
MCMethods == [t \in MCClass \cup MCInterface |->
    {Method(ObjectC, "hash", <<>>, Plain("int"), FALSE, FALSE)}
    \cup (IF t \in {C, D} THEN {Method(C, "m", <<Plain(C)>>, Plain(D), FALSE, FALSE),
                               Method(C, "p", <<>>, Plain("void"), FALSE, TRUE),
                               Method(C, "t", <<Plain("int")>>, ArrayOf("byte"), TRUE, FALSE)} ELSE {})
    \cup (IF t \in {D, E, I} THEN {Method(I, "i", <<>>, Plain(I), FALSE, FALSE)} ELSE {})
    \cup (IF t = D THEN {Method(D, "new", <<Plain(C)>>, Plain("void"), FALSE, TRUE)} ELSE {})
    \cup (IF t \in {E, C} THEN {Method(t, "new", <<>>, Plain("void"), FALSE, FALSE)} ELSE {})]
=============================================================================
