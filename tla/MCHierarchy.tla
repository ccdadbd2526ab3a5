----------------------------- MODULE MCHierarchy -----------------------------
(* Two classes, two interfaces and Object, extending and implementing each   *)
(* other in every way, with every method that can break a rule.              *)
EXTENDS Hierarchy
CONSTANTS A, B, I, J

MCType == {Object, A, B, I, J}
MCUnits == <<Object, I, B, A, J>>
MCSignature == {"m", "o", "f", "new"}
MCResult == {"int", "void"}

MethodOf(t, sig, type, mods) ==
    [in |-> t, sig |-> sig, type |-> type, mods |-> mods, constructor |-> FALSE]
ConstructorOf(t) ==
    [in |-> t, sig |-> "new", type |-> "void", mods |-> {"public"}, constructor |-> TRUE]
Unit(interface, mods, extended, supers, methods) ==
    [interface |-> interface, mods |-> mods, extended |-> extended,
     supers |-> supers, methods |-> methods]

ObjectUnit == Unit(FALSE, {"public"}, None, <<>>,
                   {ConstructorOf(Object), MethodOf(Object, "o", "int", {"public"}),
                    MethodOf(Object, "f", "int", {"public", "final"})})

Bodies(t) == {{}, {MethodOf(t, "m", "int", {"public"})},
              {MethodOf(t, "m", "int", {"protected"})},
              {MethodOf(t, "m", "int", {"public", "abstract"})},
              {MethodOf(t, "m", "int", {"public", "static"})}}
MoreBodies(t) == Bodies(t) \cup
             {{MethodOf(t, "m", "void", {"public"})},
              {MethodOf(t, "m", "int", {"public", "final"})},
              {MethodOf(t, "m", "int", {"protected", "abstract"})},
              {MethodOf(t, "o", "int", {"public"})},
              {MethodOf(t, "f", "int", {"public"})},
              {MethodOf(t, "m", "int", {"public"}), MethodOf(t, "m", "void", {"public"})}}
InterfaceBodies(t) == {{}, {MethodOf(t, "m", "int", {"public"})}}

ClassUnits(t, mods, extended, supers, bodies) ==
    {Unit(FALSE, m \cup {"public"}, e, s, {ConstructorOf(t)} \cup b) :
        m \in mods, e \in extended, s \in supers, b \in bodies}
InterfaceUnits(t, supers, bodies) ==
    {Unit(TRUE, {"public"}, None, s, b) : s \in supers, b \in bodies}

MCLinked == [t \in MCType |->
    CASE t = Object -> {ObjectUnit}
      [] t = A -> ClassUnits(A, {{}, {"abstract"}}, {None, B}, {<<>>, <<I>>}, MoreBodies(A))
                    \cup ClassUnits(A, {{}}, {None}, {<<I, I>>}, {{}})
      [] t = B -> ClassUnits(B, {{}, {"abstract"}, {"final"}}, {None}, {<<>>, <<I>>}, Bodies(B))
                    \cup ClassUnits(B, {{}}, {A}, {<<>>}, {{}})
      [] t = I -> InterfaceUnits(I, {<<>>}, InterfaceBodies(I)
                        \cup {{MethodOf(I, "m", "void", {})}, {MethodOf(I, "o", "int", {"public"})}})
                    \cup InterfaceUnits(I, {<<J>>}, {{}, {MethodOf(I, "m", "void", {})}})
      [] t = J -> InterfaceUnits(J, {<<>>}, InterfaceBodies(J)) \cup InterfaceUnits(J, {<<I>>}, {{}})]
=============================================================================
