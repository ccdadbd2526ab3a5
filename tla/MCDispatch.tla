------------------------------ MODULE MCDispatch ------------------------------
(* Object, a class A that may extend B, B, and an interface: overriding,       *)
(* implementing and inheriting, with every order of colouring.                *)
EXTENDS Startup, MCHierarchy

CONSTANTS Value,         \* what a field is declared with that is no object
          MaxMethods     \* bound: the methods of a program that is also started

\* J is not part of these programs.
MCDispatchType == {Object, A, B, I}
MCDispatchUnits == <<Object, I, B, A>>

Plain(t, sigs) == {MethodOf(t, s, "int", {"public"}) : s \in sigs}

MCDispatchLinked == [t \in MCDispatchType |->
    CASE t = Object -> {Unit(FALSE, {"public"}, None, <<>>,
                             {ConstructorOf(Object)} \cup Plain(Object, {"o"}))}
      [] t = A -> ClassUnits(A, {{}}, {B}, {<<>>, <<I>>}, {{}, Plain(A, {"m"}), Plain(A, {"f"})})
      [] t = B -> ClassUnits(B, {{}, {"abstract"}}, {None}, {<<>>, <<I>>},
                             {{}, Plain(B, {"m"}), Plain(B, {"m", "o"})})
      [] t = I -> InterfaceUnits(I, {<<>>}, {Plain(I, {"m"})})]

MCFields == [t \in MCDispatchType |->
                CASE t = B -> <<"x", "y">> [] t = A -> <<"x", "z">> [] OTHER -> <<>>]
MCStatic == [t \in MCDispatchType |->
                CASE t = B -> {"y"} [] t = A -> {"z"} [] OTHER -> {}]
MCNoParameters == {"new"}

\* B's x is given a value.  An object of a later class is created for B's static
\* y, or one of an earlier class for A's static z and each A's x.
GivenBy(y, x, z) == [t \in MCDispatchType |->
    CASE t = B -> [x |-> Value, y |-> y] [] t = A -> [x |-> x, z |-> z] [] OTHER -> <<>>]
MCInitialisers == {GivenBy(A, None, Value), GivenBy(None, Object, B)}

\* B is the library's class too.  32 bytes are a negative number of 6 bits: 4 * 16 are none.
MCArraysClass == B
MCSizes == {-1, 0, 2, 16}
MCIndices == -1..2

MCNext == \/ DispatchNext /\ UNCHANGED startupVars
          \/ Cardinality(methods) <= MaxMethods /\ StartupStep
MCSpec == StartupInit /\ [][MCNext]_allVars
=============================================================================
