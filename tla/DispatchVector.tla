--------------------------- MODULE DispatchVector ---------------------------
(****************************************************************************)
(* Dispatch vectors (dispatch-vector.cc) of an accepted program.  The        *)
(* methods of each type's method_list become a clique of one graph; the      *)
(* graph is coloured greedily in the order of an unordered_map, any order    *)
(* here; the colour of a method is its slot in every dispatch vector and the *)
(* slot a call of it reads.  A class's vector (DV) is built when it is first *)
(* asked for, after its superclass's, and cached.                            *)
(*                                                                          *)
(* neighbours is a set of ordered pairs: a method is a key of the map iff it *)
(* is the first of a pair.  A slot of a DV is the set of the methods written *)
(* to it: the one left is the last in address order, {} is a null slot.      *)
(****************************************************************************)
EXTENDS Hierarchy

CONSTANT Fields      \* the field names each class declares, in order

ASSUME FieldsAssumption == Fields \in [Type -> Seq(STRING)]

VARIABLES phase,       \* "wait", "graph", "colour", "build" or "failed"
          added,       \* the units whose methods are in the graph
          methods, neighbours, colour,   \* DVBuilder::graph
          coloured,    \* the vertices assignColours has passed
          class_dvs    \* the cached vectors

dispatchVars == <<phase, added, methods, neighbours, colour, coloured, class_dvs>>
vars == <<hierarchyVars, dispatchVars>>

Vertices == {e[1] : e \in neighbours}
Neighbours(m) == {n \in Vertices : <<m, n>> \in neighbours}
Virtual(S) == {m \in S : ~m.constructor}

\* One of the two is a method: a constructor is a neighbour, never a method.
Clique(S) == {e \in S \X S : e[1] # e[2] /\ (~e[1].constructor \/ ~e[2].constructor)}

----------------------------------------------------------------------------
DispatchInit == /\ HierarchyInit
                /\ phase = "wait"
                /\ added = 0
                /\ methods = {} /\ neighbours = {} /\ coloured = {}
                /\ colour = [m \in {} |-> 0]
                /\ class_dvs = [c \in {} |-> None]

BeginGraph == /\ phase = "wait" /\ verdict = "accepted"
              /\ phase' = "graph"
              /\ UNCHANGED <<hierarchyVars, added, methods, neighbours, colour,
                             coloured, class_dvs>>

\* The visitor adds the method_list of the next class or interface.
AddMethodsToGraph(t) ==
    /\ phase = "graph" /\ added < Len(Units) /\ t = Units[added + 1]
    /\ methods' = methods \cup Virtual(method_list[t])
    /\ neighbours' = neighbours \cup Clique(method_list[t])
    /\ added' = added + 1
    /\ UNCHANGED <<hierarchyVars, phase, colour, coloured, class_dvs>>

FreeOfOne(m, c) == \E n \in Neighbours(m) : colour[n] # c

\* The least colour of no neighbour; 0 is the colour of an uncoloured vertex.
Free(m, c) == \A n \in Neighbours(m) : colour[n] # c
LeastFree(m, c) == Free(m, c) /\ \A d \in 1..(c - 1) : ~Free(m, d)

FirstStaysUncoloured(m) ==
    /\ phase = "graph" /\ added = Len(Units) /\ m \in Vertices
    /\ colour' = [n \in Vertices |-> 0]
    /\ coloured' = {m}
    /\ phase' = "colour"
    /\ UNCHANGED <<hierarchyVars, added, methods, neighbours, class_dvs>>

\* The first vertex gets colour 1 without looking.
BeginColour(m) ==
    /\ phase = "graph" /\ added = Len(Units) /\ m \in Vertices
    /\ colour' = [n \in Vertices |-> IF n = m THEN 1 ELSE 0]
    /\ coloured' = {m}
    /\ phase' = "colour"
    /\ UNCHANGED <<hierarchyVars, added, methods, neighbours, class_dvs>>

AssignColour(m) ==
    /\ phase = "colour" /\ m \in Vertices \ coloured
    /\ \E c \in 1..(Cardinality(Vertices) + 1) :
         /\ LeastFree(m, c)
         /\ colour' = [colour EXCEPT ![m] = c]
    /\ coloured' = coloured \cup {m}
    /\ UNCHANGED <<hierarchyVars, phase, added, methods, neighbours, class_dvs>>

\* Every method has a colour, and none of its neighbours has the same.
ProperlyColoured == \A m \in methods :
    /\ m \in Vertices /\ colour[m] > 0
    /\ \A n \in Neighbours(m) : colour[n] # colour[m]

AssertColoured ==
    /\ phase = "colour" /\ coloured = Vertices
    /\ phase' = IF ProperlyColoured THEN "build" ELSE "failed"
    /\ UNCHANGED <<hierarchyVars, added, methods, neighbours, colour, coloured, class_dvs>>

ParentFields(c) == IF program[c].extended = None THEN <<>>
                   ELSE class_dvs[program[c].extended].fields
OwnFieldsFirst(c) == [i \in DOMAIN Fields[c] |-> [in |-> c, name |-> Fields[c][i]]] \o ParentFields(c)
FieldVector(c) == ParentFields(c) \o [i \in DOMAIN Fields[c] |-> [in |-> c, name |-> Fields[c][i]]]

OwnSlots(c) ==
    [s \in 0..Max({0} \cup {colour[m] : m \in Virtual(method_list[c])}) |->
        {m \in Declared(c) : colour[m] = s}]

\* Slots run from 0 to the greatest colour, 0 stays null.
DispatchSlots(c) ==
    [s \in 0..Max({0} \cup {colour[m] : m \in Virtual(method_list[c])}) |->
        {m \in Virtual(method_list[c]) : colour[m] = s}]

\* getDV: the recursion for the superclass has come first.
BuildDV(c) ==
    /\ phase = "build" /\ c \in Classes \ DOMAIN class_dvs
    /\ SuperClass(c) \subseteq DOMAIN class_dvs
    /\ class_dvs' = [d \in DOMAIN class_dvs \cup {c} |->
         IF d = c THEN [slots |-> DispatchSlots(c), fields |-> FieldVector(c)]
                  ELSE class_dvs[d]]
    /\ UNCHANGED <<hierarchyVars, phase, added, methods, neighbours, colour, coloured>>

DispatchNext ==
    \/ Visit /\ UNCHANGED dispatchVars
    \/ BeginGraph
    \/ \E t \in Type : AddMethodsToGraph(t)
    \/ \E m \in Vertices : BeginColour(m) \/ AssignColour(m)
    \/ AssertColoured
    \/ \E c \in Type : BuildDV(c)

DispatchSpec == DispatchInit /\ [][DispatchNext]_vars

----------------------------------------------------------------------------
\* Two methods one type declares or inherits never share a slot, in whatever
\* order the vertices are coloured, although a vertex is coloured without
\* looking at the neighbours that come after it, and the first without looking.
SlotsApart ==
    \A t \in ToSet(Units) : \A m, n \in Virtual(method_list[t]) \cap coloured :
        m # n => colour[m] # colour[n]

\* assertColoured holds: in particular no method is without a neighbour, for
\* assignColours would have left it at colour 0.
ColouringSucceeds == phase # "failed"

\* The vector of a class with objects holds, at its own colour, the method that
\* method lookup finds for each signature, and nothing else was written there.
DVHoldsImplementation ==
    \A c \in DOMAIN class_dvs \cap ConcreteClasses :
        \A r \in Members(c) : \A m \in Implementation(c, r.sig) :
            class_dvs[c].slots[colour[m]] = {m}

\* A field is at the same offset in an object whatever class of the object's
\* chain the access is compiled for.
FieldOffsetsAgree ==
    \A c \in DOMAIN class_dvs : \A p \in SuperClasses(c) :
        \A i \in DOMAIN class_dvs[p].fields :
            class_dvs[c].fields[i] = class_dvs[p].fields[i]

\* A call compiled for a static type (ast-to-ir.cc:780, the colour of the method
\* found in that type) runs the object's own implementation of the signature.
CallsReachImplementation ==
    \A c \in DOMAIN class_dvs \cap ConcreteClasses :
        \A t \in {c, Object} \cup Ancestors(c) : \A m \in Virtual(method_list[t]) :
            ~IsStatic(m) =>
                /\ colour[m] \in DOMAIN class_dvs[c].slots
                /\ class_dvs[c].slots[colour[m]] = Implementation(c, m.sig)
=============================================================================
