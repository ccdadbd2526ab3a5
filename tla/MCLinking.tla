------------------------------ MODULE MCLinking ------------------------------
\* Three units over the packages p, q and p.q and the type names T and q, so
\* that a type can have a package's name; java.lang may have a T of its own.
EXTENDS Disambiguation

MCPackages == {<<>>, <<"p">>, <<"q">>, <<"p", "q">>}
MCTypeNames == {"T", "q"}
MCLangTypes == {[package |-> Lang, name |-> "T", kind |-> "class"]}
MCOnDemand == {Lang, <<"p">>, <<"q">>, <<"p", "q">>}
MCImports == {Append(p, "T") : p \in MCPackages} \cup {<<"q">>, <<"p", "q">>}
MCSupers == {<<"T">>, <<"q", "T">>}
MCNames == {<<"T">>, <<"q">>, <<"p">>, <<"p", "T">>, <<"q", "T">>, <<"p", "q">>, <<"p", "q", "T">>,
            <<"T", "m">>, <<"q", "m">>, <<"q", "T", "m">>}
=============================================================================
