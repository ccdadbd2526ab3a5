------------------------------ MODULE MCScopes ------------------------------
\* Bodies of MaxItems items, MaxUses of which use a name or omit an
\* initialiser, over two names, the first of which may be a parameter and
\* either a field.
EXTENDS Scopes

MCNames == {"x", "y"}
MCParameters == {"x"}
=============================================================================
