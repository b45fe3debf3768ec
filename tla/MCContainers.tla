----------------------------- MODULE MCContainers -----------------------------
\* Six nodes, two of them with the same key; searches below, at, between and
\* above the keys.
EXTENDS Containers

CONSTANTS n1, n2, n3, n4, n5, n6

KeyDef == (n1 :> 2) @@ (n2 :> 4) @@ (n3 :> 4) @@ (n4 :> 6) @@ (n5 :> 8) @@ (n6 :> 10)
ExitDef == <<"A", "X">>
SuffixDef == <<".", "E">>
BoundsDef == {1, 4, 5, 11}
===============================================================================
