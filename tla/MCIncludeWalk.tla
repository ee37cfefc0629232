--------------------------- MODULE MCIncludeWalk ---------------------------
(***************************************************************************)
(* IncludeWalk over every graph of a CU and two headers that may include   *)
(* each other, one also itself and one also a third, every edge there      *)
(* once or twice, from any file and either way, and with arrays from one   *)
(* that is soon full to one that never is.                                 *)
(***************************************************************************)
EXTENDS IncludeWalk

CONSTANTS c, g, h, k

MCFiles == {c, g, h, k}

Found(pairs, seen) ==
    {[includer |-> p[1], included |-> p[2], seen |-> s] : p \in pairs, s \in seen}
MCGraphs ==
    LET pairs == {<<c, g>>, <<c, h>>, <<g, g>>, <<g, h>>, <<h, g>>, <<h, k>>}
    IN  {Found(p, seen) : p \in SUBSET pairs, seen \in {{"parse"}, {"parse", "scan"}}}
=============================================================================
