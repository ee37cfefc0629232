----------------------------- MODULE MCBrowsing -----------------------------
(***************************************************************************)
(* Two CUs that include one header.  A function is defined in both (each   *)
(* is a program) and used in a; the header has a macro of its name, which  *)
(* a uses too.                                                             *)
(***************************************************************************)
EXTENDS Browsing

CONSTANTS a, b, h, name, fun, macro

MCCUs == {a, b}
MCHeaders == {h}
MCIncludes == {<<a, h>>, <<b, h>>}
MCNameOrder == [f \in {a, b, h} |-> CASE f = a -> 1 [] f = b -> 2 [] f = h -> 3]

\* A function and a macro of the same name, so that a push of it lists both
MCItemsOf == [y \in {name} |-> {fun, macro}]
MCFittingOf == [y \in {name} |-> {fun}]
MCShownAt == [y \in {name} |-> [l \in MenuLevels |-> IF l = 0 THEN {fun, macro} ELSE {fun}]]
MCMenuOrder == [i \in {fun, macro} |-> IF i = fun THEN 1 ELSE 2]
MCLinkName == [i \in {fun, macro} |-> name]

\* In the order of the files' numbers, which is not that of their names
MCAddedAt(r) == 10 * (CASE r.file = b -> 1 [] r.file = a -> 2 [] r.file = h -> 3) + r.line

Used == 5
At(line, usage) == [line |-> line, usage |-> usage]
\* Every edit moves what is below it.
MCFound(i, f, t) ==
    CASE i = fun /\ f = b -> {At(3 + t, Defined)}
      [] i = fun /\ f = a -> {At(4 + t, Used), At(6 + t, Defined)}
      [] i = macro /\ f = h -> {At(7 + t, Defined)}
      [] i = macro /\ f = a -> {At(5 + t, Used)}
      [] OTHER -> {}
=============================================================================
