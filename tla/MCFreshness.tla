---------------------------- MODULE MCFreshness ----------------------------
(***************************************************************************)
(* Freshness on a small project: c1 includes h1, which includes h2, and c2 *)
(* includes h2, or h1 instead after an odd edit of it.                     *)
(***************************************************************************)
EXTENDS Freshness

CONSTANTS c1, c2, h1, h2

MCCUs == {c1, c2}
MCHeaders == {h1, h2}
MCIncludes(f, t) ==
    CASE f = c1 -> {h1}
      [] f = h1 -> {h2}
      [] f = c2 -> IF t % 2 = 1 THEN {h1} ELSE {h2}
      [] OTHER -> {}
=============================================================================
