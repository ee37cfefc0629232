-------------------------- MODULE MCFreshnessBuild --------------------------
(***************************************************************************)
(* Freshness on a project with more CUs than a request may build: all of   *)
(* them include h1, directly or through h2.                                *)
(***************************************************************************)
EXTENDS Freshness

CONSTANTS c1, c2, c3, h1, h2

MCCUs == {c1, c2, c3}
MCHeaders == {h1, h2}
MCIncludes(f, t) ==
    CASE f \in {c1, c2} -> {h1}
      [] f \in {c3} -> {h2}
      [] f = h2 -> {h1}
      [] OTHER -> {}
=============================================================================
