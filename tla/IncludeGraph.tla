---------------------------- MODULE IncludeGraph ----------------------------
(***************************************************************************)
(* What the include graph of includegraph.c answers: the files a file      *)
(* includes, and the files that include it, at any depth.                  *)
(*                                                                         *)
(* An edge is a pair <<includer, included>>.  A closure is stated as the   *)
(* least set closed under the edges, which is what the two worklist walks  *)
(* of includegraph.c compute while they are below their cap.  Module       *)
(* IncludeWalk models the walks themselves and checks them against this.   *)
(***************************************************************************)

\* The edges of files, given the headers each of them includes
EdgesOf(included) ==
    UNION {{<<f, h>> : h \in included[f]} : f \in DOMAIN included}

\* The sets that hold whatever an edge leads to from f or from the set
ClosedFrom(Files, E, f) ==
    {S \in SUBSET Files : \A e \in E : e[1] = f \/ e[1] \in S => e[2] \in S}
ClosedTo(Files, E, f) ==
    {S \in SUBSET Files : \A e \in E : e[2] = f \/ e[2] \in S => e[1] \in S}

\* collectIncludeClosure(): every file reached from f by one edge or more.
\* The file itself is in it only when it includes itself.
IncludeClosure(Files, E, f) ==
    LET closed == ClosedFrom(Files, E, f)
    IN  {g \in Files : \A S \in closed : g \in S}

\* collectIncluderClosure(): every file f is reached from.
IncluderClosure(Files, E, f) ==
    LET closed == ClosedTo(Files, E, f)
    IN  {g \in Files : \A S \in closed : g \in S}
=============================================================================
