----------------------------- MODULE IncludeWalk -----------------------------
(***************************************************************************)
(* The two walks of includegraph.c, collectIncludeClosure() from includer  *)
(* to included and collectIncluderClosure() the other way: a worklist in   *)
(* an array of limited size, which is also the result, and a count that    *)
(* goes on when the array is full.                                         *)
(*                                                                         *)
(* An edge is there once for the parse that saw the include and once for   *)
(* the scan that did, and the sort by qsort() leaves the edges of a file   *)
(* in no given order.                                                      *)
(*                                                                         *)
(* ToExpandNext, OneMoreStored and IsLastStored are mistaken forms of the  *)
(* definition that follows them, for the properties to catch.              *)
(***************************************************************************)
EXTENDS IncludeGraph, Integers, Sequences

CONSTANTS
    Files,
    Graphs,          \* the graphs to walk: sets of edges
    Limits           \* the sizes of the array: maxFileNumbers

Edge == [includer : Files, included : Files, seen : {"parse", "scan"}]

ASSUME WalkAssumption == Graphs \subseteq SUBSET Edge /\ Limits \subseteq Nat

VARIABLES
    graph, start, limit, towards,   \* the arguments, towards from the function
    stored,                         \* fileNumbers[0..storedCount)
    count,
    at,                             \* how many of the stored are expanded
    left                            \* the edges not yet looked at, of the one that is

arguments == <<graph, start, limit, towards>>
vars == <<arguments, stored, count, at, left>>

From(e) == IF towards = "included" THEN e.includer ELSE e.included
To(e) == IF towards = "included" THEN e.included ELSE e.includer
EdgesOfFile(f) == {e \in graph : From(e) = f}

\* isCollected() looks at what is stored only.
Stored == {stored[i] : i \in 1..Len(stored)}
IsLastStored(f) == stored # <<>> /\ f = stored[Len(stored)]
IsCollected(f) == f \in Stored

Init ==
    /\ graph \in Graphs /\ start \in Files /\ limit \in Limits
    /\ towards \in {"included", "includers"}
    /\ stored = <<>> /\ count = 0
    /\ at = 0 /\ left = EdgesOfFile(start)

\* One turn of the loop of collectIncludedBy() or collectIncludersOf()
OneMoreStored(f) == stored' = IF count <= limit THEN Append(stored, f) ELSE stored
Store(f) == stored' = IF count < limit THEN Append(stored, f) ELSE stored
LookAt(e) ==
    /\ e \in left
    /\ left' = left \ {e}
    /\ IF IsCollected(To(e))
       THEN UNCHANGED <<stored, count>>
       ELSE Store(To(e)) /\ count' = count + 1
    /\ UNCHANGED <<arguments, at>>

\* The outer loop goes on with the next of the stored, while there is one.
ToExpandNext == at + 2
ToExpand == at + 1
Expand ==
    /\ left = {} /\ ToExpand <= Len(stored)
    /\ at' = ToExpand
    /\ left' = EdgesOfFile(stored[ToExpand])
    /\ UNCHANGED <<arguments, stored, count>>

Next == (\E e \in graph : LookAt(e)) \/ Expand

Spec == Init /\ [][Next]_vars

-----------------------------------------------------------------------------
(* Properties *)

Ended == left = {} /\ at = Len(stored)

\* What the walk is for
Pairs == {<<e.includer, e.included>> : e \in graph}
Reached == IF towards = "included" THEN IncludeClosure(Files, Pairs, start)
                                   ELSE IncluderClosure(Files, Pairs, start)

\* The arguments stay what they were, and the count and the array go together, as
\* storedCount() has it.
TypeOK ==
    /\ graph \in Graphs /\ start \in Files /\ limit \in Limits
    /\ towards \in {"included", "includers"}
    /\ stored \in Seq(Files) /\ count \in Nat
    /\ Len(stored) = IF count < limit THEN count ELSE limit
    /\ at \in 0..Len(stored) /\ left \subseteq graph

\* collectCUsIncluding() of rebuild.c, for siblings and let-go headers, goes on with
\* what is stored also when it is cut: all of it is reached, and nothing is there
\* twice.
StoredIsReached ==
    /\ Stored \subseteq Reached
    /\ \A i, j \in 1..Len(stored) : stored[i] = stored[j] => i = j

\* whyOutOfDate() of freshness.c takes a count within the limit to mean that it has
\* every prerequisite, and a greater one that it has not: both are so.  The count
\* itself says no more, since a file that was not stored can be counted twice.
CutIsSeen == Ended => (count > limit <=> Stored # Reached)
=============================================================================
