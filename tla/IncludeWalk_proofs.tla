------------------------- MODULE IncludeWalk_proofs -------------------------
(***************************************************************************)
(* The walks of includegraph.c are right for every set of files, every     *)
(* graph and every size of the array.                                      *)
(***************************************************************************)
EXTENDS IncludeWalk, TLAPS

\* The file whose edges are looked at, and those that went before
Expanding == IF at = 0 THEN start ELSE stored[at]
Expanded == {start} \cup {stored[i] : i \in 1..at}

\* Either all that the walk has looked at is stored, or it did not fit, and then
\* something that is reached is not stored, and never will be.
WalkInv ==
    /\ left \subseteq EdgesOfFile(Expanding)
    /\ \A e \in graph \ left : From(e) \in Expanded => To(e) \in Stored \/ count > limit
    /\ count > limit => \E f \in Reached : f \notin Stored

Inv == StoredIsReached /\ WalkInv

-----------------------------------------------------------------------------
(* Reached is the least set that is closed under the edges *)

LEMMA GraphType ==
    ASSUME TypeOK
    PROVE  /\ start \in Files
           /\ \A e \in graph : e \in Edge /\ From(e) \in Files /\ To(e) \in Files
BY WalkAssumption DEF TypeOK, Edge, From, To

LEMMA ReachedIsClosed ==
    ASSUME TypeOK, NEW e \in graph, From(e) = start \/ From(e) \in Reached
    PROVE  To(e) \in Reached
<1>1. To(e) \in Files /\ <<e.includer, e.included>> \in Pairs
  BY GraphType DEF Pairs
<1>2. CASE towards = "included"
  BY <1>1, <1>2 DEF Reached, IncludeClosure, ClosedFrom, From, To
<1>3. CASE towards # "included"
  BY <1>1, <1>3 DEF Reached, IncluderClosure, ClosedTo, From, To
<1> QED
  BY <1>2, <1>3

LEMMA ReachedIsLeast ==
    ASSUME TypeOK, NEW S \in SUBSET Files,
           \A e \in graph : From(e) = start \/ From(e) \in S => To(e) \in S
    PROVE  Reached \subseteq S
<1>1. CASE towards = "included"
  <2>1. S \in ClosedFrom(Files, Pairs, start)
    BY <1>1 DEF ClosedFrom, Pairs, From, To
  <2> QED
    BY <1>1, <2>1 DEF Reached, IncludeClosure
<1>2. CASE towards # "included"
  <2>1. S \in ClosedTo(Files, Pairs, start)
    BY <1>2 DEF ClosedTo, Pairs, From, To
  <2> QED
    BY <1>2, <2>1 DEF Reached, IncluderClosure
<1> QED
  BY <1>1, <1>2

-----------------------------------------------------------------------------
(* Types *)

LEMMA LookAtTypes ==
    ASSUME TypeOK, NEW e \in graph, LookAt(e)
    PROVE  TypeOK'
<1>1. To(e) \in Files /\ count \in Nat /\ limit \in Nat
  BY GraphType, WalkAssumption DEF TypeOK
<1>2. CASE IsCollected(To(e))
  BY <1>2 DEF LookAt, TypeOK, arguments
<1>3. CASE ~IsCollected(To(e)) /\ count < limit
  BY <1>1, <1>3 DEF LookAt, Store, TypeOK, arguments
<1>4. CASE ~IsCollected(To(e)) /\ ~(count < limit)
  BY <1>1, <1>4 DEF LookAt, Store, TypeOK, arguments
<1> QED
  BY <1>2, <1>3, <1>4

LEMMA ExpandTypes ==
    ASSUME TypeOK, Expand
    PROVE  TypeOK'
<1>1. /\ UNCHANGED <<graph, start, limit, towards, stored, count>>
      /\ at' = at + 1 /\ at + 1 <= Len(stored)
      /\ left' = EdgesOfFile(stored[at + 1])
  BY DEF Expand, ToExpand, arguments
<1>2. at' \in 0..Len(stored')
  <2>1. stored \in Seq(Files) /\ at \in 0..Len(stored)
    BY DEF TypeOK
  <2>2. at' = at + 1 /\ at + 1 <= Len(stored) /\ stored' = stored
    BY <1>1
  <2> QED
    BY <2>1, <2>2
<1>3. left' \subseteq graph'
  BY <1>1 DEF EdgesOfFile
<1> QED
  BY <1>1, <1>2, <1>3 DEF TypeOK

\* includegraph.c keeps within the array it is given, for every size of it.
THEOREM WalkTypes == Spec => []TypeOK
<1>1. Init => TypeOK
  BY WalkAssumption DEF Init, TypeOK, EdgesOfFile
<1>2. TypeOK /\ [Next]_vars => TypeOK'
  BY LookAtTypes, ExpandTypes DEF Next, vars, arguments, TypeOK
<1> QED
  BY <1>1, <1>2, PTL DEF Spec

-----------------------------------------------------------------------------
(* The invariant *)

LEMMA InitInv ==
    ASSUME TypeOK, Init
    PROVE  Inv
<1>1. Stored = {} /\ Expanding = start /\ Expanded = {start}
  BY DEF Init, Stored, Expanding, Expanded
<1>2. limit \in Nat
  BY WalkAssumption DEF TypeOK
<1> QED
  BY <1>1, <1>2 DEF Init, Inv, StoredIsReached, WalkInv, EdgesOfFile

LEMMA LookAtInv ==
    ASSUME TypeOK, TypeOK', Inv, NEW e \in graph, LookAt(e)
    PROVE  Inv'
<1> DEFINE t == To(e)
<1>1. /\ UNCHANGED <<graph, start, limit, towards, at>>
      /\ e \in left /\ left' = left \ {e}
      /\ \A d \in graph : From(d)' = From(d) /\ To(d)' = To(d)
  BY DEF LookAt, arguments, From, To
<1>2. Reached' = Reached
  BY <1>1 DEF Reached, Pairs
<1>3. /\ count \in Nat /\ limit \in Nat /\ at \in 0..Len(stored)
      /\ stored \in Seq(Files) /\ t \in Files
  BY GraphType, WalkAssumption DEF TypeOK
<1>4. t \in Reached
  <2>1. From(e) = Expanding
    BY <1>1 DEF Inv, WalkInv, EdgesOfFile
  <2>2. Expanding = start \/ Expanding \in Stored
    BY <1>3 DEF Expanding, Stored
  <2> QED
    BY <2>1, <2>2, ReachedIsClosed DEF Inv, StoredIsReached
<1>5. CASE IsCollected(t)
  <2>1. stored' = stored /\ count' = count
    BY <1>5 DEF LookAt
  <2>2. Stored' = Stored /\ Expanding' = Expanding /\ Expanded' = Expanded
    BY <1>1, <2>1 DEF Stored, Expanding, Expanded
  <2>3. StoredIsReached'
    BY <1>2, <2>1, <2>2 DEF Inv, StoredIsReached
  <2>4. WalkInv'
    BY <1>1, <1>2, <1>5, <2>1, <2>2 DEF Inv, WalkInv, EdgesOfFile, IsCollected
  <2> QED
    BY <2>3, <2>4 DEF Inv
<1>6. CASE ~IsCollected(t) /\ count < limit
  <2>1. stored' = Append(stored, t) /\ count' = count + 1
    BY <1>6 DEF LookAt, Store
  <2>2. /\ Stored' = Stored \cup {t} /\ Len(stored') = Len(stored) + 1
        /\ \A i \in 1..Len(stored) : stored'[i] = stored[i]
        /\ stored'[Len(stored) + 1] = t
    BY <1>3, <2>1 DEF Stored
  <2>3. Expanding' = Expanding /\ Expanded' = Expanded
    BY <1>1, <1>3, <2>2 DEF Expanding, Expanded
  <2>4. StoredIsReached'
    <3>1. Stored' \subseteq Reached'
      BY <1>2, <1>4, <2>2 DEF Inv, StoredIsReached
    <3>2. \A i \in 1..Len(stored) : stored[i] # t
      BY <1>6 DEF IsCollected, Stored
    <3>3. \A i, j \in 1..Len(stored') : stored'[i] = stored'[j] => i = j
      BY <1>3, <2>2, <3>2 DEF Inv, StoredIsReached
    <3> QED
      BY <3>1, <3>3 DEF StoredIsReached
  <2>5. ~(count > limit) /\ ~(count' > limit')
    BY <1>1, <1>3, <1>6, <2>1
  <2>6. WalkInv'
    <3>1. left' \subseteq EdgesOfFile(Expanding)'
      BY <1>1, <2>3 DEF Inv, WalkInv, EdgesOfFile
    <3>2. \A d \in graph' \ left' : From(d)' \in Expanded' => To(d)' \in Stored'
      BY <1>1, <2>2, <2>3, <2>5 DEF Inv, WalkInv
    <3> QED
      BY <2>5, <3>1, <3>2 DEF WalkInv
  <2> QED
    BY <2>4, <2>6 DEF Inv
<1>7. CASE ~IsCollected(t) /\ ~(count < limit)
  <2>1. stored' = stored /\ count' = count + 1
    BY <1>7 DEF LookAt, Store
  <2>2. Stored' = Stored /\ Expanding' = Expanding /\ Expanded' = Expanded
    BY <1>1, <2>1 DEF Stored, Expanding, Expanded
  <2>3. count' > limit'
    BY <1>1, <1>3, <1>7, <2>1
  <2>4. StoredIsReached'
    BY <1>2, <2>1, <2>2 DEF Inv, StoredIsReached
  <2>5. WalkInv'
    <3>1. left' \subseteq EdgesOfFile(Expanding)'
      BY <1>1, <2>2 DEF Inv, WalkInv, EdgesOfFile
    <3>2. t \in Reached' /\ t \notin Stored'
      BY <1>2, <1>4, <1>7, <2>2 DEF IsCollected
    <3> QED
      BY <2>3, <3>1, <3>2 DEF WalkInv
  <2> QED
    BY <2>4, <2>5 DEF Inv
<1> QED
  BY <1>5, <1>6, <1>7

LEMMA ExpandInv ==
    ASSUME TypeOK, TypeOK', Inv, Expand
    PROVE  Inv'
<1>1. /\ UNCHANGED <<graph, start, limit, towards, stored, count>>
      /\ left = {} /\ at' = at + 1 /\ at + 1 <= Len(stored)
      /\ left' = EdgesOfFile(stored[at + 1])
  BY DEF Expand, arguments, ToExpand
<1>2. at \in 0..Len(stored)
  BY DEF TypeOK
<1>3. Stored' = Stored /\ Reached' = Reached /\ \A d \in graph : From(d)' = From(d) /\ To(d)' = To(d)
  BY <1>1 DEF Stored, Reached, Pairs, From, To
<1>4. Expanding' = stored[at + 1] /\ Expanded' = Expanded \cup {stored[at + 1]}
  BY <1>1, <1>2 DEF Expanding, Expanded
<1>5. left' = EdgesOfFile(Expanding)'
  BY <1>1, <1>3, <1>4 DEF EdgesOfFile
<1>6. ASSUME NEW d \in graph' \ left', From(d)' \in Expanded'
      PROVE  To(d)' \in Stored' \/ count' > limit'
  <2>1. From(d) \in Expanded
    BY <1>1, <1>3, <1>4, <1>6 DEF EdgesOfFile
  <2> QED
    BY <1>1, <1>3, <2>1 DEF Inv, WalkInv
<1>7. StoredIsReached'
  BY <1>1, <1>3 DEF Inv, StoredIsReached
<1> QED
  BY <1>1, <1>3, <1>5, <1>6, <1>7 DEF Inv, WalkInv

LEMMA InvImplies ==
    ASSUME TypeOK, Inv
    PROVE  StoredIsReached /\ CutIsSeen
<1> SUFFICES ASSUME Ended PROVE count > limit <=> Stored # Reached
  BY DEF Inv, CutIsSeen
<1>1. CASE count > limit
  BY <1>1 DEF Inv, WalkInv
<1>2. CASE ~(count > limit)
  <2>1. Stored \subseteq Files /\ Expanded = {start} \cup Stored
    BY DEF TypeOK, Ended, Expanded, Stored
  <2>2. \A e \in graph : From(e) = start \/ From(e) \in Stored => To(e) \in Stored
    BY <1>2, <2>1 DEF Ended, Inv, WalkInv
  <2>3. Reached \subseteq Stored
    BY <2>1, <2>2, ReachedIsLeast
  <2> QED
    BY <1>2, <2>3 DEF Inv, StoredIsReached
<1> QED
  BY <1>1, <1>2

LEMMA WalkKeepsInv == Spec => []Inv
<1>1. TypeOK /\ Init => Inv
  BY InitInv
<1>2. TypeOK /\ TypeOK' /\ Inv /\ [Next]_vars => Inv'
  <2>1. CASE UNCHANGED vars
    <3>1. UNCHANGED <<graph, start, limit, towards, stored, count, at, left>>
      BY <2>1 DEF vars, arguments
    <3>2. /\ Stored' = Stored /\ Expanding' = Expanding /\ Expanded' = Expanded
          /\ \A d \in graph : From(d)' = From(d) /\ To(d)' = To(d)
      BY <3>1 DEF Stored, Expanding, Expanded, From, To
    <3>3. Reached' = Reached
      BY <3>1 DEF Reached, Pairs
    <3>4. EdgesOfFile(Expanding)' = EdgesOfFile(Expanding)
      BY <3>1, <3>2 DEF EdgesOfFile
    <3> QED
      BY <3>1, <3>2, <3>3, <3>4 DEF Inv, StoredIsReached, WalkInv
  <2> QED
    BY <2>1, LookAtInv, ExpandInv DEF Next
<1> QED
  BY <1>1, <1>2, WalkTypes, PTL DEF Spec

\* Whatever the array holds, also when it is full and the walk goes on, is reached,
\* and nothing is there twice (collectCUsIncluding() goes on with it).
THEOREM NothingElseIsStored == Spec => []StoredIsReached
<1>1. TypeOK /\ Inv => StoredIsReached
  BY InvImplies
<1> QED
  BY <1>1, WalkKeepsInv, WalkTypes, PTL

\* At the end a walk has either found everything, or its count says that it has not:
\* the comparison of whyOutOfDate() with the size of its array is enough.
THEOREM WalkIsRight == Spec => []CutIsSeen
<1>1. TypeOK /\ Inv => CutIsSeen
  BY InvImplies
<1> QED
  BY <1>1, WalkKeepsInv, WalkTypes, PTL
=============================================================================
