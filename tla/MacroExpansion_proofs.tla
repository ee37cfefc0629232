----------------------- MODULE MacroExpansion_proofs -----------------------
(***************************************************************************)
(* The streams and the calls stay nested, no macro is replaced within its  *)
(* own replacement, and what is read, pasted and put in the place of       *)
(* parameters are lexems, for all macros, bodies and texts.                *)
(***************************************************************************)
EXTENDS MacroExpansion, SequenceTheorems, NaturalsInduction, WellFoundedInduction, TLAPS

\* What is in the lexems does not matter here, only that streams and calls are
\* sequences with the fields that tell what they are of
IsList(s) == s \in Seq({s[i] : i \in DOMAIN s})

Stack(s) == IsList(s) /\ \A i \in DOMAIN s : {"of", "type"} \subseteq DOMAIN s[i]
Pending(cs) == IsList(cs) /\ \A k \in DOMAIN cs : {"macro", "phase"} \subseteq DOMAIN cs[k]

\* The file is below all macros
OnFile(s) == Stack(s) /\ s # <<>> /\ s[1].type = "NORMAL_STREAM"

SameStreams(s, t) ==
  /\ Stack(t) /\ Len(t) = Len(s)
  /\ \A i \in 1..Len(s) : t[i].of = s[i].of /\ t[i].type = s[i].type
SameCalls(cs, ds) ==
  /\ Pending(ds) /\ Len(ds) = Len(cs)
  /\ \A k \in 1..Len(cs) : ds[k].macro = cs[k].macro /\ (ds[k].phase = "expand" <=> cs[k].phase = "expand")

InArguments(cs) == cs # <<>> => cs[Len(cs)].phase = "expand"

-----------------------------------------------------------------------------
(* Sequences *)

LEMMA Listed ==
  ASSUME NEW A, NEW s \in Seq(A)
  PROVE  IsList(s)
<1> DEFINE B == {s[i] : i \in DOMAIN s}
<1>1. s \in [1..Len(s) -> A] /\ DOMAIN s = 1..Len(s) /\ Len(s) \in Nat
  BY LenProperties
<1>2. s \in [1..Len(s) -> B]
  BY <1>1
<1>3. s \in UNION {[1..n -> B] : n \in Nat}
  BY <1>1, <1>2
<1> QED
  BY <1>3, SeqDef DEF IsList

LEMMA ListFacts ==
  ASSUME NEW s, IsList(s)
  PROVE  Len(s) \in Nat /\ DOMAIN s = 1..Len(s) /\ (s # <<>> <=> Len(s) > 0)
<1>1. Len(s) \in Nat /\ DOMAIN s = 1..Len(s)
  BY LenProperties DEF IsList
<1>2. s # <<>> => Len(s) \in Nat \ {0}
  BY EmptySeq DEF IsList
<1>3. Len(<<>>) = 0
  BY EmptySeq
<1> QED
  BY <1>1, <1>2, <1>3

LEMMA AppendFacts ==
  ASSUME NEW s, IsList(s), NEW e
  PROVE  /\ IsList(Append(s, e))
         /\ Len(Append(s, e)) = Len(s) + 1
         /\ \A i \in 1..Len(s) : Append(s, e)[i] = s[i]
         /\ Append(s, e)[Len(s) + 1] = e
<1> DEFINE A == {s[i] : i \in DOMAIN s} \cup {e}
<1>1. s \in Seq(A)
  BY SeqMonotonic DEF IsList
<1>2. e \in A
  OBVIOUS
<1> HIDE DEF A
<1>3. Append(s, e) \in Seq(A)
  BY <1>1, <1>2
<1>4. IsList(Append(s, e))
  BY <1>3, Listed
<1> QED
  BY <1>1, <1>2, <1>4

LEMMA FrontFacts ==
  ASSUME NEW s, IsList(s), s # <<>>
  PROVE  /\ IsList(Front(s))
         /\ Len(Front(s)) = Len(s) - 1
         /\ \A i \in 1..(Len(s) - 1) : Front(s)[i] = s[i]
<1> DEFINE A == {s[i] : i \in DOMAIN s}
<1>1. s \in Seq(A)
  BY DEF IsList
<1>2. Len(s) \in Nat \ {0} /\ DOMAIN s = 1..Len(s)
  BY ListFacts
<1> HIDE DEF A
<1>3. \A i \in 1..(Len(s) - 1) : s[i] \in A
  BY <1>1, <1>2, ElementOfSeq
<1>4. /\ SubSeq(s, 1, Len(s) - 1) \in Seq(A)
      /\ Len(SubSeq(s, 1, Len(s) - 1)) = IF 1 <= Len(s) - 1 THEN (Len(s) - 1) - 1 + 1 ELSE 0
      /\ \A i \in 1..((Len(s) - 1) - 1 + 1) : SubSeq(s, 1, Len(s) - 1)[i] = s[1 + i - 1]
  BY <1>2, <1>3, SubSeqProperties
<1>5. Front(s) = SubSeq(s, 1, Len(s) - 1)
  BY DEF Front
<1>6. IsList(Front(s))
  BY <1>4, <1>5, Listed
<1> QED
  BY <1>2, <1>4, <1>5, <1>6

LEMMA ExceptFacts ==
  ASSUME NEW s, IsList(s), NEW i \in 1..Len(s), NEW e
  PROVE  /\ IsList([s EXCEPT ![i] = e])
         /\ Len([s EXCEPT ![i] = e]) = Len(s)
         /\ \A j \in 1..Len(s) : [s EXCEPT ![i] = e][j] = IF j = i THEN e ELSE s[j]
<1> DEFINE A == {s[j] : j \in DOMAIN s} \cup {e}
<1>1. s \in Seq(A)
  BY SeqMonotonic DEF IsList
<1>2. e \in A
  OBVIOUS
<1> HIDE DEF A
<1>3. /\ [s EXCEPT ![i] = e] \in Seq(A)
      /\ Len([s EXCEPT ![i] = e]) = Len(s)
      /\ \A j \in 1 .. Len(s) : [s EXCEPT ![i] = e][j] = IF j=i THEN e ELSE s[j]
  BY <1>1, <1>2, ExceptSeq
<1>4. IsList([s EXCEPT ![i] = e])
  BY <1>3, Listed
<1> QED
  BY <1>3, <1>4

-----------------------------------------------------------------------------
(* What the steps do to the nest of streams and calls *)

LEMMA NestSame ==
  ASSUME NEW s, Stack(s), NEW cs, Pending(cs), Nest(s, cs),
         NEW t, SameStreams(s, t), NEW ds, SameCalls(cs, ds)
  PROVE  Nest(t, ds)
<1>1. DOMAIN t = DOMAIN s /\ DOMAIN s = 1..Len(s)
  BY ListFacts DEF SameStreams, Stack
<1>2. DOMAIN ds = DOMAIN cs /\ DOMAIN cs = 1..Len(cs) /\ Len(ds) = Len(cs)
  BY ListFacts DEF SameCalls, Pending
<1>3. Expanding(ds) = Expanding(cs)
  BY <1>2 DEF Expanding, SameCalls
<1>4. ArgumentStreams(t) = ArgumentStreams(s)
  BY <1>1 DEF ArgumentStreams, SameStreams
<1>5. PICK at \in [Expanding(cs) -> ArgumentStreams(s)] :
        /\ \A i \in ArgumentStreams(s) : \E k \in Expanding(cs) : at[k] = i
        /\ \A j, k \in Expanding(cs) : j < k => at[j] < at[k]
        /\ \A k \in Expanding(cs) : \A i \in 1..(at[k] - 1) : s[i].of # cs[k].macro
  BY DEF Nest
<1>6. \A k \in Expanding(cs) : k \in 1..Len(cs) /\ at[k] \in 1..Len(s)
  BY <1>1, <1>2 DEF Expanding, ArgumentStreams
<1>7. Len(s) \in Nat
  BY ListFacts DEF Stack
<1>8. \A k \in Expanding(ds) : \A i \in 1..(at[k] - 1) : t[i].of # ds[k].macro
  <2> TAKE k \in Expanding(ds)
  <2> TAKE i \in 1..(at[k] - 1)
  <2>1. i \in 1..Len(s) /\ k \in 1..Len(cs)
    BY <1>3, <1>6, <1>7
  <2>2. t[i].of = s[i].of /\ ds[k].macro = cs[k].macro
    BY <2>1 DEF SameStreams, SameCalls
  <2> QED
    BY <1>3, <1>5, <2>2
<1>9. \A k \in DOMAIN ds \ Expanding(ds) : \A i \in DOMAIN t : t[i].of # ds[k].macro
  BY <1>1, <1>2, <1>3 DEF Nest, SameStreams, SameCalls
<1>10. \A k \in DOMAIN ds : k < Len(ds) => k \in Expanding(ds)
  BY <1>2, <1>3 DEF Nest
<1> QED
  BY <1>3, <1>4, <1>5, <1>8, <1>9, <1>10 DEF Nest

\* A body that is left was the argument of no call
LEMMA NestLeave ==
  ASSUME NEW s, Stack(s), s # <<>>, s[Len(s)].type # "MACRO_ARGUMENT_STREAM",
         NEW cs, Pending(cs), Nest(s, cs)
  PROVE  Nest(Front(s), cs)
<1>1. DOMAIN s = 1..Len(s) /\ Len(s) \in Nat \ {0}
  BY ListFacts DEF Stack
<1>2. /\ IsList(Front(s)) /\ Len(Front(s)) = Len(s) - 1
      /\ \A i \in 1..(Len(s) - 1) : Front(s)[i] = s[i]
  BY FrontFacts DEF Stack
<1>3. DOMAIN Front(s) = 1..(Len(s) - 1)
  BY <1>2, ListFacts
<1>4. ArgumentStreams(Front(s)) = ArgumentStreams(s)
  BY <1>1, <1>2, <1>3 DEF ArgumentStreams
<1>5. PICK at \in [Expanding(cs) -> ArgumentStreams(s)] :
        /\ \A i \in ArgumentStreams(s) : \E k \in Expanding(cs) : at[k] = i
        /\ \A j, k \in Expanding(cs) : j < k => at[j] < at[k]
        /\ \A k \in Expanding(cs) : \A i \in 1..(at[k] - 1) : s[i].of # cs[k].macro
  BY DEF Nest
<1>6. \A k \in Expanding(cs) : at[k] \in 1..(Len(s) - 1)
  BY <1>3, <1>4 DEF ArgumentStreams
<1>7. \A k \in Expanding(cs) : \A i \in 1..(at[k] - 1) : Front(s)[i].of # cs[k].macro
  BY <1>1, <1>2, <1>5, <1>6
<1>8. \A k \in DOMAIN cs \ Expanding(cs) : \A i \in DOMAIN Front(s) : Front(s)[i].of # cs[k].macro
  BY <1>1, <1>2, <1>3 DEF Nest
<1> QED
  BY <1>4, <1>5, <1>7, <1>8 DEF Nest

\* A body is entered in the text of the file or of an argument
LEMMA NestEnter ==
  ASSUME NEW s, Stack(s), NEW e, e.type # "MACRO_ARGUMENT_STREAM",
         NEW cs, Pending(cs), InArguments(cs), Nest(s, cs)
  PROVE  Nest(Append(s, e), cs)
<1>1. DOMAIN s = 1..Len(s) /\ Len(s) \in Nat
  BY ListFacts DEF Stack
<1>2. /\ IsList(Append(s, e)) /\ Len(Append(s, e)) = Len(s) + 1
      /\ \A i \in 1..Len(s) : Append(s, e)[i] = s[i]
      /\ Append(s, e)[Len(s) + 1] = e
  BY AppendFacts DEF Stack
<1>3. DOMAIN Append(s, e) = 1..(Len(s) + 1)
  BY <1>2, ListFacts
<1>4. ArgumentStreams(Append(s, e)) = ArgumentStreams(s)
  BY <1>1, <1>2, <1>3 DEF ArgumentStreams
<1>5. PICK at \in [Expanding(cs) -> ArgumentStreams(s)] :
        /\ \A i \in ArgumentStreams(s) : \E k \in Expanding(cs) : at[k] = i
        /\ \A j, k \in Expanding(cs) : j < k => at[j] < at[k]
        /\ \A k \in Expanding(cs) : \A i \in 1..(at[k] - 1) : s[i].of # cs[k].macro
  BY DEF Nest
<1>6. \A k \in Expanding(cs) : at[k] \in 1..Len(s)
  BY <1>1 DEF ArgumentStreams
<1>7. \A k \in Expanding(cs) : \A i \in 1..(at[k] - 1) : Append(s, e)[i].of # cs[k].macro
  BY <1>1, <1>2, <1>5, <1>6
<1>8. DOMAIN cs \ Expanding(cs) = {}
  <2>1. DOMAIN cs = 1..Len(cs) /\ Len(cs) \in Nat /\ (cs # <<>> <=> Len(cs) > 0)
    BY ListFacts DEF Pending
  <2>2. \A k \in DOMAIN cs : k \in Expanding(cs)
    BY <2>1 DEF Nest, InArguments, Expanding
  <2> QED
    BY <2>2
<1> QED
  BY <1>4, <1>5, <1>7, <1>8 DEF Nest

\* A call begins
LEMMA NestBegin ==
  ASSUME NEW s, Stack(s), NEW cs, Pending(cs), InArguments(cs), Nest(s, cs),
         NEW c, c.phase # "expand", \A i \in DOMAIN s : s[i].of # c.macro
  PROVE  Nest(s, Append(cs, c))
<1> DEFINE ds == Append(cs, c)
<1>1. DOMAIN cs = 1..Len(cs) /\ Len(cs) \in Nat /\ (cs # <<>> <=> Len(cs) > 0)
  BY ListFacts DEF Pending
<1>2. /\ IsList(ds) /\ Len(ds) = Len(cs) + 1
      /\ \A k \in 1..Len(cs) : ds[k] = cs[k]
      /\ ds[Len(cs) + 1] = c
  BY AppendFacts DEF Pending
<1>3. DOMAIN ds = 1..(Len(cs) + 1)
  BY <1>2, ListFacts
<1> HIDE DEF ds
<1>4. Expanding(ds) = Expanding(cs)
  BY <1>1, <1>2, <1>3 DEF Expanding
<1>5. \A k \in DOMAIN cs : k \in Expanding(cs)
  BY <1>1 DEF Nest, InArguments, Expanding
<1>6. \A k \in Expanding(cs) : ds[k].macro = cs[k].macro
  BY <1>1, <1>2 DEF Expanding
<1>7. \A k \in DOMAIN ds : k < Len(ds) => k \in Expanding(cs)
  BY <1>1, <1>2, <1>3, <1>5
<1>8. \A k \in DOMAIN ds \ Expanding(cs) : k = Len(cs) + 1
  BY <1>1, <1>3, <1>5
<1>9. PICK at \in [Expanding(cs) -> ArgumentStreams(s)] :
        /\ \A i \in ArgumentStreams(s) : \E k \in Expanding(cs) : at[k] = i
        /\ \A j, k \in Expanding(cs) : j < k => at[j] < at[k]
        /\ \A k \in Expanding(cs) : \A i \in 1..(at[k] - 1) : s[i].of # cs[k].macro
  BY DEF Nest
<1>10. \A k \in Expanding(cs) : \A i \in 1..(at[k] - 1) : s[i].of # ds[k].macro
  BY <1>6, <1>9
<1>11. \A k \in DOMAIN ds \ Expanding(cs) : \A i \in DOMAIN s : s[i].of # ds[k].macro
  BY <1>2, <1>8
<1>12. Nest(s, ds)
  BY <1>4, <1>7, <1>9, <1>10, <1>11 DEF Nest
<1> QED
  BY <1>12 DEF ds

\* A call that reads is over
LEMMA NestDrop ==
  ASSUME NEW s, Stack(s), NEW cs, Pending(cs), cs # <<>>, ~InArguments(cs), Nest(s, cs)
  PROVE  /\ Nest(s, Front(cs)) /\ InArguments(Front(cs))
         /\ \A i \in DOMAIN s : s[i].of # cs[Len(cs)].macro
<1>1. DOMAIN cs = 1..Len(cs) /\ Len(cs) \in Nat \ {0}
  BY ListFacts DEF Pending
<1>2. /\ IsList(Front(cs)) /\ Len(Front(cs)) = Len(cs) - 1
      /\ \A k \in 1..(Len(cs) - 1) : Front(cs)[k] = cs[k]
  BY FrontFacts DEF Pending
<1>3. DOMAIN Front(cs) = 1..(Len(cs) - 1)
  BY <1>2, ListFacts
<1>4. Len(cs) \in DOMAIN cs \ Expanding(cs)
  BY <1>1 DEF Expanding, InArguments
<1>5. Expanding(Front(cs)) = Expanding(cs)
  BY <1>1, <1>2, <1>3, <1>4 DEF Expanding
<1>6. \A k \in Expanding(cs) : k \in 1..(Len(cs) - 1) /\ Front(cs)[k].macro = cs[k].macro
  BY <1>1, <1>2, <1>4 DEF Expanding
<1>7. DOMAIN Front(cs) \ Expanding(cs) = {}
  BY <1>1, <1>3 DEF Nest
<1>8. PICK at \in [Expanding(cs) -> ArgumentStreams(s)] :
        /\ \A i \in ArgumentStreams(s) : \E k \in Expanding(cs) : at[k] = i
        /\ \A j, k \in Expanding(cs) : j < k => at[j] < at[k]
        /\ \A k \in Expanding(cs) : \A i \in 1..(at[k] - 1) : s[i].of # cs[k].macro
  BY DEF Nest
<1>9. \A k \in Expanding(cs) : \A i \in 1..(at[k] - 1) : s[i].of # Front(cs)[k].macro
  BY <1>6, <1>8
<1>10. Nest(s, Front(cs))
  BY <1>5, <1>7, <1>8, <1>9 DEF Nest
<1>11. InArguments(Front(cs))
  <2> SUFFICES ASSUME Front(cs) # <<>> PROVE Front(cs)[Len(Front(cs))].phase = "expand"
    BY DEF InArguments
  <2>1. Len(Front(cs)) \in 1..(Len(cs) - 1)
    BY <1>1, <1>2, ListFacts
  <2>2. Len(Front(cs)) \in Expanding(cs)
    BY <1>3, <1>7, <2>1
  <2> QED
    BY <1>2, <2>1, <2>2 DEF Expanding
<1>12. \A i \in DOMAIN s : s[i].of # cs[Len(cs)].macro
  BY <1>4 DEF Nest
<1> QED
  BY <1>10, <1>11, <1>12

\* The expansion of the arguments of a call begins
LEMMA NestArgument ==
  ASSUME NEW s, Stack(s), NEW e, e.type = "MACRO_ARGUMENT_STREAM",
         NEW cs, Pending(cs), InArguments(cs), Nest(s, cs),
         NEW c, c.phase = "expand", \A i \in DOMAIN s : s[i].of # c.macro
  PROVE  Nest(Append(s, e), Append(cs, c))
<1> DEFINE t == Append(s, e)
           ds == Append(cs, c)
           n == Len(s) + 1
           m == Len(cs) + 1
<1>1. DOMAIN s = 1..Len(s) /\ Len(s) \in Nat
  BY ListFacts DEF Stack
<1>2. IsList(t) /\ Len(t) = n /\ (\A i \in 1..Len(s) : t[i] = s[i]) /\ t[n] = e
  BY AppendFacts DEF Stack
<1>3. DOMAIN cs = 1..Len(cs) /\ Len(cs) \in Nat /\ (cs # <<>> <=> Len(cs) > 0)
  BY ListFacts DEF Pending
<1>4. IsList(ds) /\ Len(ds) = m /\ (\A k \in 1..Len(cs) : ds[k] = cs[k]) /\ ds[m] = c
  BY AppendFacts DEF Pending
<1>5. DOMAIN t = 1..n /\ DOMAIN ds = 1..m
  BY <1>2, <1>4, ListFacts
<1> HIDE DEF t, ds
<1>6. \A k \in DOMAIN cs : k \in Expanding(cs)
  BY <1>3 DEF Nest, InArguments, Expanding
<1>7. Expanding(cs) = 1..Len(cs) /\ Expanding(ds) = 1..m
  <2>1. Expanding(cs) = 1..Len(cs)
    BY <1>3, <1>6 DEF Expanding
  <2>2. \A k \in 1..m : ds[k].phase = "expand"
    BY <1>3, <1>4, <1>6 DEF Expanding
  <2> QED
    BY <1>5, <2>1, <2>2 DEF Expanding
<1>8. ArgumentStreams(t) = ArgumentStreams(s) \cup {n}
  BY <1>1, <1>2, <1>5 DEF ArgumentStreams
<1>9. PICK at \in [Expanding(cs) -> ArgumentStreams(s)] :
        /\ \A i \in ArgumentStreams(s) : \E k \in Expanding(cs) : at[k] = i
        /\ \A j, k \in Expanding(cs) : j < k => at[j] < at[k]
        /\ \A k \in Expanding(cs) : \A i \in 1..(at[k] - 1) : s[i].of # cs[k].macro
  BY DEF Nest
<1> DEFINE too == [k \in 1..m |-> IF k = m THEN n ELSE at[k]]
<1>10. \A k \in 1..m : k # m => k \in Expanding(cs) /\ k \in 1..Len(cs)
  BY <1>3, <1>7
<1>11. \A k \in Expanding(cs) : at[k] \in 1..Len(s) /\ at[k] \in ArgumentStreams(s)
  BY <1>1, <1>9 DEF ArgumentStreams
<1>12. too \in [Expanding(ds) -> ArgumentStreams(t)]
  BY <1>7, <1>8, <1>10, <1>11
<1>13. \A i \in ArgumentStreams(t) : \E k \in Expanding(ds) : too[k] = i
  <2> TAKE i \in ArgumentStreams(t)
  <2>1. CASE i = n
    BY <1>3, <1>7, <2>1
  <2>2. CASE i # n
    <3>1. PICK k \in Expanding(cs) : at[k] = i
      BY <1>8, <1>9, <2>2
    <3>2. k \in 1..m /\ k # m
      BY <1>3, <1>7, <3>1
    <3> QED
      BY <1>7, <3>1, <3>2
  <2> QED
    BY <2>1, <2>2
<1>14. \A j, k \in Expanding(ds) : j < k => too[j] < too[k]
  <2> SUFFICES ASSUME NEW j \in 1..m, NEW k \in 1..m, j < k PROVE too[j] < too[k]
    BY <1>7
  <2>1. j # m /\ j \in Expanding(cs)
    BY <1>3, <1>10
  <2>2. CASE k = m
    BY <1>1, <1>11, <2>1, <2>2
  <2>3. CASE k # m
    BY <1>9, <1>10, <2>1, <2>3
  <2> QED
    BY <2>2, <2>3
<1>15. \A k \in Expanding(ds) : \A i \in 1..(too[k] - 1) : t[i].of # ds[k].macro
  <2> SUFFICES ASSUME NEW k \in 1..m, NEW i \in 1..(too[k] - 1) PROVE t[i].of # ds[k].macro
    BY <1>7
  <2>1. CASE k = m
    BY <1>1, <1>2, <1>4, <2>1
  <2>2. CASE k # m
    <3>1. k \in Expanding(cs) /\ k \in 1..Len(cs) /\ too[k] = at[k]
      BY <1>10, <2>2
    <3>2. i \in 1..(at[k] - 1) /\ i \in 1..Len(s)
      BY <1>1, <1>11, <3>1
    <3> QED
      BY <1>2, <1>4, <1>9, <3>1, <3>2
  <2> QED
    BY <2>1, <2>2
<1>16. \A k \in DOMAIN ds : k \in Expanding(ds)
  BY <1>5, <1>7
<1> HIDE DEF too
<1>17. Nest(t, ds)
  BY <1>12, <1>13, <1>14, <1>15, <1>16 DEF Nest
<1> QED
  BY <1>17 DEF t, ds

\* The argument on top of the streams is that of the innermost call
LEMMA NestReturn ==
  ASSUME NEW s, Stack(s), s # <<>>, s[Len(s)].type = "MACRO_ARGUMENT_STREAM",
         NEW cs, Pending(cs), cs # <<>>, InArguments(cs), Nest(s, cs)
  PROVE  /\ Nest(Front(s), Front(cs)) /\ InArguments(Front(cs))
         /\ \A i \in DOMAIN Front(s) : Front(s)[i].of # cs[Len(cs)].macro
<1> DEFINE t == Front(s)
           ds == Front(cs)
           n == Len(s)
           m == Len(cs)
<1>1. DOMAIN s = 1..n /\ n \in Nat \ {0}
  BY ListFacts DEF Stack
<1>2. IsList(t) /\ Len(t) = n - 1 /\ \A i \in 1..(n - 1) : t[i] = s[i]
  BY FrontFacts DEF Stack
<1>3. DOMAIN cs = 1..m /\ m \in Nat \ {0}
  BY ListFacts DEF Pending
<1>4. IsList(ds) /\ Len(ds) = m - 1 /\ \A k \in 1..(m - 1) : ds[k] = cs[k]
  BY FrontFacts DEF Pending
<1>5. DOMAIN t = 1..(n - 1) /\ DOMAIN ds = 1..(m - 1) /\ (ds # <<>> <=> Len(ds) > 0)
  BY <1>2, <1>4, ListFacts
<1> HIDE DEF t, ds
<1>6. \A k \in DOMAIN cs : k \in Expanding(cs)
  BY <1>3 DEF Nest, InArguments, Expanding
<1>7. Expanding(cs) = 1..m /\ Expanding(ds) = 1..(m - 1)
  <2>1. Expanding(cs) = 1..m
    BY <1>3, <1>6 DEF Expanding
  <2>2. \A k \in 1..(m - 1) : ds[k].phase = "expand"
    BY <1>3, <1>4, <1>6 DEF Expanding
  <2> QED
    BY <1>5, <2>1, <2>2 DEF Expanding
<1>8. ArgumentStreams(t) = ArgumentStreams(s) \ {n} /\ n \in ArgumentStreams(s)
  BY <1>1, <1>2, <1>5 DEF ArgumentStreams
<1>9. PICK at \in [Expanding(cs) -> ArgumentStreams(s)] :
        /\ \A i \in ArgumentStreams(s) : \E k \in Expanding(cs) : at[k] = i
        /\ \A j, k \in Expanding(cs) : j < k => at[j] < at[k]
        /\ \A k \in Expanding(cs) : \A i \in 1..(at[k] - 1) : s[i].of # cs[k].macro
  BY DEF Nest
<1>10. \A k \in 1..m : at[k] \in 1..n /\ at[k] \in ArgumentStreams(s)
  BY <1>1, <1>7, <1>9 DEF ArgumentStreams
<1>11. at[m] = n
  <2>1. PICK k \in 1..m : at[k] = n
    BY <1>7, <1>8, <1>9
  <2>2. CASE k # m
    <3>1. k < m /\ m \in 1..m
      <4>1. m \in Nat /\ m >= 1 /\ k \in Nat /\ k <= m
        BY <1>3, <2>1
      <4> QED
        BY <2>2, <4>1
    <3>2. at[k] < at[m]
      BY <1>7, <1>9, <3>1
    <3> QED
      BY <1>1, <1>10, <2>1, <3>1, <3>2
  <2> QED
    BY <2>1, <2>2
<1> DEFINE still == [k \in 1..(m - 1) |-> at[k]]
<1>12. \A k \in 1..(m - 1) : k \in 1..m /\ k < m /\ m \in 1..m /\ at[k] # n
  <2> TAKE k \in 1..(m - 1)
  <2>1. k \in 1..m /\ k < m /\ m \in 1..m
    BY <1>3
  <2>2. at[k] < at[m]
    BY <1>7, <1>9, <2>1
  <2> QED
    BY <1>1, <1>10, <1>11, <2>1, <2>2
<1>13. still \in [Expanding(ds) -> ArgumentStreams(t)]
  BY <1>7, <1>8, <1>10, <1>12
<1>14. \A i \in ArgumentStreams(t) : \E k \in Expanding(ds) : still[k] = i
  <2> TAKE i \in ArgumentStreams(t)
  <2>1. PICK k \in 1..m : at[k] = i
    BY <1>7, <1>8, <1>9
  <2>2. k # m
    BY <1>8, <1>11, <2>1
  <2>3. k \in 1..(m - 1)
    <3>1. m \in Nat /\ m >= 1 /\ k \in Nat /\ k >= 1 /\ k <= m
      BY <1>3, <2>1
    <3> QED
      BY <2>2, <3>1
  <2> QED
    BY <1>7, <2>1, <2>3
<1>15. \A j, k \in Expanding(ds) : j < k => still[j] < still[k]
  BY <1>7, <1>9, <1>12
<1>16. \A k \in Expanding(ds) : \A i \in 1..(still[k] - 1) : t[i].of # ds[k].macro
  <2> SUFFICES ASSUME NEW k \in 1..(m - 1), NEW i \in 1..(at[k] - 1) PROVE t[i].of # ds[k].macro
    BY <1>7
  <2>1. k \in Expanding(cs) /\ i \in 1..(n - 1)
    BY <1>1, <1>7, <1>10, <1>12
  <2> QED
    BY <1>2, <1>4, <1>9, <2>1
<1>17. \A k \in DOMAIN ds : k \in Expanding(ds)
  BY <1>5, <1>7
<1>18. Nest(t, ds)
  <2> HIDE DEF still
  <2> QED
    BY <1>13, <1>14, <1>15, <1>16, <1>17 DEF Nest
<1>19. InArguments(ds)
  BY <1>3, <1>4, <1>5, <1>17 DEF InArguments, Expanding
<1>20. \A i \in DOMAIN t : t[i].of # cs[m].macro
  <2> TAKE i \in DOMAIN t
  <2>1. i \in 1..(at[m] - 1) /\ m \in Expanding(cs) /\ i \in 1..(n - 1)
    BY <1>3, <1>5, <1>7, <1>11
  <2> QED
    BY <1>2, <1>9, <2>1
<1> QED
  BY <1>18, <1>19, <1>20 DEF t, ds

-----------------------------------------------------------------------------
(* Stacks and pending calls *)

LEMMA StackFront ==
  ASSUME NEW s, OnFile(s), s[Len(s)].type # "NORMAL_STREAM"
  PROVE  OnFile(Front(s))
<1>1. DOMAIN s = 1..Len(s) /\ Len(s) \in Nat \ {0}
  BY ListFacts DEF OnFile, Stack
<1>2. Len(s) # 1
  BY DEF OnFile
<1>3. /\ IsList(Front(s)) /\ Len(Front(s)) = Len(s) - 1
      /\ \A i \in 1..(Len(s) - 1) : Front(s)[i] = s[i]
  BY FrontFacts DEF OnFile, Stack
<1>4. DOMAIN Front(s) = 1..(Len(s) - 1) /\ Front(s) # <<>>
  BY <1>1, <1>2, <1>3, ListFacts
<1>5. Front(s)[1] = s[1]
  BY <1>1, <1>2, <1>3
<1> QED
  BY <1>1, <1>3, <1>4, <1>5 DEF OnFile, Stack

LEMMA StackAppend ==
  ASSUME NEW s, OnFile(s), NEW e, {"of", "type"} \subseteq DOMAIN e
  PROVE  OnFile(Append(s, e))
<1>1. DOMAIN s = 1..Len(s) /\ Len(s) \in Nat \ {0}
  BY ListFacts DEF OnFile, Stack
<1>2. /\ IsList(Append(s, e)) /\ Len(Append(s, e)) = Len(s) + 1
      /\ \A i \in 1..Len(s) : Append(s, e)[i] = s[i]
      /\ Append(s, e)[Len(s) + 1] = e
  BY AppendFacts DEF OnFile, Stack
<1>3. DOMAIN Append(s, e) = 1..(Len(s) + 1) /\ Append(s, e) # <<>>
  BY <1>1, <1>2, ListFacts
<1> QED
  BY <1>1, <1>2, <1>3 DEF OnFile, Stack

LEMMA PendingFront ==
  ASSUME NEW cs, Pending(cs), cs # <<>>
  PROVE  Pending(Front(cs))
<1>1. DOMAIN cs = 1..Len(cs) /\ Len(cs) \in Nat \ {0}
  BY ListFacts DEF Pending
<1>2. /\ IsList(Front(cs)) /\ Len(Front(cs)) = Len(cs) - 1
      /\ \A i \in 1..(Len(cs) - 1) : Front(cs)[i] = cs[i]
  BY FrontFacts DEF Pending
<1>3. DOMAIN Front(cs) = 1..(Len(cs) - 1)
  BY <1>2, ListFacts
<1> QED
  BY <1>1, <1>2, <1>3 DEF Pending

LEMMA PendingAppend ==
  ASSUME NEW cs, Pending(cs), NEW c, {"macro", "phase"} \subseteq DOMAIN c
  PROVE  Pending(Append(cs, c))
<1>1. DOMAIN cs = 1..Len(cs) /\ Len(cs) \in Nat
  BY ListFacts DEF Pending
<1>2. /\ IsList(Append(cs, c)) /\ Len(Append(cs, c)) = Len(cs) + 1
      /\ \A i \in 1..Len(cs) : Append(cs, c)[i] = cs[i]
      /\ Append(cs, c)[Len(cs) + 1] = c
  BY AppendFacts DEF Pending
<1>3. DOMAIN Append(cs, c) = 1..(Len(cs) + 1)
  BY <1>2, ListFacts
<1> QED
  BY <1>1, <1>2, <1>3 DEF Pending

\* The innermost call goes on, and is still reading or still not
LEMMA PendingExcept ==
  ASSUME NEW cs, Pending(cs), cs # <<>>, NEW c, {"macro", "phase"} \subseteq DOMAIN c,
         c.macro = cs[Len(cs)].macro, c.phase = "expand" <=> cs[Len(cs)].phase = "expand"
  PROVE  SameCalls(cs, [cs EXCEPT ![Len(cs)] = c])
<1>1. DOMAIN cs = 1..Len(cs) /\ Len(cs) \in 1..Len(cs)
  BY ListFacts DEF Pending
<1> DEFINE ds == [cs EXCEPT ![Len(cs)] = c]
<1>2. /\ IsList(ds) /\ Len(ds) = Len(cs)
      /\ \A j \in 1..Len(cs) : ds[j] = IF j = Len(cs) THEN c ELSE cs[j]
  BY <1>1, ExceptFacts DEF Pending
<1>3. DOMAIN ds = 1..Len(cs)
  BY <1>2, ListFacts
<1> HIDE DEF ds
<1>4. SameCalls(cs, ds)
  BY <1>1, <1>2, <1>3 DEF Pending, SameCalls
<1> QED
  BY <1>4 DEF ds

\* The stream on top is read on from
LEMMA StackExcept ==
  ASSUME NEW s, OnFile(s), NEW e, {"of", "type"} \subseteq DOMAIN e,
         e.of = s[Len(s)].of, e.type = s[Len(s)].type
  PROVE  SameStreams(s, [s EXCEPT ![Len(s)] = e])
<1>1. DOMAIN s = 1..Len(s) /\ Len(s) \in 1..Len(s)
  BY ListFacts DEF OnFile, Stack
<1> DEFINE t == [s EXCEPT ![Len(s)] = e]
<1>2. /\ IsList(t) /\ Len(t) = Len(s)
      /\ \A j \in 1..Len(s) : t[j] = IF j = Len(s) THEN e ELSE s[j]
  BY <1>1, ExceptFacts DEF OnFile, Stack
<1>3. DOMAIN t = 1..Len(s)
  BY <1>2, ListFacts
<1> HIDE DEF t
<1>4. SameStreams(s, t)
  BY <1>1, <1>2, <1>3 DEF OnFile, Stack, SameStreams
<1> QED
  BY <1>4 DEF t

LEMMA SameOnFile ==
  ASSUME NEW s, OnFile(s), NEW t, SameStreams(s, t)
  PROVE  OnFile(t) /\ DOMAIN t = DOMAIN s /\ \A i \in DOMAIN s : t[i].of = s[i].of /\ t[i].type = s[i].type
<1>1. DOMAIN s = 1..Len(s) /\ Len(s) \in Nat \ {0}
  BY ListFacts DEF OnFile, Stack
<1>2. DOMAIN t = 1..Len(t) /\ (t # <<>> <=> Len(t) > 0)
  BY ListFacts DEF SameStreams, Stack
<1> QED
  BY <1>1, <1>2 DEF OnFile, SameStreams

-----------------------------------------------------------------------------
(* Names apart *)

Apart(s) ==
  \A i, j \in DOMAIN s :
    s[i].type = "MACRO_STREAM" /\ s[j].type = "MACRO_STREAM" /\ s[i].of = s[j].of => i = j

LEMMA ApartSame ==
  ASSUME NEW s, OnFile(s), Apart(s), NEW t, SameStreams(s, t)
  PROVE  Apart(t)
BY SameOnFile DEF Apart

LEMMA ApartFront ==
  ASSUME NEW s, OnFile(s), Apart(s)
  PROVE  Apart(Front(s))
<1>1. DOMAIN s = 1..Len(s) /\ Len(s) \in Nat \ {0}
  BY ListFacts DEF OnFile, Stack
<1>2. /\ IsList(Front(s)) /\ Len(Front(s)) = Len(s) - 1
      /\ \A i \in 1..(Len(s) - 1) : Front(s)[i] = s[i]
  BY FrontFacts DEF OnFile, Stack
<1>3. DOMAIN Front(s) = 1..(Len(s) - 1)
  BY <1>2, ListFacts
<1>4. \A i \in DOMAIN Front(s) : i \in DOMAIN s
  BY <1>1, <1>3
<1> QED
  BY <1>2, <1>3, <1>4 DEF Apart

LEMMA ApartAppend ==
  ASSUME NEW s, OnFile(s), Apart(s), NEW e,
         e.type = "MACRO_STREAM" => \A i \in DOMAIN s : s[i].of # e.of
  PROVE  Apart(Append(s, e))
<1> DEFINE t == Append(s, e)
<1>1. DOMAIN s = 1..Len(s) /\ Len(s) \in Nat \ {0}
  BY ListFacts DEF OnFile, Stack
<1>2. IsList(t) /\ Len(t) = Len(s) + 1 /\ (\A i \in 1..Len(s) : t[i] = s[i]) /\ t[Len(s) + 1] = e
  BY AppendFacts DEF OnFile, Stack
<1>3. DOMAIN t = 1..(Len(s) + 1)
  BY <1>2, ListFacts
<1> HIDE DEF t
<1>4. \A i \in DOMAIN t : i = Len(s) + 1 \/ i \in DOMAIN s
  BY <1>1, <1>3
<1>5. Apart(t)
  BY <1>1, <1>2, <1>4 DEF Apart
<1> QED
  BY <1>5 DEF t

-----------------------------------------------------------------------------
(* The steps *)

Inv == /\ OnFile(streams)
       /\ Pending(calls)
       /\ CallsNest
       /\ NeverInItself

LEMMA Itself ==
  ASSUME NEW s, OnFile(s)
  PROVE  SameStreams(s, s)
BY ListFacts DEF OnFile, Stack, SameStreams

LEMMA AdvancedSame ==
  ASSUME OnFile(streams), NEW lexems
  PROVE  SameStreams(streams, [streams EXCEPT ![Len(streams)].lexems = lexems])
<1> DEFINE e == [streams[Len(streams)] EXCEPT !.lexems = lexems]
<1>1. Len(streams) \in DOMAIN streams
  BY ListFacts DEF OnFile, Stack
<1>2. {"of", "type"} \subseteq DOMAIN streams[Len(streams)]
  BY <1>1 DEF OnFile, Stack
<1>3. {"of", "type"} \subseteq DOMAIN e /\ e.of = streams[Len(streams)].of /\ e.type = streams[Len(streams)].type
  BY <1>2
<1> HIDE DEF e
<1>4. SameStreams(streams, [streams EXCEPT ![Len(streams)] = e])
  BY <1>3, StackExcept
<1> QED
  BY <1>4 DEF e

LEMMA ReadsSame ==
  ASSUME OnFile(streams), NEW r \in Reads
  PROVE  SameStreams(streams, r.before) /\ SameStreams(streams, r.after)
<1> DEFINE c == Current(streams)
           Advanced(lexems) == [streams EXCEPT ![Len(streams)].lexems = lexems]
           Read(lexem, before, after, file) == [lexem |-> lexem, before |-> before, after |-> after, file |-> file]
<1>1. \A lexems : SameStreams(streams, Advanced(lexems))
  BY AdvancedSame
<1>2. SameStreams(streams, streams)
  BY Itself
<1>3. CASE c.lexems # <<>>
  <2>1. Reads = {Read(Head(c.lexems), streams, Advanced(Tail(c.lexems)), text)}
    BY <1>3 DEF Reads
  <2>2. r.before = streams /\ r.after = Advanced(Tail(c.lexems))
    BY <2>1
  <2> QED
    BY <1>1, <1>2, <2>2, SMTT(30)
<1>4. CASE c.lexems = <<>> /\ c.type = "MACRO_ARGUMENT_STREAM"
  <2>1. Reads = {Read(EndOfArgument, streams, streams, text)}
    BY <1>4 DEF Reads
  <2> QED
    BY <1>2, <2>1
<1>5. CASE c.lexems = <<>> /\ c.type = "NORMAL_STREAM"
  <2>1. CASE text # <<>> /\ Last(text) = EndOfFile
    <3>1. Reads = {Read(EndOfFile, streams, streams, text)}
      BY <1>5, <2>1 DEF Reads
    <3> QED
      BY <1>2, <3>1
  <2>2. CASE ~(text # <<>> /\ Last(text) = EndOfFile)
    <3>1. Reads = {Read(l, IF l = EndOfFile THEN streams ELSE Advanced(<<l>>), streams, Append(text, l)) : l \in FileHas}
      BY <1>5, <2>2 DEF Reads
    <3> HIDE DEF Advanced
    <3>2. PICK l \in FileHas : r = Read(l, IF l = EndOfFile THEN streams ELSE Advanced(<<l>>), streams, Append(text, l))
      BY <3>1
    <3>3. r.before \in {streams, Advanced(<<l>>)} /\ r.after = streams
      BY <3>2
    <3> QED
      BY <1>1, <1>2, <3>3
  <2> QED
    BY <2>1, <2>2
<1>6. CASE c.lexems = <<>> /\ c.type \notin {"NORMAL_STREAM", "MACRO_ARGUMENT_STREAM"}
  BY <1>6 DEF Reads
<1> QED
  BY <1>3, <1>4, <1>5, <1>6

LEMMA GiveSame ==
  ASSUME NEW lexem, NEW cs, Pending(cs), Give(lexem, cs)
  PROVE  SameCalls(cs, calls')
<1>1. CASE cs = <<>>
  <2>1. calls' = cs
    BY <1>1 DEF Give
  <2> QED
    BY <2>1, ListFacts DEF SameCalls, Pending
<1>2. CASE cs # <<>>
  <2> DEFINE c == [cs[Len(cs)] EXCEPT !.buffer = Append(@, lexem)]
  <2>1. Len(cs) \in DOMAIN cs
    BY <1>2, ListFacts DEF Pending
  <2>2. {"macro", "phase"} \subseteq DOMAIN cs[Len(cs)]
    BY <2>1 DEF Pending
  <2>3. {"macro", "phase"} \subseteq DOMAIN c /\ c.macro = cs[Len(cs)].macro /\ c.phase = cs[Len(cs)].phase
    BY <2>2
  <2>4. calls' = [cs EXCEPT ![Len(cs)] = c]
    BY <1>2 DEF Give
  <2> HIDE DEF c
  <2> QED
    BY <1>2, <2>3, <2>4, PendingExcept
<1> QED
  BY <1>1, <1>2

\* Reading on, with the calls as they are
LEMMA SameStep ==
  ASSUME Inv, status = "reading", status' = status,
         SameStreams(streams, streams'), SameCalls(calls, calls')
  PROVE  Inv'
<1>1. OnFile(streams') /\ Apart(streams')
  BY SameOnFile, ApartSame DEF Inv, NeverInItself, Apart
<1>2. Pending(calls')
  BY DEF SameCalls
<1>3. Nest(streams', calls')
  BY NestSame DEF Inv, CallsNest, OnFile
<1> QED
  BY <1>1, <1>2, <1>3 DEF Inv, CallsNest, NeverInItself, Apart

LEMMA Prepend ==
  ASSUME NEW s, OnFile(s), Apart(s), NEW e, {"of", "type"} \subseteq DOMAIN e,
         e.type = "MACRO_STREAM" => \A i \in DOMAIN s : s[i].of # e.of,
         PrependMacroInput(s, e), status = "reading"
  PROVE  OnFile(streams') /\ Apart(streams') /\ (status' # "full" => streams' = Append(s, e))
<1>1. CASE streams' = Append(s, e)
  BY <1>1, StackAppend, ApartAppend
<1>2. CASE streams' = s /\ status' = "full"
  BY <1>2
<1> QED
  BY <1>1, <1>2 DEF PrependMacroInput

LEMMA CreateStep ==
  ASSUME NEW m, NEW args, NEW s, OnFile(s), Apart(s),
         NEW outer, Pending(outer), InArguments(outer), Nest(s, outer),
         \A i \in DOMAIN s : s[i].of # m,
         CreateMacroBody(m, args, s, outer), status = "reading"
  PROVE  Inv'
<1>1. CASE ParamsOf(m) = <<>>
  <2>1. PICK lexems : calls' = outer /\ PrependMacroInput(s, Stream(lexems, m, "MACRO_STREAM"))
    BY <1>1 DEF CreateMacroBody
  <2> DEFINE e == Stream(lexems, m, "MACRO_STREAM")
  <2>2. {"of", "type"} \subseteq DOMAIN e /\ e.of = m /\ e.type = "MACRO_STREAM"
    BY DEF Stream
  <2> HIDE DEF e
  <2>3. OnFile(streams') /\ Apart(streams') /\ (status' # "full" => streams' = Append(s, e))
    BY <2>1, <2>2, Prepend DEF e
  <2>4. Nest(Append(s, e), outer)
    BY <2>2, NestEnter DEF OnFile
  <2> QED
    BY <2>1, <2>3, <2>4 DEF Inv, CallsNest, NeverInItself, Apart
<1>2. CASE ParamsOf(m) # <<>>
  <2>1. PICK c, lexems, of :
          /\ {"macro", "phase"} \subseteq DOMAIN c /\ c.macro = m /\ c.phase = "expand"
          /\ calls' = Append(outer, c)
          /\ PrependMacroInput(s, Stream(lexems, of, "MACRO_ARGUMENT_STREAM"))
    BY <1>2 DEF CreateMacroBody
  <2> DEFINE e == Stream(lexems, of, "MACRO_ARGUMENT_STREAM")
  <2>2. {"of", "type"} \subseteq DOMAIN e /\ e.type = "MACRO_ARGUMENT_STREAM"
    BY DEF Stream
  <2> HIDE DEF e
  <2>3. OnFile(streams') /\ Apart(streams') /\ (status' # "full" => streams' = Append(s, e))
    BY <2>1, <2>2, Prepend DEF e
  <2>4. Nest(Append(s, e), Append(outer, c))
    BY <2>1, <2>2, NestArgument DEF OnFile
  <2>5. Pending(calls')
    BY <2>1, PendingAppend
  <2> QED
    BY <2>1, <2>3, <2>4, <2>5 DEF Inv, CallsNest, NeverInItself, Apart
<1> QED
  BY <1>1, <1>2

-----------------------------------------------------------------------------
(* The actions *)

LEMMA SameAgain ==
  ASSUME NEW cs, Pending(cs)
  PROVE  SameCalls(cs, cs)
BY ListFacts DEF SameCalls, Pending

LEMMA LeaveBodyStep ==
  ASSUME Inv, status = "reading", LeaveBody
  PROVE  Inv'
<1>1. OnFile(streams) /\ Apart(streams) /\ Nest(streams, calls) /\ Pending(calls)
  BY DEF Inv, CallsNest, NeverInItself, Apart
<1>2. streams[Len(streams)].type = "MACRO_STREAM" /\ streams' = Front(streams) /\ calls' = calls /\ status' = status
  BY DEF LeaveBody, Current
<1>3. OnFile(streams') /\ Apart(streams')
  BY <1>1, <1>2, StackFront, ApartFront
<1>4. Nest(streams', calls')
  BY <1>1, <1>2, NestLeave DEF OnFile
<1> QED
  BY <1>1, <1>2, <1>3, <1>4 DEF Inv, CallsNest, NeverInItself, Apart

LEMMA TakeStep ==
  ASSUME Inv, status = "reading", TakeLexem \/ TakeCyclic
  PROVE  Inv'
<1>1. PICK r \in Reads : streams' = r.after /\ status' = status /\ \E lexem : Give(lexem, calls)
  BY DEF TakeLexem, TakeCyclic
<1>2. SameStreams(streams, streams')
  BY <1>1, ReadsSame DEF Inv
<1>3. SameCalls(calls, calls')
  BY <1>1, GiveSame DEF Inv
<1> QED
  BY <1>1, <1>2, <1>3, SameStep

\* A name that is not that of a stream is that of none after it is read either
LEMMA ReadOn ==
  ASSUME Inv, status = "reading", NEW r \in Reads
  PROVE  /\ OnFile(r.after) /\ Apart(r.after) /\ Nest(r.after, calls)
         /\ DOMAIN r.after = DOMAIN streams /\ \A i \in DOMAIN streams : r.after[i].of = streams[i].of
<1>1. SameStreams(streams, r.after)
  BY ReadsSame DEF Inv
<1>2. OnFile(streams) /\ Apart(streams) /\ Nest(streams, calls) /\ Pending(calls)
  BY DEF Inv, CallsNest, NeverInItself, Apart
<1>3. Nest(r.after, calls)
  BY <1>1, <1>2, NestSame, SameAgain DEF OnFile
<1> QED
  BY <1>1, <1>2, <1>3, SameOnFile, ApartSame

LEMMA ExpandObjectStep ==
  ASSUME Inv, status = "reading", ExpandObject
  PROVE  Inv'
<1>1. PICK r \in Reads : /\ ~CyclicCall(r.lexem.text, r.after)
                         /\ CreateMacroBody(r.lexem.text, <<>>, r.after, calls)
  BY DEF ExpandObject
<1>2. \A i \in DOMAIN r.after : r.after[i].of # r.lexem.text
  BY <1>1 DEF CyclicCall
<1>3. OnFile(r.after) /\ Apart(r.after) /\ Nest(r.after, calls)
  BY ReadOn
<1>4. Pending(calls) /\ InArguments(calls)
  BY DEF Inv, ExpandObject, InLoop, InArguments, Call, Current
<1> QED
  BY <1>1, <1>2, <1>3, <1>4, CreateStep

LEMMA BeginCallStep ==
  ASSUME Inv, status = "reading", BeginCall
  PROVE  Inv'
<1> DEFINE New(m) == [macro |-> m, phase |-> "call", args |-> <<>>, depth |-> 0,
                      collated |-> <<>>, expanded |-> <<>>, buffer |-> <<>>]
<1>0. PICK r \in Reads :
        /\ ~CyclicCall(r.lexem.text, r.after)
        /\ streams' = r.after
        /\ calls' = Append(calls, New(r.lexem.text)) /\ status' = status
  BY DEF BeginCall
<1> DEFINE c == New(r.lexem.text)
<1>1. /\ ~CyclicCall(c.macro, r.after)
      /\ streams' = r.after
      /\ calls' = Append(calls, c) /\ status' = status
      /\ {"macro", "phase"} \subseteq DOMAIN c /\ c.phase = "call"
  BY <1>0
<1> HIDE DEF c
<1>2. \A i \in DOMAIN r.after : r.after[i].of # c.macro
  BY <1>1 DEF CyclicCall
<1>3. OnFile(r.after) /\ Apart(r.after) /\ Nest(r.after, calls)
  BY ReadOn
<1>4. Pending(calls) /\ InArguments(calls)
  BY DEF Inv, BeginCall, InLoop, InArguments, Call, Current
<1>5. Nest(streams', calls')
  BY <1>1, <1>2, <1>3, <1>4, NestBegin DEF OnFile
<1>6. Pending(calls')
  BY <1>1, <1>4, PendingAppend
<1> QED
  BY <1>1, <1>3, <1>5, <1>6 DEF Inv, CallsNest, NeverInItself, Apart

\* The innermost call goes on reading
LEMMA ReadingStep ==
  ASSUME Inv, status = "reading", status' = status, calls # <<>>, Call.phase # "expand",
         NEW r \in Reads, streams' = r.after,
         NEW c, {"macro", "phase"} \subseteq DOMAIN c, c.macro = Call.macro, c.phase # "expand",
         calls' = [calls EXCEPT ![Len(calls)] = c]
  PROVE  Inv'
<1>1. SameStreams(streams, streams')
  BY ReadsSame DEF Inv
<1>2. SameCalls(calls, calls')
  BY PendingExcept DEF Inv, Call, Current
<1> QED
  BY <1>1, <1>2, SameStep

LEMMA CallFields ==
  ASSUME Inv, calls # <<>>
  PROVE  {"macro", "phase"} \subseteq DOMAIN calls[Len(calls)]
<1>1. Len(calls) \in DOMAIN calls
  BY ListFacts DEF Inv, Pending
<1> QED
  BY <1>1 DEF Inv, Pending

LEMMA LeftParenthesisStep ==
  ASSUME Inv, status = "reading", LeftParenthesis
  PROVE  Inv'
<1> DEFINE c == [Call EXCEPT !.phase = "collect", !.args = <<[lexems |-> <<>>, of |-> NoMacro]>>]
<1>1. PICK r \in Reads : streams' = r.after /\ status' = status
  BY DEF LeftParenthesis, ReadsIn
<1>2. calls # <<>> /\ Call.phase = "call"
  BY DEF LeftParenthesis, ReadsIn
<1>3. calls' = [calls EXCEPT ![Len(calls)] = c]
  BY DEF LeftParenthesis, Call, Current
<1>4. {"macro", "phase"} \subseteq DOMAIN c /\ c.macro = Call.macro /\ c.phase = "collect"
  BY <1>2, CallFields DEF Call, Current
<1> HIDE DEF c
<1> QED
  BY <1>1, <1>2, <1>3, <1>4, ReadingStep

LEMMA CollectStep ==
  ASSUME Inv, status = "reading", CollectLexem \/ NextArgument
  PROVE  Inv'
<1>1. PICK r \in Reads : streams' = r.after /\ status' = status
  BY DEF CollectLexem, NextArgument, ReadsIn
<1>2. calls # <<>> /\ Call.phase = "collect"
  BY DEF CollectLexem, NextArgument, ReadsIn
<1>3. PICK c : /\ calls' = [calls EXCEPT ![Len(calls)] = c]
               /\ {"macro", "phase"} \subseteq DOMAIN c /\ c.macro = Call.macro /\ c.phase = "collect"
  <2>1. {"macro", "phase"} \subseteq DOMAIN Call
    BY <1>2, CallFields DEF Call, Current
  <2>2. CASE CollectLexem
    <3>1. PICK args, depth : calls' = [calls EXCEPT ![Len(calls)] = [Call EXCEPT !.args = args, !.depth = depth]]
      BY <2>2 DEF CollectLexem
    <3> DEFINE c == [Call EXCEPT !.args = args, !.depth = depth]
    <3>2. {"macro", "phase"} \subseteq DOMAIN c /\ c.macro = Call.macro /\ c.phase = "collect"
      BY <1>2, <2>1
    <3> QED
      BY <3>1, <3>2
  <2>3. CASE NextArgument
    <3>1. PICK args : calls' = [calls EXCEPT ![Len(calls)] = [Call EXCEPT !.args = args]]
      BY <2>3 DEF NextArgument, Call, Current
    <3> DEFINE c == [Call EXCEPT !.args = args]
    <3>2. {"macro", "phase"} \subseteq DOMAIN c /\ c.macro = Call.macro /\ c.phase = "collect"
      BY <1>2, <2>1
    <3> QED
      BY <3>1, <3>2
  <2> QED
    BY <2>2, <2>3
<1> QED
  BY <1>1, <1>2, <1>3, ReadingStep

LEMMA NoCallStep ==
  ASSUME Inv, status = "reading", NoCall
  PROVE  Inv'
<1>1. PICK r \in Reads : streams' = r.before /\ status' = status /\ \E lexem : Give(lexem, Front(calls))
  BY DEF NoCall, ReadsIn
<1>2. calls # <<>> /\ ~InArguments(calls)
  BY DEF NoCall, ReadsIn, Call, Current, InArguments
<1>3. OnFile(streams) /\ Apart(streams) /\ Nest(streams, calls) /\ Pending(calls)
  BY DEF Inv, CallsNest, NeverInItself, Apart
<1>4. SameStreams(streams, streams')
  BY <1>1, ReadsSame DEF Inv
<1>5. Nest(streams, Front(calls)) /\ Pending(Front(calls))
  BY <1>2, <1>3, NestDrop, PendingFront DEF OnFile
<1>6. SameCalls(Front(calls), calls')
  BY <1>1, <1>5, GiveSame
<1>7. Nest(streams', calls')
  BY <1>3, <1>4, <1>5, <1>6, NestSame DEF OnFile
<1>8. OnFile(streams') /\ Apart(streams')
  BY <1>3, <1>4, SameOnFile, ApartSame
<1>9. Pending(calls')
  BY <1>6 DEF SameCalls
<1> QED
  BY <1>7, <1>8, <1>9 DEF Inv, CallsNest, NeverInItself, Apart

LEMMA EndCallStep ==
  ASSUME Inv, status = "reading", EndCall
  PROVE  Inv'
<1>1. PICK r \in Reads : \E args : CreateMacroBody(Call.macro, args, r.after, Front(calls))
  BY DEF EndCall, ReadsIn
<1>2. calls # <<>> /\ ~InArguments(calls)
  BY DEF EndCall, ReadsIn, Call, Current, InArguments
<1>3. OnFile(r.after) /\ Apart(r.after) /\ Nest(r.after, calls) /\ Pending(calls)
  BY ReadOn DEF Inv
<1>4. /\ Nest(r.after, Front(calls)) /\ InArguments(Front(calls)) /\ Pending(Front(calls))
      /\ \A i \in DOMAIN r.after : r.after[i].of # Call.macro
  BY <1>2, <1>3, NestDrop, PendingFront DEF OnFile, Call, Current
<1> QED
  BY <1>1, <1>3, <1>4, CreateStep

LEMMA LastReplaced ==
  ASSUME NEW s, IsList(s), s # <<>>, NEW e
  PROVE  [s EXCEPT ![Len(s)] = e] = Append(Front(s), e)
<1> DEFINE t == [s EXCEPT ![Len(s)] = e]
           u == Append(Front(s), e)
           A == {t[i] : i \in DOMAIN t} \cup {u[i] : i \in DOMAIN u}
<1>1. IsList(Front(s)) /\ Len(Front(s)) = Len(s) - 1 /\ \A i \in 1..(Len(s) - 1) : Front(s)[i] = s[i]
  BY FrontFacts
<1>2. Len(s) \in Nat \ {0} /\ Len(s) \in 1..Len(s)
  BY ListFacts
<1>3. /\ IsList(u) /\ Len(u) = Len(s)
      /\ \A i \in 1..(Len(s) - 1) : u[i] = s[i]
      /\ u[Len(s)] = e
  BY <1>1, <1>2, AppendFacts
<1>4. /\ IsList(t) /\ Len(t) = Len(s)
      /\ \A i \in 1..Len(s) : t[i] = IF i = Len(s) THEN e ELSE s[i]
  BY <1>2, ExceptFacts
<1> HIDE DEF t, u
<1>5. Len(t) = Len(u) /\ \A i \in 1..Len(t) : t[i] = u[i]
  BY <1>2, <1>3, <1>4
<1>6. t \in Seq(A) /\ u \in Seq(A)
  BY <1>3, <1>4, SeqMonotonic DEF IsList
<1>7. t = u
  BY <1>5, <1>6, SeqEqual
<1> QED
  BY <1>7 DEF t, u

\* The argument is left and the next one, or the body, is entered in its place
LEMMA EndArgumentStep ==
  ASSUME Inv, status = "reading", EndArgument
  PROVE  Inv'
<1>1. /\ calls # <<>> /\ Call.phase = "expand"
      /\ streams[Len(streams)].type = "MACRO_ARGUMENT_STREAM"
  BY DEF EndArgument, Current
<1>2. OnFile(streams) /\ Apart(streams) /\ Nest(streams, calls) /\ Pending(calls) /\ InArguments(calls)
  BY <1>1 DEF Inv, CallsNest, NeverInItself, Apart, InArguments, Call, Current
<1> DEFINE s == Front(streams)
           outer == Front(calls)
           m == Call.macro
<1>3. OnFile(s) /\ Apart(s) /\ Pending(outer)
  BY <1>1, <1>2, StackFront, ApartFront, PendingFront
<1>4. /\ Nest(s, outer) /\ InArguments(outer)
      /\ \A i \in DOMAIN s : s[i].of # m
  BY <1>1, <1>2, NestReturn DEF OnFile, Call, Current
<1>5. \/ \E e, b, argument :
           /\ calls' = [calls EXCEPT ![Len(calls)].expanded = e, ![Len(calls)].buffer = b]
           /\ {"of", "type"} \subseteq DOMAIN argument /\ argument.type = "MACRO_ARGUMENT_STREAM"
           /\ PrependMacroInput(s, argument)
      \/ \E lexems : calls' = outer /\ PrependMacroInput(s, Stream(lexems, m, "MACRO_STREAM"))
  <2> DEFINE params == ParamsOf(Call.macro)
             expanded == Append(Call.expanded, Call.buffer)
             k == Len(expanded) + 1
             next == IF k <= Len(Call.args) THEN Stream(Call.args[k].lexems, Call.args[k].of, "MACRO_ARGUMENT_STREAM")
                     ELSE Stream(<<>>, NoMacro, "MACRO_ARGUMENT_STREAM")
  <2>1. CASE k <= Len(params)
    <3>1. /\ calls' = [calls EXCEPT ![Len(calls)].expanded = expanded, ![Len(calls)].buffer = <<>>]
          /\ PrependMacroInput(s, next)
      BY <2>1 DEF EndArgument
    <3>2. {"of", "type"} \subseteq DOMAIN next /\ next.type = "MACRO_ARGUMENT_STREAM"
      BY DEF Stream
    <3> QED
      BY <3>1, <3>2
  <2>2. CASE ~(k <= Len(params))
    BY <2>2 DEF EndArgument
  <2> QED
    BY <2>1, <2>2
<1> HIDE DEF s, outer
<1>6. CASE \E e, b, argument :
        /\ calls' = [calls EXCEPT ![Len(calls)].expanded = e, ![Len(calls)].buffer = b]
        /\ {"of", "type"} \subseteq DOMAIN argument /\ argument.type = "MACRO_ARGUMENT_STREAM"
        /\ PrependMacroInput(s, argument)
  <2>1. PICK e, b, argument :
        /\ calls' = [calls EXCEPT ![Len(calls)].expanded = e, ![Len(calls)].buffer = b]
        /\ {"of", "type"} \subseteq DOMAIN argument /\ argument.type = "MACRO_ARGUMENT_STREAM"
        /\ PrependMacroInput(s, argument)
    BY <1>6
  <2> DEFINE c == [Call EXCEPT !.expanded = e, !.buffer = b]
  <2>3. calls' = [calls EXCEPT ![Len(calls)] = c]
    BY <2>1 DEF Call, Current
  <2>4. {"macro", "phase"} \subseteq DOMAIN c /\ c.macro = m /\ c.phase = "expand"
    BY <1>1, CallFields DEF Call, Current
  <2> HIDE DEF c
  <2>5. OnFile(streams') /\ Apart(streams') /\ (status' # "full" => streams' = Append(s, argument))
    BY <1>3, <2>1, Prepend
  <2>6. Nest(Append(s, argument), Append(outer, c))
    BY <1>3, <1>4, <2>1, <2>4, NestArgument DEF OnFile
  <2>7. calls' = Append(outer, c)
    BY <1>1, <1>2, <2>3, LastReplaced DEF Pending, outer
  <2>8. Pending(calls')
    BY <1>3, <2>4, <2>7, PendingAppend
  <2> QED
    BY <2>5, <2>6, <2>7, <2>8 DEF Inv, CallsNest, NeverInItself, Apart
<1>7. CASE \E lexems : calls' = outer /\ PrependMacroInput(s, Stream(lexems, m, "MACRO_STREAM"))
  <2>1. PICK lexems : calls' = outer /\ PrependMacroInput(s, Stream(lexems, m, "MACRO_STREAM"))
    BY <1>7
  <2> DEFINE entered == Stream(lexems, m, "MACRO_STREAM")
  <2>2. {"of", "type"} \subseteq DOMAIN entered /\ entered.of = m /\ entered.type = "MACRO_STREAM"
    BY DEF Stream
  <2> HIDE DEF entered
  <2>3. OnFile(streams') /\ Apart(streams') /\ (status' # "full" => streams' = Append(s, entered))
    BY <1>3, <1>4, <2>1, <2>2, Prepend DEF entered
  <2>4. Nest(Append(s, entered), outer)
    BY <1>3, <1>4, <2>2, NestEnter DEF OnFile
  <2> QED
    BY <1>3, <2>1, <2>3, <2>4 DEF Inv, CallsNest, NeverInItself, Apart
<1> QED
  BY <1>5, <1>6, <1>7

LEMMA EndStep ==
  ASSUME Inv, CallInterrupted \/ EndOfText, status = "reading"
  PROVE  Inv'
<1>1. streams' = streams /\ calls' = calls /\ status' \in {"asserted", "done"}
  BY DEF CallInterrupted, EndOfText
<1> QED
  BY <1>1 DEF Inv, CallsNest, NeverInItself

-----------------------------------------------------------------------------
(* The theorems *)

LEMMA InitInv == Init => Inv
<1> SUFFICES ASSUME Init PROVE Inv
  OBVIOUS
<1> DEFINE file == Stream(<<>>, NoMacro, "NORMAL_STREAM")
<1>1. streams = <<file>> /\ calls = <<>> /\ status = "reading"
  BY DEF Init
<1>2. streams \in Seq({file}) /\ Len(streams) = 1 /\ DOMAIN streams = {1} /\ streams[1] = file
  BY <1>1
<1>3. {"of", "type"} \subseteq DOMAIN file /\ file.type = "NORMAL_STREAM"
  BY DEF Stream
<1> HIDE DEF file
<1>4. OnFile(streams)
  BY <1>1, <1>2, <1>3, Listed DEF OnFile, Stack
<1>5. calls \in Seq({}) /\ DOMAIN calls = {}
  BY <1>1
<1>6. Pending(calls)
  BY <1>5, Listed DEF Pending
<1>7. Expanding(calls) = {} /\ ArgumentStreams(streams) = {}
  BY <1>2, <1>3, <1>5 DEF Expanding, ArgumentStreams
<1>8. Nest(streams, calls)
  <2>1. [k \in {} |-> 1] \in [Expanding(calls) -> ArgumentStreams(streams)]
    BY <1>7
  <2> QED
    BY <1>5, <1>7, <2>1 DEF Nest
<1> QED
  BY <1>2, <1>4, <1>6, <1>8 DEF Inv, CallsNest, NeverInItself

LEMMA NextInv == Inv /\ [Next]_vars => Inv'
<1> SUFFICES ASSUME Inv, [Next]_vars PROVE Inv'
  OBVIOUS
<1>1. CASE Next
  <2>1. status = "reading"
    BY <1>1 DEF Next
  <2>2. CASE LeaveBody
    BY <2>1, <2>2, LeaveBodyStep
  <2>3. CASE TakeLexem \/ TakeCyclic
    BY <2>1, <2>3, TakeStep
  <2>4. CASE ExpandObject
    BY <2>1, <2>4, ExpandObjectStep
  <2>5. CASE BeginCall
    BY <2>1, <2>5, BeginCallStep
  <2>6. CASE LeftParenthesis
    BY <2>1, <2>6, LeftParenthesisStep
  <2>7. CASE NoCall
    BY <2>1, <2>7, NoCallStep
  <2>8. CASE CollectLexem \/ NextArgument
    BY <2>1, <2>8, CollectStep
  <2>9. CASE EndCall
    BY <2>1, <2>9, EndCallStep
  <2>10. CASE EndArgument
    BY <2>1, <2>10, EndArgumentStep
  <2>11. CASE CallInterrupted \/ EndOfText
    BY <2>1, <2>11, EndStep
  <2> QED
    BY <1>1, <2>2, <2>3, <2>4, <2>5, <2>6, <2>7, <2>8, <2>9, <2>10, <2>11 DEF Next
<1>2. CASE UNCHANGED vars
  BY <1>2 DEF vars, Inv, CallsNest, NeverInItself
<1> QED
  BY <1>1, <1>2

\* The arguments that are being expanded and the calls that expand them correspond in
\* their order, whatever the macros, their bodies and the text are.
THEOREM ArgumentsStayNested == Spec => []CallsNest
<1>1. Inv => CallsNest
  BY DEF Inv
<1> QED
  BY InitInv, NextInv, <1>1, PTL DEF Spec

\* cyclicCall() goes by the names of the streams, among them those that a call has
\* below its arguments, and so no macro is ever replaced within its own replacement.
THEOREM NoMacroWithinItself == Spec => []NeverInItself
<1>1. Inv => NeverInItself
  BY DEF Inv
<1> QED
  BY InitInv, NextInv, <1>1, PTL DEF Spec

-----------------------------------------------------------------------------
(* The types of lexems                                                      *)

LEMMA SeqGrows ==
    ASSUME NEW A, NEW B, A \subseteq B, NEW s \in Seq(A)
    PROVE  s \in Seq(B)
OBVIOUS

LEMMA SeqAppend ==
    ASSUME NEW A, NEW s \in Seq(A), NEW e \in A
    PROVE  Append(s, e) \in Seq(A) /\ Len(Append(s, e)) = Len(s) + 1 /\ Append(s, e) # <<>>
<1>1. Append(s, e) \in Seq(A) /\ Len(Append(s, e)) = Len(s) + 1 /\ Len(s) \in Nat
  BY AppendProperties
<1>2. Len(Append(s, e)) # 0
  BY <1>1
<1> QED
  BY <1>1, <1>2, EmptySeq

LEMMA SeqFront ==
    ASSUME NEW A, NEW s \in Seq(A), s # <<>>
    PROVE  /\ Front(s) \in Seq(A) /\ Len(Front(s)) = Len(s) - 1
           /\ \A i \in 1..(Len(s) - 1) : Front(s)[i] = s[i]
           /\ Len(s) \in Nat \ {0} /\ Last(s) = s[Len(s)] /\ s[Len(s)] \in A
BY DEF Front, Last

LEMMA SeqExcept ==
    ASSUME NEW A, NEW s \in Seq(A), s # <<>>, NEW e \in A
    PROVE  [s EXCEPT ![Len(s)] = e] \in Seq(A) /\ Len([s EXCEPT ![Len(s)] = e]) = Len(s)
OBVIOUS

\* What MacrosAssumption says of texts
LEMMA JoinedAre ==
    /\ Joined \subseteq Texts /\ "," \in Texts /\ Macros \subseteq Joined
    /\ \A l, r \in Joined : Pasted[<<l, r>>] \in Joined
<1>1. Joined \subseteq Texts /\ "," \in Texts /\ Macros \subseteq Joined
  BY MacrosAssumption, Zenon
<1>2. Pasted \in [Joined \X Joined -> Joined]
  BY MacrosAssumption, Zenon
<1>3. \A l, r \in Joined : Pasted[<<l, r>>] \in Joined
  BY <1>2
<1> QED
  BY <1>1, <1>3

LEMMA PlainIsBody ==
    ASSUME NEW m
    PROVE  Plain \subseteq BodyLexems(m)
BY DEF BodyLexems

\* What ARG stands for
LEMMA ArgumentIs ==
    ASSUME NEW m, NEW args \in [ToSet(ParamsOf(m)) -> Seq(Plain)], NEW l \in BodyLexems(m), l.code = "ARG"
    PROVE  args[l.text] \in Seq(Plain)
<1>1. l.text \in ToSet(ParamsOf(m))
  BY DEF BodyLexems, Plain
<1> QED
  BY <1>1

LEMMA PastedIs ==
    ASSUME NEW m, NEW l \in BodyLexems(m), NEW r \in BodyLexems(m), IsPastable(l), IsPastable(r)
    PROVE  PastedLexem(l, r) \in Plain
<1>1. l \in Plain /\ r \in Plain
  BY DEF BodyLexems, IsPastable
<1>2. l.text \in Joined /\ r.text \in Joined
  BY <1>1 DEF Plain
<1>3. Pasted[<<l.text, r.text>>] \in Joined
  BY <1>2, JoinedAre
<1>4. Pasted[<<l.text, r.text>>] \in Texts
  BY <1>3, JoinedAre
<1> DEFINE code == IF l.code # "CONSTANT" /\ r.code = "CONSTANT" THEN l.code ELSE "IDENTIFIER"
<1>5. code \in Codes /\ code # "ARG"
  <2>1. l.code \in Codes /\ l.code # "ARG"
    BY <1>1 DEF Plain, Lexems
  <2>2. "IDENTIFIER" \in Codes /\ "IDENTIFIER" # "ARG"
    BY DEF Codes
  <2> QED
    BY <2>1, <2>2
<1> HIDE DEF code
<1>6. Lexem(code, Pasted[<<l.text, r.text>>]) \in Plain
  BY <1>3, <1>4, <1>5 DEF Plain, Lexems, Lexem
<1> QED
  BY <1>6 DEF PastedLexem, code

-----------------------------------------------------------------------------
(* What ## and the arguments make of a body                                 *)

Right(w, m) ==
  /\ w \in [lexems : Seq(BodyLexems(m)), last : Nat, pasting : BOOLEAN]
  /\ w.last <= Len(w.lexems) + 1
  /\ w.pasting => w.last # 0

LEMMA WrittenRight ==
    ASSUME NEW m, NEW lexems \in Seq(BodyLexems(m)), NEW last \in Nat, last <= Len(lexems) + 1
    PROVE  Right(Written(lexems, last, FALSE), m)
BY DEF Right, Written

LEMMA AlsoRight ==
    ASSUME NEW m, NEW w, w.lexems \in Seq(BodyLexems(m)), NEW l \in BodyLexems(m)
    PROVE  Right(AlsoWritten(w, l), m)
<1>1. Append(w.lexems, l) \in Seq(BodyLexems(m)) /\ Len(Append(w.lexems, l)) = Len(w.lexems) + 1
      /\ Len(w.lexems) \in Nat
  BY AppendProperties
<1>2. Len(w.lexems) + 1 \in Nat /\ Len(w.lexems) + 1 <= Len(Append(w.lexems, l)) + 1
  BY <1>1
<1> QED
  BY <1>1, <1>2, WrittenRight DEF AlsoWritten

LEMMA CollateRight ==
    ASSUME NEW m, NEW args \in [ToSet(ParamsOf(m)) -> Seq(Plain)],
           NEW w, Right(w, m), w.last # 0, NEW right \in BodyLexems(m)
    PROVE  Right(Collate(w, right, args), m)
<1> DEFINE B == BodyLexems(m)
           left == LexemAt(w.lexems, w.last)
           before == SubSeq(w.lexems, 1, w.last - 1)
           all == IF left.code = "ARG" THEN before \o args[left.text] ELSE w.lexems
           at == IF left.code = "ARG" THEN Len(all) ELSE w.last
           rights == IF right.code = "ARG" THEN args[right.text] ELSE <<right>>
           on == LexemAt(all, at)
<1>1. w.lexems \in Seq(B) /\ w.last \in Nat \ {0} /\ w.last <= Len(w.lexems) + 1 /\ Len(w.lexems) \in Nat
  BY DEF Right
<1>2. Lexem(",", ",") \in B
  <2>1. Lexem(",", ",") \in Lexems /\ Lexem(",", ",").code = ","
    BY JoinedAre DEF Lexems, Lexem, Codes
  <2>2. ~IsPastable(Lexem(",", ",")) /\ "," # "ARG"
    BY <2>1 DEF IsPastable
  <2>3. Lexem(",", ",") \in Plain
    BY <2>1, <2>2 DEF Plain
  <2> QED
    BY <2>3, PlainIsBody
<1>3. \A lexems \in Seq(B) : \A i \in Nat : i # 0 /\ i <= Len(lexems) + 1 => LexemAt(lexems, i) \in B
  <2> HIDE DEF B
  <2> SUFFICES ASSUME NEW lexems \in Seq(B), NEW i \in Nat, i # 0, i <= Len(lexems) + 1
               PROVE  LexemAt(lexems, i) \in B
    OBVIOUS
  <2>1. Len(lexems) \in Nat
    OBVIOUS
  <2>2. CASE i > Len(lexems)
    BY <1>2, <2>2 DEF LexemAt
  <2>3. CASE ~(i > Len(lexems))
    <3>1. i \in 1..Len(lexems)
      BY <2>1, <2>3
    <3>2. lexems[i] \in B
      BY <3>1
    <3> QED
      BY <2>3, <3>2 DEF LexemAt
  <2> QED
    BY <2>2, <2>3
<1>4. left \in B
  BY <1>1, <1>3
<1>5. left.code = "ARG" => args[left.text] \in Seq(B)
  BY <1>4, ArgumentIs, PlainIsBody, SeqGrows
<1>6. before \in Seq(B) /\ Len(before) = w.last - 1
  <2> HIDE DEF B
  <2> QED
    BY <1>1
<1>7. all \in Seq(B)
  BY <1>1, <1>5, <1>6
<1>8. at \in Nat /\ at <= Len(all) + 1
  <2> HIDE DEF B
  <2>1. Len(all) \in Nat
    BY <1>7
  <2>2. left.code # "ARG" => all = w.lexems
    OBVIOUS
  <2> HIDE DEF all, left
  <2> QED
    BY <1>1, <2>1, <2>2
<1>9. rights \in Seq(B)
  <2>1. CASE right.code = "ARG"
    BY <2>1, ArgumentIs, PlainIsBody, SeqGrows
  <2>2. CASE right.code # "ARG"
    BY <2>2
  <2> QED
    BY <2>1, <2>2
<1>10. Collate(w, right, args) =
         IF at < w.last THEN AlsoWritten(Written(all, 0, FALSE), right)
         ELSE IF rights = <<>>
         THEN Written(IF on.code = "," THEN SubSeq(all, 1, at - 1) ELSE all, at, FALSE)
         ELSE IF IsPastable(on) /\ IsPastable(Head(rights))
         THEN Written(SubSeq(all, 1, at - 1) \o <<PastedLexem(on, Head(rights))>> \o Tail(rights), at, FALSE)
         ELSE Written(all \o rights, at, FALSE)
  BY DEF Collate
<1> HIDE DEF B, left, all, at, rights
<1>11. CASE at < w.last
  <2>1. Written(all, 0, FALSE).lexems = all
    BY DEF Written
  <2> QED
    <3> DEFINE v == Written(all, 0, FALSE)
    <3>1. v.lexems \in Seq(BodyLexems(m))
      BY <1>7, <2>1 DEF B
    <3>2. Collate(w, right, args) = AlsoWritten(v, right)
      BY <1>10, <1>11
    <3> HIDE DEF v
    <3> QED
      BY <3>1, <3>2, AlsoRight
<1>12. CASE ~(at < w.last)
  <2>1. at # 0 /\ on \in B
    BY <1>1, <1>3, <1>7, <1>8, <1>12
  <2> HIDE DEF on
  <2>2. SubSeq(all, 1, at - 1) \in Seq(B) /\ Len(SubSeq(all, 1, at - 1)) = at - 1
    BY <1>7, <1>8, <2>1
  <2>3. CASE rights = <<>>
    <3> DEFINE new == IF on.code = "," THEN SubSeq(all, 1, at - 1) ELSE all
    <3>1. new \in Seq(B) /\ at <= Len(new) + 1
      <4>1. CASE on.code = ","
        <5>1. new = SubSeq(all, 1, at - 1)
          BY <4>1
        <5> HIDE DEF new
        <5> QED
          BY <1>8, <2>1, <2>2, <5>1
      <4>2. CASE on.code # ","
        BY <1>7, <1>8, <4>2
      <4> QED
        BY <4>1, <4>2
    <3>2. Collate(w, right, args) = Written(new, at, FALSE)
      BY <1>10, <1>12, <2>3
    <3> HIDE DEF new
    <3> QED
      BY <1>8, <3>1, <3>2, WrittenRight DEF B
  <2>4. CASE rights # <<>> /\ IsPastable(on) /\ IsPastable(Head(rights))
    <3> DEFINE p == PastedLexem(on, Head(rights))
               new == SubSeq(all, 1, at - 1) \o <<p>> \o Tail(rights)
    <3>1. Head(rights) \in B /\ Tail(rights) \in Seq(B)
      BY <1>9, <2>4
    <3>2. p \in B
      BY <2>1, <2>4, <3>1, PastedIs, PlainIsBody DEF B
    <3>3. Collate(w, right, args) = Written(new, at, FALSE)
      BY <1>10, <1>12, <2>4
    <3> HIDE DEF p
    <3>4. SubSeq(all, 1, at - 1) \o <<p>> \in Seq(B) /\ Len(SubSeq(all, 1, at - 1) \o <<p>>) = at
      BY <1>8, <2>1, <2>2, <3>2
    <3>5. new \in Seq(B) /\ at <= Len(new) + 1
      BY <1>8, <3>1, <3>4
    <3> HIDE DEF new
    <3> QED
      BY <1>8, <3>3, <3>5, WrittenRight DEF B
  <2>5. CASE rights # <<>> /\ ~(IsPastable(on) /\ IsPastable(Head(rights)))
    <3>1. Collate(w, right, args) = Written(all \o rights, at, FALSE)
      BY <1>10, <1>12, <2>5
    <3>2. all \o rights \in Seq(B) /\ at <= Len(all \o rights) + 1
      BY <1>7, <1>8, <1>9
    <3> QED
      BY <1>8, <3>1, <3>2, WrittenRight DEF B
  <2> QED
    BY <2>3, <2>4, <2>5
<1> QED
  BY <1>11, <1>12

LEMMA Inductive ==
    ASSUME NEW S, 0 \in S, \A k \in Nat : k \in S => k + 1 \in S
    PROVE  \A k \in Nat : k \in S
<1> DEFINE Bad == {k \in Nat : k \notin S}
<1>1. CASE Bad = {}
  BY <1>1
<1>2. CASE Bad # {}
  <2>1. PICK k \in Bad : \A j \in Bad : <<j, k>> \notin OpToRel(<, Nat)
    <3>1. Bad \in SUBSET Nat
      OBVIOUS
    <3> HIDE DEF Bad
    <3> QED
      BY <1>2, <3>1, NatLessThanWellFounded, WFMin
  <2>2. k \in Nat /\ k # 0 /\ k \notin S
    BY <2>1
  <2>3. k - 1 \in Nat /\ k - 1 < k /\ (k - 1) + 1 = k
    BY <2>2
  <2>4. k - 1 \notin Bad
    <3> HIDE DEF Bad
    <3> QED
      BY <2>1, <2>2, <2>3 DEF OpToRel
  <2>5. k - 1 \in S
    BY <2>3, <2>4
  <2>6. (k - 1) + 1 \in S
    BY <2>3, <2>5
  <2> QED
    BY <2>2, <2>3, <2>6
<1> QED
  BY <1>1, <1>2

\* One more value of a recursive function
Step(w, b, args, i) ==
  IF w.pasting THEN Collate(w, b[i], args)
  ELSE IF b[i].code = "##" /\ w.last # 0 /\ i < Len(b) THEN [w EXCEPT !.pasting = TRUE]
  ELSE AlsoWritten(w, b[i])

LEMMA StepRight ==
    ASSUME NEW m, NEW args \in [ToSet(ParamsOf(m)) -> Seq(Plain)],
           NEW b \in Seq(BodyLexems(m)), NEW i \in 1..Len(b), NEW w, Right(w, m)
    PROVE  Right(Step(w, b, args, i), m)
<1>1. b[i] \in BodyLexems(m)
  OBVIOUS
<1>2. CASE w.pasting
  <2>1. w.last # 0
    BY <1>2 DEF Right
  <2> QED
    BY <1>1, <1>2, <2>1, CollateRight DEF Step
<1>3. CASE ~w.pasting /\ b[i].code = "##" /\ w.last # 0 /\ i < Len(b)
  <2>1. Step(w, b, args, i) = [w EXCEPT !.pasting = TRUE]
    BY <1>3 DEF Step
  <2> QED
    BY <1>3, <2>1 DEF Right
<1>4. CASE ~w.pasting /\ ~(b[i].code = "##" /\ w.last # 0 /\ i < Len(b))
  <2>1. Step(w, b, args, i) = AlsoWritten(w, b[i])
    BY <1>4 DEF Step
  <2>2. w.lexems \in Seq(BodyLexems(m))
    BY DEF Right
  <2> QED
    BY <1>1, <2>1, <2>2, AlsoRight
<1> QED
  BY <1>2, <1>3, <1>4

LEMMA CollatedIs ==
    ASSUME NEW m, NEW args \in [ToSet(ParamsOf(m)) -> Seq(Plain)], NEW b \in Seq(BodyLexems(m))
    PROVE  Collated(b, args) \in Seq(BodyLexems(m))
<1> DEFINE base == Written(<<>>, 0, FALSE)
           Is(g, k) == g = [i \in 0..k |-> IF i = 0 THEN base ELSE Step(g[i - 1], b, args, i)]
           Has == {k \in Nat : \E g : Is(g, k)}
<1> HIDE DEF base
<1>1. \A k \in Nat : k \in Has
  <2>1. 0 \in Has
    <3> DEFINE g == [i \in 0..0 |-> base]
    <3>1. Is(g, 0)
      OBVIOUS
    <3> QED
      BY <3>1
  <2>2. ASSUME NEW k \in Nat, k \in Has
        PROVE  k + 1 \in Has
    <3>1. PICK g : Is(g, k)
      BY <2>2
    <3> DEFINE h == [i \in 0..(k + 1) |-> IF i = k + 1 THEN Step(g[k], b, args, k + 1) ELSE g[i]]
    <3>2. \A i \in 0..k : h[i] = g[i] /\ g[i] = IF i = 0 THEN base ELSE Step(g[i - 1], b, args, i)
      BY <3>1
    <3>3. h[k + 1] = Step(g[k], b, args, k + 1) /\ h[k] = g[k]
      OBVIOUS
    <3>4. ASSUME NEW i \in 0..(k + 1)
          PROVE  h[i] = IF i = 0 THEN base ELSE Step(h[i - 1], b, args, i)
      <4> HIDE DEF h
      <4>1. CASE i = k + 1
        <5>1. i # 0 /\ i - 1 = k
          BY <4>1
        <5> QED
          BY <3>3, <4>1, <5>1
      <4>2. CASE i # k + 1
        <5>1. i \in 0..k /\ (i # 0 => i - 1 \in 0..k)
          BY <4>2
        <5> QED
          BY <3>2, <5>1
      <4> QED
        BY <4>1, <4>2
    <3>5. h = [i \in 0..(k + 1) |-> h[i]]
      OBVIOUS
    <3> HIDE DEF h
    <3>6. Is(h, k + 1)
      BY <3>4, <3>5
    <3>7. k + 1 \in Nat
      OBVIOUS
    <3> QED
      BY <3>6, <3>7
  <2> HIDE DEF Has
  <2> QED
    BY <2>1, <2>2, Inductive
<1> DEFINE n == Len(b)
           upTo[i \in 0..n] == IF i = 0 THEN base ELSE Step(upTo[i - 1], b, args, i)
<1>2. n \in Nat
  OBVIOUS
<1>3. Collated(b, args) = upTo[n].lexems
  BY DEF Collated, Step, base
<1> HIDE DEF n
<1>4. \E g : Is(g, n)
  BY <1>1, <1>2
<1>5. Is(upTo, n)
  BY <1>4
<1> HIDE DEF upTo
<1>6. \A i \in 0..n : upTo[i] = IF i = 0 THEN base ELSE Step(upTo[i - 1], b, args, i)
  BY <1>5
<1> DEFINE Good == {k \in Nat : k <= n => Right(upTo[k], m)}
<1>7. \A k \in Nat : k \in Good
  <2>1. 0 \in Good
    <3>1. <<>> \in Seq(BodyLexems(m)) /\ 0 <= Len(<<>>) + 1
      OBVIOUS
    <3>2. Right(base, m)
      BY <3>1, WrittenRight DEF base
    <3> QED
      BY <1>2, <1>6, <3>2
  <2>2. ASSUME NEW k \in Nat, k \in Good
        PROVE  k + 1 \in Good
    <3>1. k + 1 \in Nat
      OBVIOUS
    <3>2. ASSUME k + 1 <= n
          PROVE  Right(upTo[k + 1], m)
      <4>1. Right(upTo[k], m)
        BY <1>2, <2>2, <3>2
      <4>2. k + 1 \in 1..Len(b)
        BY <1>2, <3>2 DEF n
      <4>3. upTo[k + 1] = Step(upTo[k], b, args, k + 1)
        <5>1. k + 1 \in 0..n /\ k + 1 # 0 /\ (k + 1) - 1 = k
          BY <1>2, <3>2
        <5> QED
          BY <1>6, <5>1
      <4> QED
        BY <4>1, <4>2, <4>3, StepRight
    <3> QED
      BY <3>1, <3>2
  <2> HIDE DEF Good
  <2> QED
    BY <2>1, <2>2, Inductive
<1>8. Right(upTo[n], m)
  BY <1>2, <1>7
<1> QED
  BY <1>3, <1>8 DEF Right

LEMMA ReplacedIs ==
    ASSUME NEW m, NEW args \in [ToSet(ParamsOf(m)) -> Seq(Plain)], NEW lexems \in Seq(BodyLexems(m))
    PROVE  ReplaceMacroArguments(lexems, args) \in Seq(Plain)
<1> DEFINE New(i) == IF lexems[i].code = "ARG" THEN args[lexems[i].text] ELSE <<lexems[i]>>
           empty == <<>>
           Put(s, i) == s \o New(i)
           Is(g, k) == g = [i \in 0..k |-> IF i = 0 THEN empty ELSE Put(g[i - 1], i)]
           Has == {k \in Nat : \E g : Is(g, k)}
<1>0. ASSUME NEW i \in 1..Len(lexems)
      PROVE  New(i) \in Seq(Plain)
  <2>1. lexems[i] \in BodyLexems(m)
    OBVIOUS
  <2>2. CASE lexems[i].code = "ARG"
    BY <2>1, <2>2, ArgumentIs
  <2>3. CASE lexems[i].code # "ARG"
    <3>1. lexems[i] \in Plain
      BY <2>1, <2>3 DEF BodyLexems
    <3> QED
      BY <2>3, <3>1
  <2> QED
    BY <2>2, <2>3
<1> HIDE DEF New, empty, Put
<1>1. \A k \in Nat : k \in Has
  <2>1. 0 \in Has
    <3> DEFINE g == [i \in 0..0 |-> empty]
    <3>1. Is(g, 0)
      OBVIOUS
    <3> QED
      BY <3>1
  <2>2. ASSUME NEW k \in Nat, k \in Has
        PROVE  k + 1 \in Has
    <3>1. PICK g : Is(g, k)
      BY <2>2
    <3> DEFINE h == [i \in 0..(k + 1) |-> IF i = k + 1 THEN Put(g[k], k + 1) ELSE g[i]]
    <3>2. \A i \in 0..k : h[i] = g[i] /\ g[i] = IF i = 0 THEN empty ELSE Put(g[i - 1], i)
      BY <3>1
    <3>3. h[k + 1] = Put(g[k], k + 1) /\ h[k] = g[k]
      OBVIOUS
    <3>4. ASSUME NEW i \in 0..(k + 1)
          PROVE  h[i] = IF i = 0 THEN empty ELSE Put(h[i - 1], i)
      <4> HIDE DEF h
      <4>1. CASE i = k + 1
        <5>1. i # 0 /\ i - 1 = k
          BY <4>1
        <5> QED
          BY <3>3, <4>1, <5>1
      <4>2. CASE i # k + 1
        <5>1. i \in 0..k /\ (i # 0 => i - 1 \in 0..k)
          BY <4>2
        <5> QED
          BY <3>2, <5>1
      <4> QED
        BY <4>1, <4>2
    <3>5. h = [i \in 0..(k + 1) |-> h[i]]
      OBVIOUS
    <3> HIDE DEF h
    <3>6. Is(h, k + 1)
      BY <3>4, <3>5
    <3>7. k + 1 \in Nat
      OBVIOUS
    <3> QED
      BY <3>6, <3>7
  <2> HIDE DEF Has
  <2> QED
    BY <2>1, <2>2, Inductive
<1> DEFINE n == Len(lexems)
           upTo[i \in 0..n] == IF i = 0 THEN empty ELSE Put(upTo[i - 1], i)
<1>2. n \in Nat
  OBVIOUS
<1>3. ReplaceMacroArguments(lexems, args) = upTo[n]
  BY DEF ReplaceMacroArguments, New, empty, Put
<1> HIDE DEF n
<1>4. \E g : Is(g, n)
  BY <1>1, <1>2
<1>5. Is(upTo, n)
  BY <1>4
<1> HIDE DEF upTo
<1>6. \A i \in 0..n : upTo[i] = IF i = 0 THEN empty ELSE Put(upTo[i - 1], i)
  BY <1>5
<1> DEFINE Good == {k \in Nat : k <= n => upTo[k] \in Seq(Plain)}
<1>7. \A k \in Nat : k \in Good
  <2>1. 0 \in Good
    <3>1. upTo[0] = empty
      BY <1>2, <1>6
    <3>2. empty \in Seq(Plain)
      BY DEF empty
    <3> QED
      BY <3>1, <3>2
  <2>2. ASSUME NEW k \in Nat, k \in Good
        PROVE  k + 1 \in Good
    <3>1. k + 1 \in Nat
      OBVIOUS
    <3>2. ASSUME k + 1 <= n
          PROVE  upTo[k + 1] \in Seq(Plain)
      <4>1. upTo[k] \in Seq(Plain)
        BY <1>2, <2>2, <3>2
      <4>2. New(k + 1) \in Seq(Plain)
        BY <1>0, <1>2, <3>2 DEF n
      <4>3. upTo[k + 1] = Put(upTo[k], k + 1)
        <5>1. k + 1 \in 0..n /\ k + 1 # 0 /\ (k + 1) - 1 = k
          BY <1>2, <3>2
        <5> QED
          BY <1>6, <5>1
      <4> QED
        BY <4>1, <4>2, <4>3 DEF Put
    <3> QED
      BY <3>1, <3>2
  <2> HIDE DEF Good
  <2> QED
    BY <2>1, <2>2, Inductive
<1> QED
  BY <1>2, <1>3, <1>7

-----------------------------------------------------------------------------
(* What the variables hold                                                  *)

Owners == Macros \cup {NoMacro}
Arguments == [lexems : Seq(Plain), of : Owners]
PlainStreams == [lexems : Seq(Plain), of : Owners,
                 type : {"NORMAL_STREAM", "MACRO_STREAM", "MACRO_ARGUMENT_STREAM"}]

\* A call that reads its arguments has one, one that expands them has not yet
\* expanded them all
OpenCalls ==
  {c \in [macro : Macros, phase : {"call", "collect", "expand"}, args : Seq(Arguments), depth : Nat,
          collated : Seq(Lexems), expanded : Seq(Seq(Plain)), buffer : Seq(Plain)] :
     /\ ParamsOf(c.macro) # <<>> /\ Len(c.args) <= Len(ParamsOf(c.macro))
     /\ c.collated \in Seq(BodyLexems(c.macro))
     /\ c.phase = "collect" => c.args # <<>>
     /\ c.phase = "expand" => Len(c.expanded) < Len(ParamsOf(c.macro))}

Above(s) == s \in Seq(PlainStreams) /\ s # <<>> /\ s[1].type = "NORMAL_STREAM"
Chosen(b) == b = [m \in Macros |-> b[m]] /\ \A m \in Macros : b[m] \in Bodies[m] \cup {NoBody}

Whole ==
  /\ text \in Seq(FileLexems \cup {EndOfFile})
  /\ Chosen(body)
  /\ Above(streams)
  /\ calls \in Seq(OpenCalls)
  /\ output \in Seq(Texts)
  /\ status \in {"reading", "done", "full", "asserted"}
  /\ torn \in BOOLEAN /\ kept \in BOOLEAN

LEMMA ParamsAre ==
    ASSUME NEW m \in Macros
    PROVE  ParamsOf(m) \in Seq(Texts) /\ (ParamsOf(m) # <<>> <=> Params[m] # ObjectLike)
<1>1. Params[m] = ObjectLike \/ (Params[m] \in Seq(Texts) /\ Params[m] # <<>>)
  BY MacrosAssumption, Zenon
<1>2. <<>> \in Seq(Texts)
  OBVIOUS
<1>3. CASE Params[m] = ObjectLike
  BY <1>2, <1>3 DEF ParamsOf
<1>4. CASE Params[m] # ObjectLike
  BY <1>1, <1>4, Zenon DEF ParamsOf
<1> QED
  BY <1>3, <1>4

LEMMA LexemsAre ==
    /\ FileLexems \subseteq Plain /\ Plain \subseteq Lexems
    /\ \A m \in Macros : BodyLexems(m) \subseteq Lexems /\ Bodies[m] \subseteq Seq(BodyLexems(m))
<1>1. FileLexems \subseteq Plain /\ \A m \in Macros : Bodies[m] \subseteq Seq(BodyLexems(m))
  BY MacrosAssumption, Zenon
<1>2. Plain \subseteq Lexems
  BY DEF Plain
<1>3. ASSUME NEW m \in Macros
      PROVE  BodyLexems(m) \subseteq Lexems
  <2>1. ParamsOf(m) \in Seq(Texts)
    BY ParamsAre
  <2>2. ToSet(ParamsOf(m)) \subseteq Texts
    BY <2>1 DEF ToSet
  <2>3. [code : {"ARG"}, text : ToSet(ParamsOf(m))] \subseteq Lexems
    BY <2>2 DEF Lexems, Codes
  <2> QED
    BY <1>2, <2>3 DEF BodyLexems
<1> QED
  BY <1>1, <1>2, <1>3

LEMMA CallIs ==
    ASSUME NEW m \in Macros, NEW phase \in {"call", "collect", "expand"}, NEW args \in Seq(Arguments),
           NEW depth \in Nat, NEW collated \in Seq(BodyLexems(m)), NEW expanded \in Seq(Seq(Plain)),
           NEW buffer \in Seq(Plain), ParamsOf(m) # <<>>, Len(args) <= Len(ParamsOf(m)),
           phase = "collect" => args # <<>>, phase = "expand" => Len(expanded) < Len(ParamsOf(m))
    PROVE  [macro |-> m, phase |-> phase, args |-> args, depth |-> depth, collated |-> collated,
            expanded |-> expanded, buffer |-> buffer] \in OpenCalls
<1>1. collated \in Seq(Lexems)
  BY LexemsAre, SeqGrows
<1> QED
  BY <1>1 DEF OpenCalls

\* A call is what its fields say
LEMMA CallFieldsAre ==
    ASSUME NEW c \in OpenCalls
    PROVE  /\ c = [macro |-> c.macro, phase |-> c.phase, args |-> c.args, depth |-> c.depth, collated |-> c.collated,
                   expanded |-> c.expanded, buffer |-> c.buffer]
           /\ c.macro \in Macros /\ c.phase \in {"call", "collect", "expand"} /\ c.args \in Seq(Arguments)
           /\ c.depth \in Nat /\ c.collated \in Seq(BodyLexems(c.macro)) /\ c.expanded \in Seq(Seq(Plain))
           /\ c.buffer \in Seq(Plain) /\ ParamsOf(c.macro) # <<>> /\ Len(c.args) <= Len(ParamsOf(c.macro))
           /\ (c.phase = "collect" => c.args # <<>>)
           /\ (c.phase = "expand" => Len(c.expanded) < Len(ParamsOf(c.macro)))
BY DEF OpenCalls

LEMMA StreamIs ==
    ASSUME NEW lexems \in Seq(Plain), NEW of \in Owners, NEW type \in {"MACRO_STREAM", "MACRO_ARGUMENT_STREAM"}
    PROVE  Stream(lexems, of, type) \in PlainStreams
BY DEF Stream, PlainStreams

LEMMA AdvancedIs ==
    ASSUME Above(streams), NEW lexems \in Seq(Plain)
    PROVE  Above([streams EXCEPT ![Len(streams)].lexems = lexems])
<1> DEFINE c == streams[Len(streams)]
           d == [c EXCEPT !.lexems = lexems]
           s == [streams EXCEPT ![Len(streams)] = d]
<1>1. streams \in Seq(PlainStreams) /\ streams # <<>> /\ streams[1].type = "NORMAL_STREAM"
  BY DEF Above
<1>2. Len(streams) \in Nat \ {0} /\ c \in PlainStreams
  BY <1>1
<1>3. d \in PlainStreams /\ d.type = c.type
  BY <1>2 DEF PlainStreams
<1>4. [streams EXCEPT ![Len(streams)].lexems = lexems] = s
  OBVIOUS
<1> HIDE DEF d
<1>5. s \in Seq(PlainStreams) /\ Len(s) = Len(streams)
  BY <1>1, <1>3, SeqExcept
<1>6. s # <<>>
  BY <1>2, <1>5
<1>7. s[1].type = "NORMAL_STREAM"
  BY <1>1, <1>2, <1>3
<1> QED
  BY <1>4, <1>5, <1>6, <1>7 DEF Above

LEMMA FrontIsAbove ==
    ASSUME NEW s, Above(s), s[Len(s)].type # "NORMAL_STREAM"
    PROVE  Above(Front(s))
<1>1. s \in Seq(PlainStreams) /\ s # <<>> /\ s[1].type = "NORMAL_STREAM"
  BY DEF Above
<1>2. /\ Front(s) \in Seq(PlainStreams) /\ Len(Front(s)) = Len(s) - 1 /\ Len(s) \in Nat \ {0}
      /\ \A i \in 1..(Len(s) - 1) : Front(s)[i] = s[i]
  BY <1>1, SeqFront
<1>3. Len(s) # 1
  BY <1>1
<1>4. 1 \in 1..(Len(s) - 1) /\ Len(Front(s)) # 0
  BY <1>2, <1>3
<1>5. Front(s) # <<>> /\ Front(s)[1] = s[1]
  BY <1>2, <1>4
<1> QED
  BY <1>1, <1>2, <1>5 DEF Above

LEMMA AppendIsAbove ==
    ASSUME NEW s, Above(s), NEW e \in PlainStreams
    PROVE  Above(Append(s, e))
<1>1. s \in Seq(PlainStreams) /\ s # <<>> /\ s[1].type = "NORMAL_STREAM"
  BY DEF Above
<1>2. Append(s, e) \in Seq(PlainStreams) /\ Append(s, e) # <<>>
  BY <1>1, SeqAppend
<1>3. Append(s, e)[1] = s[1]
  <2>1. 1 \in 1..Len(s)
    BY <1>1
  <2> QED
    BY <1>1, <2>1, AppendProperties
<1> QED
  BY <1>1, <1>2, <1>3 DEF Above

LEMMA ReadsAre ==
    ASSUME Above(streams), text \in Seq(FileLexems \cup {EndOfFile}), NEW r \in Reads
    PROVE  /\ r.lexem \in Plain \cup Exceptions
           /\ Above(r.before) /\ Above(r.after) /\ r.file \in Seq(FileLexems \cup {EndOfFile})
<1> DEFINE c == Current(streams)
           Advanced(lexems) == [streams EXCEPT ![Len(streams)].lexems = lexems]
           Read(lexem, before, after, file) == [lexem |-> lexem, before |-> before, after |-> after, file |-> file]
<1>1. c \in PlainStreams
  BY DEF Above, Current
<1>2. c.lexems \in Seq(Plain) /\ c.type \in {"NORMAL_STREAM", "MACRO_STREAM", "MACRO_ARGUMENT_STREAM"}
  BY <1>1 DEF PlainStreams
<1>3. \A lexems \in Seq(Plain) : Above(Advanced(lexems))
  BY AdvancedIs
<1> HIDE DEF c, Advanced
<1>4. CASE c.lexems # <<>>
  <2>1. r = Read(Head(c.lexems), streams, Advanced(Tail(c.lexems)), text)
    BY <1>4 DEF Reads, c, Advanced
  <2>2. Head(c.lexems) \in Plain /\ Tail(c.lexems) \in Seq(Plain)
    BY <1>2, <1>4
  <2>3. Above(Advanced(Tail(c.lexems)))
    BY <1>3, <2>2
  <2> QED
    BY <2>1, <2>2, <2>3
<1>5. CASE c.lexems = <<>> /\ c.type = "MACRO_ARGUMENT_STREAM"
  <2>1. r = Read(EndOfArgument, streams, streams, text)
    BY <1>5 DEF Reads, c
  <2> QED
    BY <2>1 DEF Exceptions
<1>6. CASE c.lexems = <<>> /\ c.type = "NORMAL_STREAM"
  <2>1. CASE text # <<>> /\ Last(text) = EndOfFile
    <3>1. r = Read(EndOfFile, streams, streams, text)
      BY <1>6, <2>1 DEF Reads, c
    <3> QED
      BY <3>1 DEF Exceptions
  <2>2. CASE ~(text # <<>> /\ Last(text) = EndOfFile)
    <3> DEFINE After(l) == IF l = EndOfFile THEN streams ELSE Advanced(<<l>>)
    <3>0. Reads = {Read(l, After(l), streams, Append(text, l)) : l \in FileHas}
      BY <1>6, <2>2, Zenon DEF Reads, c, Advanced
    <3>1. PICK l \in FileHas : r = Read(l, After(l), streams, Append(text, l))
      BY <3>0
    <3>2. l = EndOfFile \/ l \in FileLexems
      BY DEF FileHas
    <3>3. Append(text, l) \in Seq(FileLexems \cup {EndOfFile})
      BY <3>2, SeqAppend
    <3>4. CASE l = EndOfFile
      BY <3>1, <3>3, <3>4 DEF Exceptions
    <3>5. CASE l # EndOfFile
      <4>1. l \in Plain
        BY <3>2, <3>5, LexemsAre
      <4>2. <<l>> \in Seq(Plain)
        BY <4>1
      <4>3. Above(Advanced(<<l>>))
        BY <1>3, <4>2
      <4> QED
        BY <3>1, <3>3, <3>5, <4>1, <4>3
    <3> QED
      BY <3>4, <3>5
  <2> QED
    BY <2>1, <2>2
<1>7. CASE c.lexems = <<>> /\ c.type = "MACRO_STREAM"
  BY <1>7 DEF Reads, c
<1> QED
  BY <1>2, <1>4, <1>5, <1>6, <1>7

-----------------------------------------------------------------------------
(* What the steps leave of the types *)

Files == Seq(FileLexems \cup {EndOfFile})
Statuses == {"reading", "done", "full", "asserted"}

LEMMA LastCallIs ==
    ASSUME calls \in Seq(OpenCalls), calls # <<>>
    PROVE  Call \in OpenCalls /\ Front(calls) \in Seq(OpenCalls)
BY SeqFront DEF Call, Current

\* The innermost call is another one
LEMMA ChangedCallIs ==
    ASSUME NEW cs \in Seq(OpenCalls), cs # <<>>, NEW c \in OpenCalls
    PROVE  [cs EXCEPT ![Len(cs)] = c] \in Seq(OpenCalls)
BY SeqExcept

LEMMA GiveIs ==
    ASSUME NEW lexem \in Plain, NEW cs \in Seq(OpenCalls), output \in Seq(Texts), Give(lexem, cs)
    PROVE  calls' \in Seq(OpenCalls) /\ output' \in Seq(Texts)
<1>1. CASE cs = <<>>
  <2>1. lexem.text \in Texts
    BY LexemsAre DEF Lexems
  <2>2. Append(output, lexem.text) \in Seq(Texts)
    BY <2>1, SeqAppend
  <2> QED
    BY <1>1, <2>2 DEF Give
<1>2. CASE cs # <<>>
  <2> DEFINE c == cs[Len(cs)]
             d == [c EXCEPT !.buffer = Append(c.buffer, lexem)]
  <2>1. c \in OpenCalls
    BY <1>2, SeqFront
  <2>2. d \in OpenCalls
    <3>1. Append(c.buffer, lexem) \in Seq(Plain)
      BY <2>1, CallFieldsAre, SeqAppend
    <3> HIDE DEF c
    <3> QED
      BY <2>1, <3>1 DEF OpenCalls
  <2>3. [cs EXCEPT ![Len(cs)].buffer = Append(@, lexem)] = [cs EXCEPT ![Len(cs)] = d]
    OBVIOUS
  <2> HIDE DEF d
  <2> QED
    BY <1>2, <2>2, <2>3, ChangedCallIs DEF Give
<1> QED
  BY <1>1, <1>2

LEMMA PrependIs ==
    ASSUME NEW s, Above(s), NEW e \in PlainStreams, status \in Statuses, PrependMacroInput(s, e)
    PROVE  Above(streams') /\ status' \in Statuses
<1>1. Above(Append(s, e))
  BY AppendIsAbove
<1> QED
  BY <1>1 DEF PrependMacroInput, Statuses

\* What the parameters stand for before the arguments are expanded
Raw(m, args) ==
  [p \in ToSet(ParamsOf(m)) |-> LET k == CHOOSE i \in DOMAIN ParamsOf(m) : ParamsOf(m)[i] = p
                                IN IF k <= Len(args) THEN args[k].lexems ELSE <<>>]

LEMMA RawIs ==
    ASSUME NEW m \in Macros, NEW args \in Seq(Arguments)
    PROVE  Raw(m, args) \in [ToSet(ParamsOf(m)) -> Seq(Plain)]
<1>1. ASSUME NEW p \in ToSet(ParamsOf(m)), NEW k, k = CHOOSE i \in DOMAIN ParamsOf(m) : ParamsOf(m)[i] = p
      PROVE  (IF k <= Len(args) THEN args[k].lexems ELSE <<>>) \in Seq(Plain)
  <2>1. ParamsOf(m) \in Seq(Texts)
    BY ParamsAre
  <2>2. \E i \in DOMAIN ParamsOf(m) : ParamsOf(m)[i] = p
    BY <2>1 DEF ToSet
  <2>3. k \in DOMAIN ParamsOf(m)
    BY <1>1, <2>2
  <2>4. k \in Nat \ {0}
    BY <2>1, <2>3
  <2>5. CASE k <= Len(args)
    <3>1. args[k] \in Arguments
      BY <2>4, <2>5
    <3> QED
      BY <2>5, <3>1 DEF Arguments
  <2>6. CASE ~(k <= Len(args))
    BY <2>6
  <2> QED
    BY <2>5, <2>6
<1> QED
  BY <1>1, Zenon DEF Raw

LEMMA BodyIs ==
    ASSUME Chosen(body), NEW m \in Macros, NEW b \in BodyOf(m)
    PROVE  b \in Seq(BodyLexems(m)) /\ Chosen([body EXCEPT ![m] = b])
<1>1. b \in Bodies[m]
  BY DEF BodyOf, Chosen
<1>2. b \in Seq(BodyLexems(m))
  BY <1>1, LexemsAre
<1> DEFINE o == [body EXCEPT ![m] = b]
<1>3. body = [n \in Macros |-> body[n]] /\ \A n \in Macros : body[n] \in Bodies[n] \cup {NoBody}
  BY DEF Chosen
<1>4. o = [n \in Macros |-> o[n]] /\ \A n \in Macros : o[n] = IF n = m THEN b ELSE body[n]
  BY <1>3
<1> HIDE DEF o
<1>5. \A n \in Macros : o[n] \in Bodies[n] \cup {NoBody}
  BY <1>1, <1>3, <1>4
<1>6. Chosen(o)
  BY <1>4, <1>5 DEF Chosen
<1> QED
  BY <1>2, <1>6 DEF o

LEMMA CreateIs ==
    ASSUME Chosen(body), status \in Statuses, NEW m \in Macros, NEW s, Above(s),
           NEW args \in Seq(Arguments), Len(args) <= Len(ParamsOf(m)),
           NEW outer \in Seq(OpenCalls), CreateMacroBody(m, args, s, outer), kept \in BOOLEAN
    PROVE  /\ Chosen(body') /\ Above(streams') /\ calls' \in Seq(OpenCalls) /\ status' \in Statuses
           /\ kept' \in BOOLEAN
<1> DEFINE params == ParamsOf(m)
           raw == Raw(m, args)
           First == Stream(raw[params[1]], IF args = <<>> THEN NoMacro ELSE args[1].of, "MACRO_ARGUMENT_STREAM")
           Opened(collated) == [macro |-> m, phase |-> "expand", args |-> args, depth |-> 0,
                                collated |-> collated, expanded |-> <<>>, buffer |-> <<>>]
<1>1. raw \in [ToSet(params) -> Seq(Plain)]
  BY RawIs
<1>2. PICK b \in BodyOf(m) :
        /\ body' = [body EXCEPT ![m] = b]
        /\ kept' = (kept \/ KeepsUnreplaced(b, raw))
        /\ IF params = <<>>
           THEN calls' = outer /\ PrependMacroInput(s, Stream(Collated(b, raw), m, "MACRO_STREAM"))
           ELSE calls' = Append(outer, Opened(Collated(b, raw))) /\ PrependMacroInput(s, First)
  BY Zenon DEF CreateMacroBody, Raw
<1>3. b \in Seq(BodyLexems(m)) /\ Chosen(body')
  BY <1>2, BodyIs
<1>8. kept' \in BOOLEAN
  BY <1>2, Zenon
<1>4. Collated(b, raw) \in Seq(BodyLexems(m))
  BY <1>1, <1>3, CollatedIs
<1>5. params \in Seq(Texts)
  BY ParamsAre
<1> HIDE DEF raw
<1>6. CASE params = <<>>
  <2>1. Collated(b, raw) \in Seq(Plain)
    <3>1. \A l \in BodyLexems(m) : l \in Plain
      BY <1>6 DEF BodyLexems, ToSet
    <3> QED
      BY <1>4, <3>1, SeqGrows
  <2>2. Stream(Collated(b, raw), m, "MACRO_STREAM") \in PlainStreams
    BY <2>1, StreamIs DEF Owners
  <2>3. PrependMacroInput(s, Stream(Collated(b, raw), m, "MACRO_STREAM")) /\ calls' = outer
    BY <1>2, <1>6
  <2>4. Above(streams') /\ status' \in Statuses
    BY <2>2, <2>3, PrependIs
  <2> QED
    BY <1>3, <1>8, <2>3, <2>4
<1>7. CASE params # <<>>
  <2>1. Opened(Collated(b, raw)) \in OpenCalls
    <3>1. Len(<<>>) < Len(params) /\ <<>> \in Seq(Seq(Plain)) /\ <<>> \in Seq(Plain)
      BY <1>5, <1>7
    <3> HIDE DEF params
    <3> QED
      BY <1>4, <1>7, <3>1, CallIs DEF params
  <2>2. calls' = Append(outer, Opened(Collated(b, raw))) /\ PrependMacroInput(s, First)
    BY <1>2, <1>7
  <2>3. calls' \in Seq(OpenCalls)
    <3> HIDE DEF Opened
    <3> QED
      BY <2>1, <2>2, SeqAppend
  <2>4. First \in PlainStreams
    <3>1. params[1] \in ToSet(params)
      BY <1>5, <1>7 DEF ToSet
    <3>2. raw[params[1]] \in Seq(Plain)
      BY <1>1, <3>1
    <3>3. (IF args = <<>> THEN NoMacro ELSE args[1].of) \in Owners
      <4>1. args # <<>> => args[1] \in Arguments
        OBVIOUS
      <4>2. args # <<>> => args[1].of \in Owners
        BY <4>1 DEF Arguments
      <4> QED
        BY <4>2 DEF Owners
    <3> QED
      BY <3>2, <3>3, StreamIs
  <2>5. Above(streams') /\ status' \in Statuses
    <3> HIDE DEF First
    <3> QED
      BY <2>2, <2>4, PrependIs
  <2> QED
    BY <1>3, <1>8, <2>3, <2>5
<1> QED
  BY <1>6, <1>7

LEMMA ReadLexemIs ==
    ASSUME Whole, NEW r \in Reads
    PROVE  /\ r.lexem \in Plain \cup Exceptions
           /\ Above(r.before) /\ Above(r.after) /\ r.file \in Files
BY ReadsAre DEF Whole, Files

LEMMA MacroNameIs ==
    ASSUME NEW l \in Plain \cup Exceptions, IsMacroName(l)
    PROVE  l \in Plain /\ l.text \in Macros
<1>1. l.code = "IDENTIFIER" /\ l.text \in Macros
  BY DEF IsMacroName
<1>2. EndOfFile.code = "END_OF_FILE_EXCEPTION" /\ EndOfArgument.code = "END_OF_MACRO_ARGUMENT_EXCEPTION"
  BY DEF EndOfFile, EndOfArgument, Lexem
<1>3. l # EndOfFile /\ l # EndOfArgument
  BY <1>1, <1>2
<1> QED
  BY <1>1, <1>3 DEF Exceptions

LEMMA NameIs ==
    ASSUME NEW code \in {"IDENTIFIER", "IDENT_NO_CPP_EXPAND"}, NEW m \in Macros
    PROVE  Lexem(code, m) \in Plain
<1>1. m \in Texts /\ m \in Joined
  BY JoinedAre
<1> QED
  BY <1>1 DEF Lexem, Plain, Lexems, Codes, IsPastable

LEMMA LeaveBodyTyped ==
    ASSUME Whole, LeaveBody
    PROVE  Whole'
<1>1. streams[Len(streams)].type # "NORMAL_STREAM"
  BY DEF LeaveBody, Current
<1>2. Above(Front(streams))
  BY <1>1, FrontIsAbove DEF Whole
<1>3. torn' \in BOOLEAN
  BY DEF LeaveBody, Whole
<1> QED
  BY <1>2, <1>3 DEF Whole, LeaveBody

LEMMA TakeLexemTyped ==
    ASSUME Whole, TakeLexem
    PROVE  Whole'
<1>1. PICK r \in Reads :
        r.lexem \notin Exceptions /\ streams' = r.after /\ text' = r.file /\ Give(r.lexem, calls)
  BY DEF TakeLexem
<1>2. r.lexem \in Plain /\ Above(r.after) /\ r.file \in Files
  BY <1>1, ReadLexemIs
<1>3. calls' \in Seq(OpenCalls) /\ output' \in Seq(Texts)
  BY <1>1, <1>2, GiveIs DEF Whole
<1> QED
  BY <1>1, <1>2, <1>3 DEF Whole, TakeLexem, Files

LEMMA TakeCyclicTyped ==
    ASSUME Whole, TakeCyclic
    PROVE  Whole'
<1>1. PICK r \in Reads :
        /\ IsMacroName(r.lexem) /\ streams' = r.after /\ text' = r.file
        /\ Give([r.lexem EXCEPT !.code = "IDENT_NO_CPP_EXPAND"], calls)
  BY DEF TakeCyclic
<1>2. r.lexem \in Plain /\ r.lexem.text \in Macros /\ Above(r.after) /\ r.file \in Files
  BY <1>1, ReadLexemIs, MacroNameIs
<1>3. [r.lexem EXCEPT !.code = "IDENT_NO_CPP_EXPAND"] = Lexem("IDENT_NO_CPP_EXPAND", r.lexem.text)
  BY <1>2 DEF Plain, Lexems, Lexem
<1>4. [r.lexem EXCEPT !.code = "IDENT_NO_CPP_EXPAND"] \in Plain
  BY <1>2, <1>3, NameIs
<1>5. calls' \in Seq(OpenCalls) /\ output' \in Seq(Texts)
  BY <1>1, <1>4, GiveIs DEF Whole
<1> QED
  BY <1>1, <1>2, <1>5 DEF Whole, TakeCyclic, Files

LEMMA ExpandObjectTyped ==
    ASSUME Whole, ExpandObject
    PROVE  Whole'
<1>1. PICK r \in Reads :
        IsMacroName(r.lexem) /\ text' = r.file /\ CreateMacroBody(r.lexem.text, <<>>, r.after, calls)
  BY DEF ExpandObject
<1>2. r.lexem.text \in Macros /\ Above(r.after) /\ r.file \in Files
  BY <1>1, ReadLexemIs, MacroNameIs
<1>3. <<>> \in Seq(Arguments) /\ Len(<<>>) <= Len(ParamsOf(r.lexem.text))
  BY <1>2, ParamsAre
<1>4. /\ Chosen(body') /\ Above(streams') /\ calls' \in Seq(OpenCalls) /\ status' \in Statuses
      /\ kept' \in BOOLEAN
  BY <1>1, <1>2, <1>3, CreateIs DEF Whole, Statuses
<1> QED
  BY <1>1, <1>2, <1>4 DEF Whole, ExpandObject, Files, Statuses

LEMMA BeginCallTyped ==
    ASSUME Whole, BeginCall
    PROVE  Whole'
<1> DEFINE Begun(m) == [macro |-> m, phase |-> "call", args |-> <<>>, depth |-> 0,
                        collated |-> <<>>, expanded |-> <<>>, buffer |-> <<>>]
<1>1. PICK r \in Reads :
        /\ IsMacroName(r.lexem) /\ Params[r.lexem.text] # ObjectLike
        /\ text' = r.file /\ streams' = r.after
        /\ calls' = Append(calls, Begun(r.lexem.text))
  BY Zenon DEF BeginCall
<1>2. r.lexem.text \in Macros /\ Above(r.after) /\ r.file \in Files
  BY <1>1, ReadLexemIs, MacroNameIs
<1>3. ParamsOf(r.lexem.text) # <<>> /\ ParamsOf(r.lexem.text) \in Seq(Texts)
  BY <1>1, <1>2, ParamsAre
<1>4. Begun(r.lexem.text) \in OpenCalls
  <2>1. Len(<<>>) <= Len(ParamsOf(r.lexem.text))
    BY <1>3
  <2>2. /\ <<>> \in Seq(Arguments) /\ <<>> \in Seq(BodyLexems(r.lexem.text))
        /\ <<>> \in Seq(Seq(Plain)) /\ <<>> \in Seq(Plain) /\ 0 \in Nat
    OBVIOUS
  <2>3. "call" # "collect" /\ "call" # "expand" /\ "call" \in {"call", "collect", "expand"}
    OBVIOUS
  <2> QED
    BY <1>2, <1>3, <2>1, <2>2, <2>3, CallIs
<1> HIDE DEF Begun
<1>5. calls' \in Seq(OpenCalls)
  BY <1>1, <1>4, SeqAppend DEF Whole
<1> QED
  BY <1>1, <1>2, <1>5 DEF Whole, BeginCall, Files

LEMMA LeftParenthesisTyped ==
    ASSUME Whole, LeftParenthesis
    PROVE  Whole'
<1> DEFINE First == <<[lexems |-> <<>>, of |-> NoMacro]>>
           c == [Call EXCEPT !.phase = "collect", !.args = First]
<1>1. PICK r \in ReadsIn("call") :
        /\ streams' = r.after /\ text' = r.file
        /\ calls' = [calls EXCEPT ![Len(calls)].phase = "collect", ![Len(calls)].args = First]
  BY Zenon DEF LeftParenthesis
<1>2. calls # <<>> /\ r \in Reads
  BY DEF ReadsIn
<1>3. Above(r.after) /\ r.file \in Files
  BY <1>2, ReadLexemIs
<1>4. Call \in OpenCalls
  BY <1>2, LastCallIs DEF Whole
<1>5. c \in OpenCalls
  <2>1. First \in Seq(Arguments) /\ First # <<>> /\ Len(First) = 1
    BY DEF Arguments, Owners
  <2>2. 1 <= Len(ParamsOf(Call.macro))
    BY <1>4, CallFieldsAre, ParamsAre
  <2> HIDE DEF First
  <2> QED
    BY <1>4, <2>1, <2>2 DEF OpenCalls
<1>6. calls' = [calls EXCEPT ![Len(calls)] = c]
  BY <1>1, <1>2 DEF Call, Current, Whole
<1> HIDE DEF c
<1>7. calls' \in Seq(OpenCalls)
  BY <1>2, <1>5, <1>6, ChangedCallIs DEF Whole
<1> QED
  BY <1>1, <1>3, <1>7 DEF Whole, LeftParenthesis, Files

LEMMA NoCallTyped ==
    ASSUME Whole, NoCall
    PROVE  Whole'
<1>1. PICK r \in ReadsIn("call") :
        streams' = r.before /\ text' = r.file /\ Give(Lexem("IDENTIFIER", Call.macro), Front(calls))
  BY DEF NoCall
<1>2. calls # <<>> /\ r \in Reads
  BY DEF ReadsIn
<1>3. Above(r.before) /\ r.file \in Files
  BY <1>2, ReadLexemIs
<1>4. Call \in OpenCalls /\ Front(calls) \in Seq(OpenCalls)
  BY <1>2, LastCallIs DEF Whole
<1>5. Lexem("IDENTIFIER", Call.macro) \in Plain
  BY <1>4, CallFieldsAre, NameIs
<1>6. calls' \in Seq(OpenCalls) /\ output' \in Seq(Texts)
  BY <1>1, <1>4, <1>5, GiveIs DEF Whole
<1> QED
  BY <1>1, <1>3, <1>6 DEF Whole, NoCall, Files

\* What a call has when it reads its arguments
LEMMA CollectingIs ==
    ASSUME Whole, NEW r \in ReadsIn("collect")
    PROVE  /\ calls # <<>> /\ Call \in OpenCalls /\ Call.phase = "collect"
           /\ r.lexem \in Plain \cup Exceptions /\ Above(r.after) /\ r.file \in Files
           /\ Call.args \in Seq(Arguments) /\ Call.args # <<>>
           /\ Len(Call.args) \in Nat \ {0} /\ Call.args[Len(Call.args)] \in Arguments
<1>1. calls # <<>> /\ Call.phase = "collect" /\ r \in Reads
  BY DEF ReadsIn
<1>2. Call \in OpenCalls
  BY <1>1, LastCallIs DEF Whole
<1>3. r.lexem \in Plain \cup Exceptions /\ Above(r.after) /\ r.file \in Files
  BY <1>1, ReadLexemIs
<1>4. Call.args \in Seq(Arguments) /\ Call.args # <<>>
  BY <1>1, <1>2, CallFieldsAre
<1>5. Len(Call.args) \in Nat \ {0} /\ Call.args[Len(Call.args)] \in Arguments
  BY <1>4, SeqFront
<1> QED
  BY <1>1, <1>2, <1>3, <1>4, <1>5

LEMMA NamedByIs ==
    ASSUME Call.args \in Seq(Arguments), Call.args # <<>>, NEW s, Above(s)
    PROVE  NamedBy(s) \in Seq(Arguments) /\ Len(NamedBy(s)) = Len(Call.args)
<1> DEFINE args == Call.args
           a == args[Len(args)]
           b == [a EXCEPT !.of = Current(s).of]
<1>1. a \in Arguments
  BY SeqFront
<1>2. Current(s) \in PlainStreams
  BY DEF Above, Current
<1>3. b \in Arguments
  BY <1>1, <1>2 DEF Arguments, PlainStreams
<1>4. NamedBy(s) = [args EXCEPT ![Len(args)] = b]
  BY DEF NamedBy
<1> HIDE DEF b
<1> QED
  BY <1>3, <1>4, SeqExcept

LEMMA CollectLexemTyped ==
    ASSUME Whole, CollectLexem
    PROVE  Whole'
<1> DEFINE n == Len(Call.args)
           a == Call.args[n]
           On(l) == [a EXCEPT !.lexems = Append(a.lexems, l)]
           Args(l) == [Call.args EXCEPT ![n] = On(l)]
           Depth(l) == CASE l.code = "(" -> Call.depth + 1 [] l.code = ")" -> Call.depth - 1 [] OTHER -> Call.depth
           c(l) == [Call EXCEPT !.args = Args(l), !.depth = Depth(l)]
<1>1. PICK r \in ReadsIn("collect") :
        /\ ~CallEnds(r.lexem)
        /\ streams' = r.after /\ text' = r.file
        /\ calls' = [calls EXCEPT ![Len(calls)] =
                      [Call EXCEPT !.args[Len(Call.args)].lexems = Append(@, r.lexem),
                                   !.depth = CASE r.lexem.code = "(" -> @ + 1
                                               [] r.lexem.code = ")" -> @ - 1
                                               [] OTHER -> @]]
  BY Zenon DEF CollectLexem
<1>2. /\ calls # <<>> /\ Call \in OpenCalls /\ Call.phase = "collect"
      /\ r.lexem \in Plain \cup Exceptions /\ Above(r.after) /\ r.file \in Files
      /\ Call.args \in Seq(Arguments) /\ Call.args # <<>>
      /\ n \in Nat \ {0} /\ a \in Arguments
  BY CollectingIs
<1>3. r.lexem \in Plain /\ ~(Call.depth = 0 /\ r.lexem.code = ")")
  BY <1>1, <1>2 DEF CallEnds
<1>4. On(r.lexem) \in Arguments
  <2>1. Append(a.lexems, r.lexem) \in Seq(Plain)
    BY <1>2, <1>3, SeqAppend DEF Arguments
  <2> HIDE DEF a
  <2> QED
    BY <1>2, <2>1 DEF Arguments
<1>5. Args(r.lexem) \in Seq(Arguments) /\ Len(Args(r.lexem)) = n
  <2> HIDE DEF On
  <2> QED
    BY <1>2, <1>4, SeqExcept
<1>6. Args(r.lexem) # <<>>
  BY <1>2, <1>5
<1>7. Depth(r.lexem) \in Nat
  <2>1. Call.depth \in Nat
    BY <1>2, CallFieldsAre
  <2> QED
    BY <1>3, <2>1
<1>8. calls' = [calls EXCEPT ![Len(calls)] = c(r.lexem)]
  BY <1>1, <1>2
<1>9. c(r.lexem) \in OpenCalls
  <2>1. Len(Args(r.lexem)) <= Len(ParamsOf(Call.macro))
    BY <1>2, <1>5, CallFieldsAre
  <2> HIDE DEF Args, Depth
  <2> QED
    BY <1>2, <1>5, <1>6, <1>7, <2>1 DEF OpenCalls
<1> HIDE DEF c
<1>10. calls' \in Seq(OpenCalls)
  BY <1>2, <1>8, <1>9, ChangedCallIs DEF Whole
<1> QED
  BY <1>1, <1>2, <1>10 DEF Whole, CollectLexem, Files

LEMMA NextArgumentTyped ==
    ASSUME Whole, NextArgument
    PROVE  Whole'
<1> DEFINE Empty == [lexems |-> <<>>, of |-> NoMacro]
           Args(s) == Append(NamedBy(s), Empty)
           c(s) == [Call EXCEPT !.args = Args(s)]
<1>1. PICK r \in ReadsIn("collect") :
        /\ ArgumentEnds(r.lexem) /\ streams' = r.after /\ text' = r.file
        /\ calls' = [calls EXCEPT ![Len(calls)].args = Append(NamedBy(r.after), [lexems |-> <<>>, of |-> NoMacro])]
  BY Zenon DEF NextArgument
<1>2. /\ calls # <<>> /\ Call \in OpenCalls /\ Call.phase = "collect" /\ Above(r.after) /\ r.file \in Files
      /\ Call.args \in Seq(Arguments) /\ Call.args # <<>> /\ Len(Call.args) \in Nat \ {0}
  BY CollectingIs
<1>3. NamedBy(r.after) \in Seq(Arguments) /\ Len(NamedBy(r.after)) = Len(Call.args)
  BY <1>2, NamedByIs
<1>4. Empty \in Arguments
  BY DEF Arguments, Owners
<1>5. Args(r.after) \in Seq(Arguments) /\ Len(Args(r.after)) = Len(Call.args) + 1 /\ Args(r.after) # <<>>
  <2> HIDE DEF Empty
  <2> QED
    BY <1>3, <1>4, SeqAppend
<1>6. c(r.after) \in OpenCalls
  <2>1. Len(Args(r.after)) <= Len(ParamsOf(Call.macro))
    <3>1. Call.macro \in Macros
      BY <1>2, CallFieldsAre
    <3>2. Len(ParamsOf(Call.macro)) \in Nat
      BY <3>1, ParamsAre
    <3>3. Len(Call.args) < Len(ParamsOf(Call.macro))
      BY <1>1 DEF ArgumentEnds
    <3> HIDE DEF Args
    <3> QED
      BY <1>2, <1>5, <3>2, <3>3
  <2> HIDE DEF Args
  <2> QED
    BY <1>2, <1>5, <2>1 DEF OpenCalls
<1>7. calls' = [calls EXCEPT ![Len(calls)] = c(r.after)]
  BY <1>1, <1>2 DEF Call, Current, Whole
<1> HIDE DEF c
<1>8. calls' \in Seq(OpenCalls)
  BY <1>2, <1>6, <1>7, ChangedCallIs DEF Whole
<1> QED
  BY <1>1, <1>2, <1>8 DEF Whole, NextArgument, Files

LEMMA EndCallTyped ==
    ASSUME Whole, EndCall
    PROVE  Whole'
<1>1. PICK r \in ReadsIn("collect") :
        text' = r.file /\ CreateMacroBody(Call.macro, NamedBy(r.after), r.after, Front(calls))
  BY DEF EndCall
<1>2. /\ calls # <<>> /\ Call \in OpenCalls /\ Above(r.after) /\ r.file \in Files
      /\ Call.args \in Seq(Arguments) /\ Call.args # <<>>
  BY CollectingIs
<1>3. NamedBy(r.after) \in Seq(Arguments) /\ Len(NamedBy(r.after)) = Len(Call.args)
  BY <1>2, NamedByIs
<1>4. Front(calls) \in Seq(OpenCalls)
  BY <1>2, LastCallIs DEF Whole
<1>5. Call.macro \in Macros /\ Len(NamedBy(r.after)) <= Len(ParamsOf(Call.macro))
  BY <1>2, <1>3, CallFieldsAre
<1>6. /\ Chosen(body') /\ Above(streams') /\ calls' \in Seq(OpenCalls) /\ status' \in Statuses
      /\ kept' \in BOOLEAN
  BY <1>1, <1>2, <1>3, <1>4, <1>5, CreateIs DEF Whole, Statuses
<1> QED
  BY <1>1, <1>2, <1>6 DEF Whole, EndCall, Files, Statuses

LEMMA EndArgumentTyped ==
    ASSUME Whole, EndArgument
    PROVE  Whole'
<1> DEFINE params == ParamsOf(Call.macro)
           expanded == Append(Call.expanded, Call.buffer)
           k == Len(expanded) + 1
           Following == IF k <= Len(Call.args)
                        THEN Stream(Call.args[k].lexems, Call.args[k].of, "MACRO_ARGUMENT_STREAM")
                        ELSE Stream(<<>>, NoMacro, "MACRO_ARGUMENT_STREAM")
           values == [p \in ToSet(params) |-> expanded[CHOOSE i \in DOMAIN params : params[i] = p]]
           Replaced == Stream(ReplaceMacroArguments(Call.collated, values), Call.macro, "MACRO_STREAM")
           c == [Call EXCEPT !.expanded = expanded, !.buffer = <<>>]
<1>1. /\ calls # <<>> /\ Call.phase = "expand" /\ Current(streams).type = "MACRO_ARGUMENT_STREAM"
      /\ IF k <= Len(params)
         THEN /\ calls' = [calls EXCEPT ![Len(calls)].expanded = expanded, ![Len(calls)].buffer = <<>>]
              /\ PrependMacroInput(Front(streams), Following)
         ELSE calls' = Front(calls) /\ PrependMacroInput(Front(streams), Replaced)
      /\ UNCHANGED <<text, body, output, torn, kept>>
  BY Zenon DEF EndArgument
<1>2. Call \in OpenCalls /\ Front(calls) \in Seq(OpenCalls)
  BY <1>1, LastCallIs DEF Whole
<1>3. /\ Call.macro \in Macros /\ Call.args \in Seq(Arguments) /\ Call.collated \in Seq(BodyLexems(Call.macro))
      /\ Call.expanded \in Seq(Seq(Plain)) /\ Call.buffer \in Seq(Plain)
      /\ Len(Call.expanded) < Len(params)
  BY <1>1, <1>2, CallFieldsAre
<1>4. params \in Seq(Texts)
  BY <1>3, ParamsAre
<1>5. expanded \in Seq(Seq(Plain)) /\ Len(expanded) = Len(Call.expanded) + 1
  <2> DEFINE A == Seq(Plain)
  <2>1. Call.expanded \in Seq(A) /\ Call.buffer \in A
    BY <1>3
  <2> HIDE DEF A
  <2>2. expanded \in Seq(A) /\ Len(expanded) = Len(Call.expanded) + 1
    BY <2>1, SeqAppend
  <2> QED
    BY <2>2 DEF A
<1>6. Above(Front(streams))
  <2>1. streams[Len(streams)].type # "NORMAL_STREAM"
    BY <1>1 DEF Current
  <2> QED
    BY <2>1, FrontIsAbove DEF Whole
<1>7. Len(expanded) \in Nat /\ Len(params) \in Nat
  BY <1>4, <1>5
<1> HIDE DEF expanded
<1>8. CASE k <= Len(params)
  <2>1. Following \in PlainStreams
    <3>1. CASE k <= Len(Call.args)
      <4>1. Call.args[k] \in Arguments
        BY <1>3, <1>7, <3>1
      <4>2. Call.args[k].lexems \in Seq(Plain) /\ Call.args[k].of \in Owners
        BY <4>1 DEF Arguments
      <4> QED
        BY <3>1, <4>2, StreamIs
    <3>2. CASE ~(k <= Len(Call.args))
      <4>1. <<>> \in Seq(Plain) /\ NoMacro \in Owners
        BY DEF Owners
      <4> QED
        BY <3>2, <4>1, StreamIs
    <3> QED
      BY <3>1, <3>2
  <2> HIDE DEF Following
  <2>2. Above(streams') /\ status' \in Statuses
    BY <1>1, <1>6, <1>8, <2>1, PrependIs DEF Whole, Statuses
  <2>3. c \in OpenCalls
    <3>1. <<>> \in Seq(Plain) /\ Len(expanded) < Len(params)
      BY <1>7, <1>8
    <3> QED
      BY <1>1, <1>2, <1>5, <3>1 DEF OpenCalls
  <2>4. calls' = [calls EXCEPT ![Len(calls)] = c]
    BY <1>1, <1>8 DEF Call, Current, Whole
  <2> HIDE DEF c
  <2>5. calls' \in Seq(OpenCalls)
    BY <1>1, <2>3, <2>4, ChangedCallIs DEF Whole
  <2> QED
    BY <1>1, <2>2, <2>5 DEF Whole, Statuses
<1>9. CASE ~(k <= Len(params))
  <2>1. Len(expanded) = Len(params)
    BY <1>3, <1>5, <1>7, <1>9
  <2>2. ASSUME NEW p \in ToSet(params), NEW i, i = CHOOSE j \in DOMAIN params : params[j] = p
        PROVE  expanded[i] \in Seq(Plain)
    <3>1. \E j \in DOMAIN params : params[j] = p
      BY <1>4 DEF ToSet
    <3>2. i \in DOMAIN params
      BY <2>2, <3>1
    <3>3. i \in 1..Len(expanded)
      BY <1>4, <2>1, <3>2
    <3> QED
      BY <1>5, <3>3
  <2>3. values \in [ToSet(params) -> Seq(Plain)]
    BY <2>2, Zenon
  <2> HIDE DEF values
  <2>4. ReplaceMacroArguments(Call.collated, values) \in Seq(Plain)
    BY <1>3, <2>3, ReplacedIs
  <2>5. Replaced \in PlainStreams
    BY <1>3, <2>4, StreamIs DEF Owners
  <2>6. calls' = Front(calls) /\ PrependMacroInput(Front(streams), Replaced)
    BY <1>1, <1>9
  <2> HIDE DEF Replaced
  <2>7. Above(streams') /\ status' \in Statuses
    BY <1>6, <2>5, <2>6, PrependIs DEF Whole, Statuses
  <2> QED
    BY <1>1, <1>2, <2>6, <2>7 DEF Whole, Statuses
<1> QED
  BY <1>8, <1>9

LEMMA EndOfTextTyped ==
    ASSUME Whole, EndOfText
    PROVE  Whole'
<1>1. PICK r \in Reads : text' = r.file
  BY DEF EndOfText
<1>2. r.file \in Files
  BY ReadLexemIs
<1> QED
  BY <1>1, <1>2 DEF Whole, EndOfText, Files

LEMMA InitWhole == Init => Whole
<1> SUFFICES ASSUME Init PROVE Whole
  OBVIOUS
<1>1. text = <<>> /\ calls = <<>> /\ output = <<>> /\ status = "reading" /\ torn = FALSE /\ kept = FALSE
  BY DEF Init
<1>5. \A A : <<>> \in Seq(A)
  OBVIOUS
<1>2. Chosen(body)
  BY DEF Init, Chosen
<1>3. Stream(<<>>, NoMacro, "NORMAL_STREAM") \in PlainStreams
  BY DEF Stream, PlainStreams, Owners
<1>4. Above(streams)
  BY <1>3 DEF Init, Above, Stream
<1> QED
  BY <1>1, <1>2, <1>4, <1>5 DEF Whole

LEMMA NextWhole == Whole /\ [Next]_vars => Whole'
<1> SUFFICES ASSUME Whole, [Next]_vars PROVE Whole'
  OBVIOUS
<1>1. CASE UNCHANGED vars
  BY <1>1 DEF Whole, vars
<1>2. CASE CallInterrupted
  BY <1>2 DEF Whole, CallInterrupted
<1>3. CASE Next /\ ~CallInterrupted
  BY <1>3, LeaveBodyTyped, TakeLexemTyped, TakeCyclicTyped, ExpandObjectTyped, BeginCallTyped,
     LeftParenthesisTyped, NoCallTyped, CollectLexemTyped, NextArgumentTyped, EndCallTyped, EndArgumentTyped,
     EndOfTextTyped, Zenon DEF Next
<1> QED
  BY <1>1, <1>2, <1>3

LEMMA WholeTypes == Whole => TypeOK
<1> SUFFICES ASSUME Whole PROVE TypeOK
  OBVIOUS
<1>1. Seq(Plain) \subseteq Seq(Lexems) /\ \A m \in Macros : Seq(BodyLexems(m)) \subseteq Seq(Lexems)
  BY LexemsAre, SeqGrows
<1>2. body \in [Macros -> Seq(Lexems) \cup {NoBody}]
  <2>1. body = [m \in Macros |-> body[m]] /\ \A m \in Macros : body[m] \in Bodies[m] \cup {NoBody}
    BY DEF Whole, Chosen
  <2>2. \A m \in Macros : body[m] \in Seq(Lexems) \cup {NoBody}
    BY <1>1, <2>1, LexemsAre
  <2> QED
    BY <2>1, <2>2
<1>3. streams \in Seq(Streams)
  <2>1. PlainStreams \subseteq Streams
    BY <1>1 DEF PlainStreams, Streams, Owners
  <2>2. streams \in Seq(PlainStreams)
    BY DEF Whole, Above
  <2> QED
    BY <2>1, <2>2, SeqGrows
<1>4. calls \in Seq(Calls) /\ \A k \in DOMAIN calls : Len(calls[k].args) <= Len(ParamsOf(calls[k].macro))
  <2>1. Seq(Arguments) \subseteq Seq([lexems : Seq(Lexems), of : Macros \cup {NoMacro}])
    <3>1. Arguments \subseteq [lexems : Seq(Lexems), of : Macros \cup {NoMacro}]
      BY <1>1 DEF Arguments, Owners
    <3> QED
      BY <3>1, SeqGrows
  <2>2. Seq(Seq(Plain)) \subseteq Seq(Seq(Lexems))
    BY <1>1, SeqGrows
  <2>3. OpenCalls \subseteq Calls
    BY <1>1, <2>1, <2>2 DEF OpenCalls, Calls
  <2>4. calls \in Seq(OpenCalls)
    BY DEF Whole
  <2>5. calls \in Seq(Calls)
    BY <2>3, <2>4, SeqGrows
  <2>6. \A k \in DOMAIN calls : calls[k] \in OpenCalls
    BY <2>4
  <2> QED
    BY <2>5, <2>6, CallFieldsAre
<1> QED
  BY <1>2, <1>3, <1>4 DEF Whole, TypeOK

\* Spec => []TypeOK (yylex.c: pasting and replacing leave lexems, the array of the actual
\* arguments is never overrun), for all macros and texts that MacrosAssumption admits.
THEOREM ExpansionTyped == Spec => []TypeOK
BY InitWhole, NextWhole, WholeTypes, PTL DEF Spec
=============================================================================
