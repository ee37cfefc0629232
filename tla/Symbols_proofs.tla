--------------------------- MODULE Symbols_proofs ---------------------------
(***************************************************************************)
(* Nothing in the symbol table, in a frame, in a tag or in an open         *)
(* construct points at memory that has been freed, and the table is in the *)
(* order of the blocks; and the table, the blocks and the checkpoints      *)
(* implement the stack of scopes of Scopes.tla: for all names, sizes of    *)
(* memory and nestings.                                                    *)
(***************************************************************************)
EXTENDS SymbolsInvariant, WellFoundedInduction, TLAPS

-----------------------------------------------------------------------------
(* Sequences                                                               *)

LEMMA SubSeqFacts ==
    ASSUME NEW S, NEW s \in Seq(S), NEW m \in 1..(Len(s) + 1), NEW n \in (m - 1)..Len(s)
    PROVE  /\ SubSeq(s, m, n) \in Seq(S) /\ Len(SubSeq(s, m, n)) = n - m + 1
           /\ \A i \in 1..(n - m + 1) : SubSeq(s, m, n)[i] = s[m + i - 1]
OBVIOUS

LEMMA ConcatFacts ==
    ASSUME NEW S, NEW s \in Seq(S), NEW t \in Seq(S)
    PROVE  /\ s \o t \in Seq(S) /\ Len(s \o t) = Len(s) + Len(t)
           /\ \A i \in 1..(Len(s) + Len(t)) : (s \o t)[i] = IF i <= Len(s) THEN s[i] ELSE t[i - Len(s)]
OBVIOUS

LEMMA RemoveAtFacts ==
    ASSUME NEW S, NEW s \in Seq(S), NEW k \in 1..Len(s)
    PROVE /\ RemoveAt(s, k) \in Seq(S) /\ Len(RemoveAt(s,k)) = Len(s) - 1 
        /\ \A i \in 1..(Len(s)-1) : RemoveAt(s,k)[i] = IF i < k THEN s[i] ELSE s[i+1]
<1> DEFINE a == SubSeq(s, 1, k-1)
           b == SubSeq(s, k+1, Len(s))
<1>0. Len(s) \in Nat /\ k \in Nat OBVIOUS
<1>1. /\ a \in Seq(S) /\ Len(a) = k - 1
      /\ \A i \in 1..(k-1) : a[i] = s[i]
  BY SubSeqFacts
<1>2. /\ b \in Seq(S) /\ Len(b) = Len(s) - k
      /\ \A i \in 1..(Len(s)-k) : b[i] = s[k + i]
  BY SubSeqFacts
<1> HIDE DEF a, b
<1>3. /\ a \o b \in Seq(S) /\ Len(a \o b) = Len(s) - 1
      /\ \A i \in 1..(Len(s) - 1) : (a \o b)[i] = IF i <= k - 1 THEN a[i] ELSE b[i - (k - 1)]
  <2>1. /\ a \o b \in Seq(S) /\ Len(a \o b) = Len(a) + Len(b)
        /\ \A i \in 1..(Len(a) + Len(b)) : (a \o b)[i] = IF i <= Len(a) THEN a[i] ELSE b[i - Len(a)]
    BY <1>1, <1>2, ConcatFacts
  <2>2. Len(a) + Len(b) = Len(s) - 1 BY <1>0, <1>1, <1>2
  <2> QED BY <1>1, <2>1, <2>2
<1>4. \A i \in 1..(Len(s)-1) : (a \o b)[i] = IF i < k THEN s[i] ELSE s[i+1]
  <2> SUFFICES ASSUME NEW i \in 1..(Len(s)-1) PROVE (a \o b)[i] = IF i < k THEN s[i] ELSE s[i+1]
    OBVIOUS
  <2>1. CASE i < k BY <1>0, <1>1, <1>3, <2>1
  <2>2. CASE ~(i < k)
    <3>1. i - (k - 1) \in 1..(Len(s)-k) /\ k + (i - (k - 1)) = i + 1
      BY <1>0, <2>2
    <3>2. b[i - (k - 1)] = s[i + 1] BY <1>2, <3>1
    <3> QED BY <1>0, <1>3, <2>2, <3>2
  <2> QED BY <2>1, <2>2
<1> QED BY <1>3, <1>4 DEF RemoveAt, a, b

LEMMA FrontFacts ==
    ASSUME NEW S, NEW s \in Seq(S), s # <<>>
    PROVE  /\ Len(s) \in Nat /\ Len(s) >= 1 /\ Len(s) \in 1..Len(s)
           /\ Front(s) \in Seq(S) /\ Len(Front(s)) = Len(s) - 1
           /\ Last(s) = s[Len(s)] /\ Last(s) \in S
           /\ \A i \in 1..(Len(s) - 1) : Front(s)[i] = s[i]
<1>1. Len(s) \in Nat \ {0} OBVIOUS
<1>2. \A n \in 0..Len(s) : /\ SubSeq(s, 1, n) \in Seq(S) /\ Len(SubSeq(s, 1, n)) = n
                           /\ \A i \in 1..n : SubSeq(s, 1, n)[i] = s[i]
  OBVIOUS
<1> DEFINE n == Len(s) - 1
<1>3. n \in 0..Len(s) /\ Front(s) = SubSeq(s, 1, n) BY <1>1 DEF Front
<1>4. Last(s) = s[Len(s)] /\ Last(s) \in S BY <1>1 DEF Last
<1> HIDE DEF n
<1>5. Front(s) \in Seq(S) /\ Len(Front(s)) = n /\ \A i \in 1..n : Front(s)[i] = s[i]
  BY <1>2, <1>3
<1> QED BY <1>1, <1>4, <1>5 DEF n

\* What the blocks and the chains are ordered by
Within(a, b) == \A i \in 1..Len(a) : \E j \in 1..Len(b) : a[i] = b[j]

LEMMA RemovedFacts ==
    ASSUME NEW tab \in Seq(Int), Descends(tab), NEW k \in 1..Len(tab)
    PROVE  /\ RemoveAt(tab, k) \in Seq(Int) /\ Descends(RemoveAt(tab, k))
           /\ Within(RemoveAt(tab, k), tab)
           /\ tab[k] > 0 => \A i \in 1..Len(RemoveAt(tab, k)) : RemoveAt(tab, k)[i] # tab[k]
<1> DEFINE D == RemoveAt(tab, k)
           at(i) == IF i < k THEN i ELSE i + 1
<1>1. /\ D \in Seq(Int) /\ Len(D) = Len(tab) - 1
      /\ \A i \in 1..(Len(tab) - 1) : D[i] = IF i < k THEN tab[i] ELSE tab[i + 1]
  BY RemoveAtFacts
<1>2. Len(tab) \in Nat /\ k \in Nat OBVIOUS
<1> HIDE DEF D
<1>3. ASSUME NEW i \in 1..Len(D)
      PROVE  at(i) \in 1..Len(tab) /\ at(i) # k /\ D[i] = tab[at(i)]
  <2>1. i \in 1..(Len(tab) - 1) BY <1>1, <1>2
  <2>2. D[i] = IF i < k THEN tab[i] ELSE tab[i + 1] BY <1>1, <2>1
  <2>3. CASE i < k BY <1>2, <2>1, <2>2, <2>3
  <2>4. CASE ~(i < k) BY <1>2, <2>1, <2>2, <2>4
  <2> QED BY <2>3, <2>4
<1>4. ASSUME NEW i \in 1..Len(D), NEW j \in 1..Len(D), i < j
      PROVE  at(i) < at(j)
  <2>1. i \in Int /\ j \in Int OBVIOUS
  <2> QED BY <1>2, <1>4, <2>1
<1> HIDE DEF at
<1>5. Descends(D) BY <1>3, <1>4 DEF Descends
<1>6. Within(D, tab) BY <1>3 DEF Within
<1>7. tab[k] > 0 => \A i \in 1..Len(D) : D[i] # tab[k]
  <2> SUFFICES ASSUME tab[k] > 0, NEW i \in 1..Len(D), D[i] = tab[k] PROVE FALSE
    OBVIOUS
  <2>1. at(i) < k \/ k < at(i) BY <1>2, <1>3
  <2>2. tab[at(i)] > 0 /\ tab[at(i)] = tab[k] /\ tab[k] \in Int BY <1>3
  <2> QED BY <1>3, <2>1, <2>2 DEF Descends
<1> QED BY <1>1, <1>5, <1>6, <1>7 DEF D

-----------------------------------------------------------------------------
(* The newest symbol that equals one                                       *)

Equal(tab, cells, p) == {i \in 1..Len(tab) : SameSymbol(At(cells, tab[i]), At(cells, p))}

LEMMA LeastExists ==
    ASSUME NEW E \in SUBSET Nat, E # {}
    PROVE  \E k \in E : \A j \in E : k <= j
<1>1. PICK k \in E : \A j \in E : <<j, k>> \notin OpToRel(<, Nat)
  BY NatLessThanWellFounded, WFMin
<1>2. \A j \in E : ~(j < k) BY <1>1 DEF OpToRel
<1> QED BY <1>2

LEMMA Newest ==
    ASSUME NEW E \in SUBSET Nat, E # {}
    PROVE  /\ (CHOOSE i \in E : \A j \in E : i <= j) \in E
           /\ \A j \in E : (CHOOSE i \in E : \A k \in E : i <= k) <= j
<1>1. \E i \in E : \A j \in E : i <= j BY LeastExists
<1> QED BY <1>1

LEMMA DeleteFacts ==
    ASSUME NEW tab \in Seq(Int), Descends(tab), NEW cells, NEW p
    PROVE  /\ Delete(tab, cells, p) \in Seq(Int) /\ Descends(Delete(tab, cells, p))
           /\ Within(Delete(tab, cells, p), tab)
<1> DEFINE E == Equal(tab, cells, p)
           k == CHOOSE i \in E : \A j \in E : i <= j
<1>1. DOMAIN tab = 1..Len(tab) OBVIOUS
<1>2. Delete(tab, cells, p) = IF E = {} THEN tab ELSE RemoveAt(tab, k)
  BY <1>1 DEF Delete, Equal
<1>3. E \in SUBSET Nat /\ E \subseteq 1..Len(tab) BY DEF Equal
<1> HIDE DEF E
<1>4. E # {} => k \in 1..Len(tab) BY <1>3, Newest
<1> HIDE DEF k
<1>5. Within(tab, tab) BY DEF Within
<1> QED BY <1>2, <1>4, <1>5, RemovedFacts

\* A symbol is taken out when no newer one in the table equals it.
LEMMA DeleteTakes ==
    ASSUME NEW tab \in Seq(Int), Descends(tab), NEW cells, NEW p \in Int, p > 0,
           \A i \in 1..Len(tab) :
              tab[i] > p \/ tab[i] <= 0 => ~SameSymbol(At(cells, tab[i]), At(cells, p))
    PROVE  \A i \in 1..Len(Delete(tab, cells, p)) : Delete(tab, cells, p)[i] # p
<1> DEFINE E == Equal(tab, cells, p)
           k == CHOOSE i \in E : \A j \in E : i <= j
<1>1. DOMAIN tab = 1..Len(tab) OBVIOUS
<1>2. Delete(tab, cells, p) = IF E = {} THEN tab ELSE RemoveAt(tab, k)
  BY <1>1 DEF Delete, Equal
<1>3. E \in SUBSET Nat /\ E \subseteq 1..Len(tab) BY DEF Equal
<1>4. \A i \in 1..Len(tab) : tab[i] = p => i \in E BY DEF Equal, SameSymbol
<1>5. \A i \in E : tab[i] \in Int /\ ~(tab[i] > p) /\ tab[i] > 0
  <2> SUFFICES ASSUME NEW i \in E PROVE tab[i] \in Int /\ ~(tab[i] > p) /\ tab[i] > 0
    OBVIOUS
  <2>1. i \in 1..Len(tab) /\ SameSymbol(At(cells, tab[i]), At(cells, p))
    BY DEF Equal
  <2>2. tab[i] \in Int BY <2>1
  <2> QED BY <2>1, <2>2
<1> HIDE DEF E
<1>6. E # {} => k \in E /\ \A j \in E : k <= j BY <1>3, Newest
<1> HIDE DEF k
<1>7. CASE \A i \in 1..Len(tab) : tab[i] # p BY <1>7, DeleteFacts DEF Within
<1>8. CASE \E i \in 1..Len(tab) : tab[i] = p
  <2>1. PICK m \in 1..Len(tab) : tab[m] = p BY <1>8
  <2>2. m \in E /\ k \in E /\ k <= m /\ k \in 1..Len(tab)
    BY <1>3, <1>4, <1>6, <2>1
  <2>3. ~(tab[k] > p) /\ tab[k] > 0 /\ tab[k] \in Int BY <1>5, <2>2
  <2>4. k = m BY <2>1, <2>2, <2>3 DEF Descends
  <2>5. Delete(tab, cells, p) = RemoveAt(tab, k) /\ tab[k] = p
    BY <1>2, <2>1, <2>2, <2>4
  <2> QED BY <2>2, <2>3, <2>5, RemovedFacts
<1> QED BY <1>7, <1>8

-----------------------------------------------------------------------------
(* The actions of a frame, one after the other                             *)

Undone(g, m) ==
  /\ g[0] = [table |-> table, cells |-> stack]
  /\ \A n \in 1..m : g[n] = Undo(g[n - 1], frames[n])

LEMMA UnwindIsUndone ==
    ASSUME NEW until, Len(frames) - Len(until) \in Nat
    PROVE  \E g : Undone(g, Len(frames) - Len(until)) /\ Unwind(until) = g[Len(frames) - Len(until)]
<1> DEFINE own == Len(frames) - Len(until)
           base == [table |-> table, cells |-> stack]
           Is(g, m) == g = [n \in 0..m |-> IF n = 0 THEN base ELSE Undo(g[n - 1], frames[n])]
           Bad == {m \in Nat : ~ \E g : Is(g, m)}
<1>1. Bad = {}
  <2> SUFFICES ASSUME Bad # {} PROVE FALSE
    OBVIOUS
  <2>0. Bad \in SUBSET Nat OBVIOUS
  <2> HIDE DEF base
  <2>1. PICK k \in Bad : \A j \in Bad : k <= j
    <3> HIDE DEF Bad
    <3> QED BY <2>0, LeastExists
  <2>2. k \in Nat /\ ~ \E g : Is(g, k) OBVIOUS
  <2>3. CASE k = 0
    <3> DEFINE g == [n \in 0..0 |-> base]
    <3>1. Is(g, 0) OBVIOUS
    <3> QED BY <2>2, <2>3, <3>1
  <2>4. CASE k # 0
    <3>1. k - 1 \in Nat /\ ~(k <= k - 1) BY <2>2, <2>4
    <3>2. k - 1 \notin Bad
      <4> HIDE DEF Bad
      <4> QED BY <2>1, <3>1
    <3>3. PICK g : Is(g, k - 1) BY <3>1, <3>2
    <3> DEFINE h == [n \in 0..k |-> IF n = k THEN Undo(g[k - 1], frames[k]) ELSE g[n]]
    <3>4. \A n \in 0..(k - 1) : h[n] = g[n] /\ g[n] = IF n = 0 THEN base ELSE Undo(g[n - 1], frames[n])
      BY <2>2, <3>1, <3>3
    <3>5. h[k] = Undo(g[k - 1], frames[k]) /\ h[k - 1] = g[k - 1] BY <2>2, <3>1
    <3>6. ASSUME NEW n \in 0..k
          PROVE  h[n] = IF n = 0 THEN base ELSE Undo(h[n - 1], frames[n])
      <4> HIDE DEF h
      <4>1. CASE n = k BY <2>2, <2>4, <3>5, <4>1
      <4>2. CASE n # k
        <5>1. n \in 0..(k - 1) /\ (n # 0 => n - 1 \in 0..(k - 1)) BY <2>2, <4>2
        <5> QED BY <3>4, <5>1
      <4> QED BY <4>1, <4>2
    <3>7. h = [n \in 0..k |-> h[n]] OBVIOUS
    <3> HIDE DEF h
    <3>8. Is(h, k) BY <3>6, <3>7
    <3> QED BY <2>2, <3>8
  <2> QED BY <2>3, <2>4
<1>2. \E g : Is(g, own) BY <1>1
<1> DEFINE undone[n \in 0..own] == IF n = 0 THEN [table |-> table, cells |-> stack]
                                  ELSE Undo(undone[n - 1], frames[n])
<1>3. Unwind(until) = undone[own] BY DEF Unwind
<1>4. Is(undone, own) BY <1>2
<1> HIDE DEF undone
<1>5. Undone(undone, own)
  <2>1. own \in Nat OBVIOUS
  <2> HIDE DEF own
  <2>2. \A n \in 0..own : undone[n] = IF n = 0 THEN base ELSE Undo(undone[n - 1], frames[n])
    BY <1>4, <2>1
  <2> QED BY <2>1, <2>2 DEF Undone
<1> QED BY <1>3, <1>5

\* What is left after some of the actions
SameCells(cells, old) ==
  /\ cells \in Seq(Cell) /\ Len(cells) = Len(old)
  /\ \A i \in 1..Len(old) : /\ cells[i].type = old[i].type /\ cells[i].name = old[i].name
                            /\ cells[i].members \in {None, old[i].members}

Left(g, n) ==
  /\ g = [table |-> g.table, cells |-> g.cells]
  /\ g.table \in Seq(Int) /\ Descends(g.table) /\ Within(g.table, table)
  /\ SameCells(g.cells, stack)
  /\ \A j \in 1..n : frames[j].do = "delete" => \A i \in 1..Len(g.table) : g.table[i] # frames[j].symbol

LEMMA LeftStep ==
    ASSUME Typed, Good(table, Len(stack), Len(ppm)), Descends(table), FramesOf(stack, frames),
           NEW n \in Nat, n < Len(frames), NEW g, Left(g, n),
           frames[n + 1].do = "delete" =>
             \A i \in 1..Len(table) : table[i] > frames[n + 1].symbol =>
               \E j \in 1..Len(frames) : frames[j].do = "delete" /\ frames[j].symbol = table[i]
    PROVE  Left(Undo(g, frames[n + 1]), n + 1)
<1> DEFINE f == frames[n + 1]
           p == f.symbol
<1>1. /\ n + 1 \in 1..Len(frames) /\ f \in Frame /\ p \in 1..Len(stack)
      /\ Len(stack) \in Nat /\ Len(ppm) \in Nat /\ table \in Seq(Int) /\ frames \in Seq(Frame)
      /\ stack \in Seq(Cell) /\ ppm \in Seq(Macro)
  BY DEF Typed, FramesOf
<1>2. /\ g.table \in Seq(Int) /\ Descends(g.table) /\ Within(g.table, table)
      /\ SameCells(g.cells, stack)
      /\ g = [table |-> g.table, cells |-> g.cells]
  BY DEF Left
<1>3. \A j \in 1..n : frames[j].do = "delete" =>
                      \A i \in 1..Len(g.table) : g.table[i] # frames[j].symbol
  BY DEF Left
<1>4. CASE f.do = "delete"
  <2> DEFINE D == Delete(g.table, g.cells, p)
  <2>1. Undo(g, f) = [table |-> D, cells |-> g.cells] BY <1>2, <1>4 DEF Undo
  <2>2. D \in Seq(Int) /\ Descends(D) /\ Within(D, g.table) BY <1>2, DeleteFacts
  <2>3. Within(D, table) BY <1>2, <2>2 DEF Within
  <2>4. stack[p].type \in {"default", "tag"} /\ p > 1 BY <1>1, <1>4 DEF FramesOf
  <2>5. At(g.cells, p).type = stack[p].type BY <1>1, <1>2 DEF At, SameCells
  <2>6. ASSUME NEW i \in 1..Len(g.table), g.table[i] > p \/ g.table[i] <= 0
        PROVE  ~SameSymbol(At(g.cells, g.table[i]), At(g.cells, p))
    <3> DEFINE q == g.table[i]
    <3>1. PICK m \in 1..Len(table) : q = table[m] BY <1>2 DEF Within
    <3>2. q \in Int /\ (q \in 1..Len(stack) \/ -q \in 1..Len(ppm))
      BY <1>1, <3>1 DEF Good
    <3> HIDE DEF q
    <3>3. CASE q > p
      <4>1. PICK j \in 1..Len(frames) : frames[j].do = "delete" /\ frames[j].symbol = q
        BY <1>4, <3>1, <3>3
      <4>2. j <= n BY <1>1, <1>4, <3>2, <3>3, <4>1, SMTT(30) DEF FramesOf
      <4>3. j \in 1..n BY <1>1, <4>2
      <4> QED BY <1>3, <4>1, <4>3 DEF q
    <3>4. CASE q <= 0
      <4>1. -q \in 1..Len(ppm) BY <1>1, <3>2, <3>4
      <4>2. At(g.cells, q) = ppm[-q] /\ ppm[-q] \in Macro
        BY <1>1, <3>2, <3>4, <4>1 DEF At
      <4>3. At(g.cells, q).type = "macro" BY <4>2 DEF Macro
      <4> QED BY <2>4, <2>5, <4>3 DEF SameSymbol, q
    <3> QED BY <2>6, <3>3, <3>4 DEF q
  <2>7. \A i \in 1..Len(D) : D[i] # p
    <3>1. p \in Int /\ p > 0 BY <1>1
    <3> HIDE DEF p
    <3> QED BY <1>2, <2>6, <3>1, DeleteTakes, SMTT(30)
  <2> HIDE DEF D
  <2>8. ASSUME NEW j \in 1..(n + 1), frames[j].do = "delete", NEW i \in 1..Len(D)
        PROVE  D[i] # frames[j].symbol
    <3>1. CASE j = n + 1 BY <2>7, <3>1
    <3>2. CASE j # n + 1
      <4>1. j \in 1..n BY <1>1, <3>2
      <4>2. PICK k \in 1..Len(g.table) : D[i] = g.table[k]
        BY <2>2, <2>8 DEF Within
      <4> QED BY <1>3, <2>8, <4>1, <4>2
    <3> QED BY <3>1, <3>2
  <2>9. Left([table |-> D, cells |-> g.cells], n + 1)
    BY <1>2, <2>2, <2>3, <2>8 DEF Left
  <2> QED BY <2>1, <2>9
<1>5. CASE f.do # "delete"
  <2> DEFINE cells == [g.cells EXCEPT ![p].members = None]
  <2>1. Undo(g, f) = [table |-> g.table, cells |-> cells] BY <1>2, <1>5 DEF Undo
  <2>2. g.cells \in Seq(Cell) /\ p \in 1..Len(g.cells) /\ Len(g.cells) = Len(stack)
    BY <1>1, <1>2 DEF SameCells
  <2>3. [g.cells[p] EXCEPT !.members = None] \in Cell
    <3>1. g.cells[p] \in Cell BY <2>2
    <3> QED BY <3>1 DEF Cell, None
  <2>4. cells \in Seq(Cell) /\ Len(cells) = Len(g.cells) BY <2>2, <2>3
  <2>5. \A i \in 1..Len(stack) : cells[i] = IF i = p THEN [g.cells[p] EXCEPT !.members = None] ELSE g.cells[i]
    BY <2>2
  <2> HIDE DEF cells
  <2>6. SameCells(cells, stack)
    <3> SUFFICES ASSUME NEW i \in 1..Len(stack)
                 PROVE  /\ cells[i].type = stack[i].type /\ cells[i].name = stack[i].name
                        /\ cells[i].members \in {None, stack[i].members}
      BY <2>2, <2>4 DEF SameCells
    <3>1. g.cells[i] \in Cell BY <2>2
    <3>2. /\ g.cells[i].type = stack[i].type /\ g.cells[i].name = stack[i].name
          /\ g.cells[i].members \in {None, stack[i].members}
      BY <1>2 DEF SameCells
    <3>3. CASE i = p
      <4>1. cells[i] = [g.cells[i] EXCEPT !.members = None] BY <2>5, <3>3
      <4> QED BY <3>1, <3>2, <4>1 DEF Cell
    <3>4. CASE i # p BY <2>5, <3>2, <3>4
    <3> QED BY <3>3, <3>4
  <2>7. \A j \in 1..(n + 1) : frames[j].do = "delete" => j \in 1..n BY <1>5
  <2>8. Left([table |-> g.table, cells |-> cells], n + 1)
    BY <1>2, <1>3, <2>6, <2>7 DEF Left
  <2> QED BY <2>1, <2>8
<1> QED BY <1>4, <1>5

\* The end of a block: nothing is left in the table of what the frames of the block
\* are to take out.
LEMMA UnwoundFacts ==
    ASSUME Typed, Good(table, Len(stack), Len(ppm)), Descends(table), FramesOf(stack, frames),
           outer # <<>>, BlocksNest(outer, frames, Len(stack)),
           \A i \in 1..Len(table) : table[i] > Last(outer).free =>
             \E j \in 1..Len(frames) : frames[j].do = "delete" /\ frames[j].symbol = table[i]
    PROVE  Left(Unwind(Last(outer).frames), Len(frames) - Len(Last(outer).frames))
<1> DEFINE b == Last(outer)
           own == Len(frames) - Len(b.frames)
<1>1. /\ Len(frames) \in Nat /\ b \in Block /\ Outside(b, frames, Len(stack))
      /\ table \in Seq(Int) /\ stack \in Seq(Cell)
  <2>1. outer \in Seq(Block) /\ frames \in Seq(Frame) /\ table \in Seq(Int) /\ stack \in Seq(Cell)
    BY DEF Typed
  <2>2. b \in Block /\ b = outer[Len(outer)] /\ Len(outer) \in 1..Len(outer)
    BY <2>1, FrontFacts
  <2>3. Outside(b, frames, Len(stack)) BY <2>2 DEF BlocksNest
  <2> QED BY <2>1, <2>2, <2>3
<1>2. own \in Nat /\ own <= Len(frames) /\ b.free \in Nat
  BY <1>1 DEF Outside, Block
<1>3. PICK g : Undone(g, own) /\ Unwind(b.frames) = g[own]
  BY <1>2, UnwindIsUndone
<1>4. \A j \in 1..own : frames[j].do = "delete" => frames[j].symbol > b.free
  BY <1>1 DEF Outside
<1> HIDE DEF b, own
<1>5. Left(g[0], 0)
  <2>1. g[0].table = table /\ g[0].cells = stack /\ g[0] = [table |-> g[0].table, cells |-> g[0].cells]
    BY <1>3 DEF Undone
  <2>2. Within(table, table) /\ SameCells(stack, stack)
    BY <1>1 DEF Within, SameCells
  <2> QED BY <1>1, <2>1, <2>2 DEF Left
<1>6. ASSUME NEW n \in Nat, n < own, Left(g[n], n)
      PROVE  Left(g[n + 1], n + 1)
  <2>1. n + 1 \in 1..own /\ (n + 1) - 1 = n /\ n < Len(frames) /\ n + 1 \in 1..Len(frames)
    <3>1. n \in Nat /\ n < own /\ own \in Nat /\ own <= Len(frames) /\ Len(frames) \in Nat
      BY <1>1, <1>2, <1>6
    <3> QED BY <3>1, SMTT(30)
  <2>2. g[n + 1] = Undo(g[n], frames[n + 1]) BY <1>3, <2>1 DEF Undone
  <2>3. ASSUME frames[n + 1].do = "delete", NEW i \in 1..Len(table),
               table[i] > frames[n + 1].symbol
        PROVE  \E j \in 1..Len(frames) : frames[j].do = "delete" /\ frames[j].symbol = table[i]
    <3>1. frames[n + 1].symbol > b.free /\ frames[n + 1] \in Frame /\ table[i] \in Int
      BY <1>1, <1>4, <2>1, <2>3 DEF Typed
    <3>2. table[i] > b.free BY <1>2, <2>3, <3>1 DEF Frame
    <3> QED BY <3>2 DEF b
  <2> QED BY <1>6, <2>1, <2>2, <2>3, LeftStep
<1> DEFINE Bad == {n \in Nat : n <= own /\ ~Left(g[n], n)}
<1>7. Bad = {}
  <2> SUFFICES ASSUME Bad # {} PROVE FALSE
    OBVIOUS
  <2>1. Bad \in SUBSET Nat OBVIOUS
  <2>2. PICK k \in Bad : \A j \in Bad : k <= j
    <3> HIDE DEF Bad
    <3> QED BY <2>1, LeastExists
  <2>3. k \in Nat /\ k <= own /\ ~Left(g[k], k) /\ k # 0 BY <1>5
  <2>4. k - 1 \in Nat /\ ~(k <= k - 1) /\ k - 1 < own /\ (k - 1) + 1 = k
    BY <1>2, <2>3
  <2>5. k - 1 \notin Bad
    <3> HIDE DEF Bad
    <3> QED BY <2>2, <2>4
  <2>6. Left(g[k - 1], k - 1) BY <1>2, <2>4, <2>5
  <2>7. Left(g[(k - 1) + 1], (k - 1) + 1) BY <1>6, <2>4, <2>6
  <2> QED BY <2>3, <2>4, <2>7
<1>8. Left(g[own], own) BY <1>2, <1>7
<1> QED BY <1>3, <1>8 DEF b, own

-----------------------------------------------------------------------------
(* What is recovered at the start of a file                                *)

LEMMA RecoveredIsChained ==
    ASSUME Typed, NEW free, NEW macros
    PROVE  \E g : /\ Recovered(free, macros) = g[Len(table)] /\ g[0] = <<>>
                  /\ \A n \in 1..Len(table) :
                        g[n] = IF IF table[n] > 0 THEN table[n] > free ELSE -table[n] > macros
                               THEN g[n - 1] ELSE Append(g[n - 1], table[n])
<1> DEFINE freed(p) == IF p > 0 THEN p > free ELSE -p > macros
           len == Len(table)
           Next1(c, n) == IF freed(table[n]) THEN c ELSE Append(c, table[n])
           Is(g, m) == g = [n \in 0..m |-> IF n = 0 THEN <<>> ELSE Next1(g[n - 1], n)]
           Bad == {m \in Nat : ~ \E g : Is(g, m)}
<1> HIDE DEF Next1
<1>1. Bad = {}
  <2> SUFFICES ASSUME Bad # {} PROVE FALSE
    OBVIOUS
  <2>0. Bad \in SUBSET Nat OBVIOUS
  <2>1. PICK k \in Bad : \A j \in Bad : k <= j
    <3> HIDE DEF Bad
    <3> QED BY <2>0, LeastExists
  <2>2. k \in Nat /\ ~ \E g : Is(g, k) OBVIOUS
  <2>3. CASE k = 0
    <3> DEFINE g == [n \in 0..0 |-> <<>>]
    <3>1. Is(g, 0) OBVIOUS
    <3> QED BY <2>2, <2>3, <3>1
  <2>4. CASE k # 0
    <3>1. k - 1 \in Nat /\ ~(k <= k - 1) BY <2>2, <2>4
    <3>2. k - 1 \notin Bad
      <4> HIDE DEF Bad
      <4> QED BY <2>1, <3>1
    <3>3. PICK g : Is(g, k - 1) BY <3>1, <3>2
    <3> DEFINE h == [n \in 0..k |-> IF n = k THEN Next1(g[k - 1], k) ELSE g[n]]
    <3>4. \A n \in 0..(k - 1) : h[n] = g[n] /\ g[n] = IF n = 0 THEN <<>> ELSE Next1(g[n - 1], n)
      BY <2>2, <3>1, <3>3
    <3>5. h[k] = Next1(g[k - 1], k) /\ h[k - 1] = g[k - 1] BY <2>2, <3>1
    <3>6. ASSUME NEW n \in 0..k
          PROVE  h[n] = IF n = 0 THEN <<>> ELSE Next1(h[n - 1], n)
      <4> HIDE DEF h
      <4>1. CASE n = k BY <2>2, <2>4, <3>5, <4>1
      <4>2. CASE n # k
        <5>1. n \in 0..(k - 1) /\ (n # 0 => n - 1 \in 0..(k - 1)) BY <2>2, <4>2
        <5> QED BY <3>4, <5>1
      <4> QED BY <4>1, <4>2
    <3>7. h = [n \in 0..k |-> h[n]] OBVIOUS
    <3> HIDE DEF h
    <3>8. Is(h, k) BY <3>6, <3>7
    <3> QED BY <2>2, <3>8
  <2> QED BY <2>3, <2>4
<1>2. len \in Nat BY DEF Typed
<1>3. \E g : Is(g, len) BY <1>1, <1>2
<1> DEFINE chain[n \in 0..Len(table)] ==
             IF n = 0 THEN <<>>
             ELSE IF freed(table[n]) THEN chain[n - 1]
             ELSE Append(chain[n - 1], table[n])
<1>4. Recovered(free, macros) = chain[len] BY DEF Recovered
<1>5. Is(chain, len) BY <1>3 DEF Next1
<1> HIDE DEF chain
<1>6. \A n \in 0..len : chain[n] = IF n = 0 THEN <<>> ELSE Next1(chain[n - 1], n)
  BY <1>5
<1>7. chain[0] = <<>> /\ \A n \in 1..len : chain[n] = Next1(chain[n - 1], n)
  <2> HIDE DEF len
  <2> QED BY <1>2, <1>6
<1> QED BY <1>4, <1>7 DEF Next1

LEMMA AppendDescends ==
    ASSUME NEW c \in Seq(Int), Descends(c), NEW p \in Int,
           p > 0 => \A i \in 1..Len(c) : c[i] > 0 => c[i] > p
    PROVE  Append(c, p) \in Seq(Int) /\ Descends(Append(c, p))
           /\ \A i \in 1..Len(Append(c, p)) : Append(c, p)[i] = p \/ \E j \in 1..Len(c) : Append(c, p)[i] = c[j]
<1> DEFINE a == Append(c, p)
<1>1. a \in Seq(Int) /\ Len(a) = Len(c) + 1 /\ Len(c) \in Nat
      /\ \A i \in 1..Len(a) : IF i = Len(a) THEN a[i] = p ELSE i \in 1..Len(c) /\ a[i] = c[i]
  OBVIOUS
<1> HIDE DEF a
<1>2. Descends(a)
  <2> SUFFICES ASSUME NEW i \in 1..Len(a), NEW j \in 1..Len(a), i < j, a[i] > 0, a[j] > 0
               PROVE  a[i] > a[j]
    BY DEF Descends
  <2>1. i # Len(a) /\ i \in 1..Len(c) /\ a[i] = c[i] BY <1>1
  <2>2. CASE j = Len(a) BY <1>1, <2>1, <2>2
  <2>3. CASE j # Len(a) BY <1>1, <2>1, <2>3 DEF Descends
  <2> QED BY <2>2, <2>3
<1> QED BY <1>1, <1>2 DEF a

\* The chains of the table keep their order and what is still there, and no more.
LEMMA RecoveredFacts ==
    ASSUME Typed, Descends(table), Good(table, Len(stack), Len(ppm)),
           NEW free \in Nat, NEW macros \in Nat
    PROVE  /\ Recovered(free, macros) \in Seq(Int) /\ Descends(Recovered(free, macros))
           /\ Within(Recovered(free, macros), table)
           /\ Good(Recovered(free, macros), free, macros)
<1> DEFINE len == Len(table)
           freed(p) == IF p > 0 THEN p > free ELSE -p > macros
           Kept(c, n) == /\ c \in Seq(Int) /\ Descends(c)
                         /\ \A i \in 1..Len(c) : /\ \E j \in 1..n : c[i] = table[j]
                                                 /\ ~freed(c[i])
<1>1. PICK g : /\ Recovered(free, macros) = g[len] /\ g[0] = <<>>
               /\ \A n \in 1..len : g[n] = IF freed(table[n]) THEN g[n - 1]
                                           ELSE Append(g[n - 1], table[n])
  BY RecoveredIsChained, SMTT(30)
<1>2. table \in Seq(Int) /\ len \in Nat BY DEF Typed
<1>3. Kept(g[0], 0) BY <1>1 DEF Descends
<1> HIDE DEF len
<1>4. ASSUME NEW n \in Nat, n < len, Kept(g[n], n)
      PROVE  Kept(g[n + 1], n + 1)
  <2>1. n + 1 \in 1..len /\ (n + 1) - 1 = n /\ \A j \in 1..n : j \in 1..(n + 1) /\ j \in 1..len /\ j < n + 1
    BY <1>2, <1>4
  <2>2. g[n + 1] = IF freed(table[n + 1]) THEN g[n] ELSE Append(g[n], table[n + 1])
    BY <1>1, <2>1
  <2> DEFINE p == table[n + 1]
  <2>3. p \in Int BY <1>2, <2>1 DEF len
  <2>4. CASE freed(p) BY <1>4, <2>1, <2>2, <2>4
  <2>5. CASE ~freed(p)
    <3>1. ASSUME p > 0, NEW i \in 1..Len(g[n]), g[n][i] > 0
          PROVE  g[n][i] > p
      <4>1. PICK j \in 1..n : g[n][i] = table[j] BY <1>4, <3>1
      <4> QED BY <2>1, <3>1, <4>1 DEF Descends, len
    <3>2. g[n + 1] = Append(g[n], p) BY <2>2, <2>5
    <3>3. g[n] \in Seq(Int) /\ Descends(g[n]) BY <1>4
    <3> HIDE DEF p
    <3>4. /\ g[n + 1] \in Seq(Int) /\ Descends(g[n + 1])
          /\ \A i \in 1..Len(g[n + 1]) :
                g[n + 1][i] = p \/ \E j \in 1..Len(g[n]) : g[n + 1][i] = g[n][j]
      <4> DEFINE c == g[n]
      <4>1. c \in Seq(Int) /\ Descends(c) /\ (p > 0 => \A i \in 1..Len(c) : c[i] > 0 => c[i] > p)
        BY <3>1, <3>3 DEF p
      <4> HIDE DEF c
      <4>2. Append(c, p) \in Seq(Int) /\ Descends(Append(c, p))
            /\ \A i \in 1..Len(Append(c, p)) :
                  Append(c, p)[i] = p \/ \E j \in 1..Len(c) : Append(c, p)[i] = c[j]
        BY <2>3, <4>1, AppendDescends
      <4> QED BY <3>2, <4>2 DEF c
    <3>5. ASSUME NEW i \in 1..Len(g[n + 1])
          PROVE  (\E j \in 1..(n + 1) : g[n + 1][i] = table[j]) /\ ~freed(g[n + 1][i])
      <4>1. CASE g[n + 1][i] = p
        <5>1. n + 1 \in 1..(n + 1) BY <1>4
        <5> QED BY <2>5, <4>1, <5>1 DEF p
      <4>2. CASE \E j \in 1..Len(g[n]) : g[n + 1][i] = g[n][j]
        BY <1>4, <2>1, <4>2
      <4> QED BY <3>4, <3>5, <4>1, <4>2
    <3> QED BY <3>4, <3>5
  <2> QED BY <2>4, <2>5
<1> DEFINE Bad == {n \in Nat : n <= len /\ ~Kept(g[n], n)}
<1>5. Bad = {}
  <2> HIDE DEF Kept
  <2> SUFFICES ASSUME Bad # {} PROVE FALSE
    OBVIOUS
  <2>1. Bad \in SUBSET Nat OBVIOUS
  <2>2. PICK k \in Bad : \A j \in Bad : k <= j
    <3> HIDE DEF Bad
    <3> QED BY <2>1, LeastExists
  <2>3. k \in Nat /\ k <= len /\ ~Kept(g[k], k) /\ k # 0 BY <1>3
  <2>4. k - 1 \in Nat /\ ~(k <= k - 1) /\ k - 1 < len /\ (k - 1) + 1 = k
    BY <1>2, <2>3
  <2>5. k - 1 \notin Bad
    <3> HIDE DEF Bad
    <3> QED BY <2>2, <2>4
  <2>6. Kept(g[k - 1], k - 1) BY <1>2, <2>4, <2>5
  <2>7. Kept(g[(k - 1) + 1], (k - 1) + 1) BY <1>4, <2>4, <2>6
  <2> QED BY <2>3, <2>4, <2>7
<1>6. Kept(g[len], len) BY <1>2, <1>5
<1> DEFINE R == Recovered(free, macros)
<1>7. /\ R \in Seq(Int) /\ Descends(R)
      /\ \A i \in 1..Len(R) : (\E j \in 1..Len(table) : R[i] = table[j]) /\ ~freed(R[i])
  BY <1>1, <1>6 DEF len
<1> HIDE DEF R
<1>8. Good(R, free, macros)
  <2> SUFFICES ASSUME NEW i \in 1..Len(R) PROVE R[i] \in 1..free \/ -R[i] \in 1..macros
    BY DEF Good
  <2>1. PICK j \in 1..Len(table) : R[i] = table[j] BY <1>7
  <2>2. R[i] \in 1..Len(stack) \/ -R[i] \in 1..Len(ppm) BY <2>1 DEF Good
  <2>3. Len(stack) \in Nat /\ Len(ppm) \in Nat /\ R[i] \in Int /\ ~freed(R[i])
    BY <1>7, SMTT(30) DEF Typed
  <2>4. CASE R[i] \in 1..Len(stack) BY <2>3, <2>4
  <2>5. CASE -R[i] \in 1..Len(ppm) BY <2>3, <2>5
  <2> QED BY <2>2, <2>4, <2>5
<1> QED BY <1>7, <1>8 DEF R, Within

-----------------------------------------------------------------------------
(* The steps, as what they do to cells, table, frames, blocks, constructs  *)

LEMMA PrependFacts ==
    ASSUME NEW S, NEW s \in Seq(S), NEW x \in S
    PROVE  /\ <<x>> \o s \in Seq(S) /\ Len(<<x>> \o s) = Len(s) + 1 /\ Len(s) \in Nat
           /\ (<<x>> \o s)[1] = x
           /\ \A i \in 1..Len(s) : (<<x>> \o s)[i + 1] = s[i]
           /\ \A i \in 1..(Len(s) + 1) : i # 1 => i - 1 \in 1..Len(s) /\ (<<x>> \o s)[i] = s[i - 1]
OBVIOUS

LEMMA AppendFacts ==
    ASSUME NEW S, NEW s \in Seq(S), NEW x \in S
    PROVE  /\ Append(s, x) \in Seq(S) /\ Len(Append(s, x)) = Len(s) + 1 /\ Len(s) \in Nat
           /\ Append(s, x)[Len(s) + 1] = x
           /\ \A i \in 1..Len(s) : Append(s, x)[i] = s[i] /\ i \in 1..(Len(s) + 1)
           /\ \A i \in 1..(Len(s) + 1) : i # Len(s) + 1 => i \in 1..Len(s)
OBVIOUS

\* One more cell, which has no members
LEMMA CellAdded ==
    ASSUME NEW cells, NEW m, NEW tab, NEW fr, NEW out, NEW con, NEW op,
           Core(cells, m, tab, fr, out, con, op),
           NEW c \in Cell, c.members = None
    PROVE  /\ Core(Append(cells, c), m, tab, fr, out, con, op)
           /\ Len(Append(cells, c)) = Len(cells) + 1 /\ Append(cells, c)[Len(cells) + 1] = c
           /\ \A i \in 1..Len(tab) : tab[i] < Len(cells) + 1
           /\ \A i \in 1..Len(fr) : fr[i].symbol < Len(cells) + 1
           /\ \A d \in 1..Len(out) : out[d].free < Len(cells) + 1
<1> DEFINE more == Append(cells, c)
           len == Len(cells)
<1>0. /\ cells \in Seq(Cell) /\ tab \in Seq(Int) /\ fr \in Seq(Frame) /\ out \in Seq(Block)
      /\ con \in Seq(Construct) /\ m \in Nat /\ len >= 1 /\ cells[1].type = "keyword"
  BY DEF Core
<1>1. /\ more \in Seq(Cell) /\ Len(more) = len + 1 /\ len \in Nat
      /\ more[len + 1] = c /\ \A i \in 1..len : more[i] = cells[i]
      /\ \A i \in 1..(len + 1) : i # len + 1 => i \in 1..len
  BY <1>0, AppendFacts
<1> HIDE DEF more
<1>2. \A i \in 1..len : cells[i].members \in Nat /\ cells[i].members <= len
  <2>1. \A i \in 1..len : cells[i] \in Cell BY <1>0
  <2> QED BY <2>1 DEF MembersStay, Cell, Core
<1>3. \A d \in 1..Len(out) : out[d].free \in 1..len
  BY DEF Core, BlocksNest, Outside
<1>4. MembersStay(more, out)
  <2>1. \A i \in 1..Len(more) : more[i].members <= Len(more)
    BY <1>1, <1>2 DEF None
  <2>2. ASSUME NEW d \in 1..Len(out), NEW i \in 1..Len(more), i <= out[d].free
        PROVE  more[i].members <= out[d].free
    <3>1. i \in 1..len /\ more[i] = cells[i] BY <1>1, <1>3, <2>2
    <3> QED BY <2>2, <3>1 DEF MembersStay, Core
  <2> QED BY <2>1, <2>2 DEF MembersStay
<1>5. \A i \in 1..Len(fr) : fr[i].symbol \in 1..len BY DEF Core, FramesOf
<1>6. FramesOf(more, fr)
  <2>1. \A i \in 1..Len(fr) : fr[i].symbol \in 1..Len(more) /\ more[fr[i].symbol] = cells[fr[i].symbol]
    BY <1>1, <1>5
  <2>2. FramesOf(cells, fr) BY DEF Core
  <2> QED BY <2>1, <2>2 DEF FramesOf
<1>7. TagsStay(more, out, con)
  <2>1. ASSUME NEW k \in 1..Len(con)
        PROVE  /\ con[k].symbol <= len + 1
               /\ con[k].kind = "tag" =>
                    con[k].symbol \in 2..(len + 1) /\ \A d \in 1..Len(out) : con[k].symbol > out[d].free
    <3>1. con[k] \in Construct BY <1>0
    <3> QED BY <1>1, <3>1 DEF TagsStay, Core, Construct
  <2> QED BY <1>1, <2>1 DEF TagsStay, Core
<1>8. op # "no" => LoopsNest(more, con, op)
  <2> SUFFICES ASSUME op # "no" PROVE LoopsNest(more, con, op)
    OBVIOUS
  <2>1. LoopsNest(cells, con, op) BY DEF Core
  <2>2. \A k \in 1..Len(con) : \A p \in Labels(con[k]) :
           p \in 2..Len(more) /\ more[p].type = "label" /\ more[p].name = "loop"
    <3> SUFFICES ASSUME NEW k \in 1..Len(con), NEW p \in Labels(con[k])
                 PROVE  p \in 2..Len(more) /\ more[p].type = "label" /\ more[p].name = "loop"
      OBVIOUS
    <3>1. p \in 2..len /\ cells[p].type = "label" /\ cells[p].name = "loop"
      BY <2>1 DEF LoopsNest
    <3> QED BY <1>1, <3>1
  <2> QED BY <2>1, <2>2 DEF LoopsNest
<1>9. BlocksNest(out, fr, Len(more))
  <2>1. ASSUME NEW d \in 1..Len(out), Outside(out[d], fr, len)
        PROVE  Outside(out[d], fr, len + 1)
    <3>1. out[d].free \in 1..(len + 1) BY <1>1, <1>3
    <3> QED BY <2>1, <3>1 DEF Outside
  <2> QED BY <1>1, <2>1 DEF BlocksNest, Core
<1>10. \A i \in 1..Len(tab) : tab[i] \in Int /\ tab[i] < len + 1 /\ (tab[i] \in 1..len \/ -tab[i] \in 1..m)
  BY <1>0, <1>1 DEF Good, Core
<1>11. Good(tab, Len(more), m) BY <1>1, <1>10 DEF Good
<1>12. more[1].type = "keyword" /\ Len(more) >= 1 BY <1>0, <1>1
<1>13. Core(more, m, tab, fr, out, con, op)
  BY <1>0, <1>1, <1>4, <1>6, <1>7, <1>8, <1>9, <1>11, <1>12 DEF Core
<1>14. \A i \in 1..Len(fr) : fr[i].symbol < len + 1 BY <1>1, <1>5
<1>15. \A d \in 1..Len(out) : out[d].free < len + 1 BY <1>1, <1>3
<1> QED BY <1>1, <1>10, <1>13, <1>14, <1>15 DEF more

\* One more pointer at the head of the table
LEMMA TablePrepended ==
    ASSUME NEW tab \in Seq(Int), NEW n \in Nat, NEW m \in Nat, Good(tab, n, m), Descends(tab),
           NEW p \in Int, p \in 1..n \/ -p \in 1..m,
           p > 0 => \A i \in 1..Len(tab) : tab[i] < p
    PROVE  /\ <<p>> \o tab \in Seq(Int) /\ Good(<<p>> \o tab, n, m) /\ Descends(<<p>> \o tab)
           /\ \A i \in 1..Len(<<p>> \o tab) :
                 (<<p>> \o tab)[i] = p \/ \E j \in 1..Len(tab) : (<<p>> \o tab)[i] = tab[j]
<1> DEFINE new == <<p>> \o tab
<1>1. /\ new \in Seq(Int) /\ Len(new) = Len(tab) + 1 /\ Len(tab) \in Nat /\ new[1] = p
      /\ \A i \in 1..(Len(tab) + 1) : i # 1 => i - 1 \in 1..Len(tab) /\ new[i] = tab[i - 1]
  BY PrependFacts
<1> HIDE DEF new
<1>2. \A i \in 1..Len(new) : new[i] = p \/ \E j \in 1..Len(tab) : new[i] = tab[j]
  BY <1>1
<1>3. Good(new, n, m) BY <1>2 DEF Good
<1>4. Descends(new)
  <2> SUFFICES ASSUME NEW i \in 1..Len(new), NEW j \in 1..Len(new), i < j, new[i] > 0, new[j] > 0
               PROVE  new[i] > new[j]
    BY DEF Descends
  <2>0. j \in 1..(Len(tab) + 1) /\ j # 1 BY <1>1
  <2>1. j # 1 /\ j - 1 \in 1..Len(tab) /\ new[j] = tab[j - 1] BY <1>1, <2>0
  <2>4. tab[j - 1] \in Int BY <2>1
  <2>2. CASE i = 1 BY <1>1, <2>1, <2>2
  <2>3. CASE i # 1
    <3>1. i - 1 \in 1..Len(tab) /\ new[i] = tab[i - 1] /\ i - 1 < j - 1
      BY <1>1, <2>3
    <3> QED BY <2>1, <3>1 DEF Descends
  <2> QED BY <2>2, <2>3
<1> QED BY <1>1, <1>2, <1>3, <1>4 DEF new

\* One more action in the frames of the current block
LEMMA FramePrepended ==
    ASSUME NEW fr \in Seq(Frame), NEW f \in Frame, NEW n \in Nat, NEW out \in Seq(Block),
           BlocksNest(out, fr, n),
           f.do = "delete" => \A d \in 1..Len(out) : f.symbol > out[d].free
    PROVE  BlocksNest(out, <<f>> \o fr, n)
<1> DEFINE new == <<f>> \o fr
<1>1. /\ new \in Seq(Frame) /\ Len(new) = Len(fr) + 1 /\ Len(fr) \in Nat /\ new[1] = f
      /\ \A i \in 1..Len(fr) : new[i + 1] = fr[i]
      /\ \A i \in 1..(Len(fr) + 1) : i # 1 => i - 1 \in 1..Len(fr) /\ new[i] = fr[i - 1]
  BY PrependFacts
<1> HIDE DEF new
<1>2. ASSUME NEW d \in 1..Len(out)
      PROVE  Outside(out[d], new, n)
  <2> DEFINE b == out[d]
             k == Len(b.frames)
  <2>1. b \in Block OBVIOUS
  <2>2. k \in Nat /\ b.free \in Nat BY <2>1 DEF Block
  <2>3. Outside(b, fr, n) /\ (f.do = "delete" => f.symbol > b.free)
    BY DEF BlocksNest
  <2> HIDE DEF b
  <2>4. k <= Len(fr) BY <2>3 DEF Outside
  <2>5. ASSUME NEW i \in 1..k PROVE b.frames[i] = new[Len(new) - k + i]
    <3>1. /\ Len(fr) - k + i \in 1..Len(fr)
          /\ Len(new) - k + i = (Len(fr) - k + i) + 1
      BY <1>1, <2>2, <2>4
    <3>2. b.frames[i] = fr[Len(fr) - k + i] BY <2>3 DEF Outside
    <3> HIDE DEF k
    <3> QED BY <1>1, <3>1, <3>2
  <2>6. ASSUME NEW i \in 1..(Len(new) - k), new[i].do = "delete"
        PROVE  new[i].symbol > b.free
    <3>1. CASE i = 1 BY <1>1, <2>3, <2>6, <3>1
    <3>2. CASE i # 1
      <4>1. i - 1 \in 1..(Len(fr) - k) /\ i \in 1..(Len(fr) + 1)
        BY <1>1, <2>2, <2>4, <3>2
      <4>2. new[i] = fr[i - 1] BY <1>1, <3>2, <4>1
      <4> QED BY <2>3, <2>6, <4>1, <4>2 DEF Outside
    <3> QED BY <3>1, <3>2
  <2>7. b.free \in 1..n /\ k <= Len(new) /\ \A i \in 1..k : b.frames[i].symbol <= b.free
    BY <1>1, <2>2, <2>3, <2>4 DEF Outside
  <2>8. Outside(b, new, n) BY <2>5, <2>6, <2>7 DEF Outside
  <2> QED BY <2>8 DEF b
<1> QED BY <1>2 DEF BlocksNest, new

LEMMA FramesPrepended ==
    ASSUME NEW cells, NEW fr \in Seq(Frame), NEW f \in Frame, FramesOf(cells, fr),
           f.symbol \in 1..Len(cells),
           f.do = "delete" => /\ f.symbol > 1 /\ cells[f.symbol].type \in {"default", "tag"}
                              /\ \A i \in 1..Len(fr) : fr[i].symbol < f.symbol
    PROVE  <<f>> \o fr \in Seq(Frame) /\ FramesOf(cells, <<f>> \o fr)
<1> DEFINE new == <<f>> \o fr
<1>1. /\ new \in Seq(Frame) /\ Len(new) = Len(fr) + 1 /\ Len(fr) \in Nat /\ new[1] = f
      /\ \A i \in 1..(Len(fr) + 1) : i # 1 => i - 1 \in 1..Len(fr) /\ new[i] = fr[i - 1]
  BY PrependFacts
<1> HIDE DEF new
<1>2. ASSUME NEW i \in 1..Len(new)
      PROVE  /\ new[i].symbol \in 1..Len(cells)
             /\ new[i].do = "delete" =>
                  new[i].symbol > 1 /\ cells[new[i].symbol].type \in {"default", "tag"}
  BY <1>1 DEF FramesOf
<1>3. ASSUME NEW i \in 1..Len(new), NEW j \in 1..Len(new), i < j,
             new[i].do = "delete", new[j].do = "delete"
      PROVE  new[i].symbol > new[j].symbol
  <2>1. j # 1 /\ j - 1 \in 1..Len(fr) /\ new[j] = fr[j - 1] BY <1>1, <1>3
  <2>2. f.symbol \in Nat /\ fr[j - 1].symbol \in Nat
    <3>1. fr[j - 1] \in Frame BY <2>1
    <3> QED BY <3>1 DEF Frame
  <2>3. CASE i = 1 BY <1>1, <1>3, <2>1, <2>2, <2>3
  <2>4. CASE i # 1
    <3>1. i - 1 \in 1..Len(fr) /\ new[i] = fr[i - 1] /\ i - 1 < j - 1
      BY <1>1, <1>3, <2>4
    <3> QED BY <1>3, <2>1, <3>1 DEF FramesOf
  <2> QED BY <2>3, <2>4
<1> QED BY <1>1, <1>2, <1>3 DEF FramesOf, new

\* The cell just added is declared: it is in the table, and in the frames.
LEMMA PointerAdded ==
    ASSUME NEW cells, NEW m, NEW tab, NEW fr, NEW out, NEW con, NEW op,
           Core(cells, m, tab, fr, out, con, op),
           NEW p, p = Len(cells), p > 1, cells[p].type \in {"default", "tag"},
           \A i \in 1..Len(tab) : tab[i] < p,
           \A i \in 1..Len(fr) : fr[i].symbol < p,
           \A d \in 1..Len(out) : out[d].free < p
    PROVE  Core(cells, m, <<p>> \o tab, <<[do |-> "delete", symbol |-> p]>> \o fr, out, con, op)
<1> DEFINE f == [do |-> "delete", symbol |-> p]
           newTab == <<p>> \o tab
           newFr == <<f>> \o fr
<1>0. /\ cells \in Seq(Cell) /\ tab \in Seq(Int) /\ fr \in Seq(Frame) /\ out \in Seq(Block)
      /\ con \in Seq(Construct) /\ m \in Nat
  BY DEF Core
<1>1. p \in Nat /\ p \in 1..Len(cells) /\ f \in Frame /\ f.do = "delete" /\ f.symbol = p
  BY <1>0 DEF Frame
<1>2. /\ newTab \in Seq(Int) /\ Good(newTab, Len(cells), m) /\ Descends(newTab)
      /\ \A i \in 1..Len(newTab) : newTab[i] = p \/ \E j \in 1..Len(tab) : newTab[i] = tab[j]
  <2>1. Good(tab, Len(cells), m) /\ Descends(tab) /\ p \in Int BY <1>1 DEF Core
  <2> QED BY <1>0, <1>1, <2>1, TablePrepended
<1> HIDE DEF f
<1>3. newFr \in Seq(Frame) /\ FramesOf(cells, newFr)
  BY <1>0, <1>1, FramesPrepended DEF Core
<1>4. BlocksNest(out, newFr, Len(cells))
  <2>1. BlocksNest(out, fr, Len(cells)) /\ Len(cells) \in Nat BY <1>0 DEF Core
  <2> QED BY <1>0, <1>1, <2>1, FramePrepended
<1>5. /\ Len(newFr) = Len(fr) + 1 /\ Len(fr) \in Nat /\ newFr[1] = f
      /\ \A i \in 1..Len(fr) : newFr[i + 1] = fr[i]
  BY <1>0, <1>1, PrependFacts
<1> HIDE DEF newTab, newFr
<1>6. op # "no" => Owned(newTab, newFr, con)
  <2> SUFFICES ASSUME op # "no", NEW i \in 1..Len(newTab), newTab[i] > 1
               PROVE  \/ \E j \in 1..Len(newFr) : newFr[j].do = "delete" /\ newFr[j].symbol = newTab[i]
                      \/ \E k \in 1..Len(con) : newTab[i] \in Labels(con[k])
    BY DEF Owned
  <2>1. CASE newTab[i] = p
    <3>1. 1 \in 1..Len(newFr) BY <1>5
    <3> QED BY <1>1, <1>5, <2>1, <3>1
  <2>2. CASE \E j \in 1..Len(tab) : newTab[i] = tab[j]
    <3>1. \/ \E j \in 1..Len(fr) : fr[j].do = "delete" /\ fr[j].symbol = newTab[i]
          \/ \E k \in 1..Len(con) : newTab[i] \in Labels(con[k])
      BY <2>2 DEF Owned, Core
    <3>2. \A j \in 1..Len(fr) : j + 1 \in 1..Len(newFr) /\ newFr[j + 1] = fr[j]
      BY <1>5
    <3> QED BY <3>1, <3>2
  <2> QED BY <1>2, <2>1, <2>2
<1>7. Core(cells, m, newTab, newFr, out, con, op)
  BY <1>0, <1>2, <1>3, <1>4, <1>6 DEF Core
<1> QED BY <1>7 DEF newTab, newFr, f

\* One more pointer into ppmMemory
LEMMA MacroAdded ==
    ASSUME NEW cells, NEW m, NEW tab, NEW fr, NEW out, NEW con, NEW op,
           Core(cells, m, tab, fr, out, con, op)
    PROVE  Core(cells, m + 1, <<-(m + 1)>> \o tab, fr, out, con, op)
<1> DEFINE p == -(m + 1)
           new == <<p>> \o tab
<1>0. /\ cells \in Seq(Cell) /\ tab \in Seq(Int) /\ m \in Nat /\ m + 1 \in Nat /\ Len(cells) \in Nat
      /\ Good(tab, Len(cells), m) /\ Descends(tab)
  BY DEF Core
<1>1. Good(tab, Len(cells), m + 1)
  <2> SUFFICES ASSUME NEW i \in 1..Len(tab) PROVE tab[i] \in 1..Len(cells) \/ -tab[i] \in 1..(m + 1)
    BY DEF Good
  <2>1. tab[i] \in Int /\ (tab[i] \in 1..Len(cells) \/ -tab[i] \in 1..m)
    BY <1>0 DEF Good
  <2> QED BY <1>0, <2>1
<1>2. p \in Int /\ -p \in 1..(m + 1) /\ p <= 0 BY <1>0
<1> HIDE DEF p
<1>3. /\ new \in Seq(Int) /\ Good(new, Len(cells), m + 1) /\ Descends(new)
      /\ \A i \in 1..Len(new) : new[i] = p \/ \E j \in 1..Len(tab) : new[i] = tab[j]
  <2>1. ~(p > 0) BY <1>2
  <2> QED BY <1>0, <1>1, <1>2, <2>1, TablePrepended
<1> HIDE DEF new
<1>4. op # "no" => Owned(new, fr, con)
  <2> SUFFICES ASSUME op # "no", NEW i \in 1..Len(new), new[i] > 1
               PROVE  \/ \E j \in 1..Len(fr) : fr[j].do = "delete" /\ fr[j].symbol = new[i]
                      \/ \E k \in 1..Len(con) : new[i] \in Labels(con[k])
    BY DEF Owned
  <2>1. PICK j \in 1..Len(tab) : new[i] = tab[j] BY <1>2, <1>3
  <2> QED BY <2>1 DEF Owned, Core
<1>5. Core(cells, m + 1, new, fr, out, con, op) BY <1>0, <1>3, <1>4 DEF Core
<1> QED BY <1>5 DEF new, p

\* One more label of the loop that was begun
LEMMA LabelAdded ==
    ASSUME NEW cells, NEW m, NEW tab, NEW fr, NEW out, NEW con, NEW op,
           Core(cells, m, tab, fr, out, con, op),
           NEW p \in 1..Len(cells), NEW l \in 1..Len(con), p \in Labels(con[l]),
           \A i \in 1..Len(tab) : tab[i] < p
    PROVE  Core(cells, m, <<p>> \o tab, fr, out, con, op)
<1> DEFINE new == <<p>> \o tab
<1>0. /\ cells \in Seq(Cell) /\ tab \in Seq(Int) /\ m \in Nat /\ Len(cells) \in Nat
      /\ Good(tab, Len(cells), m) /\ Descends(tab) /\ p \in Int
  BY DEF Core
<1>1. /\ new \in Seq(Int) /\ Good(new, Len(cells), m) /\ Descends(new)
      /\ \A i \in 1..Len(new) : new[i] = p \/ \E j \in 1..Len(tab) : new[i] = tab[j]
  BY <1>0, TablePrepended
<1> HIDE DEF new
<1>2. op # "no" => Owned(new, fr, con) BY <1>1 DEF Owned, Core
<1>3. Core(cells, m, new, fr, out, con, op) BY <1>0, <1>1, <1>2 DEF Core
<1> QED BY <1>3 DEF new

\* Some pointers fewer
LEMMA TableShrinks ==
    ASSUME NEW cells, NEW m, NEW tab, NEW fr, NEW out, NEW con, NEW op,
           Core(cells, m, tab, fr, out, con, op),
           NEW new \in Seq(Int), Descends(new), Within(new, tab)
    PROVE  Core(cells, m, new, fr, out, con, op)
<1>1. Good(new, Len(cells), m) BY DEF Good, Within, Core
<1>2. op # "no" => Owned(new, fr, con) BY DEF Owned, Within, Core
<1> QED BY <1>1, <1>2 DEF Core

\* A tag gets its members.
LEMMA MembersSet ==
    ASSUME NEW cells, NEW m, NEW tab, NEW fr, NEW out, NEW con, NEW op,
           Core(cells, m, tab, fr, out, con, op),
           NEW t \in 2..Len(cells), \A d \in 1..Len(out) : t > out[d].free
    PROVE  Core([cells EXCEPT ![t].members = Len(cells)], m, tab, fr, out, con, op)
<1> DEFINE new == [cells EXCEPT ![t].members = Len(cells)]
           len == Len(cells)
<1>0. /\ cells \in Seq(Cell) /\ len \in Nat /\ len >= 1 /\ cells[1].type = "keyword"
      /\ out \in Seq(Block)
  BY DEF Core
<1>1. t \in 1..len /\ t # 1 /\ t \in Nat BY <1>0
<1>2. cells[t] \in Cell BY <1>0, <1>1
<1>3. [cells[t] EXCEPT !.members = len] \in Cell BY <1>0, <1>2 DEF Cell
<1>4. new \in Seq(Cell) /\ Len(new) = len BY <1>0, <1>1, <1>3
<1>5. \A i \in 1..len : new[i] = IF i = t THEN [cells[t] EXCEPT !.members = len] ELSE cells[i]
  BY <1>0, <1>1
<1> HIDE DEF new
<1>6. ASSUME NEW i \in 1..len
      PROVE  /\ new[i].type = cells[i].type /\ new[i].name = cells[i].name
             /\ new[i].members = IF i = t THEN len ELSE cells[i].members
  <2>1. CASE i = t BY <1>2, <1>5, <2>1 DEF Cell
  <2>2. CASE i # t BY <1>5, <2>2
  <2> QED BY <2>1, <2>2
<1>7. MembersStay(new, out)
  <2>0. MembersStay(cells, out) /\ \A d \in 1..Len(out) : out[d].free \in Nat
    <3>1. \A d \in 1..Len(out) : out[d] \in Block BY <1>0
    <3>2. \A d \in 1..Len(out) : out[d].free \in Nat BY <3>1 DEF Block
    <3> QED BY <3>2 DEF Core
  <2>1. \A i \in 1..Len(new) : new[i].members <= Len(new)
    BY <1>0, <1>4, <1>6, <2>0 DEF MembersStay
  <2>2. ASSUME NEW d \in 1..Len(out), NEW i \in 1..Len(new), i <= out[d].free
        PROVE  new[i].members <= out[d].free
    <3>1. i # t BY <1>1, <2>0, <2>2
    <3> QED BY <1>4, <1>6, <2>0, <2>2, <3>1 DEF MembersStay
  <2> QED BY <2>1, <2>2 DEF MembersStay
<1>8. FramesOf(new, fr)
  <2>1. FramesOf(cells, fr) BY DEF Core
  <2> QED BY <1>4, <1>6, <2>1 DEF FramesOf
<1>9. op # "no" => LoopsNest(new, con, op)
  <2> SUFFICES ASSUME op # "no" PROVE LoopsNest(new, con, op)
    OBVIOUS
  <2>1. LoopsNest(cells, con, op) BY DEF Core
  <2>2. ASSUME NEW k \in 1..Len(con), NEW p \in Labels(con[k])
        PROVE  p \in 2..len /\ new[p].type = "label" /\ new[p].name = "loop"
    <3>1. p \in 2..len /\ cells[p].type = "label" /\ cells[p].name = "loop"
      BY <2>1 DEF LoopsNest
    <3>2. p \in 1..len BY <1>0, <3>1
    <3> QED BY <1>6, <3>1, <3>2
  <2> QED BY <1>4, <2>1, <2>2 DEF LoopsNest
<1>10. TagsStay(new, out, con) BY <1>4 DEF TagsStay, Core
<1>11. new[1].type = "keyword" BY <1>0, <1>6
<1>12. Core(new, m, tab, fr, out, con, op)
  BY <1>0, <1>4, <1>7, <1>8, <1>9, <1>10, <1>11 DEF Core
<1> QED BY <1>12 DEF new

\* The members will be taken from the tag at the end of its block.
LEMMA NullAdded ==
    ASSUME NEW cells, NEW m, NEW tab, NEW fr, NEW out, NEW con, NEW op,
           Core(cells, m, tab, fr, out, con, op),
           NEW t \in 1..Len(cells)
    PROVE  Core(cells, m, tab, <<[do |-> "null", symbol |-> t]>> \o fr, out, con, op)
<1> DEFINE f == [do |-> "null", symbol |-> t]
           new == <<f>> \o fr
<1>0. /\ cells \in Seq(Cell) /\ fr \in Seq(Frame) /\ out \in Seq(Block) /\ Len(cells) \in Nat
      /\ FramesOf(cells, fr) /\ BlocksNest(out, fr, Len(cells))
  BY DEF Core
<1>1. f \in Frame /\ f.do # "delete" /\ f.symbol \in 1..Len(cells)
  BY <1>0 DEF Frame
<1> HIDE DEF f
<1>2. new \in Seq(Frame) /\ FramesOf(cells, new) BY <1>0, <1>1, FramesPrepended
<1>3. BlocksNest(out, new, Len(cells)) BY <1>0, <1>1, FramePrepended
<1>4. \A j \in 1..Len(fr) : j + 1 \in 1..Len(new) /\ new[j + 1] = fr[j]
  <2>1. /\ Len(new) = Len(fr) + 1 /\ Len(fr) \in Nat
        /\ \A i \in 1..Len(fr) : new[i + 1] = fr[i]
    BY <1>0, <1>1, PrependFacts
  <2> HIDE DEF new
  <2> QED BY <2>1
<1> HIDE DEF new
<1>5. op # "no" => Owned(tab, new, con) BY <1>4, ZenonT(30) DEF Owned, Core
<1>6. Core(cells, m, tab, new, out, con, op) BY <1>0, <1>2, <1>3, <1>5 DEF Core
<1> QED BY <1>6 DEF new, f

-----------------------------------------------------------------------------
(* The constructs                                                          *)

LEMMA LevelsInside ==
    ASSUME NEW out \in Seq(Block), NEW con \in Seq(Construct), NEW c \in Construct,
           NEW lv \in [1..Len(con) -> Nat], Levels(out, con, lv), ~BeginsBlock(c)
    PROVE  \E new \in [1..Len(Append(con, c)) -> Nat] : Levels(out, Append(con, c), new)
<1> DEFINE n == Len(con)
           more == Append(con, c)
           new == [k \in 1..(n + 1) |-> IF k = n + 1 THEN Len(out) ELSE lv[k]]
<1>0. /\ more \in Seq(Construct) /\ Len(more) = n + 1 /\ n \in Nat /\ more[n + 1] = c
      /\ \A i \in 1..n : more[i] = con[i] /\ i \in 1..(n + 1)
      /\ \A i \in 1..(n + 1) : i # n + 1 => i \in 1..n
  BY AppendFacts
<1>1. Len(out) \in Nat OBVIOUS
<1> HIDE DEF more
<1>2. /\ new \in [1..(n + 1) -> Nat] /\ new[n + 1] = Len(out)
      /\ \A k \in 1..n : new[k] = lv[k] /\ lv[k] \in Nat
  <2> HIDE DEF n
  <2> QED BY <1>0, <1>1 DEF n
<1> HIDE DEF new
<1>3. \A k \in 1..Len(more) : new[k] \in 0..Len(out) /\ (BeginsBlock(more[k]) => new[k] > 0)
  BY <1>0, <1>1, <1>2 DEF Levels
<1>4. ASSUME NEW k \in 1..(Len(more) - 1)
      PROVE  new[k + 1] = new[k] + IF BeginsBlock(more[k + 1]) THEN 1 ELSE 0
  <2>1. k \in 1..n BY <1>0
  <2>2. CASE k = n
    <3>1. Len(con) > 0 BY <2>1, <2>2
    <3> QED BY <1>0, <1>1, <1>2, <2>1, <2>2, <3>1 DEF Levels
  <2>3. CASE k # n
    <3>1. k \in 1..(n - 1) /\ k + 1 \in 1..n BY <1>0, <2>1, <2>3
    <3> QED BY <1>0, <1>2, <2>1, <3>1 DEF Levels
  <2> QED BY <2>2, <2>3
<1>5. \A k, l \in 1..Len(more) : k < l => new[k] <= new[l]
  <2> SUFFICES ASSUME NEW k \in 1..Len(more), NEW l \in 1..Len(more), k < l PROVE new[k] <= new[l]
    OBVIOUS
  <2>1. k \in 1..n BY <1>0
  <2>2. CASE l = n + 1 BY <1>1, <1>2, <2>1, <2>2 DEF Levels
  <2>3. CASE l # n + 1 BY <1>0, <1>2, <2>1, <2>3 DEF Levels
  <2> QED BY <2>2, <2>3
<1>6. \A k, l \in 1..Len(more) : k < l /\ BeginsBlock(more[l]) =>
         /\ more[k].symbol <= out[new[l]].free
         /\ \A p \in Labels(more[k]) : p <= out[new[l]].free
  <2> SUFFICES ASSUME NEW k \in 1..Len(more), NEW l \in 1..Len(more), k < l, BeginsBlock(more[l])
               PROVE  /\ more[k].symbol <= out[new[l]].free
                      /\ \A p \in Labels(more[k]) : p <= out[new[l]].free
    OBVIOUS
  <2>1. l \in 1..n /\ k \in 1..n BY <1>0
  <2> QED BY <1>0, <1>2, <2>1 DEF Levels
<1>7. Levels(out, more, new) BY <1>0, <1>2, <1>3, <1>4, <1>5, <1>6 DEF Levels
<1> QED BY <1>0, <1>2, <1>7 DEF more

LEMMA LoopsAppended ==
    ASSUME NEW cells, NEW con \in Seq(Construct), NEW op, LoopsNest(cells, con, op),
           NEW c \in Construct, c.kind = "loop" => (c.symbol # None <=> op = "extract"),
           \A p \in Labels(c) : p \in 2..Len(cells) /\ cells[p].type = "label" /\ cells[p].name = "loop",
           \A k \in 1..Len(con) : \A p \in Labels(con[k]), q \in Labels(c) : p < q
    PROVE  LoopsNest(cells, Append(con, c), op)
<1> DEFINE n == Len(con)
           more == Append(con, c)
<1>0. /\ more \in Seq(Construct) /\ Len(more) = n + 1 /\ n \in Nat /\ more[n + 1] = c
      /\ \A i \in 1..n : more[i] = con[i] /\ i \in 1..(n + 1)
      /\ \A i \in 1..(n + 1) : i # n + 1 => i \in 1..n
  BY AppendFacts
<1> HIDE DEF more
<1>1. \A k \in 1..(n + 1) : more[k] = c \/ (k \in 1..n /\ more[k] = con[k])
  BY <1>0
<1>2. \A k \in 1..(n + 1) : more[k].kind = "loop" => (more[k].symbol # None <=> op = "extract")
  BY <1>1 DEF LoopsNest
<1>3. \A k \in 1..(n + 1) : \A p \in Labels(more[k]) :
         p \in 2..Len(cells) /\ cells[p].type = "label" /\ cells[p].name = "loop"
  BY <1>1 DEF LoopsNest
<1>4. ASSUME NEW k \in 1..(n + 1), NEW l \in 1..(n + 1), k < l,
             NEW p \in Labels(more[k]), NEW q \in Labels(more[l])
      PROVE  p < q
  <2>1. k \in 1..n /\ more[k] = con[k] BY <1>0, <1>4
  <2>2. CASE l = n + 1 BY <1>0, <2>1, <2>2
  <2>3. CASE l # n + 1
    <3>1. l \in 1..n /\ more[l] = con[l] BY <1>0, <2>3
    <3> QED BY <1>4, <2>1, <3>1 DEF LoopsNest
  <2> QED BY <2>2, <2>3
<1> QED BY <1>0, <1>2, <1>3, <1>4 DEF LoopsNest, more

LEMMA TagsAppended ==
    ASSUME NEW cells, NEW out, NEW con \in Seq(Construct), TagsStay(cells, out, con),
           NEW c \in Construct, c.symbol <= Len(cells),
           c.kind = "tag" => c.symbol \in 2..Len(cells) /\ \A d \in 1..Len(out) : c.symbol > out[d].free,
           c.kind # "tag" => \A k \in 1..Len(con) : con[k].kind # "tag"
    PROVE  TagsStay(cells, out, Append(con, c))
<1> DEFINE n == Len(con)
           more == Append(con, c)
<1>0. /\ more \in Seq(Construct) /\ Len(more) = n + 1 /\ n \in Nat /\ more[n + 1] = c
      /\ \A i \in 1..n : more[i] = con[i] /\ i \in 1..(n + 1)
      /\ \A i \in 1..(n + 1) : i # n + 1 => i \in 1..n
  BY AppendFacts
<1> HIDE DEF more
<1>1. \A k \in 1..(n + 1) : more[k] = c \/ (k \in 1..n /\ more[k] = con[k])
  BY <1>0
<1>2. \A k, l \in 1..(n + 1) : k < l /\ more[k].kind = "tag" => more[l].kind = "tag"
  <2> SUFFICES ASSUME NEW k \in 1..(n + 1), NEW l \in 1..(n + 1), k < l, more[k].kind = "tag"
               PROVE  more[l].kind = "tag"
    OBVIOUS
  <2>1. k \in 1..n /\ more[k] = con[k] BY <1>0
  <2>2. CASE l = n + 1 BY <1>0, <2>1, <2>2
  <2>3. CASE l # n + 1 BY <1>0, <2>1, <2>3 DEF TagsStay
  <2> QED BY <2>2, <2>3
<1>3. \A k \in 1..(n + 1) : more[k].symbol <= Len(cells) BY <1>1 DEF TagsStay
<1>4. \A k \in 1..(n + 1) : more[k].kind = "tag" =>
         more[k].symbol \in 2..Len(cells) /\ \A d \in 1..Len(out) : more[k].symbol > out[d].free
  BY <1>1 DEF TagsStay
<1> QED BY <1>0, <1>2, <1>3, <1>4 DEF TagsStay, more

LEMMA OwnedAppended ==
    ASSUME NEW tab, NEW fr, NEW con \in Seq(Construct), NEW c \in Construct, Owned(tab, fr, con)
    PROVE  Owned(tab, fr, Append(con, c))
<1> DEFINE more == Append(con, c)
<1>0. \A k \in 1..Len(con) : k \in 1..Len(more) /\ more[k] = con[k]
  BY AppendFacts
<1> HIDE DEF more
<1> QED BY <1>0 DEF Owned, more

\* A loop or a tag is begun.
LEMMA ConstructBegun ==
    ASSUME NEW cells, NEW m, NEW tab, NEW fr, NEW out, NEW con, NEW op,
           Core(cells, m, tab, fr, out, con, op), op # "no",
           NEW c \in Construct, ~BeginsBlock(c), c.symbol <= Len(cells),
           c.kind = "tag" => c.symbol \in 2..Len(cells) /\ \A d \in 1..Len(out) : c.symbol > out[d].free,
           c.kind # "tag" => \A k \in 1..Len(con) : con[k].kind # "tag",
           c.kind = "loop" => (c.symbol # None <=> op = "extract"),
           \A p \in Labels(c) : p \in 2..Len(cells) /\ cells[p].type = "label" /\ cells[p].name = "loop",
           \A k \in 1..Len(con) : \A p \in Labels(con[k]), q \in Labels(c) : p < q
    PROVE  Core(cells, m, tab, fr, out, Append(con, c), op)
<1> DEFINE more == Append(con, c)
<1>0. con \in Seq(Construct) /\ out \in Seq(Block) BY DEF Core
<1>1. more \in Seq(Construct) BY <1>0
<1>2. TagsStay(cells, out, more) BY <1>0, TagsAppended DEF Core
<1>3. LoopsNest(cells, more, op)
  <2>1. LoopsNest(cells, con, op) BY DEF Core
  <2> QED BY <1>0, <2>1, LoopsAppended
<1>4. Owned(tab, fr, more) BY <1>0, OwnedAppended DEF Core
<1>5. \E lv \in [1..Len(more) -> Nat] : Levels(out, more, lv)
  <2>1. PICK lv \in [1..Len(con) -> Nat] : Levels(out, con, lv) BY DEF Core
  <2> QED BY <1>0, <2>1, LevelsInside
<1> HIDE DEF more
<1>6. Core(cells, m, tab, fr, out, more, op)
  BY <1>1, <1>2, <1>3, <1>4, <1>5 DEF Core
<1> QED BY <1>6 DEF more

\* A construct that begins a block, with its block
LEMMA BlockBegun ==
    ASSUME NEW cells, NEW m, NEW tab, NEW fr, NEW out, NEW con, NEW op,
           Core(cells, m, tab, fr, out, con, op), op # "no",
           NEW c \in Construct, BeginsBlock(c), c.symbol <= Len(cells),
           \A k \in 1..Len(con) : con[k].kind # "tag",
           NEW x \in BOOLEAN
    PROVE  Core(cells, m, tab, fr, Append(out, [free |-> Len(cells), frames |-> fr, isFileScope |-> x]),
                Append(con, c), op)
<1> DEFINE n == Len(con)
           len == Len(cells)
           more == Append(con, c)
           b == [free |-> Len(cells), frames |-> fr, isFileScope |-> x]
           wider == Append(out, b)
           o == Len(out)
<1>0. /\ con \in Seq(Construct) /\ out \in Seq(Block) /\ cells \in Seq(Cell) /\ fr \in Seq(Frame)
      /\ len \in Nat /\ len >= 1 /\ Len(fr) \in Nat
  BY DEF Core
<1>1. b \in Block /\ b.free = len /\ b.frames = fr BY <1>0 DEF Block
<1> HIDE DEF b
<1>2. /\ wider \in Seq(Block) /\ Len(wider) = o + 1 /\ o \in Nat /\ wider[o + 1] = b
      /\ \A i \in 1..o : wider[i] = out[i] /\ i \in 1..(o + 1)
      /\ \A i \in 1..(o + 1) : i # o + 1 => i \in 1..o
  BY <1>0, <1>1, AppendFacts
<1>3. /\ more \in Seq(Construct) /\ Len(more) = n + 1 /\ n \in Nat /\ more[n + 1] = c
      /\ \A i \in 1..n : more[i] = con[i] /\ i \in 1..(n + 1)
      /\ \A i \in 1..(n + 1) : i # n + 1 => i \in 1..n
  BY <1>0, AppendFacts
<1> HIDE DEF wider, more
<1>4. Labels(c) = {} /\ c.kind # "tag" /\ c.kind # "loop"
  BY DEF BeginsBlock, Labels
<1>5. \A d \in 1..(o + 1) : wider[d] = b \/ (d \in 1..o /\ wider[d] = out[d])
  BY <1>2
<1>6. MembersStay(cells, wider) BY <1>1, <1>2, <1>5 DEF MembersStay, Core
<1>7. BlocksNest(wider, fr, len)
  <2>0. BlocksNest(out, fr, len) BY DEF Core
  <2>1. Outside(b, fr, len)
    <3>1. len \in 1..len BY <1>0
    <3>2. \A i \in 1..Len(fr) : fr[i].symbol \in 1..len /\ Len(fr) - Len(fr) + i = i
      BY <1>0 DEF Core, FramesOf
    <3>3. 1..(Len(fr) - Len(fr)) = {} BY <1>0
    <3> QED BY <1>0, <1>1, <3>1, <3>2, <3>3 DEF Outside
  <2>2. \A d \in 1..(o + 1) : Outside(wider[d], fr, len)
    BY <1>5, <2>0, <2>1 DEF BlocksNest
  <2>3. \A d, e \in 1..(o + 1) : d < e =>
           wider[d].free <= wider[e].free /\ Len(wider[d].frames) <= Len(wider[e].frames)
    <3> SUFFICES ASSUME NEW d \in 1..(o + 1), NEW e \in 1..(o + 1), d < e
                 PROVE  wider[d].free <= wider[e].free /\ Len(wider[d].frames) <= Len(wider[e].frames)
      OBVIOUS
    <3>1. d \in 1..o BY <1>2
    <3>2. CASE e = o + 1
      <4>1. Outside(wider[d], fr, len) /\ wider[e] = b BY <1>2, <2>2, <3>2
      <4> QED BY <1>0, <1>1, <4>1 DEF Outside
    <3>3. CASE e # o + 1 BY <1>2, <2>0, <3>1, <3>3 DEF BlocksNest
    <3> QED BY <3>2, <3>3
  <2> QED BY <1>2, <2>2, <2>3 DEF BlocksNest
<1>8. \A k \in 1..(n + 1) : more[k] = c \/ (k \in 1..n /\ more[k] = con[k])
  BY <1>3
<1>9. TagsStay(cells, wider, more)
  <2>1. \A k \in 1..(n + 1) : more[k].kind # "tag" /\ more[k].symbol <= len
    BY <1>4, <1>8 DEF TagsStay, Core
  <2> QED BY <1>3, <2>1 DEF TagsStay
<1>10. LoopsNest(cells, more, op)
  <2>1. LoopsNest(cells, con, op) BY DEF Core
  <2> QED BY <1>0, <1>4, <2>1, LoopsAppended DEF more
<1>11. Owned(tab, fr, more) BY <1>0, OwnedAppended DEF Core, more
<1>12. \E lv \in [1..Len(more) -> Nat] : Levels(wider, more, lv)
  <2>1. PICK lv \in [1..Len(con) -> Nat] : Levels(out, con, lv) BY DEF Core
  <2> DEFINE new == [k \in 1..(n + 1) |-> IF k = n + 1 THEN o + 1 ELSE lv[k]]
  <2>2. /\ new \in [1..(n + 1) -> Nat] /\ new[n + 1] = o + 1
        /\ \A k \in 1..n : new[k] = lv[k] /\ lv[k] \in Nat
    <3>1. o + 1 \in Nat /\ \A k \in 1..(n + 1) : k # n + 1 => lv[k] \in Nat
      BY <1>2, <1>3, <2>1
    <3>2. \A k \in 1..n : k # n + 1 /\ k \in 1..(n + 1) BY <1>3
    <3>3. n + 1 \in 1..(n + 1) BY <1>3
    <3> HIDE DEF n, o
    <3> QED BY <3>1, <3>2, <3>3
  <2>3. \A k \in 1..n : lv[k] \in 0..o /\ (BeginsBlock(con[k]) => lv[k] > 0)
    BY <2>1 DEF Levels
  <2> HIDE DEF new
  <2>4. ASSUME NEW k \in 1..Len(more)
        PROVE  new[k] \in 0..Len(wider) /\ (BeginsBlock(more[k]) => new[k] > 0)
    <3>1. CASE k = n + 1 BY <1>2, <2>2, <3>1
    <3>2. CASE k # n + 1 BY <1>2, <1>3, <2>2, <2>3, <3>2
    <3> QED BY <3>1, <3>2
  <2>5. ASSUME NEW k \in 1..(Len(more) - 1)
        PROVE  new[k + 1] = new[k] + IF BeginsBlock(more[k + 1]) THEN 1 ELSE 0
    <3>1. k \in 1..n BY <1>3
    <3>2. CASE k = n
      <4>1. Len(con) > 0 BY <3>1, <3>2
      <4>2. lv[n] = o BY <2>1, <4>1 DEF Levels
      <4> QED BY <1>2, <1>3, <2>2, <3>1, <3>2, <4>2
    <3>3. CASE k # n
      <4>1. k \in 1..(n - 1) /\ k + 1 \in 1..n BY <1>3, <3>1, <3>3
      <4> QED BY <1>3, <2>1, <2>2, <3>1, <4>1 DEF Levels
    <3> QED BY <3>2, <3>3
  <2>6. ASSUME NEW k \in 1..Len(more), NEW l \in 1..Len(more), k < l
        PROVE  new[k] <= new[l]
    <3>1. k \in 1..n BY <1>3, <2>6
    <3>2. CASE l = n + 1 BY <1>2, <2>2, <2>3, <3>1, <3>2
    <3>3. CASE l # n + 1 BY <1>3, <2>1, <2>2, <2>6, <3>1, <3>3 DEF Levels
    <3> QED BY <3>2, <3>3
  <2>7. ASSUME NEW k \in 1..Len(more), NEW l \in 1..Len(more), k < l, BeginsBlock(more[l])
        PROVE  /\ more[k].symbol <= wider[new[l]].free
               /\ \A p \in Labels(more[k]) : p <= wider[new[l]].free
    <3>1. k \in 1..n /\ more[k] = con[k] BY <1>3, <2>7
    <3>2. CASE l = n + 1
      <4>1. wider[new[l]].free = len BY <1>1, <1>2, <2>2, <3>2
      <4>2. con[k].symbol <= len BY <3>1 DEF TagsStay, Core
      <4>3. ASSUME NEW p \in Labels(con[k]) PROVE p <= len
        <5>1. p \in 2..len BY <3>1, <4>3 DEF LoopsNest, Core
        <5> QED BY <1>0, <5>1
      <4> QED BY <3>1, <4>1, <4>2, <4>3
    <3>3. CASE l # n + 1
      <4>1. l \in 1..n /\ more[l] = con[l] BY <1>3, <3>3
      <4>2. lv[l] \in 1..o BY <1>2, <2>3, <2>7, <4>1
      <4>3. wider[new[l]] = out[lv[l]] BY <1>2, <2>2, <4>1, <4>2
      <4>4. con[k].symbol <= out[lv[l]].free /\ \A p \in Labels(con[k]) : p <= out[lv[l]].free
        BY <2>1, <2>7, <3>1, <4>1 DEF Levels
      <4> QED BY <3>1, <4>3, <4>4
    <3> QED BY <3>2, <3>3
  <2>8. Len(more) > 0 => new[Len(more)] = Len(wider) BY <1>2, <1>3, <2>2
  <2>9. Levels(wider, more, new) BY <2>4, <2>5, <2>6, <2>7, <2>8 DEF Levels
  <2> QED BY <1>3, <2>2, <2>9
<1>13. Core(cells, m, tab, fr, wider, more, op)
  BY <1>0, <1>2, <1>3, <1>6, <1>7, <1>9, <1>10, <1>11, <1>12 DEF Core
<1> QED BY <1>13 DEF wider, more, b

\* The body of a function begins: the construct is no other.
LEMMA KindChanged ==
    ASSUME NEW cells, NEW m, NEW tab, NEW fr, NEW out, NEW con, NEW op,
           Core(cells, m, tab, fr, out, con, op), op # "no",
           NEW i, con[i].kind = "function",
           NEW new \in Seq(Construct), Len(new) = Len(con),
           \A k \in 1..Len(con) : /\ new[k].symbol = con[k].symbol
                                  /\ new[k].kind = IF k = i THEN "body" ELSE con[k].kind
    PROVE  Core(cells, m, tab, fr, out, new, op)
<1> DEFINE n == Len(con)
<1>0. con \in Seq(Construct) /\ n \in Nat BY DEF Core
<1>1. new \in Seq(Construct) /\ Len(new) = n OBVIOUS
<1>2. ASSUME NEW k \in 1..n
      PROVE  /\ new[k].symbol = con[k].symbol
             /\ new[k].kind = IF k = i THEN "body" ELSE con[k].kind
             /\ Labels(new[k]) = Labels(con[k])
             /\ BeginsBlock(new[k]) <=> BeginsBlock(con[k])
             /\ new[k].kind = "tag" <=> con[k].kind = "tag"
             /\ new[k].kind = "loop" <=> con[k].kind = "loop"
  <2>1. /\ new[k].symbol = con[k].symbol
        /\ new[k].kind = IF k = i THEN "body" ELSE con[k].kind
    OBVIOUS
  <2>2. CASE k = i BY <2>1, <2>2 DEF Labels, BeginsBlock
  <2>3. CASE k # i BY <2>1, <2>3 DEF Labels, BeginsBlock
  <2> QED BY <2>1, <2>2, <2>3
<1>3. TagsStay(cells, out, new)
  <2>1. TagsStay(cells, out, con) BY DEF Core
  <2> QED BY <1>1, <1>2, <2>1 DEF TagsStay
<1>4. LoopsNest(cells, new, op)
  <2>1. LoopsNest(cells, con, op) BY DEF Core
  <2> QED BY <1>1, <1>2, <2>1 DEF LoopsNest
<1>5. Owned(tab, fr, new) BY <1>1, <1>2 DEF Owned, Core
<1>6. \E lv \in [1..Len(new) -> Nat] : Levels(out, new, lv)
  <2>1. PICK lv \in [1..Len(con) -> Nat] : Levels(out, con, lv) BY DEF Core
  <2>2. \A k \in 1..(n - 1) : k + 1 \in 1..n BY <1>0
  <2>3. Levels(out, new, lv) BY <1>1, <1>2, <2>1, <2>2 DEF Levels
  <2> QED BY <1>1, <2>3
<1>7. Core(cells, m, tab, fr, out, new, op)
  BY <1>1, <1>3, <1>4, <1>5, <1>6 DEF Core
<1> QED BY <1>7

LEMMA LevelsOutside ==
    ASSUME NEW out, NEW con \in Seq(Construct), con # <<>>, Len(out) \in Nat,
           NEW lv \in [1..Len(con) -> Nat], Levels(out, con, lv), ~BeginsBlock(Last(con))
    PROVE  \E new \in [1..Len(Front(con)) -> Nat] : Levels(out, Front(con), new)
<1> DEFINE n == Len(con)
           less == Front(con)
           new == [k \in 1..(n - 1) |-> lv[k]]
<1>0. /\ less \in Seq(Construct) /\ Len(less) = n - 1 /\ n \in Nat /\ n >= 1
      /\ Last(con) = con[n]
      /\ \A k \in 1..(n - 1) : less[k] = con[k]
  BY FrontFacts
<1>1. \A k \in 1..(n - 1) : k \in 1..n BY <1>0
<1>2. new \in [1..(n - 1) -> Nat] /\ \A k \in 1..(n - 1) : new[k] = lv[k]
  BY <1>1
<1> HIDE DEF less, new
<1>3. Len(less) > 0 => new[Len(less)] = Len(out)
  <2> SUFFICES ASSUME n - 1 > 0 PROVE new[n - 1] = Len(out)
    BY <1>0
  <2>1. n - 1 \in 1..(n - 1) /\ (n - 1) + 1 = n BY <1>0
  <2>2. lv[(n - 1) + 1] = lv[n - 1] + IF BeginsBlock(con[(n - 1) + 1]) THEN 1 ELSE 0
    BY <2>1 DEF Levels
  <2>3. lv[n] = Len(out) /\ lv[n - 1] \in Nat BY <1>0, <1>1, <2>1 DEF Levels
  <2>4. ~BeginsBlock(con[n]) BY <1>0
  <2>5. lv[n] = lv[n - 1] + 0 BY <2>1, <2>2, <2>4
  <2> QED BY <1>2, <2>1, <2>3, <2>5
<1>4. \A k \in 1..(Len(less) - 1) :
         new[k + 1] = new[k] + IF BeginsBlock(less[k + 1]) THEN 1 ELSE 0
  <2> SUFFICES ASSUME NEW k \in 1..(Len(less) - 1)
               PROVE  new[k + 1] = new[k] + IF BeginsBlock(less[k + 1]) THEN 1 ELSE 0
    OBVIOUS
  <2>1. k \in 1..(n - 1) /\ k + 1 \in 1..(n - 1) BY <1>0
  <2> QED BY <1>0, <1>2, <2>1 DEF Levels
<1>5. Levels(out, less, new)
  <2>1. \A k \in 1..(n - 1) : new[k] \in 0..Len(out) /\ (BeginsBlock(less[k]) => new[k] > 0)
    BY <1>0, <1>1, <1>2 DEF Levels
  <2>2. \A k, l \in 1..(n - 1) : k < l => new[k] <= new[l]
    BY <1>1, <1>2 DEF Levels
  <2>3. \A k, l \in 1..(n - 1) : k < l /\ BeginsBlock(less[l]) =>
           less[k].symbol <= out[new[l]].free /\ \A p \in Labels(less[k]) : p <= out[new[l]].free
    BY <1>0, <1>1, <1>2 DEF Levels
  <2> QED BY <1>0, <1>3, <1>4, <2>1, <2>2, <2>3 DEF Levels
<1> QED BY <1>0, <1>2, <1>5 DEF less

\* A loop or a tag ends, when its labels have been taken out of the table.
LEMMA ConstructEnded ==
    ASSUME NEW cells, NEW m, NEW tab, NEW fr, NEW out, NEW con, NEW op,
           Core(cells, m, tab, fr, out, con, op), op # "no",
           con # <<>>, ~BeginsBlock(Last(con)),
           \A i \in 1..Len(tab) : tab[i] \notin Labels(Last(con))
    PROVE  Core(cells, m, tab, fr, out, Front(con), op)
<1> DEFINE n == Len(con)
           less == Front(con)
<1>a. con \in Seq(Construct) /\ out \in Seq(Block)
  BY DEF Core
<1>0. /\ less \in Seq(Construct) /\ Len(less) = n - 1 /\ n \in Nat /\ n >= 1
      /\ Last(con) = con[n]
      /\ \A k \in 1..(n - 1) : less[k] = con[k]
  BY <1>a, FrontFacts
<1>1. \A k \in 1..(n - 1) : k \in 1..n BY <1>0
<1>2. \E lv \in [1..Len(less) -> Nat] : Levels(out, less, lv)
  <2>1. PICK lv \in [1..Len(con) -> Nat] : Levels(out, con, lv) BY DEF Core
  <2>2. Len(out) \in Nat BY <1>a
  <2> QED BY <1>a, <2>1, <2>2, LevelsOutside
<1> HIDE DEF less
<1>3. TagsStay(cells, out, less)
  <2>1. TagsStay(cells, out, con) BY DEF Core
  <2> QED BY <1>0, <1>1, <2>1 DEF TagsStay
<1>4. LoopsNest(cells, less, op)
  <2>1. LoopsNest(cells, con, op) BY DEF Core
  <2> QED BY <1>0, <1>1, <2>1 DEF LoopsNest
<1>5. Owned(tab, fr, less)
  <2> SUFFICES ASSUME NEW i \in 1..Len(tab), tab[i] > 1
               PROVE  \/ \E j \in 1..Len(fr) : fr[j].do = "delete" /\ fr[j].symbol = tab[i]
                      \/ \E k \in 1..Len(less) : tab[i] \in Labels(less[k])
    BY DEF Owned
  <2>1. ASSUME NEW k \in 1..n, tab[i] \in Labels(con[k])
        PROVE  k \in 1..(n - 1)
    <3>1. k # n BY <1>0, <2>1
    <3> QED BY <1>0, <3>1
  <2> QED BY <1>0, <2>1 DEF Owned, Core
<1>6. Core(cells, m, tab, fr, out, less, op)
  BY <1>0, <1>2, <1>3, <1>4, <1>5 DEF Core
<1> QED BY <1>6 DEF less

\* The two labels of a loop are the newest, and are found.
LEMMA LabelsEnded ==
    ASSUME Typed,
           Core(stack, Len(ppm), table, frames, outer, constructs, "extract"),
           constructs # <<>>, Last(constructs).kind = "loop"
    PROVE  LET first == Last(constructs).symbol
               left == Delete(Delete(table, stack, first + 1), stack, first)
           IN  Core(stack, Len(ppm), left, frames, outer, Front(constructs), "extract")
<1> DEFINE n == Len(constructs)
           first == Last(constructs).symbol
           once == Delete(table, stack, first + 1)
           left == Delete(once, stack, first)
           len == Len(stack)
<1>0. /\ constructs \in Seq(Construct) /\ table \in Seq(Int) /\ stack \in Seq(Cell)
      /\ ppm \in Seq(Macro) /\ len \in Nat /\ Len(ppm) \in Nat
      /\ Good(table, len, Len(ppm)) /\ Descends(table) /\ FramesOf(stack, frames)
      /\ Owned(table, frames, constructs) /\ LoopsNest(stack, constructs, "extract")
  BY DEF Typed, Core
<1>1. n \in 1..n /\ Last(constructs) = constructs[n] /\ n \in Nat
  BY <1>0, FrontFacts
<1>2. first # None /\ Labels(constructs[n]) = {first, first + 1}
  <2>1. first # None BY <1>0, <1>1 DEF LoopsNest
  <2> QED BY <1>1, <2>1 DEF Labels
<1>3. first \in Nat
  <2>1. constructs[n] \in Construct BY <1>0, <1>1
  <2> QED BY <1>1, <2>1 DEF Construct
<1>4. \A p \in {first, first + 1} : p \in 2..len /\ stack[p].type = "label" /\ At(stack, p) = stack[p]
  <2>1. \A p \in {first, first + 1} : p \in 2..len /\ stack[p].type = "label"
    BY <1>0, <1>1, <1>2 DEF LoopsNest
  <2>2. \A p \in {first, first + 1} : p > 0 BY <1>0, <2>1
  <2> QED BY <2>1, <2>2 DEF At
<1> HIDE DEF first
<1>5. ASSUME NEW p \in {first, first + 1}, NEW i \in 1..Len(table),
             SameSymbol(At(stack, table[i]), At(stack, p))
      PROVE  table[i] > 0 /\ table[i] \in Int /\ table[i] <= first + 1
  <2>0. table[i] \in Int /\ (table[i] \in 1..len \/ -table[i] \in 1..Len(ppm))
    BY <1>0 DEF Good
  <2>1. At(stack, table[i]).type = "label" BY <1>4, <1>5 DEF SameSymbol
  <2>2. table[i] > 0
    <3> SUFFICES ASSUME ~(table[i] > 0) PROVE FALSE
      OBVIOUS
    <3>1. -table[i] \in 1..Len(ppm) BY <1>0, <2>0
    <3>2. ppm[-table[i]] \in Macro BY <1>0, <3>1
    <3> QED BY <2>1, <3>2 DEF At, Macro
  <2>3. stack[table[i]].type = "label" BY <2>1, <2>2 DEF At
  <2>4. table[i] <= first + 1
    <3>1. CASE table[i] > 1
      <4>1. ~ \E j \in 1..Len(frames) : frames[j].do = "delete" /\ frames[j].symbol = table[i]
        BY <1>0, <2>3 DEF FramesOf
      <4>2. PICK k \in 1..n : table[i] \in Labels(constructs[k])
        BY <1>0, <3>1, <4>1 DEF Owned
      <4>3. CASE k = n BY <1>2, <1>3, <4>2, <4>3
      <4>4. CASE k # n
        <5>1. k < n BY <1>1, <4>4
        <5>2. table[i] < first BY <1>0, <1>1, <1>2, <4>2, <5>1 DEF LoopsNest
        <5> QED BY <1>3, <2>0, <5>2
      <4> QED BY <4>3, <4>4
    <3>2. CASE ~(table[i] > 1) BY <1>3, <2>0, <3>2
    <3> QED BY <3>1, <3>2
  <2> QED BY <2>0, <2>2, <2>4
<1>6. /\ once \in Seq(Int) /\ Descends(once) /\ Within(once, table)
      /\ \A i \in 1..Len(once) : once[i] # first + 1
  <2>1. once \in Seq(Int) /\ Descends(once) /\ Within(once, table)
    BY <1>0, DeleteFacts
  <2>2. first + 1 \in Int /\ first + 1 > 0 BY <1>3
  <2>3. \A i \in 1..Len(table) : table[i] > first + 1 \/ table[i] <= 0 =>
           ~SameSymbol(At(stack, table[i]), At(stack, first + 1))
    <3> SUFFICES ASSUME NEW i \in 1..Len(table), table[i] > first + 1 \/ table[i] <= 0,
                        SameSymbol(At(stack, table[i]), At(stack, first + 1))
                 PROVE  FALSE
      OBVIOUS
    <3>1. table[i] > 0 /\ table[i] \in Int /\ table[i] <= first + 1 BY <1>5
    <3> QED BY <2>2, <3>1
  <2> DEFINE p == first + 1
  <2>4. \A i \in 1..Len(once) : once[i] # p
    <3> HIDE DEF p
    <3> QED BY <1>0, <2>2, <2>3, DeleteTakes DEF p
  <2> QED BY <2>1, <2>4
<1> HIDE DEF once
<1>7. /\ left \in Seq(Int) /\ Descends(left) /\ Within(left, once)
      /\ \A i \in 1..Len(left) : left[i] # first
  <2>1. left \in Seq(Int) /\ Descends(left) /\ Within(left, once)
    BY <1>6, DeleteFacts
  <2>2. first \in Int /\ first > 0 BY <1>2, <1>3 DEF None
  <2>3. \A i \in 1..Len(once) : once[i] > first \/ once[i] <= 0 =>
           ~SameSymbol(At(stack, once[i]), At(stack, first))
    <3> SUFFICES ASSUME NEW i \in 1..Len(once), once[i] > first \/ once[i] <= 0,
                        SameSymbol(At(stack, once[i]), At(stack, first))
                 PROVE  FALSE
      OBVIOUS
    <3>1. PICK j \in 1..Len(table) : once[i] = table[j] BY <1>6 DEF Within
    <3>2. table[j] > 0 /\ table[j] \in Int /\ table[j] <= first + 1
      BY <1>5, <3>1
    <3>3. once[i] # first + 1 BY <1>6
    <3> QED BY <2>2, <3>1, <3>2, <3>3
  <2> QED BY <1>6, <2>1, <2>2, <2>3, DeleteTakes
<1> HIDE DEF left
<1>8. Within(left, table) /\ \A i \in 1..Len(left) : left[i] \notin Labels(Last(constructs))
  <2>1. Within(left, table) BY <1>6, <1>7 DEF Within
  <2>2. \A i \in 1..Len(left) : left[i] # first + 1 /\ left[i] # first
    BY <1>6, <1>7 DEF Within
  <2> QED BY <1>1, <1>2, <2>1, <2>2
<1>9. Core(stack, Len(ppm), left, frames, outer, constructs, "extract")
  BY <1>7, <1>8, TableShrinks
<1>10. Core(stack, Len(ppm), left, frames, outer, Front(constructs), "extract")
  <2>1. ~BeginsBlock(Last(constructs)) BY DEF BeginsBlock
  <2> QED BY <1>8, <1>9, <2>1, ConstructEnded
<1> QED BY <1>10 DEF left, once, first

\* A pointer that outlives the block, or that one of the block's frames takes out
LEMMA EndOwned ==
    ASSUME Core(stack, Len(ppm), table, frames, outer, constructs, parsing), parsing # "no",
           constructs # <<>>, BeginsBlock(Last(constructs))
    PROVE  /\ outer # <<>>
           /\ \A k \in 1..(Len(constructs) - 1) :
                 /\ constructs[k].kind # "tag" /\ constructs[k].symbol <= Last(outer).free
                 /\ \A p \in Labels(constructs[k]) : p <= Last(outer).free
           /\ \A i \in 1..Len(table) : table[i] > Last(outer).free =>
                 \E j \in 1..Len(frames) : frames[j].do = "delete" /\ frames[j].symbol = table[i]
<1> DEFINE n == Len(constructs)
           o == Len(outer)
           b == Last(outer)
<1>0. /\ constructs \in Seq(Construct) /\ outer \in Seq(Block) /\ table \in Seq(Int)
      /\ Owned(table, frames, constructs) /\ TagsStay(stack, outer, constructs)
  BY DEF Core
<1>1. n \in 1..n /\ Last(constructs) = constructs[n] /\ n \in Nat /\ n >= 1
  BY <1>0, FrontFacts
<1>2. PICK lv \in [1..n -> Nat] : Levels(outer, constructs, lv) BY DEF Core
<1>3. lv[n] = o /\ lv[n] > 0 BY <1>1, <1>2 DEF Levels
<1>4. outer # <<>> BY <1>3
<1>5. b = outer[o] /\ o \in 1..o /\ o \in Nat BY <1>0, <1>4, FrontFacts
<1> HIDE DEF n, o, b
<1>6. \A k \in 1..(n - 1) : k \in 1..n /\ k < n BY <1>1
<1>7. ASSUME NEW k \in 1..(n - 1)
      PROVE  /\ constructs[k].kind # "tag" /\ constructs[k].symbol <= b.free
             /\ \A p \in Labels(constructs[k]) : p <= b.free
  <2>1. k \in 1..n /\ k < n BY <1>6
  <2>2. constructs[k].symbol <= b.free /\ \A p \in Labels(constructs[k]) : p <= b.free
    BY <1>1, <1>2, <1>3, <1>5, <2>1 DEF Levels, n
  <2>3. constructs[n].kind # "tag" BY <1>1 DEF BeginsBlock
  <2>4. constructs[k].kind # "tag" BY <1>0, <1>1, <2>1, <2>3 DEF TagsStay, n
  <2> QED BY <2>2, <2>4
<1>8. ASSUME NEW i \in 1..Len(table), table[i] > b.free
      PROVE  \E j \in 1..Len(frames) : frames[j].do = "delete" /\ frames[j].symbol = table[i]
  <2>0. table[i] \in Int /\ b.free \in Nat /\ b.free >= 1
    <3>1. b \in Block /\ Outside(b, frames, Len(stack)) /\ Len(stack) \in Nat
      BY <1>0, <1>5 DEF Core, BlocksNest, o
    <3> QED BY <1>0, <3>1 DEF Outside, Block
  <2>1. table[i] > 1 BY <1>8, <2>0
  <2>2. ASSUME NEW k \in 1..n, table[i] \in Labels(constructs[k]) PROVE FALSE
    <3>1. CASE k = n BY <1>1, <2>2, <3>1 DEF Labels, BeginsBlock
    <3>2. CASE k # n
      <4>1. k \in 1..(n - 1) BY <1>1, <3>2
      <4>2. table[i] <= b.free BY <1>7, <2>2, <4>1
      <4> QED BY <1>8, <2>0, <4>2
    <3> QED BY <3>1, <3>2
  <2> QED BY <1>0, <2>1, <2>2 DEF Owned, n
<1> QED BY <1>4, <1>7, <1>8 DEF n, b

\* What remains, when a block ends, is as it was when the block began.
LEMMA BlockEnded ==
    ASSUME Typed, Core(stack, Len(ppm), table, frames, outer, constructs, parsing), parsing # "no",
           constructs # <<>>, BeginsBlock(Last(constructs))
    PROVE  LET b == Last(outer)
               u == Unwind(b.frames)
           IN  /\ Core(SubSeq(u.cells, 1, b.free), Len(ppm), u.table, b.frames, Front(outer),
                       Front(constructs), parsing)
               /\ outer # <<>> /\ b \in Block /\ Len(SubSeq(u.cells, 1, b.free)) <= Len(stack)
<1> DEFINE b == Last(outer)
           u == Unwind(b.frames)
           off == Len(frames) - Len(b.frames)
           cells == SubSeq(u.cells, 1, b.free)
           less == Front(outer)
           con == Front(constructs)
           n == Len(constructs)
           o == Len(outer)
           free == b.free
<1>0. /\ constructs \in Seq(Construct) /\ outer \in Seq(Block) /\ table \in Seq(Int)
      /\ frames \in Seq(Frame) /\ stack \in Seq(Cell) /\ Len(ppm) \in Nat
      /\ Good(table, Len(stack), Len(ppm)) /\ Descends(table) /\ FramesOf(stack, frames)
      /\ BlocksNest(outer, frames, Len(stack)) /\ MembersStay(stack, outer)
      /\ Owned(table, frames, constructs) /\ LoopsNest(stack, constructs, parsing)
      /\ TagsStay(stack, outer, constructs) /\ stack[1].type = "keyword"
      /\ Len(stack) \in Nat /\ Len(frames) \in Nat
  BY DEF Typed, Core
<1>1. /\ outer # <<>>
      /\ \A k \in 1..(n - 1) :
            /\ constructs[k].kind # "tag" /\ constructs[k].symbol <= free
            /\ \A p \in Labels(constructs[k]) : p <= free
      /\ \A i \in 1..Len(table) : table[i] > free =>
            \E j \in 1..Len(frames) : frames[j].do = "delete" /\ frames[j].symbol = table[i]
  BY EndOwned
<1>2. /\ con \in Seq(Construct) /\ Len(con) = n - 1 /\ n \in Nat /\ n >= 1 /\ n \in 1..n
      /\ Last(constructs) = constructs[n] /\ \A k \in 1..(n - 1) : con[k] = constructs[k] /\ k \in 1..n
  <2>1. /\ con \in Seq(Construct) /\ Len(con) = n - 1 /\ n \in Nat /\ n >= 1 /\ n \in 1..n
        /\ Last(constructs) = constructs[n] /\ \A k \in 1..(n - 1) : con[k] = constructs[k]
    BY <1>0, FrontFacts
  <2> HIDE DEF n
  <2> QED BY <2>1
<1>3. /\ less \in Seq(Block) /\ Len(less) = o - 1 /\ o \in Nat /\ o >= 1 /\ o \in 1..o
      /\ b = outer[o] /\ b \in Block /\ \A d \in 1..(o - 1) : less[d] = outer[d] /\ d \in 1..o /\ d < o
  <2>1. /\ less \in Seq(Block) /\ Len(less) = o - 1 /\ o \in Nat /\ o >= 1 /\ o \in 1..o
        /\ b = outer[o] /\ b \in Block /\ \A d \in 1..(o - 1) : less[d] = outer[d]
    BY <1>0, <1>1, FrontFacts
  <2> HIDE DEF o
  <2> QED BY <2>1
<1>4. Outside(b, frames, Len(stack)) BY <1>0, <1>3 DEF BlocksNest
<1>5. /\ free \in Nat /\ free >= 1 /\ free <= Len(stack) /\ b.frames \in Seq(Frame)
      /\ Len(b.frames) \in Nat /\ off \in Nat /\ Len(b.frames) <= Len(frames)
  <2>1. free \in Nat /\ b.frames \in Seq(Frame) BY <1>3 DEF Block
  <2>2. Len(b.frames) \in Nat BY <2>1
  <2> QED BY <1>0, <1>4, <2>1, <2>2 DEF Outside
<1>6. Left(u, off) BY <1>0, <1>1, UnwoundFacts
<1> HIDE DEF b
<1> DEFINE bn == Len(b.frames)
           fn == Len(frames)
<1>a. fn \in Nat /\ bn \in Nat /\ off \in Nat /\ off + bn = fn
  BY <1>0, <1>5
<1> HIDE DEF bn, fn, off
<1>7. /\ u.table \in Seq(Int) /\ Descends(u.table) /\ Within(u.table, table)
      /\ u.cells \in Seq(Cell) /\ Len(u.cells) = Len(stack)
      /\ \A i \in 1..Len(stack) : /\ u.cells[i].type = stack[i].type /\ u.cells[i].name = stack[i].name
                                  /\ u.cells[i].members \in {None, stack[i].members}
      /\ \A j \in 1..off : frames[j].do = "delete" => \A i \in 1..Len(u.table) : u.table[i] # frames[j].symbol
  BY <1>6 DEF Left, SameCells
<1> DEFINE new == u.table
           uc == u.cells
<1> HIDE DEF u
<1>8. /\ cells \in Seq(Cell) /\ Len(cells) = free
      /\ \A i \in 1..free : /\ cells[i] = uc[i] /\ i \in 1..Len(stack)
                            /\ cells[i].type = stack[i].type /\ cells[i].name = stack[i].name
                            /\ cells[i].members \in {None, stack[i].members}
  <2> HIDE DEF uc
  <2>0. uc \in Seq(Cell) /\ Len(uc) = Len(stack) BY <1>7 DEF uc
  <2>1. 1 \in 1..(Len(uc) + 1) /\ free \in (1 - 1)..Len(uc) /\ free - 1 + 1 = free
    BY <1>5, <2>0
  <2>2. /\ SubSeq(uc, 1, free) \in Seq(Cell) /\ Len(SubSeq(uc, 1, free)) = free - 1 + 1
        /\ \A i \in 1..(free - 1 + 1) : SubSeq(uc, 1, free)[i] = uc[1 + i - 1]
    BY <2>0, <2>1, SubSeqFacts
  <2>3. \A i \in 1..free : i \in 1..Len(stack) /\ 1 + i - 1 = i BY <1>0, <1>5
  <2> QED BY <1>7, <2>1, <2>2, <2>3 DEF uc
<1> HIDE DEF cells, less, con, new, uc
<1>9. \A i \in 1..Len(b.frames) : /\ off + i \in 1..Len(frames) /\ b.frames[i] = frames[off + i]
                                  /\ b.frames[i].symbol \in 1..free
  <2> SUFFICES ASSUME NEW i \in 1..Len(b.frames)
               PROVE  /\ off + i \in 1..Len(frames) /\ b.frames[i] = frames[off + i]
                      /\ b.frames[i].symbol \in 1..free
    OBVIOUS
  <2>0. i \in 1..bn BY DEF bn
  <2>1. off + i \in 1..Len(frames)
    <3>1. off + i \in 1..fn BY <1>a, <2>0
    <3> QED BY <3>1 DEF fn
  <2>2. b.frames[i] = frames[off + i] /\ b.frames[i].symbol <= free
    BY <1>4 DEF Outside, off
  <2>3. frames[off + i].symbol \in 1..Len(stack) BY <1>0, <2>1 DEF FramesOf
  <2> QED BY <1>0, <1>5, <2>1, <2>2, <2>3
<1>10. ASSUME NEW i \in 1..Len(new)
       PROVE  /\ \E j \in 1..Len(table) : new[i] = table[j]
              /\ new[i] \in Int /\ (new[i] \in 1..free \/ -new[i] \in 1..Len(ppm))
              /\ \A j \in 1..Len(frames) : frames[j].do = "delete" /\ frames[j].symbol = new[i] =>
                    \E k \in 1..Len(b.frames) : b.frames[k] = frames[j]
  <2>1. PICK x \in 1..Len(table) : new[i] = table[x] BY <1>7 DEF Within, new
  <2>2. new[i] \in Int /\ (new[i] \in 1..Len(stack) \/ -new[i] \in 1..Len(ppm))
    BY <1>0, <2>1 DEF Good
  <2>3. ASSUME NEW j \in 1..Len(frames), frames[j].do = "delete", frames[j].symbol = new[i]
        PROVE  \E k \in 1..Len(b.frames) : b.frames[k] = frames[j]
    <3>1. ~(j \in 1..off) BY <1>7, <2>3 DEF new
    <3>2. j - off \in 1..Len(b.frames) /\ off + (j - off) = j
      <4>1. j \in 1..fn BY DEF fn
      <4>2. j - off \in 1..bn /\ off + (j - off) = j BY <1>a, <3>1, <4>1
      <4> QED BY <4>2 DEF bn
    <3> QED BY <1>9, <3>2
  <2>4. new[i] \in 1..free \/ -new[i] \in 1..Len(ppm)
    <3> SUFFICES ASSUME new[i] > free, new[i] \in 1..Len(stack) PROVE FALSE
      BY <1>5, <2>2
    <3>1. PICK j \in 1..Len(frames) : frames[j].do = "delete" /\ frames[j].symbol = new[i]
      BY <1>1, <2>1
    <3>2. PICK k \in 1..Len(b.frames) : b.frames[k] = frames[j] BY <2>3, <3>1
    <3>3. new[i] \in 1..free BY <1>9, <3>1, <3>2
    <3> QED BY <1>5, <3>3
  <2> QED BY <2>1, <2>2, <2>3, <2>4
<1>11. Good(new, Len(cells), Len(ppm)) BY <1>8, <1>10 DEF Good
<1>12. MembersStay(cells, less)
  <2>0. \A d \in 1..o : outer[d].free \in Nat
    <3>1. \A d \in 1..o : outer[d] \in Block BY <1>0
    <3> QED BY <3>1 DEF Block
  <2>1. ASSUME NEW d \in 1..o, NEW i \in 1..free, i <= outer[d].free
        PROVE  cells[i].members <= outer[d].free
    <3>1. cells[i].members \in {None, stack[i].members} /\ i \in 1..Len(stack)
      BY <1>8
    <3>2. stack[i].members <= outer[d].free BY <1>0, <2>1, <3>1 DEF MembersStay
    <3> QED BY <2>0, <3>1, <3>2 DEF None
  <2>2. \A i \in 1..free : cells[i].members <= free BY <1>3, <1>5, <2>1
  <2> QED BY <1>3, <1>8, <2>1, <2>2 DEF MembersStay
<1>13. FramesOf(cells, b.frames)
  <2>1. ASSUME NEW i \in 1..Len(b.frames), b.frames[i].do = "delete"
        PROVE  b.frames[i].symbol > 1 /\ cells[b.frames[i].symbol].type \in {"default", "tag"}
    <3>1. frames[off + i].do = "delete" /\ off + i \in 1..Len(frames) /\ b.frames[i] = frames[off + i]
      BY <1>9, <2>1
    <3>2. b.frames[i].symbol > 1 /\ stack[b.frames[i].symbol].type \in {"default", "tag"}
      BY <1>0, <3>1 DEF FramesOf
    <3>3. b.frames[i].symbol \in 1..free BY <1>9
    <3> QED BY <1>8, <3>2, <3>3
  <2>2. ASSUME NEW i \in 1..Len(b.frames), NEW j \in 1..Len(b.frames), i < j,
               b.frames[i].do = "delete", b.frames[j].do = "delete"
        PROVE  b.frames[i].symbol > b.frames[j].symbol
    <3>1. off + i \in 1..Len(frames) /\ off + j \in 1..Len(frames)
          /\ b.frames[i] = frames[off + i] /\ b.frames[j] = frames[off + j]
      BY <1>9
    <3>2. off + i < off + j
      <4>1. i \in Nat /\ j \in Nat OBVIOUS
      <4> QED BY <1>a, <2>2, <4>1
    <3> QED BY <1>0, <2>2, <3>1, <3>2 DEF FramesOf
  <2> QED BY <1>8, <1>9, <2>1, <2>2 DEF FramesOf
<1>14. BlocksNest(less, b.frames, Len(cells))
  <2>1. ASSUME NEW d \in 1..(o - 1)
        PROVE  Outside(outer[d], b.frames, free)
    <3> DEFINE e == outer[d]
               k == Len(e.frames)
    <3>0. d \in 1..o /\ d < o /\ e \in Block BY <1>0, <1>3
    <3>1. e.free <= free /\ k <= Len(b.frames)
      BY <1>0, <1>3, <3>0 DEF BlocksNest
    <3>2. Outside(e, frames, Len(stack)) BY <1>0, <3>0 DEF BlocksNest
    <3>3. e.frames \in Seq(Frame) /\ e.free \in Nat BY <3>0 DEF Block
    <3>4. k \in Nat BY <3>3
    <3> HIDE DEF e
    <3>5. e.free \in 1..free BY <1>5, <3>1, <3>2, <3>3 DEF Outside
    <3>6. ASSUME NEW i \in 1..k PROVE e.frames[i] = b.frames[Len(b.frames) - k + i]
      <4>0. k \in Nat /\ k <= bn /\ i \in 1..k BY <3>1, <3>4 DEF bn
      <4>1. /\ Len(b.frames) - k + i \in 1..Len(b.frames)
            /\ off + (Len(b.frames) - k + i) = Len(frames) - k + i
        <5> HIDE DEF k
        <5>1. bn - k + i \in 1..bn /\ off + (bn - k + i) = fn - k + i
          BY <1>a, <4>0
        <5> QED BY <5>1 DEF bn, fn
      <4>2. e.frames[i] = frames[Len(frames) - k + i] BY <3>2 DEF Outside
      <4> HIDE DEF k
      <4>3. b.frames[Len(b.frames) - k + i] = frames[off + (Len(b.frames) - k + i)]
        BY <1>9, <4>1
      <4> QED BY <4>1, <4>2, <4>3
    <3>7. ASSUME NEW i \in 1..(Len(b.frames) - k), b.frames[i].do = "delete"
          PROVE  b.frames[i].symbol > e.free
      <4>0. k \in Nat /\ k <= bn /\ i \in 1..(bn - k) BY <3>1, <3>4 DEF bn
      <4>1. off + i \in 1..(Len(frames) - k) /\ i \in 1..Len(b.frames)
        <5> HIDE DEF k
        <5>1. off + i \in 1..(fn - k) /\ i \in 1..bn BY <1>a, <4>0
        <5> QED BY <5>1 DEF bn, fn
      <4>2. b.frames[i] = frames[off + i] BY <1>9, <4>1
      <4> QED BY <3>2, <3>7, <4>1, <4>2 DEF Outside
    <3>8. \A i \in 1..k : e.frames[i].symbol <= e.free BY <3>2 DEF Outside
    <3>9. Outside(e, b.frames, free) BY <3>1, <3>5, <3>6, <3>7, <3>8 DEF Outside
    <3> QED BY <3>9 DEF e
  <2>2. \A d \in 1..Len(less) : Outside(less[d], b.frames, Len(cells))
    BY <1>3, <1>8, <2>1
  <2>3. \A d, e \in 1..Len(less) : d < e =>
           less[d].free <= less[e].free /\ Len(less[d].frames) <= Len(less[e].frames)
    BY <1>0, <1>3 DEF BlocksNest
  <2> QED BY <2>2, <2>3 DEF BlocksNest
<1>15. TagsStay(cells, less, con) BY <1>1, <1>2, <1>8, ZenonT(30) DEF TagsStay
<1>16. Owned(new, b.frames, con)
  <2> SUFFICES ASSUME NEW i \in 1..Len(new), new[i] > 1
               PROVE  \/ \E j \in 1..Len(b.frames) : b.frames[j].do = "delete" /\ b.frames[j].symbol = new[i]
                      \/ \E k \in 1..Len(con) : new[i] \in Labels(con[k])
    BY DEF Owned
  <2>1. PICK x \in 1..Len(table) : new[i] = table[x] BY <1>10
  <2>2. CASE \E j \in 1..Len(frames) : frames[j].do = "delete" /\ frames[j].symbol = new[i]
    BY <1>10, <2>2
  <2>3. CASE \E k \in 1..n : new[i] \in Labels(constructs[k])
    <3>1. PICK k \in 1..n : new[i] \in Labels(constructs[k]) BY <2>3
    <3>2. k # n BY <1>2, <3>1 DEF Labels, BeginsBlock
    <3>3. k \in 1..(n - 1) BY <1>2, <3>2, SMTT(30)
    <3> QED BY <1>2, <3>1, <3>3
  <2> QED BY <1>0, <2>1, <2>2, <2>3 DEF Owned
<1>17. LoopsNest(cells, con, parsing)
  <2>1. ASSUME NEW k \in 1..(n - 1), NEW p \in Labels(constructs[k])
        PROVE  p \in 2..free /\ cells[p].type = "label" /\ cells[p].name = "loop"
    <3>1. p \in 2..Len(stack) /\ stack[p].type = "label" /\ stack[p].name = "loop" /\ p <= free
      BY <1>0, <1>1, <1>2 DEF LoopsNest
    <3>2. p \in 2..free /\ p \in 1..free BY <1>0, <1>5, <3>1
    <3> QED BY <1>8, <3>1, <3>2
  <2>2. \A k, l \in 1..(n - 1) : \A p \in Labels(con[k]), q \in Labels(con[l]) : k < l => p < q
    BY <1>0, <1>2 DEF LoopsNest
  <2>3. \A k \in 1..(n - 1) : con[k].kind = "loop" => (con[k].symbol # None <=> parsing = "extract")
    BY <1>0, <1>2 DEF LoopsNest
  <2> QED BY <1>2, <1>8, <2>1, <2>2, <2>3 DEF LoopsNest
<1>18. \E lv \in [1..Len(con) -> Nat] : Levels(less, con, lv)
  <2>1. PICK lv \in [1..n -> Nat] : Levels(outer, constructs, lv) BY DEF Core
  <2> DEFINE low == [k \in 1..(n - 1) |-> lv[k]]
  <2>2. low \in [1..(n - 1) -> Nat] /\ \A k \in 1..(n - 1) : low[k] = lv[k] /\ lv[k] \in Nat
    BY <1>2, <2>1
  <2> HIDE DEF low
  <2>3. lv[n] = o BY <1>2, <2>1 DEF Levels
  <2>4. n - 1 > 0 => lv[n - 1] = o - 1
    <3> SUFFICES ASSUME n - 1 > 0 PROVE lv[n - 1] = o - 1
      OBVIOUS
    <3>1. n - 1 \in 1..(n - 1) /\ (n - 1) + 1 = n /\ lv[n - 1] \in Nat
      BY <1>2, <2>2
    <3>2. lv[(n - 1) + 1] = lv[n - 1] + IF BeginsBlock(constructs[(n - 1) + 1]) THEN 1 ELSE 0
      BY <2>1, <3>1 DEF Levels
    <3>3. lv[n] = lv[n - 1] + 1 BY <1>2, <3>1, <3>2
    <3> QED BY <1>3, <2>3, <3>1, <3>3
  <2>5. ASSUME NEW k \in 1..(n - 1)
        PROVE  low[k] \in 0..(o - 1) /\ (BeginsBlock(con[k]) => low[k] > 0)
    <3>1. lv[n - 1] = o - 1 /\ n - 1 \in 1..n BY <1>2, <2>4
    <3>2. lv[k] <= lv[n - 1]
      <4>1. CASE k = n - 1 BY <1>3, <2>2, <3>1, <4>1
      <4>2. CASE k # n - 1 BY <1>2, <2>1, <3>1, <4>2 DEF Levels
      <4> QED BY <4>1, <4>2
    <3>3. lv[k] \in Nat /\ (BeginsBlock(constructs[k]) => lv[k] > 0)
      BY <1>2, <2>1 DEF Levels
    <3> QED BY <1>2, <1>3, <2>2, <3>1, <3>2, <3>3
  <2>6. ASSUME NEW k \in 1..(Len(con) - 1)
        PROVE  low[k + 1] = low[k] + IF BeginsBlock(con[k + 1]) THEN 1 ELSE 0
    <3>1. k \in 1..(n - 1) /\ k + 1 \in 1..(n - 1) BY <1>2
    <3> QED BY <1>2, <2>1, <2>2, <3>1 DEF Levels
  <2>7. \A k, l \in 1..(n - 1) : k < l => low[k] <= low[l]
    BY <1>2, <2>1, <2>2 DEF Levels
  <2>8. ASSUME NEW k \in 1..(n - 1), NEW l \in 1..(n - 1), k < l, BeginsBlock(con[l])
        PROVE  con[k].symbol <= less[low[l]].free /\ \A p \in Labels(con[k]) : p <= less[low[l]].free
    <3>1. low[l] \in 1..(o - 1) BY <1>3, <2>5, <2>8
    <3>2. less[low[l]] = outer[lv[l]] BY <1>3, <2>2, <3>1
    <3>3. con[k] = constructs[k] /\ con[l] = constructs[l] /\ k \in 1..n /\ l \in 1..n
      BY <1>2
    <3>4. constructs[k].symbol <= outer[lv[l]].free /\ \A p \in Labels(constructs[k]) : p <= outer[lv[l]].free
      BY <2>1, <2>8, <3>3 DEF Levels
    <3> QED BY <3>2, <3>3, <3>4
  <2>9. Len(con) > 0 => low[Len(con)] = Len(less)
    <3> SUFFICES ASSUME n - 1 > 0 PROVE low[n - 1] = o - 1
      BY <1>2, <1>3
    <3>1. n - 1 \in 1..(n - 1) BY <1>2
    <3> QED BY <2>2, <2>4, <3>1
  <2>10. Levels(less, con, low)
    BY <1>2, <1>3, <2>5, <2>6, <2>7, <2>8, <2>9 DEF Levels
  <2> QED BY <1>2, <2>2, <2>10
<1>19. cells[1].type = "keyword" /\ Len(cells) >= 1 BY <1>0, <1>5, <1>8
<1>20. Descends(new) /\ new \in Seq(Int) BY <1>7 DEF new
<1>21. Core(cells, Len(ppm), new, b.frames, less, con, parsing)
  BY <1>0, <1>2, <1>3, <1>5, <1>8, <1>11, <1>12, <1>13, <1>14, <1>15, <1>16, <1>17, <1>18, <1>19, <1>20
  DEF Core
<1>22. Len(cells) <= Len(stack) BY <1>5, <1>8
<1> QED BY <1>1, <1>3, <1>21, <1>22 DEF cells, new, less, con, u, b

LEMMA OneElement ==
    ASSUME NEW x
    PROVE  /\ \A s : [i \in 1..1 |-> x] \o s = <<x>> \o s
           /\ [i \in 1..1 |-> x] = <<x>>
           /\ Reverse([i \in 1..1 |-> x]) = <<x>>
           /\ DOMAIN <<x>> = 1..1 /\ <<x>>[1] = x
<1>1. [i \in 1..1 |-> x] = <<x>> OBVIOUS
<1>2. Reverse(<<x>>) = [i \in 1..1 |-> x] BY DEF Reverse
<1> QED BY <1>1, <1>2

\* A file begins with the symbols of its project.
LEMMA FileEntered ==
    ASSUME Inv, NEW op, NEW m \in Nat, NEW tab \in Seq(Int), Good(tab, 1, m), Descends(tab),
           NEW yacc \in BOOLEAN
    PROVE  /\ Core(RecoveredCells(1), m, tab, <<>>,
                   IF yacc THEN <<[free |-> 1, frames |-> <<>>, isFileScope |-> FALSE]>> ELSE <<>>,
                   <<>>, op)
           /\ Len(RecoveredCells(1)) = 1
<1> DEFINE cells == RecoveredCells(1)
           b == [free |-> 1, frames |-> <<>>, isFileScope |-> FALSE]
           out == IF yacc THEN <<b>> ELSE <<>>
<1>0. stack \in Seq(Cell) /\ Len(stack) >= 1 /\ stack[1].type = "keyword" /\ Len(stack) \in Nat
  BY DEF Inv, Core
<1>1. stack[1] \in Cell /\ stack[1].members \in Nat
  <2>1. stack[1] \in Cell BY <1>0
  <2> QED BY <2>1 DEF Cell
<1>2. [stack[1] EXCEPT !.members = None] \in Cell
      /\ [stack[1] EXCEPT !.members = None].members = None
      /\ [stack[1] EXCEPT !.members = None].type = "keyword"
  BY <1>0, <1>1 DEF Cell, None
<1>3. /\ cells \in Seq(Cell) /\ Len(cells) = 1
      /\ cells[1].type = "keyword" /\ cells[1].members <= 1
  <2>1. cells = [i \in 1..1 |-> IF stack[i].members > 1 THEN [stack[i] EXCEPT !.members = None] ELSE stack[i]]
    BY DEF RecoveredCells
  <2>2. cells[1] = IF stack[1].members > 1 THEN [stack[1] EXCEPT !.members = None] ELSE stack[1]
    BY <2>1
  <2> DEFINE reset == [stack[1] EXCEPT !.members = None]
  <2>3. cells[1] \in Cell /\ cells[1].type = "keyword" /\ cells[1].members <= 1
    <3>1. reset \in Cell /\ reset.members <= 1 /\ reset.type = "keyword"
      BY <1>2 DEF None
    <3> HIDE DEF cells, reset
    <3>2. CASE stack[1].members > 1 BY <2>2, <3>1, <3>2 DEF reset
    <3>3. CASE ~(stack[1].members > 1)
      <4>1. cells[1] = stack[1] /\ stack[1].members <= 1 BY <1>1, <2>2, <3>3
      <4> QED BY <1>0, <1>1, <4>1
    <3> QED BY <3>2, <3>3
  <2>4. \A i \in 1..1 : i = 1 OBVIOUS
  <2>5. cells = [i \in 1..1 |-> cells[1]] BY <2>1, <2>2, <2>4
  <2> HIDE DEF cells
  <2>6. cells = <<cells[1]>> BY <2>5, OneElement
  <2> DEFINE x == cells[1]
  <2> HIDE DEF x
  <2>7. <<x>> \in Seq(Cell) /\ Len(<<x>>) = 1 BY <2>3 DEF x
  <2> QED BY <2>3, <2>6, <2>7 DEF x
<1> HIDE DEF cells
<1>4. b \in Block /\ b.free = 1 /\ b.frames = <<>> BY DEF Block
<1> HIDE DEF b
<1>5. out \in Seq(Block) /\ \A d \in 1..Len(out) : d = 1 /\ out[d] = b BY <1>4
<1> HIDE DEF out
<1>6. MembersStay(cells, out) BY <1>3, <1>4, <1>5 DEF MembersStay
<1>7. BlocksNest(out, <<>>, 1) BY <1>4, <1>5 DEF BlocksNest, Outside
<1>8. Levels(out, <<>>, [k \in 1..0 |-> 0]) BY DEF Levels
<1>9. FramesOf(cells, <<>>) /\ TagsStay(cells, out, <<>>) /\ LoopsNest(cells, <<>>, op)
  BY DEF FramesOf, TagsStay, LoopsNest
<1>10. Owned(tab, <<>>, <<>>) BY DEF Good, Owned
<1>11. \E lv \in [1..Len(<<>>) -> Nat] : Levels(out, <<>>, lv)
  <2>1. [k \in 1..0 |-> 0] \in [1..Len(<<>>) -> Nat] OBVIOUS
  <2> QED BY <1>8, <2>1
<1>12. Core(cells, m, tab, <<>>, out, <<>>, op)
  <2> DEFINE none == <<>>
  <2>1. none \in Seq(Frame) /\ none \in Seq(Construct) OBVIOUS
  <2>2. Good(tab, Len(cells), m) /\ BlocksNest(out, none, Len(cells)) /\ Len(cells) >= 1
    BY <1>3, <1>7
  <2>3. FramesOf(cells, none) /\ TagsStay(cells, out, none) /\ LoopsNest(cells, none, op)
        /\ Owned(tab, none, none) /\ \E lv \in [1..Len(none) -> Nat] : Levels(out, none, lv)
    BY <1>9, <1>10, <1>11
  <2> HIDE DEF none
  <2>4. Core(cells, m, tab, none, out, none, op)
    BY <1>3, <1>5, <1>6, <2>1, <2>2, <2>3 DEF Core
  <2> QED BY <2>4 DEF none
<1> QED BY <1>3, <1>12 DEF cells, out, b

-----------------------------------------------------------------------------
(* What the actions look up                                                *)

LEMMA FindFacts ==
    ASSUME Typed, Good(table, Len(stack), Len(ppm)), NEW name,
           Find("tag", name) # None
    PROVE  /\ Find("tag", name) \in 1..Len(stack)
           /\ stack[Find("tag", name)].type = "tag"
<1> DEFINE E == {i \in 1..Len(table) : SameSymbol(At(stack, table[i]), Symbol("tag", name, TRUE))}
           k == CHOOSE i \in E : \A j \in E : i <= j
<1>0. table \in Seq(Int) /\ ppm \in Seq(Macro) /\ Len(ppm) \in Nat /\ Len(stack) \in Nat
  BY DEF Typed
<1>1. DOMAIN table = 1..Len(table) BY <1>0
<1>2. Find("tag", name) = IF E = {} THEN None ELSE table[k] BY <1>1 DEF Find
<1>3. E \in SUBSET Nat /\ E # {}
  <2>1. E \in SUBSET Nat
    <3>1. \A i \in E : i \in 1..Len(table) OBVIOUS
    <3> HIDE DEF E
    <3>2. \A i \in E : i \in Nat BY <3>1
    <3> QED BY <3>2
  <2> HIDE DEF E
  <2>2. E # {} BY <1>2
  <2> QED BY <2>1, <2>2
<1> HIDE DEF E
<1>4. k \in E BY <1>3, Newest
<1> HIDE DEF k
<1>5. k \in 1..Len(table) /\ At(stack, table[k]).type = "tag"
  BY <1>4 DEF E, SameSymbol, Symbol
<1>6. table[k] \in Int /\ (table[k] \in 1..Len(stack) \/ -table[k] \in 1..Len(ppm))
  BY <1>0, <1>5 DEF Good
<1>7. table[k] > 0
  <2> SUFFICES ASSUME ~(table[k] > 0) PROVE FALSE
    OBVIOUS
  <2>1. -table[k] \in 1..Len(ppm) BY <1>0, <1>6
  <2>2. ppm[-table[k]] \in Macro BY <1>0, <2>1
  <2> QED BY <1>5, <2>2 DEF At, Macro
<1>8. table[k] \in 1..Len(stack) /\ stack[table[k]].type = "tag"
  BY <1>0, <1>5, <1>6, <1>7 DEF At
<1> QED BY <1>2, <1>3, <1>8

\* A definition goes on with a tag only if it is of the current block.
LEMMA FoundFacts ==
    ASSUME Inv, NEW name, ~TagIsNew(name, TRUE)
    PROVE  /\ Find("tag", name) \in 2..Len(stack)
           /\ \A d \in 1..Len(outer) : Find("tag", name) > outer[d].free
<1> DEFINE p == Find("tag", name)
<1>0. /\ Typed /\ Good(table, Len(stack), Len(ppm)) /\ outer \in Seq(Block) /\ stack[1].type = "keyword"
      /\ BlocksNest(outer, frames, Len(stack)) /\ Len(stack) \in Nat
  BY DEF Inv, Core, Typed
<1>1. p # None /\ ~IsFromPreviousBlock(p) BY DEF TagIsNew
<1>2. p \in 1..Len(stack) /\ stack[p].type = "tag" BY <1>0, <1>1, FindFacts
<1> HIDE DEF p
<1>3. p \in 2..Len(stack)
  <2>1. p # 1 BY <1>0, <1>2
  <2> QED BY <1>0, <1>2, <2>1
<1>4. ASSUME NEW d \in 1..Len(outer)
      PROVE  p > outer[d].free
  <2>1. outer # <<>> BY <1>4
  <2>2. Last(outer) = outer[Len(outer)] /\ Last(outer) \in Block /\ Len(outer) \in 1..Len(outer)
    BY <1>0, <2>1, FrontFacts
  <2>3. outer[d] \in Block BY <1>0
  <2>4. outer[d].free \in Nat /\ Last(outer).free \in Nat
    BY <2>2, <2>3 DEF Block
  <2>5. outer[d].free <= Last(outer).free
    <3>1. CASE d = Len(outer) BY <2>2, <2>4, <3>1
    <3>2. CASE d # Len(outer)
      <4>1. d < Len(outer) BY <1>0, <3>2
      <4> QED BY <1>0, <2>2, <4>1 DEF BlocksNest
    <3> QED BY <3>1, <3>2
  <2>6. ~(p <= Last(outer).free) BY <1>1, <1>2, <2>1 DEF IsFromPreviousBlock
  <2> QED BY <1>2, <2>4, <2>5, <2>6
<1> QED BY <1>3, <1>4 DEF p

LEMMA NoTags ==
    ASSUME Inv, constructs = <<>> \/ Last(constructs).kind # "tag"
    PROVE  \A k \in 1..Len(constructs) : constructs[k].kind # "tag"
<1>0. constructs \in Seq(Construct) /\ TagsStay(stack, outer, constructs)
  BY DEF Inv, Core
<1> SUFFICES ASSUME NEW k \in 1..Len(constructs), constructs[k].kind = "tag" PROVE FALSE
  OBVIOUS
<1>1. constructs # <<>> BY <1>0
<1>2. Last(constructs) = constructs[Len(constructs)] /\ Len(constructs) \in 1..Len(constructs)
  BY <1>0, <1>1, FrontFacts
<1>3. CASE k = Len(constructs) BY <1>1, <1>2, <1>3
<1>4. CASE k # Len(constructs)
  <2>1. k < Len(constructs) BY <1>0, <1>4
  <2> QED BY <1>0, <1>1, <1>2, <2>1 DEF TagsStay
<1> QED BY <1>3, <1>4

\* A symbol is allocated and declared.
LEMMA SymbolAdded ==
    ASSUME Inv, NEW name \in Names, NEW c \in Cell, c.type \in {"default", "tag"}, c.members = None,
           Push(<<c>>), AddToFrame(<<name>>)
    PROVE  /\ Core(stack', Len(ppm), table', frames', outer, constructs, parsing)
           /\ Len(stack') = Len(stack) + 1
           /\ \A d \in 1..Len(outer) : outer[d].free < Len(stack) + 1
<1> DEFINE n == Len(stack) + 1
           f == [do |-> "delete", symbol |-> n]
           more == Append(stack, c)
<1>0. stack \in Seq(Cell) /\ Len(stack) \in Nat /\ Len(stack) >= 1
      /\ Core(stack, Len(ppm), table, frames, outer, constructs, parsing)
  BY DEF Inv, Core
<1>1. stack' = more BY <1>0 DEF Push
<1>2. table' = <<n>> \o table /\ frames' = <<f>> \o frames
  <2>1. DOMAIN <<name>> = 1..1 BY OneElement
  <2>2. [i \in 1..1 |-> Len(stack) + i] = [i \in 1..1 |-> n] BY <1>0
  <2> DEFINE newest == Reverse([i \in 1..1 |-> n])
  <2>3. newest = <<n>> BY OneElement
  <2>4. [i \in DOMAIN newest |-> [do |-> "delete", symbol |-> newest[i]]] = [i \in 1..1 |-> f]
    BY <2>3, OneElement
  <2>5. [i \in 1..1 |-> f] \o frames = <<f>> \o frames BY OneElement
  <2>6. table' = newest \o table
        /\ frames' = [i \in DOMAIN newest |-> [do |-> "delete", symbol |-> newest[i]]] \o frames
    BY <2>1, <2>2 DEF AddToFrame
  <2> QED BY <2>3, <2>4, <2>5, <2>6
<1>3. /\ Core(more, Len(ppm), table, frames, outer, constructs, parsing)
      /\ Len(more) = n /\ more[n] = c
      /\ \A i \in 1..Len(table) : table[i] < n
      /\ \A i \in 1..Len(frames) : frames[i].symbol < n
      /\ \A d \in 1..Len(outer) : outer[d].free < n
  BY <1>0, CellAdded
<1>4. n > 1 BY <1>0
<1> HIDE DEF n, more
<1>5. Core(more, Len(ppm), <<n>> \o table, <<f>> \o frames, outer, constructs, parsing)
  BY <1>3, <1>4, PointerAdded
<1> QED BY <1>1, <1>2, <1>3, <1>5 DEF n

-----------------------------------------------------------------------------
(* The invariant, step by step                                             *)

LEMMA ParseStep ==
    ASSUME Inv, parsing # "no", parsing' = parsing, UNCHANGED kept,
           Core(stack', Len(ppm'), table', frames', outer', constructs', parsing),
           ppm' \in Seq(Macro), Len(ppm') >= Len(ppm), Len(ppm') <= PpmSize,
           isFileScope' \in BOOLEAN, Len(stack') < StackSize, Len(constructs') <= MaxNesting
    PROVE  Inv'
<1>1. Typed' BY DEF Inv, Typed, Core, kept
<1>2. Checkpoints'
  <2>1. clean.saved /\ clean' = clean /\ project' = project
    BY DEF Inv, Checkpoints, kept
  <2>2. project.ppm \in Nat /\ Len(ppm) \in Nat /\ Len(ppm') \in Nat /\ project.ppm <= Len(ppm)
    BY DEF Inv, Typed, Checkpoints, Checkpoint
  <2>3. project.ppm <= Len(ppm') BY <2>2
  <2>4. /\ clean.saved = project.saved
        /\ clean.free = 1 /\ clean.ppm = 0 /\ project.free = 1 /\ project.ppm <= 1
    BY <2>1 DEF Inv, Checkpoints
  <2> QED BY <2>1, <2>3, <2>4 DEF Checkpoints
<1> QED BY <1>1, <1>2 DEF Inv

LEMMA SymbolCell ==
    ASSUME NEW type \in {"default", "tag", "label", "member"}, NEW name \in Names \cup {"loop", "m"},
           NEW global \in BOOLEAN
    PROVE  /\ Symbol(type, name, global) \in Cell
           /\ Symbol(type, name, global).type = type
           /\ Symbol(type, name, global).name = name
           /\ Symbol(type, name, global).members = None
BY DEF Symbol, Cell, None

LEMMA KeptByDeclare ==
    ASSUME Inv, NEW name \in Names, Declare(name) \/ UseTag(name)
    PROVE  Inv'
<1>0. /\ parsing # "no" /\ Len(stack) + 1 < StackSize /\ Len(stack) \in Nat
      /\ UNCHANGED <<isFileScope, outer, ppm, kept, constructs, parsing>>
  <2>1. Len(stack) \in Nat BY DEF Inv, Typed
  <2>2. CASE Declare(name) BY <2>1, <2>2 DEF Declare, Room
  <2>3. CASE UseTag(name) BY <2>1, <2>3 DEF UseTag, Room
  <2> QED BY <2>2, <2>3
<1>1. PICK c \in Cell : /\ c.type \in {"default", "tag"} /\ c.members = None
                        /\ Push(<<c>>) /\ AddToFrame(<<name>>)
  <2>1. CASE Declare(name)
    <3> DEFINE outermost == ~Nested
    <3>1. outermost \in BOOLEAN BY Zenon
    <3>2. Push(<<Symbol("default", name, outermost)>>) /\ AddToFrame(<<name>>)
      BY <2>1 DEF Declare
    <3> HIDE DEF outermost
    <3>3. Symbol("default", name, outermost) \in Cell
          /\ Symbol("default", name, outermost).type = "default"
          /\ Symbol("default", name, outermost).members = None
      BY <3>1, SymbolCell
    <3> QED BY <3>2, <3>3
  <2>2. CASE UseTag(name)
    <3>1. Symbol("tag", name, TRUE) \in Cell
          /\ Symbol("tag", name, TRUE).type = "tag" /\ Symbol("tag", name, TRUE).members = None
      BY SymbolCell, ZenonT(30)
    <3> QED BY <2>2, <3>1 DEF UseTag
  <2> QED BY <2>1, <2>2
<1>2. /\ Core(stack', Len(ppm), table', frames', outer, constructs, parsing)
      /\ Len(stack') = Len(stack) + 1
  BY <1>1, SymbolAdded
<1>3. /\ ppm \in Seq(Macro) /\ Len(ppm) \in Nat /\ Len(ppm) <= PpmSize /\ isFileScope \in BOOLEAN
      /\ Len(constructs) <= MaxNesting
  BY DEF Inv, Typed
<1> QED BY <1>0, <1>2, <1>3, ParseStep

LEMMA ShortTypes ==
    ASSUME Inv
    PROVE  /\ stack \in Seq(Cell) /\ Len(stack) \in Nat /\ Len(stack) < StackSize /\ StackSize \in Nat
           /\ ppm \in Seq(Macro) /\ Len(ppm) \in Nat /\ Len(ppm) <= PpmSize
           /\ isFileScope \in BOOLEAN
           /\ constructs \in Seq(Construct) /\ Len(constructs) \in Nat
           /\ Len(constructs) <= MaxNesting /\ MaxNesting \in Nat
           /\ Core(stack, Len(ppm), table, frames, outer, constructs, parsing)
BY SymbolsAssumption DEF Inv, Typed

LEMMA KeptByBeginTag ==
    ASSUME Inv, NEW name \in Names, BeginTag(name)
    PROVE  Inv'
<1>0. /\ parsing # "no" /\ Len(stack) + 1 < StackSize /\ Len(constructs) < MaxNesting
      /\ UNCHANGED <<isFileScope, outer, ppm, kept, parsing>>
  BY DEF BeginTag, Room, MayOpen
<1>1. /\ ppm \in Seq(Macro) /\ Len(ppm) \in Nat /\ Len(ppm) <= PpmSize /\ isFileScope \in BOOLEAN
      /\ constructs \in Seq(Construct) /\ Len(constructs) \in Nat /\ MaxNesting \in Nat
      /\ Len(stack) \in Nat /\ Len(stack) < StackSize /\ StackSize \in Nat
      /\ Core(stack, Len(ppm), table, frames, outer, constructs, parsing)
  BY ShortTypes
<1>2. \E p : /\ constructs' = Append(constructs, [kind |-> "tag", symbol |-> p])
             /\ p \in 2..Len(stack') /\ \A d \in 1..Len(outer) : p > outer[d].free
             /\ Core(stack', Len(ppm), table', frames', outer, constructs, parsing)
             /\ Len(stack') < StackSize /\ Len(stack') \in Nat
  <2>1. CASE TagIsNew(name, TRUE)
    <3>1. Symbol("tag", name, TRUE) \in Cell
          /\ Symbol("tag", name, TRUE).type = "tag" /\ Symbol("tag", name, TRUE).members = None
      BY SymbolCell, ZenonT(30)
    <3>2. Push(<<Symbol("tag", name, TRUE)>>) /\ AddToFrame(<<name>>) /\ Begin("tag", Len(stack) + 1)
      BY <2>1 DEF BeginTag
    <3>3. /\ Core(stack', Len(ppm), table', frames', outer, constructs, parsing)
          /\ Len(stack') = Len(stack) + 1
          /\ \A d \in 1..Len(outer) : outer[d].free < Len(stack) + 1
      BY <3>1, <3>2, SymbolAdded
    <3>4. Len(stack) >= 1 BY <1>1 DEF Core
    <3>5. Len(stack) + 1 \in 2..Len(stack') /\ Len(stack') < StackSize /\ Len(stack') \in Nat
      BY <1>0, <1>1, <3>3, <3>4
    <3>6. \A d \in 1..Len(outer) : outer[d].free \in Nat
      <4>1. \A d \in 1..Len(outer) : outer[d] \in Block BY <1>1 DEF Core
      <4> QED BY <4>1 DEF Block
    <3>7. \A d \in 1..Len(outer) : Len(stack) + 1 > outer[d].free
      BY <1>1, <3>3, <3>6
    <3> QED BY <3>2, <3>3, <3>5, <3>7 DEF Begin
  <2>2. CASE ~TagIsNew(name, TRUE)
    <3>1. Begin("tag", Find("tag", name)) /\ UNCHANGED <<stack, frames, table>>
      BY <2>2 DEF BeginTag
    <3>2. /\ Find("tag", name) \in 2..Len(stack)
          /\ \A d \in 1..Len(outer) : Find("tag", name) > outer[d].free
      BY <2>2, FoundFacts
    <3> QED BY <1>1, <3>1, <3>2 DEF Begin
  <2> QED BY <2>1, <2>2
<1>3. PICK p : /\ constructs' = Append(constructs, [kind |-> "tag", symbol |-> p])
               /\ p \in 2..Len(stack') /\ \A d \in 1..Len(outer) : p > outer[d].free
               /\ Core(stack', Len(ppm), table', frames', outer, constructs, parsing)
               /\ Len(stack') < StackSize /\ Len(stack') \in Nat
  BY <1>2
<1> DEFINE c == [kind |-> "tag", symbol |-> p]
<1>4. c \in Construct /\ c.kind = "tag" /\ c.symbol = p /\ p <= Len(stack')
  BY <1>3 DEF Construct
<1> HIDE DEF c
<1>5. ~BeginsBlock(c) /\ Labels(c) = {} BY <1>4 DEF BeginsBlock, Labels
<1>6. Core(stack', Len(ppm), table', frames', outer, Append(constructs, c), parsing)
  BY <1>0, <1>3, <1>4, <1>5, ConstructBegun
<1>7. constructs' = Append(constructs, c) /\ Len(constructs') <= MaxNesting
  <2>1. constructs' = Append(constructs, c) BY <1>3 DEF c
  <2>2. Len(constructs') = Len(constructs) + 1 BY <1>1, <1>4, <2>1, AppendFacts
  <2> QED BY <1>0, <1>1, <2>1, <2>2
<1> QED BY <1>0, <1>1, <1>3, <1>6, <1>7, ParseStep

LEMMA KeptByEndTag ==
    ASSUME Inv, EndTag \/ EndEmptyTag
    PROVE  Inv'
<1> DEFINE tag == Last(constructs).symbol
           c == Symbol("member", "m", TRUE)
           grown == Append(stack, c)
           n == Len(stack) + 1
<1>0. /\ parsing # "no" /\ constructs # <<>> /\ Last(constructs).kind = "tag"
      /\ constructs' = Front(constructs)
      /\ UNCHANGED <<isFileScope, outer, table, ppm, kept, parsing>>
  BY DEF EndTag, EndEmptyTag, Inside, memory
<1>1. /\ ppm \in Seq(Macro) /\ Len(ppm) \in Nat /\ Len(ppm) <= PpmSize /\ isFileScope \in BOOLEAN
      /\ constructs \in Seq(Construct) /\ Len(constructs) \in Nat /\ Len(constructs) <= MaxNesting
      /\ MaxNesting \in Nat
      /\ Len(stack) \in Nat /\ Len(stack) < StackSize /\ StackSize \in Nat
      /\ Core(stack, Len(ppm), table, frames, outer, constructs, parsing)
  BY ShortTypes
<1>2. /\ ~BeginsBlock(Last(constructs)) /\ Labels(Last(constructs)) = {}
      /\ Len(Front(constructs)) <= MaxNesting
  <2>1. Len(Front(constructs)) = Len(constructs) - 1 BY <1>0, <1>1, FrontFacts
  <2> QED BY <1>0, <1>1, <2>1 DEF BeginsBlock, Labels
<1>3. tag \in 2..Len(stack) /\ \A d \in 1..Len(outer) : tag > outer[d].free
  <2>1. Last(constructs) = constructs[Len(constructs)] /\ Len(constructs) \in 1..Len(constructs)
    BY <1>0, <1>1, FrontFacts
  <2> QED BY <1>0, <1>1, <2>1 DEF Core, TagsStay
<1> HIDE DEF tag
<1>4. c \in Cell /\ c.members = None BY SymbolCell
<1> HIDE DEF c
<1>5. Core(grown, Len(ppm), table, frames, outer, constructs, parsing) /\ Len(grown) = n
  BY <1>1, <1>4, CellAdded
<1> HIDE DEF grown
<1>6. Core(stack', Len(ppm), table, frames', outer, constructs, parsing) /\ Len(stack') < StackSize
  <2>1. CASE EndEmptyTag BY <1>1, <2>1 DEF EndEmptyTag, memory
  <2>2. CASE EndTag /\ stack[tag].members # None
    <3>1. stack' = grown /\ frames' = frames /\ Len(stack) + 1 < StackSize
      BY <2>2 DEF EndTag, Room, tag, grown, c
    <3> QED BY <1>5, <3>1
  <2>3. CASE EndTag /\ stack[tag].members = None
    <3>1. /\ stack' = [grown EXCEPT ![tag].members = n] /\ Len(stack) + 1 < StackSize
          /\ frames' = <<[do |-> "null", symbol |-> tag]>> \o frames
      BY <2>3 DEF EndTag, Room, tag, grown, c
    <3>2. tag \in 2..Len(grown) /\ tag \in 1..Len(grown) BY <1>1, <1>3, <1>5
    <3>3. Core([grown EXCEPT ![tag].members = n], Len(ppm), table, frames, outer, constructs, parsing)
      <4>1. Core([grown EXCEPT ![tag].members = Len(grown)], Len(ppm), table, frames, outer,
                 constructs, parsing)
        BY <1>3, <1>5, <3>2, MembersSet
      <4> QED BY <1>5, <4>1
    <3>4. Len(stack') = n /\ tag \in 1..Len(stack')
      <4>1. grown \in Seq(Cell) BY <1>5 DEF Core
      <4>2. DOMAIN stack' = DOMAIN grown /\ stack' \in Seq(Cell)
        BY <3>1, <3>3, <4>1 DEF Core
      <4>3. Len(stack') = Len(grown) BY <4>1, <4>2
      <4> QED BY <1>5, <3>2, <4>3
    <3>5. Core(stack', Len(ppm), table, frames', outer, constructs, parsing)
      BY <3>1, <3>3, <3>4, NullAdded
    <3> QED BY <1>1, <3>1, <3>4, <3>5
  <2> QED BY <2>1, <2>2, <2>3
<1>7. Core(stack', Len(ppm), table, frames', outer, Front(constructs), parsing)
  BY <1>0, <1>2, <1>6, ConstructEnded
<1> QED BY <1>0, <1>1, <1>2, <1>6, <1>7, ParseStep

LEMMA KeptByMacro ==
    ASSUME Inv, NEW name \in Names, Define(name) \/ Undefine(name)
    PROVE  Inv'
<1>0. /\ parsing # "no" /\ Len(ppm) < PpmSize /\ PpmSize \in Nat
      /\ UNCHANGED <<stack, frames, isFileScope, outer, kept, constructs, parsing>>
  BY SymbolsAssumption DEF Define, Undefine
<1>1. /\ ppm \in Seq(Macro) /\ Len(ppm) \in Nat /\ isFileScope \in BOOLEAN
      /\ Len(constructs) <= MaxNesting /\ Len(stack) < StackSize
      /\ Core(stack, Len(ppm), table, frames, outer, constructs, parsing)
  BY ShortTypes
<1>2. PICK x \in BOOLEAN : PushMacro(name, x) BY DEF Define, Undefine
<1>3. [type |-> "macro", name |-> name, defined |-> x] \in Macro BY DEF Macro
<1>4. ppm' \in Seq(Macro) /\ Len(ppm') = Len(ppm) + 1
  BY <1>1, <1>2, <1>3, AppendFacts DEF PushMacro
<1>5. Core(stack, Len(ppm) + 1, <<-(Len(ppm) + 1)>> \o table, frames, outer, constructs, parsing)
  BY <1>1, MacroAdded
<1>6. Core(stack', Len(ppm'), table', frames', outer', constructs', parsing)
  BY <1>0, <1>2, <1>4, <1>5 DEF PushMacro
<1>7. Len(ppm') >= Len(ppm) /\ Len(ppm') <= PpmSize BY <1>0, <1>1, <1>4
<1> QED BY <1>0, <1>1, <1>4, <1>6, <1>7, ParseStep

LEMMA TwoAppended ==
    ASSUME NEW S, NEW s \in Seq(S), NEW x \in S
    PROVE  s \o <<x, x>> = Append(Append(s, x), x)
<1> DEFINE a == s \o <<x, x>>
           b == Append(Append(s, x), x)
<1>1. <<x, x>> \in Seq(S) /\ Len(<<x, x>>) = 2 /\ \A i \in 1..2 : <<x, x>>[i] = x
  OBVIOUS
<1>2. /\ a \in Seq(S) /\ Len(a) = Len(s) + 2 /\ Len(s) \in Nat
      /\ \A i \in 1..(Len(s) + 2) : a[i] = IF i <= Len(s) THEN s[i] ELSE x
  BY <1>1, ConcatFacts
<1>3. /\ b \in Seq(S) /\ Len(b) = Len(s) + 2
      /\ \A i \in 1..(Len(s) + 2) : b[i] = IF i <= Len(s) THEN s[i] ELSE x
  OBVIOUS
<1> HIDE DEF a, b
<1>4. a = b BY <1>2, <1>3
<1> QED BY <1>4 DEF a, b

LEMMA KeptByBeginLoop ==
    ASSUME Inv, BeginLoop
    PROVE  Inv'
<1> DEFINE n == Len(stack)
           l == Symbol("label", "loop", FALSE)
           one == Append(stack, l)
           two == Append(one, l)
<1>0. /\ parsing # "no" /\ Len(constructs) < MaxNesting
      /\ constructs # <<>> /\ Last(constructs).kind \in {"block", "loop"}
      /\ UNCHANGED <<frames, isFileScope, outer, ppm, kept, parsing>>
  BY DEF BeginLoop, Inside, MayOpen
<1>1. /\ ppm \in Seq(Macro) /\ Len(ppm) \in Nat /\ Len(ppm) <= PpmSize /\ isFileScope \in BOOLEAN
      /\ constructs \in Seq(Construct) /\ Len(constructs) \in Nat /\ MaxNesting \in Nat
      /\ stack \in Seq(Cell) /\ n \in Nat /\ n < StackSize /\ StackSize \in Nat
      /\ Core(stack, Len(ppm), table, frames, outer, constructs, parsing)
  BY ShortTypes
<1>2. \A k \in 1..Len(constructs) : constructs[k].kind # "tag" BY <1>0, NoTags
<1>3. PICK c : /\ c \in Construct /\ c.kind = "loop" /\ constructs' = Append(constructs, c)
               /\ c.symbol = IF parsing = "extract" THEN n + 1 ELSE None
  <2> DEFINE c == [kind |-> "loop", symbol |-> IF parsing = "extract" THEN n + 1 ELSE None]
  <2>1. c \in Construct /\ c.kind = "loop" /\ c.symbol = IF parsing = "extract" THEN n + 1 ELSE None
    BY <1>1 DEF Construct, None
  <2>2. constructs' = Append(constructs, c) BY DEF BeginLoop, Begin
  <2> QED BY <2>1, <2>2
<1>4. ~BeginsBlock(c) /\ c.symbol \in Nat BY <1>1, <1>3 DEF BeginsBlock, None
<1>5. Len(constructs') <= MaxNesting
  <2>1. Len(constructs') = Len(constructs) + 1 BY <1>1, <1>3, AppendFacts
  <2> QED BY <1>0, <1>1, <2>1
<1>6. CASE parsing # "extract"
  <2>1. stack' = stack /\ table' = table BY <1>6 DEF BeginLoop
  <2>2. c.symbol = None /\ Labels(c) = {} /\ c.symbol <= n
    BY <1>1, <1>3, <1>6 DEF Labels, None
  <2>3. Core(stack, Len(ppm), table, frames, outer, Append(constructs, c), parsing)
    BY <1>0, <1>1, <1>2, <1>3, <1>4, <1>6, <2>2, ConstructBegun
  <2> QED BY <1>0, <1>1, <1>3, <1>5, <2>1, <2>3, ParseStep
<1>7. CASE parsing = "extract"
  <2>1. /\ Push(<<l, l>>) /\ table' = <<n + 2, n + 1>> \o table /\ n + 2 < StackSize
    BY <1>7 DEF BeginLoop, Room
  <2>2. l \in Cell /\ l.type = "label" /\ l.name = "loop" /\ l.members = None
    BY SymbolCell
  <2> HIDE DEF l
  <2>3. stack' = two BY <1>1, <2>1, <2>2, TwoAppended DEF Push
  <2>4. /\ Core(one, Len(ppm), table, frames, outer, constructs, parsing)
        /\ Len(one) = n + 1 /\ one[n + 1] = l
        /\ \A i \in 1..Len(table) : table[i] < n + 1
    BY <1>1, <2>2, CellAdded
  <2>5. one \in Seq(Cell) BY <2>4 DEF Core
  <2> HIDE DEF one
  <2>6. /\ Core(two, Len(ppm), table, frames, outer, constructs, parsing)
        /\ Len(two) = n + 2 /\ two[n + 2] = l /\ two[n + 1] = l
    <3>1. /\ Core(two, Len(ppm), table, frames, outer, constructs, parsing)
          /\ Len(two) = Len(one) + 1 /\ two[Len(one) + 1] = l
      BY <2>2, <2>4, CellAdded
    <3>2. two[n + 1] = one[n + 1]
      <4>1. n + 1 \in 1..Len(one) BY <1>1, <2>4
      <4> QED BY <2>2, <2>5, <4>1, AppendFacts
    <3>3. Len(one) + 1 = n + 2 BY <1>1, <2>4
    <3> QED BY <2>4, <3>1, <3>2, <3>3
  <2> HIDE DEF two
  <2>7. c.symbol = n + 1 /\ Labels(c) = {n + 1, n + 2} /\ n >= 1
    <3>1. c.symbol = n + 1 /\ n >= 1 BY <1>1, <1>3, <1>7 DEF Core
    <3>2. n + 1 # None /\ (n + 1) + 1 = n + 2 BY <1>1 DEF None
    <3> QED BY <1>3, <3>1, <3>2 DEF Labels
  <2>8. \A p \in Labels(c) : p \in 2..Len(two) /\ two[p].type = "label" /\ two[p].name = "loop"
    BY <1>1, <2>2, <2>6, <2>7
  <2>9. \A k \in 1..Len(constructs) : \A p \in Labels(constructs[k]), q \in Labels(c) : p < q
    <3> SUFFICES ASSUME NEW k \in 1..Len(constructs), NEW p \in Labels(constructs[k]), NEW q \in Labels(c)
                 PROVE  p < q
      OBVIOUS
    <3>1. p \in 2..n BY <1>0, <1>1 DEF Core, LoopsNest
    <3> QED BY <1>1, <2>7, <3>1
  <2>10. Core(two, Len(ppm), table, frames, outer, Append(constructs, c), parsing)
    <3>1. c.symbol <= Len(two) /\ c.symbol # None BY <1>1, <2>6, <2>7 DEF None
    <3> QED
      BY <1>0, <1>2, <1>3, <1>4, <1>7, <2>6, <2>8, <2>9, <3>1, ConstructBegun
  <2>11. /\ Len(constructs) + 1 \in 1..Len(Append(constructs, c))
         /\ Append(constructs, c)[Len(constructs) + 1] = c
    <3>1. /\ Len(Append(constructs, c)) = Len(constructs) + 1
          /\ Append(constructs, c)[Len(constructs) + 1] = c
      BY <1>1, <1>3, AppendFacts
    <3> QED BY <1>1, <3>1
  <2>12. table \in Seq(Int) BY <1>1 DEF Core
  <2> DEFINE first == <<n + 1>> \o table
  <2>13. Core(two, Len(ppm), first, frames, outer, Append(constructs, c), parsing)
    <3>1. n + 1 \in 1..Len(two) /\ n + 1 \in Labels(c) BY <1>1, <2>6, <2>7
    <3> QED BY <2>4, <2>10, <2>11, <3>1, LabelAdded
  <2>14. \A i \in 1..Len(first) : first[i] < n + 2
    <3>1. /\ Len(first) = Len(table) + 1 /\ Len(table) \in Nat /\ first[1] = n + 1
          /\ \A i \in 1..(Len(table) + 1) : i # 1 => i - 1 \in 1..Len(table) /\ first[i] = table[i - 1]
      <4>1. n + 1 \in Int BY <1>1
      <4> QED BY <2>12, <4>1, PrependFacts
    <3> HIDE DEF first
    <3> SUFFICES ASSUME NEW i \in 1..Len(first) PROVE first[i] < n + 2
      OBVIOUS
    <3>2. CASE i = 1 BY <1>1, <3>1, <3>2
    <3>3. CASE i # 1
      <4>1. i - 1 \in 1..Len(table) /\ first[i] = table[i - 1] BY <3>1, <3>3
      <4>2. table[i - 1] < n + 1 /\ table[i - 1] \in Int BY <2>4, <2>12, <4>1
      <4> QED BY <1>1, <4>1, <4>2
    <3> QED BY <3>2, <3>3
  <2>15. Core(two, Len(ppm), <<n + 2>> \o first, frames, outer, Append(constructs, c), parsing)
    <3>1. n + 2 \in 1..Len(two) /\ n + 2 \in Labels(c) BY <1>1, <2>6, <2>7
    <3> QED BY <2>11, <2>13, <2>14, <3>1, LabelAdded
  <2>16. table' = <<n + 2>> \o first
    <3>1. <<n + 2, n + 1>> \o table = <<n + 2>> \o (<<n + 1>> \o table)
      BY SMTT(30), <1>1, <2>12
    <3> QED BY <2>1, <3>1
  <2>17. Len(stack') < StackSize BY <2>1, <2>3, <2>6
  <2>18. Core(stack', Len(ppm'), table', frames', outer', constructs', parsing)
    BY <1>0, <1>3, <2>3, <2>15, <2>16
  <2> QED BY <1>0, <1>1, <1>5, <2>17, <2>18, ParseStep
<1> QED BY <1>6, <1>7

LEMMA KeptByEndLoop ==
    ASSUME Inv, EndLoop
    PROVE  Inv'
<1>0. /\ parsing # "no" /\ constructs # <<>> /\ Last(constructs).kind = "loop"
      /\ constructs' = Front(constructs)
      /\ UNCHANGED <<stack, frames, isFileScope, outer, ppm, kept, parsing>>
  BY DEF EndLoop, Inside, memory
<1>1. /\ ppm \in Seq(Macro) /\ Len(ppm) \in Nat /\ Len(ppm) <= PpmSize /\ isFileScope \in BOOLEAN
      /\ constructs \in Seq(Construct) /\ Len(constructs) \in Nat /\ Len(constructs) <= MaxNesting
      /\ MaxNesting \in Nat /\ Len(stack) < StackSize
      /\ Core(stack, Len(ppm), table, frames, outer, constructs, parsing)
  BY ShortTypes
<1>2. Len(Front(constructs)) <= MaxNesting /\ Last(constructs) = constructs[Len(constructs)]
      /\ Len(constructs) \in 1..Len(constructs)
  <2>1. /\ Len(Front(constructs)) = Len(constructs) - 1 /\ Last(constructs) = constructs[Len(constructs)]
        /\ Len(constructs) \in 1..Len(constructs)
    BY <1>0, <1>1, FrontFacts
  <2> QED BY <1>1, <2>1
<1>3. Core(stack, Len(ppm), table', frames, outer, Front(constructs), parsing)
  <2>1. CASE parsing = "extract"
    <3>1. Typed BY DEF Inv
    <3>2. table' = Delete(Delete(table, stack, Last(constructs).symbol + 1), stack,
                          Last(constructs).symbol)
      BY <2>1 DEF EndLoop
    <3> QED BY <1>0, <1>1, <2>1, <3>1, <3>2, LabelsEnded
  <2>2. CASE parsing # "extract"
    <3>1. table' = table BY <2>2 DEF EndLoop
    <3>2. Last(constructs).symbol = None
      BY <1>0, <1>1, <1>2, <2>2 DEF Core, LoopsNest
    <3>3. Labels(Last(constructs)) = {} /\ ~BeginsBlock(Last(constructs))
      BY <1>0, <3>2 DEF Labels, BeginsBlock
    <3> QED BY <1>0, <1>1, <3>1, <3>3, ConstructEnded
  <2> QED BY <2>1, <2>2
<1> QED BY <1>0, <1>1, <1>2, <1>3, ParseStep

LEMMA KeptByBeginCompound ==
    ASSUME Inv, BeginCompound
    PROVE  Inv'
<1> DEFINE con == IF Inside({"function"})
                  THEN [constructs EXCEPT ![Len(constructs)].kind = "body"]
                  ELSE constructs
           c == [kind |-> "block", symbol |-> None]
<1>0. /\ parsing # "no" /\ Len(constructs) < MaxNesting
      /\ constructs # <<>> /\ Last(constructs).kind \in {"function", "block", "loop"}
      /\ outer' = Append(outer, CurrentBlock) /\ isFileScope' = FALSE
      /\ constructs' = Append(con, c)
      /\ UNCHANGED <<stack, frames, table, ppm, kept, parsing>>
  BY DEF BeginCompound, Inside, MayOpen, BeginBlock
<1>1. /\ ppm \in Seq(Macro) /\ Len(ppm) \in Nat /\ Len(ppm) <= PpmSize /\ isFileScope \in BOOLEAN
      /\ constructs \in Seq(Construct) /\ Len(constructs) \in Nat /\ MaxNesting \in Nat
      /\ Len(stack) \in Nat /\ Len(stack) < StackSize
      /\ Core(stack, Len(ppm), table, frames, outer, constructs, parsing)
  BY ShortTypes
<1>2. \A k \in 1..Len(constructs) : constructs[k].kind # "tag" BY <1>0, NoTags
<1>3. Last(constructs) = constructs[Len(constructs)] /\ Len(constructs) \in 1..Len(constructs)
  BY <1>0, <1>1, FrontFacts
<1>4. /\ Core(stack, Len(ppm), table, frames, outer, con, parsing)
      /\ Len(con) = Len(constructs) /\ \A k \in 1..Len(con) : con[k].kind # "tag"
  <2>1. CASE Inside({"function"})
    <3> DEFINE last == Len(constructs)
               changed == [constructs EXCEPT ![last].kind = "body"]
    <3>1. constructs[last].kind = "function" BY <1>0, <1>3, <2>1 DEF Inside
    <3>2. /\ Core(stack, Len(ppm), table, frames, outer, changed, parsing)
          /\ Len(changed) = Len(constructs)
          /\ \A k \in 1..Len(constructs) : changed[k].kind = IF k = last THEN "body" ELSE constructs[k].kind
      <4>1. last \in 1..Len(constructs) /\ constructs[last] \in Construct
        BY <1>1, <1>3
      <4>2. /\ [constructs[last] EXCEPT !.kind = "body"] \in Construct
            /\ [constructs[last] EXCEPT !.kind = "body"].kind = "body"
            /\ [constructs[last] EXCEPT !.kind = "body"].symbol = constructs[last].symbol
        BY <4>1 DEF Construct
      <4>3. changed \in Seq(Construct) /\ Len(changed) = Len(constructs)
        BY <1>1, <4>1, <4>2
      <4>4. \A k \in 1..Len(constructs) :
               changed[k] = IF k = last THEN [constructs[last] EXCEPT !.kind = "body"] ELSE constructs[k]
        BY <1>1
      <4> HIDE DEF last, changed
      <4>5. \A k \in 1..Len(constructs) :
               /\ changed[k].symbol = constructs[k].symbol
               /\ changed[k].kind = IF k = last THEN "body" ELSE constructs[k].kind
        BY <4>2, <4>4
      <4> QED BY <1>0, <1>1, <3>1, <4>3, <4>5, KindChanged
    <3>3. con = changed BY <2>1
    <3> HIDE DEF changed, con
    <3> QED BY <1>2, <3>2, <3>3
  <2>2. CASE ~Inside({"function"}) BY <1>1, <1>2, <2>2
  <2> QED BY <2>1, <2>2
<1>5. con \in Seq(Construct) BY <1>4 DEF Core
<1> HIDE DEF con
<1>6. c \in Construct /\ BeginsBlock(c) /\ c.symbol <= Len(stack)
  BY <1>1 DEF Construct, BeginsBlock, None
<1> HIDE DEF c
<1>7. Core(stack', Len(ppm'), table', frames', outer', constructs', parsing)
  <2>1. Core(stack, Len(ppm), table, frames, Append(outer, CurrentBlock), Append(con, c), parsing)
    BY <1>0, <1>1, <1>4, <1>6, BlockBegun DEF CurrentBlock
  <2> QED BY <1>0, <2>1
<1>8. Len(constructs') <= MaxNesting
  <2>1. Len(constructs') = Len(con) + 1 BY <1>0, <1>5, <1>6, AppendFacts
  <2> QED BY <1>0, <1>1, <1>4, <2>1
<1>9. /\ ppm' \in Seq(Macro) /\ Len(ppm') >= Len(ppm) /\ Len(ppm') <= PpmSize
      /\ isFileScope' \in BOOLEAN /\ Len(stack') < StackSize
  <2>1. ppm' = ppm /\ stack' = stack /\ isFileScope' = FALSE BY <1>0
  <2>2. Len(ppm) >= Len(ppm) BY <1>1
  <2> QED BY <1>1, <2>1, <2>2
<1> QED BY <1>0, <1>7, <1>8, <1>9, ParseStep

LEMMA KeptByEnd ==
    ASSUME Inv, EndFunction \/ EndCompound
    PROVE  Inv'
<1> DEFINE b == Last(outer)
           u == Unwind(b.frames)
<1>0. /\ parsing # "no" /\ constructs # <<>> /\ BeginsBlock(Last(constructs))
      /\ constructs' = Front(constructs)
      /\ EndBlock
      /\ UNCHANGED <<ppm, kept, parsing>>
  BY DEF EndFunction, EndCompound, Inside, BeginsBlock
<1>1. /\ ppm \in Seq(Macro) /\ Len(ppm) \in Nat /\ Len(ppm) <= PpmSize
      /\ constructs \in Seq(Construct) /\ Len(constructs) \in Nat /\ Len(constructs) <= MaxNesting
      /\ MaxNesting \in Nat /\ Len(stack) \in Nat /\ Len(stack) < StackSize /\ StackSize \in Nat
      /\ Core(stack, Len(ppm), table, frames, outer, constructs, parsing)
  BY ShortTypes
<1>2. Len(Front(constructs)) <= MaxNesting
  <2>1. Len(Front(constructs)) = Len(constructs) - 1 BY <1>0, <1>1, FrontFacts
  <2> QED BY <1>1, <2>1
<1>3. /\ Core(SubSeq(u.cells, 1, b.free), Len(ppm), u.table, b.frames, Front(outer),
              Front(constructs), parsing)
      /\ outer # <<>> /\ b \in Block /\ Len(SubSeq(u.cells, 1, b.free)) <= Len(stack)
  <2>1. Typed BY DEF Inv
  <2> QED BY <1>0, <1>1, <2>1, BlockEnded
<1>4. /\ stack' = SubSeq(u.cells, 1, b.free) /\ table' = u.table /\ frames' = b.frames
      /\ outer' = Front(outer) /\ isFileScope' = b.isFileScope
  BY <1>0 DEF EndBlock
<1> HIDE DEF u
<1>5. isFileScope' \in BOOLEAN BY <1>3, <1>4 DEF Block
<1>6. stack' \in Seq(Cell) /\ Len(stack') < StackSize
  <2>1. stack' \in Seq(Cell) /\ Len(stack') <= Len(stack) BY <1>3, <1>4 DEF Core
  <2>2. Len(stack') \in Nat BY <2>1
  <2> QED BY <1>1, <2>1, <2>2
<1> QED BY <1>0, <1>1, <1>2, <1>3, <1>4, <1>5, <1>6, ParseStep

LEMMA NoElement ==
    ASSUME NEW f
    PROVE  /\ DOMAIN <<>> = {}
           /\ [i \in {} |-> f] = <<>> /\ Reverse(<<>>) = <<>>
           /\ \A S : \A s \in Seq(S) : <<>> \o s = s /\ s \o <<>> = s
<1>1. DOMAIN <<>> = {} OBVIOUS
<1>2. [i \in {} |-> f] = <<>> OBVIOUS
<1>3. Reverse(<<>>) = <<>> BY DEF Reverse
<1>4. \A S : \A s \in Seq(S) : <<>> \o s = s /\ s \o <<>> = s OBVIOUS
<1> QED BY <1>1, <1>2, <1>3, <1>4

LEMMA BlockChanged ==
    ASSUME NEW b \in Block, NEW free, NEW fr
    PROVE  [b EXCEPT !.free = free, !.frames = fr] =
             [free |-> free, frames |-> fr, isFileScope |-> b.isFileScope]
<1> DEFINE One == [free : {free}, frames : {fr}, isFileScope : {b.isFileScope}]
<1>1. \A c \in One : c = [free |-> free, frames |-> fr, isFileScope |-> b.isFileScope]
  OBVIOUS
<1>2. [b EXCEPT !.free = free, !.frames = fr] \in One BY DEF Block
<1> QED BY <1>1, <1>2

LEMMA TwoPrepended ==
    ASSUME NEW S, NEW s \in Seq(S), NEW x \in S, NEW y \in S
    PROVE  <<x>> \o <<y>> \o s = <<x>> \o (<<y>> \o s)
<1> DEFINE one == <<x>> \o <<y>>
           a == one \o s
           rest == <<y>> \o s
           b == <<x>> \o rest
<1>1. one \in Seq(S) /\ Len(one) = 2 /\ one[1] = x /\ one[2] = y OBVIOUS
<1> HIDE DEF one
<1>2. /\ a \in Seq(S) /\ Len(a) = Len(s) + 2 /\ Len(s) \in Nat
      /\ \A i \in 1..(Len(s) + 2) : a[i] = IF i <= 2 THEN one[i] ELSE s[i - 2]
  <2>1. Len(s) \in Nat OBVIOUS
  <2>2. /\ a \in Seq(S) /\ Len(a) = Len(one) + Len(s)
        /\ \A i \in 1..(Len(one) + Len(s)) : a[i] = IF i <= Len(one) THEN one[i] ELSE s[i - Len(one)]
    BY <1>1, ConcatFacts
  <2>3. Len(one) + Len(s) = Len(s) + 2 BY <1>1, <2>1
  <2> HIDE DEF a
  <2> QED BY <1>1, <2>1, <2>2, <2>3
<1>3. /\ rest \in Seq(S) /\ Len(rest) = Len(s) + 1 /\ rest[1] = y
      /\ \A i \in 1..(Len(s) + 1) : i # 1 => rest[i] = s[i - 1]
  BY PrependFacts
<1> HIDE DEF rest
<1>4. /\ b \in Seq(S) /\ Len(b) = Len(rest) + 1 /\ b[1] = x
      /\ \A i \in 1..(Len(rest) + 1) : i # 1 => b[i] = rest[i - 1]
  BY <1>3, PrependFacts
<1> HIDE DEF a, b
<1>5. ASSUME NEW i \in 1..(Len(s) + 2) PROVE a[i] = b[i]
  <2>1. CASE i = 1 BY <1>1, <1>2, <1>4, <2>1
  <2>2. CASE i = 2
    <3>1. i \in 1..(Len(rest) + 1) /\ i - 1 = 1 BY <1>2, <1>3, <2>2
    <3> QED BY <1>1, <1>2, <1>3, <1>4, <2>2, <3>1
  <2>3. CASE i # 1 /\ i # 2
    <3>1. i \in 1..(Len(rest) + 1) /\ i - 1 \in 1..(Len(s) + 1) /\ i - 1 # 1 /\ (i - 1) - 1 = i - 2
          /\ ~(i <= 2)
      BY <1>2, <1>3, <2>3
    <3>2. b[i] = rest[i - 1] /\ rest[i - 1] = s[i - 2] BY <1>3, <1>4, <2>3, <3>1
    <3> QED BY <1>2, <3>1, <3>2
  <2> QED BY <2>1, <2>2, <2>3
<1>6. Len(b) = Len(s) + 2 BY <1>2, <1>3, <1>4
<1>7. a = b BY <1>2, <1>4, <1>5, <1>6
<1> QED BY <1>7 DEF a, b, one, rest

LEMMA KeptByBeginFunction ==
    ASSUME Inv, NEW name \in Names, NEW parameter \in Names,
           NEW parameters \in {<<>>, <<parameter>>}, BeginFunction(name, parameters)
    PROVE  Inv'
<1> DEFINE f == Len(stack) + 1
           outermost == ~Nested
           c == Symbol("default", name, outermost)
           x == Symbol("default", parameter, FALSE)
           df == [do |-> "delete", symbol |-> f]
           dx == [do |-> "delete", symbol |-> f + 1]
           cells == Append(stack, c)
           tab == <<f>> \o table
           fr == <<df>> \o frames
           b == [free |-> f, frames |-> fr, isFileScope |-> isFileScope]
           out == Append(outer, b)
           h == [kind |-> "function", symbol |-> f]
           con == Append(constructs, h)
           own == [i \in DOMAIN parameters |-> f + i]
           newest == Reverse(own)
           added == [i \in DOMAIN parameters |-> Symbol("default", parameters[i], FALSE)]
           actions == [i \in DOMAIN newest |-> [do |-> "delete", symbol |-> newest[i]]]
<1>0. /\ parsing # "no" /\ Len(constructs) < MaxNesting
      /\ f + Len(parameters) < StackSize
      /\ constructs = <<>> \/ Last(constructs).kind = "file"
      /\ UNCHANGED <<ppm, kept, parsing>>
  <2>1. /\ parsing # "no" /\ Len(constructs) < MaxNesting
        /\ Len(stack) + (1 + Len(parameters)) < StackSize
        /\ constructs = <<>> \/ Last(constructs).kind = "file"
        /\ UNCHANGED <<ppm, kept, parsing>>
    BY DEF BeginFunction, Inside, MayOpen, Room
  <2>2. Len(stack) \in Nat /\ Len(parameters) \in Nat BY ShortTypes
  <2> QED BY <2>1, <2>2
<1>1. /\ ppm \in Seq(Macro) /\ Len(ppm) \in Nat /\ Len(ppm) <= PpmSize /\ isFileScope \in BOOLEAN
      /\ constructs \in Seq(Construct) /\ Len(constructs) \in Nat /\ MaxNesting \in Nat
      /\ stack \in Seq(Cell) /\ Len(stack) \in Nat /\ Len(stack) < StackSize /\ StackSize \in Nat
      /\ Core(stack, Len(ppm), table, frames, outer, constructs, parsing)
  BY ShortTypes
<1>2. \A k \in 1..Len(constructs) : constructs[k].kind # "tag" BY <1>0, NoTags
<1>3. /\ stack' = cells \o added /\ table' = newest \o <<f>> \o table
      /\ outer' = Append(outer, [CurrentBlock EXCEPT !.free = f, !.frames = fr])
      /\ isFileScope' = FALSE /\ frames' = actions \o fr
      /\ constructs' = con
  BY DEF BeginFunction, Begin
<1>4. outer' = out
  <2>1. [CurrentBlock EXCEPT !.free = f, !.frames = fr] = b
    <3>1. CurrentBlock \in Block /\ CurrentBlock.isFileScope = isFileScope
      BY <1>1 DEF CurrentBlock, Block, Core
    <3> QED BY <3>1, BlockChanged
  <2> QED BY <1>3, <2>1
<1>5. c \in Cell /\ c.type = "default" /\ c.members = None
  <2>1. outermost \in BOOLEAN BY Zenon
  <2> HIDE DEF outermost
  <2> QED BY <2>1, SymbolCell
<1>6. x \in Cell /\ x.type = "default" /\ x.members = None
  BY SymbolCell, ZenonT(30)
<1> HIDE DEF c, x
<1>7. f \in Nat /\ f > 1
  <2>1. Len(stack) >= 1 BY <1>1 DEF Core
  <2> QED BY <1>1, <2>1
<1>8. /\ Core(cells, Len(ppm), table, frames, outer, constructs, parsing)
      /\ Len(cells) = f /\ cells[f] = c
      /\ \A i \in 1..Len(table) : table[i] < f
      /\ \A i \in 1..Len(frames) : frames[i].symbol < f
      /\ \A d \in 1..Len(outer) : outer[d].free < f
  BY <1>1, <1>5, CellAdded
<1>a. /\ table \in Seq(Int) /\ frames \in Seq(Frame) /\ cells \in Seq(Cell)
  BY <1>8 DEF Core
<1> HIDE DEF cells, f
<1>9. Core(cells, Len(ppm), tab, fr, outer, constructs, parsing)
  BY <1>5, <1>7, <1>8, PointerAdded
<1> HIDE DEF fr
<1>10. Core(cells, Len(ppm), tab, fr, out, con, parsing)
  <2>1. h \in Construct /\ BeginsBlock(h) /\ h.symbol <= Len(cells)
    BY <1>7, <1>8 DEF Construct, BeginsBlock
  <2> HIDE DEF h
  <2>2. b = [free |-> Len(cells), frames |-> fr, isFileScope |-> isFileScope]
    BY <1>8
  <2> QED BY <1>0, <1>1, <1>2, <1>9, <2>1, <2>2, BlockBegun
<1>11. Len(constructs') <= MaxNesting
  <2>1. h \in Construct BY <1>7 DEF Construct
  <2>2. Len(constructs') = Len(constructs) + 1 BY <1>1, <1>3, <2>1, AppendFacts
  <2> QED BY <1>0, <1>1, <2>2
<1>b. tab \in Seq(Int) /\ fr \in Seq(Frame)
  BY <1>10 DEF Core
<1> HIDE DEF tab, out, con
<1>c. isFileScope' \in BOOLEAN /\ ppm' = ppm /\ Len(ppm) >= Len(ppm)
  <2>1. isFileScope' = FALSE BY <1>3
  <2>2. isFileScope' \in BOOLEAN BY <2>1
  <2>3. ppm' = ppm BY <1>0
  <2>4. Len(ppm) >= Len(ppm) BY <1>1
  <2> QED BY <2>2, <2>3, <2>4
<1>12. CASE parameters = <<>>
  <2>1. own = <<>> /\ newest = <<>> /\ added = <<>> /\ actions = <<>>
    <3>1. DOMAIN parameters = {} BY <1>12, NoElement
    <3>2. own = <<>> /\ added = <<>> BY <3>1
    <3>3. newest = <<>> BY <3>2, NoElement
    <3>4. DOMAIN newest = {} BY <3>3, NoElement
    <3>5. actions = <<>> BY <3>4
    <3> QED BY <3>2, <3>3, <3>5
  <2> HIDE DEF newest, added, actions
  <2>2. newest \o <<f>> \o table = tab
    <3>1. <<f>> \in Seq(Int) BY <1>7
    <3>2. newest \o <<f>> = <<f>> BY <2>1, <3>1, NoElement
    <3> QED BY <3>2 DEF tab
  <2>3. stack' = cells /\ table' = tab /\ frames' = fr
    BY <1>3, <1>a, <1>b, <2>1, <2>2, NoElement
  <2>4. Len(stack') < StackSize
    <3>1. Len(parameters) = 0 BY <1>12
    <3> QED BY <1>0, <1>7, <1>8, <2>3, <3>1
  <2>5. Core(stack', Len(ppm'), table', frames', outer', constructs', parsing)
    BY <1>0, <1>3, <1>4, <1>10, <2>3
  <2> QED BY <1>0, <1>1, <1>11, <1>c, <2>4, <2>5, ParseStep
<1>13. CASE parameters = <<parameter>>
  <2>1. newest = <<f + 1>> /\ added = <<x>> /\ actions = <<dx>>
    <3>1. DOMAIN parameters = 1..1 /\ parameters[1] = parameter
      BY <1>13, OneElement
    <3>2. own = [i \in 1..1 |-> f + 1] BY <3>1
    <3>3. newest = <<f + 1>> BY <3>2, OneElement
    <3>4. added = [i \in 1..1 |-> x]
      <4>1. \A i \in DOMAIN parameters : Symbol("default", parameters[i], FALSE) = x
        <5>1. \A i \in DOMAIN parameters : parameters[i] = parameter BY <3>1
        <5> QED BY <5>1 DEF x
      <4> QED BY <3>1, <4>1
    <3>5. added = <<x>> BY <3>4, OneElement
    <3>6. DOMAIN newest = 1..1 /\ newest[1] = f + 1 BY <3>3, OneElement
    <3> HIDE DEF newest
    <3>7. actions = [i \in 1..1 |-> dx] BY <3>6
    <3>8. actions = <<dx>> BY <3>7, OneElement
    <3> QED BY <3>3, <3>5, <3>8
  <2> HIDE DEF newest, added, actions
  <2> DEFINE more == Append(cells, x)
             wider == <<f + 1>> \o tab
             longer == <<dx>> \o fr
  <2>2. stack' = more /\ table' = wider /\ frames' = longer
    <3>1. cells \o <<x>> = more BY <1>6, <1>a
    <3>2. <<f + 1>> \o <<f>> \o table = wider
      <4>1. f + 1 \in Int /\ f \in Int BY <1>7
      <4> QED BY <1>a, <4>1, TwoPrepended DEF tab
    <3> QED BY <1>3, <2>1, <3>1, <3>2
  <2>3. /\ Core(more, Len(ppm), tab, fr, out, con, parsing)
        /\ Len(more) = f + 1 /\ more[f + 1] = x
        /\ \A i \in 1..Len(tab) : tab[i] < f + 1
        /\ \A i \in 1..Len(fr) : fr[i].symbol < f + 1
        /\ \A d \in 1..Len(out) : out[d].free < f + 1
    BY <1>6, <1>8, <1>10, CellAdded
  <2> HIDE DEF more
  <2>4. Core(more, Len(ppm), wider, longer, out, con, parsing)
    <3> DEFINE p == f + 1
    <3>1. p > 1 BY <1>7
    <3> HIDE DEF p
    <3>2. Core(more, Len(ppm), <<p>> \o tab, <<[do |-> "delete", symbol |-> p]>> \o fr, out, con, parsing)
      BY <1>6, <2>3, <3>1, PointerAdded DEF p
    <3> QED BY <3>2 DEF p
  <2> HIDE DEF wider, longer
  <2>5. Len(stack') < StackSize
    <3>1. Len(parameters) = 1 BY <1>13
    <3> QED BY <1>0, <1>7, <2>2, <2>3, <3>1
  <2>6. Core(stack', Len(ppm'), table', frames', outer', constructs', parsing)
    BY <1>0, <1>3, <1>4, <2>2, <2>4
  <2> QED BY <1>0, <1>1, <1>11, <1>c, <2>5, <2>6, ParseStep
<1> QED BY <1>12, <1>13

LEMMA KeptByStopParsing ==
    ASSUME Inv, StopParsing
    PROVE  Inv'
<1>0. /\ parsing # "no" /\ parsing' = "no" /\ constructs' = <<>>
      /\ stack' = stack /\ frames' = frames /\ isFileScope' = isFileScope /\ outer' = outer
      /\ ppm' = ppm /\ table' = table /\ clean' = clean /\ project' = project
  BY DEF StopParsing, memory, kept
<1>1. Len(constructs') = 0 /\ constructs' \in Seq(Construct) BY <1>0
<1>2. Typed' BY <1>0, <1>1, SymbolsAssumption DEF Inv, Typed
<1>3. Checkpoints' BY <1>0 DEF Inv, Checkpoints
<1>4. TagsStay(stack, outer, constructs') BY <1>1 DEF TagsStay
<1>5. Core(stack, Len(ppm), table, frames, outer, constructs', "no")
  BY <1>1, <1>4 DEF Inv, Core
<1> QED BY <1>0, <1>2, <1>3, <1>5 DEF Inv

LEMMA FileStep ==
    ASSUME Inv, parsing = "no", NEW operation \in Operations, NEW yacc \in BOOLEAN,
           stack' = RecoveredCells(1), EnterFile(1, operation, yacc),
           ppm' \in Seq(Macro), Len(ppm') <= PpmSize,
           table' \in Seq(Int), Good(table', 1, Len(ppm')), Descends(table'),
           clean' \in Checkpoint, clean'.saved, clean'.free = 1, clean'.ppm = 0,
           project' \in Checkpoint, project'.saved, project'.free = 1, project'.ppm <= 1,
           project'.ppm <= Len(ppm')
    PROVE  Inv'
<1> DEFINE m == Len(ppm')
           out == IF yacc THEN <<[free |-> 1, frames |-> <<>>, isFileScope |-> FALSE]>> ELSE <<>>
<1>0. /\ frames' = <<>> /\ isFileScope' = yacc /\ outer' = out
      /\ parsing' = operation /\ constructs' = <<>>
  BY DEF EnterFile, Inv, Checkpoints
<1>1. m \in Nat OBVIOUS
<1> HIDE DEF m
<1>2. /\ Core(RecoveredCells(1), m, table', <<>>, out, <<>>, operation)
      /\ Len(RecoveredCells(1)) = 1
  BY <1>1, FileEntered DEF m
<1> HIDE DEF out
<1>3. Core(stack', Len(ppm'), table', frames', outer', constructs', parsing')
  BY <1>0, <1>2 DEF m
<1>4. Typed'
  <2>1. /\ stack' \in Seq(Cell) /\ table' \in Seq(Int) /\ frames' \in Seq(Frame) /\ outer' \in Seq(Block)
        /\ constructs' \in Seq(Construct)
    BY <1>3 DEF Core
  <2>2. Len(stack') = 1 /\ 1 < StackSize /\ Len(constructs') = 0 /\ 0 <= MaxNesting
    BY <1>0, <1>2, SymbolsAssumption
  <2>3. isFileScope' \in BOOLEAN /\ parsing' \in {"no"} \cup Operations BY <1>0
  <2>4. Len(stack') < StackSize /\ Len(constructs') <= MaxNesting BY <2>2
  <2> QED BY <2>1, <2>3, <2>4 DEF Typed
<1>5. Checkpoints' BY <1>0 DEF Checkpoints
<1> QED BY <1>3, <1>4, <1>5 DEF Inv

LEMMA KeptByNextFile ==
    ASSUME Inv, NEW operation \in Operations, NEW yacc \in BOOLEAN, NextFile(operation, yacc)
    PROVE  Inv'
<1> DEFINE m == project.ppm
<1>0. /\ parsing = "no" /\ project.saved
      /\ clean.saved /\ clean.free = 1 /\ clean.ppm = 0 /\ project.free = 1 /\ project.ppm <= 1
      /\ project.ppm <= Len(ppm)
  BY DEF NextFile, Inv, Checkpoints
<1>1. /\ table' = Recovered(1, m) /\ stack' = RecoveredCells(1) /\ ppm' = SubSeq(ppm, 1, m)
      /\ EnterFile(1, operation, yacc) /\ clean' = clean /\ project' = project
  BY <1>0 DEF NextFile, kept
<1>2. /\ ppm \in Seq(Macro) /\ Len(ppm) \in Nat /\ Len(ppm) <= PpmSize /\ PpmSize \in Nat
      /\ clean \in Checkpoint /\ project \in Checkpoint
      /\ Typed /\ Descends(table) /\ Good(table, Len(stack), Len(ppm))
  BY SymbolsAssumption DEF Inv, Typed, Core
<1>3. m \in Nat BY <1>2 DEF Checkpoint
<1>4. ppm' \in Seq(Macro) /\ Len(ppm') = m
  <2> HIDE DEF m
  <2>1. 1 \in 1..(Len(ppm) + 1) /\ m \in (1 - 1)..Len(ppm) /\ m - 1 + 1 = m
    BY <1>0, <1>2, <1>3 DEF m
  <2>2. SubSeq(ppm, 1, m) \in Seq(Macro) /\ Len(SubSeq(ppm, 1, m)) = m - 1 + 1
    BY <1>2, <2>1, SubSeqFacts
  <2> QED BY <1>1, <2>1, <2>2
<1>5. table' \in Seq(Int) /\ Descends(table') /\ Good(table', 1, Len(ppm'))
  <2>1. 1 \in Nat OBVIOUS
  <2> HIDE DEF m
  <2>2. Recovered(1, m) \in Seq(Int) /\ Descends(Recovered(1, m)) /\ Good(Recovered(1, m), 1, m)
    BY <1>2, <1>3, <2>1, RecoveredFacts
  <2> QED BY <1>1, <1>4, <2>2
<1>6. Len(ppm') <= PpmSize /\ project'.ppm <= Len(ppm')
  BY <1>0, <1>1, <1>2, <1>3, <1>4
<1> QED BY <1>0, <1>1, <1>2, <1>4, <1>5, <1>6, FileStep

LEMMA KeptByNextProject ==
    ASSUME Inv, NEW name, NEW defines \in {<<>>, <<name>>}, defines # <<>> => name \in Names,
           NEW operation \in Operations, NEW yacc \in BOOLEAN,
           NextProject(defines, operation, yacc)
    PROVE  Inv'
<1> DEFINE from == IF clean.saved THEN clean
                   ELSE [saved |-> TRUE, free |-> Len(stack), ppm |-> Len(ppm)]
           macro == [type |-> "macro", name |-> name, defined |-> TRUE]
           macros == [i \in DOMAIN defines |-> [type |-> "macro", name |-> defines[i], defined |-> TRUE]]
           pointers == [i \in DOMAIN defines |-> -(from.ppm + i)]
           old == Recovered(1, 0)
<1>0. /\ ppm \in Seq(Macro) /\ PpmSize \in Nat /\ PpmSize > 0 /\ clean \in Checkpoint
      /\ Typed /\ Descends(table) /\ Good(table, Len(stack), Len(ppm))
  BY SymbolsAssumption DEF Inv, Typed, Core
<1>1. from \in Checkpoint /\ from.saved /\ from.free = 1 /\ from.ppm = 0
  <2>1. CASE clean.saved BY <1>0, <2>1 DEF Inv, Checkpoints
  <2>2. CASE ~clean.saved
    <3>1. Len(stack) = 1 /\ ppm = <<>> BY <2>2 DEF Inv, Checkpoints
    <3>2. Len(ppm) = 0 BY <3>1
    <3>3. from = [saved |-> TRUE, free |-> 1, ppm |-> 0] BY <2>2, <3>1, <3>2
    <3> HIDE DEF from
    <3> QED BY <3>3 DEF Checkpoint
  <2> QED BY <2>1, <2>2
<1>2. /\ parsing = "no" /\ clean' = from /\ stack' = RecoveredCells(from.free)
      /\ ppm' = SubSeq(ppm, 1, from.ppm) \o macros
      /\ table' = Reverse(pointers) \o Recovered(from.free, from.ppm)
      /\ project' = [saved |-> TRUE, free |-> from.free, ppm |-> from.ppm + Len(defines)]
      /\ EnterFile(from.free, operation, yacc)
  BY DEF NextProject
<1> HIDE DEF from
<1>3. SubSeq(ppm, 1, 0) = <<>>
  <2>1. Len(SubSeq(ppm, 1, 0)) = 0 /\ SubSeq(ppm, 1, 0) \in Seq(Macro) BY <1>0
  <2> QED BY <2>1
<1>4. /\ stack' = RecoveredCells(1) /\ ppm' = <<>> \o macros /\ table' = Reverse(pointers) \o old
      /\ project' = [saved |-> TRUE, free |-> 1, ppm |-> 0 + Len(defines)]
      /\ EnterFile(1, operation, yacc)
  BY <1>1, <1>2, <1>3
<1>5. old \in Seq(Int) /\ Descends(old) /\ Good(old, 1, 0)
  <2>1. 1 \in Nat /\ 0 \in Nat OBVIOUS
  <2> QED BY <1>0, <2>1, RecoveredFacts
<1> HIDE DEF old
<1>6. CASE defines = <<>>
  <2>1. DOMAIN defines = {} /\ Len(defines) = 0 BY <1>6, NoElement
  <2>2. macros = <<>> /\ pointers = <<>> BY <2>1
  <2> HIDE DEF macros, pointers
  <2>3. Reverse(pointers) = <<>> BY <2>2, NoElement
  <2>4. table' = old /\ ppm' = <<>>
    <3>1. <<>> \in Seq(Macro) OBVIOUS
    <3> QED BY <1>4, <1>5, <2>2, <2>3, <3>1, NoElement
  <2>5. ppm' \in Seq(Macro) /\ Len(ppm') = 0 /\ Len(ppm') <= PpmSize
    BY <1>0, <2>4
  <2>6. project' \in Checkpoint /\ project'.saved /\ project'.free = 1 /\ project'.ppm = 0
    BY <1>4, <2>1 DEF Checkpoint
  <2>7. project'.ppm <= 1 /\ project'.ppm <= Len(ppm') BY <2>5, <2>6
  <2>8. Good(table', 1, Len(ppm')) /\ table' \in Seq(Int) /\ Descends(table')
    BY <1>5, <2>4, <2>5
  <2> QED BY <1>1, <1>2, <1>4, <2>5, <2>6, <2>7, <2>8, FileStep
<1>7. CASE defines = <<name>>
  <2>1. DOMAIN defines = 1..1 /\ Len(defines) = 1 /\ \A i \in DOMAIN defines : defines[i] = name
    <3>1. Len(defines) = 1 /\ DOMAIN defines = 1..1 /\ defines[1] = name
      BY <1>7, OneElement
    <3> QED BY <3>1
  <2>2. macros = [i \in 1..1 |-> macro] /\ pointers = [i \in 1..1 |-> -1]
    <3>1. \A i \in DOMAIN defines : [type |-> "macro", name |-> defines[i], defined |-> TRUE] = macro
      BY <2>1
    <3>2. \A i \in 1..1 : -(from.ppm + i) = -1 BY <1>1
    <3> QED BY <2>1, <3>1, <3>2
  <2> HIDE DEF macros, pointers
  <2>3. macros = <<macro>> /\ Reverse(pointers) = <<-1>> BY <2>2, OneElement
  <2>4. macro \in Macro
    <3>1. name \in Names BY <1>7
    <3> QED BY <3>1 DEF Macro
  <2> HIDE DEF macro
  <2>5. ppm' \in Seq(Macro) /\ Len(ppm') = 1 /\ Len(ppm') <= PpmSize
    <3>1. <<macro>> \in Seq(Macro) /\ Len(<<macro>>) = 1 BY <2>4
    <3>2. ppm' = <<macro>> BY <1>4, <2>3, <3>1, NoElement
    <3>3. 1 <= PpmSize BY <1>0
    <3> QED BY <3>1, <3>2, <3>3
  <2>6. project' \in Checkpoint /\ project'.saved /\ project'.free = 1 /\ project'.ppm = 1
    BY <1>4, <2>1 DEF Checkpoint
  <2>7. project'.ppm <= 1 /\ project'.ppm <= Len(ppm') BY <2>5, <2>6
  <2>8. Good(table', 1, Len(ppm')) /\ table' \in Seq(Int) /\ Descends(table')
    <3>1. Good(old, 1, 1) BY <1>5 DEF Good
    <3>2. PICK p \in Int : p = -1 OBVIOUS
    <3>3. -p \in 1..1 /\ ~(p > 0) /\ 1 \in Nat
      <4>1. p + 1 = 0 BY <3>2, SMT
      <4>2. -p = 1 BY <4>1, SMT
      <4>3. ~(p > 0) BY <4>1, SMT
      <4> QED BY <4>2, <4>3
    <3>4. <<p>> \o old \in Seq(Int) /\ Good(<<p>> \o old, 1, 1) /\ Descends(<<p>> \o old)
      BY <1>5, <3>1, <3>3, TablePrepended
    <3> QED BY <1>4, <2>3, <2>5, <3>2, <3>4
  <2> QED BY <1>1, <1>2, <1>4, <2>5, <2>6, <2>7, <2>8, FileStep
<1> QED BY <1>6, <1>7

LEMMA InvInit == Init => Inv
<1> SUFFICES ASSUME Init PROVE Inv
  OBVIOUS
<1>0. /\ stack = <<Keyword>> /\ table = <<1>> /\ frames = <<>> /\ isFileScope = FALSE /\ outer = <<>>
      /\ ppm = <<>> /\ clean = Unsaved /\ project = Unsaved /\ constructs = <<>> /\ parsing = "no"
  BY DEF Init
<1>1. Keyword \in Cell /\ Keyword.type = "keyword" /\ Keyword.members = 0
  BY DEF Keyword, Symbol, Cell, None
<1>2. Unsaved \in Checkpoint /\ ~Unsaved.saved /\ Unsaved.ppm = 0
  BY DEF Unsaved, Checkpoint
<1> HIDE DEF Keyword, Unsaved
<1>3. stack \in Seq(Cell) /\ Len(stack) = 1 /\ stack[1] = Keyword BY <1>0, <1>1
<1>4. table \in Seq(Int) /\ Len(table) = 1 /\ table[1] = 1 BY <1>0
<1>5. /\ frames \in Seq(Frame) /\ Len(frames) = 0 /\ outer \in Seq(Block) /\ Len(outer) = 0
      /\ ppm \in Seq(Macro) /\ Len(ppm) = 0 /\ constructs \in Seq(Construct) /\ Len(constructs) = 0
  BY <1>0
<1>6. Typed
  <2>1. Len(stack) < StackSize /\ Len(ppm) <= PpmSize /\ Len(constructs) <= MaxNesting
    BY <1>3, <1>5, SymbolsAssumption
  <2>2. clean \in Checkpoint /\ project \in Checkpoint /\ isFileScope \in BOOLEAN /\ parsing = "no"
    BY <1>0, <1>2
  <2> QED BY <1>3, <1>4, <1>5, <2>1, <2>2 DEF Typed
<1>7. Checkpoints BY <1>0, <1>2, <1>3, <1>5 DEF Checkpoints
<1>8. Good(table, 1, 0) /\ Descends(table) BY <1>4 DEF Good, Descends
<1>9. MembersStay(stack, outer) BY <1>1, <1>3, <1>5 DEF MembersStay
<1>10. FramesOf(stack, frames) /\ BlocksNest(outer, frames, Len(stack)) /\ TagsStay(stack, outer, constructs)
  BY <1>5 DEF FramesOf, BlocksNest, TagsStay
<1>11. Core(stack, Len(ppm), table, frames, outer, constructs, parsing)
  BY <1>0, <1>1, <1>3, <1>4, <1>5, <1>8, <1>9, <1>10 DEF Core
<1> QED BY <1>6, <1>7, <1>11 DEF Inv

LEMMA InvNext == Inv /\ [Next]_vars => Inv'
<1> SUFFICES ASSUME Inv, [Next]_vars PROVE Inv'
  OBVIOUS
<1>1. ASSUME NEW name \in Names, Declare(name) PROVE Inv' BY <1>1, KeptByDeclare
<1>2. ASSUME NEW name \in Names, UseTag(name) PROVE Inv' BY <1>2, KeptByDeclare
<1>3. ASSUME NEW name \in Names, BeginTag(name) PROVE Inv'
  BY <1>3, KeptByBeginTag
<1>4. ASSUME NEW name \in Names, Define(name) PROVE Inv' BY <1>4, KeptByMacro
<1>5. ASSUME NEW name \in Names, Undefine(name) PROVE Inv' BY <1>5, KeptByMacro
<1>6. ASSUME NEW name \in Names, NEW parameters \in {<<>>, <<name>>}, NEW f \in Names,
             BeginFunction(f, parameters)
      PROVE  Inv'
  BY <1>6, KeptByBeginFunction
<1>7. CASE EndFunction BY <1>7, KeptByEnd
<1>8. CASE BeginCompound BY <1>8, KeptByBeginCompound
<1>9. CASE EndCompound BY <1>9, KeptByEnd
<1>10. CASE BeginLoop BY <1>10, KeptByBeginLoop
<1>11. CASE EndLoop BY <1>11, KeptByEndLoop
<1>12. CASE EndTag BY <1>12, KeptByEndTag
<1>13. CASE EndEmptyTag BY <1>13, KeptByEndTag
<1>14. CASE StopParsing BY <1>14, KeptByStopParsing
<1>15. ASSUME NEW operation \in Operations, NEW yacc \in BOOLEAN, NextFile(operation, yacc)
       PROVE  Inv'
  BY <1>15, KeptByNextFile
<1>16. ASSUME NEW operation \in Operations, NEW yacc \in BOOLEAN,
              NEW defines \in {<<>>} \cup {<<name>> : name \in Names},
              NextProject(defines, operation, yacc)
       PROVE  Inv'
  <2>1. CASE defines = <<>>
    <3>1. defines \in {<<>>, <<0>>} BY <2>1
    <3> QED BY <1>16, <2>1, <3>1, KeptByNextProject
  <2>2. CASE \E name \in Names : defines = <<name>>
    <3>1. PICK name \in Names : defines = <<name>> BY <2>2
    <3>2. defines \in {<<>>, <<name>>} BY <3>1
    <3> QED BY <1>16, <3>2, KeptByNextProject
  <2> QED BY <1>16, <2>1, <2>2
<1>17. CASE UNCHANGED vars
  BY <1>17 DEF vars, memory, kept, Inv, Typed, Checkpoints, Core
<1> QED
  BY <1>1, <1>2, <1>3, <1>4, <1>5, <1>6, <1>7, <1>8, <1>9, <1>10, <1>11, <1>12, <1>13, <1>14, <1>15,
     <1>16, <1>17 DEF Next

-----------------------------------------------------------------------------
(* The theorems                                                            *)

LEMMA AlwaysInv == Spec => []Inv
<1>1. Inv /\ [Next]_vars => Inv' BY InvNext
<1> QED BY InvInit, <1>1, PTL DEF Spec

(* StackSize and PpmSize are never exceeded: stackMemory keeps a cell free  *)
(* and every pointer in symbolTable is into one of the two memories,       *)
(* whatever is parsed, in whatever order, and wherever a parse stops.      *)
THEOREM SymbolsTyped == Spec => []TypeOK
<1>1. Inv => TypeOK
  <2> SUFFICES ASSUME Inv PROVE TypeOK
    OBVIOUS
  <2>0. /\ Typed /\ Good(table, Len(stack), Len(ppm))
        /\ stack \in Seq(Cell) /\ ppm \in Seq(Macro) /\ table \in Seq(Int)
        /\ StackSize \in Nat /\ PpmSize \in Nat
    BY SymbolsAssumption DEF Inv, Core, Typed
  <2>1. ASSUME NEW i \in DOMAIN table
        PROVE  -PpmSize <= table[i] /\ table[i] < StackSize /\ table[i] # None
    <3>1. table[i] \in Int /\ (table[i] \in 1..Len(stack) \/ -table[i] \in 1..Len(ppm))
      BY <2>0 DEF Good
    <3>2. Len(stack) \in Nat /\ Len(stack) < StackSize /\ Len(ppm) \in Nat /\ Len(ppm) <= PpmSize
      BY <2>0 DEF Typed
    <3> QED BY <2>0, <3>1, <3>2, SMT DEF None
  <2>2. ASSUME NEW i \in DOMAIN frames PROVE frames[i].do \in {"delete", "null"}
    <3>1. frames[i] \in Frame BY <2>0 DEF Typed
    <3> QED BY <3>1 DEF Frame
  <2>3. isFileScope \in BOOLEAN /\ clean.saved \in BOOLEAN /\ project.saved \in BOOLEAN
    BY <2>0 DEF Typed, Checkpoint
  <2> QED BY <2>0, <2>1, <2>2, <2>3 DEF Typed, TypeOK
<1> QED BY AlwaysInv, <1>1, PTL

(* No pointer is left into memory that endBlock(), a loop's end or         *)
(* initializeFileProcessing() has freed: in a bucket chain, in a tag's     *)
(* members, in a frame's argument, in what a construct will be ended with. *)
THEOREM NothingIsLeftDangling == Spec => []NothingDangles
<1>1. Inv => NothingDangles
  <2> SUFFICES ASSUME Inv PROVE NothingDangles
    OBVIOUS
  <2>0. /\ Good(table, Len(stack), Len(ppm)) /\ MembersStay(stack, outer)
        /\ FramesOf(stack, frames) /\ TagsStay(stack, outer, constructs)
        /\ stack \in Seq(Cell) /\ ppm \in Seq(Macro) /\ table \in Seq(Int)
        /\ frames \in Seq(Frame) /\ constructs \in Seq(Construct)
    BY DEF Inv, Core, Typed
  <2> DEFINE good(p) == IF p > 0 THEN p <= Len(stack) ELSE -p <= Len(ppm)
  <2>1. ASSUME NEW p \in Nat, p <= Len(stack)
        PROVE  good(p)
    <3>1. Len(ppm) \in Nat BY <2>0
    <3> QED BY <2>1, <3>1, SMT
  <2>2. ASSUME NEW i \in DOMAIN table PROVE good(table[i])
    <3>1. table[i] \in Int /\ (table[i] \in 1..Len(stack) \/ -table[i] \in 1..Len(ppm))
      BY <2>0 DEF Good
    <3>2. Len(stack) \in Nat /\ Len(ppm) \in Nat BY <2>0
    <3> QED BY <3>1, <3>2, SMT
  <2>3. ASSUME NEW i \in DOMAIN stack
        PROVE  stack[i].members \in Nat /\ stack[i].members <= Len(stack)
    <3>1. stack[i] \in Cell /\ i \in 1..Len(stack) BY <2>0
    <3>2. stack[i].members \in Nat BY <3>1 DEF Cell
    <3>3. stack[i].members <= Len(stack) BY <2>0, <3>1 DEF MembersStay
    <3> QED BY <3>2, <3>3
  <2>4. ASSUME NEW i \in DOMAIN frames
        PROVE  frames[i].symbol \in Nat /\ frames[i].symbol <= Len(stack)
    <3>1. i \in 1..Len(frames) BY <2>0
    <3> QED BY <2>0, <3>1 DEF FramesOf
  <2>5. ASSUME NEW i \in DOMAIN constructs
        PROVE  constructs[i].symbol \in Nat /\ constructs[i].symbol <= Len(stack)
    <3>1. constructs[i] \in Construct /\ i \in 1..Len(constructs) BY <2>0
    <3>2. constructs[i].symbol \in Nat BY <3>1 DEF Construct
    <3>3. constructs[i].symbol <= Len(stack) BY <2>0, <3>1 DEF TagsStay
    <3> QED BY <3>2, <3>3
  <2> HIDE DEF good
  <2>6. /\ \A i \in DOMAIN stack : good(stack[i].members)
        /\ \A i \in DOMAIN frames : good(frames[i].symbol)
        /\ \A i \in DOMAIN constructs : good(constructs[i].symbol)
    BY <2>1, <2>3, <2>4, <2>5
  <2> QED BY <2>2, <2>6 DEF NothingDangles, good
<1> QED BY AlwaysInv, <1>1, PTL

(* symbolTableIsMember() meets the symbols of an inner block before those  *)
(* of the blocks around it, and a later declaration before an earlier one, *)
(* though the labels of a loop and the tags come and go by other ways than *)
(* the end of a block.                                                     *)
THEOREM InnermostIsFirst == Spec => []InnermostFirst
<1>1. Inv => InnermostFirst
  <2> SUFFICES ASSUME Inv PROVE InnermostFirst
    OBVIOUS
  <2>1. Descends(table) /\ table \in Seq(Int) BY DEF Inv, Core
  <2> QED BY <2>1 DEF Descends, InnermostFirst
<1> QED BY AlwaysInv, <1>1, PTL

-----------------------------------------------------------------------------
(* Chains: what is in them, and in which order                             *)

\* Two chains of the same pointers, both with the newest first, are the same.
LEMMA SameChain ==
    ASSUME NEW s \in Seq(Int), NEW t \in Seq(Int), NewestFirst(s), NewestFirst(t),
           Elements(s) = Elements(t)
    PROVE  s = t
<1> DEFINE Differ == {i \in Nat : i >= 1 /\ \/ i \in 1..Len(s) /\ (i > Len(t) \/ s[i] # t[i])
                                            \/ i \in 1..Len(t) /\ (i > Len(s) \/ s[i] # t[i])}
<1>0. Len(s) \in Nat /\ Len(t) \in Nat OBVIOUS
<1>1. Differ = {}
  <2> SUFFICES ASSUME Differ # {} PROVE FALSE
    OBVIOUS
  <2>1. Differ \in SUBSET Nat OBVIOUS
  <2>2. PICK k \in Differ : \A j \in Differ : k <= j
    <3> HIDE DEF Differ
    <3> QED BY <2>1, LeastExists
  <2>3. k \in Nat /\ k >= 1 OBVIOUS
  <2>4. \A i \in 1..(k - 1) : (i \in 1..Len(s) <=> i \in 1..Len(t)) /\ (i \in 1..Len(s) => s[i] = t[i])
    <3> SUFFICES ASSUME NEW i \in 1..(k - 1)
                 PROVE  (i \in 1..Len(s) <=> i \in 1..Len(t)) /\ (i \in 1..Len(s) => s[i] = t[i])
      OBVIOUS
    <3>1. i \in Nat /\ i >= 1 /\ ~(k <= i) BY <2>3
    <3>2. i \notin Differ
      <4> HIDE DEF Differ
      <4> QED BY <2>2, <3>1
    <3> QED BY <1>0, <3>1, <3>2
  <2>5. \A i \in 1..Len(s) : \E j \in 1..Len(t) : t[j] = s[i] BY DEF Elements
  <2>6. \A i \in 1..Len(t) : \E j \in 1..Len(s) : s[j] = t[i] BY DEF Elements
  <2>7. \A p, q \in Int : Newer(p, q) => ~Newer(q, p) /\ p # q BY DEF Newer
  <2>8. k \in 1..Len(s)
    <3>1. CASE k \notin 1..Len(s)
      <4>1. k \in 1..Len(t) /\ k > Len(s) BY <1>0, <2>3, <3>1
      <4>2. PICK j \in 1..Len(s) : s[j] = t[k] BY <2>6, <4>1
      <4>3. j \in 1..(k - 1) /\ j \in 1..Len(t) /\ j < k BY <1>0, <4>1, <2>3
      <4>4. t[j] = t[k] /\ Newer(t[j], t[k]) /\ t[j] \in Int
        BY <2>4, <4>1, <4>2, <4>3 DEF NewestFirst
      <4> QED BY <2>7, <4>4
    <3> QED BY <3>1
  <2>9. k \in 1..Len(t)
    <3>1. CASE k \notin 1..Len(t)
      <4>1. k > Len(t) BY <1>0, <2>3, <3>1
      <4>2. PICK j \in 1..Len(t) : t[j] = s[k] BY <2>5, <2>8
      <4>3. j \in 1..(k - 1) /\ j \in 1..Len(s) /\ j < k
        BY <1>0, <4>1, <2>3, <2>8
      <4>4. s[j] = s[k] /\ Newer(s[j], s[k]) /\ s[j] \in Int
        BY <2>4, <2>8, <4>2, <4>3 DEF NewestFirst
      <4> QED BY <2>7, <4>4
    <3> QED BY <3>1
  <2>10. s[k] # t[k] /\ s[k] \in Int /\ t[k] \in Int BY <1>0, <2>3, <2>8, <2>9
  <2>11. PICK j \in 1..Len(t) : t[j] = s[k] BY <2>5, <2>8
  <2>12. PICK i \in 1..Len(s) : s[i] = t[k] BY <2>6, <2>9
  <2>13. k < j
    <3>1. CASE j = k BY <2>10, <2>11, <3>1
    <3>2. CASE j < k
      <4>1. j \in 1..(k - 1) /\ j \in 1..Len(s) BY <1>0, <2>3, <2>8, <3>2
      <4>2. s[j] = s[k] /\ Newer(s[j], s[k])
        BY <2>4, <2>8, <2>11, <3>2, <4>1 DEF NewestFirst
      <4> QED BY <2>7, <2>10, <4>2
    <3> QED BY <1>0, <2>3, <3>1, <3>2
  <2>14. k < i
    <3>1. CASE i = k BY <2>10, <2>12, <3>1
    <3>2. CASE i < k
      <4>1. i \in 1..(k - 1) /\ i \in 1..Len(t) BY <1>0, <2>3, <2>9, <3>2
      <4>2. t[i] = t[k] /\ Newer(t[i], t[k])
        BY <2>4, <2>9, <2>12, <3>2, <4>1 DEF NewestFirst
      <4> QED BY <2>7, <2>10, <4>2
    <3> QED BY <1>0, <2>3, <3>1, <3>2
  <2>15. Newer(t[k], s[k]) BY <2>9, <2>11, <2>13 DEF NewestFirst
  <2>16. Newer(s[k], t[k]) BY <2>8, <2>12, <2>14 DEF NewestFirst
  <2> QED BY <2>7, <2>10, <2>15, <2>16
<1>2. Len(s) = Len(t)
  <2>1. CASE Len(s) < Len(t)
    <3>1. Len(s) + 1 \in Differ BY <1>0, <2>1
    <3> QED BY <1>1, <3>1
  <2>2. CASE Len(t) < Len(s)
    <3>1. Len(t) + 1 \in Differ BY <1>0, <2>2
    <3> QED BY <1>1, <3>1
  <2> QED BY <1>0, <2>1, <2>2
<1>3. \A i \in 1..Len(s) : s[i] = t[i]
  <2> SUFFICES ASSUME NEW i \in 1..Len(s) PROVE s[i] = t[i]
    OBVIOUS
  <2>1. i \notin Differ BY <1>1
  <2> QED BY <1>0, <2>1
<1>4. s = [i \in 1..Len(s) |-> s[i]] /\ t = [i \in 1..Len(t) |-> t[i]] OBVIOUS
<1>5. [i \in 1..Len(s) |-> s[i]] = [i \in 1..Len(t) |-> t[i]] BY <1>2, <1>3
<1> QED BY <1>4, <1>5

\* Among() keeps what it is to keep, in the order of the chain.
LEMMA AmongIsChained ==
    ASSUME NEW tab \in Seq(Int), NEW W
    PROVE  \E g : /\ Among(tab, W) = g[Len(tab)] /\ g[0] = <<>>
                  /\ \A n \in 1..Len(tab) :
                        g[n] = IF tab[n] \in W THEN Append(g[n - 1], tab[n]) ELSE g[n - 1]
<1> DEFINE len == Len(tab)
           Next1(c, n) == IF tab[n] \in W THEN Append(c, tab[n]) ELSE c
           Is(g, m) == g = [n \in 0..m |-> IF n = 0 THEN <<>> ELSE Next1(g[n - 1], n)]
           Bad == {m \in Nat : ~ \E g : Is(g, m)}
<1> HIDE DEF Next1
<1>1. Bad = {}
  <2> SUFFICES ASSUME Bad # {} PROVE FALSE
    OBVIOUS
  <2>0. Bad \in SUBSET Nat OBVIOUS
  <2>1. PICK k \in Bad : \A j \in Bad : k <= j
    <3> HIDE DEF Bad
    <3> QED BY <2>0, LeastExists
  <2>2. k \in Nat /\ ~ \E g : Is(g, k) OBVIOUS
  <2>3. CASE k = 0
    <3> DEFINE g == [n \in 0..0 |-> <<>>]
    <3>1. Is(g, 0) OBVIOUS
    <3> QED BY <2>2, <2>3, <3>1
  <2>4. CASE k # 0
    <3>1. k - 1 \in Nat /\ ~(k <= k - 1) BY <2>2, <2>4
    <3>2. k - 1 \notin Bad
      <4> HIDE DEF Bad
      <4> QED BY <2>1, <3>1
    <3>3. PICK g : Is(g, k - 1) BY <3>1, <3>2
    <3> DEFINE h == [n \in 0..k |-> IF n = k THEN Next1(g[k - 1], k) ELSE g[n]]
    <3>4. \A n \in 0..(k - 1) : h[n] = g[n] /\ g[n] = IF n = 0 THEN <<>> ELSE Next1(g[n - 1], n)
      BY <2>2, <3>1, <3>3
    <3>5. h[k] = Next1(g[k - 1], k) /\ h[k - 1] = g[k - 1] BY <2>2, <3>1
    <3>6. ASSUME NEW n \in 0..k
          PROVE  h[n] = IF n = 0 THEN <<>> ELSE Next1(h[n - 1], n)
      <4> HIDE DEF h
      <4>1. CASE n = k BY <2>2, <2>4, <3>5, <4>1
      <4>2. CASE n # k
        <5>1. n \in 0..(k - 1) /\ (n # 0 => n - 1 \in 0..(k - 1)) BY <2>2, <4>2
        <5> QED BY <3>4, <5>1
      <4> QED BY <4>1, <4>2
    <3>7. h = [n \in 0..k |-> h[n]] OBVIOUS
    <3> HIDE DEF h
    <3>8. Is(h, k) BY <3>6, <3>7
    <3> QED BY <2>2, <3>8
  <2> QED BY <2>3, <2>4
<1>2. len \in Nat OBVIOUS
<1>3. \E g : Is(g, len) BY <1>1, <1>2
<1> DEFINE chain[n \in 0..Len(tab)] ==
             IF n = 0 THEN <<>>
             ELSE IF tab[n] \in W THEN Append(chain[n - 1], tab[n])
             ELSE chain[n - 1]
<1>4. Among(tab, W) = chain[len] BY DEF Among
<1>5. Is(chain, len) BY <1>3 DEF Next1
<1> HIDE DEF chain
<1>6. \A n \in 0..len : chain[n] = IF n = 0 THEN <<>> ELSE Next1(chain[n - 1], n)
  BY <1>5
<1>7. chain[0] = <<>> /\ \A n \in 1..len : chain[n] = Next1(chain[n - 1], n)
  <2> HIDE DEF len
  <2> QED BY <1>2, <1>6
<1> QED BY <1>4, <1>7 DEF Next1

LEMMA AmongFacts ==
    ASSUME NEW tab \in Seq(Int), Ordered(tab), NEW W
    PROVE  /\ Among(tab, W) \in Seq(Int) /\ Ordered(Among(tab, W))
           /\ Elements(Among(tab, W)) = Elements(tab) \cap W
<1> DEFINE len == Len(tab)
           Kept(c, n) == /\ c \in Seq(Int) /\ Ordered(c)
                         /\ \A i \in 1..Len(c) : \E j \in 1..n : c[i] = tab[j] /\ tab[j] \in W
                         /\ \A j \in 1..n : tab[j] \in W => \E i \in 1..Len(c) : c[i] = tab[j]
<1>1. PICK g : /\ Among(tab, W) = g[len] /\ g[0] = <<>>
               /\ \A n \in 1..len : g[n] = IF tab[n] \in W THEN Append(g[n - 1], tab[n]) ELSE g[n - 1]
  BY AmongIsChained, SMTT(30)
<1>2. len \in Nat OBVIOUS
<1>3. Kept(g[0], 0) BY <1>1 DEF Ordered
<1> HIDE DEF len
<1>4. ASSUME NEW n \in Nat, n < len, Kept(g[n], n)
      PROVE  Kept(g[n + 1], n + 1)
  <2>1. n + 1 \in 1..len /\ (n + 1) - 1 = n /\ \A j \in 1..n : j \in 1..(n + 1) /\ j \in 1..len /\ j < n + 1
    BY <1>2, <1>4
  <2> DEFINE p == tab[n + 1]
             c == g[n]
  <2>2. g[n + 1] = IF p \in W THEN Append(c, p) ELSE c BY <1>1, <2>1
  <2>3. p \in Int BY <2>1 DEF len
  <2>4. c \in Seq(Int) /\ Ordered(c)
        /\ (\A i \in 1..Len(c) : \E j \in 1..n : c[i] = tab[j] /\ tab[j] \in W)
        /\ (\A j \in 1..n : tab[j] \in W => \E i \in 1..Len(c) : c[i] = tab[j])
    BY <1>4
  <2>5. \A j \in 1..n : (tab[j] > 0 <=> p > 0) => Newer(tab[j], p)
    BY <2>1 DEF len, Ordered
  <2>6. \A j \in 1..(n + 1) : j \in 1..n \/ j = n + 1 BY <1>4
  <2> HIDE DEF c
  <2>7. CASE p \notin W BY <2>1, <2>2, <2>4, <2>6, <2>7
  <2>8. CASE p \in W
    <3> DEFINE a == Append(c, p)
    <3> HIDE DEF p
    <3>1. a \in Seq(Int) /\ Len(a) = Len(c) + 1 /\ Len(c) \in Nat
          /\ \A i \in 1..Len(a) : IF i = Len(a) THEN a[i] = p ELSE i \in 1..Len(c) /\ a[i] = c[i]
      BY SMTT(30), <2>3, <2>4
    <3>2. \A i \in 1..Len(c) : i \in 1..Len(a) /\ a[i] = c[i] /\ i # Len(a)
      BY <3>1
    <3>3. Len(a) \in 1..Len(a) /\ a[Len(a)] = p BY <3>1
    <3> HIDE DEF a
    <3>4. Ordered(a)
      <4> SUFFICES ASSUME NEW i \in 1..Len(a), NEW j \in 1..Len(a), i < j, a[i] > 0 <=> a[j] > 0
                   PROVE  Newer(a[i], a[j])
        BY DEF Ordered
      <4>1. i \in 1..Len(c) /\ a[i] = c[i] BY <3>1
      <4>2. CASE j = Len(a)
        <5>1. PICK k \in 1..n : c[i] = tab[k] /\ tab[k] \in W BY <2>4, <4>1
        <5> QED BY <2>5, <2>8, <3>3, <4>1, <4>2, <5>1
      <4>3. CASE j # Len(a) BY <2>4, <3>1, <4>1, <4>3 DEF Ordered
      <4> QED BY <4>2, <4>3
    <3>5. ASSUME NEW i \in 1..Len(a) PROVE \E j \in 1..(n + 1) : a[i] = tab[j] /\ tab[j] \in W
      <4>1. CASE i = Len(a)
        <5>1. n + 1 \in 1..(n + 1) BY <1>4
        <5> QED BY <2>8, <3>3, <4>1, <5>1 DEF p
      <4>2. CASE i # Len(a) BY <2>1, <2>4, <3>1, <4>2
      <4> QED BY <4>1, <4>2
    <3>6. ASSUME NEW j \in 1..(n + 1), tab[j] \in W PROVE \E i \in 1..Len(a) : a[i] = tab[j]
      <4>1. CASE j = n + 1 BY <3>3, <4>1 DEF p
      <4>2. CASE j # n + 1 BY <2>4, <2>6, <3>2, <3>6, <4>2
      <4> QED BY <4>1, <4>2
    <3>7. g[n + 1] = a BY <2>2, <2>8 DEF a
    <3> QED BY <3>1, <3>4, <3>5, <3>6, <3>7 DEF a
  <2> QED BY <2>7, <2>8
<1> DEFINE Bad == {n \in Nat : n <= len /\ ~Kept(g[n], n)}
<1>5. Bad = {}
  <2> HIDE DEF Kept
  <2> SUFFICES ASSUME Bad # {} PROVE FALSE
    OBVIOUS
  <2>1. Bad \in SUBSET Nat OBVIOUS
  <2>2. PICK k \in Bad : \A j \in Bad : k <= j
    <3> HIDE DEF Bad
    <3> QED BY <2>1, LeastExists
  <2>3. k \in Nat /\ k <= len /\ ~Kept(g[k], k) /\ k # 0 BY <1>3
  <2>4. k - 1 \in Nat /\ ~(k <= k - 1) /\ k - 1 < len /\ (k - 1) + 1 = k
    BY <1>2, <2>3
  <2>5. k - 1 \notin Bad
    <3> HIDE DEF Bad
    <3> QED BY <2>2, <2>4
  <2>6. Kept(g[k - 1], k - 1) BY <1>2, <2>4, <2>5
  <2>7. Kept(g[(k - 1) + 1], (k - 1) + 1) BY <1>4, <2>4, <2>6
  <2> QED BY <2>3, <2>4, <2>7
<1>6. Kept(g[len], len)
  <2> HIDE DEF Kept
  <2> QED BY <1>2, <1>5
<1> DEFINE c == Among(tab, W)
<1>7. /\ c \in Seq(Int) /\ Ordered(c)
      /\ \A i \in 1..Len(c) : \E j \in 1..len : c[i] = tab[j] /\ tab[j] \in W
      /\ \A j \in 1..len : tab[j] \in W => \E i \in 1..Len(c) : c[i] = tab[j]
  BY <1>1, <1>6
<1> HIDE DEF c
<1>8. ASSUME NEW p \in Elements(c) PROVE p \in Elements(tab) /\ p \in W
  <2>1. PICK i \in 1..Len(c) : p = c[i] BY DEF Elements
  <2>2. PICK j \in 1..len : c[i] = tab[j] /\ tab[j] \in W BY <1>7
  <2> QED BY <2>1, <2>2 DEF Elements, len
<1>9. ASSUME NEW p \in Elements(tab), p \in W PROVE p \in Elements(c)
  <2>1. PICK j \in 1..len : p = tab[j] BY DEF Elements, len
  <2>2. PICK i \in 1..Len(c) : c[i] = tab[j] BY <1>7, <1>9, <2>1
  <2> QED BY <2>1, <2>2 DEF Elements
<1>10. Elements(c) = Elements(tab) \cap W BY <1>8, <1>9
<1> QED BY <1>7, <1>10 DEF c

\* What is among some pointers into one memory is known by its elements.
LEMMA AmongIs ==
    ASSUME NEW tab \in Seq(Int), Ordered(tab), NEW W, (\A p \in W : p > 0) \/ (\A p \in W : ~(p > 0))
    PROVE  /\ Among(tab, W) \in Seq(Int) /\ NewestFirst(Among(tab, W))
           /\ Elements(Among(tab, W)) = Elements(tab) \cap W
           /\ \A s \in Seq(Int) :
                 NewestFirst(s) /\ Elements(s) = Elements(tab) \cap W => Among(tab, W) = s
<1> DEFINE c == Among(tab, W)
<1>1. c \in Seq(Int) /\ Ordered(c) /\ Elements(c) = Elements(tab) \cap W
  BY AmongFacts
<1> HIDE DEF c
<1>2. NewestFirst(c)
  <2> SUFFICES ASSUME NEW i \in 1..Len(c), NEW j \in 1..Len(c), i < j PROVE Newer(c[i], c[j])
    BY DEF NewestFirst
  <2>1. c[i] \in W /\ c[j] \in W BY <1>1 DEF Elements
  <2> QED BY <1>1, <2>1 DEF Ordered
<1>3. \A s \in Seq(Int) : NewestFirst(s) /\ Elements(s) = Elements(tab) \cap W => c = s
  BY <1>1, <1>2, SameChain
<1> QED BY <1>1, <1>2, <1>3 DEF c

-----------------------------------------------------------------------------
(* The scopes, as what the blocks have in the table                        *)

Description == [type : {"keyword", "default", "tag", "label", "member"},
                name : Names \cup {"struct", "loop", "m"}, complete : BOOLEAN, global : BOOLEAN]
Own(tab, low, high) == Among(tab, (low + 1)..high)
ScopeOf(cells, tab, b, low) ==
  [fileScope |-> b.isFileScope, symbols |-> SymbolsBetween(cells, tab, low, b.free)]
Low(out) == IF out = <<>> THEN 0 ELSE out[Len(out)].free

LEMMA SameSequence ==
    ASSUME NEW S, NEW s \in Seq(S), NEW T, NEW t \in Seq(T), Len(s) = Len(t),
           \A i \in 1..Len(s) : s[i] = t[i]
    PROVE  s = t
<1>1. s = [i \in 1..Len(s) |-> s[i]] /\ t = [i \in 1..Len(t) |-> t[i]] OBVIOUS
<1>2. [i \in 1..Len(s) |-> s[i]] = [i \in 1..Len(t) |-> t[i]] OBVIOUS
<1> QED BY <1>1, <1>2

\* The pointers of a block's symbols, newest first
IsOwn(s, tab, low, high) ==
  s \in Seq(Int) /\ NewestFirst(s) /\ Elements(s) = Elements(tab) \cap ((low + 1)..high)

LEMMA OwnFacts ==
    ASSUME NEW tab \in Seq(Int), Ordered(tab), NEW low \in Nat, NEW high \in Nat
    PROVE  IsOwn(Own(tab, low, high), tab, low, high)
<1> DEFINE W == (low + 1)..high
<1>1. \A p \in W : p > 0 OBVIOUS
<1> HIDE DEF W
<1>2. /\ Among(tab, W) \in Seq(Int) /\ NewestFirst(Among(tab, W))
      /\ Elements(Among(tab, W)) = Elements(tab) \cap W
  BY <1>1, AmongIs
<1> QED BY <1>2 DEF Own, IsOwn, W

LEMMA OwnIs ==
    ASSUME NEW tab \in Seq(Int), Ordered(tab), NEW low \in Nat, NEW high \in Nat,
           NEW s, IsOwn(s, tab, low, high)
    PROVE  Own(tab, low, high) = s
<1> DEFINE own == Own(tab, low, high)
<1>1. IsOwn(own, tab, low, high) BY OwnFacts
<1> HIDE DEF own
<1>2. own = s BY <1>1, SameChain DEF IsOwn
<1> QED BY <1>2 DEF own

\* The symbols, one for each of these pointers
Allocated(cells, pointers) == \A p \in pointers : p \in 1..Len(cells)
AreSymbols(s, own, cells, tab, low, high) ==
  /\ s \in Seq(Description) /\ Len(s) = Len(own)
  /\ \A i \in 1..Len(own) :
        own[i] \in Elements(tab) \cap ((low + 1)..high) /\ s[i] = Described(cells[own[i]])

LEMMA SymbolsAre ==
    ASSUME NEW cells \in Seq(Cell), NEW tab \in Seq(Int), Ordered(tab),
           NEW low \in Nat, NEW high \in Nat,
           Allocated(cells, Elements(tab) \cap ((low + 1)..high))
    PROVE  AreSymbols(SymbolsBetween(cells, tab, low, high), Own(tab, low, high), cells, tab, low, high)
<1> DEFINE own == Own(tab, low, high)
           W == (low + 1)..high
<1>1. IsOwn(own, tab, low, high) BY OwnFacts
<1>2. SymbolsBetween(cells, tab, low, high) = [i \in DOMAIN own |-> Described(cells[own[i]])]
  BY DEF SymbolsBetween, Own
<1> HIDE DEF own
<1>3. ASSUME NEW i \in 1..Len(own)
      PROVE  own[i] \in Elements(tab) \cap W /\ Described(cells[own[i]]) \in Description
  <2>1. own[i] \in Elements(own) BY DEF Elements
  <2>2. own[i] \in 1..Len(cells) /\ own[i] \in Elements(tab) \cap W
    BY <1>1, <2>1 DEF IsOwn, Allocated
  <2>3. cells[own[i]] \in Cell BY <2>2
  <2>4. Described(cells[own[i]]) \in Description
    BY <2>3 DEF Described, Cell, Description
  <2> QED BY <2>2, <2>4
<1>4. DOMAIN own = 1..Len(own) /\ Len(own) \in Nat BY <1>1 DEF IsOwn
<1> DEFINE f == [i \in 1..Len(own) |-> Described(cells[own[i]])]
<1>5. f \in [1..Len(own) -> Description] BY <1>3
<1>6. f \in Seq(Description) /\ Len(f) = Len(own)
  <2> DEFINE n == Len(own)
  <2>1. f \in [1..n -> Description] /\ n \in Nat BY <1>4, <1>5
  <2> HIDE DEF f, n
  <2>2. f \in Seq(Description) /\ Len(f) = n BY <2>1
  <2> QED BY <2>2 DEF n
<1>7. \A i \in 1..Len(own) : f[i] = Described(cells[own[i]]) OBVIOUS
<1>8. SymbolsBetween(cells, tab, low, high) = f BY <1>2, <1>4
<1> HIDE DEF f
<1> QED BY <1>3, <1>6, <1>7, <1>8 DEF own, AreSymbols

\* A block has the same symbols in another table when that has the same pointers for
\* it, to cells that look the same.
LookTheSame(cells, cells2, pointers) ==
  \A p \in pointers :
    p \in 1..Len(cells) /\ p \in 1..Len(cells2) /\ Described(cells[p]) = Described(cells2[p])

HaveTheSame(tab, high, tab2, high2, low) ==
  Elements(tab) \cap ((low + 1)..high) = Elements(tab2) \cap ((low + 1)..high2)

LEMMA SameSymbols ==
    ASSUME NEW tab \in Seq(Int), Ordered(tab), NEW tab2 \in Seq(Int), Ordered(tab2),
           NEW low \in Nat, NEW high \in Nat, NEW high2 \in Nat,
           NEW cells \in Seq(Cell), NEW cells2 \in Seq(Cell),
           HaveTheSame(tab, high, tab2, high2, low),
           LookTheSame(cells, cells2, Elements(tab) \cap ((low + 1)..high))
    PROVE  SymbolsBetween(cells2, tab2, low, high2) = SymbolsBetween(cells, tab, low, high)
<1> USE DEF HaveTheSame, LookTheSame
<1> DEFINE own == Own(tab, low, high)
           own2 == Own(tab2, low, high2)
           s == SymbolsBetween(cells, tab, low, high)
           s2 == SymbolsBetween(cells2, tab2, low, high2)
<1>1. IsOwn(own, tab, low, high) BY OwnFacts
<1>2. IsOwn(own, tab2, low, high2) BY <1>1 DEF IsOwn
<1>5. own2 = own BY <1>2, OwnIs
<1>3. /\ s \in Seq(Description) /\ Len(s) = Len(own)
      /\ \A i \in 1..Len(own) : own[i] \in Elements(tab) \cap ((low + 1)..high) /\ s[i] = Described(cells[own[i]])
  <2>1. Allocated(cells, Elements(tab) \cap ((low + 1)..high)) BY DEF Allocated
  <2>2. AreSymbols(s, own, cells, tab, low, high) BY <2>1, SymbolsAre
  <2> QED BY <2>2 DEF AreSymbols
<1>4. /\ s2 \in Seq(Description) /\ Len(s2) = Len(own2)
      /\ \A i \in 1..Len(own2) : s2[i] = Described(cells2[own2[i]])
  <2>1. Allocated(cells2, Elements(tab2) \cap ((low + 1)..high2))
    BY DEF Allocated
  <2>2. AreSymbols(s2, own2, cells2, tab2, low, high2) BY <2>1, SymbolsAre
  <2> QED BY <2>2 DEF AreSymbols
<1> HIDE DEF own, own2, s, s2
<1>6. \A i \in 1..Len(s) : s[i] = s2[i] BY <1>3, <1>4, <1>5
<1>7. s = s2 BY <1>3, <1>4, <1>5, <1>6, SameSequence
<1> QED BY <1>7 DEF s, s2

Prepended(s2, x, s) == s2 = <<x>> \o s

HasOneMore(tab, high, tab2, p, low) ==
  Elements(tab2) \cap ((low + 1)..p) = {p} \cup (Elements(tab) \cap ((low + 1)..high))

\* A newer symbol comes before the ones a block has.
LEMMA OneMoreSymbol ==
    ASSUME NEW tab \in Seq(Int), Ordered(tab), NEW tab2 \in Seq(Int), Ordered(tab2),
           NEW low \in Nat, NEW high \in Nat, NEW p \in Nat, high < p, low < p,
           NEW cells \in Seq(Cell), NEW cells2 \in Seq(Cell), p \in 1..Len(cells2),
           HasOneMore(tab, high, tab2, p, low),
           LookTheSame(cells, cells2, Elements(tab) \cap ((low + 1)..high))
    PROVE  Prepended(SymbolsBetween(cells2, tab2, low, p), Described(cells2[p]),
                     SymbolsBetween(cells, tab, low, high))
<1> USE DEF LookTheSame, HasOneMore
<1> DEFINE own == Own(tab, low, high)
           own2 == Own(tab2, low, p)
           all == <<p>> \o own
           s == SymbolsBetween(cells, tab, low, high)
           s2 == SymbolsBetween(cells2, tab2, low, p)
           x == Described(cells2[p])
           t == <<x>> \o s
<1>1. IsOwn(own, tab, low, high) BY OwnFacts
<1>3. /\ s \in Seq(Description) /\ Len(s) = Len(own)
      /\ \A i \in 1..Len(own) : own[i] \in Elements(tab) \cap ((low + 1)..high) /\ s[i] = Described(cells[own[i]])
  <2>1. Allocated(cells, Elements(tab) \cap ((low + 1)..high)) BY DEF Allocated
  <2>2. AreSymbols(s, own, cells, tab, low, high) BY <2>1, SymbolsAre
  <2> QED BY <2>2 DEF AreSymbols
<1>4. /\ s2 \in Seq(Description) /\ Len(s2) = Len(own2)
      /\ \A i \in 1..Len(own2) : s2[i] = Described(cells2[own2[i]])
  <2>1. Allocated(cells2, Elements(tab2) \cap ((low + 1)..p)) BY DEF Allocated
  <2>2. AreSymbols(s2, own2, cells2, tab2, low, p) BY <2>1, SymbolsAre
  <2> QED BY <2>2 DEF AreSymbols
<1> HIDE DEF own, s, s2
<1>0. own \in Seq(Int) /\ NewestFirst(own) BY <1>1 DEF IsOwn
<1>5. /\ all \in Seq(Int) /\ Len(all) = Len(own) + 1 /\ Len(own) \in Nat /\ all[1] = p
      /\ \A i \in 1..(Len(own) + 1) : i # 1 => i - 1 \in 1..Len(own) /\ all[i] = own[i - 1]
      /\ \A i \in 1..Len(own) : all[i + 1] = own[i]
  BY <1>0, PrependFacts
<1> HIDE DEF all, own2
<1>6. NewestFirst(all)
  <2> SUFFICES ASSUME NEW i \in 1..Len(all), NEW j \in 1..Len(all), i < j PROVE Newer(all[i], all[j])
    BY DEF NewestFirst
  <2>1. j # 1 /\ j - 1 \in 1..Len(own) /\ all[j] = own[j - 1] /\ all[j] \in (low + 1)..high
    <3>1. j \in 1..(Len(own) + 1) /\ j # 1 BY <1>5
    <3> QED BY <1>3, <1>5, <3>1
  <2>2. CASE i = 1
    <3>1. all[i] = p BY <1>5, <2>2
    <3>2. all[j] \in Int /\ all[j] > 0 /\ p > all[j] BY <2>1
    <3> QED BY <3>1, <3>2 DEF Newer
  <2>3. CASE i # 1
    <3>1. i - 1 \in 1..Len(own) /\ all[i] = own[i - 1] /\ i - 1 < j - 1
      <4>1. i \in 1..(Len(own) + 1) /\ i \in Nat /\ j \in Nat BY <1>5
      <4> QED BY <1>5, <2>3, <4>1
    <3> QED BY <1>0, <2>1, <3>1 DEF NewestFirst
  <2> QED BY <2>2, <2>3
<1>7. Elements(all) = {p} \cup Elements(own)
  <2>1. \A q \in Elements(own) : q \in Elements(all)
    <3> SUFFICES ASSUME NEW i \in 1..Len(own) PROVE own[i] \in Elements(all)
      BY DEF Elements
    <3>1. i + 1 \in 1..Len(all) /\ all[i + 1] = own[i] BY <1>5
    <3> QED BY <3>1 DEF Elements
  <2>2. p \in Elements(all)
    <3>1. 1 \in 1..Len(all) BY <1>5
    <3> QED BY <1>5, <3>1 DEF Elements
  <2>3. \A q \in Elements(all) : q = p \/ q \in Elements(own)
    <3> SUFFICES ASSUME NEW i \in 1..Len(all) PROVE all[i] = p \/ all[i] \in Elements(own)
      BY DEF Elements
    <3>1. i \in 1..(Len(own) + 1) BY <1>5
    <3> QED BY <1>5, <3>1 DEF Elements
  <2> QED BY <2>1, <2>2, <2>3
<1>8. own2 = all
  <2>1. Elements(all) = Elements(tab2) \cap ((low + 1)..p)
    BY <1>1, <1>7 DEF IsOwn
  <2>2. IsOwn(all, tab2, low, p) BY <1>5, <1>6, <2>1 DEF IsOwn
  <2> QED BY <2>2, OwnIs DEF own2
<1>9. x \in Description
  <2>1. cells2[p] \in Cell OBVIOUS
  <2> QED BY <2>1 DEF Described, Cell, Description
<1> HIDE DEF x
<1>10. /\ t \in Seq(Description) /\ Len(t) = Len(s) + 1 /\ t[1] = x
       /\ \A i \in 1..(Len(s) + 1) : i # 1 => i - 1 \in 1..Len(s) /\ t[i] = s[i - 1]
  BY <1>3, <1>9, PrependFacts
<1> HIDE DEF t
<1>11. ASSUME NEW i \in 1..Len(s2) PROVE s2[i] = t[i]
  <2>0. i \in 1..(Len(own) + 1) /\ s2[i] = Described(cells2[all[i]])
    BY <1>4, <1>5, <1>8
  <2>1. CASE i = 1 BY <1>5, <1>10, <2>0, <2>1 DEF x
  <2>2. CASE i # 1
    <3>1. i - 1 \in 1..Len(own) /\ all[i] = own[i - 1] /\ t[i] = s[i - 1]
      BY <1>3, <1>5, <1>10, <2>0, <2>2
    <3> QED BY <1>3, <2>0, <3>1
  <2> QED BY <2>1, <2>2
<1>12. Len(s2) = Len(t) BY <1>3, <1>4, <1>5, <1>8, <1>10
<1>13. s2 = t BY <1>4, <1>10, <1>11, <1>12, SameSequence
<1> QED BY <1>13 DEF Prepended, s, s2, t, x

-----------------------------------------------------------------------------
(* The scopes around the innermost, and the innermost                      *)

LEMMA ScopesSplit ==
    ASSUME NEW cells, NEW tab, NEW out \in Seq(Block), NEW b \in Block
    PROVE  /\ ScopesOf(cells, tab, Append(out, b)) =
                Append(ScopesOf(cells, tab, out), ScopeOf(cells, tab, b, Low(out)))
           /\ \E S : /\ ScopesOf(cells, tab, out) \in Seq(S)
                     /\ ScopeOf(cells, tab, b, Low(out)) \in S
           /\ Len(ScopesOf(cells, tab, out)) = Len(out)
           /\ \A d \in 1..Len(out) : ScopesOf(cells, tab, out)[d].fileScope = out[d].isFileScope
<1> DEFINE n == Len(out)
           e(d) == [fileScope |-> out[d].isFileScope,
                    symbols |-> SymbolsBetween(cells, tab, IF d = 1 THEN 0 ELSE out[d - 1].free, out[d].free)]
           f == [d \in 1..n |-> e(d)]
           x == ScopeOf(cells, tab, b, Low(out))
           S == {e(d) : d \in 1..n} \cup {x}
           more == Append(out, b)
           e2(d) == [fileScope |-> more[d].isFileScope,
                     symbols |-> SymbolsBetween(cells, tab, IF d = 1 THEN 0 ELSE more[d - 1].free, more[d].free)]
           g == [d \in 1..(n + 1) |-> e2(d)]
<1>1. n \in Nat /\ DOMAIN out = 1..n /\ DOMAIN more = 1..(n + 1) OBVIOUS
<1>2. ScopesOf(cells, tab, out) = f /\ ScopesOf(cells, tab, more) = g
  BY <1>1 DEF ScopesOf
<1>3. /\ Len(more) = n + 1 /\ more[n + 1] = b
      /\ \A i \in 1..n : more[i] = out[i]
  OBVIOUS
<1>4. \A d \in 1..n : e2(d) = e(d)
  <2> SUFFICES ASSUME NEW d \in 1..n PROVE e2(d) = e(d)
    OBVIOUS
  <2>1. more[d] = out[d] /\ (d # 1 => more[d - 1] = out[d - 1])
    <3>1. d # 1 => d - 1 \in 1..n BY <1>1
    <3> QED BY <1>3, <3>1
  <2> HIDE DEF more
  <2> QED BY <2>1
<1>5. e2(n + 1) = x
  <2>1. n = 0 <=> out = <<>> BY <1>1
  <2>2. Low(out) = IF n + 1 = 1 THEN 0 ELSE more[(n + 1) - 1].free
    <3>1. CASE n = 0 BY <2>1, <3>1 DEF Low
    <3>2. CASE n # 0
      <4>1. n \in 1..n /\ (n + 1) - 1 = n /\ n + 1 # 1 BY <1>1, <3>2
      <4> QED BY <1>3, <2>1, <3>2, <4>1 DEF Low
    <3> QED BY <3>1, <3>2
  <2> HIDE DEF more
  <2> QED BY <1>3, <2>2 DEF ScopeOf
<1> HIDE DEF e, e2, x, more
<1>6. f \in Seq(S) /\ Len(f) = n /\ x \in S
  <2>1. f \in [1..n -> S] OBVIOUS
  <2> HIDE DEF f, n, S
  <2>2. f \in Seq(S) /\ Len(f) = n BY <1>1, <2>1
  <2> QED BY <2>2 DEF S
<1>7. \A d \in 1..n : f[d] = e(d) OBVIOUS
<1>8. Append(f, x) \in Seq(S) /\ Len(Append(f, x)) = n + 1 /\ Append(f, x)[n + 1] = x
      /\ \A d \in 1..n : Append(f, x)[d] = e(d)
  <2> HIDE DEF f, S
  <2> QED BY <1>6, <1>7
<1>9. g = Append(f, x)
  <2> DEFINE h == Append(f, x)
  <2>1. h = [d \in 1..(n + 1) |-> h[d]]
    <3> HIDE DEF h, n
    <3>1. h \in Seq(S) /\ Len(h) = n + 1 BY <1>8 DEF h
    <3> QED BY <3>1
  <2>2. \A d \in 1..(n + 1) : e2(d) = h[d]
    <3> SUFFICES ASSUME NEW d \in 1..(n + 1) PROVE e2(d) = h[d]
      OBVIOUS
    <3>1. d = n + 1 \/ d \in 1..n BY <1>1
    <3> HIDE DEF h, f
    <3> QED BY <1>4, <1>5, <1>8, <3>1 DEF h
  <2> HIDE DEF h
  <2>3. g = h BY <2>1, <2>2
  <2> QED BY <2>3 DEF h
<1>10. \A d \in 1..n : f[d].fileScope = out[d].isFileScope BY <1>7 DEF e
<1> HIDE DEF f, g
<1>11. Append(f, x) = g /\ f \in Seq(S) /\ x \in S /\ Len(f) = n BY <1>6, <1>9
<1> QED BY <1>2, <1>10, <1>11 DEF more, x, n

\* Scopes that are not the innermost stay what they are.
LEMMA ScopesKept ==
    ASSUME NEW cells \in Seq(Cell), NEW cells2 \in Seq(Cell),
           NEW tab \in Seq(Int), Ordered(tab), NEW tab2 \in Seq(Int), Ordered(tab2),
           NEW out \in Seq(Block), \A d, e \in 1..Len(out) : d < e => out[d].free <= out[e].free,
           Low(out) <= Len(cells), Low(out) <= Len(cells2),
           \A p \in 1..Low(out) : p \in Elements(tab) <=> p \in Elements(tab2),
           \A p \in 1..Low(out) : p \in Elements(tab) => Described(cells[p]) = Described(cells2[p])
    PROVE  ScopesOf(cells2, tab2, out) = ScopesOf(cells, tab, out)
<1> DEFINE n == Len(out)
           low(d) == IF d = 1 THEN 0 ELSE out[d - 1].free
<1>1. n \in Nat /\ DOMAIN out = 1..n /\ Len(cells) \in Nat /\ Len(cells2) \in Nat
  OBVIOUS
<1>2. ASSUME NEW d \in 1..n
      PROVE  SymbolsBetween(cells2, tab2, low(d), out[d].free) = SymbolsBetween(cells, tab, low(d), out[d].free)
  <2> DEFINE high == out[d].free
             lo == low(d)
  <2>1. n \in 1..n /\ d \in Nat /\ d <= n /\ out # <<>> BY <1>1
  <2>2. Low(out) = out[n].free BY <2>1 DEF Low
  <2>3. \A c \in 1..n : out[c].free \in Nat
    <3> SUFFICES ASSUME NEW c \in 1..n PROVE out[c].free \in Nat
      OBVIOUS
    <3>1. out[c] \in Block OBVIOUS
    <3> QED BY <3>1 DEF Block
  <2>4. high \in Nat /\ high <= Low(out)
    <3>1. d = n \/ d < n
      <4> HIDE DEF n
      <4> QED BY <1>1, <2>1
    <3> QED BY <2>1, <2>2, <2>3, <3>1
  <2>5. lo \in Nat
    <3>1. CASE d = 1 BY <3>1
    <3>2. CASE d # 1
      <4>1. d - 1 \in 1..n BY <1>1, <3>2
      <4> QED BY <2>3, <3>2, <4>1
    <3> QED BY <3>1, <3>2
  <2>6. Low(out) \in Nat BY <2>1, <2>2, <2>3
  <2> HIDE DEF high, lo, low
  <2>7. \A p \in (lo + 1)..high : p \in 1..Low(out) /\ p \in 1..Len(cells) /\ p \in 1..Len(cells2)
    BY <1>1, <2>4, <2>5, <2>6
  <2>8. Elements(tab) \cap ((lo + 1)..high) = Elements(tab2) \cap ((lo + 1)..high)
    <3>1. \A p \in (lo + 1)..high : p \in Elements(tab) <=> p \in Elements(tab2)
      BY <2>7
    <3> QED BY <3>1
  <2>9. LookTheSame(cells, cells2, Elements(tab) \cap ((lo + 1)..high))
    BY <2>7 DEF LookTheSame
  <2>11. HaveTheSame(tab, high, tab2, high, lo) BY <2>8 DEF HaveTheSame
  <2>10. SymbolsBetween(cells2, tab2, lo, high) = SymbolsBetween(cells, tab, lo, high)
    BY <2>4, <2>5, <2>11, <2>9, SameSymbols
  <2> QED BY <2>10 DEF lo, high
<1>3. /\ ScopesOf(cells, tab, out) =
           [d \in 1..n |-> [fileScope |-> out[d].isFileScope,
                            symbols |-> SymbolsBetween(cells, tab, low(d), out[d].free)]]
      /\ ScopesOf(cells2, tab2, out) =
           [d \in 1..n |-> [fileScope |-> out[d].isFileScope,
                            symbols |-> SymbolsBetween(cells2, tab2, low(d), out[d].free)]]
  BY <1>1 DEF ScopesOf
<1> HIDE DEF low, n
<1> QED BY <1>2, <1>3

-----------------------------------------------------------------------------
(* What the table has when a pointer is added or deleted                   *)

LEMMA OnePrepended ==
    ASSUME NEW tab \in Seq(Int), NEW p \in Int, Ordered(tab),
           \A q \in Elements(tab) : (p > 0 <=> q > 0) => Newer(p, q)
    PROVE  /\ <<p>> \o tab \in Seq(Int) /\ Ordered(<<p>> \o tab)
           /\ Elements(<<p>> \o tab) = {p} \cup Elements(tab)
<1> DEFINE new == <<p>> \o tab
<1>1. /\ new \in Seq(Int) /\ Len(new) = Len(tab) + 1 /\ Len(tab) \in Nat /\ new[1] = p
      /\ \A i \in 1..Len(tab) : new[i + 1] = tab[i]
      /\ \A i \in 1..(Len(tab) + 1) : i # 1 => i - 1 \in 1..Len(tab) /\ new[i] = tab[i - 1]
  BY PrependFacts
<1> HIDE DEF new
<1>2. \A i \in 1..Len(tab) : tab[i] \in Elements(tab) /\ i + 1 \in 1..Len(new)
  BY <1>1 DEF Elements
<1>3. Ordered(new)
  <2> SUFFICES ASSUME NEW i \in 1..Len(new), NEW j \in 1..Len(new), i < j, new[i] > 0 <=> new[j] > 0
               PROVE  Newer(new[i], new[j])
    BY DEF Ordered
  <2>1. j - 1 \in 1..Len(tab) /\ new[j] = tab[j - 1]
    <3>1. j \in 1..(Len(tab) + 1) /\ j # 1 BY <1>1
    <3> QED BY <1>1, <3>1
  <2>2. CASE i = 1 BY <1>1, <1>2, <2>1, <2>2
  <2>3. CASE i # 1
    <3>1. i - 1 \in 1..Len(tab) /\ new[i] = tab[i - 1] /\ i - 1 < j - 1
      <4>1. i \in 1..(Len(tab) + 1) /\ i \in Nat /\ j \in Nat BY <1>1
      <4> QED BY <1>1, <2>3, <4>1
    <3> QED BY <2>1, <3>1 DEF Ordered
  <2> QED BY <2>2, <2>3
<1>4. p \in Elements(new)
  <2>1. 1 \in 1..Len(new) BY <1>1
  <2> QED BY <1>1, <2>1 DEF Elements
<1>5. ASSUME NEW q \in Elements(tab) PROVE q \in Elements(new)
  <2>1. PICK i \in 1..Len(tab) : q = tab[i] BY DEF Elements
  <2> QED BY <1>1, <1>2, <2>1 DEF Elements
<1>6. ASSUME NEW q \in Elements(new) PROVE q = p \/ q \in Elements(tab)
  <2>1. PICK i \in 1..Len(new) : q = new[i] BY DEF Elements
  <2>2. i \in 1..(Len(tab) + 1) BY <1>1
  <2> QED BY <1>1, <1>2, <2>1, <2>2
<1>7. Elements(new) = {p} \cup Elements(tab) BY <1>4, <1>5, <1>6
<1> QED BY <1>1, <1>3, <1>7 DEF new

\* A pointer into a memory is in the table once, and what is removed is that.
LEMMA OneRemoved ==
    ASSUME NEW tab \in Seq(Int), Ordered(tab), NEW k \in 1..Len(tab)
    PROVE  /\ RemoveAt(tab, k) \in Seq(Int) /\ Ordered(RemoveAt(tab, k))
           /\ Elements(RemoveAt(tab, k)) = Elements(tab) \ {tab[k]}
<1> DEFINE D == RemoveAt(tab, k)
           at(i) == IF i < k THEN i ELSE i + 1
<1>1. /\ D \in Seq(Int) /\ Len(D) = Len(tab) - 1
      /\ \A i \in 1..(Len(tab) - 1) : D[i] = IF i < k THEN tab[i] ELSE tab[i + 1]
  BY RemoveAtFacts
<1>2. Len(tab) \in Nat /\ k \in Nat OBVIOUS
<1> HIDE DEF D
<1>3. \A i \in 1..Len(D) : at(i) \in 1..Len(tab) /\ D[i] = tab[at(i)] /\ at(i) # k
  <2> SUFFICES ASSUME NEW i \in 1..Len(D) PROVE at(i) \in 1..Len(tab) /\ D[i] = tab[at(i)] /\ at(i) # k
    OBVIOUS
  <2>1. i \in 1..(Len(tab) - 1) BY <1>1
  <2>2. at(i) \in 1..Len(tab) /\ at(i) # k BY <1>2, <2>1
  <2>3. D[i] = tab[at(i)] BY <1>1, <2>1
  <2> QED BY <2>2, <2>3
<1>4. \A i, j \in 1..Len(D) : i < j => at(i) < at(j) BY SMTT(30), <1>1, <1>2
<1>5. \A i \in 1..Len(tab) : i # k => \E j \in 1..Len(D) : at(j) = i
  <2> SUFFICES ASSUME NEW i \in 1..Len(tab), i # k PROVE \E j \in 1..Len(D) : at(j) = i
    OBVIOUS
  <2>1. CASE i < k
    <3>1. i \in 1..Len(D) /\ at(i) = i BY <1>1, <1>2, <2>1
    <3> QED BY <3>1
  <2>2. CASE ~(i < k)
    <3>1. i - 1 \in 1..Len(D) /\ at(i - 1) = i BY <1>1, <1>2, <2>2
    <3> QED BY <3>1
  <2> QED BY <2>1, <2>2
<1> HIDE DEF at
<1>6. Ordered(D)
  <2> SUFFICES ASSUME NEW i \in 1..Len(D), NEW j \in 1..Len(D), i < j, D[i] > 0 <=> D[j] > 0
               PROVE  Newer(D[i], D[j])
    BY DEF Ordered
  <2> QED BY <1>3, <1>4 DEF Ordered
<1>7. \A i, j \in 1..Len(tab) : tab[i] = tab[j] => i = j
  <2> SUFFICES ASSUME NEW i \in 1..Len(tab), NEW j \in 1..Len(tab), tab[i] = tab[j], i < j PROVE FALSE
    <3>1. \A i, j \in 1..Len(tab) : i < j => tab[i] # tab[j] OBVIOUS
    <3> QED BY <1>2, <3>1
  <2>1. Newer(tab[i], tab[j]) /\ tab[i] \in Int BY DEF Ordered
  <2> QED BY <2>1 DEF Newer
<1>8. ASSUME NEW q \in Elements(D) PROVE q \in Elements(tab) /\ q # tab[k]
  <2>1. PICK i \in 1..Len(D) : q = D[i] BY DEF Elements
  <2>2. at(i) \in 1..Len(tab) /\ q = tab[at(i)] /\ at(i) # k BY <1>3, <2>1
  <2> QED BY <1>7, <2>2 DEF Elements
<1>9. ASSUME NEW q \in Elements(tab), q # tab[k] PROVE q \in Elements(D)
  <2>1. PICK i \in 1..Len(tab) : q = tab[i] BY DEF Elements
  <2>2. PICK j \in 1..Len(D) : at(j) = i BY <1>5, <1>9, <2>1
  <2> QED BY <1>3, <2>1, <2>2 DEF Elements
<1>10. Elements(D) = Elements(tab) \ {tab[k]} BY <1>8, <1>9
<1> QED BY <1>1, <1>6, <1>10 DEF D

LEMMA DeletesOne ==
    ASSUME NEW tab \in Seq(Int), Ordered(tab), NEW cells, NEW p \in Elements(tab), p > 0,
           \A q \in Elements(tab) : q > p \/ q <= 0 => ~SameSymbol(At(cells, q), At(cells, p))
    PROVE  /\ Delete(tab, cells, p) \in Seq(Int) /\ Ordered(Delete(tab, cells, p))
           /\ Elements(Delete(tab, cells, p)) = Elements(tab) \ {p}
<1> DEFINE E == Equal(tab, cells, p)
           k == CHOOSE i \in E : \A j \in E : i <= j
<1>0. Len(tab) \in Nat OBVIOUS
<1>1. DOMAIN tab = 1..Len(tab) OBVIOUS
<1>2. Delete(tab, cells, p) = IF E = {} THEN tab ELSE RemoveAt(tab, k)
  BY <1>1 DEF Delete, Equal
<1>3. E \in SUBSET Nat /\ E \subseteq 1..Len(tab) BY DEF Equal
<1>4. PICK n \in 1..Len(tab) : p = tab[n] BY DEF Elements
<1>5. n \in E BY <1>4 DEF Equal, SameSymbol
<1>6. \A i \in E : SameSymbol(At(cells, tab[i]), At(cells, p)) BY DEF Equal
<1> HIDE DEF E
<1>7. k \in E /\ k <= n BY <1>3, <1>5, Newest
<1> HIDE DEF k
<1>8. tab[k] \in Elements(tab) /\ tab[k] \in Int /\ k \in 1..Len(tab) /\ p \in Int
  BY <1>3, <1>4, <1>7 DEF Elements
<1>9. ~(tab[k] > p \/ tab[k] <= 0) BY <1>6, <1>7, <1>8
<1>10. k = n
  <2> SUFFICES ASSUME k < n PROVE FALSE
    BY <1>0, <1>7, <1>8
  <2>1. Newer(tab[k], tab[n]) BY <1>4, <1>8, <1>9 DEF Ordered
  <2> QED BY <1>4, <1>8, <1>9, <2>1 DEF Newer
<1> QED BY <1>2, <1>4, <1>5, <1>10, OneRemoved

LEMMA ReachedFromZero ==
    ASSUME NEW n \in Nat, NEW G, 0 \in G, \A i \in Nat : i < n /\ i \in G => i + 1 \in G
    PROVE  n \in G
<1> DEFINE Bad == {i \in Nat : i <= n /\ i \notin G}
<1>1. Bad = {}
  <2> SUFFICES ASSUME Bad # {} PROVE FALSE
    OBVIOUS
  <2>1. Bad \in SUBSET Nat OBVIOUS
  <2>2. PICK k \in Bad : \A j \in Bad : k <= j
    <3> HIDE DEF Bad
    <3> QED BY <2>1, LeastExists
  <2>3. k \in Nat /\ k <= n /\ k \notin G /\ k # 0 OBVIOUS
  <2>4. k - 1 \in Nat /\ ~(k <= k - 1) /\ k - 1 < n /\ (k - 1) + 1 = k BY <2>3
  <2>5. k - 1 \notin Bad
    <3> HIDE DEF Bad
    <3> QED BY <2>2, <2>4
  <2>6. k - 1 \in G BY <2>4, <2>5
  <2> QED BY <2>3, <2>4, <2>6
<1> QED BY <1>1

-----------------------------------------------------------------------------
(* What is left exactly after some of a block's actions                    *)

DeletedBy(fr, n) == {fr[j].symbol : j \in {j \in 1..n : fr[j].do = "delete"}}

LeftExactly(g, n) ==
  /\ Ordered(g.table)
  /\ Elements(g.table) = Elements(table) \ DeletedBy(frames, n)
  /\ \A i \in 1..Len(stack) : (\A j \in 1..n : frames[j].symbol # i) => g.cells[i] = stack[i]

LEMMA LeftExactlyStep ==
    ASSUME Typed, Good(table, Len(stack), Len(ppm)), FramesOf(stack, frames), FramesListed(table, frames),
           NEW n \in Nat, n < Len(frames), NEW g, Left(g, n), LeftExactly(g, n),
           frames[n + 1].do = "delete" =>
             \A q \in Elements(table) : q > frames[n + 1].symbol =>
               \E j \in 1..Len(frames) : frames[j].do = "delete" /\ frames[j].symbol = q
    PROVE  LeftExactly(Undo(g, frames[n + 1]), n + 1)
<1> DEFINE f == frames[n + 1]
           p == f.symbol
<1>1. /\ n + 1 \in 1..Len(frames) /\ f \in Frame /\ p \in 1..Len(stack)
      /\ Len(stack) \in Nat /\ Len(ppm) \in Nat /\ table \in Seq(Int) /\ frames \in Seq(Frame)
      /\ stack \in Seq(Cell) /\ ppm \in Seq(Macro) /\ Len(frames) \in Nat
  BY DEF Typed, FramesOf
<1>2. /\ g.table \in Seq(Int) /\ SameCells(g.cells, stack)
      /\ g = [table |-> g.table, cells |-> g.cells]
  BY DEF Left
<1>3. /\ Ordered(g.table)
      /\ \A q : q \in Elements(g.table) <=> q \in Elements(table) /\ q \notin DeletedBy(frames, n)
      /\ \A i \in 1..Len(stack) : (\A j \in 1..n : frames[j].symbol # i) => g.cells[i] = stack[i]
  BY DEF LeftExactly
<1>4. \A j \in 1..(n + 1) : j \in 1..n \/ j = n + 1 OBVIOUS
<1>10. \A j \in 1..n : j \in 1..(n + 1) /\ j \in 1..Len(frames) BY <1>1
<1>5. CASE f.do = "delete"
  <2> DEFINE D == Delete(g.table, g.cells, p)
  <2>1. Undo(g, f) = [table |-> D, cells |-> g.cells] BY <1>2, <1>5 DEF Undo
  <2>2. stack[p].type \in {"default", "tag"} /\ p > 1 BY <1>1, <1>5 DEF FramesOf
  <2>3. At(g.cells, p).type = stack[p].type BY <1>1, <1>2 DEF At, SameCells
  <2>4. p \in Elements(table) BY <1>1, <1>5 DEF FramesListed
  <2>5. \A j \in 1..n : frames[j].do = "delete" => frames[j].symbol > p
    <3> SUFFICES ASSUME NEW j \in 1..n, frames[j].do = "delete" PROVE frames[j].symbol > p
      OBVIOUS
    <3>1. j \in 1..Len(frames) /\ j < n + 1 BY <1>10
    <3> QED BY <1>1, <1>5, <3>1 DEF FramesOf
  <2>6. p \notin DeletedBy(frames, n) BY <1>1, <2>5 DEF DeletedBy
  <2>7. ASSUME NEW q \in Elements(g.table), q > p \/ q <= 0
        PROVE  ~SameSymbol(At(g.cells, q), At(g.cells, p))
    <3>1. q \in Elements(table) /\ q \notin DeletedBy(frames, n) BY <1>3
    <3>2. q \in Int /\ (q \in 1..Len(stack) \/ -q \in 1..Len(ppm))
      BY <1>1, <3>1 DEF Good, Elements
    <3>3. CASE q > p
      <4>1. PICK j \in 1..Len(frames) : frames[j].do = "delete" /\ frames[j].symbol = q
        BY <1>5, <3>1, <3>3
      <4>2. j <= n BY <1>1, <1>5, <3>2, <3>3, <4>1, SMTT(30) DEF FramesOf
      <4>3. j \in 1..n BY <1>1, <4>2
      <4> QED BY <3>1, <4>1, <4>3 DEF DeletedBy
    <3>4. CASE q <= 0
      <4>1. -q \in 1..Len(ppm) BY <1>1, <3>2, <3>4
      <4>2. At(g.cells, q) = ppm[-q] /\ ppm[-q] \in Macro
        BY <1>1, <3>2, <3>4, <4>1 DEF At
      <4>3. At(g.cells, q).type = "macro" BY <4>2 DEF Macro
      <4> QED BY <2>2, <2>3, <4>3 DEF SameSymbol
    <3> QED BY <2>7, <3>3, <3>4
  <2>8. p \in Elements(g.table) /\ p > 0 BY <1>1, <1>3, <2>4, <2>6
  <2> HIDE DEF p
  <2>9. Ordered(D) /\ Elements(D) = Elements(g.table) \ {p}
    BY <1>2, <1>3, <2>7, <2>8, DeletesOne
  <2> HIDE DEF D
  <2>10. DeletedBy(frames, n + 1) = DeletedBy(frames, n) \cup {p}
    <3>1. \A q \in DeletedBy(frames, n) : q \in DeletedBy(frames, n + 1)
      BY <1>10 DEF DeletedBy
    <3>2. p \in DeletedBy(frames, n + 1)
      <4>1. n + 1 \in 1..(n + 1) OBVIOUS
      <4> QED BY <1>5, <4>1 DEF DeletedBy, p
    <3>3. \A q \in DeletedBy(frames, n + 1) : q = p \/ q \in DeletedBy(frames, n)
      BY <1>4 DEF DeletedBy, p
    <3> QED BY <3>1, <3>2, <3>3
  <2>11. Elements(D) = Elements(table) \ DeletedBy(frames, n + 1)
    BY <1>3, <2>9, <2>10
  <2>12. \A i \in 1..Len(stack) : (\A j \in 1..(n + 1) : frames[j].symbol # i) => g.cells[i] = stack[i]
    BY <1>3, <1>10
  <2> QED BY <2>1, <2>9, <2>11, <2>12 DEF LeftExactly
<1>6. CASE f.do # "delete"
  <2> DEFINE cells == [g.cells EXCEPT ![p].members = None]
  <2>1. Undo(g, f) = [table |-> g.table, cells |-> cells] BY <1>2, <1>6 DEF Undo
  <2>2. g.cells \in Seq(Cell) /\ p \in 1..Len(g.cells) /\ Len(g.cells) = Len(stack)
    BY <1>1, <1>2 DEF SameCells
  <2>3. \A i \in 1..Len(stack) : i # p => cells[i] = g.cells[i] BY <2>2
  <2> HIDE DEF cells
  <2>4. DeletedBy(frames, n + 1) = DeletedBy(frames, n)
    <3>1. \A q \in DeletedBy(frames, n) : q \in DeletedBy(frames, n + 1)
      BY <1>10 DEF DeletedBy
    <3>2. \A q \in DeletedBy(frames, n + 1) : q \in DeletedBy(frames, n)
      BY <1>4, <1>6 DEF DeletedBy
    <3> QED BY <3>1, <3>2
  <2>5. ASSUME NEW i \in 1..Len(stack), \A j \in 1..(n + 1) : frames[j].symbol # i
        PROVE  cells[i] = stack[i]
    <3>1. n + 1 \in 1..(n + 1) OBVIOUS
    <3>2. i # p /\ \A j \in 1..n : frames[j].symbol # i BY <1>10, <2>5, <3>1
    <3> QED BY <1>3, <2>3, <3>2
  <2>6. Elements(g.table) = Elements(table) \ DeletedBy(frames, n + 1)
    BY <1>3, <2>4
  <2> QED BY <1>3, <2>1, <2>5, <2>6 DEF LeftExactly
<1> QED BY <1>5, <1>6

\* The end of a block takes out what the block's frames are to take out and nothing
\* else, and changes no tag but those they name.
LEMMA UnwoundExactly ==
    ASSUME Typed, Good(table, Len(stack), Len(ppm)), Ordered(table), FramesOf(stack, frames),
           FramesListed(table, frames),
           outer # <<>>, BlocksNest(outer, frames, Len(stack)),
           \A q \in Elements(table) : q > Last(outer).free =>
             \E j \in 1..Len(frames) : frames[j].do = "delete" /\ frames[j].symbol = q
    PROVE  /\ Left(Unwind(Last(outer).frames), Len(frames) - Len(Last(outer).frames))
           /\ LeftExactly(Unwind(Last(outer).frames), Len(frames) - Len(Last(outer).frames))
<1> DEFINE b == Last(outer)
           own == Len(frames) - Len(b.frames)
<1>1. /\ Len(frames) \in Nat /\ b \in Block /\ Outside(b, frames, Len(stack))
      /\ table \in Seq(Int) /\ stack \in Seq(Cell)
  <2>1. outer \in Seq(Block) /\ frames \in Seq(Frame) /\ table \in Seq(Int) /\ stack \in Seq(Cell)
    BY DEF Typed
  <2>2. b \in Block /\ b = outer[Len(outer)] /\ Len(outer) \in 1..Len(outer)
    BY <2>1, FrontFacts
  <2>3. Outside(b, frames, Len(stack)) BY <2>2 DEF BlocksNest
  <2> QED BY <2>1, <2>2, <2>3
<1>2. own \in Nat /\ own <= Len(frames) /\ b.free \in Nat
  BY <1>1 DEF Outside, Block
<1>3. PICK g : Undone(g, own) /\ Unwind(b.frames) = g[own]
  BY <1>2, UnwindIsUndone
<1>4. \A j \in 1..own : frames[j].do = "delete" => frames[j].symbol > b.free
  BY <1>1 DEF Outside
<1>9. Descends(table) BY <1>1 DEF Descends, Ordered, Newer
<1> HIDE DEF b, own
<1> DEFINE G == {n \in Nat : Left(g[n], n) /\ LeftExactly(g[n], n)}
<1>5. Left(g[0], 0) /\ LeftExactly(g[0], 0)
  <2>1. g[0].table = table /\ g[0].cells = stack /\ g[0] = [table |-> g[0].table, cells |-> g[0].cells]
    BY <1>3 DEF Undone
  <2>2. Within(table, table) /\ SameCells(stack, stack)
    BY <1>1 DEF Within, SameCells
  <2>3. DeletedBy(frames, 0) = {} BY DEF DeletedBy
  <2>4. Left(g[0], 0) BY <1>1, <1>9, <2>1, <2>2 DEF Left
  <2>5. LeftExactly(g[0], 0) BY <2>1, <2>3 DEF LeftExactly
  <2> QED BY <2>4, <2>5
<1>6. ASSUME NEW n \in Nat, n < own, Left(g[n], n), LeftExactly(g[n], n)
      PROVE  Left(g[n + 1], n + 1) /\ LeftExactly(g[n + 1], n + 1)
  <2>1. n + 1 \in 1..own /\ (n + 1) - 1 = n /\ n < Len(frames) /\ n + 1 \in 1..Len(frames)
    <3>1. n \in Nat /\ n < own /\ own \in Nat /\ own <= Len(frames) /\ Len(frames) \in Nat
      BY <1>1, <1>2, <1>6
    <3> QED BY <3>1, SMTT(30)
  <2>2. g[n + 1] = Undo(g[n], frames[n + 1]) BY <1>3, <2>1 DEF Undone
  <2>3. ASSUME frames[n + 1].do = "delete", NEW q \in Elements(table), q > frames[n + 1].symbol
        PROVE  \E j \in 1..Len(frames) : frames[j].do = "delete" /\ frames[j].symbol = q
    <3>1. frames[n + 1].symbol > b.free /\ frames[n + 1] \in Frame /\ q \in Int
      BY <1>1, <1>4, <2>1, <2>3 DEF Typed, Elements
    <3>2. q > b.free BY <1>2, <2>3, <3>1 DEF Frame
    <3> QED BY <3>2 DEF b
  <2>4. \A i \in 1..Len(table) : table[i] \in Elements(table) BY DEF Elements
  <2>5. Left(Undo(g[n], frames[n + 1]), n + 1)
    BY <1>6, <1>9, <2>1, <2>3, <2>4, LeftStep
  <2>6. LeftExactly(Undo(g[n], frames[n + 1]), n + 1)
    BY <1>6, <2>1, <2>3, LeftExactlyStep
  <2> QED BY <2>2, <2>5, <2>6
<1>7. own \in G
  <2>1. 0 \in G BY <1>5
  <2>2. \A n \in Nat : n < own /\ n \in G => n + 1 \in G BY <1>6
  <2> HIDE DEF G
  <2> QED BY <1>2, <2>1, <2>2, ReachedFromZero
<1> QED BY <1>3, <1>7 DEF b, own

-----------------------------------------------------------------------------
(* What is recovered exactly                                               *)

LEMMA RecoveredExactly ==
    ASSUME Typed, Ordered(table), NEW free \in Nat, NEW macros \in Nat
    PROVE  /\ Recovered(free, macros) \in Seq(Int) /\ Ordered(Recovered(free, macros))
           /\ Elements(Recovered(free, macros)) =
                {p \in Elements(table) : IF p > 0 THEN p <= free ELSE -p <= macros}
<1> DEFINE len == Len(table)
           freed(p) == IF p > 0 THEN p > free ELSE -p > macros
           W == {p \in Int : ~freed(p)}
<1>1. PICK g : /\ Recovered(free, macros) = g[len] /\ g[0] = <<>>
               /\ \A n \in 1..len : g[n] = IF freed(table[n]) THEN g[n - 1]
                                           ELSE Append(g[n - 1], table[n])
  BY RecoveredIsChained, SMTT(30)
<1>2. table \in Seq(Int) /\ len \in Nat BY DEF Typed
<1>3. PICK h : /\ Among(table, W) = h[len] /\ h[0] = <<>>
               /\ \A n \in 1..len : h[n] = IF table[n] \in W THEN Append(h[n - 1], table[n])
                                           ELSE h[n - 1]
  <2> HIDE DEF W
  <2> QED BY <1>2, AmongIsChained, SMTT(30)
<1>4. \A n \in 1..len : table[n] \in W <=> ~freed(table[n])
  <2> SUFFICES ASSUME NEW n \in 1..len PROVE table[n] \in W <=> ~freed(table[n])
    OBVIOUS
  <2>1. table[n] \in Int BY <1>2
  <2> QED BY <2>1
<1> DEFINE G == {n \in Nat : g[n] = h[n]}
<1>5. len \in G
  <2> HIDE DEF len, W, freed
  <2>1. 0 \in G BY <1>1, <1>3
  <2>2. ASSUME NEW n \in Nat, n < len, n \in G PROVE n + 1 \in G
    <3>1. n + 1 \in 1..len /\ (n + 1) - 1 = n /\ g[n] = h[n] BY <1>2, <2>2
    <3> QED BY <1>1, <1>3, <1>4, <3>1
  <2> HIDE DEF G
  <2> QED BY <1>2, <2>1, <2>2, ReachedFromZero
<1>6. Recovered(free, macros) = Among(table, W) BY <1>1, <1>3, <1>5
<1>7. Elements(table) \cap W = {p \in Elements(table) : IF p > 0 THEN p <= free ELSE -p <= macros}
  <2>1. \A p \in Elements(table) : p \in Int BY <1>2 DEF Elements
  <2>2. \A p \in Int : p \in W <=> IF p > 0 THEN p <= free ELSE -p <= macros
    OBVIOUS
  <2> HIDE DEF W
  <2> QED BY <2>1, <2>2
<1> HIDE DEF W
<1> QED BY <1>2, <1>6, <1>7, AmongFacts

-----------------------------------------------------------------------------
(* A symbol less, and a symbol that gets complete                          *)

IsAt(p, own, i) == own[i] = p
LacksOne(tab2, tab, p) == Elements(tab2) = Elements(tab) \ {p}
Without(s2, s, i) == s2 = RemoveAt(s, i)
CompleteAt(s2, s, i) == s2 = [s EXCEPT ![i].complete = TRUE]
CompleteOf(d2, d) == d2 = [d EXCEPT !.complete = TRUE]

LEMMA OneLessSymbol ==
    ASSUME NEW tab \in Seq(Int), Ordered(tab), NEW tab2 \in Seq(Int), Ordered(tab2),
           NEW low \in Nat, NEW high \in Nat, NEW cells \in Seq(Cell),
           LookTheSame(cells, cells, Elements(tab) \cap ((low + 1)..high)),
           NEW i \in 1..Len(Own(tab, low, high)), NEW p, IsAt(p, Own(tab, low, high), i),
           LacksOne(tab2, tab, p)
    PROVE  /\ Without(SymbolsBetween(cells, tab2, low, high), SymbolsBetween(cells, tab, low, high), i)
           /\ Without(Own(tab2, low, high), Own(tab, low, high), i)
<1>0. Elements(tab2) = Elements(tab) \ {Own(tab, low, high)[i]}
  BY DEF IsAt, LacksOne
<1> USE <1>0 DEF Without
<1> DEFINE own == Own(tab, low, high)
           own2 == Own(tab2, low, high)
           less == RemoveAt(own, i)
           s == SymbolsBetween(cells, tab, low, high)
           s2 == SymbolsBetween(cells, tab2, low, high)
           t == RemoveAt(s, i)
           W == (low + 1)..high
<1>1. IsOwn(own, tab, low, high) BY OwnFacts
<1>2. /\ s \in Seq(Description) /\ Len(s) = Len(own)
      /\ \A k \in 1..Len(own) : own[k] \in Elements(tab) \cap W /\ s[k] = Described(cells[own[k]])
  <2>1. Allocated(cells, Elements(tab) \cap W) BY DEF Allocated, LookTheSame
  <2>2. AreSymbols(s, own, cells, tab, low, high) BY <2>1, SymbolsAre
  <2> QED BY <2>2 DEF AreSymbols
<1>3. /\ s2 \in Seq(Description) /\ Len(s2) = Len(own2)
      /\ \A k \in 1..Len(own2) : s2[k] = Described(cells[own2[k]])
  <2>1. Allocated(cells, Elements(tab2) \cap W) BY DEF LookTheSame, Allocated
  <2>2. AreSymbols(s2, own2, cells, tab2, low, high) BY <2>1, SymbolsAre
  <2> QED BY <2>2 DEF AreSymbols
<1> HIDE DEF own, s, s2
<1>4. own \in Seq(Int) /\ NewestFirst(own) /\ i \in 1..Len(own) /\ Len(own) \in Nat
  BY <1>1 DEF IsOwn, own
<1>5. Ordered(own) BY <1>4 DEF NewestFirst, Ordered
<1>6. less \in Seq(Int) /\ Ordered(less) /\ Elements(less) = Elements(own) \ {own[i]}
  BY <1>4, <1>5, OneRemoved
<1>7. /\ Len(less) = Len(own) - 1
      /\ \A k \in 1..(Len(own) - 1) : less[k] = IF k < i THEN own[k] ELSE own[k + 1]
  BY <1>4, RemoveAtFacts
<1>8. /\ t \in Seq(Description) /\ Len(t) = Len(s) - 1
      /\ \A k \in 1..(Len(s) - 1) : t[k] = IF k < i THEN s[k] ELSE s[k + 1]
  BY <1>2, <1>4, RemoveAtFacts
<1> HIDE DEF less, t
<1>9. NewestFirst(less)
  <2> SUFFICES ASSUME NEW k \in 1..Len(less), NEW l \in 1..Len(less), k < l PROVE Newer(less[k], less[l])
    BY DEF NewestFirst
  <2>1. less[k] \in Elements(own) /\ less[l] \in Elements(own)
    BY <1>6 DEF Elements
  <2>2. less[k] > 0 /\ less[l] > 0
    <3>1. \A q \in Elements(own) : q \in (low + 1)..high BY <1>1 DEF IsOwn
    <3>2. \A q \in Elements(own) : q > 0 BY <3>1
    <3> QED BY <2>1, <3>2
  <2> QED BY <1>6, <2>2 DEF Ordered
<1>10. own2 = less
  <2>1. Elements(less) = Elements(tab2) \cap W BY <1>1, <1>6 DEF IsOwn, own
  <2>2. IsOwn(less, tab2, low, high) BY <1>6, <1>9, <2>1 DEF IsOwn
  <2> QED BY <2>2, OwnIs DEF own2
<1> HIDE DEF own2
<1>11. ASSUME NEW k \in 1..Len(s2) PROVE s2[k] = t[k]
  <2>1. k \in 1..(Len(own) - 1) /\ s2[k] = Described(cells[less[k]])
    BY <1>3, <1>7, <1>10
  <2>2. k \in 1..Len(own) /\ k + 1 \in 1..Len(own) /\ k \in 1..(Len(s) - 1)
    BY <1>2, <1>4, <2>1
  <2>3. CASE k < i BY <1>2, <1>7, <1>8, <2>1, <2>2, <2>3
  <2>4. CASE ~(k < i) BY <1>2, <1>7, <1>8, <2>1, <2>2, <2>4
  <2> QED BY <2>3, <2>4
<1>12. Len(s2) = Len(t) BY <1>2, <1>3, <1>7, <1>8, <1>10
<1>13. s2 = t BY <1>3, <1>8, <1>11, <1>12, SameSequence
<1> QED BY <1>10, <1>13 DEF own, own2, less, s, s2, t

LEMMA OneCompleted ==
    ASSUME NEW tab \in Seq(Int), Ordered(tab),
           NEW low \in Nat, NEW high \in Nat, NEW high2 \in Nat,
           NEW cells \in Seq(Cell), NEW cells2 \in Seq(Cell),
           HaveTheSame(tab, high, tab, high2, low),
           NEW i \in 1..Len(Own(tab, low, high)), NEW p, IsAt(p, Own(tab, low, high), i),
           LookTheSame(cells, cells2, (Elements(tab) \cap ((low + 1)..high)) \ {p}),
           p \in 1..Len(cells), p \in 1..Len(cells2),
           CompleteOf(Described(cells2[p]), Described(cells[p]))
    PROVE  CompleteAt(SymbolsBetween(cells2, tab, low, high2), SymbolsBetween(cells, tab, low, high), i)
<1> USE DEF IsAt, CompleteOf, CompleteAt
<1> DEFINE own == Own(tab, low, high)
           own2 == Own(tab, low, high2)
           s == SymbolsBetween(cells, tab, low, high)
           s2 == SymbolsBetween(cells2, tab, low, high2)
           t == [s EXCEPT ![i].complete = TRUE]
           W == (low + 1)..high
<1>1. IsOwn(own, tab, low, high) BY OwnFacts
<1>2. own2 = own
  <2>1. IsOwn(own, tab, low, high2) BY <1>1 DEF IsOwn, HaveTheSame
  <2> QED BY <2>1, OwnIs
<1>3. \A q \in Elements(tab) \cap W : q # p =>
        q \in 1..Len(cells) /\ q \in 1..Len(cells2) /\ Described(cells[q]) = Described(cells2[q])
  BY DEF LookTheSame
<1>4. /\ s \in Seq(Description) /\ Len(s) = Len(own)
      /\ \A k \in 1..Len(own) : own[k] \in Elements(tab) \cap W /\ s[k] = Described(cells[own[k]])
  <2>1. Allocated(cells, Elements(tab) \cap W) BY <1>3 DEF Allocated
  <2>2. AreSymbols(s, own, cells, tab, low, high) BY <2>1, SymbolsAre
  <2> QED BY <2>2 DEF AreSymbols
<1>5. /\ s2 \in Seq(Description) /\ Len(s2) = Len(own2)
      /\ \A k \in 1..Len(own2) : s2[k] = Described(cells2[own2[k]])
  <2>1. Allocated(cells2, Elements(tab) \cap ((low + 1)..high2))
    BY <1>3 DEF HaveTheSame, Allocated
  <2>2. AreSymbols(s2, own2, cells2, tab, low, high2) BY <2>1, SymbolsAre
  <2> QED BY <2>2 DEF AreSymbols
<1> HIDE DEF own, own2, s, s2, W
<1>6. own \in Seq(Int) /\ NewestFirst(own) /\ i \in 1..Len(own) /\ Len(own) \in Nat /\ own[i] = p
  BY <1>1 DEF IsOwn, own
<1>7. \A k \in 1..Len(own) : k # i => own[k] # p
  <2> SUFFICES ASSUME NEW k \in 1..Len(own), k # i, own[k] = own[i] PROVE FALSE
    BY <1>6
  <2>1. k < i \/ i < k BY <1>6
  <2>2. Newer(own[k], own[i]) \/ Newer(own[i], own[k])
    BY <1>6, <2>1 DEF NewestFirst
  <2>3. own[k] \in Int /\ own[i] \in Int BY <1>6
  <2> QED BY <2>2, <2>3 DEF Newer
<1>8. s[i] \in Description /\ [s[i] EXCEPT !.complete = TRUE] \in Description
  <2>1. s[i] \in Description BY <1>4, <1>6
  <2> QED BY <2>1 DEF Description
<1>9. /\ t \in Seq(Description) /\ Len(t) = Len(s)
      /\ \A k \in 1..Len(s) : t[k] = IF k = i THEN [s[i] EXCEPT !.complete = TRUE] ELSE s[k]
  <2>1. i \in 1..Len(s) BY <1>4, <1>6
  <2> QED BY <1>4, <1>8, <2>1
<1> HIDE DEF t
<1>10. ASSUME NEW k \in 1..Len(s2) PROVE s2[k] = t[k]
  <2>1. k \in 1..Len(own) /\ k \in 1..Len(s) /\ s2[k] = Described(cells2[own[k]])
    BY <1>2, <1>4, <1>5
  <2>2. s[k] = Described(cells[own[k]]) /\ own[k] \in Elements(tab) \cap W
    BY <1>4, <2>1
  <2>3. CASE k = i BY <1>6, <1>9, <2>1, <2>2, <2>3
  <2>4. CASE k # i
    <3>1. t[k] = s[k] BY <1>9, <2>1, <2>4
    <3>2. own[k] # p BY <1>7, <2>1, <2>4
    <3> QED BY <1>3, <2>1, <2>2, <3>1, <3>2
  <2> QED BY <2>3, <2>4
<1>11. Len(s2) = Len(t) BY <1>2, <1>4, <1>5, <1>9
<1>12. s2 = t BY <1>5, <1>9, <1>10, <1>11, SameSequence
<1> QED BY <1>12 DEF s, s2, t

LEMMA ElementsAre ==
    ASSUME NEW tab \in Seq(Int), NEW n \in Nat, NEW m \in Nat, Good(tab, n, m)
    PROVE  \A p \in Elements(tab) : p \in Int /\ (p \in 1..n \/ -p \in 1..m) /\ (p > 0 => p \in 1..n)
<1> SUFFICES ASSUME NEW i \in 1..Len(tab)
             PROVE  tab[i] \in Int /\ (tab[i] \in 1..n \/ -tab[i] \in 1..m) /\ (tab[i] > 0 => tab[i] \in 1..n)
  BY DEF Elements
<1>1. tab[i] \in Int /\ (tab[i] \in 1..n \/ -tab[i] \in 1..m) BY DEF Good
<1> QED BY <1>1

\* Cells may change if the symbols stay what they are.
LEMMA ExactOfCells ==
    ASSUME NEW cells, NEW cells2, NEW m, NEW tab, NEW fr, NEW out, NEW con,
           HasExactly(cells, m, tab, fr, out, con), cells2[1] = Keyword,
           \A p \in Elements(tab) : p > 0 => cells2[p].type = cells[p].type /\ cells2[p].name = cells[p].name,
           \A k \in 1..Len(con) : con[k].kind = "tag" => con[k].symbol > 0,
           \A p \in Elements(tab) : p \in Int
    PROVE  HasExactly(cells2, m, tab, fr, out, con)
<1>1. OneTag(cells2, tab, out)
  <2> SUFFICES ASSUME NEW p \in Elements(tab), NEW q \in Elements(tab), p > 0, q > p,
                      cells2[p].type = "tag", cells2[q].type = "tag", cells2[p].name = cells2[q].name
               PROVE  \E d \in 1..Len(out) : p <= out[d].free /\ out[d].free < q
    BY DEF OneTag
  <2>1. q > 0 /\ OneTag(cells, tab, out) BY DEF HasExactly
  <2>2. cells[p].type = "tag" /\ cells[q].type = "tag" /\ cells[p].name = cells[q].name
    BY <2>1
  <2> QED BY <2>1, <2>2 DEF OneTag
<1>2. OpenListed(cells2, tab, con)
  <2>1. OpenListed(cells, tab, con) BY DEF HasExactly
  <2> QED BY <2>1 DEF OpenListed
<1> QED BY <1>1, <1>2 DEF HasExactly

\* A newer pointer
LEMMA ExactOfMore ==
    ASSUME NEW cells, NEW m \in Nat, NEW tab \in Seq(Int), NEW fr, NEW out, NEW con,
           HasExactly(cells, m, tab, fr, out, con), NEW p \in Int,
           \A q \in Elements(tab) : (p > 0 <=> q > 0) => Newer(p, q),
           p > 0 /\ cells[p].type = "tag" =>
             \A q \in Elements(tab) : q > 0 /\ cells[q].type = "tag" /\ cells[q].name = cells[p].name =>
               \E d \in 1..Len(out) : q <= out[d].free /\ out[d].free < p
    PROVE  HasExactly(cells, m, <<p>> \o tab, fr, out, con)
<1> DEFINE new == <<p>> \o tab
<1>1. new \in Seq(Int) /\ Ordered(new) /\ Elements(new) = {p} \cup Elements(tab)
  BY OnePrepended DEF HasExactly
<1> HIDE DEF new
<1>2. \A q \in Elements(tab) : q \in Int BY DEF Elements
<1>3. OneTag(cells, new, out)
  <2> SUFFICES ASSUME NEW q \in Elements(new), NEW r \in Elements(new), q > 0, r > q,
                      cells[q].type = "tag", cells[r].type = "tag", cells[q].name = cells[r].name
               PROVE  \E d \in 1..Len(out) : q <= out[d].free /\ out[d].free < r
    BY DEF OneTag
  <2>1. q \in Int /\ r \in Int /\ r > 0 BY <1>1, <1>2
  <2>2. q # p
    <3> SUFFICES ASSUME q = p PROVE FALSE
      OBVIOUS
    <3>1. r \in Elements(tab) BY <1>1, <2>1
    <3>2. Newer(p, r) BY <2>1, <3>1
    <3> QED BY <2>1, <3>2 DEF Newer
  <2>3. q \in Elements(tab) BY <1>1, <2>2
  <2>4. CASE r = p BY <2>1, <2>3, <2>4
  <2>5. CASE r # p BY <1>1, <2>3, <2>5 DEF HasExactly, OneTag
  <2> QED BY <2>4, <2>5
<1>4. FramesListed(new, fr) /\ OpenListed(cells, new, con)
  BY <1>1 DEF HasExactly, FramesListed, OpenListed
<1>5. 1 \in Elements(new) /\ \A q \in 1..m : -q \in Elements(new)
  BY <1>1 DEF HasExactly
<1> QED BY <1>1, <1>3, <1>4, <1>5 DEF HasExactly, new

\* A pointer less, that nothing needs
LEMMA ExactOfLess ==
    ASSUME NEW cells, NEW m, NEW tab, NEW tab2, NEW fr, NEW out, NEW con,
           HasExactly(cells, m, tab, fr, out, con), Ordered(tab2),
           NEW p, Elements(tab2) = Elements(tab) \ {p}, p \in Nat, p > 1, cells[p].type = "label",
           \A i \in 1..Len(fr) : fr[i].do = "delete" => fr[i].symbol # p,
           \A k \in 1..Len(con) : p \notin Labels(con[k])
    PROVE  HasExactly(cells, m, tab2, fr, out, con)
<1>1. OneTag(cells, tab2, out) BY DEF HasExactly, OneTag
<1>2. FramesListed(tab2, fr) BY DEF HasExactly, FramesListed
<1>3. OpenListed(cells, tab2, con)
  <2>1. \A k \in 1..Len(con) : \A q \in Labels(con[k]) : q \in Elements(tab2)
    BY DEF HasExactly, OpenListed
  <2>2. ASSUME NEW k \in 1..Len(con), con[k].kind = "tag"
        PROVE  /\ con[k].symbol \in Elements(tab2)
               /\ cells[con[k].symbol].type = "tag" /\ cells[con[k].symbol].name \in Names
    <3>1. /\ con[k].symbol \in Elements(tab)
          /\ cells[con[k].symbol].type = "tag" /\ cells[con[k].symbol].name \in Names
      BY <2>2 DEF HasExactly, OpenListed
    <3>2. con[k].symbol # p BY <3>1
    <3> QED BY <3>1, <3>2
  <2> QED BY <2>1, <2>2 DEF OpenListed
<1>4. 1 \in Elements(tab2) /\ \A q \in 1..m : -q \in Elements(tab2)
  <2>1. \A q \in 1..m : -q # p OBVIOUS
  <2> QED BY <2>1 DEF HasExactly
<1> QED BY <1>1, <1>2, <1>3, <1>4 DEF HasExactly

\* A newer action
LEMMA ExactOfFrame ==
    ASSUME NEW cells, NEW m, NEW tab, NEW fr \in Seq(Frame), NEW out \in Seq(Block), NEW con,
           HasExactly(cells, m, tab, fr, out, con), NEW f \in Frame,
           f.do = "delete" => f.symbol \in Elements(tab),
           \A d \in 1..Len(out) : f.symbol > out[d].free
    PROVE  HasExactly(cells, m, tab, <<f>> \o fr, out, con)
<1> DEFINE new == <<f>> \o fr
<1>1. /\ new \in Seq(Frame) /\ Len(new) = Len(fr) + 1 /\ Len(fr) \in Nat /\ new[1] = f
      /\ \A i \in 1..(Len(fr) + 1) : i # 1 => i - 1 \in 1..Len(fr) /\ new[i] = fr[i - 1]
  BY PrependFacts
<1> HIDE DEF new
<1>3. FramesListed(tab, new)
  <2> SUFFICES ASSUME NEW i \in 1..(Len(fr) + 1), new[i].do = "delete" PROVE new[i].symbol \in Elements(tab)
    BY <1>1 DEF FramesListed
  <2>1. CASE i = 1 BY <1>1, <2>1
  <2>2. CASE i # 1 BY <1>1, <2>2 DEF HasExactly, FramesListed
  <2> QED BY <2>1, <2>2
<1>4. NullsInside(new, out)
  <2> SUFFICES ASSUME NEW d \in 1..Len(out), NEW i \in 1..(Len(new) - Len(out[d].frames))
               PROVE  new[i].symbol > out[d].free
    BY DEF NullsInside
  <2>1. Len(out[d].frames) \in Nat
    <3>1. out[d] \in Block OBVIOUS
    <3> QED BY <3>1 DEF Block
  <2>2. CASE i = 1 BY <1>1, <2>2
  <2>3. CASE i # 1
    <3>1. i \in 1..(Len(fr) + 1) /\ i - 1 \in 1..(Len(fr) - Len(out[d].frames))
      BY <1>1, <2>1, <2>3
    <3> QED BY <1>1, <2>3, <3>1 DEF HasExactly, NullsInside
  <2> QED BY <2>2, <2>3
<1> QED BY <1>3, <1>4 DEF HasExactly, new

Deeper(c) == IF BeginsBlock(c) THEN 1 ELSE 0

LEMMA LoopsMore ==
    ASSUME NEW out \in Seq(Block), NEW out2 \in Seq(Block), NEW con \in Seq(Construct), NEW c \in Construct,
           LoopsInside(out, con),
           Len(out2) = Len(out) + Deeper(c), \A d \in 1..Len(out) : out2[d] = out[d],
           \A p \in Labels(c), d \in 1..Len(out2) : out2[d].free < p
    PROVE  LoopsInside(out2, Append(con, c))
<1> DEFINE n == Len(con)
           more == Append(con, c)
<1>0. /\ more \in Seq(Construct) /\ Len(more) = n + 1 /\ n \in Nat /\ more[n + 1] = c
      /\ \A i \in 1..n : more[i] = con[i] /\ i \in 1..(n + 1)
      /\ \A i \in 1..(n + 1) : i # n + 1 => i \in 1..n
  BY AppendFacts
<1>1. Len(out) \in Nat /\ Len(out2) \in Nat /\ Deeper(c) \in {0, 1}
  BY DEF Deeper
<1> HIDE DEF more, n
<1> SUFFICES ASSUME NEW lv \in [1..(n + 1) -> 0..Len(out2)], Depths(out2, more, lv),
                    NEW k \in 1..(n + 1), NEW p \in Labels(more[k]), NEW d \in 1..lv[k]
             PROVE  out2[d].free < p
  BY <1>0 DEF LoopsInside, more
<1>2. lv[n + 1] = Len(out2) /\ n + 1 \in 1..(n + 1) BY <1>0 DEF Depths
<1>3. CASE k = n + 1 BY <1>0, <1>2, <1>3
<1>4. CASE k # n + 1
  <2> DEFINE old == [i \in 1..n |-> lv[i]]
  <2>1. k \in 1..n /\ n \in 1..n /\ n > 0 /\ \A i \in 1..n : i \in 1..(n + 1)
    BY <1>0, <1>4
  <2>2. lv[n] = Len(out)
    <3>1. n \in 1..(Len(more) - 1) /\ lv[n] \in 0..Len(out2) BY <1>0, <2>1
    <3>2. lv[n + 1] = lv[n] + Deeper(c) BY <1>0, <3>1 DEF Depths, Deeper
    <3> QED BY <1>1, <1>2, <3>1, <3>2
  <2>3. \A i, j \in 1..n : i < j => lv[i] <= lv[j] BY <1>0, <2>1 DEF Depths
  <2>4. \A i \in 1..n : lv[i] \in 0..Len(out)
    <3> SUFFICES ASSUME NEW i \in 1..n PROVE lv[i] \in 0..Len(out)
      OBVIOUS
    <3>1. lv[i] \in 0..Len(out2) /\ (i = n \/ i < n) BY <1>0, <2>1
    <3>2. lv[i] <= lv[n] BY <1>1, <2>1, <2>2, <2>3, <3>1
    <3> QED BY <1>1, <2>2, <3>1, <3>2
  <2>5. old \in [1..n -> 0..Len(out)] /\ \A i \in 1..n : old[i] = lv[i] BY <2>4
  <2> HIDE DEF old
  <2>6. ASSUME NEW i \in 1..(n - 1) PROVE old[i + 1] = old[i] + IF BeginsBlock(con[i + 1]) THEN 1 ELSE 0
    <3>1. i \in 1..n /\ i + 1 \in 1..n /\ i \in 1..(Len(more) - 1) BY <1>0
    <3>2. lv[i + 1] = lv[i] + IF BeginsBlock(more[i + 1]) THEN 1 ELSE 0
      BY <3>1 DEF Depths
    <3> QED BY <1>0, <2>5, <3>1, <3>2
  <2>7. Depths(out, con, old) BY <2>1, <2>2, <2>3, <2>5, <2>6 DEF Depths, n
  <2>8. old \in [1..Len(con) -> 0..Len(out)] /\ k \in 1..Len(con)
    BY <2>1, <2>5 DEF n
  <2>9. p \in Labels(con[k]) /\ d \in 1..old[k] BY <1>0, <2>1, <2>5
  <2>10. out[d].free < p BY <2>7, <2>8, <2>9 DEF LoopsInside
  <2>11. d \in 1..Len(out) BY <1>1, <2>1, <2>4
  <2> QED BY <2>10, <2>11
<1> QED BY <1>3, <1>4

LEMMA LoopsLess ==
    ASSUME NEW out \in Seq(Block), NEW out2 \in Seq(Block), NEW con \in Seq(Construct), con # <<>>,
           LoopsInside(out, con),
           Len(out) = Len(out2) + Deeper(Last(con)), \A d \in 1..Len(out2) : out2[d] = out[d]
    PROVE  LoopsInside(out2, Front(con))
<1> DEFINE n == Len(con)
           less == Front(con)
<1>0. /\ n \in Nat /\ n >= 1 /\ less \in Seq(Construct) /\ Len(less) = n - 1 /\ Last(con) = con[n]
      /\ \A i \in 1..(n - 1) : less[i] = con[i]
  BY FrontFacts
<1>1. Len(out) \in Nat /\ Len(out2) \in Nat /\ Deeper(Last(con)) \in {0, 1}
  BY DEF Deeper
<1> HIDE DEF less, n
<1> SUFFICES ASSUME NEW lv \in [1..(n - 1) -> 0..Len(out2)], Depths(out2, less, lv),
                    NEW k \in 1..(n - 1), NEW p \in Labels(less[k]), NEW d \in 1..lv[k]
             PROVE  out2[d].free < p
  BY <1>0 DEF LoopsInside, less
<1> DEFINE new == [i \in 1..n |-> IF i = n THEN Len(out) ELSE lv[i]]
<1>2. n - 1 \in 1..(n - 1) /\ n > 1 /\ (\A i \in 1..(n - 1) : i \in 1..n /\ i # n)
      /\ \A i \in 1..n : i = n \/ i \in 1..(n - 1)
  BY <1>0
<1>3. lv[n - 1] = Len(out2) BY <1>0, <1>2 DEF Depths
<1>4. /\ new \in [1..n -> 0..Len(out)] /\ new[n] = Len(out)
      /\ \A i \in 1..(n - 1) : new[i] = lv[i] /\ lv[i] \in 0..Len(out2)
  <2>1. \A i \in 1..(n - 1) : lv[i] \in 0..Len(out2) /\ lv[i] \in 0..Len(out)
    BY <1>1
  <2>2. n \in 1..n BY <1>0
  <2> QED BY <1>1, <1>2, <2>1, <2>2
<1> HIDE DEF new
<1>5. ASSUME NEW i \in 1..(n - 1) PROVE new[i + 1] = new[i] + IF BeginsBlock(con[i + 1]) THEN 1 ELSE 0
  <2>1. CASE i = n - 1
    <3>1. i + 1 = n BY <1>0, <2>1
    <3> QED BY <1>0, <1>1, <1>3, <1>4, <2>1, <3>1 DEF Deeper
  <2>2. CASE i # n - 1
    <3>1. i + 1 \in 1..(n - 1) /\ i \in 1..(Len(less) - 1) BY <1>0, <2>2
    <3>2. lv[i + 1] = lv[i] + IF BeginsBlock(less[i + 1]) THEN 1 ELSE 0
      BY <3>1 DEF Depths
    <3> QED BY <1>0, <1>4, <3>1, <3>2
  <2> QED BY <2>1, <2>2
<1>6. ASSUME NEW i \in 1..n, NEW j \in 1..n, i < j PROVE new[i] <= new[j]
  <2>1. i \in 1..(n - 1) BY <1>0, <1>6
  <2>2. CASE j = n BY <1>1, <1>4, <2>1, <2>2
  <2>3. CASE j # n
    <3>1. j \in 1..(n - 1) BY <1>2, <2>3
    <3> QED BY <1>0, <1>4, <1>6, <2>1, <3>1 DEF Depths
  <2> QED BY <2>2, <2>3
<1>7. Depths(out, con, new) BY <1>4, <1>5, <1>6 DEF Depths, n
<1>8. new \in [1..Len(con) -> 0..Len(out)] /\ k \in 1..Len(con)
  BY <1>2, <1>4 DEF n
<1>9. p \in Labels(con[k]) /\ d \in 1..new[k] BY <1>0, <1>4
<1>10. out[d].free < p BY <1>7, <1>8, <1>9 DEF LoopsInside
<1>11. d \in 1..Len(out2) BY <1>1, <1>4
<1> QED BY <1>10, <1>11

\* A construct is begun that is no block.
LEMMA ExactOfBegin ==
    ASSUME NEW cells, NEW m, NEW tab, NEW fr, NEW out \in Seq(Block), NEW con \in Seq(Construct),
           HasExactly(cells, m, tab, fr, out, con), NEW c \in Construct, ~BeginsBlock(c),
           \A p \in Labels(c) : p \in Elements(tab) /\ \A d \in 1..Len(out) : out[d].free < p,
           c.kind = "tag" => /\ c.symbol \in Elements(tab)
                             /\ cells[c.symbol].type = "tag" /\ cells[c.symbol].name \in Names
    PROVE  HasExactly(cells, m, tab, fr, out, Append(con, c))
<1> DEFINE more == Append(con, c)
<1>1. /\ Len(more) = Len(con) + 1
      /\ \A i \in 1..(Len(con) + 1) : more[i] = c \/ (i \in 1..Len(con) /\ more[i] = con[i])
  OBVIOUS
<1>2. LoopsInside(out, more)
  <2>1. Len(out) = Len(out) + Deeper(c) BY DEF Deeper
  <2> QED BY <2>1, LoopsMore DEF HasExactly
<1> HIDE DEF more
<1>3. OpenListed(cells, tab, more)
  <2>1. OpenListed(cells, tab, con) BY DEF HasExactly
  <2> QED BY <1>1, <2>1 DEF OpenListed
<1> QED BY <1>2, <1>3 DEF HasExactly, more

\* A construct ends that is no block.
LEMMA ExactOfEnd ==
    ASSUME NEW cells, NEW m, NEW tab, NEW fr, NEW out \in Seq(Block), NEW con \in Seq(Construct),
           HasExactly(cells, m, tab, fr, out, con), con # <<>>, ~BeginsBlock(Last(con))
    PROVE  HasExactly(cells, m, tab, fr, out, Front(con))
<1>1. LoopsInside(out, Front(con))
  <2>1. Len(out) = Len(out) + Deeper(Last(con)) BY DEF Deeper
  <2> QED BY <2>1, LoopsLess DEF HasExactly
<1>2. /\ Len(con) \in Nat /\ Len(con) >= 1 /\ Len(Front(con)) = Len(con) - 1
      /\ \A i \in 1..(Len(con) - 1) : Front(con)[i] = con[i]
  BY FrontFacts
<1>3. OpenListed(cells, tab, Front(con))
  <2>1. OpenListed(cells, tab, con) BY DEF HasExactly
  <2>2. \A k \in 1..Len(Front(con)) : k \in 1..Len(con) /\ Front(con)[k] = con[k]
    BY <1>2
  <2> QED BY <2>1, <2>2 DEF OpenListed
<1> QED BY <1>1, <1>3 DEF HasExactly

\* A block begins: what frames there are is outside it.
LEMMA ExactOfBlock ==
    ASSUME NEW cells, NEW m, NEW tab, NEW fr, NEW out \in Seq(Block), NEW con \in Seq(Construct),
           HasExactly(cells, m, tab, fr, out, con), NEW c \in Construct, BeginsBlock(c),
           NEW b \in Block, b.frames = fr
    PROVE  HasExactly(cells, m, tab, fr, Append(out, b), Append(con, c))
<1> DEFINE more == Append(con, c)
           out2 == Append(out, b)
<1>1. /\ Len(more) = Len(con) + 1
      /\ \A i \in 1..(Len(con) + 1) : more[i] = c \/ (i \in 1..Len(con) /\ more[i] = con[i])
  OBVIOUS
<1>2. /\ out2 \in Seq(Block) /\ Len(out2) = Len(out) + 1 /\ Len(out) \in Nat
      /\ (\A d \in 1..Len(out) : out2[d] = out[d] /\ d \in 1..Len(out2))
      /\ \A d \in 1..(Len(out) + 1) : (d \in 1..Len(out) /\ out2[d] = out[d]) \/ (d = Len(out) + 1 /\ out2[d] = b)
  OBVIOUS
<1>3. Labels(c) = {} /\ c.kind # "tag" /\ Deeper(c) = 1
  BY DEF Labels, BeginsBlock, Deeper
<1> HIDE DEF out2
<1>4. LoopsInside(out2, more) BY <1>2, <1>3, LoopsMore DEF HasExactly
<1> HIDE DEF more
<1>5. OpenListed(cells, tab, more)
  <2>1. OpenListed(cells, tab, con) BY DEF HasExactly
  <2> QED BY <1>1, <1>3, <2>1 DEF OpenListed
<1>6. OneTag(cells, tab, out2)
  <2>1. OneTag(cells, tab, out) BY DEF HasExactly
  <2> QED BY <1>2, <2>1 DEF OneTag
<1>7. NullsInside(fr, out2)
  <2> SUFFICES ASSUME NEW d \in 1..Len(out2), NEW i \in 1..(Len(fr) - Len(out2[d].frames))
               PROVE  fr[i].symbol > out2[d].free
    BY DEF NullsInside
  <2>1. CASE d \in 1..Len(out) /\ out2[d] = out[d]
    BY <2>1 DEF HasExactly, NullsInside
  <2>2. CASE out2[d] = b
    <3>1. Len(fr) \in Nat BY DEF Block
    <3>2. i \in 1..0 BY <2>2, <3>1
    <3> QED BY <3>2
  <2> QED BY <1>2, <2>1, <2>2
<1> QED BY <1>4, <1>5, <1>6, <1>7 DEF HasExactly, more, out2

\* The kind of a construct that begins a block changes.
LEMMA ExactOfKind ==
    ASSUME NEW cells, NEW m, NEW tab, NEW fr, NEW out, NEW con \in Seq(Construct), NEW con2,
           HasExactly(cells, m, tab, fr, out, con), Len(con2) = Len(con),
           \A k \in 1..Len(con) : con2[k] = con[k] \/ (BeginsBlock(con[k]) /\ BeginsBlock(con2[k]))
    PROVE  HasExactly(cells, m, tab, fr, out, con2)
<1>1. \A k \in 1..Len(con) : /\ BeginsBlock(con2[k]) <=> BeginsBlock(con[k])
                             /\ Labels(con2[k]) = Labels(con[k])
                             /\ con2[k].kind = "tag" => con2[k] = con[k]
  BY DEF BeginsBlock, Labels
<1>2. OpenListed(cells, tab, con2)
  <2>1. OpenListed(cells, tab, con) BY DEF HasExactly
  <2> QED BY <1>1, <2>1 DEF OpenListed
<1>3. LoopsInside(out, con2)
  <2> SUFFICES ASSUME NEW lv \in [1..Len(con2) -> 0..Len(out)], Depths(out, con2, lv)
               PROVE  \A k \in 1..Len(con2) : \A p \in Labels(con2[k]), d \in 1..lv[k] : out[d].free < p
    BY DEF LoopsInside
  <2>1. \A k \in 1..(Len(con) - 1) : k + 1 \in 1..Len(con) OBVIOUS
  <2>2. Depths(out, con, lv) BY <1>1, <2>1 DEF Depths
  <2> QED BY <1>1, <2>2 DEF HasExactly, LoopsInside
<1> QED BY <1>2, <1>3 DEF HasExactly

-----------------------------------------------------------------------------
(* What the end of a block and the start of a file leave exactly           *)

\* What the end of a block leaves is what was there when it began.
LeftOutside(cells, tab, b) ==
  /\ cells \in Seq(Cell) /\ Len(cells) = b.free
  /\ \A i \in 1..b.free : cells[i] = stack[i]
  /\ tab \in Seq(Int) /\ Ordered(tab)
  /\ Elements(tab) = {p \in Elements(table) : p <= b.free}

LEMMA BlockLeft ==
    ASSUME Inv, Exact, parsing # "no", constructs # <<>>, BeginsBlock(Last(constructs))
    PROVE  LET b == Last(outer)
               u == Unwind(b.frames)
           IN  LeftOutside(SubSeq(u.cells, 1, b.free), u.table, b)
<1> DEFINE b == Last(outer)
           u == Unwind(b.frames)
           own == Len(frames) - Len(b.frames)
           cells == SubSeq(u.cells, 1, b.free)
<1>1. /\ Typed /\ Core(stack, Len(ppm), table, frames, outer, constructs, parsing)
      /\ stack \in Seq(Cell) /\ table \in Seq(Int) /\ frames \in Seq(Frame) /\ outer \in Seq(Block)
      /\ Len(ppm) \in Nat
  BY DEF Inv, Typed
<1>2. /\ outer # <<>>
      /\ \A i \in 1..Len(table) : table[i] > b.free =>
            \E j \in 1..Len(frames) : frames[j].do = "delete" /\ frames[j].symbol = table[i]
  BY <1>1, EndOwned
<1>3. Len(outer) \in 1..Len(outer) /\ b = outer[Len(outer)] /\ b \in Block
  BY <1>1, <1>2, FrontFacts
<1>4. /\ Outside(b, frames, Len(stack)) /\ b.free \in Nat /\ b.frames \in Seq(Frame)
      /\ Good(table, Len(stack), Len(ppm)) /\ FramesOf(stack, frames) /\ BlocksNest(outer, frames, Len(stack))
  BY <1>1, <1>3 DEF Core, BlocksNest, Block
<1>5. /\ Ordered(table) /\ FramesListed(table, frames) /\ NullsInside(frames, outer)
  BY DEF Exact, HasExactly
<1>6. \A q \in Elements(table) : q > b.free =>
        \E j \in 1..Len(frames) : frames[j].do = "delete" /\ frames[j].symbol = q
  BY <1>2 DEF Elements
<1>7. Left(u, own) /\ LeftExactly(u, own)
  BY <1>1, <1>2, <1>4, <1>5, <1>6, UnwoundExactly
<1> HIDE DEF b, u
<1>8. own \in Nat /\ Len(frames) \in Nat /\ Len(b.frames) \in Nat /\ b.free \in 1..Len(stack) /\ own + Len(b.frames) = Len(frames)
  BY <1>1, <1>4 DEF Outside
<1> HIDE DEF own
<1>9. ASSUME NEW j \in 1..own PROVE frames[j] \in Frame /\ frames[j].symbol > b.free
  <2>1. frames[j] \in Frame /\ frames[j].do \in {"delete", "null"} /\ frames[j].symbol \in Nat
    <3>1. j \in 1..Len(frames) BY <1>8
    <3>2. frames[j] \in Frame BY <1>1, <3>1
    <3> QED BY <3>2 DEF Frame
  <2>2. frames[j].symbol > b.free BY <1>3, <1>5 DEF NullsInside, own
  <2> QED BY <2>1, <2>2
<1>10. ASSUME NEW j \in 1..Len(frames), frames[j].symbol > b.free PROVE j \in 1..own
  <2> SUFFICES ASSUME j \notin 1..own PROVE FALSE
    OBVIOUS
  <2>1. j - own \in 1..Len(b.frames) /\ own + (j - own) = j BY <1>8
  <2>2. b.frames[j - own] = frames[j] /\ b.frames[j - own].symbol <= b.free
    BY <1>4, <2>1 DEF Outside, own
  <2>3. frames[j].symbol \in Nat
    <3>1. frames[j] \in Frame BY <1>1
    <3> QED BY <3>1 DEF Frame
  <2> QED BY <1>8, <1>10, <2>2, <2>3
<1>11. u.cells \in Seq(Cell) /\ Len(u.cells) = Len(stack) /\ u.table \in Seq(Int) /\ Ordered(u.table)
  BY <1>7 DEF Left, SameCells, LeftExactly
<1>12. cells \in Seq(Cell) /\ Len(cells) = b.free /\ \A i \in 1..b.free : cells[i] = u.cells[i]
  BY <1>8, <1>11
<1>13. ASSUME NEW i \in 1..b.free PROVE cells[i] = stack[i]
  <2>1. i \in 1..Len(stack) /\ \A j \in 1..own : frames[j].symbol # i
    BY <1>8, <1>9
  <2>2. u.cells[i] = stack[i] BY <1>7, <2>1 DEF LeftExactly
  <2> QED BY <1>12, <2>2
<1>14. Elements(u.table) = {p \in Elements(table) : p <= b.free}
  <2>1. ASSUME NEW p \in Elements(table) PROVE p \in Int BY <1>1 DEF Elements
  <2>2. ASSUME NEW p \in Elements(table), p <= b.free PROVE p \notin DeletedBy(frames, own)
    BY <1>8, <1>9, <2>1, <2>2 DEF DeletedBy
  <2>3. ASSUME NEW p \in Elements(table), p > b.free PROVE p \in DeletedBy(frames, own)
    <3>1. PICK j \in 1..Len(frames) : frames[j].do = "delete" /\ frames[j].symbol = p
      BY <1>6, <2>3
    <3>2. j \in 1..own BY <1>10, <2>3, <3>1
    <3> QED BY <3>1, <3>2 DEF DeletedBy
  <2>4. Elements(u.table) = Elements(table) \ DeletedBy(frames, own)
    BY <1>7 DEF LeftExactly
  <2>5. \A p \in Elements(table) : p <= b.free \/ p > b.free BY <1>8, <2>1
  <2> QED BY <2>2, <2>3, <2>4, <2>5
<1> QED BY <1>11, <1>12, <1>13, <1>14 DEF LeftOutside, b, u, cells

LEMMA ExactOfBlockEnd ==
    ASSUME Inv, Exact, parsing # "no", constructs # <<>>, BeginsBlock(Last(constructs)),
           NEW cells, NEW tab, LeftOutside(cells, tab, Last(outer))
    PROVE  HasExactly(cells, Len(ppm), tab, Last(outer).frames, Front(outer), Front(constructs))
<1> DEFINE b == Last(outer)
           own == Len(frames) - Len(b.frames)
           before == Front(outer)
           con == Front(constructs)
<1>1. /\ Typed /\ Core(stack, Len(ppm), table, frames, outer, constructs, parsing)
      /\ stack \in Seq(Cell) /\ table \in Seq(Int) /\ frames \in Seq(Frame) /\ outer \in Seq(Block)
      /\ Len(ppm) \in Nat /\ constructs \in Seq(Construct)
  BY DEF Inv, Typed
<1>2. /\ outer # <<>>
      /\ \A k \in 1..(Len(constructs) - 1) :
            /\ constructs[k].kind # "tag" /\ constructs[k].symbol <= b.free
            /\ \A p \in Labels(constructs[k]) : p <= b.free
  BY <1>1, EndOwned
<1>3. /\ Len(outer) \in 1..Len(outer) /\ Len(outer) \in Nat /\ b = outer[Len(outer)] /\ b \in Block
      /\ before \in Seq(Block) /\ Len(before) = Len(outer) - 1
      /\ \A d \in 1..(Len(outer) - 1) : before[d] = outer[d] /\ d \in 1..Len(outer)
  <2>1. /\ Len(outer) \in 1..Len(outer) /\ Len(outer) \in Nat /\ b = outer[Len(outer)] /\ b \in Block
        /\ before \in Seq(Block) /\ Len(before) = Len(outer) - 1
        /\ \A d \in 1..(Len(outer) - 1) : before[d] = outer[d]
    BY <1>1, <1>2, FrontFacts
  <2>2. \A d \in 1..(Len(outer) - 1) : d \in 1..Len(outer) BY <2>1
  <2> QED BY <2>1, <2>2
<1>4. /\ con \in Seq(Construct) /\ Len(con) = Len(constructs) - 1 /\ Len(constructs) \in Nat
      /\ \A k \in 1..(Len(constructs) - 1) : con[k] = constructs[k] /\ k \in 1..Len(constructs)
  <2>1. /\ con \in Seq(Construct) /\ Len(con) = Len(constructs) - 1 /\ Len(constructs) \in Nat
        /\ \A k \in 1..(Len(constructs) - 1) : con[k] = constructs[k]
    BY <1>1, FrontFacts
  <2>2. \A k \in 1..(Len(constructs) - 1) : k \in 1..Len(constructs) BY <2>1
  <2> QED BY <2>1, <2>2
<1>5. Outside(b, frames, Len(stack)) /\ b.free \in Nat /\ b.frames \in Seq(Frame)
  BY <1>1, <1>3 DEF Core, BlocksNest, Block
<1>6. HasExactly(stack, Len(ppm), table, frames, outer, constructs) BY DEF Exact
<1>7. LoopsInside(before, con)
  <2>1. Deeper(Last(constructs)) = 1 /\ Len(outer) = Len(before) + 1
    BY <1>3 DEF Deeper
  <2>2. Len(outer) = Len(before) + Deeper(Last(constructs)) /\ \A d \in 1..Len(before) : before[d] = outer[d]
    BY <1>3, <2>1
  <2>3. LoopsInside(outer, constructs) BY <1>6 DEF HasExactly
  <2> QED BY <1>1, <1>3, <2>2, <2>3, LoopsLess
<1> HIDE DEF b, before, con
<1>8. own \in Nat /\ Len(frames) \in Nat /\ Len(b.frames) \in Nat /\ b.free \in 1..Len(stack) /\ own + Len(b.frames) = Len(frames)
  BY <1>1, <1>5 DEF Outside
<1> HIDE DEF own
<1>9. LeftOutside(cells, tab, b) BY DEF b
<1>10. \A p : p \in Elements(tab) <=> p \in Elements(table) /\ p <= b.free
  BY <1>9 DEF LeftOutside
<1>11. ASSUME NEW p \in Elements(table) PROVE p \in Int BY <1>1 DEF Elements
<1>12. ASSUME NEW p \in Elements(tab), p > 0 PROVE p \in 1..b.free /\ cells[p] = stack[p]
  <2>1. p \in 1..b.free BY <1>8, <1>10, <1>11, <1>12
  <2> QED BY <1>9, <2>1 DEF LeftOutside
<1>13. OneTag(cells, tab, before)
  <2> SUFFICES ASSUME NEW p \in Elements(tab), NEW q \in Elements(tab), p > 0, q > p,
                      cells[p].type = "tag", cells[q].type = "tag", cells[p].name = cells[q].name
               PROVE  \E d \in 1..Len(before) : p <= before[d].free /\ before[d].free < q
    BY DEF OneTag
  <2>1. p \in Int /\ q \in Int /\ q > 0 /\ p \in Elements(table) /\ q \in Elements(table)
    BY <1>10, <1>11
  <2>2. cells[p] = stack[p] /\ cells[q] = stack[q] /\ q <= b.free BY <1>12, <2>1
  <2>3. PICK d \in 1..Len(outer) : p <= outer[d].free /\ outer[d].free < q
    BY <1>6, <2>1, <2>2 DEF HasExactly, OneTag
  <2>4. d # Len(outer) BY <1>3, <1>8, <2>1, <2>2, <2>3
  <2>5. d \in 1..Len(before) /\ before[d] = outer[d] BY <1>3, <2>4
  <2> QED BY <2>3, <2>5
<1>14. ASSUME NEW i \in 1..Len(b.frames)
       PROVE  own + i \in 1..Len(frames) /\ b.frames[i] = frames[own + i] /\ b.frames[i].symbol <= b.free
  <2>1. own = Len(frames) - Len(b.frames) BY DEF own
  <2>2. own + i \in 1..Len(frames) /\ (Len(frames) - Len(b.frames)) + i = own + i
    <3>1. i \in Nat /\ i >= 1 /\ i <= Len(b.frames) BY <1>8
    <3>2. own + i \in 1..Len(frames) BY <1>8, <3>1
    <3>3. (Len(frames) - Len(b.frames)) + i = own + i BY <2>1
    <3> QED BY <3>2, <3>3
  <2> QED BY <1>5, <2>2 DEF Outside
<1>15. FramesListed(tab, b.frames)
  <2> SUFFICES ASSUME NEW i \in 1..Len(b.frames), b.frames[i].do = "delete"
               PROVE  b.frames[i].symbol \in Elements(tab)
    BY DEF FramesListed
  <2>1. frames[own + i].symbol \in Elements(table)
    BY <1>6, <1>14 DEF HasExactly, FramesListed
  <2> QED BY <1>10, <1>14, <2>1
<1>16. OpenListed(cells, tab, con)
  <2>1. \A k \in 1..Len(con) : con[k].kind # "tag" BY <1>2, <1>4
  <2>2. ASSUME NEW k \in 1..Len(con), NEW p \in Labels(con[k]) PROVE p \in Elements(tab)
    <3>1. k \in 1..(Len(constructs) - 1) /\ k \in 1..Len(constructs) /\ con[k] = constructs[k]
      BY <1>4
    <3>2. p \in Elements(table) BY <1>6, <3>1 DEF HasExactly, OpenListed
    <3> QED BY <1>2, <1>10, <3>1, <3>2
  <2> QED BY <2>1, <2>2 DEF OpenListed
<1>17. NullsInside(b.frames, before)
  <2> SUFFICES ASSUME NEW d \in 1..Len(before), NEW i \in 1..(Len(b.frames) - Len(before[d].frames))
               PROVE  b.frames[i].symbol > before[d].free
    BY DEF NullsInside
  <2>1. d \in 1..Len(outer) /\ before[d] = outer[d] /\ outer[d] \in Block
    BY <1>1, <1>3
  <2>2. Len(outer[d].frames) \in Nat BY <2>1 DEF Block
  <2>3. i \in 1..Len(b.frames) /\ own + i \in 1..(Len(frames) - Len(outer[d].frames))
    BY <1>8, <2>1, <2>2
  <2>4. frames[own + i].symbol > outer[d].free
    BY <1>6, <2>1, <2>3 DEF HasExactly, NullsInside
  <2> QED BY <1>14, <2>1, <2>3, <2>4
<1>18. cells[1] = Keyword /\ 1 \in Elements(tab)
  <2>1. 1 \in 1..b.free /\ stack[1] = Keyword /\ 1 \in Elements(table)
    BY <1>6, <1>8 DEF HasExactly
  <2> QED BY <1>9, <1>10, <2>1 DEF LeftOutside
<1>19. \A p \in 1..Len(ppm) : -p \in Elements(tab)
  <2>1. \A p \in 1..Len(ppm) : -p \in Elements(table) /\ -p <= b.free
    BY <1>1, <1>6, <1>8 DEF HasExactly
  <2> QED BY <1>10, <2>1
<1>20. HasExactly(cells, Len(ppm), tab, b.frames, before, con)
  BY <1>7, <1>9, <1>13, <1>15, <1>16, <1>17, <1>18, <1>19 DEF HasExactly, LeftOutside
<1> QED BY <1>20 DEF b, before, con

\* What the core says of the pointers in the table and of the blocks
LEMMA CoreFacts ==
    ASSUME NEW cells, NEW m, NEW tab, NEW fr, NEW out, NEW con, NEW op,
           Core(cells, m, tab, fr, out, con, op)
    PROVE  /\ cells \in Seq(Cell) /\ tab \in Seq(Int) /\ fr \in Seq(Frame) /\ out \in Seq(Block)
           /\ con \in Seq(Construct) /\ m \in Nat /\ Len(cells) \in Nat /\ Len(cells) >= 1
           /\ \A q \in Elements(tab) : /\ q \in Int /\ (q \in 1..Len(cells) \/ -q \in 1..m)
                                       /\ (q > 0 => q \in 1..Len(cells))
           /\ \A d \in 1..Len(out) : out[d] \in Block /\ out[d].free \in Nat /\ out[d].free <= Len(cells)
           /\ \A k \in 1..Len(con) : con[k].kind = "tag" => con[k].symbol \in 2..Len(cells)
<1>1. /\ cells \in Seq(Cell) /\ tab \in Seq(Int) /\ fr \in Seq(Frame) /\ out \in Seq(Block)
      /\ con \in Seq(Construct) /\ m \in Nat /\ Len(cells) >= 1 /\ Good(tab, Len(cells), m)
      /\ TagsStay(cells, out, con) /\ BlocksNest(out, fr, Len(cells))
  BY DEF Core
<1>2. Len(cells) \in Nat BY <1>1
<1>3. \A q \in Elements(tab) : q \in Int /\ (q \in 1..Len(cells) \/ -q \in 1..m) /\ (q > 0 => q \in 1..Len(cells))
  BY <1>1, <1>2, ElementsAre
<1>4. \A d \in 1..Len(out) : out[d] \in Block /\ out[d].free \in Nat /\ out[d].free <= Len(cells)
  <2> SUFFICES ASSUME NEW d \in 1..Len(out)
               PROVE  out[d] \in Block /\ out[d].free \in Nat /\ out[d].free <= Len(cells)
    OBVIOUS
  <2>1. out[d] \in Block BY <1>1
  <2>2. out[d].free \in 1..Len(cells) BY <1>1 DEF BlocksNest, Outside
  <2> QED BY <1>2, <2>1, <2>2
<1>5. \A k \in 1..Len(con) : con[k].kind = "tag" => con[k].symbol \in 2..Len(cells)
  BY <1>1 DEF TagsStay
<1> QED BY <1>1, <1>2, <1>3, <1>4, <1>5

LEMMA AppendedFacts ==
    ASSUME NEW cells \in Seq(Cell), NEW c \in Cell
    PROVE  /\ Append(cells, c) \in Seq(Cell) /\ Len(Append(cells, c)) = Len(cells) + 1
           /\ Append(cells, c)[Len(cells) + 1] = c
           /\ \A i \in 1..Len(cells) : Append(cells, c)[i] = cells[i] /\ i \in 1..Len(Append(cells, c))
BY AppendFacts

\* A symbol is allocated that is not in the table.
LEMMA ExactOfCell ==
    ASSUME NEW cells, NEW m, NEW tab, NEW fr, NEW out, NEW con, NEW op,
           Core(cells, m, tab, fr, out, con, op), HasExactly(cells, m, tab, fr, out, con),
           NEW c \in Cell
    PROVE  HasExactly(Append(cells, c), m, tab, fr, out, con)
<1> DEFINE more == Append(cells, c)
<1>1. /\ cells \in Seq(Cell) /\ Len(cells) \in Nat /\ Len(cells) >= 1
      /\ \A q \in Elements(tab) : q \in Int /\ (q > 0 => q \in 1..Len(cells))
      /\ \A k \in 1..Len(con) : con[k].kind = "tag" => con[k].symbol \in 2..Len(cells)
  BY CoreFacts
<1>2. \A i \in 1..Len(cells) : more[i] = cells[i] BY <1>1, AppendedFacts
<1>3. cells[1] = Keyword /\ 1 \in 1..Len(cells) BY <1>1 DEF HasExactly
<1> HIDE DEF more
<1>4. more[1] = Keyword /\ \A p \in Elements(tab) : p > 0 => more[p].type = cells[p].type /\ more[p].name = cells[p].name
  BY <1>1, <1>2, <1>3
<1>5. \A k \in 1..Len(con) : con[k].kind = "tag" => con[k].symbol > 0 BY <1>1
<1>6. HasExactly(more, m, tab, fr, out, con) BY <1>1, <1>4, <1>5, ExactOfCells
<1> QED BY <1>6 DEF more

\* A symbol is allocated and declared.
LEMMA ExactOfSymbol ==
    ASSUME NEW cells, NEW m, NEW tab, NEW fr, NEW out, NEW con, NEW op,
           Core(cells, m, tab, fr, out, con, op), HasExactly(cells, m, tab, fr, out, con),
           NEW c \in Cell, NEW p, p = Len(cells) + 1,
           c.type = "tag" =>
             \A q \in Elements(tab) : q > 0 /\ cells[q].type = "tag" /\ cells[q].name = c.name =>
               \E d \in 1..Len(out) : q <= out[d].free
    PROVE  HasExactly(Append(cells, c), m, <<p>> \o tab, <<[do |-> "delete", symbol |-> p]>> \o fr, out, con)
<1> DEFINE more == Append(cells, c)
           f == [do |-> "delete", symbol |-> p]
           new == <<p>> \o tab
<1>1. /\ cells \in Seq(Cell) /\ tab \in Seq(Int) /\ fr \in Seq(Frame) /\ out \in Seq(Block) /\ m \in Nat
      /\ Len(cells) \in Nat /\ Len(cells) >= 1
      /\ \A q \in Elements(tab) : q \in Int /\ (q > 0 => q \in 1..Len(cells))
      /\ \A d \in 1..Len(out) : out[d].free \in Nat /\ out[d].free <= Len(cells)
  BY CoreFacts
<1>2. more[p] = c /\ \A i \in 1..Len(cells) : more[i] = cells[i]
  BY <1>1, AppendedFacts
<1>3. HasExactly(more, m, tab, fr, out, con) BY ExactOfCell
<1> HIDE DEF more
<1>4. p \in Int /\ p \in Nat /\ p > 0 BY <1>1
<1>5. \A q \in Elements(tab) : (p > 0 <=> q > 0) => Newer(p, q)
  BY <1>1, <1>4 DEF Newer
<1>6. \A d \in 1..Len(out) : out[d].free < p BY <1>1
<1>7. p > 0 /\ more[p].type = "tag" =>
        \A q \in Elements(tab) : q > 0 /\ more[q].type = "tag" /\ more[q].name = more[p].name =>
          \E d \in 1..Len(out) : q <= out[d].free /\ out[d].free < p
  <2> SUFFICES ASSUME c.type = "tag", NEW q \in Elements(tab), q > 0, more[q].type = "tag", more[q].name = c.name
               PROVE  \E d \in 1..Len(out) : q <= out[d].free /\ out[d].free < p
    BY <1>2
  <2>1. more[q] = cells[q] BY <1>1, <1>2
  <2> QED BY <1>6, <2>1
<1>8. HasExactly(more, m, new, fr, out, con)
  BY <1>1, <1>3, <1>4, <1>5, <1>7, ExactOfMore
<1>9. p \in Elements(new) BY <1>1, <1>3, <1>4, <1>5, OnePrepended DEF HasExactly
<1> HIDE DEF new
<1>10. f \in Frame /\ f.symbol = p BY <1>4 DEF Frame
<1> HIDE DEF f
<1>11. HasExactly(more, m, new, <<f>> \o fr, out, con)
  <2>1. \A d \in 1..Len(out) : f.symbol > out[d].free BY <1>1, <1>4, <1>6, <1>10
  <2> QED BY <1>1, <1>8, <1>9, <1>10, <2>1, ExactOfFrame
<1> QED BY <1>11 DEF more, f, new

\* A macro is defined.
LEMMA ExactOfMacro ==
    ASSUME NEW cells, NEW m, NEW tab, NEW fr, NEW out, NEW con, NEW op,
           Core(cells, m, tab, fr, out, con, op), HasExactly(cells, m, tab, fr, out, con)
    PROVE  HasExactly(cells, m + 1, <<-(m + 1)>> \o tab, fr, out, con)
<1> DEFINE p == -(m + 1)
           new == <<p>> \o tab
<1>1. /\ tab \in Seq(Int) /\ m \in Nat
      /\ \A q \in Elements(tab) : q \in Int /\ (q \in 1..Len(cells) \/ -q \in 1..m)
  BY CoreFacts
<1>2. p \in Int /\ ~(p > 0) BY <1>1
<1>3. \A q \in Elements(tab) : (p > 0 <=> q > 0) => Newer(p, q)
  <2> SUFFICES ASSUME NEW q \in Elements(tab), ~(q > 0) PROVE p < q
    BY <1>2 DEF Newer
  <2>1. q \in Int /\ -q \in 1..m BY <1>1
  <2> QED BY <1>1, <2>1
<1> HIDE DEF p
<1>4. HasExactly(cells, m, new, fr, out, con) BY <1>1, <1>2, <1>3, ExactOfMore
<1>5. p \in Elements(new) BY <1>1, <1>2, <1>3, OnePrepended DEF HasExactly
<1> HIDE DEF new
<1>6. \A q \in 1..(m + 1) : -q \in Elements(new)
  <2> SUFFICES ASSUME NEW q \in 1..(m + 1) PROVE -q \in Elements(new)
    OBVIOUS
  <2>1. CASE q = m + 1 BY <1>5, <2>1 DEF p
  <2>2. CASE q # m + 1
    <3>1. q \in 1..m BY <1>1, <2>2
    <3> QED BY <1>4, <3>1 DEF HasExactly
  <2> QED BY <2>1, <2>2
<1>7. HasExactly(cells, m + 1, new, fr, out, con) BY <1>4, <1>6 DEF HasExactly
<1> QED BY <1>7 DEF new, p

\* Nothing is being parsed.
LEMMA ExactOfStop ==
    ASSUME NEW cells, NEW m, NEW tab, NEW fr, NEW out, NEW con,
           HasExactly(cells, m, tab, fr, out, con)
    PROVE  HasExactly(cells, m, tab, fr, out, <<>>)
<1>1. OpenListed(cells, tab, <<>>) /\ LoopsInside(out, <<>>)
  BY DEF OpenListed, LoopsInside
<1> QED BY <1>1 DEF HasExactly

\* A file begins with the keyword and the macros of its project.
LEMMA ExactOfFile ==
    ASSUME NEW cells, NEW m \in Nat, NEW tab \in Seq(Int), NEW out \in Seq(Block),
           cells[1] = Keyword, Ordered(tab), Elements(tab) = {1} \cup {-p : p \in 1..m}
    PROVE  HasExactly(cells, m, tab, <<>>, out, <<>>)
<1>1. OpenListed(cells, tab, <<>>) /\ LoopsInside(out, <<>>) /\ FramesListed(tab, <<>>)
  BY DEF OpenListed, LoopsInside, FramesListed
<1>2. NullsInside(<<>>, out)
  <2> SUFFICES ASSUME NEW d \in 1..Len(out) PROVE 1..(0 - Len(out[d].frames)) = {}
    BY DEF NullsInside
  <2>1. out[d] \in Block OBVIOUS
  <2>2. Len(out[d].frames) \in Nat BY <2>1 DEF Block
  <2> QED BY <2>2
<1>3. \A p \in Elements(tab) : p > 0 => p = 1 OBVIOUS
<1>4. OneTag(cells, tab, out)
  <2> SUFFICES ASSUME NEW p \in Elements(tab), NEW q \in Elements(tab), p > 0, q > p PROVE FALSE
    BY DEF OneTag
  <2>1. p = 1 BY <1>3
  <2>2. q > 1 BY <2>1
  <2>3. q \in Int OBVIOUS
  <2>4. q = 1 BY <1>3, <2>2, <2>3
  <2> QED BY <2>2, <2>4
<1>5. 1 \in Elements(tab) /\ \A p \in 1..m : -p \in Elements(tab) OBVIOUS
<1> QED BY <1>1, <1>2, <1>4, <1>5 DEF HasExactly

-----------------------------------------------------------------------------
(* What is found, exactly                                                  *)

LEMMA MacroIsNoSymbol ==
    ASSUME Inv, NEW q \in Elements(table), At(stack, q).type # "macro"
    PROVE  q \in 1..Len(stack) /\ At(stack, q) = stack[q]
<1>1. /\ ppm \in Seq(Macro) /\ Len(ppm) \in Nat /\ Core(stack, Len(ppm), table, frames, outer, constructs, parsing)
  BY ShortTypes
<1>2. q \in Int /\ (q \in 1..Len(stack) \/ -q \in 1..Len(ppm)) /\ Len(stack) \in Nat
  BY <1>1, CoreFacts
<1>3. CASE q > 0
  <2>1. q \in 1..Len(stack) BY <1>1, <1>2, <1>3
  <2> QED BY <1>3, <2>1 DEF At
<1>4. CASE ~(q > 0)
  <2>1. -q \in 1..Len(ppm) BY <1>2, <1>4
  <2>2. ppm[-q] \in Macro BY <1>1, <2>1
  <2> QED BY <1>4, <2>2 DEF At, Macro
<1> QED BY <1>3, <1>4

\* What is found is the newest symbol of that type and name.
LEMMA FindsNewest ==
    ASSUME Inv, Ordered(table), NEW name
    PROVE  /\ Find("tag", name) # None =>
                /\ Find("tag", name) \in Elements(table)
                /\ stack[Find("tag", name)].type = "tag" /\ stack[Find("tag", name)].name = name
           /\ \A q \in Elements(table) : q > 0 /\ stack[q].type = "tag" /\ stack[q].name = name =>
                Find("tag", name) # None /\ q <= Find("tag", name)
<1> DEFINE E == {i \in 1..Len(table) : SameSymbol(At(stack, table[i]), Symbol("tag", name, TRUE))}
           k == CHOOSE i \in E : \A j \in E : i <= j
           found == Find("tag", name)
<1>0. table \in Seq(Int) BY DEF Inv, Typed
<1>1. DOMAIN table = 1..Len(table) BY <1>0
<1>2. found = IF E = {} THEN None ELSE table[k] BY <1>1 DEF Find
<1>3. E \in SUBSET Nat
  <2>1. \A i \in E : i \in 1..Len(table) OBVIOUS
  <2> HIDE DEF E
  <2>2. \A i \in E : i \in Nat BY <2>1
  <2> QED BY <2>2
<1>4. ASSUME NEW i \in 1..Len(table)
      PROVE  /\ i \in E => /\ table[i] \in 1..Len(stack)
                           /\ stack[table[i]].type = "tag" /\ stack[table[i]].name = name
             /\ table[i] > 0 /\ stack[table[i]].type = "tag" /\ stack[table[i]].name = name => i \in E
  <2>1. i \in E <=> At(stack, table[i]).type = "tag" /\ At(stack, table[i]).name = name
    BY DEF SameSymbol, Symbol
  <2>2. table[i] \in Elements(table) BY DEF Elements
  <2>3. At(stack, table[i]).type = "tag" => table[i] \in 1..Len(stack) /\ At(stack, table[i]) = stack[table[i]]
    BY <2>2, MacroIsNoSymbol
  <2>4. table[i] > 0 => At(stack, table[i]) = stack[table[i]] BY DEF At
  <2> HIDE DEF E
  <2> QED BY <2>1, <2>3, <2>4
<1>5. E # {} => k \in E /\ \A j \in E : k <= j
  <2> HIDE DEF E
  <2> QED BY <1>3, Newest
<1>6. \A i \in E : i \in 1..Len(table) OBVIOUS
<1> HIDE DEF E, k, found
<1>7. ASSUME found # None
      PROVE  found \in Elements(table) /\ stack[found].type = "tag" /\ stack[found].name = name
  <2>1. E # {} /\ found = table[k] /\ k \in E /\ k \in 1..Len(table)
    BY <1>2, <1>5, <1>6, <1>7
  <2>2. stack[table[k]].type = "tag" /\ stack[table[k]].name = name
    BY <1>4, <2>1
  <2>3. table[k] \in Elements(table) BY <2>1 DEF Elements
  <2> QED BY <2>1, <2>2, <2>3
<1>8. ASSUME NEW q \in Elements(table), q > 0, stack[q].type = "tag", stack[q].name = name
      PROVE  found # None /\ q <= found
  <2>1. PICK i \in 1..Len(table) : q = table[i] BY DEF Elements
  <2>2. i \in E BY <1>4, <1>8, <2>1
  <2>3. k \in E /\ k <= i /\ found = table[k] /\ k \in 1..Len(table)
    BY <1>2, <1>5, <1>6, <2>2
  <2>4. table[k] \in 1..Len(stack) /\ table[k] \in Int /\ table[i] \in Int
    BY <1>0, <1>4, <2>1, <2>3
  <2>5. table[k] > 0 /\ table[k] # None
    <3>1. \A x \in 1..Len(stack) : x > 0 /\ x # 0 OBVIOUS
    <3> QED BY <2>4, <3>1 DEF None
  <2>6. CASE k = i BY <2>1, <2>3, <2>4, <2>5, <2>6
  <2>7. CASE k # i
    <3>1. k < i BY <2>1, <2>3, <2>7
    <3>2. Newer(table[k], table[i]) BY <1>8, <2>1, <2>3, <2>5, <3>1 DEF Ordered
    <3>3. table[k] > table[i] BY <1>8, <2>1, <3>2 DEF Newer
    <3> QED BY <2>1, <2>3, <2>4, <2>5, <3>3
  <2> QED BY <2>6, <2>7
<1> QED BY <1>7, <1>8 DEF found

\* A new tag hides those of its name, which are of the blocks around.
LEMMA NewTagHides ==
    ASSUME Inv, Ordered(table), NEW name, NEW defines \in BOOLEAN, TagIsNew(name, defines)
    PROVE  \A q \in Elements(table) : q > 0 /\ stack[q].type = "tag" /\ stack[q].name = name =>
             \E d \in 1..Len(outer) : q <= outer[d].free
<1> SUFFICES ASSUME NEW q \in Elements(table), q > 0, stack[q].type = "tag", stack[q].name = name
             PROVE  \E d \in 1..Len(outer) : q <= outer[d].free
  OBVIOUS
<1> DEFINE found == Find("tag", name)
<1>0. /\ outer \in Seq(Block) /\ Core(stack, Len(ppm), table, frames, outer, constructs, parsing)
  BY DEF Inv, Typed
<1>1. found # None /\ q <= found /\ found \in Elements(table) BY FindsNewest
<1>2. IsFromPreviousBlock(found) BY <1>1 DEF TagIsNew
<1> HIDE DEF found
<1>3. outer # <<>> /\ found <= Last(outer).free BY <1>2 DEF IsFromPreviousBlock
<1>4. Last(outer) = outer[Len(outer)] /\ Len(outer) \in 1..Len(outer)
  BY <1>0, <1>3, FrontFacts
<1>5. found \in Int /\ q \in Int BY <1>0, <1>1, CoreFacts
<1>6. outer[Len(outer)].free \in Nat BY <1>0, <1>4, CoreFacts
<1> QED BY <1>1, <1>3, <1>4, <1>5, <1>6

\* A file starts with the keyword and the first macros.
LEMMA RecoveredFirst ==
    ASSUME Inv, Exact, NEW k \in Nat, k <= Len(ppm)
    PROVE  /\ Recovered(1, k) \in Seq(Int) /\ Ordered(Recovered(1, k))
           /\ Elements(Recovered(1, k)) = {1} \cup {-p : p \in 1..k}
<1> DEFINE E == {p \in Elements(table) : IF p > 0 THEN p <= 1 ELSE -p <= k}
<1>0. /\ Typed /\ Len(ppm) \in Nat /\ Core(stack, Len(ppm), table, frames, outer, constructs, parsing)
      /\ Ordered(table) /\ 1 \in Elements(table) /\ \A p \in 1..Len(ppm) : -p \in Elements(table)
  BY DEF Inv, Typed, Exact, HasExactly
<1>1. /\ Recovered(1, k) \in Seq(Int) /\ Ordered(Recovered(1, k)) /\ Elements(Recovered(1, k)) = E
  <2>1. 1 \in Nat OBVIOUS
  <2> QED BY <1>0, <2>1, RecoveredExactly
<1>2. ASSUME NEW p \in E PROVE p \in {1} \cup {-q : q \in 1..k}
  <2>1. p \in Int /\ (p \in 1..Len(stack) \/ -p \in 1..Len(ppm)) /\ p \in Elements(table)
    BY <1>0, CoreFacts
  <2>2. CASE p > 0
    <3>1. p <= 1 BY <2>2
    <3>2. p = 1 BY <2>1, <2>2, <3>1
    <3> QED BY <3>2
  <2>3. CASE ~(p > 0)
    <3>1. -p <= k BY <2>3
    <3>2. -p \in 1..k /\ p = -(-p) BY <1>0, <2>1, <2>3, <3>1
    <3> QED BY <3>2
  <2> QED BY <2>2, <2>3
<1>3. 1 \in E BY <1>0
<1>4. ASSUME NEW q \in 1..k PROVE -q \in E
  <2>1. q \in 1..Len(ppm) /\ ~(-q > 0) /\ -(-q) <= k BY <1>0
  <2> QED BY <1>0, <2>1
<1> HIDE DEF E
<1>5. E = {1} \cup {-p : p \in 1..k} BY <1>2, <1>3, <1>4
<1> QED BY <1>1, <1>5

-----------------------------------------------------------------------------
(* The labels of the innermost loop                                        *)

\* They are of the current block, and the newest labels there are.
LabelsAre(first) ==
  /\ first \in Nat /\ first > 1 /\ first + 1 \in 1..Len(stack) /\ first \in 1..Len(stack)
  /\ first \in Elements(table) /\ first + 1 \in Elements(table)
  /\ \A p \in {first, first + 1} : stack[p].type = "label" /\ stack[p].name = "loop"
  /\ \A q \in Elements(table) : q > 0 /\ stack[q].type = "label" => q < first \/ q \in {first, first + 1}
  /\ \A d \in 1..Len(outer) : outer[d].free < first
  /\ Labels(Last(constructs)) = {first, first + 1}

LEMMA LoopLabels ==
    ASSUME Inv, Exact, parsing = "extract", constructs # <<>>, Last(constructs).kind = "loop"
    PROVE  LabelsAre(Last(constructs).symbol)
<1> DEFINE n == Len(constructs)
           first == Last(constructs).symbol
<1>0. /\ Core(stack, Len(ppm), table, frames, outer, constructs, parsing) /\ parsing # "no"
      /\ stack \in Seq(Cell) /\ table \in Seq(Int) /\ outer \in Seq(Block) /\ frames \in Seq(Frame)
      /\ constructs \in Seq(Construct) /\ Len(stack) \in Nat
      /\ HasExactly(stack, Len(ppm), table, frames, outer, constructs)
  BY DEF Inv, Typed, Exact
<1>a. FramesOf(stack, frames) /\ Owned(table, frames, constructs) /\ LoopsNest(stack, constructs, parsing)
  BY <1>0 DEF Core
<1>1. n \in 1..n /\ Last(constructs) = constructs[n] /\ n \in Nat
  BY <1>0, FrontFacts
<1>2. first # None /\ Labels(constructs[n]) = {first, first + 1}
  <2>1. first # None BY <1>1, <1>a DEF LoopsNest
  <2> QED BY <1>1, <2>1 DEF Labels
<1>3. first \in Nat
  <2>1. constructs[n] \in Construct BY <1>0, <1>1
  <2> QED BY <1>1, <2>1 DEF Construct
<1> HIDE DEF first
<1>4. ASSUME NEW p \in {first, first + 1}
      PROVE  p \in 2..Len(stack) /\ stack[p].type = "label" /\ stack[p].name = "loop"
  BY <1>1, <1>2, <1>a DEF LoopsNest
<1>5. first > 1 /\ first + 1 \in 1..Len(stack) /\ first \in 1..Len(stack)
  <2>1. first \in 2..Len(stack) /\ first + 1 \in 2..Len(stack) BY <1>4
  <2> QED BY <1>0, <1>3, <2>1
<1>6. first \in Elements(table) /\ first + 1 \in Elements(table)
  <2>1. OpenListed(stack, table, constructs) BY <1>0 DEF HasExactly
  <2> QED BY <1>1, <1>2, <2>1 DEF OpenListed, n
<1>7. ASSUME NEW q \in Elements(table), q > 0, stack[q].type = "label"
      PROVE  q < first \/ q \in {first, first + 1}
  <2>1. q \in Int /\ q \in 1..Len(stack) BY <1>0, <1>7, CoreFacts
  <2>2. PICK i \in 1..Len(table) : q = table[i] BY DEF Elements
  <2>3. q # 1
    <3>1. stack[1] = Keyword BY <1>0 DEF HasExactly
    <3> QED BY <1>7, <3>1 DEF Keyword, Symbol
  <2>4. table[i] > 1 BY <2>1, <2>2, <2>3
  <2>5. ASSUME NEW j \in 1..Len(frames), frames[j].do = "delete", frames[j].symbol = q PROVE FALSE
    BY <1>7, <1>a, <2>5 DEF FramesOf
  <2>6. PICK k \in 1..n : q \in Labels(constructs[k])
    BY <1>a, <2>2, <2>4, <2>5 DEF Owned, n
  <2>7. CASE k = n BY <1>2, <2>6, <2>7
  <2>8. CASE k # n
    <3>1. k < n BY <1>1, <2>8
    <3>2. first \in Labels(constructs[n]) BY <1>2
    <3>3. q < first BY <1>1, <1>a, <2>6, <3>1, <3>2 DEF LoopsNest, n
    <3> QED BY <3>3
  <2> QED BY <2>7, <2>8
<1>8. ASSUME NEW d \in 1..Len(outer) PROVE outer[d].free < first
  <2>1. PICK lv \in [1..n -> Nat] : Levels(outer, constructs, lv)
    BY <1>0 DEF Core
  <2>2. lv[n] = Len(outer) /\ \A k \in 1..n : lv[k] \in 0..Len(outer)
    BY <1>1, <2>1 DEF Levels
  <2>3. lv \in [1..Len(constructs) -> 0..Len(outer)] BY <2>2 DEF n
  <2>4. Depths(outer, constructs, lv) BY <2>1 DEF Levels, Depths
  <2>5. LoopsInside(outer, constructs) BY <1>0 DEF HasExactly
  <2>6. d \in 1..lv[n] /\ first \in Labels(constructs[n]) BY <1>2, <2>2
  <2> QED BY <1>1, <2>3, <2>4, <2>5, <2>6 DEF LoopsInside, n
<1>9. LabelsAre(first)
  BY <1>1, <1>2, <1>3, <1>4, <1>5, <1>6, <1>7, <1>8 DEF LabelsAre
<1> QED BY <1>9 DEF first

\* The end of the loop takes these two out of the table.
TakenOut(once, left, first) ==
  /\ once \in Seq(Int) /\ Ordered(once) /\ Elements(once) = Elements(table) \ {first + 1}
  /\ left \in Seq(Int) /\ Ordered(left) /\ Elements(left) = Elements(once) \ {first}

LEMMA LabelsTakenOut ==
    ASSUME Inv, Exact, NEW first, LabelsAre(first)
    PROVE  TakenOut(Delete(table, stack, first + 1),
                    Delete(Delete(table, stack, first + 1), stack, first), first)
<1> DEFINE once == Delete(table, stack, first + 1)
           left == Delete(once, stack, first)
<1>0. table \in Seq(Int) /\ Ordered(table) BY DEF Inv, Typed, Exact, HasExactly
<1>1. /\ first \in Nat /\ first > 1 /\ first + 1 \in Elements(table) /\ first \in Elements(table)
      /\ first # first + 1
  BY DEF LabelsAre
<1>2. ASSUME NEW p \in {first, first + 1}, NEW q \in Elements(table), SameSymbol(At(stack, q), At(stack, p))
      PROVE  q > 0 /\ (q < first \/ q \in {first, first + 1})
  <2>1. p > 0 BY <1>1
  <2>2. At(stack, p) = stack[p] /\ stack[p].type = "label"
    BY <2>1 DEF At, LabelsAre
  <2>3. At(stack, q).type = "label" BY <1>2, <2>2 DEF SameSymbol
  <2>4. q \in 1..Len(stack) /\ At(stack, q) = stack[q] BY <2>3, MacroIsNoSymbol
  <2>5. q > 0 BY <2>4
  <2> QED BY <2>3, <2>4, <2>5 DEF LabelsAre
<1>3. once \in Seq(Int) /\ Ordered(once) /\ Elements(once) = Elements(table) \ {first + 1}
  <2>1. \A q \in Elements(table) : q > first + 1 \/ q <= 0 => ~SameSymbol(At(stack, q), At(stack, first + 1))
    <3> SUFFICES ASSUME NEW q \in Elements(table), q > first + 1 \/ q <= 0,
                        SameSymbol(At(stack, q), At(stack, first + 1))
                 PROVE  FALSE
      OBVIOUS
    <3>1. q > 0 /\ (q < first \/ q \in {first, first + 1}) /\ q \in Int
      BY <1>0, <1>2 DEF Elements
    <3> QED BY <1>1, <3>1
  <2>2. first + 1 > 0 BY <1>1
  <2> QED BY <1>0, <1>1, <2>1, <2>2, DeletesOne
<1> HIDE DEF once
<1>4. left \in Seq(Int) /\ Ordered(left) /\ Elements(left) = Elements(once) \ {first}
  <2>1. \A q \in Elements(once) : q > first \/ q <= 0 => ~SameSymbol(At(stack, q), At(stack, first))
    <3> SUFFICES ASSUME NEW q \in Elements(once), q > first \/ q <= 0,
                        SameSymbol(At(stack, q), At(stack, first))
                 PROVE  FALSE
      OBVIOUS
    <3>1. q \in Elements(table) /\ q # first + 1 BY <1>3
    <3>2. q > 0 /\ (q < first \/ q \in {first, first + 1}) /\ q \in Int
      BY <1>0, <1>2, <3>1 DEF Elements
    <3> QED BY <1>1, <3>1, <3>2
  <2>2. first > 0 /\ first \in Elements(once) BY <1>1, <1>3
  <2> QED BY <1>3, <2>1, <2>2, DeletesOne
<1> QED BY <1>3, <1>4 DEF TakenOut, once, left

-----------------------------------------------------------------------------
(* What the steps do                                                       *)

\* A symbol is allocated and declared.
Added(c) ==
  /\ stack' = Append(stack, c) /\ table' = <<Len(stack) + 1>> \o table
  /\ frames' = <<[do |-> "delete", symbol |-> Len(stack) + 1]>> \o frames

LEMMA AddedIs ==
    ASSUME Inv, NEW name, NEW c \in Cell, Push(<<c>>), AddToFrame(<<name>>)
    PROVE  Added(c)
<1> DEFINE n == Len(stack) + 1
           f == [do |-> "delete", symbol |-> n]
           more == Append(stack, c)
<1>0. stack \in Seq(Cell) /\ Len(stack) \in Nat BY DEF Inv, Core
<1>1. stack' = more BY <1>0 DEF Push
<1>2. table' = <<n>> \o table /\ frames' = <<f>> \o frames
  <2>1. DOMAIN <<name>> = 1..1 BY OneElement
  <2>2. [i \in 1..1 |-> Len(stack) + i] = [i \in 1..1 |-> n] BY <1>0
  <2> DEFINE newest == Reverse([i \in 1..1 |-> n])
  <2>3. newest = <<n>> BY OneElement
  <2>4. [i \in DOMAIN newest |-> [do |-> "delete", symbol |-> newest[i]]] = [i \in 1..1 |-> f]
    BY <2>3, OneElement
  <2>5. [i \in 1..1 |-> f] \o frames = <<f>> \o frames BY OneElement
  <2>6. table' = newest \o table
        /\ frames' = [i \in DOMAIN newest |-> [do |-> "delete", symbol |-> newest[i]]] \o frames
    BY <2>1, <2>2 DEF AddToFrame
  <2> QED BY <2>3, <2>4, <2>5, <2>6
<1> QED BY <1>1, <1>2 DEF Added

LEMMA SymbolIs ==
    ASSUME NEW type \in {"default", "tag", "label", "member"}, NEW name \in Names \cup {"loop", "m"},
           NEW global \in BOOLEAN, NEW c, c = Symbol(type, name, global)
    PROVE  /\ c \in Cell /\ c.type = type /\ c.name = name /\ c.members = None
           /\ Described(c) = [type |-> type, name |-> name, complete |-> FALSE, global |-> global]
<1>1. c = [type |-> type, name |-> name, members |-> None, global |-> global]
  BY DEF Symbol
<1>2. c \in Cell /\ c.type = type /\ c.name = name /\ c.members = None /\ c.global = global
  BY <1>1 DEF Cell, None
<1>3. (c.members # None) = FALSE BY <1>2
<1> QED BY <1>2, <1>3 DEF Described

-----------------------------------------------------------------------------
(* The exact invariant, step by step                                       *)

LEMMA ExactTypes ==
    ASSUME Inv, Exact
    PROVE  /\ stack \in Seq(Cell) /\ Len(stack) \in Nat /\ Len(stack) >= 1 /\ Len(ppm) \in Nat
           /\ table \in Seq(Int) /\ frames \in Seq(Frame) /\ outer \in Seq(Block) /\ isFileScope \in BOOLEAN
           /\ constructs \in Seq(Construct) /\ Len(constructs) \in Nat /\ Ordered(table)
           /\ Core(stack, Len(ppm), table, frames, outer, constructs, parsing)
           /\ HasExactly(stack, Len(ppm), table, frames, outer, constructs)
BY DEF Inv, Typed, Core, Exact, HasExactly

LEMMA DeclareAdds ==
    ASSUME Inv, NEW name \in Names, Declare(name) \/ UseTag(name) \/ (BeginTag(name) /\ TagIsNew(name, TRUE))
    PROVE  \E c \in Cell :
             /\ Added(c) /\ c.members = None /\ c.name = name
             /\ UNCHANGED <<isFileScope, outer, ppm, kept, parsing>>
             /\ \/ /\ Declare(name) /\ c.type = "default" /\ constructs' = constructs
                   /\ Described(c) = [type |-> "default", name |-> name, complete |-> FALSE, global |-> ~Nested]
                \/ /\ c.type = "tag" /\ TagIsNew(name, TRUE)
                   /\ Described(c) = [type |-> "tag", name |-> name, complete |-> FALSE, global |-> TRUE]
                   /\ \/ constructs' = constructs
                      \/ constructs' = Append(constructs, [kind |-> "tag", symbol |-> Len(stack) + 1])
<1>1. CASE Declare(name)
  <2> DEFINE outermost == ~Nested
             c == Symbol("default", name, outermost)
  <2>1. outermost \in BOOLEAN BY Zenon
  <2>2. Push(<<c>>) /\ AddToFrame(<<name>>) /\ UNCHANGED <<isFileScope, outer, ppm, kept, constructs, parsing>>
    BY <1>1 DEF Declare
  <2> HIDE DEF outermost
  <2>3. /\ c \in Cell /\ c.type = "default" /\ c.name = name /\ c.members = None
        /\ Described(c) = [type |-> "default", name |-> name, complete |-> FALSE, global |-> outermost]
    BY <2>1, SymbolIs
  <2> HIDE DEF c
  <2>4. Added(c) BY <2>2, <2>3, AddedIs
  <2> QED BY <1>1, <2>2, <2>3, <2>4 DEF outermost
<1>2. CASE UseTag(name) \/ (BeginTag(name) /\ TagIsNew(name, TRUE))
  <2> DEFINE c == Symbol("tag", name, TRUE)
  <2>1. /\ c \in Cell /\ c.type = "tag" /\ c.name = name /\ c.members = None
        /\ Described(c) = [type |-> "tag", name |-> name, complete |-> FALSE, global |-> TRUE]
    BY SymbolIs
  <2>2. /\ Push(<<c>>) /\ AddToFrame(<<name>>) /\ UNCHANGED <<isFileScope, outer, ppm, kept, parsing>>
        /\ constructs' = constructs \/ constructs' = Append(constructs, [kind |-> "tag", symbol |-> Len(stack) + 1])
    BY <1>2 DEF UseTag, BeginTag, Begin
  <2>3. TagIsNew(name, TRUE) BY <1>2 DEF UseTag, TagIsNew
  <2> HIDE DEF c
  <2>4. Added(c) BY <2>1, <2>2, AddedIs
  <2> QED BY <2>1, <2>2, <2>3, <2>4
<1> QED BY <1>1, <1>2

LEMMA ExactByDeclare ==
    ASSUME Inv, Exact, NEW name \in Names, Declare(name) \/ UseTag(name) \/ BeginTag(name)
    PROVE  Exact'
<1>0. /\ stack \in Seq(Cell) /\ Len(stack) \in Nat /\ Len(ppm) \in Nat
      /\ table \in Seq(Int) /\ outer \in Seq(Block)
      /\ constructs \in Seq(Construct) /\ Len(constructs) \in Nat /\ Ordered(table) /\ Len(stack) >= 1
      /\ Core(stack, Len(ppm), table, frames, outer, constructs, parsing)
      /\ HasExactly(stack, Len(ppm), table, frames, outer, constructs)
  BY ExactTypes
<1>1. CASE Declare(name) \/ UseTag(name) \/ (BeginTag(name) /\ TagIsNew(name, TRUE))
  <2>1. PICK c \in Cell :
             /\ Added(c) /\ c.members = None /\ c.name = name
             /\ UNCHANGED <<isFileScope, outer, ppm, kept, parsing>>
             /\ \/ /\ Declare(name) /\ c.type = "default" /\ constructs' = constructs
                   /\ Described(c) = [type |-> "default", name |-> name, complete |-> FALSE, global |-> ~Nested]
                \/ /\ c.type = "tag" /\ TagIsNew(name, TRUE)
                   /\ Described(c) = [type |-> "tag", name |-> name, complete |-> FALSE, global |-> TRUE]
                   /\ \/ constructs' = constructs
                      \/ constructs' = Append(constructs, [kind |-> "tag", symbol |-> Len(stack) + 1])
    BY <1>1, DeclareAdds
  <2> DEFINE p == Len(stack) + 1
             tag == [kind |-> "tag", symbol |-> p]
  <2>2. HasExactly(stack', Len(ppm'), table', frames', outer', constructs)
    <3>1. c.type = "tag" => TagIsNew(name, TRUE) BY <2>1
    <3>2. c.type = "tag" =>
             \A q \in Elements(table) : q > 0 /\ stack[q].type = "tag" /\ stack[q].name = c.name =>
               \E d \in 1..Len(outer) : q <= outer[d].free
      BY <1>0, <2>1, <3>1, NewTagHides
    <3>3. HasExactly(Append(stack, c), Len(ppm), <<p>> \o table, <<[do |-> "delete", symbol |-> p]>> \o frames,
                     outer, constructs)
      BY <1>0, <3>2, ExactOfSymbol
    <3> QED BY <2>1, <3>3 DEF Added
  <2>3. CASE constructs' = constructs BY <2>2, <2>3 DEF Exact
  <2>4. CASE c.type = "tag" /\ constructs' = Append(constructs, tag)
    <3>1. tag \in Construct /\ tag.kind = "tag" /\ tag.symbol = p /\ ~BeginsBlock(tag) /\ Labels(tag) = {}
      BY <1>0 DEF Construct, BeginsBlock, Labels
    <3>2. p \in Elements(table')
      <4>1. \A q \in Elements(table) : (p > 0 <=> q > 0) => Newer(p, q)
        <5>1. \A q \in Elements(table) : q \in Int /\ (q > 0 => q \in 1..Len(stack))
          BY <1>0, CoreFacts
        <5> QED BY <1>0, <5>1 DEF Newer
      <4>2. p \in Int BY <1>0
      <4>3. Elements(<<p>> \o table) = {p} \cup Elements(table)
        BY <1>0, <4>1, <4>2, OnePrepended
      <4> QED BY <2>1, <4>3 DEF Added
    <3>3. stack'[p] = c BY <1>0, <2>1, AppendedFacts DEF Added
    <3>4. outer' \in Seq(Block) BY <1>0, <2>1
    <3> HIDE DEF tag
    <3>5. HasExactly(stack', Len(ppm'), table', frames', outer', Append(constructs, tag))
      BY <1>0, <2>1, <2>2, <2>4, <3>1, <3>2, <3>3, <3>4, ExactOfBegin
    <3> QED BY <2>4, <3>5 DEF Exact
  <2> QED BY <2>1, <2>3, <2>4
<1>2. CASE BeginTag(name) /\ ~TagIsNew(name, TRUE)
  <2> DEFINE found == Find("tag", name)
             tag == [kind |-> "tag", symbol |-> found]
  <2>1. /\ constructs' = Append(constructs, tag)
        /\ UNCHANGED <<stack, frames, table, outer, ppm>>
    BY <1>2 DEF BeginTag, Begin
  <2>2. found # None BY <1>2 DEF TagIsNew
  <2>3. found \in Elements(table) /\ stack[found].type = "tag" /\ stack[found].name = name
    BY <1>0, <2>2, FindsNewest
  <2>4. found \in 2..Len(stack) BY <1>2, FoundFacts
  <2> HIDE DEF found
  <2>5. tag \in Construct /\ tag.kind = "tag" /\ tag.symbol = found /\ ~BeginsBlock(tag) /\ Labels(tag) = {}
    BY <1>0, <2>4 DEF Construct, BeginsBlock, Labels
  <2> HIDE DEF tag
  <2>6. HasExactly(stack, Len(ppm), table, frames, outer, Append(constructs, tag))
    BY <1>0, <2>3, <2>5, ExactOfBegin
  <2> QED BY <2>1, <2>6 DEF Exact
<1> QED BY <1>1, <1>2

\* The members are allocated, and the tag gets them if it has none.
Grown == Append(stack, Symbol("member", "m", TRUE))
TagEnded(tag) ==
  /\ tag \in Elements(table) /\ tag \in 2..Len(stack) /\ stack[tag].type = "tag" /\ stack[tag].name \in Names
  /\ \A d \in 1..Len(outer) : tag > outer[d].free
  /\ Grown \in Seq(Cell) /\ Len(Grown) = Len(stack) + 1 /\ \A i \in 1..Len(stack) : Grown[i] = stack[i]
  /\ stack' \in Seq(Cell) /\ Len(stack') = Len(stack) + 1
  /\ UNCHANGED <<table, outer, isFileScope, ppm, kept, parsing>>
  /\ \/ stack' = Grown /\ frames' = frames
     \/ /\ stack[tag].members = None
        /\ frames' = <<[do |-> "null", symbol |-> tag]>> \o frames
        /\ \A i \in 1..Len(stack) : i # tag => stack'[i] = stack[i]
        /\ stack'[tag] = [stack[tag] EXCEPT !.members = Len(stack) + 1]

LEMMA TagEnds ==
    ASSUME Inv, Exact, EndTag
    PROVE  TagEnded(Last(constructs).symbol)
<1> DEFINE tag == Last(constructs).symbol
           n == Len(stack) + 1
           c == Symbol("member", "m", TRUE)
<1>0. /\ stack \in Seq(Cell) /\ Len(stack) \in Nat /\ table \in Seq(Int) /\ outer \in Seq(Block)
      /\ constructs \in Seq(Construct)
      /\ Core(stack, Len(ppm), table, frames, outer, constructs, parsing)
      /\ HasExactly(stack, Len(ppm), table, frames, outer, constructs)
  BY ExactTypes
<1>1. /\ constructs # <<>> /\ Last(constructs).kind = "tag"
      /\ UNCHANGED <<table, outer, isFileScope, ppm, kept, parsing>>
      /\ IF stack[tag].members = None
         THEN /\ stack' = [Grown EXCEPT ![tag].members = n]
              /\ frames' = <<[do |-> "null", symbol |-> tag]>> \o frames
         ELSE stack' = Grown /\ UNCHANGED frames
  BY DEF EndTag, Inside, Grown
<1>2. Last(constructs) = constructs[Len(constructs)] /\ Len(constructs) \in 1..Len(constructs)
  BY <1>0, <1>1, FrontFacts
<1>3. tag \in 2..Len(stack) /\ \A d \in 1..Len(outer) : tag > outer[d].free
  BY <1>0, <1>1, <1>2 DEF Core, TagsStay
<1>4. tag \in Elements(table) /\ stack[tag].type = "tag" /\ stack[tag].name \in Names
  BY <1>0, <1>1, <1>2 DEF HasExactly, OpenListed
<1> HIDE DEF tag
<1>5. c \in Cell BY SymbolIs
<1>6. Grown \in Seq(Cell) /\ Len(Grown) = n /\ \A i \in 1..Len(stack) : Grown[i] = stack[i] /\ i \in 1..Len(Grown)
  <2> HIDE DEF c
  <2> QED BY <1>0, <1>5, AppendedFacts DEF Grown, c
<1>7. CASE stack[tag].members # None
  BY <1>1, <1>3, <1>4, <1>6, <1>7 DEF TagEnded, tag
<1>8. CASE stack[tag].members = None
  <2>1. /\ stack' = [Grown EXCEPT ![tag].members = n]
        /\ frames' = <<[do |-> "null", symbol |-> tag]>> \o frames
    BY <1>1, <1>8
  <2>2. n \in Nat /\ tag \in 1..Len(stack) /\ tag \in 1..Len(Grown)
    BY <1>0, <1>3, <1>6
  <2>3. stack[tag] \in Cell BY <1>0, <2>2
  <2>4. [stack[tag] EXCEPT !.members = n] \in Cell BY <2>2, <2>3 DEF Cell
  <2>5. Grown[tag] = stack[tag] /\ DOMAIN Grown = 1..Len(Grown) BY <1>6, <2>2
  <2> HIDE DEF n
  <2>6. /\ stack' = [Grown EXCEPT ![tag] = [stack[tag] EXCEPT !.members = n]]
    BY <2>1, <2>5
  <2>7. /\ stack' \in Seq(Cell) /\ Len(stack') = Len(Grown)
        /\ \A i \in 1..Len(Grown) : stack'[i] = IF i = tag THEN [stack[tag] EXCEPT !.members = n] ELSE Grown[i]
    BY <1>6, <2>2, <2>4, <2>6
  <2>8. \A i \in 1..Len(stack) : i # tag => stack'[i] = stack[i] BY <1>6, <2>7
  <2>9. stack'[tag] = [stack[tag] EXCEPT !.members = n] BY <2>2, <2>7
  <2> QED
    BY <1>1, <1>3, <1>4, <1>6, <1>8, <2>1, <2>7, <2>8, <2>9 DEF TagEnded, tag, n
<1> QED BY <1>7, <1>8

LEMMA ExactByEndTag ==
    ASSUME Inv, Exact, EndTag \/ EndEmptyTag
    PROVE  Exact'
<1> DEFINE tag == Last(constructs).symbol
<1>0. /\ stack \in Seq(Cell) /\ Len(stack) \in Nat /\ Len(stack) >= 1 /\ Len(ppm) \in Nat
      /\ table \in Seq(Int) /\ frames \in Seq(Frame) /\ outer \in Seq(Block)
      /\ constructs \in Seq(Construct)
      /\ Core(stack, Len(ppm), table, frames, outer, constructs, parsing)
      /\ HasExactly(stack, Len(ppm), table, frames, outer, constructs)
  BY ExactTypes
<1>1. constructs # <<>> /\ Last(constructs).kind = "tag" /\ constructs' = Front(constructs)
  BY DEF EndTag, EndEmptyTag, Inside
<1>2. ~BeginsBlock(Last(constructs)) BY <1>1 DEF BeginsBlock
<1>3. HasExactly(stack', Len(ppm'), table', frames', outer', constructs)
  <2>1. CASE EndEmptyTag BY <1>0, <2>1 DEF EndEmptyTag, memory
  <2>2. CASE EndTag
    <3>1. TagEnded(tag) BY <2>2, TagEnds
    <3> HIDE DEF tag
    <3>2. /\ table' = table /\ outer' = outer /\ ppm' = ppm
          /\ tag \in 2..Len(stack) /\ \A d \in 1..Len(outer) : tag > outer[d].free
      BY <3>1 DEF TagEnded
    <3>3. \A i \in 1..Len(stack) : stack'[i].type = stack[i].type /\ stack'[i].name = stack[i].name /\ (i # tag => stack'[i] = stack[i])
      <4> SUFFICES ASSUME NEW i \in 1..Len(stack)
                   PROVE  stack'[i].type = stack[i].type /\ stack'[i].name = stack[i].name /\ (i # tag => stack'[i] = stack[i])
        OBVIOUS
      <4>1. CASE stack' = Grown BY <3>1, <4>1 DEF TagEnded
      <4>2. CASE i # tag /\ stack' # Grown BY <3>1, <4>2 DEF TagEnded
      <4>3. CASE i = tag /\ stack' # Grown
        <5>1. stack'[i] = [stack[i] EXCEPT !.members = Len(stack) + 1]
          BY <3>1, <4>3 DEF TagEnded
        <5>2. stack[i] \in Cell BY <1>0
        <5> QED BY <4>3, <5>1, <5>2 DEF Cell
      <4> QED BY <4>1, <4>2, <4>3
    <3>4. HasExactly(stack', Len(ppm), table, frames, outer, constructs)
      <4>1. /\ \A q \in Elements(table) : q \in Int /\ (q > 0 => q \in 1..Len(stack))
            /\ \A k \in 1..Len(constructs) : constructs[k].kind = "tag" => constructs[k].symbol \in 2..Len(stack)
        BY <1>0, CoreFacts
      <4>2. stack'[1] = Keyword
        <5>1. 1 \in 1..Len(stack) /\ 1 # tag /\ stack[1] = Keyword
          BY <1>0, <3>2 DEF HasExactly
        <5> QED BY <3>3, <5>1
      <4>3. \A k \in 1..Len(constructs) : constructs[k].kind = "tag" => constructs[k].symbol > 0
        BY <4>1
      <4>4. \A p \in Elements(table) : p > 0 => stack'[p].type = stack[p].type /\ stack'[p].name = stack[p].name
        BY <3>3, <4>1
      <4> QED BY <1>0, <4>1, <4>2, <4>3, <4>4, ExactOfCells
    <3>5. CASE frames' = frames BY <3>2, <3>4, <3>5
    <3>6. CASE frames' = <<[do |-> "null", symbol |-> tag]>> \o frames
      <4> DEFINE f == [do |-> "null", symbol |-> tag]
      <4>1. f \in Frame /\ f.do # "delete" /\ f.symbol = tag
        BY <1>0, <3>2 DEF Frame
      <4> HIDE DEF f
      <4>2. HasExactly(stack', Len(ppm), table, <<f>> \o frames, outer, constructs)
        BY <1>0, <3>2, <3>4, <4>1, ExactOfFrame
      <4> QED BY <3>2, <3>6, <4>2 DEF f
    <3> QED BY <3>1, <3>5, <3>6 DEF TagEnded
  <2> QED BY <2>1, <2>2
<1>4. outer' = outer BY DEF EndTag, EndEmptyTag, memory
<1>5. HasExactly(stack', Len(ppm'), table', frames', outer', Front(constructs))
  BY <1>0, <1>1, <1>2, <1>3, <1>4, ExactOfEnd
<1> QED BY <1>1, <1>5 DEF Exact

LEMMA ExactByMacro ==
    ASSUME Inv, Exact, NEW name \in Names, Define(name) \/ Undefine(name)
    PROVE  Exact'
<1>0. /\ ppm \in Seq(Macro) /\ Len(ppm) \in Nat
      /\ Core(stack, Len(ppm), table, frames, outer, constructs, parsing)
      /\ HasExactly(stack, Len(ppm), table, frames, outer, constructs)
  BY ShortTypes, ExactTypes
<1>1. UNCHANGED <<stack, frames, outer, constructs>> BY DEF Define, Undefine
<1>2. PICK x \in BOOLEAN : PushMacro(name, x) BY DEF Define, Undefine
<1>3. [type |-> "macro", name |-> name, defined |-> x] \in Macro BY DEF Macro
<1>4. Len(ppm') = Len(ppm) + 1 BY <1>0, <1>2, <1>3, AppendFacts DEF PushMacro
<1>5. HasExactly(stack, Len(ppm) + 1, <<-(Len(ppm) + 1)>> \o table, frames, outer, constructs)
  BY <1>0, ExactOfMacro
<1> QED BY <1>1, <1>2, <1>4, <1>5 DEF PushMacro, Exact

LEMMA ExactByStopParsing ==
    ASSUME Inv, Exact, StopParsing
    PROVE  Exact'
<1>1. constructs' = <<>> /\ UNCHANGED <<stack, frames, outer, ppm, table>>
  BY DEF StopParsing, memory
<1>2. HasExactly(stack, Len(ppm), table, frames, outer, <<>>)
  BY ExactOfStop DEF Exact
<1> QED BY <1>1, <1>2 DEF Exact

\* A file starts with the keyword in the stack, whatever came before.
LEMMA FirstCell ==
    ASSUME Inv, Exact
    PROVE  RecoveredCells(1)[1] = Keyword
<1>1. stack[1] = Keyword BY DEF Exact, HasExactly
<1>2. ~(Keyword.members > 1) /\ 1 \in 1..1 BY DEF Keyword, Symbol, None
<1> HIDE DEF Keyword
<1> QED BY <1>1, <1>2 DEF RecoveredCells

FileBegun(k, yacc) ==
  /\ stack' = RecoveredCells(1) /\ Len(stack') = 1 /\ stack' \in Seq(Cell) /\ stack'[1] = Keyword
  /\ frames' = <<>> /\ isFileScope' = yacc /\ constructs' = <<>>
  /\ outer' = IF yacc THEN <<[free |-> 1, frames |-> <<>>, isFileScope |-> FALSE]>> ELSE <<>>
  /\ ppm' \in Seq(Macro) /\ Len(ppm') = k
  /\ table' \in Seq(Int) /\ Ordered(table') /\ Elements(table') = {1} \cup {-p : p \in 1..k}
  /\ project'.ppm = k

LEMMA ExactOfFileBegun ==
    ASSUME NEW k \in Nat, NEW yacc \in BOOLEAN, FileBegun(k, yacc)
    PROVE  Exact'
<1> DEFINE out == IF yacc THEN <<[free |-> 1, frames |-> <<>>, isFileScope |-> FALSE]>> ELSE <<>>
<1>1. out \in Seq(Block)
  <2>1. <<>> \in Seq(Frame) /\ <<>> \in Seq(Block) OBVIOUS
  <2>2. [free |-> 1, frames |-> <<>>, isFileScope |-> FALSE] \in Block
    BY <2>1 DEF Block
  <2>3. <<[free |-> 1, frames |-> <<>>, isFileScope |-> FALSE]>> \in Seq(Block)
    BY <2>2
  <2> QED BY <2>1, <2>3
<1>2. /\ stack'[1] = Keyword /\ frames' = <<>> /\ constructs' = <<>> /\ outer' = out /\ Len(ppm') = k
      /\ table' \in Seq(Int) /\ Ordered(table') /\ Elements(table') = {1} \cup {-p : p \in 1..k}
  BY DEF FileBegun
<1> HIDE DEF out
<1>3. HasExactly(stack', k, table', <<>>, out, <<>>) BY <1>1, <1>2, ExactOfFile
<1> QED BY <1>2, <1>3 DEF Exact

LEMMA NextFileBegins ==
    ASSUME Inv, Exact, NEW operation \in Operations, NEW yacc \in BOOLEAN, NextFile(operation, yacc)
    PROVE  /\ project.ppm \in Nat /\ project.ppm <= Len(ppm) /\ FileBegun(project.ppm, yacc)
           /\ project' = project /\ ppm' = SubSeq(ppm, 1, project.ppm)
<1> DEFINE m == project.ppm
<1>0. /\ parsing = "no" /\ constructs = <<>>
      /\ project.free = 1 /\ project.ppm <= 1 /\ project.ppm <= Len(ppm)
  BY DEF NextFile, Inv, Checkpoints
<1>1. /\ table' = Recovered(1, m) /\ stack' = RecoveredCells(1) /\ ppm' = SubSeq(ppm, 1, m)
      /\ EnterFile(1, operation, yacc) /\ project' = project
  BY <1>0 DEF NextFile, kept
<1>2. /\ ppm \in Seq(Macro) /\ Len(ppm) \in Nat /\ project \in Checkpoint
  BY DEF Inv, Typed
<1>3. m \in Nat BY <1>2 DEF Checkpoint
<1>4. ppm' \in Seq(Macro) /\ Len(ppm') = m
  <2> HIDE DEF m
  <2>1. 1 \in 1..(Len(ppm) + 1) /\ m \in (1 - 1)..Len(ppm) /\ m - 1 + 1 = m
    BY <1>0, <1>2, <1>3 DEF m
  <2>2. SubSeq(ppm, 1, m) \in Seq(Macro) /\ Len(SubSeq(ppm, 1, m)) = m - 1 + 1
    BY <1>2, <2>1, SubSeqFacts
  <2> QED BY <1>1, <2>1, <2>2
<1> HIDE DEF m
<1>5. /\ table' \in Seq(Int) /\ Ordered(table') /\ Elements(table') = {1} \cup {-p : p \in 1..m}
  <2>1. m <= Len(ppm) BY <1>0 DEF m
  <2> QED BY <1>1, <1>3, <2>1, RecoveredFirst
<1>6. stack' \in Seq(Cell) /\ Len(stack') = 1
  <2>1. Inv' BY KeptByNextFile
  <2>2. stack' \in Seq(Cell) BY <2>1 DEF Inv, Typed
  <2> QED BY <1>1, <2>2 DEF RecoveredCells
<1>7. stack'[1] = Keyword BY <1>1, FirstCell
<1>8. project'.ppm = m BY <1>1 DEF m
<1>9. FileBegun(m, yacc)
  BY <1>0, <1>1, <1>4, <1>5, <1>6, <1>7, <1>8 DEF FileBegun, EnterFile
<1> QED BY <1>0, <1>1, <1>3, <1>9 DEF m

LEMMA NextProjectBegins ==
    ASSUME Inv, Exact, NEW name, NEW defines \in {<<>>, <<name>>}, defines # <<>> => name \in Names,
           NEW operation \in Operations, NEW yacc \in BOOLEAN,
           NextProject(defines, operation, yacc)
    PROVE  /\ FileBegun(Len(defines), yacc) /\ Len(defines) \in Nat /\ DOMAIN defines = 1..Len(defines)
           /\ \A i \in 1..Len(defines) :
                 ppm'[i] = [type |-> "macro", name |-> name, defined |-> TRUE] /\ i = 1
<1> DEFINE from == IF clean.saved THEN clean
                   ELSE [saved |-> TRUE, free |-> Len(stack), ppm |-> Len(ppm)]
           macro == [type |-> "macro", name |-> name, defined |-> TRUE]
           macros == [i \in DOMAIN defines |-> [type |-> "macro", name |-> defines[i], defined |-> TRUE]]
           pointers == [i \in DOMAIN defines |-> -(from.ppm + i)]
           old == Recovered(1, 0)
<1>0. /\ ppm \in Seq(Macro) /\ clean \in Checkpoint BY DEF Inv, Typed
<1>1. from \in Checkpoint /\ from.saved /\ from.free = 1 /\ from.ppm = 0
  <2>1. CASE clean.saved BY <1>0, <2>1 DEF Inv, Checkpoints
  <2>2. CASE ~clean.saved
    <3>1. Len(stack) = 1 /\ ppm = <<>> BY <2>2 DEF Inv, Checkpoints
    <3>2. Len(ppm) = 0 BY <3>1
    <3>3. from = [saved |-> TRUE, free |-> 1, ppm |-> 0] BY <2>2, <3>1, <3>2
    <3> HIDE DEF from
    <3> QED BY <3>3 DEF Checkpoint
  <2> QED BY <2>1, <2>2
<1>2. /\ parsing = "no" /\ stack' = RecoveredCells(from.free)
      /\ ppm' = SubSeq(ppm, 1, from.ppm) \o macros
      /\ table' = Reverse(pointers) \o Recovered(from.free, from.ppm)
      /\ project' = [saved |-> TRUE, free |-> from.free, ppm |-> from.ppm + Len(defines)]
      /\ EnterFile(from.free, operation, yacc)
  BY DEF NextProject
<1>3. constructs = <<>> BY <1>2 DEF Inv, Checkpoints
<1> HIDE DEF from
<1>4. SubSeq(ppm, 1, 0) = <<>>
  <2>1. Len(SubSeq(ppm, 1, 0)) = 0 /\ SubSeq(ppm, 1, 0) \in Seq(Macro) BY <1>0
  <2> QED BY <2>1
<1>5. /\ stack' = RecoveredCells(1) /\ ppm' = <<>> \o macros /\ table' = Reverse(pointers) \o old
      /\ project'.ppm = 0 + Len(defines) /\ EnterFile(1, operation, yacc)
  BY <1>1, <1>2, <1>4
<1>6. old \in Seq(Int) /\ Ordered(old) /\ Elements(old) = {1}
  <2>1. 0 \in Nat /\ 0 <= Len(ppm) /\ 1..0 = {} BY <1>0
  <2>2. old \in Seq(Int) /\ Ordered(old) /\ Elements(old) = {1} \cup {-p : p \in 1..0}
    BY <2>1, RecoveredFirst
  <2> QED BY <2>1, <2>2
<1> HIDE DEF old
<1>7. stack' \in Seq(Cell) /\ Len(stack') = 1 /\ stack'[1] = Keyword
  <2>1. Inv' BY KeptByNextProject
  <2>2. stack' \in Seq(Cell) BY <2>1 DEF Inv, Typed
  <2> QED BY <1>5, <2>2, FirstCell DEF RecoveredCells
<1>8. CASE defines = <<>>
  <2>1. DOMAIN defines = {} /\ Len(defines) = 0 BY <1>8, NoElement
  <2>2. macros = <<>> /\ pointers = <<>> BY <2>1
  <2> HIDE DEF macros, pointers
  <2>3. Reverse(pointers) = <<>> BY <2>2, NoElement
  <2>4. table' = old /\ ppm' = <<>>
    <3>1. <<>> \in Seq(Macro) OBVIOUS
    <3> QED BY <1>5, <1>6, <2>2, <2>3, <3>1, NoElement
  <2>5. ppm' \in Seq(Macro) /\ Len(ppm') = 0 /\ project'.ppm = 0 /\ 1..0 = {}
    BY <1>5, <2>1, <2>4
  <2>6. Elements(table') = {1} \cup {-p : p \in 1..0} BY <1>6, <2>4, <2>5
  <2>7. FileBegun(0, yacc)
    BY <1>3, <1>5, <1>6, <1>7, <2>4, <2>5, <2>6 DEF FileBegun, EnterFile
  <2> QED BY <2>1, <2>5, <2>7
<1>9. CASE defines = <<name>>
  <2>1. DOMAIN defines = 1..1 /\ Len(defines) = 1 /\ \A i \in DOMAIN defines : defines[i] = name
    <3>1. Len(defines) = 1 /\ DOMAIN defines = 1..1 /\ defines[1] = name
      BY <1>9, OneElement
    <3> QED BY <3>1
  <2>2. macros = [i \in 1..1 |-> macro] /\ pointers = [i \in 1..1 |-> -1]
    <3>1. \A i \in DOMAIN defines : [type |-> "macro", name |-> defines[i], defined |-> TRUE] = macro
      BY <2>1
    <3>2. \A i \in 1..1 : -(from.ppm + i) = -1 BY <1>1
    <3> QED BY <2>1, <3>1, <3>2
  <2> HIDE DEF macros, pointers
  <2>3. macros = <<macro>> /\ Reverse(pointers) = <<-1>> BY <2>2, OneElement
  <2>4. macro \in Macro
    <3>1. name \in Names BY <1>9
    <3> QED BY <3>1 DEF Macro
  <2> HIDE DEF macro
  <2>5. ppm' \in Seq(Macro) /\ Len(ppm') = 1 /\ ppm'[1] = macro
    <3>1. <<macro>> \in Seq(Macro) /\ Len(<<macro>>) = 1 BY <2>4
    <3>2. ppm' = <<macro>> BY <1>5, <2>3, <3>1, NoElement
    <3> QED BY <3>1, <3>2
  <2>6. project'.ppm = 1 BY <1>5, <2>1
  <2>7. table' \in Seq(Int) /\ Ordered(table') /\ Elements(table') = {1} \cup {-p : p \in 1..1}
    <3>1. PICK p \in Int : p = -1 OBVIOUS
    <3>2. ~(p > 0)
      <4>1. p + 1 = 0 BY <3>1, SMT
      <4> QED BY <4>1, SMT
    <3>3. \A q \in Elements(old) : (p > 0 <=> q > 0) => Newer(p, q)
      BY <1>6, <3>2
    <3>4. <<p>> \o old \in Seq(Int) /\ Ordered(<<p>> \o old) /\ Elements(<<p>> \o old) = {p} \cup Elements(old)
      BY <1>6, <3>3, OnePrepended
    <3>5. {-q : q \in 1..1} = {p} BY <3>1
    <3> QED BY <1>5, <1>6, <2>3, <3>1, <3>4, <3>5
  <2>8. FileBegun(1, yacc)
    BY <1>3, <1>5, <1>7, <2>5, <2>6, <2>7 DEF FileBegun, EnterFile
  <2> QED BY <2>1, <2>5, <2>8 DEF macro
<1> QED BY <1>8, <1>9

LEMMA ExactByEnd ==
    ASSUME Inv, Exact, EndFunction \/ EndCompound
    PROVE  /\ Exact' /\ LeftOutside(stack', table', Last(outer)) /\ outer # <<>>
           /\ outer' = Front(outer) /\ isFileScope' = Last(outer).isFileScope /\ UNCHANGED <<ppm, kept>>
<1> DEFINE b == Last(outer)
           u == Unwind(b.frames)
<1>0. /\ parsing # "no" /\ constructs # <<>> /\ BeginsBlock(Last(constructs))
      /\ constructs' = Front(constructs) /\ EndBlock /\ UNCHANGED <<ppm, kept>>
  BY DEF EndFunction, EndCompound, Inside, BeginsBlock
<1>1. outer # <<>> BY <1>0, EndOwned DEF Inv
<1>2. /\ stack' = SubSeq(u.cells, 1, b.free) /\ table' = u.table /\ frames' = b.frames
      /\ outer' = Front(outer) /\ isFileScope' = b.isFileScope
  BY <1>0 DEF EndBlock
<1>3. LeftOutside(stack', table', b)
  <2>1. LeftOutside(SubSeq(u.cells, 1, b.free), u.table, b) BY <1>0, BlockLeft
  <2> QED BY <1>2, <2>1
<1>4. HasExactly(stack', Len(ppm), table', b.frames, Front(outer), Front(constructs))
  BY <1>0, <1>3, ExactOfBlockEnd
<1> HIDE DEF b
<1>5. Exact' BY <1>0, <1>2, <1>4 DEF Exact
<1> QED BY <1>0, <1>1, <1>2, <1>3, <1>5 DEF b

LEMMA ExactByBeginCompound ==
    ASSUME Inv, Exact, BeginCompound
    PROVE  Exact'
<1> DEFINE last == Len(constructs)
           changed == [constructs EXCEPT ![last].kind = "body"]
           con == IF Inside({"function"}) THEN changed ELSE constructs
           c == [kind |-> "block", symbol |-> None]
<1>0. /\ constructs # <<>>
      /\ outer' = Append(outer, CurrentBlock)
      /\ constructs' = Append(con, c)
      /\ UNCHANGED <<stack, frames, table, ppm>>
  BY DEF BeginCompound, Inside, BeginBlock
<1>1. /\ Len(ppm) \in Nat /\ Len(stack) \in Nat /\ isFileScope \in BOOLEAN
      /\ frames \in Seq(Frame) /\ outer \in Seq(Block)
      /\ constructs \in Seq(Construct) /\ last \in Nat
      /\ HasExactly(stack, Len(ppm), table, frames, outer, constructs)
  BY ExactTypes
<1>2. Last(constructs) = constructs[last] /\ last \in 1..last
  BY <1>0, <1>1, FrontFacts
<1>3. con \in Seq(Construct) /\ HasExactly(stack, Len(ppm), table, frames, outer, con)
  <2>1. CASE Inside({"function"})
    <3>1. constructs[last].kind = "function" /\ constructs[last] \in Construct
      BY <1>0, <1>1, <1>2, <2>1 DEF Inside
    <3>2. /\ [constructs[last] EXCEPT !.kind = "body"] \in Construct
          /\ [constructs[last] EXCEPT !.kind = "body"].kind = "body"
      BY <3>1 DEF Construct
    <3>3. /\ changed \in Seq(Construct) /\ Len(changed) = Len(constructs)
          /\ \A k \in 1..Len(constructs) :
               changed[k] = IF k = last THEN [constructs[last] EXCEPT !.kind = "body"] ELSE constructs[k]
      BY <1>1, <1>2, <3>2
    <3> HIDE DEF changed
    <3>4. \A k \in 1..Len(constructs) : changed[k] = constructs[k] \/ (BeginsBlock(constructs[k]) /\ BeginsBlock(changed[k]))
      BY <3>1, <3>2, <3>3 DEF BeginsBlock
    <3>5. HasExactly(stack, Len(ppm), table, frames, outer, changed)
      BY <1>1, <3>3, <3>4, ExactOfKind
    <3> QED BY <2>1, <3>3, <3>5
  <2>2. CASE ~Inside({"function"}) BY <1>1, <2>2
  <2> QED BY <2>1, <2>2
<1> HIDE DEF con
<1>4. c \in Construct /\ BeginsBlock(c) BY DEF Construct, BeginsBlock, None
<1> HIDE DEF c
<1>5. CurrentBlock \in Block /\ CurrentBlock.frames = frames
  BY <1>1 DEF CurrentBlock, Block
<1>6. HasExactly(stack, Len(ppm), table, frames, Append(outer, CurrentBlock), Append(con, c))
  BY <1>1, <1>3, <1>4, <1>5, ExactOfBlock
<1> QED BY <1>0, <1>6 DEF Exact

LEMMA ExactByEndLoop ==
    ASSUME Inv, Exact, EndLoop
    PROVE  Exact'
<1> DEFINE first == Last(constructs).symbol
           once == Delete(table, stack, first + 1)
           left == Delete(once, stack, first)
           less == Front(constructs)
           m == Len(ppm)
<1>0. /\ constructs # <<>> /\ Last(constructs).kind = "loop" /\ constructs' = less
      /\ UNCHANGED <<stack, frames, outer, ppm>>
  BY DEF EndLoop, Inside, memory
<1>1. /\ outer \in Seq(Block) /\ constructs \in Seq(Construct) /\ m \in Nat /\ frames \in Seq(Frame)
      /\ HasExactly(stack, m, table, frames, outer, constructs)
      /\ Core(stack, m, table, frames, outer, constructs, parsing)
  BY ExactTypes
<1>2. ~BeginsBlock(Last(constructs)) BY <1>0 DEF BeginsBlock
<1>3. HasExactly(stack, m, table, frames, outer, less)
  BY <1>0, <1>1, <1>2, ExactOfEnd
<1>4. CASE parsing # "extract"
  <2>1. table' = table BY <1>4 DEF EndLoop
  <2> QED BY <1>0, <1>3, <2>1 DEF Exact
<1>5. CASE parsing = "extract"
  <2>1. LabelsAre(first) BY <1>0, <1>5, LoopLabels
  <2>2. table' = left BY <1>5 DEF EndLoop
  <2> HIDE DEF first
  <2>3. TakenOut(once, left, first) BY <2>1, LabelsTakenOut
  <2> HIDE DEF once, left
  <2>4. ASSUME NEW p \in {first, first + 1}
        PROVE  /\ p \in Nat /\ p > 1 /\ stack[p].type = "label"
               /\ \A i \in 1..Len(frames) : frames[i].do = "delete" => frames[i].symbol # p
               /\ \A k \in 1..Len(less) : p \notin Labels(less[k])
    <3>1. p \in Nat /\ p > 1 /\ stack[p].type = "label" BY <2>1 DEF LabelsAre
    <3>2. ASSUME NEW i \in 1..Len(frames), frames[i].do = "delete" PROVE frames[i].symbol # p
      <4>1. stack[frames[i].symbol].type \in {"default", "tag"}
        BY <1>1, <3>2 DEF Core, FramesOf
      <4> QED BY <3>1, <4>1
    <3>3. ASSUME NEW k \in 1..Len(less), p \in Labels(less[k]) PROVE FALSE
      <4>1. /\ Len(constructs) \in 1..Len(constructs) /\ Last(constructs) = constructs[Len(constructs)]
            /\ Len(less) = Len(constructs) - 1 /\ Len(constructs) \in Nat
            /\ \A i \in 1..(Len(constructs) - 1) : less[i] = constructs[i]
        BY <1>0, <1>1, FrontFacts
      <4>2. k \in 1..Len(constructs) /\ k < Len(constructs) /\ less[k] = constructs[k]
        BY <4>1
      <4>3. p \in Labels(constructs[Len(constructs)])
        BY <2>1, <4>1 DEF LabelsAre
      <4>4. LoopsNest(stack, constructs, parsing) BY <1>1, <1>5 DEF Core
      <4>5. p < p BY <3>3, <4>1, <4>2, <4>3, <4>4 DEF LoopsNest
      <4> QED BY <3>1, <4>5
    <3> QED BY <3>1, <3>2, <3>3
  <2>5. HasExactly(stack, m, once, frames, outer, less)
    <3> DEFINE p == first + 1
    <3>1. Ordered(once) /\ Elements(once) = Elements(table) \ {p}
      BY <2>3 DEF TakenOut
    <3>2. /\ p \in Nat /\ p > 1 /\ stack[p].type = "label"
          /\ \A i \in 1..Len(frames) : frames[i].do = "delete" => frames[i].symbol # p
          /\ \A k \in 1..Len(less) : p \notin Labels(less[k])
      BY <2>4
    <3> HIDE DEF p
    <3> QED BY <1>3, <3>1, <3>2, ExactOfLess
  <2>6. HasExactly(stack, m, left, frames, outer, less)
    <3>1. Ordered(left) /\ Elements(left) = Elements(once) \ {first}
      BY <2>3 DEF TakenOut
    <3> QED BY <2>4, <2>5, <3>1, ExactOfLess
  <2> QED BY <1>0, <2>2, <2>6 DEF Exact
<1> QED BY <1>4, <1>5

\* The two labels of a loop are allocated, one after the other.
LoopBegun(l) ==
  /\ stack' = Append(Append(stack, l), l)
  /\ table' = <<Len(stack) + 2>> \o (<<Len(stack) + 1>> \o table)
  /\ constructs' = Append(constructs, [kind |-> "loop", symbol |-> Len(stack) + 1])

LEMMA LoopBegins ==
    ASSUME Inv, BeginLoop, parsing = "extract", NEW l, l = Symbol("label", "loop", FALSE)
    PROVE  LoopBegun(l)
<1>1. stack \in Seq(Cell) /\ Len(stack) \in Nat /\ table \in Seq(Int)
  BY DEF Inv, Typed
<1>2. l \in Cell BY SymbolIs
<1>3. /\ Push(<<l, l>>) /\ table' = <<Len(stack) + 2, Len(stack) + 1>> \o table
      /\ constructs' = Append(constructs, [kind |-> "loop", symbol |-> Len(stack) + 1])
  BY DEF BeginLoop, Begin
<1>4. stack' = Append(Append(stack, l), l)
  BY <1>1, <1>2, <1>3, TwoAppended DEF Push
<1>5. <<Len(stack) + 2, Len(stack) + 1>> \o table = <<Len(stack) + 2>> \o (<<Len(stack) + 1>> \o table)
  BY <1>1
<1> QED BY <1>3, <1>4, <1>5 DEF LoopBegun

\* and so are their pointers
LEMMA TwoMore ==
    ASSUME NEW cells, NEW m, NEW tab, NEW fr, NEW out, NEW con, NEW op,
           Core(cells, m, tab, fr, out, con, op), Ordered(tab), NEW n, n = Len(cells)
    PROVE  /\ <<n + 1>> \o tab \in Seq(Int) /\ Ordered(<<n + 1>> \o tab)
           /\ Elements(<<n + 1>> \o tab) = {n + 1} \cup Elements(tab)
           /\ <<n + 2>> \o (<<n + 1>> \o tab) \in Seq(Int) /\ Ordered(<<n + 2>> \o (<<n + 1>> \o tab))
           /\ Elements(<<n + 2>> \o (<<n + 1>> \o tab)) = {n + 1, n + 2} \cup Elements(tab)
           /\ \A q \in Elements(tab) : (n + 1 > 0 <=> q > 0) => Newer(n + 1, q)
           /\ \A q \in Elements(<<n + 1>> \o tab) : (n + 2 > 0 <=> q > 0) => Newer(n + 2, q)
<1> DEFINE p == n + 1
           r == n + 2
           one == <<p>> \o tab
           two == <<r>> \o one
<1>1. tab \in Seq(Int) /\ n \in Nat /\ \A q \in Elements(tab) : q \in Int /\ (q > 0 => q \in 1..n)
  BY CoreFacts
<1>2. p \in Int /\ r \in Int /\ r > p /\ p > 0 BY <1>1
<1>3. \A q \in Elements(tab) : (p > 0 <=> q > 0) => Newer(p, q)
  BY <1>1, <1>2 DEF Newer
<1> HIDE DEF p
<1>4. one \in Seq(Int) /\ Ordered(one) /\ Elements(one) = {p} \cup Elements(tab)
  BY <1>1, <1>2, <1>3, OnePrepended
<1> HIDE DEF one
<1>5. \A q \in Elements(one) : (r > 0 <=> q > 0) => Newer(r, q)
  <2> SUFFICES ASSUME NEW q \in Elements(one), q > 0 PROVE r > q
    BY <1>2 DEF Newer
  <2>1. CASE q = p BY <1>2, <2>1
  <2>2. CASE q # p
    <3>1. q \in 1..n BY <1>1, <1>4, <2>2
    <3> QED BY <1>1, <3>1
  <2> QED BY <2>1, <2>2
<1> HIDE DEF r
<1>6. two \in Seq(Int) /\ Ordered(two) /\ Elements(two) = {r} \cup Elements(one)
  BY <1>2, <1>4, <1>5, OnePrepended
<1> HIDE DEF two
<1>7. Elements(two) = {p, r} \cup Elements(tab) BY <1>4, <1>6
<1> QED BY <1>3, <1>4, <1>5, <1>6, <1>7 DEF two, one, p, r

LEMMA ExactByBeginLoop ==
    ASSUME Inv, Exact, BeginLoop
    PROVE  Exact'
<1> DEFINE n == Len(stack)
           l == Symbol("label", "loop", FALSE)
           c == [kind |-> "loop", symbol |-> IF parsing = "extract" THEN n + 1 ELSE None]
           m == Len(ppm)
<1>0. /\ constructs' = Append(constructs, c) /\ UNCHANGED <<frames, outer, ppm>>
  BY DEF BeginLoop, Begin
<1>1. /\ stack \in Seq(Cell) /\ n \in Nat /\ m \in Nat /\ table \in Seq(Int) /\ n >= 1
      /\ outer \in Seq(Block) /\ constructs \in Seq(Construct) /\ Ordered(table)
      /\ Core(stack, m, table, frames, outer, constructs, parsing)
      /\ HasExactly(stack, m, table, frames, outer, constructs)
  BY ExactTypes
<1>2. c \in Construct /\ c.kind = "loop" /\ ~BeginsBlock(c) /\ c.symbol = IF parsing = "extract" THEN n + 1 ELSE None
  BY <1>1 DEF Construct, None, BeginsBlock
<1> HIDE DEF c
<1>3. CASE parsing # "extract"
  <2>1. stack' = stack /\ table' = table BY <1>3 DEF BeginLoop
  <2>2. Labels(c) = {} BY <1>2, <1>3 DEF Labels
  <2>3. HasExactly(stack, m, table, frames, outer, Append(constructs, c))
    BY <1>1, <1>2, <2>2, ExactOfBegin
  <2> QED BY <1>0, <2>1, <2>3 DEF Exact
<1>4. CASE parsing = "extract"
  <2> DEFINE one == Append(stack, l)
             two == Append(one, l)
             p == n + 1
             r == n + 2
             first == <<p>> \o table
             both == <<r>> \o first
  <2>1. stack' = two /\ table' = both BY <1>4, LoopBegins DEF LoopBegun
  <2>2. l \in Cell /\ l.type = "label" /\ l.members = None
    BY SymbolCell, ZenonT(30)
  <2> HIDE DEF l
  <2>3. HasExactly(one, m, table, frames, outer, constructs)
    BY <1>1, <2>2, ExactOfCell
  <2>4. /\ Core(one, m, table, frames, outer, constructs, parsing)
        /\ Len(one) = n + 1 /\ one[n + 1] = l /\ one \in Seq(Cell)
    <3>1. Core(one, m, table, frames, outer, constructs, parsing)
      BY <1>1, <2>2, CellAdded
    <3> QED BY <1>1, <2>2, <3>1, AppendedFacts
  <2> HIDE DEF one
  <2>5. HasExactly(two, m, table, frames, outer, constructs)
    BY <2>2, <2>3, <2>4, ExactOfCell
  <2>6. two[p] = l /\ two[r] = l
    <3>1. Len(one) + 1 = n + 2 /\ n + 1 \in 1..Len(one) BY <1>1, <2>4
    <3> QED BY <2>2, <2>4, <3>1, AppendedFacts
  <2> HIDE DEF two
  <2>7. /\ first \in Seq(Int) /\ both \in Seq(Int) /\ Ordered(both) /\ Elements(both) = {p, r} \cup Elements(table)
        /\ \A q \in Elements(table) : (p > 0 <=> q > 0) => Newer(p, q)
        /\ \A q \in Elements(first) : (r > 0 <=> q > 0) => Newer(r, q)
    BY <1>1, TwoMore
  <2>8. p \in Int /\ r \in Int /\ p + 1 = r /\ p > 0 /\ r > p BY <1>1
  <2>9. \A d \in 1..Len(outer) : outer[d].free < p /\ outer[d].free < r
    <3>1. \A d \in 1..Len(outer) : outer[d].free \in Nat /\ outer[d].free <= n
      BY <1>1, CoreFacts
    <3> QED BY <1>1, <3>1
  <2>10. c.symbol = p BY <1>2, <1>4
  <2> HIDE DEF p, r
  <2>11. HasExactly(two, m, first, frames, outer, constructs)
    BY <1>1, <2>2, <2>5, <2>6, <2>7, <2>8, ExactOfMore
  <2> HIDE DEF first
  <2>12. HasExactly(two, m, both, frames, outer, constructs)
    BY <1>1, <2>2, <2>6, <2>7, <2>8, <2>11, ExactOfMore
  <2> HIDE DEF both
  <2>13. Labels(c) = {p, r} BY <1>2, <2>8, <2>10 DEF Labels, None
  <2>14. HasExactly(two, m, both, frames, outer, Append(constructs, c))
    BY <1>1, <1>2, <2>7, <2>9, <2>12, <2>13, ExactOfBegin
  <2> QED BY <1>0, <2>1, <2>14 DEF Exact
<1> QED BY <1>3, <1>4

\* The head of a function is declared, and its parameter in the function's block.
Deletion(f) == [do |-> "delete", symbol |-> f]
FunctionBegun(f, c, x, parameters) ==
  /\ f = Len(stack) + 1 /\ f \in Nat /\ f > 1
  /\ c \in Cell /\ c.type = "default" /\ x \in Cell /\ x.type = "default"
  /\ outer' = Append(outer, [free |-> f, frames |-> <<Deletion(f)>> \o frames, isFileScope |-> isFileScope])
  /\ isFileScope' = FALSE
  /\ constructs' = Append(constructs, [kind |-> "function", symbol |-> f])
  /\ UNCHANGED <<ppm, kept, parsing>>
  /\ \/ /\ parameters = <<>>
        /\ stack' = Append(stack, c) /\ table' = <<f>> \o table /\ frames' = <<Deletion(f)>> \o frames
     \/ /\ Len(parameters) = 1
        /\ stack' = Append(Append(stack, c), x) /\ table' = <<f + 1>> \o (<<f>> \o table)
        /\ frames' = <<Deletion(f + 1)>> \o (<<Deletion(f)>> \o frames)

LEMMA FunctionBegins ==
    ASSUME Inv, NEW name \in Names, NEW parameter \in Names,
           NEW parameters \in {<<>>, <<parameter>>}, BeginFunction(name, parameters)
    PROVE  FunctionBegun(Len(stack) + 1, Symbol("default", name, ~Nested),
                         Symbol("default", parameter, FALSE), parameters)
<1> DEFINE f == Len(stack) + 1
           outermost == ~Nested
           c == Symbol("default", name, outermost)
           x == Symbol("default", parameter, FALSE)
           df == Deletion(f)
           dx == Deletion(f + 1)
           cells == Append(stack, c)
           tab == <<f>> \o table
           fr == <<df>> \o frames
           b == [free |-> f, frames |-> fr, isFileScope |-> isFileScope]
           out == Append(outer, b)
           h == [kind |-> "function", symbol |-> f]
           con == Append(constructs, h)
           own == [i \in DOMAIN parameters |-> f + i]
           newest == Reverse(own)
           added == [i \in DOMAIN parameters |-> Symbol("default", parameters[i], FALSE)]
           actions == [i \in DOMAIN newest |-> [do |-> "delete", symbol |-> newest[i]]]
<1>1. /\ stack \in Seq(Cell) /\ Len(stack) \in Nat /\ Len(stack) >= 1 /\ isFileScope \in BOOLEAN
      /\ table \in Seq(Int) /\ frames \in Seq(Frame)
  BY DEF Inv, Typed, Core
<1>2. f \in Nat /\ f > 1 BY <1>1
<1>3. /\ stack' = cells \o added /\ table' = newest \o <<f>> \o table
      /\ outer' = Append(outer, [CurrentBlock EXCEPT !.free = f, !.frames = fr])
      /\ isFileScope' = FALSE /\ frames' = actions \o fr
      /\ constructs' = con /\ UNCHANGED <<ppm, kept, parsing>>
  BY DEF BeginFunction, Begin, Deletion
<1>4. outer' = out
  <2>1. [CurrentBlock EXCEPT !.free = f, !.frames = fr] = b
    <3>1. CurrentBlock \in Block /\ CurrentBlock.isFileScope = isFileScope
      BY <1>1 DEF CurrentBlock, Block
    <3> QED BY <3>1, BlockChanged
  <2> QED BY <1>3, <2>1
<1>5. c \in Cell /\ c.type = "default"
  <2>1. outermost \in BOOLEAN BY Zenon
  <2> HIDE DEF outermost
  <2> QED BY <2>1, SymbolCell
<1>6. x \in Cell /\ x.type = "default" BY SymbolCell, ZenonT(30)
<1> HIDE DEF c, x
<1>7. df \in Frame /\ cells \in Seq(Cell)
  BY <1>1, <1>2, <1>5 DEF Frame, Deletion
<1> HIDE DEF df
<1>8. fr \in Seq(Frame) /\ tab \in Seq(Int) BY <1>1, <1>2, <1>7
<1> HIDE DEF cells, f, tab, fr
<1>9. CASE parameters = <<>>
  <2>1. newest = <<>> /\ added = <<>> /\ actions = <<>>
    <3>1. DOMAIN parameters = {} BY <1>9, NoElement
    <3>2. own = <<>> /\ added = <<>> BY <3>1
    <3>3. newest = <<>> BY <3>2, NoElement
    <3>4. DOMAIN newest = {} BY <3>3, NoElement
    <3>5. actions = <<>> BY <3>4
    <3> QED BY <3>2, <3>3, <3>5
  <2> HIDE DEF newest, added, actions
  <2>2. newest \o <<f>> \o table = tab
    <3>1. <<f>> \in Seq(Int) BY <1>2
    <3>2. newest \o <<f>> = <<f>> BY <2>1, <3>1, NoElement
    <3> QED BY <3>2 DEF tab
  <2>3. stack' = cells /\ table' = tab /\ frames' = fr
    BY <1>3, <1>7, <1>8, <2>1, <2>2, NoElement
  <2>4. FunctionBegun(f, c, x, parameters)
    BY <1>2, <1>3, <1>4, <1>5, <1>6, <1>9, <2>3 DEF FunctionBegun, f, cells, tab, fr, df
  <2> QED BY <2>4 DEF f, c, x
<1>10. CASE parameters = <<parameter>>
  <2>0. DOMAIN parameters = 1..1 /\ parameters[1] = parameter /\ Len(parameters) = 1
    BY <1>10, OneElement
  <2>1. newest = <<f + 1>> /\ added = <<x>> /\ actions = <<dx>>
    <3>2. own = [i \in 1..1 |-> f + 1] BY <2>0
    <3>3. newest = <<f + 1>> BY <3>2, OneElement
    <3>4. added = [i \in 1..1 |-> x]
      <4>1. \A i \in DOMAIN parameters : Symbol("default", parameters[i], FALSE) = x
        <5>1. \A i \in DOMAIN parameters : parameters[i] = parameter BY <2>0
        <5> QED BY <5>1 DEF x
      <4> QED BY <2>0, <4>1
    <3>5. added = <<x>> BY <3>4, OneElement
    <3>6. DOMAIN newest = 1..1 /\ newest[1] = f + 1 BY <3>3, OneElement
    <3> HIDE DEF newest
    <3>7. actions = [i \in 1..1 |-> dx] BY <3>6 DEF Deletion
    <3>8. actions = <<dx>> BY <3>7, OneElement
    <3> QED BY <3>3, <3>5, <3>8
  <2> HIDE DEF newest, added, actions
  <2>2. stack' = Append(cells, x) /\ table' = <<f + 1>> \o tab /\ frames' = <<dx>> \o fr
    <3>1. cells \o <<x>> = Append(cells, x) BY <1>6, <1>7
    <3>2. <<f + 1>> \o <<f>> \o table = <<f + 1>> \o tab
      <4>1. f + 1 \in Int /\ f \in Int BY <1>2
      <4> QED BY <1>1, <4>1, TwoPrepended DEF tab
    <3> QED BY <1>3, <2>1, <3>1, <3>2
  <2>3. FunctionBegun(f, c, x, parameters)
    BY <1>2, <1>3, <1>4, <1>5, <1>6, <2>0, <2>2 DEF FunctionBegun, f, cells, tab, fr, df
  <2> QED BY <2>3 DEF f, c, x
<1> QED BY <1>9, <1>10

LEMMA ExactByBeginFunction ==
    ASSUME Inv, Exact, NEW name \in Names, NEW parameter \in Names,
           NEW parameters \in {<<>>, <<parameter>>}, BeginFunction(name, parameters)
    PROVE  Exact'
<1> DEFINE f == Len(stack) + 1
           c == Symbol("default", name, ~Nested)
           x == Symbol("default", parameter, FALSE)
           cells == Append(stack, c)
           tab == <<f>> \o table
           fr == <<Deletion(f)>> \o frames
           b == [free |-> f, frames |-> fr, isFileScope |-> isFileScope]
           out == Append(outer, b)
           h == [kind |-> "function", symbol |-> f]
           con == Append(constructs, h)
           m == Len(ppm)
<1>1. FunctionBegun(f, c, x, parameters) BY FunctionBegins
<1> HIDE DEF c, x
<1>2. c.members = None /\ x.members = None BY DEF c, x, Symbol
<1>3. /\ stack \in Seq(Cell) /\ m \in Nat /\ table \in Seq(Int) /\ frames \in Seq(Frame) /\ isFileScope \in BOOLEAN
      /\ outer \in Seq(Block) /\ constructs \in Seq(Construct)
      /\ Core(stack, m, table, frames, outer, constructs, parsing)
      /\ HasExactly(stack, m, table, frames, outer, constructs)
  BY ExactTypes
<1>4. /\ parsing # "no" /\ \A k \in 1..Len(constructs) : constructs[k].kind # "tag"
  <2>1. parsing # "no" /\ (constructs = <<>> \/ Last(constructs).kind = "file")
    BY DEF BeginFunction, Inside
  <2> QED BY <2>1, NoTags
<1>5. f \in Nat /\ f > 1 /\ c \in Cell /\ c.type = "default" /\ x \in Cell /\ x.type = "default"
  BY <1>1 DEF FunctionBegun
<1>6. /\ Core(cells, m, table, frames, outer, constructs, parsing)
      /\ Len(cells) = f /\ cells[f] = c
      /\ \A i \in 1..Len(table) : table[i] < f
      /\ \A i \in 1..Len(frames) : frames[i].symbol < f
      /\ \A d \in 1..Len(outer) : outer[d].free < f
  BY <1>2, <1>3, <1>5, CellAdded
<1>7. HasExactly(cells, m, tab, fr, outer, constructs)
  BY <1>3, <1>5, ExactOfSymbol DEF Deletion
<1> HIDE DEF cells, f
<1>8. Core(cells, m, tab, fr, outer, constructs, parsing)
  BY <1>5, <1>6, PointerAdded DEF Deletion
<1>9. fr \in Seq(Frame) BY <1>8 DEF Core
<1> HIDE DEF fr
<1>10. h \in Construct /\ BeginsBlock(h) /\ h.symbol <= Len(cells)
  BY <1>5, <1>6 DEF Construct, BeginsBlock
<1> HIDE DEF h
<1>11. b \in Block /\ b.frames = fr /\ b = [free |-> Len(cells), frames |-> fr, isFileScope |-> isFileScope]
  BY <1>3, <1>5, <1>6, <1>9 DEF Block
<1>12. Core(cells, m, tab, fr, out, con, parsing)
  BY <1>3, <1>4, <1>8, <1>10, <1>11, BlockBegun
<1> HIDE DEF b
<1>13. HasExactly(cells, m, tab, fr, out, con)
  BY <1>3, <1>7, <1>10, <1>11, ExactOfBlock
<1> HIDE DEF out, con, tab
<1>14. outer' = out /\ constructs' = con /\ ppm' = ppm
  BY <1>1 DEF FunctionBegun, out, b, fr, con, h
<1>15. CASE stack' = cells /\ table' = tab /\ frames' = fr
  BY <1>13, <1>14, <1>15 DEF Exact
<1>16. CASE stack' = Append(cells, x) /\ table' = <<f + 1>> \o tab /\ frames' = <<Deletion(f + 1)>> \o fr
  <2>1. f + 1 = Len(cells) + 1 /\ x.type # "tag" BY <1>5, <1>6
  <2>2. HasExactly(Append(cells, x), m, <<f + 1>> \o tab, <<Deletion(f + 1)>> \o fr, out, con)
    BY <1>5, <1>12, <1>13, <2>1, ExactOfSymbol DEF Deletion
  <2> QED BY <1>14, <1>16, <2>2 DEF Exact
<1> QED BY <1>1, <1>15, <1>16 DEF FunctionBegun, cells, tab, fr

LEMMA ExactInit == Init => Exact
<1> SUFFICES ASSUME Init PROVE Exact
  OBVIOUS
<1>1. /\ stack = <<Keyword>> /\ table = <<1>> /\ frames = <<>> /\ outer = <<>> /\ ppm = <<>> /\ constructs = <<>>
  BY DEF Init
<1> HIDE DEF Keyword
<1>2. stack[1] = Keyword /\ Len(ppm) = 0 /\ 0 \in Nat /\ 1..0 = {} /\ outer \in Seq(Block)
  BY <1>1
<1>3. table \in Seq(Int) /\ Len(table) = 1 /\ table[1] = 1 BY <1>1
<1>4. Ordered(table) BY <1>3 DEF Ordered
<1>5. Elements(table) = {1} \cup {-p : p \in 1..0} BY <1>2, <1>3 DEF Elements
<1>6. HasExactly(stack, 0, table, <<>>, outer, <<>>)
  BY <1>2, <1>3, <1>4, <1>5, ExactOfFile
<1> QED BY <1>1, <1>2, <1>6 DEF Exact

LEMMA ExactNext == Inv /\ Exact /\ [Next]_vars => Exact'
<1> SUFFICES ASSUME Inv, Exact, [Next]_vars PROVE Exact'
  OBVIOUS
<1>1. ASSUME NEW name \in Names, Declare(name) \/ UseTag(name) \/ BeginTag(name) PROVE Exact'
  BY <1>1, ExactByDeclare
<1>2. ASSUME NEW name \in Names, Define(name) \/ Undefine(name) PROVE Exact'
  BY <1>2, ExactByMacro
<1>3. ASSUME NEW name \in Names, NEW parameters \in {<<>>, <<name>>}, NEW f \in Names,
             BeginFunction(f, parameters)
      PROVE  Exact'
  BY <1>3, ExactByBeginFunction
<1>4. CASE EndFunction \/ EndCompound BY <1>4, ExactByEnd
<1>5. CASE BeginCompound BY <1>5, ExactByBeginCompound
<1>6. CASE BeginLoop BY <1>6, ExactByBeginLoop
<1>7. CASE EndLoop BY <1>7, ExactByEndLoop
<1>8. CASE EndTag \/ EndEmptyTag BY <1>8, ExactByEndTag
<1>9. CASE StopParsing BY <1>9, ExactByStopParsing
<1>10. ASSUME NEW operation \in Operations, NEW yacc \in BOOLEAN, NextFile(operation, yacc)
       PROVE  Exact'
  BY <1>10, NextFileBegins, ExactOfFileBegun
<1>11. ASSUME NEW operation \in Operations, NEW yacc \in BOOLEAN,
              NEW defines \in {<<>>} \cup {<<name>> : name \in Names},
              NextProject(defines, operation, yacc)
       PROVE  Exact'
  <2>1. CASE defines = <<>>
    <3>1. defines \in {<<>>, <<0>>} BY <2>1
    <3>2. FileBegun(Len(defines), yacc) /\ Len(defines) \in Nat
      BY <1>11, <2>1, <3>1, NextProjectBegins
    <3> QED BY <3>2, ExactOfFileBegun
  <2>2. CASE \E name \in Names : defines = <<name>>
    <3>1. PICK name \in Names : defines = <<name>> BY <2>2
    <3>2. defines \in {<<>>, <<name>>} BY <3>1
    <3>3. FileBegun(Len(defines), yacc) /\ Len(defines) \in Nat
      BY <1>11, <3>2, NextProjectBegins
    <3> QED BY <3>3, ExactOfFileBegun
  <2> QED BY <1>11, <2>1, <2>2
<1>12. CASE UNCHANGED vars BY <1>12 DEF vars, memory, Exact
<1> QED
  BY <1>1, <1>2, <1>3, <1>4, <1>5, <1>6, <1>7, <1>8, <1>9, <1>10, <1>11, <1>12 DEF Next

LEMMA AlwaysExact == Spec => [](Inv /\ Exact)
<1>1. Init => Inv /\ Exact BY InvInit, ExactInit
<1>2. (Inv /\ Exact) /\ [Next]_vars => (Inv /\ Exact)' BY InvNext, ExactNext
<1> QED BY <1>1, <1>2, PTL DEF Spec

-----------------------------------------------------------------------------
(* What Scopes sees of a state                                             *)

Scope(x, symbols) == [fileScope |-> x, symbols |-> symbols]
Current(cells, tab, out) == SymbolsBetween(cells, tab, Low(out), Len(cells))

\* The scopes around, and the innermost: the rest is what its symbols are.
LEMMA ScopesAre ==
    ASSUME NEW cells \in Seq(Cell), NEW tab, NEW out \in Seq(Block), NEW fr \in Seq(Frame), NEW x \in BOOLEAN
    PROVE  LET all == ScopesOf(cells, tab, Append(out, [free |-> Len(cells), frames |-> fr, isFileScope |-> x]))
               around == ScopesOf(cells, tab, out)
           IN  /\ all = Append(around, Scope(x, Current(cells, tab, out)))
               /\ \E S : around \in Seq(S)
               /\ Len(around) = Len(out)
               /\ \A d \in 1..Len(out) : around[d].fileScope = out[d].isFileScope
<1> DEFINE b == [free |-> Len(cells), frames |-> fr, isFileScope |-> x]
<1>1. b \in Block /\ b.free = Len(cells) /\ b.isFileScope = x BY DEF Block
<1> HIDE DEF b
<1>2. ScopeOf(cells, tab, b, Low(out)) = Scope(x, Current(cells, tab, out))
  BY <1>1 DEF ScopeOf, Scope, Current
<1>3. /\ ScopesOf(cells, tab, Append(out, b)) =
           Append(ScopesOf(cells, tab, out), ScopeOf(cells, tab, b, Low(out)))
      /\ \E S : /\ ScopesOf(cells, tab, out) \in Seq(S) /\ ScopeOf(cells, tab, b, Low(out)) \in S
      /\ Len(ScopesOf(cells, tab, out)) = Len(out)
      /\ \A d \in 1..Len(out) : ScopesOf(cells, tab, out)[d].fileScope = out[d].isFileScope
  BY <1>1, ScopesSplit
<1> QED BY <1>2, <1>3 DEF b

LEMMA LastReplaced ==
    ASSUME NEW T, NEW all \in Seq(T), NEW s \in Seq(T), Len(all) = Len(s) + 1,
           \A i \in 1..Len(s) : all[i] = s[i],
           NEW z
    PROVE  [all EXCEPT ![Len(s) + 1] = z] = Append(s, z)
<1> DEFINE U == T \cup {z}
           a == [all EXCEPT ![Len(s) + 1] = z]
           b == Append(s, z)
           n == Len(s) + 1
<1>1. all \in Seq(U) /\ s \in Seq(U) /\ z \in U OBVIOUS
<1>2. Len(s) \in Nat /\ n = Len(s) + 1 /\ n \in 1..Len(all) OBVIOUS
<1> HIDE DEF U, n
<1>0. a = [all EXCEPT ![n] = z] BY DEF n
<1> HIDE DEF a
<1>3. a \in Seq(U) /\ Len(a) = n /\ \A i \in 1..n : a[i] = IF i = n THEN z ELSE all[i]
  BY <1>0, <1>1, <1>2
<1>4. /\ b \in Seq(U) /\ Len(b) = n /\ b[n] = z
      /\ \A i \in 1..Len(s) : b[i] = s[i]
  BY <1>1, <1>2, AppendFacts
<1> HIDE DEF b
<1>5. \A i \in 1..n : i # n => i \in 1..Len(s) BY <1>2
<1>6. \A i \in 1..n : a[i] = b[i] BY <1>3, <1>4, <1>5
<1>7. a = b BY <1>3, <1>4, <1>6, SameSequence
<1> QED BY <1>7 DEF a, b

IsTop(all, s, x, w) ==
  \E T : /\ all \in Seq(T) /\ s \in Seq(T) /\ Len(all) = Len(s) + 1
         /\ \A i \in 1..Len(s) : all[i] = s[i]
         /\ all[Len(s) + 1] = Scope(x, w)

LEMMA TopChanged ==
    ASSUME NEW all, NEW s, NEW x, NEW w, IsTop(all, s, x, w)
    PROVE  \A v : [all EXCEPT ![Len(all)].symbols = v] = Append(s, Scope(x, v))
<1> SUFFICES ASSUME NEW v
             PROVE  [all EXCEPT ![Len(all)].symbols = v] = Append(s, Scope(x, v))
  OBVIOUS
<1>1. PICK T : /\ all \in Seq(T) /\ s \in Seq(T) /\ Len(all) = Len(s) + 1
               /\ \A i \in 1..Len(s) : all[i] = s[i]
               /\ all[Len(s) + 1] = Scope(x, w)
  BY DEF IsTop
<1> DEFINE z == Scope(x, v)
           n == Len(s) + 1
<1>2. [Scope(x, w) EXCEPT !.symbols = v] = z BY DEF Scope
<1>3. [all[n] EXCEPT !.symbols = v] = z BY <1>1, <1>2
<1>4. [all EXCEPT ![n].symbols = v] = [all EXCEPT ![n] = [all[n] EXCEPT !.symbols = v]]
  OBVIOUS
<1> HIDE DEF z
<1>5. [all EXCEPT ![Len(s) + 1] = z] = Append(s, z) BY <1>1, LastReplaced
<1> QED BY <1>1, <1>3, <1>4, <1>5 DEF z

LEMMA AppendedIsTop ==
    ASSUME NEW S, NEW s \in Seq(S), NEW x, NEW w
    PROVE  IsTop(Append(s, Scope(x, w)), s, x, w)
<1> DEFINE y == Scope(x, w)
           T == S \cup {y}
           all == Append(s, y)
<1>1. s \in Seq(T) /\ y \in T OBVIOUS
<1> HIDE DEF T, y
<1>2. /\ all \in Seq(T) /\ Len(all) = Len(s) + 1 /\ all[Len(s) + 1] = y
      /\ \A i \in 1..Len(s) : all[i] = s[i]
  BY <1>1, AppendFacts
<1> HIDE DEF all
<1>3. all[Len(s) + 1] = Scope(x, w) BY <1>2 DEF y
<1>4. IsTop(all, s, x, w) BY <1>1, <1>2, <1>3 DEF IsTop
<1> QED BY <1>4 DEF all, y

\* Scopes changes the symbols of the innermost.
LEMMA InnermostIs ==
    ASSUME NEW all, NEW s, NEW x, NEW w, IsTop(all, s, x, w)
    PROVE  /\ Len(all) = Len(s) + 1 /\ Len(s) \in Nat
           /\ \A d \in 1..Len(s) : all[d] = s[d]
           /\ all[Len(all)] = Scope(x, w) /\ all[Len(all)].symbols = w /\ all[Len(all)].fileScope = x
           /\ Front(all) = s
<1>1. PICK T : /\ all \in Seq(T) /\ s \in Seq(T) /\ Len(all) = Len(s) + 1
               /\ \A i \in 1..Len(s) : all[i] = s[i]
               /\ all[Len(s) + 1] = Scope(x, w)
  BY DEF IsTop
<1>2. Len(s) \in Nat /\ Len(all) \in Nat BY <1>1
<1>3. Scope(x, w).symbols = w /\ Scope(x, w).fileScope = x BY DEF Scope
<1>4. all # <<>> BY <1>1, <1>2
<1>5. /\ Front(all) \in Seq(T) /\ Len(Front(all)) = Len(all) - 1
      /\ \A i \in 1..(Len(all) - 1) : Front(all)[i] = all[i]
  BY <1>1, <1>4, FrontFacts
<1>6. Len(all) - 1 = Len(s) BY <1>1, <1>2
<1>7. \A i \in 1..Len(s) : Front(all)[i] = s[i] BY <1>1, <1>5, <1>6
<1>8. Front(all) = s BY <1>1, <1>5, <1>6, <1>7, SameSequence
<1> QED BY <1>1, <1>2, <1>3, <1>8

\* The macros, newest first
Descending(m) == [i \in 1..m |-> -(m + 1 - i)]

LEMMA MacrosAre ==
    ASSUME NEW tab \in Seq(Int), Ordered(tab), NEW m \in Nat, \A p \in 1..m : -p \in Elements(tab)
    PROVE  Among(tab, (-m)..(-1)) = Descending(m)
<1> DEFINE W == (-m)..(-1)
           s == Descending(m)
<1>1. s \in Seq(Int) /\ Len(s) = m /\ \A i \in 1..m : s[i] = -(m + 1 - i)
  BY DEF Descending
<1> HIDE DEF s
<1>2. \A p \in W : p \in Int /\ ~(p > 0) /\ -p \in 1..m /\ p = -(-p) OBVIOUS
<1>3. NewestFirst(s)
  <2> SUFFICES ASSUME NEW i \in 1..m, NEW j \in 1..m, i < j PROVE Newer(s[i], s[j])
    BY <1>1 DEF NewestFirst
  <2>1. s[i] = -(m + 1 - i) /\ s[j] = -(m + 1 - j) BY <1>1
  <2>2. ~(s[j] > 0) /\ s[i] < s[j] BY <2>1
  <2> QED BY <2>2 DEF Newer
<1>4. Elements(s) = W
  <2>1. ASSUME NEW p \in Elements(s) PROVE p \in W
    <3>1. PICK i \in 1..m : p = -(m + 1 - i) BY <1>1 DEF Elements
    <3> QED BY <3>1
  <2>2. ASSUME NEW p \in W PROVE p \in Elements(s)
    <3>1. p \in Int /\ -m <= p /\ p <= -1 OBVIOUS
    <3>2. m + 1 + p \in 1..m /\ -(m + 1 - (m + 1 + p)) = p BY <3>1
    <3>3. s[m + 1 + p] = p BY <1>1, <3>2
    <3> QED BY <1>1, <3>2, <3>3 DEF Elements
  <2> QED BY <2>1, <2>2
<1>5. W \subseteq Elements(tab) BY <1>2
<1>6. Elements(s) = Elements(tab) \cap W BY <1>4, <1>5
<1>7. \A p \in W : ~(p > 0) BY <1>2
<1> HIDE DEF W
<1>8. Among(tab, W) = s BY <1>1, <1>3, <1>6, <1>7, AmongIs
<1> QED BY <1>8 DEF W, s

LEMMA ProjectMacrosAre ==
    ASSUME NEW cells \in Seq(Macro), NEW k \in Nat, k <= Len(cells)
    PROVE  Reverse(Macros(SubSeq(cells, 1, k))) = Descending(k)
<1> DEFINE first == SubSeq(cells, 1, k)
           all == Macros(first)
<1>1. first \in Seq(Macro) /\ Len(first) = k
  <2>1. 1 \in 1..(Len(cells) + 1) /\ k \in (1 - 1)..Len(cells) /\ k - 1 + 1 = k
    OBVIOUS
  <2>2. first \in Seq(Macro) /\ Len(first) = k - 1 + 1 BY <2>1, SubSeqFacts
  <2> QED BY <2>1, <2>2
<1> HIDE DEF first
<1>2. DOMAIN first = 1..k BY <1>1
<1>3. all = [i \in 1..k |-> -i] BY <1>2 DEF Macros
<1> HIDE DEF all
<1>4. all \in Seq(Int) /\ Len(all) = k /\ \A i \in 1..k : all[i] = -i BY <1>3
<1>5. Reverse(all) = [i \in 1..k |-> all[(k - i) + 1]] BY <1>4 DEF Reverse
<1>6. \A i \in 1..k : all[(k - i) + 1] = -(k + 1 - i)
  <2> SUFFICES ASSUME NEW i \in 1..k PROVE all[(k - i) + 1] = -(k + 1 - i)
    OBVIOUS
  <2>1. (k - i) + 1 \in 1..k /\ (k - i) + 1 = k + 1 - i OBVIOUS
  <2> QED BY <1>4, <2>1
<1> QED BY <1>5, <1>6 DEF Descending, all, first

Described1(cell) == [name |-> cell.name, defined |-> cell.defined]

LEMMA MacrosOfDescending ==
    ASSUME NEW cells, NEW m \in Nat
    PROVE  MacrosOf(cells, Descending(m)) = [i \in 1..m |-> Described1(cells[m + 1 - i])]
<1>1. DOMAIN Descending(m) = 1..m BY DEF Descending
<1>2. ASSUME NEW i \in 1..m PROVE -(Descending(m)[i]) = m + 1 - i
  <2>1. Descending(m)[i] = -(m + 1 - i) BY DEF Descending
  <2> QED BY <2>1
<1>3. MacrosOf(cells, Descending(m)) =
        [i \in 1..m |-> [name |-> cells[-(Descending(m)[i])].name, defined |-> cells[-(Descending(m)[i])].defined]]
  BY <1>1 DEF MacrosOf
<1> QED BY <1>2, <1>3 DEF Described1

LEMMA SameMacros ==
    ASSUME NEW cells, NEW cells2, NEW m \in Nat, \A i \in 1..m : cells2[i] = cells[i]
    PROVE  MacrosOf(cells2, Descending(m)) = MacrosOf(cells, Descending(m))
<1>1. \A i \in 1..m : m + 1 - i \in 1..m OBVIOUS
<1>2. \A i \in 1..m : Described1(cells2[m + 1 - i]) = Described1(cells[m + 1 - i])
  BY <1>1
<1> QED BY <1>2, MacrosOfDescending

LEMMA OneMoreMacro ==
    ASSUME NEW cells \in Seq(Macro), NEW c \in Macro, NEW m, m = Len(cells)
    PROVE  MacrosOf(Append(cells, c), Descending(m + 1)) =
             <<Described1(c)>> \o MacrosOf(cells, Descending(m))
<1> DEFINE more == Append(cells, c)
           D == {Described1(d) : d \in Macro}
           a == MacrosOf(more, Descending(m + 1))
           s == MacrosOf(cells, Descending(m))
           b == <<Described1(c)>> \o s
<1>1. /\ m \in Nat /\ more[m + 1] = c /\ \A i \in 1..m : more[i] = cells[i] /\ cells[i] \in Macro
  BY AppendFacts
<1> HIDE DEF more
<1>2. a = [i \in 1..(m + 1) |-> Described1(more[m + 1 + 1 - i])] /\ s = [i \in 1..m |-> Described1(cells[m + 1 - i])]
  <2>1. m + 1 \in Nat BY <1>1
  <2>2. a = [i \in 1..(m + 1) |-> Described1(more[m + 1 + 1 - i])]
    BY <2>1, MacrosOfDescending
  <2>3. s = [i \in 1..m |-> Described1(cells[m + 1 - i])]
    BY <1>1, MacrosOfDescending
  <2> QED BY <2>2, <2>3
<1>3. \A i \in 1..m : m + 1 - i \in 1..m BY <1>1
<1>4. \A d \in Macro : Described1(d) \in D OBVIOUS
<1> HIDE DEF D
<1>5. s \in Seq(D) /\ Len(s) = m /\ \A i \in 1..m : s[i] = Described1(cells[m + 1 - i])
  BY <1>1, <1>2, <1>3, <1>4
<1>6. /\ b \in Seq(D) /\ Len(b) = m + 1 /\ b[1] = Described1(c)
      /\ \A i \in 1..(m + 1) : i # 1 => i - 1 \in 1..m /\ b[i] = s[i - 1]
  BY <1>4, <1>5, PrependFacts
<1> HIDE DEF a, b, s
<1>7. ASSUME NEW i \in 1..(m + 1) PROVE Described1(more[m + 1 + 1 - i]) = b[i]
  <2>1. CASE i = 1
    <3>1. m + 1 + 1 - i = m + 1 BY <1>1, <2>1
    <3> QED BY <1>1, <1>6, <2>1, <3>1
  <2>2. CASE i # 1
    <3>1. i - 1 \in 1..m /\ m + 1 - (i - 1) = m + 1 + 1 - i BY <1>1, <2>2
    <3>2. m + 1 + 1 - i \in 1..m BY <1>3, <3>1
    <3>3. s[i - 1] = Described1(cells[m + 1 - (i - 1)]) BY <1>5, <3>1
    <3> QED BY <1>1, <1>6, <2>2, <3>1, <3>2, <3>3
  <2> QED BY <2>1, <2>2
<1>8. /\ a \in Seq(D) /\ Len(a) = m + 1 /\ \A i \in 1..(m + 1) : a[i] = b[i]
  <2>1. \A i \in 1..(m + 1) : b[i] \in D BY <1>6
  <2> QED BY <1>1, <1>2, <1>7, <2>1
<1>9. a = b BY <1>6, <1>8, SameSequence
<1> QED BY <1>9 DEF a, b, s, more

-----------------------------------------------------------------------------
(* What Scopes is told by a state                                          *)

Seen == ScopesOf(stack, table, Blocks)
SeenMacros == MacrosOf(ppm, Among(table, (-Len(ppm))..(-1)))
SeenProject == MacrosOf(ppm, Reverse(Macros(SubSeq(ppm, 1, project.ppm))))

LEMMA TopIs ==
    ASSUME NEW all, NEW s, NEW x, NEW w, IsTop(all, s, x, w)
    PROVE  all = Append(s, Scope(x, w))
<1>1. PICK T : /\ all \in Seq(T) /\ s \in Seq(T) /\ Len(all) = Len(s) + 1
               /\ \A i \in 1..Len(s) : all[i] = s[i]
               /\ all[Len(s) + 1] = Scope(x, w)
  BY DEF IsTop
<1> DEFINE b == Append(s, Scope(x, w))
<1>2. Len(s) \in Nat /\ Len(s) + 1 \in 1..Len(all) BY <1>1
<1>3. Scope(x, w) \in T BY <1>1, <1>2
<1>4. /\ b \in Seq(T) /\ Len(b) = Len(s) + 1 /\ b[Len(s) + 1] = Scope(x, w)
      /\ \A i \in 1..Len(s) : b[i] = s[i]
      /\ \A i \in 1..(Len(s) + 1) : i # Len(s) + 1 => i \in 1..Len(s)
  BY <1>1, <1>3, AppendFacts
<1> HIDE DEF b
<1>5. \A i \in 1..Len(all) : all[i] = b[i] BY <1>1, <1>4
<1>6. all = b BY <1>1, <1>4, <1>5, SameSequence
<1> QED BY <1>6 DEF b

LEMMA SeenOf ==
    ASSUME NEW cells, NEW macros \in Seq(Macro), NEW tab, NEW fr, NEW out, NEW con, NEW op,
           Core(cells, Len(macros), tab, fr, out, con, op),
           HasExactly(cells, Len(macros), tab, fr, out, con),
           NEW x \in BOOLEAN, NEW k \in Nat, k <= Len(macros)
    PROVE  /\ IsTop(ScopesOf(cells, tab, Append(out, [free |-> Len(cells), frames |-> fr, isFileScope |-> x])),
                    ScopesOf(cells, tab, out), x, Current(cells, tab, out))
           /\ Len(ScopesOf(cells, tab, out)) = Len(out)
           /\ \A d \in 1..Len(out) : ScopesOf(cells, tab, out)[d].fileScope = out[d].isFileScope
           /\ Among(tab, (-Len(macros))..(-1)) = Descending(Len(macros))
           /\ Reverse(Macros(SubSeq(macros, 1, k))) = Descending(k)
<1>1. /\ cells \in Seq(Cell) /\ tab \in Seq(Int) /\ fr \in Seq(Frame) /\ out \in Seq(Block)
      /\ Len(macros) \in Nat
  BY CoreFacts
<1>2. Ordered(tab) /\ \A p \in 1..Len(macros) : -p \in Elements(tab)
  BY DEF HasExactly
<1> DEFINE all == ScopesOf(cells, tab, Append(out, [free |-> Len(cells), frames |-> fr, isFileScope |-> x]))
           around == ScopesOf(cells, tab, out)
           w == Current(cells, tab, out)
<1>3. /\ all = Append(around, Scope(x, w))
      /\ \E S : around \in Seq(S)
      /\ Len(around) = Len(out)
      /\ \A d \in 1..Len(out) : around[d].fileScope = out[d].isFileScope
  BY ZenonT(30), <1>1, ScopesAre
<1> HIDE DEF all, around, w
<1>4. IsTop(all, around, x, w) BY <1>3, AppendedIsTop
<1>5. Among(tab, (-Len(macros))..(-1)) = Descending(Len(macros))
  BY <1>1, <1>2, MacrosAre
<1>6. Reverse(Macros(SubSeq(macros, 1, k))) = Descending(k) BY ProjectMacrosAre
<1> QED BY <1>3, <1>4, <1>5, <1>6 DEF all, around, w

\* A state and the next one, as Scopes sees them
Sees(all, ms, ps, around, x, here, cells, n, k) ==
  /\ IsTop(all, around, x, here)
  /\ ms = MacrosOf(cells, Descending(n)) /\ ps = MacrosOf(cells, Descending(k))

LEMMA SeenNow ==
    ASSUME Inv, Exact
    PROVE  /\ Sees(Seen, SeenMacros, SeenProject, ScopesOf(stack, table, outer), isFileScope,
                   Current(stack, table, outer), ppm, Len(ppm), project.ppm)
           /\ Len(ScopesOf(stack, table, outer)) = Len(outer)
           /\ \A d \in 1..Len(outer) : ScopesOf(stack, table, outer)[d].fileScope = outer[d].isFileScope
<1>1. /\ ppm \in Seq(Macro) /\ isFileScope \in BOOLEAN /\ project \in Checkpoint
      /\ project.ppm <= Len(ppm)
      /\ Core(stack, Len(ppm), table, frames, outer, constructs, parsing)
  BY DEF Inv, Typed, Checkpoints
<1>2. HasExactly(stack, Len(ppm), table, frames, outer, constructs) BY DEF Exact
<1>3. project.ppm \in Nat BY <1>1 DEF Checkpoint
<1>4. Blocks = Append(outer, [free |-> Len(stack), frames |-> frames, isFileScope |-> isFileScope])
  BY DEF Blocks, CurrentBlock
<1> QED
  BY <1>1, <1>2, <1>3, <1>4, SeenOf DEF Sees, Seen, SeenMacros, SeenProject

LEMMA SeenNext ==
    ASSUME Inv', Exact'
    PROVE  Sees(Seen', SeenMacros', SeenProject', ScopesOf(stack', table', outer'), isFileScope',
                Current(stack', table', outer'), ppm', Len(ppm'), project'.ppm)
<1>1. /\ ppm' \in Seq(Macro) /\ isFileScope' \in BOOLEAN /\ project' \in Checkpoint
      /\ project'.ppm <= Len(ppm')
      /\ Core(stack', Len(ppm'), table', frames', outer', constructs', parsing')
  BY DEF Inv, Typed, Checkpoints
<1>2. HasExactly(stack', Len(ppm'), table', frames', outer', constructs')
  BY DEF Exact
<1>3. project'.ppm \in Nat BY <1>1 DEF Checkpoint
<1>4. Blocks' = Append(outer', [free |-> Len(stack'), frames |-> frames', isFileScope |-> isFileScope'])
  BY DEF Blocks, CurrentBlock
<1>5. /\ Seen' = ScopesOf(stack', table', Blocks')
      /\ SeenMacros' = MacrosOf(ppm', Among(table', (-Len(ppm'))..(-1)))
      /\ SeenProject' = MacrosOf(ppm', Reverse(Macros(SubSeq(ppm', 1, project'.ppm))))
  BY DEF Seen, SeenMacros, SeenProject
<1> QED BY <1>1, <1>2, <1>3, <1>4, <1>5, SeenOf DEF Sees

-----------------------------------------------------------------------------
(* What a step of Scopes asks                                              *)

LEMMA SymbolOfScopes ==
    ASSUME NEW type, NEW name, NEW complete, NEW global
    PROVE  Promise!Symbol(type, name, complete, global) =
             [type |-> type, name |-> name, complete |-> complete, global |-> global]
BY DEF Promise!Symbol

\* The symbol that Scopes declares
Fresh(type, name, global) == [type |-> type, name |-> name, complete |-> FALSE, global |-> global]

LEMMA DeclareOfScopes ==
    ASSUME NEW s, NEW x, NEW w, NEW v, NEW type, NEW name, NEW global,
           IsTop(Seen, s, x, w), IsTop(Seen', s, x, v), Prepended(v, Fresh(type, name, global), w),
           UNCHANGED <<SeenMacros, SeenProject>>
    PROVE  Promise!Declare(type, name, global)
<1>1. Seen[Len(Seen)].symbols = w BY InnermostIs
<1>2. \A u : [Seen EXCEPT ![Len(Seen)].symbols = u] = Append(s, Scope(x, u))
  BY TopChanged
<1>3. Seen' = Append(s, Scope(x, v)) BY TopIs
<1>4. Promise!Symbol(type, name, FALSE, global) = Fresh(type, name, global)
  BY SymbolOfScopes DEF Fresh
<1>5. v = <<Fresh(type, name, global)>> \o w BY DEF Prepended
<1> QED BY <1>1, <1>2, <1>3, <1>4, <1>5
  DEF Promise!Declare, Promise!InInnermost, Promise!Innermost, Seen, SeenMacros, SeenProject

LEMMA OpenOfScopes ==
    ASSUME Seen' = Append(Seen, Scope(FALSE, <<>>)), UNCHANGED <<SeenMacros, SeenProject>>
    PROVE  Promise!Open(FALSE)
BY DEF Promise!Open, Seen, SeenMacros, SeenProject, Scope

LEMMA CloseOfScopes ==
    ASSUME NEW s, NEW x, NEW w, IsTop(Seen, s, x, w), Len(s) > 0, Seen' = s,
           UNCHANGED <<SeenMacros, SeenProject>>
    PROVE  Promise!Close
<1>1. Front(Seen) = s /\ Len(Seen) > 1 BY InnermostIs
<1> QED
  BY <1>1 DEF Promise!Close, Promise!Front, Front, Seen, SeenMacros, SeenProject

AreParameters(h, parameters) ==
  h = [i \in DOMAIN parameters |-> Fresh("default", parameters[i], FALSE)]

LEMMA FunctionOfScopes ==
    ASSUME NEW s, NEW x, NEW w, NEW v, NEW h, NEW around, NEW name, NEW parameters,
           IsTop(Seen, s, x, w), IsTop(around, s, x, v), IsTop(Seen', around, FALSE, h),
           Prepended(v, Fresh("default", name, Promise!Global), w),
           AreParameters(h, parameters),
           UNCHANGED <<SeenMacros, SeenProject>>
    PROVE  Promise!Function(name, parameters)
<1>1. Seen[Len(Seen)].symbols = w BY InnermostIs
<1>2. \A u : [Seen EXCEPT ![Len(Seen)].symbols = u] = Append(s, Scope(x, u))
  BY TopChanged
<1>3. Seen' = Append(Append(s, Scope(x, v)), Scope(FALSE, h))
  <2>1. around = Append(s, Scope(x, v)) BY TopIs
  <2>2. Seen' = Append(around, Scope(FALSE, h)) BY TopIs
  <2> QED BY <2>1, <2>2
<1>4. Promise!Symbol("default", name, FALSE, Promise!Global) = Fresh("default", name, Promise!Global)
  BY SymbolOfScopes DEF Fresh
<1>5. [i \in DOMAIN parameters |-> Promise!Symbol("default", parameters[i], FALSE, FALSE)] = h
  BY SymbolOfScopes DEF Fresh, AreParameters
<1>6. Scope(FALSE, h) = [fileScope |-> FALSE, symbols |-> h] BY DEF Scope
<1>7. v = <<Fresh("default", name, Promise!Global)>> \o w BY DEF Prepended
<1> HIDE DEF Scope
<1> QED BY <1>1, <1>2, <1>3, <1>4, <1>5, <1>6, <1>7
  DEF Promise!Function, Promise!InInnermost, Promise!Innermost, Seen, SeenMacros, SeenProject

Completes(v, w, i, name) ==
  /\ i \in DOMAIN w /\ w[i].type = "tag" /\ w[i].name = name
  /\ \A j \in 1..(i - 1) : w[j].type # "tag" \/ w[j].name # name
  /\ v = [w EXCEPT ![i].complete = TRUE]

LEMMA CompleteOfScopes ==
    ASSUME NEW s, NEW x, NEW w, NEW i, NEW name, NEW v,
           IsTop(Seen, s, x, w), IsTop(Seen', s, x, v), Completes(v, w, i, name),
           UNCHANGED <<SeenMacros, SeenProject>>
    PROVE  Promise!CompleteTag(name)
<1>1. Seen[Len(Seen)].symbols = w BY InnermostIs
<1>2. \A u : [Seen EXCEPT ![Len(Seen)].symbols = u] = Append(s, Scope(x, u))
  BY TopChanged
<1>3. Seen' = Append(s, Scope(x, v)) BY TopIs
<1> QED BY <1>1, <1>2, <1>3
  DEF Completes, Promise!CompleteTag, Promise!InInnermost, Promise!Innermost, Seen, SeenMacros, SeenProject

Doubled(v, d, w) == v = <<d, d>> \o w

LEMMA EnterLoopOfScopes ==
    ASSUME NEW s, NEW x, NEW w, NEW v,
           IsTop(Seen, s, x, w), IsTop(Seen', s, x, v), Doubled(v, Fresh("label", "loop", FALSE), w),
           UNCHANGED <<SeenMacros, SeenProject>>
    PROVE  Promise!EnterLoop
<1>1. Seen[Len(Seen)].symbols = w BY InnermostIs
<1>2. \A u : [Seen EXCEPT ![Len(Seen)].symbols = u] = Append(s, Scope(x, u))
  BY TopChanged
<1>3. Seen' = Append(s, Scope(x, v)) BY TopIs
<1>4. Promise!Symbol("label", "loop", FALSE, FALSE) = Fresh("label", "loop", FALSE)
  BY SymbolOfScopes DEF Fresh
<1>5. v = <<Fresh("label", "loop", FALSE), Fresh("label", "loop", FALSE)>> \o w
  BY DEF Doubled
<1> QED BY <1>1, <1>2, <1>3, <1>4, <1>5
  DEF Promise!EnterLoop, Promise!InInnermost, Promise!Innermost, Seen, SeenMacros, SeenProject

Leaves(v, w, i, j) ==
  /\ i \in DOMAIN w /\ j \in DOMAIN w /\ i < j
  /\ {k \in 1..j : w[k].type = "label"} = {i, j}
  /\ v = RemoveAt(RemoveAt(w, j), i)

LEMMA LeaveLoopOfScopes ==
    ASSUME NEW s, NEW x, NEW w, NEW i, NEW j, NEW v,
           IsTop(Seen, s, x, w), IsTop(Seen', s, x, v), Leaves(v, w, i, j),
           UNCHANGED <<SeenMacros, SeenProject>>
    PROVE  Promise!LeaveLoop
<1>1. Seen[Len(Seen)].symbols = w BY InnermostIs
<1>2. \A u : [Seen EXCEPT ![Len(Seen)].symbols = u] = Append(s, Scope(x, u))
  BY TopChanged
<1>3. Seen' = Append(s, Scope(x, v)) BY TopIs
<1>4. Promise!RemoveAt(Promise!RemoveAt(w, j), i) = RemoveAt(RemoveAt(w, j), i)
  BY DEF Promise!RemoveAt, RemoveAt
<1> QED BY <1>1, <1>2, <1>3, <1>4
  DEF Leaves, Promise!LeaveLoop, Promise!InInnermost, Promise!Innermost, Seen, SeenMacros, SeenProject

LEMMA DefineOfScopes ==
    ASSUME NEW name, NEW defined,
           SeenMacros' = <<[name |-> name, defined |-> defined]>> \o SeenMacros,
           UNCHANGED <<Seen, SeenProject>>
    PROVE  Promise!DefineMacro(name, defined)
BY DEF Promise!DefineMacro, Seen, SeenMacros, SeenProject

\* A file's first scopes
First(yacc) ==
  IF yacc THEN <<Scope(FALSE, <<Described(Keyword)>>), Scope(TRUE, <<>>)>>
  ELSE <<Scope(FALSE, <<Described(Keyword)>>)>>

LEMMA NextFileOfScopes ==
    ASSUME NEW yacc \in BOOLEAN, Seen' = First(yacc), SeenMacros' = SeenProject, UNCHANGED SeenProject
    PROVE  Promise!NextFile(yacc)
BY DEF Promise!NextFile, Promise!BaseScope, Seen, SeenMacros, SeenProject, First, Scope

LEMMA NextProjectOfScopes ==
    ASSUME NEW yacc \in BOOLEAN, NEW defines, Seen' = First(yacc),
           SeenMacros' = defines, SeenProject' = defines
    PROVE  Promise!NextProject(defines, yacc)
BY DEF Promise!NextProject, Promise!BaseScope, Seen, SeenMacros, SeenProject, First, Scope

\* What is declared is global in Scopes when it is here.
LEMMA GlobalOfScopes ==
    ASSUME Inv, Exact
    PROVE  Promise!Global <=> ~Nested
<1> DEFINE s == ScopesOf(stack, table, outer)
           w == Current(stack, table, outer)
<1>1. /\ IsTop(Seen, s, isFileScope, w) /\ Len(s) = Len(outer)
      /\ \A d \in 1..Len(outer) : s[d].fileScope = outer[d].isFileScope
  BY SeenNow DEF Sees
<1> HIDE DEF s, w
<1>2. /\ Len(Seen) = Len(s) + 1 /\ Len(s) \in Nat /\ Seen[Len(Seen)].fileScope = isFileScope
      /\ \A d \in 1..Len(s) : Seen[d] = s[d]
  BY <1>1, InnermostIs
<1>3. /\ Len(Seen) = Len(outer) + 1 /\ Len(outer) \in Nat
      /\ \A d \in 1..Len(outer) : Seen[d].fileScope = outer[d].isFileScope
      /\ Seen[Len(outer) + 1].fileScope = isFileScope
  BY <1>1, <1>2
<1>4. Promise!Global <=> \A d \in 2..Len(Seen) : Seen[d].fileScope
  BY DEF Promise!Global, Seen
<1>5. outer \in Seq(Block) BY ExactTypes
<1>6. CASE outer = <<>>
  <2>1. Len(outer) = 0 BY <1>6
  <2> QED BY <1>3, <1>4, <1>6, <2>1 DEF Nested
<1>7. CASE outer # <<>>
  <2>1. Len(outer) >= 1 BY <1>3, <1>5, <1>7
  <2>2. \A d \in 2..Len(Seen) : d = Len(outer) + 1 \/ d \in 2..Len(outer)
    BY <1>3
  <2>3. /\ Len(outer) + 1 \in 2..Len(Seen)
        /\ \A d \in 2..Len(outer) : d \in 2..Len(Seen) /\ d \in 1..Len(outer)
    BY <1>3, <2>1
  <2>4. Nested <=> ~isFileScope \/ \E d \in 2..Len(outer) : ~outer[d].isFileScope
    BY <1>7 DEF Nested
  <2> QED BY <1>3, <1>4, <2>2, <2>3, <2>4
<1> QED BY <1>6, <1>7

-----------------------------------------------------------------------------
(* Symbols and blocks that are added                                       *)

Nests(cells, tab, out) ==
  /\ cells \in Seq(Cell) /\ tab \in Seq(Int) /\ Ordered(tab) /\ out \in Seq(Block)
  /\ \A q \in Elements(tab) : q \in Int /\ (q > 0 => q \in 1..Len(cells))
  /\ \A d, e \in 1..Len(out) : d < e => out[d].free <= out[e].free
  /\ Low(out) \in Nat /\ Low(out) <= Len(cells)

LEMMA CoreNests ==
    ASSUME NEW cells, NEW m, NEW tab, NEW fr, NEW out, NEW con, NEW op,
           Core(cells, m, tab, fr, out, con, op), Ordered(tab)
    PROVE  Nests(cells, tab, out)
<1>1. /\ cells \in Seq(Cell) /\ tab \in Seq(Int) /\ out \in Seq(Block) /\ Len(cells) \in Nat
      /\ \A q \in Elements(tab) : q \in Int /\ (q > 0 => q \in 1..Len(cells))
      /\ \A d \in 1..Len(out) : out[d].free \in Nat /\ out[d].free <= Len(cells)
  BY CoreFacts
<1>2. \A d, e \in 1..Len(out) : d < e => out[d].free <= out[e].free
  BY DEF Core, BlocksNest
<1>3. Low(out) \in Nat /\ Low(out) <= Len(cells)
  <2>1. CASE out = <<>> BY <1>1, <2>1 DEF Low
  <2>2. CASE out # <<>>
    <3>1. Len(out) \in 1..Len(out) BY <1>1, <2>2, FrontFacts
    <3> QED BY <1>1, <2>2, <3>1 DEF Low
  <2> QED BY <2>1, <2>2
<1> QED BY <1>1, <1>2, <1>3 DEF Nests

LEMMA OneAdded ==
    ASSUME NEW cells, NEW tab, NEW out, Nests(cells, tab, out), NEW c \in Cell
    PROVE  LET more == Append(cells, c)
               tab2 == <<Len(cells) + 1>> \o tab
           IN  /\ Nests(more, tab2, out)
               /\ ScopesOf(more, tab2, out) = ScopesOf(cells, tab, out)
               /\ Prepended(Current(more, tab2, out), Described(c), Current(cells, tab, out))
<1> DEFINE p == Len(cells) + 1
           more == Append(cells, c)
           tab2 == <<p>> \o tab
           low == Low(out)
<1>1. /\ cells \in Seq(Cell) /\ tab \in Seq(Int) /\ Ordered(tab) /\ out \in Seq(Block)
      /\ \A q \in Elements(tab) : q \in Int /\ (q > 0 => q \in 1..Len(cells))
      /\ \A d, e \in 1..Len(out) : d < e => out[d].free <= out[e].free
      /\ low \in Nat /\ low <= Len(cells)
  BY DEF Nests
<1>2. Len(cells) \in Nat /\ p \in Nat /\ p \in Int /\ p > 0 /\ Len(cells) < p /\ low < p
  BY <1>1
<1> HIDE DEF p
<1>3. \A q \in Elements(tab) : (p > 0 <=> q > 0) => Newer(p, q)
  <2>1. \A q \in Elements(tab) : q > 0 => p > q BY <1>1, <1>2
  <2> QED BY <1>2, <2>1 DEF Newer
<1>4. tab2 \in Seq(Int) /\ Ordered(tab2) /\ Elements(tab2) = {p} \cup Elements(tab)
  BY <1>1, <1>2, <1>3, OnePrepended
<1>5. /\ more \in Seq(Cell) /\ Len(more) = p /\ more[p] = c
      /\ \A i \in 1..Len(cells) : more[i] = cells[i] /\ i \in 1..Len(more)
  BY <1>1, AppendedFacts DEF p
<1> HIDE DEF more, tab2, low
<1>6. p \in 1..Len(more) BY <1>2, <1>5
<1>7. \A q \in Elements(tab2) : q \in Int /\ (q > 0 => q \in 1..Len(more))
  BY <1>1, <1>2, <1>4, <1>5, <1>6
<1>8. Nests(more, tab2, out)
  <2>1. low <= Len(more) BY <1>1, <1>2, <1>5
  <2> QED BY <1>1, <1>4, <1>5, <1>7, <2>1 DEF Nests, low
<1>9. ScopesOf(more, tab2, out) = ScopesOf(cells, tab, out)
  <2>1. low <= Len(more) BY <1>1, <1>2, <1>5
  <2>2. \A q \in 1..low : q # p BY <1>1, <1>2
  <2>3. \A q \in 1..low : q \in Elements(tab) <=> q \in Elements(tab2)
    BY <1>4, <2>2
  <2>4. \A q \in 1..low : q \in Elements(tab) => Described(cells[q]) = Described(more[q])
    <3>1. \A q \in 1..low : q \in 1..Len(cells) BY <1>1, <1>2
    <3> QED BY <1>5, <3>1
  <2> QED BY <1>1, <1>4, <1>5, <2>1, <2>3, <2>4, ScopesKept DEF low
<1>10. SymbolsBetween(more, tab2, low, p) = <<Described(more[p])>> \o SymbolsBetween(cells, tab, low, Len(cells))
  <2> DEFINE high == Len(cells)
  <2>1. HasOneMore(tab, high, tab2, p, low)
    <3>1. \A q \in (low + 1)..p : q = p \/ q \in (low + 1)..Len(cells)
      BY <1>1, <1>2 DEF p
    <3>2. p \in (low + 1)..p /\ \A q \in (low + 1)..Len(cells) : q \in (low + 1)..p
      BY <1>1, <1>2
    <3> QED BY <1>1, <1>2, <1>4, <3>1, <3>2 DEF HasOneMore
  <2>2. LookTheSame(cells, more, Elements(tab) \cap ((low + 1)..high))
    <3>1. \A q \in (low + 1)..Len(cells) : q \in 1..Len(cells) BY <1>1, <1>2
    <3> QED BY <1>5, <3>1 DEF LookTheSame
  <2>3. /\ cells \in Seq(Cell) /\ more \in Seq(Cell) /\ tab \in Seq(Int) /\ tab2 \in Seq(Int)
        /\ Ordered(tab) /\ Ordered(tab2)
    BY <1>1, <1>4, <1>5
  <2>4. low \in Nat /\ high \in Nat /\ p \in Nat /\ high < p /\ low < p
    BY <1>1, <1>2
  <2> HIDE DEF high
  <2>5. SymbolsBetween(more, tab2, low, p) = <<Described(more[p])>> \o SymbolsBetween(cells, tab, low, high)
    <3>1. Prepended(SymbolsBetween(more, tab2, low, p), Described(more[p]), SymbolsBetween(cells, tab, low, high))
      BY <1>6, <2>1, <2>2, <2>3, <2>4, OneMoreSymbol
    <3> QED BY <3>1 DEF Prepended
  <2> QED BY <2>5 DEF high
<1> QED BY <1>5, <1>8, <1>9, <1>10 DEF Current, Prepended, more, tab2, low, p

\* A block begins: nothing is in it.
LEMMA BlockOpened ==
    ASSUME NEW cells, NEW tab, NEW out, Nests(cells, tab, out), NEW fr \in Seq(Frame), NEW x \in BOOLEAN,
           NEW b, b = [free |-> Len(cells), frames |-> fr, isFileScope |-> x]
    PROVE  /\ Nests(cells, tab, Append(out, b))
           /\ ScopesOf(cells, tab, Append(out, b)) = Append(ScopesOf(cells, tab, out), Scope(x, Current(cells, tab, out)))
           /\ Current(cells, tab, Append(out, b)) = <<>>
<1> DEFINE more == Append(out, b)
<1>1. /\ cells \in Seq(Cell) /\ tab \in Seq(Int) /\ Ordered(tab) /\ out \in Seq(Block)
      /\ \A q \in Elements(tab) : q \in Int /\ (q > 0 => q \in 1..Len(cells))
      /\ \A d, e \in 1..Len(out) : d < e => out[d].free <= out[e].free
      /\ Low(out) \in Nat /\ Low(out) <= Len(cells)
  BY DEF Nests
<1>2. Len(cells) \in Nat BY <1>1
<1>3. b \in Block /\ b.free = Len(cells) BY <1>2 DEF Block
<1>4. ScopesOf(cells, tab, more) = Append(ScopesOf(cells, tab, out), Scope(x, Current(cells, tab, out)))
  BY <1>1, ScopesAre
<1>5. /\ more \in Seq(Block) /\ Len(more) = Len(out) + 1 /\ Len(out) \in Nat /\ more[Len(out) + 1] = b
      /\ \A d \in 1..Len(out) : more[d] = out[d]
      /\ \A d \in 1..(Len(out) + 1) : d # Len(out) + 1 => d \in 1..Len(out)
  BY <1>1, <1>3, AppendFacts
<1> HIDE DEF more
<1>6. Low(more) = Len(cells)
  <2>1. more # <<>> BY <1>5
  <2> QED BY <1>3, <1>5, <2>1 DEF Low
<1>7. ASSUME NEW d \in 1..Len(more), NEW e \in 1..Len(more), d < e PROVE more[d].free <= more[e].free
  <2>1. d \in 1..Len(out) BY <1>5, <1>7
  <2>2. CASE e \in 1..Len(out) BY <1>1, <1>5, <1>7, <2>1, <2>2
  <2>3. CASE e \notin 1..Len(out)
    <3>1. e = Len(out) + 1 BY <1>5, <2>3
    <3>2. out[d].free <= out[Len(out)].free
      <4>1. Len(out) \in 1..Len(out) /\ out[d] \in Block BY <1>1, <1>5, <2>1
      <4>2. out[d].free \in Nat BY <4>1 DEF Block
      <4>3. CASE d = Len(out) BY <4>2, <4>3
      <4>4. CASE d # Len(out)
        <5>1. d < Len(out) BY <1>5, <2>1, <4>4
        <5> QED BY <1>1, <2>1, <4>1, <5>1
      <4> QED BY <4>3, <4>4
    <3>3. out # <<>> BY <1>5, <2>1
    <3>4. out[Len(out)].free = Low(out) BY <3>3 DEF Low
    <3>5. out[d] \in Block BY <1>1, <2>1
    <3>6. out[d].free \in Nat BY <3>5 DEF Block
    <3> QED BY <1>1, <1>2, <1>3, <1>5, <2>1, <3>1, <3>2, <3>4, <3>6
  <2> QED BY <2>2, <2>3
<1>8. Nests(cells, tab, more) BY <1>1, <1>2, <1>5, <1>6, <1>7 DEF Nests
<1>9. SymbolsBetween(cells, tab, Len(cells), Len(cells)) = <<>>
  <2> DEFINE n == Len(cells)
             own == Own(tab, n, n)
             s == SymbolsBetween(cells, tab, n, n)
  <2>1. (n + 1)..n = {} BY <1>2
  <2>2. Allocated(cells, Elements(tab) \cap ((n + 1)..n)) BY <2>1 DEF Allocated
  <2>3. n \in Nat BY <1>2
  <2> HIDE DEF n, own, s
  <2>4. AreSymbols(s, own, cells, tab, n, n)
    BY <1>1, <2>2, <2>3, SymbolsAre DEF s, own
  <2>5. IsOwn(own, tab, n, n) BY <1>1, <2>3, OwnFacts DEF own
  <2>6. own \in Seq(Int) /\ Elements(own) = {} BY <2>1, <2>5 DEF IsOwn
  <2>7. Len(own) = 0
    <3>1. Len(own) \in Nat BY <2>6
    <3>2. Len(own) > 0 => own[1] \in Elements(own) BY <3>1 DEF Elements
    <3> QED BY <2>6, <3>1, <3>2
  <2>8. s \in Seq(Description) /\ Len(s) = 0 BY <2>4, <2>7 DEF AreSymbols
  <2>9. s = <<>> BY <2>8
  <2> QED BY <2>9 DEF s, n
<1> QED BY <1>4, <1>6, <1>8, <1>9 DEF Current, more

-----------------------------------------------------------------------------
(* Every step is one of Scopes                                             *)

LEMMA TopSeen ==
    ASSUME Inv, Exact, Inv', Exact', UNCHANGED <<ppm, kept>>
    PROVE  /\ IsTop(Seen, ScopesOf(stack, table, outer), isFileScope, Current(stack, table, outer))
           /\ IsTop(Seen', ScopesOf(stack', table', outer'), isFileScope', Current(stack', table', outer'))
           /\ UNCHANGED <<SeenMacros, SeenProject>>
<1>1. ppm' = ppm /\ project' = project BY DEF kept
<1>2. /\ IsTop(Seen, ScopesOf(stack, table, outer), isFileScope, Current(stack, table, outer))
      /\ SeenMacros = MacrosOf(ppm, Descending(Len(ppm)))
      /\ SeenProject = MacrosOf(ppm, Descending(project.ppm))
  BY SeenNow DEF Sees
<1>3. /\ IsTop(Seen', ScopesOf(stack', table', outer'), isFileScope', Current(stack', table', outer'))
      /\ SeenMacros' = MacrosOf(ppm', Descending(Len(ppm')))
      /\ SeenProject' = MacrosOf(ppm', Descending(project'.ppm))
  BY SeenNext DEF Sees
<1>4. SeenMacros' = SeenMacros /\ SeenProject' = SeenProject BY <1>1, <1>2, <1>3
<1> QED BY <1>2, <1>3, <1>4

LEMMA ShownTheSame ==
    ASSUME UNCHANGED <<stack, table, frames, isFileScope, outer, ppm, kept>>
    PROVE  UNCHANGED <<Seen, SeenMacros, SeenProject>>
BY DEF Seen, SeenMacros, SeenProject, Blocks, CurrentBlock, kept

LEMMA NestsNow ==
    ASSUME Inv, Exact
    PROVE  Nests(stack, table, outer)
BY ExactTypes, CoreNests

Unseen == UNCHANGED <<Seen, SeenMacros, SeenProject>>

LEMMA DeclareMaps ==
    ASSUME Inv, Exact, Inv', Exact', NEW name \in Names,
           Declare(name) \/ UseTag(name) \/ BeginTag(name)
    PROVE  \/ Promise!Declare("default", name, Promise!Global)
           \/ Promise!Declare("tag", name, TRUE)
           \/ Unseen
<1>1. CASE BeginTag(name) /\ ~TagIsNew(name, TRUE)
  <2>1. UNCHANGED <<stack, table, frames, isFileScope, outer, ppm, kept>>
    BY <1>1 DEF BeginTag
  <2> QED BY <2>1, ShownTheSame DEF Unseen
<1>2. CASE Declare(name) \/ UseTag(name) \/ (BeginTag(name) /\ TagIsNew(name, TRUE))
  <2> DEFINE s == ScopesOf(stack, table, outer)
             w == Current(stack, table, outer)
             v == Current(stack', table', outer')
  <2>1. PICK c \in Cell :
          /\ Added(c)
          /\ UNCHANGED <<isFileScope, outer, ppm, kept, parsing>>
          /\ \/ Described(c) = Fresh("default", name, ~Nested)
             \/ Described(c) = Fresh("tag", name, TRUE)
    BY <1>2, DeclareAdds DEF Fresh
  <2>2. /\ IsTop(Seen, s, isFileScope, w)
        /\ IsTop(Seen', ScopesOf(stack', table', outer'), isFileScope', v)
        /\ UNCHANGED <<SeenMacros, SeenProject>>
    BY <2>1, TopSeen
  <2>3. /\ ScopesOf(stack', table', outer') = s
        /\ Prepended(v, Described(c), w)
    <3>1. Nests(stack, table, outer) BY NestsNow
    <3>2. stack' = Append(stack, c) /\ table' = <<Len(stack) + 1>> \o table /\ outer' = outer
      BY <2>1 DEF Added
    <3> QED BY <3>1, <3>2, OneAdded
  <2> HIDE DEF s, w, v
  <2>4. IsTop(Seen', s, isFileScope, v) BY <2>1, <2>2, <2>3
  <2>5. (~Nested) = Promise!Global BY GlobalOfScopes DEF Nested, Promise!Global
  <2>6. CASE Described(c) = Fresh("default", name, ~Nested)
    <3>1. Prepended(v, Fresh("default", name, Promise!Global), w)
      BY <2>3, <2>5, <2>6
    <3> QED BY <2>2, <2>4, <3>1, DeclareOfScopes
  <2>7. CASE Described(c) = Fresh("tag", name, TRUE)
    <3>1. Prepended(v, Fresh("tag", name, TRUE), w) BY <2>3, <2>7
    <3> QED BY <2>2, <2>4, <3>1, DeclareOfScopes
  <2> QED BY <2>1, <2>6, <2>7
<1> QED BY <1>1, <1>2

LEMMA BeginCompoundMaps ==
    ASSUME Inv, Exact, Inv', Exact', BeginCompound
    PROVE  Promise!Open(FALSE)
<1>1. /\ outer' = Append(outer, CurrentBlock) /\ isFileScope' = FALSE
      /\ stack' = stack /\ table' = table /\ UNCHANGED <<ppm, kept>>
  BY DEF BeginCompound, BeginBlock
<1> DEFINE v == Current(stack', table', outer')
           b == [free |-> Len(stack), frames |-> frames, isFileScope |-> isFileScope]
<1>2. frames \in Seq(Frame) /\ isFileScope \in BOOLEAN BY ExactTypes
<1>3. /\ ScopesOf(stack', table', outer') =
           Append(ScopesOf(stack, table, outer), Scope(isFileScope, Current(stack, table, outer)))
      /\ v = <<>>
  <2>1. Nests(stack, table, outer) BY NestsNow
  <2>2. /\ ScopesOf(stack, table, Append(outer, b)) =
             Append(ScopesOf(stack, table, outer), Scope(isFileScope, Current(stack, table, outer)))
        /\ Current(stack, table, Append(outer, b)) = <<>>
    BY <1>2, <2>1, BlockOpened
  <2> QED BY <1>1, <2>2 DEF CurrentBlock
<1> HIDE DEF v
<1>4. /\ IsTop(Seen, ScopesOf(stack, table, outer), isFileScope, Current(stack, table, outer))
      /\ IsTop(Seen', ScopesOf(stack', table', outer'), isFileScope', v)
      /\ UNCHANGED <<SeenMacros, SeenProject>>
  BY <1>1, TopSeen DEF v
<1>5. Seen = Append(ScopesOf(stack, table, outer), Scope(isFileScope, Current(stack, table, outer)))
  BY <1>4, TopIs
<1>6. Seen' = Append(ScopesOf(stack', table', outer'), Scope(isFileScope', v))
  BY <1>4, TopIs
<1>7. Seen' = Append(Seen, Scope(FALSE, <<>>)) BY <1>1, <1>3, <1>5, <1>6
<1> QED BY <1>4, <1>7, OpenOfScopes

\* What is left when a block ends is what was there when it began.
LEMMA EndMaps ==
    ASSUME Inv, Exact, Inv', Exact', EndFunction \/ EndCompound
    PROVE  Promise!Close
<1> DEFINE b == Last(outer)
           out == Front(outer)
           s == ScopesOf(stack, table, outer)
           s2 == ScopesOf(stack', table', outer')
           v == Current(stack', table', outer')
<1>1. /\ LeftOutside(stack', table', b) /\ outer # <<>> /\ outer' = out
      /\ isFileScope' = b.isFileScope /\ UNCHANGED <<ppm, kept>>
  BY ExactByEnd
<1>2. Nests(stack, table, outer) BY NestsNow
<1>3. /\ stack \in Seq(Cell) /\ table \in Seq(Int) /\ Ordered(table) /\ outer \in Seq(Block)
      /\ \A d, e \in 1..Len(outer) : d < e => outer[d].free <= outer[e].free
      /\ Low(outer) \in Nat /\ Low(outer) <= Len(stack)
  BY <1>2 DEF Nests
<1>4. /\ Len(outer) \in Nat /\ Len(outer) >= 1 /\ out \in Seq(Block) /\ b \in Block
      /\ b = outer[Len(outer)] /\ Len(outer) \in 1..Len(outer)
  BY <1>1, <1>3, FrontFacts
<1>5. outer = Append(out, b)
  <2>1. /\ Len(out) = Len(outer) - 1
        /\ \A d \in 1..(Len(outer) - 1) : out[d] = outer[d]
    BY <1>1, <1>3, FrontFacts
  <2> HIDE DEF out, b
  <2>2. /\ Append(out, b) \in Seq(Block) /\ Len(Append(out, b)) = Len(out) + 1
        /\ Append(out, b)[Len(out) + 1] = b
        /\ \A d \in 1..Len(out) : Append(out, b)[d] = out[d]
        /\ \A d \in 1..(Len(out) + 1) : d # Len(out) + 1 => d \in 1..Len(out)
    BY <1>4, AppendFacts
  <2>3. \A d \in 1..Len(outer) : outer[d] = Append(out, b)[d]
    BY <1>4, <2>1, <2>2
  <2> QED BY <1>3, <1>4, <2>1, <2>2, <2>3, SameSequence
<1>6. Low(outer) = b.free BY <1>1, <1>4 DEF Low
<1> HIDE DEF b, out
<1>7. /\ stack' \in Seq(Cell) /\ Len(stack') = b.free
      /\ \A i \in 1..b.free : stack'[i] = stack[i]
      /\ table' \in Seq(Int) /\ Ordered(table')
      /\ Elements(table') = {p \in Elements(table) : p <= b.free}
  BY <1>1 DEF LeftOutside
\* The block that ends has nothing left, the others keep theirs.
<1>8. s = ScopesOf(stack', table', outer)
  <2>1. \A p \in 1..Low(outer) : p \in Elements(table) <=> p \in Elements(table')
    <3>1. \A p \in 1..Low(outer) : p <= b.free BY <1>3, <1>6
    <3> QED BY <1>7, <3>1
  <2>2. \A p \in 1..Low(outer) : p \in Elements(table) => Described(stack[p]) = Described(stack'[p])
    BY <1>6, <1>7
  <2>3. Low(outer) <= Len(stack') BY <1>3, <1>6, <1>7
  <2> QED BY <1>3, <1>7, <2>1, <2>2, <2>3, ScopesKept
<1>9. ScopesOf(stack', table', outer) = Append(s2, Scope(isFileScope', v))
  <2>1. b = [free |-> Len(stack'), frames |-> b.frames, isFileScope |-> isFileScope']
    BY <1>1, <1>4, <1>7 DEF Block
  <2>2. b.frames \in Seq(Frame) /\ isFileScope' \in BOOLEAN
    BY <1>1, <1>4 DEF Block
  <2>3. ScopesOf(stack', table', Append(out, [free |-> Len(stack'), frames |-> b.frames, isFileScope |-> isFileScope'])) =
          Append(ScopesOf(stack', table', out), Scope(isFileScope', Current(stack', table', out)))
    BY <1>4, <1>7, <2>2, ScopesAre
  <2> QED BY <1>1, <1>5, <2>1, <2>3
<1> HIDE DEF s, s2, v
<1>10. /\ IsTop(Seen, s, isFileScope, Current(stack, table, outer))
       /\ IsTop(Seen', s2, isFileScope', v)
       /\ UNCHANGED <<SeenMacros, SeenProject>>
  BY <1>1, TopSeen DEF s, s2, v
<1>11. Seen' = s BY <1>8, <1>9, <1>10, TopIs
<1>12. Len(s) > 0
  <2>1. Len(s) = Len(outer) BY SeenNow DEF s
  <2> QED BY <1>4, <2>1
<1> QED BY <1>10, <1>11, <1>12, CloseOfScopes

\* The symbols of the innermost scope, from those of its pointers
LEMMA CurrentFacts ==
    ASSUME NEW cells, NEW tab, NEW out, Nests(cells, tab, out)
    PROVE  AreSymbols(Current(cells, tab, out), Own(tab, Low(out), Len(cells)), cells, tab, Low(out), Len(cells))
<1>1. /\ cells \in Seq(Cell) /\ tab \in Seq(Int) /\ Ordered(tab)
      /\ \A q \in Elements(tab) : q \in Int /\ (q > 0 => q \in 1..Len(cells))
      /\ Low(out) \in Nat
  BY DEF Nests
<1>2. Len(cells) \in Nat BY <1>1
<1>3. Allocated(cells, Elements(tab) \cap ((Low(out) + 1)..Len(cells)))
  BY <1>1, <1>2 DEF Allocated
<1> QED BY <1>1, <1>2, <1>3, SymbolsAre DEF Current

IsFresh(c, type, name, global) == c \in Cell /\ Described(c) = Fresh(type, name, global)

LEMMA FreshIs ==
    ASSUME NEW type \in {"default", "tag", "label", "member"}, NEW name \in Names \cup {"loop", "m"},
           NEW global \in BOOLEAN
    PROVE  IsFresh(Symbol(type, name, global), type, name, global)
<1> DEFINE c == Symbol(type, name, global)
<1>1. /\ c \in Cell
      /\ Described(c) = [type |-> type, name |-> name, complete |-> FALSE, global |-> global]
  BY SymbolIs
<1> QED BY <1>1 DEF IsFresh, Fresh

LEMMA BeginFunctionMaps ==
    ASSUME Inv, Exact, Inv', Exact', NEW name \in Names, NEW parameter \in Names,
           NEW parameters \in {<<>>, <<parameter>>}, BeginFunction(name, parameters)
    PROVE  Promise!Function(name, parameters)
<1> DEFINE f == Len(stack) + 1
           c == Symbol("default", name, ~Nested)
           d == Symbol("default", parameter, FALSE)
           b == [free |-> f, frames |-> <<Deletion(f)>> \o frames, isFileScope |-> isFileScope]
           cells == Append(stack, c)
           tab == <<f>> \o table
           s == ScopesOf(stack, table, outer)
           w == Current(stack, table, outer)
           v == Current(cells, tab, outer)
           around == ScopesOf(cells, tab, Append(outer, b))
           h == Current(stack', table', outer')
<1>1. /\ FunctionBegun(f, c, d, parameters)
      /\ stack \in Seq(Cell) /\ frames \in Seq(Frame) /\ isFileScope \in BOOLEAN /\ Len(stack) \in Nat
  BY FunctionBegins, ExactTypes
<1>2. /\ c \in Cell /\ Described(c) = Fresh("default", name, ~Nested)
      /\ d \in Cell /\ Described(d) = Fresh("default", parameter, FALSE)
  <2>1. (~Nested) \in BOOLEAN OBVIOUS
  <2> QED
    <3>1. IsFresh(c, "default", name, ~Nested) /\ IsFresh(d, "default", parameter, FALSE)
      <4>1. IsFresh(d, "default", parameter, FALSE) BY FreshIs
      <4> DEFINE g == ~Nested
      <4> HIDE DEF g
      <4>2. IsFresh(Symbol("default", name, g), "default", name, g)
        BY <2>1, FreshIs DEF g
      <4> QED BY <4>1, <4>2 DEF g
    <3> QED BY <3>1 DEF IsFresh
<1> HIDE DEF c, d
\* The function, where its head is.
<1>3. /\ Nests(cells, tab, outer) /\ ScopesOf(cells, tab, outer) = s
      /\ Prepended(v, Described(c), w)
  <2>1. Nests(stack, table, outer) BY NestsNow
  <2> QED BY <1>2, <2>1, OneAdded
<1>4. Len(cells) = f /\ f \in Nat BY <1>1, <1>2, AppendedFacts
<1>5. /\ outer' = Append(outer, b) /\ isFileScope' = FALSE /\ UNCHANGED <<ppm, kept>>
      /\ \/ parameters = <<>> /\ stack' = cells /\ table' = tab
         \/ /\ Len(parameters) = 1
            /\ stack' = Append(cells, d) /\ table' = <<f + 1>> \o tab
  BY <1>1 DEF FunctionBegun
<1>6. <<Deletion(f)>> \o frames \in Seq(Frame)
  <2>1. Deletion(f) \in Frame BY <1>4 DEF Deletion, Frame
  <2> QED BY <1>1, <2>1, PrependFacts
<1> HIDE DEF cells, tab, f
\* The block it begins
<1>7. /\ Nests(cells, tab, Append(outer, b))
      /\ around = Append(s, Scope(isFileScope, v))
      /\ Current(cells, tab, Append(outer, b)) = <<>>
  <2> DEFINE fr == <<Deletion(f)>> \o frames
             b2 == [free |-> Len(cells), frames |-> fr, isFileScope |-> isFileScope]
  <2>1. b = b2 BY <1>4
  <2>2. fr \in Seq(Frame) BY <1>6
  <2> HIDE DEF b, fr
  <2>3. /\ Nests(cells, tab, Append(outer, b2))
        /\ ScopesOf(cells, tab, Append(outer, b2)) = Append(ScopesOf(cells, tab, outer), Scope(isFileScope, v))
        /\ Current(cells, tab, Append(outer, b2)) = <<>>
    BY <1>1, <1>3, <2>2, BlockOpened
  <2> QED BY <1>3, <2>1, <2>3
<1> HIDE DEF s, w, v, around, h, b
<1>8. /\ IsTop(Seen, s, isFileScope, w)
      /\ IsTop(Seen', ScopesOf(stack', table', outer'), FALSE, h)
      /\ UNCHANGED <<SeenMacros, SeenProject>>
  BY <1>5, TopSeen DEF s, w, h
<1>9. IsTop(around, s, isFileScope, v)
  <2>1. PICK T : s \in Seq(T) BY <1>8 DEF IsTop
  <2> QED BY <1>7, <2>1, AppendedIsTop
<1>10. Prepended(v, Fresh("default", name, Promise!Global), w)
  <2>1. (~Nested) = Promise!Global BY GlobalOfScopes DEF Nested, Promise!Global
  <2> QED BY <1>2, <1>3, <2>1
\* Its parameter, inside it
<1>11. /\ ScopesOf(stack', table', outer') = around
       /\ AreParameters(h, parameters)
  <2> USE DEF AreParameters
  <2>1. CASE parameters = <<>> /\ stack' = cells /\ table' = tab
    <3>1. h = <<>> BY <1>5, <1>7, <2>1 DEF h
    <3>2. [i \in DOMAIN parameters |-> Fresh("default", parameters[i], FALSE)] = <<>>
      BY <2>1
    <3> QED BY <1>5, <2>1, <3>1, <3>2 DEF around
  <2>2. CASE /\ Len(parameters) = 1
             /\ stack' = Append(cells, d) /\ table' = <<f + 1>> \o tab
    <3>1. parameters = <<parameter>>
      <4>1. Len(<<>>) # 1 OBVIOUS
      <4> QED BY <2>2, <4>1
    <3>2. /\ ScopesOf(stack', table', outer') = around
          /\ Prepended(h, Described(d), Current(cells, tab, Append(outer, b)))
      BY <1>2, <1>4, <1>5, <1>7, <2>2, OneAdded DEF around, h
    <3>3. h = <<Fresh("default", parameter, FALSE)>>
      BY <1>2, <1>7, <3>2 DEF Prepended
    <3>4. [i \in DOMAIN parameters |-> Fresh("default", parameters[i], FALSE)] =
            <<Fresh("default", parameter, FALSE)>>
      <4>1. DOMAIN parameters = 1..1 /\ parameters[1] = parameter
        BY <3>1, OneElement
      <4>2. \A i \in 1..1 : parameters[i] = parameter BY <4>1
      <4>3. [i \in DOMAIN parameters |-> Fresh("default", parameters[i], FALSE)] =
              [i \in 1..1 |-> Fresh("default", parameter, FALSE)]
        BY <4>1, <4>2
      <4> QED BY <4>3, OneElement
    <3> QED BY <3>2, <3>3, <3>4
  <2> QED BY <1>5, <2>1, <2>2
<1>12. IsTop(Seen', around, FALSE, h) BY <1>8, <1>11
<1> QED BY <1>8, <1>9, <1>10, <1>11, <1>12, FunctionOfScopes

LEMMA BeginLoopMaps ==
    ASSUME Inv, Exact, Inv', Exact', BeginLoop
    PROVE  Promise!EnterLoop \/ Unseen
<1>1. UNCHANGED <<frames, isFileScope, outer, ppm, kept>> BY DEF BeginLoop
<1>2. CASE parsing # "extract"
  <2>1. UNCHANGED <<stack, table>> BY <1>2 DEF BeginLoop
  <2> QED BY <1>1, <2>1, ShownTheSame DEF Unseen
<1>3. CASE parsing = "extract"
  <2> DEFINE l == Symbol("label", "loop", FALSE)
             n == Len(stack)
             cells == Append(stack, l)
             tab == <<n + 1>> \o table
             s == ScopesOf(stack, table, outer)
             w == Current(stack, table, outer)
             u == Current(cells, tab, outer)
             v == Current(stack', table', outer')
  <2>1. LoopBegun(l) /\ n \in Nat BY <1>3, LoopBegins, ExactTypes
  <2>2. l \in Cell /\ Described(l) = Fresh("label", "loop", FALSE)
    BY FreshIs DEF IsFresh
  <2> HIDE DEF l
  <2>3. Nests(stack, table, outer) BY NestsNow
  <2>4. /\ Nests(cells, tab, outer) /\ ScopesOf(cells, tab, outer) = s
        /\ Prepended(u, Described(l), w)
    BY <2>2, <2>3, OneAdded
  <2>5. Len(cells) = n + 1 BY <2>2, AppendedFacts, ExactTypes
  <2>6. stack' = Append(cells, l) /\ table' = <<n + 2>> \o tab /\ outer' = outer /\ n + 2 = Len(cells) + 1
    BY <1>1, <2>1, <2>5 DEF LoopBegun
  <2> HIDE DEF cells, tab, n, s, w, u, v
  <2>7. ScopesOf(stack', table', outer') = s /\ Prepended(v, Described(l), u)
    BY ZenonT(30), <2>2, <2>4, <2>6, OneAdded DEF v, u
  <2>8. /\ IsTop(Seen, s, isFileScope, w) /\ IsTop(Seen', s, isFileScope, v)
        /\ UNCHANGED <<SeenMacros, SeenProject>>
    <3>1. /\ IsTop(Seen, s, isFileScope, w)
          /\ IsTop(Seen', ScopesOf(stack', table', outer'), isFileScope', v)
          /\ UNCHANGED <<SeenMacros, SeenProject>>
      BY <1>1, TopSeen DEF s, w, v
    <3> QED BY <1>1, <2>7, <3>1
  <2>9. Doubled(v, Fresh("label", "loop", FALSE), w)
    <3> DEFINE e == Fresh("label", "loop", FALSE)
    <3> HIDE DEF e
    <3> DEFINE S == Description \cup {e}
    <3>1. w \in Seq(Description) BY <2>3, CurrentFacts DEF AreSymbols, w
    <3>2. w \in Seq(S) /\ e \in S BY <3>1
    <3> HIDE DEF S
    <3>3. v = <<e>> \o (<<e>> \o w) BY <2>2, <2>4, <2>7 DEF Prepended, e
    <3>4. <<e, e>> \o w = <<e>> \o (<<e>> \o w)
      <4>1. /\ <<e>> \o w \in Seq(S) /\ Len(<<e>> \o w) = Len(w) + 1 /\ Len(w) \in Nat
            /\ (<<e>> \o w)[1] = e
            /\ \A i \in 1..(Len(w) + 1) : i # 1 => i - 1 \in 1..Len(w) /\ (<<e>> \o w)[i] = w[i - 1]
        BY <3>2, PrependFacts
      <4> DEFINE once == <<e>> \o w
                 twice == <<e>> \o once
                 both == <<e, e>> \o w
      <4> HIDE DEF once
      <4>2. /\ twice \in Seq(S) /\ Len(twice) = Len(once) + 1
            /\ twice[1] = e
            /\ \A i \in 1..(Len(once) + 1) : i # 1 => i - 1 \in 1..Len(once) /\ twice[i] = once[i - 1]
        BY <3>2, <4>1, PrependFacts DEF once
      <4>3. /\ both \in Seq(S) /\ Len(both) = 2 + Len(w)
            /\ \A i \in 1..(2 + Len(w)) : both[i] = IF i <= 2 THEN e ELSE w[i - 2]
        <5>1. <<e, e>> \in Seq(S) /\ Len(<<e, e>>) = 2 /\ <<e, e>>[1] = e /\ <<e, e>>[2] = e
          BY <3>2
        <5> DEFINE ee == <<e, e>>
        <5> HIDE DEF ee
        <5>2. /\ ee \o w \in Seq(S) /\ Len(ee \o w) = Len(ee) + Len(w)
              /\ \A i \in 1..(Len(ee) + Len(w)) : (ee \o w)[i] = IF i <= Len(ee) THEN ee[i] ELSE w[i - Len(ee)]
          BY <3>2, <5>1, ConcatFacts DEF ee
        <5>3. \A i \in 1..(2 + Len(w)) : i <= 2 => i = 1 \/ i = 2 BY <4>1
        <5> QED BY <5>1, <5>2, <5>3 DEF ee
      <4> HIDE DEF twice, both
      <4>4. ASSUME NEW i \in 1..(2 + Len(w)) PROVE both[i] = twice[i]
        <5>0. i \in Nat /\ Len(w) \in Nat BY <4>1
        <5>1. CASE i = 1 BY <4>2, <4>3, <5>1
        <5>2. CASE i = 2
          <6>1. i - 1 = 1 /\ i # 1 /\ i \in 1..(Len(once) + 1)
            BY <4>1, <5>2 DEF once
          <6> QED BY <4>1, <4>2, <4>3, <5>2, <6>1 DEF once
        <5>3. CASE i > 2
          <6>1. /\ i # 1 /\ i \in 1..(Len(once) + 1) /\ i - 1 # 1 /\ i - 1 \in 1..(Len(w) + 1)
                /\ i - 1 - 1 = i - 2 /\ ~(i <= 2)
            BY <4>1, <5>0, <5>3 DEF once
          <6>2. twice[i] = once[i - 1] BY <4>2, <6>1
          <6>3. once[i - 1] = w[i - 1 - 1] BY <4>1, <6>1 DEF once
          <6>4. both[i] = w[i - 2] BY <4>3, <6>1
          <6> QED BY <6>1, <6>2, <6>3, <6>4
        <5> QED BY <5>0, <5>1, <5>2, <5>3
      <4>5. Len(twice) = 2 + Len(w) BY <4>1, <4>2 DEF once
      <4>6. both = twice BY <4>2, <4>3, <4>4, <4>5, SameSequence
      <4> QED BY <4>6 DEF both, twice, once
    <3> QED BY <3>3, <3>4 DEF Doubled, e
  <2> QED BY <2>8, <2>9, EnterLoopOfScopes
<1> QED BY <1>2, <1>3

\* The scopes around keep theirs when what changes is newer than they are.
LEMMA AroundKept ==
    ASSUME NEW cells, NEW cells2, NEW tab, NEW tab2, NEW out,
           Nests(cells, tab, out), Nests(cells2, tab2, out),
           \A p \in 1..Low(out) : p \in Elements(tab) <=> p \in Elements(tab2),
           \A p \in 1..Low(out) : Described(cells[p]) = Described(cells2[p])
    PROVE  ScopesOf(cells2, tab2, out) = ScopesOf(cells, tab, out)
<1>1. /\ cells \in Seq(Cell) /\ tab \in Seq(Int) /\ Ordered(tab) /\ out \in Seq(Block)
      /\ \A d, e \in 1..Len(out) : d < e => out[d].free <= out[e].free
      /\ Low(out) <= Len(cells)
  BY DEF Nests
<1>2. cells2 \in Seq(Cell) /\ tab2 \in Seq(Int) /\ Ordered(tab2) /\ Low(out) <= Len(cells2)
  BY DEF Nests
<1> QED BY <1>1, <1>2, ScopesKept

LEMMA NestsNext ==
    ASSUME Inv', Exact'
    PROVE  Nests(stack', table', outer')
<1>1. Core(stack', Len(ppm'), table', frames', outer', constructs', parsing')
  BY DEF Inv
<1>2. Ordered(table') BY DEF Exact, HasExactly
<1> QED BY <1>1, <1>2, CoreNests

\* A pointer of the block that is newer than what is around it
Inmost(p) == p \in Elements(table) /\ p \in (Low(outer) + 1)..Len(stack)

LEMMA InmostIs ==
    ASSUME Inv, Exact, NEW p \in Elements(table), p > 0, \A d \in 1..Len(outer) : outer[d].free < p
    PROVE  Inmost(p)
<1>1. Nests(stack, table, outer) BY NestsNow
<1>2. p \in 1..Len(stack) /\ outer \in Seq(Block) /\ Low(outer) \in Nat
  BY <1>1 DEF Nests
<1>3. Low(outer) < p
  <2>1. CASE outer = <<>> BY <1>2, <2>1 DEF Low
  <2>2. CASE outer # <<>>
    <3>1. Len(outer) \in 1..Len(outer) BY <1>2, <2>2, FrontFacts
    <3> QED BY <2>2, <3>1 DEF Low
  <2> QED BY <2>1, <2>2
<1> QED BY <1>2, <1>3 DEF Inmost

\* Where it is among the block's own
LEMMA Placed ==
    ASSUME Inv, Exact, NEW p, Inmost(p),
           NEW own, own = Own(table, Low(outer), Len(stack)),
           NEW w, w = Current(stack, table, outer)
    PROVE  \E i \in 1..Len(own) :
             /\ own[i] = p /\ w[i] = Described(stack[p]) /\ i \in DOMAIN w
             /\ \A j \in 1..Len(own) : j < i => own[j] \in Elements(table) /\ own[j] > p /\ own[j] \in Nat
             /\ \A j \in 1..Len(own) : own[j] = p => j = i
<1>1. Nests(stack, table, outer) BY NestsNow
<1>2. AreSymbols(w, own, stack, table, Low(outer), Len(stack))
  BY <1>1, CurrentFacts
<1>3. /\ w \in Seq(Description) /\ Len(w) = Len(own)
      /\ \A i \in 1..Len(own) :
           own[i] \in Elements(table) \cap ((Low(outer) + 1)..Len(stack)) /\ w[i] = Described(stack[own[i]])
  BY <1>2 DEF AreSymbols
<1>4. table \in Seq(Int) /\ Ordered(table) /\ Low(outer) \in Nat /\ Len(stack) \in Nat
  BY <1>1 DEF Nests
<1>5. IsOwn(own, table, Low(outer), Len(stack)) BY <1>4, OwnFacts
<1>6. /\ own \in Seq(Int) /\ NewestFirst(own)
      /\ Elements(own) = Elements(table) \cap ((Low(outer) + 1)..Len(stack))
  BY <1>5 DEF IsOwn
<1>7. \A i \in 1..Len(own) : own[i] \in Nat /\ own[i] > 0 BY <1>3, <1>4
<1>8. PICK i \in 1..Len(own) : own[i] = p
  <2>1. p \in Elements(own) BY <1>6 DEF Inmost
  <2> QED BY <2>1 DEF Elements
<1>9. \A j, k \in 1..Len(own) : j < k => own[j] > own[k]
  BY <1>6, <1>7 DEF NewestFirst, Newer
<1>10. \A j \in 1..Len(own) : own[j] = p => j = i
  <2> SUFFICES ASSUME NEW j \in 1..Len(own), own[j] = p, j # i PROVE FALSE
    OBVIOUS
  <2>1. j < i \/ i < j OBVIOUS
  <2>2. own[j] > own[i] \/ own[i] > own[j] BY <1>9, <2>1
  <2> QED BY <1>7, <1>8, <2>2
<1>11. i \in DOMAIN w BY <1>3
<1>12. \A j \in 1..Len(own) : j < i => own[j] \in Elements(table) /\ own[j] > p /\ own[j] \in Nat
  BY <1>3, <1>7, <1>8, <1>9
<1> QED BY <1>3, <1>8, <1>10, <1>11, <1>12

LEMMA EndTagMaps ==
    ASSUME Inv, Exact, Inv', Exact', EndTag
    PROVE  (\E name \in Names : Promise!CompleteTag(name)) \/ Unseen
<1> DEFINE tag == Last(constructs).symbol
           low == Low(outer)
           n == Len(stack)
           own == Own(table, low, n)
           s == ScopesOf(stack, table, outer)
           w == Current(stack, table, outer)
           v == Current(stack', table', outer')
<1>1. TagEnded(tag) BY TagEnds
<1> HIDE DEF tag
<1>2. /\ tag \in Elements(table) /\ tag \in 2..n /\ stack[tag].type = "tag" /\ stack[tag].name \in Names
      /\ \A d \in 1..Len(outer) : tag > outer[d].free
      /\ stack' \in Seq(Cell) /\ Len(stack') = n + 1
      /\ UNCHANGED <<table, outer, isFileScope, ppm, kept, parsing>>
      /\ \/ \A i \in 1..n : stack'[i] = stack[i]
         \/ /\ \A i \in 1..n : i # tag => stack'[i] = stack[i]
            /\ stack'[tag] = [stack[tag] EXCEPT !.members = n + 1]
  <2>1. stack' = Grown => \A i \in 1..n : stack'[i] = stack[i]
    BY <1>1 DEF TagEnded
  <2> QED BY <1>1, <2>1 DEF TagEnded
<1>3. Nests(stack, table, outer) /\ Nests(stack', table', outer')
  BY NestsNow, NestsNext
<1>4. /\ stack \in Seq(Cell) /\ table \in Seq(Int) /\ Ordered(table) /\ low \in Nat /\ n \in Nat /\ low <= n
      /\ \A q \in Elements(table) : q \in Int /\ (q > 0 => q \in 1..n)
  BY <1>3 DEF Nests
<1>5. Inmost(tag)
  <2>1. tag > 0 /\ \A d \in 1..Len(outer) : outer[d].free < tag BY <1>2, <1>4
  <2> QED BY <1>2, <2>1, InmostIs
<1>6. tag > low BY <1>4, <1>5 DEF Inmost
<1> HIDE DEF low, n
<1>7. HaveTheSame(table, n, table, n + 1, low)
  <2>1. \A q \in Elements(table) : q \in (low + 1)..n <=> q \in (low + 1)..(n + 1)
    BY <1>4
  <2> QED BY <2>1 DEF HaveTheSame
<1>8. \A i \in 1..n : i # tag => stack'[i] = stack[i] BY <1>2
<1>9. ScopesOf(stack', table', outer') = s
  <2>1. \A p \in 1..low : p \in 1..n /\ p # tag BY <1>4, <1>6
  <2>2. \A p \in 1..low : Described(stack[p]) = Described(stack'[p])
    BY <1>8, <2>1
  <2>3. \A p \in 1..low : p \in Elements(table) <=> p \in Elements(table')
    BY <1>2
  <2>4. outer' = outer BY <1>2
  <2> QED BY <1>3, <2>2, <2>3, <2>4, AroundKept DEF low
<1>10. /\ IsTop(Seen, s, isFileScope, w) /\ IsTop(Seen', s, isFileScope, v)
       /\ UNCHANGED <<SeenMacros, SeenProject>>
  <2>1. UNCHANGED <<ppm, kept>> /\ isFileScope' = isFileScope BY <1>2
  <2>2. /\ IsTop(Seen, s, isFileScope, w)
        /\ IsTop(Seen', ScopesOf(stack', table', outer'), isFileScope', v)
        /\ UNCHANGED <<SeenMacros, SeenProject>>
    BY <2>1, TopSeen
  <2> HIDE DEF s, w, v
  <2> QED BY <1>9, <2>1, <2>2
<1>11. v = SymbolsBetween(stack', table, low, n + 1) /\ w = SymbolsBetween(stack, table, low, n)
  BY <1>2 DEF Current, low, n
<1> HIDE DEF s, w, v
<1>12. CASE \A i \in 1..n : stack'[i] = stack[i]
  <2>1. LookTheSame(stack, stack', Elements(table) \cap ((low + 1)..n))
    <3>1. \A p \in (low + 1)..n : p \in 1..n /\ p \in 1..(n + 1) BY <1>4
    <3> QED BY <1>2, <1>12, <3>1 DEF LookTheSame, n
  <2>2. n + 1 \in Nat /\ stack' \in Seq(Cell) BY <1>2, <1>4
  <2>3. v = w BY <1>4, <1>7, <1>11, <2>1, <2>2, SameSymbols
  <2>4. Seen' = Seen BY <1>10, <2>3, TopIs
  <2> QED BY <1>10, <2>4 DEF Unseen
<1>13. CASE stack'[tag] = [stack[tag] EXCEPT !.members = n + 1]
  <2>0. own = Own(table, low, n) OBVIOUS
  <2> HIDE DEF own
  <2>1. PICK i \in 1..Len(own) :
          /\ own[i] = tag /\ w[i] = Described(stack[tag]) /\ i \in DOMAIN w
          /\ \A j \in 1..Len(own) : j < i => own[j] \in Elements(table) /\ own[j] > tag /\ own[j] \in Nat
    BY <1>5, Placed DEF own, w, low, n
  <2>2. AreSymbols(w, own, stack, table, low, n)
    BY <1>3, CurrentFacts DEF own, w, low, n
  <2>3. \A j \in 1..Len(own) : w[j] = Described(stack[own[j]])
    BY <2>2 DEF AreSymbols
  <2>4. w[i].type = "tag" /\ w[i].name = stack[tag].name
    BY <1>2, <2>1 DEF Described
  <2>5. ASSUME NEW j \in 1..(i - 1) PROVE w[j].type # "tag" \/ w[j].name # stack[tag].name
    <3>1. j \in 1..Len(own) /\ j < i OBVIOUS
    <3>2. own[j] \in Elements(table) /\ own[j] > tag BY <2>1, <3>1
    <3>3. w[j].type = stack[own[j]].type /\ w[j].name = stack[own[j]].name
      <4>1. \A c : Described(c).type = c.type /\ Described(c).name = c.name
        BY DEF Described
      <4> QED BY <2>3, <3>1, <4>1
    <3>4. ~(stack[own[j]].type = "tag" /\ stack[own[j]].name = stack[tag].name)
      <4> SUFFICES ASSUME stack[own[j]].type = "tag", stack[own[j]].name = stack[tag].name PROVE FALSE
        OBVIOUS
      <4>1. OneTag(stack, table, outer) BY DEF Exact, HasExactly
      <4>2. tag > 0 BY <1>2, <1>4
      <4>3. PICK d \in 1..Len(outer) : tag <= outer[d].free
        BY <1>2, <3>2, <4>1, <4>2 DEF OneTag
      <4>4. outer[d].free \in Nat /\ tag > outer[d].free
        BY <1>2, CoreFacts, ExactTypes
      <4> QED BY SMTT(30), <1>2, <1>4, <4>3, <4>4
    <3> QED BY <3>3, <3>4
  <2>6. v = [w EXCEPT ![i].complete = TRUE]
    <3>1. LookTheSame(stack, stack', (Elements(table) \cap ((low + 1)..n)) \ {tag})
      <4>1. \A p \in (low + 1)..n : p \in 1..n /\ p \in 1..(n + 1) BY <1>4
      <4> QED BY <1>2, <1>8, <4>1 DEF LookTheSame, n
    <3>2. tag \in 1..Len(stack) /\ tag \in 1..Len(stack') BY <1>2, <1>4 DEF n
    <3>3. CompleteOf(Described(stack'[tag]), Described(stack[tag]))
      <4>1. stack[tag] \in Cell BY <1>4, <3>2
      <4>2. n + 1 # None /\ n + 1 \in Nat BY <1>4 DEF None
      <4>3. ASSUME NEW c \in Cell, NEW m \in Nat, m # None
            PROVE  CompleteOf(Described([c EXCEPT !.members = m]), Described(c))
        <5> DEFINE e == [c EXCEPT !.members = m]
        <5>1. e.type = c.type /\ e.name = c.name /\ e.members = m /\ e.global = c.global
          BY DEF Cell
        <5> HIDE DEF e
        <5>2. CompleteOf(Described(e), Described(c))
          <6>1. \A d \in Cell : /\ Described(d) \in Description
                                /\ Described(d).type = d.type /\ Described(d).name = d.name
                                /\ Described(d).global = d.global
                                /\ Described(d).complete = (d.members # None)
            BY DEF Described, Description, Cell
          <6>2. e \in Cell BY <4>3 DEF e, Cell
          <6>3. ASSUME NEW d \in Description, NEW d2 \in Description, d2.complete = TRUE,
                       d2.type = d.type, d2.name = d.name, d2.global = d.global
                PROVE  CompleteOf(d2, d)
            BY <6>3 DEF Description, CompleteOf
          <6>4. Described(e).complete = TRUE BY <4>3, <5>1, <6>1, <6>2
          <6>5. Described(e) \in Description /\ Described(c) \in Description
            BY <6>1, <6>2
          <6>6. /\ Described(e).type = Described(c).type /\ Described(e).name = Described(c).name
                /\ Described(e).global = Described(c).global
            BY <5>1, <6>1, <6>2
          <6> QED BY <6>3, <6>4, <6>5, <6>6
        <5> QED BY <5>2 DEF e
      <4> DEFINE c == stack[tag]
                 m == n + 1
      <4> HIDE DEF c, m
      <4>4. CompleteOf(Described([c EXCEPT !.members = m]), Described(c))
        BY <4>1, <4>2, <4>3 DEF c, m
      <4> QED BY <1>13, <4>4 DEF c, m
    <3>4. n + 1 \in Nat /\ stack' \in Seq(Cell) BY <1>2, <1>4
    <3>5. i \in 1..Len(Own(table, low, n)) /\ IsAt(tag, Own(table, low, n), i)
      BY <2>0, <2>1 DEF IsAt
    <3>6. CompleteAt(SymbolsBetween(stack', table, low, n + 1), SymbolsBetween(stack, table, low, n), i)
      BY <1>4, <1>7, <3>1, <3>2, <3>3, <3>4, <3>5, OneCompleted
    <3> QED BY <1>11, <3>6 DEF CompleteAt
  <2>7. Completes(v, w, i, stack[tag].name)
    BY <2>1, <2>4, <2>5, <2>6 DEF Completes
  <2>8. Promise!CompleteTag(stack[tag].name) BY <1>10, <2>7, CompleteOfScopes
  <2> QED BY <1>2, <2>8
<1> QED BY <1>2, <1>12, <1>13

\* A pointer taken out of the table, whatever its place in it
LEMMA OneLeft ==
    ASSUME NEW tab \in Seq(Int), Ordered(tab), NEW p \in Elements(tab)
    PROVE  \E tab2 \in Seq(Int) : Ordered(tab2) /\ LacksOne(tab2, tab, p)
<1>1. PICK k \in 1..Len(tab) : tab[k] = p BY DEF Elements
<1>2. /\ RemoveAt(tab, k) \in Seq(Int) /\ Ordered(RemoveAt(tab, k))
      /\ Elements(RemoveAt(tab, k)) = Elements(tab) \ {tab[k]}
  BY OneRemoved
<1> QED BY <1>1, <1>2 DEF LacksOne

\* The two labels are the newest of their type in the block, and next to each other
\* among them.
LEMMA LabelsLeave ==
    ASSUME Inv, Exact, NEW first, LabelsAre(first), NEW left, NEW once, TakenOut(once, left, first),
           NEW w, w = Current(stack, table, outer), NEW v, v = Current(stack, left, outer)
    PROVE  \E i, j : Leaves(v, w, i, j)
<1> DEFINE low == Low(outer)
           n == Len(stack)
           own == Own(table, low, n)
<1>1. /\ first \in Nat /\ first > 1 /\ first \in Elements(table) /\ first + 1 \in Elements(table)
      /\ \A p \in {first, first + 1} : stack[p].type = "label"
      /\ \A q \in Elements(table) : q > 0 /\ stack[q].type = "label" => q < first \/ q \in {first, first + 1}
      /\ \A d \in 1..Len(outer) : outer[d].free < first
  BY DEF LabelsAre
<1>2. /\ left \in Seq(Int) /\ Ordered(left)
      /\ Elements(left) = Elements(table) \ {first, first + 1}
  BY DEF TakenOut
<1>3. Nests(stack, table, outer) BY NestsNow
<1>4. /\ stack \in Seq(Cell) /\ table \in Seq(Int) /\ Ordered(table) /\ low \in Nat /\ n \in Nat /\ low <= n
      /\ \A q \in Elements(table) : q \in Int /\ (q > 0 => q \in 1..n)
      /\ outer \in Seq(Block)
  BY <1>3 DEF Nests
<1>5. Inmost(first) /\ Inmost(first + 1)
  <2>1. first > 0 /\ first + 1 > 0 BY <1>1
  <2>2. \A d \in 1..Len(outer) : outer[d].free < first + 1
    <3> SUFFICES ASSUME NEW d \in 1..Len(outer) PROVE outer[d].free < first + 1
      OBVIOUS
    <3>1. outer[d] \in Block BY <1>4
    <3>2. outer[d].free \in Nat BY <3>1 DEF Block
    <3> QED BY <1>1, <3>2
  <2> QED BY <1>1, <2>1, <2>2, InmostIs
<1> HIDE DEF low, n
<1>6. PICK j \in 1..Len(own) :
        /\ own[j] = first /\ w[j] = Described(stack[first]) /\ j \in DOMAIN w
        /\ \A k \in 1..Len(own) : k < j => own[k] \in Elements(table) /\ own[k] > first /\ own[k] \in Nat
        /\ \A k \in 1..Len(own) : own[k] = first => k = j
  <2> HIDE DEF own
  <2> QED BY <1>5, Placed DEF own, low, n
<1>7. PICK i \in 1..Len(own) :
        /\ own[i] = first + 1 /\ w[i] = Described(stack[first + 1]) /\ i \in DOMAIN w
        /\ \A k \in 1..Len(own) : k < i => own[k] \in Elements(table) /\ own[k] > first + 1 /\ own[k] \in Nat
        /\ \A k \in 1..Len(own) : own[k] = first + 1 => k = i
  <2> HIDE DEF own
  <2> QED BY <1>5, Placed DEF own, low, n
<1>8. i < j
  <2>1. i # j BY <1>1, <1>6, <1>7
  <2>2. ~(j < i)
    <3> SUFFICES ASSUME j < i PROVE FALSE
      OBVIOUS
    <3>1. own[j] > first + 1 BY <1>7
    <3> QED BY <1>1, <1>6, <3>1
  <2> QED BY <2>1, <2>2
<1>9. AreSymbols(w, own, stack, table, low, n)
  BY <1>3, CurrentFacts DEF own, low, n
<1>10. /\ Len(w) = Len(own) /\ w \in Seq(Description) /\ Len(own) \in Nat
       /\ \A k \in 1..Len(own) : w[k] = Described(stack[own[k]])
  BY <1>9 DEF AreSymbols
<1> HIDE DEF own
<1>11. \A c : Described(c).type = c.type BY DEF Described
<1>12. {k \in 1..j : w[k].type = "label"} = {i, j}
  <2>1. ASSUME NEW k \in 1..j, w[k].type = "label" PROVE k \in {i, j}
    <3>1. CASE k = j BY <3>1
    <3>2. CASE k # j
      <4>1. k \in 1..Len(own) /\ k < j BY <3>2, <1>10
      <4>2. own[k] \in Elements(table) /\ own[k] > first /\ own[k] \in Nat
        BY <1>6, <4>1
      <4>3. stack[own[k]].type = "label" BY <1>10, <1>11, <2>1, <4>1
      <4>4. own[k] = first + 1 BY <1>1, <4>2, <4>3
      <4>5. k = i BY <1>7, <4>1, <4>4
      <4> QED BY <4>5
    <3> QED BY <3>1, <3>2
  <2>2. w[i].type = "label" /\ w[j].type = "label" BY <1>1, <1>6, <1>7, <1>11
  <2>3. i \in 1..j /\ j \in 1..j BY <1>8
  <2> QED BY <2>1, <2>2, <2>3
<1>13. v = RemoveAt(RemoveAt(w, j), i)
  <2>1. PICK tab \in Seq(Int) : Ordered(tab) /\ LacksOne(tab, table, first)
    BY <1>1, <1>4, OneLeft
  <2>2. LookTheSame(stack, stack, Elements(table) \cap ((low + 1)..n))
    <3>1. \A p \in (low + 1)..n : p \in 1..n BY <1>4
    <3> QED BY <3>1 DEF LookTheSame, n
  <2> DEFINE own1 == Own(tab, low, n)
             w1 == SymbolsBetween(stack, tab, low, n)
             w2 == SymbolsBetween(stack, left, low, n)
  <2>3. Without(w1, w, j) /\ Without(own1, own, j)
    <3>1. j \in 1..Len(Own(table, low, n)) /\ IsAt(first, Own(table, low, n), j)
      BY <1>6 DEF IsAt, own
    <3>2. w = SymbolsBetween(stack, table, low, n) BY DEF Current, low, n
    <3>3. /\ Without(SymbolsBetween(stack, tab, low, n), SymbolsBetween(stack, table, low, n), j)
          /\ Without(Own(tab, low, n), Own(table, low, n), j)
      BY <1>4, <2>1, <2>2, <3>1, OneLessSymbol
    <3> QED BY <3>2, <3>3 DEF own
  <2>4. i \in 1..Len(own1) /\ IsAt(first + 1, own1, i)
    <3>1. own \in Seq(Int)
      <4>1. IsOwn(own, table, low, n) BY <1>4, OwnFacts DEF own
      <4> QED BY <4>1 DEF IsOwn
    <3>2. own1 = RemoveAt(own, j) BY <2>3 DEF Without
    <3> HIDE DEF own1
    <3>3. /\ Len(own1) = Len(own) - 1
          /\ \A k \in 1..(Len(own) - 1) : own1[k] = IF k < j THEN own[k] ELSE own[k + 1]
      <4>1. /\ Len(RemoveAt(own, j)) = Len(own) - 1
            /\ \A k \in 1..(Len(own) - 1) : RemoveAt(own, j)[k] = IF k < j THEN own[k] ELSE own[k + 1]
        BY <3>1, RemoveAtFacts
      <4> QED BY <3>2, <4>1
    <3>4. i \in 1..(Len(own) - 1) BY <1>8, <1>10
    <3> QED BY <1>7, <1>8, <3>3, <3>4 DEF IsAt
  <2>5. LacksOne(left, tab, first + 1) BY <1>2, <2>1 DEF LacksOne
  <2>6. LookTheSame(stack, stack, Elements(tab) \cap ((low + 1)..n))
    BY <2>1, <2>2 DEF LookTheSame, LacksOne
  <2>7. Without(w2, w1, i) BY <1>2, <1>4, <2>1, <2>4, <2>5, <2>6, OneLessSymbol
  <2>8. v = w2 BY DEF Current, low, n
  <2> HIDE DEF w1, w2
  <2> QED BY <2>3, <2>7, <2>8 DEF Without
<1>14. Leaves(v, w, i, j) BY <1>6, <1>7, <1>8, <1>12, <1>13 DEF Leaves
<1> QED BY <1>14

LEMMA EndLoopMaps ==
    ASSUME Inv, Exact, Inv', Exact', EndLoop
    PROVE  Promise!LeaveLoop \/ Unseen
<1>1. /\ stack' = stack /\ outer' = outer /\ isFileScope' = isFileScope /\ ppm' = ppm /\ frames' = frames
      /\ kept' = kept
      /\ constructs # <<>> /\ Last(constructs).kind = "loop"
  BY DEF EndLoop, memory, Inside
<1>2. CASE parsing # "extract"
  <2>1. table' = table BY <1>2 DEF EndLoop
  <2> QED BY <1>1, <2>1, ShownTheSame DEF Unseen
<1>3. CASE parsing = "extract"
  <2> DEFINE first == Last(constructs).symbol
             once == Delete(table, stack, first + 1)
             s == ScopesOf(stack, table, outer)
             w == Current(stack, table, outer)
             v == Current(stack', table', outer')
  <2>1. LabelsAre(first) /\ TakenOut(once, Delete(once, stack, first), first)
    BY <1>1, <1>3, LoopLabels, LabelsTakenOut
  <2>2. table' = Delete(once, stack, first) BY <1>3 DEF EndLoop
  <2> HIDE DEF first, once
  <2>3. LabelsAre(first) /\ TakenOut(once, table', first) BY <2>1, <2>2
  <2>4. \E i, j : Leaves(v, w, i, j) BY <1>1, <2>3, LabelsLeave
  <2>5. ScopesOf(stack', table', outer') = s
    <3>1. Nests(stack, table, outer) /\ Nests(stack', table', outer')
      BY NestsNow, NestsNext
    <3>2. Inmost(first)
      <4>1. first \in Elements(table) /\ first > 0 /\ \A d \in 1..Len(outer) : outer[d].free < first
        BY <2>3 DEF LabelsAre
      <4> QED BY <4>1, InmostIs
    <3>3. Low(outer) \in Nat /\ first \in (Low(outer) + 1)..Len(stack)
      BY <3>1, <3>2 DEF Nests, Inmost
    <3>4. \A p \in 1..Low(outer) : p # first /\ p # first + 1 BY <3>3
    <3>5. Elements(table') = Elements(table) \ {first, first + 1}
      BY <2>3 DEF TakenOut
    <3>6. \A p \in 1..Low(outer) : p \in Elements(table) <=> p \in Elements(table')
      BY <3>4, <3>5
    <3>7. \A p \in 1..Low(outer) : Described(stack[p]) = Described(stack'[p])
      BY <1>1
    <3> QED BY <1>1, <3>1, <3>6, <3>7, AroundKept
  <2>6. /\ IsTop(Seen, s, isFileScope, w)
        /\ IsTop(Seen', ScopesOf(stack', table', outer'), isFileScope', v)
        /\ UNCHANGED <<SeenMacros, SeenProject>>
    <3>1. UNCHANGED <<ppm, kept>> BY <1>1
    <3> QED BY <3>1, TopSeen
  <2> HIDE DEF s, w, v
  <2>7. IsTop(Seen', s, isFileScope, v) BY <1>1, <2>5, <2>6
  <2>8. Promise!LeaveLoop BY <2>4, <2>6, <2>7, LeaveLoopOfScopes
  <2> QED BY <2>8
<1> QED BY <1>2, <1>3

\* A chain of one
LEMMA OneCellSeq ==
    ASSUME NEW S, NEW s \in Seq(S), Len(s) = 1
    PROVE  s = <<s[1]>>
<1> DEFINE x == s[1]
           t == <<x>>
<1>1. x \in S OBVIOUS
<1> HIDE DEF x
<1>2. t \in Seq(S) /\ Len(t) = 1 /\ t[1] = x BY <1>1
<1> HIDE DEF t
<1>3. \A i \in 1..Len(s) : s[i] = t[i]
  <2>1. \A i \in 1..1 : i = 1 OBVIOUS
  <2> QED BY <1>2, <2>1 DEF x
<1>4. s = t BY <1>2, <1>3, SameSequence
<1> QED BY <1>4 DEF t, x

\* The first two of a chain
LEMMA PairAppended ==
    ASSUME NEW S, NEW u \in Seq(S), NEW x \in S, NEW y \in S, Len(u) = 1, u[1] = x
    PROVE  Append(u, y) = <<x, y>>
<1> DEFINE s == Append(u, y)
           t == <<x, y>>
<1>1. s \in Seq(S) /\ Len(s) = 2 /\ s[1] = x /\ s[2] = y
  <2>1. 1 + 1 = 2 /\ 1 \in 1..1 OBVIOUS
  <2>2. \A v \in Seq(S) : /\ Append(v, y) \in Seq(S) /\ Len(Append(v, y)) = Len(v) + 1
                           /\ Append(v, y)[Len(v) + 1] = y
                           /\ \A i \in 1..Len(v) : Append(v, y)[i] = v[i]
    BY AppendFacts
  <2>3. s \in Seq(S) /\ Len(s) = Len(u) + 1 /\ s[Len(u) + 1] = y /\ \A i \in 1..Len(u) : s[i] = u[i]
    BY <2>2
  <2> HIDE DEF s
  <2> QED BY <2>1, <2>3
<1>2. t \in Seq(S) /\ Len(t) = 2 /\ t[1] = x /\ t[2] = y OBVIOUS
<1> HIDE DEF s, t
<1>3. \A i \in 1..Len(s) : s[i] = t[i]
  <2>1. \A i \in 1..2 : i = 1 \/ i = 2 OBVIOUS
  <2> QED BY <1>1, <1>2, <2>1
<1>4. s = t BY <1>1, <1>2, <1>3, SameSequence
<1> QED BY <1>4 DEF s, t

\* A file begins with the keyword in the scope around the files.
LEMMA KeywordAlone ==
    ASSUME NEW cells, NEW tab, Nests(cells, tab, <<>>), Len(cells) = 1, cells[1] = Keyword,
           1 \in Elements(tab)
    PROVE  Current(cells, tab, <<>>) = <<Described(Keyword)>> /\ ScopesOf(cells, tab, <<>>) = <<>>
<1> DEFINE w == Current(cells, tab, <<>>)
           own == Own(tab, 0, 1)
<1>1. Low(<<>>) = 0 BY DEF Low
<1>2. cells \in Seq(Cell) /\ tab \in Seq(Int) /\ Ordered(tab) BY DEF Nests
<1>3. AreSymbols(w, own, cells, tab, 0, 1) BY <1>1, CurrentFacts
<1>4. own = <<1>>
  <2>1. IsOwn(<<1>>, tab, 0, 1)
    <3>1. <<1>> \in Seq(Int) /\ Len(<<1>>) = 1 /\ \A i \in 1..1 : <<1>>[i] = 1
      OBVIOUS
    <3>2. NewestFirst(<<1>>) BY <3>1 DEF NewestFirst
    <3>3. Elements(<<1>>) = {1} BY <3>1 DEF Elements
    <3>4. (0 + 1)..1 = {1} OBVIOUS
    <3> QED BY <3>1, <3>2, <3>3, <3>4 DEF IsOwn
  <2> QED BY <1>2, <2>1, OwnIs
<1> HIDE DEF w, own
<1>5. /\ w \in Seq(Description) /\ Len(w) = 1 /\ w[1] = Described(cells[1])
  <2>1. Len(own) = 1 /\ own[1] = 1 BY <1>4
  <2> QED BY <1>3, <2>1 DEF AreSymbols
<1>6. w = <<Described(Keyword)>> BY <1>5, OneCellSeq
<1>7. ScopesOf(cells, tab, <<>>) = <<>> BY NoElement DEF ScopesOf
<1> QED BY <1>6, <1>7 DEF w

LEMMA FirstSeen ==
    ASSUME Inv', Exact', NEW k, NEW yacc \in BOOLEAN, FileBegun(k, yacc)
    PROVE  Seen' = First(yacc)
<1> DEFINE d == <<Described(Keyword)>>
           v == Current(stack', table', outer')
           b == [free |-> Len(stack'), frames |-> <<>>, isFileScope |-> FALSE]
<1>1. /\ Len(stack') = 1 /\ stack'[1] = Keyword /\ 1 \in Elements(table') /\ isFileScope' = yacc
      /\ outer' = IF yacc THEN <<[free |-> 1, frames |-> <<>>, isFileScope |-> FALSE]>> ELSE <<>>
      /\ stack' \in Seq(Cell) /\ table' \in Seq(Int) /\ Ordered(table')
  BY DEF FileBegun
<1>2. Nests(stack', table', <<>>)
  <2>1. Nests(stack', table', outer') BY NestsNext
  <2>2. Low(<<>>) = 0 /\ <<>> \in Seq(Block) /\ Len(<<>>) = 0 BY DEF Low
  <2>3. \A q \in Elements(table') : q \in Int /\ (q > 0 => q \in 1..Len(stack'))
    BY <2>1 DEF Nests
  <2> QED BY <1>1, <2>2, <2>3 DEF Nests
<1>3. Current(stack', table', <<>>) = d /\ ScopesOf(stack', table', <<>>) = <<>>
  BY <1>1, <1>2, KeywordAlone
<1>4. IsTop(Seen', ScopesOf(stack', table', outer'), yacc, v)
  BY <1>1, SeenNext DEF Sees
<1>5. Seen' = Append(ScopesOf(stack', table', outer'), Scope(yacc, v))
  <2> HIDE DEF v
  <2> QED BY <1>4, TopIs
<1>6. CASE ~yacc
  <2>1. outer' = <<>> /\ yacc = FALSE BY <1>1, <1>6
  <2>2. Seen' = Append(<<>>, Scope(FALSE, d)) BY <1>3, <1>5, <2>1
  <2> DEFINE x == Scope(FALSE, d)
  <2> HIDE DEF x
  <2>3. Append(<<>>, x) = <<x>> OBVIOUS
  <2> QED BY <2>1, <2>2, <2>3 DEF First, x
<1>7. CASE yacc
  <2> DEFINE x == Scope(FALSE, d)
             y == Scope(TRUE, <<>>)
  <2>1. /\ ScopesOf(stack', table', Append(<<>>, b)) = Append(<<>>, x)
        /\ Current(stack', table', Append(<<>>, b)) = <<>>
    <3> DEFINE none == <<>>
               no == FALSE
               c == [free |-> Len(stack'), frames |-> none, isFileScope |-> no]
    <3>1. none \in Seq(Frame) /\ no \in BOOLEAN OBVIOUS
    <3> HIDE DEF none, no
    <3>2. Nests(stack', table', none) BY <1>2 DEF none
    <3>3. \E e : e = c OBVIOUS
    <3>4. PICK e : e = c BY <3>3
    <3>5. /\ ScopesOf(stack', table', Append(none, e)) =
               Append(ScopesOf(stack', table', none), Scope(no, Current(stack', table', none)))
          /\ Current(stack', table', Append(none, e)) = <<>>
      BY <3>1, <3>2, <3>4, BlockOpened
    <3>6. e = b BY <3>4 DEF none, no
    <3>7. /\ ScopesOf(stack', table', Append(<<>>, b)) =
               Append(ScopesOf(stack', table', <<>>), Scope(FALSE, Current(stack', table', <<>>)))
          /\ Current(stack', table', Append(<<>>, b)) = <<>>
      BY <3>5, <3>6 DEF none, no
    <3> QED BY <1>3, <3>7
  <2>2. outer' = Append(<<>>, b) /\ yacc = TRUE
    <3>1. Append(<<>>, b) = <<b>> OBVIOUS
    <3>2. outer' = <<b>> /\ yacc = TRUE BY <1>1, <1>7
    <3> QED BY <3>1, <3>2
  <2> HIDE DEF b
  <2>3. Seen' = Append(Append(<<>>, x), y) BY <1>5, <2>1, <2>2
  <2> HIDE DEF x, y
  <2>4. Append(Append(<<>>, x), y) = <<x, y>>
    <3> DEFINE S == {x, y}
               u == Append(<<>>, x)
    <3>1. x \in S /\ y \in S OBVIOUS
    <3> HIDE DEF S
    <3>2. u \in Seq(S) /\ Len(u) = 1 /\ u[1] = x BY <3>1
    <3> HIDE DEF u
    <3>3. Append(u, y) = <<x, y>> BY <3>1, <3>2, PairAppended
    <3> QED BY <3>3 DEF u
  <2> QED BY <2>2, <2>3, <2>4 DEF First, x, y
<1> QED BY <1>6, <1>7

LEMMA NextFileMaps ==
    ASSUME Inv, Exact, Inv', Exact', NEW operation \in Operations, NEW yacc \in BOOLEAN,
           NextFile(operation, yacc)
    PROVE  Promise!NextFile(yacc)
<1> DEFINE k == project.ppm
<1>1. /\ k \in Nat /\ k <= Len(ppm) /\ FileBegun(k, yacc)
      /\ project' = project /\ ppm' = SubSeq(ppm, 1, k)
  BY NextFileBegins
<1>2. Seen' = First(yacc) BY <1>1, FirstSeen
<1>3. Len(ppm') = k BY <1>1 DEF FileBegun
<1>4. \A i \in 1..k : ppm'[i] = ppm[i]
  <2>1. ppm \in Seq(Macro) /\ Len(ppm) \in Nat BY DEF Inv, Typed
  <2> HIDE DEF k
  <2>2. 1 \in 1..(Len(ppm) + 1) /\ k \in (1 - 1)..Len(ppm) /\ k - 1 + 1 = k
    BY <1>1, <2>1
  <2>3. \A i \in 1..(k - 1 + 1) : SubSeq(ppm, 1, k)[i] = ppm[1 + i - 1]
    BY <2>1, <2>2, SubSeqFacts
  <2>4. \A i \in 1..k : 1 + i - 1 = i BY <1>1
  <2> QED BY <1>1, <2>2, <2>3, <2>4
<1>5. /\ SeenProject = MacrosOf(ppm, Descending(k))
      /\ SeenMacros' = MacrosOf(ppm', Descending(k))
      /\ SeenProject' = MacrosOf(ppm', Descending(k))
  <2>1. SeenProject = MacrosOf(ppm, Descending(project.ppm)) BY SeenNow DEF Sees
  <2>2. /\ SeenMacros' = MacrosOf(ppm', Descending(Len(ppm')))
        /\ SeenProject' = MacrosOf(ppm', Descending(project'.ppm))
    BY SeenNext DEF Sees
  <2> QED BY <1>1, <1>3, <2>1, <2>2
<1>6. MacrosOf(ppm', Descending(k)) = MacrosOf(ppm, Descending(k))
  BY <1>1, <1>4, SameMacros
<1>7. SeenMacros' = SeenProject /\ UNCHANGED SeenProject BY <1>5, <1>6
<1> QED BY <1>2, <1>7, NextFileOfScopes

LEMMA NextProjectMaps ==
    ASSUME Inv, Exact, Inv', Exact', NEW name, NEW defines \in {<<>>, <<name>>},
           defines # <<>> => name \in Names,
           NEW operation \in Operations, NEW yacc \in BOOLEAN, NextProject(defines, operation, yacc)
    PROVE  \E d \in SeqOf([name : Names, defined : {TRUE}], 1) : Promise!NextProject(d, yacc)
<1> DEFINE k == Len(defines)
           d == MacrosOf(ppm', Descending(k))
           D == [name : Names, defined : {TRUE}]
<1>1. /\ FileBegun(k, yacc) /\ k \in Nat
      /\ \A i \in 1..k : ppm'[i] = [type |-> "macro", name |-> name, defined |-> TRUE] /\ i = 1
  BY NextProjectBegins
<1>2. Seen' = First(yacc) BY <1>1, FirstSeen
<1>3. SeenMacros' = d /\ SeenProject' = d
  <2>1. Len(ppm') = k /\ project'.ppm = k BY <1>1 DEF FileBegun
  <2>2. /\ SeenMacros' = MacrosOf(ppm', Descending(Len(ppm')))
        /\ SeenProject' = MacrosOf(ppm', Descending(project'.ppm))
    BY SeenNext DEF Sees
  <2> QED BY <2>1, <2>2
<1>4. d \in SeqOf(D, 1)
  <2>1. k \in {0, 1}
    <3>1. Len(<<>>) = 0 /\ Len(<<name>>) = 1 OBVIOUS
    <3> QED BY <3>1
  <2>2. d = [i \in 1..k |-> Described1(ppm'[k + 1 - i])]
    BY <1>1, MacrosOfDescending
  <2>3. k = 1 => name \in Names
    <3>1. Len(<<>>) # 1 OBVIOUS
    <3> QED BY <3>1
  <2> HIDE DEF k, d
  <2>4. ASSUME NEW i \in 1..k PROVE Described1(ppm'[k + 1 - i]) \in D
    <3>1. k + 1 - i \in 1..k /\ k = 1 BY <2>1
    <3>2. ppm'[k + 1 - i] = [type |-> "macro", name |-> name, defined |-> TRUE]
      BY <1>1, <3>1
    <3>3. Described1(ppm'[k + 1 - i]) = [name |-> name, defined |-> TRUE]
      BY <3>2 DEF Described1
    <3> QED BY <2>3, <3>1, <3>3
  <2> HIDE DEF D
  <2>5. d \in [1..k -> D] BY <2>2, <2>4
  <2>6. k \in 0..1 BY <2>1
  <2> QED BY <2>5, <2>6 DEF SeqOf
<1> HIDE DEF d
<1>5. Promise!NextProject(d, yacc) BY <1>2, <1>3, NextProjectOfScopes
<1> QED BY <1>4, <1>5

LEMMA MacroMaps ==
    ASSUME Inv, Exact, Inv', Exact', NEW name \in Names, Define(name) \/ Undefine(name)
    PROVE  \E defined \in BOOLEAN : Promise!DefineMacro(name, defined)
<1> DEFINE m == Len(ppm)
           low == Low(outer)
           n == Len(stack)
<1>1. PICK defined \in BOOLEAN :
        /\ PushMacro(name, defined)
        /\ UNCHANGED <<stack, frames, isFileScope, outer, kept>>
  BY DEF Define, Undefine
<1> DEFINE c == [type |-> "macro", name |-> name, defined |-> defined]
<1>2. /\ ppm' = Append(ppm, c) /\ table' = <<-(m + 1)>> \o table
      /\ stack' = stack /\ outer' = outer /\ isFileScope' = isFileScope /\ project' = project
  BY <1>1 DEF PushMacro, kept
<1>3. /\ ppm \in Seq(Macro) /\ m \in Nat /\ c \in Macro /\ project.ppm \in Nat /\ project.ppm <= m
  BY DEF Inv, Typed, Checkpoints, Macro, Checkpoint
<1> HIDE DEF c
<1>4. /\ Len(ppm') = m + 1 /\ \A i \in 1..m : ppm'[i] = ppm[i]
  BY <1>2, <1>3, AppendFacts
<1>5. /\ SeenMacros = MacrosOf(ppm, Descending(m))
      /\ SeenProject = MacrosOf(ppm, Descending(project.ppm))
      /\ SeenMacros' = MacrosOf(ppm', Descending(m + 1))
      /\ SeenProject' = MacrosOf(ppm', Descending(project.ppm))
  <2>1. /\ SeenMacros = MacrosOf(ppm, Descending(Len(ppm)))
        /\ SeenProject = MacrosOf(ppm, Descending(project.ppm))
    BY SeenNow DEF Sees
  <2>2. /\ SeenMacros' = MacrosOf(ppm', Descending(Len(ppm')))
        /\ SeenProject' = MacrosOf(ppm', Descending(project'.ppm))
    BY SeenNext DEF Sees
  <2> QED BY <1>2, <1>4, <2>1, <2>2
<1>6. SeenProject' = SeenProject
  <2>1. \A i \in 1..project.ppm : ppm'[i] = ppm[i] BY <1>3, <1>4
  <2> QED BY <1>3, <1>5, <2>1, SameMacros
<1>7. SeenMacros' = <<[name |-> name, defined |-> defined]>> \o SeenMacros
  <2>1. MacrosOf(Append(ppm, c), Descending(m + 1)) = <<Described1(c)>> \o MacrosOf(ppm, Descending(m))
    BY <1>3, OneMoreMacro
  <2>2. Described1(c) = [name |-> name, defined |-> defined]
    BY DEF Described1, c
  <2> QED BY <1>2, <1>5, <2>1, <2>2
<1>8. Nests(stack, table, outer) /\ Nests(stack', table', outer')
  BY NestsNow, NestsNext
<1>9. /\ stack \in Seq(Cell) /\ table \in Seq(Int) /\ Ordered(table) /\ low \in Nat /\ n \in Nat
      /\ \A q \in Elements(table) : q \in Int /\ (q > 0 => q \in 1..n)
  BY <1>8 DEF Nests
<1>10. table' \in Seq(Int) /\ Ordered(table') BY <1>8 DEF Nests
<1>11. \A q \in Nat : q > 0 => (q \in Elements(table) <=> q \in Elements(table'))
  <2>1. Elements(table') = {-(m + 1)} \cup Elements(table)
    <3>1. \A q \in Elements(table) : q \in Int BY <1>9
    <3>2. \A q \in Elements(table') : q = -(m + 1) \/ q \in Elements(table)
      <4> DEFINE t == <<-(m + 1)>> \o table
      <4>1. /\ Len(t) = Len(table) + 1 /\ t[1] = -(m + 1)
            /\ \A i \in 1..(Len(table) + 1) : i # 1 => i - 1 \in 1..Len(table) /\ t[i] = table[i - 1]
        <5>1. -(m + 1) \in Int BY <1>3
        <5> QED BY <1>9, <5>1, PrependFacts
      <4> HIDE DEF t
      <4>2. table' = t BY <1>2 DEF t
      <4> QED BY <4>1, <4>2 DEF Elements
    <3>3. \A q \in Elements(table) : q \in Elements(table')
      <4> DEFINE t == <<-(m + 1)>> \o table
      <4>1. /\ Len(t) = Len(table) + 1 /\ Len(table) \in Nat
            /\ \A i \in 1..Len(table) : t[i + 1] = table[i]
        <5>1. -(m + 1) \in Int BY <1>3
        <5> QED BY <1>9, <5>1, PrependFacts
      <4> HIDE DEF t
      <4>2. table' = t BY <1>2 DEF t
      <4> SUFFICES ASSUME NEW i \in 1..Len(table) PROVE table[i] \in Elements(table')
        BY DEF Elements
      <4>3. i + 1 \in 1..Len(t) /\ t[i + 1] = table[i] BY <4>1
      <4> QED BY <4>2, <4>3 DEF Elements
    <3>4. -(m + 1) \in Elements(table')
      <4> DEFINE t == <<-(m + 1)>> \o table
      <4>1. /\ Len(t) = Len(table) + 1 /\ Len(table) \in Nat /\ t[1] = -(m + 1)
        <5>1. -(m + 1) \in Int BY <1>3
        <5> QED BY <1>9, <5>1, PrependFacts
      <4> HIDE DEF t
      <4>2. table' = t /\ 1 \in 1..Len(t) BY <1>2, <4>1 DEF t
      <4> QED BY <4>1, <4>2 DEF Elements
    <3> QED BY <3>2, <3>3, <3>4
  <2>2. \A q \in Nat : q > 0 => q # -(m + 1) BY <1>3
  <2> QED BY <2>1, <2>2
<1>12. ScopesOf(stack', table', outer') = ScopesOf(stack, table, outer)
  <2>1. \A p \in 1..low : p \in Elements(table) <=> p \in Elements(table')
    BY <1>9, <1>11
  <2>2. \A p \in 1..low : Described(stack[p]) = Described(stack'[p]) BY <1>2
  <2> QED BY <1>2, <1>8, <2>1, <2>2, AroundKept
<1>13. Current(stack', table', outer') = Current(stack, table, outer)
  <2> HIDE DEF low, n
  <2>1. HaveTheSame(table, n, table', n, low)
    <3>1. \A q \in (low + 1)..n : q \in Nat /\ q > 0 BY <1>9
    <3> QED BY <1>11, <3>1 DEF HaveTheSame
  <2>2. LookTheSame(stack, stack, Elements(table) \cap ((low + 1)..n))
    <3>1. \A p \in (low + 1)..n : p \in 1..n BY <1>9
    <3> QED BY <3>1 DEF LookTheSame, n
  <2>3. SymbolsBetween(stack, table', low, n) = SymbolsBetween(stack, table, low, n)
    BY <1>9, <1>10, <2>1, <2>2, SameSymbols
  <2> QED BY <1>2, <2>3 DEF Current, low, n
<1>14. Seen' = Seen
  <2> DEFINE s == ScopesOf(stack, table, outer)
             w == Current(stack, table, outer)
  <2>1. IsTop(Seen, s, isFileScope, w) BY SeenNow DEF Sees
  <2>2. IsTop(Seen', ScopesOf(stack', table', outer'), isFileScope', Current(stack', table', outer'))
    BY SeenNext DEF Sees
  <2>3. IsTop(Seen', s, isFileScope, w) BY <1>2, <1>12, <1>13, <2>2
  <2> HIDE DEF s, w
  <2> QED BY <2>1, <2>3, TopIs
<1>15. Promise!DefineMacro(name, defined) BY <1>6, <1>7, <1>14, DefineOfScopes
<1> QED BY <1>15

-----------------------------------------------------------------------------
(* The refinement                                                          *)

LEMMA InitMaps ==
    ASSUME Init
    PROVE  Promise!Init
<1> DEFINE x == Scope(FALSE, <<Described(Keyword)>>)
<1>1. /\ stack = <<Keyword>> /\ table = <<1>> /\ outer = <<>> /\ ppm = <<>> /\ isFileScope = FALSE
      /\ project.ppm = 0
  BY DEF Init, Unsaved
<1>2. Inv /\ Exact BY InvInit, ExactInit
<1>3. Sees(Seen, SeenMacros, SeenProject, ScopesOf(stack, table, outer), isFileScope,
           Current(stack, table, outer), ppm, Len(ppm), project.ppm)
  BY <1>2, SeenNow
<1>4. Nests(stack, table, outer) BY <1>2, NestsNow
<1>5. Len(stack) = 1 /\ stack[1] = Keyword /\ 1 \in Elements(table)
  <2> HIDE DEF Keyword
  <2>1. Len(table) = 1 /\ table[1] = 1 /\ Len(stack) = 1 /\ stack[1] = Keyword
    BY <1>1
  <2> QED BY <2>1 DEF Elements
<1>6. Current(stack, table, outer) = <<Described(Keyword)>> /\ ScopesOf(stack, table, outer) = <<>>
  <2>1. Nests(stack, table, <<>>) BY <1>1, <1>4
  <2>2. Current(stack, table, <<>>) = <<Described(Keyword)>> /\ ScopesOf(stack, table, <<>>) = <<>>
    BY <1>5, <2>1, KeywordAlone
  <2> QED BY <1>1, <2>2
<1>7. Seen = <<x>>
  <2>1. IsTop(Seen, ScopesOf(stack, table, outer), isFileScope, Current(stack, table, outer))
    BY <1>3 DEF Sees
  <2>2. Seen = Append(ScopesOf(stack, table, outer), Scope(isFileScope, Current(stack, table, outer)))
    BY <2>1, TopIs
  <2>3. Seen = Append(<<>>, x) BY <1>1, <1>6, <2>2
  <2> HIDE DEF x
  <2>4. Append(<<>>, x) = <<x>> OBVIOUS
  <2> QED BY <2>3, <2>4
<1>8. SeenMacros = <<>> /\ SeenProject = <<>>
  <2>1. Len(ppm) = 0 BY <1>1
  <2>2. SeenMacros = MacrosOf(ppm, Descending(0)) /\ SeenProject = MacrosOf(ppm, Descending(0))
    BY <1>1, <1>3, <2>1 DEF Sees
  <2>3. MacrosOf(ppm, Descending(0)) = [i \in 1..0 |-> Described1(ppm[0 + 1 - i])]
    BY MacrosOfDescending
  <2> DEFINE e == MacrosOf(ppm, Descending(0))
  <2> HIDE DEF e
  <2>4. e = [i \in {} |-> Described1(ppm[0 + 1 - i])]
    <3>1. 1..0 = {} OBVIOUS
    <3> QED BY <2>3, <3>1 DEF e
  <2>5. e = <<>> BY <2>4
  <2> QED BY <2>2, <2>5 DEF e
<1> HIDE DEF x
<1>9. Promise!Init <=> Seen = <<x>> /\ SeenMacros = <<>> /\ SeenProject = <<>>
  BY DEF Promise!Init, Promise!BaseScope, Seen, SeenMacros, SeenProject, Scope, x
<1> QED BY <1>7, <1>8, <1>9

LEMMA NextMaps ==
    ASSUME Inv, Exact, Inv', Exact', [Next]_vars
    PROVE  Promise!Next \/ Unseen
<1>1. ASSUME NEW name \in Names, Declare(name) \/ UseTag(name) \/ BeginTag(name)
      PROVE  Promise!Next \/ Unseen
  BY <1>1, DeclareMaps DEF Promise!Next
<1>2. ASSUME NEW name \in Names, Define(name) \/ Undefine(name) PROVE Promise!Next
  BY <1>2, MacroMaps DEF Promise!Next
<1>3. ASSUME NEW name \in Names, NEW parameters \in {<<>>, <<name>>}, NEW f \in Names,
             BeginFunction(f, parameters)
      PROVE  Promise!Next
  <2>1. Promise!Function(f, parameters) BY <1>3, BeginFunctionMaps
  <2>2. parameters \in SeqOf(Names, 1)
    <3>1. <<>> \in [1..0 -> Names] /\ <<name>> \in [1..1 -> Names] OBVIOUS
    <3>2. 0 \in 0..1 /\ 1 \in 0..1 OBVIOUS
    <3> QED BY <3>1, <3>2 DEF SeqOf
  <2>3. parameters \in Promise!SeqOf(Names, 1) BY <2>2 DEF Promise!SeqOf, SeqOf
  <2> QED BY <2>1, <2>3 DEF Promise!Next
<1>4. CASE EndFunction \/ EndCompound BY <1>4, EndMaps DEF Promise!Next
<1>5. CASE BeginCompound
  <2>1. Promise!Open(FALSE) BY <1>5, BeginCompoundMaps
  <2> QED BY <2>1 DEF Promise!Next
<1>6. CASE BeginLoop BY <1>6, BeginLoopMaps DEF Promise!Next
<1>7. CASE EndLoop BY <1>7, EndLoopMaps DEF Promise!Next
<1>8. CASE EndTag BY <1>8, EndTagMaps DEF Promise!Next
<1>9. CASE EndEmptyTag \/ StopParsing \/ UNCHANGED vars
  <2>1. UNCHANGED <<stack, table, frames, isFileScope, outer, ppm, kept>>
    BY <1>9 DEF EndEmptyTag, StopParsing, vars, memory, kept
  <2> QED BY <2>1, ShownTheSame DEF Unseen
<1>10. ASSUME NEW operation \in Operations, NEW yacc \in BOOLEAN, NextFile(operation, yacc)
       PROVE  Promise!Next
  BY <1>10, NextFileMaps DEF Promise!Next
<1>11. ASSUME NEW operation \in Operations, NEW yacc \in BOOLEAN,
              NEW defines \in {<<>>} \cup {<<name>> : name \in Names},
              NextProject(defines, operation, yacc)
       PROVE  Promise!Next
  <2>1. \E d \in SeqOf([name : Names, defined : {TRUE}], 1) : Promise!NextProject(d, yacc)
    <3>1. CASE defines = <<>>
      <4>1. defines \in {<<>>, <<0>>} /\ (defines # <<>> => 0 \in Names) BY <3>1
      <4> QED BY <1>11, <4>1, NextProjectMaps
    <3>2. CASE \E name \in Names : defines = <<name>>
      <4>1. PICK name \in Names : defines = <<name>> BY <3>2
      <4>2. defines \in {<<>>, <<name>>} /\ (defines # <<>> => name \in Names)
        BY <4>1
      <4> QED BY <1>11, <4>2, NextProjectMaps
    <3> QED BY <3>1, <3>2
  <2>2. \E d \in Promise!SeqOf([name : Names, defined : {TRUE}], 1) : Promise!NextProject(d, yacc)
    BY <2>1 DEF Promise!SeqOf, SeqOf
  <2> QED BY <2>2 DEF Promise!Next
<1> QED
  BY <1>1, <1>2, <1>3, <1>4, <1>5, <1>6, <1>7, <1>8, <1>9, <1>10, <1>11 DEF Next

\* The table, the two memories and the checkpoints keep what the abstract
\* symbol table promises: a block ends without what was declared in it and
\* with everything else, a tag is completed where it was declared, a loop
\* takes its own two labels, and a file starts with those of its project.
THEOREM ScopesAreKept == Spec => KeepsScopes
<1>1. Init => Promise!Init BY InitMaps
<1>2. Inv /\ Exact /\ Inv' /\ Exact' /\ [Next]_vars => [Promise!Next]_(Promise!vars)
  <2> SUFFICES ASSUME Inv, Exact, Inv', Exact', [Next]_vars
               PROVE  Promise!Next \/ UNCHANGED Promise!vars
    OBVIOUS
  <2>1. Promise!Next \/ Unseen BY NextMaps
  <2>2. Unseen => UNCHANGED Promise!vars
    BY DEF Unseen, Promise!vars, Seen, SeenMacros, SeenProject
  <2> QED BY <2>1, <2>2
<1> QED BY <1>1, <1>2, AlwaysExact, PTL DEF Spec, KeepsScopes, Promise!Spec
=============================================================================
