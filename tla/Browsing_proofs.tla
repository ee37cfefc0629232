--------------------------- MODULE Browsing_proofs ---------------------------
(***************************************************************************)
(* Sessions keep their types, their place and their list, survive what is  *)
(* not a push, lose a mark only for a refresh, and can be gone through to  *)
(* the last reference: for every project, every menu and every order of    *)
(* requests and edits.                                                     *)
(***************************************************************************)
EXTENDS Browsing, FiniteSetTheorems, WellFoundedInduction, TLAPS

\* What every operation on a session keeps
Sound(s) == s \in Session /\ s.current \in s.list \cup {NoRef}

-----------------------------------------------------------------------------
(* The order *)

LEMMA FirstIsOne ==
    ASSUME NEW s, NEW R
    PROVE  First(s, R) \in R \cup {NoRef}
BY DEF First

LEMMA LastIsOne ==
    ASSUME NEW s, NEW R
    PROVE  Last(s, R) \in R \cup {NoRef}
BY DEF Last

LEMMA AfterCallerIsOne ==
    ASSUME NEW s, NEW R
    PROVE  AfterCaller(s, R) \in R \cup {NoRef}
<1> DEFINE byPlace == [s EXCEPT !.sorted = "place"]
           here == {r \in R : r.file = s.caller.file}
           behind == {r \in here : r.line < s.caller.line}
<1>1. First(byPlace, R) \in R \cup {NoRef}
  BY FirstIsOne
<1>2. Last(byPlace, behind) \in behind \cup {NoRef}
  BY LastIsOne
<1>3. First(byPlace, here \ behind) \in (here \ behind) \cup {NoRef}
  BY FirstIsOne
<1> QED
  BY <1>1, <1>2, <1>3 DEF AfterCaller

-----------------------------------------------------------------------------
(* The table *)

\* What the table may have of an item
TableRef == {r \in Ref : r.usage # BestFit /\ AddedAt(r) \in Nat}

LEMMA RecordedType ==
    ASSUME TypeOK, NEW i \in Item, NEW f \in File
    PROVE  Recorded(i, f) \subseteq TableRef
<1>1. CASE parsed[f] = NoText
  BY <1>1 DEF Recorded
<1>2. CASE parsed[f] # NoText
  <2>1. parsed[f] \in Text
    BY <1>2 DEF TypeOK
  <2>2. ASSUME NEW p \in Found(i, f, parsed[f])
        PROVE  [file |-> f, line |-> p.line, usage |-> p.usage] \in TableRef
    <3> DEFINE r == [file |-> f, line |-> p.line, usage |-> p.usage]
    <3>1. p \in [line : Nat, usage : Usage \ {BestFit}] /\ AddedAt(r) \in Nat
      BY <2>1, BrowsingAssumption
    <3>2. r \in Ref /\ r.usage # BestFit
      BY <3>1 DEF Ref
    <3> QED
      BY <3>1, <3>2 DEF TableRef
  <2> QED
    BY <1>2, <2>2 DEF Recorded
<1> QED
  BY <1>1, <1>2

LEMMA RefsType ==
    ASSUME TypeOK, NEW i \in Item
    PROVE  RefsOf(i) \subseteq TableRef /\ Merged(i) \subseteq TableRef
<1>1. \A j \in Item : RefsOf(j) \subseteq TableRef
  BY RecordedType DEF RefsOf
<1> QED
  BY <1>1 DEF Merged

LEMMA TableRefType ==
    TableRef \subseteq Ref
BY DEF TableRef

-----------------------------------------------------------------------------
(* What comes into a copy, and the default *)

LEMMA LeastExists ==
    ASSUME NEW S \in SUBSET Nat, S # {}
    PROVE  \E k \in S : \A j \in S : k <= j
<1>1. PICK k \in S : \A j \in S : <<j, k>> \notin OpToRel(<, Nat)
  BY NatLessThanWellFounded, WFMin
<1>2. \A j \in S : ~(j < k)
  BY <1>1 DEF OpToRel
<1> QED
  BY <1>2

LEMMA ForemostIsSome ==
    ASSUME NEW N \in SUBSET Ref, N # {}
    PROVE  Foremost(N) # {} /\ Foremost(N) \subseteq N
<1> DEFINE usages == {r.usage : r \in N}
<1>1. usages \in SUBSET Nat /\ usages # {}
  BY DEF Ref, Usage
<1>2. PICK u \in usages : \A v \in usages : u <= v
  BY <1>1, LeastExists
<1>3. PICK r \in N : r.usage = u
  OBVIOUS
<1>4. \A q \in N : r.usage <= q.usage
  BY <1>2, <1>3
<1> QED
  BY <1>4 DEF Foremost

LEMMA AddedFirstIsOne ==
    ASSUME NEW N \in SUBSET TableRef, N # {}
    PROVE  AddedFirst(N) \in N
<1> DEFINE places == {AddedAt(r) : r \in N}
<1>1. places \in SUBSET Nat /\ places # {}
  BY DEF TableRef
<1>2. PICK k \in places : \A l \in places : k <= l
  BY <1>1, LeastExists
<1>3. PICK r \in N : AddedAt(r) = k
  OBVIOUS
<1>4. \A q \in N : AddedAt(r) <= AddedAt(q)
  BY <1>2, <1>3
<1> QED
  BY <1>4 DEF AddedFirst

LEMMA NewDefaultType ==
    ASSUME NEW d \in Ref \cup {NoRef}, NEW N \in SUBSET TableRef
    PROVE  NewDefault(d, N) \in Ref \cup {NoRef}
<1>1. CASE Better(d, N) = {}
  BY <1>1 DEF NewDefault
<1>2. CASE Better(d, N) # {}
  <2>1. Better(d, N) \in SUBSET TableRef /\ Better(d, N) \in SUBSET Ref
    BY TableRefType DEF Better
  <2>2. Foremost(Better(d, N)) # {} /\ Foremost(Better(d, N)) \in SUBSET TableRef
    BY <1>2, <2>1, ForemostIsSome
  <2>3. AddedFirst(Foremost(Better(d, N))) \in TableRef
    BY <2>2, AddedFirstIsOne
  <2> QED
    BY <1>2, <2>3, TableRefType DEF NewDefault
<1> QED
  BY <1>1, <1>2

\* A reference as it comes into a copy
AsCopied(d, N, r) == IF FitsBest(d, N, r) THEN [r EXCEPT !.usage = BestFit] ELSE r

LEMMA CopiedHas ==
    ASSUME NEW d, NEW N, NEW r
    PROVE  r \in Copied(d, N) <=> \E q \in N : r = AsCopied(d, N, q)
BY DEF Copied, AsCopied

LEMMA AsCopiedType ==
    ASSUME NEW d, NEW N, NEW r \in Ref
    PROVE  /\ AsCopied(d, N, r) \in Ref
           /\ AsCopied(d, N, r).file = r.file /\ AsCopied(d, N, r).line = r.line
BY DEF AsCopied, Ref, Usage, BestFit

LEMMA CopiedType ==
    ASSUME NEW d, NEW N \in SUBSET Ref
    PROVE  Copied(d, N) \subseteq Ref
BY CopiedHas, AsCopiedType

-----------------------------------------------------------------------------
(* What a session becomes *)

LEMMA SelectedType ==
    ASSUME NEW s \in Session
    PROVE  Selected(s) \subseteq Ref
<1>1. \A i \in s.selected : i \in Item /\ s.copy[i] \subseteq Ref
  BY DEF Session
<1> QED
  BY <1>1 DEF Selected

\* To place a session at one of its references, or at none
LEMMA Placed ==
    ASSUME NEW s \in Session, NEW r \in s.list \cup {NoRef}
    PROVE  Sound([s EXCEPT !.current = r])
<1>1. r \in Ref \cup {NoRef}
  BY DEF Session
<1> QED
  BY <1>1 DEF Sound, Session

LEMMA RecomputeSound ==
    ASSUME NEW s \in Session
    PROVE  Sound(Recompute(s))
<1>1. AfterCaller(s, Selected(s)) \in Selected(s) \cup {NoRef}
  BY AfterCallerIsOne
<1>2. Selected(s) \subseteq Ref
  BY SelectedType
<1> QED
  BY <1>1, <1>2 DEF Recompute, Sound, Session

\* A session with the copies and defaults that a refresh of a file gives it
NewCopy(s, i, f) == Kept(s, i, f) \cup Copied(s.default[i], NewIn(s, i, f))
Copies(s, f) == [i \in Item |-> IF i \in ItemsOf[s.symbol] THEN NewCopy(s, i, f) ELSE {}]
Defaults(s, f) == [i \in Item |-> IF i \in ItemsOf[s.symbol]
                                  THEN NewDefault(s.default[i], NewIn(s, i, f)) ELSE s.default[i]]
Copying(s, f) == [s EXCEPT !.copy = Copies(s, f), !.default = Defaults(s, f)]

LEMMA NewInType ==
    ASSUME TypeOK, NEW s, NEW f, NEW i \in Item
    PROVE  NewIn(s, i, f) \in SUBSET TableRef
BY RefsType DEF NewIn, New

LEMMA NewCopyType ==
    ASSUME TypeOK, NEW s \in Session, NEW f, NEW i \in Item
    PROVE  /\ NewCopy(s, i, f) \subseteq Ref
           /\ NewDefault(s.default[i], NewIn(s, i, f)) \in Ref \cup {NoRef}
<1>1. Kept(s, i, f) \subseteq Ref /\ s.default[i] \in Ref \cup {NoRef}
  BY DEF Kept, Session
<1>2. NewIn(s, i, f) \in SUBSET TableRef /\ NewIn(s, i, f) \in SUBSET Ref
  BY NewInType, TableRefType
<1>3. Copied(s.default[i], NewIn(s, i, f)) \subseteq Ref
  BY <1>2, CopiedType
<1>4. NewDefault(s.default[i], NewIn(s, i, f)) \in Ref \cup {NoRef}
  BY <1>1, <1>2, NewDefaultType
<1> QED
  BY <1>1, <1>3, <1>4 DEF NewCopy

LEMMA CopyingGives ==
    ASSUME TypeOK, NEW s \in Session, NEW f
    PROVE  /\ Update(s, f) = Recompute(Copying(s, f))
           /\ Copying(s, f) \in Session
           /\ Copying(s, f).copy = Copies(s, f) /\ Copying(s, f).default = Defaults(s, f)
           /\ Copying(s, f).symbol = s.symbol /\ Copying(s, f).caller = s.caller
           /\ Copying(s, f).selected = s.selected /\ Copying(s, f).limit = s.limit
<1>1. Copies(s, f) \in [Item -> SUBSET Ref]
  BY NewCopyType DEF Copies
<1>2. Defaults(s, f) \in [Item -> Ref \cup {NoRef}]
  BY NewCopyType DEF Defaults, Session
<1>3. Update(s, f) = Recompute(Copying(s, f))
  BY DEF Update, Copying, Copies, Defaults, NewCopy
<1>4. /\ Copying(s, f) \in Session
      /\ Copying(s, f).copy = Copies(s, f) /\ Copying(s, f).default = Defaults(s, f)
      /\ Copying(s, f).symbol = s.symbol /\ Copying(s, f).caller = s.caller
      /\ Copying(s, f).selected = s.selected /\ Copying(s, f).limit = s.limit
  BY <1>1, <1>2 DEF Copying, Session
<1> QED
  BY <1>3, <1>4

LEMMA UpdateSound ==
    ASSUME TypeOK, NEW s \in Session, NEW f
    PROVE  Sound(Update(s, f))
BY CopyingGives, RecomputeSound

LEMMA NearestSound ==
    ASSUME NEW s \in Session, NEW saved
    PROVE  Sound(Nearest(s, saved))
<1> DEFINE visible == Unfiltered(s, s.list)
           here == {r \in visible : saved # NoRef /\ r.file = saved.file}
           close == {r \in here : \A q \in here : Distance(r, saved) <= Distance(q, saved)}
<1>1. First(s, visible) \in s.list \cup {NoRef} /\ First(s, close) \in s.list \cup {NoRef}
  BY FirstIsOne DEF Unfiltered
<1> QED
  BY <1>1, Placed DEF Nearest

LEMMA NextOrFirstSound ==
    ASSUME NEW s \in Session, NEW rest \in SUBSET s.list
    PROVE  Sound(NextOrFirst(s, rest))
<1> DEFINE ahead == Unfiltered(s, rest)
           where == IF ahead = {} THEN Unfiltered(s, s.list) ELSE ahead
<1>1. First(s, where) \in s.list \cup {NoRef}
  BY FirstIsOne DEF Unfiltered
<1> QED
  BY <1>1, Placed DEF NextOrFirst

LEMMA PreviousOrLastSound ==
    ASSUME NEW s \in Session
    PROVE  Sound(PreviousOrLast(s))
<1>1. /\ Previous(s) \in s.list \cup {NoRef}
      /\ Last(s, Unfiltered(s, s.list)) \in s.list \cup {NoRef}
  BY LastIsOne DEF Previous, Unfiltered, Before
<1> QED
  BY <1>1, Placed DEF PreviousOrLast

LEMMA AdvanceSound ==
    ASSUME NEW s \in Session
    PROVE  Sound(Advance(s))
<1>1. After(s) \subseteq s.list
  BY DEF After
<1> QED
  BY <1>1, NextOrFirstSound DEF Advance

LEMMA ToFirstSound ==
    ASSUME NEW s \in Session
    PROVE  Sound([s EXCEPT !.current = First(s, s.list)])
BY FirstIsOne, Placed

\* NEXT and PREVIOUS, whatever is marked
LEMMA MovedSound ==
    ASSUME NEW s \in Session, NEW way
    PROVE  Sound(Moved(s, way))
BY AdvanceSound, PreviousOrLastSound DEF Moved

LEMMA GotoSound ==
    ASSUME TypeOK, NEW s0 \in Session, NEW f, NEW marks \in SUBSET File, NEW way
    PROVE  /\ Sound(Goto(s0, f, marks, way).session)
           /\ Goto(s0, f, marks, way).marks \subseteq File
<1> DEFINE s == IF f \in marks THEN Nearest(Update(s0, f), s0.current) ELSE s0
           target == Target(s, way)
           again == Nearest(Update(s, target.file), s.current)
           moved == [session |-> Moved(again, way), marks |-> marks \ {f, target.file}]
           stayed == [session |-> IF s.current = NoRef THEN [s EXCEPT !.current = First(s, s.list)]
                                  ELSE Moved(s, way),
                      marks |-> marks \ {f}]
<1>1. s \in Session
  BY UpdateSound, NearestSound DEF Sound
<1>2. again \in Session
  BY <1>1, UpdateSound, NearestSound DEF Sound
<1>3. Sound(Moved(again, way)) /\ Sound(Moved(s, way))
  BY <1>1, <1>2, MovedSound
<1>4. Sound([s EXCEPT !.current = First(s, s.list)])
  BY <1>1, ToFirstSound
<1>5. /\ Sound(moved.session) /\ moved.marks \subseteq File
      /\ Sound(stayed.session) /\ stayed.marks \subseteq File
  BY <1>3, <1>4
<1>6. Goto(s0, f, marks, way) \in {moved, stayed}
  BY DEF Goto
<1> QED
  BY <1>5, <1>6

\* A push
\* A default of an item
NoneOrOne == Ref \cup {NoRef}

LEMMA OpenedSound ==
    ASSUME TypeOK, NEW y \in Symbols, NEW r \in Ref, NEW d \in NoneOrOne
    PROVE  Sound(Opened(y, r, d)) /\ Sound(AtDefinition(Opened(y, r, d)))
<1> DEFINE s == [symbol |-> y,
                 copy |-> [i \in Item |-> IF i \in ItemsOf[y] THEN Copied(d, RefsOf(i)) ELSE {}],
                 default |-> [i \in Item |-> IF i \in ItemsOf[y] THEN NewDefault(d, RefsOf(i)) ELSE d],
                 selected |-> ShownAt[y][0] \cap FittingOf[y], shown |-> ShownAt[y][0],
                 list |-> {}, sorted |-> "place", current |-> NoRef, caller |-> r,
                 limit |-> AllUsages, level |-> 0]
           t == Opened(y, r, d)
           ordered == [t EXCEPT !.sorted = "importance"]
           first == First(ordered, t.list)
<1>1. s.copy \in [Item -> SUBSET Ref] /\ s.default \in [Item -> Ref \cup {NoRef}]
  <2>1. ASSUME NEW i \in Item
        PROVE  Copied(d, RefsOf(i)) \subseteq Ref /\ NewDefault(d, RefsOf(i)) \in Ref \cup {NoRef}
    <3>1. RefsOf(i) \in SUBSET TableRef /\ RefsOf(i) \in SUBSET Ref
      BY RefsType, TableRefType
    <3> QED
      BY <3>1, CopiedType, NewDefaultType DEF NoneOrOne
  <2> QED
    BY <2>1 DEF NoneOrOne
<1>2. s.shown \subseteq Item /\ s.selected \subseteq Item /\ AllUsages \in Limits /\ 0 \in MenuLevels
  BY BrowsingAssumption
<1>3. s \in Session
  BY <1>1, <1>2 DEF Session
<1>4. Selected(s) \subseteq Ref /\ AfterCaller(s, Selected(s)) \in Selected(s) \cup {NoRef}
  BY <1>3, SelectedType, AfterCallerIsOne
<1>5. Sound(t)
  BY <1>3, <1>4 DEF Opened, Sound, Session
<1>6. Sound(ordered)
  BY <1>5 DEF Sound, Session
<1>7. first \in ordered.list \cup {NoRef}
  BY <1>5, FirstIsOne DEF Sound, Session
<1>8. Sound([ordered EXCEPT !.current = first])
  BY <1>6, <1>7, Placed DEF Sound
<1>9. AtDefinition(t) \in {[ordered EXCEPT !.current = first], ordered}
  BY DEF AtDefinition
<1> QED
  BY <1>5, <1>6, <1>8, <1>9

\* The filters and the menu
LEMMA NthSound ==
    ASSUME NEW s \in Session, NEW n
    PROVE  Sound(Nth(s, n))
<1> DEFINE visible == Unfiltered(s, s.list)
           nth == {r \in visible : Cardinality({q \in visible : InOrder(s, q, r)}) = n - 1}
<1>1. First(s, nth) \in s.list \cup {NoRef}
  BY FirstIsOne DEF Unfiltered
<1> QED
  BY <1>1, Placed DEF Nth

LEMMA FilteredSound ==
    ASSUME NEW s \in Session, NEW l \in Limits
    PROVE  Sound(Filtered(s, l))
<1> DEFINE t == [s EXCEPT !.limit = l]
           rest == {r \in t.list : r = t.current} \cup After(t)
<1>1. t \in Session
  BY DEF Session
<1>2. rest \subseteq t.list
  BY DEF After
<1> QED
  BY <1>1, <1>2, NextOrFirstSound DEF Filtered

LEMMA MenuSound ==
    ASSUME NEW s, Sound(s), NEW i \in Item
    PROVE  Sound(Toggled(s, i)) /\ Sound(OnlySelected(s, i))
<1> DEFINE t == Recompute([s EXCEPT !.selected = {i}])
           defined == Last(t, {r \in t.list : r.usage < Declared})
           declared == First(t, {r \in t.list : r.usage = Declared})
           definition == IF defined # NoRef THEN defined ELSE declared
<1>1. /\ [s EXCEPT !.selected = IF i \in @ THEN @ \ {i} ELSE @ \cup {i}] \in Session
      /\ [s EXCEPT !.selected = {i}] \in Session
  BY DEF Sound, Session
<1>2. Sound(Toggled(s, i))
  BY <1>1, RecomputeSound DEF Toggled
<1>3. Sound(t)
  BY <1>1, RecomputeSound
<1>4. defined \in t.list \cup {NoRef} /\ declared \in t.list \cup {NoRef}
  BY FirstIsOne, LastIsOne
<1>5. Sound([t EXCEPT !.current = definition])
  BY <1>3, <1>4, Placed DEF Sound
<1> QED
  BY <1>2, <1>3, <1>5 DEF OnlySelected

LEMMA WholeMenuSound ==
    ASSUME NEW s, Sound(s)
    PROVE  Sound(AllSelected(s)) /\ Sound(NoneSelected(s)) /\ Sound(NothingSelected(s))
<1>1. /\ [s EXCEPT !.selected = @ \cup s.shown] \in Session
      /\ [s EXCEPT !.selected = @ \ s.shown] \in Session
  BY DEF Sound, Session
<1>2. Sound(AllSelected(s)) /\ Sound(NoneSelected(s))
  BY <1>1, RecomputeSound DEF AllSelected, NoneSelected
<1>3. Sound(NothingSelected(s))
  BY DEF Sound, Session, NothingSelected
<1> QED
  BY <1>2, <1>3

LEMMA MenuFilteredSound ==
    ASSUME NEW s, Sound(s), NEW l \in MenuLevels
    PROVE  Sound(MenuFiltered(s, l))
<1> DEFINE t == [s EXCEPT !.level = l, !.shown = ShownAt[s.symbol][l],
                          !.selected = ShownAt[s.symbol][l] \cap FittingOf[s.symbol]]
<1>1. s \in Session /\ s.symbol \in Symbols
  BY DEF Sound, Session
<1>2. ShownAt[s.symbol][l] \subseteq Item
  BY <1>1, BrowsingAssumption
<1>3. t \in Session
  BY <1>1, <1>2 DEF Session
<1>4. Sound(Recompute(t))
  BY <1>3, RecomputeSound
<1> QED
  BY <1>4 DEF MenuFiltered

-----------------------------------------------------------------------------
(* The stack *)

Inv == TypeOK /\ CurrentIsListed

StackOK(st, t) == st \in Seq(Session) /\ t \in 0..Len(st) /\ \A k \in 1..Len(st) : Sound(st[k])

LEMMA InvIsSound ==
    Inv <=> /\ text \in [File -> Text] /\ edits \in Text
            /\ parsed \in [File -> Text \cup {NoText}]
            /\ changed \subseteq Headers /\ old \subseteq CUs /\ marked \subseteq File
            /\ request \in Request \cup {NoRequest}
            /\ StackOK(stack, top)
BY DEF Inv, TypeOK, CurrentIsListed, StackOK, Sound

LEMMA StackKept ==
    ASSUME StackOK(stack, top)
    PROVE  /\ \A t \in 0..Len(stack) : StackOK(stack, t)
           /\ StackOK(Unpopped, top)
           /\ \A s : Sound(s) => StackOK(Append(Unpopped, s), top + 1)
           /\ \A s : top # 0 /\ Sound(s) => StackOK([stack EXCEPT ![top] = s], top)
<1>1. stack \in Seq(Session) /\ top \in 0..Len(stack) /\ \A k \in 1..Len(stack) : Sound(stack[k])
  BY DEF StackOK
<1>2. \A t \in 0..Len(stack) : StackOK(stack, t)
  BY <1>1 DEF StackOK
<1>3. StackOK(Unpopped, top)
  <2>1. /\ Unpopped \in Seq(Session) /\ Len(Unpopped) = top
        /\ \A k \in 1..top : Unpopped[k] = stack[k]
    BY <1>1 DEF Unpopped
  <2> QED
    BY <1>1, <2>1 DEF StackOK
<1>4. ASSUME NEW s, Sound(s)
      PROVE  StackOK(Append(Unpopped, s), top + 1)
  <2>1. Unpopped \in Seq(Session) /\ Len(Unpopped) = top /\ s \in Session
    BY <1>1, <1>4 DEF Unpopped, Sound
  <2>2. Append(Unpopped, s) \in Seq(Session) /\ Len(Append(Unpopped, s)) = top + 1
    BY <2>1
  <2>3. ASSUME NEW k \in 1..(top + 1)
        PROVE  Sound(Append(Unpopped, s)[k])
    <3>1. CASE k = top + 1
      <4>1. Append(Unpopped, s)[k] = s
        BY <1>1, <2>1, <3>1
      <4> QED
        BY <4>1, <1>4
    <3>2. CASE k # top + 1
      <4>1. k \in 1..Len(stack) /\ Append(Unpopped, s)[k] = stack[k]
        BY <1>1, <2>1, <3>2 DEF Unpopped
      <4> QED
        BY <1>1, <4>1
    <3> QED
      BY <3>1, <3>2
  <2> QED
    BY <1>1, <2>2, <2>3 DEF StackOK
<1>5. ASSUME NEW s, top # 0, Sound(s)
      PROVE  StackOK([stack EXCEPT ![top] = s], top)
  <2>1. /\ [stack EXCEPT ![top] = s] \in Seq(Session)
        /\ Len([stack EXCEPT ![top] = s]) = Len(stack)
        /\ \A k \in 1..Len(stack) : [stack EXCEPT ![top] = s][k] = IF k = top THEN s ELSE stack[k]
    BY <1>1, <1>5 DEF Sound
  <2> QED
    BY <1>1, <1>5, <2>1 DEF StackOK
<1> QED
  BY <1>2, <1>3, <1>4, <1>5

-----------------------------------------------------------------------------
(* The steps *)

\* A push for the reference of an item
Pushed(y, i, r) ==
    \E d \in DefaultsAt(i, r) :
       \E s \in {Opened(y, r, d), AtDefinition(Opened(y, r, d))} : stack' = Append(Unpopped, s)

LEMMA DefaultsType ==
    ASSUME TypeOK, NEW i \in Item, NEW r \in Ref
    PROVE  DefaultsAt(i, r) \subseteq NoneOrOne
<1>1. \A f \in ReadWith(r.file) : f \in File
  BY DEF ReadWith, Ref, File
<1>2. UNION {Recorded(i, f) : f \in ReadWith(r.file)} \subseteq Ref
  BY <1>1, RecordedType, TableRefType
<1> QED
  BY <1>2 DEF DefaultsAt, NoneOrOne

LEMMA PushedIsOpened ==
    ASSUME TypeOK, NEW y, NEW i \in Item, NEW r \in Ref, Pushed(y, i, r)
    PROVE  \E d \in NoneOrOne : \/ stack' = Append(Unpopped, Opened(y, r, d))
                               \/ stack' = Append(Unpopped, AtDefinition(Opened(y, r, d)))
BY DefaultsType DEF Pushed

LEMMA InvStep ==
    ASSUME Inv, [Next]_vars
    PROVE  Inv'
<1> DEFINE Table(t, e, p, c, o) ==
               /\ t \in [File -> Text] /\ e \in Text /\ p \in [File -> Text \cup {NoText}]
               /\ c \subseteq Headers /\ o \subseteq CUs
           AskedOK(r) == r \in Request \cup {NoRequest}
<1> USE DEF KeepTable, knowledge
<1>1. /\ Table(text, edits, parsed, changed, old) /\ marked \subseteq File
      /\ AskedOK(request) /\ StackOK(stack, top) /\ TypeOK
  BY InvIsSound DEF Inv
<1>2. SUFFICES /\ Table(text', edits', parsed', changed', old') /\ marked' \subseteq File
               /\ AskedOK(request') /\ StackOK(stack', top')
  BY InvIsSound DEF Inv, TypeOK, CurrentIsListed, StackOK, Sound
<1>3. /\ \A t \in 0..Len(stack) : StackOK(stack, t)
      /\ StackOK(Unpopped, top)
      /\ \A s : Sound(s) => StackOK(Append(Unpopped, s), top + 1)
      /\ \A s : top # 0 /\ Sound(s) => StackOK([stack EXCEPT ![top] = s], top)
  BY <1>1, StackKept
<1>4. top # 0 => Sound(stack[top]) /\ stack[top] \in Session
  BY <1>1 DEF StackOK, Sound
<1>5. \A parses : Answering(parses) => AskedOK(request') /\ request.file \in File
  BY <1>1, RequestAssumption DEF Answering, Request
<1>6. CASE UNCHANGED vars
  BY <1>1, <1>6 DEF vars
<1>7. ASSUME NEW f \in File, Edit(f)
      PROVE  /\ Table(text', edits', parsed', changed', old') /\ marked' \subseteq File
             /\ AskedOK(request') /\ StackOK(stack', top')
  <2>1. edits' \in Text
    BY <1>1, <1>7, BrowsingAssumption DEF Edit, Text
  <2> QED
    BY <1>1, <1>7, <2>1 DEF Edit, Includers
<1>8. ASSUME NEW f \in Asked, NEW parses \in BOOLEAN, Ask(f, parses)
      PROVE  /\ Table(text', edits', parsed', changed', old') /\ marked' \subseteq File
             /\ AskedOK(request') /\ StackOK(stack', top')
  <2>1. PICK some \in SUBSET (Siblings(f) \cap old) :
          LET built == some \cup (Held \cap old) \cup (IF parses THEN {} ELSE {f} \cap old)
              read == built \cup (IF parses THEN {f} ELSE {})
          IN  /\ parsed' = [g \in File |->
                               IF \E c \in read : g \in ReadWith(c) THEN text[g]
                               ELSE IF g \in changed THEN NoText
                               ELSE parsed[g]]
              /\ marked' = marked \cup changed \cup built
              /\ old' = old \ read
    BY <1>8 DEF Ask
  <2>2. parsed' \in [File -> Text \cup {NoText}]
    BY <1>1, <2>1
  <2>3. marked' \subseteq File /\ old' \subseteq CUs
    BY <1>1, <2>1 DEF File
  <2>4. request' \in Request /\ changed' \subseteq Headers
    BY <1>8, BrowsingAssumption DEF Ask, Request
  <2>5. text' = text /\ edits' = edits /\ stack' = stack /\ top' = top
    BY <1>8 DEF Ask
  <2> QED
    BY <1>1, <2>2, <2>3, <2>4, <2>5
<1>9. ASSUME NEW y \in Symbols, Push(y)
      PROVE  /\ Table(text', edits', parsed', changed', old') /\ marked' \subseteq File
             /\ AskedOK(request') /\ StackOK(stack', top')
  <2>1. PICK i \in ItemsOf[y] : \E r \in Recorded(i, request.file) : Pushed(y, i, r)
    BY <1>9 DEF Push, Pushed
  <2>2. PICK r \in Recorded(i, request.file) : Pushed(y, i, r)
    BY <2>1
  <2>3. Answering(TRUE) /\ request.file \in File /\ i \in Item
    BY <1>5, <1>9 DEF Push, Item
  <2>4. r \in Ref
    BY <1>1, <2>3, RecordedType, TableRefType
  <2>5. PICK d \in NoneOrOne :
           stack' = Append(Unpopped, Opened(y, r, d))
           \/ stack' = Append(Unpopped, AtDefinition(Opened(y, r, d)))
    BY <1>1, <2>2, <2>3, <2>4, PushedIsOpened
  <2>7. Sound(Opened(y, r, d)) /\ Sound(AtDefinition(Opened(y, r, d)))
    BY <1>1, <2>4, OpenedSound
  <2>6. StackOK(stack', top')
    BY <1>3, <1>9, <2>5, <2>7 DEF Push
  <2> QED
    BY <1>1, <1>5, <1>9, <2>3, <2>6 DEF Push
<1>10. CASE PushNothing \/ Complete \/ Pop \/ RePush
  <2>1. CASE PushNothing \/ Complete
    BY <1>1, <1>3, <1>5, <2>1 DEF PushNothing, Complete
  <2>2. CASE Pop \/ RePush
    <3>1. stack' = stack /\ top' \in 0..Len(stack)
      <4>1. top \in Nat /\ Len(stack) \in Nat /\ top <= Len(stack)
        BY <1>1 DEF StackOK
      <4>2. top' = top \/ (top # 0 /\ top' = top - 1) \/ (top # Len(stack) /\ top' = top + 1)
        BY <2>2 DEF Pop, RePush
      <4>3. stack' = stack
        BY <2>2 DEF Pop, RePush
      <4> QED
        BY <4>1, <4>2, <4>3
    <3> QED
      BY <1>1, <1>3, <1>5, <2>2, <3>1 DEF Pop, RePush
  <2> QED
    BY <1>10, <2>1, <2>2
<1>11. ASSUME NEW s, Sound(s), top # 0, TopChanges(s)
       PROVE  StackOK(stack', top')
  BY <1>3, <1>11 DEF TopChanges
<1>12. ASSUME NEW way \in Ways, Navigate(way)
       PROVE  /\ Table(text', edits', parsed', changed', old') /\ marked' \subseteq File
              /\ AskedOK(request') /\ StackOK(stack', top')
  <2>1. CASE top = 0
    BY <1>1, <1>5, <1>12, <2>1 DEF Navigate
  <2>2. CASE top # 0
    <3>1. /\ Sound(Goto(stack[top], request.file, marked, way).session)
          /\ Goto(stack[top], request.file, marked, way).marks \subseteq File
      BY <1>1, <1>4, <2>2, GotoSound
    <3> QED
      BY <1>1, <1>5, <1>11, <1>12, <2>2, <3>1 DEF Navigate
  <2> QED
    BY <2>1, <2>2
<1>13. ASSUME NEW S, Answer(S), top # 0 => \A s \in S : Sound(s)
       PROVE  /\ Table(text', edits', parsed', changed', old') /\ marked' \subseteq File
              /\ AskedOK(request') /\ StackOK(stack', top')
  <2>1. StackOK(stack', top')
    BY <1>1, <1>11, <1>13 DEF Answer
  <2> QED
    BY <1>1, <1>5, <1>13, <2>1 DEF Answer
<1>14. CASE GotoNth
  <2>1. top # 0 => \A s \in {Nth(stack[top], n) : n \in 1..(Cardinality(stack[top].list) + 1)} : Sound(s)
    BY <1>4, NthSound
  <2> QED
    BY <1>13, <1>14, <2>1 DEF GotoNth
<1>15. CASE Filter
  <2>1. top # 0 => \A s \in {Filtered(stack[top], l) : l \in Limits} : Sound(s)
    BY <1>4, FilteredSound
  <2> QED
    BY <1>13, <1>15, <2>1 DEF Filter
<1>16. CASE Menu
  <2> DEFINE s == stack[top]
             S == {Toggled(s, i) : i \in ItemsOf[s.symbol]}
                  \cup {OnlySelected(s, i) : i \in ItemsOf[s.symbol]}
                  \cup {MenuFiltered(s, l) : l \in MenuLevels}
                  \cup {AllSelected(s), NoneSelected(s), NothingSelected(s)}
  <2>1. ASSUME top # 0
        PROVE  \A t \in S : Sound(t)
    <3>1. Sound(s) /\ \A i \in ItemsOf[s.symbol] : i \in Item
      BY <1>4, <2>1 DEF Session, Item
    <3>2. 0 \in MenuLevels
      BY BrowsingAssumption
    <3>3. \A i \in ItemsOf[s.symbol] : Sound(Toggled(s, i)) /\ Sound(OnlySelected(s, i))
      BY <3>1, <3>2, MenuSound
    <3>4. ASSUME NEW l \in MenuLevels
          PROVE  Sound(MenuFiltered(s, l))
      BY <3>1, MenuFilteredSound
    <3>5. Sound(AllSelected(s)) /\ Sound(NoneSelected(s)) /\ Sound(NothingSelected(s))
      BY <3>1, WholeMenuSound
    <3> QED
      BY <3>3, <3>4, <3>5
  <2>2. Answer(S)
    BY <1>16 DEF Menu
  <2> QED
    BY <1>13, <2>1, <2>2
<1>17. ASSUME NEW y \in Symbols, GotoMatch(y)
       PROVE  /\ Table(text', edits', parsed', changed', old') /\ marked' \subseteq File
              /\ AskedOK(request') /\ StackOK(stack', top')
  <2>1. PICK i \in ItemsOf[y] : \E r \in RefsOf(i) :
          stack' = SubSeq(PushedOnAll(y, r), 1, Len(PushedOnAll(y, r)) - 1)
    BY <1>17 DEF GotoMatch
  <2>2. PICK r \in RefsOf(i) : stack' = SubSeq(PushedOnAll(y, r), 1, Len(PushedOnAll(y, r)) - 1)
    BY <2>1
  <2>3. i \in Item /\ r \in Ref /\ NoRef \in NoneOrOne
    BY <1>1, RefsType, TableRefType DEF Item, NoneOrOne
  <2>4. AtDefinition(Opened(y, r, NoRef)) \in Session /\ stack \in Seq(Session)
    BY <1>1, <2>3, OpenedSound DEF Sound, StackOK
  <2>5. stack' = stack
    BY <2>2, <2>4 DEF PushedOnAll
  <2> QED
    BY <1>1, <1>5, <1>17, <2>5 DEF GotoMatch
<1> QED
  BY <1>6, <1>7, <1>8, <1>9, <1>10, <1>12, <1>14, <1>15, <1>16, <1>17 DEF Next

\* The server starts, and stays, with a browsing stack of sessions, each with its
\* copies, its list and its place (SessionStackEntry of session.h).
THEOREM TypeCorrect == Spec => []TypeOK
<1>1. Init => Inv
  BY BrowsingAssumption DEF Init, Inv, TypeOK, CurrentIsListed, Text, File
<1>2. Inv /\ [Next]_vars => Inv'
  BY InvStep
<1>3. Inv => TypeOK
  BY DEF Inv
<1> QED
  BY <1>1, <1>2, <1>3, PTL DEF Spec

\* No session is ever left at a reference that is not in its list, whatever is
\* pushed, refreshed, filtered or selected (recomputeSelectedReferenceable()).
THEOREM PlaceIsKept == Spec => []CurrentIsListed
<1>1. Init => Inv
  BY BrowsingAssumption DEF Init, Inv, TypeOK, CurrentIsListed, Text, File
<1>2. Inv /\ [Next]_vars => Inv'
  BY InvStep
<1>3. Inv => CurrentIsListed
  BY DEF Inv
<1> QED
  BY <1>1, <1>2, <1>3, PTL DEF Spec

-----------------------------------------------------------------------------
(* How the stack changes: not at all, by a push over what was popped, or   *)
(* in the session at its top                                               *)

\* What the operations without a parse make of a session
Outcomes(s) ==
    {Goto(s, request.file, marked, way).session : way \in Ways}
    \cup {Nth(s, n) : n \in 1..(Cardinality(s.list) + 1)}
    \cup {Filtered(s, l) : l \in Limits}
    \cup {Toggled(s, i) : i \in ItemsOf[s.symbol]}
    \cup {OnlySelected(s, i) : i \in ItemsOf[s.symbol]}
    \cup {MenuFiltered(s, l) : l \in MenuLevels}
    \cup {AllSelected(s), NoneSelected(s), NothingSelected(s)}

\* What a push makes
Openings == {Opened(y, r, d) : y \in Symbols, r \in Ref, d \in NoneOrOne}
            \cup {AtDefinition(Opened(y, r, d)) : y \in Symbols, r \in Ref, d \in NoneOrOne}

Asking(parses) == request # NoRequest /\ request.parses = parses

LEMMA StackChanges ==
    ASSUME Inv, [Next]_vars
    PROVE  \/ stack' = stack
           \/ Asking(TRUE) /\ stack' = Unpopped
           \/ Asking(TRUE) /\ \E s \in Openings : stack' = Append(Unpopped, s)
           \/ /\ Asking(FALSE) /\ top # 0
              /\ \E s \in Outcomes(stack[top]) : stack' = [stack EXCEPT ![top] = s]
<1> DEFINE Result == \/ stack' = stack
                     \/ Asking(TRUE) /\ stack' = Unpopped
                     \/ Asking(TRUE) /\ \E s \in Openings : stack' = Append(Unpopped, s)
                     \/ /\ Asking(FALSE) /\ top # 0
                        /\ \E s \in Outcomes(stack[top]) : stack' = [stack EXCEPT ![top] = s]
<1>1. /\ TypeOK /\ stack \in Seq(Session)
      /\ \A parses : Answering(parses) => Asking(parses)
  BY DEF Inv, TypeOK, Answering, Asking
<1>2. CASE UNCHANGED vars
  BY <1>2 DEF vars
<1>3. ASSUME NEW f \in File, Edit(f)
      PROVE  Result
  BY <1>3 DEF Edit
<1>4. ASSUME NEW f \in Asked, NEW parses \in BOOLEAN, Ask(f, parses)
      PROVE  Result
  BY <1>4 DEF Ask
<1>5. ASSUME NEW y \in Symbols, Push(y)
      PROVE  Result
  <2>1. PICK i \in ItemsOf[y] : \E r \in Recorded(i, request.file) : Pushed(y, i, r)
    BY <1>5 DEF Push, Pushed
  <2>2. PICK r \in Recorded(i, request.file) : Pushed(y, i, r)
    BY <2>1
  <2>3. Answering(TRUE) /\ i \in Item
    BY <1>5 DEF Push, Item
  <2>4. request.file \in File
    BY <1>1, <2>3 DEF Answering, TypeOK, Request
  <2>5. r \in Ref
    BY <1>1, <2>3, <2>4, RecordedType, TableRefType
  <2>6. PICK d \in NoneOrOne :
           stack' = Append(Unpopped, Opened(y, r, d))
           \/ stack' = Append(Unpopped, AtDefinition(Opened(y, r, d)))
    BY <1>1, <2>2, <2>3, <2>5, PushedIsOpened
  <2>7. Opened(y, r, d) \in Openings /\ AtDefinition(Opened(y, r, d)) \in Openings
    BY <2>5 DEF Openings
  <2> QED
    BY <1>1, <2>3, <2>6, <2>7
<1>6. CASE PushNothing \/ Complete \/ Pop \/ RePush
  BY <1>1, <1>6 DEF PushNothing, Complete, Pop, RePush
<1>7. ASSUME NEW way \in Ways, Navigate(way)
      PROVE  Result
  <2>1. CASE top = 0
    BY <1>7, <2>1 DEF Navigate
  <2>2. CASE top # 0
    <3>1. Goto(stack[top], request.file, marked, way).session \in Outcomes(stack[top])
      BY DEF Outcomes
    <3> QED
      BY <1>1, <1>7, <2>2, <3>1 DEF Navigate, TopChanges
  <2> QED
    BY <2>1, <2>2
<1>8. ASSUME NEW S \in SUBSET Outcomes(stack[top]), Answer(S)
      PROVE  Result
  BY <1>1, <1>8 DEF Answer, TopChanges
<1>9. CASE GotoNth
  <2>1. {Nth(stack[top], n) : n \in 1..(Cardinality(stack[top].list) + 1)} \subseteq Outcomes(stack[top])
    BY DEF Outcomes
  <2> QED
    BY <1>8, <1>9, <2>1 DEF GotoNth
<1>10. CASE Filter
  <2>1. {Filtered(stack[top], l) : l \in Limits} \subseteq Outcomes(stack[top])
    BY DEF Outcomes
  <2> QED
    BY <1>8, <1>10, <2>1 DEF Filter
<1>11. CASE Menu
  <2> DEFINE s == stack[top]
             S == {Toggled(s, i) : i \in ItemsOf[s.symbol]}
                  \cup {OnlySelected(s, i) : i \in ItemsOf[s.symbol]}
                  \cup {MenuFiltered(s, l) : l \in MenuLevels}
                  \cup {AllSelected(s), NoneSelected(s), NothingSelected(s)}
  <2>1. Answer(S)
    BY <1>11 DEF Menu
  <2>2. S \subseteq Outcomes(s)
    BY DEF Outcomes
  <2> QED
    BY <1>8, <2>1, <2>2
<1>12. ASSUME NEW y \in Symbols, GotoMatch(y)
       PROVE  Result
  <2>1. PICK i \in ItemsOf[y] : \E r \in RefsOf(i) :
          stack' = SubSeq(PushedOnAll(y, r), 1, Len(PushedOnAll(y, r)) - 1)
    BY <1>12 DEF GotoMatch
  <2>2. PICK r \in RefsOf(i) : stack' = SubSeq(PushedOnAll(y, r), 1, Len(PushedOnAll(y, r)) - 1)
    BY <2>1
  <2>3. i \in Item /\ r \in Ref /\ NoRef \in NoneOrOne
    BY <1>1, RefsType, TableRefType DEF Item, NoneOrOne
  <2>4. AtDefinition(Opened(y, r, NoRef)) \in Session
    BY <1>1, <2>3, OpenedSound DEF Sound
  <2>5. stack' = stack
    BY <1>1, <2>2, <2>4 DEF PushedOnAll
  <2> QED
    BY <2>5
<1> QED
  BY <1>2, <1>3, <1>4, <1>5, <1>6, <1>7, <1>9, <1>10, <1>11, <1>12 DEF Next

\* A predicate of sessions that openings have and outcomes keep is one of all
LEMMA SessionWise ==
    ASSUME Inv, [Next]_vars, NEW Holds \in SUBSET Session,
           \A k \in 1..Len(stack) : stack[k] \in Holds,
           \A s \in Openings : s \in Holds,
           top # 0 => \A s \in Outcomes(stack[top]) : s \in Holds
    PROVE  \A k \in 1..Len(stack') : stack'[k] \in Holds
<1>1. stack \in Seq(Session) /\ top \in 0..Len(stack)
  BY DEF Inv, TypeOK
<1>2. /\ Unpopped \in Seq(Session) /\ Len(Unpopped) = top
      /\ \A k \in 1..top : Unpopped[k] = stack[k]
  BY <1>1 DEF Unpopped
<1>3. ASSUME NEW s \in Openings, stack' = Append(Unpopped, s)
      PROVE  \A k \in 1..Len(stack') : stack'[k] \in Holds
  <2>1. s \in Session
    OBVIOUS
  <2>2. Len(stack') = top + 1
    BY <1>1, <1>2, <1>3, <2>1
  <2>3. ASSUME NEW k \in 1..(top + 1)
        PROVE  stack'[k] \in Holds
    <3>1. CASE k = top + 1
      BY <1>1, <1>2, <1>3, <2>1, <3>1
    <3>2. CASE k # top + 1
      <4>1. k \in 1..top /\ stack'[k] = Unpopped[k] /\ k \in 1..Len(stack)
        BY <1>1, <1>2, <1>3, <2>1, <3>2
      <4> QED
        BY <1>2, <4>1
    <3> QED
      BY <3>1, <3>2
  <2> QED
    BY <2>2, <2>3
<1>4. ASSUME top # 0, NEW s \in Outcomes(stack[top]), stack' = [stack EXCEPT ![top] = s]
      PROVE  \A k \in 1..Len(stack') : stack'[k] \in Holds
  <2>1. Len(stack') = Len(stack) /\ \A k \in 1..Len(stack) : stack'[k] = IF k = top THEN s ELSE stack[k]
    BY <1>1, <1>4
  <2> QED
    BY <1>4, <2>1
<1>5. CASE stack' = Unpopped
  <2>1. \A k \in 1..top : k \in 1..Len(stack)
    BY <1>1
  <2> QED
    BY <1>2, <1>5, <2>1
<1>6. CASE stack' = stack
  BY <1>6
<1> QED
  BY <1>3, <1>4, <1>5, <1>6, StackChanges

-----------------------------------------------------------------------------
(* The list is what is selected *)

InStep == {s \in Session : s.selected # {} => s.list = Selected(s)}

\* Whatever was selected, or is in the copies, to make the list again is enough
LEMMA RecomputeInStep ==
    ASSUME NEW s \in Session
    PROVE  Recompute(s) \in InStep
<1>1. Recompute(s) \in Session
  BY RecomputeSound DEF Sound
<1>2. /\ Recompute(s).list = Selected(s) /\ Recompute(s).copy = s.copy
      /\ Recompute(s).selected = s.selected
  BY DEF Recompute, Session
<1> QED
  BY <1>1, <1>2 DEF InStep, Selected

\* and so is to leave the list, the copies and the selection as they are.
LEMMA PlacedInStep ==
    ASSUME NEW s \in InStep, NEW t \in Session,
           t.copy = s.copy, t.selected = s.selected, t.list = s.list
    PROVE  t \in InStep
BY DEF InStep, Selected

LEMMA UpdateInStep ==
    ASSUME TypeOK, NEW s \in Session, NEW f
    PROVE  Update(s, f) \in InStep
BY CopyingGives, RecomputeInStep

LEMMA NearestInStep ==
    ASSUME NEW s \in InStep, NEW saved
    PROVE  Nearest(s, saved) \in InStep
<1>1. s \in Session
  BY DEF InStep
<1>2. Nearest(s, saved) \in Session
  BY <1>1, NearestSound DEF Sound
<1>3. /\ Nearest(s, saved).copy = s.copy /\ Nearest(s, saved).selected = s.selected
      /\ Nearest(s, saved).list = s.list
  BY <1>1 DEF Nearest, Session
<1> QED
  BY <1>2, <1>3, PlacedInStep

LEMMA NextOrFirstInStep ==
    ASSUME NEW s \in InStep, NEW rest \in SUBSET s.list
    PROVE  NextOrFirst(s, rest) \in InStep
<1>1. s \in Session
  BY DEF InStep
<1>2. NextOrFirst(s, rest) \in Session
  BY <1>1, NextOrFirstSound DEF Sound
<1>3. /\ NextOrFirst(s, rest).copy = s.copy /\ NextOrFirst(s, rest).selected = s.selected
      /\ NextOrFirst(s, rest).list = s.list
  BY <1>1 DEF NextOrFirst, Session
<1> QED
  BY <1>2, <1>3, PlacedInStep

LEMMA MovedInStep ==
    ASSUME NEW s \in InStep, NEW way
    PROVE  Moved(s, way) \in InStep
<1>1. s \in Session /\ After(s) \subseteq s.list
  BY DEF InStep, After
<1>2. Advance(s) \in InStep
  BY <1>1, NextOrFirstInStep DEF Advance
<1>3. PreviousOrLast(s) \in Session
  BY <1>1, PreviousOrLastSound DEF Sound
<1>4. /\ PreviousOrLast(s).copy = s.copy /\ PreviousOrLast(s).selected = s.selected
      /\ PreviousOrLast(s).list = s.list
  BY <1>1 DEF PreviousOrLast, Session
<1> QED
  BY <1>2, <1>3, <1>4, PlacedInStep DEF Moved

LEMMA GotoInStep ==
    ASSUME TypeOK, NEW s0 \in InStep, NEW f, NEW marks, NEW way
    PROVE  Goto(s0, f, marks, way).session \in InStep
<1> DEFINE s == IF f \in marks THEN Nearest(Update(s0, f), s0.current) ELSE s0
           target == Target(s, way)
           again == Nearest(Update(s, target.file), s.current)
           moved == [session |-> Moved(again, way), marks |-> marks \ {f, target.file}]
           first == [s EXCEPT !.current = First(s, s.list)]
           stayed == [session |-> IF s.current = NoRef THEN first ELSE Moved(s, way),
                      marks |-> marks \ {f}]
<1>1. s0 \in Session
  BY DEF InStep
<1>2. s \in InStep /\ s \in Session
  BY <1>1, UpdateInStep, NearestInStep DEF InStep
<1>3. again \in InStep
  BY <1>2, UpdateInStep, NearestInStep
<1>4. Moved(again, way) \in InStep /\ Moved(s, way) \in InStep
  BY <1>2, <1>3, MovedInStep
<1>5. first \in InStep
  <2> HIDE DEF s
  <2>1. first \in Session
    BY <1>2, ToFirstSound DEF Sound
  <2>2. first.copy = s.copy /\ first.selected = s.selected /\ first.list = s.list
    BY <1>2 DEF Session
  <2> QED
    BY <1>2, <2>1, <2>2, PlacedInStep
<1>6. moved.session \in InStep /\ stayed.session \in InStep
  BY <1>4, <1>5
<1>7. Goto(s0, f, marks, way) \in {moved, stayed}
  BY DEF Goto
<1> QED
  BY <1>6, <1>7

LEMMA OpeningsInStep ==
    ASSUME TypeOK, NEW s \in Openings
    PROVE  s \in InStep
<1>1. PICK y \in Symbols, r \in Ref, d \in NoneOrOne :
         s = Opened(y, r, d) \/ s = AtDefinition(Opened(y, r, d))
  BY DEF Openings
<1> DEFINE t == Opened(y, r, d)
<1>2. t \in Session /\ AtDefinition(t) \in Session
  BY OpenedSound DEF Sound
<1>3. t.list = Selected(t)
  BY DEF Opened, Selected
<1>4. t \in InStep
  BY <1>2, <1>3 DEF InStep
<1>5. /\ AtDefinition(t).copy = t.copy /\ AtDefinition(t).selected = t.selected
      /\ AtDefinition(t).list = t.list
  <2> HIDE DEF t
  <2> QED
    BY <1>2 DEF AtDefinition, Session
<1> QED
  BY <1>1, <1>2, <1>4, <1>5, PlacedInStep

LEMMA MenuInStep ==
    ASSUME NEW s \in InStep, NEW i \in Item
    PROVE  Toggled(s, i) \in InStep /\ OnlySelected(s, i) \in InStep
<1> DEFINE t == Recompute([s EXCEPT !.selected = {i}])
           defined == Last(t, {r \in t.list : r.usage < Declared})
           declared == First(t, {r \in t.list : r.usage = Declared})
           definition == IF defined # NoRef THEN defined ELSE declared
           u == [t EXCEPT !.current = definition]
<1>1. /\ [s EXCEPT !.selected = IF i \in @ THEN @ \ {i} ELSE @ \cup {i}] \in Session
      /\ [s EXCEPT !.selected = {i}] \in Session
  BY DEF InStep, Session
<1>2. Toggled(s, i) \in InStep
  BY <1>1, RecomputeInStep DEF Toggled
<1>3. t \in InStep /\ t \in Session
  BY <1>1, RecomputeInStep DEF InStep
<1>4. u \in InStep
  <2> HIDE DEF t
  <2>1. defined \in t.list \cup {NoRef} /\ declared \in t.list \cup {NoRef}
    BY FirstIsOne, LastIsOne
  <2>2. u \in Session
    BY <1>3, <2>1, Placed DEF Sound
  <2>3. u.copy = t.copy /\ u.selected = t.selected /\ u.list = t.list
    BY <1>3 DEF Session
  <2> QED
    BY <1>3, <2>2, <2>3, PlacedInStep
<1>5. OnlySelected(s, i) \in {t, u}
  BY DEF OnlySelected
<1> QED
  BY <1>2, <1>3, <1>4, <1>5

LEMMA WholeMenuInStep ==
    ASSUME NEW s \in InStep, NEW l \in MenuLevels
    PROVE  {AllSelected(s), NoneSelected(s), NothingSelected(s), MenuFiltered(s, l)} \subseteq InStep
<1> DEFINE t == [s EXCEPT !.level = l, !.shown = ShownAt[s.symbol][l],
                          !.selected = ShownAt[s.symbol][l] \cap FittingOf[s.symbol]]
<1>1. s \in Session /\ s.symbol \in Symbols /\ Sound(Recompute(s))
  BY RecomputeSound DEF InStep, Session
<1>2. /\ [s EXCEPT !.selected = @ \cup s.shown] \in Session
      /\ [s EXCEPT !.selected = @ \ s.shown] \in Session
      /\ [s EXCEPT !.selected = {}] \in Session
  BY <1>1 DEF Session
<1>3. AllSelected(s) \in InStep /\ NoneSelected(s) \in InStep
  BY <1>2, RecomputeInStep DEF AllSelected, NoneSelected
<1>4. NothingSelected(s).selected = {}
  BY <1>1 DEF NothingSelected, Session
<1>5. NothingSelected(s) \in InStep
  BY <1>2, <1>4 DEF InStep, NothingSelected
<1>6. ShownAt[s.symbol][l] \subseteq Item
  BY <1>1, BrowsingAssumption
<1>7. t \in Session
  BY <1>1, <1>6 DEF Session
<1>8. MenuFiltered(s, l) \in InStep
  BY <1>7, RecomputeInStep DEF MenuFiltered
<1> QED
  BY <1>3, <1>5, <1>8

LEMMA OutcomesInStep ==
    ASSUME TypeOK, NEW s \in InStep, NEW t \in Outcomes(s)
    PROVE  t \in InStep
<1>1. s \in Session /\ \A i \in ItemsOf[s.symbol] : i \in Item
  BY DEF InStep, Session, Item
<1>2. ASSUME NEW way \in Ways
      PROVE  Goto(s, request.file, marked, way).session \in InStep
  BY GotoInStep
<1>3. ASSUME NEW n
      PROVE  Nth(s, n) \in InStep
  <2>1. Nth(s, n) \in Session
    BY <1>1, NthSound DEF Sound
  <2>2. Nth(s, n).copy = s.copy /\ Nth(s, n).selected = s.selected /\ Nth(s, n).list = s.list
    BY <1>1 DEF Nth, Session
  <2> QED
    BY <2>1, <2>2, PlacedInStep
<1>4. ASSUME NEW l \in Limits
      PROVE  Filtered(s, l) \in InStep
  <2> DEFINE u == [s EXCEPT !.limit = l]
             rest == {r \in u.list : r = u.current} \cup After(u)
  <2>1. u \in Session /\ u.copy = s.copy /\ u.selected = s.selected /\ u.list = s.list
    BY <1>1 DEF Session
  <2>2. u \in InStep
    BY <2>1, PlacedInStep
  <2>3. rest \subseteq u.list
    BY DEF After
  <2> QED
    BY <2>2, <2>3, NextOrFirstInStep DEF Filtered
<1>5. ASSUME NEW i \in ItemsOf[s.symbol]
      PROVE  Toggled(s, i) \in InStep /\ OnlySelected(s, i) \in InStep
  BY <1>1, MenuInStep
<1>6. ASSUME NEW l \in MenuLevels
      PROVE  {AllSelected(s), NoneSelected(s), NothingSelected(s), MenuFiltered(s, l)} \subseteq InStep
  BY WholeMenuInStep
<1>7. 0 \in MenuLevels
  BY BrowsingAssumption
<1> QED
  BY <1>2, <1>3, <1>4, <1>5, <1>6, <1>7 DEF Outcomes

\* In every session with anything selected, the list that is walked is the one the
\* menu shows, whatever refreshes and selections came (recomputeSelectedReferenceable()
\* after each change of the copies or of the selection).
THEOREM ListFollowsMenu == Spec => []ListIsSelected
<1>1. Init => Inv /\ ListIsSelected
  BY BrowsingAssumption DEF Init, Inv, TypeOK, CurrentIsListed, Text, File, ListIsSelected
<1>2. Inv /\ ListIsSelected /\ [Next]_vars => ListIsSelected'
  <2> SUFFICES ASSUME Inv, ListIsSelected, [Next]_vars
               PROVE  ListIsSelected'
    OBVIOUS
  <2>1. TypeOK /\ stack \in Seq(Session) /\ top \in 0..Len(stack)
    BY DEF Inv, TypeOK
  <2>2. \A k \in 1..Len(stack) : stack[k] \in InStep
    BY <2>1 DEF ListIsSelected, InStep
  <2>3. \A s \in Openings : s \in InStep
    BY <2>1, OpeningsInStep
  <2>4. top # 0 => \A s \in Outcomes(stack[top]) : s \in InStep
    BY <2>1, <2>2, OutcomesInStep
  <2>5. InStep \subseteq Session
    BY DEF InStep
  <2>6. \A k \in 1..Len(stack') : stack'[k] \in InStep
    BY <2>2, <2>3, <2>4, <2>5, SessionWise
  <2> QED
    BY <2>6 DEF ListIsSelected, InStep, Selected
<1>3. Inv /\ [Next]_vars => Inv'
  BY InvStep
<1> QED
  BY <1>1, <1>2, <1>3, PTL DEF Spec

-----------------------------------------------------------------------------
(* What a session was pushed for, and its copies                           *)

SamePush(s, t) == t.symbol = s.symbol /\ t.caller = s.caller

LEMMA RecomputeKeeps ==
    ASSUME NEW s \in Session
    PROVE  SamePush(s, Recompute(s)) /\ Recompute(s).copy = s.copy
BY DEF Recompute, Session, SamePush

LEMMA UpdateKeeps ==
    ASSUME TypeOK, NEW s \in Session, NEW f
    PROVE  /\ SamePush(s, Update(s, f))
           /\ \A i \in ItemsOf[s.symbol] : Update(s, f).copy[i] = NewCopy(s, i, f)
<1> DEFINE t == Copying(s, f)
<1>1. \A i \in ItemsOf[s.symbol] : i \in Item
  BY DEF Session, Item
<1>2. /\ Update(s, f) = Recompute(t) /\ t \in Session /\ t.copy = Copies(s, f)
      /\ t.symbol = s.symbol /\ t.caller = s.caller
  BY CopyingGives
<1> HIDE DEF t
<1>3. SamePush(t, Recompute(t)) /\ Recompute(t).copy = t.copy
  BY <1>2, RecomputeKeeps
<1>4. \A i \in ItemsOf[s.symbol] : Copies(s, f)[i] = NewCopy(s, i, f)
  BY <1>1 DEF Copies
<1> QED
  BY <1>2, <1>3, <1>4 DEF SamePush

LEMMA NearestKeeps ==
    ASSUME NEW s \in Session, NEW saved
    PROVE  SamePush(s, Nearest(s, saved)) /\ Nearest(s, saved).copy = s.copy
BY DEF Nearest, Session, SamePush

LEMMA MovedKeeps ==
    ASSUME NEW s \in Session, NEW way
    PROVE  SamePush(s, Moved(s, way)) /\ Moved(s, way).copy = s.copy
BY DEF Moved, Advance, NextOrFirst, PreviousOrLast, Session, SamePush

\* A refresh of a file, and the place found again
LEMMA RefreshedKeeps ==
    ASSUME TypeOK, NEW s \in Session, NEW f, NEW saved
    PROVE  /\ Nearest(Update(s, f), saved) \in Session
           /\ SamePush(s, Nearest(Update(s, f), saved))
           /\ \A i \in ItemsOf[s.symbol] :
                 Nearest(Update(s, f), saved).copy[i] = NewCopy(s, i, f)
<1>1. Update(s, f) \in Session
  BY UpdateSound DEF Sound
<1>2. Nearest(Update(s, f), saved) \in Session
  BY <1>1, NearestSound DEF Sound
<1>3. SamePush(Update(s, f), Nearest(Update(s, f), saved))
      /\ Nearest(Update(s, f), saved).copy = Update(s, f).copy
  BY <1>1, NearestKeeps
<1> QED
  BY <1>2, <1>3, UpdateKeeps DEF SamePush

\* What a copy has of a file is what the table has, but for the best fit.
AsTable(g, R, i) == AsRecorded(Of(g, R)) = Of(g, Merged(i))

LEMMA RecordedAgain ==
    ASSUME NEW d, NEW N, NEW r \in TableRef
    PROVE  LET c == AsCopied(d, N, r)
           IN  (IF c.usage = BestFit THEN [c EXCEPT !.usage = Defined] ELSE c) = r
<1>1. r.usage # BestFit /\ r \in Ref
  BY DEF TableRef
<1>2. CASE ~FitsBest(d, N, r)
  BY <1>1, <1>2 DEF AsCopied
<1>3. CASE FitsBest(d, N, r)
  <2>1. r.usage = Defined
    BY <1>3 DEF FitsBest
  <2>2. AsCopied(d, N, r) = [file |-> r.file, line |-> r.line, usage |-> BestFit]
    BY <1>1, <1>3 DEF AsCopied, Ref
  <2>3. r = [file |-> r.file, line |-> r.line, usage |-> Defined]
    BY <1>1, <2>1 DEF Ref
  <2> QED
    BY <2>2, <2>3
<1> QED
  BY <1>2, <1>3

\* It leaves nothing of the file but what the table has, and what is already so
\* of another file stays so.
LEMMA RefreshedIsMerged ==
    ASSUME TypeOK, NEW s \in Session, NEW f, NEW g, NEW i \in Item
    PROVE  /\ AsTable(f, NewCopy(s, i, f), i)
           /\ AsTable(g, s.copy[i], i) => AsTable(g, NewCopy(s, i, f), i)
<1> DEFINE N == NewIn(s, i, f)
           M == Merged(i)
           C(r) == AsCopied(s.default[i], N, r)
           Again(r) == IF r.usage = BestFit THEN [r EXCEPT !.usage = Defined] ELSE r
           new == NewCopy(s, i, f)
<1>1. N \subseteq M /\ M \subseteq TableRef /\ \A r \in M : r \in Ref
  BY RefsType, TableRefType DEF NewIn, New
<1>2. \A r \in M : r.file = f => r \in N
  BY DEF NewIn, New, Kept, SamePlace
<1>3. \A r : r \in new <=> (r \in s.copy[i] /\ r.file # f) \/ \E q \in N : r = C(q)
  BY CopiedHas DEF NewCopy, Kept
<1>4. \A q \in N : C(q).file = q.file
  BY <1>1, AsCopiedType
<1>5. \A q \in N : Again(C(q)) = q
  BY <1>1, RecordedAgain
<1> HIDE DEF N, M, C, Again, new
<1>6. \A h, R, x : x \in AsRecorded(Of(h, R)) <=> \E r \in R : r.file = h /\ x = Again(r)
  BY DEF AsRecorded, Of, Again
<1>7. \A h, x : x \in Of(h, M) <=> x \in M /\ x.file = h
  BY DEF Of
<1>8. AsRecorded(Of(f, new)) = Of(f, M)
  <2>1. ASSUME NEW x \in AsRecorded(Of(f, new))
        PROVE  x \in Of(f, M)
    <3>1. PICK r \in new : r.file = f /\ x = Again(r)
      BY <1>6
    <3>2. PICK q \in N : r = C(q)
      BY <1>3, <3>1
    <3> QED
      BY <1>1, <1>4, <1>5, <1>7, <3>1, <3>2
  <2>2. ASSUME NEW x \in Of(f, M)
        PROVE  x \in AsRecorded(Of(f, new))
    <3>1. x \in N /\ x.file = f
      BY <1>2, <1>7
    <3>2. C(x) \in new /\ C(x).file = f /\ x = Again(C(x))
      BY <1>3, <1>4, <1>5, <3>1
    <3> QED
      BY <1>6, <3>2
  <2> QED
    BY <2>1, <2>2
<1>9. ASSUME AsRecorded(Of(g, s.copy[i])) = Of(g, M), g # f
      PROVE  AsRecorded(Of(g, new)) = Of(g, M)
  <2>1. ASSUME NEW x \in AsRecorded(Of(g, new))
        PROVE  x \in Of(g, M)
    <3>1. PICK r \in new : r.file = g /\ x = Again(r)
      BY <1>6
    <3>2. CASE r \in s.copy[i]
      <4>1. x \in AsRecorded(Of(g, s.copy[i]))
        BY <1>6, <3>1, <3>2
      <4> QED
        BY <1>9, <4>1
    <3>3. ASSUME NEW q \in N, r = C(q)
          PROVE  x \in Of(g, M)
      BY <1>1, <1>4, <1>5, <1>7, <3>1, <3>3
    <3> QED
      BY <1>3, <3>1, <3>2, <3>3
  <2>2. ASSUME NEW x \in Of(g, M)
        PROVE  x \in AsRecorded(Of(g, new))
    <3>1. x \in AsRecorded(Of(g, s.copy[i]))
      BY <1>9
    <3>2. PICK r \in s.copy[i] : r.file = g /\ x = Again(r)
      BY <1>6, <3>1
    <3>3. r \in new
      BY <1>3, <1>9, <3>2
    <3> QED
      BY <1>6, <3>2, <3>3
  <2> QED
    BY <2>1, <2>2
<1> QED
  BY <1>8, <1>9 DEF AsTable, new, M

LEMMA GotoKeeps ==
    ASSUME TypeOK, NEW s0 \in Session, NEW f, NEW marks, NEW way
    PROVE  /\ SamePush(s0, Goto(s0, f, marks, way).session)
           /\ Goto(s0, f, marks, way).marks \subseteq marks
           /\ \A g \in marks \ Goto(s0, f, marks, way).marks, i \in ItemsOf[s0.symbol] :
                 AsTable(g, Goto(s0, f, marks, way).session.copy[i], i)
<1> DEFINE s == IF f \in marks THEN Nearest(Update(s0, f), s0.current) ELSE s0
           target == Target(s, way)
           again == Nearest(Update(s, target.file), s.current)
           moved == [session |-> Moved(again, way), marks |-> marks \ {f, target.file}]
           first == [s EXCEPT !.current = First(s, s.list)]
           stayed == [session |-> IF s.current = NoRef THEN first ELSE Moved(s, way),
                      marks |-> marks \ {f}]
           Right(t, m) == \A g \in marks \ m, i \in ItemsOf[s0.symbol] :
                             AsTable(g, t.copy[i], i)
<1>1. s \in Session /\ SamePush(s0, s)
  BY RefreshedKeeps DEF SamePush
<1>2. f \in marks => \A i \in ItemsOf[s0.symbol] : AsTable(f, s.copy[i], i)
  <2>1. ASSUME f \in marks, NEW i \in ItemsOf[s0.symbol]
        PROVE  AsTable(f, s.copy[i], i)
    <3>1. s = Nearest(Update(s0, f), s0.current)
      BY <2>1
    <3>2. s.copy[i] = NewCopy(s0, i, f)
      BY <3>1, RefreshedKeeps
    <3>3. i \in Item
      BY DEF Session, Item
    <3> QED
      BY <3>2, <3>3, RefreshedIsMerged
  <2> QED
    BY <2>1
<1> HIDE DEF s
<1>3. /\ again \in Session /\ SamePush(s, again)
      /\ \A i \in ItemsOf[s.symbol] : again.copy[i] = NewCopy(s, i, target.file)
  BY <1>1, RefreshedKeeps
<1>4. ItemsOf[s.symbol] = ItemsOf[s0.symbol]
  BY <1>1 DEF SamePush
<1> HIDE DEF target, again
<1>5. SamePush(s0, moved.session) /\ Right(moved.session, moved.marks)
  <2>1. SamePush(again, Moved(again, way)) /\ Moved(again, way).copy = again.copy
    BY <1>3, MovedKeeps
  <2>2. ASSUME NEW g \in {f, target.file} \cap marks, NEW i \in ItemsOf[s0.symbol]
        PROVE  AsTable(g, again.copy[i], i)
    <3>1. again.copy[i] = NewCopy(s, i, target.file) /\ i \in Item
      BY <1>3, <1>4 DEF Session, Item
    <3>2. g = target.file \/ AsTable(g, s.copy[i], i)
      BY <1>2, <2>2
    <3> QED
      BY <1>1, <3>1, <3>2, RefreshedIsMerged
  <2> QED
    BY <1>1, <1>3, <2>1, <2>2 DEF SamePush
<1>6. SamePush(s0, stayed.session) /\ Right(stayed.session, stayed.marks)
  <2>1. SamePush(s, Moved(s, way)) /\ Moved(s, way).copy = s.copy
    BY <1>1, MovedKeeps
  <2>2. SamePush(s, first) /\ first.copy = s.copy
    BY <1>1 DEF SamePush, Session
  <2> HIDE DEF first
  <2>3. SamePush(s, stayed.session) /\ stayed.session.copy = s.copy
    BY <2>1, <2>2
  <2>4. marks \ stayed.marks = {f} \cap marks
    OBVIOUS
  <2> QED
    BY <1>1, <1>2, <2>3, <2>4 DEF SamePush
<1>7. moved.marks \subseteq marks /\ stayed.marks \subseteq marks
  OBVIOUS
<1>8. Goto(s0, f, marks, way) \in {moved, stayed}
  BY DEF Goto, s, target, again
<1> HIDE DEF moved, stayed
<1> QED
  BY <1>5, <1>6, <1>7, <1>8

LEMMA OutcomesKeep ==
    ASSUME TypeOK, NEW s \in Session, NEW t \in Outcomes(s)
    PROVE  SamePush(s, t)
<1>1. \A way : SamePush(s, Goto(s, request.file, marked, way).session)
  BY GotoKeeps
<1>2. \A n : SamePush(s, Nth(s, n))
  BY DEF Nth, Session, SamePush
<1>3. \A l : SamePush(s, Filtered(s, l))
  BY DEF Filtered, NextOrFirst, Session, SamePush
<1>4. \A i : SamePush(s, Toggled(s, i))
  BY DEF Toggled, Recompute, Session, SamePush
<1>5. \A i : SamePush(s, OnlySelected(s, i))
  BY DEF OnlySelected, Recompute, Session, SamePush
<1>6. \A l : SamePush(s, MenuFiltered(s, l))
  BY DEF MenuFiltered, Recompute, Session, SamePush
<1>7. SamePush(s, AllSelected(s)) /\ SamePush(s, NoneSelected(s)) /\ SamePush(s, NothingSelected(s))
  BY DEF AllSelected, NoneSelected, NothingSelected, Recompute, Session, SamePush
<1> QED
  BY <1>1, <1>2, <1>3, <1>4, <1>5, <1>6, <1>7 DEF Outcomes

\* No operation but a push loses a session from the stack, a push loses only what
\* was popped, and nothing makes of a session one of another push
\* (pushEmptySession() frees from the top on, findAndGotoDefinition() puts back).
THEOREM StackSurvives == Spec => SessionsSurvive
<1>1. Init => Inv
  BY BrowsingAssumption DEF Init, Inv, TypeOK, CurrentIsListed, Text, File
<1>2. Inv /\ [Next]_vars => Inv'
  BY InvStep
<1> DEFINE n == IF request # NoRequest /\ request.parses THEN top ELSE Len(stack)
           Survive == Len(stack') >= n /\ \A k \in 1..n : PushOf(stack'[k]) = PushOf(stack[k])
<1>3. ASSUME Inv, [Next]_vars
      PROVE  Survive
  <2>1. TypeOK /\ stack \in Seq(Session) /\ top \in 0..Len(stack) /\ n \in 0..Len(stack)
    BY <1>3 DEF Inv, TypeOK
  <2>2. /\ Unpopped \in Seq(Session) /\ Len(Unpopped) = top
        /\ \A k \in 1..top : Unpopped[k] = stack[k]
    BY <2>1 DEF Unpopped
  <2>3. CASE stack' = stack
    BY <2>1, <2>3
  <2>4. CASE Asking(TRUE) /\ stack' = Unpopped
    <3>1. n = top
      BY <2>4 DEF Asking
    <3> HIDE DEF n
    <3> QED
      BY <2>1, <2>2, <2>4, <3>1
  <2>5. ASSUME Asking(TRUE), NEW s \in Openings, stack' = Append(Unpopped, s)
        PROVE  Survive
    <3>1. n = top
      BY <2>5 DEF Asking
    <3>2. s \in Session
      BY <2>1, <2>5, OpeningsInStep DEF InStep
    <3>3. Len(stack') = top + 1 /\ \A k \in 1..top : stack'[k] = Unpopped[k]
      BY <2>1, <2>2, <2>5, <3>2
    <3> HIDE DEF n
    <3> QED
      BY <2>1, <2>2, <3>1, <3>3
  <2>6. ASSUME Asking(FALSE), top # 0, NEW s \in Outcomes(stack[top]),
               stack' = [stack EXCEPT ![top] = s]
        PROVE  Survive
    <3>1. PushOf(s) = PushOf(stack[top])
      BY <2>1, <2>6, OutcomesKeep DEF SamePush, PushOf
    <3>2. Len(stack') = Len(stack)
          /\ \A k \in 1..Len(stack) : stack'[k] = IF k = top THEN s ELSE stack[k]
      BY <2>1, <2>6
    <3> HIDE DEF n
    <3> QED
      BY <2>1, <3>1, <3>2
  <2> QED
    BY <1>3, <2>3, <2>4, <2>5, <2>6, StackChanges
<1> QED
  BY <1>1, <1>2, <1>3, PTL DEF Spec, SessionsSurvive

\* Whenever NEXT or PREVIOUS takes the mark off a file, the copies of the session it
\* moved in have of that file what the table has: the request's file and the
\* target's are both refreshed, and the second refresh undoes nothing of the first
\* (updateSessionReferencesForFile()).
THEOREM UnmarkedIsFresh == Spec => UnmarkedIsRefreshed
<1>1. Init => Inv
  BY BrowsingAssumption DEF Init, Inv, TypeOK, CurrentIsListed, Text, File
<1>2. Inv /\ [Next]_vars => Inv'
  BY InvStep
<1> DEFINE Fresh == \A f \in marked \ (marked') : \A i \in ItemsOf[stack[top].symbol] :
                       AsTable(f, stack'[top].copy[i], i)
<1>3. ASSUME Inv, [Next]_vars
      PROVE  Fresh
  <2>1. TypeOK /\ stack \in Seq(Session) /\ top \in 0..Len(stack)
    BY <1>3 DEF Inv, TypeOK
  <2>2. ASSUME NEW way \in Ways, Navigate(way), top # 0
        PROVE  Fresh
    <3> DEFINE went == Goto(stack[top], request.file, marked, way)
    <3>1. stack[top] \in Session
      BY <2>1, <2>2
    <3>2. \A g \in marked \ went.marks, i \in ItemsOf[stack[top].symbol] :
             AsTable(g, went.session.copy[i], i)
      BY <2>1, <3>1, GotoKeeps
    <3> HIDE DEF went
    <3>3. stack' = [stack EXCEPT ![top] = went.session] /\ marked' = went.marks
      BY <2>2 DEF Navigate, TopChanges, went
    <3>4. stack'[top] = went.session
      BY <2>1, <2>2, <3>3
    <3> QED
      BY <3>2, <3>3, <3>4
  <2>3. marked \subseteq marked' \/ \E way \in Ways : Navigate(way) /\ top # 0
    <3>1. CASE UNCHANGED vars
      BY <3>1 DEF vars
    <3>2. CASE \E f \in Asked, parses \in BOOLEAN : Ask(f, parses)
      BY <3>2 DEF Ask
    <3>3. CASE \E way \in Ways : Navigate(way)
      BY <3>3 DEF Navigate
    <3>4. CASE \E y \in Symbols : Push(y) \/ GotoMatch(y)
      BY <3>4 DEF Push, GotoMatch
    <3>5. CASE GotoNth \/ Filter \/ Menu
      BY <3>5 DEF GotoNth, Filter, Menu, Answer
    <3>6. CASE PushNothing \/ Complete \/ Pop \/ RePush
      BY <3>6 DEF PushNothing, Complete, Pop, RePush
    <3>7. CASE \E f \in File : Edit(f)
      BY <3>7 DEF Edit
    <3> QED
      BY <1>3, <3>1, <3>2, <3>3, <3>4, <3>5, <3>6, <3>7 DEF Next
  <2> QED
    BY <2>2, <2>3
<1> QED
  BY <1>1, <1>2, <1>3, PTL DEF Spec, UnmarkedIsRefreshed, AsTable

-----------------------------------------------------------------------------
(* What NEXT and PREVIOUS go by                                            *)

\* What NEXT and PREVIOUS look at
SameView(s, t) ==
    t.list = s.list /\ t.current = s.current /\ t.sorted = s.sorted /\ t.limit = s.limit

LEMMA SameFirst ==
    ASSUME NEW s, NEW t, t.sorted = s.sorted, NEW R
    PROVE  First(t, R) = First(s, R) /\ Last(t, R) = Last(s, R)
<1> DEFINE Firsts(u) == {r \in R : \A q \in R \ {r} : InOrder(u, r, q)}
           Lasts(u) == {r \in R : \A q \in R \ {r} : InOrder(u, q, r)}
           One(Q) == IF Q = {} THEN NoRef ELSE CHOOSE r \in Q : TRUE
<1>1. \A a, b : InOrder(s, a, b) <=> InOrder(t, a, b)
  BY DEF InOrder
<1>2. Firsts(t) = Firsts(s) /\ Lasts(t) = Lasts(s)
  BY <1>1
<1>3. First(s, R) = One(Firsts(s)) /\ First(t, R) = One(Firsts(t))
  BY DEF First
<1>4. Last(s, R) = One(Lasts(s)) /\ Last(t, R) = One(Lasts(t))
  BY DEF Last
<1> HIDE DEF Firsts, Lasts, One
<1> QED
  BY <1>2, <1>3, <1>4

\* NEXT and PREVIOUS go by nothing else
LEMMA SameMove ==
    ASSUME NEW s \in Session, NEW t \in Session, SameView(s, t), NEW way \in Ways
    PROVE  /\ Target(t, way) = Target(s, way)
           /\ Moved(t, way).current = Moved(s, way).current
<1>1. \A R : First(t, R) = First(s, R) /\ Last(t, R) = Last(s, R)
  BY SameFirst DEF SameView
<1>2. \A R : Unfiltered(t, R) = Unfiltered(s, R)
  BY DEF Unfiltered, SameView
<1>3. \A a, b : InOrder(s, a, b) <=> InOrder(t, a, b)
  BY DEF InOrder, SameView
<1>4. After(t) = After(s) /\ Before(t) = Before(s)
  BY <1>3 DEF After, Before, SameView
<1>5. Previous(t) = Previous(s)
  BY <1>1, <1>2, <1>4 DEF Previous
<1>6. Following(t) = Following(s)
  BY <1>1, <1>4 DEF Following, SameView
<1>7. Advance(t).current = Advance(s).current
  <2>1. \A u \in Session : \A rest :
           NextOrFirst(u, rest).current
           = First(u, IF Unfiltered(u, rest) = {} THEN Unfiltered(u, u.list)
                      ELSE Unfiltered(u, rest))
    BY DEF NextOrFirst, Session
  <2>2. Advance(t).current
        = First(t, IF Unfiltered(t, After(t)) = {} THEN Unfiltered(t, t.list)
                   ELSE Unfiltered(t, After(t)))
    BY <2>1 DEF Advance
  <2>3. Advance(s).current
        = First(s, IF Unfiltered(s, After(s)) = {} THEN Unfiltered(s, s.list)
                   ELSE Unfiltered(s, After(s)))
    BY <2>1 DEF Advance
  <2> QED
    BY <1>1, <1>2, <1>4, <2>2, <2>3 DEF SameView
<1>8. PreviousOrLast(t).current = PreviousOrLast(s).current
  <2>1. \A u \in Session :
           PreviousOrLast(u).current
           = IF Previous(u) = NoRef THEN Last(u, Unfiltered(u, u.list)) ELSE Previous(u)
    BY DEF PreviousOrLast, Session
  <2> QED
    BY <1>1, <1>2, <1>5, <2>1 DEF SameView
<1> QED
  BY <1>5, <1>6, <1>7, <1>8 DEF Target, Moved, Ways

\* The table has one reference of a place, for all items that one list may be of.
LEMMA OneReference ==
    ASSUME TypeOK, NEW i \in Item, NEW j \in Item, InOneList(i, j),
           NEW q \in RefsOf(i), NEW r \in RefsOf(j), SamePlace(q, r)
    PROVE  r = q
<1>1. PICK f \in File : q \in Recorded(i, f)
  BY DEF RefsOf
<1>2. PICK g \in File : r \in Recorded(j, g)
  BY DEF RefsOf
<1>3. parsed[f] # NoText
      /\ \E p \in Found(i, f, parsed[f]) : q = [file |-> f, line |-> p.line, usage |-> p.usage]
  BY <1>1 DEF Recorded
<1>4. parsed[g] # NoText
      /\ \E p \in Found(j, g, parsed[g]) : r = [file |-> g, line |-> p.line, usage |-> p.usage]
  BY <1>2 DEF Recorded
<1>5. PICK p \in Found(i, f, parsed[f]) : q = [file |-> f, line |-> p.line, usage |-> p.usage]
  BY <1>3
<1>6. PICK o \in Found(j, g, parsed[g]) : r = [file |-> g, line |-> o.line, usage |-> o.usage]
  BY <1>4
<1>7. g = f /\ o.line = p.line
  BY <1>5, <1>6 DEF SamePlace
<1>8. parsed[f] \in Text
  BY <1>3 DEF TypeOK
<1>9. p = o
  BY <1>5, <1>6, <1>7, <1>8, PlaceAssumption
<1> QED
  BY <1>5, <1>6, <1>7, <1>9

LEMMA UpdateGives ==
    ASSUME TypeOK, NEW s \in Session, NEW f
    PROVE  /\ Update(s, f) \in Session
           /\ Update(s, f).sorted = "importance" /\ Update(s, f).limit = s.limit
           /\ Update(s, f).selected = s.selected /\ Update(s, f).symbol = s.symbol
           /\ Update(s, f).list = Selected(Update(s, f))
           /\ Update(s, f).default = Defaults(s, f)
           /\ \A i \in Item : Update(s, f).copy[i] =
                 IF i \in ItemsOf[s.symbol] THEN NewCopy(s, i, f) ELSE {}
<1> DEFINE t == Copying(s, f)
<1>1. /\ Update(s, f) = Recompute(t) /\ t \in Session
      /\ t.copy = Copies(s, f) /\ t.default = Defaults(s, f) /\ t.symbol = s.symbol
      /\ t.selected = s.selected /\ t.limit = s.limit
  BY CopyingGives
<1> HIDE DEF t
<1>2. /\ Recompute(t).sorted = "importance" /\ Recompute(t).limit = t.limit
      /\ Recompute(t).selected = t.selected /\ Recompute(t).symbol = t.symbol
      /\ Recompute(t).list = Selected(t) /\ Recompute(t).copy = t.copy
      /\ Recompute(t).default = t.default
  BY <1>1 DEF Recompute, Session
<1>3. Selected(Recompute(t)) = Selected(t)
  BY <1>2 DEF Selected
<1>4. Recompute(t) \in Session
  BY <1>1, RecomputeSound DEF Sound
<1>5. \A i \in Item : Copies(s, f)[i] = IF i \in ItemsOf[s.symbol] THEN NewCopy(s, i, f) ELSE {}
  BY DEF Copies
<1> QED
  BY <1>1, <1>2, <1>3, <1>4, <1>5

-----------------------------------------------------------------------------
(* One reference of a place, and finitely many                             *)

Tidy(R) == IsFiniteSet(R) /\ \A q, r \in R : SamePlace(q, r) => r = q

LEMMA ImageFinite ==
    ASSUME NEW S, IsFiniteSet(S), NEW f, f = [x \in S |-> f[x]]
    PROVE  IsFiniteSet({f[x] : x \in S})
<1> DEFINE T == {f[x] : x \in S}
<1>1. f \in [S -> T]
  OBVIOUS
<1>2. \A y \in T : \E x \in S : f[x] = y
  OBVIOUS
<1>3. f \in Surjection(S, T)
  BY <1>1, <1>2 DEF Surjection
<1> QED
  BY <1>3, FS_Surjection

LEMMA UnionFinite ==
    ASSUME NEW S, IsFiniteSet(S), NEW f, f = [x \in S |-> f[x]], \A x \in S : IsFiniteSet(f[x])
    PROVE  IsFiniteSet(UNION {f[x] : x \in S})
<1>1. IsFiniteSet({f[x] : x \in S})
  BY ImageFinite
<1>2. \A T \in {f[x] : x \in S} : IsFiniteSet(T)
  OBVIOUS
<1> QED
  BY <1>1, <1>2, FS_UNION

LEMMA RefsFinite ==
    ASSUME TypeOK, NEW i \in Item
    PROVE  IsFiniteSet(RefsOf(i))
<1>1. ASSUME NEW f \in File
      PROVE  IsFiniteSet(Recorded(i, f))
  <2>1. CASE parsed[f] = NoText
    BY <2>1, FS_EmptySet DEF Recorded
  <2>2. CASE parsed[f] # NoText
    <3> DEFINE S == Found(i, f, parsed[f])
               ref == [p \in S |-> [file |-> f, line |-> p.line, usage |-> p.usage]]
    <3>1. parsed[f] \in Text
      BY <2>2 DEF TypeOK
    <3>2. IsFiniteSet(S)
      BY <3>1, FiniteAssumption
    <3>3. Recorded(i, f) = {[file |-> f, line |-> p.line, usage |-> p.usage] : p \in S}
      BY <2>2 DEF Recorded
    <3>4. {ref[p] : p \in S} = {[file |-> f, line |-> p.line, usage |-> p.usage] : p \in S}
      OBVIOUS
    <3>5. ref = [p \in S |-> ref[p]]
      OBVIOUS
    <3> HIDE DEF ref, S
    <3>6. IsFiniteSet({ref[p] : p \in S})
      BY <3>2, <3>5, ImageFinite
    <3> QED
      BY <3>3, <3>4, <3>6
  <2> QED
    BY <2>1, <2>2
<1> DEFINE recorded == [f \in File |-> Recorded(i, f)]
<1>2. recorded = [f \in File |-> recorded[f]] /\ \A f \in File : IsFiniteSet(recorded[f])
  BY <1>1
<1>3. RefsOf(i) = UNION {recorded[f] : f \in File}
  BY DEF RefsOf
<1> HIDE DEF recorded
<1>4. IsFiniteSet(UNION {recorded[f] : f \in File})
  BY <1>2, FiniteAssumption, UnionFinite
<1> QED
  BY <1>3, <1>4

LEMMA MergedTidy ==
    ASSUME TypeOK, NEW i \in Item
    PROVE  Tidy(Merged(i)) /\ Tidy(RefsOf(i))
<1> DEFINE J == {j \in Item : LinkName[j] = LinkName[i]}
           refs == [j \in J |-> RefsOf(j)]
<1>1. IsFiniteSet(J)
  BY FiniteAssumption, FS_Subset
<1>2. refs = [j \in J |-> refs[j]] /\ \A j \in J : IsFiniteSet(refs[j])
  BY RefsFinite
<1>3. Merged(i) = UNION {refs[j] : j \in J}
  BY DEF Merged
<1>4. \A j \in J : j \in Item /\ LinkName[j] = LinkName[i]
  OBVIOUS
<1>5. \A q \in Merged(i) : \E j \in J : q \in RefsOf(j)
  BY DEF Merged
<1>6. i \in J
  OBVIOUS
<1> HIDE DEF refs, J
<1>7. IsFiniteSet(Merged(i))
  BY <1>1, <1>2, <1>3, UnionFinite
<1>8. \A j, k \in J : InOneList(j, k)
  BY <1>4 DEF InOneList, Item
<1>9. \A j, k \in J : \A q \in RefsOf(j), r \in RefsOf(k) : SamePlace(q, r) => r = q
  BY <1>4, <1>8, OneReference
<1>10. \A q, r \in Merged(i) : SamePlace(q, r) => r = q
  BY <1>5, <1>9
<1>11. \A q, r \in RefsOf(i) : SamePlace(q, r) => r = q
  BY <1>6, <1>9
<1> QED
  BY <1>7, <1>10, <1>11, RefsFinite DEF Tidy

LEMMA TidyPart ==
    ASSUME NEW R, Tidy(R), NEW S \in SUBSET R
    PROVE  Tidy(S)
BY FS_Subset DEF Tidy

LEMMA CopiedTidy ==
    ASSUME NEW d, NEW N \in SUBSET Ref, Tidy(N)
    PROVE  Tidy(Copied(d, N))
<1> DEFINE copied == [r \in N |-> AsCopied(d, N, r)]
<1>1. Copied(d, N) = {copied[r] : r \in N}
  BY DEF Copied, AsCopied
<1>2. copied = [r \in N |-> copied[r]]
  OBVIOUS
<1> HIDE DEF copied
<1>3. IsFiniteSet(Copied(d, N))
  BY <1>1, <1>2, ImageFinite DEF Tidy
<1>4. ASSUME NEW q \in Copied(d, N), NEW r \in Copied(d, N), SamePlace(q, r)
      PROVE  r = q
  <2>1. PICK o \in N : q = AsCopied(d, N, o)
    BY CopiedHas
  <2>2. PICK p \in N : r = AsCopied(d, N, p)
    BY CopiedHas
  <2>3. SamePlace(o, p)
    BY <1>4, <2>1, <2>2, AsCopiedType DEF SamePlace
  <2> QED
    BY <2>1, <2>2, <2>3 DEF Tidy
<1> QED
  BY <1>3, <1>4 DEF Tidy

LEMMA NewCopyTidy ==
    ASSUME TypeOK, NEW s \in Session, NEW f, NEW i \in Item, Tidy(s.copy[i])
    PROVE  Tidy(NewCopy(s, i, f))
<1> DEFINE K == Kept(s, i, f)
           N == NewIn(s, i, f)
           C == Copied(s.default[i], N)
<1>1. Tidy(K)
  <2>1. K \in SUBSET s.copy[i]
    BY DEF Kept
  <2> QED
    BY <2>1, TidyPart
<1>2. N \in SUBSET Merged(i) /\ N \in SUBSET Ref
  BY NewInType, TableRefType DEF NewIn, New
<1>3. Tidy(N)
  BY <1>2, MergedTidy, TidyPart
<1>4. Tidy(C)
  BY <1>2, <1>3, CopiedTidy
<1>5. \A q \in K, r \in N : ~SamePlace(q, r)
  BY DEF NewIn, New
<1>6. ASSUME NEW q \in K, NEW r \in C
      PROVE  ~SamePlace(q, r) /\ ~SamePlace(r, q)
  <2>1. PICK p \in N : r = AsCopied(s.default[i], N, p)
    BY CopiedHas
  <2>2. r.file = p.file /\ r.line = p.line
    BY <1>2, <2>1, AsCopiedType
  <2> QED
    BY <1>5, <2>2 DEF SamePlace
<1> HIDE DEF K, C, N
<1>7. Tidy(K \cup C)
  BY <1>1, <1>4, <1>6, FS_Union DEF Tidy
<1> QED
  BY <1>7 DEF NewCopy, K, C, N

LEMMA SelectedTidy ==
    ASSUME NEW s \in Session, \A i \in Item : Tidy(s.copy[i])
    PROVE  Tidy(Selected(s))
<1> DEFINE copied == [i \in s.selected |-> s.copy[i]]
<1>1. s.selected \subseteq Item
  BY DEF Session
<1>2. IsFiniteSet(s.selected)
  BY <1>1, FiniteAssumption, FS_Subset
<1>3. copied = [i \in s.selected |-> copied[i]] /\ \A i \in s.selected : IsFiniteSet(copied[i])
  BY <1>1 DEF Tidy
<1>4. Selected(s) \subseteq UNION {copied[i] : i \in s.selected}
  BY DEF Selected
<1> HIDE DEF copied
<1>5. IsFiniteSet(Selected(s))
  <2>1. IsFiniteSet(UNION {copied[i] : i \in s.selected})
    BY <1>2, <1>3, UnionFinite
  <2>2. Selected(s) \in SUBSET (UNION {copied[i] : i \in s.selected})
    BY <1>4
  <2> QED
    BY <2>1, <2>2, FS_Subset
<1> DEFINE In(r, i) == r \in s.copy[i] /\ \A j \in s.selected : MenuOrder[j] < MenuOrder[i] =>
                           \A q \in s.copy[j] : ~SamePlace(q, r)
<1>6. \A r \in Selected(s) : \E i \in s.selected : In(r, i)
  BY DEF Selected
<1>7. ASSUME NEW q \in Selected(s), NEW r \in Selected(s), SamePlace(q, r)
      PROVE  r = q
  <2>1. PICK i \in s.selected : In(q, i)
    BY <1>6
  <2>2. PICK j \in s.selected : In(r, j)
    BY <1>6
  <2>3. ~(MenuOrder[i] < MenuOrder[j])
    BY <1>7, <2>1, <2>2
  <2>4. ~(MenuOrder[j] < MenuOrder[i])
    <3>1. SamePlace(r, q)
      BY <1>7 DEF SamePlace
    <3> QED
      BY <2>1, <2>2, <3>1
  <2>5. MenuOrder[i] \in Nat /\ MenuOrder[j] \in Nat
    BY <1>1, BrowsingAssumption
  <2>6. MenuOrder[i] = MenuOrder[j]
    BY <2>3, <2>4, <2>5
  <2>7. i = j
    BY <1>1, <2>6, BrowsingAssumption
  <2> QED
    BY <1>1, <1>7, <2>1, <2>2, <2>7 DEF Tidy
<1> QED
  BY <1>5, <1>7 DEF Tidy

\* Sessions whose copies and list are so
TidyOnes == {s \in Session : Tidy(s.list) /\ \A i \in Item : Tidy(s.copy[i])}

\* What leaves the copies as they are, and the list or makes it of them again
SameCopies(s, t) == t.copy = s.copy /\ (t.list = s.list \/ t.list = Selected(t))

LEMMA SameCopiesTidy ==
    ASSUME NEW s \in TidyOnes, NEW t \in Session, SameCopies(s, t)
    PROVE  t \in TidyOnes
<1>1. \A i \in Item : Tidy(t.copy[i])
  BY DEF SameCopies, TidyOnes
<1>2. Tidy(Selected(t))
  BY <1>1, SelectedTidy
<1> QED
  BY <1>1, <1>2 DEF SameCopies, TidyOnes

LEMMA RecomputeCopies ==
    ASSUME NEW s \in Session
    PROVE  Recompute(s).copy = s.copy /\ Recompute(s).list = Selected(Recompute(s))
BY DEF Recompute, Session, Selected

LEMMA RefreshedTidy ==
    ASSUME TypeOK, NEW s \in TidyOnes, NEW f, NEW saved
    PROVE  Nearest(Update(s, f), saved) \in TidyOnes
<1> DEFINE u == Update(s, f)
<1>1. /\ s \in Session /\ u \in Session /\ u.list = Selected(u)
      /\ \A i \in Item : u.copy[i] =
            IF i \in ItemsOf[s.symbol] THEN NewCopy(s, i, f) ELSE {}
  BY UpdateGives DEF TidyOnes
<1> HIDE DEF u
<1>2. ASSUME NEW i \in Item
      PROVE  Tidy(u.copy[i])
  <2>1. Tidy(s.copy[i])
    BY DEF TidyOnes
  <2>2. Tidy(NewCopy(s, i, f))
    BY <1>1, <2>1, NewCopyTidy
  <2>3. Tidy({})
    BY FS_EmptySet DEF Tidy
  <2> QED
    BY <1>1, <2>2, <2>3
<1>3. Tidy(u.list)
  BY <1>1, <1>2, SelectedTidy
<1>4. u \in TidyOnes
  BY <1>1, <1>2, <1>3 DEF TidyOnes
<1>5. Nearest(u, saved) \in Session
  BY <1>1, NearestSound DEF Sound
<1>6. Nearest(u, saved).copy = u.copy /\ Nearest(u, saved).list = u.list
  BY <1>1 DEF Nearest, Session
<1>7. Nearest(u, saved) \in TidyOnes
  BY <1>4, <1>5, <1>6, SameCopiesTidy DEF SameCopies
<1> QED
  BY <1>7 DEF u

LEMMA MovedTidy ==
    ASSUME NEW s \in TidyOnes, NEW way
    PROVE  Moved(s, way) \in TidyOnes /\ [s EXCEPT !.current = First(s, s.list)] \in TidyOnes
<1>1. s \in Session
  BY DEF TidyOnes
<1>2. Moved(s, way) \in Session /\ [s EXCEPT !.current = First(s, s.list)] \in Session
  BY <1>1, MovedSound, ToFirstSound DEF Sound
<1>3. Moved(s, way).copy = s.copy /\ Moved(s, way).list = s.list
  BY <1>1 DEF Moved, Advance, NextOrFirst, PreviousOrLast, Session
<1>4. /\ [s EXCEPT !.current = First(s, s.list)].copy = s.copy
      /\ [s EXCEPT !.current = First(s, s.list)].list = s.list
  BY <1>1 DEF Session
<1> QED
  BY <1>2, <1>3, <1>4, SameCopiesTidy DEF SameCopies

LEMMA GotoTidy ==
    ASSUME TypeOK, NEW s0 \in TidyOnes, NEW f, NEW marks, NEW way
    PROVE  Goto(s0, f, marks, way).session \in TidyOnes
<1> DEFINE s == IF f \in marks THEN Nearest(Update(s0, f), s0.current) ELSE s0
           target == Target(s, way)
           again == Nearest(Update(s, target.file), s.current)
           moved == [session |-> Moved(again, way), marks |-> marks \ {f, target.file}]
           first == [s EXCEPT !.current = First(s, s.list)]
           stayed == [session |-> IF s.current = NoRef THEN first ELSE Moved(s, way),
                      marks |-> marks \ {f}]
<1>1. s \in TidyOnes
  BY RefreshedTidy
<1>2. again \in TidyOnes
  <2> HIDE DEF s
  <2> QED
    BY <1>1, RefreshedTidy
<1>3. Moved(again, way) \in TidyOnes /\ Moved(s, way) \in TidyOnes /\ first \in TidyOnes
  <2> HIDE DEF s, again
  <2> QED
    BY <1>1, <1>2, MovedTidy DEF first
<1>4. moved.session \in TidyOnes /\ stayed.session \in TidyOnes
  BY <1>3
<1>5. Goto(s0, f, marks, way) \in {moved, stayed}
  BY DEF Goto
<1> QED
  BY <1>4, <1>5

LEMMA OpeningsTidy ==
    ASSUME TypeOK, NEW s \in Openings
    PROVE  s \in TidyOnes
<1>1. PICK y \in Symbols, r \in Ref, d \in NoneOrOne :
         s = Opened(y, r, d) \/ s = AtDefinition(Opened(y, r, d))
  BY DEF Openings
<1> DEFINE t == Opened(y, r, d)
<1>2. t \in Session /\ AtDefinition(t) \in Session
  BY OpenedSound DEF Sound
<1>3. /\ t.list = Selected(t)
      /\ \A i \in Item : t.copy[i] = IF i \in ItemsOf[y] THEN Copied(d, RefsOf(i)) ELSE {}
  BY DEF Opened, Selected
<1>4. \A i \in Item : Tidy(t.copy[i])
  <2>1. Tidy({})
    BY FS_EmptySet DEF Tidy
  <2>2. \A i \in Item : Tidy(Copied(d, RefsOf(i)))
    BY RefsType, TableRefType, MergedTidy, CopiedTidy
  <2> QED
    BY <1>3, <2>1, <2>2
<1> HIDE DEF t
<1>5. t \in TidyOnes
  BY <1>2, <1>3, <1>4, SelectedTidy DEF TidyOnes
<1>6. AtDefinition(t).copy = t.copy /\ AtDefinition(t).list = t.list
  BY <1>2 DEF AtDefinition, Session
<1>7. AtDefinition(t) \in TidyOnes
  BY <1>2, <1>5, <1>6, SameCopiesTidy DEF SameCopies
<1> QED
  BY <1>1, <1>5, <1>7 DEF t

LEMMA OutcomesTidy ==
    ASSUME TypeOK, NEW s \in TidyOnes, Sound(s), NEW t \in Outcomes(s)
    PROVE  t \in TidyOnes
<1>1. s \in Session /\ \A i \in ItemsOf[s.symbol] : i \in Item
  BY DEF TidyOnes, Session, Item
<1>2. ASSUME NEW way \in Ways
      PROVE  Goto(s, request.file, marked, way).session \in TidyOnes
  BY GotoTidy
<1>3. ASSUME NEW n
      PROVE  Nth(s, n) \in TidyOnes
  <2>1. Nth(s, n) \in Session
    BY <1>1, NthSound DEF Sound
  <2>2. SameCopies(s, Nth(s, n))
    BY <1>1 DEF Nth, Session, SameCopies
  <2> QED
    BY <2>1, <2>2, SameCopiesTidy
<1>4. ASSUME NEW l \in Limits
      PROVE  Filtered(s, l) \in TidyOnes
  <2>1. Filtered(s, l) \in Session
    BY <1>1, FilteredSound DEF Sound
  <2>2. SameCopies(s, Filtered(s, l))
    BY <1>1 DEF Filtered, NextOrFirst, Session, SameCopies
  <2> QED
    BY <2>1, <2>2, SameCopiesTidy
<1>5. ASSUME NEW i \in ItemsOf[s.symbol]
      PROVE  Toggled(s, i) \in TidyOnes /\ OnlySelected(s, i) \in TidyOnes
  <2> DEFINE a == [s EXCEPT !.selected = IF i \in @ THEN @ \ {i} ELSE @ \cup {i}]
             b == [s EXCEPT !.selected = {i}]
             c == Recompute(b)
  <2>1. i \in Item
    BY <1>1
  <2>2. Toggled(s, i) \in Session /\ OnlySelected(s, i) \in Session
    BY <2>1, MenuSound DEF Sound
  <2>3. a \in Session /\ b \in Session /\ a.copy = s.copy /\ b.copy = s.copy
    BY <1>1, <2>1 DEF Session
  <2>4. SameCopies(s, Toggled(s, i))
    <3> HIDE DEF a
    <3> QED
      BY <2>3, RecomputeCopies DEF Toggled, SameCopies, a
  <2>5. c.copy = s.copy /\ c.list = Selected(c) /\ c \in Session
    <3> HIDE DEF b
    <3> QED
      BY <2>3, RecomputeCopies, RecomputeSound DEF Sound
  <2> HIDE DEF c
  <2>6. ASSUME NEW d
        PROVE  LET e == [c EXCEPT !.current = d] IN e.copy = c.copy /\ e.list = c.list /\ Selected(e) = Selected(c)
    BY <2>5 DEF Session, Selected
  <2>7. OnlySelected(s, i) = c \/ \E d : OnlySelected(s, i) = [c EXCEPT !.current = d]
    BY DEF OnlySelected, c
  <2>8. SameCopies(s, OnlySelected(s, i))
    BY <2>5, <2>6, <2>7 DEF SameCopies
  <2> QED
    BY <2>2, <2>4, <2>8, SameCopiesTidy
<1>6. ASSUME NEW l \in MenuLevels
      PROVE  MenuFiltered(s, l) \in TidyOnes
  <2> DEFINE a == [s EXCEPT !.level = l, !.shown = ShownAt[s.symbol][l],
                            !.selected = ShownAt[s.symbol][l] \cap FittingOf[s.symbol]]
  <2>1. MenuFiltered(s, l) \in Session
    BY MenuFilteredSound DEF Sound
  <2>2. s.symbol \in Symbols /\ ShownAt[s.symbol][l] \subseteq Item
    BY <1>1, BrowsingAssumption DEF Session
  <2>3. a \in Session /\ a.copy = s.copy
    BY <1>1, <2>2 DEF Session
  <2>4. MenuFiltered(s, l) = IF l = s.level THEN s ELSE Recompute(a)
    BY DEF MenuFiltered
  <2> HIDE DEF a
  <2>5. SameCopies(s, MenuFiltered(s, l))
    BY <2>3, <2>4, RecomputeCopies DEF SameCopies
  <2> QED
    BY <2>1, <2>5, SameCopiesTidy
<1>7. AllSelected(s) \in TidyOnes /\ NoneSelected(s) \in TidyOnes /\ NothingSelected(s) \in TidyOnes
  <2> DEFINE a == [s EXCEPT !.selected = @ \cup s.shown]
             b == [s EXCEPT !.selected = @ \ s.shown]
  <2>1. {AllSelected(s), NoneSelected(s), NothingSelected(s)} \subseteq Session
    BY WholeMenuSound DEF Sound
  <2>2. a \in Session /\ b \in Session /\ a.copy = s.copy /\ b.copy = s.copy
    BY <1>1 DEF Session
  <2>3. SameCopies(s, AllSelected(s)) /\ SameCopies(s, NoneSelected(s))
    <3>1. AllSelected(s) = Recompute(a) /\ NoneSelected(s) = Recompute(b)
      BY DEF AllSelected, NoneSelected
    <3> HIDE DEF a, b
    <3> QED
      BY <2>2, <3>1, RecomputeCopies DEF SameCopies
  <2>4. SameCopies(s, NothingSelected(s))
    BY <1>1 DEF NothingSelected, Session, SameCopies
  <2> QED
    BY <2>1, <2>3, <2>4, SameCopiesTidy
<1> QED
  BY <1>2, <1>3, <1>4, <1>5, <1>6, <1>7 DEF Outcomes

-----------------------------------------------------------------------------
(* The order of a list, and the ranks in it                                *)

Total(s, V) ==
    /\ \A r \in V : ~InOrder(s, r, r)
    /\ \A q, r \in V : q = r \/ InOrder(s, q, r) \/ InOrder(s, r, q)
    /\ \A p, q, r \in V : InOrder(s, p, q) /\ InOrder(s, q, r) => InOrder(s, p, r)

LEMMA EarlierIsTotal ==
    ASSUME NEW V \in SUBSET Ref, Tidy(V)
    PROVE  /\ \A r \in V : ~Earlier(r, r)
           /\ \A q, r \in V : q = r \/ Earlier(q, r) \/ Earlier(r, q)
           /\ \A p, q, r \in V : Earlier(p, q) /\ Earlier(q, r) => Earlier(p, r)
<1>1. \A r \in V : r.file \in File /\ r.line \in Nat
  BY DEF Ref
<1>2. \A r \in V : NameOrder[r.file] \in Nat
  BY <1>1, BrowsingAssumption
<1>3. \A r \in V : ~Earlier(r, r)
  BY <1>1, <1>2 DEF Earlier
<1>4. \A q, r \in V : q = r \/ Earlier(q, r) \/ Earlier(r, q)
  <2> TAKE q, r \in V
  <2>1. q = r \/ q.file # r.file \/ q.line # r.line
    BY DEF Tidy, SamePlace
  <2>2. q.file # r.file => NameOrder[q.file] # NameOrder[r.file]
    BY <1>1, BrowsingAssumption
  <2> QED
    BY <1>1, <1>2, <2>1, <2>2 DEF Earlier
<1>5. \A p, q, r \in V : Earlier(p, q) /\ Earlier(q, r) => Earlier(p, r)
  BY <1>1, <1>2 DEF Earlier
<1> QED
  BY <1>3, <1>4, <1>5

\* Definitions come first, and among each other by kind.
LEMMA OrderIsTotal ==
    ASSUME NEW s, NEW V \in SUBSET Ref, Tidy(V)
    PROVE  Total(s, V)
<1>1. /\ \A r \in V : ~Earlier(r, r)
      /\ \A q, r \in V : q = r \/ Earlier(q, r) \/ Earlier(r, q)
      /\ \A p, q, r \in V : Earlier(p, q) /\ Earlier(q, r) => Earlier(p, r)
  BY EarlierIsTotal
<1>2. \A r \in V : r.usage \in 0..7
  BY DEF Ref, Usage
<1>3. \A q, r : MoreImportant(q, r) <=>
         IF q.usage # r.usage /\ (q.usage \in {0, 1, 2} \/ r.usage \in {0, 1, 2})
         THEN q.usage < r.usage ELSE Earlier(q, r)
  BY DEF MoreImportant, Definitions, BestFit, Defined, Declared
<1> DEFINE Class(r) == IF r.usage \in {0, 1, 2} THEN r.usage ELSE 3
<1>4. \A r \in V : Class(r) \in 0..3
  BY <1>2
<1>5. \A q, r \in V : MoreImportant(q, r) <=> Class(q) < Class(r) \/ (Class(q) = Class(r) /\ Earlier(q, r))
  BY <1>2, <1>3
<1> HIDE DEF Class
<1>6. /\ \A r \in V : ~MoreImportant(r, r)
      /\ \A q, r \in V : q = r \/ MoreImportant(q, r) \/ MoreImportant(r, q)
      /\ \A p, q, r \in V : MoreImportant(p, q) /\ MoreImportant(q, r) => MoreImportant(p, r)
  BY <1>1, <1>4, <1>5
<1> QED
  BY <1>1, <1>6 DEF Total, InOrder

Behind(s, V, r) == {q \in V : InOrder(s, q, r)}
Rank(s, V, r) == Cardinality(Behind(s, V, r))

LEMMA RankType ==
    ASSUME NEW s, NEW V, IsFiniteSet(V), Total(s, V), NEW r \in V
    PROVE  /\ Rank(s, V, r) \in Nat /\ Cardinality(V) \in Nat /\ Rank(s, V, r) < Cardinality(V)
           /\ IsFiniteSet(Behind(s, V, r))
<1>1. Behind(s, V, r) \in SUBSET (V \ {r})
  BY DEF Behind, Total
<1>2. IsFiniteSet(V \ {r}) /\ Cardinality(V \ {r}) = Cardinality(V) - 1
  BY FS_RemoveElement
<1>3. IsFiniteSet(Behind(s, V, r)) /\ Cardinality(Behind(s, V, r)) <= Cardinality(V \ {r})
  BY <1>1, <1>2, FS_Subset
<1>4. Cardinality(V) \in Nat /\ Cardinality(Behind(s, V, r)) \in Nat
  BY <1>3, FS_CardinalityType
<1> QED
  BY <1>2, <1>3, <1>4 DEF Rank

\* Who has all that are behind another, and that one, behind, is next to it.
LEMMA RankFollows ==
    ASSUME NEW s, NEW V, IsFiniteSet(V), Total(s, V), NEW q \in V, NEW r \in V,
           Behind(s, V, r) = Behind(s, V, q) \cup {q}
    PROVE  Rank(s, V, r) = Rank(s, V, q) + 1
<1>1. q \notin Behind(s, V, q)
  BY DEF Behind, Total
<1>2. IsFiniteSet(Behind(s, V, q))
  BY RankType
<1>3. Cardinality(Behind(s, V, q) \cup {q}) = Cardinality(Behind(s, V, q)) + 1
  BY <1>1, <1>2, FS_AddElement
<1> QED
  BY <1>3 DEF Rank

LEMMA RankOrder ==
    ASSUME NEW s, NEW V, IsFiniteSet(V), Total(s, V), NEW q \in V, NEW r \in V
    PROVE  /\ InOrder(s, q, r) => Rank(s, V, q) < Rank(s, V, r)
           /\ Rank(s, V, q) = Rank(s, V, r) => q = r
<1>1. ASSUME NEW a \in V, NEW b \in V, InOrder(s, a, b)
      PROVE  Rank(s, V, a) < Rank(s, V, b)
  <2>1. Behind(s, V, a) \in SUBSET Behind(s, V, b)
    BY <1>1 DEF Behind, Total
  <2>2. a \in Behind(s, V, b) /\ a \notin Behind(s, V, a)
    BY <1>1 DEF Behind, Total
  <2>3. /\ IsFiniteSet(Behind(s, V, b))
        /\ Rank(s, V, a) \in Nat /\ Rank(s, V, b) \in Nat
    BY RankType
  <2>4. /\ Cardinality(Behind(s, V, a)) <= Cardinality(Behind(s, V, b))
        /\ Cardinality(Behind(s, V, b)) = Cardinality(Behind(s, V, a))
              => Behind(s, V, b) = Behind(s, V, a)
    BY <2>1, <2>3, FS_Subset
  <2> QED
    BY <2>2, <2>3, <2>4 DEF Rank
<1>2. Rank(s, V, q) \in Nat /\ Rank(s, V, r) \in Nat
  BY RankType
<1>3. q = r \/ InOrder(s, q, r) \/ InOrder(s, r, q)
  BY DEF Total
<1> QED
  BY <1>1, <1>2, <1>3

LEMMA FirstOf ==
    ASSUME NEW s, NEW V, IsFiniteSet(V), Total(s, V), NEW R \in SUBSET V, R # {}
    PROVE  First(s, R) \in R /\ \A q \in R \ {First(s, R)} : InOrder(s, First(s, R), q)
<1> DEFINE ranks == {Rank(s, V, r) : r \in R}
           firsts == {r \in R : \A q \in R \ {r} : InOrder(s, r, q)}
<1>1. \A r \in R : Rank(s, V, r) \in Nat
  BY RankType
<1>2. ranks \in SUBSET Nat /\ ranks # {}
  BY <1>1
<1>3. PICK k \in ranks : \A l \in ranks : k <= l
  BY <1>2, LeastExists
<1>4. PICK r \in R : k = Rank(s, V, r)
  OBVIOUS
<1>5. ASSUME NEW q \in R \ {r}
      PROVE  InOrder(s, r, q)
  <2>1. Rank(s, V, r) <= Rank(s, V, q)
    BY <1>3, <1>4
  <2>2. ~InOrder(s, q, r)
    BY <1>1, <2>1, RankOrder
  <2> QED
    BY <2>2 DEF Total
<1>6. firsts # {}
  BY <1>5
<1>7. First(s, R) = CHOOSE f \in firsts : TRUE
  BY <1>6 DEF First
<1> HIDE DEF firsts
<1>8. First(s, R) \in firsts
  BY <1>6, <1>7
<1> QED
  BY <1>8 DEF firsts

LEMMA LastOf ==
    ASSUME NEW s, NEW V, IsFiniteSet(V), Total(s, V), NEW R \in SUBSET V, R # {}
    PROVE  Last(s, R) \in R /\ \A q \in R \ {Last(s, R)} : InOrder(s, q, Last(s, R))
<1> DEFINE n == Cardinality(V)
           left == {n - Rank(s, V, r) : r \in R}
           lasts == {r \in R : \A q \in R \ {r} : InOrder(s, q, r)}
<1>1. \A r \in R : Rank(s, V, r) \in Nat /\ n \in Nat /\ Rank(s, V, r) < n
  BY RankType
<1> HIDE DEF n
<1>2. left \in SUBSET Nat /\ left # {}
  BY <1>1
<1>3. PICK k \in left : \A l \in left : k <= l
  BY <1>2, LeastExists
<1>4. PICK r \in R : k = n - Rank(s, V, r)
  OBVIOUS
<1>5. ASSUME NEW q \in R \ {r}
      PROVE  InOrder(s, q, r)
  <2>1. n - Rank(s, V, r) <= n - Rank(s, V, q)
    BY <1>3, <1>4
  <2>2. ~(Rank(s, V, r) < Rank(s, V, q))
    BY <1>1, <2>1
  <2>3. ~InOrder(s, r, q)
    BY <2>2, RankOrder
  <2> QED
    BY <2>3 DEF Total
<1>6. lasts # {}
  BY <1>5
<1>7. Last(s, R) = CHOOSE f \in lasts : TRUE
  BY <1>6 DEF Last
<1> HIDE DEF lasts
<1>8. Last(s, R) \in lasts
  BY <1>6, <1>7
<1> QED
  BY <1>8 DEF lasts

\* The ends of a list
LEMMA EndRanks ==
    ASSUME NEW s, NEW V, IsFiniteSet(V), Total(s, V), V # {}
    PROVE  /\ First(s, V) \in V /\ Rank(s, V, First(s, V)) = 0
           /\ Last(s, V) \in V
           /\ \A r \in V : (\A q \in V : ~InOrder(s, r, q)) => Rank(s, V, r) = Cardinality(V) - 1
           /\ Rank(s, V, Last(s, V)) = Cardinality(V) - 1
<1>1. First(s, V) \in V /\ \A q \in V \ {First(s, V)} : InOrder(s, First(s, V), q)
  BY FirstOf
<1>2. Last(s, V) \in V /\ \A q \in V \ {Last(s, V)} : InOrder(s, q, Last(s, V))
  BY LastOf
<1>3. Behind(s, V, First(s, V)) = {}
  BY <1>1 DEF Behind, Total
<1>4. Rank(s, V, First(s, V)) = 0
  BY <1>3, FS_EmptySet DEF Rank
<1>5. ASSUME NEW r \in V, \A q \in V : ~InOrder(s, r, q)
      PROVE  Rank(s, V, r) = Cardinality(V) - 1
  <2>1. Behind(s, V, r) = V \ {r}
    BY <1>5 DEF Behind, Total
  <2>2. Cardinality(V \ {r}) = Cardinality(V) - 1
    BY FS_RemoveElement
  <2> QED
    BY <2>1, <2>2 DEF Rank
<1>6. \A q \in V : ~InOrder(s, Last(s, V), q)
  BY <1>2 DEF Total
<1> QED
  BY <1>1, <1>2, <1>4, <1>5, <1>6

LEMMA NextRank ==
    ASSUME NEW s, NEW V, IsFiniteSet(V), Total(s, V), NEW r \in V,
           NEW q \in V, InOrder(s, r, q)
    PROVE  LET ahead == {p \in V : InOrder(s, r, p)}
           IN  First(s, ahead) \in V /\ Rank(s, V, First(s, ahead)) = Rank(s, V, r) + 1
<1> DEFINE ahead == {p \in V : InOrder(s, r, p)}
           next == First(s, ahead)
<1>1. next \in ahead /\ \A p \in ahead \ {next} : InOrder(s, next, p)
  BY FirstOf
<1>2. next \in V /\ InOrder(s, r, next) /\ \A p \in V \ {next} : InOrder(s, r, p) => InOrder(s, next, p)
  BY <1>1
<1> HIDE DEF next, ahead
<1>3. Behind(s, V, next) = Behind(s, V, r) \cup {r}
  BY <1>2 DEF Behind, Total
<1>4. Rank(s, V, next) = Rank(s, V, r) + 1
  BY <1>2, <1>3, RankFollows
<1> QED
  BY <1>2, <1>4 DEF next, ahead

LEMMA PreviousRank ==
    ASSUME NEW s, NEW V, IsFiniteSet(V), Total(s, V), NEW r \in V, Behind(s, V, r) # {}
    PROVE  LET last == Last(s, Behind(s, V, r))
           IN  last \in V /\ Rank(s, V, last) = Rank(s, V, r) - 1
<1> DEFINE last == Last(s, Behind(s, V, r))
<1>1. Behind(s, V, r) \in SUBSET V
  BY DEF Behind
<1>2. last \in Behind(s, V, r) /\ \A p \in Behind(s, V, r) \ {last} : InOrder(s, p, last)
  BY <1>1, LastOf
<1> HIDE DEF last
<1>3. last \in V /\ InOrder(s, last, r)
      /\ \A p \in V \ {last} : InOrder(s, p, r) => InOrder(s, p, last)
  BY <1>2 DEF Behind
<1>4. Behind(s, V, r) = Behind(s, V, last) \cup {last}
  BY <1>3 DEF Behind, Total
<1>5. Rank(s, V, r) = Rank(s, V, last) + 1
  BY <1>3, <1>4, RankFollows
<1>6. Rank(s, V, last) \in Nat
  BY <1>3, RankType
<1> QED
  BY <1>3, <1>5, <1>6 DEF last

-----------------------------------------------------------------------------
(* All the way round                                                       *)

\* Sessions that differ in their place only, which the filter lets through
OnTheWay(s, t) ==
    /\ t \in Session /\ t.list = s.list /\ t.sorted = s.sorted /\ t.limit = s.limit
    /\ t.current \in Unfiltered(s, s.list)

LEMMA VisibleIsTotal ==
    ASSUME NEW s \in TidyOnes, NEW V, V = Unfiltered(s, s.list)
    PROVE  V \in SUBSET Ref /\ IsFiniteSet(V) /\ Total(s, V)
<1>1. s.list \subseteq Ref /\ Tidy(s.list) /\ V \in SUBSET s.list
  BY DEF TidyOnes, Session, Unfiltered
<1>2. V \in SUBSET Ref /\ Tidy(V)
  BY <1>1, TidyPart
<1>3. Total(s, V)
  BY <1>2, OrderIsTotal
<1> QED
  BY <1>2, <1>3 DEF Tidy

LEMMA SameOrder ==
    ASSUME NEW s, NEW t, OnTheWay(s, t)
    PROVE  /\ \A R : First(t, R) = First(s, R) /\ Last(t, R) = Last(s, R)
           /\ \A R : Unfiltered(t, R) = Unfiltered(s, R)
           /\ \A a, b : InOrder(t, a, b) <=> InOrder(s, a, b)
           /\ t.current # NoRef
<1>1. \A R : First(t, R) = First(s, R) /\ Last(t, R) = Last(s, R)
  BY SameFirst DEF OnTheWay
<1>2. t.current \in t.list /\ t.list \subseteq Ref
  BY DEF OnTheWay, Unfiltered, Session
<1> QED
  BY <1>1, <1>2, BrowsingAssumption DEF OnTheWay, Unfiltered, InOrder

LEMMA AdvanceRank ==
    ASSUME NEW s \in TidyOnes, NEW V, V = Unfiltered(s, s.list), NEW t, OnTheWay(s, t)
    PROVE  /\ OnTheWay(s, Advance(t))
           /\ Rank(s, V, Advance(t).current)
              = IF Rank(s, V, t.current) + 1 < Cardinality(V) THEN Rank(s, V, t.current) + 1 ELSE 0
<1> DEFINE r == t.current
           ahead == {p \in V : InOrder(s, r, p)}
<1>1. IsFiniteSet(V) /\ Total(s, V) /\ r \in V
  BY VisibleIsTotal DEF OnTheWay
<1>2. Rank(s, V, r) \in Nat /\ Cardinality(V) \in Nat
  BY <1>1, RankType
<1>3. t \in Session /\ t.list = s.list
  BY DEF OnTheWay
<1>4. /\ \A R : First(t, R) = First(s, R) /\ Last(t, R) = Last(s, R)
      /\ \A R : Unfiltered(t, R) = Unfiltered(s, R)
      /\ \A a, b : InOrder(t, a, b) <=> InOrder(s, a, b)
      /\ t.current # NoRef
  BY SameOrder
<1>5. Unfiltered(t, After(t)) = ahead
  <2>1. Unfiltered(s, After(t)) = ahead
    BY <1>3, <1>4 DEF After, Unfiltered
  <2> QED
    BY <1>4, <2>1
<1>6. Unfiltered(t, t.list) = V
  BY <1>3, <1>4
<1> HIDE DEF ahead, r
<1>7. Advance(t) = [t EXCEPT !.current = First(t, IF ahead = {} THEN V ELSE ahead)]
  BY <1>5, <1>6 DEF Advance, NextOrFirst
<1>8. Advance(t) \in Session
  BY <1>3, AdvanceSound DEF Sound
<1>9. /\ Advance(t).current = First(s, IF ahead = {} THEN V ELSE ahead)
      /\ Advance(t).list = t.list /\ Advance(t).sorted = t.sorted /\ Advance(t).limit = t.limit
  <2>1. Advance(t).current = First(t, IF ahead = {} THEN V ELSE ahead)
    BY <1>3, <1>7 DEF Session
  <2> QED
    BY <1>3, <1>4, <1>7, <2>1 DEF Session
<1>10. CASE ahead = {}
  <2>1. \A q \in V : ~InOrder(s, r, q)
    BY <1>10 DEF ahead
  <2>2. First(s, V) \in V /\ Rank(s, V, First(s, V)) = 0 /\ Rank(s, V, r) = Cardinality(V) - 1
    BY <1>1, <2>1, EndRanks
  <2>3. Advance(t).current = First(s, V)
    BY <1>9, <1>10
  <2>4. OnTheWay(s, Advance(t))
    BY <1>8, <1>9, <2>2, <2>3 DEF OnTheWay
  <2> QED
    BY <1>2, <2>2, <2>3, <2>4 DEF r
<1>11. CASE ahead # {}
  <2>1. PICK q \in V : InOrder(s, r, q)
    BY <1>11 DEF ahead
  <2>2. First(s, ahead) \in V /\ Rank(s, V, First(s, ahead)) = Rank(s, V, r) + 1
    BY <1>1, <2>1, NextRank DEF ahead
  <2>3. Advance(t).current = First(s, ahead)
    BY <1>9, <1>11
  <2>4. OnTheWay(s, Advance(t))
    BY <1>8, <1>9, <2>2, <2>3 DEF OnTheWay
  <2>5. Rank(s, V, First(s, ahead)) < Cardinality(V)
    BY <1>1, <2>2, RankType
  <2> QED
    BY <1>2, <2>2, <2>3, <2>4, <2>5 DEF r
<1> QED
  BY <1>10, <1>11

LEMMA BackRank ==
    ASSUME NEW s \in TidyOnes, NEW V, V = Unfiltered(s, s.list), NEW t, OnTheWay(s, t)
    PROVE  /\ PreviousOrLast(t).current \in V
           /\ Rank(s, V, PreviousOrLast(t).current)
              = IF Rank(s, V, t.current) = 0 THEN Cardinality(V) - 1 ELSE Rank(s, V, t.current) - 1
<1> DEFINE r == t.current
           before == Behind(s, V, r)
<1>1. V \in SUBSET Ref /\ IsFiniteSet(V) /\ Total(s, V) /\ r \in V
  BY VisibleIsTotal DEF OnTheWay
<1>2. Rank(s, V, r) \in Nat /\ Cardinality(V) \in Nat /\ IsFiniteSet(before)
  BY <1>1, RankType
<1>3. t \in Session /\ t.list = s.list
  BY DEF OnTheWay
<1>4. /\ \A R : First(t, R) = First(s, R) /\ Last(t, R) = Last(s, R)
      /\ \A R : Unfiltered(t, R) = Unfiltered(s, R)
      /\ \A a, b : InOrder(t, a, b) <=> InOrder(s, a, b)
      /\ t.current # NoRef
  BY SameOrder
<1>5. Unfiltered(t, Before(t)) = before
  <2>1. Unfiltered(s, Before(t)) = before
    BY <1>3, <1>4 DEF Before, Unfiltered, Behind
  <2> QED
    BY <1>4, <2>1
<1>6. Unfiltered(t, t.list) = V
  BY <1>3, <1>4
<1>7. Rank(s, V, r) = 0 <=> before = {}
  BY <1>2, FS_EmptySet DEF Rank
<1> HIDE DEF before, r
<1>8. Previous(t) = Last(s, before)
  BY <1>4, <1>5 DEF Previous
<1>9. PreviousOrLast(t).current = IF Last(s, before) = NoRef THEN Last(s, V) ELSE Last(s, before)
  BY <1>3, <1>4, <1>6, <1>8 DEF PreviousOrLast, Session
<1>10. CASE before = {}
  <2>1. Last(s, before) = NoRef
    BY <1>10, LastIsOne
  <2>2. Last(s, V) \in V /\ Rank(s, V, Last(s, V)) = Cardinality(V) - 1
    BY <1>1, EndRanks
  <2> QED
    BY <1>7, <1>9, <1>10, <2>1, <2>2 DEF r
<1>11. CASE before # {}
  <2>1. Last(s, before) \in V /\ Rank(s, V, Last(s, before)) = Rank(s, V, r) - 1
    BY <1>1, <1>11, PreviousRank DEF before
  <2>2. Last(s, before) # NoRef
    BY <1>1, <2>1, BrowsingAssumption
  <2> QED
    BY <1>7, <1>9, <1>11, <2>1, <2>2 DEF r
<1> QED
  BY <1>10, <1>11

\* The sessions of as many NEXTs
LEMMA WentExists ==
    ASSUME NEW s, NEW n \in Nat
    PROVE  \E g : g = [i \in 0..n |-> IF i = 0 THEN s ELSE Advance(g[i - 1])]
<1> DEFINE Goes(m) == \E g : g = [i \in 0..m |-> IF i = 0 THEN s ELSE Advance(g[i - 1])]
           bad == {m \in Nat : ~Goes(m)}
<1>1. SUFFICES ASSUME bad # {} PROVE FALSE
  BY DEF Goes
<1>2. PICK m \in bad : \A k \in bad : m <= k
  BY <1>1, LeastExists
<1>3. m \in Nat /\ ~Goes(m) /\ (m # 0 => Goes(m - 1))
  BY <1>2
<1>4. CASE m = 0
  <2> DEFINE g == [i \in 0..0 |-> s]
  <2>1. g = [i \in 0..0 |-> IF i = 0 THEN s ELSE Advance(g[i - 1])]
    OBVIOUS
  <2> QED
    BY <1>3, <1>4, <2>1
<1>5. CASE m # 0
  <2>1. PICK g : g = [i \in 0..(m - 1) |-> IF i = 0 THEN s ELSE Advance(g[i - 1])]
    BY <1>3, <1>5
  <2> DEFINE h == [i \in 0..m |-> IF i = m THEN Advance(g[m - 1]) ELSE g[i]]
  <2>2. ASSUME NEW i \in 0..m
        PROVE  h[i] = IF i = 0 THEN s ELSE Advance(h[i - 1])
    <3>1. CASE i = 0
      <4>1. g[0] = s
        BY <1>3, <1>5, <2>1
      <4> QED
        BY <1>3, <1>5, <3>1, <4>1
    <3>2. CASE i # 0
      <4>1. i - 1 \in 0..(m - 1) /\ i - 1 \in 0..m /\ i - 1 # m
        BY <1>3, <3>2
      <4>2. h[i - 1] = g[i - 1]
        BY <4>1
      <4>3. i # m => i \in 0..(m - 1)
        BY <1>3
      <4>4. \A j \in 0..(m - 1) : g[j] = IF j = 0 THEN s ELSE Advance(g[j - 1])
        BY <2>1
      <4>5. h[i] = Advance(g[i - 1])
        BY <1>3, <3>2, <4>3, <4>4
      <4> QED
        BY <3>2, <4>2, <4>5
    <3> QED
      BY <3>1, <3>2
  <2>3. h = [i \in 0..m |-> h[i]]
    OBVIOUS
  <2> HIDE DEF h
  <2>4. h = [i \in 0..m |-> IF i = 0 THEN s ELSE Advance(h[i - 1])]
    BY <2>2, <2>3
  <2> QED
    BY <1>3, <2>4
<1> QED
  BY <1>4, <1>5

LEMMA WentStep ==
    ASSUME NEW s, NEW n \in Nat
    PROVE  /\ Went(s, n)[0] = s
           /\ \A i \in 1..n : Went(s, n)[i] = Advance(Went(s, n)[i - 1])
<1> DEFINE g == Went(s, n)
<1>1. g = [i \in 0..n |-> IF i = 0 THEN s ELSE Advance(g[i - 1])]
  BY WentExists DEF Went
<1> HIDE DEF g
<1>2. \A i \in 0..n : g[i] = IF i = 0 THEN s ELSE Advance(g[i - 1])
  BY <1>1
<1> QED
  BY <1>2 DEF g

Turned(k, n) == IF k < n THEN k ELSE k - n

LEMMA WentRank ==
    ASSUME NEW s \in TidyOnes, NEW V, V = Unfiltered(s, s.list), s.current \in V,
           NEW n, n = Cardinality(V)
    PROVE  \A i \in 0..n : /\ OnTheWay(s, Went(s, n)[i])
                           /\ Rank(s, V, Went(s, n)[i].current) = Turned(Rank(s, V, s.current) + i, n)
<1> DEFINE went == Went(s, n)
           k == Rank(s, V, s.current)
           Fits(i) == OnTheWay(s, went[i]) /\ Rank(s, V, went[i].current) = Turned(k + i, n)
           bad == {i \in Nat : i \in 0..n /\ ~Fits(i)}
<1>1. IsFiniteSet(V) /\ Total(s, V)
  BY VisibleIsTotal
<1>2. k \in Nat /\ n \in Nat /\ k < n
  BY <1>1, RankType
<1>3. went[0] = s /\ \A i \in 1..n : went[i] = Advance(went[i - 1])
  BY <1>2, WentStep
<1> HIDE DEF went
<1>4. Fits(0)
  <2>1. OnTheWay(s, s)
    BY DEF OnTheWay, TidyOnes
  <2> QED
    BY <1>2, <1>3, <2>1 DEF Turned
<1>5. SUFFICES ASSUME bad # {} PROVE FALSE
  BY <1>2 DEF went
<1>6. PICK m \in bad : \A j \in bad : m <= j
  BY <1>5, LeastExists
<1>7. m \in 1..n /\ m - 1 \in 0..n /\ m - 1 \in Nat /\ ~Fits(m) /\ Fits(m - 1)
  <2>1. m \in 0..n /\ ~Fits(m) /\ m # 0
    BY <1>4, <1>6
  <2>2. m - 1 \in 0..n /\ m - 1 \in Nat /\ m - 1 \notin bad
    BY <1>2, <1>6, <2>1
  <2> QED
    BY <1>2, <2>1, <2>2
<1>8. OnTheWay(s, went[m - 1]) /\ Rank(s, V, went[m - 1].current) = Turned(k + (m - 1), n)
  BY <1>7
<1>9. /\ OnTheWay(s, went[m])
      /\ Rank(s, V, went[m].current)
         = IF Turned(k + (m - 1), n) + 1 < n THEN Turned(k + (m - 1), n) + 1 ELSE 0
  BY <1>3, <1>7, <1>8, AdvanceRank
<1>10. (IF Turned(k + (m - 1), n) + 1 < n THEN Turned(k + (m - 1), n) + 1 ELSE 0) = Turned(k + m, n)
  BY <1>2, <1>7 DEF Turned
<1> QED
  BY <1>7, <1>9, <1>10

\* One round, and each step of it undone
SeesAll(V, n, went) ==
    /\ {went[i].current : i \in 1..n} = V
    /\ \A i \in 1..n : PreviousOrLast(went[i]).current = went[i - 1].current

LEMMA AllTheWay ==
    ASSUME NEW s \in TidyOnes, NEW V, V = Unfiltered(s, s.list), s.current \in V,
           NEW n, n = Cardinality(V), NEW went, went = Went(s, n)
    PROVE  SeesAll(V, n, went)
<1> DEFINE k == Rank(s, V, s.current)
           Place(i) == Rank(s, V, went[i].current)
<1>1. IsFiniteSet(V) /\ Total(s, V)
  BY VisibleIsTotal
<1>2. k \in Nat /\ n \in Nat /\ k < n
  BY <1>1, RankType
<1>3. \A i \in 0..n : OnTheWay(s, went[i]) /\ Place(i) = Turned(k + i, n)
  BY WentRank
<1>4. \A i \in 0..n : went[i].current \in V
  BY <1>3 DEF OnTheWay
<1> HIDE DEF k
<1>5. ASSUME NEW v \in V
      PROVE  \E i \in 1..n : went[i].current = v
  <2> DEFINE j == Rank(s, V, v)
             i == IF j > k THEN j - k ELSE j - k + n
  <2>1. j \in Nat /\ j < n
    BY <1>1, RankType
  <2> HIDE DEF j
  <2>2. i \in 1..n /\ i \in 0..n /\ Turned(k + i, n) = j
    BY <1>2, <2>1 DEF Turned
  <2> HIDE DEF i
  <2>3. Place(i) = j /\ went[i].current \in V
    BY <1>3, <1>4, <2>2
  <2>4. went[i].current = v
    BY <1>1, <2>3, RankOrder DEF j
  <2> QED
    BY <2>2, <2>4
<1>6. {went[i].current : i \in 1..n} = V
  <2>1. \A i \in 1..n : i \in 0..n
    BY <1>2
  <2> QED
    BY <1>4, <1>5, <2>1
<1>7. ASSUME NEW i \in 1..n
      PROVE  PreviousOrLast(went[i]).current = went[i - 1].current
  <2> DEFINE back == PreviousOrLast(went[i]).current
  <2>1. i \in 0..n /\ i - 1 \in 0..n
    BY <1>2
  <2>2. back \in V /\ Rank(s, V, back) = IF Place(i) = 0 THEN n - 1 ELSE Place(i) - 1
    BY <1>3, <2>1, BackRank
  <2>3. (IF Turned(k + i, n) = 0 THEN n - 1 ELSE Turned(k + i, n) - 1) = Turned(k + (i - 1), n)
    BY <1>2, <2>1 DEF Turned
  <2>4. Place(i) = Turned(k + i, n) /\ Place(i - 1) = Turned(k + (i - 1), n)
    BY <1>3, <2>1
  <2>5. Rank(s, V, back) = Place(i - 1)
    BY <2>2, <2>3, <2>4
  <2> HIDE DEF back
  <2>6. back = went[i - 1].current
    BY <1>1, <1>4, <2>1, <2>2, <2>5, RankOrder
  <2> QED
    BY <2>6 DEF back
<1> QED
  BY <1>6, <1>7 DEF SeesAll

\* Every session on the stack
AllTidy == \A k \in 1..Len(stack) : stack[k] \in TidyOnes

LEMMA StartsTidy ==
    Init => Inv /\ AllTidy
BY BrowsingAssumption DEF Init, Inv, TypeOK, CurrentIsListed, Text, File, AllTidy

LEMMA TidyStep ==
    ASSUME Inv, AllTidy, [Next]_vars
    PROVE  AllTidy'
<1>1. /\ TypeOK /\ stack \in Seq(Session) /\ top \in 0..Len(stack)
      /\ \A k \in 1..Len(stack) : Sound(stack[k])
  BY DEF Inv, TypeOK, CurrentIsListed, Sound
<1>2. \A s \in Openings : s \in TidyOnes
  BY <1>1, OpeningsTidy
<1>3. top # 0 => \A s \in Outcomes(stack[top]) : s \in TidyOnes
  <2>1. top # 0 => stack[top] \in TidyOnes /\ Sound(stack[top])
    BY <1>1 DEF AllTidy
  <2> QED
    BY <1>1, <2>1, OutcomesTidy
<1>4. TidyOnes \in SUBSET Session
  BY DEF TidyOnes
<1>5. \A k \in 1..Len(stack') : stack'[k] \in TidyOnes
  <2>1. \A k \in 1..Len(stack) : stack[k] \in TidyOnes
    BY DEF AllTidy
  <2> QED
    BY <1>2, <1>3, <1>4, <2>1, SessionWise
<1> QED
  BY <1>5 DEF AllTidy, TidyOnes

\* From any reference that the filter lets through, NEXT goes through all of these and
\* comes back, and PREVIOUS undoes each NEXT, at the two ends of the list too: no list
\* that the operations make has two references of a place, so that its order is total,
\* by importance as well as by place (addReferenceToListWithoutUsageCheck(),
\* setCurrentReferenceToNextOrFirst(), setCurrentReferenceToPreviousOrLast()).
THEOREM NothingIsPassedOver == Spec => []RoundTrip
<1>1. Init => Inv /\ AllTidy
  BY StartsTidy
<1>2. Inv /\ AllTidy /\ [Next]_vars => AllTidy'
  BY TidyStep
<1>3. Inv /\ [Next]_vars => Inv'
  BY InvStep
<1>4. ASSUME AllTidy
      PROVE  RoundTrip
  <2>1. ASSUME NEW k \in 1..Len(stack),
               stack[k].current \in Unfiltered(stack[k], stack[k].list)
        PROVE  LET s == stack[k]
                   visible == Unfiltered(s, s.list)
                   n == Cardinality(visible)
                   went == Went(s, n)
               IN  /\ {went[i].current : i \in 1..n} = visible
                   /\ \A i \in 1..n : PreviousOrLast(went[i]).current = went[i - 1].current
    <3> DEFINE s == stack[k]
               V == Unfiltered(s, s.list)
               n == Cardinality(V)
               went == Went(s, n)
    <3>1. /\ s \in TidyOnes /\ s.current \in V
          /\ V = Unfiltered(s, s.list) /\ n = Cardinality(V) /\ went = Went(s, n)
      BY <1>4, <2>1 DEF AllTidy
    <3> HIDE DEF s, V, n, went
    <3>2. SeesAll(V, n, went)
      BY <3>1, AllTheWay
    <3> QED
      BY <3>2 DEF SeesAll, s, V, n, went
  <2> QED
    BY <2>1, Zenon DEF RoundTrip
<1> QED
  BY <1>1, <1>2, <1>3, <1>4, PTL DEF Spec

-----------------------------------------------------------------------------
(* What a refresh does to a session that needs none                        *)

\* The place that Nearest finds is the one that was left
LEMMA NearestIsSame ==
    ASSUME NEW s \in Session, Tidy(s.list), NEW c \in Unfiltered(s, s.list)
    PROVE  Nearest(s, c).current = c
<1> DEFINE visible == Unfiltered(s, s.list)
           here == {r \in visible : c # NoRef /\ r.file = c.file}
           close == {r \in here : \A q \in here : Distance(r, c) <= Distance(q, c)}
<1>1. c \in s.list /\ s.list \subseteq Ref /\ c \in Ref /\ c # NoRef
  BY BrowsingAssumption DEF Unfiltered, Session
<1>2. visible \subseteq s.list /\ c \in visible
  BY DEF Unfiltered
<1> HIDE DEF visible
<1>3. c \in here /\ here \subseteq s.list
  BY <1>1, <1>2
<1>4. \A r \in here : r.file = c.file /\ r.line \in Nat
  BY <1>1, <1>3 DEF Ref
<1> HIDE DEF here
<1>5. \A r \in here : Distance(r, c) \in Nat /\ (Distance(r, c) = 0 => r.line = c.line)
  BY <1>3, <1>4 DEF Distance
<1>6. Distance(c, c) = 0
  BY <1>1 DEF Distance, Ref
<1>7. c \in close
  BY <1>3, <1>5, <1>6
<1>8. \A r \in close : r = c
  <2> TAKE r \in close
  <2>1. r \in here /\ Distance(r, c) <= Distance(c, c)
    BY <1>3
  <2>2. Distance(r, c) \in Nat /\ (Distance(r, c) = 0 => r.line = c.line)
    BY <2>1, <1>5
  <2>3. r.line = c.line /\ r.file = c.file
    BY <1>4, <1>6, <2>1, <2>2
  <2> QED
    BY <1>1, <1>3, <2>1, <2>3 DEF Tidy, SamePlace
<1>9. close = {c}
  BY <1>7, <1>8
<1>10. Nearest(s, c) = [s EXCEPT !.current = IF close = {} THEN First(s, visible)
                                             ELSE First(s, close)]
  BY DEF Nearest, visible, here
<1> HIDE DEF close
<1>11. Nearest(s, c).current = First(s, {c})
  BY <1>9, <1>10 DEF Session
<1>12. {r \in {c} : \A q \in {c} \ {r} : InOrder(s, r, q)} = {c}
  OBVIOUS
<1>13. First(s, {c}) = CHOOSE r \in {c} : TRUE
  BY <1>12, Zenon DEF First
<1> QED
  BY <1>11, <1>13

\* What a list has of a file is from what the copies have of it
LEMMA SelectedByFile ==
    ASSUME NEW s, NEW t, NEW h, t.selected = s.selected,
           \A i \in s.selected : Of(h, t.copy[i]) = Of(h, s.copy[i])
    PROVE  Of(h, Selected(t)) = Of(h, Selected(s))
<1>1. \A i \in s.selected : \A r : r.file = h => (r \in t.copy[i] <=> r \in s.copy[i])
  BY DEF Of
<1> DEFINE In(u, r, i) == r \in u.copy[i] /\ \A j \in s.selected : MenuOrder[j] < MenuOrder[i] =>
                              \A q \in u.copy[j] : ~SamePlace(q, r)
<1>2. \A r : /\ r \in Selected(s) <=> \E i \in s.selected : In(s, r, i)
             /\ r \in Selected(t) <=> \E i \in s.selected : In(t, r, i)
  BY DEF Selected
<1>3. \A i \in s.selected : \A r : r.file = h => (In(t, r, i) <=> In(s, r, i))
  BY <1>1 DEF SamePlace
<1> HIDE DEF In
<1>4. \A r : r.file = h => (r \in Selected(t) <=> r \in Selected(s))
  BY <1>2, <1>3
<1> QED
  BY <1>4 DEF Of

LEMMA ByFile ==
    ASSUME NEW R \in SUBSET Ref, NEW S \in SUBSET Ref, \A f \in File : Of(f, R) = Of(f, S)
    PROVE  R = S
<1>1. \A r \in Ref : r.file \in File
  BY DEF Ref
<1>2. \A r \in Ref : r \in R <=> r \in Of(r.file, R)
  BY DEF Of
<1>3. \A r \in Ref : r \in S <=> r \in Of(r.file, S)
  BY DEF Of
<1>4. \A r \in Ref : r \in R <=> r \in S
  BY <1>1, <1>2, <1>3
<1> QED
  BY <1>4

\* A default that stays has nothing better beside it
LEMMA NoneIsBetter ==
    ASSUME NEW d, NEW N \in SUBSET TableRef, NewDefault(d, N) = d
    PROVE  Better(d, N) = {}
<1>1. SUFFICES ASSUME Better(d, N) # {} PROVE FALSE
  OBVIOUS
<1>2. Better(d, N) \in SUBSET TableRef /\ Better(d, N) \in SUBSET Ref
  BY TableRefType DEF Better
<1>3. Foremost(Better(d, N)) # {} /\ Foremost(Better(d, N)) \in SUBSET TableRef
      /\ Foremost(Better(d, N)) \subseteq Better(d, N)
  BY <1>1, <1>2, ForemostIsSome
<1>4. d \in Better(d, N)
  BY <1>1, <1>3, AddedFirstIsOne DEF NewDefault
<1>5. d \in Ref /\ d # NoRef
  BY <1>2, <1>4, BrowsingAssumption
<1>6. d.usage < d.usage /\ d.usage \in Nat
  BY <1>4, <1>5 DEF Better, Ref, Usage
<1> QED
  BY <1>6

\* and then the place alone decides on the best fit.
Fitted(d, r) ==
    IF r.usage = Defined /\ d # NoRef /\ SamePlace(d, r) THEN [r EXCEPT !.usage = BestFit] ELSE r

LEMMA PlaceDecides ==
    ASSUME NEW d, NEW N, Better(d, N) = {}
    PROVE  NewDefault(d, N) = d /\ \A r : AsCopied(d, N, r) = Fitted(d, r)
<1>1. NewDefault(d, N) = d
  BY DEF NewDefault
<1> QED
  BY <1>1 DEF AsCopied, FitsBest, Fitted

\* A refresh of a file after that of another one has that file's references of the
\* table to copy, and copies of them what it would have before.
LEMMA CopiedTwice ==
    ASSUME TypeOK, NEW s \in Session, NEW t \in Session, NEW i \in Item, NEW f, NEW g,
           t.copy[i] = NewCopy(s, i, f), t.default[i] = s.default[i],
           NewDefault(s.default[i], NewIn(s, i, g)) = s.default[i]
    PROVE  /\ NewDefault(t.default[i], NewIn(t, i, g)) = t.default[i]
           /\ \A h : h # g => Of(h, NewCopy(t, i, g)) = Of(h, t.copy[i])
           /\ Of(g, NewCopy(t, i, g)) = Of(g, NewCopy(s, i, g))
<1> DEFINE M == Merged(i)
           d == s.default[i]
           before == NewIn(s, i, g)
           after == NewIn(t, i, g)
<1>1. M \subseteq TableRef /\ \A r \in M : r \in Ref
  BY RefsType, TableRefType
<1>2. before \subseteq M /\ after \subseteq M /\ NewIn(s, i, f) \subseteq M
  BY DEF NewIn, New
<1>3. \A r \in M : r.file = g => r \in before /\ r \in after
  BY DEF NewIn, New, Kept, SamePlace
<1>4. ASSUME NEW r \in M
      PROVE  \E q \in t.copy[i] : SamePlace(q, r)
  <2>1. CASE \E q \in Kept(s, i, f) : SamePlace(q, r)
    BY <2>1 DEF NewCopy
  <2>2. CASE \A q \in Kept(s, i, f) : ~SamePlace(q, r)
    <3> DEFINE c == AsCopied(d, NewIn(s, i, f), r)
    <3>1. r \in NewIn(s, i, f)
      BY <2>2 DEF NewIn, New
    <3>2. c \in NewCopy(s, i, f)
      BY <3>1, CopiedHas DEF NewCopy
    <3>3. SamePlace(c, r)
      BY <1>1, AsCopiedType DEF SamePlace
    <3> QED
      BY <3>2, <3>3
  <2> QED
    BY <2>1, <2>2
<1>5. \A r \in after : r.file = g
  <2>1. \A r \in after : \A q \in Kept(t, i, g) : ~SamePlace(q, r)
    BY DEF NewIn, New
  <2> QED
    BY <1>2, <1>4, <2>1 DEF Kept, SamePlace
<1>6. before \in SUBSET TableRef /\ Better(d, before) = {}
  BY <1>1, <1>2, NoneIsBetter
<1>7. after \subseteq before
  BY <1>2, <1>3, <1>5
<1>8. Better(d, after) = {}
  BY <1>6, <1>7 DEF Better
<1>9. /\ NewDefault(d, after) = d
      /\ \A r : AsCopied(d, after, r) = Fitted(d, r)
      /\ \A r : AsCopied(d, before, r) = Fitted(d, r)
  BY <1>6, <1>8, PlaceDecides
<1>10. /\ \A r : r \in NewCopy(t, i, g) <=>
              (r \in t.copy[i] /\ r.file # g) \/ \E q \in after : r = Fitted(d, q)
       /\ \A r : r \in NewCopy(s, i, g) <=>
              (r \in s.copy[i] /\ r.file # g) \/ \E q \in before : r = Fitted(d, q)
  BY <1>9, CopiedHas DEF NewCopy, Kept
<1>11. \A q \in before : Fitted(d, q).file = q.file
  BY <1>1, <1>2, <1>9, AsCopiedType
<1> HIDE DEF before, after, d, M
<1>12. ASSUME NEW h, h # g
       PROVE  Of(h, NewCopy(t, i, g)) = Of(h, t.copy[i])
  <2>1. \A r : r.file = h => (r \in NewCopy(t, i, g) <=> r \in t.copy[i])
    BY <1>5, <1>7, <1>10, <1>11, <1>12
  <2> QED
    BY <2>1 DEF Of
<1>13. \A r : r.file = g => (r \in NewCopy(t, i, g) <=> r \in NewCopy(s, i, g))
  BY <1>2, <1>3, <1>7, <1>10, <1>11
<1>14. Of(g, NewCopy(t, i, g)) = Of(g, NewCopy(s, i, g))
  BY <1>13 DEF Of
<1> QED
  BY <1>9, <1>12, <1>14 DEF d, after

\* A refresh of such a session changes nothing that NEXT or PREVIOUS would see, and
\* leaves it such a session.
LEMMA RefreshIsNone ==
    ASSUME TypeOK, NEW s \in TidyOnes, Settled(s), NEW f \in File
    PROVE  LET t == Nearest(Update(s, f), s.current)
           IN  t \in TidyOnes /\ SameView(s, t) /\ Settled(t)
<1> DEFINE u == Update(s, f)
           c == s.current
           t == Nearest(u, c)
<1>1. /\ s \in Session /\ Tidy(s.list)
      /\ u \in Session /\ u.sorted = "importance" /\ u.limit = s.limit
      /\ u.selected = s.selected /\ u.symbol = s.symbol /\ u.list = Selected(u)
      /\ \A i \in Item : u.copy[i] = IF i \in ItemsOf[s.symbol] THEN NewCopy(s, i, f) ELSE {}
  BY UpdateGives DEF TidyOnes
<1>2. u.list = s.list /\ u.default = s.default
  BY DEF Settled
<1>3. t \in TidyOnes
  BY RefreshedTidy
<1>4. ItemsOf[s.symbol] \subseteq Item
  BY <1>1 DEF Session, Item
<1> HIDE DEF u
<1>5. c \in Unfiltered(u, u.list)
  BY <1>1, <1>2 DEF Settled, Unfiltered
<1>6. t.current = c
  BY <1>1, <1>2, <1>5, NearestIsSame
<1>7. /\ t.list = u.list /\ t.sorted = u.sorted /\ t.limit = u.limit /\ t.copy = u.copy
      /\ t.default = u.default /\ t.selected = u.selected /\ t.symbol = u.symbol
  BY <1>1 DEF Nearest, Session
<1>8. t \in Session
  BY <1>1, NearestSound DEF Sound
<1> HIDE DEF t
<1>9. SameView(s, t)
  BY <1>1, <1>2, <1>6, <1>7 DEF SameView, Settled
<1>10. ASSUME NEW g \in File
       PROVE  Update(t, g).list = t.list /\ Update(t, g).default = t.default
  <2> DEFINE v == Update(t, g)
             w == Update(s, g)
  <2>1. /\ v \in Session /\ v.selected = s.selected /\ v.list = Selected(v)
        /\ v.default = Defaults(t, g)
        /\ \A i \in Item : v.copy[i] = IF i \in ItemsOf[s.symbol] THEN NewCopy(t, i, g) ELSE {}
    BY <1>1, <1>7, <1>8, UpdateGives
  <2>2. /\ w.selected = s.selected /\ w.list = Selected(w) /\ w.default = Defaults(s, g)
        /\ \A i \in Item : w.copy[i] = IF i \in ItemsOf[s.symbol] THEN NewCopy(s, i, g) ELSE {}
    BY <1>1, UpdateGives
  <2>3. w.list = s.list /\ w.default = s.default
    BY DEF Settled
  <2> HIDE DEF v, w
  <2>4. ASSUME NEW i \in ItemsOf[s.symbol]
        PROVE  /\ NewDefault(t.default[i], NewIn(t, i, g)) = t.default[i]
               /\ \A h : h # g => Of(h, NewCopy(t, i, g)) = Of(h, t.copy[i])
               /\ Of(g, NewCopy(t, i, g)) = Of(g, NewCopy(s, i, g))
    <3>1. i \in Item /\ t.copy[i] = NewCopy(s, i, f) /\ t.default[i] = s.default[i]
      BY <1>1, <1>2, <1>4, <1>7
    <3>2. Defaults(s, g)[i] = s.default[i]
      BY <2>2, <2>3
    <3>3. NewDefault(s.default[i], NewIn(s, i, g)) = s.default[i]
      BY <3>1, <3>2 DEF Defaults
    <3> QED
      BY <1>1, <1>8, <3>1, <3>3, CopiedTwice
  <2>5. v.default = t.default
    <3>1. \A i \in Item : Defaults(t, g)[i] = t.default[i]
      BY <1>1, <1>7, <2>4 DEF Defaults
    <3>2. Defaults(t, g) = [i \in Item |-> Defaults(t, g)[i]]
      BY DEF Defaults
    <3>3. t.default = [i \in Item |-> t.default[i]]
      BY <1>8 DEF Session
    <3> QED
      BY <2>1, <3>1, <3>2, <3>3
  <2>6. s.selected \subseteq Item
    BY <1>1 DEF Session
  <2>7. Of(g, v.list) = Of(g, s.list)
    <3>1. \A i \in w.selected : Of(g, v.copy[i]) = Of(g, w.copy[i])
      BY <2>1, <2>2, <2>4, <2>6
    <3>2. v.selected = w.selected
      BY <2>1, <2>2
    <3>3. Of(g, Selected(v)) = Of(g, Selected(w))
      BY <3>1, <3>2, SelectedByFile
    <3> QED
      BY <2>1, <2>2, <2>3, <3>3
  <2>8. ASSUME NEW h \in File, h # g
        PROVE  Of(h, v.list) = Of(h, s.list)
    <3>1. \A i \in u.selected : Of(h, v.copy[i]) = Of(h, u.copy[i])
      BY <1>1, <1>7, <2>1, <2>4, <2>6, <2>8
    <3>2. v.selected = u.selected
      BY <1>1, <2>1
    <3>3. Of(h, Selected(v)) = Of(h, Selected(u))
      BY <3>1, <3>2, SelectedByFile
    <3> QED
      BY <1>1, <1>2, <2>1, <3>3
  <2>9. v.list \in SUBSET Ref /\ s.list \in SUBSET Ref
    BY <1>1, <2>1 DEF Session
  <2>10. v.list = s.list
    BY <2>7, <2>8, <2>9, ByFile
  <2> QED
    BY <1>2, <1>7, <2>5, <2>10 DEF v
<1>11. Settled(t)
  <2>1. t.current \in Unfiltered(t, t.list)
    BY <1>5, <1>6, <1>7 DEF Unfiltered
  <2> QED
    BY <1>1, <1>7, <1>10, <2>1 DEF Settled
<1> QED
  BY <1>3, <1>9, <1>11 DEF t, u

LEMMA GotoSettled ==
    ASSUME TypeOK, NEW s0 \in TidyOnes, Settled(s0), NEW f \in File,
           NEW marks \in SUBSET File, NEW way \in Ways
    PROVE  Goto(s0, f, marks, way).session.current = Moved(s0, way).current
<1> DEFINE s == IF f \in marks THEN Nearest(Update(s0, f), s0.current) ELSE s0
           target == Target(s, way)
           again == Nearest(Update(s, target.file), s.current)
<1>1. s0 \in Session /\ s \in TidyOnes /\ s \in Session /\ SameView(s0, s) /\ Settled(s)
  BY RefreshIsNone DEF SameView, TidyOnes
<1> HIDE DEF s
<1>2. s.current # NoRef
  BY <1>1, BrowsingAssumption DEF Settled, Unfiltered, Session
<1>3. Moved(s, way).current = Moved(s0, way).current
  BY <1>1, SameMove
<1>4. CASE target # NoRef /\ target.file \in marks \ {f}
  <2>1. target.file \in File
    BY <1>4
  <2> HIDE DEF target
  <2>2. again \in Session /\ SameView(s, again)
    BY <1>1, <2>1, RefreshIsNone DEF TidyOnes
  <2> HIDE DEF again
  <2>3. Moved(again, way).current = Moved(s, way).current
    BY <1>1, <2>2, SameMove
  <2>4. Goto(s0, f, marks, way).session = Moved(again, way)
    BY <1>4 DEF Goto, s, target, again
  <2> QED
    BY <1>3, <2>3, <2>4
<1>5. CASE ~(target # NoRef /\ target.file \in marks \ {f})
  <2>1. Goto(s0, f, marks, way).session
        = IF s.current = NoRef THEN [s EXCEPT !.current = First(s, s.list)] ELSE Moved(s, way)
    BY <1>5 DEF Goto, s, target
  <2> QED
    BY <1>2, <1>3, <2>1
<1> QED
  BY <1>4, <1>5

\* A session that no refresh would change in its list or its defaults moves the same
\* whatever files are marked: the place that it had is found again in what the
\* refreshes of the request's file and of the target's make of the list
\* (restoreToNearestReference()), and after the one the other changes nothing either.
THEOREM MarksDoNotMatter == Spec => []RefreshKeepsPlace
<1>1. Init => Inv /\ AllTidy
  BY StartsTidy
<1>2. Inv /\ AllTidy /\ [Next]_vars => Inv' /\ AllTidy'
  BY InvStep, TidyStep
<1>3. ASSUME Inv, AllTidy
      PROVE  RefreshKeepsPlace
  <2>1. TypeOK
    BY <1>3 DEF Inv
  <2>2. request # NoRequest => request.file \in File
    BY <2>1 DEF TypeOK, Request
  <2> QED
    BY <1>3, <2>1, <2>2, GotoSettled DEF RefreshKeepsPlace, AllTidy
<1> QED
  BY <1>1, <1>2, <1>3, PTL DEF Spec
=============================================================================
