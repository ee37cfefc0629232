------------------------------ MODULE Browsing ------------------------------
(***************************************************************************)
(* The browsing stack and its navigation (session.c, navigation.c, and the *)
(* answers of cxref.c): sessions keep copies of references, and the entry  *)
(* refresh of a request changes the table they were copied from.           *)
(*                                                                         *)
(* A reference is a file, a line and a usage, one reference to a line.     *)
(* The entry refresh is what Freshness models in detail.  Here it is one   *)
(* step: which CUs are old, which of them are built, and which files are   *)
(* marked for the sessions to look at again (needsBrowsingStackRefresh).   *)
(*                                                                         *)
(* PushedOnTop, KeptAll and the like are mistaken forms of the definition  *)
(* that follows them, for the properties to catch.                         *)
(***************************************************************************)
EXTENDS Integers, Sequences, FiniteSets

CONSTANTS
    CUs, Headers,     \* the project's files
    Includes,         \* pairs <<CU, header>>
    NameOrder,        \* a file's place in the order of file names
    Symbols,          \* what a push may be for
    ItemsOf,          \* the items of the table a push of a symbol lists
    FittingOf,        \* those that match well enough to be selected
    ShownAt,          \* those that the menu shows at a menu filter level
    LinkName,         \* the link name of an item
    Macros,           \* the items whose definition is known where they are used
    MenuOrder,        \* an item's place in a menu (browsingMenuIsLess())
    Found(_, _, _),   \* the lines and usages of an item in a text of a file
    AddedAt(_),       \* a reference's place in the order of the table: by item, then
                      \* by file number and line
    Asked,            \* the files that requests name
    Held,             \* the files whose changes the client holds unsaved
    Limits,           \* usageFilterLevels
    MenuLevels,       \* menu filter levels
    NoText, NoRef, NoRequest,
    MaxDepth,         \* bound: sessions on the stack
    MaxEdits          \* bound: texts made after the first

File == CUs \cup Headers
Text == 0..MaxEdits
Item == UNION {ItemsOf[y] : y \in Symbols}

\* usage.h, where less is more important
Usage == 0..7
BestFit == 0
Defined == 1
Declared == 2
AllUsages == 8
Definitions == {BestFit, Defined, Declared}

Ref == [file : File, line : Nat, usage : Usage]

ASSUME BrowsingAssumption ==
    /\ CUs \cap Headers = {} /\ Includes \subseteq CUs \X Headers
    /\ NameOrder \in [File -> Nat]
    /\ \A f, g \in File : NameOrder[f] = NameOrder[g] => f = g
    /\ FittingOf \in [Symbols -> SUBSET Item]
    /\ ShownAt \in [Symbols -> [MenuLevels -> SUBSET Item]]
    /\ \A y \in Symbols, l \in MenuLevels : ShownAt[y][l] \subseteq ItemsOf[y]
    /\ MenuOrder \in [Item -> Nat]
    /\ \A i, j \in Item : MenuOrder[i] = MenuOrder[j] => i = j
    /\ Macros \subseteq Item
    /\ 0 \in MenuLevels /\ AllUsages \in Limits /\ Limits \subseteq Nat
    /\ \A i \in Item, f \in File, t \in Text :
          /\ Found(i, f, t) \subseteq [line : Nat, usage : Usage \ {BestFit}]
          /\ \A p \in Found(i, f, t) :
                AddedAt([file |-> f, line |-> p.line, usage |-> p.usage]) \in Nat
    /\ Asked \subseteq File /\ Held \subseteq File
    /\ NoText \notin Text /\ NoRef \notin Ref
    /\ MaxDepth \in Nat /\ MaxEdits \in Nat

\* One reference to a place: of those that one list may come to hold, what two
\* items have there is the same (addReferenceToListWithoutUsageCheck()).
InOneList(i, j) ==
    \E y \in Symbols : \E k, l \in ItemsOf[y] :
        LinkName[k] = LinkName[i] /\ LinkName[l] = LinkName[j]
ASSUME PlaceAssumption ==
    \A i, j \in Item, f \in File, t \in Text : InOneList(i, j) =>
        \A p \in Found(i, f, t), q \in Found(j, f, t) : p.line = q.line => p = q

ASSUME FiniteAssumption ==
    /\ IsFiniteSet(File) /\ IsFiniteSet(Item)
    /\ \A i \in Item, f \in File, t \in Text : IsFiniteSet(Found(i, f, t))

\* parses: requiresProcessingInputFile()
Request == [file : File, parses : BOOLEAN]

ASSUME RequestAssumption == NoRequest \notin Request

VARIABLES
    text,       \* what the server reads of each file; every edit makes a new one
    edits,
    parsed,     \* the text its references in the table are of, or NoText
    changed,    \* the headers edited since the last removal pass
    old,        \* the CUs whose knowledge is out of date
    marked,     \* needsBrowsingStackRefresh
    stack, top, \* the browsing stack; what was popped is above top
    request     \* the request being answered

knowledge == <<parsed, changed, old>>
vars == <<text, edits, knowledge, marked, stack, top, request>>

-----------------------------------------------------------------------------
(* The entry refresh *)

Includers(f) == {c \in CUs : <<c, f>> \in Includes}
ReadWith(c) == {c} \cup {h \in Headers : <<c, h>> \in Includes}
\* The CUs that share a header with a file, or include it
Siblings(f) ==
    {c \in CUs \ {f} : ReadWith(c) \cap ((IF f \in CUs THEN ReadWith(f) ELSE {f}) \ CUs) # {}}

\* What an item has in the table
Recorded(i, f) ==
    IF parsed[f] = NoText THEN {}
    ELSE {[file |-> f, line |-> p.line, usage |-> p.usage] : p \in Found(i, f, parsed[f])}
RefsOf(i) == UNION {Recorded(i, f) : f \in File}

\* Before the answer: changed headers lose their references, some CUs are
\* built, all that are held among them, and an operation that needs the
\* request file parsed parses it.  The cap may leave a sibling old.
\* A request that names no file, as one of a menu may, builds no more than what is
\* held: it is one for a header all of whose siblings are left.
Ask(f, parses) ==
    /\ request = NoRequest
    /\ parses => f \in CUs
    /\ \E some \in SUBSET (Siblings(f) \cap old) :
          LET built == some \cup (Held \cap old) \cup (IF parses THEN {} ELSE {f} \cap old)
              read == built \cup (IF parses THEN {f} ELSE {})
          IN  /\ parsed' = [g \in File |->
                               IF \E c \in read : g \in ReadWith(c) THEN text[g]
                               ELSE IF g \in changed THEN NoText
                               ELSE parsed[g]]
              /\ marked' = marked \cup changed \cup built
              /\ old' = old \ read
    /\ changed' = {}
    /\ request' = [file |-> f, parses |-> parses]
    /\ UNCHANGED <<text, edits, stack, top>>

KeepTable == UNCHANGED <<text, edits, knowledge>>

\* The user edits a file between requests
Edit(f) ==
    /\ request = NoRequest
    /\ edits < MaxEdits
    /\ edits' = edits + 1
    /\ text' = [text EXCEPT ![f] = edits']
    /\ changed' = changed \cup ({f} \cap Headers)
    /\ old' = old \cup ({f} \cap CUs) \cup Includers(f)
    /\ UNCHANGED <<parsed, marked, stack, top, request>>

-----------------------------------------------------------------------------
(* A session: its menu with copies of references, the list made of what is *)
(* selected, and the place in it                                           *)

\* referenceIsLessThan() and referenceIsLessThanOrderImportant()
Earlier(a, b) ==
    \/ NameOrder[a.file] < NameOrder[b.file]
    \/ a.file = b.file /\ a.line < b.line
MoreImportant(a, b) ==
    IF a.usage # b.usage /\ {a.usage, b.usage} \cap Definitions # {}
    THEN a.usage < b.usage
    ELSE Earlier(a, b)
InOrder(s, a, b) == IF s.sorted = "importance" THEN MoreImportant(a, b) ELSE Earlier(a, b)

First(s, R) ==
    LET firsts == {r \in R : \A q \in R \ {r} : InOrder(s, r, q)}
    IN  IF firsts = {} THEN NoRef ELSE CHOOSE r \in firsts : TRUE
Last(s, R) ==
    LET lasts == {r \in R : \A q \in R \ {r} : InOrder(s, q, r)}
    IN  IF lasts = {} THEN NoRef ELSE CHOOSE r \in lasts : TRUE

Unfiltered(s, R) == {r \in R : r.usage < s.limit}
After(s) == {r \in s.list : s.current # NoRef /\ InOrder(s, s.current, r)}
Before(s) == {r \in s.list : s.current # NoRef /\ InOrder(s, r, s.current)}

\* setCurrentReferenceToFirstAfterCallerPosition()
AfterCaller(s, R) ==
    LET byPlace == [s EXCEPT !.sorted = "place"]
        here == {r \in R : r.file = s.caller.file}
        behind == {r \in here : r.line < s.caller.line}
    IN  IF here = {} THEN First(byPlace, R)
        ELSE IF here = behind THEN Last(byPlace, behind)
        ELSE First(byPlace, here \ behind)

\* addReferenceToListWithoutUsageCheck(): of a place a list keeps the first
SamePlace(q, r) == q.file = r.file /\ q.line = r.line
New(R, S) == {r \in S : \A q \in R : ~SamePlace(q, r)}

\* addReferenceToBrowsingMenu(), for what is new in the copy of an item with the
\* default d (defaultPosition and defaultUsage): the first one that is added of the
\* most important definitions becomes the default, if it is more important, and
\* the definition at the default is taken for the best fit.
Better(d, N) == {r \in N : r.usage \in Definitions /\ (d = NoRef \/ r.usage < d.usage)}
Foremost(N) == {r \in N : \A q \in N : r.usage <= q.usage}
AddedFirst(N) == CHOOSE r \in N : \A q \in N : AddedAt(r) <= AddedAt(q)
NewDefault(d, N) == IF Better(d, N) = {} THEN d ELSE AddedFirst(Foremost(Better(d, N)))
FitsBest(d, N, r) ==
    r.usage = Defined /\ d # NoRef /\ SamePlace(d, r) /\ NewDefault(d, N) \in {d, r}
Copied(d, N) == {IF FitsBest(d, N, r) THEN [r EXCEPT !.usage = BestFit] ELSE r : r \in N}

\* genOnLineReferences() for one item of the menu after another
Selected(s) ==
    UNION {{r \in s.copy[i] : \A j \in s.selected : MenuOrder[j] < MenuOrder[i] =>
                                  \A q \in s.copy[j] : ~SamePlace(q, r)} : i \in s.selected}

\* recomputeSelectedReferenceable()
RecomputeList(s) == [s EXCEPT !.list = Selected(s), !.sorted = "importance"]
Recompute(s) ==
    [s EXCEPT !.list = Selected(s), !.current = AfterCaller(s, Selected(s)),
              !.sorted = "importance"]

\* What updateSessionReferencesForFile() puts in the copies: an item gets the
\* references of all items with its link name, where it has none.
Merged(i) == UNION {RefsOf(j) : j \in {j \in Item : LinkName[j] = LinkName[i]}}
KeptAll(s, i, f) == s.copy[i]
Kept(s, i, f) == {r \in s.copy[i] : r.file # f}
NewIn(s, i, f) == New(Kept(s, i, f), Merged(i))
Update(s, f) ==
    Recompute([s EXCEPT
        !.copy = [i \in Item |->
            IF i \in ItemsOf[s.symbol] THEN Kept(s, i, f) \cup Copied(s.default[i], NewIn(s, i, f))
            ELSE {}],
        !.default = [i \in Item |->
            IF i \in ItemsOf[s.symbol] THEN NewDefault(@[i], NewIn(s, i, f)) ELSE @[i]]])

\* restoreToNearestReference()
Distance(r, q) == IF r.line < q.line THEN q.line - r.line ELSE r.line - q.line
NearestIsFirst(s, saved) == [s EXCEPT !.current = First(s, Unfiltered(s, s.list))]
Nearest(s, saved) ==
    LET visible == Unfiltered(s, s.list)
        here == {r \in visible : saved # NoRef /\ r.file = saved.file}
        close == {r \in here : \A q \in here : Distance(r, saved) <= Distance(q, saved)}
    IN  [s EXCEPT !.current = IF close = {} THEN First(s, visible) ELSE First(s, close)]

\* setCurrentReferenceToNextOrFirst() from what is left of the list
NextOrFirst(s, rest) ==
    LET ahead == Unfiltered(s, rest)
    IN  [s EXCEPT !.current =
            First(s, IF ahead = {} THEN Unfiltered(s, s.list) ELSE ahead)]
Previous(s) == Last(s, Unfiltered(s, Before(s)))
PreviousOrLastOfAll(s) ==
    [s EXCEPT !.current = IF Previous(s) = NoRef THEN Last(s, s.list) ELSE Previous(s)]
PreviousOrLast(s) ==
    [s EXCEPT !.current =
        IF Previous(s) = NoRef THEN Last(s, Unfiltered(s, s.list)) ELSE Previous(s)]

Following(s) == First(s, IF s.current = NoRef THEN s.list ELSE After(s))
Advance(s) == NextOrFirst(s, After(s))

\* gotoNextReference() and gotoPreviousReference(): the session and the marks
\* they leave.  The request's file comes first, then the file of the target.
Ways == {"next", "previous"}
Target(s, way) == IF way = "next" THEN Following(s) ELSE Previous(s)
Moved(s, way) == IF way = "next" THEN Advance(s) ELSE PreviousOrLast(s)
Goto(s0, f, marks, way) ==
    LET s == IF f \in marks THEN Nearest(Update(s0, f), s0.current) ELSE s0
        target == Target(s, way)
        again == Nearest(Update(s, target.file), s.current)
    IN  IF target # NoRef /\ target.file \in marks \ {f}
        THEN [session |-> Moved(again, way), marks |-> marks \ {f, target.file}]
        ELSE [session |-> IF s.current = NoRef THEN [s EXCEPT !.current = First(s, s.list)]
                          ELSE Moved(s, way),
              marks |-> marks \ {f}]

-----------------------------------------------------------------------------
(* The answers *)

Session == [symbol : Symbols, copy : [Item -> SUBSET Ref], default : [Item -> Ref \cup {NoRef}],
            selected : SUBSET Item, shown : SUBSET Item, list : SUBSET Ref, sorted : {"place", "importance"},
            current : Ref \cup {NoRef}, caller : Ref,
            limit : Limits, level : MenuLevels]

\* What handleFoundSymbolReference() knows of the definition that the cursor at r is
\* about: createSelectionMenu() gives it to all items of the menu.
DefaultsAt(i, r) ==
    LET definitions == {q \in UNION {Recorded(i, f) : f \in ReadWith(r.file)} : q.usage = Defined}
    IN  IF r.usage = Defined THEN {r}
        ELSE IF i \in Macros /\ definitions # {} THEN definitions
        ELSE {NoRef}

\* createSelectionMenuForOperation() and processSelectedReferences()
Opened(y, r, d) ==
    LET s == [symbol |-> y,
              copy |-> [i \in Item |-> IF i \in ItemsOf[y] THEN Copied(d, RefsOf(i)) ELSE {}],
              default |-> [i \in Item |-> IF i \in ItemsOf[y] THEN NewDefault(d, RefsOf(i)) ELSE d],
              selected |-> ShownAt[y][0] \cap FittingOf[y], shown |-> ShownAt[y][0],
              list |-> {}, sorted |-> "place", current |-> NoRef, caller |-> r,
              limit |-> AllUsages, level |-> 0]
    IN  [s EXCEPT !.list = Selected(s), !.current = AfterCaller(s, Selected(s))]

\* orderRefsAndGotoDefinition()
AtDefinition(s) ==
    LET ordered == [s EXCEPT !.sorted = "importance"]
        first == First(ordered, s.list)
    IN  IF s.list = {} \/ first.usage <= Declared THEN [ordered EXCEPT !.current = first]
        ELSE ordered

\* pushEmptySession() frees what was popped
Unpopped == SubSeq(stack, 1, top)

Answering(parses) ==
    request # NoRequest /\ request.parses = parses /\ request' = NoRequest
TopChanges(s) == stack' = [stack EXCEPT ![top] = s] /\ UNCHANGED top

\* A push goes to the definition, or stays (PUSH-ONLY, or a menu is shown first)
Push(y) ==
    /\ Answering(TRUE)
    /\ top < MaxDepth
    /\ \E i \in ItemsOf[y] : \E r \in Recorded(i, request.file) :
          \E d \in DefaultsAt(i, r) :
             \E s \in {Opened(y, r, d), AtDefinition(Opened(y, r, d))} :
                stack' = Append(Unpopped, s)
    /\ top' = top + 1
    /\ KeepTable /\ UNCHANGED marked

\* No symbol at the cursor, or a request like the one for the available
\* refactorings: the session is opened and deleted again.
PushNothing ==
    /\ Answering(TRUE)
    /\ stack' = Unpopped
    /\ KeepTable /\ UNCHANGED <<marked, top>>

Complete ==
    /\ Answering(TRUE)
    /\ KeepTable /\ UNCHANGED <<marked, stack, top>>

\* popReference()
Pop ==
    /\ Answering(FALSE)
    /\ top' = IF top = 0 THEN 0 ELSE top - 1
    /\ KeepTable /\ UNCHANGED <<marked, stack>>

RePush ==
    /\ Answering(FALSE)
    /\ top' = IF top = Len(stack) THEN top ELSE top + 1
    /\ KeepTable /\ UNCHANGED <<marked, stack>>

Navigate(way) ==
    /\ Answering(FALSE)
    /\ IF top = 0 THEN UNCHANGED <<marked, stack, top>>
       ELSE LET went == Goto(stack[top], request.file, marked, way)
            IN  TopChanges(went.session) /\ marked' = went.marks
    /\ KeepTable

\* gotoReferenceWithIndex(): the nth of those that the filter lets through
Nth(s, n) ==
    LET visible == Unfiltered(s, s.list)
        nth == {r \in visible : Cardinality({q \in visible : InOrder(s, q, r)}) = n - 1}
    IN  [s EXCEPT !.current = First(s, nth)]

\* setFilter()
Filtered(s, l) ==
    LET t == [s EXCEPT !.limit = l]
    IN  NextOrFirst(t, {r \in t.list : r = t.current} \cup After(t))

\* toggleMenuSelect(), menuSelectAll(), menuSelectAndSetFilter()
ToggledOnly(s, i) ==
    [s EXCEPT !.selected = IF i \in @ THEN @ \ {i} ELSE @ \cup {i}]
Toggled(s, i) ==
    Recompute([s EXCEPT !.selected = IF i \in @ THEN @ \ {i} ELSE @ \cup {i}])
AllSelected(s) == Recompute([s EXCEPT !.selected = @ \cup s.shown])
NoneSelected(s) == Recompute([s EXCEPT !.selected = @ \ s.shown])
MenuFiltered(s, l) ==
    IF l = s.level THEN s
    ELSE Recompute([s EXCEPT !.level = l, !.shown = ShownAt[s.symbol][l],
                             !.selected = ShownAt[s.symbol][l] \cap FittingOf[s.symbol]])

\* menuSelectOnly() with the line of an item: the last definition, or else the
\* first declaration, if there is one
OnlySelected(s, i) ==
    LET t == Recompute([s EXCEPT !.selected = {i}])
        defined == Last(t, {r \in t.list : r.usage < Declared})
        declared == First(t, {r \in t.list : r.usage = Declared})
        definition == IF defined # NoRef THEN defined ELSE declared
    IN  IF definition = NoRef THEN t ELSE [t EXCEPT !.current = definition]
\* and with a line that has none
NothingSelected(s) == [s EXCEPT !.selected = {}]

Answer(S) ==
    /\ Answering(FALSE)
    /\ IF top = 0 THEN UNCHANGED <<stack, top>> ELSE \E s \in S : TopChanges(s)
    /\ KeepTable /\ UNCHANGED marked

GotoNth == Answer({Nth(stack[top], n) : n \in 1..(Cardinality(stack[top].list) + 1)})
Filter == Answer({Filtered(stack[top], l) : l \in Limits})
Menu ==
    Answer(LET s == stack[top]
                       items == ItemsOf[s.symbol]
                   IN  {Toggled(s, i) : i \in items} \cup {OnlySelected(s, i) : i \in items}
                       \cup {MenuFiltered(s, l) : l \in MenuLevels}
                       \cup {AllSelected(s), NoneSelected(s), NothingSelected(s)})

\* findAndGotoDefinition(): a session of its own on top of all, also of what was
\* popped, is made, gone through and freed, and the top is found again.
PushedOnTop(y, r) == Append(Unpopped, AtDefinition(Opened(y, r, NoRef)))
PushedOnAll(y, r) == Append(stack, AtDefinition(Opened(y, r, NoRef)))
GotoMatch(y) ==
    /\ Answering(FALSE)
    /\ \E i \in ItemsOf[y] : \E r \in RefsOf(i) :
          LET pushed == PushedOnAll(y, r)
          IN  stack' = SubSeq(pushed, 1, Len(pushed) - 1)
    /\ KeepTable /\ UNCHANGED <<marked, top>>

-----------------------------------------------------------------------------
\* A server that has parsed everything
Init ==
    /\ text = [f \in File |-> 0] /\ edits = 0
    /\ parsed = text /\ old = {}
    /\ changed = {} /\ marked = {}
    /\ stack = <<>> /\ top = 0
    /\ request = NoRequest

Next ==
    \/ \E f \in File : Edit(f)
    \/ \E f \in Asked, parses \in BOOLEAN : Ask(f, parses)
    \/ \E y \in Symbols : Push(y) \/ GotoMatch(y)
    \/ PushNothing \/ Complete \/ Pop \/ RePush
    \/ \E way \in Ways : Navigate(way)
    \/ GotoNth \/ Filter \/ Menu

Spec == Init /\ [][Next]_vars

-----------------------------------------------------------------------------
(* Properties *)

\* Every variable has its type, and top is a session of the stack or none
\* (SessionStack of session.h).
TypeOK ==
    /\ text \in [File -> Text] /\ edits \in Text
    /\ parsed \in [File -> Text \cup {NoText}]
    /\ changed \subseteq Headers /\ old \subseteq CUs /\ marked \subseteq File
    /\ stack \in Seq(Session) /\ top \in 0..Len(stack)
    /\ request \in Request \cup {NoRequest}

\* The current reference of a session is one of its list, or none: whatever
\* rebuilds the list finds the place again, so that no session is left with a
\* reference that recomputeSelectedReferenceable() has freed.
CurrentIsListed ==
    \A k \in 1..Len(stack) : stack[k].current \in stack[k].list \cup {NoRef}

\* While any item is selected, the list that is walked is what the menu shows as
\* selected: the refreshes of navigation.c and the selections of cxref.c leave
\* the two in step.
ListIsSelected ==
    \A k \in 1..Len(stack) :
        stack[k].selected # {} => stack[k].list = Selected(stack[k])

\* From a reference that the filter lets through, as many NEXTs as there are such
\* references have been to all of them, and PREVIOUS undoes each: no wrap-around
\* (setCurrentReferenceToNextOrFirst(), findLastReference()), no filter and no
\* order of definitions and files leaves one out.
Went(s, n) ==
    LET went[i \in 0..n] == IF i = 0 THEN s ELSE Advance(went[i - 1])
    IN  went
RoundTrip ==
    \A k \in 1..Len(stack) :
        LET s == stack[k]
            visible == Unfiltered(s, s.list)
            n == Cardinality(visible)
            went == Went(s, n)
        IN  s.current \in visible =>
                /\ {went[i].current : i \in 1..n} = visible
                /\ \A i \in 1..n : PreviousOrLast(went[i]).current = went[i - 1].current

\* A session that needs no refresh gets none: wherever the marks are, when no refresh
\* would change its list, or what is the default of an item, NEXT and PREVIOUS go
\* where they would without (restoreToNearestReference() finds the place again,
\* exactly, and the refresh of the request's file leaves that of the target's nothing
\* to do).  That a file is unchanged is not enough: of two definitions the one at the
\* default position becomes the best fit when its file is first refreshed, and
\* the list is in another order then (addReferenceToBrowsingMenu()).
Settled(s) ==
    /\ s.sorted = "importance" /\ s.current \in Unfiltered(s, s.list)
    /\ \A f \in File : Update(s, f).list = s.list /\ Update(s, f).default = s.default
RefreshKeepsPlace ==
    request # NoRequest /\ ~request.parses =>
        \A k \in 1..Len(stack) : Settled(stack[k]) =>
            \A marks \in SUBSET File, way \in Ways :
                Goto(stack[k], request.file, marks, way).session.current
                    = Moved(stack[k], way).current

\* When NEXT or PREVIOUS takes the mark off a file, the session it moved in has
\* of that file what the table has, and nothing from before, but for which definition
\* is the best fit (updateSessionReferencesForFile() clears needsBrowsingStackRefresh
\* for all).
Of(f, R) == {r \in R : r.file = f}
AsRecorded(R) == {IF r.usage = BestFit THEN [r EXCEPT !.usage = Defined] ELSE r : r \in R}
UnmarkedIsRefreshed ==
    [][\A f \in marked \ (marked') : \A i \in ItemsOf[stack[top].symbol] :
          AsRecorded(Of(f, stack'[top].copy[i])) = Of(f, Merged(i))]_vars

\* A session stays on the stack until a push, and a push loses only what was
\* popped: going to the definition of a match, which pushes and pops a session of
\* its own, leaves the stack as it was ("preserve popped items from browser
\* first", findAndGotoDefinition()).
PushOf(s) == <<s.symbol, s.caller>>
SessionsSurvive ==
    [][LET n == IF request # NoRequest /\ request.parses THEN top ELSE Len(stack)
       IN  Len(stack') >= n /\ \A k \in 1..n : PushOf(stack'[k]) = PushOf(stack[k])]_vars
=============================================================================
