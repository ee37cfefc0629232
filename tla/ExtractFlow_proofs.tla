------------------------- MODULE ExtractFlow_proofs -------------------------
(***************************************************************************)
(* The parser's labels for break and continue are those of what is open,   *)
(* and no jump of a function from which a region was extracted crosses the *)
(* region, whatever the function: for every text of any cost.              *)
(***************************************************************************)
EXTENDS ExtractFlow, FiniteSetTheorems, WellFoundedInduction, TLAPS

-----------------------------------------------------------------------------
(* The invariant, about texts, nodes and what is open                      *)

Loops == {"while", "do", "for", "switch"}
Heads == {"if"} \cup Loops
UsesOf == {"none", "read", "assign", "modify", "maybe"}
Tokens == [kind : Kinds, of : Nat, uses : UsesOf]
NodesOf == [type : {"label", "variable", "marker"}, label : Int,
            usage : {"defined", "used", "fork", "lval", "addr"}]
Constructs == [kind : Heads \cup {"else", "region"}, at : Nat, labels : Seq(Nat)]

Typed ==
  /\ breakLabels \in Seq(Nat)
  /\ storage \in StorageClasses \cup {"none"} /\ scope \in Nat /\ spent \in 0..MaxCost
  /\ outcome \in Classes \cup {"none", "refused"}

\* A token and a node on a side of the region: begun and not finished up to here.
\* For a node it is what RegionSides says.
SideOf(src, t) ==
  /\ \E b \in 1..t : src[b].kind = "begin"
  /\ \A f \in 1..t : src[f].kind # "finish"
InRegion(src) ==
  /\ \E b \in 1..Len(src) : src[b].kind = "begin"
  /\ \A f \in 1..Len(src) : src[f].kind # "finish"

MarkersTo(nds, p) == {q \in 1..p : nds[q] = Marker}
NodeSide(nds, p) == Cardinality(MarkersTo(nds, p)) = 1

\* One region at most, begun before it is finished, and open in between; the nodes have
\* a marker for each end of it.
RegionsOf(op) == {k \in 1..Len(op) : op[k].kind = "region"}
Regions(src, nds, op) ==
  /\ \A t, u \in 1..Len(src) : src[t].kind = src[u].kind /\ src[t].kind \in {"begin", "finish"} => t = u
  /\ \A t, u \in 1..Len(src) : src[t].kind = "finish" /\ src[u].kind = "begin" => u < t
  /\ (\E f \in 1..Len(src) : src[f].kind = "finish") => \E b \in 1..Len(src) : src[b].kind = "begin"
  /\ RegionsOf(op) # {} <=> InRegion(src)
  /\ \A k, m \in RegionsOf(op) : k = m
  /\ Cardinality(MarkersTo(nds, Len(nds))) =
       IF InRegion(src) THEN 1 ELSE IF \E b \in 1..Len(src) : src[b].kind = "begin" THEN 2 ELSE 0

\* What is open was begun in this order, on the side that the regions among it say,
\* and has no end yet.
HeadOf(kind) == IF kind = "region" THEN "begin" ELSE IF kind = "else" THEN "if" ELSE kind
Opened(src, op) ==
  /\ \A k \in 1..Len(op) :
       /\ op[k].at \in 1..Len(src) /\ src[op[k].at].kind = HeadOf(op[k].kind)
       /\ SideOf(src, op[k].at) <=> \E m \in 1..k : op[m].kind = "region"
       /\ \A e \in 1..Len(src) : src[e].kind = "end" => src[e].of # op[k].at
  /\ \A k, m \in 1..Len(op) : k < m => op[k].at < op[m].at

\* What is begun is open or has an end, and its parts are on the side it began on.
Ends(src, e, t) == src[e].kind = "end" /\ src[e].of = t
TokenRight(src, t) ==
  /\ src[t].kind \in {"end", "else", "step"} =>
       src[t].of \in 1..Len(src) /\ (SideOf(src, t) <=> SideOf(src, src[t].of))
  /\ src[t].kind = "for" => \E e \in 1..Len(src) : src[e].kind = "step" /\ src[e].of = t
  /\ src[t].kind = "else" => src[src[t].of].kind = "if"
  /\ src[t].kind \in {"break", "continue"} => src[t].of \in 1..Len(src) /\ src[src[t].of].kind \in Loops
Ended(src, op) ==
  \A t \in 1..Len(src) :
    /\ TokenRight(src, t)
    /\ src[t].kind \in Heads => \/ \E k \in 1..Len(op) : op[k].at = t
                                \/ \E e \in 1..Len(src) : Ends(src, e, t)

\* Every label is at one node. Those that the end of an open construct will define are
\* at none yet, and no two constructs have the same.
Shape(c) ==
  /\ c.kind \in {"if", "else", "switch"} => Len(c.labels) = 1
  /\ c.kind \in {"while", "for"} => Len(c.labels) = 2
  /\ c.kind = "do" => Len(c.labels) = 3 /\ c.labels[2] # c.labels[3]
Pending(c) ==
  IF c.kind = "region" THEN {} ELSE IF c.kind = "do" THEN {c.labels[2], c.labels[3]} ELSE {Last(c.labels)}
Defines(n) == n.type = "label" /\ n.usage = "defined"
Labels(src, nds, op, n) ==
  /\ \A k \in 1..Len(op) : Shape(op[k])
  /\ \A p \in 1..Len(nds) : Defines(nds[p]) => nds[p].label < n
  /\ \A k \in 1..Len(op) : \A l \in Pending(op[k]) :
       l < n /\ \A p \in 1..Len(nds) : nds[p] # Labelled(l)
  /\ \A k, m \in 1..Len(op) : k # m => Pending(op[k]) \cap Pending(op[m]) = {}
  /\ \A p, q \in 1..Len(nds) : Defines(nds[p]) /\ nds[p] = nds[q] => p = q
  /\ Len(nds) > 0 /\ nds[1] = Labelled(FunctionLabel)
  /\ (\E p \in 1..Len(nds) : nds[p] = Labelled(UserLabel)) => \E t \in 1..Len(src) : src[t].kind = "label"

\* The symbols " %cntl%": a pair for each loop and switch that is open, the second of
\* them the label of its end.
LoopsTo(op, k) == {m \in 1..k : op[m].kind \in Loops}
Rank(op, k) == Cardinality(LoopsTo(op, k))
Breaks(op, labels) ==
  /\ Len(labels) = 2 * Rank(op, Len(op))
  /\ \A k \in 1..Len(op) : op[k].kind \in Loops => labels[2 * Rank(op, k)] = Last(op[k].labels)

\* A jump has left a node on its side, with the label that is at the end of what it
\* leaves; a continue in a switch has the label of the switch.
GoesTo(src, nds, t, l) ==
  \E p \in 1..Len(nds) : nds[p] = Goto(l) /\ (NodeSide(nds, p) <=> SideOf(src, t))
Comes(src, nds, t, l) ==
  \E q \in 1..Len(nds) : nds[q] = Labelled(l) /\ (NodeSide(nds, q) <=> SideOf(src, t))
Leaves(src, nds, op, t) ==
  \/ \E k \in 1..Len(op) : op[k].at = src[t].of /\ GoesTo(src, nds, t, Last(op[k].labels))
  \/ \E q \in 1..Len(nds) :
       Defines(nds[q]) /\ GoesTo(src, nds, t, nds[q].label) /\ (NodeSide(nds, q) <=> SideOf(src, src[t].of))
InSwitch(src, t) ==
  \E s \in 1..Len(src) : /\ src[s].kind = "switch" /\ s \in src[t].of .. t
                         /\ \A e \in 1..Len(src) : Ends(src, e, s) => t < e
JumpRight(src, nds, op, t) ==
  /\ src[t].kind = "break" => Leaves(src, nds, op, t)
  /\ src[t].kind = "continue" => Leaves(src, nds, op, t) \/ InSwitch(src, t)
  /\ src[t].kind = "goto" => GoesTo(src, nds, t, UserLabel)
  /\ src[t].kind = "return" => GoesTo(src, nds, t, FunctionLabel)
  /\ src[t].kind = "label" => Comes(src, nds, t, UserLabel)
JumpsLead(src, nds, op) == \A t \in 1..Len(src) : JumpRight(src, nds, op, t)

\* All that relates text, nodes and what is open
Graph(src, nds, op, n) ==
  /\ src \in Seq(Tokens) /\ nds \in Seq(NodesOf) /\ op \in Seq(Constructs) /\ n \in Nat
  /\ Regions(src, nds, op)
  /\ Opened(src, op)
  /\ Ended(src, op)
  /\ Labels(src, nds, op, n)
  /\ JumpsLead(src, nds, op)

Inv ==
  /\ Typed
  /\ Graph(source, nodes, open, localSym)
  /\ Breaks(open, breakLabels)

-----------------------------------------------------------------------------
(* Sequences that grow                                                     *)

Grown(s, s2) ==
  /\ Len(s2) >= Len(s)
  /\ \A i \in 1..Len(s) : s2[i] = s[i]
New(s, s2) == (Len(s) + 1)..Len(s2)

LEMMA AppendGrows ==
    ASSUME NEW T, NEW s \in Seq(T), NEW x \in T
    PROVE  /\ Append(s, x) \in Seq(T) /\ Grown(s, Append(s, x))
           /\ Len(Append(s, x)) = Len(s) + 1 /\ Append(s, x)[Len(s) + 1] = x
           /\ New(s, Append(s, x)) = {Len(s) + 1}
BY DEF Grown, New

LEMMA ConcatGrows ==
    ASSUME NEW T, NEW s \in Seq(T), NEW r \in Seq(T)
    PROVE  /\ s \o r \in Seq(T) /\ Grown(s, s \o r) /\ Len(s \o r) = Len(s) + Len(r)
           /\ \A i \in 1..Len(r) : Len(s) + i \in New(s, s \o r) /\ (s \o r)[Len(s) + i] = r[i]
           /\ \A i \in New(s, s \o r) : i - Len(s) \in 1..Len(r) /\ (s \o r)[i] = r[i - Len(s)]
BY DEF Grown, New

LEMMA FrontIs ==
    ASSUME NEW T, NEW s \in Seq(T), s # <<>>
    PROVE  /\ Front(s) \in Seq(T) /\ Len(Front(s)) = Len(s) - 1 /\ Len(s) \in Nat \ {0}
           /\ \A i \in 1..(Len(s) - 1) : Front(s)[i] = s[i] /\ i \in 1..Len(s) /\ i # Len(s)
           /\ Last(s) = s[Len(s)] /\ Last(s) \in T
<1> DEFINE n == Len(s) - 1
<1>1. Len(s) \in Nat \ {0}
  OBVIOUS
<1>2. \A m \in 0..Len(s) : /\ SubSeq(s, 1, m) \in Seq(T) /\ Len(SubSeq(s, 1, m)) = m
                           /\ \A i \in 1..m : SubSeq(s, 1, m)[i] = s[i]
  OBVIOUS
<1>3. n \in 0..Len(s) /\ Front(s) = SubSeq(s, 1, n)
  BY <1>1 DEF Front
<1>4. Last(s) = s[Len(s)] /\ Last(s) \in T
  BY <1>1 DEF Last
<1> HIDE DEF n
<1>5. Front(s) \in Seq(T) /\ Len(Front(s)) = n /\ \A i \in 1..n : Front(s)[i] = s[i]
  BY <1>2, <1>3
<1> QED
  BY <1>1, <1>4, <1>5 DEF n

LEMMA LastIs ==
    ASSUME NEW T, NEW s \in Seq(T), NEW x \in T
    PROVE  Last(Append(s, x)) = x
BY DEF Last

-----------------------------------------------------------------------------
(* Sides                                                                   *)

\* The side of a token does not change when the text goes on; outside a region's
\* two ends, it is that of the end of the text.
LEMMA SidesStay ==
    ASSUME NEW src \in Seq(Tokens), NEW src2 \in Seq(Tokens), Grown(src, src2)
    PROVE  \A t \in 1..Len(src) : t \in 1..Len(src2) /\ src2[t] = src[t] /\ (SideOf(src2, t) <=> SideOf(src, t))
<1> SUFFICES ASSUME NEW t \in 1..Len(src)
             PROVE  t \in 1..Len(src2) /\ src2[t] = src[t] /\ (SideOf(src2, t) <=> SideOf(src, t))
  OBVIOUS
<1>1. Len(src) \in Nat /\ Len(src2) \in Nat /\ Len(src2) >= Len(src)
  BY DEF Grown
<1>2. \A i \in 1..t : i \in 1..Len(src) /\ src2[i] = src[i]
  BY <1>1 DEF Grown
<1> QED
  BY <1>1, <1>2, SMTT(30) DEF SideOf

LEMMA NewSides ==
    ASSUME NEW src \in Seq(Tokens), NEW src2 \in Seq(Tokens), Grown(src, src2),
           \A t \in New(src, src2) : src2[t].kind \notin {"begin", "finish"}
    PROVE  /\ \A t \in New(src, src2) : t \in 1..Len(src2) /\ (SideOf(src2, t) <=> InRegion(src))
           /\ InRegion(src2) <=> InRegion(src)
           /\ (\E b \in 1..Len(src2) : src2[b].kind = "begin") <=> \E b \in 1..Len(src) : src[b].kind = "begin"
<1>1. Len(src) \in Nat /\ Len(src2) \in Nat /\ Len(src2) >= Len(src)
  BY DEF Grown
<1>2. \A i \in 1..Len(src) : i \in 1..Len(src2) /\ src2[i] = src[i]
  BY <1>1 DEF Grown
<1>3. \A i \in 1..Len(src2) : i \in 1..Len(src) \/ i \in New(src, src2)
  BY <1>1 DEF New
<1>4. ASSUME NEW t \in New(src, src2)
      PROVE  t \in 1..Len(src2) /\ (SideOf(src2, t) <=> InRegion(src))
  <2>1. t \in 1..Len(src2) /\ \A i \in 1..t : i \in 1..Len(src2)
    BY <1>1 DEF New
  <2>2. \A i \in 1..Len(src) : i \in 1..t
    BY <1>1 DEF New
  <2> QED
    BY <2>1, <2>2, <1>2, <1>3 DEF SideOf, InRegion
<1>5. InRegion(src2) <=> InRegion(src)
  BY <1>2, <1>3 DEF InRegion
<1> QED
  BY <1>2, <1>3, <1>4, <1>5

LEMMA MarkersAre ==
    ASSUME NEW nds \in Seq(NodesOf), NEW p \in Nat
    PROVE  IsFiniteSet(MarkersTo(nds, p)) /\ Cardinality(MarkersTo(nds, p)) \in Nat
<1>1. IsFiniteSet(1..p)
  BY FS_Interval
<1>2. MarkersTo(nds, p) \in SUBSET (1..p)
  BY DEF MarkersTo
<1> QED
  BY <1>1, <1>2, FS_Subset, FS_CardinalityType

LEMMA NodeSidesStay ==
    ASSUME NEW nds \in Seq(NodesOf), NEW nds2 \in Seq(NodesOf), Grown(nds, nds2)
    PROVE  \A p \in 1..Len(nds) : p \in 1..Len(nds2) /\ nds2[p] = nds[p] /\ (NodeSide(nds2, p) <=> NodeSide(nds, p))
<1> SUFFICES ASSUME NEW p \in 1..Len(nds)
             PROVE  p \in 1..Len(nds2) /\ nds2[p] = nds[p] /\ (NodeSide(nds2, p) <=> NodeSide(nds, p))
  OBVIOUS
<1>1. Len(nds) \in Nat /\ Len(nds2) \in Nat /\ Len(nds2) >= Len(nds)
  BY DEF Grown
<1>2. \A i \in 1..p : i \in 1..Len(nds) /\ nds2[i] = nds[i]
  BY <1>1 DEF Grown
<1>3. MarkersTo(nds2, p) = MarkersTo(nds, p)
  BY <1>2 DEF MarkersTo
<1> QED
  BY <1>1, <1>2, <1>3 DEF NodeSide

\* What nodes are added: labels of L only, each at one of them, and no marker.
AddsLabels(nds, nds2, L) ==
  /\ nds2 \in Seq(NodesOf) /\ Grown(nds, nds2)
  /\ \A p \in New(nds, nds2) : Defines(nds2[p]) => nds2[p].label \in L
  /\ \A p, q \in New(nds, nds2) : Defines(nds2[p]) /\ nds2[p] = nds2[q] => p = q
Adds(nds, nds2, L) ==
  /\ AddsLabels(nds, nds2, L)
  /\ \A p \in New(nds, nds2) : nds2[p] # Marker

LEMMA NewNodeSides ==
    ASSUME NEW nds \in Seq(NodesOf), NEW nds2, NEW L, Adds(nds, nds2, L)
    PROVE  /\ MarkersTo(nds2, Len(nds2)) = MarkersTo(nds, Len(nds))
           /\ \A p \in New(nds, nds2) :
                p \in 1..Len(nds2) /\ (NodeSide(nds2, p) <=> Cardinality(MarkersTo(nds, Len(nds))) = 1)
<1>1. Len(nds) \in Nat /\ Len(nds2) \in Nat /\ Len(nds2) >= Len(nds) /\ nds2 \in Seq(NodesOf)
  BY DEF Grown, Adds, AddsLabels
<1>2. \A i \in 1..Len(nds) : i \in 1..Len(nds2) /\ nds2[i] = nds[i]
  BY <1>1 DEF Grown, Adds, AddsLabels
<1>3. \A i \in 1..Len(nds2) : i \in 1..Len(nds) \/ nds2[i] # Marker
  BY <1>1 DEF New, Adds
<1>4. MarkersTo(nds2, Len(nds2)) = MarkersTo(nds, Len(nds))
  BY <1>2, <1>3 DEF MarkersTo
<1>5. ASSUME NEW p \in New(nds, nds2)
      PROVE  p \in 1..Len(nds2) /\ MarkersTo(nds2, p) = MarkersTo(nds, Len(nds))
  <2>1. p \in 1..Len(nds2) /\ (\A i \in 1..p : i \in 1..Len(nds2)) /\ \A i \in 1..Len(nds) : i \in 1..p
    BY <1>1 DEF New
  <2> QED
    BY <2>1, <1>2, <1>3 DEF MarkersTo
<1> QED
  BY <1>4, <1>5 DEF NodeSide

LEMMA TextGrows ==
    ASSUME NEW src \in Seq(Tokens), NEW src2 \in Seq(Tokens), Grown(src, src2)
    PROVE  /\ Len(src) \in Nat /\ Len(src2) \in Nat /\ Len(src2) >= Len(src)
           /\ \A t \in 1..Len(src) : t \in 1..Len(src2) /\ src2[t] = src[t] /\ (SideOf(src2, t) <=> SideOf(src, t))
<1>1. Len(src) \in Nat /\ Len(src2) \in Nat /\ Len(src2) >= Len(src)
  BY DEF Grown
<1>2. \A t \in 1..Len(src) : t \in 1..Len(src2) /\ src2[t] = src[t] /\ (SideOf(src2, t) <=> SideOf(src, t))
  BY SidesStay
<1> QED
  BY <1>1, <1>2

-----------------------------------------------------------------------------
(* The region                                                              *)

LEMMA RegionsKept ==
    ASSUME NEW src \in Seq(Tokens), NEW src2 \in Seq(Tokens), Grown(src, src2),
           \A t \in New(src, src2) : src2[t].kind \notin {"begin", "finish"},
           NEW nds \in Seq(NodesOf), NEW nds2, NEW L, Adds(nds, nds2, L),
           NEW op, NEW op2, RegionsOf(op2) = RegionsOf(op), Regions(src, nds, op)
    PROVE  Regions(src2, nds2, op2)
<1>1. Len(src) \in Nat /\ Len(src2) \in Nat /\ Len(src2) >= Len(src)
  BY DEF Grown
<1>2. \A t \in 1..Len(src2) : src2[t].kind \in {"begin", "finish"} => t \in 1..Len(src) /\ src2[t] = src[t]
  BY <1>1 DEF New, Grown
<1>3. \A t \in 1..Len(src) : t \in 1..Len(src2) /\ src2[t] = src[t]
  BY SidesStay
<1>4. /\ InRegion(src2) <=> InRegion(src)
      /\ (\E b \in 1..Len(src2) : src2[b].kind = "begin") <=> \E b \in 1..Len(src) : src[b].kind = "begin"
  BY NewSides
<1>5. MarkersTo(nds2, Len(nds2)) = MarkersTo(nds, Len(nds))
  BY NewNodeSides
<1>6. \A t, u \in 1..Len(src2) : src2[t].kind = src2[u].kind /\ src2[t].kind \in {"begin", "finish"} => t = u
  BY <1>2 DEF Regions
<1>7. \A t, u \in 1..Len(src2) : src2[t].kind = "finish" /\ src2[u].kind = "begin" => u < t
  BY <1>2 DEF Regions
<1>8. (\E f \in 1..Len(src2) : src2[f].kind = "finish") => \E b \in 1..Len(src2) : src2[b].kind = "begin"
  BY <1>2, <1>3 DEF Regions
<1> QED
  BY <1>4, <1>5, <1>6, <1>7, <1>8 DEF Regions

\* Two more facts about a marker that is added
LEMMA MarkerAdded ==
    ASSUME NEW nds \in Seq(NodesOf)
    PROVE  LET nds2 == Append(nds, Marker)
           IN  /\ nds2 \in Seq(NodesOf) /\ Grown(nds, nds2)
               /\ Cardinality(MarkersTo(nds2, Len(nds2))) = Cardinality(MarkersTo(nds, Len(nds))) + 1
               /\ \A p \in 1..Len(nds2) : Defines(nds2[p]) => p \in 1..Len(nds) /\ nds2[p] = nds[p]
<1> DEFINE nds2 == Append(nds, Marker)
<1>1. Marker \in NodesOf
  BY DEF Marker, Node, NodesOf
<1>2. /\ nds2 \in Seq(NodesOf) /\ Grown(nds, nds2)
      /\ Len(nds2) = Len(nds) + 1 /\ nds2[Len(nds) + 1] = Marker
  BY <1>1, AppendGrows
<1>3. Len(nds) \in Nat /\ \A i \in 1..Len(nds) : nds2[i] = nds[i]
  BY <1>2 DEF Grown
<1> HIDE DEF Marker, nds2
<1>4. MarkersTo(nds2, Len(nds2)) = MarkersTo(nds, Len(nds)) \cup {Len(nds) + 1}
  BY <1>2, <1>3 DEF MarkersTo
<1>5. Len(nds) + 1 \notin MarkersTo(nds, Len(nds))
  BY <1>3 DEF MarkersTo
<1>6. IsFiniteSet(MarkersTo(nds, Len(nds)))
  BY MarkersAre, <1>3
<1>7. Cardinality(MarkersTo(nds2, Len(nds2))) = Cardinality(MarkersTo(nds, Len(nds))) + 1
  BY <1>4, <1>5, <1>6, FS_AddElement
<1>8. ~Defines(Marker)
  BY DEF Marker, Node, Defines
<1>9. \A p \in 1..Len(nds2) : Defines(nds2[p]) => p \in 1..Len(nds) /\ nds2[p] = nds[p]
  BY <1>2, <1>3, <1>8
<1> QED
  BY <1>2, <1>7, <1>9 DEF nds2

LEMMA RegionBegins ==
    ASSUME NEW src \in Seq(Tokens), NEW x \in Tokens, x.kind = "begin",
           \A t \in 1..Len(src) : src[t].kind # "begin",
           NEW nds \in Seq(NodesOf), NEW op \in Seq(Constructs),
           NEW c \in Constructs, c.kind = "region", Regions(src, nds, op)
    PROVE  Regions(Append(src, x), Append(nds, Marker), Append(op, c))
<1> DEFINE src2 == Append(src, x)
           nds2 == Append(nds, Marker)
           op2 == Append(op, c)
<1>1. /\ Len(src) \in Nat /\ Len(src2) = Len(src) + 1 /\ src2[Len(src) + 1] = x
      /\ \A t \in 1..Len(src) : src2[t] = src[t]
  BY AppendGrows DEF Grown
<1>2. \A f \in 1..Len(src) : src[f].kind # "finish"
  BY DEF Regions
<1>3. InRegion(src2) /\ ~InRegion(src)
  BY <1>1, <1>2 DEF InRegion
<1>4. Cardinality(MarkersTo(nds2, Len(nds2))) = 1
  <2>1. Cardinality(MarkersTo(nds, Len(nds))) = 0
    BY <1>3 DEF Regions
  <2> QED
    BY <2>1, MarkerAdded
<1>5. RegionsOf(op) = {}
  BY <1>3 DEF Regions
<1>6. RegionsOf(op2) = {Len(op) + 1}
  <2>1. Len(op) \in Nat /\ Len(op2) = Len(op) + 1 /\ op2[Len(op) + 1] = c /\ \A k \in 1..Len(op) : op2[k] = op[k]
    BY AppendGrows DEF Grown
  <2> HIDE DEF op2
  <2> QED
    BY <2>1, <1>5, SMTT(30) DEF RegionsOf
<1> HIDE DEF src2, nds2, op2
<1>7. \A t \in 1..Len(src2) : src2[t].kind \in {"begin", "finish"} => t = Len(src) + 1
  BY <1>1, <1>2, SMTT(30)
<1>8. \A t \in 1..Len(src2) : src2[t].kind # "finish"
  BY <1>1, <1>2
<1>9. Regions(src2, nds2, op2)
  BY <1>3, <1>4, <1>6, <1>7, <1>8 DEF Regions
<1> QED
  BY <1>9 DEF src2, nds2, op2

LEMMA RegionEnds ==
    ASSUME NEW src \in Seq(Tokens), NEW x \in Tokens, x.kind = "finish",
           NEW nds \in Seq(NodesOf), NEW op \in Seq(Constructs),
           op # <<>>, Last(op).kind = "region", Regions(src, nds, op)
    PROVE  Regions(Append(src, x), Append(nds, Marker), Front(op))
<1> DEFINE src2 == Append(src, x)
           nds2 == Append(nds, Marker)
           op2 == Front(op)
<1>1. /\ Len(src) \in Nat /\ Len(src2) = Len(src) + 1 /\ src2[Len(src) + 1] = x
      /\ \A t \in 1..Len(src) : src2[t] = src[t]
  BY AppendGrows DEF Grown
<1>2. Len(op) \in RegionsOf(op)
  <2>1. Last(op) = op[Len(op)] /\ Len(op) \in Nat \ {0}
    BY FrontIs
  <2> QED
    BY <2>1 DEF RegionsOf
<1>3. InRegion(src)
  BY <1>2 DEF Regions
<1>4. ~InRegion(src2) /\ \E b \in 1..Len(src2) : src2[b].kind = "begin"
  <2>1. Len(src) + 1 \in 1..Len(src2) /\ src2[Len(src) + 1].kind = "finish"
    BY <1>1
  <2>2. PICK b \in 1..Len(src) : src[b].kind = "begin"
    BY <1>3 DEF InRegion
  <2>3. b \in 1..Len(src2) /\ src2[b] = src[b]
    BY <1>1, <2>2
  <2> HIDE DEF src2
  <2> QED
    BY <2>1, <2>2, <2>3 DEF InRegion
<1>5. Cardinality(MarkersTo(nds2, Len(nds2))) = 2
  <2>1. Cardinality(MarkersTo(nds, Len(nds))) = 1
    BY <1>3 DEF Regions
  <2> QED
    BY <2>1, MarkerAdded
<1>6. RegionsOf(op2) = {}
  <2>1. Len(op2) = Len(op) - 1 /\ \A k \in 1..Len(op2) : op2[k] = op[k] /\ k \in 1..Len(op) /\ k # Len(op)
    BY FrontIs
  <2>2. \A k \in RegionsOf(op) : k = Len(op)
    BY <1>2 DEF Regions
  <2> HIDE DEF op2
  <2> QED
    BY <2>1, <2>2 DEF RegionsOf
<1> HIDE DEF src2, nds2, op2
<1>7. \A t \in 1..Len(src2) : src2[t].kind = "finish" => t = Len(src) + 1
  <2>1. \A t \in 1..Len(src2) : t \in 1..Len(src) \/ t = Len(src) + 1
    BY <1>1
  <2>2. \A f \in 1..Len(src) : src[f].kind # "finish"
    BY <1>3 DEF InRegion
  <2> QED
    BY <2>1, <2>2, <1>1
<1>8. \A t \in 1..Len(src2) : src2[t].kind = "begin" => t \in 1..Len(src) /\ src[t].kind = "begin"
  BY <1>1
<1>9. \A t, u \in 1..Len(src) : src[t].kind = "begin" /\ src[u].kind = "begin" => t = u
  BY DEF Regions
<1>10. Regions(src2, nds2, op2)
  <2>1. \A t, u \in 1..Len(src2) : src2[t].kind = src2[u].kind /\ src2[t].kind \in {"begin", "finish"} => t = u
    BY <1>7, <1>8, <1>9
  <2>2. \A t, u \in 1..Len(src2) : src2[t].kind = "finish" /\ src2[u].kind = "begin" => u < t
    BY <1>1, <1>7, <1>8
  <2> QED
    BY <2>1, <2>2, <1>4, <1>5, <1>6 DEF Regions
<1> QED
  BY <1>10 DEF src2, nds2, op2

-----------------------------------------------------------------------------
(* What is open                                                            *)

LEMMA HeadsAre ==
    ASSUME NEW k, NEW m, HeadOf(k) = HeadOf(m), k \in Heads \cup {"else", "region"},
           m \in Heads \cup {"else", "region"}
    PROVE  /\ k = "region" <=> m = "region"
           /\ k \in Loops <=> m \in Loops
BY DEF HeadOf, Heads, Loops

LEMMA OpenedSame ==
    ASSUME NEW src \in Seq(Tokens), NEW src2 \in Seq(Tokens), Grown(src, src2),
           \A e \in New(src, src2) : src2[e].kind # "end",
           NEW op \in Seq(Constructs), NEW op2 \in Seq(Constructs), Len(op2) = Len(op),
           \A k \in 1..Len(op) : op2[k].at = op[k].at /\ HeadOf(op2[k].kind) = HeadOf(op[k].kind),
           Opened(src, op)
    PROVE  Opened(src2, op2)
<1>1. /\ Len(src) \in Nat /\ Len(src2) \in Nat /\ Len(src2) >= Len(src)
      /\ \A t \in 1..Len(src) : t \in 1..Len(src2) /\ src2[t] = src[t] /\ (SideOf(src2, t) <=> SideOf(src, t))
  BY TextGrows
<1>2. \A e \in 1..Len(src2) : src2[e].kind = "end" => e \in 1..Len(src) /\ src2[e] = src[e]
  BY <1>1 DEF New
<1>3. ASSUME NEW k \in 1..Len(op2)
      PROVE  /\ op2[k].at \in 1..Len(src2) /\ src2[op2[k].at].kind = HeadOf(op2[k].kind)
             /\ SideOf(src2, op2[k].at) <=> \E m \in 1..k : op2[m].kind = "region"
             /\ \A e \in 1..Len(src2) : src2[e].kind = "end" => src2[e].of # op2[k].at
  <2>1. k \in 1..Len(op) /\ op2[k].at = op[k].at /\ HeadOf(op2[k].kind) = HeadOf(op[k].kind)
    OBVIOUS
  <2>2. /\ op[k].at \in 1..Len(src) /\ src[op[k].at].kind = HeadOf(op[k].kind)
        /\ SideOf(src, op[k].at) <=> \E m \in 1..k : op[m].kind = "region"
        /\ \A e \in 1..Len(src) : src[e].kind = "end" => src[e].of # op[k].at
    BY <2>1 DEF Opened
  <2>3. \A m \in 1..k : op2[m].kind = "region" <=> op[m].kind = "region"
    <3> SUFFICES ASSUME NEW m \in 1..k PROVE op2[m].kind = "region" <=> op[m].kind = "region"
      OBVIOUS
    <3>1. m \in 1..Len(op) /\ m \in 1..Len(op2)
      BY <2>1
    <3>2. HeadOf(op2[m].kind) = HeadOf(op[m].kind)
      BY <3>1
    <3>3. op[m] \in Constructs /\ op2[m] \in Constructs
      BY <3>1
    <3> QED
      BY <3>2, <3>3, HeadsAre DEF Constructs
  <2> QED
    BY <2>1, <2>2, <2>3, <1>1, <1>2, ZenonT(60)
<1>4. \A k, m \in 1..Len(op2) : k < m => op2[k].at < op2[m].at
  BY DEF Opened
<1> QED
  BY <1>3, <1>4 DEF Opened

LEMMA OpenedMore ==
    ASSUME NEW src \in Seq(Tokens), NEW src2 \in Seq(Tokens), Grown(src, src2),
           \A e \in New(src, src2) : src2[e].kind # "end",
           NEW op \in Seq(Constructs), NEW c \in Constructs,
           c.at \in New(src, src2), src2[c.at].kind = HeadOf(c.kind),
           \A e \in 1..Len(src) : src[e].kind = "end" => src[e].of \in 1..Len(src),
           SideOf(src2, c.at) <=> c.kind = "region" \/ RegionsOf(op) # {},
           Opened(src, op)
    PROVE  Opened(src2, Append(op, c))
<1> DEFINE op2 == Append(op, c)
           n == Len(op) + 1
<1>1. /\ Len(src) \in Nat /\ Len(src2) \in Nat /\ Len(src2) >= Len(src)
      /\ \A t \in 1..Len(src) : t \in 1..Len(src2) /\ src2[t] = src[t] /\ (SideOf(src2, t) <=> SideOf(src, t))
  BY TextGrows
<1>2. \A e \in 1..Len(src2) : src2[e].kind = "end" => e \in 1..Len(src) /\ src2[e] = src[e]
  BY <1>1 DEF New
<1>3. /\ Len(op) \in Nat /\ Len(op2) = n /\ op2[n] = c /\ n \in 1..n
      /\ \A k \in 1..Len(op) : op2[k] = op[k] /\ k \in 1..n /\ k # n
      /\ \A k \in 1..n : k \in 1..Len(op) \/ k = n
  BY AppendGrows DEF Grown
<1>4. c.at \in 1..Len(src2) /\ c.at > Len(src) /\ c.at \in Nat
  BY <1>1 DEF New
<1> HIDE DEF op2, n
<1>5. ASSUME NEW k \in 1..Len(op)
      PROVE  /\ op2[k].at \in 1..Len(src2) /\ src2[op2[k].at].kind = HeadOf(op2[k].kind)
             /\ SideOf(src2, op2[k].at) <=> \E m \in 1..k : op2[m].kind = "region"
             /\ \A e \in 1..Len(src2) : src2[e].kind = "end" => src2[e].of # op2[k].at
  <2>1. op2[k] = op[k] /\ \A m \in 1..k : op2[m] = op[m]
    <3>1. \A m \in 1..k : m \in 1..Len(op)
      BY <1>3
    <3> QED
      BY <3>1, <1>3
  <2>2. /\ op[k].at \in 1..Len(src) /\ src[op[k].at].kind = HeadOf(op[k].kind)
        /\ SideOf(src, op[k].at) <=> \E m \in 1..k : op[m].kind = "region"
        /\ \A e \in 1..Len(src) : src[e].kind = "end" => src[e].of # op[k].at
    BY DEF Opened
  <2> QED
    BY <2>1, <2>2, <1>1, <1>2, ZenonT(60)
<1>6. /\ op2[n].at \in 1..Len(src2) /\ src2[op2[n].at].kind = HeadOf(op2[n].kind)
      /\ SideOf(src2, op2[n].at) <=> \E m \in 1..n : op2[m].kind = "region"
  BY <1>3, <1>4 DEF RegionsOf
<1>7. \A e \in 1..Len(src2) : src2[e].kind = "end" => src2[e].of # op2[n].at
  <2> SUFFICES ASSUME NEW e \in 1..Len(src2), src2[e].kind = "end", src2[e].of = c.at PROVE FALSE
    BY <1>3
  <2>1. e \in 1..Len(src) /\ src[e].kind = "end" /\ src[e].of = c.at
    BY <1>2
  <2> QED
    BY <2>1, <1>4
<1>8. \A k, m \in 1..n : k < m => op2[k].at < op2[m].at
  <2> SUFFICES ASSUME NEW k \in 1..n, NEW m \in 1..n, k < m PROVE op2[k].at < op2[m].at
    OBVIOUS
  <2>1. \A i, j \in 1..Len(op) : i < j => op[i].at < op[j].at
    BY DEF Opened
  <2>2. \A i \in 1..Len(op) : op[i].at \in 1..Len(src)
    BY DEF Opened
  <2>3. k \in 1..Len(op) /\ op2[k] = op[k]
    BY <1>3 DEF n
  <2>4. CASE m = n
    BY <2>2, <2>3, <2>4, <1>1, <1>3, <1>4
  <2>5. CASE m \in 1..Len(op)
    BY <2>1, <2>3, <2>5, <1>3
  <2> QED
    BY <2>4, <2>5, <1>3
<1>9. \A k \in 1..Len(op2) : k \in 1..Len(op) \/ k = n
  BY <1>3
<1>10. Opened(src2, op2)
  BY <1>3, <1>5, <1>6, <1>7, <1>8, <1>9 DEF Opened
<1> QED
  BY <1>10 DEF op2

LEMMA OpenedLess ==
    ASSUME NEW src \in Seq(Tokens), NEW src2 \in Seq(Tokens), Grown(src, src2),
           NEW op \in Seq(Constructs), op # <<>>,
           \A e \in New(src, src2) : src2[e].kind = "end" => src2[e].of = Last(op).at,
           Opened(src, op)
    PROVE  Opened(src2, Front(op))
<1> DEFINE op2 == Front(op)
<1>1. /\ Len(src) \in Nat /\ Len(src2) \in Nat /\ Len(src2) >= Len(src)
      /\ \A t \in 1..Len(src) : t \in 1..Len(src2) /\ src2[t] = src[t] /\ (SideOf(src2, t) <=> SideOf(src, t))
  BY TextGrows
<1>2. \A e \in 1..Len(src2) : e \in New(src, src2) \/ (e \in 1..Len(src) /\ src2[e] = src[e])
  BY <1>1 DEF New
<1>3. /\ Len(op) \in Nat \ {0} /\ Len(op2) = Len(op) - 1 /\ Last(op) = op[Len(op)]
      /\ \A k \in 1..(Len(op) - 1) : op2[k] = op[k] /\ k \in 1..Len(op) /\ k # Len(op)
  BY FrontIs
<1> HIDE DEF op2
<1>4. ASSUME NEW k \in 1..Len(op2)
      PROVE  /\ op2[k].at \in 1..Len(src2) /\ src2[op2[k].at].kind = HeadOf(op2[k].kind)
             /\ SideOf(src2, op2[k].at) <=> \E m \in 1..k : op2[m].kind = "region"
             /\ \A e \in 1..Len(src2) : src2[e].kind = "end" => src2[e].of # op2[k].at
  <2>1. k \in 1..Len(op) /\ op2[k] = op[k] /\ k < Len(op)
    <3>1. k \in 1..(Len(op) - 1)
      BY <1>3
    <3> QED
      BY <3>1, <1>3
  <2>2. \A m \in 1..k : op2[m] = op[m]
    <3>1. \A m \in 1..k : m \in 1..(Len(op) - 1)
      BY <1>3
    <3> QED
      BY <3>1, <1>3
  <2>3. /\ op[k].at \in 1..Len(src) /\ src[op[k].at].kind = HeadOf(op[k].kind)
        /\ SideOf(src, op[k].at) <=> \E m \in 1..k : op[m].kind = "region"
        /\ \A e \in 1..Len(src) : src[e].kind = "end" => src[e].of # op[k].at
    BY <2>1 DEF Opened
  <2>4. op[k].at # Last(op).at
    <3>1. Len(op) \in 1..Len(op) /\ op[Len(op)] \in Constructs /\ op[k] \in Constructs
      BY <1>3, <2>1
    <3>2. op[k].at < op[Len(op)].at
      BY <3>1, <2>1 DEF Opened
    <3> QED
      BY <3>1, <3>2, <1>3 DEF Constructs
  <2>5. \A e \in 1..Len(src2) : src2[e].kind = "end" => src2[e].of # op[k].at
    BY <2>3, <2>4, <1>2
  <2> QED
    BY <2>1, <2>2, <2>3, <2>5, <1>1
<1>5. \A k, m \in 1..Len(op2) : k < m => op2[k].at < op2[m].at
  BY <1>3 DEF Opened
<1>6. Opened(src2, op2)
  BY <1>4, <1>5 DEF Opened
<1> QED
  BY <1>6 DEF op2

Settled(src, src2, op, op2) ==
  /\ \A t \in New(src, src2) :
       TokenRight(src2, t) /\ (src2[t].kind \in Heads => \E k \in 1..Len(op2) : op2[k].at = t)
  /\ \A k \in 1..Len(op) :
       op[k].at \in 1..Len(src) /\ src[op[k].at].kind \in Heads =>
          \/ \E m \in 1..Len(op2) : op2[m].at = op[k].at
          \/ \E e \in 1..Len(src2) : Ends(src2, e, op[k].at)

LEMMA EndedKept ==
    ASSUME NEW src \in Seq(Tokens), NEW src2 \in Seq(Tokens), Grown(src, src2),
           NEW op, NEW op2, Ended(src, op), Settled(src, src2, op, op2)
    PROVE  Ended(src2, op2)
<1> USE DEF Settled
<1>1. /\ Len(src) \in Nat /\ Len(src2) \in Nat /\ Len(src2) >= Len(src)
      /\ \A t \in 1..Len(src) : t \in 1..Len(src2) /\ src2[t] = src[t] /\ (SideOf(src2, t) <=> SideOf(src, t))
  BY TextGrows
<1>2. ASSUME NEW t \in 1..Len(src)
      PROVE  /\ TokenRight(src2, t)
             /\ src2[t].kind \in Heads => \/ \E k \in 1..Len(op2) : op2[k].at = t
                                          \/ \E e \in 1..Len(src2) : Ends(src2, e, t)
  <2>1. TokenRight(src, t) /\ src2[t] = src[t]
    BY <1>1 DEF Ended
  <2>2. TokenRight(src2, t)
    <3>1. src[t].kind \in {"end", "else", "step"} =>
             src[t].of \in 1..Len(src2) /\ (SideOf(src2, t) <=> SideOf(src2, src[t].of))
      BY <2>1, <1>1 DEF TokenRight
    <3>2. src[t].kind = "for" => \E e \in 1..Len(src2) : src2[e].kind = "step" /\ src2[e].of = t
      BY <2>1, <1>1 DEF TokenRight
    <3>3. src[t].kind = "else" => src2[src[t].of].kind = "if"
      BY <2>1, <1>1 DEF TokenRight
    <3>4. src[t].kind \in {"break", "continue"} => src[t].of \in 1..Len(src2) /\ src2[src[t].of].kind \in Loops
      BY <2>1, <1>1 DEF TokenRight
    <3> QED
      BY <2>1, <3>1, <3>2, <3>3, <3>4 DEF TokenRight
  <2>3. ASSUME src2[t].kind \in Heads
        PROVE  \/ \E k \in 1..Len(op2) : op2[k].at = t
               \/ \E e \in 1..Len(src2) : Ends(src2, e, t)
    <3>1. \/ \E k \in 1..Len(op) : op[k].at = t
          \/ \E e \in 1..Len(src) : Ends(src, e, t)
      BY <2>1, <2>3 DEF Ended
    <3>2. CASE \E k \in 1..Len(op) : op[k].at = t
      BY <3>2, <2>1, <2>3
    <3>3. CASE \E e \in 1..Len(src) : Ends(src, e, t)
      BY <3>3, <1>1 DEF Ends
    <3> QED
      BY <3>1, <3>2, <3>3
  <2> QED
    BY <2>2, <2>3
<1>3. \A t \in 1..Len(src2) : t \in 1..Len(src) \/ t \in New(src, src2)
  BY <1>1 DEF New
<1> QED
  BY <1>2, <1>3 DEF Ended

-----------------------------------------------------------------------------
(* Labels                                                                  *)

\* What a construct has to have labels of and what it will define
Promises(c, low, high) ==
  /\ Shape(c)
  /\ \A l \in Pending(c) : l \in low..(high - 1)

LEMMA PendingAre ==
    ASSUME NEW c \in Constructs, Shape(c)
    PROVE  Pending(c) \in SUBSET Nat
<1>1. c.labels \in Seq(Nat) /\ c.kind \in Heads \cup {"else", "region"}
  BY DEF Constructs
<1>2. CASE c.kind = "do"
  <2>1. Len(c.labels) = 3
    BY <1>2 DEF Shape
  <2> QED
    BY <1>1, <1>2, <2>1 DEF Pending
<1>3. CASE c.kind \notin {"do", "region"}
  <2>1. Len(c.labels) \in {1, 2}
    BY <1>1, <1>3 DEF Shape, Heads, Loops
  <2>2. Last(c.labels) \in Nat
    BY <1>1, <2>1 DEF Last
  <2> QED
    BY <2>2, <1>3 DEF Pending
<1> QED
  BY <1>2, <1>3 DEF Pending

\* Nodes that define no label but the user's
LEMMA LabelsSame ==
    ASSUME NEW src \in Seq(Tokens), NEW src2 \in Seq(Tokens), Grown(src, src2),
           NEW nds \in Seq(NodesOf), NEW nds2, NEW L, AddsLabels(nds, nds2, L),
           NEW op \in Seq(Constructs), NEW n \in Nat, Labels(src, nds, op, n),
           \/ L = {}
           \/ /\ L = {UserLabel}
              /\ \A t \in 1..Len(src) : src[t].kind # "label"
              /\ \E t \in New(src, src2) : src2[t].kind = "label"
    PROVE  Labels(src2, nds2, op, n)
<1>1. /\ Len(nds) \in Nat /\ Len(nds2) \in Nat /\ Len(nds2) >= Len(nds) /\ nds2 \in Seq(NodesOf)
      /\ \A p \in 1..Len(nds) : p \in 1..Len(nds2) /\ nds2[p] = nds[p]
  BY DEF AddsLabels, Grown
<1>2. \A p \in 1..Len(nds2) : p \in New(nds, nds2) \/ (p \in 1..Len(nds) /\ nds2[p] = nds[p])
  <2>1. \A p \in 1..Len(nds2) : p \in New(nds, nds2) \/ p \in 1..Len(nds)
    BY <1>1 DEF New
  <2> QED
    BY <2>1, <1>1
<1>3. \A p \in New(nds, nds2) : Defines(nds2[p]) => nds2[p].label = UserLabel /\ L = {UserLabel}
  BY DEF AddsLabels
<1>4. \A l \in Int : Labelled(l) \in NodesOf /\ Defines(Labelled(l)) /\ Labelled(l).label = l
  BY DEF Labelled, Node, NodesOf, Defines
<1>5. UserLabel \in Int /\ UserLabel < 0 /\ FunctionLabel \in Int
  BY DEF UserLabel, FunctionLabel
<1>6. \A p \in 1..Len(nds) : nds[p] = Labelled(UserLabel) => \E t \in 1..Len(src) : src[t].kind = "label"
  BY DEF Labels
<1>7. \A t \in 1..Len(src) : t \in 1..Len(src2) /\ src2[t] = src[t]
  BY SidesStay
<1> HIDE DEF UserLabel, Labelled, FunctionLabel
<1>8. \A p \in 1..Len(nds2) : Defines(nds2[p]) => nds2[p].label < n
  BY <1>2, <1>3, <1>5, SMTT(30) DEF Labels
<1>9. ASSUME NEW k \in 1..Len(op), NEW l \in Pending(op[k])
      PROVE  l < n /\ \A p \in 1..Len(nds2) : nds2[p] # Labelled(l)
  <2>1. l < n /\ \A p \in 1..Len(nds) : nds[p] # Labelled(l)
    BY DEF Labels
  <2>2. l \in Nat
    <3>1. op[k] \in Constructs /\ Shape(op[k])
      BY DEF Labels
    <3> QED
      BY <3>1, PendingAre
  <2>3. \A p \in New(nds, nds2) : nds2[p] # Labelled(l)
    BY <1>3, <1>4, <1>5, <2>2
  <2> QED
    BY <2>1, <2>3, <1>2
<1>10. ASSUME NEW p \in 1..Len(nds2), NEW q \in 1..Len(nds2), Defines(nds2[p]), nds2[p] = nds2[q]
       PROVE  p = q
  <2>1. CASE p \in New(nds, nds2) /\ q \in New(nds, nds2)
    BY <2>1, <1>10 DEF AddsLabels
  <2>2. CASE p \in 1..Len(nds) /\ q \in 1..Len(nds)
    BY <2>2, <1>1, <1>10 DEF Labels
  <2>3. ASSUME NEW a \in 1..Len(nds), NEW b \in New(nds, nds2), Defines(nds2[b]), nds2[a] = nds2[b]
        PROVE  FALSE
    <3>1. nds2[b].label = UserLabel /\ L = {UserLabel}
      BY <1>3, <2>3
    <3>2. nds[a] = Labelled(UserLabel)
      <4>1. nds[a] = nds2[b]
        BY <2>3, <1>1
      <4>2. nds[a] \in NodesOf /\ Defines(nds[a]) /\ nds[a].label = UserLabel
        BY <4>1, <2>3, <3>1
      <4> QED
        BY <4>2 DEF NodesOf, Defines, Labelled, Node
    <3>3. {UserLabel} # {}
      OBVIOUS
    <3> QED
      BY <3>1, <3>2, <3>3, <1>6
  <2> QED
    BY <2>1, <2>2, <2>3, <1>2, <1>10
<1>11. (\E p \in 1..Len(nds2) : nds2[p] = Labelled(UserLabel)) => \E t \in 1..Len(src2) : src2[t].kind = "label"
  <2> SUFFICES ASSUME NEW p \in 1..Len(nds2), nds2[p] = Labelled(UserLabel)
               PROVE  \E t \in 1..Len(src2) : src2[t].kind = "label"
    OBVIOUS
  <2>1. CASE p \in 1..Len(nds)
    BY <2>1, <1>1, <1>6, <1>7
  <2>2. CASE p \in New(nds, nds2)
    <3>1. L = {UserLabel} /\ L # {}
      BY <2>2, <1>3, <1>4, <1>5
    <3>2. \A t \in New(src, src2) : t \in 1..Len(src2)
      BY DEF New
    <3> QED
      BY <3>1, <3>2
  <2> QED
    BY <2>1, <2>2, <1>2
<1>12. Len(nds2) > 0 /\ nds2[1] = Labelled(FunctionLabel)
  <2>1. Len(nds) > 0 /\ nds[1] = Labelled(FunctionLabel) /\ 1 \in 1..Len(nds)
    BY <1>1 DEF Labels
  <2> QED
    BY <2>1, <1>1
<1> QED
  BY <1>8, <1>9, <1>10, <1>11, <1>12 DEF Labels

\* What Labels says of what is open
Awaited(nds, op, n) ==
  /\ \A k \in 1..Len(op) : Shape(op[k])
  /\ \A k \in 1..Len(op) : \A l \in Pending(op[k]) :
       l < n /\ \A p \in 1..Len(nds) : nds[p] # Labelled(l)
  /\ \A k, m \in 1..Len(op) : k # m => Pending(op[k]) \cap Pending(op[m]) = {}

LEMMA AwaitedMore ==
    ASSUME NEW nds \in Seq(NodesOf), NEW op \in Seq(Constructs), NEW n \in Nat, NEW n2 \in Nat, n2 >= n,
           Awaited(nds, op, n), \A p \in 1..Len(nds) : Defines(nds[p]) => nds[p].label < n,
           NEW c \in Constructs, Promises(c, n, n2)
    PROVE  Awaited(nds, Append(op, c), n2)
<1> DEFINE op2 == Append(op, c)
           m == Len(op) + 1
<1>1. /\ Len(op) \in Nat /\ Len(op2) = m /\ op2[m] = c
      /\ \A k \in 1..Len(op) : op2[k] = op[k]
      /\ \A k \in 1..m : k \in 1..Len(op) \/ k = m
  BY AppendGrows DEF Grown
<1> HIDE DEF op2, m
<1>2. Shape(c) /\ \A l \in Pending(c) : l \in n..(n2 - 1)
  BY DEF Promises
<1>3. \A l \in Pending(c) : l < n2 /\ \A p \in 1..Len(nds) : nds[p] # Labelled(l)
  <2> SUFFICES ASSUME NEW l \in Pending(c), NEW p \in 1..Len(nds), nds[p] = Labelled(l) PROVE FALSE
    BY <1>2
  <2>1. Defines(nds[p]) /\ nds[p].label = l
    BY DEF Labelled, Node, Defines
  <2>2. l < n
    BY <2>1
  <2> QED
    BY <2>2, <1>2
<1>4. \A k \in 1..Len(op) : Pending(op[k]) \cap Pending(c) = {}
  <2> SUFFICES ASSUME NEW k \in 1..Len(op), NEW l \in Pending(op[k]), l \in Pending(c) PROVE FALSE
    OBVIOUS
  <2>1. l < n
    BY DEF Awaited
  <2> QED
    BY <2>1, <1>2
<1>5. \A k \in 1..m : Shape(op2[k])
  BY <1>1, <1>2 DEF Awaited
<1>6. ASSUME NEW k \in 1..m, NEW l \in Pending(op2[k])
      PROVE  l < n2 /\ \A p \in 1..Len(nds) : nds[p] # Labelled(l)
  <2>1. CASE k = m
    BY <2>1, <1>1, <1>3
  <2>2. CASE k \in 1..Len(op)
    <3>1. op2[k] = op[k] /\ op[k] \in Constructs /\ Shape(op[k])
      BY <2>2, <1>1 DEF Awaited
    <3>2. l \in Nat
      BY <3>1, PendingAre
    <3>3. l < n /\ \A p \in 1..Len(nds) : nds[p] # Labelled(l)
      BY <2>2, <3>1 DEF Awaited
    <3> QED
      BY <3>2, <3>3
  <2> QED
    BY <2>1, <2>2, <1>1
<1>7. \A k, j \in 1..m : k # j => Pending(op2[k]) \cap Pending(op2[j]) = {}
  <2>1. \A k, j \in 1..Len(op) : k # j => Pending(op[k]) \cap Pending(op[j]) = {}
    BY DEF Awaited
  <2>2. \A k \in 1..Len(op) : Pending(c) \cap Pending(op[k]) = {}
    BY <1>4
  <2> QED
    BY <2>1, <2>2, <1>1, <1>4
<1>8. Awaited(nds, op2, n2)
  BY <1>1, <1>5, <1>6, <1>7 DEF Awaited
<1> QED
  BY <1>8 DEF op2

LEMMA AwaitedLess ==
    ASSUME NEW nds \in Seq(NodesOf), NEW op \in Seq(Constructs), NEW n \in Nat, op # <<>>,
           Awaited(nds, op, n)
    PROVE  /\ Awaited(nds, Front(op), n) /\ Shape(Last(op))
           /\ \A l \in Pending(Last(op)) : l < n /\ \A p \in 1..Len(nds) : nds[p] # Labelled(l)
           /\ \A k \in 1..Len(Front(op)) : Pending(Front(op)[k]) \cap Pending(Last(op)) = {}
<1> DEFINE op2 == Front(op)
<1>1. /\ Len(op) \in Nat \ {0} /\ Len(op2) = Len(op) - 1 /\ Last(op) = op[Len(op)]
      /\ \A k \in 1..Len(op2) : op2[k] = op[k] /\ k \in 1..Len(op) /\ k # Len(op)
  BY FrontIs
<1>2. Len(op) \in 1..Len(op)
  BY <1>1
<1> HIDE DEF op2
<1>3. Awaited(nds, op2, n)
  BY <1>1 DEF Awaited
<1>4. /\ Shape(Last(op))
      /\ \A l \in Pending(Last(op)) : l < n /\ \A p \in 1..Len(nds) : nds[p] # Labelled(l)
      /\ \A k \in 1..Len(op2) : Pending(op2[k]) \cap Pending(Last(op)) = {}
  BY <1>1, <1>2 DEF Awaited
<1> QED
  BY <1>3, <1>4 DEF op2

\* Nodes that define labels which are at no node yet
\* The labels of L are new and not awaited
Unused(nds, op2, L, n2) ==
  /\ \A l \in L : l < n2 /\ \A p \in 1..Len(nds) : nds[p] # Labelled(l)
  /\ \A k \in 1..Len(op2) : Pending(op2[k]) \cap L = {}

LEMMA LabelsKept ==
    ASSUME NEW src \in Seq(Tokens), NEW src2 \in Seq(Tokens), Grown(src, src2),
           NEW nds \in Seq(NodesOf), NEW nds2, NEW L \in SUBSET Nat, AddsLabels(nds, nds2, L),
           NEW op, NEW n \in Nat, Labels(src, nds, op, n),
           NEW op2 \in Seq(Constructs), NEW n2 \in Nat, n2 >= n, Awaited(nds, op2, n2),
           Unused(nds, op2, L, n2)
    PROVE  Labels(src2, nds2, op2, n2)
<1> USE DEF Unused
<1>1. /\ Len(nds) \in Nat /\ Len(nds2) \in Nat /\ Len(nds2) >= Len(nds) /\ nds2 \in Seq(NodesOf)
      /\ \A p \in 1..Len(nds) : p \in 1..Len(nds2) /\ nds2[p] = nds[p]
  BY DEF AddsLabels, Grown
<1>2. \A p \in 1..Len(nds2) : p \in New(nds, nds2) \/ (p \in 1..Len(nds) /\ nds2[p] = nds[p])
  <2>1. \A p \in 1..Len(nds2) : p \in New(nds, nds2) \/ p \in 1..Len(nds)
    BY <1>1 DEF New
  <2> QED
    BY <2>1, <1>1
<1>3. \A p \in New(nds, nds2) : Defines(nds2[p]) => nds2[p].label \in L
  BY DEF AddsLabels
<1>4. \A l \in Int : Labelled(l) \in NodesOf /\ Defines(Labelled(l)) /\ Labelled(l).label = l
  BY DEF Labelled, Node, NodesOf, Defines
<1>5. UserLabel \in Int /\ UserLabel \notin Nat
  BY DEF UserLabel
<1>6. \A x \in NodesOf : Defines(x) => x = Labelled(x.label) /\ x.label \in Int
  BY DEF NodesOf, Defines, Labelled, Node
<1>7. \A t \in 1..Len(src) : t \in 1..Len(src2) /\ src2[t] = src[t]
  BY SidesStay
<1> HIDE DEF UserLabel, Labelled, FunctionLabel
<1>8. ASSUME NEW p \in 1..Len(nds2), Defines(nds2[p]) PROVE nds2[p].label < n2
  <2>1. CASE p \in New(nds, nds2)
    BY <2>1, <1>3, <1>8
  <2>2. CASE p \in 1..Len(nds) /\ nds2[p] = nds[p]
    <3>1. nds[p].label < n /\ nds[p] \in NodesOf
      BY <2>2, <1>8 DEF Labels
    <3>2. nds[p].label \in Int
      BY <3>1, <2>2, <1>6, <1>8
    <3> QED
      BY <3>1, <3>2, <2>2
  <2> QED
    BY <2>1, <2>2, <1>2
<1>9. ASSUME NEW k \in 1..Len(op2), NEW l \in Pending(op2[k])
      PROVE  l < n2 /\ \A p \in 1..Len(nds2) : nds2[p] # Labelled(l)
  <2>1. l < n2 /\ \A p \in 1..Len(nds) : nds[p] # Labelled(l)
    BY DEF Awaited
  <2>2. l \in Nat
    <3>1. op2[k] \in Constructs /\ Shape(op2[k])
      BY DEF Awaited
    <3> QED
      BY <3>1, PendingAre
  <2>3. \A p \in New(nds, nds2) : nds2[p] # Labelled(l)
    <3>1. l \notin L
      OBVIOUS
    <3> QED
      BY <3>1, <2>2, <1>3, <1>4, SMTT(30)
  <2> QED
    BY <2>1, <2>3, <1>2
<1>10. ASSUME NEW p \in 1..Len(nds2), NEW q \in 1..Len(nds2), Defines(nds2[p]), nds2[p] = nds2[q]
       PROVE  p = q
  <2>1. CASE p \in New(nds, nds2) /\ q \in New(nds, nds2)
    BY <2>1, <1>10 DEF AddsLabels
  <2>2. CASE p \in 1..Len(nds) /\ q \in 1..Len(nds)
    <3>1. nds[p] = nds[q] /\ Defines(nds[p])
      BY <2>2, <1>1, <1>10
    <3> QED
      BY <2>2, <3>1 DEF Labels
  <2>3. ASSUME NEW a \in 1..Len(nds), NEW b \in New(nds, nds2), Defines(nds2[b]), nds2[a] = nds2[b]
        PROVE  FALSE
    <3>1. nds[a] = nds2[b] /\ nds[a] \in NodesOf
      BY <2>3, <1>1
    <3>2. nds[a] = Labelled(nds2[b].label)
      BY <3>1, <2>3, <1>6
    <3>3. nds2[b].label \in L
      BY <2>3, <1>3
    <3> QED
      BY <3>2, <3>3
  <2> QED
    BY <2>1, <2>2, <2>3, <1>2, <1>10
<1>11. (\E p \in 1..Len(nds2) : nds2[p] = Labelled(UserLabel)) => \E t \in 1..Len(src2) : src2[t].kind = "label"
  <2> SUFFICES ASSUME NEW p \in 1..Len(nds2), nds2[p] = Labelled(UserLabel)
               PROVE  \E t \in 1..Len(src2) : src2[t].kind = "label"
    OBVIOUS
  <2>1. p \notin New(nds, nds2)
    BY <1>3, <1>4, <1>5
  <2>2. p \in 1..Len(nds) /\ nds[p] = Labelled(UserLabel)
    BY <2>1, <1>2
  <2>3. PICK t \in 1..Len(src) : src[t].kind = "label"
    BY <2>2 DEF Labels
  <2> QED
    BY <2>3, <1>7
<1>12. Len(nds2) > 0 /\ nds2[1] = Labelled(FunctionLabel)
  <2>1. Len(nds) > 0 /\ nds[1] = Labelled(FunctionLabel) /\ 1 \in 1..Len(nds)
    BY <1>1 DEF Labels
  <2> QED
    BY <2>1, <1>1
<1> QED
  BY <1>8, <1>9, <1>10, <1>11, <1>12 DEF Labels, Awaited

-----------------------------------------------------------------------------
(* The symbols " %cntl%"                                                   *)

LEMMA RankIs ==
    ASSUME NEW op \in Seq(Constructs), NEW k \in Nat
    PROVE  IsFiniteSet(LoopsTo(op, k)) /\ Rank(op, k) \in Nat
<1>1. IsFiniteSet(1..k)
  BY FS_Interval
<1>2. LoopsTo(op, k) \in SUBSET (1..k)
  BY DEF LoopsTo
<1>3. IsFiniteSet(LoopsTo(op, k))
  BY <1>1, <1>2, FS_Subset
<1> QED
  BY <1>3, FS_CardinalityType DEF Rank

LEMMA RankStep ==
    ASSUME NEW op \in Seq(Constructs), NEW k \in Nat \ {0}
    PROVE  /\ op[k].kind \in Loops => Rank(op, k) = Rank(op, k - 1) + 1
           /\ op[k].kind \notin Loops => Rank(op, k) = Rank(op, k - 1)
<1>1. k - 1 \in Nat /\ \A m \in Nat : m \in 1..k <=> m \in 1..(k - 1) \/ m = k
  OBVIOUS
<1>2. ASSUME op[k].kind \in Loops
      PROVE  Rank(op, k) = Rank(op, k - 1) + 1
  <2>1. LoopsTo(op, k) = LoopsTo(op, k - 1) \cup {k}
    BY <1>1, <1>2 DEF LoopsTo
  <2>2. k \notin LoopsTo(op, k - 1)
    BY DEF LoopsTo
  <2>3. IsFiniteSet(LoopsTo(op, k - 1))
    BY <1>1, RankIs
  <2> QED
    BY <2>1, <2>2, <2>3, FS_AddElement DEF Rank
<1>3. ASSUME op[k].kind \notin Loops
      PROVE  Rank(op, k) = Rank(op, k - 1)
  <2>1. LoopsTo(op, k) = LoopsTo(op, k - 1)
    BY <1>1, <1>3 DEF LoopsTo
  <2> QED
    BY <2>1 DEF Rank
<1> QED
  BY <1>2, <1>3

LEMMA RankGrows ==
    ASSUME NEW op \in Seq(Constructs), NEW k \in Nat, NEW j \in Nat, j <= k
    PROVE  Rank(op, j) <= Rank(op, k)
<1>1. LoopsTo(op, j) \in SUBSET LoopsTo(op, k)
  BY DEF LoopsTo
<1>2. IsFiniteSet(LoopsTo(op, k))
  BY RankIs
<1> QED
  BY <1>1, <1>2, FS_Subset DEF Rank

LEMMA RankSame ==
    ASSUME NEW op, NEW op2, NEW n \in Nat,
           \A m \in 1..n : op2[m].kind \in Loops <=> op[m].kind \in Loops
    PROVE  \A k \in 0..n : Rank(op2, k) = Rank(op, k)
<1> SUFFICES ASSUME NEW k \in 0..n PROVE Rank(op2, k) = Rank(op, k)
  OBVIOUS
<1>1. \A m \in 1..k : m \in 1..n
  OBVIOUS
<1>2. LoopsTo(op2, k) = LoopsTo(op, k)
  BY <1>1 DEF LoopsTo
<1> QED
  BY <1>2 DEF Rank

LEMMA BreaksSame ==
    ASSUME NEW op \in Seq(Constructs), NEW op2 \in Seq(Constructs), Len(op2) = Len(op), NEW labels,
           \A k \in 1..Len(op) : /\ op2[k].kind \in Loops <=> op[k].kind \in Loops
                                 /\ op[k].kind \in Loops => Last(op2[k].labels) = Last(op[k].labels),
           Breaks(op, labels)
    PROVE  Breaks(op2, labels)
<1>1. Len(op) \in Nat /\ \A k \in 1..Len(op) : k \in 0..Len(op)
  OBVIOUS
<1>2. \A k \in 0..Len(op) : Rank(op2, k) = Rank(op, k)
  BY <1>1, RankSame
<1> QED
  BY <1>1, <1>2 DEF Breaks

LEMMA BreaksMore ==
    ASSUME NEW op \in Seq(Constructs), NEW c \in Constructs,
           NEW labels \in Seq(Nat), NEW x \in Nat, NEW y \in Nat,
           Breaks(op, labels), c.kind \in Loops, Last(c.labels) = y
    PROVE  Breaks(Append(op, c), labels \o <<x, y>>)
<1> DEFINE op2 == Append(op, c)
           more == labels \o <<x, y>>
           n == Len(op)
<1>1. /\ n \in Nat /\ op2 \in Seq(Constructs) /\ Len(op2) = n + 1 /\ op2[n + 1] = c
      /\ \A k \in 1..n : op2[k] = op[k]
  BY AppendGrows DEF Grown
<1>2. Len(more) = Len(labels) + 2 /\ more[Len(labels) + 2] = y /\ Len(labels) \in Nat
  OBVIOUS
<1>3. \A i \in 1..Len(labels) : more[i] = labels[i]
  OBVIOUS
<1> HIDE DEF op2, more, n
<1>4. \A k \in 0..n : Rank(op2, k) = Rank(op, k)
  BY <1>1, RankSame, ZenonT(60)
<1>5. Rank(op2, n + 1) = Rank(op, n) + 1
  <2>1. n + 1 \in Nat \ {0} /\ n + 1 - 1 = n /\ n \in 0..n
    BY <1>1
  <2>2. Rank(op2, n + 1) = Rank(op2, n + 1 - 1) + 1
    BY <1>1, <2>1, RankStep
  <2> QED
    BY <2>1, <2>2, <1>4
<1>6. Len(labels) = 2 * Rank(op, n) /\ Rank(op, n) \in Nat
  BY <1>1, RankIs DEF Breaks, n
<1>7. Len(more) = 2 * Rank(op2, n + 1)
  BY <1>2, <1>5, <1>6
<1>8. ASSUME NEW k \in 1..n, op2[k].kind \in Loops
      PROVE  more[2 * Rank(op2, k)] = Last(op2[k].labels)
  <2>1. k \in 1..Len(op) /\ op2[k] = op[k] /\ k \in Nat /\ k <= n /\ k \in 0..n
    BY <1>1 DEF n
  <2>2. labels[2 * Rank(op, k)] = Last(op[k].labels)
    BY <2>1, <1>8 DEF Breaks
  <2>3. Rank(op, k) <= Rank(op, n)
    BY <2>1, <1>1, RankGrows
  <2>4. Rank(op, k) = Rank(op, k - 1) + 1 /\ Rank(op, k - 1) \in Nat /\ Rank(op, k) \in Nat
    <3>1. k \in Nat \ {0} /\ k - 1 \in Nat
      BY <2>1
    <3> QED
      BY <2>1, <3>1, <1>8, RankStep, RankIs
  <2>5. 2 * Rank(op, k) \in 1..Len(labels)
    BY <2>3, <2>4, <1>6, SMTT(30)
  <2>6. more[2 * Rank(op, k)] = labels[2 * Rank(op, k)]
    BY <2>5, <1>3
  <2> QED
    BY <2>1, <2>2, <2>6, <1>4
<1>9. more[2 * Rank(op2, n + 1)] = Last(op2[n + 1].labels)
  <2>1. 2 * Rank(op2, n + 1) = Len(labels) + 2
    BY <1>5, <1>6
  <2> QED
    BY <2>1, <1>1, <1>2
<1>10. \A k \in 1..Len(op2) : k \in 1..n \/ k = n + 1
  BY <1>1
<1>11. Breaks(op2, more)
  BY <1>1, <1>7, <1>8, <1>9, <1>10 DEF Breaks
<1> QED
  BY <1>11 DEF op2, more

LEMMA BreaksMoreOther ==
    ASSUME NEW op \in Seq(Constructs), NEW c \in Constructs, NEW labels,
           Breaks(op, labels), c.kind \notin Loops
    PROVE  Breaks(Append(op, c), labels)
<1> DEFINE op2 == Append(op, c)
           n == Len(op)
<1>1. /\ n \in Nat /\ op2 \in Seq(Constructs) /\ Len(op2) = n + 1 /\ op2[n + 1] = c
      /\ \A k \in 1..n : op2[k] = op[k] /\ k \in 0..n
  BY AppendGrows DEF Grown
<1> HIDE DEF op2
<1>2. \A k \in 0..n : Rank(op2, k) = Rank(op, k)
  BY <1>1, RankSame
<1>3. Rank(op2, n + 1) = Rank(op, n)
  <2>1. n + 1 \in Nat \ {0} /\ n + 1 - 1 = n /\ n \in 0..n
    BY <1>1
  <2>2. Rank(op2, n + 1) = Rank(op2, n + 1 - 1)
    BY <1>1, <2>1, RankStep
  <2> QED
    BY <2>1, <2>2, <1>2
<1>4. \A k \in 1..Len(op2) : op2[k].kind \in Loops => k \in 1..n
  BY <1>1
<1>5. Breaks(op2, labels)
  BY <1>1, <1>2, <1>3, <1>4 DEF Breaks
<1> QED
  BY <1>5 DEF op2

LEMMA BreaksLessOther ==
    ASSUME NEW op \in Seq(Constructs), op # <<>>, NEW labels,
           Breaks(op, labels), Last(op).kind \notin Loops
    PROVE  Breaks(Front(op), labels)
<1> DEFINE op2 == Front(op)
           n == Len(op)
<1>1. /\ n \in Nat \ {0} /\ op2 \in Seq(Constructs) /\ Len(op2) = n - 1 /\ op[n] = Last(op)
      /\ \A k \in 1..(n - 1) : op2[k] = op[k] /\ k \in 1..n /\ k \in 0..(n - 1)
  <2>1. /\ n \in Nat \ {0} /\ op2 \in Seq(Constructs) /\ Len(op2) = n - 1 /\ op[n] = Last(op)
        /\ \A k \in 1..(n - 1) : op2[k] = op[k] /\ k \in 1..n
    BY FrontIs
  <2>2. \A k \in 1..(n - 1) : k \in 0..(n - 1)
    OBVIOUS
  <2> QED
    BY <2>1, <2>2
<1> HIDE DEF op2
<1>2. \A k \in 0..(n - 1) : Rank(op2, k) = Rank(op, k)
  <2>1. n - 1 \in Nat
    BY <1>1
  <2> QED
    BY <1>1, <2>1, RankSame, ZenonT(60)
<1>3. Rank(op, n) = Rank(op2, n - 1)
  <2>1. Rank(op, n) = Rank(op, n - 1)
    BY <1>1, RankStep
  <2>2. n - 1 \in 0..(n - 1)
    BY <1>1
  <2> QED
    BY <2>1, <2>2, <1>2
<1>4. Breaks(op2, labels)
  BY <1>1, <1>2, <1>3 DEF Breaks
<1> QED
  BY <1>4 DEF op2

LEMMA BreaksLess ==
    ASSUME NEW op \in Seq(Constructs), op # <<>>, NEW labels \in Seq(Nat),
           Breaks(op, labels), Last(op).kind \in Loops
    PROVE  /\ SubSeq(labels, 1, Len(labels) - 2) \in Seq(Nat)
           /\ Breaks(Front(op), SubSeq(labels, 1, Len(labels) - 2))
<1> DEFINE op2 == Front(op)
           less == SubSeq(labels, 1, Len(labels) - 2)
           n == Len(op)
<1>1. /\ n \in Nat \ {0} /\ op2 \in Seq(Constructs) /\ Len(op2) = n - 1 /\ op[n] = Last(op)
      /\ \A k \in 1..(n - 1) : op2[k] = op[k] /\ k \in 1..n /\ k \in 0..(n - 1)
  <2>1. /\ n \in Nat \ {0} /\ op2 \in Seq(Constructs) /\ Len(op2) = n - 1 /\ op[n] = Last(op)
        /\ \A k \in 1..(n - 1) : op2[k] = op[k] /\ k \in 1..n
    BY FrontIs
  <2>2. \A k \in 1..(n - 1) : k \in 0..(n - 1)
    OBVIOUS
  <2> QED
    BY <2>1, <2>2
<1>2. n - 1 \in Nat /\ n - 1 \in 0..(n - 1)
  BY <1>1
<1>3. \A k \in 0..(n - 1) : Rank(op2, k) = Rank(op, k)
  <2> HIDE DEF op2
  <2> QED
    BY <1>1, <1>2, RankSame, ZenonT(60)
<1>4. Rank(op, n) = Rank(op2, n - 1) + 1 /\ Rank(op2, n - 1) \in Nat
  <2>1. Rank(op, n) = Rank(op, n - 1) + 1
    BY <1>1, RankStep
  <2>2. Rank(op, n - 1) \in Nat
    BY <1>2, RankIs
  <2> QED
    BY <2>1, <2>2, <1>2, <1>3
<1>5. Len(labels) = 2 * Rank(op, n)
  BY DEF Breaks
<1>6. less \in Seq(Nat) /\ Len(less) = Len(labels) - 2 /\ \A i \in 1..Len(less) : less[i] = labels[i]
  <2>1. \A m \in 0..Len(labels) : /\ SubSeq(labels, 1, m) \in Seq(Nat) /\ Len(SubSeq(labels, 1, m)) = m
                                  /\ \A i \in 1..m : SubSeq(labels, 1, m)[i] = labels[i]
    OBVIOUS
  <2>2. Len(labels) - 2 \in 0..Len(labels)
    BY <1>4, <1>5
  <2> QED
    BY <2>1, <2>2
<1> HIDE DEF op2, less
<1>7. Len(less) = 2 * Rank(op2, n - 1)
  BY <1>4, <1>5, <1>6
<1>8. ASSUME NEW k \in 1..(n - 1), op2[k].kind \in Loops
      PROVE  less[2 * Rank(op2, k)] = Last(op2[k].labels)
  <2>1. op2[k] = op[k] /\ k \in 1..n /\ k \in Nat \ {0} /\ k - 1 \in Nat /\ k <= n - 1 /\ k \in 0..(n - 1)
    BY <1>1
  <2>2. labels[2 * Rank(op, k)] = Last(op[k].labels)
    BY <2>1, <1>8 DEF Breaks
  <2>3. Rank(op2, k) <= Rank(op2, n - 1)
    BY <2>1, <1>1, <1>2, RankGrows
  <2>4. Rank(op2, k) = Rank(op2, k - 1) + 1 /\ Rank(op2, k - 1) \in Nat /\ Rank(op2, k) \in Nat
    BY <2>1, <1>1, <1>8, RankStep, RankIs
  <2>5. 2 * Rank(op2, k) \in 1..Len(less)
    BY <2>3, <2>4, <1>4, <1>7, SMTT(30)
  <2> QED
    BY <2>1, <2>2, <2>5, <1>3, <1>6
<1>9. Breaks(op2, less)
  BY <1>1, <1>7, <1>8 DEF Breaks
<1> QED
  BY <1>6, <1>9 DEF op2, less

\* What break goes by
LEMMA NewestIsInnermost ==
    ASSUME NEW op \in Seq(Constructs), NEW labels \in Seq(Nat), Breaks(op, labels),
           NEW k \in 1..Len(op), op[k].kind \in Loops,
           \A m \in 1..Len(op) : m > k => op[m].kind \notin Loops
    PROVE  Last(labels) = Last(op[k].labels) /\ Last(labels) \in Nat
<1>1. LoopsTo(op, Len(op)) = LoopsTo(op, k)
  BY DEF LoopsTo
<1>2. Len(labels) = 2 * Rank(op, k)
  BY <1>1 DEF Breaks, Rank
<1>3. Rank(op, k) = Rank(op, k - 1) + 1 /\ Rank(op, k - 1) \in Nat
  <2>1. k \in Nat \ {0} /\ k - 1 \in Nat
    OBVIOUS
  <2> QED
    BY <2>1, RankStep, RankIs
<1>4. Len(labels) \in 1..Len(labels)
  BY <1>2, <1>3
<1>5. Last(labels) = labels[Len(labels)] /\ Last(labels) \in Nat
  BY <1>4 DEF Last
<1>6. labels[2 * Rank(op, k)] = Last(op[k].labels)
  BY DEF Breaks
<1> QED
  BY <1>2, <1>5, <1>6

-----------------------------------------------------------------------------
(* The nodes that a step leaves                                            *)

\* Nodes without a marker that define labels of L, each once
Fair(new, L) ==
  /\ new \in Seq(NodesOf)
  /\ \A p \in 1..Len(new) : new[p] # Marker /\ (Defines(new[p]) => new[p].label \in L)
  /\ \A p, q \in 1..Len(new) : Defines(new[p]) /\ new[p] = new[q] => p = q
Puts(new, x) == \E p \in 1..Len(new) : new[p] = x

LEMMA OneNode ==
    ASSUME NEW x \in NodesOf, x # Marker, NEW L, Defines(x) => x.label \in L
    PROVE  Fair(<<x>>, L) /\ Puts(<<x>>, x)
<1> DEFINE new == <<x>>
<1>1. new \in Seq(NodesOf) /\ Len(new) = 1 /\ new[1] = x
  OBVIOUS
<1> HIDE DEF new
<1>2. \A p \in 1..Len(new) : p = 1
  BY <1>1
<1>3. 1 \in 1..Len(new)
  BY <1>1
<1>4. Fair(new, L) /\ Puts(new, x)
  BY <1>1, <1>2, <1>3 DEF Fair, Puts
<1> QED
  BY <1>4 DEF new

LEMMA JumpNode ==
    ASSUME NEW l \in Int
    PROVE  /\ Goto(l) \in NodesOf /\ ~Defines(Goto(l)) /\ Fork(l) \in NodesOf
           /\ Fair(<<Goto(l)>>, {}) /\ Puts(<<Goto(l)>>, Goto(l)) /\ Fair(<<Fork(l)>>, {})
<1>1. Goto(l) \in NodesOf /\ Goto(l) # Marker /\ ~Defines(Goto(l))
  BY DEF Goto, Node, NodesOf, Marker, Defines
<1>2. Fork(l) \in NodesOf /\ Fork(l) # Marker /\ ~Defines(Fork(l))
  BY DEF Fork, Node, NodesOf, Marker, Defines
<1> QED
  BY <1>1, <1>2, OneNode

LEMMA LabelNode ==
    ASSUME NEW l \in Int
    PROVE  /\ Labelled(l) \in NodesOf /\ Defines(Labelled(l)) /\ Labelled(l).label = l
           /\ Fair(<<Labelled(l)>>, {l}) /\ Puts(<<Labelled(l)>>, Labelled(l))
<1>1. Labelled(l) \in NodesOf /\ Labelled(l) # Marker /\ Defines(Labelled(l)) /\ Labelled(l).label = l
  BY DEF Labelled, Node, NodesOf, Marker, Defines
<1> QED
  BY <1>1, OneNode

LEMMA VariableNode ==
    ASSUME NEW u \in {"used", "lval", "addr", "defined"}
    PROVE  Fair(<<Variable(u)>>, {})
<1>1. Variable(u) \in NodesOf /\ Variable(u) # Marker /\ ~Defines(Variable(u))
  BY DEF Variable, Node, NodesOf, Marker, Defines
<1> QED
  BY <1>1, OneNode

LEMMA NoNode == Fair(<<>>, {})
<1> DEFINE new == <<>>
<1>1. new \in Seq(NodesOf) /\ Len(new) = 0
  OBVIOUS
<1> HIDE DEF new
<1>2. Fair(new, {})
  BY <1>1 DEF Fair
<1> QED
  BY <1>2 DEF new

LEMMA UseIsFair ==
    ASSUME NEW uses
    PROVE  Fair(UseNodes(uses), {})
<1>1. UseNodes(uses) \in {<<Variable("used")>>, <<Variable("lval")>>, <<Variable("addr")>>, <<>>}
  BY DEF UseNodes
<1> QED
  BY <1>1, VariableNode, NoNode

LEMMA FairAll ==
    ASSUME NEW a, NEW b, NEW L, NEW M, Fair(a, L), Fair(b, M), L \cap M = {},
           NEW N, L \in SUBSET N, M \in SUBSET N
    PROVE  /\ Fair(a \o b, N)
           /\ \A x : Puts(a, x) \/ Puts(b, x) => Puts(a \o b, x)
<1> DEFINE n == Len(a)
           new == a \o b
<1>1. a \in Seq(NodesOf) /\ b \in Seq(NodesOf)
  BY DEF Fair
<1>2. /\ new \in Seq(NodesOf) /\ Len(new) = n + Len(b) /\ n \in Nat /\ Len(b) \in Nat
      /\ \A p \in 1..n : new[p] = a[p] /\ p \in 1..Len(new)
      /\ \A p \in 1..Len(b) : new[n + p] = b[p] /\ n + p \in 1..Len(new)
  BY <1>1
<1> HIDE DEF n, new
<1>3. \A p \in 1..Len(new) : \/ p \in 1..Len(a) /\ new[p] = a[p]
                             \/ p - n \in 1..Len(b) /\ new[p] = b[p - n]
  <2> SUFFICES ASSUME NEW p \in 1..Len(new)
               PROVE  \/ p \in 1..Len(a) /\ new[p] = a[p]
                      \/ p - n \in 1..Len(b) /\ new[p] = b[p - n]
    OBVIOUS
  <2>1. CASE p <= n
    BY <2>1, <1>2 DEF n
  <2>2. CASE p > n
    <3>1. p - n \in 1..Len(b) /\ n + (p - n) = p
      BY <2>2, <1>2
    <3> QED
      BY <3>1, <1>2
  <2> QED
    BY <2>1, <2>2, <1>2
<1>4. \A p \in 1..Len(new) : new[p] # Marker /\ (Defines(new[p]) => new[p].label \in N)
  BY <1>3 DEF Fair
<1>5. ASSUME NEW p \in 1..Len(new), NEW q \in 1..Len(new), Defines(new[p]), new[p] = new[q]
      PROVE  p = q
  <2>1. CASE p \in 1..Len(a) /\ new[p] = a[p] /\ q \in 1..Len(a) /\ new[q] = a[q]
    BY <2>1, <1>5 DEF Fair
  <2>2. CASE p - n \in 1..Len(b) /\ new[p] = b[p - n] /\ q - n \in 1..Len(b) /\ new[q] = b[q - n]
    <3>1. p - n = q - n
      BY <2>2, <1>5 DEF Fair
    <3> QED
      BY <3>1, <1>2
  <2>3. ASSUME NEW i \in 1..Len(a), NEW j \in 1..Len(b), a[i] = b[j], Defines(a[i])
        PROVE  FALSE
    <3>1. a[i].label \in L /\ b[j].label \in M
      BY <2>3 DEF Fair
    <3> QED
      BY <3>1, <2>3
  <2> QED
    BY <2>1, <2>2, <2>3, <1>3, <1>5
<1>6. \A x : Puts(a, x) \/ Puts(b, x) => Puts(new, x)
  BY <1>2 DEF Puts, n
<1>7. Fair(new, N)
  BY <1>2, <1>4, <1>5 DEF Fair
<1> QED
  BY <1>6, <1>7 DEF new

LEMMA PutsAfter ==
    ASSUME NEW a, NEW b, NEW L, NEW M, Fair(a, L), Fair(b, M), NEW x, Puts(b, x)
    PROVE  Puts(a \o b, x)
<1>1. a \in Seq(NodesOf) /\ b \in Seq(NodesOf)
  BY DEF Fair
<1>2. PICK p \in 1..Len(b) : b[p] = x
  BY DEF Puts
<1>3. Len(a) + p \in 1..Len(a \o b) /\ (a \o b)[Len(a) + p] = x
  BY <1>1, <1>2
<1> QED
  BY <1>3 DEF Puts

LEMMA OneIs ==
    ASSUME NEW x \in NodesOf, NEW L, Fair(<<x>>, L)
    PROVE  x # Marker /\ (Defines(x) => x.label \in L) /\ \A z : Puts(<<x>>, z) => z = x
<1> DEFINE new == <<x>>
<1>1. Len(new) = 1 /\ new[1] = x
  OBVIOUS
<1>2. Fair(new, L) /\ 1 \in 1..Len(new) /\ \A p \in 1..Len(new) : p = 1
  BY <1>1
<1> HIDE DEF new
<1>3. x # Marker /\ (Defines(x) => x.label \in L) /\ \A z : Puts(new, z) => z = x
  BY <1>1, <1>2 DEF Fair, Puts
<1> QED
  BY <1>3 DEF new

LEMMA TwoNodes ==
    ASSUME NEW x \in NodesOf, NEW y \in NodesOf, NEW M, Fair(<<x>>, {}), Fair(<<y>>, M)
    PROVE  Fair(<<x, y>>, M) /\ \A z : Puts(<<y>>, z) => Puts(<<x, y>>, z)
<1> DEFINE new == <<x, y>>
<1>1. new \in Seq(NodesOf) /\ Len(new) = 2 /\ new[1] = x /\ new[2] = y
  OBVIOUS
<1>2. /\ x # Marker /\ ~Defines(x) /\ y # Marker /\ (Defines(y) => y.label \in M)
      /\ \A z : Puts(<<y>>, z) => z = y
  BY OneIs
<1> HIDE DEF new
<1>3. 2 \in 1..Len(new) /\ \A p \in 1..Len(new) : p = 1 \/ p = 2
  BY <1>1
<1>4. Fair(new, M)
  BY <1>1, <1>2, <1>3 DEF Fair
<1>5. \A z : Puts(<<y>>, z) => Puts(new, z)
  BY <1>1, <1>2, <1>3 DEF Puts
<1> QED
  BY <1>4, <1>5 DEF new

LEMMA ThreeNodes ==
    ASSUME NEW x \in NodesOf, NEW y \in NodesOf, NEW z \in NodesOf, NEW M,
           Fair(<<x>>, {}), Fair(<<y>>, {}), Fair(<<z>>, M)
    PROVE  Fair(<<x, y, z>>, M)
<1> DEFINE new == <<x, y, z>>
<1>1. new \in Seq(NodesOf) /\ Len(new) = 3 /\ new[1] = x /\ new[2] = y /\ new[3] = z
  OBVIOUS
<1>2. x # Marker /\ ~Defines(x) /\ y # Marker /\ ~Defines(y) /\ z # Marker /\ (Defines(z) => z.label \in M)
  BY OneIs
<1> HIDE DEF new
<1>3. \A p \in 1..Len(new) : p = 1 \/ p = 2 \/ p = 3
  BY <1>1
<1>4. Fair(new, M)
  BY <1>1, <1>2, <1>3 DEF Fair
<1> QED
  BY <1>4 DEF new

LEMMA ForkAfterUse ==
    ASSUME NEW uses, NEW l \in Int
    PROVE  Fair(UseNodes(uses) \o <<Fork(l)>>, {})
<1>1. Fair(UseNodes(uses), {})
  BY UseIsFair
<1>2. Fair(<<Fork(l)>>, {})
  BY JumpNode
<1>3. {} \cap {} = {} /\ {} \in SUBSET {}
  OBVIOUS
<1> QED
  BY <1>1, <1>2, <1>3, FairAll

LEMMA NodesAdded ==
    ASSUME NEW nds \in Seq(NodesOf), NEW new, NEW L, Fair(new, L)
    PROVE  /\ Adds(nds, nds \o new, L)
           /\ \A x : Puts(new, x) => \E p \in New(nds, nds \o new) : (nds \o new)[p] = x
<1> DEFINE nds2 == nds \o new
           n == Len(nds)
<1>1. new \in Seq(NodesOf) /\ n \in Nat
  BY DEF Fair
<1>2. /\ nds2 \in Seq(NodesOf) /\ Grown(nds, nds2)
      /\ \A i \in 1..Len(new) : n + i \in New(nds, nds2) /\ nds2[n + i] = new[i]
      /\ \A i \in New(nds, nds2) : i - n \in 1..Len(new) /\ nds2[i] = new[i - n] /\ i \in Int
  <2>1. \A i \in New(nds, nds2) : i \in Int
    BY DEF New
  <2>2. nds2 \in Seq(NodesOf) /\ Grown(nds, nds2)
    BY <1>1, ConcatGrows
  <2>3. \A i \in 1..Len(new) : n + i \in New(nds, nds2) /\ nds2[n + i] = new[i]
    BY <1>1, ConcatGrows
  <2>4. \A i \in New(nds, nds2) : i - n \in 1..Len(new) /\ nds2[i] = new[i - n]
    BY <1>1, ConcatGrows
  <2> QED
    BY <2>1, <2>2, <2>3, <2>4
<1> HIDE DEF nds2, n
<1>3. \A p \in New(nds, nds2) : nds2[p] # Marker /\ (Defines(nds2[p]) => nds2[p].label \in L)
  BY <1>2 DEF Fair
<1>4. ASSUME NEW p \in New(nds, nds2), NEW q \in New(nds, nds2), Defines(nds2[p]), nds2[p] = nds2[q]
      PROVE  p = q
  <2>1. p - n = q - n
    BY <1>2, <1>4 DEF Fair
  <2> QED
    BY <2>1, <1>1, <1>2
<1>5. Adds(nds, nds2, L)
  BY <1>2, <1>3, <1>4 DEF Adds, AddsLabels
<1>6. \A x : Puts(new, x) => \E p \in New(nds, nds2) : nds2[p] = x
  BY <1>2 DEF Puts
<1> QED
  BY <1>5, <1>6 DEF nds2

\* The same of the nodes that a step leaves
LEMMA Left ==
    ASSUME nodes \in Seq(NodesOf), NEW new, NEW L, Fair(new, L), Leave(new), NEW x, Puts(new, x)
    PROVE  Adds(nodes, nodes', L) /\ \E p \in New(nodes, nodes') : nodes'[p] = x
<1>1. Adds(nodes, nodes \o new, L)
  BY NodesAdded
<1>2. \E p \in New(nodes, nodes \o new) : (nodes \o new)[p] = x
  <2>1. \A z : Puts(new, z) => \E p \in New(nodes, nodes \o new) : (nodes \o new)[p] = z
    BY NodesAdded, ZenonT(60)
  <2> QED
    BY <2>1
<1>3. nodes' = nodes \o new
  BY DEF Leave
<1> QED
  BY <1>1, <1>2, <1>3

-----------------------------------------------------------------------------
(* Jumps                                                                   *)

LEMMA GoesStill ==
    ASSUME NEW src \in Seq(Tokens), NEW src2 \in Seq(Tokens), Grown(src, src2),
           NEW nds \in Seq(NodesOf), NEW nds2 \in Seq(NodesOf), Grown(nds, nds2),
           NEW t \in 1..Len(src), NEW l
    PROVE  /\ GoesTo(src, nds, t, l) => GoesTo(src2, nds2, t, l)
           /\ Comes(src, nds, t, l) => Comes(src2, nds2, t, l)
<1>1. SideOf(src2, t) <=> SideOf(src, t)
  BY SidesStay
<1>2. \A p \in 1..Len(nds) : p \in 1..Len(nds2) /\ nds2[p] = nds[p] /\ (NodeSide(nds2, p) <=> NodeSide(nds, p))
  BY NodeSidesStay
<1> QED
  BY <1>1, <1>2 DEF GoesTo, Comes

\* A label that was awaited is still, or is at a node on the side of its construct.
Fulfilled(src2, nds2, op2, c) ==
  \/ \E m \in 1..Len(op2) : op2[m].at = c.at /\ Last(op2[m].labels) = Last(c.labels)
  \/ \E q \in 1..Len(nds2) : /\ Defines(nds2[q]) /\ nds2[q].label = Last(c.labels)
                             /\ NodeSide(nds2, q) <=> SideOf(src2, c.at)

LEMMA JumpsKept ==
    ASSUME NEW src \in Seq(Tokens), NEW src2 \in Seq(Tokens), Grown(src, src2),
           NEW nds \in Seq(NodesOf), NEW nds2 \in Seq(NodesOf), Grown(nds, nds2),
           NEW op \in Seq(Constructs), NEW op2,
           Opened(src, op), Ended(src, op), JumpsLead(src, nds, op),
           \A t \in New(src, src2) : JumpRight(src2, nds2, op2, t),
           \A k \in 1..Len(op) : op[k].kind \in Loops => Fulfilled(src2, nds2, op2, op[k])
    PROVE  JumpsLead(src2, nds2, op2)
<1>1. /\ Len(src) \in Nat /\ Len(src2) \in Nat /\ Len(src2) >= Len(src)
      /\ \A t \in 1..Len(src) : t \in 1..Len(src2) /\ src2[t] = src[t] /\ (SideOf(src2, t) <=> SideOf(src, t))
  BY TextGrows
<1>2. \A p \in 1..Len(nds) : p \in 1..Len(nds2) /\ nds2[p] = nds[p] /\ (NodeSide(nds2, p) <=> NodeSide(nds, p))
  BY NodeSidesStay
<1>3. ASSUME NEW t \in 1..Len(src), src[t].kind \in {"break", "continue"}, Leaves(src, nds, op, t)
      PROVE  Leaves(src2, nds2, op2, t)
  <2>1. src[t].of \in 1..Len(src) /\ src[src[t].of].kind \in Loops
    BY <1>3 DEF Ended, TokenRight
  <2>2. CASE \E k \in 1..Len(op) : op[k].at = src[t].of /\ GoesTo(src, nds, t, Last(op[k].labels))
    <3>1. PICK k \in 1..Len(op) : op[k].at = src[t].of /\ GoesTo(src, nds, t, Last(op[k].labels))
      BY <2>2
    <3>2. GoesTo(src2, nds2, t, Last(op[k].labels))
      BY <3>1, GoesStill
    <3>3. op[k].kind \in Loops
      <4>1. HeadOf(op[k].kind) \in Loops
        BY <2>1, <3>1 DEF Opened
      <4> QED
        BY <4>1 DEF HeadOf, Loops
    <3>4. Fulfilled(src2, nds2, op2, op[k])
      BY <3>3
    <3>5. CASE \E m \in 1..Len(op2) : op2[m].at = op[k].at /\ Last(op2[m].labels) = Last(op[k].labels)
      BY <3>5, <3>1, <3>2, <1>1 DEF Leaves
    <3>6. CASE \E q \in 1..Len(nds2) : /\ Defines(nds2[q]) /\ nds2[q].label = Last(op[k].labels)
                                       /\ NodeSide(nds2, q) <=> SideOf(src2, op[k].at)
      BY <3>6, <3>1, <3>2, <1>1 DEF Leaves
    <3> QED
      BY <3>4, <3>5, <3>6 DEF Fulfilled
  <2>3. CASE \E q \in 1..Len(nds) : /\ Defines(nds[q]) /\ GoesTo(src, nds, t, nds[q].label)
                                    /\ NodeSide(nds, q) <=> SideOf(src, src[t].of)
    <3>1. PICK q \in 1..Len(nds) : /\ Defines(nds[q]) /\ GoesTo(src, nds, t, nds[q].label)
                                   /\ NodeSide(nds, q) <=> SideOf(src, src[t].of)
      BY <2>3
    <3>2. GoesTo(src2, nds2, t, nds[q].label)
      BY <3>1, GoesStill
    <3> QED
      BY <3>1, <3>2, <2>1, <1>1, <1>2 DEF Leaves
  <2> QED
    BY <1>3, <2>2, <2>3 DEF Leaves
<1>4. ASSUME NEW t \in 1..Len(src), InSwitch(src, t)
      PROVE  InSwitch(src2, t)
  <2>1. PICK s \in 1..Len(src) : /\ src[s].kind = "switch" /\ s \in src[t].of .. t
                                 /\ \A e \in 1..Len(src) : Ends(src, e, s) => t < e
    BY <1>4 DEF InSwitch
  <2>2. ASSUME NEW e \in 1..Len(src2), Ends(src2, e, s)
        PROVE  t < e
    <3>1. CASE e \in 1..Len(src)
      <4>1. Ends(src, e, s)
        BY <3>1, <2>2, <1>1 DEF Ends
      <4> QED
        BY <4>1, <3>1, <2>1
    <3>2. CASE e > Len(src)
      BY <3>2, <1>1
    <3> QED
      BY <3>1, <3>2, <1>1
  <2> QED
    BY <2>1, <2>2, <1>1 DEF InSwitch
<1>5. ASSUME NEW t \in 1..Len(src)
      PROVE  JumpRight(src2, nds2, op2, t)
  <2>1. JumpRight(src, nds, op, t)
    BY DEF JumpsLead
  <2>2. src2[t] = src[t]
    BY <1>1
  <2>3. src2[t].kind = "break" => Leaves(src2, nds2, op2, t)
    BY <2>1, <2>2, <1>3 DEF JumpRight
  <2>4. src2[t].kind = "continue" => Leaves(src2, nds2, op2, t) \/ InSwitch(src2, t)
    BY <2>1, <2>2, <1>3, <1>4 DEF JumpRight
  <2>5. /\ src2[t].kind = "goto" => GoesTo(src2, nds2, t, UserLabel)
        /\ src2[t].kind = "return" => GoesTo(src2, nds2, t, FunctionLabel)
        /\ src2[t].kind = "label" => Comes(src2, nds2, t, UserLabel)
    BY <2>1, <2>2, GoesStill DEF JumpRight
  <2> QED
    BY <2>3, <2>4, <2>5 DEF JumpRight
<1>6. \A t \in 1..Len(src2) : t \in 1..Len(src) \/ t \in New(src, src2)
  BY <1>1 DEF New
<1> QED
  BY <1>5, <1>6 DEF JumpsLead

-----------------------------------------------------------------------------
(* The graph after a step                                                  *)

JumpKinds == {"break", "continue", "goto", "return", "label"}

\* The sides of what a step leaves, and of the innermost construct
LEMMA StepSides ==
    ASSUME NEW src, NEW nds, NEW op, NEW n, Graph(src, nds, op, n),
           NEW src2 \in Seq(Tokens), Grown(src, src2),
           \A t \in New(src, src2) : src2[t].kind \notin {"begin", "finish"},
           NEW nds2, NEW L, Adds(nds, nds2, L)
    PROVE  /\ \A t \in New(src, src2) : t \in 1..Len(src2) /\ (SideOf(src2, t) <=> InRegion(src))
           /\ \A p \in New(nds, nds2) : p \in 1..Len(nds2) /\ (NodeSide(nds2, p) <=> InRegion(src))
           /\ \A t \in New(src, src2), p \in New(nds, nds2), l \in Int :
                nds2[p] = Goto(l) => GoesTo(src2, nds2, t, l)
           /\ op # <<>> => /\ Last(op).at \in 1..Len(src) /\ Last(op).at \in 1..Len(src2)
                           /\ src2[Last(op).at].kind = HeadOf(Last(op).kind)
                           /\ SideOf(src2, Last(op).at) <=> InRegion(src)
<1> USE DEF Graph
<1>1. \A t \in New(src, src2) : t \in 1..Len(src2) /\ (SideOf(src2, t) <=> InRegion(src))
  BY NewSides
<1>2. Cardinality(MarkersTo(nds, Len(nds))) = 1 <=> InRegion(src)
  BY DEF Regions
<1>3. \A p \in New(nds, nds2) : p \in 1..Len(nds2) /\ (NodeSide(nds2, p) <=> InRegion(src))
  BY <1>2, NewNodeSides
<1>4. ASSUME op # <<>>
      PROVE  /\ Last(op).at \in 1..Len(src) /\ Last(op).at \in 1..Len(src2)
             /\ src2[Last(op).at].kind = HeadOf(Last(op).kind)
             /\ SideOf(src2, Last(op).at) <=> InRegion(src)
  <2>1. Len(op) \in 1..Len(op) /\ Last(op) = op[Len(op)]
    <3>1. Len(op) \in Nat \ {0} /\ Last(op) = op[Len(op)]
      BY <1>4, FrontIs
    <3> QED
      BY <3>1
  <2>2. /\ Last(op).at \in 1..Len(src) /\ src[Last(op).at].kind = HeadOf(Last(op).kind)
        /\ SideOf(src, Last(op).at) <=> \E m \in 1..Len(op) : op[m].kind = "region"
    BY <2>1 DEF Opened
  <2>3. (\E m \in 1..Len(op) : op[m].kind = "region") <=> InRegion(src)
    BY DEF Regions, RegionsOf
  <2> QED
    BY <2>2, <2>3, SidesStay
<1>5. \A t \in New(src, src2), p \in New(nds, nds2), l \in Int : nds2[p] = Goto(l) => GoesTo(src2, nds2, t, l)
  BY <1>1, <1>3 DEF GoesTo
<1> QED
  BY <1>1, <1>3, <1>4, <1>5

\* Statements, jumps, cases and declarations
LEMMA GraphStays ==
    ASSUME NEW src, NEW nds, NEW op, NEW n, Graph(src, nds, op, n),
           NEW x \in Tokens, x.kind \notin {"begin", "finish", "end", "else", "step"} \cup Heads,
           NEW nds2, NEW L, Adds(nds, nds2, L),
           \/ L = {}
           \/ /\ L = {UserLabel} /\ x.kind = "label"
              /\ \A t \in 1..Len(src) : src[t].kind # "label",
           x.kind \in {"break", "continue"} => x.of \in 1..Len(src) /\ src[x.of].kind \in Loops,
           JumpRight(Append(src, x), nds2, op, Len(src) + 1)
    PROVE  Graph(Append(src, x), nds2, op, n)
<1> USE DEF Graph
<1> DEFINE src2 == Append(src, x)
           t == Len(src) + 1
<1>1. /\ src2 \in Seq(Tokens) /\ Grown(src, src2) /\ New(src, src2) = {t} /\ src2[t] = x
      /\ Len(src2) = t /\ Len(src) \in Nat
  BY AppendGrows
<1>2. nds2 \in Seq(NodesOf) /\ Grown(nds, nds2) /\ AddsLabels(nds, nds2, L)
  BY DEF Adds, AddsLabels
<1> HIDE DEF src2, t
<1>3. Regions(src2, nds2, op)
  BY <1>1, <1>2, RegionsKept
<1>4. Opened(src2, op)
  BY <1>1, OpenedSame
<1>5. Ended(src2, op)
  <2>1. TokenRight(src2, t)
    <3>1. \A u \in 1..Len(src) : u \in 1..Len(src2) /\ src2[u] = src[u]
      BY <1>1, SidesStay
    <3> QED
      BY <1>1, <3>1 DEF TokenRight, Heads, Loops
  <2>2. Settled(src, src2, op, op)
    BY <1>1, <2>1 DEF Settled, Heads
  <2> QED
    BY <1>1, <2>2, EndedKept
<1>6. Labels(src2, nds2, op, n)
  <2>1. t \in New(src, src2)
    BY <1>1
  <2>2. L = {UserLabel} /\ x.kind = "label" => \E u \in New(src, src2) : src2[u].kind = "label"
    BY <1>1
  <2> QED
    BY <1>1, <1>2, <2>2, LabelsSame
<1>7. JumpsLead(src2, nds2, op)
  <2>1. \A u \in New(src, src2) : JumpRight(src2, nds2, op, u)
    BY <1>1 DEF src2, t
  <2>2. \A k \in 1..Len(op) : Fulfilled(src2, nds2, op, op[k])
    BY DEF Fulfilled
  <2> QED
    BY <1>1, <1>2, <2>1, <2>2, JumpsKept
<1> QED
  BY <1>1, <1>2, <1>3, <1>4, <1>5, <1>6, <1>7 DEF src2

\* The head of a construct
LEMMA GraphBegins ==
    ASSUME NEW src, NEW nds, NEW op, NEW n, Graph(src, nds, op, n),
           NEW src2 \in Seq(Tokens), Grown(src, src2),
           \A t \in New(src, src2) : /\ src2[t].kind \notin {"begin", "finish", "end", "else"} \cup JumpKinds
                                     /\ src2[t].kind \in Heads => t = Len(src) + 1
                                     /\ TokenRight(src2, t),
           NEW c \in Constructs, c.at = Len(src) + 1, c.at \in New(src, src2),
           c.kind \in Heads, src2[c.at].kind = c.kind,
           NEW n2 \in Nat, n2 >= n, Promises(c, n, n2),
           NEW nds2, NEW L \in SUBSET (n..(n2 - 1)), Adds(nds, nds2, L), Pending(c) \cap L = {}
    PROVE  Graph(src2, nds2, Append(op, c), n2)
<1> USE DEF Graph
<1> DEFINE op2 == Append(op, c)
<1>1. /\ op2 \in Seq(Constructs) /\ Len(op2) = Len(op) + 1 /\ Len(op) \in Nat /\ op2[Len(op) + 1] = c
      /\ \A k \in 1..Len(op) : op2[k] = op[k] /\ k \in 1..Len(op2)
  BY AppendGrows DEF Grown
<1>2. nds2 \in Seq(NodesOf) /\ Grown(nds, nds2) /\ AddsLabels(nds, nds2, L)
  BY DEF Adds, AddsLabels
<1>3. c.kind # "region" /\ HeadOf(c.kind) = c.kind
  BY DEF Heads, Loops, HeadOf
<1>4. \A t \in New(src, src2) : t \in 1..Len(src2) /\ (SideOf(src2, t) <=> InRegion(src))
  BY StepSides
<1>5. Opened(src2, op2)
  <2>1. \A e \in 1..Len(src) : src[e].kind = "end" => src[e].of \in 1..Len(src)
    BY DEF Ended, TokenRight
  <2>2. SideOf(src2, c.at) <=> c.kind = "region" \/ RegionsOf(op) # {}
    BY <1>3, <1>4 DEF Regions
  <2> QED
    BY <2>1, <2>2, <1>3, OpenedMore
<1> HIDE DEF op2
<1>6. Regions(src2, nds2, op2)
  <2>1. RegionsOf(op2) = RegionsOf(op)
    <3>1. \A k \in 1..Len(op2) : k \in 1..Len(op) \/ k = Len(op) + 1
      BY <1>1
    <3> QED
      BY <3>1, <1>1, <1>3 DEF RegionsOf
  <2> QED
    BY <2>1, RegionsKept
<1>7. Ended(src2, op2)
  <2>1. \A t \in New(src, src2) : src2[t].kind \in Heads => \E k \in 1..Len(op2) : op2[k].at = t
    <3>1. Len(op) + 1 \in 1..Len(op2)
      BY <1>1
    <3> QED
      BY <3>1, <1>1
  <2>2. \A k \in 1..Len(op) : \E m \in 1..Len(op2) : op2[m].at = op[k].at
    BY <1>1
  <2>3. Settled(src, src2, op, op2)
    BY <2>1, <2>2 DEF Settled
  <2> QED
    BY <2>3, EndedKept
<1>8. Labels(src2, nds2, op2, n2)
  <2>1. L \in SUBSET Nat
    OBVIOUS
  <2>2. Awaited(nds, op, n) /\ \A p \in 1..Len(nds) : Defines(nds[p]) => nds[p].label < n
    BY DEF Labels, Awaited
  <2>3. Awaited(nds, op2, n2)
    BY <2>2, AwaitedMore DEF op2
  <2>4. \A l \in L : l < n2 /\ \A p \in 1..Len(nds) : nds[p] # Labelled(l)
    <3> SUFFICES ASSUME NEW l \in L, NEW p \in 1..Len(nds), nds[p] = Labelled(l) PROVE FALSE
      OBVIOUS
    <3>1. l \in Int
      OBVIOUS
    <3>2. Defines(nds[p]) /\ nds[p].label = l
      BY <3>1, LabelNode
    <3> QED
      BY <3>2, <2>2
  <2>5. \A k \in 1..Len(op2) : Pending(op2[k]) \cap L = {}
    <3> SUFFICES ASSUME NEW k \in 1..Len(op2), NEW l \in Pending(op2[k]), l \in L PROVE FALSE
      OBVIOUS
    <3>1. CASE k = Len(op) + 1
      BY <3>1, <1>1
    <3>2. CASE k \in 1..Len(op)
      <4>1. l \in Pending(op[k])
        BY <3>2, <1>1
      <4>2. l < n
        BY <4>1, <3>2, <2>2 DEF Awaited
      <4> QED
        BY <4>2
    <3> QED
      BY <3>1, <3>2, <1>1
  <2>6. Unused(nds, op2, L, n2)
    BY <2>4, <2>5 DEF Unused
  <2> QED
    BY <2>1, <2>3, <2>6, <1>1, <1>2, LabelsKept
<1>9. JumpsLead(src2, nds2, op2)
  <2>1. \A t \in New(src, src2) : JumpRight(src2, nds2, op2, t)
    BY DEF JumpRight, JumpKinds
  <2>2. \A k \in 1..Len(op) : Fulfilled(src2, nds2, op2, op[k])
    BY <1>1 DEF Fulfilled
  <2> QED
    BY <1>2, <2>1, <2>2, JumpsKept
<1> QED
  BY <1>1, <1>2, <1>5, <1>6, <1>7, <1>8, <1>9 DEF op2

\* The end of a construct
LEMMA GraphEnds ==
    ASSUME NEW src, NEW nds, NEW op, NEW n, Graph(src, nds, op, n),
           op # <<>>, Last(op).kind # "region",
           NEW x \in Tokens, x.kind = "end", x.of = Last(op).at,
           NEW nds2, NEW L \in SUBSET Pending(Last(op)), Adds(nds, nds2, L),
           \E q \in New(nds, nds2) : nds2[q] = Labelled(Last(Last(op).labels))
    PROVE  Graph(Append(src, x), nds2, Front(op), n)
<1> USE DEF Graph
<1> DEFINE src2 == Append(src, x)
           op2 == Front(op)
           t == Len(src) + 1
<1>1. /\ src2 \in Seq(Tokens) /\ Grown(src, src2) /\ New(src, src2) = {t} /\ src2[t] = x
      /\ Len(src2) = t /\ Len(src) \in Nat /\ t \in 1..Len(src2)
  BY AppendGrows
<1>2. nds2 \in Seq(NodesOf) /\ Grown(nds, nds2) /\ AddsLabels(nds, nds2, L)
  BY DEF Adds, AddsLabels
<1>3. /\ op2 \in Seq(Constructs) /\ Len(op) \in Nat \ {0} /\ Len(op2) = Len(op) - 1 /\ Last(op) = op[Len(op)]
      /\ \A k \in 1..Len(op2) : op2[k] = op[k] /\ k \in 1..Len(op) /\ k # Len(op)
      /\ Last(op) \in Constructs
  BY FrontIs
<1>4. \A k \in 1..Len(op) : k \in 1..Len(op2) \/ k = Len(op)
  BY <1>3
<1>5. Opened(src2, op2)
  BY <1>1, OpenedLess
<1>6. Awaited(nds, op2, n) /\ Shape(Last(op)) /\ \A k \in 1..Len(op2) : Pending(op2[k]) \cap Pending(Last(op)) = {}
  <2>1. Awaited(nds, op, n)
    BY DEF Labels, Awaited
  <2> QED
    BY <2>1, AwaitedLess
<1>7. \A l \in Pending(Last(op)) : l < n /\ \A p \in 1..Len(nds) : nds[p] # Labelled(l)
  <2>1. Awaited(nds, op, n)
    BY DEF Labels, Awaited
  <2> QED
    BY <2>1, AwaitedLess
<1> HIDE DEF src2, op2, t
<1>8. /\ SideOf(src2, t) <=> InRegion(src)
      /\ \A p \in New(nds, nds2) : p \in 1..Len(nds2) /\ (NodeSide(nds2, p) <=> InRegion(src))
      /\ Last(op).at \in 1..Len(src) /\ Last(op).at \in 1..Len(src2)
      /\ src2[Last(op).at].kind = HeadOf(Last(op).kind)
      /\ SideOf(src2, Last(op).at) <=> InRegion(src)
  <2>1. \A u \in New(src, src2) : src2[u].kind \notin {"begin", "finish"}
    BY <1>1
  <2> QED
    BY <2>1, <1>1, StepSides, ZenonT(60)
<1>9. Regions(src2, nds2, op2)
  <2>1. RegionsOf(op2) = RegionsOf(op)
    BY <1>3, <1>4 DEF RegionsOf
  <2> QED
    BY <2>1, <1>1, RegionsKept
<1>10. Ended(src2, op2)
  <2>1. TokenRight(src2, t)
    BY <1>1, <1>8 DEF TokenRight
  <2>2. src2[t].kind \notin Heads
    BY <1>1 DEF Heads, Loops
  <2>3. \A k \in 1..Len(op) : \/ \E m \in 1..Len(op2) : op2[m].at = op[k].at
                              \/ \E e \in 1..Len(src2) : Ends(src2, e, op[k].at)
    <3>1. Ends(src2, t, Last(op).at)
      BY <1>1 DEF Ends
    <3> QED
      BY <3>1, <1>1, <1>3, <1>4
  <2>4. Settled(src, src2, op, op2)
    BY <2>1, <2>2, <2>3, <1>1 DEF Settled
  <2> QED
    BY <2>4, <1>1, EndedKept
<1>11. Labels(src2, nds2, op2, n)
  <2>1. Pending(Last(op)) \in SUBSET Nat
    BY <1>3, <1>6, PendingAre
  <2>2. L \in SUBSET Nat /\ \A l \in L : l < n /\ \A p \in 1..Len(nds) : nds[p] # Labelled(l)
    BY <2>1, <1>7
  <2>3. \A k \in 1..Len(op2) : Pending(op2[k]) \cap L = {}
    BY <1>6
  <2>4. Unused(nds, op2, L, n) /\ n >= n
    BY <2>2, <2>3 DEF Unused
  <2> QED
    BY <2>2, <2>4, <1>1, <1>2, <1>3, <1>6, LabelsKept
<1>12. JumpsLead(src2, nds2, op2)
  <2>1. \A u \in New(src, src2) : JumpRight(src2, nds2, op2, u)
    BY <1>1 DEF JumpRight
  <2>2. ASSUME NEW k \in 1..Len(op), op[k].kind \in Loops
        PROVE  Fulfilled(src2, nds2, op2, op[k])
    <3>1. CASE k \in 1..Len(op2)
      BY <3>1, <1>3 DEF Fulfilled
    <3>2. CASE k = Len(op)
      <4>1. PICK q \in New(nds, nds2) : nds2[q] = Labelled(Last(Last(op).labels))
        OBVIOUS
      <4>2. Last(Last(op).labels) \in Int
        <5>1. Last(op).kind \in Loops
          BY <3>2, <2>2, <1>3
        <5>2. Last(op).labels \in Seq(Nat) /\ Len(Last(op).labels) \in {1, 2, 3}
          BY <5>1, <1>3, <1>6 DEF Shape, Loops, Constructs
        <5>3. \A m \in {1, 2, 3} : m \in 1..m
          OBVIOUS
        <5>4. Len(Last(op).labels) \in 1..Len(Last(op).labels)
          BY <5>2, <5>3
        <5> QED
          BY <5>2, <5>4 DEF Last
      <4>3. Defines(nds2[q]) /\ nds2[q].label = Last(Last(op).labels)
        BY <4>1, <4>2, LabelNode
      <4>4. q \in 1..Len(nds2) /\ (NodeSide(nds2, q) <=> SideOf(src2, Last(op).at))
        BY <1>8
      <4> QED
        BY <3>2, <4>3, <4>4, <1>3 DEF Fulfilled
    <3> QED
      BY <3>1, <3>2, <1>4
  <2> QED
    BY <1>1, <1>2, <1>5, <2>1, <2>2, JumpsKept
<1> QED
  BY <1>1, <1>2, <1>3, <1>5, <1>9, <1>10, <1>11, <1>12 DEF src2, op2

\* The else of an if
LEMMA GraphTurns ==
    ASSUME NEW src, NEW nds, NEW op, NEW n, Graph(src, nds, op, n),
           op # <<>>, Last(op).kind = "if",
           NEW x \in Tokens, x.kind = "else", x.of = Last(op).at,
           NEW c \in Constructs, c.kind = "else", c.at = Last(op).at, c.labels = <<n>>,
           NEW nds2, Adds(nds, nds2, {Last(op).labels[1]})
    PROVE  Graph(Append(src, x), nds2, Append(Front(op), c), n + 1)
<1> USE DEF Graph
<1> DEFINE src2 == Append(src, x)
           less == Front(op)
           op2 == Append(less, c)
           t == Len(src) + 1
           L == {Last(op).labels[1]}
<1>1. /\ src2 \in Seq(Tokens) /\ Grown(src, src2) /\ New(src, src2) = {t} /\ src2[t] = x
      /\ Len(src2) = t /\ Len(src) \in Nat /\ t \in 1..Len(src2)
  BY AppendGrows
<1>2. nds2 \in Seq(NodesOf) /\ Grown(nds, nds2) /\ AddsLabels(nds, nds2, L)
  BY DEF Adds, AddsLabels
<1>3. /\ less \in Seq(Constructs) /\ Len(op) \in Nat \ {0} /\ Len(less) = Len(op) - 1 /\ Last(op) = op[Len(op)]
      /\ \A k \in 1..Len(less) : less[k] = op[k] /\ k \in 1..Len(op) /\ k # Len(op)
      /\ Last(op) \in Constructs
  BY FrontIs
<1>4. Awaited(nds, less, n) /\ Shape(Last(op)) /\ \A k \in 1..Len(less) : Pending(less[k]) \cap Pending(Last(op)) = {}
  <2>1. Awaited(nds, op, n)
    BY DEF Labels, Awaited
  <2> QED
    BY <2>1, AwaitedLess
<1>5. \A l \in Pending(Last(op)) : l < n /\ \A p \in 1..Len(nds) : nds[p] # Labelled(l)
  <2>1. Awaited(nds, op, n)
    BY DEF Labels, Awaited
  <2> QED
    BY <2>1, AwaitedLess
<1>6. Pending(Last(op)) = L /\ L \in SUBSET Nat
  <2>1. Len(Last(op).labels) = 1 /\ Last(op).labels \in Seq(Nat)
    BY <1>3, <1>4 DEF Shape, Constructs
  <2> QED
    BY <2>1 DEF Pending, Last
<1>7. Shape(c) /\ Pending(c) = {n}
  <2>1. Len(c.labels) = 1 /\ Last(c.labels) = n
    BY DEF Last
  <2> QED
    BY <2>1 DEF Shape, Pending
<1>8. Adds(nds, nds2, L)
  OBVIOUS
<1> HIDE DEF src2, less, t, L
<1>9. /\ op2 \in Seq(Constructs) /\ Len(op2) = Len(op) /\ op2[Len(op)] = c
      /\ \A k \in 1..(Len(op) - 1) : op2[k] = op[k]
  <2>1. op2 \in Seq(Constructs) /\ Len(op2) = Len(less) + 1 /\ op2[Len(less) + 1] = c
    BY <1>3, AppendGrows
  <2>2. \A k \in 1..Len(less) : op2[k] = less[k]
    BY <1>3, AppendGrows DEF Grown
  <2> HIDE DEF op2
  <2> QED
    BY <2>1, <2>2, <1>3
<1>10. \A k \in 1..Len(op) : k \in 1..(Len(op) - 1) \/ k = Len(op)
  BY <1>3
<1>11. Labels(src2, nds2, op2, n + 1)
  <2>1. \A p \in 1..Len(nds) : Defines(nds[p]) => nds[p].label < n
    BY DEF Labels
  <2>2. n + 1 \in Nat /\ n + 1 >= n /\ Promises(c, n, n + 1)
    BY <1>7 DEF Promises
  <2>3. Awaited(nds, op2, n + 1)
    BY <2>1, <2>2, <1>3, <1>4, AwaitedMore
  <2>4. \A l \in L : l < n + 1 /\ \A p \in 1..Len(nds) : nds[p] # Labelled(l)
    BY <1>5, <1>6
  <2>5. \A k \in 1..Len(op2) : Pending(op2[k]) \cap L = {}
    <3> SUFFICES ASSUME NEW k \in 1..Len(op2) PROVE Pending(op2[k]) \cap L = {}
      OBVIOUS
    <3>1. CASE k = Len(op)
      <4>1. Pending(op2[k]) = {n}
        BY <3>1, <1>7, <1>9
      <4>2. n \notin L
        BY <1>5, <1>6
      <4> QED
        BY <4>1, <4>2
    <3>2. CASE k \in 1..(Len(op) - 1)
      <4>1. k \in 1..Len(less)
        BY <3>2, <1>3
      <4>2. op2[k] = less[k]
        BY <4>1, <3>2, <1>3, <1>9
      <4> QED
        BY <4>1, <4>2, <1>4, <1>6
    <3> QED
      BY <3>1, <3>2, <1>9, <1>10
  <2>6. Unused(nds, op2, L, n + 1)
    BY <2>4, <2>5 DEF Unused
  <2> QED
    BY <2>2, <2>3, <2>6, <1>1, <1>2, <1>6, <1>9, LabelsKept
<1> HIDE DEF op2
<1>12. \A k \in 1..Len(op) : /\ op2[k].at = op[k].at /\ HeadOf(op2[k].kind) = HeadOf(op[k].kind)
                             /\ op[k].kind \in Loops => op2[k] = op[k]
  <2>1. HeadOf("else") = HeadOf("if") /\ "if" \notin Loops
    BY DEF HeadOf, Loops
  <2> QED
    BY <2>1, <1>3, <1>9, <1>10, ZenonT(60)
<1>13. Opened(src2, op2)
  BY <1>1, <1>9, <1>12, OpenedSame
<1>14. RegionsOf(op2) = RegionsOf(op)
  <2>1. \A k \in 1..Len(op) : op2[k].kind = "region" <=> op[k].kind = "region"
    BY <1>3, <1>9, <1>10
  <2> QED
    BY <2>1, <1>9 DEF RegionsOf
<1>15. Regions(src2, nds2, op2)
  BY <1>1, <1>14, RegionsKept, ZenonT(60) DEF L
<1>16. Ended(src2, op2)
  <2>1. TokenRight(src2, t)
    <3>1. \A u \in New(src, src2) : src2[u].kind \notin {"begin", "finish"}
      BY <1>1
    <3>2. /\ SideOf(src2, t) <=> SideOf(src2, Last(op).at)
          /\ Last(op).at \in 1..Len(src2) /\ src2[Last(op).at].kind = HeadOf("if")
      <4>1. /\ Last(op).at \in 1..Len(src2) /\ src2[Last(op).at].kind = HeadOf(Last(op).kind)
            /\ SideOf(src2, Last(op).at) <=> InRegion(src)
        BY <3>1, <1>1, <1>8, StepSides, ZenonT(60)
      <4>2. \A u \in New(src, src2) : SideOf(src2, u) <=> InRegion(src)
        BY <3>1, <1>1, <1>8, StepSides
      <4>3. t \in New(src, src2) /\ Last(op).kind = "if"
        BY <1>1
      <4> QED
        BY <4>1, <4>2, <4>3
    <3> QED
      BY <3>2, <1>1 DEF TokenRight, HeadOf
  <2>2. src2[t].kind \notin Heads
    BY <1>1 DEF Heads, Loops
  <2>3. \A k \in 1..Len(op) : \E m \in 1..Len(op2) : op2[m].at = op[k].at
    BY <1>9, <1>12
  <2>4. Settled(src, src2, op, op2)
    BY <2>1, <2>2, <2>3, <1>1 DEF Settled
  <2> QED
    BY <2>4, <1>1, EndedKept
<1>17. JumpsLead(src2, nds2, op2)
  <2>1. \A u \in New(src, src2) : JumpRight(src2, nds2, op2, u)
    BY <1>1 DEF JumpRight
  <2>2. \A k \in 1..Len(op) : op[k].kind \in Loops => Fulfilled(src2, nds2, op2, op[k])
    BY <1>9, <1>12 DEF Fulfilled
  <2> QED
    BY <1>1, <1>2, <2>1, <2>2, JumpsKept
<1> QED
  BY <1>1, <1>2, <1>9, <1>11, <1>13, <1>15, <1>16, <1>17 DEF src2, op2, less

\* The ends of the region
LEMMA GraphEnters ==
    ASSUME NEW src, NEW nds, NEW op, NEW n, Graph(src, nds, op, n),
           \A t \in 1..Len(src) : src[t].kind # "begin",
           NEW x \in Tokens, x.kind = "begin",
           NEW c \in Constructs, c.kind = "region", c.at = Len(src) + 1
    PROVE  Graph(Append(src, x), Append(nds, Marker), Append(op, c), n)
<1> USE DEF Graph
<1> DEFINE src2 == Append(src, x)
           nds2 == Append(nds, Marker)
           op2 == Append(op, c)
           t == Len(src) + 1
<1>1. /\ src2 \in Seq(Tokens) /\ Grown(src, src2) /\ New(src, src2) = {t} /\ src2[t] = x
      /\ Len(src2) = t /\ Len(src) \in Nat /\ t \in 1..Len(src2)
  BY AppendGrows
<1>2. /\ nds2 \in Seq(NodesOf) /\ Grown(nds, nds2)
      /\ \A p \in 1..Len(nds2) : Defines(nds2[p]) => p \in 1..Len(nds) /\ nds2[p] = nds[p]
  BY MarkerAdded
<1>3. AddsLabels(nds, nds2, {})
  <2>1. \A p \in New(nds, nds2) : p \in 1..Len(nds2) /\ p \notin 1..Len(nds)
    BY <1>2 DEF New, Grown
  <2> QED
    BY <2>1, <1>2 DEF AddsLabels
<1>4. /\ op2 \in Seq(Constructs) /\ Len(op2) = Len(op) + 1 /\ Len(op) \in Nat /\ op2[Len(op) + 1] = c
      /\ \A k \in 1..Len(op) : op2[k] = op[k] /\ k \in 1..Len(op2)
  BY AppendGrows DEF Grown
<1>5. Regions(src2, nds2, op2)
  BY RegionBegins
<1>6. Labels(src2, nds2, op2, n)
  <2>1. Awaited(nds, op, n) /\ \A p \in 1..Len(nds) : Defines(nds[p]) => nds[p].label < n
    BY DEF Labels, Awaited
  <2>2. Promises(c, n, n)
    BY DEF Promises, Shape, Pending
  <2>3. Awaited(nds, op2, n)
    BY <2>1, <2>2, AwaitedMore, SMTT(30)
  <2> HIDE DEF op2, nds2, src2
  <2>4. {} \in SUBSET Nat
    OBVIOUS
  <2>5. Unused(nds, op2, {}, n) /\ n >= n
    BY DEF Unused
  <2> QED
    BY <2>3, <2>4, <2>5, <1>1, <1>3, <1>4, LabelsKept
<1>7. Opened(src2, op2)
  <2>1. \A e \in 1..Len(src) : src[e].kind = "end" => src[e].of \in 1..Len(src)
    BY DEF Ended, TokenRight
  <2>2. \A f \in 1..Len(src) : src[f].kind # "finish"
    BY DEF Regions
  <2>3. SideOf(src2, t)
    <3>1. \A f \in 1..t : f \in 1..Len(src) \/ f = t
      BY <1>1
    <3>2. \A f \in 1..Len(src) : src2[f] = src[f]
      BY <1>1 DEF Grown
    <3>3. t \in 1..t
      BY <1>1
    <3> QED
      BY <2>2, <3>1, <3>2, <3>3, <1>1 DEF SideOf
  <2>4. HeadOf(c.kind) = "begin" /\ c.at \in New(src, src2) /\ src2[c.at] = x
    BY <1>1 DEF HeadOf
  <2>5. \A e \in New(src, src2) : src2[e].kind # "end"
    BY <1>1
  <2> HIDE DEF src2
  <2> QED
    BY <2>1, <2>3, <2>4, <2>5, <1>1, OpenedMore
<1> HIDE DEF src2, nds2, op2, t
<1>8. Ended(src2, op2)
  <2>1. TokenRight(src2, t) /\ src2[t].kind \notin Heads
    BY <1>1 DEF TokenRight, Heads, Loops
  <2>2. \A k \in 1..Len(op) : \E m \in 1..Len(op2) : op2[m].at = op[k].at
    BY <1>4
  <2>3. Settled(src, src2, op, op2)
    BY <2>1, <2>2, <1>1 DEF Settled
  <2> QED
    BY <2>3, <1>1, EndedKept
<1>9. JumpsLead(src2, nds2, op2)
  <2>1. \A u \in New(src, src2) : JumpRight(src2, nds2, op2, u)
    BY <1>1 DEF JumpRight
  <2>2. \A k \in 1..Len(op) : Fulfilled(src2, nds2, op2, op[k])
    BY <1>4 DEF Fulfilled
  <2> QED
    BY <1>1, <1>2, <2>1, <2>2, JumpsKept
<1> QED
  BY <1>1, <1>2, <1>4, <1>5, <1>6, <1>7, <1>8, <1>9 DEF src2, nds2, op2

LEMMA GraphExits ==
    ASSUME NEW src, NEW nds, NEW op, NEW n, Graph(src, nds, op, n),
           op # <<>>, Last(op).kind = "region",
           NEW x \in Tokens, x.kind = "finish"
    PROVE  Graph(Append(src, x), Append(nds, Marker), Front(op), n)
<1> USE DEF Graph
<1> DEFINE src2 == Append(src, x)
           nds2 == Append(nds, Marker)
           op2 == Front(op)
           t == Len(src) + 1
<1>1. /\ src2 \in Seq(Tokens) /\ Grown(src, src2) /\ New(src, src2) = {t} /\ src2[t] = x
      /\ Len(src2) = t /\ Len(src) \in Nat /\ t \in 1..Len(src2)
  BY AppendGrows
<1>2. /\ nds2 \in Seq(NodesOf) /\ Grown(nds, nds2)
      /\ \A p \in 1..Len(nds2) : Defines(nds2[p]) => p \in 1..Len(nds) /\ nds2[p] = nds[p]
  BY MarkerAdded
<1>3. AddsLabels(nds, nds2, {})
  <2>1. \A p \in New(nds, nds2) : p \in 1..Len(nds2) /\ p \notin 1..Len(nds)
    BY <1>2 DEF New, Grown
  <2> QED
    BY <2>1, <1>2 DEF AddsLabels
<1>4. /\ op2 \in Seq(Constructs) /\ Len(op) \in Nat \ {0} /\ Len(op2) = Len(op) - 1 /\ Last(op) = op[Len(op)]
      /\ \A k \in 1..Len(op2) : op2[k] = op[k] /\ k \in 1..Len(op) /\ k # Len(op)
      /\ Last(op) \in Constructs
  BY FrontIs
<1>5. Regions(src2, nds2, op2)
  BY RegionEnds
<1>6. Labels(src2, nds2, op2, n)
  <2>1. Awaited(nds, op, n)
    BY DEF Labels, Awaited
  <2>2. Awaited(nds, op2, n)
    BY <2>1, AwaitedLess
  <2> HIDE DEF op2, nds2, src2
  <2>3. {} \in SUBSET Nat
    OBVIOUS
  <2>4. Unused(nds, op2, {}, n) /\ n >= n
    BY DEF Unused
  <2> QED
    BY <2>2, <2>3, <2>4, <1>1, <1>3, <1>4, LabelsKept
<1>7. Opened(src2, op2)
  <2>1. \A e \in New(src, src2) : src2[e].kind # "end"
    BY <1>1
  <2> HIDE DEF src2
  <2> QED
    BY <2>1, <1>1, OpenedLess
<1> HIDE DEF src2, nds2, op2, t
<1>8. \A k \in 1..Len(op) : \/ k \in 1..Len(op2) /\ op2[k] = op[k]
                            \/ op[k].kind = "region"
  BY <1>4
<1>9. Ended(src2, op2)
  <2>1. TokenRight(src2, t) /\ src2[t].kind \notin Heads
    BY <1>1 DEF TokenRight, Heads, Loops
  <2>2. ASSUME NEW k \in 1..Len(op), src[op[k].at].kind \in Heads
        PROVE  \E m \in 1..Len(op2) : op2[m].at = op[k].at
    <3>1. src[op[k].at].kind = HeadOf(op[k].kind)
      BY DEF Opened
    <3>2. op[k].kind # "region"
      BY <3>1, <2>2 DEF HeadOf, Heads, Loops
    <3> QED
      BY <3>2, <1>8
  <2>3. Settled(src, src2, op, op2)
    BY <2>1, <2>2, <1>1 DEF Settled
  <2> QED
    BY <2>3, <1>1, EndedKept
<1>10. JumpsLead(src2, nds2, op2)
  <2>1. \A u \in New(src, src2) : JumpRight(src2, nds2, op2, u)
    BY <1>1 DEF JumpRight
  <2>2. \A k \in 1..Len(op) : op[k].kind \in Loops => Fulfilled(src2, nds2, op2, op[k])
    BY <1>8 DEF Fulfilled, Loops
  <2> QED
    BY <1>1, <1>2, <2>1, <2>2, JumpsKept
<1> QED
  BY <1>1, <1>2, <1>4, <1>5, <1>6, <1>7, <1>9, <1>10 DEF src2, nds2, op2

-----------------------------------------------------------------------------
(* Steps                                                                   *)

LEMMA TokenIs ==
    ASSUME NEW kind \in Kinds, NEW of \in Nat, NEW uses \in UsesOf
    PROVE  /\ Token(kind, of, uses) \in Tokens
           /\ Token(kind, of, uses).kind = kind /\ Token(kind, of, uses).of = of
BY DEF Token, Tokens

\* What a step costs it can pay for
LEMMA SpentStays ==
    ASSUME Typed, NEW kind \in Kinds, NEW uses \in UsesOf,
           \/ kind \in Free /\ (uses = "none" \/ Affords(Cost[uses]))
           \/ Affords(Cost[kind] + Cost[uses])
    PROVE  spent + Cost[kind] + Cost[uses] \in 0..MaxCost
<1>1. Cost[kind] \in Nat /\ Cost[uses] \in Nat /\ MaxCost \in Nat /\ spent \in Nat /\ spent <= MaxCost
  BY CostAssumption DEF UsesOf, Typed
<1>2. Cost["none"] = 0 /\ (kind \in Free => Cost[kind] = 0)
  BY CostAssumption DEF Free
<1> QED
  BY <1>1, <1>2 DEF Affords

\* A token and its nodes, when nothing begins or ends
LEMMA PlainStep ==
    ASSUME Inv, NEW x \in Tokens, x.kind \notin {"begin", "finish", "end", "else", "step"} \cup Heads,
           source' = Append(source, x),
           NEW new, NEW L, Fair(new, L), nodes' = nodes \o new,
           \/ L = {}
           \/ /\ L = {UserLabel} /\ x.kind = "label"
              /\ \A t \in 1..Len(source) : source[t].kind # "label",
           x.kind \in {"break", "continue"} => x.of \in 1..Len(source) /\ source[x.of].kind \in Loops,
           JumpRight(source', nodes', open, Len(source) + 1),
           UNCHANGED <<open, localSym>>
    PROVE  Graph(source, nodes, open, localSym)'
<1>1. Graph(source, nodes, open, localSym) /\ nodes \in Seq(NodesOf)
  BY DEF Inv, Graph
<1>2. Adds(nodes, nodes', L)
  BY <1>1, NodesAdded
<1>3. Graph(Append(source, x), nodes', open, localSym)
  BY <1>1, <1>2, GraphStays
<1> QED
  BY <1>3

LEMMA StatementKeeps ==
    ASSUME Inv, NEW uses \in UsesOf, Statement(uses), UNCHANGED outcome
    PROVE  Inv'
<1> DEFINE x == Token("statement", 0, uses)
<1>1. x \in Tokens /\ x.kind = "statement"
  BY TokenIs DEF Kinds
<1>2. source' = Append(source, x) /\ nodes' = nodes \o UseNodes(uses)
  BY DEF Statement, Write, Leave
<1>3. /\ UNCHANGED <<open, breakLabels, localSym, storage, scope>>
      /\ spent' = spent + Cost["statement"] + Cost[uses]
  BY DEF Statement, Write, Token
<1> HIDE DEF x
<1>4. Graph(source, nodes, open, localSym)'
  <2>1. Fair(UseNodes(uses), {})
    BY UseIsFair
  <2>2. JumpRight(source', nodes', open, Len(source) + 1)
    <3>1. source \in Seq(Tokens)
      BY DEF Inv, Graph
    <3>2. source'[Len(source) + 1] = x
      BY <1>1, <1>2, <3>1, AppendGrows
    <3> QED
      BY <1>1, <3>2 DEF JumpRight
  <2>3. x.kind \notin {"begin", "finish", "end", "else", "step"} \cup Heads
    BY <1>1 DEF Heads, Loops
  <2> QED
    BY <1>1, <1>2, <1>3, <2>1, <2>2, <2>3, PlainStep
<1>5. Breaks(open, breakLabels)'
  BY <1>3 DEF Inv
<1>6. spent + Cost["statement"] + Cost[uses] \in 0..MaxCost
  <2>1. "statement" \in Free /\ "statement" \in Kinds /\ Typed /\ (uses = "none" \/ Affords(Cost[uses]))
    BY DEF Free, Kinds, Inv, Statement, MayUse
  <2> QED
    BY <2>1, SpentStays
<1>7. Typed'
  BY <1>3, <1>6 DEF Typed, Inv
<1> QED
  BY <1>4, <1>5, <1>7 DEF Inv

LEMMA JumpKeeps ==
    ASSUME Inv, NEW kind, NEW label,
           (kind = "goto" /\ label = UserLabel) \/ (kind = "return" /\ label = FunctionLabel),
           Jump(kind, label), UNCHANGED outcome
    PROVE  Inv'
<1> DEFINE x == Token(kind, 0, "none")
           new == <<Goto(label)>>
           t == Len(source) + 1
<1>1. x \in Tokens /\ x.kind = kind
  BY TokenIs DEF Kinds, UsesOf
<1>2. source' = Append(source, x) /\ Leave(new) /\ nodes' = nodes \o new
  BY DEF Jump, Write, Leave
<1>3. /\ UNCHANGED <<open, breakLabels, localSym, storage, scope>>
      /\ spent' = spent + Cost[kind] + Cost["none"]
  BY DEF Jump, Write, Token
<1>4. label \in Int
  BY DEF UserLabel, FunctionLabel
<1>5. Fair(new, {}) /\ Puts(new, Goto(label))
  BY <1>4, JumpNode
<1> HIDE DEF x, new
<1>6. Graph(source, nodes, open, localSym)'
  <2>1. Graph(source, nodes, open, localSym) /\ source \in Seq(Tokens) /\ nodes \in Seq(NodesOf)
    BY DEF Inv, Graph
  <2>2. /\ source' \in Seq(Tokens) /\ Grown(source, source') /\ New(source, source') = {t} /\ source'[t] = x
        /\ t \in New(source, source')
    BY <1>1, <1>2, <2>1, AppendGrows
  <2>3. Adds(nodes, nodes', {}) /\ \E p \in New(nodes, nodes') : nodes'[p] = Goto(label)
    BY <1>2, <1>5, <2>1, Left
  <2> HIDE DEF t
  <2>4. \A u \in New(source, source') : source'[u].kind \notin {"begin", "finish"}
    BY <1>1, <2>2
  <2>5. GoesTo(source', nodes', t, label)
    BY <1>4, <2>1, <2>2, <2>3, <2>4, StepSides
  <2>6. JumpRight(source', nodes', open, t)
    BY <1>1, <2>2, <2>5 DEF JumpRight
  <2>7. x.kind \notin {"begin", "finish", "end", "else", "step"} \cup Heads
    BY <1>1 DEF Heads, Loops
  <2> QED
    BY <1>1, <1>2, <1>3, <1>5, <2>6, <2>7, PlainStep DEF t
<1>7. Breaks(open, breakLabels)'
  BY <1>3 DEF Inv
<1>8. spent + Cost[kind] + Cost["none"] \in 0..MaxCost
  <2>1. "none" \in UsesOf /\ kind \in Kinds /\ Typed
    BY DEF Kinds, Inv, UsesOf
  <2>2. Cost["none"] = 0 /\ Cost[kind] \in Nat
    BY <2>1, CostAssumption DEF Free
  <2>3. Affords(Cost[kind])
    BY DEF Jump, MayJump
  <2> QED
    BY <2>1, <2>2, <2>3, SpentStays DEF Affords
<1>9. Typed'
  BY <1>3, <1>8 DEF Typed, Inv
<1> QED
  BY <1>6, <1>7, <1>9 DEF Inv

LEMMA LabelKeeps ==
    ASSUME Inv, LabelStatement, UNCHANGED outcome
    PROVE  Inv'
<1> DEFINE x == Token("label", 0, "none")
           new == <<Labelled(UserLabel)>>
           t == Len(source) + 1
<1>1. x \in Tokens /\ x.kind = "label"
  BY TokenIs DEF Kinds, UsesOf
<1>2. source' = Append(source, x) /\ Leave(new) /\ nodes' = nodes \o new
  BY DEF LabelStatement, Write, Leave
<1>3. /\ UNCHANGED <<open, breakLabels, localSym, storage, scope>>
      /\ spent' = spent + Cost["label"] + Cost["none"]
  BY DEF LabelStatement, Write, Token
<1>4. Fair(new, {UserLabel}) /\ Puts(new, Labelled(UserLabel))
  <2>1. UserLabel \in Int
    BY DEF UserLabel
  <2> QED
    BY <2>1, LabelNode
<1> HIDE DEF x, new
<1>5. Graph(source, nodes, open, localSym)'
  <2>1. Graph(source, nodes, open, localSym) /\ source \in Seq(Tokens) /\ nodes \in Seq(NodesOf)
    BY DEF Inv, Graph
  <2>2. /\ source' \in Seq(Tokens) /\ Grown(source, source') /\ New(source, source') = {t} /\ source'[t] = x
        /\ t \in New(source, source')
    BY <1>1, <1>2, <2>1, AppendGrows
  <2>3. Adds(nodes, nodes', {UserLabel}) /\ \E p \in New(nodes, nodes') : nodes'[p] = Labelled(UserLabel)
    BY <1>2, <1>4, <2>1, Left
  <2> HIDE DEF t
  <2>4. \A u \in New(source, source') : source'[u].kind \notin {"begin", "finish"}
    BY <1>1, <2>2
  <2>5. Comes(source', nodes', t, UserLabel)
    <3>1. /\ \A u \in New(source, source') : SideOf(source', u) <=> InRegion(source)
          /\ \A p \in New(nodes, nodes') : p \in 1..Len(nodes') /\ (NodeSide(nodes', p) <=> InRegion(source))
      BY <2>1, <2>2, <2>3, <2>4, StepSides
    <3> QED
      BY <3>1, <2>2, <2>3 DEF Comes
  <2>6. JumpRight(source', nodes', open, t)
    BY <1>1, <2>2, <2>5 DEF JumpRight
  <2>7. x.kind \notin {"begin", "finish", "end", "else", "step"} \cup Heads
    BY <1>1 DEF Heads, Loops
  <2>8. \A u \in 1..Len(source) : source[u].kind # "label"
    BY <2>1 DEF LabelStatement, Has
  <2> QED
    BY <1>1, <1>2, <1>3, <1>4, <2>6, <2>7, <2>8, PlainStep DEF t
<1>6. Breaks(open, breakLabels)'
  BY <1>3 DEF Inv
<1>7. spent + Cost["label"] + Cost["none"] \in 0..MaxCost
  <2>1. "none" \in UsesOf /\ "label" \in Kinds /\ Typed
    BY DEF Kinds, Inv, UsesOf
  <2>2. Cost["none"] = 0 /\ Cost["label"] \in Nat
    BY <2>1, CostAssumption DEF Free
  <2>3. Affords(Cost["label"])
    BY DEF LabelStatement, MayJump
  <2> QED
    BY <2>1, <2>2, <2>3, SpentStays DEF Affords
<1>8. Typed'
  BY <1>3, <1>7 DEF Typed, Inv
<1> QED
  BY <1>5, <1>6, <1>8 DEF Inv

\* The head of an if, a switch or a loop
LEMMA HeadStep ==
    ASSUME Inv, NEW kind \in Heads \ {"for"}, NEW uses \in UsesOf, NEW labels \in Seq(Nat),
           source' = Append(source, Token(kind, 0, uses)),
           open' = Append(open, Construct(kind, labels)),
           NEW new, NEW L, Fair(new, L), nodes' = nodes \o new,
           localSym' \in Nat, localSym' >= localSym, L \in SUBSET (localSym..(localSym' - 1)),
           Promises(Construct(kind, labels), localSym, localSym'),
           Pending(Construct(kind, labels)) \cap L = {}
    PROVE  Graph(source, nodes, open, localSym)' /\ Construct(kind, labels) \in Constructs
<1> DEFINE x == Token(kind, 0, uses)
           c == Construct(kind, labels)
           t == Len(source) + 1
<1>1. Graph(source, nodes, open, localSym) /\ source \in Seq(Tokens) /\ nodes \in Seq(NodesOf) /\ Len(source) \in Nat
  BY DEF Inv, Graph
<1>2. kind \in Kinds /\ kind \notin {"begin", "finish", "end", "else", "step", "for"} \cup JumpKinds
  BY DEF Heads, Loops, Kinds, JumpKinds
<1>3. x \in Tokens /\ x.kind = kind
  BY <1>2, TokenIs
<1>4. c \in Constructs /\ c.kind = kind /\ c.at = t
  BY <1>1 DEF Construct, Constructs
<1> HIDE DEF x, c
<1>5. /\ source' \in Seq(Tokens) /\ Grown(source, source') /\ New(source, source') = {t} /\ source'[t] = x
      /\ t \in New(source, source')
  <2>1. source' = Append(source, x)
    BY DEF x
  <2> QED
    BY <1>1, <1>3, <2>1, AppendGrows
<1>6. Adds(nodes, nodes', L)
  BY <1>1, NodesAdded
<1>7. Promises(c, localSym, localSym') /\ Pending(c) \cap L = {} /\ open' = Append(open, c)
  BY DEF c
<1> HIDE DEF t
<1>8. \A u \in New(source, source') : /\ source'[u].kind \notin {"begin", "finish", "end", "else"} \cup JumpKinds
                                      /\ source'[u].kind \in Heads => u = t
                                      /\ TokenRight(source', u)
  BY <1>2, <1>3, <1>5 DEF TokenRight, JumpKinds
<1>9. Graph(source', nodes', Append(open, c), localSym')
  <2>1. source'[c.at].kind = c.kind /\ c.at \in New(source, source') /\ c.kind \in Heads /\ t = Len(source) + 1
    BY <1>3, <1>4, <1>5 DEF t
  <2> QED
    BY <1>1, <1>4, <1>5, <1>6, <1>7, <1>8, <2>1, GraphBegins
<1> QED
  BY <1>4, <1>7, <1>9 DEF c

LEMMA LocalSymIs == Inv => localSym \in Nat /\ localSym \in Int /\ localSym + 1 \in Int /\ breakLabels \in Seq(Nat) /\ open \in Seq(Constructs) /\ Breaks(open, breakLabels)
BY DEF Inv, Graph, Typed

LEMMA BeginIfKeeps ==
    ASSUME Inv, NEW uses \in UsesOf, BeginIf(uses), UNCHANGED outcome
    PROVE  Inv'
<1> DEFINE new == UseNodes(uses) \o <<Fork(localSym)>>
           c == Construct("if", <<localSym>>)
<1>1. /\ source' = Append(source, Token("if", 0, uses)) /\ nodes' = nodes \o new
      /\ open' = Append(open, c) /\ localSym' = localSym + 1
      /\ UNCHANGED <<breakLabels, storage, scope>>
      /\ spent' = spent + Cost["if"] + Cost[uses] /\ Affords(Cost["if"] + Cost[uses])
  BY DEF BeginIf, Write, Leave, Open, MayBegin, Token
<1>2. localSym \in Nat /\ breakLabels \in Seq(Nat) /\ open \in Seq(Constructs) /\ Breaks(open, breakLabels)
  BY LocalSymIs
<1>3. Fair(new, {})
  BY <1>2, ForkAfterUse
<1>4. c.kind = "if" /\ "if" \in Heads \ {"for"} /\ "if" \notin Loops
  BY DEF Construct, Heads, Loops
<1>5. Promises(c, localSym, localSym')
  <2>1. c.labels = <<localSym>> /\ Len(c.labels) = 1 /\ Last(c.labels) = localSym
    BY DEF Construct, Last
  <2> HIDE DEF c
  <2> QED
    BY <1>1, <1>2, <1>4, <2>1 DEF Promises, Shape, Pending
<1>6. <<localSym>> \in Seq(Nat) /\ localSym' \in Nat /\ localSym' >= localSym
  BY <1>1, <1>2
<1> HIDE DEF new
<1>7. Graph(source, nodes, open, localSym)' /\ c \in Constructs
  BY <1>1, <1>3, <1>4, <1>5, <1>6, HeadStep
<1> HIDE DEF c
<1>8. Breaks(open, breakLabels)'
  BY <1>1, <1>2, <1>4, <1>7, BreaksMoreOther
<1>9. Typed'
  <2>1. spent' \in 0..MaxCost
    BY <1>1, SpentStays DEF Inv, Kinds
  <2> QED
    BY <1>1, <2>1 DEF Inv, Typed
<1> QED
  BY <1>7, <1>8, <1>9 DEF Inv

LEMMA BeginSwitchKeeps ==
    ASSUME Inv, NEW uses \in UsesOf, BeginSwitch(uses), UNCHANGED outcome
    PROVE  Inv'
<1> DEFINE new == UseNodes(uses) \o <<Fork(localSym)>>
           c == Construct("switch", <<localSym>>)
<1>1. /\ source' = Append(source, Token("switch", 0, uses)) /\ nodes' = nodes \o new
      /\ open' = Append(open, c) /\ localSym' = localSym + 1
      /\ breakLabels' = breakLabels \o <<1000 * localSym, localSym>>
      /\ UNCHANGED <<storage, scope>>
      /\ spent' = spent + Cost["switch"] + Cost[uses] /\ Affords(Cost["switch"] + Cost[uses])
  BY DEF BeginSwitch, Write, Leave, Open, MayBegin, Token
<1>2. localSym \in Nat /\ breakLabels \in Seq(Nat) /\ open \in Seq(Constructs) /\ Breaks(open, breakLabels)
  BY LocalSymIs
<1>3. Fair(new, {})
  BY <1>2, ForkAfterUse
<1>4. c.kind = "switch" /\ "switch" \in Heads \ {"for"} /\ "switch" \in Loops
  BY DEF Construct, Heads, Loops
<1>5. c.labels = <<localSym>> /\ Len(c.labels) = 1 /\ Last(c.labels) = localSym
  BY DEF Construct, Last
<1>6. Promises(c, localSym, localSym')
  <2> HIDE DEF c
  <2> QED
    BY <1>1, <1>2, <1>4, <1>5 DEF Promises, Shape, Pending
<1>7. <<localSym>> \in Seq(Nat) /\ localSym' \in Nat /\ localSym' >= localSym /\ 1000 * localSym \in Nat
  BY <1>1, <1>2
<1> HIDE DEF new
<1>8. Graph(source, nodes, open, localSym)' /\ c \in Constructs
  BY <1>1, <1>3, <1>4, <1>6, <1>7, HeadStep, ZenonT(60)
<1> HIDE DEF c
<1>9. Breaks(open, breakLabels)'
  <2>1. c \in Constructs /\ c.kind \in Loops /\ Last(c.labels) = localSym
    BY <1>4, <1>5, <1>8
  <2>2. Breaks(Append(open, c), breakLabels \o <<1000 * localSym, localSym>>)
    BY <1>2, <1>7, <2>1, BreaksMore
  <2> QED
    BY <1>1, <2>2, ZenonT(60)
<1>10. Typed'
  <2>1. spent' \in 0..MaxCost
    BY <1>1, SpentStays DEF Inv, Kinds
  <2>2. breakLabels' \in Seq(Nat)
    <3>1. <<1000 * localSym, localSym>> \in Seq(Nat)
      BY <1>2, <1>7
    <3> QED
      BY <1>1, <1>2, <3>1
  <2> QED
    BY <1>1, <2>1, <2>2 DEF Inv, Typed
<1> QED
  BY <1>8, <1>9, <1>10 DEF Inv

LEMMA BeginWhileKeeps ==
    ASSUME Inv, NEW uses \in UsesOf, BeginWhile(uses), UNCHANGED outcome
    PROVE  Inv'
<1> DEFINE new == <<Labelled(localSym)>> \o UseNodes(uses) \o <<Fork(localSym + 1)>>
           c == Construct("while", <<localSym, localSym + 1>>)
<1>1. /\ source' = Append(source, Token("while", 0, uses)) /\ nodes' = nodes \o new
      /\ open' = Append(open, c) /\ localSym' = localSym + 2
      /\ breakLabels' = breakLabels \o <<localSym, localSym + 1>>
      /\ UNCHANGED <<storage, scope>>
      /\ spent' = spent + Cost["while"] + Cost[uses] /\ Affords(Cost["while"] + Cost[uses])
  BY DEF BeginWhile, Write, Leave, Open, MayBegin, Token
<1>2. /\ localSym \in Nat /\ localSym \in Int /\ localSym + 1 \in Int
      /\ breakLabels \in Seq(Nat) /\ open \in Seq(Constructs) /\ Breaks(open, breakLabels)
  BY LocalSymIs
<1>3. Fair(new, {localSym})
  <2>1. Fair(<<Labelled(localSym)>>, {localSym})
    BY <1>2, LabelNode
  <2>2. Fair(<<Fork(localSym + 1)>>, {}) /\ Fair(UseNodes(uses), {})
    BY <1>2, JumpNode, UseIsFair
  <2>3. Fair(<<Labelled(localSym)>> \o UseNodes(uses), {localSym})
    BY <2>1, <2>2, FairAll
  <2> QED
    BY <2>2, <2>3, FairAll
<1>4. c.kind = "while" /\ "while" \in Heads \ {"for"} /\ "while" \in Loops
  BY DEF Construct, Heads, Loops
<1>5. c.labels = <<localSym, localSym + 1>> /\ Len(c.labels) = 2 /\ Last(c.labels) = localSym + 1
  BY DEF Construct, Last
<1>6. Promises(c, localSym, localSym') /\ Pending(c) \cap {localSym} = {}
  <2> HIDE DEF c
  <2>1. Pending(c) = {localSym + 1}
    BY <1>4, <1>5 DEF Pending
  <2> QED
    BY <1>1, <1>2, <1>4, <1>5, <2>1 DEF Promises, Shape
<1>7. /\ <<localSym, localSym + 1>> \in Seq(Nat) /\ localSym' \in Nat /\ localSym' >= localSym /\ localSym + 1 \in Nat
      /\ {localSym} \in SUBSET (localSym..(localSym' - 1))
  BY <1>1, <1>2
<1> HIDE DEF new
<1>8. Graph(source, nodes, open, localSym)' /\ c \in Constructs
  BY <1>1, <1>3, <1>4, <1>6, <1>7, HeadStep
<1> HIDE DEF c
<1>9. Breaks(open, breakLabels)'
  <2>1. c \in Constructs /\ c.kind \in Loops /\ Last(c.labels) = localSym + 1 /\ localSym + 1 \in Nat
    BY <1>4, <1>5, <1>7, <1>8
  <2>2. Breaks(Append(open, c), breakLabels \o <<localSym, localSym + 1>>)
    BY <1>2, <2>1, BreaksMore
  <2> QED
    BY <1>1, <2>2
<1>10. Typed'
  <2>1. spent' \in 0..MaxCost
    BY <1>1, SpentStays DEF Inv, Kinds
  <2>2. breakLabels' \in Seq(Nat)
    BY <1>1, <1>2, <1>7
  <2> QED
    BY <1>1, <2>1, <2>2 DEF Inv, Typed
<1> QED
  BY <1>8, <1>9, <1>10 DEF Inv

LEMMA BeginDoKeeps ==
    ASSUME Inv, BeginDo, UNCHANGED outcome
    PROVE  Inv'
<1> DEFINE new == <<Labelled(localSym)>>
           labels == <<localSym, localSym + 1, localSym + 2>>
           c == Construct("do", labels)
<1>1. /\ source' = Append(source, Token("do", 0, "none")) /\ nodes' = nodes \o new
      /\ open' = Append(open, c) /\ localSym' = localSym + 3
      /\ breakLabels' = breakLabels \o <<localSym + 1, localSym + 2>>
      /\ UNCHANGED <<storage, scope>>
      /\ spent' = spent + Cost["do"] + Cost["none"] /\ Affords(Cost["do"] + Cost["none"])
  BY DEF BeginDo, Write, Leave, Open, MayBegin, Token
<1>2. /\ localSym \in Nat /\ localSym \in Int /\ localSym + 1 \in Int
      /\ breakLabels \in Seq(Nat) /\ open \in Seq(Constructs) /\ Breaks(open, breakLabels)
  BY LocalSymIs
<1>3. Fair(new, {localSym})
  BY <1>2, LabelNode
<1>4. c.kind = "do" /\ "do" \in Heads \ {"for"} /\ "do" \in Loops /\ "none" \in UsesOf /\ c.labels = labels
  BY DEF Construct, Heads, Loops, UsesOf
<1>5. /\ Len(labels) = 3 /\ Last(labels) = localSym + 2
      /\ labels[2] = localSym + 1 /\ labels[3] = localSym + 2
  BY DEF Last
<1>6. /\ labels \in Seq(Nat) /\ localSym' \in Nat /\ localSym' >= localSym
      /\ localSym + 1 \in Nat /\ localSym + 2 \in Nat
      /\ {localSym} \in SUBSET (localSym..(localSym' - 1))
  BY <1>1, <1>2
<1>7. Promises(c, localSym, localSym') /\ Pending(c) \cap {localSym} = {}
  <2> HIDE DEF c, labels
  <2>1. Pending(c) = {localSym + 1, localSym + 2}
    BY <1>4, <1>5 DEF Pending
  <2>2. Shape(c)
    BY <1>2, <1>4, <1>5 DEF Shape
  <2> QED
    BY <1>1, <1>2, <2>1, <2>2 DEF Promises
<1> HIDE DEF new, labels
<1>8. Graph(source, nodes, open, localSym)' /\ c \in Constructs
  BY <1>1, <1>3, <1>4, <1>6, <1>7, HeadStep
<1> HIDE DEF c
<1>9. Breaks(open, breakLabels)'
  <2>1. c \in Constructs /\ c.kind \in Loops /\ Last(c.labels) = localSym + 2
    BY <1>4, <1>5, <1>8
  <2>2. Breaks(Append(open, c), breakLabels \o <<localSym + 1, localSym + 2>>)
    BY <1>2, <1>6, <2>1, BreaksMore
  <2> QED
    BY <1>1, <2>2
<1>10. Typed'
  <2>1. spent' \in 0..MaxCost
    BY <1>1, SpentStays DEF Inv, Kinds, UsesOf
  <2>2. breakLabels' \in Seq(Nat)
    <3>1. <<localSym + 1, localSym + 2>> \in Seq(Nat)
      BY <1>6
    <3> QED
      BY <1>1, <1>2, <3>1
  <2> QED
    BY <1>1, <2>1, <2>2 DEF Inv, Typed
<1> QED
  BY <1>8, <1>9, <1>10 DEF Inv

LEMMA BeginForKeeps ==
    ASSUME Inv, NEW uses \in UsesOf, NEW step \in UsesOf, BeginFor(uses, step), UNCHANGED outcome
    PROVE  Inv'
<1> DEFINE n == localSym
           t == Len(source) + 1
           x == Token("for", 0, uses)
           y == Token("step", t, step)
           out == <<Fork(n + 3), Goto(n), Labelled(n + 1)>>
           new == <<Labelled(n)>> \o UseNodes(uses) \o <<Goto(n + 1), Labelled(n + 2)>> \o UseNodes(step) \o out
           labels == <<n + 2, n + 3>>
           c == Construct("for", labels)
           L == {n, n + 1, n + 2}
<1>1. /\ source' = source \o <<x, y>> /\ nodes' = nodes \o new
      /\ open' = Append(open, c) /\ localSym' = n + 4
      /\ breakLabels' = breakLabels \o labels
      /\ UNCHANGED <<storage, scope>>
      /\ spent' = spent + Cost["for"] + Cost[uses] + Cost[step] /\ Affords(Cost["for"] + Cost[uses] + Cost[step])
  BY DEF BeginFor, Leave, Open
<1>2. n \in Nat /\ breakLabels \in Seq(Nat) /\ open \in Seq(Constructs) /\ Breaks(open, breakLabels)
  BY LocalSymIs
<1>3. /\ Graph(source, nodes, open, n) /\ source \in Seq(Tokens) /\ nodes \in Seq(NodesOf)
      /\ Len(source) \in Nat /\ t \in Nat
  BY DEF Inv, Graph
<1>4. Fair(new, L)
  <2>1. n \in Int /\ n + 1 \in Int /\ n + 2 \in Int /\ n + 3 \in Int
    BY <1>2
  <2> HIDE DEF n, out
  <2>2. /\ Fair(<<Labelled(n)>>, {n}) /\ Fair(<<Labelled(n + 1)>>, {n + 1}) /\ Fair(<<Labelled(n + 2)>>, {n + 2})
        /\ Labelled(n + 2) \in NodesOf /\ Labelled(n + 1) \in NodesOf
    BY <2>1, LabelNode
  <2>3. /\ Fair(<<Goto(n + 1)>>, {}) /\ Fair(<<Goto(n)>>, {}) /\ Fair(<<Fork(n + 3)>>, {})
        /\ Goto(n) \in NodesOf /\ Goto(n + 1) \in NodesOf /\ Fork(n + 3) \in NodesOf
    BY <2>1, JumpNode
  <2>4. Fair(UseNodes(uses), {}) /\ Fair(UseNodes(step), {})
    BY UseIsFair
  <2>5. Fair(<<Labelled(n)>> \o UseNodes(uses), {n})
    BY <2>2, <2>4, FairAll
  <2>6. Fair(<<Goto(n + 1), Labelled(n + 2)>>, {n + 2})
    BY <2>2, <2>3, TwoNodes
  <2>7. Fair(<<Labelled(n)>> \o UseNodes(uses) \o <<Goto(n + 1), Labelled(n + 2)>>, {n, n + 2})
    <3>1. {n} \cap {n + 2} = {} /\ {n} \in SUBSET {n, n + 2} /\ {n + 2} \in SUBSET {n, n + 2}
      BY <1>2
    <3> QED
      BY <2>5, <2>6, <3>1, FairAll
  <2>8. Fair(<<Labelled(n)>> \o UseNodes(uses) \o <<Goto(n + 1), Labelled(n + 2)>> \o UseNodes(step), {n, n + 2})
    BY <2>4, <2>7, FairAll
  <2>9. Fair(out, {n + 1})
    BY <2>2, <2>3, ThreeNodes DEF out
  <2>10. {n, n + 2} \cap {n + 1} = {} /\ {n, n + 2} \in SUBSET L /\ {n + 1} \in SUBSET L
    BY <1>2
  <2> HIDE DEF L
  <2> QED
    BY <2>8, <2>9, <2>10, FairAll
<1>5. x \in Tokens /\ x.kind = "for" /\ y \in Tokens /\ y.kind = "step" /\ y.of = t
  <2>1. "for" \in Kinds /\ "step" \in Kinds
    BY DEF Kinds
  <2> QED
    BY <1>3, <2>1, TokenIs
<1>6. c.kind = "for" /\ "for" \in Heads /\ "for" \in Loops /\ c.labels = labels /\ c.at = t /\ c \in Constructs
  <2>1. labels \in Seq(Nat)
    BY <1>2
  <2> QED
    BY <1>3, <2>1 DEF Construct, Constructs, Heads, Loops
<1>7. Len(labels) = 2 /\ Last(labels) = n + 3 /\ labels \in Seq(Nat) /\ n + 2 \in Nat /\ n + 3 \in Nat
  BY <1>2 DEF Last
<1> HIDE DEF x, y, new, c, L, n
<1>8. Promises(c, n, n + 4) /\ Pending(c) \cap L = {}
  <2>1. Pending(c) = {n + 3}
    BY <1>6, <1>7 DEF Pending
  <2>2. Shape(c)
    BY <1>6, <1>7 DEF Shape
  <2> QED
    BY <1>2, <2>1, <2>2 DEF Promises, L
<1>9. /\ source' \in Seq(Tokens) /\ Grown(source, source') /\ Len(source') = Len(source) + 2
      /\ source'[t] = x /\ source'[t + 1] = y
      /\ t \in New(source, source') /\ \A u \in New(source, source') : u = t \/ u = t + 1
  <2>1. <<x, y>> \in Seq(Tokens) /\ Len(<<x, y>>) = 2 /\ <<x, y>>[1] = x /\ <<x, y>>[2] = y
    BY <1>5
  <2>2. source' \in Seq(Tokens) /\ Len(source') = Len(source) + 2 /\ Grown(source, source')
    <3> DEFINE r == <<x, y>>
    <3>1. r \in Seq(Tokens) /\ Len(r) = 2
      BY <2>1
    <3> HIDE DEF r
    <3>2. source \o r \in Seq(Tokens) /\ Grown(source, source \o r)
      BY <1>3, <3>1, ConcatGrows
    <3>3. Len(source \o r) = Len(source) + Len(r)
      BY <1>3, <3>1, ConcatGrows
    <3>4. source' = source \o r
      BY <1>1 DEF r
    <3> QED
      BY <3>1, <3>2, <3>3, <3>4
  <2>3. source'[Len(source) + 1] = x /\ source'[Len(source) + 2] = y
    BY <1>1, <1>3, <1>5
  <2>4. t + 1 = Len(source) + 2 /\ t \in New(source, source') /\ \A u \in New(source, source') : u = t \/ u = t + 1
    BY <1>3, <2>2 DEF New
  <2> QED
    BY <2>2, <2>3, <2>4
<1>10. \A u \in New(source, source') : /\ source'[u].kind \notin {"begin", "finish", "end", "else"} \cup JumpKinds
                                       /\ source'[u].kind \in Heads => u = t
                                       /\ TokenRight(source', u)
  <2>1. \A u \in New(source, source') : source'[u].kind \notin {"begin", "finish", "end", "else"} \cup JumpKinds
    BY <1>5, <1>9 DEF JumpKinds
  <2>2. \A u \in New(source, source') : source'[u].kind \in Heads => u = t
    BY <1>5, <1>9 DEF Heads, Loops
  <2>3. SideOf(source', t) <=> SideOf(source', t + 1)
    <3>1. \A u \in New(source, source') : SideOf(source', u) <=> InRegion(source)
      BY <1>3, <1>9, <2>1, NewSides
    <3>2. t + 1 \in New(source, source')
      BY <1>3, <1>9 DEF New
    <3> QED
      BY <3>1, <3>2, <1>9
  <2>4. t \in 1..Len(source') /\ t + 1 \in 1..Len(source')
    BY <1>3, <1>9
  <2>5. TokenRight(source', t)
    BY <1>5, <1>9, <2>4 DEF TokenRight
  <2>6. TokenRight(source', t + 1)
    BY <1>5, <1>9, <2>3, <2>4 DEF TokenRight
  <2> QED
    BY <2>1, <2>2, <2>5, <2>6, <1>9
<1>11. Graph(source, nodes, open, localSym)'
  <2>1. Adds(nodes, nodes', L)
    BY <1>1, <1>3, <1>4, NodesAdded
  <2>2. L \in SUBSET (n..(n + 4 - 1)) /\ n + 4 \in Nat /\ n + 4 >= n
    BY <1>2 DEF L
  <2>3. source'[c.at].kind = c.kind /\ c.at \in New(source, source') /\ c.kind \in Heads
    BY <1>5, <1>6, <1>9
  <2>4. /\ c.at = Len(source) + 1
        /\ \A u \in New(source, source') : /\ source'[u].kind \notin {"begin", "finish", "end", "else"} \cup JumpKinds
                                           /\ source'[u].kind \in Heads => u = Len(source) + 1
                                           /\ TokenRight(source', u)
    BY <1>6, <1>10
  <2>5. Graph(source', nodes', Append(open, c), n + 4)
    <3> DEFINE high == n + 4
    <3>1. high \in Nat /\ high >= n
      BY <2>2
    <3>2. Promises(c, n, high) /\ Pending(c) \cap L = {}
      BY <1>8
    <3>3. L \in SUBSET (n..(high - 1))
      BY <1>2 DEF L
    <3> HIDE DEF t, high
    <3>4. Graph(source', nodes', Append(open, c), high)
      BY <1>3, <1>6, <1>9, <2>1, <2>3, <2>4, <3>1, <3>2, <3>3, GraphBegins
    <3> QED
      BY <3>4 DEF high
  <2> QED
    BY <1>1, <2>5 DEF n
<1>12. Breaks(open, breakLabels)'
  <2>1. Last(c.labels) = n + 3 /\ c.kind \in Loops
    BY <1>6, <1>7
  <2> QED
    BY <1>1, <1>2, <1>6, <1>7, <2>1, BreaksMore
<1>13. Typed'
  <2>1. spent' \in 0..MaxCost
    <3>1. Cost["for"] \in Nat /\ Cost[uses] \in Nat /\ Cost[step] \in Nat /\ MaxCost \in Nat
      <4>1. "for" \in Kinds
        BY DEF Kinds
      <4> QED
        BY <4>1, CostAssumption DEF UsesOf
    <3>2. spent \in Nat
      BY <3>1 DEF Inv, Typed
    <3>3. spent + (Cost["for"] + Cost[uses] + Cost[step]) <= MaxCost
      BY <1>1 DEF Affords
    <3>4. spent' = spent + Cost["for"] + Cost[uses] + Cost[step]
      BY <1>1
    <3> QED
      BY <3>1, <3>2, <3>3, <3>4
  <2>2. breakLabels' \in Seq(Nat)
    BY <1>1, <1>2, <1>7
  <2> QED
    BY <1>1, <2>1, <2>2 DEF Inv, Typed
<1> QED
  BY <1>11, <1>12, <1>13 DEF Inv

\* The end of a construct, with what its label is at
LEMMA EndStep ==
    ASSUME Inv, open # <<>>, Last(open).kind # "region", NEW uses \in UsesOf,
           source' = Append(source, Token("end", Last(open).at, uses)),
           open' = Front(open), localSym' = localSym,
           NEW new, NEW L \in SUBSET Pending(Last(open)), Fair(new, L), nodes' = nodes \o new,
           Puts(new, Labelled(Last(Last(open).labels)))
    PROVE  Graph(source, nodes, open, localSym)'
<1> DEFINE x == Token("end", Last(open).at, uses)
<1>1. /\ Graph(source, nodes, open, localSym) /\ nodes \in Seq(NodesOf) /\ source \in Seq(Tokens)
      /\ open \in Seq(Constructs)
  BY DEF Inv, Graph
<1>2. Last(open).at \in Nat
  <2>1. Last(open) \in Constructs
    BY <1>1, FrontIs
  <2> QED
    BY <2>1 DEF Constructs
<1>3. x \in Tokens /\ x.kind = "end" /\ x.of = Last(open).at
  BY <1>2, TokenIs DEF Kinds
<1>4. Adds(nodes, nodes', L) /\ \E q \in New(nodes, nodes') : nodes'[q] = Labelled(Last(Last(open).labels))
  <2>1. Leave(new)
    BY DEF Leave
  <2> QED
    BY <1>1, <2>1, Left
<1>5. source' = Append(source, x)
  OBVIOUS
<1> HIDE DEF x
<1>6. Graph(Append(source, x), nodes', Front(open), localSym)
  BY <1>1, <1>3, <1>4, GraphEnds
<1> QED
  BY <1>5, <1>6

\* The labels of what ends
LEMMA TopIs ==
    ASSUME Inv, open # <<>>
    PROVE  /\ Last(open).labels \in Seq(Nat) /\ Shape(Last(open)) /\ Last(open).at \in Nat
           /\ Last(open).kind \in {"if", "else", "switch"} =>
                /\ Last(open).labels[1] = Last(Last(open).labels) /\ Last(open).labels[1] \in Nat
                /\ Pending(Last(open)) = {Last(open).labels[1]}
           /\ Last(open).kind \in {"while", "for"} =>
                /\ Last(open).labels[2] = Last(Last(open).labels)
                /\ Last(open).labels[1] \in Nat /\ Last(open).labels[2] \in Nat
                /\ Pending(Last(open)) = {Last(open).labels[2]}
           /\ Last(open).kind = "do" =>
                /\ Last(open).labels[3] = Last(Last(open).labels) /\ Last(open).labels[2] # Last(open).labels[3]
                /\ \A i \in 1..3 : Last(open).labels[i] \in Nat
                /\ Pending(Last(open)) = {Last(open).labels[2], Last(open).labels[3]}
<1> DEFINE c == Last(open)
<1>1. open \in Seq(Constructs) /\ Labels(source, nodes, open, localSym)
  BY DEF Inv, Graph
<1>2. c \in Constructs /\ c = open[Len(open)] /\ Len(open) \in 1..Len(open)
  BY <1>1, FrontIs
<1>3. Shape(c)
  BY <1>1, <1>2 DEF Labels
<1> HIDE DEF c
<1>4. c.labels \in Seq(Nat) /\ c.at \in Nat
  BY <1>2 DEF Constructs
<1>5. c.kind \in {"if", "else", "switch"} =>
        c.labels[1] = Last(c.labels) /\ c.labels[1] \in Nat /\ Pending(c) = {c.labels[1]}
  BY <1>3, <1>4 DEF Shape, Last, Pending
<1>6. c.kind \in {"while", "for"} =>
        /\ c.labels[2] = Last(c.labels) /\ c.labels[1] \in Nat /\ c.labels[2] \in Nat
        /\ Pending(c) = {c.labels[2]}
  BY <1>3, <1>4, SMTT(30) DEF Shape, Last, Pending
<1>7. c.kind = "do" =>
        /\ c.labels[3] = Last(c.labels) /\ c.labels[2] # c.labels[3]
        /\ \A i \in 1..3 : c.labels[i] \in Nat
        /\ Pending(c) = {c.labels[2], c.labels[3]}
  <2> SUFFICES ASSUME c.kind = "do"
               PROVE  /\ c.labels[3] = Last(c.labels) /\ c.labels[2] # c.labels[3]
                      /\ \A i \in 1..3 : c.labels[i] \in Nat
                      /\ Pending(c) = {c.labels[2], c.labels[3]}
    OBVIOUS
  <2>1. Len(c.labels) = 3 /\ c.labels[2] # c.labels[3]
    BY <1>3 DEF Shape
  <2>2. c.labels[3] = Last(c.labels)
    BY <2>1 DEF Last
  <2>3. \A i \in 1..3 : c.labels[i] \in Nat
    BY <2>1, <1>4
  <2>4. Pending(c) = {c.labels[2], c.labels[3]}
    BY DEF Pending
  <2> QED
    BY <2>1, <2>2, <2>3, <2>4
<1> QED
  BY <1>3, <1>4, <1>5, <1>6, <1>7 DEF c

\* What the end of a construct does to the rest
LEMMA EndTyped ==
    ASSUME Inv, UNCHANGED <<outcome, storage>>, Close, NEW uses \in UsesOf,
           spent' = spent + Cost["end"] + Cost[uses], uses = "none" \/ Affords(Cost[uses]),
           breakLabels' \in Seq(Nat)
    PROVE  Typed' /\ open' = Front(open)
<1>1. spent' \in 0..MaxCost
  BY SpentStays DEF Inv, Kinds, Free
<1>2. scope' \in Nat /\ open' = Front(open)
  BY DEF Close, Gone, Inv, Typed
<1> QED
  BY <1>1, <1>2 DEF Inv, Typed

LEMMA EndIfKeeps ==
    ASSUME Inv, EndIf, UNCHANGED outcome
    PROVE  Inv'
<1> DEFINE c == Last(open)
           new == <<Labelled(c.labels[1])>>
<1>1. /\ open # <<>> /\ c.kind \in {"if", "else"}
      /\ source' = Append(source, Token("end", c.at, "none")) /\ nodes' = nodes \o new
      /\ Close /\ UNCHANGED <<breakLabels, localSym, storage>>
      /\ spent' = spent + Cost["end"] + Cost["none"]
  BY DEF EndIf, Write, Leave, Token, Top
<1>2. "none" \in UsesOf /\ c.kind # "region" /\ c.kind \notin Loops
  BY <1>1 DEF UsesOf, Loops
<1>3. breakLabels \in Seq(Nat) /\ open \in Seq(Constructs) /\ Breaks(open, breakLabels)
  BY LocalSymIs
<1>4. Typed' /\ open' = Front(open)
  BY <1>1, <1>2, <1>3, EndTyped
<1>5. c.labels[1] = Last(c.labels) /\ c.labels[1] \in Nat /\ Pending(c) = {c.labels[1]}
  BY <1>1, TopIs
<1>6. Fair(new, {c.labels[1]}) /\ Puts(new, Labelled(c.labels[1]))
  BY <1>5, LabelNode
<1> HIDE DEF new
<1>7. Graph(source, nodes, open, localSym)'
  <2>1. {c.labels[1]} \in SUBSET Pending(c) /\ Puts(new, Labelled(Last(c.labels)))
    BY <1>5, <1>6
  <2> QED
    BY <1>1, <1>2, <1>4, <1>6, <2>1, EndStep
<1>8. Breaks(open, breakLabels)'
  BY <1>1, <1>2, <1>3, <1>4, BreaksLessOther
<1> QED
  BY <1>4, <1>7, <1>8 DEF Inv

LEMMA EndSwitchKeeps ==
    ASSUME Inv, EndSwitch, UNCHANGED outcome
    PROVE  Inv'
<1> DEFINE c == Last(open)
           new == <<Labelled(c.labels[1])>>
<1>1. /\ open # <<>> /\ c.kind = "switch"
      /\ source' = Append(source, Token("end", c.at, "none")) /\ nodes' = nodes \o new
      /\ breakLabels' = SubSeq(breakLabels, 1, Len(breakLabels) - 2)
      /\ Close /\ UNCHANGED <<localSym, storage>>
      /\ spent' = spent + Cost["end"] + Cost["none"]
  BY DEF EndSwitch, Write, Leave, Token, Top, TakeBreakLabels
<1>2. "none" \in UsesOf /\ c.kind # "region" /\ c.kind \in Loops
  BY <1>1 DEF UsesOf, Loops
<1>3. breakLabels \in Seq(Nat) /\ open \in Seq(Constructs) /\ Breaks(open, breakLabels)
  BY LocalSymIs
<1>4. breakLabels' \in Seq(Nat) /\ Breaks(Front(open), breakLabels')
  BY <1>1, <1>2, <1>3, BreaksLess
<1>5. Typed' /\ open' = Front(open)
  BY <1>1, <1>2, <1>4, EndTyped
<1>6. c.labels[1] = Last(c.labels) /\ c.labels[1] \in Nat /\ Pending(c) = {c.labels[1]}
  BY <1>1, TopIs
<1>7. Fair(new, {c.labels[1]}) /\ Puts(new, Labelled(c.labels[1]))
  BY <1>6, LabelNode
<1> HIDE DEF new
<1>8. Graph(source, nodes, open, localSym)'
  <2>1. {c.labels[1]} \in SUBSET Pending(c) /\ Puts(new, Labelled(Last(c.labels)))
    BY <1>6, <1>7
  <2> QED
    BY <1>1, <1>2, <1>5, <1>7, <2>1, EndStep
<1> QED
  BY <1>4, <1>5, <1>8 DEF Inv

\* EndWhile and EndFor
LEMMA EndLoopKeeps ==
    ASSUME Inv, EndWhile \/ EndFor, UNCHANGED outcome
    PROVE  Inv'
<1> DEFINE c == Last(open)
           new == <<Goto(c.labels[1]), Labelled(c.labels[2])>>
<1>1. /\ open # <<>> /\ c.kind \in {"while", "for"}
      /\ source' = Append(source, Token("end", c.at, "none")) /\ nodes' = nodes \o new
      /\ breakLabels' = SubSeq(breakLabels, 1, Len(breakLabels) - 2)
      /\ Close /\ UNCHANGED <<localSym, storage>>
      /\ spent' = spent + Cost["end"] + Cost["none"]
  BY DEF EndWhile, EndFor, Write, Leave, Token, Top, TakeBreakLabels
<1>2. "none" \in UsesOf /\ c.kind # "region" /\ c.kind \in Loops
  BY <1>1 DEF UsesOf, Loops
<1>3. breakLabels \in Seq(Nat) /\ open \in Seq(Constructs) /\ Breaks(open, breakLabels)
  BY LocalSymIs
<1>4. breakLabels' \in Seq(Nat) /\ Breaks(Front(open), breakLabels')
  BY <1>1, <1>2, <1>3, BreaksLess
<1>5. Typed' /\ open' = Front(open)
  BY <1>1, <1>2, <1>4, EndTyped
<1>6. /\ c.labels[2] = Last(c.labels) /\ c.labels[1] \in Nat /\ c.labels[2] \in Nat
      /\ Pending(c) = {c.labels[2]}
  BY <1>1, TopIs
<1>7. Fair(new, {c.labels[2]}) /\ Puts(new, Labelled(c.labels[2]))
  <2>1. c.labels[1] \in Int /\ c.labels[2] \in Int
    BY <1>6
  <2> HIDE DEF c
  <2>2. Goto(c.labels[1]) \in NodesOf /\ Fair(<<Goto(c.labels[1])>>, {})
    BY <2>1, JumpNode
  <2>3. /\ Labelled(c.labels[2]) \in NodesOf /\ Fair(<<Labelled(c.labels[2])>>, {c.labels[2]})
        /\ Puts(<<Labelled(c.labels[2])>>, Labelled(c.labels[2]))
    BY <2>1, LabelNode
  <2>4. Fair(new, {c.labels[2]})
    BY <2>2, <2>3, TwoNodes
  <2>5. \A z : Puts(<<Labelled(c.labels[2])>>, z) => Puts(new, z)
    BY <2>2, <2>3, TwoNodes
  <2> QED
    BY <2>3, <2>4, <2>5
<1> HIDE DEF new
<1>8. Graph(source, nodes, open, localSym)'
  <2>1. {c.labels[2]} \in SUBSET Pending(c) /\ Puts(new, Labelled(Last(c.labels)))
    BY <1>6, <1>7
  <2> QED
    BY <1>1, <1>2, <1>5, <1>7, <2>1, EndStep
<1> QED
  BY <1>4, <1>5, <1>8 DEF Inv

LEMMA EndDoKeeps ==
    ASSUME Inv, NEW uses \in UsesOf, EndDo(uses), UNCHANGED outcome
    PROVE  Inv'
<1> DEFINE c == Last(open)
           out == <<Fork(c.labels[1]), Labelled(c.labels[3])>>
           new == <<Labelled(c.labels[2])>> \o UseNodes(uses) \o out
<1>1. /\ open # <<>> /\ c.kind = "do" /\ (uses = "none" \/ Affords(Cost[uses]))
      /\ source' = Append(source, Token("end", c.at, uses)) /\ nodes' = nodes \o new
      /\ breakLabels' = SubSeq(breakLabels, 1, Len(breakLabels) - 2)
      /\ Close /\ UNCHANGED <<localSym, storage>>
      /\ spent' = spent + Cost["end"] + Cost[uses]
  BY DEF EndDo, Write, Leave, Token, Top, TakeBreakLabels, MayUse
<1>2. c.kind # "region" /\ c.kind \in Loops
  BY <1>1 DEF Loops
<1>3. breakLabels \in Seq(Nat) /\ open \in Seq(Constructs) /\ Breaks(open, breakLabels)
  BY LocalSymIs
<1>4. breakLabels' \in Seq(Nat) /\ Breaks(Front(open), breakLabels')
  BY <1>1, <1>2, <1>3, BreaksLess
<1>5. Typed' /\ open' = Front(open)
  BY <1>1, <1>4, EndTyped
<1>6. /\ c.labels[3] = Last(c.labels) /\ c.labels[2] # c.labels[3]
      /\ c.labels[1] \in Nat /\ c.labels[2] \in Nat /\ c.labels[3] \in Nat
      /\ Pending(c) = {c.labels[2], c.labels[3]}
  BY <1>1, TopIs
<1>7. Fair(new, Pending(c)) /\ Puts(new, Labelled(c.labels[3]))
  <2>1. c.labels[1] \in Int /\ c.labels[2] \in Int /\ c.labels[3] \in Int
    BY <1>6
  <2>2. /\ {c.labels[2]} \cap {c.labels[3]} = {}
        /\ {c.labels[2]} \in SUBSET Pending(c) /\ {c.labels[3]} \in SUBSET Pending(c)
    BY <1>6
  <2> HIDE DEF c
  <2>3. Fair(<<Labelled(c.labels[2])>>, {c.labels[2]}) /\ Fair(UseNodes(uses), {})
    BY <2>1, LabelNode, UseIsFair
  <2>4. Fork(c.labels[1]) \in NodesOf /\ Fair(<<Fork(c.labels[1])>>, {})
    BY <2>1, JumpNode
  <2>5. /\ Labelled(c.labels[3]) \in NodesOf /\ Fair(<<Labelled(c.labels[3])>>, {c.labels[3]})
        /\ Puts(<<Labelled(c.labels[3])>>, Labelled(c.labels[3]))
    BY <2>1, LabelNode
  <2>6. Fair(<<Labelled(c.labels[2])>> \o UseNodes(uses), {c.labels[2]})
    BY <2>3, FairAll
  <2>7. Fair(out, {c.labels[3]})
    BY <2>4, <2>5, TwoNodes
  <2>8. Puts(out, Labelled(c.labels[3]))
    <3>1. \A z : Puts(<<Labelled(c.labels[3])>>, z) => Puts(out, z)
      BY <2>4, <2>5, TwoNodes
    <3> QED
      BY <2>5, <3>1
  <2> HIDE DEF out
  <2>9. Fair(new, Pending(c))
    BY <2>2, <2>6, <2>7, FairAll
  <2>10. Puts(new, Labelled(c.labels[3]))
    <3> DEFINE a == <<Labelled(c.labels[2])>> \o UseNodes(uses)
    <3>1. Fair(a, {c.labels[2]})
      BY <2>6
    <3> HIDE DEF a
    <3>2. Puts(a \o out, Labelled(c.labels[3]))
      BY <2>7, <2>8, <3>1, PutsAfter
    <3> QED
      BY <3>2 DEF a
  <2> QED
    BY <2>9, <2>10
<1> HIDE DEF new
<1>8. Graph(source, nodes, open, localSym)'
  <2>1. Pending(c) \in SUBSET Pending(c) /\ Puts(new, Labelled(Last(c.labels)))
    BY <1>6, <1>7
  <2> QED
    BY <1>1, <1>2, <1>5, <1>7, <2>1, EndStep
<1> QED
  BY <1>4, <1>5, <1>8 DEF Inv

LEMMA ElseKeeps ==
    ASSUME Inv, Else, UNCHANGED outcome
    PROVE  Inv'
<1> DEFINE top == Last(open)
           x == Token("else", top.at, "none")
           new == <<Goto(localSym), Labelled(top.labels[1])>>
           c == [top EXCEPT !.kind = "else", !.labels = <<localSym>>]
<1>1. /\ open # <<>> /\ top.kind = "if"
      /\ source' = Append(source, x) /\ nodes' = nodes \o new
      /\ open' = Append(Front(open), c) /\ localSym' = localSym + 1
      /\ UNCHANGED <<breakLabels, storage>>
      /\ spent' = spent + Cost["else"] + Cost["none"] /\ Affords(Cost["else"])
      /\ scope' \in {Gone, scope}
  BY DEF Else, Write, Leave, Token, Top
<1>2. localSym \in Nat /\ breakLabels \in Seq(Nat) /\ open \in Seq(Constructs) /\ Breaks(open, breakLabels)
  BY LocalSymIs
<1>3. Graph(source, nodes, open, localSym) /\ nodes \in Seq(NodesOf)
  BY DEF Inv, Graph
<1>4. top.labels[1] \in Nat /\ top.at \in Nat
  BY <1>1, TopIs
<1>5. x \in Tokens /\ x.kind = "else" /\ x.of = top.at
  <2>1. "else" \in Kinds /\ "none" \in UsesOf
    BY DEF Kinds, UsesOf
  <2> QED
    BY <1>4, <2>1, TokenIs
<1>6. c \in Constructs /\ c.kind = "else" /\ c.at = top.at /\ c.labels = <<localSym>>
  <2>1. top \in Constructs
    BY <1>1, <1>2, FrontIs
  <2>2. "else" \in Heads \cup {"else", "region"} /\ <<localSym>> \in Seq(Nat)
    BY <1>2
  <2> HIDE DEF top
  <2> QED
    BY <2>1, <2>2 DEF Constructs
<1>7. Fair(new, {top.labels[1]})
  <2>1. localSym \in Int /\ top.labels[1] \in Int
    BY <1>2, <1>4
  <2> HIDE DEF top
  <2>2. Goto(localSym) \in NodesOf /\ Fair(<<Goto(localSym)>>, {})
    BY <2>1, JumpNode
  <2>3. Labelled(top.labels[1]) \in NodesOf /\ Fair(<<Labelled(top.labels[1])>>, {top.labels[1]})
    BY <2>1, LabelNode
  <2> QED
    BY <2>2, <2>3, TwoNodes
<1> HIDE DEF x, new, c
<1>8. Adds(nodes, nodes', {top.labels[1]})
  BY <1>1, <1>3, <1>7, NodesAdded
<1>9. Graph(source, nodes, open, localSym)'
  <2>1. Graph(Append(source, x), nodes', Append(Front(open), c), localSym + 1)
    BY <1>1, <1>3, <1>5, <1>6, <1>8, GraphTurns
  <2> QED
    BY <1>1, <2>1
<1>10. Breaks(open, breakLabels)'
  <2>1. Front(open) \in Seq(Constructs) /\ top.kind \notin Loops /\ c.kind \notin Loops
    BY <1>1, <1>2, <1>6, FrontIs DEF Loops
  <2>2. Breaks(Front(open), breakLabels)
    BY <1>1, <1>2, <2>1, BreaksLessOther
  <2>3. Breaks(Append(Front(open), c), breakLabels)
    BY <1>6, <2>1, <2>2, BreaksMoreOther
  <2> QED
    BY <1>1, <2>3
<1>11. Typed'
  <2>1. spent' \in 0..MaxCost
    <3>1. "none" \in UsesOf /\ "else" \in Kinds /\ Typed
      BY DEF Kinds, Inv, UsesOf
    <3>2. Cost["none"] = 0 /\ Cost["else"] \in Nat
      BY <3>1, CostAssumption DEF Free
    <3>3. Affords(Cost["else"] + Cost["none"])
      BY <1>1, <3>2 DEF Affords
    <3> QED
      BY <1>1, <3>1, <3>3, SpentStays
  <2>2. scope' \in Nat
    BY <1>1 DEF Gone, Inv, Typed
  <2> QED
    BY <1>1, <2>1, <2>2 DEF Inv, Typed
<1> QED
  BY <1>9, <1>10, <1>11 DEF Inv

\* The innermost of some kinds
LEMMA NewestExists ==
    ASSUME NEW n \in Nat, NEW op, NEW kinds, \E k \in 1..n : op[k].kind \in kinds
    PROVE  \E k \in 1..n : op[k].kind \in kinds /\ \A m \in 1..n : m > k => op[m].kind \notin kinds
<1> DEFINE S == {i \in 0..n : n - i \in 1..n /\ op[n - i].kind \in kinds}
<1>1. S \in SUBSET Nat /\ S # {}
  <2>1. PICK k \in 1..n : op[k].kind \in kinds
    OBVIOUS
  <2>2. n - k \in 0..n /\ n - (n - k) = k
    OBVIOUS
  <2>3. op[n - (n - k)].kind \in kinds
    BY <2>1, <2>2
  <2>4. n - k \in S
    BY <2>2, <2>3
  <2>5. S \in SUBSET Nat
    OBVIOUS
  <2> QED
    BY <2>4, <2>5
<1>2. PICK i \in S : \A j \in S : <<j, i>> \notin OpToRel(<, Nat)
  <2> HIDE DEF S
  <2> QED
    BY <1>1, NatLessThanWellFounded, WFMin
<1>3. \A j \in S : ~(j < i)
  BY <1>1, <1>2 DEF OpToRel
<1>4. n - i \in 1..n /\ op[n - i].kind \in kinds /\ i \in 0..n
  OBVIOUS
<1>5. ASSUME NEW m \in 1..n, m > n - i, op[m].kind \in kinds
      PROVE  FALSE
  <2>1. n - m \in 0..n /\ n - (n - m) = m /\ n - m < i
    BY <1>4, <1>5
  <2>2. n - m \in S
    BY <2>1, <1>5
  <2> QED
    BY <2>1, <2>2, <1>3
<1> QED
  BY <1>4, <1>5

LEMMA InnermostIs ==
    ASSUME Inv, NEW kinds, InnermostOf(kinds) # 0
    PROVE  /\ InnermostOf(kinds) \in Nat
           /\ \E k \in 1..Len(open) : /\ open[k].at = InnermostOf(kinds) /\ open[k].kind \in kinds
                                      /\ \A m \in 1..Len(open) : m > k => open[m].kind \notin kinds
<1> DEFINE found == {i \in DOMAIN open : open[i].kind \in kinds}
           best == CHOOSE i \in found : \A j \in found : j <= i
<1>1. open \in Seq(Constructs) /\ Len(open) \in Nat /\ DOMAIN open = 1..Len(open)
  BY DEF Inv, Graph
<1>2. InnermostOf(kinds) = IF found = {} THEN 0 ELSE open[best].at
  BY DEF InnermostOf
<1>3. found # {}
  BY <1>2
<1>4. \E i \in found : \A j \in found : j <= i
  <2>1. \E k \in 1..Len(open) : open[k].kind \in kinds
    BY <1>1, <1>3
  <2>2. PICK k \in 1..Len(open) : open[k].kind \in kinds /\ \A m \in 1..Len(open) : m > k => open[m].kind \notin kinds
    BY <1>1, <2>1, NewestExists
  <2>3. k \in found /\ \A j \in found : j <= k
    BY <1>1, <2>2
  <2> QED
    BY <2>3
<1>5. best \in found /\ \A j \in found : j <= best
  BY <1>4
<1> HIDE DEF best
<1>6. best \in 1..Len(open) /\ open[best].kind \in kinds /\ \A m \in 1..Len(open) : m > best => open[m].kind \notin kinds
  BY <1>1, <1>5
<1>7. open[best].at \in Nat
  <2>1. open[best] \in Constructs
    BY <1>1, <1>6
  <2> QED
    BY <2>1 DEF Constructs
<1> QED
  BY <1>2, <1>3, <1>6, <1>7

LEMMA CaseKeeps ==
    ASSUME Inv, Case, UNCHANGED outcome
    PROVE  Inv'
<1> DEFINE of == InnermostOf({"switch"})
           x == Token("case", of, "none")
<1>1. /\ source' = Append(source, x)
      /\ UNCHANGED <<open, nodes, breakLabels, localSym, storage, scope>>
      /\ spent' = spent + Cost["case"] + Cost["none"] /\ Affords(Cost["case"]) /\ of # 0
  BY DEF Case, Write, parser, Token
<1>2. Graph(source, nodes, open, localSym) /\ source \in Seq(Tokens) /\ nodes \in Seq(NodesOf)
  BY DEF Inv, Graph
<1>3. of \in Nat
  BY <1>1, InnermostIs
<1> HIDE DEF of
<1>4. x \in Tokens /\ x.kind = "case"
  BY <1>3, TokenIs DEF Kinds, UsesOf
<1> HIDE DEF x
<1>5. Adds(nodes, nodes, {})
  BY <1>2 DEF Adds, AddsLabels, Grown, New
<1>6. Graph(source, nodes, open, localSym)'
  <2>1. JumpRight(Append(source, x), nodes, open, Len(source) + 1)
    <3>1. Append(source, x)[Len(source) + 1] = x
      BY <1>2, <1>4, AppendGrows
    <3> QED
      BY <1>4, <3>1 DEF JumpRight
  <2>2. x.kind \notin {"begin", "finish", "end", "else", "step"} \cup Heads
    BY <1>4 DEF Heads, Loops
  <2>3. Graph(Append(source, x), nodes, open, localSym)
    BY <1>2, <1>4, <1>5, <2>1, <2>2, GraphStays
  <2> QED
    BY <1>1, <2>3
<1>7. Breaks(open, breakLabels)'
  BY <1>1 DEF Inv
<1>8. spent' \in 0..MaxCost
  <2>1. "none" \in UsesOf /\ "case" \in Kinds /\ Typed
    BY DEF Kinds, Inv, UsesOf
  <2>2. Cost["none"] = 0 /\ Cost["case"] \in Nat
    BY <2>1, CostAssumption DEF Free
  <2>3. Affords(Cost["case"] + Cost["none"])
    BY <1>1, <2>2 DEF Affords
  <2> QED
    BY <1>1, <2>1, <2>3, SpentStays
<1>9. Typed'
  BY <1>1, <1>8 DEF Typed, Inv
<1> QED
  BY <1>6, <1>7, <1>9 DEF Inv

\* break and continue, once it is known that the newest label is right for them
LEMMA LeaveKeeps ==
    ASSUME Inv, UNCHANGED outcome, NEW kind \in {"break", "continue"}, NEW k \in 1..Len(open),
           open[k].kind \in Loops, Affords(Cost[kind]),
           Write(Token(kind, open[k].at, "none")), Leave(<<Goto(Last(breakLabels))>>),
           UNCHANGED <<open, breakLabels, localSym, storage, scope>>,
           NEW j \in 1..Len(open), open[j].kind \in Loops,
           \A m \in 1..Len(open) : m > j => open[m].kind \notin Loops,
           j = k \/ (kind = "continue" /\ j > k /\ open[j].kind = "switch")
    PROVE  Inv'
<1> DEFINE of == open[k].at
           l == Last(breakLabels)
           x == Token(kind, of, "none")
           new == <<Goto(l)>>
           t == Len(source) + 1
<1>1. /\ source' = Append(source, x) /\ Leave(new) /\ nodes' = nodes \o new
      /\ spent' = spent + Cost[kind] + Cost["none"]
  BY DEF Write, Leave, Token
<1>2. /\ Graph(source, nodes, open, localSym) /\ source \in Seq(Tokens) /\ nodes \in Seq(NodesOf)
      /\ open \in Seq(Constructs) /\ Opened(source, open) /\ Len(source) \in Nat
      /\ breakLabels \in Seq(Nat) /\ Breaks(open, breakLabels)
  BY DEF Inv, Graph, Typed
<1>3. \A m \in 1..Len(open) : /\ open[m].at \in 1..Len(source)
                              /\ open[m].kind \in Loops => source[open[m].at].kind = open[m].kind
  BY <1>2 DEF Opened, HeadOf, Loops
<1>4. of \in Nat /\ of \in 1..Len(source) /\ source[of].kind \in Loops
  BY <1>2, <1>3
<1>5. x \in Tokens /\ x.kind = kind /\ x.of = of
  <2>1. kind \in Kinds /\ "none" \in UsesOf
    BY DEF Kinds, UsesOf
  <2> HIDE DEF of
  <2> QED
    BY <1>4, <2>1, TokenIs
<1>6. l \in Nat /\ l = Last(open[j].labels)
  BY <1>2, NewestIsInnermost
<1> HIDE DEF x, l
<1>7. Fair(new, {}) /\ Puts(new, Goto(l))
  <2>1. l \in Int
    BY <1>6
  <2> QED
    BY <2>1, JumpNode
<1> HIDE DEF new
<1>8. /\ source' \in Seq(Tokens) /\ Grown(source, source') /\ New(source, source') = {t} /\ source'[t] = x
      /\ t \in New(source, source') /\ Len(source') = t
  BY <1>1, <1>2, <1>5, AppendGrows
<1>9. Adds(nodes, nodes', {}) /\ \E p \in New(nodes, nodes') : nodes'[p] = Goto(l)
  BY <1>1, <1>2, <1>7, Left
<1>10. JumpRight(source', nodes', open, t)
  <2>1. \A u \in New(source, source') : source'[u].kind \notin {"begin", "finish"}
    BY <1>5, <1>8
  <2>2. GoesTo(source', nodes', t, l)
    <3>1. l \in Int
      BY <1>6
    <3> HIDE DEF t
    <3> QED
      BY <1>2, <1>8, <1>9, <2>1, <3>1, StepSides
  <2>3. CASE j = k
    <3>1. Leaves(source', nodes', open, t)
      BY <1>5, <1>6, <1>8, <2>2, <2>3 DEF Leaves
    <3> QED
      BY <1>5, <1>8, <3>1 DEF JumpRight
  <2>4. CASE kind = "continue" /\ j > k /\ open[j].kind = "switch"
    <3> DEFINE s == open[j].at
    <3>1. s \in 1..Len(source) /\ source[s].kind = "switch" /\ of < s
      BY <1>2, <1>3, <2>4 DEF Opened
    <3>2. s \in 1..Len(source') /\ source'[s] = source[s] /\ s \in of..t
      BY <1>2, <1>4, <1>8, <3>1, SMTT(30) DEF Grown
    <3>3. ASSUME NEW e \in 1..Len(source'), Ends(source', e, s)
          PROVE  FALSE
      <4>1. CASE e = t
        BY <4>1, <3>3, <1>5, <1>8 DEF Ends
      <4>2. CASE e \in 1..Len(source)
        <5>1. source[e].kind = "end" /\ source[e].of = s
          BY <4>2, <3>3, <1>8 DEF Ends, Grown
        <5> QED
          BY <4>2, <5>1, <1>2 DEF Opened
      <4> QED
        BY <4>1, <4>2, <1>2, <1>8
    <3>4. InSwitch(source', t)
      BY <3>1, <3>2, <3>3, <1>5, <1>8 DEF InSwitch
    <3> QED
      BY <1>5, <1>8, <2>4, <3>4 DEF JumpRight
  <2> QED
    BY <2>3, <2>4
<1>11. Graph(source, nodes, open, localSym)'
  <2>1. x.kind \notin {"begin", "finish", "end", "else", "step"} \cup Heads
    BY <1>5 DEF Heads, Loops
  <2> QED
    BY <1>1, <1>4, <1>5, <1>7, <1>10, <2>1, PlainStep
<1>12. Breaks(open, breakLabels)'
  BY <1>2
<1>13. spent' \in 0..MaxCost
  <2>1. "none" \in UsesOf /\ kind \in Kinds /\ Typed
    BY DEF Kinds, Inv, UsesOf
  <2>2. Cost["none"] = 0 /\ Cost[kind] \in Nat
    BY <2>1, CostAssumption DEF Free
  <2>3. Affords(Cost[kind] + Cost["none"])
    BY <1>1, <2>2 DEF Affords
  <2> QED
    BY <1>1, <2>1, <2>3, SpentStays
<1>14. Typed'
  BY <1>13 DEF Typed, Inv
<1> QED
  BY <1>11, <1>12, <1>14 DEF Inv

LEMMA BreakKeeps ==
    ASSUME Inv, Break, UNCHANGED outcome
    PROVE  Inv'
<1>1. InnermostOf(Loops) # 0 /\ MayJump("break")
  BY DEF Break, Loops
<1>2. PICK k \in 1..Len(open) : /\ open[k].at = InnermostOf(Loops) /\ open[k].kind \in Loops
                                /\ \A m \in 1..Len(open) : m > k => open[m].kind \notin Loops
  BY <1>1, InnermostIs
<1>3. Write(Token("break", open[k].at, "none")) /\ Leave(<<Goto(Last(breakLabels))>>)
  BY <1>2 DEF Break, Loops
<1>4. UNCHANGED <<open, breakLabels, localSym, storage, scope>> /\ Affords(Cost["break"])
  BY <1>1 DEF Break, MayJump
<1> QED
  BY <1>2, <1>3, <1>4, LeaveKeeps

LEMMA ContinueKeeps ==
    ASSUME Inv, Continue, UNCHANGED outcome
    PROVE  Inv'
<1> DEFINE loops == {"while", "do", "for"}
<1>1. InnermostOf(loops) # 0 /\ MayJump("continue")
  BY DEF Continue
<1> HIDE DEF loops
<1>2. PICK k \in 1..Len(open) : /\ open[k].at = InnermostOf(loops) /\ open[k].kind \in loops
                                /\ \A m \in 1..Len(open) : m > k => open[m].kind \notin loops
  BY <1>1, InnermostIs
<1>3. Write(Token("continue", open[k].at, "none")) /\ Leave(<<Goto(Last(breakLabels))>>)
  BY <1>2 DEF Continue, loops
<1>4. UNCHANGED <<open, breakLabels, localSym, storage, scope>> /\ Affords(Cost["continue"])
  BY <1>1 DEF Continue, MayJump
<1>5. open[k].kind \in Loops
  BY <1>2 DEF loops, Loops
<1>6. PICK j \in 1..Len(open) : /\ open[j].kind \in Loops
                                /\ \A m \in 1..Len(open) : m > j => open[m].kind \notin Loops
  <2>1. Len(open) \in Nat
    BY DEF Inv, Graph
  <2>2. \E m \in 1..Len(open) : open[m].kind \in Loops
    BY <1>5
  <2> QED
    BY <2>1, <2>2, NewestExists
<1>7. j >= k
  <2>1. ~(k > j)
    BY <1>5, <1>6
  <2> QED
    BY <2>1
<1>8. j = k \/ (j > k /\ open[j].kind = "switch")
  <2>1. ASSUME j > k PROVE open[j].kind = "switch"
    <3>1. open[j].kind \notin loops
      BY <1>2, <2>1
    <3> QED
      BY <3>1, <1>6 DEF loops, Loops
  <2> QED
    BY <1>7, <2>1
<1> QED
  BY <1>3, <1>4, <1>5, <1>6, <1>8, LeaveKeeps

LEMMA DeclareKeeps ==
    ASSUME Inv, NEW s \in StorageClasses, Declare(s), UNCHANGED outcome
    PROVE  Inv'
<1> DEFINE x == Token(s, 0, "none")
           new == <<Variable("defined")>> \o IF s = "param" THEN <<Variable("lval")>> ELSE <<>>
<1>1. x \in Tokens /\ x.kind = s /\ s \in Kinds /\ s \in {"auto", "static", "param"}
  BY TokenIs DEF Kinds, UsesOf, StorageClasses
<1>2. source' = Append(source, x) /\ nodes' = nodes \o new
  BY DEF Declare, Write, Leave
<1>3. /\ UNCHANGED <<open, breakLabels, localSym>> /\ storage' = s
      /\ spent' = spent + Cost[s] + Cost["none"] /\ Affords(Cost[s])
      /\ scope' = IF source = <<>> THEN 0 ELSE Len(open) - 1
      /\ source = <<>> \/ (source # <<>> /\ Last(source).kind = "begin")
  BY DEF Declare, Write, Token
<1>4. Fair(new, {})
  <2>1. Fair(<<Variable("defined")>>, {}) /\ Fair(<<Variable("lval")>>, {}) /\ Fair(<<>>, {})
    BY VariableNode, NoNode
  <2>2. Fair(IF s = "param" THEN <<Variable("lval")>> ELSE <<>>, {})
    BY <2>1
  <2> QED
    BY <2>1, <2>2, FairAll
<1>5. /\ source \in Seq(Tokens) /\ open \in Seq(Constructs) /\ Regions(source, nodes, open)
      /\ Len(open) \in Nat
  BY DEF Inv, Graph
<1> HIDE DEF x, new
<1>6. Graph(source, nodes, open, localSym)'
  <2>1. JumpRight(source', nodes', open, Len(source) + 1)
    <3>1. source'[Len(source) + 1] = x
      BY <1>1, <1>2, <1>5, AppendGrows
    <3> QED
      BY <1>1, <3>1 DEF JumpRight
  <2>2. x.kind \notin {"begin", "finish", "end", "else", "step"} \cup Heads
    BY <1>1 DEF Heads, Loops
  <2> QED
    BY <1>1, <1>2, <1>3, <1>4, <2>1, <2>2, PlainStep
<1>7. Breaks(open, breakLabels)'
  BY <1>3 DEF Inv
<1>8. spent' \in 0..MaxCost
  <2>1. "none" \in UsesOf /\ Typed
    BY DEF Inv, UsesOf
  <2>2. Cost["none"] = 0 /\ Cost[s] \in Nat
    BY <1>1, CostAssumption DEF Free
  <2>3. Affords(Cost[s] + Cost["none"])
    BY <1>3, <2>2 DEF Affords
  <2> QED
    BY <1>1, <1>3, <2>1, <2>3, SpentStays
\* A declaration after the beginning of the region is in it.
<1>9. scope' \in Nat
  <2>1. CASE source = <<>>
    BY <2>1, <1>3
  <2>2. CASE source # <<>> /\ Last(source).kind = "begin"
    <3> DEFINE b == Len(source)
    <3>1. b \in 1..Len(source) /\ source[b].kind = "begin"
      BY <2>2, <1>5 DEF Last
    <3>2. \A f \in 1..Len(source) : source[f].kind # "finish"
      <4> SUFFICES ASSUME NEW f \in 1..Len(source), source[f].kind = "finish" PROVE FALSE
        OBVIOUS
      <4>1. b < f
        BY <3>1, <1>5 DEF Regions
      <4> QED
        BY <4>1, <1>5
    <3>3. InRegion(source)
      BY <3>1, <3>2 DEF InRegion
    <3>4. RegionsOf(open) # {}
      BY <3>3, <1>5 DEF Regions
    <3>5. Len(open) >= 1
      BY <3>4, <1>5 DEF RegionsOf
    <3> QED
      BY <2>2, <3>5, <1>3, <1>5
  <2> QED
    BY <2>1, <2>2, <1>3
<1>10. Typed'
  BY <1>3, <1>8, <1>9 DEF Typed, Inv
<1> QED
  BY <1>6, <1>7, <1>10 DEF Inv

LEMMA BeginRegionKeeps ==
    ASSUME Inv, BeginRegion, UNCHANGED outcome
    PROVE  Inv'
<1> DEFINE x == Token("begin", 0, "none")
           c == Construct("region", <<>>)
<1>1. /\ source' = Append(source, x) /\ nodes' = nodes \o <<Marker>> /\ open' = Append(open, c)
      /\ UNCHANGED <<breakLabels, localSym, storage, scope>>
      /\ spent' = spent + Cost["begin"] + Cost["none"] /\ ~Has("begin")
  BY DEF BeginRegion, Write, Leave, Open, Token
<1>2. /\ Graph(source, nodes, open, localSym) /\ source \in Seq(Tokens) /\ nodes \in Seq(NodesOf)
      /\ open \in Seq(Constructs) /\ Len(source) + 1 \in Nat /\ Breaks(open, breakLabels)
  BY DEF Inv, Graph
<1>3. x \in Tokens /\ x.kind = "begin"
  BY TokenIs DEF Kinds, UsesOf
<1>4. c \in Constructs /\ c.kind = "region" /\ c.at = Len(source) + 1
  BY <1>2 DEF Construct, Constructs
<1> HIDE DEF x, c
<1>5. nodes' = Append(nodes, Marker)
  <2>1. Marker \in NodesOf
    BY DEF Marker, Node, NodesOf
  <2> QED
    BY <2>1, <1>1, <1>2
<1>6. \A t \in 1..Len(source) : source[t].kind # "begin"
  BY <1>1, <1>2 DEF Has
<1>7. Graph(source, nodes, open, localSym)'
  <2>1. Graph(Append(source, x), Append(nodes, Marker), Append(open, c), localSym)
    BY <1>2, <1>3, <1>4, <1>6, GraphEnters
  <2> QED
    BY <2>1, <1>1, <1>5
<1>8. Breaks(open, breakLabels)'
  <2>1. c.kind \notin Loops
    BY <1>4 DEF Loops
  <2> QED
    BY <2>1, <1>1, <1>2, <1>4, BreaksMoreOther
<1>9. spent' \in 0..MaxCost
  <2>1. "none" \in UsesOf /\ "begin" \in Kinds /\ "begin" \in Free /\ Typed
    BY DEF Kinds, Free, Inv, UsesOf
  <2> QED
    BY <1>1, <2>1, SpentStays
<1>10. Typed'
  BY <1>1, <1>9 DEF Typed, Inv
<1> QED
  BY <1>7, <1>8, <1>10 DEF Inv

LEMMA EndRegionKeeps ==
    ASSUME Inv, EndRegion, UNCHANGED outcome
    PROVE  Inv'
<1> DEFINE x == Token("finish", Last(open).at, "none")
<1>1. /\ open # <<>> /\ Last(open).kind = "region"
      /\ source' = Append(source, x) /\ nodes' = nodes \o <<Marker>> /\ open' = Front(open)
      /\ UNCHANGED <<breakLabels, localSym, storage>>
      /\ scope' \in {Gone, scope}
      /\ spent' = spent + Cost["finish"] + Cost["none"]
  BY DEF EndRegion, Write, Leave, Close, Token, Top
<1>2. /\ Graph(source, nodes, open, localSym) /\ source \in Seq(Tokens) /\ nodes \in Seq(NodesOf)
      /\ open \in Seq(Constructs) /\ Breaks(open, breakLabels)
  BY DEF Inv, Graph
<1>3. x \in Tokens /\ x.kind = "finish"
  BY <1>1, TopIs, TokenIs DEF Kinds, UsesOf
<1> HIDE DEF x
<1>4. nodes' = Append(nodes, Marker)
  <2>1. Marker \in NodesOf
    BY DEF Marker, Node, NodesOf
  <2> QED
    BY <2>1, <1>1, <1>2
<1>5. Graph(source, nodes, open, localSym)'
  <2>1. Graph(Append(source, x), Append(nodes, Marker), Front(open), localSym)
    BY <1>1, <1>2, <1>3, GraphExits
  <2> QED
    BY <2>1, <1>1, <1>4
<1>6. Breaks(open, breakLabels)'
  <2>1. Last(open).kind \notin Loops
    BY <1>1 DEF Loops
  <2> QED
    BY <2>1, <1>1, <1>2, BreaksLessOther
<1>7. spent' \in 0..MaxCost
  <2>1. "none" \in UsesOf /\ "finish" \in Kinds /\ "finish" \in Free /\ Typed
    BY DEF Kinds, Free, Inv, UsesOf
  <2> QED
    BY <1>1, <2>1, SpentStays
<1>8. Typed'
  BY <1>1, <1>7 DEF Typed, Inv, Gone
<1> QED
  BY <1>5, <1>6, <1>8 DEF Inv

LEMMA InitInv == Init => Inv
<1> SUFFICES ASSUME Init PROVE Inv
  OBVIOUS
<1> DEFINE first == Labelled(FunctionLabel)
           nds == <<first>>
<1>1. /\ source = <<>> /\ nodes = nds /\ open = <<>> /\ localSym = 0 /\ breakLabels = <<>>
      /\ storage = "none" /\ scope = 0 /\ spent = 0 /\ outcome = "none"
  BY DEF Init
<1>2. first \in NodesOf /\ first # Marker /\ first.label = -1 /\ first # Labelled(UserLabel)
  BY DEF Labelled, FunctionLabel, UserLabel, Node, NodesOf, Marker
<1>3. nds \in Seq(NodesOf) /\ Len(nds) = 1 /\ nds[1] = first
  BY <1>2
<1> HIDE DEF nds
<1>4. \A p \in 1..Len(nds) : p = 1
  BY <1>3
<1>5. /\ <<>> \in Seq(Tokens) /\ <<>> \in Seq(Constructs) /\ <<>> \in Seq(Nat)
      /\ Len(<<>>) = 0 /\ 1..0 = {}
  OBVIOUS
<1>6. Regions(<<>>, nds, <<>>)
  <2>1. MarkersTo(nds, Len(nds)) = {}
    BY <1>2, <1>3, <1>4 DEF MarkersTo
  <2>2. Cardinality(MarkersTo(nds, Len(nds))) = 0
    BY <2>1, FS_EmptySet
  <2>3. RegionsOf(<<>>) = {} /\ ~InRegion(<<>>)
    BY <1>5 DEF RegionsOf, InRegion
  <2> QED
    BY <1>5, <2>2, <2>3 DEF Regions
<1>7. Labels(<<>>, nds, <<>>, 0)
  <2>1. \A p \in 1..Len(nds) : nds[p].label < 0 /\ nds[p] # Labelled(UserLabel)
    BY <1>2, <1>3, <1>4
  <2>2. Len(nds) > 0 /\ nds[1] = Labelled(FunctionLabel)
    BY <1>3
  <2> HIDE DEF first
  <2> QED
    BY <1>4, <1>5, <2>1, <2>2 DEF Labels
<1>8. Opened(<<>>, <<>>) /\ Ended(<<>>, <<>>) /\ JumpsLead(<<>>, nds, <<>>)
  BY <1>5 DEF Opened, Ended, JumpsLead
<1>9. Graph(<<>>, nds, <<>>, 0)
  BY <1>3, <1>5, <1>6, <1>7, <1>8 DEF Graph
<1>10. Breaks(<<>>, <<>>)
  <2>1. LoopsTo(<<>>, 0) = {}
    BY DEF LoopsTo
  <2>2. Rank(<<>>, 0) = 0
    BY <2>1, FS_EmptySet DEF Rank
  <2> QED
    BY <1>5, <2>2 DEF Breaks
<1>11. Typed
  <2>1. 0 \in 0..MaxCost
    BY CostAssumption
  <2> QED
    BY <1>1, <1>5, <2>1 DEF Typed
<1> QED
  BY <1>1, <1>9, <1>10, <1>11 DEF Inv

LEMMA ParseKeeps ==
    ASSUME Inv, ParseStep, UNCHANGED outcome
    PROVE  Inv'
<1>1. \A u \in {"read", "assign", "modify", "maybe", "none"} : u \in UsesOf
  BY DEF UsesOf
<1>2. CASE \E uses \in {"read", "assign", "modify", "maybe"} : Statement(uses)
  BY <1>1, <1>2, StatementKeeps
<1>3. CASE \E uses \in {"none", "read"} : BeginIf(uses) \/ BeginWhile(uses) \/ BeginSwitch(uses) \/ EndDo(uses)
  BY <1>1, <1>3, BeginIfKeeps, BeginWhileKeeps, BeginSwitchKeeps, EndDoKeeps
<1>4. CASE \E step \in {"none", "modify"} : BeginFor("none", step)
  BY <1>1, <1>4, BeginForKeeps
<1>5. CASE Else \/ EndIf \/ EndWhile \/ BeginDo \/ EndFor \/ EndSwitch
  BY <1>5, ElseKeeps, EndIfKeeps, EndLoopKeeps, BeginDoKeeps, EndSwitchKeeps
<1>6. CASE Case \/ Break \/ Continue
  BY <1>6, CaseKeeps, BreakKeeps, ContinueKeeps
<1>7. CASE Jump("goto", UserLabel) \/ Jump("return", FunctionLabel) \/ LabelStatement
  <2>1. ASSUME NEW kind, NEW label, Jump(kind, label),
               (kind = "goto" /\ label = UserLabel) \/ (kind = "return" /\ label = FunctionLabel)
        PROVE  Inv'
    BY <2>1, JumpKeeps
  <2> QED
    <3>1. CASE Jump("goto", UserLabel)
      BY <2>1, <3>1
    <3>2. CASE Jump("return", FunctionLabel)
      BY <2>1, <3>2
    <3>3. CASE LabelStatement
      BY <3>3, LabelKeeps
    <3> QED
      BY <1>7, <3>1, <3>2, <3>3
<1>8. CASE \E s \in StorageClasses : Declare(s)
  BY <1>8, DeclareKeeps
<1>9. CASE BeginRegion \/ EndRegion
  BY <1>9, BeginRegionKeeps, EndRegionKeeps
<1> QED
  BY <1>2, <1>3, <1>4, <1>5, <1>6, <1>7, <1>8, <1>9 DEF ParseStep

-----------------------------------------------------------------------------
(* The extraction                                                          *)

\* What is known of a function from which a region was extracted: it is complete, and
\* every jump of the graph has the node it goes to on its side.
NoCross(nds) ==
  \A p, q \in 1..Len(nds) :
    nds[p].type = "label" /\ nds[p].usage \in {"used", "fork"} /\ nds[q] = Labelled(nds[p].label)
      => (NodeSide(nds, p) <=> NodeSide(nds, q))
Occurs(src, kind) == \E t \in 1..Len(src) : src[t].kind = kind
Sound ==
  /\ open = <<>> /\ Occurs(source, "begin")
  /\ Occurs(source, "goto") => Occurs(source, "label")
  /\ NoCross(nodes)

Whole == Inv /\ (Made => Sound)

LEMMA TargetIs ==
    ASSUME Inv, NEW p \in 1..Len(nodes), nodes[p] \in NodesOf,
           NEW q \in 1..Len(nodes), nodes[q] = Labelled(nodes[p].label)
    PROVE  Target(p) = q
<1>1. DOMAIN nodes = 1..Len(nodes)
  BY DEF Inv, Graph
<1>2. \A r \in 1..Len(nodes) : nodes[r] = Labelled(nodes[p].label) => r = q
  <2>1. Defines(Labelled(nodes[p].label))
    BY DEF Defines, Labelled, Node
  <2>2. \A r, s \in 1..Len(nodes) : Defines(nodes[s]) /\ nodes[s] = nodes[r] => s = r
    BY DEF Inv, Graph, Labels
  <2> QED
    BY <2>1, <2>2
<1> QED
  BY <1>1, <1>2 DEF Target

LEMMA NotRefused ==
    ASSUME Inv, ~ThereAreJumpsInOrOut
    PROVE  NoCross(nodes)
<1> SUFFICES ASSUME NEW p \in 1..Len(nodes), NEW q \in 1..Len(nodes),
                    nodes[p].type = "label", nodes[p].usage \in {"used", "fork"},
                    nodes[q] = Labelled(nodes[p].label)
             PROVE  NodeSide(nodes, p) <=> NodeSide(nodes, q)
  BY DEF NoCross
<1>1. nodes \in Seq(NodesOf) /\ DOMAIN nodes = 1..Len(nodes)
  BY DEF Inv, Graph
<1>2. Target(p) = q
  BY <1>1, TargetIs
<1>3. \A r \in 1..Len(nodes) : RegionSides[r] = IF NodeSide(nodes, r) THEN "inside" ELSE "outside"
  BY <1>1 DEF RegionSides, NodeSide, MarkersTo
<1>4. RegionSides[p] = RegionSides[q]
  <2> HIDE DEF RegionSides, Target
  <2> QED
    BY <1>1, <1>2 DEF ThereAreJumpsInOrOut, IsJump
<1>5. "inside" # "outside"
  OBVIOUS
<1> QED
  BY <1>3, <1>4, <1>5

LEMMA ClassesAre == Reclassified(Classified) \in Classes
<1>1. Classified \in {"LOCAL_OUT", "NONE", "IN_OUT", "OUT", "VALUE", "LOCAL_VAR"}
  BY DEF Classified
<1> QED
  BY <1>1 DEF Reclassified, Classes

LEMMA ExtractKeeps ==
    ASSUME Inv, Extract
    PROVE  Whole'
<1>1. /\ UNCHANGED <<source, spent, open, nodes, breakLabels, localSym, storage, scope>>
      /\ outcome' = IF ThereAreJumpsInOrOut THEN "refused" ELSE Reclassified(Classified)
      /\ open = <<>> /\ Has("begin") /\ (Has("goto") => Has("label"))
  BY DEF Extract, parser
<1>2. outcome' \in Classes \cup {"none", "refused"}
  BY <1>1, ClassesAre
<1>3. Inv'
  BY <1>1, <1>2 DEF Inv, Typed
<1>4. DOMAIN source = 1..Len(source)
  BY DEF Inv, Graph
<1>5. ASSUME Made' PROVE Sound'
  <2>1. ~ThereAreJumpsInOrOut
    BY <1>1, <1>5 DEF Made
  <2>2. NoCross(nodes)
    BY <2>1, NotRefused
  <2>3. Occurs(source, "begin") /\ (Occurs(source, "goto") => Occurs(source, "label"))
    BY <1>1, <1>4 DEF Has, Occurs
  <2> QED
    BY <1>1, <2>2, <2>3 DEF Sound
<1> QED
  BY <1>3, <1>5 DEF Whole

LEMMA NextWhole == Whole /\ [Next]_vars => Whole'
<1> SUFFICES ASSUME Whole, [Next]_vars PROVE Whole'
  OBVIOUS
<1>1. Inv
  BY DEF Whole
<1>2. CASE UNCHANGED vars
  <2>1. Inv'
    BY <1>1, <1>2 DEF vars, parser, Inv, Typed
  <2>2. Made' => Sound'
    BY <1>2 DEF vars, parser, Whole, Made, Sound
  <2> QED
    BY <2>1, <2>2 DEF Whole
<1>3. CASE Extract
  BY <1>1, <1>3, ExtractKeeps
<1>4. CASE Parsing /\ ParseStep /\ UNCHANGED outcome
  <2>1. Inv'
    BY <1>1, <1>4, ParseKeeps
  <2>2. ~Made'
    BY <1>4 DEF Parsing, Made
  <2> QED
    BY <2>1, <2>2 DEF Whole
<1> QED
  BY <1>2, <1>3, <1>4 DEF Next

-----------------------------------------------------------------------------
(* Where a function goes on                                                *)

\* The region in the text, for a function that is complete
LEMMA InsideIs ==
    ASSUME Inv, open = <<>>, Occurs(source, "begin")
    PROVE  /\ Begin \in 1..Len(source) /\ Finish \in 1..Len(source) /\ Len(source) \in Nat
           /\ \A t \in 1..Len(source) : Inside(t) <=> SideOf(source, t)
           /\ ~Inside(Exit)
<1>1. /\ source \in Seq(Tokens) /\ DOMAIN source = 1..Len(source) /\ Len(source) \in Nat
      /\ Regions(source, nodes, open)
  BY DEF Inv, Graph
<1>2. Begin \in 1..Len(source) /\ source[Begin].kind = "begin"
  BY <1>1 DEF Begin, Where, Occurs
<1>3. ~InRegion(source)
  <2>1. RegionsOf(open) = {}
    BY DEF RegionsOf
  <2> QED
    BY <2>1, <1>1 DEF Regions
<1>4. \E f \in 1..Len(source) : source[f].kind = "finish"
  BY <1>2, <1>3 DEF InRegion
<1>5. Finish \in 1..Len(source) /\ source[Finish].kind = "finish"
  BY <1>1, <1>4 DEF Finish, Where
<1>6. \A t \in 1..Len(source) : /\ source[t].kind = "begin" => t = Begin
                                /\ source[t].kind = "finish" => t = Finish
  BY <1>1, <1>2, <1>5 DEF Regions
<1>7. ASSUME NEW t \in 1..Len(source)
      PROVE  Inside(t) <=> SideOf(source, t)
  <2>1. \A u \in 1..t : u \in 1..Len(source)
    BY <1>1
  <2>2. (\E b \in 1..t : source[b].kind = "begin") <=> Begin <= t
    BY <1>1, <1>2, <1>6, <2>1
  <2>3. (\A f \in 1..t : source[f].kind # "finish") <=> t < Finish
    BY <1>1, <1>5, <1>6, <2>1
  <2> QED
    BY <2>2, <2>3 DEF Inside, SideOf
<1>8. ~Inside(Exit)
  BY <1>1, <1>5 DEF Inside, Exit
<1> QED
  BY <1>1, <1>2, <1>5, <1>7, <1>8

\* To the next token, the side changes at the two ends only.
Stays(i, j) == Inside(i) # Inside(j) => j \in {Begin, Finish}

LEMMA NextStays ==
    ASSUME NEW i \in Int, NEW e \in Int, Begin \in Int, Finish \in Int, Inside(i) <=> Inside(e)
    PROVE  Stays(i, e + 1)
BY DEF Stays, Inside

\* The end, the else and the step of a construct are on its side.
LEMMA PartsAre ==
    ASSUME Inv, open = <<>>, NEW t \in 1..Len(source)
    PROVE  /\ source[t].kind \in Heads =>
                /\ The("end", t) \in 1..Len(source) /\ Ends(source, The("end", t), t)
                /\ SideOf(source, The("end", t)) <=> SideOf(source, t)
           /\ Of("else", t) =>
                /\ The("else", t) \in 1..Len(source)
                /\ SideOf(source, The("else", t)) <=> SideOf(source, t)
           /\ source[t].kind = "for" =>
                /\ The("step", t) \in 1..Len(source)
                /\ SideOf(source, The("step", t)) <=> SideOf(source, t)
<1>1. DOMAIN source = 1..Len(source) /\ Ended(source, open) /\ Len(open) = 0
  BY DEF Inv, Graph
<1>2. \A u \in 1..Len(source) : source[u].kind \in {"end", "else", "step"} => (SideOf(source, u) <=> SideOf(source, source[u].of))
  BY <1>1 DEF Ended, TokenRight
<1>3. ASSUME source[t].kind \in Heads
      PROVE  /\ The("end", t) \in 1..Len(source) /\ Ends(source, The("end", t), t)
             /\ SideOf(source, The("end", t)) <=> SideOf(source, t)
  <2>1. \E e \in 1..Len(source) : Ends(source, e, t)
    BY <1>1, <1>3 DEF Ended
  <2>2. The("end", t) \in 1..Len(source) /\ source[The("end", t)].kind = "end" /\ source[The("end", t)].of = t
    BY <1>1, <2>1 DEF The, Ends
  <2> QED
    BY <1>2, <2>2 DEF Ends
<1>4. ASSUME Of("else", t)
      PROVE  /\ The("else", t) \in 1..Len(source)
             /\ SideOf(source, The("else", t)) <=> SideOf(source, t)
  <2>1. The("else", t) \in 1..Len(source) /\ source[The("else", t)].kind = "else" /\ source[The("else", t)].of = t
    BY <1>1, <1>4 DEF The, Of
  <2> QED
    BY <1>2, <2>1
<1>5. ASSUME source[t].kind = "for"
      PROVE  /\ The("step", t) \in 1..Len(source)
             /\ SideOf(source, The("step", t)) <=> SideOf(source, t)
  <2>1. \E e \in 1..Len(source) : source[e].kind = "step" /\ source[e].of = t
    BY <1>1, <1>5 DEF Ended, TokenRight
  <2>2. The("step", t) \in 1..Len(source) /\ source[The("step", t)].kind = "step" /\ source[The("step", t)].of = t
    BY <1>1, <2>1 DEF The
  <2> QED
    BY <1>2, <2>2
<1> QED
  BY <1>3, <1>4, <1>5

\* A jump and what it goes to are on one side.
LEMMA GoesStay ==
    ASSUME Inv, NoCross(nodes), NEW t, NEW l \in Int, GoesTo(source, nodes, t, l),
           NEW q \in 1..Len(nodes), nodes[q] = Labelled(l)
    PROVE  SideOf(source, t) <=> NodeSide(nodes, q)
<1>1. PICK p \in 1..Len(nodes) : nodes[p] = Goto(l) /\ (NodeSide(nodes, p) <=> SideOf(source, t))
  BY DEF GoesTo
<1>2. nodes[p].type = "label" /\ nodes[p].usage = "used" /\ nodes[p].label = l
  BY <1>1 DEF Goto, Node
<1>3. NodeSide(nodes, p) <=> NodeSide(nodes, q)
  BY <1>2 DEF NoCross
<1> QED
  BY <1>1, <1>3

LEMMA LeavesStay ==
    ASSUME Inv, open = <<>>, NoCross(nodes), NEW t, Leaves(source, nodes, open, t)
    PROVE  SideOf(source, t) <=> SideOf(source, source[t].of)
<1>1. Len(open) = 0 /\ nodes \in Seq(NodesOf)
  BY DEF Inv, Graph
<1>2. PICK q \in 1..Len(nodes) : /\ Defines(nodes[q]) /\ GoesTo(source, nodes, t, nodes[q].label)
                                 /\ NodeSide(nodes, q) <=> SideOf(source, source[t].of)
  BY <1>1 DEF Leaves
<1>3. nodes[q] = Labelled(nodes[q].label) /\ nodes[q].label \in Int
  <2>1. nodes[q] \in NodesOf
    BY <1>1
  <2> QED
    BY <2>1, <1>2 DEF NodesOf, Defines, Labelled, Node
<1>4. SideOf(source, t) <=> NodeSide(nodes, q)
  BY <1>2, <1>3, GoesStay
<1> QED
  BY <1>2, <1>4

\* The sides of what the jumps go to, in a text whose jumps the graph has
LEMMA JumpsAreRight ==
    ASSUME Inv, Sound, JumpsAreKnown, NEW t \in 1..Len(source)
    PROVE  /\ source[t].kind \in {"break", "continue"} =>
                /\ source[t].of \in 1..Len(source) /\ source[source[t].of].kind \in Loops
                /\ SideOf(source, t) <=> SideOf(source, source[t].of)
           /\ source[t].kind = "goto" =>
                /\ Where("label") \in 1..Len(source)
                /\ SideOf(source, t) <=> SideOf(source, Where("label"))
           /\ source[t].kind = "return" => ~SideOf(source, t)
<1>1. /\ DOMAIN source = 1..Len(source) /\ Ended(source, open) /\ JumpsLead(source, nodes, open)
      /\ nodes \in Seq(NodesOf) /\ Labels(source, nodes, open, localSym)
  BY DEF Inv, Graph
<1>2. open = <<>> /\ NoCross(nodes)
  BY DEF Sound
<1>3. JumpRight(source, nodes, open, t)
  BY <1>1 DEF JumpsLead
<1>4. ASSUME source[t].kind \in {"break", "continue"}
      PROVE  /\ source[t].of \in 1..Len(source) /\ source[source[t].of].kind \in Loops
             /\ SideOf(source, t) <=> SideOf(source, source[t].of)
  <2>1. source[t].of \in 1..Len(source) /\ source[source[t].of].kind \in Loops
    BY <1>1, <1>4 DEF Ended, TokenRight
  <2>2. ASSUME source[t].kind = "continue", InSwitch(source, t)
        PROVE  FALSE
    <3>1. PICK s \in 1..Len(source) : /\ source[s].kind = "switch" /\ s \in source[t].of .. t
                                      /\ \A e \in 1..Len(source) : Ends(source, e, s) => t < e
      BY <2>2 DEF InSwitch
    <3>2. The("end", s) \in 1..Len(source) /\ Ends(source, The("end", s), s)
      BY <1>2, <3>1, PartsAre DEF Heads, Loops
    <3>3. t < The("end", s)
      BY <3>1, <3>2
    <3> QED
      BY <2>2, <3>1, <3>3, <1>1 DEF JumpsAreKnown
  <2>3. Leaves(source, nodes, open, t)
    BY <1>3, <1>4, <2>2 DEF JumpRight
  <2>4. SideOf(source, t) <=> SideOf(source, source[t].of)
    BY <1>2, <2>3, LeavesStay
  <2> QED
    BY <2>1, <2>4
<1>5. ASSUME source[t].kind = "goto"
      PROVE  /\ Where("label") \in 1..Len(source)
             /\ SideOf(source, t) <=> SideOf(source, Where("label"))
  <2>1. \E u \in 1..Len(source) : source[u].kind = "label"
    BY <1>5 DEF Sound, Occurs
  <2>2. Where("label") \in 1..Len(source) /\ source[Where("label")].kind = "label"
    BY <1>1, <2>1 DEF Where
  <2>3. GoesTo(source, nodes, t, UserLabel) /\ Comes(source, nodes, Where("label"), UserLabel)
    BY <1>1, <1>5, <2>2 DEF JumpsLead, JumpRight
  <2>4. PICK q \in 1..Len(nodes) : /\ nodes[q] = Labelled(UserLabel)
                                   /\ NodeSide(nodes, q) <=> SideOf(source, Where("label"))
    BY <2>3 DEF Comes
  <2>5. UserLabel \in Int
    BY DEF UserLabel
  <2>6. SideOf(source, t) <=> NodeSide(nodes, q)
    BY <1>2, <2>3, <2>4, <2>5, GoesStay
  <2> QED
    BY <2>2, <2>4, <2>6
<1>6. ASSUME source[t].kind = "return"
      PROVE  ~SideOf(source, t)
  <2>1. GoesTo(source, nodes, t, FunctionLabel)
    BY <1>3, <1>6 DEF JumpRight
  <2>2. 1 \in 1..Len(nodes) /\ nodes[1] = Labelled(FunctionLabel)
    BY <1>1 DEF Labels
  <2>3. ~NodeSide(nodes, 1)
    <3>1. Labelled(FunctionLabel) # Marker
      BY DEF Labelled, Marker, Node
    <3>2. MarkersTo(nodes, 1) = {}
      BY <2>2, <3>1 DEF MarkersTo
    <3> QED
      BY <3>2, FS_EmptySet DEF NodeSide
  <2>4. FunctionLabel \in Int
    BY DEF FunctionLabel
  <2> QED
    BY <1>2, <2>1, <2>2, <2>3, <2>4, GoesStay
<1> QED
  BY <1>4, <1>5, <1>6

\* The whole of Succ
LEMMA SuccStays ==
    ASSUME Inv, Sound, JumpsAreKnown, NEW i \in 1..Len(source), NEW j \in Succ(i)
    PROVE  Stays(i, j)
<1> DEFINE k == source[i].kind
           o == source[i].of
<1>1. /\ source \in Seq(Tokens) /\ DOMAIN source = 1..Len(source) /\ Len(source) \in Nat /\ Ended(source, open)
      /\ i \in Int /\ i # Exit
  BY DEF Inv, Graph, Exit
<1>2. open = <<>> /\ Occurs(source, "begin")
  BY DEF Sound
<1>3. /\ Begin \in Int /\ Finish \in Int /\ ~Inside(Exit)
      /\ \A t \in 1..Len(source) : t \in Int /\ (Inside(t) <=> SideOf(source, t))
  BY <1>2, InsideIs
<1>4. \A t \in 1..Len(source) : (SideOf(source, t) <=> SideOf(source, i)) => Stays(i, t) /\ Stays(i, t + 1)
  <2> SUFFICES ASSUME NEW t \in 1..Len(source), SideOf(source, t) <=> SideOf(source, i)
               PROVE  Stays(i, t) /\ Stays(i, t + 1)
    OBVIOUS
  <2>1. Inside(t) <=> Inside(i)
    BY <1>3
  <2>2. Stays(i, t)
    BY <2>1 DEF Stays, Inside
  <2> QED
    BY <1>3, <2>1, <2>2, NextStays
<1>5. Stays(i, i + 1)
  BY <1>4
<1>6. TokenRight(source, i)
  BY <1>1 DEF Ended
<1>7. \A t \in 1..Len(source) : source[t].kind \in Heads =>
        The("end", t) \in 1..Len(source) /\ (SideOf(source, The("end", t)) <=> SideOf(source, t))
  BY <1>2, PartsAre
<1>8. \A t \in 1..Len(source) : source[t].kind = "for" =>
        The("step", t) \in 1..Len(source) /\ (SideOf(source, The("step", t)) <=> SideOf(source, t))
  BY <1>2, PartsAre
<1>9. \A t \in 1..Len(source) : Of("else", t) =>
        The("else", t) \in 1..Len(source) /\ (SideOf(source, The("else", t)) <=> SideOf(source, t))
  BY <1>2, PartsAre
<1>10. Heads = {"if", "while", "do", "for", "switch"} /\ Loops = {"while", "do", "for", "switch"}
  BY DEF Heads, Loops
<1>11. CASE k = "if"
  <2>1. j \in {i + 1, IF Of("else", i) THEN The("else", i) + 1 ELSE The("end", i)}
    BY <1>1, <1>11 DEF Succ
  <2> QED
    BY <2>1, <1>4, <1>5, <1>7, <1>9, <1>10, <1>11
<1>12. CASE k = "else"
  <2>1. j = The("end", o)
    BY <1>1, <1>12 DEF Succ
  <2>2. o \in 1..Len(source) /\ source[o].kind = "if" /\ (SideOf(source, o) <=> SideOf(source, i))
    BY <1>6, <1>12 DEF TokenRight
  <2> QED
    BY <2>1, <2>2, <1>4, <1>7, <1>10
<1>13. CASE k = "while"
  <2>1. j \in {i + 1, The("end", i) + 1}
    BY <1>1, <1>13 DEF Succ
  <2> QED
    BY <2>1, <1>4, <1>5, <1>7, <1>10, <1>13
<1>14. CASE k = "for"
  <2>1. j \in {The("step", i) + 1, The("end", i) + 1}
    BY <1>1, <1>14 DEF Succ
  <2> QED
    BY <2>1, <1>4, <1>7, <1>8, <1>10, <1>14
<1>15. CASE k = "step"
  <2>1. j = o
    BY <1>1, <1>15 DEF Succ
  <2>2. o \in 1..Len(source) /\ (SideOf(source, o) <=> SideOf(source, i))
    BY <1>6, <1>15 DEF TokenRight
  <2> QED
    BY <2>1, <2>2, <1>4
<1>16. CASE k = "switch"
  <2>1. j \in {t \in DOMAIN source : source[t].kind = "case" /\ source[t].of = i} \cup {The("end", i) + 1}
    BY <1>1, <1>16 DEF Succ
  <2>2. \A t \in DOMAIN source : source[t].kind # "case"
    BY DEF JumpsAreKnown, Has
  <2>3. j = The("end", i) + 1
    BY <2>1, <2>2
  <2> QED
    BY <2>3, <1>4, <1>7, <1>10, <1>16
<1>17. CASE k = "end"
  <2>1. o \in 1..Len(source) /\ (SideOf(source, o) <=> SideOf(source, i))
    BY <1>6, <1>17 DEF TokenRight
  <2>2. CASE source[o].kind = "for"
    <3>1. j = The("step", o)
      BY <1>1, <1>17, <2>2 DEF Succ
    <3> QED
      BY <3>1, <2>1, <2>2, <1>4, <1>8
  <2>3. CASE source[o].kind # "for"
    <3>1. j \in {o, i + 1}
      BY <1>1, <1>17, <2>3 DEF Succ
    <3> QED
      BY <3>1, <2>1, <1>4, <1>5
  <2> QED
    BY <2>2, <2>3
<1>18. CASE k \in {"break", "continue"}
  <2>1. o \in 1..Len(source) /\ source[o].kind \in Loops /\ (SideOf(source, o) <=> SideOf(source, i))
    BY <1>18, JumpsAreRight
  <2>2. j \in {The("end", o) + 1, o, The("step", o), The("end", o)} /\ (j = The("step", o) => source[o].kind = "for" \/ j \in {o, The("end", o), The("end", o) + 1})
    BY <1>1, <1>18 DEF Succ
  <2> QED
    BY <2>1, <2>2, <1>4, <1>7, <1>8, <1>10
<1>19. CASE k = "goto"
  <2>1. j = Where("label")
    BY <1>1, <1>19 DEF Succ
  <2>2. Where("label") \in 1..Len(source) /\ (SideOf(source, i) <=> SideOf(source, Where("label")))
    BY <1>19, JumpsAreRight
  <2> QED
    BY <2>1, <2>2, <1>4
<1>20. CASE k = "return"
  <2>1. j = Exit
    BY <1>1, <1>20 DEF Succ
  <2>2. ~Inside(i)
    BY <1>3, <1>20, JumpsAreRight
  <2> QED
    BY <2>1, <2>2, <1>3 DEF Stays, Inside
<1>21. CASE k \notin {"if", "else", "while", "for", "step", "switch", "end", "break", "continue", "goto", "return"}
  <2>1. j = i + 1
    BY <1>1, <1>21 DEF Succ
  <2> QED
    BY <2>1, <1>5
<1> QED
  BY <1>11, <1>12, <1>13, <1>14, <1>15, <1>16, <1>17, <1>18, <1>19, <1>20, <1>21

LEMMA WholeStays == Whole => JumpsStay
<1> SUFFICES ASSUME Whole, Made, JumpsAreKnown,
                    NEW i \in DOMAIN source, NEW j \in Succ(i)
             PROVE  Inside(i) # Inside(j) => j \in {Begin, Finish}
  BY DEF JumpsStay
<1>1. Inv /\ Sound
  BY DEF Whole
<1>2. i \in 1..Len(source)
  BY <1>1 DEF Inv, Graph
<1> QED
  BY <1>1, <1>2, SuccStays DEF Stays

LEMMA WholeTyped == Whole => TypeOK
<1> SUFFICES ASSUME Whole PROVE TypeOK
  OBVIOUS
<1>1. Typed /\ nodes \in Seq(NodesOf) /\ open \in Seq(Constructs) /\ Breaks(open, breakLabels)
  BY DEF Whole, Inv, Graph
<1>2. \A p \in DOMAIN nodes : nodes[p].type \in {"label", "variable", "marker"}
  <2>1. \A p \in DOMAIN nodes : nodes[p] \in NodesOf
    BY <1>1
  <2> QED
    BY <2>1 DEF NodesOf
<1>3. {i \in DOMAIN open : open[i].kind \in {"while", "do", "for", "switch"}} = LoopsTo(open, Len(open))
  BY <1>1 DEF LoopsTo, Loops
<1>4. Len(breakLabels) = 2 * Cardinality({i \in DOMAIN open : open[i].kind \in {"while", "do", "for", "switch"}})
  BY <1>1, <1>3 DEF Breaks, Rank
<1> QED
  BY <1>1, <1>2, <1>4 DEF TypeOK, Typed

LEMMA AlwaysWhole == Spec => []Whole
<1>1. Init => Whole
  BY InitInv DEF Whole, Init, Made
<1> QED
  BY <1>1, NextWhole, PTL DEF Spec

\* What the parser keeps has its type, and it has two labels for each loop and switch
\* that it is in: deleteContinueBreakSymbol() takes them away at its end,
\* whatever comes between.
THEOREM ExtractTyped == Spec => []TypeOK
BY AlwaysWhole, WholeTyped, PTL

\* If areThereJumpsInOrOutOfBlock() lets a region be extracted, nothing in the function
\* jumps into it or out of it: the labels of the graph tell the sides of the text. It
\* has no case label and no continue in a switch, whose jumps the graph lacks.
THEOREM ExtractedIsEntered == Spec => []JumpsStay
BY AlwaysWhole, WholeStays, PTL
=============================================================================
