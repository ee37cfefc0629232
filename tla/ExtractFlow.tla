----------------------------- MODULE ExtractFlow -----------------------------
(***************************************************************************)
(* Extract Function: the parser strings the references of a function into  *)
(* a program graph (c_parser.y, counters.c), and extract.c follows the     *)
(* value of a variable through it to tell how the new function gets the    *)
(* variable and gives it back.                                             *)
(*                                                                         *)
(* source is the C text that is parsed, a sequence of statements and heads *)
(* of statements.  What it means (Succ and what follows from it) is C's,   *)
(* not the program's: it is what the classification has to agree with.     *)
(*                                                                         *)
(* UseNodesInPlace, CrossedOnce and the like are mistaken forms of the     *)
(* definitions after them.                                                 *)
(***************************************************************************)
EXTENDS Integers, Sequences, FiniteSets, SequencesExt

CONSTANTS
  Cost,          \* of each kind of token, use and storage class of the text
  MaxCost        \* bound on the cost of the text

(* A construct may begin only if the text can still be paid for, and what  *)
(* ends it is paid with it.                                                 *)
Kinds == {"statement", "if", "else", "switch", "case", "while", "do", "for", "step", "end",
          "break", "continue", "goto", "return", "label", "auto", "static", "param",
          "begin", "finish"}
Free  == {"none", "statement", "step", "end", "begin", "finish"}

ASSUME CostAssumption ==
  /\ MaxCost \in Nat
  /\ \A k \in Kinds \cup {"none", "read", "assign", "modify", "maybe"} : Cost[k] \in Nat
  /\ \A k \in Free : Cost[k] = 0

VARIABLES
  source,        \* the text parsed so far
  spent,         \* what it costs
  open,          \* what is begun and not ended in it, innermost last
  nodes,         \* the references of the function, in the order of cxMemory
  breakLabels,   \* the symbols " %cntl%" of the table, newest last
  localSym,      \* counters.localSym
  storage,       \* of the variable, "none" before its declaration
  scope,         \* how many constructs are open around the declaration
  outcome        \* of makeExtraction(), "none" before

parser == <<open, nodes, breakLabels, localSym>>
vars   == <<source, spent, parser, storage, scope, outcome>>

Gone == 100     \* the scope of a variable whose block is ended

(***************************************************************************)
(* The text and what it means                                              *)
(***************************************************************************)
Token(kind, of, uses) == [kind |-> kind, of |-> of, uses |-> uses]

Of(kind, i) == \E t \in DOMAIN source : source[t].kind = kind /\ source[t].of = i
The(kind, i) == CHOOSE t \in DOMAIN source : source[t].kind = kind /\ source[t].of = i

Has(kind) == \E t \in DOMAIN source : source[t].kind = kind
Where(kind) == CHOOSE t \in DOMAIN source : source[t].kind = kind

Exit == Len(source) + 1

(* What may be executed after the token at i *)
Succ(i) ==
  IF i = Exit
  THEN IF storage = "static" THEN {1} ELSE {}       \* it is called again
  ELSE LET k == source[i].kind
           o == source[i].of
           end == The("end", i)
       IN CASE k = "if"       -> {i + 1, IF Of("else", i) THEN The("else", i) + 1 ELSE end}
            [] k = "else"     -> {The("end", o)}
            [] k = "while"    -> {i + 1, end + 1}
            [] k = "for"      -> {The("step", i) + 1, end + 1}
            [] k = "step"     -> {o}
            [] k = "switch"   -> {t \in DOMAIN source : source[t].kind = "case" /\ source[t].of = i}
                                   \cup {end + 1}
            [] k = "end"      -> CASE source[o].kind = "while" -> {o}
                                   [] source[o].kind = "for"   -> {The("step", o)}
                                   [] source[o].kind = "do"    -> {o, i + 1}
                                   [] OTHER                    -> {i + 1}
            [] k = "break"    -> {The("end", o) + 1}
            [] k = "continue" -> CASE source[o].kind = "while" -> {o}
                                   [] source[o].kind = "for"   -> {The("step", o)}
                                   [] OTHER                    -> {The("end", o)}
            [] k = "goto"     -> {Where("label")}
            [] k = "return"   -> {Exit}
            [] OTHER          -> {i + 1}

Begin  == Where("begin")
Finish == Where("finish")
Inside(i) == Begin <= i /\ i < Finish

Uses(i) == IF i = Exit THEN "none" ELSE source[i].uses
StorageClasses == {"auto", "static", "param"}
\* What a variable has after its declaration counts as a value
Declared(i) == i # Exit /\ source[i].kind \in StorageClasses

Reads(i) == Uses(i) \in {"read", "modify"}
Kills(i) == \/ Uses(i) \in {"assign", "modify"}
            \/ Declared(i) /\ storage # "static"
Sets(i)  == Uses(i) \in {"assign", "modify", "maybe"} \/ Declared(i)

Onwards(S, stops, next) ==
  LET from[T \in SUBSET DOMAIN next] ==
        LET more == T \cup UNION {next[i] : i \in T \ stops}
        IN  IF more = T THEN T ELSE from[more]
  IN  from[S]

(* What the new function has to do with the variable's value:                *)
(*  in      a value set before the region, or by an earlier pass of it, is   *)
(*          read in it                                                       *)
(*  out     a value set in the region is read after it, or by a later pass   *)
(*  by      a value passes the region unchanged and is read later            *)
Needs ==
  LET next     == [i \in 1..Exit |-> Succ(i)]
      kills    == {i \in 1..Exit : Kills(i)}
      reached  == Onwards({1}, {}, next)
      After(i) == Onwards(next[i], kills, next)
      entered  == After(Begin)
      left     == After(Finish)
      arrives  == \E d \in reached : Sets(d) /\ Begin \in After(d)
      readLater == \E r \in left : Reads(r)
  IN [reached |-> Begin \in reached,
      in  |-> arrives /\ \E r \in entered : Inside(r) /\ Reads(r),
      out |-> readLater /\ \E d \in reached : Inside(d) /\ Sets(d) /\ Finish \in After(d),
      by  |-> arrives /\ readLater /\ Finish \in entered]

DeclaredInside == Inside(Where(storage))

(***************************************************************************)
(* The references the parser leaves                                        *)
(***************************************************************************)
Node(type, label, usage) == [type |-> type, label |-> label, usage |-> usage]

Labelled(n) == Node("label", n, "defined")
Goto(n)     == Node("label", n, "used")
Fork(n)     == Node("label", n, "fork")
Marker      == Node("marker", 0, "used")
Variable(usage) == Node("variable", 0, usage)

FunctionLabel == -1
UserLabel     == -2

UseNodesInPlace(uses) ==
  CASE uses = "read"                        -> <<Variable("used")>>
    [] uses \in {"assign", "maybe", "modify"} -> <<Variable("addr")>>
    [] OTHER                                -> <<>>

UseNodes(uses) ==
  CASE uses = "read"              -> <<Variable("used")>>
    [] uses \in {"assign", "maybe"} -> <<Variable("lval")>>
    [] uses = "modify"            -> <<Variable("addr")>>
    [] OTHER                      -> <<>>

(* The text is bounded by what it costs *)
Affords(cost) == spent + cost <= MaxCost

(* What follows a jump is not executed, and not written *)
Live == IF source = <<>> THEN TRUE ELSE Last(source).kind \notin {"break", "continue", "goto", "return"}

MayUse(uses) ==
  \/ uses = "none"
  \/ storage # "none" /\ Len(open) >= scope /\ Affords(Cost[uses])

MayBegin(kind, uses) == Live /\ MayUse(uses) /\ Affords(Cost[kind] + Cost[uses])
MayJump(kind) == Live /\ Affords(Cost[kind])

(* Nothing is written that has nothing in it *)
Filled == Last(source).kind \notin {"if", "else", "switch", "while", "do", "step", "begin"}

Parsing == outcome = "none"

Top == Last(open)
Construct(kind, labels) == [kind |-> kind, at |-> Len(source) + 1, labels |-> labels]

InnermostOf(kinds) ==
  LET found == {i \in DOMAIN open : open[i].kind \in kinds}
  IN  IF found = {} THEN 0
      ELSE open[CHOOSE i \in found : \A j \in found : j <= i].at

Write(token) ==
  /\ source' = Append(source, token)
  /\ spent' = spent + Cost[token.kind] + Cost[token.uses]
Leave(new)   == nodes' = nodes \o new

(* beginning and ending a construct; a block that ends takes its variable along *)
Open(construct) == open' = Append(open, construct)
Close ==
  /\ open' = Front(open)
  /\ scope' = IF storage # "none" /\ Len(open) - 1 < scope THEN Gone ELSE scope

(* c && (a = ...) is the use "maybe": there is no fork for && *)
Statement(uses) ==
  /\ Live /\ MayUse(uses)
  /\ Write(Token("statement", 0, uses))
  /\ Leave(UseNodes(uses))
  /\ UNCHANGED <<open, breakLabels, localSym, storage, scope>>

BeginIf(uses) ==
  /\ MayBegin("if", uses)
  /\ Write(Token("if", 0, uses))
  /\ Leave(UseNodes(uses) \o <<Fork(localSym)>>)
  /\ Open(Construct("if", <<localSym>>))
  /\ localSym' = localSym + 1
  /\ UNCHANGED <<breakLabels, storage, scope>>

Else ==
  /\ open # <<>> /\ Top.kind = "if" /\ Filled
  /\ Affords(Cost["else"])
  /\ Write(Token("else", Top.at, "none"))
  /\ Leave(<<Goto(localSym), Labelled(Top.labels[1])>>)
  /\ open' = Append(Front(open), [Top EXCEPT !.kind = "else", !.labels = <<localSym>>])
  /\ localSym' = localSym + 1
  /\ scope' = IF storage # "none" /\ Len(open) <= scope THEN Gone ELSE scope
  /\ UNCHANGED <<breakLabels, storage>>

EndIf ==
  /\ open # <<>> /\ Top.kind \in {"if", "else"} /\ Filled
  /\ Write(Token("end", Top.at, "none"))
  /\ Leave(<<Labelled(Top.labels[1])>>)
  /\ Close
  /\ UNCHANGED <<breakLabels, localSym, storage>>

BeginSwitch(uses) ==
  /\ MayBegin("switch", uses)
  /\ Write(Token("switch", 0, uses))
  /\ Leave(UseNodes(uses) \o <<Fork(localSym)>>)
  /\ Open(Construct("switch", <<localSym>>))
  /\ breakLabels' = breakLabels \o <<1000 * localSym, localSym>>
  /\ localSym' = localSym + 1
  /\ UNCHANGED <<storage, scope>>

(* generateSwitchCaseFork() looks for a symbol " %swtl%", which is never added *)
Case ==
  /\ InnermostOf({"switch"}) # 0
  /\ Affords(Cost["case"])
  /\ Write(Token("case", InnermostOf({"switch"}), "none"))
  /\ UNCHANGED <<parser, storage, scope>>

TakeBreakLabel == breakLabels' = SubSeq(breakLabels, 1, Len(breakLabels) - 1)

TakeBreakLabels == breakLabels' = SubSeq(breakLabels, 1, Len(breakLabels) - 2)

EndSwitch ==
  /\ open # <<>> /\ Top.kind = "switch" /\ Filled
  /\ Write(Token("end", Top.at, "none"))
  /\ Leave(<<Labelled(Top.labels[1])>>)
  /\ TakeBreakLabels
  /\ Close
  /\ UNCHANGED <<localSym, storage>>

BeginWhile(uses) ==
  /\ MayBegin("while", uses)
  /\ Write(Token("while", 0, uses))
  /\ Leave(<<Labelled(localSym)>> \o UseNodes(uses) \o <<Fork(localSym + 1)>>)
  /\ Open(Construct("while", <<localSym, localSym + 1>>))
  /\ breakLabels' = breakLabels \o <<localSym, localSym + 1>>
  /\ localSym' = localSym + 2
  /\ UNCHANGED <<storage, scope>>

EndWhile ==
  /\ open # <<>> /\ Top.kind = "while" /\ Filled
  /\ Write(Token("end", Top.at, "none"))
  /\ Leave(<<Goto(Top.labels[1]), Labelled(Top.labels[2])>>)
  /\ TakeBreakLabels
  /\ Close
  /\ UNCHANGED <<localSym, storage>>

BeginDo ==
  /\ MayBegin("do", "none")
  /\ Write(Token("do", 0, "none"))
  /\ Leave(<<Labelled(localSym)>>)
  /\ Open(Construct("do", <<localSym, localSym + 1, localSym + 2>>))
  /\ breakLabels' = breakLabels \o <<localSym + 1, localSym + 2>>
  /\ localSym' = localSym + 3
  /\ UNCHANGED <<storage, scope>>

(* The condition is read with the body's scope ended *)
EndDo(uses) ==
  /\ open # <<>> /\ Top.kind = "do" /\ Filled
  /\ MayUse(uses) /\ (uses = "none" \/ Len(open) > scope)
  /\ Write(Token("end", Top.at, uses))
  /\ Leave(<<Labelled(Top.labels[2])>> \o UseNodes(uses)
             \o <<Fork(Top.labels[1]), Labelled(Top.labels[3])>>)
  /\ TakeBreakLabels
  /\ Close
  /\ UNCHANGED <<localSym, storage>>

(* for (...; uses; step): the fork out of it comes after the step *)
BeginFor(uses, step) ==
  /\ MayBegin("for", uses) /\ MayUse(step) /\ Affords(Cost["for"] + Cost[uses] + Cost[step])
  /\ source' = source \o <<Token("for", 0, uses), Token("step", Len(source) + 1, step)>>
  /\ spent' = spent + Cost["for"] + Cost[uses] + Cost[step]
  /\ Leave(<<Labelled(localSym)>> \o UseNodes(uses)
             \o <<Goto(localSym + 1), Labelled(localSym + 2)>> \o UseNodes(step)
             \o <<Fork(localSym + 3), Goto(localSym), Labelled(localSym + 1)>>)
  /\ Open(Construct("for", <<localSym + 2, localSym + 3>>))
  /\ breakLabels' = breakLabels \o <<localSym + 2, localSym + 3>>
  /\ localSym' = localSym + 4
  /\ UNCHANGED <<storage, scope>>

EndFor ==
  /\ open # <<>> /\ Top.kind = "for" /\ Filled
  /\ Write(Token("end", Top.at, "none"))
  /\ Leave(<<Goto(Top.labels[1]), Labelled(Top.labels[2])>>)
  /\ TakeBreakLabels
  /\ Close
  /\ UNCHANGED <<localSym, storage>>

(* One symbol name serves continue and break: both go where the newest leads *)
Break ==
  /\ InnermostOf({"while", "do", "for", "switch"}) # 0
  /\ MayJump("break")
  /\ Write(Token("break", InnermostOf({"while", "do", "for", "switch"}), "none"))
  /\ Leave(<<Goto(Last(breakLabels))>>)
  /\ UNCHANGED <<open, breakLabels, localSym, storage, scope>>

Continue ==
  /\ InnermostOf({"while", "do", "for"}) # 0
  /\ MayJump("continue")
  /\ Write(Token("continue", InnermostOf({"while", "do", "for"}), "none"))
  /\ Leave(<<Goto(Last(breakLabels))>>)
  /\ UNCHANGED <<open, breakLabels, localSym, storage, scope>>

Jump(kind, label) ==
  /\ MayJump(kind)
  /\ Write(Token(kind, 0, "none"))
  /\ Leave(<<Goto(label)>>)
  /\ UNCHANGED <<open, breakLabels, localSym, storage, scope>>

LabelStatement ==
  /\ MayJump("label") /\ ~Has("label")
  /\ Write(Token("label", 0, "none"))
  /\ Leave(<<Labelled(UserLabel)>>)
  /\ UNCHANGED <<open, breakLabels, localSym, storage, scope>>

Declare(s) ==
  /\ storage = "none" /\ Affords(Cost[s])
  /\ \/ source = <<>>
     \/ s = "auto" /\ source # <<>> /\ Last(source).kind = "begin"
  /\ Write(Token(s, 0, "none"))
  /\ Leave(<<Variable("defined")>> \o IF s = "param" THEN <<Variable("lval")>> ELSE <<>>)
  /\ storage' = s
  \* the region's braces are not in the text: its declarations outlive it
  /\ scope' = IF source = <<>> THEN 0 ELSE Len(open) - 1
  /\ UNCHANGED <<open, breakLabels, localSym>>

BeginRegion ==
  /\ Live /\ ~Has("begin")
  /\ Write(Token("begin", 0, "none"))
  /\ Leave(<<Marker>>)
  /\ Open(Construct("region", <<>>))
  /\ UNCHANGED <<breakLabels, localSym, storage, scope>>

EndRegion ==
  /\ open # <<>> /\ Top.kind = "region" /\ Filled
  /\ Write(Token("finish", Top.at, "none"))
  /\ Leave(<<Marker>>)
  /\ Close
  /\ UNCHANGED <<breakLabels, localSym, storage>>

(***************************************************************************)
(* extract.c                                                               *)
(***************************************************************************)

(* The node a jump is resolved to *)
Target(p) == CHOOSE q \in DOMAIN nodes : nodes[q] = Labelled(nodes[p].label)

IsJump(p) == nodes[p].type = "label" /\ nodes[p].usage \in {"used", "fork"}

(* On which side of the markers a node is; they belong to what comes after them *)
RegionSides ==
  [p \in DOMAIN nodes |->
     IF Cardinality({q \in 1..p : nodes[q] = Marker}) = 1 THEN "inside" ELSE "outside"]

ThereAreJumpsOut ==
  LET sides == RegionSides
  IN  \E p \in DOMAIN nodes : IsJump(p) /\ sides[p] = "inside" /\ sides[Target(p)] = "outside"

(* areThereJumpsInOrOutOfBlock() *)
ThereAreJumpsInOrOut ==
  LET sides == RegionSides
  IN  \E p \in DOMAIN nodes : IsJump(p) /\ sides[p] # sides[Target(p)]

CrossedOnce(state) ==
  state \cup (IF "inside" \in state THEN {"reenter"} ELSE {})

(* What leaving the region does to a state *)
Crossed(state) ==
  state \cup (IF "inside" \in state THEN {"reenter"} ELSE {})
        \cup (IF "outside" \in state THEN {"passing"} ELSE {})

States == SUBSET {"analyzed", "inside", "outside", "reenter", "passing"}
Marks  == [DOMAIN nodes -> [visited : BOOLEAN, state : States]]

(* analyzeVariableDataFlow(): marks[p] is the state of the node p, flow[v]  *)
(* the marks after the call v                                               *)
Analyzed(sides) ==
  LET Visit(p, incoming, marks) == [node |-> p, incoming |-> incoming, marks |-> marks]
      flow[v \in [node : Nat, incoming : States, marks : Marks]] ==
        LET p     == v.node
            marks == v.marks
        IN  IF p \notin DOMAIN nodes \/ marks[p] = [visited |-> TRUE, state |-> v.incoming]
            THEN marks
            ELSE LET n        == nodes[p]
                     side     == sides[p]
                     state    == v.incoming \cup marks[p].state
                     assigned == n.type = "variable" /\ n.usage \in {"lval", "defined"}
                     onwards  == CASE n.type = "variable" /\ (assigned \/ n.usage = "addr") -> {side}
                                   [] n = Marker /\ side = "outside" -> Crossed(state)
                                   [] OTHER -> state
                     marked   == [marks EXCEPT ![p] =
                                    [visited |-> TRUE, state |-> IF assigned THEN {side} ELSE state]]
                 IN CASE IsJump(p) /\ n.usage = "used" -> flow[Visit(Target(p), onwards, marked)]
                      [] IsJump(p) /\ n.usage = "fork" ->
                           flow[Visit(p + 1, onwards, flow[Visit(Target(p), onwards, marked)])]
                      [] OTHER -> flow[Visit(p + 1, onwards, marked)]
  IN  flow[Visit(1, {"analyzed"}, [p \in DOMAIN nodes |-> [visited |-> FALSE, state |-> {}]])]

(* The nodes of the variable on a side that use it so *)
On(side, usages, sides) ==
  {p \in DOMAIN nodes : nodes[p].type = "variable" /\ nodes[p].usage \in usages /\ sides[p] = side}

AnyUse == {"defined", "used", "lval", "addr"}

(* isStaticWrittenInBlockAndNeededElsewhere() *)
StaticIsNeeded(in, sides) ==
  /\ storage = "static"
  /\ On("inside", {"lval", "addr"}, sides) # {}
  /\ "outside" \in in \/ On("outside", {"used", "addr"}, sides) # {}

(* classifyVariableUsingDataFlow() *)
Classified ==
  LET sides == RegionSides
      marks == Analyzed(sides)
      in    == UNION {marks[p].state : p \in On("inside", AnyUse, sides)}
      out   == UNION {marks[p].state : p \in On("outside", AnyUse, sides)}
      onlyOut == in \cap {"reenter", "outside"} = {} /\ "passing" \notin out
  IN IF On("inside", {"defined"}, sides) # {}
     THEN IF out \cap {"inside", "outside"} # {} THEN "LOCAL_OUT" ELSE "NONE"
     ELSE IF StaticIsNeeded(in, sides) THEN "IN_OUT"
     ELSE IF "inside" \in out THEN IF onlyOut THEN "OUT" ELSE "IN_OUT"
     ELSE IF "reenter" \in in THEN "IN_OUT"
     ELSE IF "outside" \in in THEN "VALUE"
     ELSE IF in # {} THEN "LOCAL_VAR" ELSE "NONE"

(* reclassifyInOutVariables(): the only one that is given back is returned *)
Reclassified(class) ==
  CASE class = "LOCAL_OUT" -> "LOCAL_RESULT"
    [] class = "OUT"       -> "RESULT"
    [] class = "IN_OUT"    -> "IN_RESULT"
    [] OTHER               -> class

Extract ==
  /\ open = <<>> /\ Has("begin") /\ storage # "none"
  /\ Has("goto") => Has("label")
  /\ outcome' = IF ThereAreJumpsInOrOut THEN "refused" ELSE Reclassified(Classified)
  /\ UNCHANGED <<source, spent, parser, storage, scope>>

Init ==
  /\ source = <<>>
  /\ spent = 0
  /\ open = <<>>
  /\ nodes = <<Labelled(FunctionLabel)>>
  /\ breakLabels = <<>>
  /\ localSym = 0
  /\ storage = "none"
  /\ scope = 0
  /\ outcome = "none"

ParseStep ==
  \/ \E uses \in {"read", "assign", "modify", "maybe"} : Statement(uses)
  \/ \E uses \in {"none", "read"} :
       BeginIf(uses) \/ BeginWhile(uses) \/ BeginSwitch(uses) \/ EndDo(uses)
  \/ \E step \in {"none", "modify"} : BeginFor("none", step)
  \/ Else \/ EndIf \/ EndWhile \/ BeginDo \/ EndFor \/ EndSwitch
  \/ Case \/ Break \/ Continue
  \/ Jump("goto", UserLabel) \/ Jump("return", FunctionLabel) \/ LabelStatement
  \/ \E s \in StorageClasses : Declare(s)
  \/ BeginRegion \/ EndRegion

Next == Parsing /\ (Extract \/ (ParseStep /\ UNCHANGED outcome))

Spec == Init /\ [][Next]_vars

(***************************************************************************)
(* Properties                                                              *)
(***************************************************************************)
Classes == {"NONE", "LOCAL_VAR", "VALUE", "IN_OUT", "IN_RESULT", "OUT", "RESULT",
            "LOCAL_OUT", "LOCAL_RESULT"}

(* What the parser keeps has its type, and the symbols that break and       *)
(* continue go by are those of the loops and switches it is in: a pair for  *)
(* each is added before its body and deleted after it.                      *)
TypeOK ==
  /\ \A p \in DOMAIN nodes : nodes[p].type \in {"label", "variable", "marker"}
  /\ outcome \in Classes \cup {"none", "refused"}
  /\ scope \in Nat /\ spent \in 0..MaxCost
  /\ Len(breakLabels) =
       2 * Cardinality({i \in DOMAIN open : open[i].kind \in {"while", "do", "for", "switch"}})

(* The text has none of the branches that the graph lacks *)
Understood ==
  \A t \in DOMAIN source : /\ source[t].kind \notin {"for", "switch", "continue"}
                         /\ source[t].uses # "maybe"

Made == outcome \notin {"none", "refused"}

(* How the generated call, head and tail move the variable's value *)
CopiedIn  == outcome \in {"VALUE", "IN_OUT", "IN_RESULT"}
CopiedOut == outcome \in {"OUT", "IN_OUT", "RESULT", "IN_RESULT", "LOCAL_OUT", "LOCAL_RESULT"}

(* After the extraction every use of the variable sees what it saw before   *)
(* it: a value the region reads is passed to the new function, a value it   *)
(* leaves behind is passed back, and a value that would have passed the     *)
(* region by is not overwritten by what the function gives back.  It is     *)
(* about the whole of analyzeVariableDataFlow() and its classification, of  *)
(* texts without for, switch, continue and &&: the references that          *)
(* c_parser.y leaves for those do not have all their branches.              *)
ValuesArrive == Made /\ Understood =>
  LET needs == Needs IN needs.reached =>
    /\ needs.in => CopiedIn
    /\ needs.out => CopiedOut
    /\ needs.by /\ CopiedOut => CopiedIn

(* The classification is not on the safe side either: an argument or a      *)
(* result is there only where some execution needs it.  (A static is passed *)
(* for the calls to come, which the data flow of one call does not show.)   *)
NothingMore == Made /\ Understood /\ storage # "static" =>
  LET needs == Needs IN needs.reached =>
    /\ CopiedOut => needs.out \/ DeclaredInside
    /\ CopiedIn => needs.in \/ (needs.out /\ needs.by)

(* continue in a switch goes to the end of the switch, and case has no jump *)
JumpsAreKnown ==
  /\ ~Has("case")
  /\ \A t \in DOMAIN source : source[t].kind = "continue" =>
        ~\E s \in DOMAIN source : source[s].kind = "switch" /\ s \in source[t].of .. t /\ t < The("end", s)

(* A region that is extracted is entered at its beginning and left at its   *)
(* end only, whatever jumps the function has: areThereJumpsInOrOutOfBlock() *)
(* compares the sides of the nodes, this those of the text.                 *)
JumpsStay == Made /\ JumpsAreKnown =>
  \A i \in DOMAIN source : \A j \in Succ(i) :
     Inside(i) # Inside(j) => j \in {Begin, Finish}
=============================================================================
