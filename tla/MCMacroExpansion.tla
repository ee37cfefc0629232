--------------------------- MODULE MCMacroExpansion ---------------------------
(***************************************************************************)
(* Texts and bodies of together six lexems: enough for a call of f or g    *)
(* whose argument is a macro, for a macro whose body is a call or part of  *)
(* one, and for two macros that have each other in their bodies.  And the  *)
(* longer ones in which ## makes the names of macros, of what is given to  *)
(* a macro, of what it gives on and of what it has not replaced.           *)
(***************************************************************************)
EXTENDS MacroExpansion

Id(n) == Lexem("IDENTIFIER", n)
Sign(c) == Lexem(c, c)
One == Lexem("CONSTANT", "1")
Arg(p) == Lexem("ARG", p)

MCParams == [m \in {"f", "g", "o", "o1", "og"} |->
  CASE m = "f" -> <<"x">> [] m = "g" -> <<"x", "y">> [] OTHER -> ObjectLike]
MCFileLexems == {Id("f"), Id("g"), Id("o"), One, Sign("("), Sign(")"), Sign(",")}

\* f is the name that o and o make; p is any name that is not a macro's
Joins == {"f", "g", "o", "1", "o1", "og", "p"}
MCTexts == Joins \cup {"x", "y", "(", ")", ",", "##"}
MCPasted == [<<l, r>> \in Joins \X Joins |->
  CASE l = "o" /\ r = "o" -> "f" [] l = "o" /\ r = "1" -> "o1" [] l = "o" /\ r = "g" -> "og" [] OTHER -> "p"]

Pasting(a, b) == <<a, Sign("##"), b>>
CallOf(m, a) == <<Id(m), Sign("("), a, Sign(")")>>
CallOf2(m, a, b) == <<Id(m), Sign("("), a, Sign(","), b, Sign(")")>>

Short(m) ==
  LET ls == {Id("f"), Id("g"), Id("o"), Sign("("), Sign(")")} \cup {Arg(p) : p \in ToSet(ParamsOf(m))}
  IN UNION {[1..n -> ls] : n \in 0..3}
     \cup (IF m = "f" THEN {Pasting(a, b) : a \in {Arg("x"), Id("o")}, b \in {Arg("x"), Id("o")}} ELSE {})
     \cup (IF m = "g" THEN {Pasting(Arg("x"), Arg("y"))} ELSE {})

\* What is pasted, given on to be pasted, or made of it
Chained == [m \in DOMAIN MCParams |->
  CASE m = "f" -> {<<Arg("x")>>, Pasting(Arg("x"), One), Pasting(Id("o"), Arg("x")), CallOf2("g", Arg("x"), One),
                   CallOf2("g", Arg("x"), Id("g")), CallOf2("g", Id("o"), Arg("x"))}
    [] m = "g" -> {Pasting(Arg("x"), Arg("y")), Pasting(Arg("y"), Arg("x")), <<Arg("x"), Arg("y")>>}
    [] m = "o" -> {<<Id("p")>>, <<Id("o1")>>, CallOf("f", Id("o")), CallOf("f", Id("p")), CallOf2("g", Id("o"), One)}
    [] OTHER -> {<<Id("p")>>, <<Id("o")>>, <<Id(m)>>, CallOf("f", Id("o"))}]
ChainedTexts == {<<Id("o")>>, CallOf("f", Id("o")), CallOf2("g", Id("o"), One),
                 CallOf2("g", Id("o"), Id("o")) \o <<Sign("("), Id("o"), Sign(")")>>}

MCBodies == [m \in Macros |-> Short(m) \cup Chained[m]]

Length(b) == IF b = NoBody THEN 0 ELSE Len(b)
MCWithin(t, b) ==
  \/ Len(t) + Length(b["f"]) + Length(b["g"]) + Length(b["o"]) + Length(b["o1"]) + Length(b["og"]) <= 6
  \/ /\ \A m \in Macros : b[m] = NoBody \/ b[m] \in Chained[m]
     /\ \E c \in ChainedTexts : IsPrefix(SelectSeq(t, LAMBDA l : l # EndOfFile), c)

C == INSTANCE MacrosInC

\* The parser gets what C has in the place of a text, of every text that is C and in
\* which no call that begins in a body and ends behind it takes the name of a macro
\* with it (that call is where cyclicCall(), which goes by the streams on the
\* stack, and C, which goes by where the name came from, part), and no ## makes the
\* name of a macro of a number and a name that is not to be replaced (which
\* collate_id_const() leaves as it is, where C replaces what was made).  It is about
\* all of yylex.c from the collating of a body to the rescanning of it.
ExpandsAsC ==
  status = "done" /\ ~torn /\ ~kept =>
    LET expanded == C!Expanded(C!Tokens(Front(text)), body)
    IN (\A i \in DOMAIN expanded : expanded[i].code # "WRONG") => output = [i \in DOMAIN expanded |-> expanded[i].text]
=============================================================================
