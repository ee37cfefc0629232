--------------------------- MODULE MacroExpansion ---------------------------
(***************************************************************************)
(* How yylex() gives the parser the lexems of a file with the macros       *)
(* expanded.                                                               *)
(*                                                                         *)
(* In C, expandMacroCall(), createMacroBodyAsNewStream() and               *)
(* expandMacroArgument() call each other, and each of them reads on from   *)
(* the stack of input streams; calls is their stack.  Every action reads   *)
(* one lexem, wherever it comes from, and the function that wanted it goes *)
(* on as far as the next one.                                              *)
(*                                                                         *)
(* The text of the file and the bodies of the macros are chosen when they  *)
(* are first needed.                                                       *)
(***************************************************************************)
EXTENDS Integers, Sequences, SequencesExt

CONSTANTS
  Params,        \* of each macro: its parameters, or ObjectLike
  ObjectLike,
  NoBody,        \* in the place of a body that is not chosen
  Texts,         \* of lexems
  Pasted,        \* the text that ## makes of two texts
  FileLexems,    \* the lexems of the file
  Bodies,        \* of each macro, those it may have
  Within(_, _),  \* bound: the texts and bodies that are tried together
  StackSize      \* MACRO_INPUT_STACK_SIZE

VARIABLES
  text,          \* what has been read of the file
  body,          \* the bodies of the macros
  streams,       \* macroInputStack and currentInput, which is the last
  calls,         \* the expandMacroCall()s in progress, innermost last
  output,        \* the texts of what yylex() has returned
  status,        \* "reading", or how it came to its end
  torn,          \* a body came to its end in the arguments of a call that have the name of a macro
  kept           \* a name that ## made of one that is not to be replaced is not replaced either

vars == <<text, body, streams, calls, output, status, torn, kept>>

Macros == DOMAIN Params
NoMacro == ""
Lexem(code, of) == [code |-> code, text |-> of]
EndOfFile == Lexem("END_OF_FILE_EXCEPTION", "")
EndOfArgument == Lexem("END_OF_MACRO_ARGUMENT_EXCEPTION", "")
Exceptions == {EndOfFile, EndOfArgument}

ParamsOf(m) == IF Params[m] = ObjectLike THEN <<>> ELSE Params[m]

(***************************************************************************)
(* The streams                                                             *)
(***************************************************************************)
Stream(lexems, of, type) == [lexems |-> lexems, of |-> of, type |-> type]

Current(s) == s[Len(s)]

FileHas == {EndOfFile} \cup {l \in FileLexems : Within(Append(text, l), body)}

\* What can be read, and what the streams are before and after it; the end of a
\* body is none of it, the body is left first
Reads ==
  LET c == Current(streams)
      Advanced(lexems) == [streams EXCEPT ![Len(streams)].lexems = lexems]
      Read(lexem, before, after, file) == [lexem |-> lexem, before |-> before, after |-> after, file |-> file]
  IN CASE c.lexems # <<>> -> {Read(Head(c.lexems), streams, Advanced(Tail(c.lexems)), text)}
       [] c.lexems = <<>> /\ c.type = "MACRO_ARGUMENT_STREAM" -> {Read(EndOfArgument, streams, streams, text)}
       [] c.lexems = <<>> /\ c.type = "NORMAL_STREAM" ->
            IF text # <<>> /\ Last(text) = EndOfFile
            THEN {Read(EndOfFile, streams, streams, text)}
            ELSE {Read(l, IF l = EndOfFile THEN streams ELSE Advanced(<<l>>), streams, Append(text, l)) : l \in FileHas}
       [] OTHER -> {}

CyclicCallBelow(m, s) == \E k \in 1..(Len(s) - 1) : s[k].of = m
CyclicCallOfCurrent(m, s) == Current(s).of = m
CyclicCall(m, s) == \E k \in DOMAIN s : s[k].of = m

(***************************************************************************)
(* ## in a body, before the arguments are expanded                         *)
(***************************************************************************)
IsPastable(l) == l.code \in {"IDENTIFIER", "IDENT_NO_CPP_EXPAND", "CONSTANT"}
PastedAsItIs(l, r) ==
  Lexem(IF l.code = "CONSTANT" THEN "IDENTIFIER" ELSE l.code, Pasted[<<l.text, r.text>>])
PastedLexem(l, r) ==
  Lexem(IF l.code # "CONSTANT" /\ r.code = "CONSTANT" THEN l.code ELSE "IDENTIFIER", Pasted[<<l.text, r.text>>])

\* The lexems written so far, the one that ## takes as its left side, and whether
\* there was a ##
Written(lexems, last, pasting) == [lexems |-> lexems, last |-> last, pasting |-> pasting]
AlsoWritten(w, l) == Written(Append(w.lexems, l), Len(w.lexems) + 1, FALSE)

\* A comma that was taken back is still seen by the next ##
LexemAt(lexems, at) == IF at > Len(lexems) THEN Lexem(",", ",") ELSE lexems[at]

Collate(w, right, args) ==
  LET left == LexemAt(w.lexems, w.last)
      before == SubSeq(w.lexems, 1, w.last - 1)
      all == IF left.code = "ARG" THEN before \o args[left.text] ELSE w.lexems
      at == IF left.code = "ARG" THEN Len(all) ELSE w.last
      rights == IF right.code = "ARG" THEN args[right.text] ELSE <<right>>
      on == LexemAt(all, at)
  IN IF at < w.last THEN AlsoWritten(Written(all, 0, FALSE), right)
     ELSE IF rights = <<>>
     THEN Written(IF on.code = "," THEN SubSeq(all, 1, at - 1) ELSE all, at, FALSE)
     ELSE IF IsPastable(on) /\ IsPastable(Head(rights))
     THEN Written(SubSeq(all, 1, at - 1) \o <<PastedLexem(on, Head(rights))>> \o Tail(rights), at, FALSE)
     ELSE Written(all \o rights, at, FALSE)

Collated(b, args) ==
  LET Then(w, i) == IF w.pasting THEN Collate(w, b[i], args)
                    ELSE IF b[i].code = "##" /\ w.last # 0 /\ i < Len(b) THEN [w EXCEPT !.pasting = TRUE]
                    ELSE AlsoWritten(w, b[i])
      upTo[i \in 0..Len(b)] == IF i = 0 THEN Written(<<>>, 0, FALSE) ELSE Then(upTo[i - 1], i)
  IN  upTo[Len(b)].lexems

\* collate_id_const() writes the text only: a macro's name that it makes of a name
\* that is not to be replaced stays one that is not
KeepsUnreplaced(b, args) ==
  LET operand(l) == IF l.code = "ARG" THEN args[l.text] ELSE <<l>>
  IN \E i \in 2..(Len(b) - 1) :
       /\ b[i].code = "##"
       /\ operand(b[i - 1]) # <<>> /\ operand(b[i + 1]) # <<>>
       /\ LET left == Last(operand(b[i - 1]))
              right == Head(operand(b[i + 1]))
          IN left.code = "IDENT_NO_CPP_EXPAND" /\ right.code = "CONSTANT"
             /\ Pasted[<<left.text, right.text>>] \in Macros

ReplaceMacroArguments(lexems, args) ==
  LET New(l) == IF l.code = "ARG" THEN args[l.text] ELSE <<l>>
      upTo[i \in 0..Len(lexems)] == IF i = 0 THEN <<>> ELSE upTo[i - 1] \o New(lexems[i])
  IN  upTo[Len(lexems)]

(***************************************************************************)
(* What the constants may be                                               *)
(***************************************************************************)
Codes == {"IDENTIFIER", "IDENT_NO_CPP_EXPAND", "CONSTANT", "ARG", "##", "(", ")", ",", "OTHER"}
Lexems == [code : Codes, text : Texts]

\* The texts of names and numbers, and the lexems of a text and of the body of a macro
Joined == {p[1] : p \in DOMAIN Pasted}
Plain == {l \in Lexems : l.code # "ARG" /\ (IsPastable(l) => l.text \in Joined)}
BodyLexems(m) == Plain \cup [code : {"ARG"}, text : ToSet(ParamsOf(m))]

ASSUME MacrosAssumption ==
  /\ Joined \subseteq Texts /\ "," \in Texts
  /\ Pasted \in [Joined \X Joined -> Joined]
  /\ Macros \subseteq Joined
  /\ \A m \in Macros : Params[m] = ObjectLike \/ Params[m] \in Seq(Texts) \ {<<>>}
  /\ FileLexems \subseteq Plain
  /\ \A m \in Macros : Bodies[m] \subseteq Seq(BodyLexems(m))

(***************************************************************************)
(* Reading                                                                 *)
(***************************************************************************)
Call == Current(calls)
ReadsIn(phase) == IF calls # <<>> /\ Call.phase = phase THEN Reads ELSE {}

\* yylex() or the expansion of an argument takes the lexem as it is
Give(lexem, cs) ==
  IF cs = <<>> THEN /\ output' = Append(output, lexem.text)
                    /\ calls' = cs
  ELSE /\ calls' = [cs EXCEPT ![Len(cs)].buffer = Append(@, lexem)]
       /\ UNCHANGED output

PrependMacroInput(s, stream) ==
  IF Len(s) < StackSize THEN streams' = Append(s, stream) /\ UNCHANGED status
  ELSE streams' = s /\ status' = "full"

BodyOf(m) ==
  IF body[m] = NoBody THEN {b \in Bodies[m] : Within(text, [body EXCEPT ![m] = b])} ELSE {body[m]}

\* createMacroBodyAsNewStream() as far as the first argument, and beyond it when there is none
CreateMacroBody(m, args, s, outer) ==
  \E b \in BodyOf(m) :
    LET params == ParamsOf(m)
        raw == [p \in ToSet(params) |-> LET k == CHOOSE i \in DOMAIN params : params[i] = p
                                        IN IF k <= Len(args) THEN args[k].lexems ELSE <<>>]
        collated == Collated(b, raw)
    IN /\ body' = [body EXCEPT ![m] = b]
       /\ kept' = (kept \/ KeepsUnreplaced(b, raw))
       /\ IF params = <<>>
          THEN /\ calls' = outer
               /\ PrependMacroInput(s, Stream(collated, m, "MACRO_STREAM"))
          ELSE /\ calls' = Append(outer, [macro |-> m, phase |-> "expand", args |-> args, depth |-> 0,
                                          collated |-> collated, expanded |-> <<>>, buffer |-> <<>>])
               /\ PrependMacroInput(s, Stream(raw[params[1]], IF args = <<>> THEN NoMacro ELSE args[1].of,
                                              "MACRO_ARGUMENT_STREAM"))

IsMacroName(l) == l.code = "IDENTIFIER" /\ l.text \in Macros

LeaveBodyOrArgument ==
  /\ Current(streams).type # "NORMAL_STREAM"
  /\ Current(streams).lexems = <<>>
  /\ streams' = Front(streams)
  /\ torn' = (torn \/ (calls # <<>> /\ Call.phase = "collect"
                        /\ \E a \in ToSet(Call.args) : \E l \in ToSet(a.lexems) : IsMacroName(l)))
  /\ UNCHANGED <<text, body, calls, output, status, kept>>

\* refillCurrentInputIfExhausted(): a body that has been read is left
LeaveBody ==
  /\ Current(streams).type = "MACRO_STREAM"
  /\ Current(streams).lexems = <<>>
  /\ streams' = Front(streams)
  /\ torn' = (torn \/ (calls # <<>> /\ Call.phase = "collect"
                        /\ \E a \in ToSet(Call.args) : \E l \in ToSet(a.lexems) : IsMacroName(l)))
  /\ UNCHANGED <<text, body, calls, output, status, kept>>

InLoop == calls # <<>> => Call.phase = "expand"
TakeLexem ==
  /\ InLoop
  /\ \E r \in Reads :
       /\ r.lexem \notin Exceptions
       /\ ~IsMacroName(r.lexem)
       /\ streams' = r.after
       /\ text' = r.file
       /\ Give(r.lexem, calls)
  /\ UNCHANGED <<body, status, torn, kept>>

TakeCyclic ==
  /\ InLoop
  /\ \E r \in Reads :
       /\ IsMacroName(r.lexem)
       /\ CyclicCall(r.lexem.text, r.after)
       /\ streams' = r.after
       /\ text' = r.file
       /\ Give([r.lexem EXCEPT !.code = "IDENT_NO_CPP_EXPAND"], calls)
  /\ UNCHANGED <<body, status, torn, kept>>

ExpandObject ==
  /\ InLoop
  /\ \E r \in Reads :
       /\ IsMacroName(r.lexem)
       /\ ~CyclicCall(r.lexem.text, r.after)
       /\ Params[r.lexem.text] = ObjectLike
       /\ text' = r.file
       /\ CreateMacroBody(r.lexem.text, <<>>, r.after, calls)
  /\ UNCHANGED <<output, torn>>

BeginCall ==
  /\ InLoop
  /\ \E r \in Reads :
       /\ IsMacroName(r.lexem)
       /\ ~CyclicCall(r.lexem.text, r.after)
       /\ Params[r.lexem.text] # ObjectLike
       /\ text' = r.file
       /\ streams' = r.after
       /\ calls' = Append(calls, [macro |-> r.lexem.text, phase |-> "call", args |-> <<>>, depth |-> 0,
                                  collated |-> <<>>, expanded |-> <<>>, buffer |-> <<>>])
  /\ UNCHANGED <<body, output, status, torn, kept>>

LeftParenthesis ==
  /\ \E r \in ReadsIn("call") :
       /\ r.lexem.code = "("
       /\ streams' = r.after
       /\ text' = r.file
       /\ calls' = [calls EXCEPT ![Len(calls)].phase = "collect",
                                 ![Len(calls)].args = <<[lexems |-> <<>>, of |-> NoMacro]>>]
  /\ UNCHANGED <<body, output, status, torn, kept>>

NoCall ==
  /\ \E r \in ReadsIn("call") :
       /\ r.lexem.code # "("
       /\ streams' = r.before
       /\ text' = r.file
       /\ Give(Lexem("IDENTIFIER", Call.macro), Front(calls))
  /\ UNCHANGED <<body, status, torn, kept>>

(***************************************************************************)
(* The arguments of a call                                                 *)
(***************************************************************************)
Argument == Last(Call.args).lexems
NamedBy(s) == [Call.args EXCEPT ![Len(Call.args)].of = Current(s).of]

ArgumentEndsAtComma(l) == Call.depth = 0 /\ l.code = ","
ArgumentEnds(l) == Call.depth = 0 /\ l.code = "," /\ Len(Call.args) < Len(ParamsOf(Call.macro))
CallEnds(l) == (Call.depth = 0 /\ l.code = ")") \/ l \in Exceptions

CollectLexem ==
  /\ \E r \in ReadsIn("collect") :
       /\ ~ArgumentEnds(r.lexem)
       /\ ~CallEnds(r.lexem)
       /\ streams' = r.after
       /\ text' = r.file
       /\ calls' = [calls EXCEPT ![Len(calls)] =
                     [Call EXCEPT !.args[Len(Call.args)].lexems = Append(@, r.lexem),
                                  !.depth = CASE r.lexem.code = "(" -> @ + 1
                                              [] r.lexem.code = ")" -> @ - 1
                                              [] OTHER -> @]]
  /\ UNCHANGED <<body, output, status, torn, kept>>

NextArgument ==
  /\ \E r \in ReadsIn("collect") :
       /\ ArgumentEnds(r.lexem)
       /\ streams' = r.after
       /\ text' = r.file
       /\ calls' = [calls EXCEPT ![Len(calls)].args = Append(NamedBy(r.after), [lexems |-> <<>>, of |-> NoMacro])]
  /\ UNCHANGED <<body, output, status, torn, kept>>

EndCall ==
  /\ \E r \in ReadsIn("collect") :
       /\ CallEnds(r.lexem)
       /\ r.lexem = EndOfArgument => Argument # <<>>
       /\ text' = r.file
       /\ CreateMacroBody(Call.macro, NamedBy(r.after), r.after, Front(calls))
  /\ UNCHANGED <<output, torn>>

\* getActualMacroArguments() has no answer to the end of the argument it reads in
CallInterrupted ==
  /\ EndOfArgument \in {r.lexem : r \in ReadsIn("collect")}
  /\ Argument = <<>>
  /\ status' = "asserted"
  /\ UNCHANGED <<text, body, streams, calls, output, torn, kept>>

EndArgument ==
  /\ calls # <<>> /\ Call.phase = "expand"
  /\ Current(streams).type = "MACRO_ARGUMENT_STREAM" /\ Current(streams).lexems = <<>>
  /\ LET params == ParamsOf(Call.macro)
         expanded == Append(Call.expanded, Call.buffer)
         k == Len(expanded) + 1
     IN IF k <= Len(params)
        THEN /\ calls' = [calls EXCEPT ![Len(calls)].expanded = expanded, ![Len(calls)].buffer = <<>>]
             /\ PrependMacroInput(Front(streams),
                  IF k <= Len(Call.args) THEN Stream(Call.args[k].lexems, Call.args[k].of, "MACRO_ARGUMENT_STREAM")
                  ELSE Stream(<<>>, NoMacro, "MACRO_ARGUMENT_STREAM"))
        ELSE /\ calls' = Front(calls)
             /\ PrependMacroInput(Front(streams),
                  Stream(ReplaceMacroArguments(Call.collated,
                           [p \in ToSet(params) |-> expanded[CHOOSE i \in DOMAIN params : params[i] = p]]),
                         Call.macro, "MACRO_STREAM"))
  /\ UNCHANGED <<text, body, output, torn, kept>>

EndOfText ==
  /\ calls = <<>>
  /\ \E r \in Reads :
       /\ r.lexem = EndOfFile
       /\ text' = r.file
  /\ status' = "done"
  /\ UNCHANGED <<body, streams, calls, output, torn, kept>>

Init ==
  /\ text = <<>>
  /\ body = [m \in Macros |-> NoBody]
  /\ streams = <<Stream(<<>>, NoMacro, "NORMAL_STREAM")>>
  /\ calls = <<>>
  /\ output = <<>>
  /\ status = "reading"
  /\ torn = FALSE /\ kept = FALSE

Next ==
  /\ status = "reading"
  /\ \/ LeaveBody \/ TakeLexem \/ TakeCyclic \/ ExpandObject \/ BeginCall \/ LeftParenthesis \/ NoCall
     \/ CollectLexem \/ NextArgument \/ EndCall \/ CallInterrupted \/ EndArgument \/ EndOfText

Spec == Init /\ [][Next]_vars

(***************************************************************************)
(* Properties                                                              *)
(***************************************************************************)
Streams == [lexems : Seq(Lexems), of : Macros \cup {NoMacro},
            type : {"NORMAL_STREAM", "MACRO_STREAM", "MACRO_ARGUMENT_STREAM"}]
Calls == [macro : Macros, phase : {"call", "collect", "expand"},
          args : Seq([lexems : Seq(Lexems), of : Macros \cup {NoMacro}]), depth : Nat,
          collated : Seq(Lexems), expanded : Seq(Seq(Lexems)), buffer : Seq(Lexems)]

\* The type invariant; what ## and the arguments make of a body are lexems, and no
\* call has more arguments than its macro has parameters, which is how long the
\* array of getActualMacroArguments() is.
TypeOK ==
  /\ text \in Seq(FileLexems \cup {EndOfFile})
  /\ body \in [Macros -> Seq(Lexems) \cup {NoBody}]
  /\ streams \in Seq(Streams)
  /\ calls \in Seq(Calls)
  /\ \A k \in DOMAIN calls : Len(calls[k].args) <= Len(ParamsOf(calls[k].macro))
  /\ output \in Seq(Texts)
  /\ status \in {"reading", "done", "full", "asserted"}
  /\ torn \in BOOLEAN /\ kept \in BOOLEAN

Expanding(cs) == {k \in DOMAIN cs : cs[k].phase = "expand"}
ArgumentStreams(s) == {i \in DOMAIN s : s[i].type = "MACRO_ARGUMENT_STREAM"}

Nest(s, cs) ==
  /\ \A k \in DOMAIN cs : k < Len(cs) => k \in Expanding(cs)
  /\ \E at \in [Expanding(cs) -> ArgumentStreams(s)] :
       /\ \A i \in ArgumentStreams(s) : \E k \in Expanding(cs) : at[k] = i
       /\ \A j, k \in Expanding(cs) : j < k => at[j] < at[k]
       /\ \A k \in Expanding(cs) : \A i \in 1..(at[k] - 1) : s[i].of # cs[k].macro
  /\ \A k \in DOMAIN cs \ Expanding(cs) : \A i \in DOMAIN s : s[i].of # cs[k].macro

\* expandMacroArgument() and the stack of streams: the arguments that are being
\* expanded are on the stack of streams in the order of the calls that expand them,
\* one of each and no other, only the innermost call can still be reading its
\* arguments, and the streams that a call has below it are never those of the macro
\* that it is a call of.
CallsNest == status # "full" => Nest(streams, calls)

\* cyclicCall(), which goes by the names of the streams: no macro is replaced within
\* its own replacement, not in an argument of a call in it either.
NeverInItself ==
  \A i, j \in DOMAIN streams :
    streams[i].type = "MACRO_STREAM" /\ streams[j].type = "MACRO_STREAM" /\ streams[i].of = streams[j].of => i = j

\* prependMacroInput() never finds the stack of streams full: what cyclicCall() stops
\* is enough for every expansion to end, unless a call that began in a body and ends
\* behind it took the name of a macro with it.
ExpansionEnds == status = "full" => torn
=============================================================================
