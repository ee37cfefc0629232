------------------------------- MODULE Scopes -------------------------------
(***************************************************************************)
(* What the symbol table promises the parser: a stack of scopes, innermost *)
(* last, each with the symbols declared in it, newest first.  Closing a    *)
(* scope takes back exactly what was declared in it.  Macros are outside   *)
(* the scopes: a newer definition masks the older ones, and all of them go *)
(* when the next file starts, except those of the project.  Symbols.tla    *)
(* implements this with one list of pointers into two memories.            *)
(***************************************************************************)
EXTENDS Naturals, Sequences, SequencesExt

CONSTANTS Names, Keywords

VARIABLES
  scopes,         \* sequence of [fileScope, symbols]
  macros,         \* sequence of [name, defined], newest first
  projectMacros   \* the macros each file of the project starts with

vars == <<scopes, macros, projectMacros>>

Symbol(type, name, complete, global) ==
  [type |-> type, name |-> name, complete |-> complete, global |-> global]

BaseScope == [fileScope |-> FALSE, symbols |-> Keywords]

Innermost == scopes[Len(scopes)]

(* Only a scope that is not a file's makes what is declared in it local. *)
Global == \A d \in 2..Len(scopes) : scopes[d].fileScope

Holds(scope, type, name) ==
  \E i \in DOMAIN scope.symbols :
    scope.symbols[i].type = type /\ scope.symbols[i].name = name

Visible(type, name) ==
  \E d \in DOMAIN scopes : Holds(scopes[d], type, name)

InInnermost(symbols) ==
  [scopes EXCEPT ![Len(scopes)].symbols = symbols]

Init ==
  /\ scopes = <<BaseScope>>
  /\ macros = <<>> /\ projectMacros = <<>>

Open(fileScope) ==
  /\ scopes' = Append(scopes, [fileScope |-> fileScope, symbols |-> <<>>])
  /\ UNCHANGED <<macros, projectMacros>>

Close ==
  /\ Len(scopes) > 1
  /\ scopes' = Front(scopes)
  /\ UNCHANGED <<macros, projectMacros>>

Declare(type, name, global) ==
  /\ scopes' = InInnermost(<<Symbol(type, name, FALSE, global)>> \o Innermost.symbols)
  /\ UNCHANGED <<macros, projectMacros>>

(* A function is declared where its head is, its parameters inside it. *)
Function(name, parameters) ==
  /\ scopes' =
       Append(InInnermost(<<Symbol("default", name, FALSE, Global)>> \o Innermost.symbols),
              [fileScope |-> FALSE,
               symbols |-> [i \in DOMAIN parameters |->
                              Symbol("default", parameters[i], FALSE, FALSE)]])
  /\ UNCHANGED <<macros, projectMacros>>

(* The newest tag of that name in the innermost scope gets its members. *)
CompleteTag(name) ==
  \E i \in DOMAIN Innermost.symbols :
    /\ Innermost.symbols[i].type = "tag" /\ Innermost.symbols[i].name = name
    /\ \A j \in 1..(i - 1) : Innermost.symbols[j].type # "tag" \/ Innermost.symbols[j].name # name
    /\ scopes' = InInnermost([Innermost.symbols EXCEPT ![i].complete = TRUE])
    /\ UNCHANGED <<macros, projectMacros>>

(* A loop's two labels live while the loop is being read. *)
EnterLoop ==
  /\ scopes' = InInnermost(<<Symbol("label", "loop", FALSE, FALSE),
                             Symbol("label", "loop", FALSE, FALSE)>> \o Innermost.symbols)
  /\ UNCHANGED <<macros, projectMacros>>

LeaveLoop ==
  \E i, j \in DOMAIN Innermost.symbols :
    /\ i < j
    /\ {k \in 1..j : Innermost.symbols[k].type = "label"} = {i, j}
    /\ scopes' = InInnermost(RemoveAt(RemoveAt(Innermost.symbols, j), i))
    /\ UNCHANGED <<macros, projectMacros>>

DefineMacro(name, defined) ==
  /\ macros' = <<[name |-> name, defined |-> defined]>> \o macros
  /\ UNCHANGED <<scopes, projectMacros>>

(* The next file of the project: nothing of the last one is left. *)
NextFile(fileScope) ==
  /\ scopes' = IF fileScope
               THEN <<BaseScope, [fileScope |-> TRUE, symbols |-> <<>>]>>
               ELSE <<BaseScope>>
  /\ macros' = projectMacros
  /\ UNCHANGED projectMacros

(* Another project: nor is anything of the last project. *)
NextProject(defines, fileScope) ==
  /\ scopes' = IF fileScope
               THEN <<BaseScope, [fileScope |-> TRUE, symbols |-> <<>>]>>
               ELSE <<BaseScope>>
  /\ macros' = defines /\ projectMacros' = defines

Next ==
  \/ \E fileScope \in BOOLEAN : Open(fileScope) \/ NextFile(fileScope)
  \/ Close \/ EnterLoop \/ LeaveLoop
  \/ \E name \in Names :
       \/ Declare("default", name, Global)
       \/ Declare("tag", name, TRUE)
       \/ CompleteTag(name)
       \/ \E parameters \in SeqOf(Names, 1) : Function(name, parameters)
       \/ \E defined \in BOOLEAN : DefineMacro(name, defined)
  \/ \E defines \in SeqOf([name : Names, defined : {TRUE}], 1), fileScope \in BOOLEAN :
       NextProject(defines, fileScope)

Spec == Init /\ [][Next]_vars

=============================================================================
