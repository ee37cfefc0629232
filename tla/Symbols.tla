------------------------------- MODULE Symbols -------------------------------
(***************************************************************************)
(* The parser's symbols: stackmemory.c's blocks and frames, the symbol     *)
(* table over it, the macros in ppmMemory, and the checkpoints that give   *)
(* every file the state of its project.                                    *)
(*                                                                         *)
(* A memory is the sequence of the cells allocated in it, so its length is *)
(* its first free index and a pointer is good while it is in the sequence. *)
(* A pointer p > 0 is into stackMemory, p < 0 into ppmMemory.  The bucket  *)
(* chains of the table are one list of pointers, newest first.             *)
(*                                                                         *)
(* RoomToTheLast, AddToFrameLast and the like are mistaken forms of the    *)
(* definitions after them.                                                 *)
(***************************************************************************)
EXTENDS Integers, Sequences, SequencesExt

CONSTANTS
  Names,         \* identifiers of the files
  StackSize,     \* cells of stackMemory  (StackMemorySize)
  PpmSize,       \* cells of ppmMemory
  Operations,    \* what files are parsed for, "extract" or another
  MaxNesting     \* bound on the parser's open constructs

(* Both memories have room for what is there before the first file is      *)
(* parsed: the keyword, and a macro of the project's options.              *)
ASSUME SymbolsAssumption ==
  /\ StackSize \in Nat /\ StackSize > 1
  /\ PpmSize \in Nat /\ PpmSize > 0
  /\ MaxNesting \in Nat

VARIABLES
  stack,              \* cells of stackMemory
  frames,             \* currentBlock->frameAllocations, newest first
  isFileScope,        \* currentBlock->isFileScope
  outer,              \* currentBlock->outerBlock and its outer blocks, innermost last
  table,              \* symbolTable
  ppm,                \* cells of ppmMemory
  clean, project,     \* cleanCheckpoint, projectCheckpoint
  constructs,         \* what the parser has begun, innermost last
  parsing             \* the operation of the parse under way

memory  == <<stack, frames, isFileScope, outer, ppm>>
kept    == <<clean, project>>
vars    == <<memory, table, kept, constructs, parsing>>

None == 0

(***************************************************************************)
(* Cells, and the table                                                    *)
(***************************************************************************)
Symbol(type, name, global) ==
  [type |-> type, name |-> name, members |-> None, global |-> global]

Keyword == Symbol("keyword", "struct", TRUE)

At(cells, p) == IF p > 0 THEN cells[p] ELSE ppm[-p]

Macros(cells) == [i \in DOMAIN cells |-> -i]

SameSymbol(s, t) == s.type = t.type /\ s.name = t.name

(* symbolTableIsMember(): the newest symbol of that type and name *)
Find(type, name) ==
  LET found == {i \in DOMAIN table : SameSymbol(At(stack, table[i]), Symbol(type, name, TRUE))}
  IN  IF found = {} THEN None
      ELSE table[CHOOSE i \in found : \A j \in found : i <= j]

(* symbolTableDelete(): the newest symbol that equals this one *)
Delete(tab, cells, p) ==
  LET equal == {i \in DOMAIN tab : SameSymbol(At(cells, tab[i]), At(cells, p))}
  IN  IF equal = {} THEN tab
      ELSE RemoveAt(tab, CHOOSE i \in equal : \A j \in equal : i <= j)

(***************************************************************************)
(* Blocks                                                                  *)
(***************************************************************************)
CurrentBlock == [free |-> Len(stack), frames |-> frames, isFileScope |-> isFileScope]

(* nestingLevel() != 0 *)
Nested ==
  IF outer = <<>> THEN FALSE
  ELSE \/ ~isFileScope
       \/ \E d \in 2..Len(outer) : ~outer[d].isFileScope

IsFromTheLastButOne(p) ==
  outer # <<>> /\ p > 0 /\ p < Last(outer).free

IsFromPreviousBlock(p) ==
  outer # <<>> /\ p > 0 /\ p <= Last(outer).free

Push(symbols) == stack' = stack \o symbols

AddToFrameLast(symbols) ==
  LET new == [i \in DOMAIN symbols |-> Len(stack) + i]
  IN  /\ table' = table \o new
      /\ frames' = [i \in DOMAIN new |-> [do |-> "delete", symbol |-> new[i]]] \o frames

(* addSymbolToFrame() of the symbols just allocated *)
AddToFrame(symbols) ==
  LET new == [i \in DOMAIN symbols |-> Len(stack) + i]
      newest == Reverse(new)
  IN  /\ table' = newest \o table
      /\ frames' = [i \in DOMAIN newest |-> [do |-> "delete", symbol |-> newest[i]]] \o frames

BeginBlock(fileScope) ==
  /\ outer' = Append(outer, CurrentBlock)
  /\ isFileScope' = fileScope

(* removeFromFrameUntil(): the actions added in the block, newest first *)
Undo(s, f) ==
  IF f.do = "delete" THEN [s EXCEPT !.table = Delete(@, s.cells, f.symbol)]
  ELSE [s EXCEPT !.cells[f.symbol].members = None]

Unwind(until) ==
  LET own == Len(frames) - Len(until)
      undone[n \in 0..own] == IF n = 0 THEN [table |-> table, cells |-> stack]
                              ELSE Undo(undone[n - 1], frames[n])
  IN  undone[own]

EndBlockOnly ==
  /\ stack' = SubSeq(stack, 1, Last(outer).free)
  /\ frames' = Last(outer).frames
  /\ isFileScope' = Last(outer).isFileScope
  /\ outer' = Front(outer)
  /\ UNCHANGED table

EndBlock ==
  LET unwound == Unwind(Last(outer).frames)
  IN  /\ table' = unwound.table
      /\ stack' = SubSeq(unwound.cells, 1, Last(outer).free)
      /\ frames' = Last(outer).frames
      /\ isFileScope' = Last(outer).isFileScope
      /\ outer' = Front(outer)

(***************************************************************************)
(* What the parser does.  A construct is begun and ended by the grammar's  *)
(* actions; a parse may stop anywhere, at the end of a file with something *)
(* open (a brace is missing).                                              *)
(***************************************************************************)
Inside(kinds) ==
  IF constructs = <<>> THEN "file" \in kinds ELSE Last(constructs).kind \in kinds

Begin(kind, symbol) ==
  constructs' = Append(constructs, [kind |-> kind, symbol |-> symbol])

RoomToTheLast(n) == Len(stack) + n <= StackSize

Room(n) == Len(stack) + n < StackSize

MayOpen == Len(constructs) < MaxNesting

(* addNewSymbolDefinition() *)
Declare(name) ==
  /\ parsing # "no" /\ Inside({"file", "block"}) /\ Room(1)
  /\ Push(<<Symbol("default", name, ~Nested)>>)
  /\ AddToFrame(<<name>>)
  /\ UNCHANGED <<isFileScope, outer, ppm, kept, constructs, parsing>>

(* The head of a function: it is declared, a block begins, and the         *)
(* parameters are declared in that.                                        *)
BeginFunction(name, parameters) ==
  /\ parsing # "no" /\ Inside({"file"}) /\ MayOpen /\ Room(1 + Len(parameters))
  /\ LET f == Len(stack) + 1
         own == [i \in DOMAIN parameters |-> f + i]
         newest == Reverse(own)
         fFrames == <<[do |-> "delete", symbol |-> f]>> \o frames
     IN  /\ stack' = Append(stack, Symbol("default", name, ~Nested))
                       \o [i \in DOMAIN parameters |-> Symbol("default", parameters[i], FALSE)]
         /\ table' = newest \o <<f>> \o table
         /\ outer' = Append(outer, [CurrentBlock EXCEPT !.free = f, !.frames = fFrames])
         /\ isFileScope' = FALSE
         /\ frames' = [i \in DOMAIN newest |-> [do |-> "delete", symbol |-> newest[i]]] \o fFrames
         /\ Begin("function", f)
  /\ UNCHANGED <<ppm, kept, parsing>>

EndFunction ==
  /\ parsing # "no" /\ Inside({"function", "body"})
  /\ EndBlock
  /\ constructs' = Front(constructs)
  /\ UNCHANGED <<ppm, kept, parsing>>

BeginCompound ==
  /\ parsing # "no" /\ Inside({"function", "block", "loop"}) /\ MayOpen
  /\ BeginBlock(FALSE)
  /\ constructs' = Append(IF Inside({"function"})
                          THEN [constructs EXCEPT ![Len(constructs)].kind = "body"]
                          ELSE constructs,
                          [kind |-> "block", symbol |-> None])
  /\ UNCHANGED <<stack, frames, table, ppm, kept, parsing>>

EndCompound ==
  /\ parsing # "no" /\ Inside({"block"})
  /\ EndBlock
  /\ constructs' = Front(constructs)
  /\ UNCHANGED <<ppm, kept, parsing>>

(* A loop or a switch adds two labels of the same name, in no frame. *)
BeginLoop ==
  /\ parsing # "no" /\ Inside({"block", "loop"}) /\ MayOpen
  /\ IF parsing = "extract"
     THEN /\ Room(2)
          /\ Push(<<Symbol("label", "loop", FALSE), Symbol("label", "loop", FALSE)>>)
          /\ table' = <<Len(stack) + 2, Len(stack) + 1>> \o table
          /\ Begin("loop", Len(stack) + 1)
     ELSE Begin("loop", None) /\ UNCHANGED <<stack, table>>
  /\ UNCHANGED <<frames, isFileScope, outer, ppm, kept, parsing>>

EndLoop ==
  /\ parsing # "no" /\ Inside({"loop"})
  /\ table' = IF parsing = "extract"
              THEN LET first == Last(constructs).symbol
                   IN  Delete(Delete(table, stack, first + 1), stack, first)
              ELSE table
  /\ constructs' = Front(constructs)
  /\ UNCHANGED <<memory, kept, parsing>>

(* simpleStructOrUnionSpecifier(): a use takes the tag that is visible, a  *)
(* definition that of its own block.                                       *)
TagIsNew(name, defines) ==
  LET found == Find("tag", name)
  IN  found = None \/ (IsFromPreviousBlock(found) /\ defines)

UseTag(name) ==
  /\ parsing # "no" /\ Inside({"file", "block", "loop", "tag"}) /\ TagIsNew(name, FALSE) /\ Room(1)
  /\ Push(<<Symbol("tag", name, TRUE)>>)
  /\ AddToFrame(<<name>>)
  /\ UNCHANGED <<isFileScope, outer, ppm, kept, constructs, parsing>>

BeginTag(name) ==
  /\ parsing # "no" /\ Inside({"file", "block", "tag"}) /\ MayOpen /\ Room(1)
  /\ IF TagIsNew(name, TRUE)
     THEN /\ Push(<<Symbol("tag", name, TRUE)>>)
          /\ AddToFrame(<<name>>)
          /\ Begin("tag", Len(stack) + 1)
     ELSE Begin("tag", Find("tag", name)) /\ UNCHANGED <<stack, frames, table>>
  /\ UNCHANGED <<isFileScope, outer, ppm, kept, parsing>>

(* specializeStructOrUnionDef() *)
EndTag ==
  /\ parsing # "no" /\ Inside({"tag"}) /\ Room(1)
  /\ LET tag == Last(constructs).symbol
         members == Len(stack) + 1
         grown == Append(stack, Symbol("member", "m", TRUE))
     IN  IF stack[tag].members = None
         THEN /\ stack' = [grown EXCEPT ![tag].members = members]
              /\ frames' = <<[do |-> "null", symbol |-> tag]>> \o frames
         ELSE stack' = grown /\ UNCHANGED frames
  /\ constructs' = Front(constructs)
  /\ UNCHANGED <<isFileScope, outer, table, ppm, kept, parsing>>

(* braces with nothing between them *)
EndEmptyTag ==
  /\ parsing # "no" /\ Inside({"tag"})
  /\ constructs' = Front(constructs)
  /\ UNCHANGED <<memory, table, kept, parsing>>

(* processDefineDirective() and processUndefineDirective(): an undefined   *)
(* macro is a symbol without a body that masks the older ones              *)
PushMacro(name, defined) ==
  /\ ppm' = Append(ppm, [type |-> "macro", name |-> name, defined |-> defined])
  /\ table' = <<-(Len(ppm) + 1)>> \o table

Define(name) ==
  /\ parsing # "no" /\ Len(ppm) < PpmSize
  /\ PushMacro(name, TRUE)
  /\ UNCHANGED <<stack, frames, isFileScope, outer, kept, constructs, parsing>>

Undefine(name) ==
  /\ parsing # "no" /\ Len(ppm) < PpmSize
  /\ Find("macro", name) # None
  /\ PushMacro(name, FALSE)
  /\ UNCHANGED <<stack, frames, isFileScope, outer, kept, constructs, parsing>>

(* The parser returns, at the end of the file or because it gave up. *)
StopParsing ==
  /\ parsing # "no"
  /\ parsing' = "no" /\ constructs' = <<>>
  /\ UNCHANGED <<memory, table, kept>>

(***************************************************************************)
(* What is kept between files                                              *)
(***************************************************************************)
(* recoverSymbolTableMemory(), after both indices have been set back *)
Recovered(free, macros) ==
  LET freed(p) == IF p > 0 THEN p > free ELSE -p > macros
      chain[n \in 0..Len(table)] ==
        IF n = 0 THEN <<>>
        ELSE IF freed(table[n]) THEN chain[n - 1]
        ELSE Append(chain[n - 1], table[n])
  IN  chain[Len(table)]

RecoveredCells(free) ==
  [i \in 1..free |-> IF stack[i].members > free THEN [stack[i] EXCEPT !.members = None]
                     ELSE stack[i]]

(* A yacc file begins with a block of its own, that nothing ends. *)
EnterFile(free, operation, yacc) ==
  /\ frames' = <<>>
  /\ isFileScope' = yacc
  /\ outer' = IF yacc THEN <<[free |-> free, frames |-> <<>>, isFileScope |-> FALSE]>> ELSE <<>>
  /\ parsing' = operation
  /\ UNCHANGED constructs

(* initializeFileProcessing(), the file is of the project of the last one *)
NextFile(operation, yacc) ==
  /\ parsing = "no" /\ project.saved
  /\ table' = Recovered(project.free, project.ppm)
  /\ stack' = RecoveredCells(project.free)
  /\ ppm' = SubSeq(ppm, 1, project.ppm)
  /\ EnterFile(project.free, operation, yacc)
  /\ UNCHANGED kept

(* the file is of another project: loadProjectSettings() *)
NextProject(defines, operation, yacc) ==
  /\ parsing = "no"
  /\ LET from == IF clean.saved THEN clean
                 ELSE [saved |-> TRUE, free |-> Len(stack), ppm |-> Len(ppm)]
         macros == [i \in DOMAIN defines |->
                      [type |-> "macro", name |-> defines[i], defined |-> TRUE]]
     IN  /\ clean' = from
         /\ stack' = RecoveredCells(from.free)
         /\ ppm' = SubSeq(ppm, 1, from.ppm) \o macros
         /\ table' = Reverse([i \in DOMAIN defines |-> -(from.ppm + i)])
                       \o Recovered(from.free, from.ppm)
         /\ project' = [saved |-> TRUE, free |-> from.free, ppm |-> from.ppm + Len(defines)]
         /\ EnterFile(from.free, operation, yacc)

(***************************************************************************)
Unsaved == [saved |-> FALSE, free |-> 0, ppm |-> 0]

(* initializeCoreSubsystems() *)
Init ==
  /\ stack = <<Keyword>> /\ table = <<1>>
  /\ frames = <<>> /\ isFileScope = FALSE /\ outer = <<>>
  /\ ppm = <<>>
  /\ clean = Unsaved /\ project = Unsaved
  /\ constructs = <<>> /\ parsing = "no"

Next ==
  \/ \E name \in Names :
       \/ Declare(name) \/ UseTag(name) \/ BeginTag(name)
       \/ Define(name) \/ Undefine(name)
       \/ \E parameters \in {<<>>, <<name>>} : \E f \in Names : BeginFunction(f, parameters)
  \/ EndFunction \/ BeginCompound \/ EndCompound \/ BeginLoop \/ EndLoop \/ EndTag \/ EndEmptyTag
  \/ StopParsing
  \/ \E operation \in Operations, yacc \in BOOLEAN :
       \/ NextFile(operation, yacc)
       \/ \E defines \in {<<>>} \cup {<<name>> : name \in Names} :
            NextProject(defines, operation, yacc)

Spec == Init /\ [][Next]_vars

(***************************************************************************)
(* The scopes behind the two memories: block d holds what was allocated    *)
(* after the free index it began with.                                     *)
(***************************************************************************)
Blocks == Append(outer, CurrentBlock)

(* The pointers of a chain that are among some, in the order of the chain *)
Among(tab, pointers) ==
  LET chain[n \in 0..Len(tab)] ==
        IF n = 0 THEN <<>>
        ELSE IF tab[n] \in pointers THEN Append(chain[n - 1], tab[n])
        ELSE chain[n - 1]
  IN  chain[Len(tab)]

Described(cell) ==
  [type |-> cell.type, name |-> cell.name, complete |-> cell.members # None, global |-> cell.global]

SymbolsBetween(cells, tab, low, high) ==
  LET own == Among(tab, (low + 1)..high)
  IN  [i \in DOMAIN own |-> Described(cells[own[i]])]

ScopesOf(cells, tab, blocks) ==
  [d \in DOMAIN blocks |->
     [fileScope |-> blocks[d].isFileScope,
      symbols |-> SymbolsBetween(cells, tab, IF d = 1 THEN 0 ELSE blocks[d - 1].free, blocks[d].free)]]

MacrosOf(cells, pointers) ==
  [i \in DOMAIN pointers |-> [name |-> cells[-pointers[i]].name,
                              defined |-> cells[-pointers[i]].defined]]

Promise ==
  INSTANCE Scopes WITH
    scopes <- ScopesOf(stack, table, Blocks),
    macros <- MacrosOf(ppm, Among(table, (-Len(ppm))..(-1))),
    projectMacros <- MacrosOf(ppm, Reverse(Macros(SubSeq(ppm, 1, project.ppm)))),
    Keywords <- <<Described(Keyword)>>

(***************************************************************************)
(* Properties                                                              *)
(***************************************************************************)
TypeOK ==
  /\ \A i \in DOMAIN table : -PpmSize <= table[i] /\ table[i] < StackSize /\ table[i] # None
  /\ Len(stack) < StackSize /\ Len(ppm) <= PpmSize
  /\ \A i \in DOMAIN frames : frames[i].do \in {"delete", "null"}
  /\ {isFileScope, clean.saved, project.saved} \subseteq BOOLEAN
  /\ parsing \in {"no"} \cup Operations /\ Len(constructs) <= MaxNesting

(* Nothing that is reachable has been freed: a symbol in a bucket chain, a  *)
(* tag's members, a frame's argument or what a construct will be ended     *)
(* with would otherwise be read from memory that holds something else.     *)
NothingDangles ==
  LET good(p) == IF p > 0 THEN p <= Len(stack) ELSE -p <= Len(ppm)
  IN  /\ \A i \in DOMAIN table : good(table[i])
      /\ \A i \in DOMAIN stack : good(stack[i].members)
      /\ \A i \in DOMAIN frames : good(frames[i].symbol)
      /\ \A i \in DOMAIN constructs : good(constructs[i].symbol)

(* The table, the blocks and the checkpoints keep what Scopes promises:     *)
(* endBlock() takes back exactly its own block's symbols and a file starts *)
(* with those of its project.                                              *)
KeepsScopes == Promise!Spec

(* A name is looked up newest first, which must be innermost first, though *)
(* labels and tags come and go without a frame of their own.               *)
InnermostFirst ==
  \A i, j \in DOMAIN table :
    i < j /\ table[i] > 0 /\ table[j] > 0 => table[i] > table[j]

=============================================================================
